---------------------------- MODULE ConsoleProofs ----------------------------
(***************************************************************************)
(* Proofs about Console with Printk and Traps: first what a format turns   *)
(* into, then how it gets to the screen.                                   *)
(***************************************************************************)
EXTENDS Console, SequenceTheorems, WellFoundedInduction, TLAPS

\* What a text is made of.
Digit  == {Lower[i] : i \in 1 .. 16} \cup {Upper[i] : i \in 1 .. 16}
Glyphs == STRING \cup Digit \cup {" ", "-", "+", "x", "X", "%"}

-----------------------------------------------------------------------------
(* Induction, for sets of numbers.                                         *)
LEMMA LeastOf ==
  ASSUME NEW T \in SUBSET Nat, T # {}
  PROVE  \E x \in T : \A y \in T : x <= y
<1>1. PICK x \in T : \A y \in T : <<y, x>> \notin OpToRel(<, Nat)
  BY WFMin, NatLessThanWellFounded, Zenon
<1>2. \A y \in T : ~(y < x)
  BY <1>1 DEF OpToRel
<1>3. QED
  BY <1>2

(* What holds of a number when it holds of all smaller ones holds of all.  *)
LEMMA Induction ==
  ASSUME NEW S, \A n \in Nat : (\A m \in Nat : m < n => m \in S) => n \in S
  PROVE  Nat \subseteq S
<1> SUFFICES ASSUME Nat \ S # {} PROVE FALSE
  OBVIOUS
<1>1. PICK x \in Nat \ S : \A y \in Nat \ S : x <= y
  <2>1. Nat \ S \in SUBSET Nat
    OBVIOUS
  <2>2. QED
    BY <2>1, LeastOf
<1>2. \A m \in Nat : m < x => m \in S
  BY <1>1
<1>3. QED
  BY <1>1, <1>2

(* The concatenation of texts, as FlattenSeq makes it: one after the other. *)
Joins(g, s, m) == g = [i \in 1 .. m |-> IF i = 1 THEN s[i] ELSE g[i - 1] \o s[i]]

(* FlattenSeq is recursive: the beginnings it joins exist,                 *)
LEMMA JoinsExist ==
  ASSUME NEW s, NEW n \in Nat
  PROVE  \E g : Joins(g, s, n)
<1> DEFINE S == {m \in Nat : \E g : Joins(g, s, m)}
<1>1. ASSUME NEW m \in Nat, \A k \in Nat : k < m => k \in S
      PROVE  m \in S
  <2>1. CASE m = 0
    <3>1. Joins(<<>>, s, 0)
      BY DEF Joins
    <3>2. QED
      BY <2>1, <3>1
  <2>2. CASE m # 0
    <3>1. m - 1 \in S /\ m - 1 \in Nat
      BY <1>1, <2>2
    <3>2. PICK g : Joins(g, s, m - 1)
      BY <3>1
    <3>3. g = [i \in 1 .. m - 1 |-> IF i = 1 THEN s[i] ELSE g[i - 1] \o s[i]]
      BY <3>2 DEF Joins
    <3> DEFINE h == [i \in 1 .. m |-> IF i <= m - 1 THEN g[i]
                                      ELSE IF i = 1 THEN s[i] ELSE g[i - 1] \o s[i]]
    <3>4. \A i \in 1 .. m : h[i] = IF i = 1 THEN s[i] ELSE h[i - 1] \o s[i]
      <4> SUFFICES ASSUME NEW i \in 1 .. m
                   PROVE  h[i] = IF i = 1 THEN s[i] ELSE h[i - 1] \o s[i]
        OBVIOUS
      <4>1. i # 1 => i - 1 \in 1 .. m /\ i - 1 <= m - 1
        BY <2>2
      <4>2. i # 1 => h[i - 1] = g[i - 1]
        BY <4>1
      <4>3. CASE i <= m - 1
        <5>1. i \in 1 .. m - 1
          BY <4>3
        <5>2. g[i] = IF i = 1 THEN s[i] ELSE g[i - 1] \o s[i]
          BY <3>3, <5>1, Zenon
        <5>3. h[i] = g[i]
          BY <4>3
        <5>4. QED
          BY <4>2, <5>2, <5>3, Zenon
      <4>4. CASE ~(i <= m - 1)
        BY <4>2, <4>4
      <4>5. QED
        BY <4>3, <4>4
    <3>5. Joins(h, s, m)
      BY <3>4 DEF Joins
    <3>6. QED
      BY <3>5
  <2>3. QED
    BY <2>1, <2>2
<1>2. Nat \subseteq S
  <2> HIDE DEF S
  <2>1. QED
    BY <1>1, Induction
<1>3. QED
  BY <1>2

HasParts(s, n) ==
  \E g : /\ g \in [1 .. n -> Seq(Glyphs)]
         /\ g[1] = s[1]
         /\ \A i \in 2 .. n : g[i] = g[i - 1] \o s[i]
         /\ FlattenSeq(s) = g[n]

(* The text of the first k items of a message.                             *)
LEMMA TextParts ==
  ASSUME NEW n \in Nat \ {0}, NEW s \in [1 .. n -> Seq(Glyphs)]
  PROVE  HasParts(s, n)
<1>1. Len(s) = n
  OBVIOUS
<1>2. \E h : Joins(h, s, n)
  BY JoinsExist
<1>3. PICK g : Joins(g, s, n) /\ FlattenSeq(s) = g[n]
  BY <1>1, <1>2 DEF FlattenSeq, Joins
<1>4. DOMAIN g = 1 .. n /\ \A i \in 1 .. n : g[i] = IF i = 1 THEN s[i] ELSE g[i - 1] \o s[i]
  BY <1>3 DEF Joins
<1>5. g[1] = s[1] /\ \A i \in 2 .. n : g[i] = g[i - 1] \o s[i]
  <2>1. 1 \in 1 .. n /\ \A i \in 2 .. n : i \in 1 .. n /\ i # 1
    OBVIOUS
  <2>2. QED
    BY <1>4, <2>1, Zenon
<1> DEFINE S == {m \in Nat : m \in 1 .. n => g[m] \in Seq(Glyphs)}
<1>6. ASSUME NEW m \in Nat, \A k \in Nat : k < m => k \in S
      PROVE  m \in S
  <2>1. CASE m \in 2 .. n
    <3>1. PICK k : k = m - 1
      OBVIOUS
    <3>2. k \in Nat /\ k < m /\ k \in 1 .. n /\ m \in 1 .. n
      BY <2>1, <3>1
    <3>3. g[k] \in Seq(Glyphs)
      BY <1>6, <3>2
    <3>4. s[m] \in Seq(Glyphs)
      BY <3>2
    <3>5. g[m] = g[k] \o s[m]
      BY <1>5, <2>1, <3>1, Zenon
    <3>6. g[m] \in Seq(Glyphs)
      <4>1. \A a, b \in Seq(Glyphs) : a \o b \in Seq(Glyphs)
        BY ConcatProperties
      <4>2. QED
        BY <3>3, <3>4, <3>5, <4>1, Zenon
    <3>7. QED
      BY <3>6
  <2>2. QED
    BY <1>5, <2>1
<1>7. Nat \subseteq S
  <2> HIDE DEF S
  <2>1. QED
    BY <1>6, Induction
<1>8. g \in [1 .. n -> Seq(Glyphs)]
  <2>1. \A m \in 1 .. n : g[m] \in Seq(Glyphs)
    BY <1>7
  <2>2. g = [i \in 1 .. n |-> g[i]]
    BY <1>3 DEF Joins
  <2>3. QED
    BY <2>1, <2>2
<1>9. QED
  BY <1>3, <1>5, <1>8, Zenon DEF HasParts

-----------------------------------------------------------------------------
(* Division by the bases of the conversions.                               *)
Bases == {8, 10, 16}

(* Division of numbers, and that it makes a number of two digits smaller.  *)
LEMMA DivMod ==
  ASSUME NEW n \in Nat, NEW base \in Bases
  PROVE  \E q \in Nat, r \in 0 .. base - 1 :
           /\ q = n \div base /\ r = n % base /\ n = base * q + r
           /\ n >= base => q < n /\ q # 0
<1>1. CASE base = 8
  <2>1. PICK q, r : q = n \div 8 /\ r = n % 8
    OBVIOUS
  <2>2. q \in Nat /\ r \in 0 .. 7 /\ n = 8 * q + r
    BY <2>1
  <2>3. n >= 8 => q < n /\ q # 0
    BY <2>2
  <2>4. r \in 0 .. base - 1 /\ n = base * q + r /\ (n >= base => q < n /\ q # 0)
    BY <1>1, <2>2, <2>3
  <2>5. q = n \div base /\ r = n % base
    BY <1>1, <2>1, Zenon
  <2>6. QED
    BY <2>2, <2>4, <2>5, Zenon
<1>2. CASE base = 10
  <2>1. PICK q, r : q = n \div 10 /\ r = n % 10
    OBVIOUS
  <2>2. q \in Nat /\ r \in 0 .. 9 /\ n = 10 * q + r
    BY <2>1
  <2>3. n >= 10 => q < n /\ q # 0
    BY <2>2
  <2>4. r \in 0 .. base - 1 /\ n = base * q + r /\ (n >= base => q < n /\ q # 0)
    BY <1>2, <2>2, <2>3
  <2>5. q = n \div base /\ r = n % base
    BY <1>2, <2>1, Zenon
  <2>6. QED
    BY <2>2, <2>4, <2>5, Zenon
<1>3. CASE base = 16
  <2>1. PICK q, r : q = n \div 16 /\ r = n % 16
    OBVIOUS
  <2>2. q \in Nat /\ r \in 0 .. 15 /\ n = 16 * q + r
    BY <2>1
  <2>3. n >= 16 => q < n /\ q # 0
    BY <2>2
  <2>4. r \in 0 .. base - 1 /\ n = base * q + r /\ (n >= base => q < n /\ q # 0)
    BY <1>3, <2>2, <2>3
  <2>5. q = n \div base /\ r = n % base
    BY <1>3, <2>1, Zenon
  <2>6. QED
    BY <2>2, <2>4, <2>5, Zenon
<1>4. QED
  BY <1>1, <1>2, <1>3 DEF Bases

\* The value of the first k digits, for each k.
Values(v, digits, base) ==
  v = [k \in 0 .. Len(digits) |-> IF k = 0 THEN 0 ELSE base * v[k - 1] + digits[k]]

(* What Value computes is what adding digit by digit comes to.             *)
LEMMA ValueIs ==
  ASSUME NEW digits, Len(digits) \in Nat, NEW base, NEW v, Values(v, digits, base)
  PROVE  Value(digits, base) = v[Len(digits)]
<1>1. PICK w : Values(w, digits, base) /\ Value(digits, base) = w[Len(digits)]
  BY DEF Value, Values
<1> DEFINE S == {k \in Nat : k <= Len(digits) => w[k] = v[k]}
<1>2. ASSUME NEW n \in Nat, \A k \in Nat : k < n => k \in S
      PROVE  n \in S
  <2>1. CASE n <= Len(digits) /\ n # 0
    <3>1. n - 1 \in S /\ n - 1 <= Len(digits) /\ n \in 0 .. Len(digits)
      BY <1>2, <2>1
    <3>2. w[n - 1] = v[n - 1]
      BY <3>1
    <3>3. w[n] = base * w[n - 1] + digits[n]
      BY <1>1, <2>1, <3>1, Zenon DEF Values
    <3>4. v[n] = base * v[n - 1] + digits[n]
      BY <2>1, <3>1, Zenon DEF Values
    <3>5. w[n] = v[n]
      BY <3>2, <3>3, <3>4, Zenon
    <3>6. QED
      BY <3>5
  <2>2. CASE n = 0
    <3>1. 0 \in 0 .. Len(digits)
      OBVIOUS
    <3>2. w[0] = 0 /\ v[0] = 0
      BY <1>1, <3>1, Zenon DEF Values
    <3>3. QED
      BY <2>2, <3>2
  <2>3. QED
    BY <2>1, <2>2
<1>3. Nat \subseteq S
  <2> HIDE DEF S
  <2>1. QED
    BY <1>2, Induction
<1>4. QED
  BY <1>1, <1>3

\* Digits whose value is n, without leading zeros.
Numbers(t, n, base) ==
  /\ t \in Seq(0 .. base - 1) /\ Len(t) >= 1
  /\ Len(t) > 1 => t[1] # 0
  /\ n # 0 => t[1] # 0
  /\ \E v \in [0 .. Len(t) -> Nat] : Values(v, t, base) /\ v[Len(t)] = n

(* One more digit.                                                         *)
LEMMA OneMore ==
  ASSUME NEW base \in Bases, NEW t, NEW q \in Nat \ {0}, Numbers(t, q, base),
         NEW d \in 0 .. base - 1
  PROVE  Numbers(Append(t, d), base * q + d, base)
<1> DEFINE u == Append(t, d)
<1>1. base \in Nat /\ base >= 8
  BY DEF Bases
<1>2. /\ t \in Seq(0 .. base - 1) /\ Len(t) \in Nat /\ Len(t) >= 1 /\ t[1] # 0
  BY DEF Numbers
<1>3. /\ u \in Seq(0 .. base - 1) /\ Len(u) = Len(t) + 1
      /\ \A i \in 1 .. Len(t) : u[i] = t[i]
      /\ u[Len(t) + 1] = d
  BY <1>2, AppendProperties
<1>4. PICK v \in [0 .. Len(t) -> Nat] : Values(v, t, base) /\ v[Len(t)] = q
  BY DEF Numbers
<1> DEFINE w == [k \in 0 .. Len(u) |-> IF k <= Len(t) THEN v[k] ELSE base * q + d]
<1>5. base * q + d \in Nat
  BY <1>1
<1>6. w \in [0 .. Len(u) -> Nat] /\ w[Len(u)] = base * q + d
  BY <1>2, <1>3, <1>4, <1>5
<1>7. \A k \in 0 .. Len(u) : w[k] = IF k = 0 THEN 0 ELSE base * w[k - 1] + u[k]
  <2> SUFFICES ASSUME NEW k \in 0 .. Len(u)
               PROVE  w[k] = IF k = 0 THEN 0 ELSE base * w[k - 1] + u[k]
    OBVIOUS
  <2>1. CASE k <= Len(t)
    <3>1. k \in 0 .. Len(t) /\ w[k] = v[k]
      BY <1>3, <2>1
    <3>2. v[k] = IF k = 0 THEN 0 ELSE base * v[k - 1] + t[k]
      BY <1>4, <3>1, Zenon DEF Values
    <3>3. k # 0 => k \in 1 .. Len(t) /\ k - 1 \in 0 .. Len(u) /\ k - 1 <= Len(t)
      BY <1>2, <1>3, <2>1
    <3>4. k # 0 => w[k - 1] = v[k - 1] /\ u[k] = t[k]
      BY <1>3, <3>3
    <3>5. QED
      BY <3>1, <3>2, <3>4, Zenon
  <2>2. CASE k = Len(t) + 1
    <3>1. k # 0 /\ k - 1 = Len(t) /\ Len(t) \in 0 .. Len(u)
      BY <1>2, <1>3, <2>2
    <3>2. w[k - 1] = q
      BY <1>4, <3>1
    <3>3. w[k] = base * q + d
      BY <1>2, <2>2
    <3>4. u[k] = d
      BY <1>3, <2>2
    <3>5. QED
      BY <3>1, <3>2, <3>3, <3>4, Zenon
  <2>3. QED
    BY <1>2, <1>3, <2>1, <2>2
<1>8. Values(w, u, base)
  <2> HIDE DEF u
  <2>1. w = [k \in 0 .. Len(u) |-> w[k]]
    BY <1>6
  <2> HIDE DEF w
  <2>2. QED
    BY <1>7, <2>1, Zenon DEF Values
<1>9. u[1] # 0 /\ Len(u) >= 1
  BY <1>2, <1>3
<1>10. QED
  <2> HIDE DEF u, w
  <2>1. base * q + d # 0 => u[1] # 0
    BY <1>9
  <2>2. \E x \in [0 .. Len(u) -> Nat] : Values(x, u, base) /\ x[Len(u)] = base * q + d
    BY <1>6, <1>8, Zenon
  <2>3. u \in Seq(0 .. base - 1) /\ Len(u) >= 1
    BY <1>3, <1>9
  <2>4. Numbers(u, base * q + d, base)
    BY <1>9, <2>1, <2>2, <2>3, Zenon DEF Numbers
  <2>5. QED
    BY <2>4 DEF u

(* A single digit.                                                         *)
LEMMA OneDigit ==
  ASSUME NEW base \in Bases, NEW d \in 0 .. base - 1
  PROVE  Numbers(<<d>>, d, base)
<1> DEFINE v == [k \in 0 .. 1 |-> IF k = 0 THEN 0 ELSE d]
<1>1. base \in Nat /\ d \in Nat
  BY DEF Bases
<1>2. <<d>> \in Seq(0 .. base - 1) /\ Len(<<d>>) = 1 /\ <<d>>[1] = d
  OBVIOUS
<1>3. v \in [0 .. 1 -> Nat] /\ v[1] = d /\ v[0] = 0
  BY <1>1
<1>4. Values(v, <<d>>, base)
  <2>1. base * 0 + d = d
    BY <1>1
  <2>2. \A k \in 0 .. 1 : v[k] = IF k = 0 THEN 0 ELSE base * v[k - 1] + <<d>>[k]
    <3> SUFFICES ASSUME NEW k \in 0 .. 1
                 PROVE  v[k] = IF k = 0 THEN 0 ELSE base * v[k - 1] + <<d>>[k]
      OBVIOUS
    <3>1. CASE k = 0
      BY <3>1
    <3>2. CASE k = 1
      <4>1. k - 1 = 0
        BY <3>2
      <4> HIDE DEF v
      <4>2. base * v[k - 1] + <<d>>[k] = d
        BY <1>2, <1>3, <2>1, <3>2, <4>1, Zenon
      <4>3. QED
        BY <1>3, <3>2, <4>2
    <3>3. QED
      BY <3>1, <3>2
  <2>3. v = [k \in 0 .. 1 |-> v[k]]
    OBVIOUS
  <2> HIDE DEF v
  <2>4. v = [k \in 0 .. Len(<<d>>) |-> IF k = 0 THEN 0 ELSE base * v[k - 1] + <<d>>[k]]
    BY <1>2, <2>2, <2>3, Zenon
  <2>5. QED
    BY <2>4 DEF Values
<1>5. QED
  <2> HIDE DEF v
  <2>1. \E x \in [0 .. Len(<<d>>) -> Nat] : Values(x, <<d>>, base) /\ x[Len(<<d>>)] = d
    BY <1>2, <1>3, <1>4, Zenon
  <2>2. QED
    BY <1>2, <2>1 DEF Numbers

\* The numerals of the numbers up to n.
Numerals(f, base, n) ==
  f = [k \in 0 .. n |-> IF k < base THEN <<k>> ELSE Append(f[k \div base], k % base)]

(* Numeral is recursive too: the digits of all numbers exist,              *)
LEMMA NumeralsExist ==
  ASSUME NEW n \in Nat, NEW base \in Bases
  PROVE  \E f : Numerals(f, base, n)
<1> DEFINE S == {m \in Nat : \E f : Numerals(f, base, m)}
<1>0. base \in Nat /\ base > 0
  BY DEF Bases
<1>1. ASSUME NEW m \in Nat, \A k \in Nat : k < m => k \in S
      PROVE  m \in S
  <2>1. \E f : f = [k \in 0 .. m - 1 |->
                      IF k < base THEN <<k>> ELSE Append(f[k \div base], k % base)]
    <3>1. CASE m = 0
      <4>1. 0 .. m - 1 = {}
        BY <3>1
      <4>2. <<>> = [k \in 0 .. m - 1 |->
                      IF k < base THEN <<k>> ELSE Append(<<>>[k \div base], k % base)]
        BY <4>1
      <4>3. QED
        BY <4>2
    <3>2. CASE m # 0
      <4>1. m - 1 \in S
        BY <1>1, <3>2
      <4>2. QED
        BY <4>1 DEF Numerals
    <3>3. QED
      BY <3>1, <3>2
  <2>2. PICK f : f = [k \in 0 .. m - 1 |->
                      IF k < base THEN <<k>> ELSE Append(f[k \div base], k % base)]
    BY <2>1
  <2> DEFINE g == [k \in 0 .. m |->
                     IF k < m THEN f[k]
                     ELSE IF k < base THEN <<k>> ELSE Append(f[k \div base], k % base)]
  <2>3. \A k \in 0 .. m : g[k] = IF k < base THEN <<k>> ELSE Append(g[k \div base], k % base)
    <3> SUFFICES ASSUME NEW k \in 0 .. m
                 PROVE  g[k] = IF k < base THEN <<k>> ELSE Append(g[k \div base], k % base)
      OBVIOUS
    <3>1. k >= base => g[k \div base] = f[k \div base]
      <4>1. PICK q \in Nat : q = k \div base /\ (k >= base => q < k)
        BY DivMod
      <4>2. k >= base => g[q] = f[q]
        BY <4>1
      <4>3. QED
        BY <4>1, <4>2, Zenon
    <3>2. f[k] = g[k] \/ k = m
      OBVIOUS
    <3>3. CASE k < m
      <4>1. f[k] = IF k < base THEN <<k>> ELSE Append(f[k \div base], k % base)
        <5>1. k \in 0 .. m - 1
          BY <3>3
        <5>2. QED
          BY <2>2, <5>1, Zenon
      <4>2. g[k] = f[k]
        BY <3>3
      <4>3. k < base \/ k >= base
        BY <1>0
      <4> HIDE DEF g
      <4>4. QED
        BY <3>1, <4>1, <4>2, <4>3, Zenon
    <3>4. CASE k = m
      <4>1. g[k] = IF k < base THEN <<k>> ELSE Append(f[k \div base], k % base)
        BY <3>4
      <4>2. k < base \/ k >= base
        BY <1>0
      <4> HIDE DEF g
      <4>3. QED
        BY <3>1, <4>1, <4>2, Zenon
    <3>5. QED
      BY <3>3, <3>4
  <2>4. g = [k \in 0 .. m |-> g[k]]
    OBVIOUS
  <2> HIDE DEF g
  <2>5. Numerals(g, base, m)
    BY <2>3, <2>4, Zenon DEF Numerals
  <2>6. QED
    BY <2>5
<1>2. Nat \subseteq S
  <2> HIDE DEF S
  <2>1. QED
    BY <1>1, Induction
<1>3. QED
  BY <1>2

(* The loop over do_div writes n.                                          *)
LEMMA NumeralIsRight ==
  ASSUME NEW n \in Nat, NEW base \in Bases
  PROVE  Numbers(Numeral(n, base), n, base)
<1>1. \E f : Numerals(f, base, n)
  BY NumeralsExist
<1>2. PICK f : Numerals(f, base, n) /\ Numeral(n, base) = f[n]
  BY <1>1 DEF Numeral, Numerals
<1> DEFINE S == {k \in Nat : k <= n => Numbers(f[k], k, base)}
<1>3. ASSUME NEW m \in Nat, \A k \in Nat : k < m => k \in S
      PROVE  m \in S
  <2> SUFFICES ASSUME m <= n PROVE Numbers(f[m], m, base)
    OBVIOUS
  <2>1. f[m] = IF m < base THEN <<m>> ELSE Append(f[m \div base], m % base)
    <3>1. m \in 0 .. n
      OBVIOUS
    <3>2. QED
      BY <1>2, <3>1, Zenon DEF Numerals
  <2>2. CASE m < base
    <3>1. m \in 0 .. base - 1 /\ f[m] = <<m>>
      BY <2>1, <2>2 DEF Bases
    <3>2. QED
      BY <3>1, OneDigit
  <2>3. CASE ~(m < base)
    <3>1. PICK q \in Nat, r \in 0 .. base - 1 :
            /\ q = m \div base /\ r = m % base /\ m = base * q + r
            /\ m >= base => q < m /\ q # 0
      BY DivMod
    <3>2. q < m /\ q # 0
      BY <2>3, <3>1 DEF Bases
    <3>3. Numbers(f[q], q, base)
      BY <1>3, <3>2
    <3>4. f[m] = Append(f[q], r)
      BY <2>1, <2>3, <3>1, Zenon
    <3>5. Numbers(Append(f[q], r), base * q + r, base)
      BY <3>2, <3>3, OneMore
    <3>6. QED
      BY <3>1, <3>4, <3>5, Zenon
  <2>4. QED
    BY <2>2, <2>3
<1>4. Nat \subseteq S
  <2> HIDE DEF S
  <2>1. QED
    BY <1>3, Induction
<1>5. QED
  BY <1>2, <1>4

-----------------------------------------------------------------------------
(* The letters of the digits are found again.                              *)
LEMMA LettersDiffer ==
  ASSUME NEW letters \in {Lower, Upper}
  PROVE  /\ letters \in Seq(Glyphs) /\ DOMAIN letters = 1 .. 16
         /\ \A i, j \in 1 .. 16 : letters[i] = letters[j] => i = j
<1>1. Lower \in Seq(Glyphs) /\ Upper \in Seq(Glyphs)
  <2>1. \A i \in 1 .. 16 : Lower[i] \in Glyphs /\ Upper[i] \in Glyphs
    BY DEF Glyphs, Digit
  <2>2. Lower = [i \in 1 .. 16 |-> Lower[i]] /\ Upper = [i \in 1 .. 16 |-> Upper[i]]
    BY DEF Lower, Upper
  <2>3. QED
    BY <2>1, <2>2
<1>2. DOMAIN Lower = 1 .. 16 /\ DOMAIN Upper = 1 .. 16
  BY DEF Lower, Upper
<1>3. \A i, j \in 1 .. 16 : Lower[i] = Lower[j] => i = j
  BY DEF Lower
<1>4. \A i, j \in 1 .. 16 : Upper[i] = Upper[j] => i = j
  BY DEF Upper
<1>5. QED
  BY <1>1, <1>2, <1>3, <1>4, Zenon

(* A letter stands for one digit.                                          *)
LEMMA LetterIsFound ==
  ASSUME NEW letters \in {Lower, Upper}, NEW d \in 0 .. 15
  PROVE  DigitValue(letters[d + 1], letters) = d
<1>1. d + 1 \in 1 .. 16
  OBVIOUS
<1>2. \E k \in DOMAIN letters : letters[k] = letters[d + 1]
  BY <1>1, LettersDiffer
<1>3. PICK k : k = CHOOSE i \in DOMAIN letters : letters[i] = letters[d + 1]
  OBVIOUS
<1>4. k \in DOMAIN letters /\ letters[k] = letters[d + 1]
  BY <1>2, <1>3, Zenon
<1>5. k \in 1 .. 16 /\ k = d + 1
  BY <1>1, <1>4, LettersDiffer
<1>6. DigitValue(letters[d + 1], letters) = k - 1
  BY <1>3 DEF DigitValue
<1>7. QED
  BY <1>5, <1>6

\* Digits with z zeros before those of t.
Padded(t, z) == [i \in 1 .. z + Len(t) |-> IF i <= z THEN 0 ELSE t[i - z]]

(* Leading zeros change nothing.                                           *)
LEMMA LeadingZeros ==
  ASSUME NEW n \in Nat, NEW base \in Bases, NEW t, Numbers(t, n, base), NEW z \in Nat
  PROVE  Value(Padded(t, z), base) = n
<1>0. base \in Nat
  BY DEF Bases
<1>1. t \in Seq(0 .. base - 1) /\ Len(t) \in Nat /\ Len(t) >= 1
  BY DEF Numbers
<1>2. PICK v \in [0 .. Len(t) -> Nat] : Values(v, t, base) /\ v[Len(t)] = n
  BY DEF Numbers
<1> DEFINE u == Padded(t, z)
           w == [k \in 0 .. z + Len(t) |-> IF k <= z THEN 0 ELSE v[k - z]]
<1>3. Len(u) = z + Len(t) /\ Len(u) \in Nat
  BY <1>1 DEF Padded
<1>4. \A k \in 0 .. Len(t) : v[k] = IF k = 0 THEN 0 ELSE base * v[k - 1] + t[k]
  BY <1>2, Zenon DEF Values
<1>5. v[0] = 0
  <2>1. 0 \in 0 .. Len(t)
    BY <1>1
  <2>2. QED
    BY <1>4, <2>1, Zenon
<1>6. \A k \in 0 .. z + Len(t) : w[k] = IF k = 0 THEN 0 ELSE base * w[k - 1] + u[k]
  <2> SUFFICES ASSUME NEW k \in 0 .. z + Len(t)
               PROVE  w[k] = IF k = 0 THEN 0 ELSE base * w[k - 1] + u[k]
    OBVIOUS
  <2>1. CASE k = 0
    BY <2>1
  <2>2. CASE k # 0 /\ k <= z
    <3>1. w[k] = 0 /\ w[k - 1] = 0 /\ u[k] = 0
      BY <1>1, <2>2 DEF Padded
    <3>2. base * 0 + 0 = 0
      BY <1>0
    <3> HIDE DEF w, u
    <3>3. QED
      BY <2>2, <3>1, <3>2, Zenon
  <2>3. CASE k > z
    <3>1. k - z \in 1 .. Len(t) /\ k - z \in 0 .. Len(t) /\ k - z # 0
      BY <1>1, <2>3
    <3>2. w[k] = v[k - z] /\ u[k] = t[k - z]
      BY <1>1, <2>3 DEF Padded
    <3>3. w[k - 1] = v[(k - z) - 1]
      <4>1. CASE k - 1 <= z
        <5>1. (k - z) - 1 = 0 /\ w[k - 1] = 0
          BY <2>3, <4>1
        <5> HIDE DEF w
        <5>2. QED
          BY <1>5, <5>1, Zenon
      <4>2. CASE ~(k - 1 <= z)
        <5>1. w[k - 1] = v[(k - 1) - z] /\ (k - 1) - z = (k - z) - 1
          BY <2>3, <4>2
        <5> HIDE DEF w
        <5>2. QED
          BY <5>1, Zenon
      <4>3. QED
        BY <4>1, <4>2
    <3>4. v[k - z] = base * v[(k - z) - 1] + t[k - z]
      BY <1>4, <3>1, Zenon
    <3>5. k # 0
      BY <2>3
    <3> HIDE DEF w, u
    <3>6. QED
      BY <3>2, <3>3, <3>4, <3>5, Zenon
  <2>4. QED
    BY <2>1, <2>2, <2>3
<1>7. w = [k \in 0 .. z + Len(t) |-> w[k]]
  OBVIOUS
<1>8. w[z + Len(t)] = n
  BY <1>1, <1>2
<1> HIDE DEF w, u
<1>9. Values(w, u, base)
  BY <1>3, <1>6, <1>7, Zenon DEF Values
<1>10. Value(u, base) = w[Len(u)]
  BY <1>3, <1>9, ValueIs
<1>11. QED
  BY <1>3, <1>8, <1>10, Zenon DEF u

-----------------------------------------------------------------------------
(* The parts of a text are found in it.                                    *)
LEMMA PartIs ==
  ASSUME NEW S, NEW text \in Seq(S), NEW from \in Nat, NEW P \in Seq(S),
         from + Len(P) <= Len(text),
         \A i \in 1 .. Len(P) : text[from + i] = P[i]
  PROVE  SubSeq(text, from + 1, from + Len(P)) = P
<1>1. Len(P) \in Nat /\ Len(text) \in Nat
  OBVIOUS
<1> DEFINE Q == SubSeq(text, from + 1, from + Len(P))
<1>2. \A i \in from + 1 .. from + Len(P) : text[i] \in S
  BY <1>1
<1>3. /\ Q \in Seq(S)
      /\ Len(Q) = IF from + 1 <= from + Len(P) THEN (from + Len(P)) - (from + 1) + 1 ELSE 0
      /\ \A i \in 1 .. (from + Len(P)) - (from + 1) + 1 : Q[i] = text[(from + 1) + i - 1]
  BY <1>1, <1>2, SubSeqProperties
<1>4. Len(Q) = Len(P)
  BY <1>1, <1>3
<1>5. \A i \in 1 .. Len(P) : Q[i] = P[i]
  <2> SUFFICES ASSUME NEW i \in 1 .. Len(P) PROVE Q[i] = P[i]
    OBVIOUS
  <2>1. i \in 1 .. (from + Len(P)) - (from + 1) + 1 /\ (from + 1) + i - 1 = from + i
    BY <1>1
  <2>2. Q[i] = text[from + i]
    BY <1>3, <2>1, Zenon
  <2>3. QED
    BY <2>2, Zenon
<1> HIDE DEF Q
<1>6. Q = P
  BY <1>3, <1>4, <1>5, SeqEqual
<1>7. QED
  BY <1>6 DEF Q

CutUp(text, L, H, D, R, S) ==
  /\ text \in Seq(S) /\ Len(text) = Len(L) + Len(H) + Len(D) + Len(R)
  /\ SubSeq(text, 1, Len(L)) = L
  /\ SubSeq(text, Len(L) + 1, Len(L) + Len(H)) = H
  /\ SubSeq(text, Len(L) + Len(H) + 1, Len(L) + Len(H) + Len(D)) = D
  /\ SubSeq(text, Len(L) + Len(H) + Len(D) + 1, Len(text)) = R

(* A text of four parts can be cut where they meet.                        *)
LEMMA Cuts ==
  ASSUME NEW S, NEW L \in Seq(S), NEW H \in Seq(S), NEW D \in Seq(S), NEW R \in Seq(S)
  PROVE  CutUp(((L \o H) \o D) \o R, L, H, D, R, S)
<1>101. PICK text : text = ((L \o H) \o D) \o R
  OBVIOUS
<1>1. PICK a, b, c, d : a = Len(L) /\ b = Len(H) /\ c = Len(D) /\ d = Len(R)
  OBVIOUS
<1>0. a \in Nat /\ b \in Nat /\ c \in Nat /\ d \in Nat
  BY <1>1, LenProperties
<1>2. PICK LH : LH = L \o H
  OBVIOUS
<1>3. LH \in Seq(S) /\ Len(LH) = a + b
      /\ \A i \in 1 .. a + b : LH[i] = IF i <= a THEN L[i] ELSE H[i - a]
  BY <1>1, <1>2, ConcatProperties
<1>4. PICK LHD : LHD = LH \o D
  OBVIOUS
<1>5. LHD \in Seq(S) /\ Len(LHD) = (a + b) + c
      /\ \A i \in 1 .. (a + b) + c : LHD[i] = IF i <= a + b THEN LH[i] ELSE D[i - (a + b)]
  <2>1. LH \o D \in Seq(S) /\ Len(LH \o D) = Len(LH) + Len(D)
        /\ \A i \in 1 .. Len(LH) + Len(D) :
             (LH \o D)[i] = IF i <= Len(LH) THEN LH[i] ELSE D[i - Len(LH)]
    BY <1>3, ConcatProperties
  <2>2. QED
    BY <1>1, <1>3, <1>4, <2>1, Zenon
<1>6. text = LHD \o R
  BY <1>2, <1>4, <1>101
<1>7. text \in Seq(S) /\ Len(text) = ((a + b) + c) + d
      /\ \A i \in 1 .. ((a + b) + c) + d :
           text[i] = IF i <= (a + b) + c THEN LHD[i] ELSE R[i - ((a + b) + c)]
  <2>1. LHD \o R \in Seq(S) /\ Len(LHD \o R) = Len(LHD) + Len(R)
        /\ \A i \in 1 .. Len(LHD) + Len(R) :
             (LHD \o R)[i] = IF i <= Len(LHD) THEN LHD[i] ELSE R[i - Len(LHD)]
    BY <1>5, ConcatProperties
  <2>2. Len(LHD) = (a + b) + c /\ Len(R) = d
    BY <1>1, <1>5
  <2>3. LHD \o R \in Seq(S) /\ Len(LHD \o R) = ((a + b) + c) + d
        /\ \A i \in 1 .. ((a + b) + c) + d :
             (LHD \o R)[i] = IF i <= (a + b) + c THEN LHD[i] ELSE R[i - ((a + b) + c)]
    BY <2>1, <2>2
  <2>4. QED
    BY <1>6, <2>3, Zenon
<1>8. \A i \in 1 .. a : text[0 + i] = L[i]
  <2> SUFFICES ASSUME NEW i \in 1 .. a PROVE text[0 + i] = L[i]
    OBVIOUS
  <2>1. /\ 0 + i = i /\ i <= a /\ i \in 1 .. a + b /\ i <= a + b
        /\ i \in 1 .. (a + b) + c /\ i <= (a + b) + c /\ i \in 1 .. ((a + b) + c) + d
    BY <1>0
  <2>2. QED
    BY <1>3, <1>5, <1>7, <2>1, Zenon
<1>9. \A i \in 1 .. b : text[a + i] = H[i]
  <2> SUFFICES ASSUME NEW i \in 1 .. b PROVE text[a + i] = H[i]
    OBVIOUS
  <2>1. /\ ~(a + i <= a) /\ (a + i) - a = i /\ a + i \in 1 .. a + b /\ a + i <= a + b
        /\ a + i \in 1 .. (a + b) + c /\ a + i <= (a + b) + c
        /\ a + i \in 1 .. ((a + b) + c) + d
    BY <1>0
  <2>2. QED
    BY <1>3, <1>5, <1>7, <2>1, Zenon
<1>10. \A i \in 1 .. c : text[(a + b) + i] = D[i]
  <2> SUFFICES ASSUME NEW i \in 1 .. c PROVE text[(a + b) + i] = D[i]
    OBVIOUS
  <2>1. /\ ~((a + b) + i <= a + b) /\ ((a + b) + i) - (a + b) = i
        /\ (a + b) + i \in 1 .. (a + b) + c /\ (a + b) + i <= (a + b) + c
        /\ (a + b) + i \in 1 .. ((a + b) + c) + d
    BY <1>0
  <2>2. QED
    BY <1>5, <1>7, <2>1, Zenon
<1>11. \A i \in 1 .. d : text[((a + b) + c) + i] = R[i]
  BY <1>0, <1>7
<1>12. \A from \in Nat : \A P \in Seq(S) :
         /\ from + Len(P) <= ((a + b) + c) + d
         /\ \A i \in 1 .. Len(P) : text[from + i] = P[i]
         => SubSeq(text, from + 1, from + Len(P)) = P
  BY <1>7, PartIs
<1>13. SubSeq(text, 0 + 1, 0 + a) = L
  <2>1. 0 \in Nat /\ 0 + a <= ((a + b) + c) + d
    BY <1>0
  <2>2. QED
    BY <1>1, <1>8, <1>12, <2>1, Zenon
<1>14. SubSeq(text, a + 1, a + b) = H
  <2>1. a \in Nat /\ a + b <= ((a + b) + c) + d
    BY <1>0
  <2>2. QED
    BY <1>1, <1>9, <1>12, <2>1, Zenon
<1>15. SubSeq(text, (a + b) + 1, (a + b) + c) = D
  <2>1. a + b \in Nat /\ (a + b) + c <= ((a + b) + c) + d
    BY <1>0
  <2>2. QED
    BY <1>1, <1>10, <1>12, <2>1, Zenon
<1>16. SubSeq(text, ((a + b) + c) + 1, ((a + b) + c) + d) = R
  <2>1. (a + b) + c \in Nat /\ ((a + b) + c) + d <= ((a + b) + c) + d
    BY <1>0
  <2>2. QED
    BY <1>1, <1>11, <1>12, <2>1, Zenon
<1>17. 0 + 1 = 1 /\ 0 + a = a
  BY <1>0
<1>18. CutUp(text, L, H, D, R, S)
  BY <1>1, <1>7, <1>13, <1>14, <1>15, <1>16, <1>17, Zenon DEF CutUp
<1>19. QED
  BY <1>18, <1>101

(* A run of one glyph.                                                     *)
LEMMA Repeated ==
  ASSUME NEW S, NEW glyph \in S, NEW n \in Int
  PROVE  /\ Repeat(glyph, n) \in Seq(S)
         /\ Len(Repeat(glyph, n)) = Larger(n, 0)
         /\ \A i \in 1 .. Larger(n, 0) : Repeat(glyph, n)[i] = glyph
         /\ Larger(n, 0) \in Nat
  BY DEF Repeat, Larger

\* The letters of the digits of t.
Letters(letters, t) == [k \in DOMAIN t |-> letters[t[k] + 1]]

(* The letters of the digits of a number are digits.                       *)
LEMMA LettersOfDigits ==
  ASSUME NEW letters \in {Lower, Upper}, NEW base \in Bases, NEW n \in Nat,
         NEW t, Numbers(t, n, base)
  PROVE  Letters(letters, t) \in Seq(Digit)
<1>1. t \in Seq(0 .. base - 1) /\ DOMAIN t = 1 .. Len(t)
  BY DEF Numbers
<1>2. \A i \in 1 .. Len(t) : letters[t[i] + 1] \in Digit
  <2> SUFFICES ASSUME NEW i \in 1 .. Len(t) PROVE letters[t[i] + 1] \in Digit
    OBVIOUS
  <2>1. PICK e \in 0 .. base - 1 : e = t[i]
    BY <1>1, ElementOfSeq
  <2>2. e + 1 \in 1 .. 16
    BY DEF Bases
  <2>3. letters[e + 1] \in Digit
    BY <2>2 DEF Digit
  <2>4. QED
    BY <2>1, <2>3, Zenon
<1>3. Letters(letters, t) = [k \in 1 .. Len(t) |-> letters[t[k] + 1]]
  BY <1>1 DEF Letters
<1>4. QED
  BY <1>1, <1>2, <1>3

\* y and z zeros and the digits of t, and how they read.
ZerosAnd(y, z, letters, t) == (Repeat("0", y) \o Repeat("0", z)) \o Letters(letters, t)
Reads(D, letters, t, n, base, y, z) ==
  /\ D \in Seq(Digit) /\ Len(D) = (y + z) + Len(t) /\ Len(t) \in Nat \ {0}
  /\ \A k \in DOMAIN D : \E j \in 1 .. base : letters[j] = D[k]
  /\ Value([k \in DOMAIN D |-> DigitValue(D[k], letters)], base) = n
  /\ D[1] = "0" /\ Len(D) > 1 => y + z > 0

(* The digits of a number with zeros before them are read back.            *)
LEMMA DigitsRead ==
  ASSUME NEW letters \in {Lower, Upper}, NEW base \in Bases, NEW n \in Nat,
         NEW t, Numbers(t, n, base), NEW y \in Nat, NEW z \in Nat
  PROVE  Reads(ZerosAnd(y, z, letters, t), letters, t, n, base, y, z)
<1>101. PICK D : D = ZerosAnd(y, z, letters, t)
  OBVIOUS
<1>1. t \in Seq(0 .. base - 1) /\ Len(t) \in Nat \ {0} /\ DOMAIN t = 1 .. Len(t)
      /\ (Len(t) > 1 => t[1] # 0)
  BY DEF Numbers
<1>2. base \in 1 .. 16 /\ base \in Nat
  BY DEF Bases
<1>3. letters[1] = "0" /\ letters \in {Lower, Upper}
  BY DEF Lower, Upper
<1>4. \A i \in 1 .. 16 : letters[i] \in Digit
  BY DEF Digit
<1>5. "0" \in Digit
  <2>1. 1 \in 1 .. 16
    OBVIOUS
  <2>2. QED
    BY <1>3, <1>4, <2>1, Zenon
<1>6. \A i \in 1 .. Len(t) : t[i] \in 0 .. base - 1 /\ t[i] + 1 \in 1 .. base
                             /\ t[i] + 1 \in 1 .. 16 /\ t[i] \in 0 .. 15
  <2> SUFFICES ASSUME NEW i \in 1 .. Len(t)
               PROVE  t[i] \in 0 .. base - 1 /\ t[i] + 1 \in 1 .. base
                      /\ t[i] + 1 \in 1 .. 16 /\ t[i] \in 0 .. 15
    OBVIOUS
  <2>1. t[i] \in 0 .. base - 1
    BY <1>1, ElementOfSeq
  <2>2. PICK e \in 0 .. base - 1 : e = t[i]
    BY <2>1
  <2>3. e + 1 \in 1 .. base /\ e + 1 \in 1 .. 16 /\ e \in 0 .. 15
    BY <1>2
  <2>4. QED
    BY <2>1, <2>2, <2>3, Zenon
<1> DEFINE A == Repeat("0", y)
           B == Repeat("0", z)
           C == Letters(letters, t)
           u == Padded(t, y + z)
<1>7. A \in Seq(Digit) /\ Len(A) = y /\ \A i \in 1 .. y : A[i] = "0"
  BY <1>5 DEF Repeat, Larger
<1>8. B \in Seq(Digit) /\ Len(B) = z /\ \A i \in 1 .. z : B[i] = "0"
  BY <1>5 DEF Repeat, Larger
<1>9. C \in Seq(Digit) /\ Len(C) = Len(t) /\ \A i \in 1 .. Len(t) : C[i] = letters[t[i] + 1]
  <2>1. \A i \in 1 .. Len(t) : letters[t[i] + 1] \in Digit
    BY <1>4, <1>6
  <2>2. C = [k \in 1 .. Len(t) |-> letters[t[k] + 1]]
    BY <1>1 DEF Letters
  <2>3. QED
    BY <1>1, <2>1, <2>2
<1> HIDE DEF A, B, C
<1>10. A \o B \in Seq(Digit) /\ Len(A \o B) = y + z
       /\ \A i \in 1 .. y + z : (A \o B)[i] = "0"
  <2>1. A \o B \in Seq(Digit) /\ Len(A \o B) = Len(A) + Len(B)
        /\ \A i \in 1 .. Len(A) + Len(B) : (A \o B)[i] = IF i <= Len(A) THEN A[i] ELSE B[i - Len(A)]
    BY <1>7, <1>8, ConcatProperties
  <2>2. \A i \in 1 .. y + z : (A \o B)[i] = "0"
    BY <1>7, <1>8, <2>1
  <2>3. QED
    BY <1>7, <1>8, <2>1, <2>2
<1>11. PICK AB : AB = A \o B
  OBVIOUS
<1>12. D = AB \o C
  BY <1>11, <1>101 DEF A, B, C, ZerosAnd
<1>13. D \in Seq(Digit) /\ Len(D) = (y + z) + Len(t)
       /\ \A i \in 1 .. (y + z) + Len(t) :
            D[i] = IF i <= y + z THEN "0" ELSE letters[t[i - (y + z)] + 1]
  <2>1. AB \o C \in Seq(Digit) /\ Len(AB \o C) = Len(AB) + Len(C)
        /\ \A i \in 1 .. Len(AB) + Len(C) :
             (AB \o C)[i] = IF i <= Len(AB) THEN AB[i] ELSE C[i - Len(AB)]
    <3>1. AB \in Seq(Digit)
      BY <1>10, <1>11, Zenon
    <3>2. C \in Seq(Digit)
      BY <1>9
    <3>3. QED
      BY <3>1, <3>2, ConcatProperties
  <2>2. D \in Seq(Digit) /\ Len(D) = (y + z) + Len(t)
        /\ \A i \in 1 .. (y + z) + Len(t) :
             D[i] = IF i <= y + z THEN AB[i] ELSE C[i - (y + z)]
    BY <1>9, <1>10, <1>11, <1>12, <2>1, Zenon
  <2>3. ASSUME NEW i \in 1 .. (y + z) + Len(t)
        PROVE  D[i] = IF i <= y + z THEN "0" ELSE letters[t[i - (y + z)] + 1]
    <3>1. CASE i <= y + z
      <4>1. i \in 1 .. y + z
        BY <3>1
      <4>2. QED
        BY <1>10, <1>11, <2>2, <3>1, <4>1, Zenon
    <3>2. CASE ~(i <= y + z)
      <4>1. i - (y + z) \in 1 .. Len(t)
        BY <1>1, <3>2
      <4>2. QED
        BY <1>9, <2>2, <3>2, <4>1, Zenon
    <3>3. QED
      BY <3>1, <3>2
  <2>4. QED
    BY <2>2, <2>3
<1>14. DOMAIN D = 1 .. (y + z) + Len(t)
  BY <1>13, LenProperties
<1>15. Len(u) = (y + z) + Len(t) /\ u = [i \in 1 .. (y + z) + Len(t) |-> u[i]]
       /\ \A i \in 1 .. (y + z) + Len(t) : u[i] = IF i <= y + z THEN 0 ELSE t[i - (y + z)]
  BY <1>1 DEF Padded
<1> HIDE DEF u
<1>16. \A i \in 1 .. (y + z) + Len(t) :
         /\ u[i] \in 0 .. 15 /\ u[i] + 1 \in 1 .. base
         /\ D[i] = letters[u[i] + 1]
  <2> SUFFICES ASSUME NEW i \in 1 .. (y + z) + Len(t)
               PROVE  /\ u[i] \in 0 .. 15 /\ u[i] + 1 \in 1 .. base
                      /\ D[i] = letters[u[i] + 1]
    OBVIOUS
  <2>1. CASE i <= y + z
    <3>1. u[i] = 0 /\ D[i] = "0"
      BY <1>13, <1>15, <2>1
    <3>2. u[i] + 1 = 1
      BY <3>1
    <3>3. 0 \in 0 .. 15 /\ 1 \in 1 .. base
      BY <1>2
    <3>4. QED
      BY <1>3, <3>1, <3>2, <3>3, Zenon
  <2>2. CASE ~(i <= y + z)
    <3>1. i - (y + z) \in 1 .. Len(t)
      BY <1>1, <2>2
    <3>2. u[i] = t[i - (y + z)] /\ D[i] = letters[t[i - (y + z)] + 1]
      BY <1>13, <1>15, <2>2
    <3>3. QED
      BY <1>6, <3>1, <3>2, Zenon
  <2>3. QED
    BY <2>1, <2>2
<1>17. \A k \in DOMAIN D : \E j \in 1 .. base : letters[j] = D[k]
  BY <1>14, <1>16, Zenon
<1>18. \A k \in DOMAIN D : DigitValue(D[k], letters) = u[k]
  BY <1>14, <1>16, LetterIsFound
<1>19. [k \in DOMAIN D |-> DigitValue(D[k], letters)] = u
  <2>1. [k \in DOMAIN D |-> DigitValue(D[k], letters)] = [k \in DOMAIN D |-> u[k]]
    BY <1>18
  <2>2. QED
    BY <1>14, <1>15, <2>1, Zenon
<1>20. Value(u, base) = n
  BY LeadingZeros DEF u
<1>21. D[1] = "0" /\ Len(D) > 1 => y + z > 0
  <2> SUFFICES ASSUME D[1] = "0", Len(D) > 1, ~(y + z > 0) PROVE FALSE
    OBVIOUS
  <2>1. y + z = 0 /\ 1 \in 1 .. (y + z) + Len(t) /\ 1 - (y + z) = 1 /\ ~(1 <= y + z)
    BY <1>1
  <2>2. letters[1] = letters[t[1] + 1]
    BY <1>3, <1>13, <2>1
  <2>3. t[1] + 1 = 1
    <3>1. t[1] + 1 \in 1 .. 16 /\ 1 \in 1 .. 16
      BY <1>1, <1>6
    <3>2. QED
      BY <2>2, <3>1, LettersDiffer
  <2>4. t[1] = 0 /\ Len(t) > 1
    BY <1>1, <1>6, <1>13, <2>1, <2>3
  <2>5. QED
    BY <1>1, <2>4
<1>22. Reads(D, letters, t, n, base, y, z)
  BY <1>1, <1>13, <1>17, <1>19, <1>20, <1>21, Zenon DEF Reads
<1>23. QED
  BY <1>22, <1>101

\* The glyphs of numbers.
Clean == Digit \cup {" ", "-", "+", "x", "X"}

\* A text laid out as number does it: f blanks, the sign and the prefix, y
\* zeros that fill the field, z zeros for the precision, digits, r blanks.
LaidOut(text, n, sign, prefix, base, letters, width, precision, left, zero) ==
  \E t : \E f, y, z, r \in Nat :
    /\ Numbers(t, n, base)
    /\ text = ((Repeat(" ", f) \o (sign \o prefix))
                 \o ZerosAnd(y, z, letters, t)) \o Repeat(" ", r)
    /\ Len(t) + z >= precision
    /\ z > 0 => Len(t) + z = precision
    /\ f > 0 \/ y > 0 \/ r > 0 =>
         f + (Len(sign) + Len(prefix)) + ((y + z) + Len(t)) + r = width
    /\ f + (Len(sign) + Len(prefix)) + ((y + z) + Len(t)) + r >= width
    /\ y > 0 => zero
    /\ zero => f = 0
    /\ IF left THEN f = 0 ELSE r = 0

(* It has the glyphs of numbers only.                                      *)
LEMMA LaidOutClean ==
  ASSUME NEW text, NEW n \in Nat, NEW letters \in {Lower, Upper}, NEW base \in Bases,
         NEW sign \in Seq(Clean), NEW prefix \in Seq(Clean), NEW width, NEW precision,
         NEW left, NEW zero,
         LaidOut(text, n, sign, prefix, base, letters, width, precision, left, zero)
  PROVE  text \in Seq(Clean)
<1>0. PICK t : \E f, y, z, r \in Nat :
        /\ Numbers(t, n, base)
        /\ text = ((Repeat(" ", f) \o (sign \o prefix)) \o ZerosAnd(y, z, letters, t)) \o Repeat(" ", r)
        /\ Len(t) + z >= precision
        /\ z > 0 => Len(t) + z = precision
        /\ f > 0 \/ y > 0 \/ r > 0 =>
             f + (Len(sign) + Len(prefix)) + ((y + z) + Len(t)) + r = width
        /\ f + (Len(sign) + Len(prefix)) + ((y + z) + Len(t)) + r >= width
        /\ y > 0 => zero
        /\ zero => f = 0
        /\ IF left THEN f = 0 ELSE r = 0
  BY Zenon DEF LaidOut
<1>1. \E f, y, z, r \in Nat :
        /\ Numbers(t, n, base)
        /\ text = ((Repeat(" ", f) \o (sign \o prefix)) \o ZerosAnd(y, z, letters, t)) \o Repeat(" ", r)
  BY <1>0, Zenon
<1>2. PICK f \in Nat, y \in Nat, z \in Nat, r \in Nat :
        /\ Numbers(t, n, base)
        /\ text = ((Repeat(" ", f) \o (sign \o prefix)) \o ZerosAnd(y, z, letters, t)) \o Repeat(" ", r)
  BY <1>1
<1>3. ZerosAnd(y, z, letters, t) \in Seq(Clean)
  <2>1. Digit \subseteq Clean
    BY DEF Clean
  <2>2. Reads(ZerosAnd(y, z, letters, t), letters, t, n, base, y, z)
    BY <1>2, DigitsRead
  <2>3. ZerosAnd(y, z, letters, t) \in Seq(Digit)
    BY <2>2, Zenon DEF Reads
  <2>4. QED
    BY <2>1, <2>3
<1>4. Repeat(" ", f) \in Seq(Clean) /\ Repeat(" ", r) \in Seq(Clean)
  <2>1. " " \in Clean
    BY DEF Clean
  <2>2. \A k \in Int : Repeat(" ", k) \in Seq(Clean)
    BY <2>1, Repeated
  <2>3. f \in Int /\ r \in Int
    OBVIOUS
  <2>4. QED
    BY <2>2, <2>3, Zenon
<1>5. sign \o prefix \in Seq(Clean)
  BY ConcatProperties
<1>6. \A a, b \in Seq(Clean) : a \o b \in Seq(Clean)
  BY ConcatProperties
<1>7. QED
  BY <1>2, <1>3, <1>4, <1>5, <1>6, Zenon

(* A text laid out like that shows the number.                             *)
LEMMA LaidOutShows ==
  ASSUME NEW d, NEW letters \in {Lower, Upper}, NEW base \in Bases, NEW n \in Nat,
         NEW sign \in Seq(Clean), NEW prefix \in Seq(Clean), NEW text,
         Width(d) \in Int, Precision(d) \in Int,
         LaidOut(text, n, sign, prefix, base, letters, Width(d), Precision(d),
                 "LEFT" \in Flags(d), "LEFT" \notin Flags(d) /\ "ZEROPAD" \in Flags(d))
  PROVE  text \in Seq(Clean) /\ Shows(text, d, sign, prefix, n, base, letters)
<1> DEFINE left == "LEFT" \in Flags(d)
           zero == ~("LEFT" \in Flags(d)) /\ "ZEROPAD" \in Flags(d)
<1>1. PICK w, p : w = Width(d) /\ p = Precision(d)
  OBVIOUS
<1>2. w \in Int /\ p \in Int
  BY <1>1
<1>3. LaidOut(text, n, sign, prefix, base, letters, w, p, left, zero)
  BY <1>1
<1>4. PICK t : \E f, y, z, r \in Nat :
        /\ Numbers(t, n, base)
        /\ text = ((Repeat(" ", f) \o (sign \o prefix))
                     \o ZerosAnd(y, z, letters, t)) \o Repeat(" ", r)
        /\ Len(t) + z >= p
        /\ z > 0 => Len(t) + z = p
        /\ f > 0 \/ y > 0 \/ r > 0 =>
             f + (Len(sign) + Len(prefix)) + ((y + z) + Len(t)) + r = w
        /\ f + (Len(sign) + Len(prefix)) + ((y + z) + Len(t)) + r >= w
        /\ y > 0 => zero
        /\ zero => f = 0
        /\ IF left THEN f = 0 ELSE r = 0
  BY <1>3, Zenon DEF LaidOut
<1>5. PICK f \in Nat, y \in Nat, z \in Nat, r \in Nat :
        /\ Numbers(t, n, base)
        /\ text = ((Repeat(" ", f) \o (sign \o prefix))
                     \o ZerosAnd(y, z, letters, t)) \o Repeat(" ", r)
        /\ Len(t) + z >= p
        /\ z > 0 => Len(t) + z = p
        /\ f > 0 \/ y > 0 \/ r > 0 =>
             f + (Len(sign) + Len(prefix)) + ((y + z) + Len(t)) + r = w
        /\ f + (Len(sign) + Len(prefix)) + ((y + z) + Len(t)) + r >= w
        /\ y > 0 => zero
        /\ zero => f = 0
        /\ IF left THEN f = 0 ELSE r = 0
  BY <1>4
<1>6. PICK L, H, D, R :
        /\ L = Repeat(" ", f) /\ H = sign \o prefix
        /\ D = ZerosAnd(y, z, letters, t)
        /\ R = Repeat(" ", r)
  OBVIOUS
<1>7. /\ D \in Seq(Digit) /\ Len(D) = (y + z) + Len(t) /\ Len(t) \in Nat \ {0}
      /\ \A k \in DOMAIN D : \E j \in 1 .. base : letters[j] = D[k]
      /\ Value([k \in DOMAIN D |-> DigitValue(D[k], letters)], base) = n
      /\ D[1] = "0" /\ Len(D) > 1 => y + z > 0
  <2>1. Reads(ZerosAnd(y, z, letters, t), letters, t, n, base, y, z)
    BY <1>5, DigitsRead
  <2>2. Reads(D, letters, t, n, base, y, z)
    BY <1>6, <2>1
  <2>3. QED
    BY <2>2, Zenon DEF Reads
<1>8. D \in Seq(Clean)
  <2>1. Digit \subseteq Clean
    BY DEF Clean
  <2>2. QED
    BY <1>7, <2>1
<1>9. /\ L \in Seq(Clean) /\ Len(L) = f /\ R \in Seq(Clean) /\ Len(R) = r
      /\ L = Repeat(" ", f) /\ R = Repeat(" ", r)
  <2>1. " " \in Clean
    BY DEF Clean
  <2>2. Larger(f, 0) = f /\ Larger(r, 0) = r
    BY DEF Larger
  <2>3. \A k \in Int : /\ Repeat(" ", k) \in Seq(Clean)
                       /\ Len(Repeat(" ", k)) = Larger(k, 0)
    BY <2>1, Repeated
  <2>4. f \in Int /\ r \in Int
    OBVIOUS
  <2>5. QED
    BY <1>6, <2>2, <2>3, <2>4, Zenon
<1>10. H \in Seq(Clean) /\ Len(H) = Len(sign) + Len(prefix) /\ Len(H) \in Nat
       /\ H = sign \o prefix
  <2>1. sign \o prefix \in Seq(Clean) /\ Len(sign \o prefix) = Len(sign) + Len(prefix)
    BY ConcatProperties
  <2>2. Len(sign) \in Nat /\ Len(prefix) \in Nat
    OBVIOUS
  <2>3. Len(sign) + Len(prefix) \in Nat
    BY <2>2
  <2>4. QED
    BY <1>6, <2>1, <2>3, Zenon
<1>11. PICK h : h = Len(H)
  OBVIOUS
<1>12. PICK m : m = Len(t)
  OBVIOUS
<1>13. PICK tot : tot = Len(text)
  OBVIOUS
<1>14. /\ text \in Seq(Clean) /\ tot = f + h + ((y + z) + m) + r
       /\ SubSeq(text, 1, f) = Repeat(" ", f)
       /\ SubSeq(text, f + 1, f + h) = H
       /\ SubSeq(text, f + h + 1, f + h + ((y + z) + m)) = D
       /\ SubSeq(text, f + h + ((y + z) + m) + 1, tot) = Repeat(" ", r)
  <2>1. text = ((L \o H) \o D) \o R
    BY <1>5, <1>6
  <2>2. /\ text \in Seq(Clean) /\ Len(text) = Len(L) + Len(H) + Len(D) + Len(R)
        /\ SubSeq(text, 1, Len(L)) = L
        /\ SubSeq(text, Len(L) + 1, Len(L) + Len(H)) = H
        /\ SubSeq(text, Len(L) + Len(H) + 1, Len(L) + Len(H) + Len(D)) = D
        /\ SubSeq(text, Len(L) + Len(H) + Len(D) + 1, Len(text)) = R
    <3>1. L \in Seq(Clean) /\ H \in Seq(Clean) /\ D \in Seq(Clean) /\ R \in Seq(Clean)
      BY <1>8, <1>9, <1>10
    <3>2. CutUp(((L \o H) \o D) \o R, L, H, D, R, Clean)
      BY <3>1, Cuts
    <3>3. QED
      BY <2>1, <3>2, Zenon DEF CutUp
  <2>3. QED
    BY <1>7, <1>9, <1>11, <1>12, <1>13, <2>2, Zenon
<1>15. h \in Nat /\ m \in Nat /\ m >= 1 /\ Len(D) = (y + z) + m
  BY <1>7, <1>10, <1>11, <1>12
<1>16. PICK to : to = f + h + ((y + z) + m)
  OBVIOUS
<1>17. /\ m + z >= p
       /\ z > 0 => m + z = p
       /\ f > 0 \/ y > 0 \/ r > 0 => f + h + ((y + z) + m) + r = w
       /\ f + h + ((y + z) + m) + r >= w
       /\ y > 0 => zero
       /\ zero => f = 0
       /\ IF left THEN f = 0 ELSE r = 0
  BY <1>5, <1>10, <1>11, <1>12, Zenon
<1>18. /\ f \in 0 .. tot /\ to \in 1 .. tot /\ f + h < to
       /\ tot - to = r
       /\ (y + z) + m >= p
       /\ f > 0 \/ to < tot => tot = w
       /\ tot >= w
       /\ IF left THEN f = 0 ELSE to = tot
       /\ zero => f = 0
  <2>1. tot = f + h + ((y + z) + m) + r
    BY <1>14
  <2>2. f \in 0 .. tot /\ to \in 1 .. tot /\ f + h < to /\ tot - to = r
    BY <1>15, <1>16, <2>1
  <2>3. (y + z) + m >= p
    BY <1>2, <1>15, <1>17
  <2>4. to < tot => r > 0
    BY <1>15, <1>16, <2>1
  <2>5. f > 0 \/ to < tot => tot = w
    BY <1>17, <2>1, <2>4, Zenon
  <2>6. tot >= w
    BY <1>17, <2>1, Zenon
  <2>7. r = 0 => to = tot
    BY <1>15, <1>16, <2>1
  <2>8. QED
    BY <1>17, <2>2, <2>3, <2>5, <2>6, <2>7, Zenon
<1>19. D[1] = "0" /\ Len(D) > 1 => Len(D) = p \/ (zero /\ tot = w)
  <2> SUFFICES ASSUME D[1] = "0", Len(D) > 1, ~(Len(D) = p) PROVE zero /\ tot = w
    BY <1>2, Zenon
  <2>1. y + z > 0
    BY <1>7
  <2>2. y > 0
    BY <1>15, <1>17, <2>1
  <2>3. QED
    BY <1>14, <1>17, <2>2
<1>20. SubSeq(text, f + h + 1, to) = D /\ SubSeq(text, to + 1, tot) = Repeat(" ", tot - to)
       /\ Len(D) >= p
  BY <1>14, <1>15, <1>16, <1>18, Zenon
<1>21. Shows(text, d, sign, prefix, n, base, letters)
  <2>1. /\ f + h < to
        /\ SubSeq(text, 1, f) = Repeat(" ", f)
        /\ SubSeq(text, f + 1, f + h) = sign \o prefix
        /\ SubSeq(text, to + 1, tot) = Repeat(" ", tot - to)
        /\ \A k \in DOMAIN SubSeq(text, f + h + 1, to) :
             \E j \in 1 .. base : letters[j] = SubSeq(text, f + h + 1, to)[k]
        /\ Value([k \in DOMAIN SubSeq(text, f + h + 1, to) |->
                    DigitValue(SubSeq(text, f + h + 1, to)[k], letters)], base) = n
        /\ Len(SubSeq(text, f + h + 1, to)) >= p
        /\ f > 0 \/ to < tot => tot = w
        /\ tot >= w
        /\ IF left THEN f = 0 ELSE to = tot
        /\ zero => f = 0
        /\ SubSeq(text, f + h + 1, to)[1] = "0" /\ Len(SubSeq(text, f + h + 1, to)) > 1 =>
             Len(SubSeq(text, f + h + 1, to)) = p \/ (zero /\ tot = w)
    BY <1>7, <1>10, <1>14, <1>18, <1>19, <1>20, Zenon
  <2>2. h = Len(sign \o prefix) /\ tot = Len(text) /\ w = Width(d) /\ p = Precision(d)
    BY <1>1, <1>10, <1>11, <1>13, Zenon
  <2>3. f \in 0 .. Len(text) /\ to \in 1 .. Len(text)
    BY <1>18, <2>2, Zenon
  <2>4. /\ f + Len(sign \o prefix) < to
        /\ SubSeq(text, 1, f) = Repeat(" ", f)
        /\ SubSeq(text, f + 1, f + Len(sign \o prefix)) = sign \o prefix
        /\ SubSeq(text, to + 1, Len(text)) = Repeat(" ", Len(text) - to)
        /\ \A k \in DOMAIN SubSeq(text, f + Len(sign \o prefix) + 1, to) :
             \E j \in 1 .. base : letters[j] = SubSeq(text, f + Len(sign \o prefix) + 1, to)[k]
        /\ Value([k \in DOMAIN SubSeq(text, f + Len(sign \o prefix) + 1, to) |->
                    DigitValue(SubSeq(text, f + Len(sign \o prefix) + 1, to)[k], letters)], base) = n
        /\ Len(SubSeq(text, f + Len(sign \o prefix) + 1, to)) >= Precision(d)
        /\ f > 0 \/ to < Len(text) => Len(text) = Width(d)
        /\ Len(text) >= Width(d)
        /\ IF left THEN f = 0 ELSE to = Len(text)
        /\ zero => f = 0
        /\ SubSeq(text, f + Len(sign \o prefix) + 1, to)[1] = "0"
             /\ Len(SubSeq(text, f + Len(sign \o prefix) + 1, to)) > 1 =>
             Len(SubSeq(text, f + Len(sign \o prefix) + 1, to)) = Precision(d)
               \/ (zero /\ Len(text) = Width(d))
    BY <2>1, <2>2, Zenon
  <2>5. QED
    BY <2>3, <2>4, Zenon DEF Shows
<1>22. QED
  BY <1>14, <1>21

\* What number makes of its arguments.
Negative(num, type)  == "SIGN" \in type /\ num >= 2 ^ (LongBits - 1)
Magnitude(num, type) == IF Negative(num, type) THEN 2 ^ LongBits - num ELSE num
SignOf(num, type) ==
  IF Negative(num, type) THEN <<"-">>
  ELSE IF "PLUS" \in type THEN <<"+">>
  ELSE IF "SPACE" \in type THEN <<" ">> ELSE <<>>
PrefixOf(base, type) ==
  IF "SPECIAL" \notin type \/ base = 10 THEN <<>>
  ELSE IF base = 8 THEN <<"0">>
  ELSE <<"0", IF "SMALL" \in type THEN "x" ELSE "X">>
LettersOf(type) == IF "SMALL" \in type THEN Lower ELSE Upper

(* Sign and prefix are one and two glyphs at most, none of them special.   *)
LEMMA SignAndPrefix ==
  ASSUME NEW num, NEW base, NEW type
  PROVE  /\ SignOf(num, type) \in Seq(Clean) /\ Len(SignOf(num, type)) \in 0 .. 1
         /\ PrefixOf(base, type) \in Seq(Clean) /\ Len(PrefixOf(base, type)) \in 0 .. 2
         /\ LettersOf(type) \in {Lower, Upper}
<1>1. {"0", "x", "X", "+", "-", " "} \subseteq Clean
  <2>1. "0" \in Digit
    <3>1. Lower[1] = "0" /\ 1 \in 1 .. 16
      BY DEF Lower
    <3>2. QED
      BY <3>1 DEF Digit
  <2>2. QED
    BY <2>1 DEF Clean
<1>2. /\ <<"-">> \in Seq(Clean) /\ <<"+">> \in Seq(Clean) /\ <<" ">> \in Seq(Clean)
      /\ <<>> \in Seq(Clean) /\ <<"0">> \in Seq(Clean)
      /\ <<"0", "x">> \in Seq(Clean) /\ <<"0", "X">> \in Seq(Clean)
  <2>1. \A g \in Clean : <<g>> \in Seq(Clean)
    OBVIOUS
  <2>2. \A g, h \in Clean : <<g, h>> \in Seq(Clean)
    OBVIOUS
  <2>3. <<>> \in Seq(Clean)
    OBVIOUS
  <2>4. "0" \in Clean /\ "x" \in Clean /\ "X" \in Clean /\ "+" \in Clean /\ "-" \in Clean /\ " " \in Clean
    BY <1>1
  <2>5. QED
    BY <2>1, <2>2, <2>3, <2>4, Zenon
<1>3. /\ Len(<<"-">>) = 1 /\ Len(<<"+">>) = 1 /\ Len(<<" ">>) = 1 /\ Len(<<>>) = 0
      /\ Len(<<"0">>) = 1 /\ Len(<<"0", "x">>) = 2 /\ Len(<<"0", "X">>) = 2
  OBVIOUS
<1>4. 0 \in 0 .. 1 /\ 1 \in 0 .. 1 /\ 0 \in 0 .. 2 /\ 1 \in 0 .. 2 /\ 2 \in 0 .. 2
  OBVIOUS
<1>5. SignOf(num, type) \in {<<"-">>, <<"+">>, <<" ">>, <<>>}
  BY DEF SignOf
<1>6. PrefixOf(base, type) \in {<<"0">>, <<"0", "x">>, <<"0", "X">>, <<>>}
  BY DEF PrefixOf
<1>7. LettersOf(type) \in {Lower, Upper}
  BY DEF LettersOf
<1>8. QED
  BY <1>2, <1>3, <1>4, <1>5, <1>6, <1>7, Zenon

NumberText(t, sign, prefix, width, precision0, type) ==
  LET size == width - Len(sign) - Len(prefix) - Larger(precision0, Len(t))
      left == "LEFT" \in type
      zero == ~left /\ "ZEROPAD" \in type
  IN  (((((IF ~left /\ ~zero THEN Repeat(" ", size) ELSE <<>>) \o sign) \o prefix)
           \o (IF zero THEN Repeat("0", size) ELSE <<>>))
           \o Repeat("0", Larger(precision0, Len(t)) - Len(t)))
        \o [k \in DOMAIN t |-> IF "SMALL" \in type THEN Lower[t[k] + 1] ELSE Upper[t[k] + 1]]
        \o (IF left THEN Repeat(" ", size) ELSE <<>>)

(* Clean texts join in either order.                                       *)
LEMMA CleanJoin ==
  \A a, b, c \in Seq(Clean) : (a \o b) \o c = a \o (b \o c)
<1>1. SUFFICES ASSUME NEW a \in Seq(Clean), NEW b \in Seq(Clean), NEW c \in Seq(Clean)
               PROVE  (a \o b) \o c = a \o (b \o c)
  OBVIOUS
<1>2. QED
  BY ConcatAssociative

(* What number returns is laid out as its type, width and precision say.   *)
LEMMA NumberLaidOut ==
  ASSUME NEW num \in Nat, NEW base \in Bases, NEW width \in Int, NEW precision0 \in Int,
         NEW type, Magnitude(num, type) \in Nat
  PROVE  LaidOut(number(num, base, width, precision0, type), Magnitude(num, type),
                 SignOf(num, type), PrefixOf(base, type), base, LettersOf(type), width, precision0,
                 "LEFT" \in type, "LEFT" \notin type /\ "ZEROPAD" \in type)
<1>1. PICK t : t = Numeral(Magnitude(num, type), base)
  OBVIOUS
<1>2. Numbers(t, Magnitude(num, type), base)
  BY <1>1, NumeralIsRight
<1>3. Len(t) \in Nat
  BY <1>2 DEF Numbers
<1>4. PICK sign, prefix, letters :
        sign = SignOf(num, type) /\ prefix = PrefixOf(base, type) /\ letters = LettersOf(type)
  OBVIOUS
<1>5. PICK s, q, m : s = Len(sign) /\ q = Len(prefix) /\ m = Len(t)
  OBVIOUS
<1>6. s \in Nat /\ q \in Nat /\ m \in Nat
  BY <1>3, <1>4, <1>5, SignAndPrefix
<1> DEFINE p    == Larger(precision0, m)
           size == width - s - q - p
           left == "LEFT" \in type
           zero == ~("LEFT" \in type) /\ "ZEROPAD" \in type
           f    == IF ~left /\ ~zero THEN Larger(size, 0) ELSE 0
           y    == IF zero THEN Larger(size, 0) ELSE 0
           z    == p - m
           r    == IF left THEN Larger(size, 0) ELSE 0
           F1   == IF ~left /\ ~zero THEN Repeat(" ", size) ELSE <<>>
           F2   == IF zero THEN Repeat("0", size) ELSE <<>>
           F3   == IF left THEN Repeat(" ", size) ELSE <<>>
           C    == Letters(letters, t)
<1>7. /\ p \in Int /\ size \in Int /\ f \in Nat /\ y \in Nat /\ z \in Nat /\ r \in Nat
      /\ p >= m /\ p >= precision0 /\ (p = m \/ p = precision0)
  BY <1>6 DEF Larger
<1>8. F1 = Repeat(" ", f) /\ F2 = Repeat("0", y) /\ F3 = Repeat(" ", r)
  <2>1. \A g : Repeat(g, 0) = <<>>
    BY DEF Repeat, Larger
  <2>2. \A g : Repeat(g, Larger(size, 0)) = Repeat(g, size)
    BY <1>7 DEF Repeat, Larger
  <2> HIDE DEF size
  <2>3. QED
    BY <2>1, <2>2
<1>9. number(num, base, width, precision0, type)
        = (((((F1 \o sign) \o prefix) \o F2) \o Repeat("0", z)) \o C) \o F3
  <2>1. C = [k \in DOMAIN t |-> IF "SMALL" \in type THEN Lower[t[k] + 1] ELSE Upper[t[k] + 1]]
    BY <1>4 DEF LettersOf, Letters
  <2>2. number(num, base, width, precision0, type)
        = (((((F1 \o sign) \o prefix) \o F2) \o Repeat("0", z))
             \o [k \in DOMAIN t |-> IF "SMALL" \in type THEN Lower[t[k] + 1] ELSE Upper[t[k] + 1]]) \o F3
    <3>1. number(num, base, width, precision0, type)
            = NumberText(Numeral(Magnitude(num, type), base), SignOf(num, type),
                         PrefixOf(base, type), width, precision0, type)
      BY DEF number, NumberText, SignOf, PrefixOf, Negative, Magnitude
    <3>2. number(num, base, width, precision0, type)
            = NumberText(t, sign, prefix, width, precision0, type)
      BY <1>1, <1>4, <3>1, Zenon
    <3>3. QED
      BY <1>5, <3>2, Zenon DEF NumberText
  <2>3. QED
    BY <2>1, <2>2, Zenon
<1>10. /\ m + z >= precision0
       /\ z > 0 => m + z = precision0
       /\ f > 0 \/ y > 0 \/ r > 0 => f + (s + q) + ((y + z) + m) + r = width
       /\ f + (s + q) + ((y + z) + m) + r >= width
       /\ y > 0 => zero
       /\ zero => f = 0
       /\ IF left THEN f = 0 ELSE r = 0
  BY <1>6 DEF Larger
<1> HIDE DEF p, size, f, y, z, r, F1, F2, F3
<1>11. (((((F1 \o sign) \o prefix) \o F2) \o Repeat("0", z)) \o C) \o F3
         = ((Repeat(" ", f) \o (sign \o prefix)) \o ZerosAnd(y, z, letters, t)) \o Repeat(" ", r)
  <2>1. PICK A, B, Z : A = Repeat(" ", f) /\ B = Repeat("0", y) /\ Z = Repeat("0", z)
    OBVIOUS
  <2>2. A \in Seq(Clean) /\ B \in Seq(Clean) /\ Z \in Seq(Clean)
    <3>1. "0" \in Digit
      <4>1. Lower[1] = "0" /\ 1 \in 1 .. 16
        BY DEF Lower
      <4>2. QED
        BY <4>1 DEF Digit
    <3>2. "0" \in Clean /\ " " \in Clean
      BY <3>1 DEF Clean
    <3>3. f \in Int /\ y \in Int /\ z \in Int
      BY <1>7
    <3>4. QED
      BY <2>1, <3>2, <3>3, Repeated
  <2>3. sign \in Seq(Clean) /\ prefix \in Seq(Clean)
    BY <1>4, SignAndPrefix
  <2>4. C \in Seq(Clean)
    <3>1. letters \in {Lower, Upper}
      BY <1>4, SignAndPrefix
    <3>2. C \in Seq(Digit)
      BY <1>2, <3>1, LettersOfDigits
    <3>3. Digit \subseteq Clean
      BY DEF Clean
    <3>4. QED
      BY <3>2, <3>3
  <2>5. PICK H, LH, BZ : H = sign \o prefix /\ LH = A \o H /\ BZ = B \o Z
    OBVIOUS
  <2>6. H \in Seq(Clean) /\ LH \in Seq(Clean) /\ BZ \in Seq(Clean)
    BY <2>2, <2>3, <2>5, ConcatProperties
  <2>0. \A a, b, c \in Seq(Clean) : (a \o b) \o c = a \o (b \o c)
    BY CleanJoin, Zenon
  <2>7. (A \o sign) \o prefix = LH
    BY <2>0, <2>2, <2>3, <2>5, Zenon
  <2>8. (LH \o B) \o Z = LH \o BZ
    <3>0. LH \in Seq(Clean) /\ B \in Seq(Clean) /\ Z \in Seq(Clean)
      BY <2>2, <2>6
    <3>1. (LH \o B) \o Z = LH \o (B \o Z)
      BY <2>0, <3>0, Zenon
    <3>2. QED
      BY <2>5, <3>1, Zenon
  <2>9. (LH \o BZ) \o C = LH \o (BZ \o C)
    BY <2>0, <2>4, <2>6, Zenon
  <2>10. F1 = A /\ F2 = B /\ ZerosAnd(y, z, letters, t) = BZ \o C
    BY <1>8, <2>1, <2>5 DEF ZerosAnd
  <2>11. QED
    BY <1>8, <2>1, <2>5, <2>7, <2>8, <2>9, <2>10, Zenon
<1>12. QED
  BY <1>2, <1>4, <1>5, <1>7, <1>9, <1>10, <1>11, Zenon DEF LaidOut

-----------------------------------------------------------------------------
(* What the items of a format turn into.                                   *)
Directives ==
  [flags : SUBSET AllFlags, width : Int, star : BOOLEAN, dot : BOOLEAN,
   precision : Int, long : BOOLEAN, conv : STRING, arg : Nat, text : Seq(STRING)]

(* What the fields of a directive come to.                                 *)
LEMMA Fields ==
  ASSUME NEW d \in Directives
  PROVE  /\ Width(d) \in Int /\ Precision(d) \in Int /\ Flags(d) \in SUBSET AllFlags
         /\ \A fl \in AllFlags \ {"LEFT"} : fl \in Flags(d) <=> fl \in d.flags
<1>1. /\ d.flags \in SUBSET AllFlags /\ d.width \in Int /\ d.star \in BOOLEAN
      /\ d.dot \in BOOLEAN /\ d.precision \in Int
  BY DEF Directives
<1>2. Width(d) \in Int /\ Precision(d) \in Int
  BY <1>1 DEF Width, Precision, Larger
<1>3. Flags(d) \in SUBSET AllFlags /\ \A fl \in AllFlags \ {"LEFT"} : fl \in Flags(d) <=> fl \in d.flags
  BY <1>1 DEF Flags, AllFlags
<1>4. QED
  BY <1>2, <1>3

(* Arguments are numbers, and so is what they are the negative of.         *)
LEMMA Arguments ==
  ASSUME NEW d \in Directives
  PROVE  /\ Argument(d) \in Nat
         /\ \A type : Magnitude(Argument(d), type) \in Nat
<1>1. PICK I, L, H : I = 2 ^ IntBits /\ L = 2 ^ LongBits /\ H = 2 ^ (LongBits - 1)
  OBVIOUS
<1>2. I \in Nat \ {0} /\ L \in Nat \ {0} /\ H \in Nat \ {0} /\ I <= L
  BY <1>1, PrintkAssumption, Zenon DEF PrintkAssumption
<1>3. PICK a : a = d.arg
  OBVIOUS
<1>4. a \in Nat
  BY <1>3 DEF Directives
<1>5. a % L \in 0 .. L - 1 /\ a % I \in 0 .. I - 1
  BY <1>2, <1>4
<1>6. PICK n : n = Argument(d)
  OBVIOUS
<1>7. n = a % L \/ n = a % I
  BY <1>1, <1>3, <1>6 DEF Argument
<1>8. n \in Nat /\ L - n \in Nat
  BY <1>2, <1>5, <1>7
<1>9. \A type : Magnitude(n, type) \in {n, L - n}
  BY <1>1 DEF Magnitude
<1>10. QED
  BY <1>6, <1>8, <1>9

(* Up to the base 10 small and capital letters are the same.               *)
LEMMA SameLetters ==
  ASSUME NEW text, NEW n \in Nat, NEW sign, NEW prefix, NEW base \in {8, 10},
         NEW letters \in {Lower, Upper}, NEW width, NEW precision, NEW left, NEW zero,
         LaidOut(text, n, sign, prefix, base, letters, width, precision, left, zero)
  PROVE  LaidOut(text, n, sign, prefix, base, Lower, width, precision, left, zero)
<1>1. ASSUME NEW t, Numbers(t, n, base)
      PROVE  Letters(letters, t) = Letters(Lower, t)
  <2>1. t \in Seq(0 .. base - 1) /\ DOMAIN t = 1 .. Len(t)
    BY <1>1 DEF Numbers
  <2>2. \A i \in DOMAIN t : letters[t[i] + 1] = Lower[t[i] + 1]
    <3> SUFFICES ASSUME NEW i \in 1 .. Len(t) PROVE letters[t[i] + 1] = Lower[t[i] + 1]
      BY <2>1
    <3>1. PICK e \in 0 .. base - 1 : e = t[i]
      BY <2>1, ElementOfSeq
    <3>2. e + 1 \in 1 .. 10
      OBVIOUS
    <3>3. \A j \in 1 .. 10 : Upper[j] = Lower[j]
      <4> SUFFICES ASSUME NEW j \in 1 .. 10 PROVE Upper[j] = Lower[j]
        OBVIOUS
      <4>1. /\ Upper[1] = Lower[1] /\ Upper[2] = Lower[2] /\ Upper[3] = Lower[3]
            /\ Upper[4] = Lower[4] /\ Upper[5] = Lower[5]
        BY DEF Upper, Lower
      <4>2. /\ Upper[6] = Lower[6] /\ Upper[7] = Lower[7] /\ Upper[8] = Lower[8]
            /\ Upper[9] = Lower[9] /\ Upper[10] = Lower[10]
        BY DEF Upper, Lower
      <4>3. j \in {1, 2, 3, 4, 5} \/ j \in {6, 7, 8, 9, 10}
        OBVIOUS
      <4>4. QED
        BY <4>1, <4>2, <4>3, Zenon
    <3>4. letters[e + 1] = Lower[e + 1]
      BY <3>2, <3>3
    <3>5. QED
      BY <3>1, <3>4, Zenon
  <2>3. QED
    BY <2>2, Zenon DEF Letters
<1>2. \A t, y, z : Numbers(t, n, base) => ZerosAnd(y, z, letters, t) = ZerosAnd(y, z, Lower, t)
  BY <1>1, Zenon DEF ZerosAnd
<1>3. PICK t : \E f, y, z, r \in Nat :
        /\ Numbers(t, n, base)
        /\ text = ((Repeat(" ", f) \o (sign \o prefix)) \o ZerosAnd(y, z, letters, t)) \o Repeat(" ", r)
        /\ Len(t) + z >= precision
        /\ z > 0 => Len(t) + z = precision
        /\ f > 0 \/ y > 0 \/ r > 0 =>
             f + (Len(sign) + Len(prefix)) + ((y + z) + Len(t)) + r = width
        /\ f + (Len(sign) + Len(prefix)) + ((y + z) + Len(t)) + r >= width
        /\ y > 0 => zero
        /\ zero => f = 0
        /\ IF left THEN f = 0 ELSE r = 0
  BY Zenon DEF LaidOut
<1>4. PICK f \in Nat, y \in Nat, z \in Nat, r \in Nat :
        /\ Numbers(t, n, base)
        /\ text = ((Repeat(" ", f) \o (sign \o prefix)) \o ZerosAnd(y, z, letters, t)) \o Repeat(" ", r)
        /\ Len(t) + z >= precision
        /\ z > 0 => Len(t) + z = precision
        /\ f > 0 \/ y > 0 \/ r > 0 =>
             f + (Len(sign) + Len(prefix)) + ((y + z) + Len(t)) + r = width
        /\ f + (Len(sign) + Len(prefix)) + ((y + z) + Len(t)) + r >= width
        /\ y > 0 => zero
        /\ zero => f = 0
        /\ IF left THEN f = 0 ELSE r = 0
  BY <1>3, Zenon
<1>5. text = ((Repeat(" ", f) \o (sign \o prefix)) \o ZerosAnd(y, z, Lower, t)) \o Repeat(" ", r)
  BY <1>2, <1>4, Zenon
<1>6. QED
  BY <1>4, <1>5, Zenon DEF LaidOut

(* An integer directive shows its argument.                                *)
LEMMA IntegerShows ==
  ASSUME NEW d \in Directives, NEW base \in Bases, NEW fl \in {{}, {"SMALL"}, {"SIGN"}},
         NEW n, n = Argument(d), NEW type, type = Flags(d) \cup fl
  PROVE  /\ Integer(d, base, fl) \in Seq(Clean)
         /\ Shows(Integer(d, base, fl), d, SignOf(n, type), PrefixOf(base, type),
                  Magnitude(n, type), base, LettersOf(type))
         /\ base \in {8, 10} =>
              Shows(Integer(d, base, fl), d, SignOf(n, type), PrefixOf(base, type),
                    Magnitude(n, type), base, Lower)
<1>1. PICK text, sign, prefix, letters, m :
        /\ text = number(n, base, Width(d), Precision(d), type) /\ sign = SignOf(n, type)
        /\ prefix = PrefixOf(base, type) /\ letters = LettersOf(type) /\ m = Magnitude(n, type)
  OBVIOUS
<1>2. Integer(d, base, fl) = text
  BY <1>1, Zenon DEF Integer
<1>3. n \in Nat /\ m \in Nat /\ Width(d) \in Int /\ Precision(d) \in Int
  BY <1>1, Arguments, Fields
<1>4. sign \in Seq(Clean) /\ prefix \in Seq(Clean) /\ letters \in {Lower, Upper}
  BY <1>1, SignAndPrefix
<1>5. LaidOut(text, m, sign, prefix, base, letters, Width(d), Precision(d),
              "LEFT" \in type, "LEFT" \notin type /\ "ZEROPAD" \in type)
  <2>1. LaidOut(number(n, base, Width(d), Precision(d), type), Magnitude(n, type),
                SignOf(n, type), PrefixOf(base, type), base, LettersOf(type), Width(d), Precision(d),
                "LEFT" \in type, "LEFT" \notin type /\ "ZEROPAD" \in type)
    BY <1>1, <1>3, NumberLaidOut
  <2>2. QED
    BY <1>1, <2>1, Zenon
<1>6. ("LEFT" \in type <=> "LEFT" \in Flags(d)) /\ ("ZEROPAD" \in type <=> "ZEROPAD" \in Flags(d))
  <2>1. "LEFT" \notin fl /\ "ZEROPAD" \notin fl
    OBVIOUS
  <2>2. QED
    BY <2>1
<1>7. ("LEFT" \in type) = ("LEFT" \in Flags(d))
      /\ ("LEFT" \notin type /\ "ZEROPAD" \in type) = ("LEFT" \notin Flags(d) /\ "ZEROPAD" \in Flags(d))
  BY <1>6
<1>8. LaidOut(text, m, sign, prefix, base, letters, Width(d), Precision(d),
              "LEFT" \in Flags(d), "LEFT" \notin Flags(d) /\ "ZEROPAD" \in Flags(d))
  BY <1>5, <1>7, Zenon
<1>9. text \in Seq(Clean) /\ Shows(text, d, sign, prefix, m, base, letters)
  BY <1>3, <1>4, <1>8, LaidOutShows
<1>10. ASSUME base \in {8, 10} PROVE Shows(text, d, sign, prefix, m, base, Lower)
  <2>1. LaidOut(text, m, sign, prefix, base, Lower, Width(d), Precision(d),
                "LEFT" \in Flags(d), "LEFT" \notin Flags(d) /\ "ZEROPAD" \in Flags(d))
    <3>1. PICK left, zero : left = ("LEFT" \in Flags(d))
            /\ zero = ("LEFT" \notin Flags(d) /\ "ZEROPAD" \in Flags(d))
      OBVIOUS
    <3>2. LaidOut(text, m, sign, prefix, base, letters, Width(d), Precision(d), left, zero)
      BY <1>8, <3>1, Zenon
    <3>3. LaidOut(text, m, sign, prefix, base, Lower, Width(d), Precision(d), left, zero)
      BY <1>3, <1>4, <1>10, <3>2, SameLetters, Zenon
    <3>4. QED
      BY <3>1, <3>3, Zenon
  <2>2. QED
    BY <1>3, <1>4, <2>1, LaidOutShows
<1>11. QED
  BY <1>1, <1>2, <1>9, <1>10, Zenon

\* The conversions of integers.
IntegerConvs == {"o", "x", "X", "d", "i", "u"}

(* The kinds of glyphs.                                                    *)
LEMMA GlyphSets ==
  /\ Clean \subseteq Glyphs /\ STRING \subseteq Glyphs /\ " " \in Glyphs /\ "%" \in Glyphs
  /\ Seq(Clean) \subseteq Seq(Glyphs) /\ Seq(STRING) \subseteq Seq(Glyphs)
<1>1. Clean \subseteq Glyphs /\ STRING \subseteq Glyphs /\ " " \in Glyphs /\ "%" \in Glyphs
  BY DEF Clean, Glyphs
<1>2. ASSUME NEW S, S \subseteq Glyphs PROVE Seq(S) \subseteq Seq(Glyphs)
  BY <1>2
<1>3. QED
  BY <1>1, <1>2

(* %c, %s and the others that are only filled up with blanks.              *)
LEMMA Justified ==
  ASSUME NEW d \in Directives, NEW text \in Seq(Glyphs)
  PROVE  Justify(d, text) \in Seq(Glyphs)
<1>1. Width(d) - Len(text) \in Int
  BY Fields
<1>2. \A k \in Int : Repeat(" ", k) \in Seq(Glyphs)
  BY GlyphSets, Repeated
<1>3. Repeat(" ", Width(d) - Len(text)) \in Seq(Glyphs)
  BY <1>1, <1>2
<1>4. \A a, b \in Seq(Glyphs) : a \o b \in Seq(Glyphs)
  BY ConcatProperties
<1>5. QED
  BY <1>3, <1>4, Zenon DEF Justify

(* Integers: the text reads as the number.                                 *)
LEMMA IntegersRead ==
  ASSUME NEW d \in Directives, d.conv \in IntegerConvs
  PROVE  vsprintf(d) \in Seq(Clean) /\ ReadsAs(vsprintf(d), d)
<1> DEFINE n == Argument(d)
<1>1. /\ "PLUS" \in Flags(d) <=> "PLUS" \in d.flags
      /\ "SPACE" \in Flags(d) <=> "SPACE" \in d.flags
      /\ "SPECIAL" \in Flags(d) <=> "SPECIAL" \in d.flags
      /\ "SIGN" \notin Flags(d) /\ "SMALL" \notin Flags(d)
  BY Fields DEF AllFlags
<1>2. CASE d.conv = "o"
  <2>1. PICK text, type : text = Integer(d, 8, {}) /\ type = Flags(d) \cup {}
    OBVIOUS
  <2>2. text \in Seq(Clean)
        /\ Shows(text, d, SignOf(n, type), PrefixOf(8, type), Magnitude(n, type), 8, Lower)
    BY <2>1, IntegerShows DEF Bases
  <2>3. /\ SignOf(n, type) = IF "PLUS" \in d.flags THEN <<"+">>
                             ELSE IF "SPACE" \in d.flags THEN <<" ">> ELSE <<>>
        /\ PrefixOf(8, type) = IF "SPECIAL" \in d.flags THEN <<"0">> ELSE <<>>
        /\ Magnitude(n, type) = n
    <3>1. /\ "SIGN" \notin type /\ "SMALL" \notin type
          /\ "PLUS" \in type <=> "PLUS" \in d.flags
          /\ "SPACE" \in type <=> "SPACE" \in d.flags
          /\ "SPECIAL" \in type <=> "SPECIAL" \in d.flags
      BY <1>1, <2>1
    <3>2. Magnitude(n, type) = n
      BY <3>1 DEF Magnitude, Negative
    <3>3. SignOf(n, type) = IF "PLUS" \in d.flags THEN <<"+">>
                            ELSE IF "SPACE" \in d.flags THEN <<" ">> ELSE <<>>
      BY <3>1 DEF SignOf, Negative
    <3>4. PrefixOf(8, type) = IF "SPECIAL" \in d.flags THEN <<"0">> ELSE <<>>
      BY <3>1 DEF PrefixOf
    <3>5. QED
      BY <3>2, <3>3, <3>4
  <2>4. vsprintf(d) = text
    BY <1>2, <2>1 DEF vsprintf
  <2>5. d.conv # "d" /\ d.conv # "i"
    BY <1>2
  <2>6. ReadsAs(text, d)
          = Shows(text, d, IF "PLUS" \in d.flags THEN <<"+">>
                           ELSE IF "SPACE" \in d.flags THEN <<" ">> ELSE <<>>,
                  IF "SPECIAL" \in d.flags THEN <<"0">> ELSE <<>>, n, 8, Lower)
    BY <1>2, <2>5 DEF ReadsAs
  <2>7. QED
    BY <2>2, <2>3, <2>4, <2>6, Zenon
<1>3. CASE d.conv = "x"
  <2>1. PICK text, type : text = Integer(d, 16, {"SMALL"}) /\ type = Flags(d) \cup {"SMALL"}
    OBVIOUS
  <2>2. text \in Seq(Clean)
        /\ Shows(text, d, SignOf(n, type), PrefixOf(16, type), Magnitude(n, type), 16, LettersOf(type))
    BY <2>1, IntegerShows DEF Bases
  <2>3. /\ SignOf(n, type) = IF "PLUS" \in d.flags THEN <<"+">>
                             ELSE IF "SPACE" \in d.flags THEN <<" ">> ELSE <<>>
        /\ PrefixOf(16, type) = IF "SPECIAL" \in d.flags THEN <<"0", "x">> ELSE <<>>
        /\ Magnitude(n, type) = n /\ LettersOf(type) = Lower
    <3>1. /\ "SIGN" \notin type /\ "SMALL" \in type
          /\ "PLUS" \in type <=> "PLUS" \in d.flags
          /\ "SPACE" \in type <=> "SPACE" \in d.flags
          /\ "SPECIAL" \in type <=> "SPECIAL" \in d.flags
      BY <1>1, <2>1
    <3>2. Magnitude(n, type) = n /\ LettersOf(type) = Lower
      BY <3>1 DEF Magnitude, Negative, LettersOf
    <3>3. SignOf(n, type) = IF "PLUS" \in d.flags THEN <<"+">>
                            ELSE IF "SPACE" \in d.flags THEN <<" ">> ELSE <<>>
      BY <3>1 DEF SignOf, Negative
    <3>4. PrefixOf(16, type) = IF "SPECIAL" \in d.flags THEN <<"0", "x">> ELSE <<>>
      BY <3>1 DEF PrefixOf
    <3>5. QED
      BY <3>2, <3>3, <3>4
  <2>4. vsprintf(d) = text
    BY <1>3, <2>1 DEF vsprintf
  <2>5. d.conv # "d" /\ d.conv # "i"
    BY <1>3
  <2>6. ReadsAs(text, d)
          = Shows(text, d, IF "PLUS" \in d.flags THEN <<"+">>
                           ELSE IF "SPACE" \in d.flags THEN <<" ">> ELSE <<>>,
                  IF "SPECIAL" \in d.flags THEN <<"0", "x">> ELSE <<>>, n, 16, Lower)
    BY <1>3, <2>5 DEF ReadsAs
  <2>7. QED
    BY <2>2, <2>3, <2>4, <2>6, Zenon
<1>4. CASE d.conv = "X"
  <2>1. PICK text, type : text = Integer(d, 16, {}) /\ type = Flags(d) \cup {}
    OBVIOUS
  <2>2. text \in Seq(Clean)
        /\ Shows(text, d, SignOf(n, type), PrefixOf(16, type), Magnitude(n, type), 16, LettersOf(type))
    BY <2>1, IntegerShows DEF Bases
  <2>3. /\ SignOf(n, type) = IF "PLUS" \in d.flags THEN <<"+">>
                             ELSE IF "SPACE" \in d.flags THEN <<" ">> ELSE <<>>
        /\ PrefixOf(16, type) = IF "SPECIAL" \in d.flags THEN <<"0", "X">> ELSE <<>>
        /\ Magnitude(n, type) = n /\ LettersOf(type) = Upper
    <3>1. /\ "SIGN" \notin type /\ "SMALL" \notin type
          /\ "PLUS" \in type <=> "PLUS" \in d.flags
          /\ "SPACE" \in type <=> "SPACE" \in d.flags
          /\ "SPECIAL" \in type <=> "SPECIAL" \in d.flags
      BY <1>1, <2>1
    <3>2. Magnitude(n, type) = n /\ LettersOf(type) = Upper
      BY <3>1 DEF Magnitude, Negative, LettersOf
    <3>3. SignOf(n, type) = IF "PLUS" \in d.flags THEN <<"+">>
                            ELSE IF "SPACE" \in d.flags THEN <<" ">> ELSE <<>>
      BY <3>1 DEF SignOf, Negative
    <3>4. PrefixOf(16, type) = IF "SPECIAL" \in d.flags THEN <<"0", "X">> ELSE <<>>
      BY <3>1 DEF PrefixOf
    <3>5. QED
      BY <3>2, <3>3, <3>4
  <2>4. vsprintf(d) = text
    BY <1>4, <2>1 DEF vsprintf
  <2>5. d.conv # "d" /\ d.conv # "i"
    BY <1>4
  <2>6. ReadsAs(text, d)
          = Shows(text, d, IF "PLUS" \in d.flags THEN <<"+">>
                           ELSE IF "SPACE" \in d.flags THEN <<" ">> ELSE <<>>,
                  IF "SPECIAL" \in d.flags THEN <<"0", "X">> ELSE <<>>, n, 16, Upper)
    BY <1>4, <2>5 DEF ReadsAs
  <2>7. QED
    BY <2>2, <2>3, <2>4, <2>6, Zenon
<1>5. CASE d.conv \in {"d", "i"}
  <2>1. PICK text, type : text = Integer(d, 10, {"SIGN"}) /\ type = Flags(d) \cup {"SIGN"}
    OBVIOUS
  <2>2. text \in Seq(Clean)
        /\ Shows(text, d, SignOf(n, type), PrefixOf(10, type), Magnitude(n, type), 10, Lower)
    BY <2>1, IntegerShows DEF Bases
  <2>3. /\ SignOf(n, type) = IF n >= 2 ^ (LongBits - 1) THEN <<"-">>
                             ELSE IF "PLUS" \in d.flags THEN <<"+">>
                             ELSE IF "SPACE" \in d.flags THEN <<" ">> ELSE <<>>
        /\ PrefixOf(10, type) = <<>>
        /\ Magnitude(n, type) = IF n >= 2 ^ (LongBits - 1) THEN 2 ^ LongBits - n ELSE n
    BY <1>1, <2>1 DEF SignOf, PrefixOf, Magnitude, Negative
  <2>4. vsprintf(d) = text
    BY <1>5, <2>1 DEF vsprintf
  <2>5. ReadsAs(text, d)
          = Shows(text, d, IF n >= 2 ^ (LongBits - 1) THEN <<"-">>
                           ELSE IF "PLUS" \in d.flags THEN <<"+">>
                           ELSE IF "SPACE" \in d.flags THEN <<" ">> ELSE <<>>,
                  <<>>, IF n >= 2 ^ (LongBits - 1) THEN 2 ^ LongBits - n ELSE n, 10, Lower)
    BY <1>5 DEF ReadsAs
  <2>6. QED
    BY <2>2, <2>3, <2>4, <2>5, Zenon
<1>6. CASE d.conv = "u"
  <2>1. PICK text, type : text = Integer(d, 10, {}) /\ type = Flags(d) \cup {}
    OBVIOUS
  <2>2. text \in Seq(Clean)
        /\ Shows(text, d, SignOf(n, type), PrefixOf(10, type), Magnitude(n, type), 10, Lower)
    BY <2>1, IntegerShows DEF Bases
  <2>3. /\ SignOf(n, type) = IF "PLUS" \in d.flags THEN <<"+">>
                             ELSE IF "SPACE" \in d.flags THEN <<" ">> ELSE <<>>
        /\ PrefixOf(10, type) = <<>>
        /\ Magnitude(n, type) = n
    BY <1>1, <2>1 DEF SignOf, PrefixOf, Magnitude, Negative
  <2>4. vsprintf(d) = text
    BY <1>6, <2>1 DEF vsprintf
  <2>5. d.conv # "d" /\ d.conv # "i"
    BY <1>6
  <2>6. ReadsAs(text, d)
          = Shows(text, d, IF "PLUS" \in d.flags THEN <<"+">>
                           ELSE IF "SPACE" \in d.flags THEN <<" ">> ELSE <<>>,
                  <<>>, n, 10, Lower)
    BY <1>6, <2>5 DEF ReadsAs
  <2>7. QED
    BY <2>2, <2>3, <2>4, <2>6, Zenon
<1>7. QED
  BY <1>2, <1>3, <1>4, <1>5, <1>6 DEF IntegerConvs

(* Every item adds glyphs to the text, and what an integer adds reads as   *)
(* the number.                                                             *)
LEMMA ItemText ==
  ASSUME NEW d \in Item
  PROVE  /\ vsprintf(d) \in Seq(Glyphs)
         /\ ReadsAs(vsprintf(d), d)
         /\ d.conv \in IntegerConvs => vsprintf(d) \in Seq(Clean)
<1>1. ASSUME d.conv \notin IntegerConvs PROVE ReadsAs(vsprintf(d), d)
  <2>1. d.conv # "o" /\ d.conv # "x" /\ d.conv # "X" /\ d.conv \notin {"d", "i", "u"}
    BY <1>1 DEF IntegerConvs
  <2>2. QED
    BY <2>1 DEF ReadsAs
<1>2. CASE d.conv = "plain"
  <2>1. vsprintf(d) = d.text
    BY <1>2 DEF vsprintf
  <2>2. d.text \in Seq(STRING)
    BY DEF Item
  <2>3. d.conv \notin IntegerConvs
    BY <1>2 DEF IntegerConvs
  <2>4. QED
    BY <1>1, <2>1, <2>2, <2>3, GlyphSets, Zenon
<1>3. CASE d.conv # "plain"
  <2>1. d \in Directives
    BY <1>3 DEF Item, Directives
  <2>2. CASE d.conv \in IntegerConvs
    BY <2>1, <2>2, IntegersRead, GlyphSets, Zenon
  <2>3. CASE d.conv \notin IntegerConvs
    <3>1. d.text \in Seq(Glyphs) /\ d.conv \in Glyphs /\ "%" \in Glyphs
      <4>1. d.text \in Seq(STRING) /\ d.conv \in STRING
        BY <2>1 DEF Directives
      <4>2. QED
        BY <4>1, GlyphSets, Zenon
    <3>2. CASE d.conv = "c"
      <4>1. vsprintf(d) = Justify(d, d.text)
        BY <3>2 DEF vsprintf
      <4>2. QED
        BY <1>1, <2>1, <2>3, <3>1, <4>1, Justified, Zenon
    <3>3. CASE d.conv = "s"
      <4>1. PICK s : s = IF d.dot /\ Precision(d) < Len(d.text)
                         THEN SubSeq(d.text, 1, Precision(d)) ELSE d.text
        OBVIOUS
      <4>2. s \in Seq(Glyphs)
        <5>1. CASE d.dot /\ Precision(d) < Len(d.text)
          <6>1. PICK p \in Int, t \in Seq(Glyphs) : p = Precision(d) /\ t = d.text
            BY <2>1, <3>1, Fields
          <6>2. Len(t) \in Nat /\ p < Len(t)
            BY <5>1, <6>1
          <6>3. \A i \in 1 .. p : t[i] \in Glyphs
            BY <6>2
          <6>4. SubSeq(t, 1, p) \in Seq(Glyphs)
            BY <6>1, <6>3, SubSeqProperties
          <6>5. QED
            BY <4>1, <5>1, <6>1, <6>4, Zenon
        <5>2. CASE ~(d.dot /\ Precision(d) < Len(d.text))
          BY <3>1, <4>1, <5>2, Zenon
        <5>3. QED
          BY <5>1, <5>2
      <4>3. vsprintf(d) = Justify(d, s)
        BY <3>3, <4>1 DEF vsprintf
      <4>4. QED
        BY <1>1, <2>1, <2>3, <4>2, <4>3, Justified, Zenon
    <3>4. CASE d.conv = "p"
      <4>1. PICK n : n = Argument(d)
        OBVIOUS
      <4>2. PICK type : type = d.flags \cup {"ZEROPAD"}
        OBVIOUS
      <4>3. n \in Nat /\ Magnitude(n, type) \in Nat /\ Precision(d) \in Int /\ PointerWidth \in Int
        BY <2>1, <4>1, Arguments, Fields, PrintkAssumption DEF PrintkAssumption
      <4>4. number(n, 16, PointerWidth, Precision(d), type) \in Seq(Clean)
        <5>1. PICK text, left, zero :
                 /\ text = number(n, 16, PointerWidth, Precision(d), type)
                 /\ left = ("LEFT" \in type)
                 /\ zero = ("LEFT" \notin type /\ "ZEROPAD" \in type)
          OBVIOUS
        <5>2. LaidOut(number(n, 16, PointerWidth, Precision(d), type), Magnitude(n, type),
                 SignOf(n, type), PrefixOf(16, type), 16, LettersOf(type), PointerWidth, Precision(d),
                 "LEFT" \in type, "LEFT" \notin type /\ "ZEROPAD" \in type)
          BY <4>3, NumberLaidOut DEF Bases
        <5>3. PICK sign, prefix, letters, m :
                 /\ sign = SignOf(n, type) /\ prefix = PrefixOf(16, type)
                 /\ letters = LettersOf(type) /\ m = Magnitude(n, type)
          OBVIOUS
        <5>4. LaidOut(text, m, sign, prefix, 16, letters, PointerWidth, Precision(d), left, zero)
          BY <5>1, <5>2, <5>3, Zenon
        <5>5. sign \in Seq(Clean) /\ prefix \in Seq(Clean) /\ letters \in {Lower, Upper} /\ m \in Nat
          BY <4>3, <5>3, SignAndPrefix
        <5>6. 16 \in Bases
          BY DEF Bases
        <5>7. text \in Seq(Clean)
          BY <5>4, <5>5, <5>6, LaidOutClean, Zenon
        <5>8. QED
          BY <5>1, <5>7
      <4>5. Integer(d, 16, {}) \in Seq(Clean)
        BY <2>1, <4>1, IntegerShows DEF Bases
      <4>6. vsprintf(d) \in {number(n, 16, PointerWidth, Precision(d), type), Integer(d, 16, {})}
        BY <3>4, <4>1, <4>2 DEF vsprintf
      <4>7. vsprintf(d) \in Seq(Glyphs)
        BY <4>4, <4>5, <4>6, GlyphSets
      <4>8. QED
        BY <1>1, <2>3, <4>7, Zenon
    <3>5. CASE d.conv \notin {"c", "s", "p"}
      <4>1. vsprintf(d) \in {<<>>, <<"%">>, <<"%", d.conv>>}
        <5>1. d.conv \notin {"o", "x", "X", "d", "i", "u"}
          BY <2>3 DEF IntegerConvs
        <5>2. QED
          BY <1>3, <3>5, <5>1 DEF vsprintf
      <4>2. <<>> \in Seq(Glyphs) /\ <<"%">> \in Seq(Glyphs) /\ <<"%", d.conv>> \in Seq(Glyphs)
        <5>1. \A g \in Glyphs : <<g>> \in Seq(Glyphs)
          OBVIOUS
        <5>2. \A g, h \in Glyphs : <<g, h>> \in Seq(Glyphs)
          OBVIOUS
        <5>3. <<>> \in Seq(Glyphs)
          OBVIOUS
        <5>4. QED
          BY <3>1, <5>1, <5>2, <5>3, Zenon
      <4>3. vsprintf(d) \in Seq(Glyphs)
        BY <4>1, <4>2, Zenon
      <4>4. QED
        BY <1>1, <2>3, <4>3, Zenon
    <3>6. QED
      BY <3>2, <3>3, <3>4, <3>5
  <2>4. QED
    BY <2>2, <2>3
<1>4. QED
  BY <1>2, <1>3

-----------------------------------------------------------------------------
(* The texts of the first items of a message.                              *)
Parts(g, msg) ==
  /\ g \in [0 .. Len(msg) -> Seq(Glyphs)]
  /\ g[0] = <<>>
  /\ \A m \in 1 .. Len(msg) : g[m] = g[m - 1] \o vsprintf(msg[m])
  /\ \A m \in 0 .. Len(msg) : Len(g[m]) <= Len(g[Len(msg)])
  /\ Text(msg) = g[Len(msg)]

(* The beginnings of the text of a message exist.                          *)
LEMMA PartsExist ==
  ASSUME NEW msg \in Seq(Item) \ {<<>>}
  PROVE  \E g : Parts(g, msg)
<1> DEFINE s == [k \in DOMAIN msg |-> vsprintf(msg[k])]
<1>1. PICK n : n = Len(msg)
  OBVIOUS
<1>2. n \in Nat \ {0} /\ DOMAIN msg = 1 .. n
  BY <1>1
<1>3. s \in [1 .. n -> Seq(Glyphs)]
  <2>1. \A k \in 1 .. n : msg[k] \in Item
    BY <1>1
  <2>2. \A k \in 1 .. n : vsprintf(msg[k]) \in Seq(Glyphs)
    BY <2>1, ItemText
  <2>3. QED
    BY <1>2, <2>2
<1>4. \A k \in 1 .. n : s[k] = vsprintf(msg[k])
  BY <1>2
<1>5. Text(msg) = FlattenSeq(s)
  BY DEF Text
<1> HIDE DEF s
<1>6. PICK g : /\ g \in [1 .. n -> Seq(Glyphs)]
               /\ g[1] = s[1]
               /\ \A i \in 2 .. n : g[i] = g[i - 1] \o s[i]
               /\ FlattenSeq(s) = g[n]
  <2>1. n \in Nat \ {0} /\ s \in [1 .. n -> Seq(Glyphs)]
    BY <1>2, <1>3
  <2>2. HasParts(s, n)
    BY <2>1, TextParts
  <2>3. QED
    BY <2>2, Zenon DEF HasParts
<1> DEFINE h == [m \in 0 .. n |-> IF m = 0 THEN <<>> ELSE g[m]]
<1>7. /\ h \in [0 .. n -> Seq(Glyphs)] /\ h[0] = <<>> /\ h[n] = g[n]
      /\ \A m \in 1 .. n : h[m] = g[m] /\ (m = 1 => h[m - 1] = <<>>) /\ (m # 1 => h[m - 1] = g[m - 1])
  BY <1>2, <1>6
<1> HIDE DEF h
<1>8. \A m \in 1 .. n : h[m] = h[m - 1] \o vsprintf(msg[m])
  <2> SUFFICES ASSUME NEW m \in 1 .. n PROVE h[m] = h[m - 1] \o vsprintf(msg[m])
    OBVIOUS
  <2>1. vsprintf(msg[m]) \in Seq(Glyphs) /\ s[m] = vsprintf(msg[m])
    BY <1>3, <1>4
  <2>2. CASE m = 1
    <3>1. \A t \in Seq(Glyphs) : <<>> \o t = t
      BY ConcatEmptySeq
    <3>2. <<>> \o vsprintf(msg[m]) = vsprintf(msg[m])
      BY <2>1, <3>1, Zenon
    <3>3. QED
      BY <1>6, <1>7, <2>1, <2>2, <3>2, Zenon
  <2>3. CASE m # 1
    <3>1. m \in 2 .. n
      BY <2>3
    <3>2. QED
      BY <1>6, <1>7, <2>1, <2>3, <3>1, Zenon
  <2>4. QED
    BY <2>2, <2>3
<1>9. \A m \in 0 .. n : Len(h[m]) <= Len(h[n])
  <2> DEFINE S == {j \in Nat : j <= n => Len(h[n - j]) <= Len(h[n])}
  <2>1. ASSUME NEW j \in Nat, \A k \in Nat : k < j => k \in S
        PROVE  j \in S
    <3> SUFFICES ASSUME j <= n PROVE Len(h[n - j]) <= Len(h[n])
      OBVIOUS
    <3>1. CASE j = 0
      <4>1. n - j = n /\ n \in 0 .. n
        BY <1>2, <3>1
      <4>2. Len(h[n]) \in Nat
        BY <1>7, <4>1
      <4>3. QED
        BY <4>1, <4>2
    <3>2. CASE j # 0
      <4>1. /\ j - 1 \in S /\ j - 1 <= n /\ n - (j - 1) \in 1 .. n
            /\ (n - (j - 1)) - 1 = n - j /\ n - j \in 0 .. n
        BY <1>2, <2>1, <3>2
      <4>2. PICK m \in 1 .. n : m = n - (j - 1) /\ m - 1 = n - j
        BY <4>1
      <4>3. Len(h[m]) <= Len(h[n])
        BY <4>1, <4>2
      <4>4. h[m - 1] \in Seq(Glyphs) /\ vsprintf(msg[m]) \in Seq(Glyphs) /\ h[n] \in Seq(Glyphs)
            /\ h[m] \in Seq(Glyphs)
        BY <1>2, <1>3, <1>4, <1>7
      <4>5. \A a, b \in Seq(Glyphs) : Len(a \o b) = Len(a) + Len(b)
        BY ConcatProperties
      <4>6. Len(h[m]) = Len(h[m - 1]) + Len(vsprintf(msg[m]))
        BY <1>8, <4>4, <4>5, Zenon
      <4>7. Len(h[m - 1]) \in Nat /\ Len(vsprintf(msg[m])) \in Nat /\ Len(h[n]) \in Nat
        BY <4>4, LenProperties
      <4>8. Len(h[m - 1]) <= Len(h[n])
        <5>1. PICK a, b, c, d : /\ a = Len(h[m - 1]) /\ b = Len(vsprintf(msg[m]))
                                /\ c = Len(h[n]) /\ d = Len(h[m])
          OBVIOUS
        <5>2. a \in Nat /\ b \in Nat /\ c \in Nat /\ d = a + b /\ d <= c
          BY <4>3, <4>6, <4>7, <5>1, Zenon
        <5>3. a <= c
          BY <5>2
        <5>4. QED
          BY <5>1, <5>3, Zenon
      <4>9. QED
        BY <4>2, <4>8
    <3>3. QED
      BY <3>1, <3>2
  <2>2. Nat \subseteq S
    <3> HIDE DEF S
    <3>1. QED
      BY <2>1, Induction
  <2>3. QED
    <3> SUFFICES ASSUME NEW m \in 0 .. n PROVE Len(h[m]) <= Len(h[n])
      OBVIOUS
    <3>1. n - m \in Nat /\ n - m <= n /\ n - (n - m) = m
      BY <1>2
    <3>2. n - m \in S
      BY <2>2, <3>1
    <3>3. Len(h[n - (n - m)]) <= Len(h[n])
      BY <3>1, <3>2
    <3>4. QED
      BY <3>1, <3>3
<1>10. Parts(h, msg)
  BY <1>1, <1>5, <1>6, <1>7, <1>8, <1>9, Zenon DEF Parts
<1>11. QED
  BY <1>10

PartsOf(msg)  == CHOOSE g : Parts(g, msg)
Pre(msg, m)   == PartsOf(msg)[m]

(* What a message has added to the text after each of its items, and that  *)
(* all of it fits into the buffer.                                         *)
LEMMA PreIs ==
  ASSUME NEW msg \in Printed
  PROVE  /\ msg \in Seq(Item) /\ Len(msg) \in Nat \ {0}
         /\ Text(msg) \in Seq(Glyphs) /\ Len(Text(msg)) \in 0 .. BufLen
         /\ Pre(msg, 0) = <<>> /\ Pre(msg, Len(msg)) = Text(msg)
         /\ \A m \in 0 .. Len(msg) :
              Pre(msg, m) \in Seq(Glyphs) /\ Len(Pre(msg, m)) \in 0 .. Len(Text(msg))
         /\ \A m \in 1 .. Len(msg) :
              /\ msg[m] \in Item /\ vsprintf(msg[m]) \in Seq(Glyphs)
              /\ Pre(msg, m) = Pre(msg, m - 1) \o vsprintf(msg[m])
<1>1. msg \in Seq(Item) \ {<<>>} /\ Len(Text(msg)) <= BufLen /\ BufLen \in Nat
  BY ConsoleAssumption DEF ConsoleAssumption
<1>2. \E g : Parts(g, msg)
  BY <1>1, PartsExist
<1>3. Parts(PartsOf(msg), msg)
  BY <1>2, Zenon DEF PartsOf
<1>4. PICK g : g = PartsOf(msg)
  OBVIOUS
<1>5. PICK n : n = Len(msg)
  OBVIOUS
<1>6. n \in Nat \ {0} /\ \A m \in 1 .. n : msg[m] \in Item
  BY <1>1, <1>5
<1>7. /\ g \in [0 .. n -> Seq(Glyphs)]
      /\ g[0] = <<>>
      /\ \A m \in 1 .. n : g[m] = g[m - 1] \o vsprintf(msg[m])
      /\ \A m \in 0 .. n : Len(g[m]) <= Len(g[n])
      /\ Text(msg) = g[n]
  BY <1>3, <1>4, <1>5, Zenon DEF Parts
<1>8. \A m \in 0 .. n : g[m] \in Seq(Glyphs) /\ Len(g[m]) \in Nat
  BY <1>7, LenProperties
<1>9. \A m \in 0 .. n : Len(g[m]) \in 0 .. Len(g[n])
  <2>1. n \in 0 .. n
    BY <1>6
  <2>2. Len(g[n]) \in Nat
    BY <1>8, <2>1
  <2>3. QED
    BY <1>7, <1>8, <2>2
<1>10. Text(msg) \in Seq(Glyphs) /\ Len(Text(msg)) \in 0 .. BufLen
  <2>1. n \in 0 .. n
    BY <1>6
  <2>2. Text(msg) \in Seq(Glyphs) /\ Len(Text(msg)) \in Nat
    BY <1>7, <1>8, <2>1
  <2>3. QED
    BY <1>1, <2>2
<1>11. \A m \in 1 .. n : vsprintf(msg[m]) \in Seq(Glyphs)
  BY <1>6, ItemText
<1>12. QED
  BY <1>1, <1>4, <1>5, <1>6, <1>7, <1>8, <1>9, <1>10, <1>11, Zenon DEF Pre

-----------------------------------------------------------------------------
(* The frames.                                                             *)
Cells == Nat \X Nat \X Glyphs
FrameSet ==
  [kind : {"task", "irq", "trap"}, if : BOOLEAN, todo : Seq(Printed),
   fault : [vector : Int, code : Nat],
   at : {"code", "lock", "format", "put", "wrap", "end"},
   fmt : Seq(Item), i : Nat, count : Nat, tabSpace : Nat,
   msg : Seq(Item), start : Nat \X Nat, drawn : Seq(Cells), disturbed : BOOLEAN]

\* What a frame may print.
Allowed(f) == IF f.kind = "trap" THEN Range(ReportOf(f.fault)) ELSE Printed

\* How many items of its message are in the buffer.
Done(f) == Len(f.msg) - Len(f.fmt)

\* Where in color_printk a frame is, and what it has done so far.
Outside(f) ==
  f.i = 0 /\ f.count = 0 /\ f.tabSpace = 0 /\ f.drawn = <<>> /\ ~f.disturbed
Converting(f) ==
  /\ f.fmt # <<>> /\ Len(f.fmt) <= Len(f.msg)
  /\ \A j \in 1 .. Len(f.fmt) : f.fmt[j] = f.msg[Done(f) + j]
  /\ f.i = Len(Pre(f.msg, Done(f)))
  /\ f.count = 0 /\ f.tabSpace = 0 /\ f.drawn = <<>>
Placed(f) ==
  /\ f.fault \in Faults \cup BootFaults \/ f.kind # "trap"
  /\ f.todo \in Seq(Allowed(f))
  /\ f.at = "code" => Outside(f)
  /\ f.at # "code" => f.msg \in Allowed(f)
  /\ f.at = "lock" => f.fmt = f.msg /\ ~f.disturbed /\ f.if
  /\ f.at \in {"lock", "format"} => Converting(f)
  /\ f.at \in {"put", "wrap"} => f.i = Len(Text(f.msg)) /\ f.count < f.i /\ f.tabSpace < TAB
  /\ f.at = "end" => f.i = Len(Text(f.msg)) /\ f.count = f.i /\ f.tabSpace = 0

(* What a frame may print is among what is printed.                        *)
LEMMA AllowedPrinted ==
  ASSUME NEW f, f.fault \in Faults \cup BootFaults \/ f.kind # "trap"
  PROVE  Allowed(f) \subseteq Printed
<1>1. \A e \in Faults \cup BootFaults : Range(ReportOf(e)) \subseteq Printed
  BY DEF Printed
<1>2. QED
  BY <1>1 DEF Allowed

(* A disturbed frame is where it was,                                      *)
LEMMA StaysPlaced ==
  ASSUME NEW g \in FrameSet, Placed(g)
  PROVE  Disturb(g) \in FrameSet /\ (g.at \notin {"code", "lock"} => Placed(Disturb(g)))
<1>1. PICK h : h = Disturb(g)
  OBVIOUS
<1>2. h \in FrameSet
  <2>1. <<0, 0>> \in Nat \X Nat /\ <<>> \in Seq(Cells)
    OBVIOUS
  <2>2. PICK z, e : z = <<0, 0>> /\ e = <<>> /\ z \in Nat \X Nat /\ e \in Seq(Cells)
    BY <2>1
  <2>3. h = [g EXCEPT !.disturbed = TRUE, !.start = z, !.drawn = e]
    BY <1>1, <2>2 DEF Disturb
  <2>4. QED
    BY <2>2, <2>3 DEF FrameSet
<1>3. /\ h.kind = g.kind /\ h.if = g.if /\ h.todo = g.todo /\ h.fault = g.fault /\ h.at = g.at
      /\ h.fmt = g.fmt /\ h.i = g.i /\ h.count = g.count /\ h.tabSpace = g.tabSpace
      /\ h.msg = g.msg /\ h.drawn = <<>>
  BY <1>1 DEF Disturb, FrameSet
<1>4. Allowed(h) = Allowed(g) /\ Done(h) = Done(g)
  BY <1>3 DEF Allowed, Done
<1>5. Converting(g) => Converting(h)
  BY <1>3, <1>4, Zenon DEF Converting
<1>6. g.at \notin {"code", "lock"} => Placed(h)
  BY <1>3, <1>4, <1>5 DEF Placed
<1>7. QED
  BY <1>1, <1>2, <1>6

(* The call.                                                               *)
\* The top frame after a call, after a round, and after an item is converted.
Called(f, m) ==
  [f EXCEPT !.at = IF f.if THEN "lock" ELSE "format",
            !.msg = m, !.fmt = m, !.todo = IF f.kind # "task" THEN Tail(@) ELSE @]
Wrapped(f, count) ==
  [f EXCEPT !.count = count,
            !.at = IF count < f.i \/ f.tabSpace > 0 THEN "put" ELSE "end"]
TextOf(f) == vsprintf(Head(f.fmt))
Upto(f)   == f.i + Len(TextOf(f))
Converted(f) ==
  [f EXCEPT !.fmt = Tail(f.fmt), !.i = Upto(f),
            !.at = IF Tail(f.fmt) # <<>> THEN "format" ELSE IF Upto(f) > 0 THEN "put" ELSE "end"]

(* and a call of color_printk begins in place.                             *)
LEMMA CallPlaced ==
  ASSUME NEW f \in FrameSet, Placed(f), f.at = "code", NEW m \in Allowed(f),
         f.kind # "task" => f.todo # <<>>, NEW h, h = Called(f, m)
  PROVE  h \in FrameSet /\ Placed(h) /\ h.kind = f.kind /\ h.if = f.if
         /\ h.at = (IF f.if THEN "lock" ELSE "format") /\ h.i = 0
<1>1. Allowed(f) \subseteq Printed /\ m \in Printed
  BY AllowedPrinted DEF Placed
<1>2. m \in Seq(Item) /\ Len(m) \in Nat \ {0} /\ Pre(m, 0) = <<>>
  BY <1>1, PreIs
<1>3. f.todo \in Seq(Allowed(f)) /\ f.todo \in Seq(Printed) /\ Outside(f)
  BY DEF Placed, FrameSet
<1>4. PICK t : t = IF f.kind # "task" THEN Tail(f.todo) ELSE f.todo
  OBVIOUS
<1>5. t \in Seq(Allowed(f)) /\ t \in Seq(Printed)
  BY <1>3, <1>4
<1>6. PICK w : w = IF f.if THEN "lock" ELSE "format"
  OBVIOUS
<1>7. w \in {"lock", "format"} /\ w # "code"
  BY <1>6
<1>8. h = [f EXCEPT !.at = w, !.msg = m, !.fmt = m, !.todo = t]
  BY <1>4, <1>6 DEF Called
<1>9. h \in FrameSet
  <2>1. m \in Seq(Item) /\ t \in Seq(Printed)
        /\ w \in {"code", "lock", "format", "put", "wrap", "end"}
    BY <1>2, <1>5, <1>7
  <2>2. PICK g : g = [f EXCEPT !.at = w, !.todo = t]
    OBVIOUS
  <2>3. g \in FrameSet
    BY <2>1, <2>2 DEF FrameSet
  <2>4. h = [g EXCEPT !.msg = m, !.fmt = m]
    BY <1>8, <2>2 DEF FrameSet
  <2>5. QED
    BY <2>1, <2>3, <2>4 DEF FrameSet
<1>10. /\ h.kind = f.kind /\ h.if = f.if /\ h.todo = t /\ h.fault = f.fault /\ h.at = w
       /\ h.fmt = m /\ h.msg = m /\ h.i = f.i /\ h.count = f.count /\ h.tabSpace = f.tabSpace
       /\ h.drawn = f.drawn /\ h.disturbed = f.disturbed
  BY <1>8 DEF FrameSet
<1>11. Allowed(h) = Allowed(f)
  BY <1>10 DEF Allowed
<1>12. Done(h) = 0
  BY <1>2, <1>10 DEF Done
<1>13. Converting(h)
  <2>1. Len(<<>>) = 0 /\ m # <<>> /\ Len(m) <= Len(m) /\ \A j \in 1 .. Len(m) : 0 + j = j
    BY <1>2
  <2>2. QED
    BY <1>2, <1>3, <1>10, <1>12, <2>1, Zenon DEF Converting, Outside
<1>14. Placed(h)
  BY <1>3, <1>5, <1>6, <1>7, <1>10, <1>11, <1>13 DEF Placed, Outside
<1>15. QED
  BY <1>3, <1>6, <1>9, <1>10, <1>14 DEF Outside

(* vsprintf puts one item into the buffer.                                 *)
LEMMA FormatPlaced ==
  ASSUME NEW f \in FrameSet, Placed(f), f.at = "format", NEW h, h = Converted(f)
  PROVE  /\ h \in FrameSet /\ Placed(h) /\ h.kind = f.kind /\ h.if = f.if /\ h.at # "code"
         /\ h.at \in {"format", "put", "end"} /\ h.at # "lock"
         /\ TextOf(f) \in Seq(Glyphs) /\ Upto(f) \in Nat /\ Upto(f) <= BufLen
         /\ Done(f) + 1 \in 1 .. Len(f.msg) /\ Done(h) = Done(f) + 1
         /\ Pre(f.msg, Done(h)) = Pre(f.msg, Done(f)) \o TextOf(f)
         /\ f.i = Len(Pre(f.msg, Done(f))) /\ Upto(f) = Len(Pre(f.msg, Done(h)))
         /\ Pre(f.msg, Done(f)) \in Seq(Glyphs) /\ f.msg \in Printed
         /\ h.at = "put" => Pre(f.msg, Done(h)) = Text(f.msg)
         /\ h.disturbed = f.disturbed /\ h.msg = f.msg /\ h.i = Upto(f) /\ h.count = 0
         /\ h.tabSpace = 0 /\ h.drawn = <<>>
<1>0. PICK text, rest, i : text = TextOf(f) /\ rest = Tail(f.fmt) /\ i = Upto(f)
  OBVIOUS
<1>00. text = vsprintf(Head(f.fmt)) /\ i = f.i + Len(text)
  BY <1>0 DEF TextOf, Upto
<1>1. Allowed(f) \subseteq Printed /\ f.msg \in Printed /\ f.msg \in Allowed(f)
  BY AllowedPrinted DEF Placed
<1>2. PICK msg, fmt, n, k : msg = f.msg /\ fmt = f.fmt /\ n = Len(f.msg) /\ k = Len(f.fmt)
  OBVIOUS
<1>3. /\ msg \in Seq(Item) /\ n = Len(msg) /\ n \in Nat \ {0}
      /\ Len(Text(msg)) \in 0 .. BufLen
      /\ Pre(msg, 0) = <<>> /\ Pre(msg, n) = Text(msg)
      /\ \A m \in 0 .. n : Pre(msg, m) \in Seq(Glyphs) /\ Len(Pre(msg, m)) \in 0 .. Len(Text(msg))
      /\ \A m \in 1 .. n :
           /\ msg[m] \in Item /\ vsprintf(msg[m]) \in Seq(Glyphs)
           /\ Pre(msg, m) = Pre(msg, m - 1) \o vsprintf(msg[m])
  BY <1>1, <1>2, PreIs
<1>4. Converting(f)
  BY DEF Placed
<1>5. /\ fmt \in Seq(Item) /\ fmt # <<>> /\ k = Len(fmt) /\ k \in Nat \ {0} /\ k <= n
      /\ Done(f) = n - k
      /\ \A j \in 1 .. k : fmt[j] = msg[(n - k) + j]
      /\ f.i = Len(Pre(msg, n - k)) /\ f.count = 0 /\ f.tabSpace = 0 /\ f.drawn = <<>>
  <2>1. fmt \in Seq(Item)
    BY <1>2 DEF FrameSet
  <2>2. fmt # <<>> /\ k = Len(fmt) /\ k <= n
    BY <1>2, <1>4 DEF Converting
  <2>3. k \in Nat \ {0}
    BY <2>1, <2>2
  <2>4. QED
    BY <1>2, <1>4, <2>1, <2>2, <2>3, Zenon DEF Converting, Done
<1>6. Head(fmt) = fmt[1] /\ rest \in Seq(Item) /\ Len(rest) = k - 1
      /\ \A j \in 1 .. k - 1 : rest[j] = fmt[j + 1]
  <2>1. Tail(fmt) \in Seq(Item) /\ Len(Tail(fmt)) = Len(fmt) - 1
        /\ \A j \in 1 .. Len(Tail(fmt)) : Tail(fmt)[j] = fmt[j + 1]
    BY <1>5, HeadTailProperties
  <2>2. Head(fmt) = fmt[1]
    BY <1>5
  <2>3. QED
    BY <1>0, <1>2, <1>5, <2>1, <2>2, Zenon
<1>7. PICK m : m = (n - k) + 1
  OBVIOUS
<1>8. m \in 1 .. n /\ m - 1 = n - k /\ m = n - (k - 1) /\ m \in 0 .. n /\ n - k \in 0 .. n /\ 1 \in 1 .. k
  <2>1. n \in Nat \ {0} /\ k \in Nat \ {0} /\ k <= n
    BY <1>3, <1>5
  <2>2. QED
    BY <1>7, <2>1
<1>9. text = vsprintf(msg[m]) /\ text \in Seq(Glyphs)
  BY <1>00, <1>2, <1>3, <1>5, <1>6, <1>7, <1>8, Zenon
<1>10. Pre(msg, m) = Pre(msg, n - k) \o text
  BY <1>3, <1>8, <1>9, Zenon
<1>11. i = Len(Pre(msg, m))
  <2>1. \A a, b \in Seq(Glyphs) : Len(a \o b) = Len(a) + Len(b)
    BY ConcatProperties
  <2>2. Pre(msg, n - k) \in Seq(Glyphs)
    BY <1>3, <1>8
  <2>3. QED
    BY <1>00, <1>5, <1>9, <1>10, <2>1, <2>2, Zenon
<1>12. i \in Nat /\ i <= BufLen /\ i <= Len(Text(msg))
  <2>1. i \in 0 .. Len(Text(msg))
    BY <1>3, <1>8, <1>11, Zenon
  <2>2. PICK t : t = Len(Text(msg))
    OBVIOUS
  <2>3. BufLen \in Nat
    BY ConsoleAssumption DEF ConsoleAssumption
  <2>4. t \in 0 .. BufLen /\ i \in 0 .. t
    BY <1>3, <2>1, <2>2, Zenon
  <2>5. i \in Nat /\ i <= BufLen /\ i <= t
    BY <2>3, <2>4
  <2>6. QED
    BY <2>2, <2>5, Zenon
<1>13. PICK w : w = IF rest # <<>> THEN "format" ELSE IF i > 0 THEN "put" ELSE "end"
  OBVIOUS
<1>14. /\ w \in {"format", "put", "end"} /\ w # "lock" /\ w # "code" /\ w # "wrap"
       /\ w = "format" => rest # <<>>
       /\ w # "format" => rest = <<>>
       /\ w = "put" => i > 0
       /\ w = "end" => i = 0
  <2>1. i > 0 \/ i = 0
    BY <1>12
  <2>2. QED
    BY <1>13, <2>1
<1>15. h = [f EXCEPT !.fmt = rest, !.i = i, !.at = w]
  BY <1>0, <1>13 DEF Converted
<1>16. h \in FrameSet
  BY <1>6, <1>12, <1>14, <1>15 DEF FrameSet
<1>17. /\ h.kind = f.kind /\ h.if = f.if /\ h.todo = f.todo /\ h.fault = f.fault /\ h.at = w
       /\ h.fmt = rest /\ h.msg = msg /\ h.i = i /\ h.count = 0 /\ h.tabSpace = 0
       /\ h.drawn = <<>> /\ h.disturbed = f.disturbed
  BY <1>2, <1>5, <1>15 DEF FrameSet
<1>18. Allowed(h) = Allowed(f)
  BY <1>17 DEF Allowed
<1>19. Done(h) = m
  <2>1. Done(h) = n - (k - 1)
    BY <1>3, <1>6, <1>17, Zenon DEF Done
  <2>2. QED
    BY <1>8, <2>1, Zenon
<1>20. Converting(h) \/ rest = <<>>
  <2>0. n \in Nat /\ k \in Nat /\ k <= n
    BY <1>3, <1>5
  <2>1. k - 1 <= n /\ \A j \in 1 .. k - 1 : j + 1 \in 1 .. k /\ (n - k) + (j + 1) = m + j
    BY <1>7, <2>0
  <2>2. \A j \in 1 .. k - 1 : rest[j] = msg[m + j]
    <3> SUFFICES ASSUME NEW j \in 1 .. k - 1 PROVE rest[j] = msg[m + j]
      OBVIOUS
    <3>1. PICK e : e = j + 1
      OBVIOUS
    <3>2. e \in 1 .. k /\ (n - k) + e = m + j
      BY <2>1, <3>1
    <3>3. rest[j] = fmt[e]
      BY <1>6, <3>1
    <3>4. fmt[e] = msg[(n - k) + e]
      BY <1>5, <3>2
    <3>5. QED
      BY <3>2, <3>3, <3>4, Zenon
  <2>3. QED
    BY <1>3, <1>6, <1>11, <1>17, <1>19, <2>1, <2>2, Zenon DEF Converting
<1>21. rest = <<>> => Pre(msg, m) = Text(msg) /\ i = Len(Text(msg))
  <2>1. rest = <<>> => m = n
    <3>1. rest = <<>> => k - 1 = 0
      BY <1>6
    <3>2. n \in Nat /\ k \in Nat /\ m = n - (k - 1)
      BY <1>3, <1>5, <1>8
    <3>3. QED
      BY <3>1, <3>2
  <2>2. QED
    BY <1>3, <1>11, <2>1, Zenon
<1>22. Placed(h)
  <2>1. TAB > 0 /\ TAB \in Nat
    BY ConsoleAssumption DEF ConsoleAssumption
  <2>2. 0 < TAB /\ (w = "put" => 0 < i)
    BY <1>12, <1>14, <2>1
  <2>3. /\ f.fault \in Faults \cup BootFaults \/ f.kind # "trap"
        /\ f.todo \in Seq(Allowed(f))
    BY DEF Placed
  <2>4. w # "format" => i = Len(Text(msg))
    BY <1>14, <1>21, Zenon
  <2>5. w = "format" => Converting(h)
    BY <1>14, <1>20, Zenon
  <2>6. QED
    BY <1>1, <1>2, <1>14, <1>17, <1>18, <2>2, <2>3, <2>4, <2>5 DEF Placed
<1>23. Done(f) + 1 = m /\ Pre(f.msg, Done(h)) = Pre(f.msg, Done(f)) \o text
  BY <1>2, <1>5, <1>7, <1>10, <1>19, Zenon
<1>24. h.at = "put" => Pre(f.msg, Done(h)) = Text(f.msg)
  BY <1>2, <1>14, <1>17, <1>19, <1>21
<1>25. QED
  <2>1. Pre(f.msg, Done(f)) \in Seq(Glyphs) /\ f.i = Len(Pre(f.msg, Done(f)))
        /\ i = Len(Pre(f.msg, Done(h)))
    BY <1>2, <1>3, <1>5, <1>8, <1>11, <1>19, Zenon
  <2>2. QED
    BY <1>0, <1>1, <1>2, <1>8, <1>9, <1>12, <1>14, <1>16, <1>17, <1>19, <1>22, <1>23, <1>24, <2>1, Zenon

(* The lock is taken.                                                      *)
LEMMA LockPlaced ==
  ASSUME NEW f \in FrameSet, Placed(f), f.at = "lock", NEW h, h = [f EXCEPT !.at = "format"]
  PROVE  /\ h \in FrameSet /\ Placed(h) /\ h.kind = f.kind /\ h.if = f.if /\ h.at = "format"
         /\ h.i = 0
<1>1. h \in FrameSet
  BY DEF FrameSet
<1>2. /\ h.kind = f.kind /\ h.if = f.if /\ h.todo = f.todo /\ h.fault = f.fault /\ h.at = "format"
      /\ h.fmt = f.fmt /\ h.i = f.i /\ h.count = f.count /\ h.tabSpace = f.tabSpace
      /\ h.msg = f.msg /\ h.drawn = f.drawn
  BY DEF FrameSet
<1>3. Allowed(h) = Allowed(f) /\ Done(h) = Done(f)
  BY <1>2 DEF Allowed, Done
<1>4. Converting(f) /\ f.fmt = f.msg /\ f.msg \in Allowed(f)
      /\ (f.fault \in Faults \cup BootFaults \/ f.kind # "trap") /\ f.todo \in Seq(Allowed(f))
  BY DEF Placed
<1>5. Converting(h)
  BY <1>2, <1>3, <1>4, Zenon DEF Converting
<1>6. Placed(h)
  BY <1>2, <1>3, <1>4, <1>5 DEF Placed
<1>7. f.i = 0
  <2>1. f.msg \in Printed
    BY <1>4, AllowedPrinted
  <2>2. Len(f.msg) \in Nat /\ Pre(f.msg, 0) = <<>>
    BY <2>1, PreIs
  <2>3. Done(f) = 0
    BY <1>4, <2>2 DEF Done
  <2>4. Len(<<>>) = 0
    OBVIOUS
  <2>5. QED
    BY <1>4, <2>2, <2>3, <2>4, Zenon DEF Converting
<1>8. QED
  BY <1>1, <1>2, <1>6, <1>7

(* A round of the loop up to the tests of the cursor.                      *)
LEMMA PutPlaced ==
  ASSUME NEW f \in FrameSet, Placed(f), f.at = "put", NEW h \in FrameSet, h.at = "wrap",
         h.kind = f.kind, h.todo = f.todo, h.fault = f.fault, h.msg = f.msg,
         h.i = f.i, h.count = f.count, h.tabSpace < TAB
  PROVE  Placed(h)
<1>1. Allowed(h) = Allowed(f)
  BY DEF Allowed
<1>2. QED
  BY <1>1 DEF Placed

(* The end of a round.                                                     *)
LEMMA WrapPlaced ==
  ASSUME NEW f \in FrameSet, Placed(f), f.at = "wrap",
         NEW count, count = IF f.tabSpace > 0 THEN f.count ELSE f.count + 1,
         NEW h, h = Wrapped(f, count)
  PROVE  /\ h \in FrameSet /\ Placed(h) /\ h.kind = f.kind /\ h.if = f.if
         /\ h.at \in {"put", "end"} /\ count \in Nat /\ count <= f.i
         /\ h.at = "put" => count < f.i
         /\ h.at = "end" => f.tabSpace = 0 /\ count = f.i
<1>1. /\ f.i \in Nat /\ f.count \in Nat /\ f.tabSpace \in Nat /\ f.count < f.i
      /\ f.i = Len(Text(f.msg)) /\ f.tabSpace < TAB /\ f.msg \in Allowed(f)
      /\ f.todo \in Seq(Allowed(f)) /\ (f.fault \in Faults \cup BootFaults \/ f.kind # "trap")
  <2>1. f.i \in Nat /\ f.count \in Nat /\ f.tabSpace \in Nat
    BY DEF FrameSet
  <2>2. QED
    BY <2>1 DEF Placed
<1>2. count \in Nat /\ count <= f.i
  BY <1>1
<1>3. PICK w : w = IF count < f.i \/ f.tabSpace > 0 THEN "put" ELSE "end"
  OBVIOUS
<1>4. /\ w \in {"put", "end"} /\ w # "code" /\ w # "lock" /\ w # "format" /\ w # "wrap"
      /\ w = "put" => count < f.i
      /\ w = "end" => f.tabSpace = 0 /\ count = f.i
  BY <1>1, <1>2, <1>3
<1>5. h = [f EXCEPT !.count = count, !.at = w]
  BY <1>3 DEF Wrapped
<1>6. h \in FrameSet
  BY <1>2, <1>4, <1>5 DEF FrameSet
<1>7. /\ h.kind = f.kind /\ h.if = f.if /\ h.todo = f.todo /\ h.fault = f.fault /\ h.at = w
      /\ h.i = f.i /\ h.count = count /\ h.tabSpace = f.tabSpace /\ h.msg = f.msg
  BY <1>5 DEF FrameSet
<1>8. Allowed(h) = Allowed(f)
  BY <1>7 DEF Allowed
<1>9. Placed(h)
  BY <1>1, <1>4, <1>7, <1>8 DEF Placed
<1>10. QED
  BY <1>2, <1>4, <1>6, <1>7, <1>9

(* Frames outside color_printk.                                            *)
\* h is a frame of that kind, outside color_printk.
Fresh(h, kind, flag) ==
  h \in FrameSet /\ Placed(h) /\ h.kind = kind /\ h.if = flag /\ h.at = "code" /\ ~h.disturbed
MayPrint(kind, todo, fault) ==
  /\ kind \in {"task", "irq", "trap"} /\ todo \in Seq(Printed)
  /\ fault \in [vector : Int, code : Nat]
  /\ kind = "trap" => fault \in Faults \cup BootFaults /\ todo \in Seq(Range(ReportOf(fault)))

(* A new frame is outside color_printk,                                    *)
LEMMA OutsidePlaced ==
  ASSUME NEW kind, NEW todo, NEW fault, MayPrint(kind, todo, fault), NEW flag \in BOOLEAN
  PROVE  Fresh(Frame(kind, flag, todo, fault), kind, flag)
<1>0. PICK h : h = Frame(kind, flag, todo, fault)
  OBVIOUS
<1>01. /\ kind \in {"task", "irq", "trap"} /\ todo \in Seq(Printed)
       /\ fault \in [vector : Int, code : Nat]
       /\ kind = "trap" => fault \in Faults \cup BootFaults /\ todo \in Seq(Range(ReportOf(fault)))
  BY DEF MayPrint
<1>1. <<>> \in Seq(Item) /\ <<>> \in Seq(Cells) /\ <<0, 0>> \in Nat \X Nat
  OBVIOUS
<1>2. PICK e, z : e = <<>> /\ z = <<0, 0>> /\ e \in Seq(Item) /\ e \in Seq(Cells) /\ z \in Nat \X Nat
  BY <1>1
<1>3. h = [kind |-> kind, if |-> flag, todo |-> todo, fault |-> fault,
           at |-> "code", fmt |-> e, i |-> 0, count |-> 0, tabSpace |-> 0,
           msg |-> e, start |-> z, drawn |-> e, disturbed |-> FALSE]
  BY <1>0, <1>2 DEF Frame
<1>4. h \in FrameSet
  BY <1>01, <1>2, <1>3 DEF FrameSet
<1>5. /\ h.kind = kind /\ h.if = flag /\ h.todo = todo /\ h.fault = fault /\ h.at = "code"
      /\ h.i = 0 /\ h.count = 0 /\ h.tabSpace = 0 /\ h.drawn = <<>> /\ h.disturbed = FALSE
  BY <1>2, <1>3
<1>6. h.todo \in Seq(Allowed(h))
  BY <1>01, <1>5 DEF Allowed
<1>7. Placed(h)
  BY <1>01, <1>5, <1>6 DEF Placed, Outside
<1>8. Fresh(h, kind, flag)
  BY <1>4, <1>5, <1>7 DEF Fresh
<1>9. QED
  BY <1>0, <1>8, Zenon

(* so is one that is done,                                                 *)
LEMMA FinishPlaced ==
  ASSUME NEW f \in FrameSet, Placed(f),
         NEW h, h = Frame(f.kind, f.if, f.todo, f.fault)
  PROVE  h \in FrameSet /\ Placed(h) /\ h.kind = f.kind /\ h.if = f.if /\ h.at = "code" /\ ~h.disturbed
<1>1. /\ f.kind \in {"task", "irq", "trap"} /\ f.if \in BOOLEAN
      /\ f.todo \in Seq(Printed) /\ f.fault \in [vector : Int, code : Nat]
  BY DEF FrameSet
<1>2. f.kind = "trap" => f.fault \in Faults \cup BootFaults /\ f.todo \in Seq(Range(ReportOf(f.fault)))
  BY DEF Placed, Allowed
<1>3. MayPrint(f.kind, f.todo, f.fault)
  BY <1>1, <1>2 DEF MayPrint
<1>4. Fresh(h, f.kind, f.if)
  BY <1>1, <1>3, OutsidePlaced
<1>5. QED
  BY <1>4 DEF Fresh

(* and one after sti.                                                      *)
LEMMA EnablePlaced ==
  ASSUME NEW f \in FrameSet, Placed(f), f.at = "code", NEW h, h = [f EXCEPT !.if = TRUE]
  PROVE  h \in FrameSet /\ Placed(h) /\ h.kind = f.kind /\ h.at = "code" /\ ~h.disturbed
<1>1. h \in FrameSet
  BY DEF FrameSet
<1>2. /\ h.kind = f.kind /\ h.todo = f.todo /\ h.fault = f.fault /\ h.at = "code"
      /\ h.i = f.i /\ h.count = f.count /\ h.tabSpace = f.tabSpace /\ h.drawn = f.drawn
      /\ h.disturbed = f.disturbed
  BY DEF FrameSet
<1>3. Allowed(h) = Allowed(f)
  BY <1>2 DEF Allowed
<1>4. Placed(h)
  BY <1>2, <1>3 DEF Placed, Outside
<1>5. QED
  BY <1>1, <1>2, <1>4 DEF Placed, Outside

-----------------------------------------------------------------------------
(* The stacks of frames and the lock.                                      *)
Stacks == [CPUs -> Seq(FrameSet)]
Locked(fr, lock) ==
  /\ \A c \in CPUs : \A k \in 1 .. Len(fr[c]) :
       (fr[c][k].if /\ Printing(fr[c][k])) <=> lock = <<c, k>>
  /\ lock = Free \/ \E c \in CPUs : \E k \in 1 .. Len(fr[c]) : lock = <<c, k>>
Stacked(fr) ==
  /\ fr \in Stacks
  /\ \A c \in CPUs : Len(fr[c]) \in Nat /\ Len(fr[c]) >= 1 /\ fr[c][1].kind = "task"
  /\ \A c \in CPUs : \A k \in 1 .. Len(fr[c]) : Placed(fr[c][k])

\* The top frame of c becomes h, and the others stay or are disturbed.
Beside(g, h) == IF Printing(g) /\ ~(g.if /\ h.if) THEN Disturb(g) ELSE g
Changed(fr, fr2, c, h) ==
  /\ fr2 \in Stacks
  /\ \A d \in CPUs : Len(fr2[d]) = Len(fr[d])
  /\ fr2[c][Len(fr[c])] = h
  /\ \A d \in CPUs : \A k \in 1 .. Len(fr[d]) :
       d # c \/ k # Len(fr[c]) => fr2[d][k] \in {fr[d][k], Beside(fr[d][k], h)}
Moved(fr, fr2, c, h) ==
  /\ Changed(fr, fr2, c, h)
  /\ \A d \in CPUs : \A k \in 1 .. Len(fr[d]) :
       d # c \/ k # Len(fr[c]) => fr2[d][k] = fr[d][k]
Worked(fr, fr2, c, h) ==
  /\ Changed(fr, fr2, c, h)
  /\ \A d \in CPUs : \A k \in 1 .. Len(fr[d]) :
       d # c \/ k # Len(fr[c]) => fr2[d][k] = Beside(fr[d][k], h)

(* No frame is called Free.                                                *)
LEMMA FreeIsNobody == \A c, k : Free # <<c, k>>
  BY DEF Free

(* What a step does to the other frames leaves them in place.              *)
LEMMA BesidePlaced ==
  ASSUME NEW g \in FrameSet, Placed(g), NEW h, NEW g2 \in {g, Beside(g, h)}
  PROVE  /\ g2 \in FrameSet /\ Placed(g2) /\ g2.kind = g.kind /\ g2.if = g.if
         /\ Printing(g2) <=> Printing(g)
<1>1. Disturb(g) \in FrameSet /\ (g.at \notin {"code", "lock"} => Placed(Disturb(g)))
  BY StaysPlaced
<1>2. Disturb(g).kind = g.kind /\ Disturb(g).if = g.if /\ Disturb(g).at = g.at
  BY DEF Disturb, FrameSet
<1>3. Printing(g) => g.at \notin {"code", "lock"}
  BY DEF Printing
<1>4. g2 = g \/ (g2 = Disturb(g) /\ Printing(g))
  BY DEF Beside
<1>5. QED
  BY <1>1, <1>2, <1>3, <1>4 DEF Printing

(* What WithTop and Working do to the stacks.                              *)
LEMMA WithTopMoves ==
  ASSUME Stacked(frames), NEW c \in CPUs, NEW h \in FrameSet
  PROVE  Moved(frames, WithTop(c, h), c, h)
<1>1. PICK fr, n, fr2 : fr = frames /\ n = Len(frames[c]) /\ fr2 = WithTop(c, h)
  OBVIOUS
<1>2. fr \in Stacks /\ n = Len(fr[c]) /\ n \in Nat /\ n >= 1
  BY <1>1 DEF Stacked
<1>3. fr2 = [fr EXCEPT ![c] = [fr[c] EXCEPT ![n] = h]]
  BY <1>1 DEF WithTop, Depth
<1>4. PICK s : s = [fr[c] EXCEPT ![n] = h]
  OBVIOUS
<1>5. s \in Seq(FrameSet) /\ Len(s) = n /\ s[n] = h
      /\ \A k \in 1 .. n : k # n => s[k] = fr[c][k]
  BY <1>2, <1>4 DEF Stacks
<1>6. fr2 \in Stacks /\ fr2[c] = s /\ \A d \in CPUs : d # c => fr2[d] = fr[d]
  BY <1>2, <1>3, <1>4, <1>5 DEF Stacks
<1>7. Changed(fr, fr2, c, h)
  BY <1>2, <1>5, <1>6 DEF Changed
<1>8. Moved(fr, fr2, c, h)
  BY <1>2, <1>5, <1>6, <1>7 DEF Moved
<1>9. QED
  BY <1>1, <1>8

(* One that works on the screen also disturbs those it comes between.      *)
LEMMA WorkingWorks ==
  ASSUME Stacked(frames), NEW c \in CPUs, NEW h \in FrameSet
  PROVE  Worked(frames, Working(c, h), c, h)
<1>1. PICK fr, n, fr2 : fr = frames /\ n = Len(frames[c]) /\ fr2 = Working(c, h)
  OBVIOUS
<1>2. /\ fr \in Stacks /\ n = Len(fr[c]) /\ n \in Nat /\ n >= 1
      /\ \A d \in CPUs : \A k \in 1 .. Len(fr[d]) : Placed(fr[d][k])
  BY <1>1 DEF Stacked
<1>3. fr2 = [d \in CPUs |-> [k \in DOMAIN fr[d] |->
               IF d = c /\ k = n THEN h ELSE Beside(fr[d][k], h)]]
  BY <1>1, Zenon DEF Working, Depth, Beside
<1>4. \A d \in CPUs : fr[d] \in Seq(FrameSet) /\ DOMAIN fr[d] = 1 .. Len(fr[d]) /\ Len(fr[d]) \in Nat
  BY <1>2 DEF Stacks
<1>5. \A d \in CPUs : \A k \in 1 .. Len(fr[d]) : Beside(fr[d][k], h) \in FrameSet
  <2> SUFFICES ASSUME NEW d \in CPUs, NEW k \in 1 .. Len(fr[d])
               PROVE  Beside(fr[d][k], h) \in FrameSet
    OBVIOUS
  <2>1. PICK g \in FrameSet : g = fr[d][k] /\ Placed(g)
    BY <1>2, <1>4
  <2>2. Beside(g, h) \in FrameSet
    BY <2>1, BesidePlaced
  <2>3. QED
    BY <2>1, <2>2
<1>6. \A d \in CPUs : \A k \in 1 .. Len(fr[d]) :
        fr2[d][k] = IF d = c /\ k = n THEN h ELSE Beside(fr[d][k], h)
  BY <1>3, <1>4
<1>7. \A d \in CPUs : fr2[d] = [k \in 1 .. Len(fr[d]) |-> fr2[d][k]]
  BY <1>3, <1>4
<1>8. \A d \in CPUs : fr2[d] \in Seq(FrameSet) /\ Len(fr2[d]) = Len(fr[d])
  <2> SUFFICES ASSUME NEW d \in CPUs
               PROVE  fr2[d] \in Seq(FrameSet) /\ Len(fr2[d]) = Len(fr[d])
    OBVIOUS
  <2>1. PICK s, m : s = fr2[d] /\ m = Len(fr[d]) /\ m \in Nat
    BY <1>4
  <2>2. s = [k \in 1 .. m |-> s[k]]
    BY <1>7, <2>1
  <2>3. \A k \in 1 .. m : s[k] \in FrameSet
    BY <1>5, <1>6, <2>1
  <2>4. s \in Seq(FrameSet) /\ Len(s) = m
    BY <2>1, <2>2, <2>3
  <2>5. QED
    BY <2>1, <2>4
<1>9. fr2 \in Stacks
  BY <1>3, <1>8 DEF Stacks
<1>10. n \in 1 .. Len(fr[c])
  BY <1>2
<1>11. Changed(fr, fr2, c, h)
  BY <1>2, <1>6, <1>8, <1>9, <1>10 DEF Changed
<1>12. Worked(fr, fr2, c, h)
  BY <1>2, <1>6, <1>11 DEF Worked
<1>13. QED
  BY <1>1, <1>12

(* A step of a top frame keeps the stacks in order,                        *)
LEMMA ChangeStacks ==
  ASSUME NEW fr, Stacked(fr), NEW c \in CPUs, NEW fr2, NEW h, Placed(h),
         Changed(fr, fr2, c, h), h.kind = fr[c][Len(fr[c])].kind
  PROVE  Stacked(fr2)
<1>1. /\ fr \in Stacks /\ fr2 \in Stacks
      /\ \A d \in CPUs : Len(fr2[d]) = Len(fr[d]) /\ Len(fr[d]) \in Nat /\ Len(fr[d]) >= 1
                         /\ fr[d][1].kind = "task"
      /\ fr2[c][Len(fr[c])] = h
  BY DEF Stacked, Changed
<1>2. \A d \in CPUs : \A k \in 1 .. Len(fr[d]) : fr[d][k] \in FrameSet /\ Placed(fr[d][k])
  BY <1>1 DEF Stacked, Stacks
<1>3. \A d \in CPUs : \A k \in 1 .. Len(fr[d]) :
        Placed(fr2[d][k]) /\ fr2[d][k].kind = fr[d][k].kind
  <2> SUFFICES ASSUME NEW d \in CPUs, NEW k \in 1 .. Len(fr[d])
               PROVE  Placed(fr2[d][k]) /\ fr2[d][k].kind = fr[d][k].kind
    OBVIOUS
  <2>1. CASE d = c /\ k = Len(fr[c])
    BY <1>1, <2>1
  <2>2. CASE d # c \/ k # Len(fr[c])
    <3>1. PICK g, g2 : g = fr[d][k] /\ g2 = fr2[d][k]
      OBVIOUS
    <3>2. g \in FrameSet /\ Placed(g) /\ g2 \in {g, Beside(g, h)}
      BY <1>2, <2>2, <3>1 DEF Changed
    <3>3. Placed(g2) /\ g2.kind = g.kind
      BY <3>2, BesidePlaced
    <3>4. QED
      BY <3>1, <3>3
  <2>3. QED
    BY <2>1, <2>2
<1>4. \A d \in CPUs : 1 \in 1 .. Len(fr[d])
  BY <1>1
<1>5. QED
  BY <1>1, <1>3, <1>4 DEF Stacked

(* and the lock with the one who prints under it.                          *)
LEMMA ChangeLocked ==
  ASSUME NEW fr, Stacked(fr), NEW c \in CPUs, NEW fr2, NEW h,
         Changed(fr, fr2, c, h), NEW lock, Locked(fr, lock), NEW lock2,
         NEW n, n = Len(fr[c]),
         (h.if /\ Printing(h)) <=> lock2 = <<c, n>>,
         lock2 = lock \/ (lock = Free /\ lock2 = <<c, n>>) \/ (lock = <<c, n>> /\ lock2 = Free)
  PROVE  Locked(fr2, lock2)
<1>1. /\ fr \in Stacks /\ fr2 \in Stacks /\ n \in Nat /\ n >= 1
      /\ \A d \in CPUs : Len(fr2[d]) = Len(fr[d])
      /\ fr2[c][n] = h
  BY DEF Stacked, Changed
<1>2. \A d \in CPUs : \A k \in 1 .. Len(fr[d]) : fr[d][k] \in FrameSet /\ Placed(fr[d][k])
  BY <1>1 DEF Stacked, Stacks
<1>3. \A d \in CPUs : \A k \in 1 .. Len(fr[d]) :
        (fr2[d][k].if /\ Printing(fr2[d][k])) <=> lock2 = <<d, k>>
  <2> SUFFICES ASSUME NEW d \in CPUs, NEW k \in 1 .. Len(fr[d])
               PROVE  (fr2[d][k].if /\ Printing(fr2[d][k])) <=> lock2 = <<d, k>>
    OBVIOUS
  <2>1. CASE d = c /\ k = n
    BY <1>1, <2>1
  <2>2. CASE d # c \/ k # n
    <3>1. PICK g, g2 : g = fr[d][k] /\ g2 = fr2[d][k]
      OBVIOUS
    <3>2. g \in FrameSet /\ Placed(g) /\ g2 \in {g, Beside(g, h)}
      BY <1>2, <2>2, <3>1 DEF Changed
    <3>3. g2.if = g.if /\ (Printing(g2) <=> Printing(g))
      BY <3>2, BesidePlaced
    <3>4. (g.if /\ Printing(g)) <=> lock = <<d, k>>
      BY <3>1 DEF Locked
    <3>5. lock = <<d, k>> <=> lock2 = <<d, k>>
      <4>1. <<d, k>> # <<c, n>> /\ Free # <<d, k>>
        BY <2>2, FreeIsNobody
      <4>2. QED
        BY <4>1
    <3>6. QED
      BY <3>1, <3>3, <3>4, <3>5, Zenon
  <2>3. QED
    BY <2>1, <2>2
<1>4. lock2 = Free \/ \E d \in CPUs : \E k \in 1 .. Len(fr[d]) : lock2 = <<d, k>>
  <2>1. n \in 1 .. Len(fr[c])
    BY <1>1
  <2>2. QED
    BY <2>1 DEF Locked
<1>5. QED
  BY <1>1, <1>3, <1>4 DEF Locked

\* A frame is pushed on the stack of c, or the top one popped.
Pushed(fr, fr2, c, h) == fr2 = [fr EXCEPT ![c] = Append(fr[c], h)]
Popped(fr, fr2, c)    == fr2 = [fr EXCEPT ![c] = Front(fr[c])]

(* A new frame on top, and                                                 *)
LEMMA PushStacks ==
  ASSUME NEW fr, Stacked(fr), NEW c \in CPUs, NEW h \in FrameSet, Placed(h), h.at = "code",
         NEW fr2, Pushed(fr, fr2, c, h), NEW lock, Locked(fr, lock)
  PROVE  /\ Stacked(fr2) /\ Locked(fr2, lock)
         /\ \A d \in CPUs : \A k \in 1 .. Len(fr2[d]) :
              (k \in 1 .. Len(fr[d]) /\ fr2[d][k] = fr[d][k]) \/ fr2[d][k] = h
<1>1. /\ fr \in Stacks
      /\ \A d \in CPUs : Len(fr[d]) \in Nat /\ Len(fr[d]) >= 1 /\ fr[d][1].kind = "task"
      /\ \A d \in CPUs : \A k \in 1 .. Len(fr[d]) : Placed(fr[d][k])
  BY DEF Stacked
<1>2. PICK s, n : s = Append(fr[c], h) /\ n = Len(fr[c])
  OBVIOUS
<1>3. n \in Nat /\ n >= 1 /\ fr[c] \in Seq(FrameSet)
  BY <1>1, <1>2 DEF Stacks
<1>4. s \in Seq(FrameSet) /\ Len(s) = n + 1 /\ s[n + 1] = h
      /\ \A k \in 1 .. n : s[k] = fr[c][k]
  BY <1>2, <1>3, AppendProperties
<1>5. fr2 \in Stacks /\ fr2[c] = s /\ \A d \in CPUs : d # c => fr2[d] = fr[d]
  BY <1>1, <1>2, <1>4 DEF Stacks, Pushed
<1>6. \A d \in CPUs : \A k \in 1 .. Len(fr2[d]) :
        \/ k \in 1 .. Len(fr[d]) /\ fr2[d][k] = fr[d][k]
        \/ d = c /\ k = n + 1 /\ fr2[d][k] = h
  <2> SUFFICES ASSUME NEW d \in CPUs, NEW k \in 1 .. Len(fr2[d])
               PROVE  \/ k \in 1 .. Len(fr[d]) /\ fr2[d][k] = fr[d][k]
                      \/ d = c /\ k = n + 1 /\ fr2[d][k] = h
    OBVIOUS
  <2>1. CASE d # c
    BY <1>5, <2>1
  <2>2. CASE d = c
    <3>1. k \in 1 .. n + 1 /\ fr2[d][k] = s[k]
      BY <1>4, <1>5, <2>2
    <3>2. k = n + 1 \/ k \in 1 .. n
      BY <1>3, <3>1
    <3>3. QED
      BY <1>2, <1>4, <2>2, <3>1, <3>2
  <2>3. QED
    BY <2>1, <2>2
<1>7. \A d \in CPUs : Len(fr2[d]) \in Nat /\ Len(fr2[d]) >= Len(fr[d])
                      /\ \A k \in 1 .. Len(fr[d]) : fr2[d][k] = fr[d][k]
  <2> SUFFICES ASSUME NEW d \in CPUs
               PROVE  Len(fr2[d]) \in Nat /\ Len(fr2[d]) >= Len(fr[d])
                      /\ \A k \in 1 .. Len(fr[d]) : fr2[d][k] = fr[d][k]
    OBVIOUS
  <2>1. CASE d # c
    <3>1. fr2[d] = fr[d] /\ Len(fr[d]) \in Nat
      BY <1>1, <1>5, <2>1
    <3>2. QED
      BY <3>1
  <2>2. CASE d = c
    <3>1. fr2[d] = s /\ Len(fr[d]) = n /\ Len(s) = n + 1
      BY <1>2, <1>4, <1>5, <2>2
    <3>2. n + 1 \in Nat /\ n + 1 >= n
      BY <1>3
    <3>3. QED
      BY <1>4, <2>2, <3>1, <3>2
  <2>3. QED
    BY <2>1, <2>2
<1>8. \A d \in CPUs : 1 \in 1 .. Len(fr[d]) /\ Len(fr2[d]) >= 1 /\ fr2[d][1] = fr[d][1]
  BY <1>1, <1>7
<1>9. \A d \in CPUs : \A k \in 1 .. Len(fr2[d]) : Placed(fr2[d][k])
  BY <1>1, <1>6
<1>10. Stacked(fr2)
  BY <1>1, <1>5, <1>7, <1>8, <1>9 DEF Stacked
<1>11. lock # <<c, n + 1>>
  <2>1. \A d \in CPUs : \A k \in 1 .. Len(fr[d]) : <<d, k>> # <<c, n + 1>>
    BY <1>2, <1>3
  <2>2. QED
    BY <2>1, FreeIsNobody DEF Locked
<1>12. ~Printing(h)
  BY DEF Printing
<1>13. \A d \in CPUs : \A k \in 1 .. Len(fr2[d]) :
         (fr2[d][k].if /\ Printing(fr2[d][k])) <=> lock = <<d, k>>
  <2> SUFFICES ASSUME NEW d \in CPUs, NEW k \in 1 .. Len(fr2[d])
               PROVE  (fr2[d][k].if /\ Printing(fr2[d][k])) <=> lock = <<d, k>>
    OBVIOUS
  <2>1. CASE k \in 1 .. Len(fr[d]) /\ fr2[d][k] = fr[d][k]
    BY <2>1, Zenon DEF Locked
  <2>2. CASE d = c /\ k = n + 1 /\ fr2[d][k] = h
    BY <1>11, <1>12, <2>2, Zenon
  <2>3. QED
    BY <1>6, <2>1, <2>2
<1>14. lock = Free \/ \E d \in CPUs : \E k \in 1 .. Len(fr2[d]) : lock = <<d, k>>
  <2>1. \A d \in CPUs : \A k \in 1 .. Len(fr[d]) : k \in 1 .. Len(fr2[d])
    BY <1>1, <1>7
  <2>2. QED
    BY <2>1, Zenon DEF Locked
<1>15. QED
  BY <1>6, <1>10, <1>13, <1>14, Zenon DEF Locked

(* one taken off again: the others and the lock stay.                      *)
LEMMA PopStacks ==
  ASSUME NEW fr, Stacked(fr), NEW c \in CPUs, fr[c][Len(fr[c])].kind # "task",
         fr[c][Len(fr[c])].at = "code", NEW fr2, Popped(fr, fr2, c), NEW lock, Locked(fr, lock)
  PROVE  /\ Stacked(fr2) /\ Locked(fr2, lock)
         /\ \A d \in CPUs : \A k \in 1 .. Len(fr2[d]) :
              k \in 1 .. Len(fr[d]) /\ fr2[d][k] = fr[d][k]
<1>1. /\ fr \in Stacks
      /\ \A d \in CPUs : Len(fr[d]) \in Nat /\ Len(fr[d]) >= 1 /\ fr[d][1].kind = "task"
      /\ \A d \in CPUs : \A k \in 1 .. Len(fr[d]) : Placed(fr[d][k])
  BY DEF Stacked
<1>2. PICK s, n : s = Front(fr[c]) /\ n = Len(fr[c])
  OBVIOUS
<1>3. n \in Nat /\ n >= 2 /\ fr[c] \in Seq(FrameSet)
  <2>1. n # 1
    BY <1>1, <1>2
  <2>2. QED
    BY <1>1, <1>2, <2>1 DEF Stacks
<1>4. s \in Seq(FrameSet) /\ Len(s) = n - 1 /\ \A k \in 1 .. n - 1 : s[k] = fr[c][k]
  <2>1. PICK t : t = fr[c]
    OBVIOUS
  <2>2. t \in Seq(FrameSet) /\ Len(t) = n
    BY <1>2, <1>3, <2>1
  <2>3. s = SubSeq(t, 1, n - 1)
    BY <1>2, <2>1 DEF Front
  <2>4. \A k \in 1 .. n - 1 : t[k] \in FrameSet
    BY <1>3, <2>2
  <2>5. SubSeq(t, 1, n - 1) \in Seq(FrameSet) /\ Len(SubSeq(t, 1, n - 1)) = n - 1
        /\ \A k \in 1 .. n - 1 : SubSeq(t, 1, n - 1)[k] = t[k]
    BY <1>3, <2>2, <2>4
  <2>6. QED
    BY <2>1, <2>3, <2>5, Zenon
<1>5. fr2 \in Stacks /\ fr2[c] = s /\ \A d \in CPUs : d # c => fr2[d] = fr[d]
  BY <1>1, <1>2, <1>4 DEF Stacks, Popped
<1>6. \A d \in CPUs : \A k \in 1 .. Len(fr2[d]) :
        k \in 1 .. Len(fr[d]) /\ fr2[d][k] = fr[d][k]
  BY <1>2, <1>3, <1>4, <1>5
<1>7. \A d \in CPUs : Len(fr2[d]) \in Nat /\ Len(fr2[d]) >= 1
  BY <1>1, <1>3, <1>4, <1>5
<1>8. \A d \in CPUs : fr2[d][1].kind = "task"
  BY <1>1, <1>6, <1>7
<1>9. \A d \in CPUs : \A k \in 1 .. Len(fr2[d]) : Placed(fr2[d][k])
  BY <1>1, <1>6
<1>10. Stacked(fr2)
  BY <1>5, <1>7, <1>8, <1>9 DEF Stacked
<1>11. lock # <<c, n>>
  <2>1. n \in 1 .. Len(fr[c])
    BY <1>1, <1>2
  <2>2. ~Printing(fr[c][n])
    BY <1>2 DEF Printing
  <2>3. QED
    BY <2>1, <2>2, Zenon DEF Locked
<1>12. \A d \in CPUs : \A k \in 1 .. Len(fr[d]) : k \in 1 .. Len(fr2[d]) \/ (d = c /\ k = n)
  BY <1>2, <1>3, <1>4, <1>5
<1>13. lock = Free \/ \E d \in CPUs : \E k \in 1 .. Len(fr2[d]) : lock = <<d, k>>
  BY <1>11, <1>12, Zenon DEF Locked
<1>14. \A d \in CPUs : \A k \in 1 .. Len(fr2[d]) :
         (fr2[d][k].if /\ Printing(fr2[d][k])) <=> lock = <<d, k>>
  BY <1>6, Zenon DEF Locked
<1>15. QED
  BY <1>6, <1>10, <1>13, <1>14, Zenon DEF Locked

-----------------------------------------------------------------------------
(* The reports of exceptions.                                              *)
Exceptions == [vector : Vectors, code : Nat]

\* What the messages after the first one begin with.
Notes ==
  {"external event", "gate in the IDT", "descriptor in the GDT or LDT", "in the LDT", "in the GDT",
   "index", "Not-Present", "Write", "Read", "user", "supervisor", "Reserved Bit",
   "Instruction fetch", "\n", "CR2"}
Noted(code) ==
  {<<Plain(g), Plain("\n")>> : g \in Notes} \cup {<<Plain(g), Plain("\t")>> : g \in Notes}
    \cup {<<Plain("Instruction fetch")>>, <<Plain("\n")>>,
          <<Plain("index"), Hex(ReportWidth, (code \div 8) * 8), Plain("\n")>>,
          <<Plain("CR2"), Hex(ReportWidth, Rip), Plain("\n")>>}

\* The code in the frame of an exception.
CodeOf(e) == IF e.vector \in WithErrorCode THEN e.code ELSE 0
FirstOf(e) ==
  <<Plain(Handler[e.vector]), Hex(ReportWidth, CodeOf(e)), Hex(ReportWidth, Rip), Plain("\n")>>

(* All entries leave the same frame.                                       *)
LEMMA SameFrame ==
  ASSUME NEW e \in Exceptions, NEW stack,
         stack = Hardware(e.vector, e.code, Rip) \o Entry(e.vector)
  PROVE  /\ Word(stack, RIP) = Rip
         /\ e.vector # 2 => /\ Word(stack, ERRCODE) = CodeOf(e)
                            /\ Word(stack, FUNC) = Handler[e.vector]
<1>1. CASE e.vector \in WithErrorCode
  <2>1. e.vector # 2
    BY <1>1 DEF WithErrorCode
  <2>2. Hardware(e.vector, e.code, Rip) = <<"SS", "RSP", "RFLAGS", "CS", Rip>> \o <<e.code>>
    BY <1>1 DEF Hardware
  <2>3. Entry(e.vector) = (<<>> \o <<Handler[e.vector]>>) \o Saved
    BY <1>1, <2>1 DEF Entry
  <2>4. stack = (<<"SS", "RSP", "RFLAGS", "CS", Rip>> \o <<e.code>>) \o ((<<>> \o <<Handler[e.vector]>>) \o Saved)
    BY <2>2, <2>3
  <2>5. Len(stack) = 24 /\ stack[7] = Handler[e.vector] /\ stack[6] = e.code /\ stack[5] = Rip
    BY <2>4 DEF Saved
  <2>6. QED
    BY <1>1, <2>5 DEF Word, RIP, ERRCODE, FUNC, CodeOf
<1>2. CASE e.vector \notin WithErrorCode /\ e.vector # 2
  <2>2. Hardware(e.vector, e.code, Rip) = <<"SS", "RSP", "RFLAGS", "CS", Rip>> \o <<>>
    BY <1>2 DEF Hardware
  <2>3. Entry(e.vector) = (<<0>> \o <<Handler[e.vector]>>) \o Saved
    BY <1>2 DEF Entry
  <2>4. stack = (<<"SS", "RSP", "RFLAGS", "CS", Rip>> \o <<>>) \o ((<<0>> \o <<Handler[e.vector]>>) \o Saved)
    BY <2>2, <2>3
  <2>5. Len(stack) = 24 /\ stack[7] = Handler[e.vector] /\ stack[6] = 0 /\ stack[5] = Rip
    BY <2>4 DEF Saved
  <2>6. QED
    BY <1>2, <2>5 DEF Word, RIP, ERRCODE, FUNC, CodeOf
<1>3. CASE e.vector = 2
  <2>1. e.vector \notin WithErrorCode
    BY <1>3 DEF WithErrorCode
  <2>2. Hardware(e.vector, e.code, Rip) = <<"SS", "RSP", "RFLAGS", "CS", Rip>> \o <<>>
    BY <2>1 DEF Hardware
  <2>3. Entry(e.vector) = (<<"RAX">> \o <<"RAX">>) \o Saved
    BY <1>3, <2>1 DEF Entry
  <2>4. stack = (<<"SS", "RSP", "RFLAGS", "CS", Rip>> \o <<>>) \o ((<<"RAX">> \o <<"RAX">>) \o Saved)
    BY <2>2, <2>3
  <2>5. Len(stack) = 24 /\ stack[5] = Rip
    BY <2>4 DEF Saved
  <2>6. QED
    BY <1>3, <2>5 DEF Word, RIP
<1>4. QED
  BY <1>1, <1>2, <1>3

(* The messages of a report: the first one, and notes.                     *)
LEMMA Reports ==
  ASSUME NEW e \in Exceptions
  PROVE  \E code : ReportOf(e) \in Seq({FirstOf(e)} \cup Noted(code))
<1>1. PICK stack : stack = Hardware(e.vector, e.code, Rip) \o Entry(e.vector)
  OBVIOUS
<1>2. PICK code : code = Word(stack, ERRCODE)
  OBVIOUS
<1>3. FirstMessage(e.vector, stack) = FirstOf(e)
  <2>1. /\ Word(stack, RIP) = Rip
        /\ e.vector # 2 => Word(stack, ERRCODE) = CodeOf(e)
                           /\ Word(stack, FUNC) = Handler[e.vector]
    BY <1>1, SameFrame
  <2>2. e.vector = 2 => CodeOf(e) = 0
    BY DEF CodeOf, WithErrorCode
  <2>3. (IF e.vector = 2 THEN 0 ELSE Word(stack, ERRCODE)) = CodeOf(e)
    BY <2>1, <2>2
  <2>4. Callee(e.vector, stack) = Handler[e.vector]
    <3>1. CASE e.vector = 2
      BY <3>1, Zenon DEF Callee
    <3>2. CASE e.vector # 2
      BY <2>1, <3>2, Zenon DEF Callee
    <3>3. QED
      BY <3>1, <3>2
  <2>5. PICK name : name = Callee(e.vector, stack)
    OBVIOUS
  <2>6. FirstMessage(e.vector, stack)
          = <<Plain(name), Hex(ReportWidth, CodeOf(e)), Hex(ReportWidth, Rip), Plain("\n")>>
    BY <2>1, <2>3, <2>5, Zenon DEF FirstMessage
  <2>7. QED
    BY <2>4, <2>5, <2>6, Zenon DEF FirstOf
<1> DEFINE S == {FirstOf(e)} \cup Noted(code)
<1>4. /\ \A g \in Notes : \A w : Say(g, w) \in Seq(S) /\ Tell(g, w) \in Seq(S)
      /\ <<<<Plain("index"), Hex(ReportWidth, (code \div 8) * 8), Plain("\n")>>>> \in Seq(S)
      /\ <<<<Plain("Instruction fetch")>>>> \in Seq(S)
      /\ <<<<Plain("\n")>>, <<Plain("CR2"), Hex(ReportWidth, Rip), Plain("\n")>>>> \in Seq(S)
      /\ <<FirstOf(e)>> \in Seq(S) /\ <<>> \in Seq(S)
  <2>1. \A m \in S : <<m>> \in Seq(S)
    OBVIOUS
  <2>2. \A m, m2 \in S : <<m, m2>> \in Seq(S)
    OBVIOUS
  <2>3. <<>> \in Seq(S)
    OBVIOUS
  <2>4. /\ \A g \in Notes : <<Plain(g), Plain("\n")>> \in S /\ <<Plain(g), Plain("\t")>> \in S
        /\ <<Plain("index"), Hex(ReportWidth, (code \div 8) * 8), Plain("\n")>> \in S
        /\ <<Plain("Instruction fetch")>> \in S /\ <<Plain("\n")>> \in S
        /\ <<Plain("CR2"), Hex(ReportWidth, Rip), Plain("\n")>> \in S /\ FirstOf(e) \in S
    BY DEF Noted
  <2> HIDE DEF S
  <2>5. QED
    BY <2>1, <2>2, <2>3, <2>4, Zenon DEF Say, Tell
<1> HIDE DEF S
<1>5. \A a, b \in Seq(S) : a \o b \in Seq(S)
  BY ConcatProperties
<1>6. /\ {"external event", "gate in the IDT", "descriptor in the GDT or LDT", "in the LDT", "in the GDT",
         "Not-Present", "Write", "Read", "user", "supervisor", "Reserved Bit"} \subseteq Notes
  BY DEF Notes
<1>7. SelectorMessages(code) \in Seq(S)
  <2>1. "external event" \in Notes /\ "gate in the IDT" \in Notes /\ "descriptor in the GDT or LDT" \in Notes
        /\ "in the LDT" \in Notes /\ "in the GDT" \in Notes
    BY <1>6
  <2>2. QED
    BY <1>4, <1>5, <2>1, Zenon DEF SelectorMessages
<1>8. PageFaultMessages(code, Rip) \in Seq(S)
  <2>1. "Not-Present" \in Notes /\ "Write" \in Notes /\ "Read" \in Notes /\ "user" \in Notes
        /\ "supervisor" \in Notes /\ "Reserved Bit" \in Notes
    BY <1>6
  <2>2. QED
    BY <1>4, <1>5, <2>1, Zenon DEF PageFaultMessages
<1>9. ReportOf(e) \in Seq(S)
  <2>1. PICK func, rest :
          /\ func = Callee(e.vector, stack)
          /\ rest = CASE func \in {Handler[w] : w \in 10 .. 13} -> SelectorMessages(code)
                       [] func = Handler[14]                     -> PageFaultMessages(code, Rip)
                       [] OTHER                                  -> <<>>
    OBVIOUS
  <2>2. rest \in Seq(S)
    <3>1. rest \in {SelectorMessages(code), PageFaultMessages(code, Rip), <<>>}
      BY <2>1
    <3>2. QED
      BY <1>4, <1>7, <1>8, <3>1
  <2>3. ReportOf(e) = <<FirstOf(e)>> \o rest
    BY <1>1, <1>2, <1>3, <2>1, Zenon DEF ReportOf, Report
  <2>4. QED
    BY <1>4, <1>5, <2>2, <2>3, Zenon
<1>10. QED
  BY <1>9 DEF S

(* A message of a report that has four parts is the first one.             *)
LEMMA ReportSaysFirst ==
  ASSUME NEW e \in Exceptions, NEW m \in Range(ReportOf(e)), Len(m) = 4
  PROVE  m = FirstOf(e)
<1>1. PICK code : ReportOf(e) \in Seq({FirstOf(e)} \cup Noted(code))
  BY Reports
<1>2. m = FirstOf(e) \/ m \in Noted(code)
  BY <1>1 DEF Range
<1>3. ASSUME m \in Noted(code) PROVE FALSE
  <2>1. \A a, b, c : Len(<<a>>) = 1 /\ Len(<<a, b>>) = 2 /\ Len(<<a, b, c>>) = 3
    OBVIOUS
  <2>2. Len(m) \in {1, 2, 3}
    BY <1>3, <2>1 DEF Noted
  <2>3. QED
    BY <2>2
<1>4. QED
  BY <1>2, <1>3

(* A report is a sequence of messages that are printed.                    *)
LEMMA ReportIsSeq ==
  ASSUME NEW e \in Faults \cup BootFaults
  PROVE  /\ e \in Exceptions /\ e \in [vector : Int, code : Nat]
         /\ ReportOf(e) \in Seq(Range(ReportOf(e))) /\ ReportOf(e) \in Seq(Printed)
<1>1. e \in Exceptions
  BY ConsoleAssumption DEF ConsoleAssumption, Exceptions
<1>2. PICK r, S : r = ReportOf(e) /\ r \in Seq(S)
  BY <1>1, Reports
<1>3. r \in Seq(Range(r))
  BY <1>2 DEF Range
<1>4. Range(r) \subseteq Printed
  BY <1>2 DEF Printed
<1>5. r \in Seq(Printed)
  BY <1>3, <1>4
<1>6. e \in [vector : Int, code : Nat]
  BY <1>1 DEF Exceptions, Vectors
<1>7. QED
  BY <1>1, <1>2, <1>3, <1>5, <1>6

-----------------------------------------------------------------------------
(* The invariant: the frames, and the lock with the one who prints under   *)
(* it.                                                                     *)
FramesInv ==
  /\ Stacked(frames) /\ Locked(frames, printk_lock)
  /\ buf \in [1 .. BufLen -> Glyphs]
  /\ XPosition \in Nat /\ YPosition \in Nat

\* f is what c runs, its frame number n.
IsTop(c, f, n) ==
  /\ f \in FrameSet /\ Placed(f) /\ f = Top(c)
  /\ n \in Nat /\ n >= 1 /\ n = Depth(c) /\ n = Len(frames[c]) /\ f = frames[c][n]
  /\ (f.if /\ Printing(f)) <=> printk_lock = <<c, n>>

(* Every processor has an innermost frame.                                 *)
LEMMA TopIs ==
  ASSUME FramesInv, NEW c \in CPUs
  PROVE  \E f, n : IsTop(c, f, n)
<1>1. PICK fr, n, f : fr = frames /\ n = Len(frames[c]) /\ f = frames[c][n]
  OBVIOUS
<1>2. /\ fr \in Stacks /\ n \in Nat /\ n >= 1 /\ n = Len(fr[c]) /\ f = fr[c][n]
      /\ \A k \in 1 .. Len(fr[c]) : Placed(fr[c][k])
  BY <1>1 DEF FramesInv, Stacked
<1>3. n \in 1 .. Len(fr[c])
  BY <1>2
<1>4. f \in FrameSet /\ Placed(f)
  BY <1>2, <1>3 DEF Stacks
<1>5. (f.if /\ Printing(f)) <=> printk_lock = <<c, n>>
  BY <1>1, <1>3 DEF FramesInv, Locked
<1>6. f = Top(c) /\ n = Depth(c)
  BY <1>1 DEF Top, Depth
<1>7. QED
  BY <1>1, <1>2, <1>4, <1>5, <1>6 DEF IsTop

\* c puts h in the place of its top frame f.
StepFrame(c, f, h) ==
  /\ f \in FrameSet /\ Placed(f) /\ f = Top(c) /\ f = frames[c][Len(frames[c])]
  /\ h \in FrameSet /\ Placed(h) /\ h.kind = f.kind
  /\ Changed(frames, frames', c, h)

(* A step of a top frame keeps the invariant.                              *)
LEMMA StepKeeps ==
  ASSUME FramesInv, NEW c \in CPUs, NEW f, NEW n, IsTop(c, f, n),
         NEW h \in FrameSet, Placed(h), h.kind = f.kind,
         Changed(frames, frames', c, h),
         (h.if /\ Printing(h)) <=> printk_lock' = <<c, n>>,
         printk_lock' = printk_lock \/ (printk_lock = Free /\ printk_lock' = <<c, n>>)
            \/ (printk_lock = <<c, n>> /\ printk_lock' = Free),
         buf' \in [1 .. BufLen -> Glyphs], XPosition' \in Nat, YPosition' \in Nat
  PROVE  FramesInv' /\ StepFrame(c, f, h)
<1>1. n = Len(frames[c]) /\ f = frames[c][n] /\ f = Top(c) /\ f \in FrameSet /\ Placed(f)
  BY DEF IsTop
<1>2. Stacked(frames) /\ Locked(frames, printk_lock)
  BY DEF FramesInv
<1>3. h.kind = frames[c][Len(frames[c])].kind
  BY <1>1
<1>4. Stacked(frames')
  BY <1>2, <1>3, ChangeStacks
<1>5. Locked(frames', printk_lock')
  <2>1. PICK fr, fr2, lock, lock2 :
          fr = frames /\ fr2 = frames' /\ lock = printk_lock /\ lock2 = printk_lock'
    OBVIOUS
  <2>2. /\ Stacked(fr) /\ Changed(fr, fr2, c, h) /\ Locked(fr, lock) /\ n = Len(fr[c])
        /\ (h.if /\ Printing(h)) <=> lock2 = <<c, n>>
        /\ \/ lock2 = lock \/ (lock = Free /\ lock2 = <<c, n>>)
           \/ (lock = <<c, n>> /\ lock2 = Free)
    BY <1>1, <1>2, <2>1
  <2>3. Locked(fr2, lock2)
    BY <2>2, ChangeLocked
  <2>4. QED
    BY <2>1, <2>3
<1>6. FramesInv'
  BY <1>4, <1>5 DEF FramesInv
<1>7. QED
  BY <1>1, <1>6 DEF StepFrame

(* Each action, which keeps the first part of the invariant: the call,     *)
LEMMA CallStep ==
  ASSUME FramesInv, NEW c \in CPUs, Call(c)
  PROVE  \E f, h : /\ FramesInv' /\ StepFrame(c, f, h) /\ Moved(frames, frames', c, h)
                   /\ h.at \in {"lock", "format"} /\ h.i = 0
                   /\ buf' = buf /\ XPosition' = XPosition /\ YPosition' = YPosition
<1>1. PICK f, n : IsTop(c, f, n)
  BY TopIs
<1>2. f.at = "code" /\ f = Top(c) /\ f \in FrameSet /\ Placed(f)
  BY <1>1 DEF IsTop, Call
<1>3. PICK m \in Candidates(c) :
        frames' = WithTop(c, Called(f, m))
  BY <1>2, Zenon DEF Call, Called
<1>4. PICK h : h = Called(f, m)
  OBVIOUS
<1>5. m \in Allowed(f) /\ (f.kind # "task" => f.todo # <<>>)
  <2>1. f.todo \in Seq(Allowed(f))
    BY <1>2 DEF Placed
  <2>2. CASE f.kind # "task"
    <3>1. f.todo # <<>> /\ m = Head(f.todo)
      BY <1>2, <1>3, <2>2 DEF Candidates
    <3>2. QED
      BY <2>1, <3>1
  <2>3. CASE f.kind = "task"
    <3>1. m \in BootMessages \cup Messages
      BY <1>2, <1>3, <2>3 DEF Candidates
    <3>2. QED
      BY <2>3, <3>1 DEF Allowed, Printed
  <2>4. QED
    BY <2>2, <2>3
<1>6. h \in FrameSet /\ Placed(h) /\ h.kind = f.kind /\ h.if = f.if
      /\ h.at = (IF f.if THEN "lock" ELSE "format") /\ h.i = 0
  <2>1. f \in FrameSet /\ Placed(f) /\ f.at = "code" /\ m \in Allowed(f)
    BY <1>2, <1>5
  <2>2. QED
    BY <1>4, <1>5, <2>1, CallPlaced
<1>7. Moved(frames, frames', c, h)
  BY <1>3, <1>4, <1>6, WithTopMoves DEF FramesInv
<1>8. printk_lock' = printk_lock /\ buf' = buf /\ XPosition' = XPosition /\ YPosition' = YPosition
  BY DEF Call
<1>9. ~(h.if /\ Printing(h)) /\ printk_lock # <<c, n>>
  BY <1>1, <1>2, <1>6 DEF Printing, IsTop
<1>10. Changed(frames, frames', c, h)
  BY <1>7 DEF Moved
<1>11. FramesInv' /\ StepFrame(c, f, h)
  BY <1>1, <1>6, <1>8, <1>9, <1>10, StepKeeps DEF FramesInv
<1>12. QED
  BY <1>6, <1>7, <1>8, <1>11

(* The lock is taken,                                                      *)
LEMMA LockStep ==
  ASSUME FramesInv, NEW c \in CPUs, Lock(c)
  PROVE  \E f, h : /\ FramesInv' /\ StepFrame(c, f, h) /\ Moved(frames, frames', c, h)
                   /\ h.at = "format" /\ h.i = 0
                   /\ buf' = buf /\ XPosition' = XPosition /\ YPosition' = YPosition
<1>1. PICK f, n : IsTop(c, f, n)
  BY TopIs
<1>2. f.at = "lock" /\ f = Top(c) /\ f \in FrameSet /\ Placed(f)
  BY <1>1 DEF IsTop, Lock
<1>3. PICK h : h = [f EXCEPT !.at = "format"]
  OBVIOUS
<1>4. h \in FrameSet /\ Placed(h) /\ h.kind = f.kind /\ h.if = f.if /\ h.at = "format" /\ h.i = 0
  BY <1>2, <1>3, LockPlaced
<1>5. /\ frames' = WithTop(c, h)
      /\ printk_lock = Free /\ printk_lock' = <<c, n>>
      /\ buf' = buf /\ XPosition' = XPosition /\ YPosition' = YPosition
  BY <1>1, <1>2, <1>3 DEF Lock, IsTop
<1>6. Moved(frames, frames', c, h)
  BY <1>4, <1>5, WithTopMoves DEF FramesInv
<1>7. Changed(frames, frames', c, h)
  BY <1>6 DEF Moved
<1>8. h.if
  BY <1>2, <1>4 DEF Placed
<1>9. FramesInv' /\ StepFrame(c, f, h)
  BY <1>1, <1>4, <1>5, <1>7, <1>8, StepKeeps DEF FramesInv, Printing
<1>10. QED
  BY <1>4, <1>5, <1>6, <1>9

(* a directive is converted,                                               *)
LEMMA FormatStep ==
  ASSUME FramesInv, NEW c \in CPUs, Format(c)
  PROVE  \E f, h :
           /\ FramesInv' /\ StepFrame(c, f, h) /\ Worked(frames, frames', c, h)
           /\ f.at = "format" /\ h = Converted(f)
           /\ buf' = [k \in 1 .. BufLen |->
                        IF k \in f.i + 1 .. Upto(f) THEN TextOf(f)[k - f.i] ELSE buf[k]]
           /\ XPosition' = XPosition /\ YPosition' = YPosition
<1>1. PICK f, n : IsTop(c, f, n)
  BY TopIs
<1>2. f.at = "format" /\ f = Top(c) /\ f \in FrameSet /\ Placed(f)
  BY <1>1 DEF IsTop, Format
<1>3. PICK text, i : text = TextOf(f) /\ i = Upto(f) /\ text = vsprintf(Head(f.fmt)) /\ i = f.i + Len(text)
  BY DEF TextOf, Upto
<1>4. PICK h : h = Converted(f)
  OBVIOUS
<1>5. /\ frames' = Working(c, h)
      /\ buf' = [k \in 1 .. BufLen |-> IF k \in f.i + 1 .. i THEN text[k - f.i] ELSE buf[k]]
      /\ printk_lock' = printk_lock /\ XPosition' = XPosition /\ YPosition' = YPosition
  BY <1>2, <1>3, <1>4 DEF Format, Converted
<1>6. /\ h \in FrameSet /\ Placed(h) /\ h.kind = f.kind /\ h.if = f.if
      /\ h.at \in {"format", "put", "end"}
      /\ text \in Seq(Glyphs) /\ i \in Nat /\ i <= BufLen
  BY <1>2, <1>3, <1>4, FormatPlaced
<1>7. buf' \in [1 .. BufLen -> Glyphs]
  <2>1. buf \in [1 .. BufLen -> Glyphs] /\ f.i \in Nat
    BY <1>2 DEF FramesInv, FrameSet
  <2>2. \A k \in f.i + 1 .. i : text[k - f.i] \in Glyphs
    BY <1>3, <1>6, <2>1
  <2>3. QED
    BY <1>5, <2>1, <2>2
<1>8. Worked(frames, frames', c, h)
  BY <1>5, <1>6, WorkingWorks DEF FramesInv
<1>9. Changed(frames, frames', c, h)
  BY <1>8 DEF Worked
<1>10. (h.if /\ Printing(h)) <=> printk_lock' = <<c, n>>
  BY <1>1, <1>2, <1>5, <1>6 DEF Printing, IsTop
<1>11. FramesInv' /\ StepFrame(c, f, h)
  BY <1>1, <1>5, <1>6, <1>7, <1>9, <1>10, StepKeeps DEF FramesInv
<1>12. QED
  BY <1>2, <1>3, <1>4, <1>5, <1>6, <1>8, <1>11, Zenon

(* the cursor is tested,                                                   *)
LEMMA WrapStep ==
  ASSUME FramesInv, NEW c \in CPUs, Wrap(c)
  PROVE  \E f, h, count :
           /\ FramesInv' /\ StepFrame(c, f, h) /\ Worked(frames, frames', c, h)
           /\ f.at = "wrap" /\ count = IF f.tabSpace > 0 THEN f.count ELSE f.count + 1
           /\ h = Wrapped(f, count) /\ f.if = h.if /\ h.at \in {"put", "end"}
           /\ buf' = buf
           /\ XPosition' = IF XPosition >= Columns THEN 0 ELSE XPosition
           /\ YPosition' = LET y == IF XPosition >= Columns THEN YPosition + 1 ELSE YPosition
                           IN  IF y >= PageRows THEN 0 ELSE y
<1>1. PICK f, n : IsTop(c, f, n)
  BY TopIs
<1>2. f.at = "wrap" /\ f = Top(c) /\ f \in FrameSet /\ Placed(f)
  BY <1>1 DEF IsTop, Wrap
<1>3. PICK count : count = IF f.tabSpace > 0 THEN f.count ELSE f.count + 1
  OBVIOUS
<1>4. PICK h : h = Wrapped(f, count)
  OBVIOUS
<1>5. /\ frames' = Working(c, h) /\ buf' = buf /\ printk_lock' = printk_lock
      /\ XPosition' = IF XPosition >= Columns THEN 0 ELSE XPosition
      /\ YPosition' = LET y == IF XPosition >= Columns THEN YPosition + 1 ELSE YPosition
                      IN  IF y >= PageRows THEN 0 ELSE y
  BY <1>2, <1>3, <1>4 DEF Wrap, Wrapped
<1>6. h \in FrameSet /\ Placed(h) /\ h.kind = f.kind /\ h.if = f.if /\ h.at \in {"put", "end"}
  BY <1>2, <1>3, <1>4, WrapPlaced
<1>7. XPosition' \in Nat /\ YPosition' \in Nat
  BY <1>5 DEF FramesInv
<1>8. Worked(frames, frames', c, h)
  BY <1>5, <1>6, WorkingWorks DEF FramesInv
<1>9. Changed(frames, frames', c, h)
  BY <1>8 DEF Worked
<1>10. (h.if /\ Printing(h)) <=> printk_lock' = <<c, n>>
  BY <1>1, <1>2, <1>5, <1>6 DEF Printing, IsTop
<1>11. FramesInv' /\ StepFrame(c, f, h)
  BY <1>1, <1>5, <1>6, <1>7, <1>9, <1>10, StepKeeps DEF FramesInv
<1>12. QED
  BY <1>2, <1>3, <1>4, <1>5, <1>6, <1>8, <1>11, Zenon

(* and the lock is given back.                                             *)
LEMMA FinishStep ==
  ASSUME FramesInv, NEW c \in CPUs, Finish(c)
  PROVE  \E f, h : /\ FramesInv' /\ StepFrame(c, f, h) /\ Moved(frames, frames', c, h)
                   /\ h.at = "code"
                   /\ buf' = IF \E d \in CPUs : \E k \in DOMAIN frames'[d] : Printing(frames'[d][k])
                             THEN buf ELSE Blank
                   /\ XPosition' = XPosition /\ YPosition' = YPosition
<1>1. PICK f, n : IsTop(c, f, n)
  BY TopIs
<1>2. f.at = "end" /\ f = Top(c) /\ f \in FrameSet /\ Placed(f)
  BY <1>1 DEF IsTop, Finish
<1>3. PICK h : h = Frame(f.kind, f.if, f.todo, f.fault)
  OBVIOUS
<1>4. h \in FrameSet /\ Placed(h) /\ h.kind = f.kind /\ h.if = f.if /\ h.at = "code"
  BY <1>2, <1>3, FinishPlaced
<1>5. /\ frames' = WithTop(c, h)
      /\ printk_lock' = IF f.if THEN Free ELSE printk_lock
      /\ buf' = IF \E d \in CPUs : \E k \in DOMAIN frames'[d] : Printing(frames'[d][k])
                THEN buf ELSE Blank
      /\ XPosition' = XPosition /\ YPosition' = YPosition
  BY <1>1, <1>2, <1>3, Zenon DEF Finish, IsTop
<1>6. Moved(frames, frames', c, h)
  BY <1>4, <1>5, WithTopMoves DEF FramesInv
<1>7. Changed(frames, frames', c, h)
  BY <1>6 DEF Moved
<1>8. buf' \in [1 .. BufLen -> Glyphs]
  <2>1. Blank \in [1 .. BufLen -> Glyphs]
    <3>1. " " \in Glyphs
      BY GlyphSets
    <3>2. QED
      BY <3>1 DEF Blank
  <2>2. QED
    BY <1>5, <2>1 DEF FramesInv
<1>9. /\ ~Printing(h) /\ printk_lock' # <<c, n>>
      /\ printk_lock' = printk_lock \/ (printk_lock = <<c, n>> /\ printk_lock' = Free)
  <2>1. Printing(f) /\ ~Printing(h)
    BY <1>2, <1>4 DEF Printing
  <2>2. f.if <=> printk_lock = <<c, n>>
    BY <1>1, <2>1 DEF IsTop
  <2>3. QED
    BY <1>5, <2>1, <2>2, FreeIsNobody
<1>10. FramesInv' /\ StepFrame(c, f, h)
  BY <1>1, <1>4, <1>5, <1>7, <1>8, <1>9, StepKeeps DEF FramesInv
<1>11. QED
  BY <1>4, <1>5, <1>6, <1>10, Zenon

\* A round of the loop: the frame with its start recorded, the blanks owed,
\* and what is drawn.
Begun(f, x, y) ==
  IF f.count > 0 \/ f.drawn # <<>> \/ f.disturbed THEN [f EXCEPT !.at = "wrap"]
  ELSE IF x < Columns /\ y < PageRows THEN [f EXCEPT !.at = "wrap", !.start = <<x, y>>]
  ELSE Disturb([f EXCEPT !.at = "wrap"])
Owed(f, b, x) ==
  IF f.tabSpace > 0 THEN f.tabSpace
  ELSE IF b[f.count + 1] = "\t" THEN TAB - (x % TAB) ELSE 0
PutBlank(f, b, x, y, h, x2, y2) ==
  /\ Owed(f, b, x) > 0
  /\ h = [Draw(Begun(f, x, y), Cell(x, y, " ")) EXCEPT !.tabSpace = Owed(f, b, x) - 1]
  /\ x2 = x + 1 /\ y2 = y
PutLine(f, b, x, y, h, x2, y2) ==
  /\ Owed(f, b, x) = 0 /\ b[f.count + 1] = "\n"
  /\ h = Begun(f, x, y)
  /\ x2 = 0 /\ y2 = y + 1
PutBack(f, b, x, y, h, x2, y2) ==
  /\ Owed(f, b, x) = 0 /\ b[f.count + 1] = "BS"
  /\ h = Draw(Begun(f, x, y), Cell(x2, y2, " "))
PutGlyph(f, b, x, y, h, x2, y2) ==
  /\ Owed(f, b, x) = 0 /\ b[f.count + 1] \notin {"\n", "BS"}
  /\ h = Draw(Begun(f, x, y), Cell(x, y, b[f.count + 1]))
  /\ x2 = x + 1 /\ y2 = y
Putting(f, b, x, y, h, x2, y2) ==
  \/ PutBlank(f, b, x, y, h, x2, y2) \/ PutLine(f, b, x, y, h, x2, y2)
  \/ PutBack(f, b, x, y, h, x2, y2) \/ PutGlyph(f, b, x, y, h, x2, y2)

\* The fields that printing a glyph leaves alone.
Kept(f, g) ==
  /\ g.kind = f.kind /\ g.if = f.if /\ g.todo = f.todo /\ g.fault = f.fault
  /\ g.i = f.i /\ g.count = f.count /\ g.msg = f.msg

Started(f, x, y, g) ==
  /\ g.drawn = f.drawn \/ f.disturbed
  /\ f.disturbed => g.disturbed
  /\ ~g.disturbed => \/ g.start = f.start /\ (f.count > 0 \/ f.drawn # <<>>)
                     \/ /\ f.count = 0 /\ f.drawn = <<>> /\ g.start = <<x, y>>
                        /\ x < Columns /\ y < PageRows

(* The parts of a round: where the print began,                            *)
LEMMA BegunIs ==
  ASSUME NEW f \in FrameSet, NEW x \in Nat, NEW y \in Nat
  PROVE  /\ Begun(f, x, y) \in FrameSet /\ Kept(f, Begun(f, x, y))
         /\ Begun(f, x, y).at = "wrap" /\ Begun(f, x, y).tabSpace = f.tabSpace
         /\ Started(f, x, y, Begun(f, x, y))
<1>0. PICK g : g = Begun(f, x, y)
  OBVIOUS
<1> SUFFICES /\ g \in FrameSet /\ Kept(f, g) /\ g.at = "wrap" /\ g.tabSpace = f.tabSpace
             /\ g.drawn = f.drawn \/ f.disturbed
             /\ f.disturbed => g.disturbed
             /\ ~g.disturbed => \/ g.start = f.start /\ (f.count > 0 \/ f.drawn # <<>>)
                                \/ /\ f.count = 0 /\ f.drawn = <<>> /\ g.start = <<x, y>>
                                   /\ x < Columns /\ y < PageRows
  BY <1>0, Zenon DEF Started
<1>1. PICK r, z, e : r = [f EXCEPT !.at = "wrap"] /\ z = <<0, 0>> /\ e = <<>> /\ z \in Nat \X Nat
                     /\ e \in Seq(Cells)
  <2>1. <<0, 0>> \in Nat \X Nat /\ <<>> \in Seq(Cells)
    OBVIOUS
  <2>2. QED
    BY <2>1
<1>2. r \in FrameSet /\ Kept(f, r) /\ r.at = "wrap" /\ r.tabSpace = f.tabSpace
      /\ r.drawn = f.drawn /\ r.disturbed = f.disturbed /\ r.start = f.start
  BY <1>1 DEF FrameSet, Kept
<1>3. CASE f.count > 0 \/ f.drawn # <<>> \/ f.disturbed
  <2>1. g = r
    BY <1>0, <1>1, <1>3 DEF Begun
  <2>2. QED
    BY <1>2, <1>3, <2>1
<1>4. CASE ~(f.count > 0 \/ f.drawn # <<>> \/ f.disturbed)
  <2>0. f.count = 0 /\ f.drawn = <<>> /\ ~f.disturbed
    BY <1>4 DEF FrameSet
  <2>1. CASE x < Columns /\ y < PageRows
    <3>0. <<x, y>> \in Nat \X Nat
      OBVIOUS
    <3>1. PICK s : s = <<x, y>> /\ s \in Nat \X Nat
      BY <3>0
    <3>2. g = [f EXCEPT !.at = "wrap", !.start = s]
      BY <1>0, <1>4, <2>1, <3>1 DEF Begun
    <3>3. g \in FrameSet /\ Kept(f, g) /\ g.at = "wrap" /\ g.tabSpace = f.tabSpace
          /\ g.drawn = f.drawn /\ g.disturbed = f.disturbed /\ g.start = s
      BY <3>1, <3>2 DEF FrameSet, Kept
    <3>4. QED
      BY <2>0, <2>1, <3>1, <3>3
  <2>2. CASE ~(x < Columns /\ y < PageRows)
    <3>1. g = [r EXCEPT !.disturbed = TRUE, !.start = z, !.drawn = e]
      BY <1>0, <1>1, <1>4, <2>2 DEF Begun, Disturb
    <3>2. g \in FrameSet /\ Kept(r, g) /\ g.at = r.at /\ g.tabSpace = r.tabSpace
          /\ g.drawn = e /\ g.disturbed
      <4>1. r \in FrameSet /\ z \in Nat \X Nat /\ e \in Seq(Cells)
        BY <1>1, <1>2
      <4>2. g \in FrameSet
        BY <3>1, <4>1 DEF FrameSet
      <4>3. Kept(r, g) /\ g.at = r.at /\ g.tabSpace = r.tabSpace /\ g.drawn = e /\ g.disturbed
        BY <3>1, <4>1 DEF FrameSet, Kept
      <4>4. QED
        BY <4>2, <4>3
    <3>3. Kept(f, g)
      BY <1>2, <3>2 DEF Kept
    <3>4. QED
      BY <1>1, <1>2, <2>0, <3>2, <3>3
  <2>3. QED
    BY <2>1, <2>2
<1>5. QED
  BY <1>3, <1>4

(* a cell more,                                                            *)
LEMMA DrawIs ==
  ASSUME NEW g \in FrameSet, NEW cell \in Cells, NEW h, h = Draw(g, cell)
  PROVE  /\ h \in FrameSet /\ Kept(g, h) /\ h.at = g.at /\ h.tabSpace = g.tabSpace
         /\ h.disturbed = g.disturbed /\ h.start = g.start
         /\ ~h.disturbed => h.drawn = Append(g.drawn, cell)
<1>1. CASE g.disturbed
  BY <1>1 DEF Draw, Kept
<1>2. CASE ~g.disturbed
  <2>0. g.drawn \in Seq(Cells)
    BY DEF FrameSet
  <2>1. PICK s : s = Append(g.drawn, cell) /\ s \in Seq(Cells)
    <3>1. Append(g.drawn, cell) \in Seq(Cells)
      BY <2>0, AppendProperties, Zenon
    <3>2. QED
      BY <3>1
  <2>2. h = [g EXCEPT !.drawn = s]
    BY <1>2, <2>1 DEF Draw
  <2>3. QED
    BY <2>1, <2>2 DEF FrameSet, Kept
<1>3. QED
  BY <1>1, <1>2

(* the blanks a tab owes,                                                  *)
LEMMA OwedIs ==
  ASSUME NEW f \in FrameSet, Placed(f), f.at = "put", NEW b, NEW x \in Nat, NEW s, s = Owed(f, b, x)
  PROVE  /\ s \in 0 .. TAB /\ TAB \in Nat \ {0}
         /\ s = 0 => f.tabSpace = 0 /\ b[f.count + 1] # "\t"
         /\ f.tabSpace > 0 => s = f.tabSpace
         /\ f.tabSpace = 0 /\ s > 0 => b[f.count + 1] = "\t" /\ s = TAB - (x % TAB)
<1>1. TAB \in Nat \ {0}
  BY ConsoleAssumption DEF ConsoleAssumption
<1>2. f.tabSpace \in Nat /\ f.tabSpace < TAB
  BY DEF FrameSet, Placed
<1>3. PICK r : r = x % TAB
  OBVIOUS
<1>4. r \in 0 .. TAB - 1
  BY <1>1, <1>3
<1>5. PICK t, g : t = f.tabSpace /\ g = b[f.count + 1]
  OBVIOUS
<1>6. s = IF t > 0 THEN t ELSE IF g = "\t" THEN TAB - r ELSE 0
  BY <1>3, <1>5 DEF Owed
<1>7. t \in Nat /\ t < TAB
  BY <1>2, <1>5
<1>8. /\ s \in 0 .. TAB
      /\ s = 0 => t = 0 /\ g # "\t"
      /\ t > 0 => s = t
      /\ t = 0 /\ s > 0 => g = "\t" /\ s = TAB - r
  <2>1. CASE t > 0
    BY <1>1, <1>6, <1>7, <2>1
  <2>2. CASE t = 0 /\ g = "\t"
    BY <1>1, <1>4, <1>6, <2>2
  <2>3. CASE t = 0 /\ g # "\t"
    BY <1>1, <1>6, <2>3
  <2>4. QED
    BY <1>7, <2>1, <2>2, <2>3
<1>9. QED
  BY <1>1, <1>3, <1>5, <1>8, Zenon

(* and the glyph in question, which the print put into the buffer.         *)
LEMMA GlyphAtCount ==
  ASSUME NEW f \in FrameSet, Placed(f), f.at = "put"
  PROVE  /\ f.msg \in Printed /\ f.count \in Nat /\ f.count + 1 \in 1 .. BufLen
         /\ f.count + 1 \in 1 .. f.i /\ f.i = Len(Text(f.msg)) /\ f.i \in 0 .. BufLen
<1>1. f.msg \in Printed
  BY AllowedPrinted DEF Placed
<1>2. Len(Text(f.msg)) \in 0 .. BufLen
  BY <1>1, PreIs
<1>3. f.count \in Nat /\ f.i \in Nat /\ f.count < f.i /\ f.i = Len(Text(f.msg))
  BY DEF FrameSet, Placed
<1>4. BufLen \in Nat
  BY ConsoleAssumption DEF ConsoleAssumption
<1>5. f.i \in 0 .. BufLen
  BY <1>2, <1>3
<1>6. QED
  BY <1>1, <1>3, <1>4, <1>5

(* A round leaves its frame in place.                                      *)
LEMMA PutFrame ==
  ASSUME NEW f \in FrameSet, Placed(f), f.at = "put", NEW b \in [1 .. BufLen -> Glyphs],
         NEW x \in Nat, NEW y \in Nat, NEW x2 \in Nat, NEW y2 \in Nat,
         NEW h, Putting(f, b, x, y, h, x2, y2)
  PROVE  h \in FrameSet /\ Placed(h) /\ Kept(f, h) /\ h.at = "wrap"
<1>1. PICK g, s, w : g = Begun(f, x, y) /\ s = Owed(f, b, x) /\ w = b[f.count + 1]
  OBVIOUS
<1>2. g \in FrameSet /\ Kept(f, g) /\ g.at = "wrap" /\ g.tabSpace = f.tabSpace
  BY <1>1, BegunIs, Zenon
<1>3. s \in 0 .. TAB /\ TAB \in Nat \ {0}
  BY <1>1, OwedIs
<1>4. w \in Glyphs /\ " " \in Glyphs
  BY <1>1, GlyphAtCount, GlyphSets
<1>5. Cell(x, y, " ") \in Cells /\ Cell(x, y, w) \in Cells /\ Cell(x2, y2, " ") \in Cells
  BY <1>4 DEF Cell, Cells
<1>6. f.tabSpace < TAB /\ f.tabSpace \in Nat
  BY DEF Placed, FrameSet
<1>7. h \in FrameSet /\ Kept(f, h) /\ h.at = "wrap" /\ h.tabSpace < TAB
  <2>1. CASE PutBlank(f, b, x, y, h, x2, y2)
    <3>1. PICK r : r = Draw(g, Cell(x, y, " "))
      OBVIOUS
    <3>2. r \in FrameSet /\ Kept(g, r) /\ r.at = g.at
      <4>1. PICK e : e = Cell(x, y, " ")
        OBVIOUS
      <4>2. g \in FrameSet /\ e \in Cells /\ r = Draw(g, e)
        BY <1>2, <1>5, <3>1, <4>1, Zenon
      <4>3. QED
        BY <4>2, DrawIs
    <3>3. h = [r EXCEPT !.tabSpace = s - 1] /\ s > 0
      BY <1>1, <2>1, <3>1 DEF PutBlank
    <3>4. s - 1 \in Nat /\ s - 1 < TAB
      BY <1>3, <3>3
    <3>5. h \in FrameSet
      BY <3>2, <3>3, <3>4 DEF FrameSet
    <3>6. Kept(r, h) /\ h.at = r.at /\ h.tabSpace = s - 1
      BY <3>2, <3>3 DEF FrameSet, Kept
    <3>7. Kept(f, h)
      BY <1>2, <3>2, <3>6 DEF Kept
    <3>8. QED
      BY <1>2, <3>2, <3>4, <3>5, <3>6, <3>7
  <2>2. CASE PutLine(f, b, x, y, h, x2, y2)
    BY <1>1, <1>2, <1>6, <2>2 DEF PutLine
  <2>3. ASSUME NEW cell \in Cells, h = Draw(g, cell)
        PROVE  h \in FrameSet /\ Kept(f, h) /\ h.at = "wrap" /\ h.tabSpace < TAB
    <3>1. h \in FrameSet /\ Kept(g, h) /\ h.at = g.at /\ h.tabSpace = g.tabSpace
      BY <1>2, <2>3, DrawIs
    <3>2. Kept(f, h)
      BY <1>2, <3>1 DEF Kept
    <3>3. QED
      BY <1>2, <1>6, <3>1, <3>2
  <2>4. CASE PutBack(f, b, x, y, h, x2, y2)
    BY <1>1, <1>5, <2>3, <2>4 DEF PutBack
  <2>5. CASE PutGlyph(f, b, x, y, h, x2, y2)
    BY <1>1, <1>5, <2>3, <2>5 DEF PutGlyph
  <2>6. QED
    BY <2>1, <2>2, <2>4, <2>5 DEF Putting
<1>8. Placed(h)
  BY <1>7, PutPlaced DEF Kept
<1>9. QED
  BY <1>7, <1>8

(* The action Put is such a round.                                         *)
LEMMA PutStep ==
  ASSUME FramesInv, NEW c \in CPUs, Put(c)
  PROVE  \E f, h :
           /\ FramesInv' /\ StepFrame(c, f, h) /\ Worked(frames, frames', c, h)
           /\ f.at = "put" /\ Kept(f, h) /\ h.at = "wrap"
           /\ Putting(f, buf, XPosition, YPosition, h, XPosition', YPosition')
           /\ buf' = buf
<1>1. PICK f, n : IsTop(c, f, n)
  BY TopIs
<1>2. f.at = "put" /\ f = Top(c) /\ f \in FrameSet /\ Placed(f)
  BY <1>1 DEF IsTop, Put
<1>3. XPosition \in Nat /\ YPosition \in Nat /\ buf \in [1 .. BufLen -> Glyphs]
      /\ Stacked(frames)
  BY DEF FramesInv
<1>4. XPosition' \in Nat /\ YPosition' \in Nat
  <2>1. {Columns, ScreenRows} \subseteq Nat /\ Columns # 0 /\ {XCharSize, YCharSize} \subseteq Nat
        /\ PageRows \in Nat /\ PageRows < ScreenRows
    BY ConsoleAssumption DEF ConsoleAssumption
  <2>2. (Columns - 1) * XCharSize \in Nat /\ (ScreenRows - 1) * YCharSize \in Nat
    <3>1. Columns - 1 \in Nat /\ ScreenRows - 1 \in Nat /\ XCharSize \in Nat /\ YCharSize \in Nat
      BY <2>1
    <3>2. QED
      BY <3>1
  <2>3. PICK u, v : /\ u = (Columns - 1) * XCharSize /\ v = (ScreenRows - 1) * YCharSize
                    /\ u \in Nat /\ v \in Nat
    BY <2>2
  <2>4. \/ XPosition' = XPosition + 1 /\ YPosition' = YPosition
        \/ XPosition' = 0 /\ YPosition' = YPosition + 1
        \/ /\ XPosition' = IF ~(XPosition - 1 < 0) THEN XPosition - 1 ELSE u
           /\ YPosition' = IF ~(XPosition - 1 < 0) THEN YPosition
                           ELSE IF YPosition - 1 < 0 THEN v ELSE YPosition - 1
    BY <2>3, Zenon DEF Put
  <2>5. QED
    BY <1>3, <2>3, <2>4
<1>5. /\ \E h : /\ frames' = Working(c, h)
                /\ Putting(f, buf, XPosition, YPosition, h, XPosition', YPosition')
      /\ buf' = buf /\ printk_lock' = printk_lock
  BY <1>2 DEF Put, Putting, PutBlank, PutLine, PutBack, PutGlyph, Begun, Owed
<1>6. PICK h : /\ frames' = Working(c, h)
               /\ Putting(f, buf, XPosition, YPosition, h, XPosition', YPosition')
  BY <1>5
<1>7. h \in FrameSet /\ Placed(h) /\ Kept(f, h) /\ h.at = "wrap"
  <2>1. PICK b, x, y, x2, y2 : b = buf /\ x = XPosition /\ y = YPosition
                               /\ x2 = XPosition' /\ y2 = YPosition'
    OBVIOUS
  <2>2. b \in [1 .. BufLen -> Glyphs] /\ x \in Nat /\ y \in Nat /\ x2 \in Nat /\ y2 \in Nat
        /\ Putting(f, b, x, y, h, x2, y2)
    BY <1>3, <1>4, <1>6, <2>1
  <2>3. QED
    BY <1>2, <2>2, PutFrame
<1>8. Worked(frames, frames', c, h)
  BY <1>3, <1>6, <1>7, WorkingWorks
<1>9. Changed(frames, frames', c, h)
  BY <1>8 DEF Worked
<1>10. h.kind = f.kind /\ h.if = f.if
  BY <1>7 DEF Kept
<1>11. (h.if /\ Printing(h)) <=> printk_lock' = <<c, n>>
  BY <1>1, <1>2, <1>5, <1>7, <1>10 DEF Printing, IsTop
<1>12. FramesInv' /\ StepFrame(c, f, h)
  BY <1>1, <1>3, <1>4, <1>5, <1>7, <1>9, <1>10, <1>11, StepKeeps
<1>13. QED
  BY <1>2, <1>5, <1>6, <1>7, <1>8, <1>12, Zenon

(* Interrupts are enabled.                                                 *)
LEMMA EnableStep ==
  ASSUME FramesInv, NEW c \in CPUs, EnableInterrupts(c)
  PROVE  \E f, h : /\ FramesInv' /\ StepFrame(c, f, h) /\ Moved(frames, frames', c, h)
                   /\ h.at = "code"
                   /\ buf' = buf /\ XPosition' = XPosition /\ YPosition' = YPosition
<1>1. PICK f, n : IsTop(c, f, n)
  BY TopIs
<1>2. f.at = "code" /\ f = Top(c) /\ f \in FrameSet /\ Placed(f)
  BY <1>1 DEF IsTop, EnableInterrupts
<1>3. PICK h : h = [f EXCEPT !.if = TRUE]
  OBVIOUS
<1>4. h \in FrameSet /\ Placed(h) /\ h.kind = f.kind /\ h.at = "code"
  BY <1>2, <1>3, EnablePlaced
<1>5. /\ frames' = WithTop(c, h) /\ printk_lock' = printk_lock
      /\ buf' = buf /\ XPosition' = XPosition /\ YPosition' = YPosition
  BY <1>2, <1>3 DEF EnableInterrupts
<1>6. Moved(frames, frames', c, h)
  BY <1>4, <1>5, WithTopMoves DEF FramesInv
<1>7. Changed(frames, frames', c, h)
  BY <1>6 DEF Moved
<1>8. ~Printing(h) /\ printk_lock' # <<c, n>>
  BY <1>1, <1>2, <1>4, <1>5 DEF Printing, IsTop
<1>9. FramesInv' /\ StepFrame(c, f, h)
  BY <1>1, <1>4, <1>5, <1>7, <1>8, StepKeeps DEF FramesInv
<1>10. QED
  BY <1>4, <1>5, <1>6, <1>9

\* Every frame after a step was there before it, or is new and prints nothing.
NothingNew(fr, fr2) ==
  \A d \in CPUs : \A k \in 1 .. Len(fr2[d]) :
    \/ fr2[d][k].at = "code"
    \/ k \in 1 .. Len(fr[d]) /\ fr2[d][k] = fr[d][k]

(* A new frame does not touch the prints in progress,                      *)
LEMMA PushKeeps ==
  ASSUME FramesInv, NEW c \in CPUs, NEW h \in FrameSet, Placed(h), h.at = "code",
         frames' = [frames EXCEPT ![c] = Append(@, h)],
         UNCHANGED <<printk_lock, buf, XPosition, YPosition>>
  PROVE  FramesInv' /\ NothingNew(frames, frames')
<1>1. PICK fr, fr2, lock : fr = frames /\ fr2 = frames' /\ lock = printk_lock
  OBVIOUS
<1>2. Stacked(fr) /\ Locked(fr, lock) /\ Pushed(fr, fr2, c, h)
  BY <1>1 DEF FramesInv, Pushed
<1>3. /\ Stacked(fr2) /\ Locked(fr2, lock)
      /\ \A d \in CPUs : \A k \in 1 .. Len(fr2[d]) :
           fr2[d][k] = h \/ (k \in 1 .. Len(fr[d]) /\ fr2[d][k] = fr[d][k])
  BY <1>2, PushStacks
<1>4. NothingNew(fr, fr2)
  BY <1>3 DEF NothingNew
<1>5. FramesInv'
  BY <1>1, <1>3 DEF FramesInv
<1>6. QED
  BY <1>1, <1>4, <1>5

(* that of an interrupt,                                                   *)
LEMMA InterruptStep ==
  ASSUME FramesInv, NEW c \in CPUs, Interrupt(c)
  PROVE  /\ FramesInv' /\ NothingNew(frames, frames')
         /\ buf' = buf /\ XPosition' = XPosition /\ YPosition' = YPosition
<1>1. PICK flag \in HandlerFlags, m \in Messages :
        frames' = [frames EXCEPT ![c] = Append(@, Frame("irq", flag, <<m>>, NoFault))]
  BY DEF Interrupt
<1>2. PICK h : h = Frame("irq", flag, <<m>>, NoFault)
  OBVIOUS
<1>3. flag \in BOOLEAN /\ <<m>> \in Seq(Printed)
  <2>1. HandlerFlags \subseteq BOOLEAN
    BY ConsoleAssumption DEF ConsoleAssumption
  <2>2. m \in Printed
    BY DEF Printed
  <2>3. QED
    BY <2>1, <2>2
<1>4. NoFault \in [vector : Int, code : Nat]
  BY DEF NoFault
<1>5. h \in FrameSet /\ Placed(h) /\ h.at = "code"
  <2>1. MayPrint("irq", <<m>>, NoFault)
    BY <1>3, <1>4 DEF MayPrint
  <2>2. Fresh(h, "irq", flag)
    BY <1>2, <1>3, <2>1, OutsidePlaced
  <2>3. QED
    BY <2>2 DEF Fresh
<1>6. UNCHANGED <<printk_lock, buf, XPosition, YPosition>>
  BY DEF Interrupt
<1>7. QED
  BY <1>1, <1>2, <1>5, <1>6, PushKeeps

(* or of an exception,                                                     *)
LEMMA FaultStep ==
  ASSUME FramesInv, NEW c \in CPUs, Fault(c)
  PROVE  /\ FramesInv' /\ NothingNew(frames, frames')
         /\ buf' = buf /\ XPosition' = XPosition /\ YPosition' = YPosition
<1>1. PICK e \in IF Booted THEN Faults ELSE BootFaults :
        frames' = [frames EXCEPT ![c] = Append(@,
          Frame("trap", Gate[e.vector] = "trap" /\ Top(c).if, ReportOf(e), e))]
  BY DEF Fault
<1>2. PICK flag : flag = (Gate[e.vector] = "trap" /\ Top(c).if) /\ flag \in BOOLEAN
  OBVIOUS
<1>3. PICK h : h = Frame("trap", flag, ReportOf(e), e)
  OBVIOUS
<1>4. e \in Faults \cup BootFaults
  OBVIOUS
<1>5. /\ e \in [vector : Int, code : Nat]
      /\ ReportOf(e) \in Seq(Range(ReportOf(e))) /\ ReportOf(e) \in Seq(Printed)
  BY <1>4, ReportIsSeq
<1>6. h \in FrameSet /\ Placed(h) /\ h.at = "code"
  <2>1. MayPrint("trap", ReportOf(e), e)
    BY <1>4, <1>5 DEF MayPrint
  <2>2. Fresh(h, "trap", flag)
    BY <1>2, <1>3, <2>1, OutsidePlaced
  <2>3. QED
    BY <2>2 DEF Fresh
<1>7. UNCHANGED <<printk_lock, buf, XPosition, YPosition>>
  BY DEF Fault
<1>8. frames' = [frames EXCEPT ![c] = Append(@, h)]
  BY <1>1, <1>2, <1>3, Zenon
<1>9. QED
  BY <1>6, <1>7, <1>8, PushKeeps

(* nor does the end of one.                                                *)
LEMMA ReturnStep ==
  ASSUME FramesInv, NEW c \in CPUs, Return(c)
  PROVE  /\ FramesInv' /\ NothingNew(frames, frames')
         /\ buf' = buf /\ XPosition' = XPosition /\ YPosition' = YPosition
<1>1. PICK fr, fr2, lock : fr = frames /\ fr2 = frames' /\ lock = printk_lock
  OBVIOUS
<1>2. /\ Stacked(fr) /\ Locked(fr, lock) /\ Popped(fr, fr2, c)
      /\ fr[c][Len(fr[c])].kind # "task" /\ fr[c][Len(fr[c])].at = "code"
  BY <1>1 DEF FramesInv, Return, Popped, Top, Depth
<1>3. /\ Stacked(fr2) /\ Locked(fr2, lock)
      /\ \A d \in CPUs : \A k \in 1 .. Len(fr2[d]) :
              k \in 1 .. Len(fr[d]) /\ fr2[d][k] = fr[d][k]
  BY <1>2, PopStacks
<1>4. NothingNew(fr, fr2)
  BY <1>3 DEF NothingNew
<1>5. UNCHANGED <<printk_lock, buf, XPosition, YPosition>>
  BY DEF Return
<1>6. FramesInv'
  BY <1>1, <1>3, <1>5 DEF FramesInv
<1>7. QED
  BY <1>1, <1>4, <1>5, <1>6

(* The first part of the invariant holds at the beginning,                 *)
LEMMA InitFrames == Init => FramesInv
<1> SUFFICES ASSUME Init PROVE FramesInv
  OBVIOUS
<1>0. PICK flag \in BOOLEAN : flag = FALSE
  OBVIOUS
<1>1. PICK h : h = Frame("task", flag, <<>>, NoFault)
  OBVIOUS
<1>2. NoFault \in [vector : Int, code : Nat] /\ <<>> \in Seq(Printed)
  BY DEF NoFault
<1>3. h \in FrameSet /\ Placed(h) /\ h.kind = "task" /\ h.at = "code"
  <2>1. MayPrint("task", <<>>, NoFault)
    BY <1>2 DEF MayPrint
  <2>2. Fresh(h, "task", flag)
    BY <1>1, <2>1, OutsidePlaced
  <2>3. QED
    BY <2>2 DEF Fresh
<1>4. frames = [c \in CPUs |-> <<h>>]
  BY <1>0, <1>1, Zenon DEF Init
<1>5. Stacked(frames)
  <2>1. <<h>> \in Seq(FrameSet) /\ Len(<<h>>) = 1 /\ <<h>>[1] = h
    BY <1>3
  <2>2. frames \in Stacks
    BY <1>4, <2>1 DEF Stacks
  <2>3. \A c \in CPUs : Len(frames[c]) = 1 /\ frames[c][1] = h
    BY <1>4, <2>1
  <2>4. \A c \in CPUs : \A k \in 1 .. Len(frames[c]) : k = 1
    <3>1. \A k \in 1 .. 1 : k = 1
      OBVIOUS
    <3>2. QED
      BY <2>3, <3>1, Zenon
  <2>5. QED
    BY <1>3, <2>2, <2>3, <2>4 DEF Stacked
<1>6. Locked(frames, printk_lock)
  <2>1. \A c \in CPUs : \A k \in 1 .. Len(frames[c]) : frames[c][k] = h
    <3>1. Len(<<h>>) = 1 /\ <<h>>[1] = h
      OBVIOUS
    <3>2. \A c \in CPUs : frames[c] = <<h>>
      BY <1>4
    <3>3. QED
      BY <3>1, <3>2
  <2>2. ~Printing(h)
    BY <1>3 DEF Printing
  <2>3. printk_lock = Free
    BY DEF Init
  <2>4. QED
    BY <2>1, <2>2, <2>3, FreeIsNobody DEF Locked
<1>7. buf \in [1 .. BufLen -> Glyphs] /\ XPosition \in Nat /\ YPosition \in Nat
  BY GlyphSets DEF Init, Blank
<1>8. QED
  BY <1>5, <1>6, <1>7 DEF FramesInv

(* after every step,                                                       *)
LEMMA NextFrames == FramesInv /\ [Next]_vars => FramesInv'
<1> SUFFICES ASSUME FramesInv, [Next]_vars PROVE FramesInv'
  OBVIOUS
<1>1. CASE UNCHANGED vars
  BY <1>1 DEF FramesInv, vars
<1>2. ASSUME NEW c \in CPUs, Call(c) PROVE FramesInv'
  BY <1>2, CallStep
<1>3. ASSUME NEW c \in CPUs, Lock(c) PROVE FramesInv'
  BY <1>3, LockStep
<1>4. ASSUME NEW c \in CPUs, Format(c) PROVE FramesInv'
  BY <1>4, FormatStep
<1>5. ASSUME NEW c \in CPUs, Put(c) PROVE FramesInv'
  BY <1>5, PutStep
<1>6. ASSUME NEW c \in CPUs, Wrap(c) PROVE FramesInv'
  BY <1>6, WrapStep
<1>7. ASSUME NEW c \in CPUs, Finish(c) PROVE FramesInv'
  BY <1>7, FinishStep
<1>8. ASSUME NEW c \in CPUs, EnableInterrupts(c) PROVE FramesInv'
  BY <1>8, EnableStep
<1>9. ASSUME NEW c \in CPUs, Interrupt(c) PROVE FramesInv'
  BY <1>9, InterruptStep
<1>10. ASSUME NEW c \in CPUs, Return(c) PROVE FramesInv'
  BY <1>10, ReturnStep
<1>11. ASSUME NEW c \in CPUs, Fault(c) PROVE FramesInv'
  BY <1>11, FaultStep
<1>12. QED
  BY <1>1, <1>2, <1>3, <1>4, <1>5, <1>6, <1>7, <1>8, <1>9, <1>10, <1>11 DEF Next, Printer

(* and so always.                                                          *)
LEMMA AlwaysFrames == Spec => []FramesInv
<1>1. Init => FramesInv
  BY InitFrames
<1>2. FramesInv /\ [Next]_vars => FramesInv'
  BY NextFrames
<1>3. QED
  BY <1>1, <1>2, PTL DEF Spec

(* What it says of each frame.                                             *)
LEMMA FramesAre ==
  ASSUME FramesInv
  PROVE  \A c \in CPUs : /\ DOMAIN frames[c] = 1 .. Len(frames[c]) /\ Len(frames[c]) \in Nat
                         /\ Len(frames[c]) >= 1 /\ frames[c][1].kind = "task"
                         /\ \A k \in DOMAIN frames[c] :
                              frames[c][k] \in FrameSet /\ Placed(frames[c][k])
<1>1. PICK fr : fr = frames
  OBVIOUS
<1>2. /\ fr \in [CPUs -> Seq(FrameSet)]
      /\ \A c \in CPUs : Len(fr[c]) \in Nat /\ Len(fr[c]) >= 1 /\ fr[c][1].kind = "task"
      /\ \A c \in CPUs : \A k \in 1 .. Len(fr[c]) : Placed(fr[c][k])
  BY <1>1 DEF FramesInv, Stacked, Stacks
<1>3. \A c \in CPUs : DOMAIN fr[c] = 1 .. Len(fr[c]) /\ \A k \in 1 .. Len(fr[c]) : fr[c][k] \in FrameSet
  BY <1>2
<1>4. QED
  BY <1>1, <1>2, <1>3

(* A frame that is in place has its fields in their ranges.                *)
LEMMA PlacedTypes ==
  ASSUME NEW f \in FrameSet, Placed(f)
  PROVE  /\ f.at \in {"code", "lock", "format", "put", "wrap", "end"}
         /\ f.i \in 0 .. BufLen /\ f.count \in 0 .. f.i /\ f.tabSpace \in 0 .. TAB - 1
<1>1. /\ f.at \in {"code", "lock", "format", "put", "wrap", "end"}
      /\ f.i \in Nat /\ f.count \in Nat /\ f.tabSpace \in Nat /\ f.msg \in Seq(Item)
      /\ f.fmt \in Seq(Item)
  BY DEF FrameSet
<1>2. TAB \in Nat \ {0} /\ BufLen \in Nat \ {0}
  BY ConsoleAssumption DEF ConsoleAssumption
<1>3. CASE f.at = "code"
  <2>1. f.i = 0 /\ f.count = 0 /\ f.tabSpace = 0
    BY <1>3 DEF Placed, Outside
  <2>2. QED
    BY <1>1, <1>2, <2>1
<1>4. CASE f.at # "code"
  <2>1. f.msg \in Printed
    BY <1>4, AllowedPrinted DEF Placed
  <2>2. /\ Len(f.msg) \in Nat \ {0} /\ Len(Text(f.msg)) \in 0 .. BufLen
        /\ \A m \in 0 .. Len(f.msg) : Len(Pre(f.msg, m)) \in 0 .. Len(Text(f.msg))
    BY <2>1, PreIs
  <2>3. CASE f.at \in {"lock", "format"}
    <3>1. PICK n, k : n = Len(f.msg) /\ k = Len(f.fmt)
      OBVIOUS
    <3>2. n \in Nat /\ k \in Nat /\ k <= n /\ Done(f) = n - k
          /\ f.i = Len(Pre(f.msg, Done(f))) /\ f.count = 0 /\ f.tabSpace = 0
      <4>1. Converting(f)
        BY <2>3 DEF Placed
      <4>2. k <= n /\ Done(f) = n - k /\ f.i = Len(Pre(f.msg, Done(f))) /\ f.count = 0
            /\ f.tabSpace = 0
        BY <3>1, <4>1, Zenon DEF Converting, Done
      <4>3. n \in Nat /\ k \in Nat
        BY <1>1, <2>2, <3>1
      <4>4. QED
        BY <4>2, <4>3
    <3>3. Done(f) \in 0 .. n
      BY <3>2
    <3>4. f.i \in 0 .. Len(Text(f.msg))
      BY <2>2, <3>1, <3>2, <3>3
    <3>5. f.i \in 0 .. BufLen
      BY <1>2, <2>2, <3>4
    <3>6. QED
      BY <1>1, <1>2, <3>2, <3>5
  <2>4. CASE f.at \in {"put", "wrap", "end"}
    <3>1. f.i = Len(Text(f.msg)) /\ f.count <= f.i /\ f.tabSpace < TAB
      BY <1>1, <1>2, <2>4 DEF Placed
    <3>2. QED
      BY <1>1, <1>2, <2>2, <3>1
  <2>5. QED
    BY <1>1, <1>4, <2>3, <2>4
<1>5. QED
  BY <1>3, <1>4

(* The first part implies ConsoleInv,                                      *)
LEMMA FramesInvIsEnough == FramesInv => ConsoleInv
<1> SUFFICES ASSUME FramesInv PROVE ConsoleInv
  OBVIOUS
<1>1. TypeOK
  <2>1. XPosition \in Nat /\ YPosition \in Nat
    BY DEF FramesInv
  <2>2. ASSUME NEW c \in CPUs, NEW k \in DOMAIN frames[c]
        PROVE  LET f == frames[c][k] IN
               /\ f.kind = (IF k = 1 THEN "task" ELSE f.kind)
               /\ f.at \in {"code", "lock", "format", "put", "wrap", "end"}
               /\ f.i \in 0 .. BufLen /\ f.count \in 0 .. f.i /\ f.tabSpace \in 0 .. TAB - 1
    <3>1. PICK f : f = frames[c][k]
      OBVIOUS
    <3>2. f \in FrameSet /\ Placed(f) /\ (k = 1 => f.kind = "task")
      BY <3>1, FramesAre
    <3>3. /\ f.at \in {"code", "lock", "format", "put", "wrap", "end"}
          /\ f.i \in 0 .. BufLen /\ f.count \in 0 .. f.i /\ f.tabSpace \in 0 .. TAB - 1
      BY <3>2, PlacedTypes
    <3>4. QED
      BY <3>1, <3>2, <3>3
  <2>3. QED
    BY <2>1, <2>2 DEF TypeOK
<1>2. LockMatches
  BY FramesAre DEF FramesInv, Locked, LockMatches
<1>3. QED
  BY <1>1, <1>2 DEF ConsoleInv

(* and FaultNamed.                                                         *)
LEMMA FramesInvNames == FramesInv => FaultNamed
<1> SUFFICES ASSUME FramesInv, NEW c \in CPUs, NEW k \in DOMAIN frames[c],
                    NEW f, f = frames[c][k], NEW code,
                    code = (IF f.fault.vector \in WithErrorCode THEN f.fault.code ELSE 0),
                    f.kind = "trap", f.at = "end", Len(f.msg) = 4
             PROVE  f.msg = <<Plain(Handler[f.fault.vector]), Hex(ReportWidth, code),
                              Hex(ReportWidth, Rip), Plain("\n")>>
  BY DEF FaultNamed
<1>1. f \in FrameSet /\ Placed(f)
  BY FramesAre
<1>2. PICK e : e = f.fault /\ e \in Faults \cup BootFaults
  BY <1>1 DEF Placed
<1>3. e \in Exceptions
  BY <1>2, ReportIsSeq
<1>4. f.msg \in Range(ReportOf(e))
  BY <1>1, <1>2 DEF Placed, Allowed
<1>5. f.msg = FirstOf(e)
  BY <1>2, <1>3, <1>4, ReportSaysFirst
<1>6. QED
  BY <1>2, <1>5 DEF FirstOf, CodeOf

(* Theorem: the lock is always held by exactly the frame that prints with  *)
(* interrupts on: the two tests of IF in color_printk agree, whatever      *)
(* interrupts and exceptions come between them (printk.c:424, :493).       *)
THEOREM ConsoleInvariant == Spec => []ConsoleInv
  BY AlwaysFrames, FramesInvIsEnough, PTL

(* Theorem: the first message of every exception's report names the        *)
(* handler of its vector, the error code the processor gave, or zero, and  *)
(* where it happened: the frame the entries leave fits what error_code and *)
(* the handlers read of it (entry.S:163-361).                              *)
THEOREM FaultsAreNamed == Spec => []FaultNamed
  BY AlwaysFrames, FramesInvNames, PTL

-----------------------------------------------------------------------------
(* The cursor: cell numbers, and columns and rows.                         *)
LEMMA Split ==
  ASSUME NEW C \in Nat \ {0}, NEW p \in Nat
  PROVE  \E x \in 0 .. C - 1, y \in Nat : x = p % C /\ y = p \div C /\ p = x + C * y
<1>1. PICK x, y : x = p % C /\ y = p \div C
  OBVIOUS
<1>2. x \in 0 .. C - 1
  BY <1>1
<1>3. y \in Nat
  BY <1>1
<1>4. p = x + C * y
  BY <1>1
<1>5. QED
  BY <1>1, <1>2, <1>3, <1>4

(* A row ends before the next one begins.                                  *)
LEMMA Rows ==
  ASSUME NEW C \in Nat \ {0}, NEW a \in Nat, NEW b \in Nat, a < b
  PROVE  C * a + C <= C * b /\ C * a \in Nat /\ C * b \in Nat
<1>1. C * b = C * (a + 1) + C * (b - (a + 1))
  OBVIOUS
<1>2. C * (b - (a + 1)) >= 0
  OBVIOUS
<1>3. C * (a + 1) = C * a + C
  OBVIOUS
<1>4. C * a \in Nat /\ C * b \in Nat
  OBVIOUS
<1>5. C * (b - (a + 1)) \in Int
  OBVIOUS
<1>6. QED
  BY <1>1, <1>2, <1>3, <1>4, <1>5

(* A cell has one column and one row,                                      *)
LEMMA Unique ==
  ASSUME NEW C \in Nat \ {0}, NEW x \in 0 .. C - 1, NEW y \in Nat,
         NEW u \in 0 .. C - 1, NEW v \in Nat, x + C * y = u + C * v
  PROVE  x = u /\ y = v
<1>1. C * y \in Int /\ C * v \in Int
  OBVIOUS
<1>2. PICK a, b : a = C * y /\ b = C * v
  OBVIOUS
<1>3. a \in Int /\ b \in Int /\ x + a = u + b /\ (y < v => a + C <= b) /\ (v < y => b + C <= a)
  BY <1>1, <1>2, Rows
<1>4. ~(y < v) /\ ~(v < y)
  BY <1>3
<1>5. QED
  BY <1>2, <1>3, <1>4

(* which are what division gives.                                          *)
LEMMA DivModOf ==
  ASSUME NEW C \in Nat \ {0}, NEW x \in 0 .. C - 1, NEW y \in Nat, NEW p, p = x + C * y
  PROVE  p \in Nat /\ p % C = x /\ p \div C = y
<1>1. p \in Nat
  OBVIOUS
<1>2. PICK u \in 0 .. C - 1, v \in Nat : u = p % C /\ v = p \div C /\ p = u + C * v
  BY <1>1, Split
<1>3. x = u /\ y = v
  BY <1>2, Unique
<1>4. QED
  BY <1>1, <1>2, <1>3

(* One more, round a circle of M cells.                                    *)
LEMMA RoundStep ==
  ASSUME NEW M \in Nat \ {0}, NEW a \in Nat
  PROVE  a % M \in 0 .. M - 1 /\ ((a % M) + 1) % M = (a + 1) % M
<1>1. PICK x \in 0 .. M - 1, y \in Nat : x = a % M /\ y = a \div M /\ a = x + M * y
  BY Split
<1>2. CASE x + 1 < M
  <2>1. x + 1 \in 0 .. M - 1 /\ 0 \in Nat /\ a + 1 = (x + 1) + M * y /\ x + 1 = (x + 1) + M * 0
    <3>1. M * y \in Nat /\ M * 0 = 0
      OBVIOUS
    <3>2. QED
      BY <1>1, <1>2, <3>1
  <2>0. PICK u, r : u = x + 1 /\ r = a + 1
    OBVIOUS
  <2>2. r % M = u
    <3>1. u \in 0 .. M - 1 /\ r = u + M * y
      BY <2>0, <2>1
    <3>2. QED
      BY <3>1, DivModOf
  <2>3. u % M = u
    <3>1. u \in 0 .. M - 1 /\ 0 \in Nat /\ u = u + M * 0
      BY <2>0, <2>1
    <3>2. QED
      BY <3>1, DivModOf
  <2>4. QED
    BY <1>1, <2>0, <2>2, <2>3
<1>3. CASE x + 1 = M
  <2>1. a + 1 = 0 + M * (y + 1) /\ x + 1 = 0 + M * 1 /\ 0 \in 0 .. M - 1 /\ y + 1 \in Nat
    <3>1. M * (y + 1) = M * y + M /\ M * 1 = M /\ M * y \in Nat
      OBVIOUS
    <3>2. QED
      BY <1>1, <1>3, <3>1
  <2>2. (a + 1) % M = 0
    BY <2>1, DivModOf
  <2>3. (x + 1) % M = 0
    BY <2>1, DivModOf
  <2>4. QED
    BY <1>1, <2>2, <2>3
<1>4. QED
  BY <1>1, <1>2, <1>3

\* Cell number p of the page is the one at x, y.
At(p, x, y) == p \in 0 .. Page - 1 /\ x = p % Columns /\ y = p \div Columns
WX(x) == IF x >= Columns THEN 0 ELSE x
WY(x, y) == LET z == IF x >= Columns THEN y + 1 ELSE y IN IF z >= PageRows THEN 0 ELSE z

(* The page has cells.                                                     *)
LEMMA PageIs == /\ Columns \in Nat \ {0} /\ PageRows \in Nat \ {0} /\ TAB \in Nat \ {0}
                /\ Page \in Nat \ {0} /\ Page = Columns * PageRows
<1>1. Columns \in Nat \ {0} /\ PageRows \in Nat \ {0} /\ TAB \in Nat \ {0}
  BY ConsoleAssumption DEF ConsoleAssumption
<1>2. PICK C, R : C = Columns /\ R = PageRows
  OBVIOUS
<1>3. C * R \in Nat \ {0}
  <2>1. C * 0 + C <= C * R /\ C * R \in Nat /\ C * 0 = 0
    BY <1>1, <1>2, Rows
  <2>2. C >= 1
    BY <1>1, <1>2
  <2>3. PICK m : m = C * R
    OBVIOUS
  <2>4. m # 0
    BY <1>1, <1>2, <2>1, <2>2, <2>3
  <2>5. QED
    BY <2>1, <2>3, <2>4
<1>4. QED
  BY <1>1, <1>2, <1>3 DEF Page

(* A place on the page is its number,                                      *)
LEMMA AtIs ==
  ASSUME NEW p, NEW x, NEW y, At(p, x, y)
  PROVE  /\ p \in 0 .. Page - 1 /\ x \in 0 .. Columns - 1 /\ y \in 0 .. PageRows - 1
         /\ p = x + Columns * y /\ p % Columns = x /\ p \div Columns = y
<1>1. PICK C, R, M : C = Columns /\ R = PageRows /\ M = Page
  OBVIOUS
<1>2. C \in Nat \ {0} /\ R \in Nat \ {0} /\ M \in Nat \ {0} /\ M = C * R
  BY <1>1, PageIs
<1>3. p \in 0 .. M - 1 /\ x = p % C /\ y = p \div C
  BY <1>1 DEF At
<1>4. p \in Nat
  BY <1>2, <1>3
<1>5. PICK u \in 0 .. C - 1, v \in Nat : u = p % C /\ v = p \div C /\ p = u + C * v
  BY <1>2, <1>4, Split
<1>6. x \in 0 .. C - 1 /\ y \in Nat /\ p = x + C * y
  BY <1>3, <1>5
<1>7. y < R
  <2>1. ASSUME y >= R PROVE FALSE
    <3>1. C * R <= C * y
      <4>1. CASE y = R
        BY <1>2, <4>1
      <4>2. CASE R < y
        <5>1. C * R + C <= C * y /\ C * R \in Nat /\ C * y \in Nat
          BY <1>2, <1>6, <4>2, Rows
        <5>2. QED
          BY <1>2, <5>1
      <4>3. QED
        BY <1>2, <1>6, <2>1, <4>1, <4>2
    <3>2. PICK a : a = C * y /\ a \in Nat
      BY <1>2, <1>6
    <3>3. M <= a /\ p = x + a
      BY <1>2, <1>6, <3>1, <3>2
    <3>4. QED
      BY <1>2, <1>3, <1>6, <3>2, <3>3
  <2>2. QED
    BY <1>2, <1>6, <2>1
<1>8. QED
  BY <1>1, <1>2, <1>3, <1>6, <1>7

(* and the other way round.                                                *)
LEMMA AtOf ==
  ASSUME NEW x \in 0 .. Columns - 1, NEW y \in 0 .. PageRows - 1
  PROVE  At(x + Columns * y, x, y)
<1>1. PICK C, R, M, p : C = Columns /\ R = PageRows /\ M = Page /\ p = x + Columns * y
  OBVIOUS
<1>2. C \in Nat \ {0} /\ R \in Nat \ {0} /\ M \in Nat \ {0} /\ M = C * R
  BY <1>1, PageIs
<1>3. x \in 0 .. C - 1 /\ y \in Nat /\ y < R /\ p = x + C * y
  BY <1>1, <1>2
<1>4. p \in Nat /\ p % C = x /\ p \div C = y
  BY <1>2, <1>3, DivModOf
<1>5. PICK a : a = C * y
  OBVIOUS
<1>6. a + C <= M /\ a \in Nat
  BY <1>2, <1>3, <1>5, Rows
<1>7. p \in 0 .. M - 1
  BY <1>2, <1>3, <1>4, <1>5, <1>6
<1>8. QED
  BY <1>1, <1>4, <1>7 DEF At

(* The cursor after a glyph,                                               *)
LEMMA AtNext ==
  ASSUME NEW p, NEW x, NEW y, At(p, x, y)
  PROVE  At((p + 1) % Page, WX(x + 1), WY(x + 1, y))
<1>1. PICK C, R, M : C = Columns /\ R = PageRows /\ M = Page
  OBVIOUS
<1>2. C \in Nat \ {0} /\ R \in Nat \ {0} /\ M \in Nat \ {0} /\ M = C * R
  BY <1>1, PageIs
<1>3. p \in 0 .. M - 1 /\ x \in 0 .. C - 1 /\ y \in 0 .. R - 1 /\ p = x + C * y
  BY <1>1, AtIs
<1>4. PICK q : q = (p + 1) % M
  OBVIOUS
<1>5. CASE p + 1 < M
  <2>1. q = p + 1
    <3>1. p + 1 \in 0 .. M - 1 /\ p + 1 = (p + 1) + M * 0 /\ 0 \in Nat
      BY <1>2, <1>3, <1>5
    <3>2. QED
      BY <1>2, <1>4, <3>1, DivModOf
  <2>2. CASE x + 1 < C
    <3>1. WX(x + 1) = x + 1 /\ WY(x + 1, y) = y
      BY <1>1, <1>2, <1>3, <2>2 DEF WX, WY
    <3>2. q = (x + 1) + C * y /\ x + 1 \in 0 .. C - 1
      <4>1. C * y \in Nat
        BY <1>2, <1>3
      <4>2. QED
        BY <1>2, <1>3, <2>1, <2>2, <4>1
    <3>3. At(q, x + 1, y)
      BY <1>1, <1>3, <3>2, AtOf
    <3>4. QED
      BY <1>1, <1>4, <3>1, <3>3
  <2>3. CASE x + 1 = C
    <3>1. p + 1 = 0 + C * (y + 1)
      <4>1. C * (y + 1) = C * y + C /\ C * y \in Nat
        BY <1>2, <1>3
      <4>2. QED
        BY <1>2, <1>3, <2>3, <4>1
    <3>2. y + 1 < R
      <4>1. CASE y + 1 = R
        BY <1>2, <1>5, <3>1, <4>1
      <4>2. QED
        BY <1>2, <1>3, <4>1
    <3>3. WX(x + 1) = 0 /\ WY(x + 1, y) = y + 1
      BY <1>1, <1>2, <1>3, <2>3, <3>2 DEF WX, WY
    <3>4. At(q, 0, y + 1)
      <4>1. 0 \in 0 .. C - 1 /\ y + 1 \in 0 .. R - 1 /\ q = 0 + C * (y + 1)
        BY <1>2, <1>3, <2>1, <3>1, <3>2
      <4>2. QED
        BY <1>1, <4>1, AtOf
    <3>5. QED
      BY <1>1, <1>4, <3>3, <3>4
  <2>4. QED
    BY <1>2, <1>3, <2>2, <2>3
<1>6. CASE p + 1 = M
  <2>1. q = 0
    <3>1. p + 1 = 0 + M * 1 /\ 0 \in 0 .. M - 1 /\ 1 \in Nat
      BY <1>2, <1>6
    <3>2. QED
      BY <1>2, <1>4, <3>1, DivModOf
  <2>2. x = C - 1 /\ y = R - 1
    <3>1. C * R = C * (R - 1) + C /\ C * (R - 1) \in Nat
      BY <1>2
    <3>2. p = (C - 1) + C * (R - 1)
      BY <1>2, <1>3, <1>6, <3>1
    <3>3. C - 1 \in 0 .. C - 1 /\ R - 1 \in Nat /\ y \in Nat
      BY <1>2, <1>3
    <3>4. PICK u, v : u = C - 1 /\ v = R - 1
      OBVIOUS
    <3>5. u \in 0 .. C - 1 /\ v \in Nat /\ p = u + C * v
      BY <3>2, <3>3, <3>4
    <3>6. x = u /\ y = v
      BY <1>2, <1>3, <3>3, <3>5, Unique
    <3>7. QED
      BY <3>4, <3>6
  <2>3. WX(x + 1) = 0 /\ WY(x + 1, y) = 0
    BY <1>1, <1>2, <2>2 DEF WX, WY
  <2>4. At(0, 0, 0)
    <3>1. 0 \in 0 .. C - 1 /\ 0 \in 0 .. R - 1 /\ 0 + C * 0 = 0
      BY <1>2
    <3>2. QED
      BY <1>1, <3>1, AtOf
  <2>5. QED
    BY <1>1, <1>4, <2>1, <2>3, <2>4
<1>7. QED
  BY <1>2, <1>3, <1>5, <1>6

(* and after a new line.                                                   *)
LEMMA AtLine ==
  ASSUME NEW p, NEW x, NEW y, At(p, x, y)
  PROVE  At(((p \div Columns + 1) * Columns) % Page, WX(0), WY(0, y + 1))
<1>1. PICK C, R, M : C = Columns /\ R = PageRows /\ M = Page
  OBVIOUS
<1>2. C \in Nat \ {0} /\ R \in Nat \ {0} /\ M \in Nat \ {0} /\ M = C * R
  BY <1>1, PageIs
<1>3. y \in 0 .. R - 1 /\ y = p \div C
  BY <1>1, AtIs
<1>4. PICK a, q : a = (p \div C + 1) * C /\ q = a % M
  OBVIOUS
<1>5. a = 0 + C * (y + 1) /\ a \in Nat
  BY <1>2, <1>3, <1>4
<1>6. WX(0) = 0
  BY <1>1, <1>2 DEF WX
<1>7. CASE y + 1 < R
  <2>1. WY(0, y + 1) = y + 1
    BY <1>1, <1>2, <1>3, <1>7 DEF WY
  <2>2. 0 \in 0 .. C - 1 /\ y + 1 \in 0 .. R - 1
    BY <1>2, <1>3, <1>7
  <2>3. At(a, 0, y + 1)
    BY <1>1, <1>5, <2>2, AtOf
  <2>4. q = a
    <3>1. a \in 0 .. M - 1
      BY <1>1, <2>3, AtIs
    <3>2. a = a + M * 0 /\ 0 \in Nat
      BY <1>2, <1>5
    <3>3. QED
      BY <1>2, <1>4, <3>1, <3>2, DivModOf
  <2>5. QED
    BY <1>1, <1>4, <1>6, <2>1, <2>3, <2>4
<1>8. CASE y + 1 = R
  <2>1. WY(0, y + 1) = 0
    BY <1>1, <1>2, <1>3, <1>8 DEF WY
  <2>2. q = 0
    <3>1. a = 0 + M * 1 /\ 0 \in 0 .. M - 1 /\ 1 \in Nat
      BY <1>2, <1>5, <1>8
    <3>2. QED
      BY <1>2, <1>4, <3>1, DivModOf
  <2>3. At(0, 0, 0)
    <3>1. 0 \in 0 .. C - 1 /\ 0 \in 0 .. R - 1 /\ 0 + C * 0 = 0
      BY <1>2
    <3>2. QED
      BY <1>1, <3>1, AtOf
  <2>4. QED
    BY <1>1, <1>4, <1>6, <2>1, <2>2, <2>3
<1>9. QED
  BY <1>2, <1>3, <1>7, <1>8

-----------------------------------------------------------------------------
(* A text laid out on the page.                                            *)
Pages == [p : 0 .. Page - 1, cells : Seq(Cells)]
Empty(from) == [p |-> from, cells |-> <<>>]
Layouts(a, T, from, n) ==
  a = [k \in 0 .. n |-> IF k = 0 THEN Empty(from) ELSE Lay(a[k - 1], T[k])]

\* The blanks of a tab drawn so far, m of them.
BlankRun(p, m) == [k \in 1 .. m |-> CellOf((p + k - 1) % Page, " ")]

(* Layout is recursive: the layouts of the beginnings of a text exist,     *)
LEMMA LayoutsExist ==
  ASSUME NEW n \in Nat, NEW T, NEW from
  PROVE  \E a : Layouts(a, T, from, n)
<1> DEFINE S == {m \in Nat : \E a : Layouts(a, T, from, m)}
<1>1. ASSUME NEW m \in Nat, \A k \in Nat : k < m => k \in S
      PROVE  m \in S
  <2>1. CASE m = 0
    <3>1. PICK a : a = [k \in 0 .. 0 |-> Empty(from)]
      OBVIOUS
    <3>2. Layouts(a, T, from, 0)
      <4>1. \A k \in 0 .. 0 : k = 0
        OBVIOUS
      <4>2. QED
        BY <3>1, <4>1 DEF Layouts
    <3>3. QED
      BY <2>1, <3>2
  <2>2. CASE m # 0
    <3>1. m - 1 \in S /\ m - 1 \in Nat
      BY <1>1, <2>2
    <3>2. PICK a : Layouts(a, T, from, m - 1)
      BY <3>1
    <3>3. \A k \in 0 .. m - 1 : a[k] = IF k = 0 THEN Empty(from) ELSE Lay(a[k - 1], T[k])
      BY <3>2 DEF Layouts
    <3> DEFINE h == [k \in 0 .. m |-> IF k <= m - 1 THEN a[k] ELSE Lay(a[k - 1], T[k])]
    <3>4. \A k \in 0 .. m : h[k] = IF k = 0 THEN Empty(from) ELSE Lay(h[k - 1], T[k])
      <4> SUFFICES ASSUME NEW k \in 0 .. m
                   PROVE  h[k] = IF k = 0 THEN Empty(from) ELSE Lay(h[k - 1], T[k])
        OBVIOUS
      <4>1. k # 0 => k - 1 \in 0 .. m /\ k - 1 <= m - 1
        BY <2>2
      <4>2. k # 0 => h[k - 1] = a[k - 1]
        BY <4>1
      <4>3. CASE k <= m - 1
        <5>1. k \in 0 .. m - 1
          BY <4>3
        <5>2. h[k] = a[k]
          BY <4>3
        <5>3. a[k] = IF k = 0 THEN Empty(from) ELSE Lay(a[k - 1], T[k])
          BY <3>3, <5>1, Zenon
        <5> HIDE DEF h
        <5>4. QED
          BY <4>2, <5>2, <5>3, Zenon
      <4>4. CASE ~(k <= m - 1)
        <5>1. k # 0
          BY <2>2, <4>4
        <5>2. h[k] = Lay(a[k - 1], T[k])
          BY <4>4
        <5> HIDE DEF h
        <5>3. QED
          BY <4>2, <5>1, <5>2, Zenon
      <4>5. QED
        BY <4>3, <4>4
    <3>5. h = [k \in 0 .. m |-> h[k]]
      OBVIOUS
    <3> HIDE DEF h
    <3>6. Layouts(h, T, from, m)
      BY <3>4, <3>5, Zenon DEF Layouts
    <3>7. QED
      BY <3>6
  <2>3. QED
    BY <2>1, <2>2
<1>2. Nat \subseteq S
  <2> HIDE DEF S
  <2>1. QED
    BY <1>1, Induction
<1>3. QED
  BY <1>2

(* and Layout is the one there is.                                         *)
LEMMA LayoutUnfolds ==
  ASSUME NEW T, Len(T) \in Nat, NEW from
  PROVE  Layouts(Layout(T, from), T, from, Len(T))
<1>1. PICK n \in Nat : n = Len(T)
  OBVIOUS
<1>2. \E a : Layouts(a, T, from, n)
  BY LayoutsExist
<1>3. Layout(T, from) = CHOOSE a : Layouts(a, T, from, n)
  BY <1>1, Zenon DEF Layout, Layouts, Empty
<1>4. Layouts(Layout(T, from), T, from, n)
  BY <1>2, <1>3, Zenon
<1>5. QED
  BY <1>1, <1>4, Zenon

(* A cell that is drawn.                                                   *)
LEMMA CellsOf ==
  ASSUME NEW p \in Nat, NEW g \in Glyphs
  PROVE  CellOf(p, g) \in Cells
<1>1. p % Columns \in Nat /\ p \div Columns \in Nat
  BY PageIs, Split
<1>2. QED
  BY <1>1 DEF CellOf, Cell, Cells

(* A tab has one blank or more.                                            *)
LEMMA BlanksAre ==
  ASSUME NEW p \in Nat
  PROVE  Blanks(p) \in 1 .. TAB
<1>1. PICK x \in Nat : x = p % Columns
  BY PageIs, Split
<1>2. PICK r, t : r = x % TAB /\ t = TAB /\ t \in Nat \ {0}
  BY PageIs
<1>3. r \in 0 .. t - 1
  BY <1>2
<1>4. Blanks(p) = t - r
  BY <1>1, <1>2 DEF Blanks
<1>5. QED
  BY <1>2, <1>3, <1>4

(* A run of blanks.                                                        *)
LEMMA RunIs ==
  ASSUME NEW p \in 0 .. Page - 1, NEW m \in Nat
  PROVE  BlankRun(p, m) \in Seq(Cells) /\ Len(BlankRun(p, m)) = m
<1>1. \A k \in 1 .. m : CellOf((p + k - 1) % Page, " ") \in Cells
  <2> SUFFICES ASSUME NEW k \in 1 .. m PROVE CellOf((p + k - 1) % Page, " ") \in Cells
    OBVIOUS
  <2>1. PICK q : q = (p + k - 1) % Page
    OBVIOUS
  <2>2. p + k - 1 \in Nat
    BY PageIs
  <2>3. q \in Nat
    BY <2>1, <2>2, PageIs
  <2>4. CellOf(q, " ") \in Cells
    BY <2>3, GlyphSets, CellsOf
  <2>5. QED
    BY <2>1, <2>4
<1>2. PICK s : s = [k \in 1 .. m |-> CellOf((p + k - 1) % Page, " ")]
  OBVIOUS
<1>3. s = [k \in 1 .. m |-> s[k]] /\ \A k \in 1 .. m : s[k] \in Cells
  BY <1>1, <1>2
<1>4. s \in Seq(Cells) /\ Len(s) = m
  BY <1>3
<1>5. QED
  BY <1>2, <1>4 DEF BlankRun

(* What each kind of glyph does to the layout.                             *)
LEMMA LayIs ==
  ASSUME NEW a \in Pages, NEW g \in Glyphs
  PROVE  /\ Lay(a, g) \in Pages
         /\ g = "\n" => Lay(a, g).p = ((a.p \div Columns + 1) * Columns) % Page
                        /\ Lay(a, g).cells = a.cells
         /\ g = "\t" => Lay(a, g).p = (a.p + Blanks(a.p)) % Page
                        /\ Lay(a, g).cells = a.cells \o BlankRun(a.p, Blanks(a.p))
         /\ g \notin {"\n", "\t", "BS"} =>
              Lay(a, g).p = (a.p + 1) % Page /\ Lay(a, g).cells = Append(a.cells, CellOf(a.p, g))
<1>1. PICK p, c : p = a.p /\ c = a.cells /\ a = [p |-> p, cells |-> c]
  BY DEF Pages
<1>2. PICK M : M = Page /\ M \in Nat \ {0}
  BY PageIs
<1>3. p \in 0 .. M - 1 /\ p \in Nat /\ c \in Seq(Cells)
  BY <1>1, <1>2 DEF Pages
<1>4. \A n \in Nat : n % M \in 0 .. M - 1
  BY <1>2
<1>5. PICK b, run : b = Blanks(p) /\ run = BlankRun(p, b)
  OBVIOUS
<1>6. b \in Nat /\ run \in Seq(Cells)
  <2>1. b \in 1 .. TAB /\ TAB \in Nat
    BY <1>3, <1>5, BlanksAre, PageIs
  <2>2. b \in Nat
    BY <2>1
  <2>3. QED
    BY <1>2, <1>3, <1>5, <2>2, RunIs
<1>7. run = [k \in 1 .. b |-> CellOf((p + k - 1) % Page, " ")]
  BY <1>5 DEF BlankRun
<1>8. PICK d, l, q : d = (p \div Columns + 1) * Columns /\ l = p + b /\ q = p + M - 1
  OBVIOUS
<1>9. d \in Nat /\ l \in Nat /\ q \in Nat /\ p + 1 \in Nat
  <2>1. p \div Columns \in Nat /\ Columns \in Nat
    BY <1>3, PageIs, Split
  <2>2. QED
    BY <1>2, <1>3, <1>6, <1>8, <2>1
<1>10. CASE g = "\n"
  <2>1. Lay(a, g) = [p |-> d % M, cells |-> c]
    BY <1>1, <1>2, <1>8, <1>10 DEF Lay
  <2>2. d % M \in 0 .. M - 1
    BY <1>4, <1>9
  <2>3. QED
    BY <1>1, <1>2, <1>3, <1>8, <1>10, <2>1, <2>2 DEF Pages
<1>11. CASE g = "\t"
  <2>1. Lay(a, g) = [p |-> l % M, cells |-> c \o run]
    BY <1>1, <1>2, <1>5, <1>7, <1>8, <1>11, Zenon DEF Lay
  <2>2. l % M \in 0 .. M - 1
    BY <1>4, <1>9
  <2>3. c \o run \in Seq(Cells)
    BY <1>3, <1>6, ConcatProperties
  <2>4. Lay(a, g) \in Pages /\ Lay(a, g).p = l % M /\ Lay(a, g).cells = c \o run
    BY <1>2, <2>1, <2>2, <2>3 DEF Pages
  <2>5. QED
    BY <1>1, <1>2, <1>5, <1>8, <1>11, <2>4
<1>12. CASE g = "BS"
  <2>1. PICK r : r = q % M
    OBVIOUS
  <2>2. r \in 0 .. M - 1 /\ r \in Nat
    BY <1>4, <1>9, <2>1
  <2>3. Lay(a, g) = [p |-> r, cells |-> Append(c, CellOf(r, " "))]
    BY <1>1, <1>2, <1>8, <1>12, <2>1 DEF Lay
  <2>4. Append(c, CellOf(r, " ")) \in Seq(Cells)
    BY <1>3, <2>2, GlyphSets, CellsOf, AppendProperties
  <2>5. Lay(a, g) \in Pages
    <3>1. PICK e : e = Append(c, CellOf(r, " ")) /\ e \in Seq(Cells)
      BY <2>4
    <3>2. Lay(a, g) = [p |-> r, cells |-> e]
      BY <2>3, <3>1
    <3>3. QED
      <4>1. r \in 0 .. Page - 1
        BY <1>2, <2>2
      <4>2. [p |-> r, cells |-> e] \in Pages
        BY <3>1, <4>1 DEF Pages
      <4>3. QED
        BY <3>2, <4>2
  <2>6. "BS" # "\n" /\ "BS" # "\t"
    OBVIOUS
  <2>7. QED
    BY <1>12, <2>5, <2>6, Zenon
<1>13. CASE g \notin {"\n", "\t", "BS"}
  <2>1. Lay(a, g) = [p |-> (p + 1) % M, cells |-> Append(c, CellOf(p, g))]
    BY <1>1, <1>2, <1>13 DEF Lay
  <2>2. (p + 1) % M \in 0 .. M - 1
    BY <1>4, <1>9
  <2>3. Append(c, CellOf(p, g)) \in Seq(Cells)
    BY <1>3, CellsOf, AppendProperties
  <2>4. Lay(a, g) \in Pages
    BY <1>2, <2>1, <2>2, <2>3 DEF Pages
  <2>5. Lay(a, g).p = (p + 1) % M /\ Lay(a, g).cells = Append(c, CellOf(p, g))
    BY <2>1
  <2>6. QED
    BY <1>1, <1>2, <1>13, <2>4, <2>5, Zenon
<1>14. QED
  BY <1>10, <1>11, <1>12, <1>13

(* The layouts of the beginnings of a text.                                *)
LEMMA LayoutIs ==
  ASSUME NEW T \in Seq(Glyphs), NEW from \in 0 .. Page - 1
  PROVE  /\ Layout(T, from)[0] = Empty(from)
         /\ \A k \in 0 .. Len(T) : Layout(T, from)[k] \in Pages
         /\ \A k \in 1 .. Len(T) : Layout(T, from)[k] = Lay(Layout(T, from)[k - 1], T[k])
<1>1. PICK a, n : a = Layout(T, from) /\ n = Len(T) /\ n \in Nat
  OBVIOUS
<1>2. Layouts(a, T, from, n)
  BY <1>1, LayoutUnfolds
<1>3. \A k \in 0 .. n : a[k] = IF k = 0 THEN Empty(from) ELSE Lay(a[k - 1], T[k])
  BY <1>2 DEF Layouts
<1>4. a[0] = Empty(from)
  BY <1>1, <1>3
<1>5. \A k \in 1 .. n : a[k] = Lay(a[k - 1], T[k])
  BY <1>3
<1> DEFINE S == {k \in Nat : k <= n => a[k] \in Pages}
<1>6. ASSUME NEW k \in Nat, \A m \in Nat : m < k => m \in S
      PROVE  k \in S
  <2>1. CASE k = 0
    <3>1. Empty(from) \in Pages
      <4>1. <<>> \in Seq(Cells)
        OBVIOUS
      <4>2. PICK e : e = <<>> /\ e \in Seq(Cells)
        BY <4>1
      <4>3. [p |-> from, cells |-> e] \in Pages
        BY <4>2 DEF Pages
      <4>4. QED
        BY <4>2, <4>3 DEF Empty
    <3>2. QED
      BY <1>4, <2>1, <3>1
  <2>2. CASE k # 0 /\ k <= n
    <3>1. k - 1 \in S /\ k - 1 <= n
      BY <1>1, <1>6, <2>2
    <3>2. a[k - 1] \in Pages /\ k \in 1 .. n
      BY <1>1, <2>2, <3>1
    <3>3. T[k] \in Glyphs
      BY <1>1, <3>2
    <3>4. a[k] \in Pages
      BY <1>5, <3>2, <3>3, LayIs
    <3>5. QED
      BY <3>4
  <2>3. QED
    BY <2>1, <2>2
<1>7. Nat \subseteq S
  <2> HIDE DEF S
  <2>1. QED
    BY <1>6, Induction
<1>8. \A k \in 0 .. n : a[k] \in Pages
  BY <1>1, <1>7
<1>9. QED
  BY <1>1, <1>4, <1>5, <1>8

\* Where a printer is: n glyphs have been drawn and s blanks are owed of
\* the tab that follows, the cursor is at x, y, and d is what has been drawn.
Tabbing(T, from, n, s, x, y, d) ==
  LET a == Layout(T, from)[n]
  IN  /\ T[n + 1] = "\t" /\ s \in 1 .. Blanks(a.p)
      /\ d = a.cells \o BlankRun(a.p, Blanks(a.p) - s)
      /\ At((a.p + (Blanks(a.p) - s)) % Page, x, y)
Reach(T, from, n, s, x, y, d) ==
  IF s = 0
  THEN d = Layout(T, from)[n].cells /\ At(Layout(T, from)[n].p, x, y)
  ELSE n < Len(T) /\ Tabbing(T, from, n, s, x, y, d) /\ s < Blanks(Layout(T, from)[n].p)

(* One round reaches one glyph further: for a glyph,                       *)
LEMMA RoundGlyph ==
  ASSUME NEW T \in Seq(Glyphs), NEW from \in 0 .. Page - 1, NEW n \in Nat, n < Len(T),
         NEW x, NEW y, NEW d, Reach(T, from, n, 0, x, y, d), T[n + 1] \notin {"\n", "\t", "BS"}
  PROVE  Reach(T, from, n + 1, 0, WX(x + 1), WY(x + 1, y), Append(d, Cell(x, y, T[n + 1])))
<1>1. PICK a, b, g : a = Layout(T, from)[n] /\ b = Layout(T, from)[n + 1] /\ g = T[n + 1]
  OBVIOUS
<1>2. n \in 0 .. Len(T) /\ n + 1 \in 1 .. Len(T) /\ (n + 1) - 1 = n
  OBVIOUS
<1>3. a \in Pages /\ b = Lay(a, g) /\ g \in Glyphs
  BY <1>1, <1>2, LayoutIs
<1>4. PICK p : p = a.p
  OBVIOUS
<1>5. b.p = (p + 1) % Page /\ b.cells = Append(a.cells, CellOf(p, g))
  <2>1. g \notin {"\n", "\t", "BS"}
    BY <1>1
  <2>2. Lay(a, g).p = (a.p + 1) % Page /\ Lay(a, g).cells = Append(a.cells, CellOf(a.p, g))
    BY <1>3, <2>1, LayIs, Zenon
  <2>3. QED
    BY <1>3, <1>4, <2>2, Zenon
<1>6. At(p, x, y) /\ d = a.cells
  BY <1>1, <1>4 DEF Reach
<1>7. At((p + 1) % Page, WX(x + 1), WY(x + 1, y))
  BY <1>6, AtNext
<1>8. CellOf(p, g) = Cell(x, y, g)
  BY <1>6 DEF CellOf, At
<1>9. QED
  BY <1>1, <1>5, <1>6, <1>7, <1>8, Zenon DEF Reach

(* and for a line end.                                                     *)
LEMMA RoundLine ==
  ASSUME NEW T \in Seq(Glyphs), NEW from \in 0 .. Page - 1, NEW n \in Nat, n < Len(T),
         NEW x, NEW y, NEW d, Reach(T, from, n, 0, x, y, d), T[n + 1] = "\n"
  PROVE  Reach(T, from, n + 1, 0, WX(0), WY(0, y + 1), d)
<1>1. PICK a, b, g : a = Layout(T, from)[n] /\ b = Layout(T, from)[n + 1] /\ g = T[n + 1]
  OBVIOUS
<1>2. n \in 0 .. Len(T) /\ n + 1 \in 1 .. Len(T) /\ (n + 1) - 1 = n
  OBVIOUS
<1>3. a \in Pages /\ b = Lay(a, g) /\ g \in Glyphs
  BY <1>1, <1>2, LayoutIs
<1>4. PICK p : p = a.p
  OBVIOUS
<1>5. b.p = ((p \div Columns + 1) * Columns) % Page /\ b.cells = a.cells
  <2>1. g = "\n"
    BY <1>1
  <2>2. Lay(a, g).p = ((a.p \div Columns + 1) * Columns) % Page /\ Lay(a, g).cells = a.cells
    BY <1>3, <2>1, LayIs, Zenon
  <2>3. QED
    BY <1>3, <1>4, <2>2, Zenon
<1>6. At(p, x, y) /\ d = a.cells
  BY <1>1, <1>4 DEF Reach
<1>7. At(((p \div Columns + 1) * Columns) % Page, WX(0), WY(0, y + 1))
  BY <1>6, AtLine
<1>8. QED
  BY <1>1, <1>5, <1>6, <1>7, Zenon DEF Reach

(* One more blank of a tab.                                                *)
LEMMA RunGrows ==
  ASSUME NEW p \in 0 .. Page - 1, NEW m \in Nat
  PROVE  BlankRun(p, m + 1) = Append(BlankRun(p, m), CellOf((p + m) % Page, " "))
<1>1. PICK s : s = BlankRun(p, m)
  OBVIOUS
<1>2. s \in Seq(Cells) /\ Len(s) = m /\ s = [k \in 1 .. m |-> CellOf((p + k - 1) % Page, " ")]
  BY <1>1, RunIs DEF BlankRun
<1>3. p \in Nat
  BY PageIs
<1>4. PICK last : last = CellOf((p + m) % Page, " ")
  OBVIOUS
<1>5. PICK t : t = BlankRun(p, m + 1)
  OBVIOUS
<1>6. t \in Seq(Cells) /\ Len(t) = m + 1
      /\ t = [k \in 1 .. m + 1 |-> CellOf((p + k - 1) % Page, " ")]
  <2>1. m + 1 \in Nat
    OBVIOUS
  <2>2. QED
    BY <1>5, <2>1, RunIs DEF BlankRun
<1>7. \A k \in 1 .. m : t[k] = s[k]
  <2> SUFFICES ASSUME NEW k \in 1 .. m PROVE t[k] = s[k]
    OBVIOUS
  <2>1. PICK e : e = CellOf((p + k - 1) % Page, " ")
    OBVIOUS
  <2>2. k \in 1 .. m + 1
    OBVIOUS
  <2>3. t[k] = e
    BY <1>6, <2>1, <2>2, Zenon
  <2>4. s[k] = e
    BY <1>2, <2>1, Zenon
  <2>5. QED
    BY <2>3, <2>4
<1>8. t[m + 1] = last
  <2>1. m + 1 \in 1 .. m + 1 /\ p + (m + 1) - 1 = p + m
    BY <1>3
  <2>2. QED
    BY <1>4, <1>6, <2>1, Zenon
<1>9. PICK u : u = Append(s, last)
  OBVIOUS
<1>10. Len(u) = m + 1 /\ u[m + 1] = last /\ (\A k \in 1 .. m : u[k] = s[k])
       /\ u = [k \in 1 .. m + 1 |-> u[k]]
  <2>1. last \in Cells
    <3>1. PICK q : q = (p + m) % Page /\ q \in Nat
      <4>1. p + m \in Nat
        BY <1>3
      <4>2. (p + m) % Page \in Nat
        BY <4>1, PageIs
      <4>3. QED
        BY <4>2
    <3>2. QED
      BY <1>4, <3>1, GlyphSets, CellsOf
  <2>2. s \in Seq(Cells) /\ Len(s) = m
    BY <1>2
  <2>3. u \in Seq(Cells) /\ Len(u) = m + 1
    BY <1>9, <2>1, <2>2, AppendProperties
  <2>4. u[m + 1] = last /\ \A k \in 1 .. m : u[k] = s[k]
    BY <1>9, <2>1, <2>2, AppendProperties
  <2>5. u = [k \in 1 .. m + 1 |-> u[k]]
    BY <2>3
  <2>6. QED
    BY <2>3, <2>4, <2>5, Zenon
<1>11. t = [k \in 1 .. m + 1 |-> t[k]]
  BY <1>6
<1>12. \A k \in 1 .. m + 1 : t[k] = u[k]
  <2> SUFFICES ASSUME NEW k \in 1 .. m + 1 PROVE t[k] = u[k]
    OBVIOUS
  <2>1. k \in 1 .. m \/ k = m + 1
    OBVIOUS
  <2>2. QED
    BY <1>7, <1>8, <1>10, <2>1
<1>13. t = u
  BY <1>10, <1>11, <1>12, Zenon
<1>14. QED
  BY <1>1, <1>4, <1>5, <1>9, <1>13

(* A tab: what its first round finds,                                      *)
LEMMA StartTab ==
  ASSUME NEW T \in Seq(Glyphs), NEW from \in 0 .. Page - 1, NEW n \in Nat, n < Len(T),
         NEW x, NEW y, NEW d, Reach(T, from, n, 0, x, y, d), T[n + 1] = "\t"
  PROVE  /\ Tabbing(T, from, n, TAB - (x % TAB), x, y, d)
         /\ TAB - (x % TAB) = Blanks(Layout(T, from)[n].p)
<1>1. PICK a, p : a = Layout(T, from)[n] /\ p = a.p
  OBVIOUS
<1>2. a \in Pages /\ p \in 0 .. Page - 1
  <2>1. n \in 0 .. Len(T)
    OBVIOUS
  <2>2. QED
    BY <1>1, <2>1, LayoutIs DEF Pages
<1>3. At(p, x, y) /\ d = a.cells
  BY <1>1 DEF Reach
<1>4. PICK b : b = Blanks(p) /\ b = TAB - (x % TAB)
  BY <1>3 DEF Blanks, At
<1>5. p \in Nat /\ b \in 1 .. TAB /\ b \in Nat
  <2>1. p \in Nat
    BY <1>2, PageIs
  <2>2. b \in 1 .. TAB
    BY <1>4, <2>1, BlanksAre
  <2>3. QED
    BY <2>1, <2>2, PageIs
<1>6. b \in 1 .. b /\ b - b = 0
  BY <1>5
<1>7. BlankRun(p, 0) = <<>>
  BY DEF BlankRun
<1>8. d = a.cells \o <<>>
  <2>1. a.cells \in Seq(Cells)
    BY <1>2 DEF Pages
  <2>2. QED
    BY <1>3, <2>1
<1>9. (p + 0) % Page = p
  <2>1. p + 0 = p + Page * 0 /\ p + 0 \in Nat /\ 0 \in Nat
    BY <1>2, PageIs
  <2>2. QED
    BY <1>2, <2>1, PageIs, DivModOf
<1>10. Tabbing(T, from, n, b, x, y, d)
  BY <1>1, <1>3, <1>4, <1>6, <1>7, <1>8, <1>9, Zenon DEF Tabbing
<1>11. QED
  BY <1>1, <1>4, <1>10

(* Rows of cells join in either order.                                     *)
LEMMA CellsJoin ==
  \A a, b, c \in Seq(Cells) : (a \o b) \o c = a \o (b \o c)
<1>1. SUFFICES ASSUME NEW a \in Seq(Cells), NEW b \in Seq(Cells), NEW c \in Seq(Cells)
               PROVE  (a \o b) \o c = a \o (b \o c)
  OBVIOUS
<1>2. QED
  BY ConcatAssociative

(* and one round for each of its blanks.                                   *)
LEMMA RoundTab ==
  ASSUME NEW T \in Seq(Glyphs), NEW from \in 0 .. Page - 1, NEW n \in Nat, n < Len(T),
         NEW s, NEW x, NEW y, NEW d, Tabbing(T, from, n, s, x, y, d)
  PROVE  /\ s \in 1 .. TAB
         /\ Reach(T, from, IF s - 1 > 0 THEN n ELSE n + 1, s - 1, WX(x + 1), WY(x + 1, y),
                  Append(d, Cell(x, y, " ")))
<1>1. PICK a, g, p, c : a = Layout(T, from)[n] /\ g = Layout(T, from)[n + 1] /\ p = a.p /\ c = a.cells
  OBVIOUS
<1>2. n \in 0 .. Len(T) /\ n + 1 \in 1 .. Len(T) /\ (n + 1) - 1 = n
  OBVIOUS
<1>3. a \in Pages /\ g = Lay(a, T[n + 1]) /\ T[n + 1] \in Glyphs
  BY <1>1, <1>2, LayoutIs
<1>4. p \in 0 .. Page - 1 /\ c \in Seq(Cells) /\ p \in Nat
  <2>1. p \in 0 .. Page - 1 /\ c \in Seq(Cells)
    BY <1>1, <1>3 DEF Pages
  <2>2. QED
    BY <2>1, PageIs
<1>5. PICK b : b = Blanks(p)
  OBVIOUS
<1>6. b \in 1 .. TAB /\ TAB \in Nat
  BY <1>4, <1>5, BlanksAre, PageIs
<1>7. PICK m : m = b - s
  OBVIOUS
<1>8. /\ T[n + 1] = "\t" /\ s \in 1 .. b
      /\ d = c \o BlankRun(p, m) /\ At((p + m) % Page, x, y)
  BY <1>1, <1>5, <1>7, Zenon DEF Tabbing
<1>9. m \in Nat /\ m + 1 = b - (s - 1) /\ s - 1 \in Nat /\ s \in 1 .. TAB
  BY <1>6, <1>7, <1>8
<1>10. At((p + (m + 1)) % Page, WX(x + 1), WY(x + 1, y))
  <2>1. PICK q : q = (p + m) % Page
    OBVIOUS
  <2>2. At((q + 1) % Page, WX(x + 1), WY(x + 1, y))
    BY <1>8, <2>1, AtNext
  <2>3. p + m \in Nat /\ (p + m) + 1 = p + (m + 1)
    BY <1>4, <1>9
  <2>4. (q + 1) % Page = (p + (m + 1)) % Page
    <3>1. PICK r : r = p + m /\ r \in Nat
      BY <2>3
    <3>2. ((r % Page) + 1) % Page = (r + 1) % Page
      BY <3>1, PageIs, RoundStep
    <3>3. QED
      BY <2>1, <2>3, <3>1, <3>2, Zenon
  <2>5. QED
    BY <2>2, <2>4
<1>11. PICK last : last = Cell(x, y, " ")
  OBVIOUS
<1>12. last = CellOf((p + m) % Page, " ") /\ last \in Cells
  <2>1. last = CellOf((p + m) % Page, " ")
    BY <1>8, <1>11 DEF CellOf, At
  <2>2. PICK q : q = (p + m) % Page
    OBVIOUS
  <2>3. q \in Nat
    <3>1. q \in 0 .. Page - 1
      BY <1>8, <2>2 DEF At
    <3>2. QED
      BY <3>1, PageIs
  <2>4. QED
    BY <2>1, <2>2, <2>3, GlyphSets, CellsOf
<1>13. Append(d, last) = c \o BlankRun(p, m + 1)
  <2>1. PICK run : run = BlankRun(p, m) /\ run \in Seq(Cells)
    BY <1>4, <1>9, RunIs
  <2>2. BlankRun(p, m + 1) = Append(run, last)
    BY <1>4, <1>9, <1>12, <2>1, RunGrows
  <2>3. Append(c \o run, last) = c \o Append(run, last)
    <3>0. <<last>> \in Seq(Cells)
      <4>1. PICK e : e = last /\ e \in Cells
        BY <1>12
      <4>2. <<e>> \in Seq(Cells)
        BY <4>1
      <4>3. QED
        BY <4>1, <4>2
    <3>1. <<last>> \in Seq(Cells) /\ \A q \in Seq(Cells) : Append(q, last) = q \o <<last>>
      BY <1>12, <3>0, AppendIsConcat, Zenon
    <3>2. c \o run \in Seq(Cells)
      BY <1>4, <2>1, ConcatProperties
    <3>3. (c \o run) \o <<last>> = c \o (run \o <<last>>)
      <4>1. PICK u : u = <<last>>
        OBVIOUS
      <4>2. c \in Seq(Cells) /\ run \in Seq(Cells) /\ u \in Seq(Cells)
        BY <1>4, <2>1, <3>1, <4>1, Zenon
      <4>3. (c \o run) \o u = c \o (run \o u)
        BY <4>2, CellsJoin, Zenon
      <4>4. QED
        BY <4>1, <4>3, Zenon
    <3>4. QED
      BY <2>1, <3>1, <3>2, <3>3, Zenon
  <2>4. QED
    BY <1>8, <2>1, <2>2, <2>3
<1>14. CASE s - 1 > 0
  <2>1. s - 1 \in 1 .. b /\ s - 1 < b /\ s - 1 # 0
    BY <1>6, <1>8, <1>9, <1>14
  <2>2. Tabbing(T, from, n, s - 1, WX(x + 1), WY(x + 1, y), Append(d, last))
    BY <1>1, <1>5, <1>8, <1>9, <1>10, <1>13, <2>1, Zenon DEF Tabbing
  <2>3. Reach(T, from, n, s - 1, WX(x + 1), WY(x + 1, y), Append(d, last))
    BY <1>1, <1>5, <2>1, <2>2, Zenon DEF Reach
  <2>4. QED
    BY <1>9, <1>11, <1>14, <2>3, Zenon
<1>15. CASE s - 1 = 0
  <2>1. m + 1 = b
    BY <1>6, <1>9, <1>15
  <2>2. g.p = (p + b) % Page /\ g.cells = c \o BlankRun(p, b)
    <3>1. PICK w : w = T[n + 1] /\ w = "\t" /\ w \in Glyphs
      BY <1>3, <1>8
    <3>2. Lay(a, w).p = (a.p + Blanks(a.p)) % Page
          /\ Lay(a, w).cells = a.cells \o BlankRun(a.p, Blanks(a.p))
      BY <1>3, <3>1, LayIs, Zenon
    <3>3. QED
      BY <1>1, <1>3, <1>5, <3>1, <3>2, Zenon
  <2>3. Reach(T, from, n + 1, s - 1, WX(x + 1), WY(x + 1, y), Append(d, last))
    BY <1>1, <1>10, <1>13, <1>15, <2>1, <2>2, Zenon DEF Reach
  <2>4. ~(s - 1 > 0)
    BY <1>15
  <2>5. QED
    BY <1>9, <1>11, <2>3, <2>4, Zenon
<1>16. QED
  <2>1. s - 1 > 0 \/ s - 1 = 0
    BY <1>9
  <2>2. QED
    BY <1>14, <1>15, <2>1, Zenon

-----------------------------------------------------------------------------
(* What an undisturbed printer has put into the buffer and on the screen.  *)
Plainly(T) == \A k \in 1 .. Len(T) : T[k] # "BS"
From(f)    == f.start[1] + Columns * f.start[2]
OnPage(f)  == f.start[1] \in 0 .. Columns - 1 /\ f.start[2] \in 0 .. PageRows - 1
Presents(f, n, x, y) ==
  OnPage(f) /\ Reach(Text(f.msg), From(f), n, f.tabSpace, x, y, f.drawn)
Shown(f, x, y) ==
  /\ f.at = "put" /\ f.count = 0 /\ f.drawn = <<>> => f.tabSpace = 0
  /\ f.at = "put" /\ (f.count > 0 \/ f.drawn # <<>>) => Presents(f, f.count, x, y)
  /\ f.at = "wrap" => Presents(f, IF f.tabSpace > 0 THEN f.count ELSE f.count + 1, WX(x), WY(x, y))
  /\ f.at = "end" => IF f.i > 0 THEN Presents(f, f.i, x, y) ELSE f.drawn = <<>>
Filled(f, b) ==
  /\ f.at = "format" => \A j \in 1 .. f.i : b[j] = Pre(f.msg, Done(f))[j]
  /\ f.at \in {"put", "wrap"} => \A j \in 1 .. f.i : b[j] = Text(f.msg)[j]
Whole(f, b, x, y) == Filled(f, b) /\ (Plainly(Text(f.msg)) => Shown(f, x, y))

(* Nothing is claimed of who does not print,                               *)
LEMMA NotPrinting ==
  ASSUME NEW f \in FrameSet, ~Printing(f), NEW b, NEW x, NEW y
  PROVE  Whole(f, b, x, y)
<1>1. f.at \notin {"format", "put", "wrap", "end"}
  BY DEF Printing
<1>2. QED
  BY <1>1 DEF Whole, Filled, Shown

(* or has only begun.                                                      *)
LEMMA NothingYet ==
  ASSUME NEW f \in FrameSet, f.at = "format", f.i = 0, NEW b, NEW x, NEW y
  PROVE  Whole(f, b, x, y)
  BY DEF Whole, Filled, Shown

(* A conversion fills the buffer further.                                  *)
LEMMA FormatWhole ==
  ASSUME NEW f \in FrameSet, Placed(f), f.at = "format", NEW b, NEW x, NEW y, Whole(f, b, x, y),
         NEW b2, b2 = [k \in 1 .. BufLen |->
                         IF k \in f.i + 1 .. Upto(f) THEN TextOf(f)[k - f.i] ELSE b[k]]
  PROVE  Whole(Converted(f), b2, x, y)
<1>1. PICK h : h = Converted(f)
  OBVIOUS
<1>2. PICK u, v, t, i, n : u = Pre(f.msg, Done(f)) /\ v = Pre(f.msg, Done(h)) /\ t = TextOf(f)
                           /\ i = f.i /\ n = Upto(f)
  OBVIOUS
<1>3. /\ h \in FrameSet /\ Placed(h) /\ h.at \in {"format", "put", "end"}
      /\ t \in Seq(Glyphs) /\ n \in Nat /\ n <= BufLen /\ u \in Seq(Glyphs)
      /\ v = u \o t /\ i = Len(u) /\ n = Len(v) /\ f.msg \in Printed
      /\ h.at = "put" => v = Text(f.msg)
      /\ h.msg = f.msg /\ h.i = n /\ h.count = 0 /\ h.tabSpace = 0 /\ h.drawn = <<>>
  BY <1>1, <1>2, FormatPlaced, Zenon
<1>4. i \in Nat /\ n = i + Len(t) /\ Len(t) \in Nat
      /\ (\A j \in 1 .. i : v[j] = u[j]) /\ \A j \in 1 .. Len(t) : v[i + j] = t[j]
  <2>1. i \in Nat /\ Len(t) \in Nat
    BY <1>3
  <2>2. /\ Len(u \o t) = Len(u) + Len(t)
        /\ \A j \in 1 .. Len(u) + Len(t) :
             (u \o t)[j] = IF j <= Len(u) THEN u[j] ELSE t[j - Len(u)]
    BY <1>3, ConcatProperties
  <2>3. \A j \in 1 .. i + Len(t) : v[j] = IF j <= i THEN u[j] ELSE t[j - i]
    BY <1>3, <2>2, Zenon
  <2>4. n = i + Len(t)
    BY <1>3, <2>2, Zenon
  <2>5. \A j \in 1 .. i : v[j] = u[j]
    BY <2>1, <2>3
  <2>6. \A j \in 1 .. Len(t) : v[i + j] = t[j]
    <3> SUFFICES ASSUME NEW j \in 1 .. Len(t) PROVE v[i + j] = t[j]
      OBVIOUS
    <3>1. i + j \in 1 .. i + Len(t) /\ ~(i + j <= i) /\ (i + j) - i = j
      BY <2>1
    <3>2. QED
      BY <2>3, <3>1, Zenon
  <2>7. QED
    BY <2>1, <2>4, <2>5, <2>6
<1>5. \A j \in 1 .. i : b[j] = u[j]
  BY <1>2 DEF Whole, Filled
<1>6. \A k \in 1 .. BufLen : b2[k] = IF k \in i + 1 .. n THEN t[k - i] ELSE b[k]
  BY <1>2
<1>7. BufLen \in Nat
  BY ConsoleAssumption DEF ConsoleAssumption
<1>8. \A j \in 1 .. n : b2[j] = v[j]
  <2> SUFFICES ASSUME NEW j \in 1 .. n PROVE b2[j] = v[j]
    OBVIOUS
  <2>0. j \in 1 .. BufLen
    BY <1>3, <1>7
  <2>1. CASE j <= i
    <3>1. j \in 1 .. i /\ j \notin i + 1 .. n
      BY <1>3, <1>4, <2>1
    <3>2. QED
      BY <1>4, <1>5, <1>6, <2>0, <3>1, Zenon
  <2>2. CASE ~(j <= i)
    <3>1. j \in i + 1 .. n /\ j - i \in 1 .. Len(t) /\ i + (j - i) = j
      BY <1>3, <1>4, <2>2
    <3>2. QED
      BY <1>4, <1>6, <2>0, <3>1, Zenon
  <2>3. QED
    BY <2>1, <2>2
<1>9. h.at = "format" => \A j \in 1 .. h.i : b2[j] = Pre(h.msg, Done(h))[j]
  BY <1>2, <1>3, <1>8, Zenon
<1>10. h.at \in {"put", "wrap"} => \A j \in 1 .. h.i : b2[j] = Text(h.msg)[j]
  <2>1. h.at \in {"put", "wrap"} => h.at = "put"
    BY <1>3
  <2>2. QED
    BY <1>2, <1>3, <1>8, <2>1, Zenon
<1>11. h.at = "end" => h.i = 0
  BY <1>3 DEF Placed
<1>12. Shown(h, x, y)
  BY <1>3, <1>11 DEF Shown
<1>13. Whole(h, b2, x, y)
  BY <1>9, <1>10, <1>12 DEF Whole, Filled
<1>14. QED
  BY <1>1, <1>13

(* The tests of the cursor put it where the layout has it.                 *)
LEMMA WrapWhole ==
  ASSUME NEW f \in FrameSet, Placed(f), f.at = "wrap", NEW b, NEW x, NEW y, Whole(f, b, x, y),
         NEW count, count = IF f.tabSpace > 0 THEN f.count ELSE f.count + 1,
         NEW h, h = Wrapped(f, count)
  PROVE  Whole(h, b, WX(x), WY(x, y))
<1>1. /\ h \in FrameSet /\ Placed(h) /\ h.at \in {"put", "end"} /\ count \in Nat /\ count <= f.i
      /\ h.at = "end" => f.tabSpace = 0 /\ count = f.i
  BY WrapPlaced
<1>2. /\ h.i = f.i /\ h.count = count /\ h.tabSpace = f.tabSpace /\ h.msg = f.msg
      /\ h.start = f.start /\ h.drawn = f.drawn
  BY DEF Wrapped, FrameSet
<1>3. Filled(h, b)
  BY <1>1, <1>2 DEF Whole, Filled
<1>4. ASSUME Plainly(Text(h.msg)) PROVE Shown(h, WX(x), WY(x, y))
  <2>1. Presents(f, count, WX(x), WY(x, y))
    BY <1>2, <1>4 DEF Whole, Shown
  <2>2. Presents(h, count, WX(x), WY(x, y))
    BY <1>2, <2>1 DEF Presents, OnPage, From
  <2>3. f.tabSpace > 0 => f.drawn # <<>>
    <3>1. ASSUME f.tabSpace > 0 PROVE f.drawn # <<>>
      <4>1. PICK T, from, n, s, d : T = Text(f.msg) /\ from = From(f) /\ n = count /\ s = f.tabSpace
                                    /\ d = f.drawn
        OBVIOUS
      <4>2. PICK a, p, m : a = Layout(T, from)[n] /\ p = a.p /\ m = Blanks(a.p) - s
        OBVIOUS
      <4>3. s # 0 /\ s \in Nat
        BY <3>1, <4>1 DEF FrameSet
      <4>4. n < Len(T) /\ s \in 1 .. Blanks(p) /\ s < Blanks(p) /\ d = a.cells \o BlankRun(p, m)
        BY <2>1, <4>1, <4>2, <4>3, Zenon DEF Presents, Reach, Tabbing
      <4>5. T \in Seq(Glyphs) /\ from \in 0 .. Page - 1 /\ n \in 0 .. Len(T)
        <5>1. f.msg \in Printed
          BY AllowedPrinted DEF Placed
        <5>2. T \in Seq(Glyphs) /\ Len(T) \in Nat
          BY <4>1, <5>1, PreIs
        <5>3. OnPage(f)
          BY <2>1 DEF Presents
        <5>4. At(from, f.start[1], f.start[2])
          BY <4>1, <5>3, AtOf DEF OnPage, From
        <5>5. QED
          BY <1>1, <4>1, <4>4, <5>2, <5>4 DEF At
      <4>6. a \in Pages
        BY <4>2, <4>5, LayoutIs
      <4>7. p \in 0 .. Page - 1 /\ p \in Nat /\ a.cells \in Seq(Cells)
        <5>1. p \in 0 .. Page - 1 /\ a.cells \in Seq(Cells)
          BY <4>2, <4>6 DEF Pages
        <5>2. QED
          BY <5>1, PageIs
      <4>8. m \in Nat /\ m >= 1
        <5>1. Blanks(p) \in 1 .. TAB /\ TAB \in Nat
          BY <4>7, BlanksAre, PageIs
        <5>2. QED
          BY <4>2, <4>3, <4>4, <5>1
      <4>9. PICK run, c : run = BlankRun(p, m) /\ c = a.cells
        OBVIOUS
      <4>10. run \in Seq(Cells) /\ Len(run) = m /\ c \in Seq(Cells)
        BY <4>7, <4>8, <4>9, RunIs
      <4>11. Len(d) = Len(c) + m
        BY <4>4, <4>9, <4>10, ConcatProperties
      <4>12. Len(d) # 0
        <5>1. Len(c) \in Nat
          BY <4>10
        <5>2. QED
          BY <4>8, <4>11, <5>1
      <4>13. d # <<>>
        BY <4>12
      <4>14. QED
        BY <4>1, <4>13
    <3>2. QED
      BY <3>1
  <2>4. f.tabSpace \in Nat
    BY DEF FrameSet
  <2>5. h.at = "put" /\ h.count = 0 /\ h.drawn = <<>> => h.tabSpace = 0
    BY <1>2, <2>3, <2>4
  <2>6. f.i > 0
    BY DEF Placed, FrameSet
  <2>7. h.at = "put" => Presents(h, h.count, WX(x), WY(x, y))
    BY <1>2, <2>2
  <2>8. h.at = "end" => Presents(h, h.i, WX(x), WY(x, y)) /\ h.i > 0
    BY <1>1, <1>2, <2>2, <2>6
  <2>9. h.at # "wrap" /\ (h.at = "end" => h.at # "put")
    BY <1>1
  <2>10. QED
    BY <2>5, <2>7, <2>8, <2>9 DEF Shown
<1>5. QED
  BY <1>3, <1>4 DEF Whole

\* A printer that has begun: g is in the middle of its text.
LEMMA BegunShows ==
  ASSUME NEW f \in FrameSet, Placed(f), f.at = "put", NEW x \in Nat, NEW y \in Nat,
         Shown(f, x, y), NEW g, g = Begun(f, x, y), ~g.disturbed
  PROVE  /\ OnPage(g) /\ g.msg = f.msg
         /\ Reach(Text(f.msg), From(g), f.count, f.tabSpace, x, y, g.drawn)
<1>1. Kept(f, g) /\ Started(f, x, y, g) /\ g.tabSpace = f.tabSpace
  BY BegunIs
<1>2. /\ ~f.disturbed /\ g.drawn = f.drawn
      /\ \/ g.start = f.start /\ (f.count > 0 \/ f.drawn # <<>>)
         \/ /\ f.count = 0 /\ f.drawn = <<>> /\ g.start = <<x, y>>
            /\ x < Columns /\ y < PageRows
  BY <1>1 DEF Started
<1>3. g.msg = f.msg
  BY <1>1 DEF Kept
<1>4. CASE g.start = f.start /\ (f.count > 0 \/ f.drawn # <<>>)
  <2>1. Presents(f, f.count, x, y)
    BY <1>4 DEF Shown
  <2>2. OnPage(g) /\ From(g) = From(f)
    BY <1>4, <2>1 DEF Presents, OnPage, From
  <2>3. QED
    BY <1>2, <1>3, <2>1, <2>2 DEF Presents
<1>5. CASE f.count = 0 /\ f.drawn = <<>> /\ g.start = <<x, y>> /\ x < Columns /\ y < PageRows
  <2>1. f.tabSpace = 0
    BY <1>5 DEF Shown
  <2>2. x \in 0 .. Columns - 1 /\ y \in 0 .. PageRows - 1
    BY <1>5, PageIs
  <2>3. g.start[1] = x /\ g.start[2] = y
    BY <1>5
  <2>4. OnPage(g)
    BY <2>2, <2>3 DEF OnPage
  <2>5. PICK p : p = From(g)
    OBVIOUS
  <2>6. At(p, x, y) /\ p \in 0 .. Page - 1
    <3>1. p = x + Columns * y
      BY <2>3, <2>5 DEF From
    <3>2. At(p, x, y)
      BY <2>2, <3>1, AtOf
    <3>3. QED
      BY <3>2 DEF At
  <2>7. Text(f.msg) \in Seq(Glyphs)
    BY GlyphAtCount, PreIs
  <2>8. Layout(Text(f.msg), p)[0] = Empty(p)
    BY <2>6, <2>7, LayoutIs
  <2>9. Reach(Text(f.msg), p, 0, 0, x, y, <<>>)
    BY <2>6, <2>8 DEF Reach, Empty
  <2>10. QED
    BY <1>2, <1>3, <1>5, <2>1, <2>4, <2>5, <2>9
<1>6. QED
  BY <1>2, <1>4, <1>5

(* A round of an undisturbed print draws what the layout has next.         *)
LEMMA PutWhole ==
  ASSUME NEW f \in FrameSet, Placed(f), f.at = "put", NEW b \in [1 .. BufLen -> Glyphs],
         NEW x \in Nat, NEW y \in Nat, NEW x2 \in Nat, NEW y2 \in Nat,
         ~f.disturbed => Whole(f, b, x, y),
         NEW h, Putting(f, b, x, y, h, x2, y2), ~h.disturbed
  PROVE  Whole(h, b, x2, y2)
<1>1. h \in FrameSet /\ Placed(h) /\ Kept(f, h) /\ h.at = "wrap"
  BY PutFrame
<1>2. PICK g, s, w : g = Begun(f, x, y) /\ s = Owed(f, b, x) /\ w = b[f.count + 1]
  OBVIOUS
<1>3. g \in FrameSet /\ g.tabSpace = f.tabSpace /\ Started(f, x, y, g) /\ Kept(f, g)
  BY <1>2, BegunIs, Zenon
<1>4. w \in Glyphs /\ " " \in Glyphs
  BY <1>2, GlyphAtCount, GlyphSets
<1>5. Cell(x, y, " ") \in Cells /\ Cell(x, y, w) \in Cells /\ Cell(x2, y2, " ") \in Cells
  BY <1>4 DEF Cell, Cells
<1> DEFINE
  Blanked == /\ s > 0 /\ h.drawn = Append(g.drawn, Cell(x, y, " ")) /\ h.tabSpace = s - 1
             /\ x2 = x + 1 /\ y2 = y
  Ended   == s = 0 /\ w = "\n" /\ h.drawn = g.drawn /\ h.tabSpace = f.tabSpace /\ x2 = 0 /\ y2 = y + 1
  Back    == s = 0 /\ w = "BS"
  Drew    == /\ s = 0 /\ w \notin {"\n", "BS"} /\ h.tabSpace = f.tabSpace
             /\ h.drawn = Append(g.drawn, Cell(x, y, w)) /\ x2 = x + 1 /\ y2 = y
<1>60. (Blanked \/ Ended \/ Back \/ Drew) /\ ~g.disturbed /\ h.start = g.start
  <2>1. ASSUME NEW cell \in Cells, NEW r, r = Draw(g, cell)
        PROVE  /\ r \in FrameSet /\ r.tabSpace = g.tabSpace /\ r.disturbed = g.disturbed
               /\ r.start = g.start /\ (~r.disturbed => r.drawn = Append(g.drawn, cell))
    BY <1>3, <2>1, DrawIs, Zenon
  <2>2. CASE PutBlank(f, b, x, y, h, x2, y2)
    <3>1. PICK r : r = Draw(g, Cell(x, y, " "))
      OBVIOUS
    <3>2. /\ r \in FrameSet /\ r.disturbed = g.disturbed /\ r.start = g.start
          /\ ~r.disturbed => r.drawn = Append(g.drawn, Cell(x, y, " "))
      BY <1>5, <2>1, <3>1
    <3>3. s > 0 /\ h = [r EXCEPT !.tabSpace = s - 1] /\ x2 = x + 1 /\ y2 = y
      BY <1>2, <2>2, <3>1, Zenon DEF PutBlank
    <3>4. /\ h.tabSpace = s - 1 /\ h.disturbed = r.disturbed /\ h.start = r.start
          /\ h.drawn = r.drawn
      BY <3>2, <3>3 DEF FrameSet
    <3>5. QED
      BY <3>2, <3>3, <3>4
  <2>3. CASE PutLine(f, b, x, y, h, x2, y2)
    <3>1. s = 0 /\ w = "\n" /\ h = g /\ x2 = 0 /\ y2 = y + 1
      BY <1>2, <2>3, Zenon DEF PutLine
    <3>2. QED
      BY <1>3, <3>1
  <2>4. CASE PutBack(f, b, x, y, h, x2, y2)
    <3>1. s = 0 /\ w = "BS" /\ h = Draw(g, Cell(x2, y2, " "))
      BY <1>2, <2>4, Zenon DEF PutBack
    <3>2. h.disturbed = g.disturbed /\ h.start = g.start
      BY <1>5, <2>1, <3>1
    <3>3. QED
      BY <3>1, <3>2
  <2>5. CASE PutGlyph(f, b, x, y, h, x2, y2)
    <3>1. s = 0 /\ w \notin {"\n", "BS"} /\ h = Draw(g, Cell(x, y, w)) /\ x2 = x + 1 /\ y2 = y
      BY <1>2, <2>5, Zenon DEF PutGlyph
    <3>2. /\ h.tabSpace = g.tabSpace /\ h.disturbed = g.disturbed /\ h.start = g.start
          /\ ~h.disturbed => h.drawn = Append(g.drawn, Cell(x, y, w))
      BY <1>5, <2>1, <3>1
    <3>3. QED
      BY <1>3, <3>1, <3>2
  <2>6. QED
    BY <2>2, <2>3, <2>4, <2>5 DEF Putting
<1>6. \/ /\ s > 0 /\ h.drawn = Append(g.drawn, Cell(x, y, " ")) /\ h.tabSpace = s - 1
         /\ x2 = x + 1 /\ y2 = y
      \/ s = 0 /\ w = "\n" /\ h.drawn = g.drawn /\ h.tabSpace = f.tabSpace /\ x2 = 0 /\ y2 = y + 1
      \/ s = 0 /\ w = "BS"
      \/ /\ s = 0 /\ w \notin {"\n", "BS"} /\ h.tabSpace = f.tabSpace
         /\ h.drawn = Append(g.drawn, Cell(x, y, w)) /\ x2 = x + 1 /\ y2 = y
  BY <1>60
<1>7. ~g.disturbed /\ h.start = g.start
  BY <1>60
<1>8. ~f.disturbed
  BY <1>3, <1>7 DEF Started
<1>9. Whole(f, b, x, y)
  BY <1>8
<1>10. PICK T, n : T = Text(f.msg) /\ n = f.count
  OBVIOUS
<1>11. /\ T \in Seq(Glyphs) /\ n \in Nat /\ n < Len(T) /\ f.i = Len(T) /\ n + 1 \in 1 .. f.i
       /\ h.msg = f.msg /\ h.i = f.i /\ h.count = n
  <2>1. T \in Seq(Glyphs) /\ n \in Nat /\ n + 1 \in 1 .. f.i /\ f.i = Len(T)
    BY <1>10, GlyphAtCount, PreIs
  <2>2. QED
    BY <1>1, <1>10, <2>1 DEF Kept
<1>12. \A j \in 1 .. f.i : b[j] = T[j]
  BY <1>9, <1>10 DEF Whole, Filled
<1>13. w = T[n + 1]
  BY <1>2, <1>10, <1>11, <1>12
<1>14. Filled(h, b)
  BY <1>1, <1>10, <1>11, <1>12, Zenon DEF Filled
<1>15. ASSUME Plainly(T) PROVE Shown(h, x2, y2)
  <2>1. Shown(f, x, y)
    BY <1>9, <1>10, <1>15 DEF Whole
  <2>2. PICK p, d : p = From(g) /\ d = g.drawn
    OBVIOUS
  <2>3. OnPage(g) /\ Reach(T, p, n, f.tabSpace, x, y, d)
    BY <1>2, <1>7, <1>10, <2>1, <2>2, BegunShows
  <2>4. p \in 0 .. Page - 1
    <3>1. At(p, g.start[1], g.start[2])
      BY <2>2, <2>3, AtOf DEF OnPage, From
    <3>2. QED
      BY <3>1 DEF At
  <2>5. OnPage(h) /\ From(h) = p
    BY <1>7, <2>2, <2>3 DEF OnPage, From
  <2>6. SUFFICES Reach(T, p, IF h.tabSpace > 0 THEN n ELSE n + 1, h.tabSpace, WX(x2), WY(x2, y2),
                       h.drawn)
    BY <1>1, <1>10, <1>11, <2>5 DEF Shown, Presents
  <2>7. /\ s = 0 => f.tabSpace = 0 /\ w # "\t"
        /\ f.tabSpace > 0 => s = f.tabSpace
        /\ f.tabSpace = 0 /\ s > 0 => w = "\t" /\ s = TAB - (x % TAB)
        /\ s \in Nat /\ f.tabSpace \in Nat
    <3>1. /\ s = 0 => f.tabSpace = 0 /\ w # "\t"
          /\ f.tabSpace > 0 => s = f.tabSpace
          /\ f.tabSpace = 0 /\ s > 0 => w = "\t" /\ s = TAB - (x % TAB)
          /\ s \in 0 .. TAB /\ TAB \in Nat
      BY <1>2, OwedIs
    <3>2. f.tabSpace \in Nat
      BY DEF FrameSet
    <3>3. QED
      BY <3>1, <3>2
  <2>8. CASE s > 0 /\ h.drawn = Append(d, Cell(x, y, " ")) /\ h.tabSpace = s - 1
             /\ x2 = x + 1 /\ y2 = y
    <3>1. Tabbing(T, p, n, s, x, y, d)
      <4>1. CASE f.tabSpace > 0
        BY <2>3, <2>7, <4>1 DEF Reach
      <4>2. CASE f.tabSpace = 0
        <5>1. Reach(T, p, n, 0, x, y, d) /\ T[n + 1] = "\t" /\ s = TAB - (x % TAB)
          BY <1>13, <2>3, <2>7, <2>8, <4>2
        <5>2. Tabbing(T, p, n, TAB - (x % TAB), x, y, d)
          BY <1>11, <2>4, <5>1, StartTab, Zenon
        <5>3. QED
          BY <5>1, <5>2
      <4>3. QED
        BY <2>7, <4>1, <4>2
    <3>2. Reach(T, p, IF s - 1 > 0 THEN n ELSE n + 1, s - 1, WX(x + 1), WY(x + 1, y),
                Append(d, Cell(x, y, " ")))
      BY <1>11, <2>4, <3>1, RoundTab, Zenon
    <3>3. QED
      BY <2>8, <3>2, Zenon
  <2>9. CASE s = 0 /\ w = "\n" /\ h.drawn = d /\ h.tabSpace = f.tabSpace /\ x2 = 0 /\ y2 = y + 1
    <3>1. Reach(T, p, n, 0, x, y, d) /\ T[n + 1] = "\n" /\ h.tabSpace = 0
      BY <1>13, <2>3, <2>7, <2>9
    <3>2. Reach(T, p, n + 1, 0, WX(0), WY(0, y + 1), d)
      BY <1>11, <2>4, <3>1, RoundLine, Zenon
    <3>3. QED
      BY <2>9, <3>1, <3>2
  <2>10. CASE s = 0 /\ w \notin {"\n", "BS"} /\ h.tabSpace = f.tabSpace
              /\ h.drawn = Append(d, Cell(x, y, w)) /\ x2 = x + 1 /\ y2 = y
    <3>1. Reach(T, p, n, 0, x, y, d) /\ T[n + 1] \notin {"\n", "\t", "BS"} /\ h.tabSpace = 0
      BY <1>13, <2>3, <2>7, <2>10
    <3>2. Reach(T, p, n + 1, 0, WX(x + 1), WY(x + 1, y), Append(d, Cell(x, y, T[n + 1])))
      BY <1>11, <2>4, <3>1, RoundGlyph, Zenon
    <3>3. QED
      BY <1>13, <2>10, <3>1, <3>2
  <2>11. w # "BS"
    BY <1>11, <1>13, <1>15 DEF Plainly
  <2>12. QED
    BY <1>6, <2>2, <2>8, <2>9, <2>10, <2>11
<1>16. QED
  BY <1>10, <1>11, <1>14, <1>15 DEF Whole

-----------------------------------------------------------------------------
(* Every printer that is not disturbed has done what it should.            *)
Everyone(fr, b, x, y) ==
  \A c \in CPUs : \A k \in 1 .. Len(fr[c]) :
    ~fr[c][k].disturbed => Whole(fr[c][k], b, x, y)
ScreenInv == Everyone(frames, buf, XPosition, YPosition)

(* A step that leaves the buffer and the cursor alone.                     *)
LEMMA MovedWhole ==
  ASSUME NEW fr, NEW fr2, NEW c \in CPUs, NEW h, Moved(fr, fr2, c, h),
         NEW b, NEW x, NEW y, Everyone(fr, b, x, y), ~h.disturbed => Whole(h, b, x, y)
  PROVE  Everyone(fr2, b, x, y)
<1> SUFFICES ASSUME NEW d \in CPUs, NEW k \in 1 .. Len(fr2[d]), ~fr2[d][k].disturbed
             PROVE  Whole(fr2[d][k], b, x, y)
  BY DEF Everyone
<1>1. Changed(fr, fr2, c, h)
  BY DEF Moved
<1>2. k \in 1 .. Len(fr[d])
  BY <1>1 DEF Changed
<1>3. CASE d = c /\ k = Len(fr[c])
  <2>1. fr2[d][k] = h
    BY <1>1, <1>3 DEF Changed
  <2>2. QED
    BY <2>1
<1>4. CASE d # c \/ k # Len(fr[c])
  <2>1. fr2[d][k] = fr[d][k]
    BY <1>2, <1>4 DEF Moved
  <2>2. QED
    BY <1>2, <2>1 DEF Everyone
<1>5. QED
  BY <1>3, <1>4

(* A step that uses them: nobody else prints who is not disturbed by it.   *)
LEMMA WorkedWhole ==
  ASSUME NEW fr, NEW fr2, Stacked(fr), NEW c \in CPUs, NEW h \in FrameSet, Printing(h),
         Worked(fr, fr2, c, h), NEW lock, Locked(fr2, lock),
         NEW b, NEW x, NEW y, ~h.disturbed => Whole(h, b, x, y)
  PROVE  Everyone(fr2, b, x, y)
<1> SUFFICES ASSUME NEW d \in CPUs, NEW k \in 1 .. Len(fr2[d]), ~fr2[d][k].disturbed
             PROVE  Whole(fr2[d][k], b, x, y)
  BY DEF Everyone
<1>1. Changed(fr, fr2, c, h)
  BY DEF Worked
<1>2. k \in 1 .. Len(fr[d]) /\ Len(fr2[c]) = Len(fr[c])
  BY <1>1 DEF Changed
<1>3. CASE d = c /\ k = Len(fr[c])
  <2>1. fr2[d][k] = h
    BY <1>1, <1>3 DEF Changed
  <2>2. QED
    BY <2>1
<1>4. CASE d # c \/ k # Len(fr[c])
  <2>1. PICK g, g2, n : g = fr[d][k] /\ g2 = fr2[d][k] /\ n = Len(fr[c])
    OBVIOUS
  <2>2. g \in FrameSet
    BY <1>2, <2>1 DEF Stacked, Stacks
  <2>3. g2 = Beside(g, h)
    BY <1>2, <1>4, <2>1 DEF Worked
  <2>4. g2 \in FrameSet
    BY <1>1, <2>1 DEF Changed, Stacks
  <2>5. Disturb(g).disturbed
    BY <2>2 DEF Disturb, FrameSet
  <2>6. g2 = g /\ (~Printing(g) \/ (g.if /\ h.if))
    BY <2>1, <2>3, <2>5 DEF Beside
  <2>7. ~(Printing(g) /\ g.if /\ h.if)
    <3> SUFFICES ASSUME Printing(g), g.if, h.if PROVE FALSE
      OBVIOUS
    <3>1. lock = <<d, k>>
      BY <2>1, <2>6 DEF Locked
    <3>2. n \in 1 .. Len(fr2[c]) /\ fr2[c][n] = h
      BY <1>1, <1>2, <2>1 DEF Changed, Stacked
    <3>3. lock = <<c, n>>
      BY <3>2 DEF Locked
    <3>4. QED
      BY <1>4, <2>1, <3>1, <3>3
  <2>8. ~Printing(g2)
    BY <2>6, <2>7
  <2>9. Whole(g2, b, x, y)
    BY <2>4, <2>8, NotPrinting
  <2>10. QED
    BY <2>1, <2>9
<1>5. QED
  BY <1>3, <1>4

(* A frame more or less changes nothing.                                   *)
LEMMA NothingNewWhole ==
  ASSUME NEW fr, NEW fr2, NothingNew(fr, fr2), NEW b, NEW x, NEW y, Everyone(fr, b, x, y),
         \A d \in CPUs : \A k \in 1 .. Len(fr2[d]) : fr2[d][k] \in FrameSet
  PROVE  Everyone(fr2, b, x, y)
<1> SUFFICES ASSUME NEW d \in CPUs, NEW k \in 1 .. Len(fr2[d]), ~fr2[d][k].disturbed
             PROVE  Whole(fr2[d][k], b, x, y)
  BY DEF Everyone
<1>1. CASE fr2[d][k].at = "code"
  <2>1. PICK g \in FrameSet : g = fr2[d][k]
    OBVIOUS
  <2>2. ~Printing(g)
    BY <1>1, <2>1 DEF Printing
  <2>3. QED
    BY <2>1, <2>2, NotPrinting
<1>2. CASE k \in 1 .. Len(fr[d]) /\ fr2[d][k] = fr[d][k]
  BY <1>2 DEF Everyone
<1>3. QED
  BY <1>1, <1>2 DEF NothingNew

(* The frames after a step.                                                *)
LEMMA FramesThen ==
  ASSUME FramesInv'
  PROVE  \A d \in CPUs : \A k \in 1 .. Len(frames'[d]) : frames'[d][k] \in FrameSet
<1>1. PICK fr : fr = frames'
  OBVIOUS
<1>2. fr \in [CPUs -> Seq(FrameSet)]
  BY <1>1 DEF FramesInv, Stacked, Stacks
<1>3. \A d \in CPUs : \A k \in 1 .. Len(fr[d]) : fr[d][k] \in FrameSet
  BY <1>2
<1>4. QED
  BY <1>1, <1>3

\* f is one of the frames before the step.
LEMMA TopWhole ==
  ASSUME FramesInv, ScreenInv, NEW c \in CPUs, NEW f, NEW h, StepFrame(c, f, h), ~f.disturbed
  PROVE  Whole(f, buf, XPosition, YPosition)
<1>1. PICK n : n = Len(frames[c]) /\ n \in Nat /\ n >= 1
  BY FramesAre
<1>2. f = frames[c][n] /\ n \in 1 .. Len(frames[c])
  BY <1>1 DEF StepFrame
<1>3. QED
  BY <1>2 DEF ScreenInv, Everyone

(* The steps that leave the buffer and the cursor alone,                   *)
LEMMA QuietSteps ==
  ASSUME FramesInv, ScreenInv, NEW c \in CPUs, NEW f, NEW h, FramesInv', StepFrame(c, f, h),
         Moved(frames, frames', c, h),
         h.at \in {"code", "lock"} \/ (h.at = "format" /\ h.i = 0),
         buf' = buf, XPosition' = XPosition, YPosition' = YPosition
  PROVE  ScreenInv'
<1>1. PICK fr, fr2, b, x, y : fr = frames /\ fr2 = frames' /\ b = buf /\ x = XPosition /\ y = YPosition
  OBVIOUS
<1>2. Everyone(fr, b, x, y) /\ Moved(fr, fr2, c, h)
  BY <1>1 DEF ScreenInv
<1>3. h \in FrameSet
  BY DEF StepFrame
<1>4. Whole(h, b, x, y)
  BY <1>3, NotPrinting, NothingYet DEF Printing
<1>5. Everyone(fr2, b, x, y)
  BY <1>2, <1>4, MovedWhole
<1>6. QED
  BY <1>1, <1>5 DEF ScreenInv

(* the end of a message,                                                   *)
LEMMA FinishWhole ==
  ASSUME FramesInv, ScreenInv, NEW c \in CPUs, Finish(c)
  PROVE  ScreenInv'
<1>1. PICK f, h : /\ FramesInv' /\ StepFrame(c, f, h) /\ Moved(frames, frames', c, h)
                  /\ h.at = "code"
                  /\ buf' = IF \E d \in CPUs : \E k \in DOMAIN frames'[d] : Printing(frames'[d][k])
                            THEN buf ELSE Blank
                  /\ XPosition' = XPosition /\ YPosition' = YPosition
  BY FinishStep
<1>2. CASE buf' = buf
  BY <1>1, <1>2, QuietSteps
<1>3. CASE ~\E d \in CPUs : \E k \in DOMAIN frames'[d] : Printing(frames'[d][k])
  <2>1. PICK fr, b, x, y : fr = frames' /\ b = buf' /\ x = XPosition' /\ y = YPosition'
    OBVIOUS
  <2>2. \A d \in CPUs : \A k \in 1 .. Len(fr[d]) : fr[d][k] \in FrameSet
    BY <1>1, <2>1, FramesThen
  <2>3. \A d \in CPUs : DOMAIN fr[d] = 1 .. Len(fr[d])
    <3>1. fr \in [CPUs -> Seq(FrameSet)]
      BY <1>1, <2>1 DEF FramesInv, Stacked, Stacks
    <3>2. QED
      BY <3>1
  <2>4. \A d \in CPUs : \A k \in 1 .. Len(fr[d]) : ~Printing(fr[d][k])
    BY <1>3, <2>1, <2>3
  <2>5. \A d \in CPUs : \A k \in 1 .. Len(fr[d]) : Whole(fr[d][k], b, x, y)
    BY <2>2, <2>4, NotPrinting
  <2>6. Everyone(fr, b, x, y)
    BY <2>5 DEF Everyone
  <2>7. QED
    BY <2>1, <2>6 DEF ScreenInv
<1>4. QED
  BY <1>1, <1>2, <1>3

(* and the steps of a printer.                                             *)
LEMMA WorkSteps ==
  ASSUME FramesInv, NEW c \in CPUs, NEW f, NEW h, FramesInv', StepFrame(c, f, h),
         Worked(frames, frames', c, h), Printing(h),
         ~h.disturbed => Whole(h, buf', XPosition', YPosition')
  PROVE  ScreenInv'
<1>1. PICK fr, fr2, lock, b, x, y :
        fr = frames /\ fr2 = frames' /\ lock = printk_lock' /\ b = buf'
        /\ x = XPosition' /\ y = YPosition'
  OBVIOUS
<1>2. Stacked(fr) /\ Locked(fr2, lock) /\ Worked(fr, fr2, c, h) /\ (~h.disturbed => Whole(h, b, x, y))
  BY <1>1 DEF FramesInv
<1>3. h \in FrameSet
  BY DEF StepFrame
<1>4. Everyone(fr2, b, x, y)
  BY <1>2, <1>3, WorkedWhole
<1>5. QED
  BY <1>1, <1>4 DEF ScreenInv

(* The second part of the invariant is kept by a conversion,               *)
LEMMA FormatKeeps ==
  ASSUME FramesInv, ScreenInv, NEW c \in CPUs, Format(c)
  PROVE  ScreenInv'
<1>1. PICK f, h :
        /\ FramesInv' /\ StepFrame(c, f, h) /\ Worked(frames, frames', c, h)
        /\ f.at = "format" /\ h = Converted(f)
        /\ buf' = [k \in 1 .. BufLen |->
                     IF k \in f.i + 1 .. Upto(f) THEN TextOf(f)[k - f.i] ELSE buf[k]]
        /\ XPosition' = XPosition /\ YPosition' = YPosition
  BY FormatStep
<1>2. PICK b, b2, x, y : b = buf /\ b2 = buf' /\ x = XPosition /\ y = YPosition
  OBVIOUS
<1>3. f \in FrameSet /\ Placed(f)
  BY <1>1 DEF StepFrame
<1>4. h.disturbed = f.disturbed /\ h.at \in {"format", "put", "end"}
  BY <1>1, <1>3, FormatPlaced, Zenon
<1>5. ~h.disturbed => Whole(h, b2, x, y)
  <2> SUFFICES ASSUME ~h.disturbed PROVE Whole(h, b2, x, y)
    OBVIOUS
  <2>1. Whole(f, b, x, y)
    BY <1>1, <1>2, <1>4, TopWhole
  <2>2. b2 = [k \in 1 .. BufLen |->
                IF k \in f.i + 1 .. Upto(f) THEN TextOf(f)[k - f.i] ELSE b[k]]
    BY <1>1, <1>2
  <2>3. QED
    BY <1>1, <1>3, <2>1, <2>2, FormatWhole
<1>6. Printing(h)
  BY <1>4 DEF Printing
<1>7. ~h.disturbed => Whole(h, buf', XPosition', YPosition')
  BY <1>1, <1>2, <1>5, Zenon
<1>8. QED
  BY <1>1, <1>6, <1>7, WorkSteps

(* a round,                                                                *)
LEMMA PutKeeps ==
  ASSUME FramesInv, ScreenInv, NEW c \in CPUs, Put(c)
  PROVE  ScreenInv'
<1>1. PICK f, h :
        /\ FramesInv' /\ StepFrame(c, f, h) /\ Worked(frames, frames', c, h)
        /\ f.at = "put" /\ Kept(f, h) /\ h.at = "wrap"
        /\ Putting(f, buf, XPosition, YPosition, h, XPosition', YPosition')
        /\ buf' = buf
  BY PutStep
<1>2. PICK b, x, y, x2, y2 : b = buf /\ x = XPosition /\ y = YPosition
                             /\ x2 = XPosition' /\ y2 = YPosition'
  OBVIOUS
<1>3. f \in FrameSet /\ Placed(f) /\ Putting(f, b, x, y, h, x2, y2)
  BY <1>1, <1>2 DEF StepFrame
<1>4. b \in [1 .. BufLen -> Glyphs] /\ x \in Nat /\ y \in Nat /\ x2 \in Nat /\ y2 \in Nat
  BY <1>1, <1>2 DEF FramesInv
<1>5. ~f.disturbed => Whole(f, b, x, y)
  BY <1>1, <1>2, TopWhole
<1>6. ~h.disturbed => Whole(h, b, x2, y2)
  BY <1>1, <1>3, <1>4, <1>5, PutWhole
<1>7. Printing(h)
  BY <1>1 DEF Printing
<1>8. ~h.disturbed => Whole(h, buf', XPosition', YPosition')
  BY <1>1, <1>2, <1>6, Zenon
<1>9. QED
  BY <1>1, <1>7, <1>8, WorkSteps

(* the tests of the cursor,                                                *)
LEMMA WrapKeeps ==
  ASSUME FramesInv, ScreenInv, NEW c \in CPUs, Wrap(c)
  PROVE  ScreenInv'
<1>1. PICK f, h, count :
        /\ FramesInv' /\ StepFrame(c, f, h) /\ Worked(frames, frames', c, h)
        /\ f.at = "wrap" /\ count = IF f.tabSpace > 0 THEN f.count ELSE f.count + 1
        /\ h = Wrapped(f, count) /\ f.if = h.if /\ h.at \in {"put", "end"}
        /\ buf' = buf
        /\ XPosition' = IF XPosition >= Columns THEN 0 ELSE XPosition
        /\ YPosition' = LET y == IF XPosition >= Columns THEN YPosition + 1 ELSE YPosition
                        IN  IF y >= PageRows THEN 0 ELSE y
  BY WrapStep
<1>2. PICK b, x, y : b = buf /\ x = XPosition /\ y = YPosition
  OBVIOUS
<1>3. f \in FrameSet /\ Placed(f)
  BY <1>1 DEF StepFrame
<1>4. h.disturbed = f.disturbed
  BY <1>1, <1>3 DEF Wrapped, FrameSet
<1>5. ~h.disturbed => Whole(h, b, WX(x), WY(x, y))
  <2> SUFFICES ASSUME ~h.disturbed PROVE Whole(h, b, WX(x), WY(x, y))
    OBVIOUS
  <2>1. Whole(f, b, x, y)
    BY <1>1, <1>2, <1>4, TopWhole
  <2>2. QED
    BY <1>1, <1>3, <2>1, WrapWhole
<1>6. Printing(h)
  BY <1>1 DEF Printing
<1>7. XPosition' = WX(x) /\ YPosition' = WY(x, y)
  BY <1>1, <1>2 DEF WX, WY
<1>8. ~h.disturbed => Whole(h, buf', XPosition', YPosition')
  BY <1>1, <1>2, <1>5, <1>7, Zenon
<1>9. QED
  BY <1>1, <1>6, <1>8, WorkSteps

(* and by interrupts, exceptions and their ends.                           *)
LEMMA OtherKeeps ==
  ASSUME FramesInv, ScreenInv, FramesInv', NothingNew(frames, frames'),
         buf' = buf, XPosition' = XPosition, YPosition' = YPosition
  PROVE  ScreenInv'
<1>1. PICK fr, fr2, b, x, y : fr = frames /\ fr2 = frames' /\ b = buf /\ x = XPosition /\ y = YPosition
  OBVIOUS
<1>2. \A d \in CPUs : \A k \in 1 .. Len(fr2[d]) : fr2[d][k] \in FrameSet
  BY <1>1, FramesThen
<1>3. Everyone(fr, b, x, y) /\ NothingNew(fr, fr2)
  BY <1>1 DEF ScreenInv
<1>4. Everyone(fr2, b, x, y)
  BY <1>2, <1>3, NothingNewWhole
<1>5. QED
  BY <1>1, <1>4 DEF ScreenInv

(* It holds at the beginning,                                              *)
LEMMA InitScreen == Init => ScreenInv
<1> SUFFICES ASSUME Init PROVE ScreenInv
  OBVIOUS
<1>1. FramesInv
  BY InitFrames
<1>2. \A c \in CPUs : \A k \in 1 .. Len(frames[c]) :
        frames[c][k] \in FrameSet /\ ~Printing(frames[c][k])
  <2> SUFFICES ASSUME NEW c \in CPUs, NEW k \in 1 .. Len(frames[c])
               PROVE  frames[c][k] \in FrameSet /\ ~Printing(frames[c][k])
    OBVIOUS
  <2>1. PICK h : h = Frame("task", FALSE, <<>>, NoFault)
    OBVIOUS
  <2>2. frames[c] = <<h>>
    BY <2>1 DEF Init
  <2>3. k = 1
    <3>1. Len(<<h>>) = 1
      OBVIOUS
    <3>2. QED
      BY <2>2, <3>1
  <2>4. frames[c][k] = h
    BY <2>2, <2>3
  <2>5. h.at = "code"
    BY <2>1 DEF Frame
  <2>6. frames[c][k] \in FrameSet
    BY <1>1, FramesAre
  <2>7. QED
    BY <2>4, <2>5, <2>6 DEF Printing
<1>3. PICK fr, b, x, y : fr = frames /\ b = buf /\ x = XPosition /\ y = YPosition
  OBVIOUS
<1>4. \A c \in CPUs : \A k \in 1 .. Len(fr[c]) : Whole(fr[c][k], b, x, y)
  BY <1>2, <1>3, NotPrinting
<1>5. QED
  BY <1>3, <1>4 DEF ScreenInv, Everyone

(* after every step,                                                       *)
LEMMA NextScreen == FramesInv /\ ScreenInv /\ [Next]_vars => ScreenInv'
<1> SUFFICES ASSUME FramesInv, ScreenInv, [Next]_vars PROVE ScreenInv'
  OBVIOUS
<1>1. CASE UNCHANGED vars
  BY <1>1 DEF ScreenInv, vars
<1>2. ASSUME NEW c \in CPUs, Call(c) PROVE ScreenInv'
  BY <1>2, CallStep, QuietSteps
<1>3. ASSUME NEW c \in CPUs, Lock(c) PROVE ScreenInv'
  BY <1>3, LockStep, QuietSteps
<1>4. ASSUME NEW c \in CPUs, EnableInterrupts(c) PROVE ScreenInv'
  BY <1>4, EnableStep, QuietSteps
<1>5. ASSUME NEW c \in CPUs, Interrupt(c) PROVE ScreenInv'
  BY <1>5, InterruptStep, OtherKeeps
<1>6. ASSUME NEW c \in CPUs, Return(c) PROVE ScreenInv'
  BY <1>6, ReturnStep, OtherKeeps
<1>7. ASSUME NEW c \in CPUs, Fault(c) PROVE ScreenInv'
  BY <1>7, FaultStep, OtherKeeps
<1>8. QED
  BY <1>1, <1>2, <1>3, <1>4, <1>5, <1>6, <1>7, FormatKeeps, PutKeeps, WrapKeeps, FinishWhole
     DEF Next, Printer

(* and so always.                                                          *)
LEMMA AlwaysScreen == Spec => [](FramesInv /\ ScreenInv)
<1>1. Init => FramesInv /\ ScreenInv
  BY InitFrames, InitScreen
<1>2. FramesInv /\ ScreenInv /\ [Next]_vars => (FramesInv /\ ScreenInv)'
  BY NextFrames, NextScreen
<1>3. QED
  BY <1>1, <1>2, PTL DEF Spec

-----------------------------------------------------------------------------
\* No message holds a backspace.  From column 0 the code steps back to a
\* column counted in pixels (printk.c:453), which is no place on the page.
NoBackspace == \A m \in Printed : Plainly(Text(m))

(* What is left of a print that is over: its layout.                       *)
LEMMA EndShows ==
  ASSUME FramesInv, ScreenInv, NEW c \in CPUs, NEW k \in DOMAIN frames[c], NEW f, f = frames[c][k],
         f.at = "end", ~f.disturbed, NEW T, T = Text(f.msg), Plainly(T),
         NEW from, from = From(f)
  PROVE  /\ f \in FrameSet /\ f.msg \in Printed /\ T \in Seq(Glyphs) /\ f.i = Len(T)
         /\ f.drawn = Layout(T, from)[Len(T)].cells
         /\ f.i > 0 => /\ from \in 0 .. Page - 1
                       /\ At(Layout(T, from)[Len(T)].p, XPosition, YPosition)
<1>1. f \in FrameSet /\ Placed(f) /\ k \in 1 .. Len(frames[c])
  BY FramesAre
<1>2. f.msg \in Printed /\ f.i = Len(T) /\ f.tabSpace = 0
  BY <1>1, AllowedPrinted DEF Placed
<1>3. T \in Seq(Glyphs)
  BY <1>2, PreIs
<1>4. Whole(f, buf, XPosition, YPosition)
  BY <1>1 DEF ScreenInv, Everyone
<1>5. IF f.i > 0 THEN Presents(f, f.i, XPosition, YPosition) ELSE f.drawn = <<>>
  BY <1>4 DEF Whole, Shown
<1>6. CASE f.i > 0
  <2>1. OnPage(f) /\ Reach(T, from, f.i, 0, XPosition, YPosition, f.drawn)
    BY <1>2, <1>5, <1>6 DEF Presents
  <2>2. /\ f.drawn = Layout(T, from)[Len(T)].cells
        /\ At(Layout(T, from)[Len(T)].p, XPosition, YPosition)
    BY <1>2, <2>1 DEF Reach
  <2>3. At(from, f.start[1], f.start[2])
    BY <2>1, AtOf DEF OnPage, From
  <2>4. QED
    BY <1>1, <1>2, <1>3, <2>2, <2>3 DEF At
<1>7. CASE ~(f.i > 0)
  <2>1. Len(T) = 0 /\ f.drawn = <<>>
    BY <1>2, <1>3, <1>5, <1>7
  <2>2. Layouts(Layout(T, from), T, from, Len(T))
    BY <2>1, LayoutUnfolds
  <2>3. Layout(T, from)[0] = Empty(from)
    BY <2>1, <2>2 DEF Layouts
  <2>4. Layout(T, from)[Len(T)].cells = <<>>
    BY <2>1, <2>3 DEF Empty
  <2>5. QED
    BY <1>1, <1>2, <1>3, <1>7, <2>1, <2>4
<1>8. QED
  BY <1>6, <1>7

(* The second part implies PrintedWhole.                                   *)
LEMMA ScreenInvShows ==
  ASSUME NoBackspace, FramesInv, ScreenInv
  PROVE  PrintedWhole
<1> SUFFICES ASSUME NEW c \in CPUs, NEW k \in DOMAIN frames[c], NEW f, f = frames[c][k],
                    NEW page, page = Drawn(Text(f.msg), f.start[1] + Columns * f.start[2]),
                    f.at = "end", ~f.disturbed
             PROVE  /\ f.drawn = page.cells
                    /\ k = Depth(c) /\ f.i > 0 =>
                         <<XPosition, YPosition>> = <<page.p % Columns, page.p \div Columns>>
  BY DEF PrintedWhole
<1>1. PICK T, from : T = Text(f.msg) /\ from = From(f)
  OBVIOUS
<1>2. f.msg \in Printed
  BY FramesAre, AllowedPrinted DEF Placed
<1>3. Plainly(T)
  BY <1>1, <1>2 DEF NoBackspace
<1>4. /\ f.drawn = Layout(T, from)[Len(T)].cells
      /\ f.i > 0 => At(Layout(T, from)[Len(T)].p, XPosition, YPosition)
  BY <1>1, <1>3, EndShows
<1>5. page = Layout(T, from)[Len(T)]
  BY <1>1, Zenon DEF Drawn, From
<1>6. QED
  BY <1>4, <1>5 DEF At

(* A message whose text has no tab, new line or backspace is drawn glyph   *)
(* by glyph.                                                               *)
LEMMA DrawnGlyphs ==
  ASSUME NEW T \in Seq(Glyphs), NEW from \in 0 .. Page - 1,
         \A k \in 1 .. Len(T) : T[k] \notin {"\n", "\t", "BS"}
  PROVE  LET d == Layout(T, from)[Len(T)].cells
         IN  Len(d) = Len(T) /\ d \in Seq(Cells) /\ \A j \in 1 .. Len(T) : d[j][3] = T[j]
<1>1. PICK n, L : n = Len(T) /\ n \in Nat /\ L = Layout(T, from)
  OBVIOUS
<1>2. /\ L[0] = Empty(from)
      /\ \A k \in 0 .. n : L[k] \in Pages
      /\ \A k \in 1 .. n : L[k] = Lay(L[k - 1], T[k])
  BY <1>1, LayoutIs
<1>3. \A k \in 0 .. n : L[k].cells \in Seq(Cells) /\ Len(L[k].cells) \in Nat
  BY <1>2 DEF Pages
<1>4. \A k \in 1 .. n : L[k].cells = Append(L[k - 1].cells, CellOf(L[k - 1].p, T[k]))
  <2> SUFFICES ASSUME NEW k \in 1 .. n
               PROVE  L[k].cells = Append(L[k - 1].cells, CellOf(L[k - 1].p, T[k]))
    OBVIOUS
  <2>1. PICK a, g : a = L[k - 1] /\ g = T[k]
    OBVIOUS
  <2>2. k - 1 \in 0 .. n
    BY <1>1
  <2>3. a \in Pages /\ g \in Glyphs /\ g \notin {"\n", "\t", "BS"} /\ L[k] = Lay(a, g)
    BY <1>1, <1>2, <2>1, <2>2
  <2>4. Lay(a, g).cells = Append(a.cells, CellOf(a.p, g))
    BY <2>3, LayIs, Zenon
  <2>5. QED
    BY <2>1, <2>3, <2>4
<1> DEFINE S == {k \in Nat : k <= n => /\ Len(L[k].cells) = k
                                       /\ \A j \in 1 .. k : L[k].cells[j][3] = T[j]}
<1>5. ASSUME NEW k \in Nat, \A m \in Nat : m < k => m \in S
      PROVE  k \in S
  <2>1. CASE k = 0
    <3>1. L[k].cells = <<>>
      BY <1>2, <2>1 DEF Empty
    <3>2. Len(L[k].cells) = 0
      BY <3>1
    <3>3. QED
      BY <2>1, <3>2
  <2>2. CASE k # 0 /\ k <= n
    <3>1. k - 1 \in S /\ k - 1 \in 0 .. n /\ k \in 1 .. n /\ k - 1 <= n
      BY <1>1, <1>5, <2>2
    <3>2. PICK s, cell : s = L[k - 1].cells /\ cell = CellOf(L[k - 1].p, T[k])
      OBVIOUS
    <3>3. Len(s) = k - 1 /\ \A j \in 1 .. k - 1 : s[j][3] = T[j]
      BY <3>1, <3>2
    <3>4. s \in Seq(Cells)
      BY <1>3, <3>1, <3>2
    <3>5. cell[3] = T[k] /\ cell \in Cells
      <4>1. L[k - 1].p \in 0 .. Page - 1
        BY <1>2, <3>1 DEF Pages
      <4>2. L[k - 1].p \in Nat
        BY <4>1, PageIs
      <4>3. T[k] \in Glyphs
        BY <1>1, <3>1
      <4>4. cell \in Cells
        BY <3>2, <4>2, <4>3, CellsOf
      <4>5. cell[3] = T[k]
        BY <3>2 DEF CellOf, Cell
      <4>6. QED
        BY <4>4, <4>5
    <3>6. PICK t : t = Append(s, cell)
      OBVIOUS
    <3>7. Len(t) = (k - 1) + 1 /\ t[(k - 1) + 1] = cell /\ \A j \in 1 .. k - 1 : t[j] = s[j]
      BY <3>3, <3>4, <3>5, <3>6, AppendProperties
    <3>8. (k - 1) + 1 = k /\ \A j \in 1 .. k : j = k \/ j \in 1 .. k - 1
      OBVIOUS
    <3>9. Len(t) = k /\ \A j \in 1 .. k : t[j][3] = T[j]
      BY <3>3, <3>5, <3>7, <3>8
    <3>10. L[k].cells = t
      BY <1>4, <3>1, <3>2, <3>6, Zenon
    <3>11. QED
      BY <3>9, <3>10
  <2>3. QED
    BY <2>1, <2>2
<1>6. Nat \subseteq S
  <2> HIDE DEF S
  <2>1. QED
    BY <1>5, Induction
<1>7. Len(L[n].cells) = n /\ \A j \in 1 .. n : L[n].cells[j][3] = T[j]
  BY <1>1, <1>6
<1>8. L[n].cells \in Seq(Cells)
  BY <1>1, <1>3
<1>9. QED
  BY <1>1, <1>7, <1>8

(* What is drawn for a message of one directive reads as that says: an     *)
(* integer's text has nothing but glyphs, so there is one cell for each.   *)
LEMMA OneItemShown ==
  ASSUME FramesInv, ScreenInv, NEW c \in CPUs, NEW k \in DOMAIN frames[c], NEW f, f = frames[c][k],
         f.at = "end", ~f.disturbed, Len(f.msg) = 1
  PROVE  ReadsAs([j \in DOMAIN f.drawn |-> f.drawn[j][3]], f.msg[1])
<1>1. f \in FrameSet /\ Placed(f)
  BY FramesAre
<1>2. PICK msg : msg = f.msg
  OBVIOUS
<1>3. msg \in Printed /\ Len(msg) = 1
  BY <1>1, <1>2, AllowedPrinted DEF Placed
<1>4. PICK d : d = msg[1]
  OBVIOUS
<1>5. d \in Item /\ vsprintf(d) \in Seq(Glyphs) /\ Text(msg) = vsprintf(d)
  <2>1. /\ Pre(msg, 0) = <<>> /\ Pre(msg, 1) = Text(msg)
        /\ \A m \in 1 .. 1 : /\ msg[m] \in Item /\ vsprintf(msg[m]) \in Seq(Glyphs)
                             /\ Pre(msg, m) = Pre(msg, m - 1) \o vsprintf(msg[m])
    BY <1>3, PreIs
  <2>2. 1 \in 1 .. 1 /\ 1 - 1 = 0
    OBVIOUS
  <2>3. /\ msg[1] \in Item /\ vsprintf(msg[1]) \in Seq(Glyphs)
        /\ Pre(msg, 1) = <<>> \o vsprintf(msg[1])
    BY <2>1, <2>2
  <2>4. <<>> \o vsprintf(msg[1]) = vsprintf(msg[1])
    BY <2>3
  <2>5. QED
    BY <1>4, <2>1, <2>3, <2>4
<1>6. PICK drawn : drawn = f.drawn
  OBVIOUS
<1>7. PICK shown : shown = [j \in DOMAIN drawn |-> drawn[j][3]]
  OBVIOUS
<1>8. CASE d.conv \notin IntegerConvs
  <2>1. d.conv # "o" /\ d.conv # "x" /\ d.conv # "X" /\ d.conv \notin {"d", "i", "u"}
    BY <1>8 DEF IntegerConvs
  <2>2. ReadsAs(shown, d)
    BY <2>1 DEF ReadsAs
  <2>3. QED
    BY <1>2, <1>4, <1>6, <1>7, <2>2
<1>9. CASE d.conv \in IntegerConvs
  <2>1. PICK T, from : T = Text(msg) /\ from = From(f)
    OBVIOUS
  <2>2. T \in Seq(Clean) /\ T \in Seq(Glyphs) /\ ReadsAs(T, d)
    BY <1>5, <1>9, <2>1, ItemText
  <2>3. \A j \in 1 .. Len(T) : T[j] \notin {"\n", "\t", "BS"}
    <3>1. \A g \in Clean : g \notin {"\n", "\t", "BS"}
      <4>1. \A i \in 1 .. 16 : /\ Lower[i] # "\n" /\ Lower[i] # "\t" /\ Lower[i] # "BS"
                               /\ Upper[i] # "\n" /\ Upper[i] # "\t" /\ Upper[i] # "BS"
        BY DEF Lower, Upper
      <4>2. \A g \in Digit : g # "\n" /\ g # "\t" /\ g # "BS"
        BY <4>1 DEF Digit
      <4>3. QED
        BY <4>2 DEF Clean
    <3>2. QED
      BY <2>2, <3>1
  <2>4. Plainly(T)
    BY <2>3 DEF Plainly
  <2>5. /\ f.i = Len(T)
        /\ drawn = Layout(T, from)[Len(T)].cells
        /\ f.i > 0 => from \in 0 .. Page - 1
    BY <1>2, <1>6, <2>1, <2>4, EndShows
  <2>6. shown = T
    <3>1. CASE f.i > 0
      <4>1. PICK n : n = Len(T)
        OBVIOUS
      <4>2. Len(drawn) = n /\ drawn \in Seq(Cells) /\ \A j \in 1 .. n : drawn[j][3] = T[j]
        BY <2>2, <2>3, <2>5, <3>1, <4>1, DrawnGlyphs
      <4>3. DOMAIN drawn = 1 .. n
        BY <4>2
      <4>4. shown = [j \in 1 .. n |-> T[j]]
        BY <1>7, <4>2, <4>3
      <4>5. QED
        BY <2>2, <4>1, <4>4
    <3>2. CASE ~(f.i > 0)
      <4>1. Len(T) = 0 /\ T = <<>>
        BY <2>2, <2>5, <3>2
      <4>2. drawn = <<>>
        <5>1. Layouts(Layout(T, from), T, from, Len(T))
          BY <4>1, LayoutUnfolds
        <5>2. Layout(T, from)[0] = Empty(from)
          BY <4>1, <5>1 DEF Layouts
        <5>3. QED
          BY <2>5, <4>1, <5>2 DEF Empty
      <4>3. QED
        BY <1>7, <4>1, <4>2
    <3>3. QED
      BY <3>1, <3>2
  <2>7. QED
    BY <1>2, <1>4, <1>6, <1>7, <2>2, <2>6
<1>10. QED
  BY <1>8, <1>9

(* Theorem: where no message holds a backspace, the cells drawn for a      *)
(* message that nobody disturbed are its text, laid out from where the     *)
(* cursor was, and the cursor is left behind it (printk.c:436-491), with   *)
(* any number of processors and of interrupts that print in between.       *)
THEOREM PrintedIsWhole ==
  ASSUME NoBackspace
  PROVE  Spec => []PrintedWhole
<1>1. FramesInv /\ ScreenInv => PrintedWhole
  BY ScreenInvShows
<1>2. QED
  BY <1>1, AlwaysScreen, PTL

(* Theorem: what a conversion puts on the screen reads as the number it    *)
(* was given, in the base and with the sign, prefix, precision and width   *)
(* that its flags ask for (printk.c:168-411), for every number and width.  *)
THEOREM ConversionsAreRead == Spec => []ConversionsRead
<1>1. FramesInv /\ ScreenInv => ConversionsRead
  BY OneItemShown DEF ConversionsRead
<1>2. QED
  BY <1>1, AlwaysScreen, PTL
=============================================================================
