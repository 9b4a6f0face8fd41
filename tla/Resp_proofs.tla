----------------------------- MODULE Resp_proofs -----------------------------
(***************************************************************************)
(* The RESP codec, proved for items, bytes, lengths and pipelines of every *)
(* kind and every point at which the bytes stop.                           *)
(*                                                                         *)
(* First numbers: the digits that AppendInt writes are those that ParseInt *)
(* and parseIntLine read.  Then the bytes of an item, and what each reader *)
(* makes of an item of which all, a part or nothing has arrived (ReadOn).  *)
(* Last the invariant, which couples the account of the peer, where each   *)
(* item ends and each reply, to the place of the reader.                   *)
(***************************************************************************)
EXTENDS Resp, WellFoundedInduction, SequenceTheorems, TLAPS

USE SizeAssumption, StreamsAssumption

-----------------------------------------------------------------------------
(* Least elements.  Recursive functions are shown to exist, and to be what     *)
(* they should, by taking a least argument where they are not.                 *)

Below == {s \in Nat \X Nat : s[1] < s[2]}

\* The numbers below one another are well founded.
LEMMA BelowWellFounded == IsWellFoundedOn(Below, Nat)
BY NatLessThanWellFounded DEF OpToRel, Below

\* A set of natural numbers that has an element has a least one.
LEMMA LeastNatural ==
  ASSUME NEW S \in SUBSET Nat, S # {}
  PROVE  \E n \in S : \A m \in S : n <= m
<1>1. PICK n \in S : \A m \in S : ~(<<m, n>> \in Below)
  BY WFMin, BelowWellFounded
<1>2. ASSUME NEW m \in S PROVE n <= m
  <2>1. m \in Nat /\ n \in Nat
    OBVIOUS
  <2>2. ~(<<m, n>> \in Below)
    BY <1>1
  <2> QED BY ONLY <2>1, <2>2 DEF Below
<1> QED BY <1>2

-----------------------------------------------------------------------------
(* Decimal (strconv.AppendInt).                                                *)

\* g writes the numbers up to m in digits.
Writes(g, m) ==
  g = [n \in 0..m |-> IF n < 10 THEN <<48 + n>> ELSE Append(g[n \div 10], 48 + (n % 10))]

\* All ways to write a number agree.
LEMMA WritesAgree ==
  ASSUME NEW k \in Nat, NEW m \in Nat, NEW g, NEW h, Writes(g, k), Writes(h, m),
         NEW n \in Nat, n <= k, n <= m
  PROVE  g[n] = h[n]
<1> DEFINE Bad == {i \in 0..n : g[i] # h[i]}
<1> SUFFICES ASSUME Bad # {} PROVE FALSE
  OBVIOUS
<1>1. PICK i \in Bad : \A j \in Bad : i <= j
  <2>1. Bad \in SUBSET Nat
    OBVIOUS
  <2> HIDE DEF Bad
  <2> QED BY <2>1, LeastNatural
<1>2. i \in 0..k /\ i \in 0..m
  OBVIOUS
<1>3. g[i] = IF i < 10 THEN <<48 + i>> ELSE Append(g[i \div 10], 48 + (i % 10))
  BY <1>2 DEF Writes
<1>4. h[i] = IF i < 10 THEN <<48 + i>> ELSE Append(h[i \div 10], 48 + (i % 10))
  BY <1>2 DEF Writes
<1>5. i >= 10
  BY <1>1, <1>3, <1>4
<1>6. i \div 10 \in 0..n /\ i \div 10 < i
  BY <1>5
<1>7. g[i \div 10] = h[i \div 10]
  BY <1>1, <1>6
<1> QED BY <1>3, <1>4, <1>5, <1>7

\* There is a way to write the numbers up to any number.
LEMMA WritesExists ==
  ASSUME NEW m \in Nat
  PROVE  \E g : Writes(g, m)
<1> DEFINE Bad == {i \in Nat : ~\E g : Writes(g, i)}
<1> SUFFICES ASSUME Bad # {} PROVE FALSE
  OBVIOUS
<1>1. PICK i \in Bad : \A j \in Bad : i <= j
  <2>1. Bad \in SUBSET Nat
    OBVIOUS
  <2> HIDE DEF Bad
  <2> QED BY <2>1, LeastNatural
<1>2. i # 0
  <2>1. Writes([n \in 0..0 |-> <<48 + n>>], 0)
    BY DEF Writes
  <2> QED BY <2>1
<1>3. i - 1 \in Nat /\ i - 1 \notin Bad
  BY <1>1, <1>2
<1>4. PICK g : Writes(g, i - 1)
  BY <1>3
<1> DEFINE h == [n \in 0..i |->
                   IF n < 10 THEN <<48 + n>> ELSE Append(g[n \div 10], 48 + (n % 10))]
<1>5. ASSUME NEW n \in 0..i, n >= 10
      PROVE  g[n \div 10] = h[n \div 10]
  <2>1. n \div 10 \in 0..(i - 1) /\ n \div 10 \in 0..i
    BY <1>3, <1>5
  <2>2. g[n \div 10] = IF n \div 10 < 10 THEN <<48 + (n \div 10)>>
                       ELSE Append(g[(n \div 10) \div 10], 48 + ((n \div 10) % 10))
    BY <1>4, <2>1 DEF Writes
  <2> QED BY <2>1, <2>2
<1>6. Writes(h, i)
  <2>1. h = [n \in 0..i |->
               IF n < 10 THEN <<48 + n>> ELSE Append(g[n \div 10], 48 + (n % 10))]
    OBVIOUS
  <2> HIDE DEF h
  <2>2. h = [n \in 0..i |->
               IF n < 10 THEN <<48 + n>> ELSE Append(h[n \div 10], 48 + (n % 10))]
    <3>1. \A n \in 0..i :
            (IF n < 10 THEN <<48 + n>> ELSE Append(g[n \div 10], 48 + (n % 10)))
            = (IF n < 10 THEN <<48 + n>> ELSE Append(h[n \div 10], 48 + (n % 10)))
      <4> SUFFICES ASSUME NEW n \in 0..i, n >= 10
                   PROVE  g[n \div 10] = h[n \div 10]
        OBVIOUS
      <4> QED BY <1>5
    <3> QED BY ONLY <2>1, <3>1
  <2> QED BY <2>2 DEF Writes
<1> QED BY <1>6

\* The last digit of a number is the remainder, and those before it write the quotient.
LEMMA DecimalUnfolds ==
  \A n \in Nat : Decimal[n] = IF n < 10 THEN <<48 + n>>
                              ELSE Append(Decimal[n \div 10], 48 + (n % 10))
<1> DEFINE Way(m) == CHOOSE g : Writes(g, m)
           Rule(f) == f = [n \in Nat |-> IF n < 10 THEN <<48 + n>>
                                         ELSE Append(f[n \div 10], 48 + (n % 10))]
           f == [n \in Nat |-> Way(n)[n]]
<1>1. \A m \in Nat : Writes(Way(m), m)
  BY WritesExists
<1> HIDE DEF Way
<1>2. ASSUME NEW n \in Nat
      PROVE  f[n] = IF n < 10 THEN <<48 + n>> ELSE Append(f[n \div 10], 48 + (n % 10))
  <2>1. n \div 10 \in Nat /\ n \div 10 <= n
    OBVIOUS
  <2>2. Way(n)[n] = IF n < 10 THEN <<48 + n>>
                    ELSE Append(Way(n)[n \div 10], 48 + (n % 10))
    <3>1. Writes(Way(n), n) /\ n \in 0..n
      BY <1>1
    <3> QED BY <3>1 DEF Writes
  <2>3. Way(n)[n \div 10] = Way(n \div 10)[n \div 10]
    BY <1>1, <2>1, WritesAgree
  <2> QED BY <2>1, <2>2, <2>3
<1>3. Rule(f)
  <2>1. f = [n \in Nat |-> f[n]]
    OBVIOUS
  <2> HIDE DEF f
  <2> QED BY <1>2, <2>1
<1>4. Decimal = CHOOSE d : Rule(d)
  BY DEF Decimal
<1>5. Rule(Decimal)
  BY <1>3, <1>4
<1> QED BY <1>5

-----------------------------------------------------------------------------
(* Number (the loop of parseIntLine, strconv.ParseInt).                        *)

\* n counts up the first k digits of s, digit by digit.
CountsUpTo(n, s, k) ==
  n = [i \in 0..k |-> IF i = 0 THEN 0 ELSE 10 * n[i - 1] + (s[i] - 48)]

\* Two sequences that begin alike stand for the same number as far as they do.
LEMMA CountsAgree ==
  ASSUME NEW s, NEW t, NEW k \in Nat, NEW m \in Nat, NEW g, NEW h,
         CountsUpTo(g, s, k), CountsUpTo(h, t, m),
         NEW j \in Nat, j <= k, j <= m, \A i \in 1..j : s[i] = t[i]
  PROVE  g[j] = h[j]
<1> DEFINE Bad == {i \in 0..j : g[i] # h[i]}
<1> SUFFICES ASSUME Bad # {} PROVE FALSE
  OBVIOUS
<1>1. PICK i \in Bad : \A e \in Bad : i <= e
  <2>1. Bad \in SUBSET Nat
    OBVIOUS
  <2> HIDE DEF Bad
  <2> QED BY <2>1, LeastNatural
<1>2. i \in 0..k /\ i \in 0..m
  OBVIOUS
<1>3. g[i] = IF i = 0 THEN 0 ELSE 10 * g[i - 1] + (s[i] - 48)
  BY <1>2 DEF CountsUpTo
<1>4. h[i] = IF i = 0 THEN 0 ELSE 10 * h[i - 1] + (t[i] - 48)
  BY <1>2 DEF CountsUpTo
<1>5. i # 0
  BY <1>1, <1>3, <1>4
<1>6. i - 1 \in 0..j /\ i - 1 < i /\ i \in 1..j
  BY <1>5
<1>7. g[i - 1] = h[i - 1] /\ s[i] = t[i]
  BY <1>1, <1>6
<1> QED BY <1>3, <1>4, <1>5, <1>7

\* The digits of a sequence can be counted up.
LEMMA CountsExists ==
  ASSUME NEW s, NEW k \in Nat
  PROVE  \E n : CountsUpTo(n, s, k)
<1> DEFINE Bad == {i \in Nat : ~\E n : CountsUpTo(n, s, i)}
<1> SUFFICES ASSUME Bad # {} PROVE FALSE
  OBVIOUS
<1>1. PICK i \in Bad : \A j \in Bad : i <= j
  <2>1. Bad \in SUBSET Nat
    OBVIOUS
  <2> HIDE DEF Bad
  <2> QED BY <2>1, LeastNatural
<1>2. i # 0
  <2>1. CountsUpTo([e \in 0..0 |-> 0], s, 0)
    BY DEF CountsUpTo
  <2> QED BY <2>1
<1>3. i - 1 \in Nat /\ i - 1 \notin Bad
  BY <1>1, <1>2
<1>4. PICK g : CountsUpTo(g, s, i - 1)
  BY <1>3
<1> DEFINE h == [e \in 0..i |-> IF e = 0 THEN 0 ELSE 10 * g[e - 1] + (s[e] - 48)]
<1>5. ASSUME NEW e \in 0..i, e # 0
      PROVE  g[e - 1] = h[e - 1]
  <2>1. e - 1 \in 0..(i - 1) /\ e - 1 \in 0..i
    BY <1>3, <1>5
  <2>2. g[e - 1] = IF e - 1 = 0 THEN 0 ELSE 10 * g[(e - 1) - 1] + (s[e - 1] - 48)
    BY <1>4, <2>1 DEF CountsUpTo
  <2> QED BY <2>1, <2>2
<1>6. CountsUpTo(h, s, i)
  <2>1. h = [e \in 0..i |-> IF e = 0 THEN 0 ELSE 10 * g[e - 1] + (s[e] - 48)]
    OBVIOUS
  <2> HIDE DEF h
  <2>2. \A e \in 0..i : (IF e = 0 THEN 0 ELSE 10 * g[e - 1] + (s[e] - 48))
                        = (IF e = 0 THEN 0 ELSE 10 * h[e - 1] + (s[e] - 48))
    BY <1>5
  <2>3. h = [e \in 0..i |-> IF e = 0 THEN 0 ELSE 10 * h[e - 1] + (s[e] - 48)]
    BY ONLY <2>1, <2>2
  <2> QED BY <2>3 DEF CountsUpTo
<1> QED BY <1>6

\* A number is what its digits count up to.
LEMMA NumberCounts ==
  ASSUME NEW s, Len(s) \in Nat
  PROVE  \E n : CountsUpTo(n, s, Len(s)) /\ Number(s) = n[Len(s)]
<1> DEFINE n == CHOOSE x : CountsUpTo(x, s, Len(s))
<1>1. CountsUpTo(n, s, Len(s))
  BY CountsExists
<1>2. Number(s) = n[Len(s)]
  BY DEF Number, CountsUpTo
<1> QED BY <1>1, <1>2

\* One digit more makes ten times the number and the digit.
LEMMA NumberAppend ==
  ASSUME NEW t \in Seq(Digit), NEW d \in Digit
  PROVE  Number(Append(t, d)) = 10 * Number(t) + (d - 48)
<1> DEFINE s == Append(t, d)
<1>1. /\ Len(t) \in Nat /\ Len(s) = Len(t) + 1 /\ s[Len(t) + 1] = d
      /\ \A i \in 1..Len(t) : s[i] = t[i]
  OBVIOUS
<1> HIDE DEF s
<1>2. PICK g : CountsUpTo(g, s, Len(s)) /\ Number(s) = g[Len(s)]
  BY <1>1, NumberCounts
<1>3. PICK h : CountsUpTo(h, t, Len(t)) /\ Number(t) = h[Len(t)]
  BY <1>1, NumberCounts
<1>4. g[Len(t)] = h[Len(t)]
  BY <1>1, <1>2, <1>3, CountsAgree
<1>5. Len(s) \in 0..Len(s) /\ Len(s) # 0 /\ Len(s) - 1 = Len(t)
  BY <1>1
<1>6. g[Len(s)] = 10 * g[Len(s) - 1] + (s[Len(s)] - 48)
  BY ONLY <1>2, <1>5 DEF CountsUpTo
<1> QED BY <1>1, <1>2, <1>3, <1>4, <1>5, <1>6 DEF s

\* A single digit stands for itself.
LEMMA NumberDigit ==
  ASSUME NEW d \in Digit
  PROVE  Number(<<d>>) = d - 48
<1> DEFINE s == <<d>>
<1>1. Len(s) = 1 /\ s[1] = d
  OBVIOUS
<1> HIDE DEF s
<1>2. PICK g : CountsUpTo(g, s, Len(s)) /\ Number(s) = g[Len(s)]
  <2>1. Len(s) \in Nat
    BY <1>1
  <2> QED BY ONLY <2>1, NumberCounts
<1>3. g[0] = 0 /\ g[1] = 10 * g[0] + (s[1] - 48)
  BY <1>1, <1>2 DEF CountsUpTo
<1> QED BY <1>1, <1>2, <1>3 DEF s, Digit

\* The digits of a number stand for it (AppendInt and the parsers are inverse).
LEMMA DecimalReads ==
  ASSUME NEW n \in Nat
  PROVE  Decimal[n] \in Seq(Digit) /\ Decimal[n] # << >> /\ Number(Decimal[n]) = n
<1> DEFINE StandsFor(i) ==
             Decimal[i] \in Seq(Digit) /\ Decimal[i] # << >> /\ Number(Decimal[i]) = i
           Bad == {i \in Nat : ~StandsFor(i)}
<1> SUFFICES ASSUME Bad # {} PROVE FALSE
  OBVIOUS
<1>1. PICK i \in Bad : \A j \in Bad : i <= j
  <2>1. Bad \in SUBSET Nat
    OBVIOUS
  <2> HIDE DEF Bad
  <2> QED BY <2>1, LeastNatural
<1>2. i >= 10
  <2> SUFFICES ASSUME i < 10 PROVE StandsFor(i)
    BY <1>1
  <2>1. Decimal[i] = <<48 + i>>
    BY DecimalUnfolds
  <2>2. 48 + i \in Digit
    BY DEF Digit
  <2>3. Number(<<48 + i>>) = i
    BY <2>2, NumberDigit
  <2> QED BY <2>1, <2>2, <2>3
<1> DEFINE q == i \div 10
           d == 48 + (i % 10)
<1>3. q \in Nat /\ q < i /\ d \in Digit /\ 10 * q + (d - 48) = i
  BY <1>2 DEF Digit
<1>4. StandsFor(q)
  BY <1>1, <1>3
<1>5. Decimal[i] = Append(Decimal[q], d)
  <2>1. Decimal[i] = IF i < 10 THEN <<48 + i>> ELSE Append(Decimal[q], d)
    BY DecimalUnfolds
  <2> QED BY <1>2, <2>1
<1> HIDE DEF q, d
<1>6. Number(Decimal[i]) = i
  BY <1>3, <1>4, <1>5, NumberAppend
<1>7. Decimal[i] \in Seq(Digit) /\ Decimal[i] # << >>
  <2> DEFINE e == Decimal[q]
  <2>1. e \in Seq(Digit) /\ d \in Digit /\ Decimal[i] = Append(e, d)
    BY <1>3, <1>4, <1>5
  <2> HIDE DEF e
  <2>2. Append(e, d) \in Seq(Digit) /\ Append(e, d) # << >>
    BY ONLY <2>1
  <2> QED BY <2>1, <2>2
<1> QED BY <1>1, <1>6, <1>7

-----------------------------------------------------------------------------
(* Numerals and lines.                                                         *)

\* A numeral is a sign or none, and the digits of the amount.
LEMMA NumeralDigits ==
  ASSUME NEW n \in Int
  PROVE  \E s \in Seq(Digit) :
           /\ s # << >>
           /\ n >= 0 => Numeral(n) = s /\ Number(s) = n
           /\ n < 0  => Numeral(n) = <<Dash>> \o s /\ Number(s) = -n
<1>1. CASE n >= 0
  BY <1>1, DecimalReads DEF Numeral
<1>2. CASE n < 0
  <2>1. -n \in Nat
    BY <1>2
  <2>2. Decimal[-n] \in Seq(Digit) /\ Decimal[-n] # << >> /\ Number(Decimal[-n]) = -n
    BY <2>1, DecimalReads
  <2>3. Numeral(n) = <<Dash>> \o Decimal[-n]
    BY <1>2 DEF Numeral
  <2>4. ~(n >= 0)
    BY <1>2
  <2> HIDE DEF Numeral
  <2> QED BY ONLY <2>2, <2>3, <2>4
<1> QED BY <1>1, <1>2

\* What follows one element is the rest.
LEMMA TailOfCons ==
  ASSUME NEW S, NEW x, NEW s \in Seq(S)
  PROVE  /\ <<x>> \o s # << >> /\ Head(<<x>> \o s) = x /\ Tail(<<x>> \o s) = s
         /\ Len(<<x>> \o s) = Len(s) + 1
         /\ \A i \in 1..Len(s) : (<<x>> \o s)[i + 1] = s[i]
<1> DEFINE T == S \cup {x}
           c == <<x>> \o s
<1>1. <<x>> \in Seq(T) /\ s \in Seq(T)
  OBVIOUS
<1>2. c \in Seq(T) /\ Len(c) = Len(s) + 1 /\ c[1] = x
      /\ \A i \in 1..Len(s) : c[i + 1] = s[i]
  BY <1>1
<1>3. c # << >>
  BY <1>2
<1> HIDE DEF c, T
<1>4. Head(c) = x /\ Tail(c) \in Seq(T) /\ Len(Tail(c)) = Len(s)
      /\ \A i \in 1..Len(s) : Tail(c)[i] = s[i]
  BY <1>2, <1>3
<1>5. Tail(c) = s
  BY <1>1, <1>4, SeqEqual
<1> QED BY <1>2, <1>3, <1>4, <1>5 DEF c

\* A numeral is a line of bytes, neither empty nor with a CR or LF in it.
LEMMA NumeralLine ==
  ASSUME NEW n \in Int
  PROVE  /\ Numeral(n) \in Seq(Byte) /\ Numeral(n) # << >>
         /\ \A i \in 1..Len(Numeral(n)) : Numeral(n)[i] # LF /\ Numeral(n)[i] # CR
<1>1. PICK s \in Seq(Digit) :
           /\ s # << >>
           /\ n >= 0 => Numeral(n) = s
           /\ n < 0  => Numeral(n) = <<Dash>> \o s
  BY NumeralDigits
<1>2. s \in Seq(Byte) /\ Dash \in Byte
  BY DEF Byte, Digit, Dash
<1>3. \A i \in 1..Len(s) : s[i] # LF /\ s[i] # CR
  BY DEF Digit, LF, CR
<1>4. CASE n >= 0
  BY <1>1, <1>2, <1>3, <1>4
<1>5. CASE n < 0
  <2>1. Numeral(n) \in Seq(Byte) /\ Numeral(n) # << >> /\ Len(Numeral(n)) = Len(s) + 1
    <3>1. <<Dash>> \in Seq(Byte)
      BY <1>2
    <3>2. <<Dash>> \o s \in Seq(Byte)
      BY <1>2, <3>1, ConcatProperties
    <3>3. Numeral(n) = <<Dash>> \o s
      BY <1>1, <1>5
    <3> QED BY <3>2, <3>3, TailOfCons
  <2>2. Numeral(n)[1] = Dash /\ \A i \in 1..Len(s) : Numeral(n)[i + 1] = s[i]
    BY <1>1, <1>5, TailOfCons
  <2>3. ASSUME NEW i \in 1..Len(Numeral(n)), i # 1 PROVE Numeral(n)[i] = s[i - 1] /\ i - 1 \in 1..Len(s)
    BY <2>1, <2>2, <2>3
  <2>4. Dash # LF /\ Dash # CR
    BY DEF Dash, LF, CR
  <2> QED BY <1>3, <2>1, <2>2, <2>3, <2>4
<1> QED BY <1>4, <1>5

\* strconv.ParseInt reads a numeral.
LEMMA ParseNumeral ==
  ASSUME NEW n \in Int, NEW next
  PROVE  ParseInt(Numeral(n), next) = Got(n, next)
<1>1. PICK s \in Seq(Digit) :
           /\ s # << >>
           /\ n >= 0 => Numeral(n) = s /\ Number(s) = n
           /\ n < 0  => Numeral(n) = <<Dash>> \o s /\ Number(s) = -n
  BY NumeralDigits
<1>2. Range(s) \subseteq Digit
  BY DEF Range
<1>3. CASE n >= 0
  <2>1. Head(s) \in Digit /\ Head(s) \notin {Plus, Dash}
    BY <1>1 DEF Digit, Plus, Dash
  <2> QED BY <1>1, <1>2, <1>3, <2>1 DEF ParseInt
<1>4. CASE n < 0
  <2>1. Numeral(n) # << >> /\ Head(Numeral(n)) = Dash /\ Tail(Numeral(n)) = s
    BY <1>1, <1>4, TailOfCons
  <2>2. ParseInt(Numeral(n), next) = Got(-Number(s), next)
    BY <1>1, <1>2, <2>1 DEF ParseInt
  <2> QED BY <1>1, <1>4, <2>2
<1> QED BY <1>3, <1>4

\* text is on the wire at p, with CR LF behind it.
OnLine(p, text) ==
  /\ \A i \in 1..Len(text) : wire[p + i - 1] = text[i]
  /\ wire[p + Len(text)] = CR /\ wire[p + Len(text) + 1] = LF

\* The least element of a set.
LEMMA MinIs ==
  ASSUME NEW S \in SUBSET Int, NEW x \in S, \A y \in S : x <= y
  PROVE  Min(S) = x
<1> DEFINE m == Min(S)
<1>1. m \in S /\ \A y \in S : m <= y
  BY DEF Min
<1>2. m <= x /\ x <= m /\ m \in Int /\ x \in Int
  BY <1>1
<1> QED BY ONLY <1>2

\* readLine reads a line once its LF has arrived, and waits for it until then.
LEMMA ReadLineOn ==
  ASSUME NEW p \in Nat \ {0}, NEW text \in Seq(Byte), arrived \in Nat,
         \A i \in 1..Len(text) : text[i] # LF, OnLine(p, text)
  PROVE  ReadLine(p) = IF p + Len(text) + 1 <= arrived THEN Got(text, p + Len(text) + 2)
                       ELSE Fails("short")
<1> DEFINE ends == {i \in p..arrived : wire[i] = LF}
           last == p + Len(text) + 1
<1>1. Len(text) \in Nat /\ last \in Nat
  OBVIOUS
<1>2. ASSUME NEW i \in p..arrived, i < last PROVE wire[i] # LF
  <2>1. CASE i = p + Len(text)
    BY <2>1 DEF OnLine, CR, LF
  <2>2. CASE i < p + Len(text)
    <3> DEFINE j == i - p + 1
    <3>1. j \in 1..Len(text) /\ p + j - 1 = i
      BY <1>1, <2>2
    <3> HIDE DEF j
    <3>2. wire[p + j - 1] = text[j] /\ text[j] # LF
      BY <3>1 DEF OnLine
    <3> QED BY <3>1, <3>2
  <2> QED BY <1>1, <1>2, <2>1, <2>2
<1>3. CASE last <= arrived
  <2>1. last \in ends
    BY <1>1, <1>3 DEF OnLine
  <2>2. \A i \in ends : last <= i
    BY <1>1, <1>2
  <2>3. Min(ends) = last
    <3>1. ends \in SUBSET Int
      OBVIOUS
    <3> HIDE DEF ends, last
    <3> QED BY <2>1, <2>2, <3>1, MinIs
  <2>4. last # p /\ wire[last - 1] = CR
    BY <1>1 DEF OnLine
  <2>5. SubSeq(wire, p, last - 2) = text
    <3>1. \A i \in p..(last - 2) : wire[i] \in Byte
      <4> TAKE i \in p..(last - 2)
      <4> DEFINE j == i - p + 1
      <4>1. j \in 1..Len(text) /\ p + j - 1 = i
        BY <1>1
      <4> HIDE DEF j
      <4>2. wire[p + j - 1] = text[j] /\ text[j] \in Byte
        BY <4>1 DEF OnLine
      <4> QED BY <4>1, <4>2
    <3>2. SubSeq(wire, p, last - 2) \in Seq(Byte)
          /\ Len(SubSeq(wire, p, last - 2)) = Len(text)
          /\ \A i \in 1..Len(text) : SubSeq(wire, p, last - 2)[i] = wire[p + i - 1]
      <4>1. p \in Int /\ last - 2 \in Int
        BY <1>1
      <4>2. (last - 2) - p + 1 = Len(text)
        BY <1>1
      <4> HIDE DEF last
      <4> QED BY <1>1, <3>1, <4>1, <4>2, SubSeqProperties
    <3>3. \A i \in 1..Len(text) : SubSeq(wire, p, last - 2)[i] = text[i]
      BY <3>2 DEF OnLine
    <3> HIDE DEF last
    <3> QED BY <3>2, <3>3, SeqEqual
  <2>6. ReadLine(p) = Got(SubSeq(wire, p, last - 2), last + 1)
    <3> HIDE DEF last
    <3> QED BY <2>1, <2>3, <2>4 DEF ReadLine
  <2>7. last + 1 = p + Len(text) + 2
    BY <1>1
  <2> QED BY <1>3, <2>5, <2>6, <2>7
<1>4. CASE arrived < last
  <2>1. ends = {}
    BY <1>1, <1>2, <1>4
  <2> QED BY <1>1, <1>4, <2>1 DEF ReadLine
<1> QED BY <1>1, <1>3, <1>4

\* parseIntLine reads the line of a numeral once its LF has arrived, and waits for it
\* until then.
LEMMA ParseIntLineOn ==
  ASSUME NEW p \in Nat \ {0}, NEW n \in Int, arrived \in Nat, OnLine(p, Numeral(n))
  PROVE  ParseIntLine(p) =
           IF p + Len(Numeral(n)) + 1 <= arrived THEN Got(n, p + Len(Numeral(n)) + 2)
           ELSE Fails("short")
<1>1. PICK s \in Seq(Digit) :
           /\ s # << >>
           /\ n >= 0 => Numeral(n) = s /\ Number(s) = n
           /\ n < 0  => Numeral(n) = <<Dash>> \o s /\ Number(s) = -n
  BY NumeralDigits
<1> DEFINE last  == p + Len(Numeral(n))
           start == IF n < 0 THEN p + 1 ELSE p
<1>2. /\ Len(s) \in Nat \ {0} /\ start \in Nat \ {0} /\ last = start + Len(s)
      /\ \A i \in 1..Len(s) : wire[start + i - 1] = s[i]
      /\ wire[p] = Dash <=> n < 0
      /\ wire[last] = CR /\ wire[last + 1] = LF
  <2>1. Len(s) \in Nat \ {0}
    BY <1>1
  <2>2. CASE n >= 0
    <3>1. start = p /\ last = p + Len(s) /\ \A i \in 1..Len(s) : wire[p + i - 1] = s[i]
      BY <1>1, <2>2 DEF OnLine
    <3>2. wire[p] = s[1] /\ s[1] # Dash
      BY <2>1, <3>1 DEF Digit, Dash
    <3>3. wire[last] = CR /\ wire[last + 1] = LF
      BY DEF OnLine
    <3> HIDE DEF last, start
    <3> QED BY <2>1, <2>2, <3>1, <3>2, <3>3
  <2>3. CASE n < 0
    <3>1. Len(Numeral(n)) = Len(s) + 1 /\ Numeral(n)[1] = Dash
          /\ \A i \in 1..Len(s) : Numeral(n)[i + 1] = s[i]
      <4>1. Numeral(n) = <<Dash>> \o s
        BY <1>1, <2>3
      <4> QED BY <4>1, TailOfCons
    <3>2. start = p + 1 /\ last = p + 1 + Len(s)
      BY <2>1, <2>3, <3>1
    <3>3. ASSUME NEW i \in 1..Len(s) PROVE wire[start + i - 1] = s[i]
      <4> DEFINE j == i + 1
      <4>1. j \in 1..Len(Numeral(n)) /\ p + j - 1 = start + i - 1 /\ Numeral(n)[j] = s[i]
        BY <2>1, <3>1, <3>2
      <4> HIDE DEF j, start
      <4>2. wire[p + j - 1] = Numeral(n)[j]
        BY <4>1 DEF OnLine
      <4> QED BY <4>1, <4>2
    <3>4. wire[p] = Dash
      <4>1. 1 \in 1..Len(Numeral(n)) /\ p + 1 - 1 = p
        BY <2>1, <3>1
      <4>2. wire[p + 1 - 1] = Numeral(n)[1]
        BY <4>1 DEF OnLine
      <4> QED BY <3>1, <4>1, <4>2
    <3>5. wire[last] = CR /\ wire[last + 1] = LF
      BY DEF OnLine
    <3> HIDE DEF last, start
    <3> QED BY <2>1, <2>3, <3>2, <3>3, <3>4, <3>5
  <2> QED BY <2>2, <2>3
<1> DEFINE stops == {i \in start..arrived : wire[i] \notin Digit} \cup {arrived + 1}
           digits(e) == SubSeq(wire, start, e - 1)
<1> HIDE DEF last, start
<1>3. ASSUME NEW i \in start..arrived, i < last PROVE wire[i] \in Digit
  <2> DEFINE j == i - start + 1
  <2>1. j \in 1..Len(s) /\ start + j - 1 = i
    BY <1>2, <1>3
  <2> HIDE DEF j
  <2>2. wire[start + j - 1] = s[j] /\ s[j] \in Digit
    BY <1>2, <2>1
  <2> QED BY <2>1, <2>2
<1> DEFINE next(e) == ByteAt(e + 1)
           Outcome(e, d) ==
             IF e > arrived THEN Fails("short")
             ELSE IF wire[e] # CR THEN Fails("protocol")
             ELSE IF next(e).failure # "none" THEN next(e)
             ELSE IF next(e).value # LF \/ d = << >> THEN Fails("protocol")
             ELSE Got(IF n < 0 THEN -Number(d) ELSE Number(d), next(e).next)
<1>4. ASSUME p <= arrived
      PROVE  ParseIntLine(p) = Outcome(Min(stops), digits(Min(stops)))
  <2>1. Minus(p) <=> n < 0
    BY <1>2, <1>4 DEF Minus
  <2>2. start = IF Minus(p) THEN p + 1 ELSE p
    BY <2>1 DEF start
  <2>3. ParseIntLine(p) =
          LET e == Min(stops)
              d == digits(e)
          IN IF e > arrived THEN Fails("short")
             ELSE IF wire[e] # CR THEN Fails("protocol")
             ELSE IF next(e).failure # "none" THEN next(e)
             ELSE IF next(e).value # LF \/ d = << >> THEN Fails("protocol")
             ELSE Got(IF Minus(p) THEN -Number(d) ELSE Number(d), next(e).next)
    BY <2>2, Zenon DEF ParseIntLine, Then
  <2> QED BY <2>1, <2>3
<1>5. last \in Nat /\ p <= last - 1 /\ last = p + Len(Numeral(n)) /\ stops \in SUBSET Int
  <2>1. Len(Numeral(n)) \in Nat \ {0}
    BY NumeralLine
  <2> QED BY <1>2, <2>1 DEF last
<1>6. CASE p > arrived
  <2>1. ~Minus(p)
    BY <1>6 DEF Minus
  <2>2. {i \in p..arrived : wire[i] \notin Digit} \cup {arrived + 1} = {arrived + 1}
    BY <1>6
  <2>3. Min({arrived + 1}) = arrived + 1
    <3>1. {arrived + 1} \in SUBSET Int /\ arrived + 1 \in {arrived + 1}
          /\ \A x \in {arrived + 1} : arrived + 1 <= x
      OBVIOUS
    <3> QED BY ONLY <3>1, MinIs
  <2>4. ParseIntLine(p) = Fails("short")
    <3> DEFINE S == {i \in p..arrived : wire[i] \notin Digit} \cup {arrived + 1}
    <3>1. Min(S) > arrived
      <4>1. S = {arrived + 1}
        BY <2>2
      <4> HIDE DEF S
      <4> QED BY <2>3, <4>1
    <3>2. (IF Minus(p) THEN p + 1 ELSE p) = p
      BY <2>1
    <3> QED BY <3>1, <3>2, Zenon DEF ParseIntLine
  <2> QED BY <1>5, <1>6, <2>4
<1>7. CASE p <= arrived /\ arrived < last
  <2>1. \A x \in stops : arrived + 1 <= x
    BY <1>2, <1>3, <1>7
  <2>2. arrived + 1 \in stops
    OBVIOUS
  <2> HIDE DEF stops
  <2>3. Min(stops) = arrived + 1
    BY <1>5, <2>1, <2>2, MinIs
  <2>4. ParseIntLine(p) = Fails("short")
    BY <1>4, <1>7, <2>3
  <2> QED BY <1>5, <1>7, <2>4
<1>8. CASE last <= arrived
  <2>1. last \in stops
    <3>1. CR \notin Digit
      BY DEF Digit, CR
    <3>2. last \in start..arrived
      BY <1>2, <1>5, <1>8
    <3> QED BY <1>2, <3>1, <3>2
  <2>2. \A x \in stops : last <= x
    BY <1>2, <1>3, <1>5, <1>8
  <2> HIDE DEF stops
  <2>3. Min(stops) = last
    BY <1>5, <2>1, <2>2, MinIs
  <2>4. digits(last) = s
    <3>1. \A i \in start..(last - 1) : wire[i] \in Digit
      BY <1>2, <1>3, <1>8
    <3>2. start \in Int /\ last - 1 \in Int /\ (last - 1) - start + 1 = Len(s) /\ start <= last - 1
      BY <1>2
    <3> DEFINE d == SubSeq(wire, start, last - 1)
    <3>3. d \in Seq(Digit) /\ Len(d) = Len(s)
          /\ \A i \in 1..Len(s) : d[i] = wire[start + i - 1]
      BY <3>1, <3>2, SubSeqProperties
    <3> HIDE DEF d
    <3>4. \A i \in 1..Len(s) : d[i] = s[i]
      BY <1>2, <3>3
    <3>5. d = s
      BY <3>3, <3>4, SeqEqual
    <3> QED BY <3>5 DEF d
  <2>5. ByteAt(last + 1) = IF last + 1 <= arrived THEN Got(LF, last + 2) ELSE Fails("short")
    BY <1>2, <1>5 DEF ByteAt
  <2>6. ParseIntLine(p) = Outcome(last, s)
    <3> HIDE DEF digits, Outcome
    <3> QED BY <1>4, <1>5, <1>8, <2>3, <2>4
  <2>7. (IF n < 0 THEN -Number(s) ELSE Number(s)) = n
    BY <1>1
  <2>8. CASE last + 1 <= arrived
    <3>1. next(last) = Got(LF, last + 2)
      BY <2>5, <2>8
    <3>2. next(last).failure = "none" /\ next(last).value = LF /\ next(last).next = last + 2
      BY <3>1 DEF Got
    <3>3. ~(last > arrived) /\ wire[last] = CR /\ s # << >>
      BY <1>1, <1>2, <1>5, <1>8
    <3>4. Outcome(last, s) = Got(n, last + 2)
      <4> HIDE DEF next
      <4> QED BY <2>7, <3>2, <3>3
    <3>5. p + Len(Numeral(n)) + 1 = last + 1 /\ p + Len(Numeral(n)) + 2 = last + 2
      BY <1>5
    <3> HIDE DEF Outcome
    <3> QED BY <2>6, <2>8, <3>4, <3>5
  <2>9. CASE ~(last + 1 <= arrived)
    <3>1. next(last) = Fails("short")
      BY <2>5, <2>9
    <3>2. next(last).failure # "none"
      BY <3>1 DEF Fails
    <3>3. ~(last > arrived) /\ wire[last] = CR
      BY <1>2, <1>5, <1>8
    <3>4. Outcome(last, s) = Fails("short")
      <4> HIDE DEF next
      <4> QED BY <3>1, <3>2, <3>3
    <3>5. p + Len(Numeral(n)) + 1 = last + 1
      BY <1>5
    <3> HIDE DEF Outcome
    <3> QED BY <2>6, <2>9, <3>4, <3>5
  <2> QED BY <2>8, <2>9
<1> QED BY <1>5, <1>6, <1>7, <1>8

-----------------------------------------------------------------------------
(* Items on the wire.                                                          *)

\* The line of an item, and whether bytes follow it.
Text(v) == IF v.type \in {OfStatus, OfError} THEN v.bytes ELSE Numeral(v.n)
HasBody(v) == v.type = OfBulk /\ v.n >= 0
Length(v) == Len(Text(v)) + 3 + (IF HasBody(v) THEN v.n + 2 ELSE 0)

\* The types of items are told apart by their first byte.
LEMMA TypesDiffer ==
  /\ {OfStatus, OfError, OfInteger, OfBulk, OfArray} \subseteq Byte \ {LF, CR}
  /\ OfStatus # OfError /\ OfStatus # OfInteger /\ OfStatus # OfBulk /\ OfStatus # OfArray
  /\ OfError # OfInteger /\ OfError # OfBulk /\ OfError # OfArray
  /\ OfInteger # OfBulk /\ OfInteger # OfArray /\ OfBulk # OfArray
BY DEF OfStatus, OfError, OfInteger, OfBulk, OfArray, Plus, Dash, Byte, LF, CR

\* The kinds of items, one by one.
LEMMA ItemKinds ==
  ASSUME NEW v \in Items
  PROVE  /\ v = Item(v.type, v.n, v.bytes)
         /\ v.type \in {OfStatus, OfError, OfInteger, OfBulk, OfArray} /\ v.n \in Int
         /\ v.bytes \in Seq(Byte)
         /\ v.type \in {OfStatus, OfError} =>
              v.n = 0 /\ \A i \in 1..Len(v.bytes) : v.bytes[i] # LF
         /\ v.type \notin {OfStatus, OfError} /\ ~HasBody(v) => v.bytes = << >>
         /\ HasBody(v) => v.n = Len(v.bytes)
         /\ v.type \in {OfBulk, OfArray} /\ v.n < 0 => v.n = -1
<1>1. v \in [type : {OfStatus, OfError, OfInteger, OfBulk, OfArray}, n : Int, bytes : Seq(Byte)]
  BY DEF Items
<1>2. v = Item(v.type, v.n, v.bytes)
  BY <1>1 DEF Item
<1>3. \/ v.type \in {OfStatus, OfError} /\ v.n = 0 /\ LF \notin Range(v.bytes)
      \/ v.type = OfInteger /\ v.bytes = << >>
      \/ v.type = OfBulk /\ v.n = Len(v.bytes)
      \/ v.type = OfArray /\ v.n >= 0 /\ v.bytes = << >>
      \/ v.type \in {OfBulk, OfArray} /\ v.n = -1 /\ v.bytes = << >>
  BY DEF Items
<1>4. LF \notin Range(v.bytes) => \A i \in 1..Len(v.bytes) : v.bytes[i] # LF
  BY <1>1 DEF Range
<1>5. Len(v.bytes) >= 0
  BY <1>1
<1> QED BY <1>1, <1>2, <1>3, <1>4, <1>5, TypesDiffer DEF HasBody

\* The line of an item holds no LF.
LEMMA TextLine ==
  ASSUME NEW v \in Items
  PROVE  Text(v) \in Seq(Byte) /\ \A i \in 1..Len(Text(v)) : Text(v)[i] # LF
<1>1. CASE v.type \in {OfStatus, OfError}
  BY <1>1, ItemKinds DEF Text
<1>2. CASE v.type \notin {OfStatus, OfError}
  <2>1. Text(v) = Numeral(v.n) /\ v.n \in Int
    BY <1>2, ItemKinds DEF Text
  <2> QED BY <2>1, NumeralLine
<1> QED BY <1>1, <1>2

\* What a terminated line is made of.
LEMMA TerminatedLine ==
  ASSUME NEW type \in Byte, NEW text \in Seq(Byte)
  PROVE  LET t == Terminated(type, text)
         IN /\ t \in Seq(Byte) /\ Len(t) = Len(text) + 3 /\ t[1] = type
            /\ \A i \in 1..Len(text) : t[i + 1] = text[i]
            /\ t[Len(text) + 2] = CR /\ t[Len(text) + 3] = LF
<1> DEFINE a == <<type>> \o text
           b == <<CR, LF>>
<1>1. <<type>> \in Seq(Byte) /\ b \in Seq(Byte) /\ Len(b) = 2 /\ b[1] = CR /\ b[2] = LF
  BY DEF Byte, CR, LF
<1>2. a \in Seq(Byte)
  BY <1>1, ConcatProperties
<1>3. Len(a) = Len(text) + 1 /\ \A i \in 1..Len(text) : a[i + 1] = text[i]
  BY TailOfCons
<1>4. a[1] = type
  BY <1>2, <1>3, TailOfCons
<1> HIDE DEF a, b
<1>5. /\ a \o b \in Seq(Byte) /\ Len(a \o b) = Len(a) + Len(b)
      /\ \A i \in 1..Len(a) + Len(b) : (a \o b)[i] = IF i <= Len(a) THEN a[i] ELSE b[i - Len(a)]
  BY <1>1, <1>2, ConcatProperties
<1>6. Terminated(type, text) = a \o b
  BY DEF Terminated, a, b
<1>7. Len(text) \in Nat
  OBVIOUS
<1>8. (a \o b)[1] = type
  BY <1>1, <1>3, <1>4, <1>5, <1>7
<1>9. \A i \in 1..Len(text) : (a \o b)[i + 1] = text[i]
  BY <1>1, <1>3, <1>5, <1>7
<1>10. (a \o b)[Len(text) + 2] = CR
  <2>1. Len(text) + 2 \in 1..Len(a) + Len(b) /\ ~(Len(text) + 2 <= Len(a))
        /\ Len(text) + 2 - Len(a) = 1
    BY <1>1, <1>3, <1>7
  <2> QED BY <1>1, <1>5, <2>1
<1>11. (a \o b)[Len(text) + 3] = LF
  <2>1. Len(text) + 3 \in 1..Len(a) + Len(b) /\ ~(Len(text) + 3 <= Len(a))
        /\ Len(text) + 3 - Len(a) = 2
    BY <1>1, <1>3, <1>7
  <2> QED BY <1>1, <1>5, <2>1
<1> QED BY <1>1, <1>3, <1>5, <1>6, <1>7, <1>8, <1>9, <1>10, <1>11

\* What the bytes of an item are: its type, its line, and what a bulk holds.
LEMMA EncodedBytes ==
  ASSUME NEW v \in Items
  PROVE  /\ Encoded(v) \in Seq(Byte) /\ Len(Encoded(v)) = Length(v) /\ Encoded(v)[1] = v.type
         /\ \A i \in 1..Len(Text(v)) : Encoded(v)[i + 1] = Text(v)[i]
         /\ Encoded(v)[Len(Text(v)) + 2] = CR /\ Encoded(v)[Len(Text(v)) + 3] = LF
         /\ HasBody(v) =>
              \A i \in 1..v.n : Encoded(v)[Len(Text(v)) + 3 + i] = v.bytes[i]
<1> DEFINE t == Terminated(v.type, Text(v))
           L == Len(Text(v))
<1>1. v.type \in Byte /\ Text(v) \in Seq(Byte) /\ L \in Nat
  BY ItemKinds, TypesDiffer, TextLine
<1>2. /\ t \in Seq(Byte) /\ Len(t) = L + 3 /\ t[1] = v.type
      /\ \A i \in 1..L : t[i + 1] = Text(v)[i]
      /\ t[L + 2] = CR /\ t[L + 3] = LF
  BY <1>1, TerminatedLine
<1>3. CASE ~HasBody(v)
  <2>1. Encoded(v) = t
    BY <1>3, ItemKinds, TypesDiffer, Zenon DEF Encoded, Text, HasBody
  <2>2. Length(v) = L + 3
    BY <1>1, <1>3 DEF Length
  <2> HIDE DEF t, L
  <2> QED BY <1>2, <1>3, <2>1, <2>2 DEF L
<1>4. CASE HasBody(v)
  <2> DEFINE b == <<CR, LF>>
             body == v.bytes \o b
  <2>1. b \in Seq(Byte) /\ Len(b) = 2 /\ v.bytes \in Seq(Byte) /\ v.n = Len(v.bytes)
    BY <1>4, ItemKinds DEF Byte, CR, LF
  <2>2. Encoded(v) = (t \o v.bytes) \o b
    <3>1. Encoded(v) = BulkBytes(v.bytes)
      BY <1>4, TypesDiffer, Zenon DEF Encoded, HasBody
    <3>2. v.type = OfBulk /\ Text(v) = Numeral(Len(v.bytes))
      BY <1>4, <2>1, TypesDiffer DEF Text, HasBody
    <3> QED BY <3>1, <3>2 DEF BulkBytes
  <2> DEFINE c == t \o v.bytes
  <2> HIDE DEF t, L, b
  <2>3. /\ c \in Seq(Byte) /\ Len(c) = Len(t) + v.n
        /\ \A i \in 1..(Len(t) + v.n) : c[i] = IF i <= Len(t) THEN t[i] ELSE v.bytes[i - Len(t)]
    <3>1. /\ c \in Seq(Byte) /\ Len(c) = Len(t) + Len(v.bytes)
          /\ \A i \in 1..(Len(t) + Len(v.bytes)) :
               c[i] = IF i <= Len(t) THEN t[i] ELSE v.bytes[i - Len(t)]
      <4> DEFINE x == v.bytes
      <4>1. t \in Seq(Byte) /\ x \in Seq(Byte) /\ c = t \o x
        BY <1>2, <2>1
      <4> HIDE DEF x, c
      <4>2. /\ c \in Seq(Byte) /\ Len(c) = Len(t) + Len(x)
            /\ \A i \in 1..(Len(t) + Len(x)) : c[i] = IF i <= Len(t) THEN t[i] ELSE x[i - Len(t)]
        BY ONLY <4>1, ConcatProperties
      <4> QED BY <4>2 DEF x
    <3> HIDE DEF c
    <3> QED BY <2>1, <3>1
  <2> HIDE DEF c
  <2>4. /\ c \o b \in Seq(Byte) /\ Len(c \o b) = Len(c) + 2
        /\ \A i \in 1..(Len(c) + 2) : (c \o b)[i] = IF i <= Len(c) THEN c[i] ELSE b[i - Len(c)]
    <3> DEFINE e == c \o b
    <3>1. /\ e \in Seq(Byte) /\ Len(e) = Len(c) + Len(b)
          /\ \A i \in 1..(Len(c) + Len(b)) :
               e[i] = IF i <= Len(c) THEN c[i] ELSE b[i - Len(c)]
      <4>1. c \in Seq(Byte) /\ b \in Seq(Byte) /\ e = c \o b
        BY <2>1, <2>3
      <4> HIDE DEF e
      <4> QED BY ONLY <4>1, ConcatProperties
    <3> HIDE DEF e
    <3>2. /\ e \in Seq(Byte) /\ Len(e) = Len(c) + 2
          /\ \A i \in 1..(Len(c) + 2) : e[i] = IF i <= Len(c) THEN c[i] ELSE b[i - Len(c)]
      BY <2>1, <3>1
    <3> QED BY <3>2 DEF e
  <2>5. v.n \in Nat /\ L \in Nat
    BY <1>1, <2>1
  <2>6. \A i \in 1..(L + 3) : (c \o b)[i] = t[i]
    BY <1>2, <2>3, <2>4, <2>5
  <2>7. ASSUME NEW i \in 1..v.n PROVE (c \o b)[L + 3 + i] = v.bytes[i]
    <3> DEFINE j == L + 3 + i
    <3>1. /\ j \in 1..(Len(t) + v.n) /\ ~(j <= Len(t)) /\ j - Len(t) = i
          /\ j \in 1..(Len(c) + 2) /\ j <= Len(c)
      BY <1>2, <2>3, <2>5
    <3> HIDE DEF j
    <3>2. (c \o b)[j] = c[j]
      BY <2>4, <3>1
    <3>3. c[j] = v.bytes[j - Len(t)]
      BY <2>3, <3>1
    <3>4. (c \o b)[j] = v.bytes[i]
      BY <3>1, <3>2, <3>3
    <3> QED BY <3>4 DEF j
  <2>8. Length(v) = L + 3 + v.n + 2
    BY <1>4, <2>5 DEF Length, L
  <2>9. Encoded(v) = c \o b
    BY <2>2 DEF c
  <2>10. /\ (c \o b)[1] = v.type /\ (c \o b)[L + 2] = CR /\ (c \o b)[L + 3] = LF
         /\ \A i \in 1..L : (c \o b)[i + 1] = Text(v)[i]
    <3>1. 1 \in 1..(L + 3) /\ L + 2 \in 1..(L + 3) /\ L + 3 \in 1..(L + 3)
          /\ \A i \in 1..L : i + 1 \in 1..(L + 3)
      BY <2>5
    <3> QED BY <1>2, <2>6, <3>1
  <2>11. Len(c \o b) = Length(v)
    BY <1>2, <2>3, <2>4, <2>5, <2>8
  <2> QED BY <2>4, <2>7, <2>9, <2>10, <2>11 DEF L
<1> QED BY <1>3, <1>4

\* The item v is on the wire at p.
OnWire(p, v) == \A i \in 1..Length(v) : wire[p + i - 1] = Encoded(v)[i]

\* Where the parts of an item on the wire are.
LEMMA PartsOnWire ==
  ASSUME NEW p \in Nat \ {0}, NEW v \in Items, OnWire(p, v)
  PROVE  /\ Len(Text(v)) \in Nat /\ Length(v) \in Nat
         /\ Length(v) = Len(Text(v)) + 3 + (IF HasBody(v) THEN v.n + 2 ELSE 0)
         /\ wire[p] = v.type /\ OnLine(p + 1, Text(v))
         /\ HasBody(v) =>
              \A i \in 1..v.n : wire[p + Len(Text(v)) + 3 + i - 1] = v.bytes[i]
<1> DEFINE L == Len(Text(v))
           E == Encoded(v)
<1>1. /\ L \in Nat /\ Length(v) \in Nat /\ (HasBody(v) => v.n \in Nat)
      /\ Length(v) = L + 3 + (IF HasBody(v) THEN v.n + 2 ELSE 0)
  BY TextLine, ItemKinds DEF Length, HasBody
<1>2. /\ E[1] = v.type /\ E[L + 2] = CR /\ E[L + 3] = LF
      /\ \A i \in 1..L : E[i + 1] = Text(v)[i]
      /\ HasBody(v) => \A i \in 1..v.n : E[L + 3 + i] = v.bytes[i]
  BY EncodedBytes
<1>3. \A i \in 1..Length(v) : wire[p + i - 1] = E[i]
  BY DEF OnWire
<1> HIDE DEF L, E
<1>4. wire[p] = v.type
  <2>1. 1 \in 1..Length(v) /\ p + 1 - 1 = p
    BY <1>1
  <2> QED BY <1>2, <1>3, <2>1
<1>5. ASSUME NEW i \in 1..L PROVE wire[(p + 1) + i - 1] = Text(v)[i]
  <2> DEFINE j == i + 1
  <2>1. j \in 1..Length(v) /\ p + j - 1 = (p + 1) + i - 1 /\ E[j] = Text(v)[i]
    BY <1>1, <1>2
  <2> HIDE DEF j
  <2> QED BY <1>3, <2>1
<1>6. wire[(p + 1) + L] = CR
  <2> DEFINE j == L + 2
  <2>1. j \in 1..Length(v) /\ p + j - 1 = (p + 1) + L /\ E[j] = CR
    BY <1>1, <1>2
  <2> HIDE DEF j
  <2> QED BY <1>3, <2>1
<1>7. wire[(p + 1) + L + 1] = LF
  <2> DEFINE j == L + 3
  <2>1. j \in 1..Length(v) /\ p + j - 1 = (p + 1) + L + 1 /\ E[j] = LF
    BY <1>1, <1>2
  <2> HIDE DEF j
  <2> QED BY <1>3, <2>1
<1>8. ASSUME HasBody(v), NEW i \in 1..v.n PROVE wire[p + L + 3 + i - 1] = v.bytes[i]
  <2> DEFINE j == L + 3 + i
  <2>1. j \in 1..Length(v) /\ p + j - 1 = p + L + 3 + i - 1 /\ E[j] = v.bytes[i]
    BY <1>1, <1>2, <1>8
  <2> HIDE DEF j
  <2> QED BY <1>3, <2>1
<1>9. OnLine(p + 1, Text(v))
  BY <1>5, <1>6, <1>7 DEF OnLine, L
<1> QED BY <1>1, <1>4, <1>8, <1>9 DEF L

\* Bytes on the wire are what is cut out of it (ReadFull).
LEMMA BytesOnWire ==
  ASSUME NEW q \in Nat \ {0}, NEW b \in Seq(Byte),
         \A i \in 1..Len(b) : wire[q + i - 1] = b[i]
  PROVE  /\ SubSeq(wire, q, q + Len(b) - 1) = b
         /\ SubSeq(SubSeq(wire, q, q + Len(b) + 1), 1, Len(b)) = b
<1> DEFINE S == Byte \cup {wire[i] : i \in Nat}
           m == Len(b)
           c == SubSeq(wire, q, q + m - 1)
           d == SubSeq(wire, q, q + m + 1)
<1>1. m \in Nat /\ b \in Seq(S)
  BY SeqMonotonic
<1>2. \A i \in Nat : wire[i] \in S
  OBVIOUS
<1>3. /\ c \in Seq(S) /\ Len(c) = m /\ \A i \in 1..m : c[i] = wire[q + i - 1]
  <2>1. q \in Int /\ q + m - 1 \in Int /\ (q + m - 1) - q + 1 = m
        /\ \A i \in q..(q + m - 1) : i \in Nat
    BY <1>1
  <2>2. \A i \in q..(q + m - 1) : wire[i] \in S
    BY <1>2, <2>1
  <2> HIDE DEF S, m
  <2> QED BY <1>1, <2>1, <2>2, SubSeqProperties
<1>4. /\ d \in Seq(S) /\ Len(d) = m + 2 /\ \A i \in 1..(m + 2) : d[i] = wire[q + i - 1]
  <2>1. q \in Int /\ q + m + 1 \in Int /\ (q + m + 1) - q + 1 = m + 2
        /\ \A i \in q..(q + m + 1) : i \in Nat
    BY <1>1
  <2>2. \A i \in q..(q + m + 1) : wire[i] \in S
    BY <1>2, <2>1
  <2> HIDE DEF S, m
  <2> QED BY <1>1, <2>1, <2>2, SubSeqProperties
<1>5. c = b
  <2> HIDE DEF S, c
  <2> QED BY <1>1, <1>3, SeqEqual
<1> DEFINE e == SubSeq(d, 1, m)
<1> HIDE DEF S, d
<1>6. e \in Seq(S) /\ Len(e) = m /\ \A i \in 1..m : e[i] = d[i]
  <2>1. 1 \in Int /\ m \in Int /\ m - 1 + 1 = m
        /\ \A i \in 1..m : d[i] \in S /\ 1 + i - 1 = i
    BY <1>1, <1>4
  <2> HIDE DEF m
  <2>2. /\ SubSeq(d, 1, m) \in Seq(S) /\ Len(SubSeq(d, 1, m)) = m
        /\ \A i \in 1..m : SubSeq(d, 1, m)[i] = d[1 + i - 1]
    <3>1. \A i \in 1..m : d[i] \in S
      BY <2>1
    <3>2. m \in Int /\ Len(SubSeq(d, 1, m)) = (IF 1 <= m THEN m - 1 + 1 ELSE 0)
          /\ SubSeq(d, 1, m) \in Seq(S)
          /\ \A i \in 1..(m - 1 + 1) : SubSeq(d, 1, m)[i] = d[1 + i - 1]
      BY ONLY <2>1, <3>1, SubSeqProperties
    <3> QED BY <1>1, <2>1, <3>2 DEF m
  <2> QED BY <2>1, <2>2
<1>7. e = b
  <2>1. ASSUME NEW i \in 1..m PROVE e[i] = b[i]
    <3>1. i \in 1..(m + 2) /\ b[i] = wire[q + i - 1]
      BY <1>1
    <3> HIDE DEF m, e
    <3> QED BY ONLY <1>4, <1>6, <2>1, <3>1
  <2>2. m \in Nat /\ e \in Seq(S) /\ b \in Seq(S) /\ Len(e) = Len(b) /\ Len(b) = m
    BY <1>1, <1>6
  <2> HIDE DEF e, m
  <2> QED BY ONLY <2>1, <2>2, SeqEqual
<1> QED BY <1>5, <1>7 DEF d

-----------------------------------------------------------------------------
(* Reads of an item.                                                           *)

\* The fields of what a read comes to.
LEMMA ReadFields ==
  /\ \A v, n : Got(v, n).failure = "none" /\ Got(v, n).value = v /\ Got(v, n).next = n
  /\ \A w : Fails(w).failure = w
BY DEF Got, Fails

\* A byte that has arrived is read.
LEMMA ByteArrived ==
  ASSUME NEW p, p <= arrived, ~(p > arrived)
  PROVE  ByteAt(p).failure = "none" /\ ByteAt(p).value = wire[p] /\ ByteAt(p).next = p + 1
BY DEF ByteAt, Got

\* ReadReply passes the line on to the read that its type is for.
LEMMA ReadReplyByType ==
  ASSUME NEW p, p <= arrived, ~(p > arrived), NEW text, NEW next,
         ReadLine(p + 1) = Got(text, next)
  PROVE  /\ wire[p] = OfStatus => ReadReply(p) = Got(Status(text), next)
         /\ wire[p] = OfError => ReadReply(p) = Fails("redis")
         /\ wire[p] = OfInteger =>
              ReadReply(p) = IF ParseInt(text, next).failure = "none"
                             THEN Got(Integer(ParseInt(text, next).value), ParseInt(text, next).next)
                             ELSE ParseInt(text, next)
         /\ wire[p] = OfBulk => ReadReply(p) = ReadBulk(text, next)
         /\ wire[p] = OfArray => ReadReply(p) = ReadArray(text, next)
<1>1. ByteAt(p).failure = "none" /\ ByteAt(p).value = wire[p] /\ ByteAt(p).next = p + 1
  BY ByteArrived
<1>2. /\ ReadLine(p + 1).failure = "none" /\ ReadLine(p + 1).value = text
      /\ ReadLine(p + 1).next = next
  BY ReadFields
<1>3. ASSUME wire[p] = OfStatus PROVE ReadReply(p) = Got(Status(text), next)
  BY <1>1, <1>2, <1>3, TypesDiffer, ZenonT(30) DEF ReadReply, Then
<1>4. ASSUME wire[p] = OfError PROVE ReadReply(p) = Fails("redis")
  BY <1>1, <1>2, <1>4, TypesDiffer, ZenonT(30) DEF ReadReply, Then
<1>5. ASSUME wire[p] = OfInteger
      PROVE  ReadReply(p) = IF ParseInt(text, next).failure = "none"
                            THEN Got(Integer(ParseInt(text, next).value), ParseInt(text, next).next)
                            ELSE ParseInt(text, next)
  BY <1>1, <1>2, <1>5, TypesDiffer, ZenonT(30) DEF ReadReply, Then
<1>6. ASSUME wire[p] = OfBulk PROVE ReadReply(p) = ReadBulk(text, next)
  BY <1>1, <1>2, <1>6, TypesDiffer, ZenonT(30) DEF ReadReply, Then
<1>7. ASSUME wire[p] = OfArray PROVE ReadReply(p) = ReadArray(text, next)
  BY <1>1, <1>2, <1>7, TypesDiffer, ZenonT(30) DEF ReadReply, Then
<1> QED BY <1>3, <1>4, <1>5, <1>6, <1>7

\* A read waits when nothing of the item has arrived, and when its line has not.
LEMMA ReadReplyWaits ==
  ASSUME NEW p, p > arrived \/ (p <= arrived /\ ~(p > arrived) /\ ReadLine(p + 1) = Fails("short"))
  PROVE  ReadReply(p) = Fails("short")
<1>1. CASE p > arrived
  <2>1. ByteAt(p) = Fails("short") /\ ByteAt(p).failure # "none"
    BY <1>1 DEF ByteAt, Fails
  <2> QED BY <2>1, Zenon DEF ReadReply, Then
<1>2. CASE p <= arrived /\ ~(p > arrived) /\ ReadLine(p + 1) = Fails("short")
  <2>1. ByteAt(p).failure = "none" /\ ByteAt(p).next = p + 1
    BY <1>2, ByteArrived
  <2>2. ReadLine(p + 1).failure # "none"
    BY <1>2 DEF Fails
  <2> QED BY <1>2, <2>1, <2>2, Zenon DEF ReadReply, Then
<1> QED BY <1>1, <1>2

\* v has arrived to its last byte.
Arrived(p, v) == p + Length(v) - 1 <= arrived

\* What ReadReply makes of an item: it waits for the last byte and for none behind it.
LEMMA ReadReplyOn ==
  ASSUME NEW p \in Nat \ {0}, NEW v \in Items, OnWire(p, v), arrived \in Nat
  PROVE  /\ ~Arrived(p, v) => ReadReply(p) = Fails("short")
         /\ Arrived(p, v) /\ v.type = OfError => ReadReply(p) = Fails("redis")
         /\ Arrived(p, v) /\ v.type # OfError =>
              ReadReply(p) = Got(IF v.type \in {OfBulk, OfArray} /\ v.n < 0 THEN Nil ELSE v,
                                 p + Length(v))
<1> DEFINE text == Text(v)
           L == Len(text)
           next == p + L + 3
<1>1. /\ L \in Nat /\ Length(v) \in Nat /\ text \in Seq(Byte)
      /\ Length(v) = L + 3 + (IF HasBody(v) THEN v.n + 2 ELSE 0)
      /\ wire[p] = v.type /\ OnLine(p + 1, text)
      /\ HasBody(v) => v.n \in Nat
  BY PartsOnWire, TextLine, ItemKinds DEF HasBody
<1>2. ReadLine(p + 1) = IF p + L + 2 <= arrived THEN Got(text, next) ELSE Fails("short")
  <2>1. ReadLine(p + 1) = IF (p + 1) + L + 1 <= arrived THEN Got(text, (p + 1) + L + 2)
                          ELSE Fails("short")
    <3>1. /\ p + 1 \in Nat \ {0} /\ text \in Seq(Byte) /\ arrived \in Nat
          /\ OnLine(p + 1, text) /\ \A i \in 1..Len(text) : text[i] # LF
      BY <1>1, TextLine
    <3> HIDE DEF text
    <3> QED BY ONLY <3>1, ReadLineOn
  <2>2. (p + 1) + L + 1 = p + L + 2 /\ (p + 1) + L + 2 = next
    BY <1>1
  <2> QED BY <2>1, <2>2
<1>3. p + Length(v) = next + (IF HasBody(v) THEN v.n + 2 ELSE 0)
  <2> DEFINE body == IF HasBody(v) THEN v.n + 2 ELSE 0
  <2>1. L \in Nat /\ body \in Nat /\ Length(v) = L + 3 + body
    BY <1>1
  <2> HIDE DEF L, body
  <2> QED BY <2>1 DEF body
<1>4. v.type \in {OfStatus, OfError, OfInteger, OfBulk, OfArray} /\ v.n \in Int
  BY ItemKinds
<1>5. CASE p + L + 2 > arrived
  <2>1. ~Arrived(p, v)
    BY <1>1, <1>5 DEF Arrived
  <2>2. p > arrived \/ (p <= arrived /\ ~(p > arrived) /\ ReadLine(p + 1) = Fails("short"))
    BY <1>1, <1>2, <1>5
  <2> QED BY <2>1, <2>2, ReadReplyWaits
<1>6. CASE p + L + 2 <= arrived
  <2>1. p <= arrived /\ ~(p > arrived) /\ ReadLine(p + 1) = Got(text, next)
    BY <1>1, <1>2, <1>6
  <2>2. ~HasBody(v) => Arrived(p, v) /\ p + Length(v) = next
    BY <1>1, <1>3, <1>6 DEF Arrived
  <2>3. CASE v.type = OfStatus
    <3>1. ReadReply(p) = Got(Status(text), next)
      BY <1>1, <2>1, <2>3, ReadReplyByType
    <3>2. Status(text) = v
      BY <2>3, ItemKinds DEF Status, Text
    <3> QED BY <2>2, <2>3, <3>1, <3>2, TypesDiffer DEF HasBody
  <2>4. CASE v.type = OfError
    <3>1. ReadReply(p) = Fails("redis")
      BY <1>1, <2>1, <2>4, ReadReplyByType
    <3> QED BY <2>2, <2>4, <3>1, TypesDiffer DEF HasBody
  <2>5. v.type \notin {OfStatus, OfError} => ParseInt(text, next) = Got(v.n, next)
    BY <1>4, ParseNumeral DEF Text
  <2>6. CASE v.type = OfInteger
    <3>1. ReadReply(p) = Got(Integer(v.n), next)
      <4>1. ParseInt(text, next) = Got(v.n, next)
        BY <2>5, <2>6, TypesDiffer
      <4> QED BY <1>1, <2>1, <2>6, <4>1, ReadReplyByType, ReadFields
    <3>2. Integer(v.n) = v
      BY <2>6, ItemKinds, TypesDiffer DEF Integer, HasBody
    <3> QED BY <2>2, <2>6, <3>1, <3>2, TypesDiffer DEF HasBody
  <2>7. CASE v.type = OfArray
    <3>1. ReadReply(p) = Got(IF v.n < 0 THEN Nil ELSE ArrayOf(v.n), next)
      <4>1. ParseInt(text, next) = Got(v.n, next)
        BY <2>5, <2>7, TypesDiffer
      <4>2. ReadReply(p) = ReadArray(text, next)
        BY <1>1, <2>1, <2>7, ReadReplyByType
      <4> QED BY <4>1, <4>2, ReadFields DEF ReadArray, Then
    <3>2. ArrayOf(v.n) = v
      BY <2>7, ItemKinds, TypesDiffer DEF ArrayOf, HasBody
    <3> QED BY <2>2, <2>7, <3>1, <3>2, TypesDiffer DEF HasBody
  <2>8. CASE v.type = OfBulk
    <3>1. ParseInt(text, next) = Got(v.n, next)
      BY <2>5, <2>8, TypesDiffer
    <3>2. ReadReply(p) = ReadBulk(text, next)
      BY <1>1, <2>1, <2>8, ReadReplyByType
    <3> DEFINE read == BytesAt(next, v.n + 2)
    <3>3. ReadBulk(text, next) =
            IF v.n < 0 THEN Got(Nil, next)
            ELSE IF read.failure = "none"
            THEN Got(Bulk(SubSeq(read.value, 1, v.n)), read.next) ELSE read
      BY <3>1, ReadFields DEF ReadBulk, Then, IsNil, BulkLength
    <3> HIDE DEF read
    <3>4. CASE v.n < 0
      <4>1. ReadReply(p) = Got(Nil, next)
        BY <3>2, <3>3, <3>4
      <4>2. Arrived(p, v) /\ p + Length(v) = next
        BY <1>4, <2>2, <3>4 DEF HasBody
      <4>3. v.type \in {OfBulk, OfArray} /\ v.type # OfError
        BY <2>8, TypesDiffer
      <4> QED BY <3>4, <4>1, <4>2, <4>3
    <3>5. CASE ~(v.n < 0)
      <4>1. HasBody(v) /\ v.n = Len(v.bytes) /\ v.bytes \in Seq(Byte) /\ v.n \in Nat
        BY <1>4, <2>8, <3>5, ItemKinds DEF HasBody
      <4>2. read = IF next + (v.n + 2) - 1 > arrived THEN Fails("short")
                   ELSE Got(SubSeq(wire, next, next + (v.n + 2) - 1), next + (v.n + 2))
        BY DEF read, BytesAt
      <4>3. next + (v.n + 2) = p + Length(v) /\ next + (v.n + 2) - 1 = next + v.n + 1
            /\ p + Length(v) \in Nat /\ next \in Nat \ {0}
        <5>1. p + Length(v) = next + (v.n + 2)
          BY <1>3, <4>1
        <5>2. next \in Nat \ {0} /\ v.n \in Nat
          BY <1>1, <4>1
        <5> HIDE DEF next
        <5> QED BY <5>1, <5>2
      <4>4. \A i \in 1..v.n : wire[next + i - 1] = v.bytes[i]
        BY <4>1, PartsOnWire
      <4>5. SubSeq(SubSeq(wire, next, next + v.n + 1), 1, v.n) = v.bytes
        <5> HIDE DEF next
        <5> QED BY <4>1, <4>3, <4>4, BytesOnWire
      <4>6. Bulk(v.bytes) = v
        BY <2>8, <4>1, ItemKinds DEF Bulk
      <4> HIDE DEF next
      <4>7. CASE Arrived(p, v)
        <5>1. read = Got(SubSeq(wire, next, next + v.n + 1), p + Length(v))
          <6>1. next + v.n + 1 <= arrived /\ next + v.n + 1 = next + (v.n + 2) - 1
            <7>1. p + Length(v) - 1 <= arrived
              BY <4>7 DEF Arrived
            <7>2. v.n \in Nat /\ next \in Nat /\ p + Length(v) = next + (v.n + 2)
              BY <4>1, <4>3
            <7>3. p \in Nat /\ Length(v) \in Nat /\ arrived \in Nat
              BY <1>1
            <7> QED BY ONLY <7>1, <7>2, <7>3
          <6>2. ~(next + (v.n + 2) - 1 > arrived)
            BY <4>1, <4>3, <6>1
          <6> QED BY <4>2, <4>3, <6>1, <6>2
        <5>2. ReadReply(p) = Got(v, p + Length(v))
          <6>1. read.failure = "none" /\ read.next = p + Length(v)
                /\ read.value = SubSeq(wire, next, next + v.n + 1)
            BY <5>1, ReadFields
          <6> HIDE DEF read
          <6> QED BY <3>2, <3>3, <3>5, <4>5, <4>6, <6>1
        <5> QED BY <2>8, <3>5, <4>7, <5>2, TypesDiffer
      <4>8. CASE ~Arrived(p, v)
        <5>1. read = Fails("short")
          <6>1. next + (v.n + 2) - 1 > arrived
            <7>1. ~(p + Length(v) - 1 <= arrived)
              BY <4>8 DEF Arrived
            <7>2. v.n \in Nat /\ next \in Nat /\ p + Length(v) = next + (v.n + 2)
              BY <4>1, <4>3
            <7>3. p \in Nat /\ Length(v) \in Nat /\ arrived \in Nat
              BY <1>1
            <7> QED BY ONLY <7>1, <7>2, <7>3
          <6> QED BY <4>2, <6>1
        <5>2. ReadReply(p) = Fails("short")
          BY <3>2, <3>3, <3>5, <5>1, ReadFields
        <5> QED BY <4>8, <5>2
      <4> QED BY <4>7, <4>8
    <3> QED BY <3>4, <3>5
  <2> QED BY <1>4, <2>3, <2>4, <2>6, <2>7, <2>8
<1> QED BY <1>1, <1>5, <1>6

\* What the fast path makes of the first item of a reply.
LEMMA ReadFixedHeaderOn ==
  ASSUME NEW p \in Nat \ {0}, NEW v \in Items, OnWire(p, v), arrived \in Nat
  PROVE  \/ ReadFixedHeader(p) = Fails("short") /\ ~Arrived(p, v)
         \/ ReadFixedHeader(p) = Fails("redis") /\ Arrived(p, v) /\ v.type = OfError
         \/ /\ ReadFixedHeader(p) = Got(ArrayOf(IF v.n < 0 THEN 0 ELSE v.n), p + Length(v))
            /\ Arrived(p, v) /\ v.type = OfArray
         \/ ReadFixedHeader(p) = Fails("protocol") /\ v.type \notin {OfArray, OfError}
<1> DEFINE L == Len(Text(v))
<1>1. /\ L \in Nat /\ Length(v) \in Nat /\ v.n \in Int
      /\ Length(v) = L + 3 + (IF HasBody(v) THEN v.n + 2 ELSE 0)
      /\ wire[p] = v.type /\ OnLine(p + 1, Text(v))
  BY PartsOnWire, ItemKinds
<1>2. v.type # OfBulk => Length(v) = L + 3
  BY <1>1 DEF HasBody
<1>3. CASE p > arrived
  <2>1. ByteAt(p) = Fails("short") /\ ByteAt(p).failure # "none"
    BY <1>3 DEF ByteAt, Fails
  <2>2. ReadFixedHeader(p) = Fails("short")
    BY <2>1, Zenon DEF ReadFixedHeader, Then
  <2>3. ~Arrived(p, v)
    <3>1. Length(v) >= 1
      BY <1>1, ItemKinds DEF HasBody
    <3> QED BY <1>1, <1>3, <3>1 DEF Arrived
  <2> QED BY <2>2, <2>3
<1>4. CASE p <= arrived
  <2>1. ByteAt(p).failure = "none" /\ ByteAt(p).value = v.type /\ ByteAt(p).next = p + 1
    <3>1. ~(p > arrived)
      BY <1>4
    <3> QED BY <1>1, <1>4, <3>1, ByteArrived
  <2>2. CASE v.type = OfError
    <3> DEFINE read == ReadLine(p + 1)
    <3>1. read = IF p + L + 2 <= arrived THEN Got(Text(v), p + L + 3) ELSE Fails("short")
      <4>1. /\ p + 1 \in Nat \ {0} /\ Text(v) \in Seq(Byte) /\ arrived \in Nat
            /\ OnLine(p + 1, Text(v)) /\ \A i \in 1..Len(Text(v)) : Text(v)[i] # LF
        BY <1>1, TextLine
      <4>2. read = IF (p + 1) + L + 1 <= arrived THEN Got(Text(v), (p + 1) + L + 2)
                   ELSE Fails("short")
        BY ONLY <4>1, ReadLineOn
      <4>3. (p + 1) + L + 1 = p + L + 2 /\ (p + 1) + L + 2 = p + L + 3
        BY <1>1
      <4> QED BY <4>2, <4>3
    <3>2. Arrived(p, v) <=> p + L + 2 <= arrived
      BY <1>1, <1>2, <2>2, TypesDiffer DEF Arrived
    <3>3. ReadFixedHeader(p) = IF read.failure = "none" THEN Fails("redis") ELSE read
      BY <2>1, <2>2, TypesDiffer, ZenonT(30) DEF ReadFixedHeader, Then
    <3> HIDE DEF read
    <3> QED BY <2>2, <3>1, <3>2, <3>3, ReadFields
  <2>3. CASE v.type = OfArray
    <3> DEFINE read == ParseIntLine(p + 1)
    <3>1. read = IF p + L + 2 <= arrived THEN Got(v.n, p + L + 3) ELSE Fails("short")
      <4>1. Text(v) = Numeral(v.n)
        BY <2>3, TypesDiffer DEF Text
      <4>2. /\ p + 1 \in Nat \ {0} /\ v.n \in Int /\ arrived \in Nat
            /\ OnLine(p + 1, Numeral(v.n))
        BY <1>1, <4>1
      <4>3. ParseIntLine(p + 1) = IF (p + 1) + Len(Numeral(v.n)) + 1 <= arrived
                                  THEN Got(v.n, (p + 1) + Len(Numeral(v.n)) + 2)
                                  ELSE Fails("short")
        BY ONLY <4>2, ParseIntLineOn
      <4>4. (p + 1) + L + 1 = p + L + 2 /\ (p + 1) + L + 2 = p + L + 3
        BY <1>1
      <4> QED BY <4>1, <4>3, <4>4
    <3>2. (Arrived(p, v) <=> p + L + 2 <= arrived) /\ p + Length(v) = p + L + 3
      BY <1>1, <1>2, <2>3, TypesDiffer DEF Arrived
    <3>3. ReadFixedHeader(p) =
            IF read.failure = "none" THEN Got(ArrayOf(IF read.value < 0 THEN 0 ELSE read.value), read.next)
            ELSE read
      BY <2>1, <2>3, TypesDiffer, ZenonT(30) DEF ReadFixedHeader, Then
    <3> HIDE DEF read
    <3> QED BY <2>3, <3>1, <3>2, <3>3, ReadFields
  <2>4. CASE v.type \notin {OfArray, OfError}
    <3>1. ReadFixedHeader(p) = Fails("protocol")
      BY <2>1, <2>4, ZenonT(30) DEF ReadFixedHeader, Then
    <3> QED BY <2>4, <3>1
  <2> QED BY <2>2, <2>3, <2>4
<1> QED BY <1>1, <1>3, <1>4

\* What the fast path makes of an item in its loop.
LEMMA ReadFixedMemberOn ==
  ASSUME NEW p \in Nat \ {0}, NEW v \in Items, OnWire(p, v), arrived \in Nat
  PROVE  \/ ReadFixedMember(p) = Fails("short") /\ ~Arrived(p, v)
         \/ /\ ReadFixedMember(p) = Got(v, p + Length(v))
            /\ Arrived(p, v) /\ v.type = OfBulk /\ v.n = Size
         \/ ReadFixedMember(p) = Fails("protocol") /\ (v.type # OfBulk \/ v.n # Size)
<1> DEFINE L == Len(Text(v))
           next == p + L + 3
<1>1. /\ L \in Nat /\ Length(v) \in Nat /\ v.n \in Int
      /\ Length(v) = L + 3 + (IF HasBody(v) THEN v.n + 2 ELSE 0)
      /\ wire[p] = v.type /\ OnLine(p + 1, Text(v)) /\ L + 3 <= Length(v)
  BY PartsOnWire, ItemKinds DEF HasBody
<1>2. CASE p > arrived
  <2>1. ByteAt(p) = Fails("short") /\ ByteAt(p).failure # "none"
    BY <1>2 DEF ByteAt, Fails
  <2>2. ReadFixedMember(p) = Fails("short")
    BY <2>1, Zenon DEF ReadFixedMember, Then
  <2>3. ~Arrived(p, v)
    BY <1>1, <1>2 DEF Arrived
  <2> QED BY <2>2, <2>3
<1>3. CASE p <= arrived
  <2>1. ByteAt(p).failure = "none" /\ ByteAt(p).value = v.type /\ ByteAt(p).next = p + 1
    <3>1. ~(p > arrived)
      BY <1>3
    <3> QED BY <1>1, <1>3, <3>1, ByteArrived
  <2>2. CASE v.type # OfBulk
    <3>1. ReadFixedMember(p) = Fails("protocol")
      BY <2>1, <2>2, ZenonT(30) DEF ReadFixedMember, Then
    <3> QED BY <2>2, <3>1
  <2>3. CASE v.type = OfBulk
    <3> DEFINE line == ParseIntLine(p + 1)
    <3>1. line = IF p + L + 2 <= arrived THEN Got(v.n, next) ELSE Fails("short")
      <4>1. Text(v) = Numeral(v.n)
        BY <2>3, TypesDiffer DEF Text
      <4>2. /\ p + 1 \in Nat \ {0} /\ v.n \in Int /\ arrived \in Nat
            /\ OnLine(p + 1, Numeral(v.n))
        BY <1>1, <4>1
      <4>3. ParseIntLine(p + 1) = IF (p + 1) + Len(Numeral(v.n)) + 1 <= arrived
                                  THEN Got(v.n, (p + 1) + Len(Numeral(v.n)) + 2)
                                  ELSE Fails("short")
        BY ONLY <4>2, ParseIntLineOn
      <4>4. (p + 1) + L + 1 = p + L + 2 /\ (p + 1) + L + 2 = next
        BY <1>1
      <4> QED BY <4>1, <4>3, <4>4
    <3>2. CASE ~(p + L + 2 <= arrived)
      <4>1. ~Arrived(p, v)
        BY <1>1, <3>2 DEF Arrived
      <4>2. line = Fails("short") /\ line.failure # "none"
        BY <3>1, <3>2, ReadFields
      <4>3. ReadFixedMember(p) = line
        BY <2>1, <2>3, <4>2, ZenonT(30) DEF ReadFixedMember, Then
      <4> QED BY <4>1, <4>2, <4>3
    <3>3. CASE p + L + 2 <= arrived /\ v.n # Size
      <4>1. line.failure = "none" /\ line.value = v.n
        BY <3>1, <3>3, ReadFields
      <4>2. ReadFixedMember(p) = Fails("protocol")
        BY <2>1, <2>3, <3>3, <4>1, ZenonT(30) DEF ReadFixedMember, Then
      <4> QED BY <3>3, <4>2
    <3>4. CASE p + L + 2 <= arrived /\ v.n = Size
      <4>1. line.failure = "none" /\ line.value = Size /\ line.next = next
        BY <3>1, <3>4, ReadFields
      <4> DEFINE body == BytesAt(next, Size)
                 tail == BytesAt(next + Size, 2)
      <4>2. HasBody(v) /\ v.bytes \in Seq(Byte) /\ Len(v.bytes) = Size /\ Bulk(v.bytes) = v
        BY <2>3, <3>4, ItemKinds DEF HasBody, Bulk
      <4>3. /\ next \in Nat \ {0} /\ p + Length(v) = (next + Size) + 2
            /\ (Arrived(p, v) <=> (next + Size) + 2 - 1 <= arrived)
        BY <1>1, <3>4, <4>2 DEF Arrived
      <4>4. SubSeq(wire, next, next + Size - 1) = v.bytes
        <5>1. \A i \in 1..v.n : wire[next + i - 1] = v.bytes[i]
          BY <4>2, PartsOnWire
        <5> HIDE DEF next
        <5> QED BY <3>4, <4>2, <4>3, <5>1, BytesOnWire
      <4>5. body = IF next + Size - 1 > arrived THEN Fails("short") ELSE Got(v.bytes, next + Size)
        BY <4>4 DEF BytesAt
      <4>6. tail = IF (next + Size) + 2 - 1 > arrived THEN Fails("short")
                   ELSE Got(SubSeq(wire, next + Size, (next + Size) + 2 - 1), (next + Size) + 2)
        BY DEF BytesAt
      <4> HIDE DEF next, line
      <4>7. CASE body.failure # "none"
        <5>1. ReadFixedMember(p) = body
          BY <2>1, <2>3, <4>1, <4>7, ZenonT(30) DEF ReadFixedMember, Then, line
        <5>2. body = Fails("short") /\ next + Size - 1 > arrived
          BY <4>5, <4>7, ReadFields
        <5>3. ~Arrived(p, v)
          BY <4>3, <5>2
        <5> QED BY <5>1, <5>2, <5>3
      <4>8. CASE body.failure = "none"
        <5>1. body.value = v.bytes /\ body.next = next + Size
          BY <4>5, <4>8, ReadFields
        <5>2. ReadFixedMember(p) = IF tail.failure = "none" THEN Got(Bulk(v.bytes), tail.next) ELSE tail
          BY <2>1, <2>3, <4>1, <4>8, <5>1, ZenonT(30) DEF ReadFixedMember, Then, line
        <5>3. CASE Arrived(p, v)
          <6>1. tail.failure = "none" /\ tail.next = p + Length(v)
            BY <4>3, <4>6, <5>3, ReadFields
          <6> QED BY <2>3, <3>4, <4>2, <5>2, <5>3, <6>1
        <5>4. CASE ~Arrived(p, v)
          <6>1. tail = Fails("short") /\ tail.failure # "none"
            BY <4>3, <4>6, <5>4, ReadFields
          <6> QED BY <5>2, <5>4, <6>1
        <5> QED BY <5>3, <5>4
      <4> QED BY <4>7, <4>8
    <3> QED BY <3>2, <3>3, <3>4
  <2> QED BY <2>2, <2>3
<1> QED BY <1>2, <1>3

\* What a call makes of the next item, once for both readers.
LEMMA ReadOn ==
  ASSUME NEW v \in Items, pos \in Nat \ {0}, left \in Nat, arrived \in Nat, OnWire(pos, v)
  PROVE  \/ Read = Fails("short") /\ ~Arrived(pos, v)
         \/ Read = Fails("redis") /\ Arrived(pos, v) /\ v.type = OfError
         \/ Read = Got(Value(v), pos + Length(v)) /\ Arrived(pos, v)
         \/ Read = Fails("protocol") /\ Fast /\ Misfit(v)
<1>1. CASE ~Fast
  <2>1. Value(v) = IF v.type \in {OfBulk, OfArray} /\ v.n < 0 THEN Nil ELSE v
    BY <1>1, ItemKinds DEF Value
  <2>2. Read = ReadReply(pos)
    BY <1>1 DEF Read
  <2> QED BY <2>1, <2>2, ReadReplyOn
<1>2. CASE Fast /\ left = 0
  <2>1. Read = ReadFixedHeader(pos)
    BY <1>2 DEF Read
  <2>2. v.type = OfArray => Value(v) = ArrayOf(IF v.n < 0 THEN 0 ELSE v.n)
    <3>1. v.type = OfArray /\ v.n >= 0 => ArrayOf(v.n) = v
      BY ItemKinds, TypesDiffer DEF ArrayOf, HasBody
    <3> QED BY <1>2, <3>1, ItemKinds DEF Value
  <2>3. v.type \notin {OfArray, OfError} => Misfit(v)
    BY <1>2 DEF Misfit
  <2> QED BY <1>2, <2>1, <2>2, <2>3, ReadFixedHeaderOn
<1>3. CASE Fast /\ left # 0
  <2>1. Read = ReadFixedMember(pos)
    BY <1>3 DEF Read
  <2>2. v.type = OfBulk /\ v.n = Size => Value(v) = v
    BY DEF Value
  <2>3. v.type # OfBulk \/ v.n # Size => Misfit(v)
    BY <1>3 DEF Misfit
  <2> QED BY <1>3, <2>1, <2>2, <2>3, ReadFixedMemberOn
<1> QED BY <1>1, <1>2, <1>3

\* A call waits when nothing of the next item has arrived.
LEMMA ReadBehind ==
  ASSUME pos \in Nat, arrived \in Nat, pos > arrived
  PROVE  Read = Fails("short")
<1>1. ByteAt(pos) = Fails("short") /\ ByteAt(pos).failure # "none"
  BY DEF ByteAt, Fails
<1>2. ReadReply(pos) = Fails("short")
  BY ReadReplyWaits
<1>3. ReadFixedHeader(pos) = Fails("short")
  BY <1>1, Zenon DEF ReadFixedHeader, Then
<1>4. ReadFixedMember(pos) = Fails("short")
  BY <1>1, Zenon DEF ReadFixedMember, Then
<1> QED BY <1>2, <1>3, <1>4 DEF Read

-----------------------------------------------------------------------------
(* The invariant.                                                              *)

Marks == [end : Nat, replies : Nat, owed : Nat]

\* The peer keeps an account of its items, each of which is on the wire behind the one
\* before it.
PeerInv ==
  /\ stream \in Streams /\ wire \in Seq(Byte) /\ arrived \in 0..Len(wire) /\ cut \in BOOLEAN
  /\ sent \in Seq(Marks) /\ Len(sent) <= Len(stream.items)
  /\ Len(wire) = Mark(Len(sent)).end
  /\ \A k \in 1..Len(sent) :
       /\ sent[k].end = Mark(k - 1).end + Length(stream.items[k])
       /\ sent[k].owed = After(Mark(k - 1).owed, stream.items[k])
       /\ sent[k].replies = Mark(k - 1).replies + (IF sent[k].owed = 0 THEN 1 ELSE 0)
       /\ OnWire(Mark(k - 1).end + 1, stream.items[k])
  /\ \A j, k \in 0..Len(sent) :
       j <= k => Mark(j).end <= Mark(k).end /\ Mark(j).replies <= Mark(k).replies

\* The reader is in step with the peer; its last failure was a real one.
ReaderInv ==
  /\ pos \in Nat \ {0} /\ left \in Nat /\ calls \in Nat /\ got \in Seq(Items \cup {Nil})
  /\ InSync /\ FailuresAreReal

Inv == PeerInv /\ ReaderInv

\* An account is of numbers, the one of no items too.
LEMMA MarkType ==
  ASSUME sent \in Seq(Marks), NEW k \in 0..Len(sent)
  PROVE  /\ Mark(k) \in Marks
         /\ Mark(k).end \in Nat /\ Mark(k).replies \in Nat /\ Mark(k).owed \in Nat
         /\ Mark(0).end = 0 /\ Mark(0).replies = 0 /\ Mark(0).owed = 0
<1>1. Mark(0) = [end |-> 0, replies |-> 0, owed |-> 0]
  BY DEF Mark
<1>2. k # 0 => Mark(k) = sent[k] /\ sent[k] \in Marks
  BY DEF Mark
<1>3. Mark(k) \in Marks
  BY <1>1, <1>2 DEF Marks
<1> QED BY <1>1, <1>3 DEF Marks

\* What is left of a reply is a number of items, whether counted by peer or reader.
LEMMA AfterType ==
  ASSUME NEW owed \in Nat, NEW v \in Items
  PROVE  After(owed, v) \in Nat /\ After(owed, Value(v)) = After(owed, v)
<1>1. v.n \in Int
  BY ItemKinds
<1>2. After(owed, v) \in Nat
  BY <1>1 DEF After
<1>3. CASE Value(v) = v
  BY <1>2, <1>3
<1>4. CASE Value(v) # v
  <2>1. v.n < 0 /\ (Value(v) = ArrayOf(0) \/ Value(v) = Nil)
    BY <1>1, <1>4 DEF Value
  <2>2. Value(v).n <= 0 /\ Value(v).n \in Int
    BY <2>1 DEF ArrayOf, Nil, Item
  <2> QED BY <1>1, <1>2, <2>1, <2>2 DEF After
<1> QED BY <1>3, <1>4

\* The items of a stream are items.
LEMMA StreamItems ==
  ASSUME stream \in Streams
  PROVE  /\ stream.items \in Seq(Items) /\ Len(stream.items) \in Nat
         /\ \A k \in 1..Len(stream.items) : stream.items[k] \in Items
<1>1. stream.items \in Seq(Items)
  OBVIOUS
<1> QED BY <1>1

\* When an item has been sent that the reader has not read, it stands before it.
LEMMA ItemAhead ==
  ASSUME Inv, Len(got) < Len(sent)
  PROVE  LET k == Len(got) + 1
             v == stream.items[k]
         IN /\ v \in Items /\ k \in 1..Len(sent) /\ OnWire(pos, v) /\ Length(v) \in Nat
            /\ pos + Length(v) = sent[k].end + 1 /\ sent[k].end \in Nat
            /\ (Arrived(pos, v) <=> sent[k].end <= arrived)
<1> DEFINE k == Len(got) + 1
           v == stream.items[k]
<1>1. k \in 1..Len(sent) /\ k - 1 = Len(got) /\ Len(got) \in 0..Len(sent)
      /\ k \in 1..Len(stream.items)
  BY StreamItems DEF Inv, PeerInv, ReaderInv
<1>2. v \in Items
  BY <1>1, StreamItems DEF Inv, PeerInv
<1>3. pos = Mark(Len(got)).end + 1
  BY DEF Inv, ReaderInv, InSync
<1> HIDE DEF k, v
<1>4. sent[k].end = Mark(k - 1).end + Length(stream.items[k])
      /\ OnWire(Mark(k - 1).end + 1, stream.items[k])
  BY <1>1 DEF Inv, PeerInv
<1>5. sent[k].end = Mark(Len(got)).end + Length(v) /\ OnWire(pos, v)
  BY <1>1, <1>3, <1>4 DEF v
<1>6. Mark(Len(got)).end \in Nat /\ arrived \in Nat /\ pos \in Nat \ {0}
  BY <1>1, MarkType DEF Inv, PeerInv, ReaderInv
<1>7. Length(v) \in Nat
  BY <1>2, <1>5, <1>6, PartsOnWire
<1>8. pos + Length(v) = sent[k].end + 1 /\ sent[k].end \in Nat
  <2> DEFINE b == Mark(Len(got)).end
             L == Length(v)
  <2>1. b \in Nat /\ L \in Nat /\ pos = b + 1 /\ sent[k].end = b + L
    BY <1>3, <1>5, <1>6, <1>7
  <2> HIDE DEF b, L
  <2>2. pos + L = sent[k].end + 1 /\ sent[k].end \in Nat
    BY ONLY <2>1
  <2> QED BY <2>2 DEF L
<1>9. Arrived(pos, v) <=> sent[k].end <= arrived
  <2> DEFINE L == Length(v)
             e == sent[k].end
  <2>1. L \in Nat /\ e \in Nat /\ pos \in Nat /\ arrived \in Nat /\ pos + L = e + 1
    BY <1>6, <1>7, <1>8
  <2>2. Arrived(pos, v) <=> pos + L - 1 <= arrived
    BY DEF Arrived
  <2> HIDE DEF L, e
  <2>3. pos + L - 1 <= arrived <=> e <= arrived
    BY ONLY <2>1
  <2> QED BY <2>2, <2>3 DEF L, e
<1> QED BY <1>1, <1>2, <1>5, <1>7, <1>8, <1>9 DEF k, v

\* Otherwise nothing has arrived that is not read.
LEMMA NothingAhead ==
  ASSUME Inv, Len(got) = Len(sent)
  PROVE  Read = Fails("short")
<1>1. pos = Len(wire) + 1 /\ arrived \in 0..Len(wire) /\ Len(wire) \in Nat
  BY DEF Inv, PeerInv, ReaderInv, InSync
<1> QED BY <1>1, ReadBehind

\* The two cases.
LEMMA AheadOrNot == Inv => Len(got) < Len(sent) \/ Len(got) = Len(sent)
<1> SUFFICES ASSUME Inv PROVE Len(got) < Len(sent) \/ Len(got) = Len(sent)
  OBVIOUS
<1>1. Len(got) \in Nat /\ Len(sent) \in Nat /\ Len(got) <= Len(sent)
  BY DEF Inv, PeerInv, ReaderInv, InSync
<1> QED BY <1>1

-----------------------------------------------------------------------------
(* Steps.                                                                      *)

\* Before anything is sent.
LEMMA InitInv == Init => Inv
<1> SUFFICES ASSUME Init PROVE Inv
  OBVIOUS
<1> USE DEF Init
<1>1. Len(sent) = 0 /\ Len(got) = 0 /\ Len(wire) = 0
  OBVIOUS
<1>2. Mark(0).end = 0 /\ Mark(0).replies = 0 /\ Mark(0).owed = 0
  BY DEF Mark
<1>3. PeerInv
  <2>1. wire \in Seq(Byte) /\ sent \in Seq(Marks) /\ Len(sent) <= Len(stream.items)
    BY <1>1, StreamItems
  <2>2. \A j, k \in 0..Len(sent) :
          j <= k => Mark(j).end <= Mark(k).end /\ Mark(j).replies <= Mark(k).replies
    <3>1. \A j \in 0..Len(sent) : j = 0
      BY <1>1
    <3> QED BY <1>2, <3>1
  <2>3. stream \in Streams /\ arrived \in 0..Len(wire)
    BY <1>1
  <2>6. cut \in BOOLEAN
    BY Zenon
  <2>4. 1..Len(sent) = {}
    BY <1>1
  <2>5. Len(wire) = Mark(Len(sent)).end
    BY <1>1, <1>2
  <2> HIDE DEF Init
  <2> QED BY <2>1, <2>2, <2>3, <2>4, <2>5, <2>6 DEF PeerInv
<1>4. InSync
  BY <1>1, <1>2 DEF InSync
<1>5. ReaderInv
  BY <1>4 DEF ReaderInv, FailuresAreReal
<1> QED BY <1>3, <1>5 DEF Inv

\* The peer writes an item.
LEMMA SendInv == Inv /\ Send => Inv'
<1> SUFFICES ASSUME Inv, Send PROVE Inv'
  OBVIOUS
<1>0. PICK n, item, owed, m :
        /\ n = Len(sent) /\ item = stream.items[n + 1] /\ owed = After(Mark(n).owed, item)
        /\ m = [end |-> Len(wire'), owed |-> owed,
                replies |-> Mark(n).replies + (IF owed = 0 THEN 1 ELSE 0)]
  OBVIOUS
<1>1. /\ stream \in Streams /\ wire \in Seq(Byte) /\ sent \in Seq(Marks) /\ arrived \in 0..Len(wire)
      /\ n \in Nat /\ n + 1 <= Len(stream.items) /\ Len(wire) = Mark(n).end /\ Len(wire) \in Nat
  BY <1>0, StreamItems DEF Inv, PeerInv, Send
<1>2. item \in Items
  <2>1. n + 1 \in 1..Len(stream.items)
    BY <1>1, StreamItems
  <2> QED BY <1>0, <1>1, <2>1, StreamItems
<1>3. /\ Encoded(item) \in Seq(Byte) /\ Len(Encoded(item)) = Length(item) /\ Length(item) \in Nat
  <2>1. Encoded(item) \in Seq(Byte) /\ Len(Encoded(item)) = Length(item)
    BY <1>2, EncodedBytes
  <2> QED BY <2>1
<1>4. /\ wire' = wire \o Encoded(item) /\ sent' = Append(sent, m) /\ ~cut
      /\ UNCHANGED <<stream, arrived, cut, pos, got, left, calls, failure>>
  BY <1>0 DEF Send
<1>5. Mark(n).owed \in Nat /\ Mark(n).replies \in Nat /\ owed \in Nat
  <2>1. Mark(n).owed \in Nat /\ Mark(n).replies \in Nat
    BY <1>0, <1>1, MarkType
  <2> QED BY <1>0, <1>2, <2>1, AfterType
<1>6. /\ wire' \in Seq(Byte) /\ Len(wire') = Len(wire) + Length(item)
      /\ \A i \in 1..Len(wire) : wire'[i] = wire[i]
      /\ \A i \in 1..Length(item) : wire'[Len(wire) + i] = Encoded(item)[i]
  <2> DEFINE e == Encoded(item)
  <2>1. e \in Seq(Byte) /\ Len(e) = Length(item)
    BY <1>3
  <2> HIDE DEF e
  <2>2. /\ wire \o e \in Seq(Byte) /\ Len(wire \o e) = Len(wire) + Len(e)
        /\ \A i \in 1..(Len(wire) + Len(e)) :
             (wire \o e)[i] = IF i <= Len(wire) THEN wire[i] ELSE e[i - Len(wire)]
    BY ONLY <1>1, <2>1, ConcatProperties
  <2>3. wire' = wire \o e
    BY <1>4 DEF e
  <2>4. ASSUME NEW i \in 1..Length(item) PROVE wire'[Len(wire) + i] = e[i]
    <3> DEFINE j == Len(wire) + i
    <3>1. j \in 1..(Len(wire) + Len(e)) /\ ~(j <= Len(wire)) /\ j - Len(wire) = i
      BY <1>1, <1>3, <2>1
    <3> HIDE DEF j
    <3>2. wire'[j] = e[i]
      BY <2>2, <2>3, <3>1
    <3> QED BY <3>2 DEF j
  <2>5. ASSUME NEW i \in 1..Len(wire) PROVE wire'[i] = wire[i]
    BY <1>1, <1>3, <2>1, <2>2, <2>3
  <2> QED BY <2>1, <2>2, <2>3, <2>4, <2>5 DEF e
<1>7. m \in Marks
  <2>1. Len(wire') \in Nat
    BY <1>1, <1>3, <1>6
  <2>2. Mark(n).replies + (IF owed = 0 THEN 1 ELSE 0) \in Nat
    BY <1>5
  <2> QED BY <1>0, <1>5, <2>1, <2>2 DEF Marks
<1>8. m.end = Mark(n).end + Length(item) /\ m.owed = owed
      /\ m.replies = Mark(n).replies + (IF owed = 0 THEN 1 ELSE 0)
  BY <1>0, <1>1, <1>6
<1>9. /\ sent' \in Seq(Marks) /\ Len(sent') = n + 1 /\ sent'[n + 1] = m
      /\ \A k \in 1..n : sent'[k] = sent[k]
  <2>1. sent \in Seq(Marks) /\ n = Len(sent) /\ sent' = Append(sent, m)
    BY <1>0, <1>1, <1>4
  <2> QED BY ONLY <1>7, <2>1
<1>10. (\A k \in 0..n : Mark(k)' = Mark(k)) /\ Mark(n + 1)' = m
  BY <1>1, <1>9 DEF Mark
<1>11. \A k \in 0..n : Mark(k).end <= Len(wire) /\ Mark(k).end \in Nat /\ Mark(k).replies \in Nat
  <2>1. \A k \in 0..n : Mark(k).end \in Nat /\ Mark(k).replies \in Nat
    BY <1>0, <1>1, MarkType
  <2>2. \A k \in 0..n : Mark(k).end <= Mark(n).end
    BY <1>0, <1>1 DEF Inv, PeerInv
  <2> QED BY <1>1, <2>1, <2>2
<1>12. ASSUME NEW k \in 1..n
       PROVE  OnWire(Mark(k - 1).end + 1, stream.items[k])'
  <2>1. /\ OnWire(Mark(k - 1).end + 1, stream.items[k])
        /\ sent[k].end = Mark(k - 1).end + Length(stream.items[k])
    BY <1>0 DEF Inv, PeerInv
  <2> DEFINE p == Mark(k - 1).end + 1
             v == stream.items[k]
  <2>2. k - 1 \in 0..n /\ k \in 0..n /\ Mark(k) = sent[k] /\ v \in Items
    BY <1>1, StreamItems DEF Mark
  <2>3. Mark(k - 1)' = Mark(k - 1) /\ stream' = stream
    BY <1>4, <1>10, <2>2
  <2>4. p \in Nat \ {0}
    BY <1>11, <2>2
  <2>5. Length(v) \in Nat
    BY <2>1, <2>2, <2>4, PartsOnWire
  <2>6. p + Length(v) - 1 <= Len(wire)
    <3>1. Mark(k).end = Mark(k - 1).end + Length(v)
      BY <2>1, <2>2
    <3>2. Mark(k).end <= Len(wire) /\ Mark(k).end \in Nat /\ Mark(k - 1).end \in Nat
      BY <1>11, <2>2
    <3> QED BY <2>5, <3>1, <3>2
  <2> HIDE DEF p, v
  <2>7. ASSUME NEW i \in 1..Length(v) PROVE wire'[p + i - 1] = Encoded(v)[i]
    <3>1. p + i - 1 \in 1..Len(wire)
      BY <1>1, <2>4, <2>5, <2>6
    <3>2. wire[p + i - 1] = Encoded(v)[i]
      BY <2>1 DEF OnWire, p, v
    <3> QED BY <1>6, <3>1, <3>2
  <2>8. \A i \in 1..Length(stream'.items[k]) :
          wire'[Mark(k - 1)'.end + 1 + i - 1] = Encoded(stream'.items[k])[i]
    BY <2>3, <2>7 DEF p, v
  <2> QED BY <2>8 DEF OnWire
<1>13. OnWire(Mark(n).end + 1, item)'
  <2>1. Mark(n)' = Mark(n) /\ stream' = stream
    BY <1>1, <1>4, <1>10
  <2>2. ASSUME NEW i \in 1..Length(item) PROVE wire'[Mark(n).end + 1 + i - 1] = Encoded(item)[i]
    <3>1. Mark(n).end + 1 + i - 1 = Len(wire) + i
      BY <1>1, <1>3
    <3> QED BY <1>6, <3>1
  <2> QED BY <2>1, <2>2 DEF OnWire
<1>14. PeerInv'
  <2>1. ASSUME NEW k \in 1..(n + 1)
        PROVE  /\ sent'[k].end = Mark(k - 1)'.end + Length(stream'.items[k])
               /\ sent'[k].owed = After(Mark(k - 1)'.owed, stream'.items[k])
               /\ sent'[k].replies = Mark(k - 1)'.replies + (IF sent'[k].owed = 0 THEN 1 ELSE 0)
               /\ OnWire(Mark(k - 1).end + 1, stream.items[k])'
    <3>1. CASE k \in 1..n
      <4>1. /\ sent[k].end = Mark(k - 1).end + Length(stream.items[k])
            /\ sent[k].owed = After(Mark(k - 1).owed, stream.items[k])
            /\ sent[k].replies = Mark(k - 1).replies + (IF sent[k].owed = 0 THEN 1 ELSE 0)
        BY <1>0, <3>1 DEF Inv, PeerInv
      <4>2. sent'[k] = sent[k] /\ Mark(k - 1)' = Mark(k - 1) /\ stream' = stream
        <5>1. k - 1 \in 0..n
          BY <1>1, <3>1
        <5> QED BY <1>4, <1>9, <1>10, <3>1, <5>1
      <4> QED BY <1>12, <3>1, <4>1, <4>2
    <3>2. CASE k = n + 1
      <4>1. sent'[k] = m /\ k - 1 = n /\ Mark(n)' = Mark(n) /\ stream'.items[k] = item
        <5>1. k - 1 = n
          BY <1>1, <3>2
        <5> QED BY <1>0, <1>1, <1>4, <1>9, <1>10, <3>2, <5>1
      <4>2. OnWire(Mark(k - 1).end + 1, stream.items[k])'
        <5>1. \A i \in 1..Length(item) : wire'[Mark(n)'.end + 1 + i - 1] = Encoded(item)[i]
          BY <1>13 DEF OnWire
        <5>2. \A i \in 1..Length(stream'.items[k]) :
                wire'[Mark(k - 1)'.end + 1 + i - 1] = Encoded(stream'.items[k])[i]
          BY <4>1, <5>1
        <5> QED BY <5>2 DEF OnWire
      <4>3. owed = After(Mark(n).owed, item)
        BY <1>0
      <4> QED BY <1>8, <4>1, <4>2, <4>3
    <3> QED BY <1>1, <3>1, <3>2
  <2>2. Mark(n).end <= m.end /\ Mark(n).replies <= m.replies /\ m.end \in Nat /\ m.replies \in Nat
    <3>1. Mark(n).end \in Nat /\ Mark(n).replies \in Nat
      BY <1>1, <1>5, <1>11
    <3>2. m.replies \in {Mark(n).replies, Mark(n).replies + 1}
      BY <1>8, <3>1
    <3>3. Mark(n).end <= m.end /\ m.end \in Nat
      BY ONLY <1>3, <1>8, <3>1
    <3> QED BY ONLY <3>1, <3>2, <3>3
  <2>3. ASSUME NEW j \in 0..(n + 1), NEW k \in 0..(n + 1), j <= k
        PROVE  Mark(j)'.end <= Mark(k)'.end /\ Mark(j)'.replies <= Mark(k)'.replies
    <3>1. CASE k \in 0..n
      <4>1. j \in 0..n
        BY <1>1, <2>3, <3>1
      <4>2. Mark(j).end <= Mark(k).end /\ Mark(j).replies <= Mark(k).replies
        BY <1>0, <2>3, <3>1, <4>1 DEF Inv, PeerInv
      <4> QED BY <1>10, <3>1, <4>1, <4>2
    <3>2. CASE k = n + 1 /\ j = n + 1
      BY <1>10, <2>2, <3>2
    <3>3. CASE k = n + 1 /\ j \in 0..n
      <4>1. Mark(j).end <= Mark(n).end /\ Mark(j).replies <= Mark(n).replies
        BY <1>0, <1>1, <3>3 DEF Inv, PeerInv
      <4>2. n \in 0..n
        BY <1>1
      <4>3. Mark(j).end \in Nat /\ Mark(j).replies \in Nat /\ Mark(n).end \in Nat
            /\ Mark(n).replies \in Nat
        BY <1>11, <3>3, <4>2
      <4>4. Mark(j)' = Mark(j) /\ Mark(k)' = m
        BY <1>10, <3>3
      <4> QED BY <2>2, <4>1, <4>3, <4>4
    <3> QED BY <1>1, <3>1, <3>2, <3>3
  <2>4. Len(wire') = Mark(n + 1)'.end /\ arrived' \in 0..Len(wire') /\ cut' \in BOOLEAN
    <3>1. Len(wire') = m.end
      BY <1>1, <1>6, <1>8
    <3>2. cut \in BOOLEAN
      BY DEF Inv, PeerInv
    <3> QED BY <1>1, <1>3, <1>4, <1>6, <1>10, <3>1, <3>2
  <2>5. stream' \in Streams /\ n + 1 <= Len(stream'.items)
    BY <1>1, <1>4
  <2>6. (\A k \in 1..Len(sent) :
           /\ sent[k].end = Mark(k - 1).end + Length(stream.items[k])
           /\ sent[k].owed = After(Mark(k - 1).owed, stream.items[k])
           /\ sent[k].replies = Mark(k - 1).replies + (IF sent[k].owed = 0 THEN 1 ELSE 0)
           /\ OnWire(Mark(k - 1).end + 1, stream.items[k]))'
    BY <1>9, <2>1
  <2>7. (\A j, k \in 0..Len(sent) :
           j <= k => Mark(j).end <= Mark(k).end /\ Mark(j).replies <= Mark(k).replies)'
    BY <1>9, <2>3
  <2> QED BY <1>6, <1>9, <2>4, <2>5, <2>6, <2>7 DEF PeerInv
<1>15. Len(got) \in 0..n /\ Len(got)' = Len(got)
  BY <1>0, <1>1, <1>4 DEF Inv, ReaderInv, InSync
<1>16. InSync'
  <2>1. Mark(Len(got))' = Mark(Len(got))
    BY <1>10, <1>15
  <2>2. /\ Len(got) <= n /\ \A k \in DOMAIN got : got[k] = Value(stream.items[k])
        /\ pos = Mark(Len(got)).end + 1 /\ pos <= arrived + 1
        /\ calls = Mark(Len(got)).replies /\ left = Mark(Len(got)).owed
    BY <1>0 DEF Inv, ReaderInv, InSync
  <2>3. \A v : Value(v)' = Value(v)
    BY <1>4 DEF Value, Fast
  <2>4. Len(got)' <= Len(sent')
    BY <1>1, <1>9, <1>15
  <2>5. (\A k \in DOMAIN got : got[k] = Value(stream.items[k]))'
    BY <1>4, <2>2 DEF Value, Fast
  <2> QED BY <1>4, <2>1, <2>2, <2>4, <2>5 DEF InSync
<1>17. FailuresAreReal'
  <2> SUFFICES ASSUME failure # "none" PROVE FailuresAreReal'
    BY <1>4 DEF FailuresAreReal
  <2> DEFINE k == Len(got) + 1
             v == stream.items[k]
  <2>1. \/ failure = "redis" /\ (k <= n /\ sent[k].end <= arrived) /\ v.type = OfError
        \/ failure = "protocol" /\ Fast /\ k <= n /\ Misfit(v)
    BY <1>0, <1>4 DEF Inv, ReaderInv, FailuresAreReal
  <2>2. k \in 1..n /\ sent'[k] = sent[k] /\ k <= n + 1
    BY <1>1, <1>9, <1>15, <2>1
  <2>3. (Misfit(v)' <=> Misfit(v)) /\ (Fast' <=> Fast) /\ v' = v /\ k' = k
    BY <1>4 DEF Misfit, Fast
  <2> HIDE DEF k, v
  <2>4. \/ failure' = "redis" /\ (k' <= Len(sent') /\ sent'[k'].end <= arrived') /\ v'.type = OfError
        \/ failure' = "protocol" /\ Fast' /\ k' <= Len(sent') /\ Misfit(v)'
    BY <1>4, <1>9, <2>1, <2>2, <2>3
  <2> QED BY <2>4 DEF FailuresAreReal, k, v
<1>18. ReaderInv'
  BY <1>4, <1>16, <1>17 DEF Inv, ReaderInv
<1> QED BY <1>14, <1>18 DEF Inv

\* The account of the peer does not change while it sends nothing.
LEMMA PeerKept ==
  ASSUME PeerInv, UNCHANGED <<stream, wire, sent>>, arrived' \in 0..Len(wire), cut' \in BOOLEAN
  PROVE  PeerInv'
<1>1. \A k : Mark(k)' = Mark(k)
  BY DEF Mark
<1>2. \A k : OnWire(Mark(k - 1).end + 1, stream.items[k])
             => OnWire(Mark(k - 1).end + 1, stream.items[k])'
  BY <1>1 DEF OnWire
<1>3. \A k \in 1..Len(sent) : OnWire(Mark(k - 1).end + 1, stream.items[k])'
  BY <1>2 DEF PeerInv
<1>4. \A k \in 1..Len(sent) :
        /\ sent'[k].end = Mark(k - 1)'.end + Length(stream'.items[k])
        /\ sent'[k].owed = After(Mark(k - 1)'.owed, stream'.items[k])
        /\ sent'[k].replies = Mark(k - 1)'.replies + (IF sent'[k].owed = 0 THEN 1 ELSE 0)
  BY <1>1 DEF PeerInv
<1>5. \A j, k \in 0..Len(sent) :
        j <= k => Mark(j)'.end <= Mark(k)'.end /\ Mark(j)'.replies <= Mark(k)'.replies
  BY <1>1 DEF PeerInv
<1>6. Len(wire') = Mark(Len(sent))'.end
  BY <1>1 DEF PeerInv
<1>7. /\ stream' \in Streams /\ wire' \in Seq(Byte) /\ sent' \in Seq(Marks)
      /\ Len(sent') <= Len(stream'.items)
  BY DEF PeerInv
<1>8. (\A k \in 1..Len(sent) :
         /\ sent[k].end = Mark(k - 1).end + Length(stream.items[k])
         /\ sent[k].owed = After(Mark(k - 1).owed, stream.items[k])
         /\ sent[k].replies = Mark(k - 1).replies + (IF sent[k].owed = 0 THEN 1 ELSE 0)
         /\ OnWire(Mark(k - 1).end + 1, stream.items[k]))'
  BY <1>3, <1>4
<1>9. (\A j, k \in 0..Len(sent) :
         j <= k => Mark(j).end <= Mark(k).end /\ Mark(j).replies <= Mark(k).replies)'
  BY <1>5
<1>10. arrived' \in 0..Len(wire')
  OBVIOUS
<1> QED BY <1>6, <1>7, <1>8, <1>9, <1>10 DEF PeerInv

\* A byte arrives, or the connection is cut.
LEMMA ArriveInv == Inv /\ (Arrive \/ Cut) => Inv'
<1> SUFFICES ASSUME Inv, Arrive \/ Cut PROVE Inv'
  OBVIOUS
<1>1. /\ UNCHANGED <<stream, wire, sent, pos, got, left, calls, failure>> /\ ~cut
      /\ arrived \in 0..Len(wire) /\ Len(wire) \in Nat /\ cut \in BOOLEAN
      /\ arrived' \in {arrived, arrived + 1} /\ arrived' <= Len(wire)
  BY DEF Arrive, Cut, Inv, PeerInv
<1>2. cut' \in BOOLEAN
  BY DEF Arrive, Cut, Inv, PeerInv
<1>3. PeerInv'
  BY <1>1, <1>2, PeerKept DEF Inv
<1>4. InSync'
  <2>1. (\A k : Mark(k)' = Mark(k)) /\ \A v : Value(v)' = Value(v)
    BY <1>1 DEF Mark, Value, Fast
  <2>2. pos' \in Nat /\ pos' <= arrived' + 1
    BY <1>1 DEF Inv, ReaderInv, InSync
  <2> QED BY <1>1, <2>1, <2>2 DEF Inv, ReaderInv, InSync
<1>5. FailuresAreReal'
  <2> SUFFICES ASSUME failure # "none" PROVE FailuresAreReal'
    BY <1>1 DEF FailuresAreReal
  <2> DEFINE k == Len(got) + 1
             v == stream.items[k]
  <2>1. \/ failure = "redis" /\ (k <= Len(sent) /\ sent[k].end <= arrived) /\ v.type = OfError
        \/ failure = "protocol" /\ Fast /\ k <= Len(sent) /\ Misfit(v)
    BY <1>1 DEF Inv, ReaderInv, FailuresAreReal
  <2>2. k <= Len(sent) => sent[k].end \in Nat
    <3> SUFFICES ASSUME k <= Len(sent) PROVE sent[k].end \in Nat
      OBVIOUS
    <3>1. Len(got) < Len(sent)
      BY DEF Inv, PeerInv, ReaderInv
    <3> QED BY <3>1, ItemAhead
  <2>3. (Misfit(v)' <=> Misfit(v)) /\ (Fast' <=> Fast) /\ v' = v /\ k' = k
    BY <1>1 DEF Misfit, Fast
  <2> HIDE DEF k, v
  <2>4. k <= Len(sent) /\ sent[k].end <= arrived => sent[k].end <= arrived'
    BY <1>1, <2>2
  <2>5. \/ failure' = "redis" /\ (k' <= Len(sent') /\ sent'[k'].end <= arrived') /\ v'.type = OfError
        \/ failure' = "protocol" /\ Fast' /\ k' <= Len(sent') /\ Misfit(v)'
    BY <1>1, <2>1, <2>3, <2>4
  <2> QED BY <2>5 DEF FailuresAreReal, k, v
<1>6. ReaderInv'
  BY <1>1, <1>4, <1>5 DEF Inv, ReaderInv
<1> QED BY <1>3, <1>6 DEF Inv

\* An item is read.
LEMMA ReadsInv == Inv /\ Reads => Inv'
<1> SUFFICES ASSUME Inv, Reads PROVE Inv'
  OBVIOUS
<1>0. PICK n, k, v : n = Len(got) /\ k = n + 1 /\ v = stream.items[k]
  OBVIOUS
<1>1. /\ UNCHANGED <<stream, wire, sent, arrived, cut, failure>> /\ failure = "none"
      /\ Read.failure = "none" /\ got' = Append(got, Read.value) /\ pos' = Read.next
      /\ left' = After(left, Read.value) /\ calls' = calls + (IF left' = 0 THEN 1 ELSE 0)
  BY DEF Reads, Reading
<1>2. Len(got) < Len(sent)
  <2> SUFFICES ASSUME Len(got) = Len(sent) PROVE FALSE
    BY AheadOrNot
  <2> QED BY <1>1, NothingAhead, ReadFields
<1>3. /\ v \in Items /\ k \in 1..Len(sent) /\ OnWire(pos, v) /\ Length(v) \in Nat
      /\ pos + Length(v) = sent[k].end + 1 /\ sent[k].end \in Nat
      /\ (Arrived(pos, v) <=> sent[k].end <= arrived)
  BY <1>0, <1>2, ItemAhead
<1>4. /\ pos \in Nat \ {0} /\ left \in Nat /\ calls \in Nat /\ arrived \in Nat
      /\ got \in Seq(Items \cup {Nil}) /\ n \in Nat
  BY <1>0 DEF Inv, PeerInv, ReaderInv
<1>5. Read = Got(Value(v), pos + Length(v)) /\ Arrived(pos, v)
  BY <1>1, <1>3, <1>4, ReadOn, ReadFields
<1>6. Read.value = Value(v) /\ Read.next = sent[k].end + 1 /\ sent[k].end <= arrived
  BY <1>3, <1>5, ReadFields
<1>7. Value(v) \in Items \cup {Nil}
  <2>1. ArrayOf(0) \in Items
    BY DEF ArrayOf, Item, Items
  <2> QED BY <1>3, <2>1 DEF Value
<1>8. /\ got' \in Seq(Items \cup {Nil}) /\ Len(got') = k /\ got'[k] = Value(v)
      /\ DOMAIN got' = 1..k /\ \A j \in 1..n : got'[j] = got[j]
  <2> DEFINE x == Value(v)
             S == Items \cup {Nil}
  <2>1. got \in Seq(S) /\ x \in S /\ got' = Append(got, x) /\ k = Len(got) + 1 /\ n = Len(got)
    BY <1>0, <1>1, <1>4, <1>6, <1>7
  <2> HIDE DEF x, S
  <2>2. got' \in Seq(S) /\ Len(got') = k /\ got'[k] = x /\ DOMAIN got' = 1..k
        /\ \A j \in 1..n : got'[j] = got[j]
    BY ONLY <2>1
  <2> QED BY <2>2 DEF x, S
<1>9. /\ sent[k].owed = After(Mark(n).owed, v)
      /\ sent[k].replies = Mark(n).replies + (IF sent[k].owed = 0 THEN 1 ELSE 0)
  <2>1. k - 1 = n
    BY <1>0, <1>4
  <2> QED BY <1>0, <1>3, <2>1 DEF Inv, PeerInv
<1>10. /\ calls = Mark(n).replies /\ left = Mark(n).owed
       /\ \A j \in 1..n : got[j] = Value(stream.items[j])
  BY <1>0, <1>4 DEF Inv, ReaderInv, InSync
<1>11. left' \in Nat /\ left' = sent[k].owed
  <2>1. After(left, Value(v)) \in Nat /\ After(left, Value(v)) = After(left, v)
    BY <1>3, <1>4, AfterType
  <2> QED BY <1>1, <1>6, <1>9, <1>10, <2>1
<1>12. calls' \in Nat /\ calls' = sent[k].replies
  BY <1>1, <1>4, <1>9, <1>10, <1>11
<1>13. InSync'
  <2>1. Mark(Len(got))' = sent[k]
    BY <1>1, <1>3, <1>8 DEF Mark
  <2>2. \A x : Value(x)' = Value(x)
    BY <1>1 DEF Value, Fast
  <2>3. ASSUME NEW j \in 1..k PROVE got'[j] = Value(stream.items[j])
    <3>1. CASE j = k
      BY <1>0, <1>8, <3>1
    <3>2. CASE j \in 1..n
      BY <1>8, <1>10, <3>2
    <3> QED BY <1>0, <1>4, <3>1, <3>2
  <2>4. (\A j \in DOMAIN got : got[j] = Value(stream.items[j]))'
    BY <1>1, <1>8, <2>3 DEF Value, Fast
  <2>5. Len(got') <= Len(sent')
    BY <1>1, <1>3, <1>8
  <2>6. pos' = sent[k].end + 1 /\ pos' <= arrived' + 1
    BY <1>1, <1>3, <1>4, <1>6
  <2> QED BY <1>1, <1>11, <1>12, <2>1, <2>4, <2>5, <2>6 DEF InSync
<1>14. FailuresAreReal'
  BY <1>1 DEF FailuresAreReal
<1>15. ReaderInv'
  <2>1. pos' \in Nat \ {0}
    BY <1>1, <1>3, <1>6
  <2> QED BY <1>8, <1>11, <1>12, <1>13, <1>14, <2>1 DEF ReaderInv
<1>16. PeerInv'
  <2>1. arrived' \in 0..Len(wire) /\ cut' \in BOOLEAN
    BY <1>1 DEF Inv, PeerInv
  <2> QED BY <1>1, <2>1, PeerKept DEF Inv
<1> QED BY <1>15, <1>16 DEF Inv

\* A call fails.
LEMMA FailsInv == Inv /\ (ReturnsError \/ ReturnsEOF) => Inv'
<1> SUFFICES ASSUME Inv, ReturnsError \/ ReturnsEOF PROVE Inv'
  OBVIOUS
<1>0. PICK k, v : k = Len(got) + 1 /\ v = stream.items[k]
  OBVIOUS
<1>1. /\ UNCHANGED <<stream, wire, sent, arrived, cut, pos, got, left, calls>>
      /\ \/ failure' = Read.failure /\ Read.failure \notin {"none", "short"}
         \/ failure' = "eof" /\ Read.failure = "short" /\ cut
  BY DEF ReturnsError, ReturnsEOF
<1>2. PeerInv'
  <2>1. arrived' \in 0..Len(wire) /\ cut' \in BOOLEAN
    BY <1>1 DEF Inv, PeerInv
  <2> QED BY <1>1, <2>1, PeerKept DEF Inv
<1>3. InSync'
  <2>1. (\A j : Mark(j)' = Mark(j)) /\ \A x : Value(x)' = Value(x)
    BY <1>1 DEF Mark, Value, Fast
  <2> QED BY <1>1, <2>1 DEF Inv, ReaderInv, InSync
<1>4. \/ failure' = "redis" /\ (k <= Len(sent) /\ sent[k].end <= arrived) /\ v.type = OfError
      \/ failure' = "eof" /\ cut /\ ~(k <= Len(sent) /\ sent[k].end <= arrived)
      \/ failure' = "protocol" /\ Fast /\ k <= Len(sent) /\ Misfit(v)
  <2>1. CASE Len(got) < Len(sent)
    <3>1. /\ v \in Items /\ k \in 1..Len(sent) /\ OnWire(pos, v)
          /\ (Arrived(pos, v) <=> sent[k].end <= arrived)
      BY <1>0, <2>1, ItemAhead
    <3>2. pos \in Nat \ {0} /\ left \in Nat /\ arrived \in Nat /\ k <= Len(sent)
      BY <3>1 DEF Inv, PeerInv, ReaderInv
    <3>3. \/ Read = Fails("short") /\ ~Arrived(pos, v)
          \/ Read = Fails("redis") /\ Arrived(pos, v) /\ v.type = OfError
          \/ Read = Got(Value(v), pos + Length(v)) /\ Arrived(pos, v)
          \/ Read = Fails("protocol") /\ Fast /\ Misfit(v)
      BY <3>1, <3>2, ReadOn
    <3> QED BY <1>1, <3>1, <3>2, <3>3, ReadFields
  <2>2. CASE Len(got) = Len(sent)
    <3>1. Read.failure = "short"
      BY <2>2, NothingAhead, ReadFields
    <3>2. ~(k <= Len(sent))
      BY <1>0, <2>2 DEF Inv, ReaderInv
    <3> QED BY <1>1, <3>1, <3>2
  <2> QED BY <2>1, <2>2, AheadOrNot
<1>5. FailuresAreReal'
  <2>1. (Misfit(v)' <=> Misfit(v)) /\ (Fast' <=> Fast)
    BY <1>1 DEF Misfit, Fast
  <2>2. k = Len(got') + 1 /\ v = stream'.items[k]
    BY <1>0, <1>1
  <2>3. \/ failure' = "redis" /\ (k <= Len(sent') /\ sent'[k].end <= arrived') /\ v.type = OfError
        \/ failure' = "eof" /\ cut' /\ ~(k <= Len(sent') /\ sent'[k].end <= arrived')
        \/ failure' = "protocol" /\ Fast' /\ k <= Len(sent') /\ Misfit(v)'
    BY <1>1, <1>4, <2>1
  <2> QED BY <2>2, <2>3 DEF FailuresAreReal, Misfit
<1>6. ReaderInv'
  BY <1>1, <1>3, <1>5 DEF Inv, ReaderInv
<1> QED BY <1>2, <1>6 DEF Inv

\* Every step keeps the invariant.
LEMMA StepInv == Inv /\ [Next]_vars => Inv'
<1> SUFFICES ASSUME Inv, [Next]_vars PROVE Inv'
  OBVIOUS
<1>1. CASE UNCHANGED vars
  <2>1. PeerInv'
    <3>1. UNCHANGED <<stream, wire, sent, arrived, cut>>
      BY <1>1 DEF vars
    <3>2. arrived' \in 0..Len(wire) /\ cut' \in BOOLEAN
      BY <3>1 DEF Inv, PeerInv
    <3> QED BY <3>1, <3>2, PeerKept DEF Inv
  <2>2. (\A k : Mark(k)' = Mark(k)) /\ (\A v : Value(v)' = Value(v))
        /\ (\A v : Misfit(v)' <=> Misfit(v)) /\ (Fast' <=> Fast)
    BY <1>1 DEF vars, Mark, Value, Misfit, Fast
  <2>3. InSync'
    BY <1>1, <2>2 DEF vars, Inv, ReaderInv, InSync
  <2>4. FailuresAreReal'
    BY <1>1, <2>2 DEF vars, Inv, ReaderInv, FailuresAreReal
  <2>5. ReaderInv'
    BY <1>1, <2>3, <2>4 DEF vars, Inv, ReaderInv
  <2> QED BY <2>1, <2>5 DEF Inv
<1>2. CASE Next
  <2>1. Quiescent => UNCHANGED vars
    BY DEF Quiescent
  <2> QED BY <1>1, <1>2, <2>1, SendInv, ArriveInv, ReadsInv, FailsInv DEF Next
<1> QED BY <1>1, <1>2

\* The invariant of the codec: the bytes on the wire are the items the peer accounts for,
\* and the reader is in step with it.
THEOREM RespInvariant == Spec => []Inv
<1>1. Init => Inv
  BY InitInv
<1>2. Inv /\ [Next]_vars => Inv'
  BY StepInv
<1> QED BY <1>1, <1>2, PTL DEF Spec

\* ReadReply and ReadFixedBulkArray return what was sent, item by item, and leave the
\* connection at the first byte of the next reply (resp.go 39-195).
THEOREM RespInSync == Spec => []InSync
<1>1. Inv => InSync
  BY DEF Inv, ReaderInv
<1> QED BY <1>1, RespInvariant, PTL

\* They fail only for an error reply, a cut, or an item the fast path is not for.
THEOREM RespFailuresAreReal == Spec => []FailuresAreReal
<1>1. Inv => FailuresAreReal
  BY DEF Inv, ReaderInv
<1> QED BY <1>1, RespInvariant, PTL

\* They never wait for bytes behind the reply they read.
THEOREM RespNeverStarved == Spec => []NeverStarved
<1>1. Inv => NeverStarved
  <2> SUFFICES ASSUME Inv, NEW j \in DOMAIN sent, sent[j].replies > calls,
                      sent[j].end <= arrived
               PROVE  Read.failure # "short"
    BY DEF NeverStarved
  <2> DEFINE n == Len(got)
  <2>1. /\ n \in Nat /\ n <= Len(sent) /\ Len(sent) \in Nat /\ j \in 1..Len(sent)
        /\ sent \in Seq(Marks) /\ calls = Mark(n).replies /\ arrived \in Nat
    <3>1. wire \in Seq(Byte) /\ arrived \in 0..Len(wire) /\ sent \in Seq(Marks)
      BY DEF Inv, PeerInv
    <3>2. got \in Seq(Items \cup {Nil}) /\ n <= Len(sent) /\ calls = Mark(n).replies
      BY DEF Inv, ReaderInv, InSync
    <3>3. arrived \in Nat
      BY <3>1
    <3>4. n \in Nat
      BY <3>2
    <3>5. Len(sent) \in Nat /\ j \in 1..Len(sent)
      BY <3>1
    <3> QED BY <3>1, <3>2, <3>3, <3>4, <3>5
  <2>2. j \in 0..Len(sent) /\ n \in 0..Len(sent) /\ Mark(j) = sent[j]
    BY <2>1 DEF Mark
  <2>3. ~(j <= n)
    <3> SUFFICES ASSUME j <= n PROVE FALSE
      OBVIOUS
    <3>1. Mark(j).replies <= Mark(n).replies
      BY <2>2 DEF Inv, PeerInv
    <3>2. Mark(j).replies \in Nat /\ Mark(n).replies \in Nat
      BY <2>1, <2>2, MarkType
    <3> QED BY <2>1, <2>2, <3>1, <3>2
  <2> DEFINE k == n + 1
             v == stream.items[k]
  <2>4. k \in 0..Len(sent) /\ k <= j /\ n < Len(sent) /\ k # 0
    BY <2>1, <2>3
  <2>5. sent[k].end <= sent[j].end
    <3>1. Mark(k).end <= Mark(j).end /\ Mark(k) = sent[k]
      BY <2>2, <2>4 DEF Inv, PeerInv, Mark
    <3> QED BY <2>2, <3>1
  <2>6. /\ v \in Items /\ OnWire(pos, v) /\ sent[k].end \in Nat
        /\ (Arrived(pos, v) <=> sent[k].end <= arrived)
    BY <2>4, ItemAhead
  <2>7. sent[j].end \in Nat
    BY <2>1, <2>2, MarkType
  <2> HIDE DEF k, v
  <2>8. Arrived(pos, v)
    BY <2>1, <2>5, <2>6, <2>7
  <2>9. pos \in Nat \ {0} /\ left \in Nat
    BY DEF Inv, ReaderInv
  <2> QED BY <2>1, <2>6, <2>8, <2>9, ReadOn, ReadFields
<1> QED BY <1>1, RespInvariant, PTL
=============================================================================
