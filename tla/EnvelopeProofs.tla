--------------------------- MODULE EnvelopeProofs ---------------------------
(***************************************************************************)
(* Proved for every width of the fields, every number of values of a byte  *)
(* and every buffer: what is read is what was signed, a decision of a      *)
(* framed read is final and waiting can be worth it, the contracts and the *)
(* Reader agree, and a text is read as its bytes are.                      *)
(*                                                                         *)
(* Induction is over a set of numbers, which the provers take where they   *)
(* do not take an operator.                                                *)
(***************************************************************************)
EXTENDS EnvelopeReads, SequenceTheorems, WellFoundedInduction, TLAPS

-----------------------------------------------------------------------------
(* Induction *)

LEMMA LeastExists ==
  ASSUME NEW T \in SUBSET Nat, T # {}
  PROVE  Least(T) \in T /\ \A q \in T : Least(T) <= q
<1>1. IsWellFoundedOn(OpToRel(<, Nat), Nat)
  BY NatLessThanWellFounded
<1>2. PICK p \in T : \A q \in T : ~(<<q, p>> \in OpToRel(<, Nat))
  BY <1>1, WFMin
<1>3. \A q \in T : ~(q < p)
  BY <1>2 DEF OpToRel
<1>4. \A q \in T : p <= q
  BY <1>3
<1> QED
  BY <1>4 DEF Least

LEMMA Induction ==
  ASSUME NEW T, 0 \in T, \A n \in Nat : n \in T => n + 1 \in T
  PROVE  Nat \subseteq T
<1> DEFINE R == {n \in Nat : n \notin T}
<1>1. SUFFICES ASSUME R # {}
               PROVE  FALSE
  OBVIOUS
<1>2. PICK n \in R : \A q \in R : n <= q
  <2> HIDE DEF R
  <2>1. R \in SUBSET Nat
    BY DEF R
  <2> QED
    BY <1>1, <2>1, LeastExists
<1>3. n # 0 /\ n - 1 \in Nat /\ n - 1 \notin R
  BY <1>2
<1>4. n - 1 \in T
  BY <1>3
<1>5. (n - 1) + 1 \in T
  BY <1>3, <1>4
<1> QED
  BY <1>2, <1>5

-----------------------------------------------------------------------------
(* Digits *)

LEMMA Division ==
  ASSUME NEW x \in Nat, NEW base \in Nat \ {0}
  PROVE  /\ x \div base \in Nat
         /\ x % base \in 0 .. base - 1
         /\ x = base * (x \div base) + (x % base)
<1>1. x \div base \in Nat
  OBVIOUS
<1>2. x % base \in 0 .. base - 1
  OBVIOUS
<1>3. x = base * (x \div base) + (x % base)
  OBVIOUS
<1> QED
  BY <1>1, <1>2, <1>3

LEMMA MultiplesApart ==
  ASSUME NEW base \in Nat, NEW p \in Nat, NEW q \in Nat, p < q
  PROVE  base * p + base <= base * q
<1>1. PICK d \in Nat : q = p + 1 + d
  <2>1. q - p - 1 \in Nat /\ q = p + 1 + (q - p - 1)
    OBVIOUS
  <2> QED
    BY <2>1
<1>2. base * q = base * p + base + base * d
  BY <1>1
<1>3. base * d \in Nat /\ base * p \in Nat
  OBVIOUS
<1> QED
  BY <1>2, <1>3

\* A number is divided in one way.
LEMMA DivisionIs ==
  ASSUME NEW base \in Nat \ {0}, NEW d \in 0 .. base - 1, NEW q \in Nat
  PROVE  (d + base * q) \div base = q /\ (d + base * q) % base = d
<1>1. PICK x \in Nat : x = d + base * q
  <2>1. base * q \in Nat
    OBVIOUS
  <2> QED
    BY <2>1
<1>2. PICK p \in Nat, r \in 0 .. base - 1 :
        p = x \div base /\ r = x % base /\ x = base * p + r
  BY Division
<1>3. base * p \in Nat /\ base * q \in Nat
  OBVIOUS
<1>4. ~(p < q)
  <2> SUFFICES ASSUME p < q
               PROVE  FALSE
    OBVIOUS
  <2>1. base * p + base <= base * q
    BY MultiplesApart
  <2> QED
    BY <1>1, <1>2, <1>3, <2>1
<1>5. ~(q < p)
  <2> SUFFICES ASSUME q < p
               PROVE  FALSE
    OBVIOUS
  <2>1. base * q + base <= base * p
    BY MultiplesApart
  <2> QED
    BY <1>1, <1>2, <1>3, <2>1
<1>6. p = q
  BY <1>4, <1>5
<1>7. r = d
  BY <1>1, <1>2, <1>3, <1>6
<1> QED
  BY <1>1, <1>2, <1>6, <1>7

\* The values of the last digits, and of all of them in the end.
Values(digits, base, last) ==
  /\ last \in [0 .. Len(digits) -> Nat]
  /\ NumberIn(digits, base) = last[Len(digits)]
  /\ last[0] = 0
  /\ \A i \in 1 .. Len(digits) :
       last[i] = digits[Len(digits) + 1 - i] + base * last[i - 1]

LEMMA ValuesExist ==
  ASSUME NEW digits \in Seq(Nat), NEW base \in Nat
  PROVE  \E last : Values(digits, base, last)
<1>0. PICK N \in Nat : N = Len(digits)
  BY LenProperties
<1> DEFINE Rec(f) == [i \in 0 .. N |->
                        IF i = 0 THEN 0 ELSE digits[N + 1 - i] + base * f[i - 1]]
           Good(n, f) == \A i \in 0 .. n : i <= N =>
                           f[i] = IF i = 0 THEN 0
                                  ELSE digits[N + 1 - i] + base * f[i - 1]
           T == {n \in Nat : \E f \in [0 .. n -> Nat] : Good(n, f)}
<1>1. \A i \in 1 .. N : digits[i] \in Nat
  BY <1>0, ElementOfSeq
<1>2. 0 \in T
  <2> DEFINE f == [i \in 0 .. 0 |-> 0]
  <2>1. f \in [0 .. 0 -> Nat] /\ Good(0, f)
    OBVIOUS
  <2> QED
    BY <2>1
<1>3. ASSUME NEW n \in Nat, n \in T
      PROVE  n + 1 \in T
  <2>1. PICK f \in [0 .. n -> Nat] : Good(n, f)
    BY <1>3
  <2> DEFINE next == IF n + 1 <= N THEN digits[N + 1 - (n + 1)] + base * f[n] ELSE 0
             g == [i \in 0 .. n + 1 |-> IF i <= n THEN f[i] ELSE next]
  <2>2. next \in Nat
    <3>1. CASE n + 1 <= N
      <4>1. N + 1 - (n + 1) \in 1 .. N
        BY <3>1
      <4>2. digits[N + 1 - (n + 1)] \in Nat
        BY <1>1, <4>1
      <4>3. PICK x \in Nat, y \in Nat : x = f[n] /\ y = digits[N + 1 - (n + 1)]
        BY <4>2
      <4>4. next = y + base * x
        BY <3>1, <4>3
      <4>5. PICK z \in Nat : z = base * x
        OBVIOUS
      <4> QED
        BY <4>4, <4>5, SMTT(30)
    <3> QED
      BY <3>1
  <2> HIDE DEF next
  <2>3. g \in [0 .. n + 1 -> Nat]
    BY <2>2
  <2>5. ASSUME NEW i \in 0 .. n + 1, i <= N
        PROVE  g[i] = IF i = 0 THEN 0 ELSE digits[N + 1 - i] + base * g[i - 1]
    <3>1. CASE i = 0
      BY <2>1, <3>1
    <3>2. CASE i # 0 /\ i <= n
      <4>1. g[i] = f[i] /\ g[i - 1] = f[i - 1] /\ i \in 0 .. n
        BY <3>2
      <4>2. f[i] = digits[N + 1 - i] + base * f[i - 1]
        BY <2>1, <2>5, <3>2, <4>1
      <4> QED
        BY <3>2, <4>1, <4>2
    <3>3. CASE i = n + 1
      <4>1. g[i] = next /\ g[i - 1] = f[n]
        BY <3>3
      <4> QED
        BY <2>5, <3>3, <4>1 DEF next
    <3> QED
      BY <3>1, <3>2, <3>3
  <2> HIDE DEF g
  <2>6. Good(n + 1, g)
    BY <2>5
  <2> HIDE DEF Good
  <2>7. n + 1 \in Nat
    OBVIOUS
  <2> QED
    BY <2>3, <2>6, <2>7, Zenon
<1> HIDE DEF T
<1>4. N \in T
  BY <1>2, <1>3, Induction
<1>5. PICK f \in [0 .. N -> Nat] : Good(N, f)
  BY <1>4 DEF T
<1>6. f = Rec(f)
  BY <1>5
<1> DEFINE last == CHOOSE g : g = Rec(g)
<1>7. last = Rec(last)
  BY <1>6
<1>8. NumberIn(digits, base) = last[N]
  BY <1>0 DEF NumberIn
<1> HIDE DEF last
<1>9. last[0] = 0 /\ \A i \in 1 .. N : last[i] = digits[N + 1 - i] + base * last[i - 1]
  <2>1. \A i \in 0 .. N :
          last[i] = IF i = 0 THEN 0 ELSE digits[N + 1 - i] + base * last[i - 1]
    BY <1>7
  <2> QED
    BY <1>1, <2>1
<1>10. last \in [0 .. N -> Nat]
  <2> DEFINE K == {n \in Nat : n <= N => last[n] \in Nat}
  <2>1. 0 \in K
    BY <1>9
  <2>2. ASSUME NEW n \in Nat, n \in K
        PROVE  n + 1 \in K
    <3> SUFFICES ASSUME n + 1 <= N
                 PROVE  last[n + 1] \in Nat
      OBVIOUS
    <3>1. n + 1 \in 1 .. N /\ (n + 1) - 1 = n /\ N + 1 - (n + 1) \in 1 .. N
      OBVIOUS
    <3>2. last[n + 1] = digits[N + 1 - (n + 1)] + base * last[n]
      BY <1>9, <3>1
    <3>3. PICK x \in Nat : x = last[n]
      BY <2>2
    <3>4. PICK y \in Nat : y = digits[N + 1 - (n + 1)]
      BY <1>1, <3>1
    <3>5. last[n + 1] = y + base * x
      BY <3>2, <3>3, <3>4
    <3>6. PICK z \in Nat : z = base * x
      OBVIOUS
    <3> QED
      BY <3>5, <3>6
  <2> HIDE DEF K
  <2>3. Nat \subseteq K
    BY <2>1, <2>2, Induction
  <2>4. \A n \in 0 .. N : last[n] \in Nat
    BY <2>3 DEF K
  <2> QED
    BY <1>7, <2>4
<1> QED
  BY <1>0, <1>8, <1>9, <1>10 DEF Values

LEMMA QuotientsAre ==
  ASSUME NEW number \in Nat, NEW base \in Nat \ {0}, NEW width \in Nat
  PROVE  /\ Quotients(number, base, width) \in [0 .. width -> Nat]
         /\ Quotients(number, base, width)[0] = number
         /\ \A i \in 1 .. width :
              Quotients(number, base, width)[i]
                = Quotients(number, base, width)[i - 1] \div base
<1> DEFINE Rec(f) == [i \in 0 .. width |->
                        IF i = 0 THEN number ELSE f[i - 1] \div base]
           Good(n, f) == \A i \in 0 .. n :
                           f[i] = IF i = 0 THEN number ELSE f[i - 1] \div base
           T == {n \in Nat : \E f \in [0 .. n -> Nat] : Good(n, f)}
<1>1. 0 \in T
  <2> DEFINE f == [i \in 0 .. 0 |-> number]
  <2>1. f \in [0 .. 0 -> Nat] /\ Good(0, f)
    OBVIOUS
  <2> QED
    BY <2>1
<1>2. ASSUME NEW n \in Nat, n \in T
      PROVE  n + 1 \in T
  <2>1. PICK f \in [0 .. n -> Nat] : Good(n, f)
    BY <1>2
  <2>2. PICK next \in Nat : next = f[n] \div base
    <3>1. f[n] \in Nat
      OBVIOUS
    <3> QED
      BY <3>1, Division
  <2> DEFINE g == [i \in 0 .. n + 1 |-> IF i <= n THEN f[i] ELSE next]
  <2>3. g \in [0 .. n + 1 -> Nat]
    OBVIOUS
  <2>4. ASSUME NEW i \in 0 .. n + 1
        PROVE  g[i] = IF i = 0 THEN number ELSE g[i - 1] \div base
    <3>1. CASE i = 0
      BY <2>1, <3>1
    <3>2. CASE i # 0 /\ i <= n
      <4>1. g[i] = f[i] /\ g[i - 1] = f[i - 1] /\ i \in 0 .. n
        BY <3>2
      <4> QED
        BY <2>1, <3>2, <4>1
    <3>3. CASE i = n + 1
      <4>1. g[i] = next /\ g[i - 1] = f[n]
        BY <3>3
      <4> QED
        BY <2>2, <3>3, <4>1
    <3> QED
      BY <3>1, <3>2, <3>3
  <2> HIDE DEF g
  <2>5. Good(n + 1, g)
    BY <2>4
  <2> HIDE DEF Good
  <2> QED
    BY <2>3, <2>5
<1> HIDE DEF T
<1>3. width \in T
  BY <1>1, <1>2, Induction
<1>4. PICK f \in [0 .. width -> Nat] : Good(width, f)
  BY <1>3 DEF T
<1>5. f = Rec(f)
  BY <1>4
<1> DEFINE left == CHOOSE g : g = Rec(g)
<1>6. left = Rec(left)
  BY <1>5
<1>7. Quotients(number, base, width) = left
  BY DEF Quotients
<1> HIDE DEF left
<1>8. \A i \in 0 .. width : left[i] = IF i = 0 THEN number ELSE left[i - 1] \div base
  BY <1>6
<1>9. left[0] = number /\ \A i \in 1 .. width : left[i] = left[i - 1] \div base
  BY <1>8
<1>10. left \in [0 .. width -> Nat]
  <2> DEFINE K == {n \in Nat : n <= width => left[n] \in Nat}
  <2>1. 0 \in K
    BY <1>9
  <2>2. ASSUME NEW n \in Nat, n \in K
        PROVE  n + 1 \in K
    <3> SUFFICES ASSUME n + 1 <= width
                 PROVE  left[n + 1] \in Nat
      OBVIOUS
    <3>1. n + 1 \in 1 .. width /\ (n + 1) - 1 = n
      OBVIOUS
    <3>2. left[n + 1] = left[n] \div base
      BY <1>9, <3>1
    <3>3. left[n] \in Nat
      BY <2>2
    <3> QED
      BY <3>2, <3>3, Division
  <2> HIDE DEF K
  <2>3. Nat \subseteq K
    BY <2>1, <2>2, Induction
  <2>4. \A n \in 0 .. width : left[n] \in Nat
    BY <2>3 DEF K
  <2> QED
    BY <1>6, <2>4
<1> QED
  BY <1>7, <1>9, <1>10

LEMMA DigitsAre ==
  ASSUME NEW number \in Nat, NEW base \in Nat \ {0}, NEW width \in Nat
  PROVE  /\ DigitsOf(number, base, width) \in Seq(0 .. base - 1)
         /\ Len(DigitsOf(number, base, width)) = width
         /\ \A i \in 1 .. width :
              DigitsOf(number, base, width)[i]
                = Quotients(number, base, width)[i - 1] % base
<1> DEFINE left == Quotients(number, base, width)
<1>1. left \in [0 .. width -> Nat]
  BY QuotientsAre
<1>2. DigitsOf(number, base, width) = [i \in 1 .. width |-> left[i - 1] % base]
  BY DEF DigitsOf
<1> HIDE DEF left
<1>3. \A i \in 1 .. width : left[i - 1] \in Nat
  BY <1>1
<1>4. \A i \in 1 .. width : left[i - 1] % base \in 0 .. base - 1
  BY <1>3, Division
<1>5. DigitsOf(number, base, width) \in [1 .. width -> 0 .. base - 1]
  BY <1>2, <1>4
<1>6. \A i \in 1 .. width : DigitsOf(number, base, width)[i] = left[i - 1] % base
  BY <1>2
<1> HIDE <1>2
<1> QED
  BY <1>5, <1>6 DEF left

\* Writing a number and reading it gives it back.
LEMMA NumberOfDigits ==
  ASSUME NEW number \in Nat, NEW base \in Nat \ {0}, NEW width \in Nat,
         Quotients(number, base, width)[width] = 0
  PROVE  NumberIn(DigitsOf(number, base, width), base) = number
<1> DEFINE left == Quotients(number, base, width)
           digits == DigitsOf(number, base, width)
<1>1. left[width] = 0
  OBVIOUS
<1>2. left \in [0 .. width -> Nat]
  BY QuotientsAre
<1>3. left[0] = number
  BY QuotientsAre
<1>4. \A i \in 1 .. width : left[i] = left[i - 1] \div base
  BY QuotientsAre
<1> HIDE DEF left
<1>5. /\ left \in [0 .. width -> Nat] /\ left[0] = number
      /\ \A i \in 1 .. width : left[i] = left[i - 1] \div base
  BY <1>2, <1>3, <1>4
<1>6. /\ digits \in Seq(Nat) /\ Len(digits) = width
      /\ \A i \in 1 .. width : digits[i] = left[i - 1] % base
  <2>1. digits \in Seq(0 .. base - 1)
    BY DigitsAre
  <2>2. digits \in Seq(Nat)
    BY <2>1
  <2> QED
    BY <2>2, DigitsAre DEF left
<1> HIDE DEF left, digits
<1>7. PICK last : Values(digits, base, last)
  BY <1>6, ValuesExist
<1>8. /\ last \in [0 .. width -> Nat]
      /\ NumberIn(digits, base) = last[width] /\ last[0] = 0
      /\ \A i \in 1 .. width : last[i] = digits[width + 1 - i] + base * last[i - 1]
  BY <1>6, <1>7 DEF Values
<1> DEFINE T == {n \in Nat : n <= width => last[n] = left[width - n]}
<1>9. 0 \in T
  BY <1>1, <1>8
<1>10. ASSUME NEW n \in Nat, n \in T
      PROVE  n + 1 \in T
  <2> SUFFICES ASSUME n + 1 <= width
               PROVE  last[n + 1] = left[width - (n + 1)]
    OBVIOUS
  <2>1. PICK k \in 0 .. width - 1 : k = width - (n + 1)
    OBVIOUS
  <2>2. n + 1 \in 1 .. width /\ n + 1 - 1 = n /\ width + 1 - (n + 1) = k + 1
        /\ width - n = k + 1 /\ k + 1 \in 1 .. width /\ k + 1 - 1 = k
    BY <2>1
  <2>3. last[n + 1] = digits[k + 1] + base * last[n]
    BY <1>8, <2>2
  <2>4. last[n] = left[k + 1]
    BY <1>10, <2>2
  <2>5. last[n + 1] = (left[k] % base) + base * (left[k] \div base)
    BY <1>5, <1>6, <2>2, <2>3, <2>4
  <2>6. PICK x \in Nat : x = left[k]
    BY <1>5
  <2>7. PICK q \in Nat, r \in 0 .. base - 1 :
          q = x \div base /\ r = x % base /\ x = base * q + r
    BY Division, ZenonT(40)
  <2>8. base * q \in Nat
    OBVIOUS
  <2>9. last[n + 1] = left[k]
    BY <2>5, <2>6, <2>7, <2>8
  <2> QED
    BY <2>1, <2>9
<1> HIDE DEF T
<1>11. width \in T
  BY <1>9, <1>10, Induction
<1>12. last[width] = left[0]
  BY <1>11 DEF T
<1> QED
  BY <1>5, <1>8, <1>12 DEF digits

\* Reading digits and writing the number gives them back.
LEMMA DigitsOfNumber ==
  ASSUME NEW base \in Nat \ {0}, NEW digits \in Seq(0 .. base - 1)
  PROVE  /\ NumberIn(digits, base) \in Nat
         /\ DigitsOf(NumberIn(digits, base), base, Len(digits)) = digits
         /\ Quotients(NumberIn(digits, base), base, Len(digits))[Len(digits)] = 0
<1>1. PICK width \in Nat : width = Len(digits)
  BY LenProperties
<1>2. \A i \in 1 .. width : digits[i] \in 0 .. base - 1
  BY <1>1, ElementOfSeq
<1>3. digits \in Seq(Nat)
  OBVIOUS
<1>4. PICK last : Values(digits, base, last)
  BY <1>3, ValuesExist
<1>5. /\ last \in [0 .. width -> Nat]
      /\ NumberIn(digits, base) = last[width] /\ last[0] = 0
      /\ \A i \in 1 .. width : last[i] = digits[width + 1 - i] + base * last[i - 1]
  BY <1>1, <1>4 DEF Values
<1>6. PICK number \in Nat : number = NumberIn(digits, base) /\ number = last[width]
  BY <1>5
<1> DEFINE left == Quotients(number, base, width)
<1>7. /\ left \in [0 .. width -> Nat] /\ left[0] = number
      /\ \A i \in 1 .. width : left[i] = left[i - 1] \div base
  BY QuotientsAre
<1> HIDE DEF left
<1>8. ASSUME NEW k \in 1 .. width
      PROVE  /\ last[width - (k - 1)] \div base = last[width - k]
             /\ last[width - (k - 1)] % base = digits[k]
  <2>1. width - (k - 1) \in 1 .. width /\ width - (k - 1) - 1 = width - k
        /\ width + 1 - (width - (k - 1)) = k /\ width - k \in 0 .. width
    OBVIOUS
  <2>2. last[width - (k - 1)] = digits[k] + base * last[width - k]
    BY <1>5, <2>1
  <2>3. PICK q \in Nat, d \in 0 .. base - 1 : q = last[width - k] /\ d = digits[k]
    BY <1>2, <1>5, <2>1
  <2>4. (d + base * q) \div base = q /\ (d + base * q) % base = d
    BY DivisionIs
  <2> QED
    BY <2>2, <2>3, <2>4
<1> DEFINE T == {n \in Nat : n <= width => left[n] = last[width - n]}
<1>9. 0 \in T
  BY <1>6, <1>7
<1>10. ASSUME NEW n \in Nat, n \in T
      PROVE  n + 1 \in T
  <2> SUFFICES ASSUME n + 1 <= width
               PROVE  left[n + 1] = last[width - (n + 1)]
    OBVIOUS
  <2>1. n + 1 \in 1 .. width /\ n + 1 - 1 = n
    OBVIOUS
  <2>2. left[n + 1] = left[n] \div base /\ left[n] = last[width - n]
    BY <1>7, <1>10, <2>1
  <2> QED
    BY <1>8, <2>1, <2>2
<1> HIDE DEF T
<1>11. Nat \subseteq T
  BY <1>9, <1>10, Induction
<1>12. \A n \in 0 .. width : left[n] = last[width - n]
  BY <1>11 DEF T
<1>13. left[width] = 0
  BY <1>5, <1>12
<1> DEFINE again == DigitsOf(number, base, width)
<1>14. /\ again \in Seq(0 .. base - 1) /\ Len(again) = width
       /\ \A i \in 1 .. width : again[i] = left[i - 1] % base
  BY DigitsAre DEF left
<1> HIDE DEF again
<1>15. ASSUME NEW i \in 1 .. width
       PROVE  again[i] = digits[i]
  <2>1. i - 1 \in 0 .. width
    OBVIOUS
  <2>2. left[i - 1] = last[width - (i - 1)]
    BY <1>12, <2>1
  <2> QED
    BY <1>8, <1>14, <2>2
<1>16. again = digits
  BY <1>1, <1>14, <1>15, SeqEqual
<1> QED
  BY <1>1, <1>6, <1>13, <1>16 DEF left, again

LEMMA NumberIsMonotone ==
  ASSUME NEW base \in Nat, NEW low \in Seq(Nat), NEW high \in Seq(Nat),
         Len(low) = Len(high), \A i \in 1 .. Len(low) : low[i] <= high[i]
  PROVE  NumberIn(low, base) <= NumberIn(high, base)
<1>1. PICK width \in Nat : width = Len(low) /\ width = Len(high)
  BY LenProperties
<1>2. \A i \in 1 .. width : low[i] \in Nat /\ high[i] \in Nat /\ low[i] <= high[i]
  BY <1>1, ElementOfSeq
<1>3. PICK lower : Values(low, base, lower)
  BY ValuesExist
<1>4. PICK upper : Values(high, base, upper)
  BY ValuesExist
<1>5. /\ lower \in [0 .. width -> Nat]
      /\ NumberIn(low, base) = lower[width] /\ lower[0] = 0
      /\ \A i \in 1 .. width : lower[i] = low[width + 1 - i] + base * lower[i - 1]
  BY <1>1, <1>3 DEF Values
<1>6. /\ upper \in [0 .. width -> Nat]
      /\ NumberIn(high, base) = upper[width] /\ upper[0] = 0
      /\ \A i \in 1 .. width : upper[i] = high[width + 1 - i] + base * upper[i - 1]
  BY <1>1, <1>4 DEF Values
<1> DEFINE T == {n \in Nat : n <= width => lower[n] <= upper[n]}
<1>7. 0 \in T
  BY <1>5, <1>6
<1>8. ASSUME NEW n \in Nat, n \in T
      PROVE  n + 1 \in T
  <2> SUFFICES ASSUME n + 1 <= width
               PROVE  lower[n + 1] <= upper[n + 1]
    OBVIOUS
  <2>1. n + 1 \in 1 .. width /\ n + 1 - 1 = n /\ width + 1 - (n + 1) \in 1 .. width
    OBVIOUS
  <2>2. PICK p \in Nat, q \in Nat, x \in Nat, y \in Nat :
          /\ p = lower[n] /\ q = upper[n] /\ p <= q /\ x <= y
          /\ lower[n + 1] = x + base * p /\ upper[n + 1] = y + base * q
    <3>1. lower[n] \in Nat /\ upper[n] \in Nat /\ lower[n] <= upper[n]
      BY <1>5, <1>6, <1>8, <2>1
    <3>2. PICK k \in 1 .. width : k = width + 1 - (n + 1)
      BY <2>1
    <3>3. low[k] \in Nat /\ high[k] \in Nat /\ low[k] <= high[k]
      BY <1>2
    <3>4. PICK i \in 1 .. width : i = n + 1 /\ i - 1 = n /\ width + 1 - i = k
      BY <2>1, <3>2
    <3>5. lower[i] = low[k] + base * lower[n]
      BY <1>5, <3>4
    <3>6. upper[i] = high[k] + base * upper[n]
      BY <1>6, <3>4
    <3>7. PICK p \in Nat, q \in Nat : p = lower[n] /\ q = upper[n] /\ p <= q
      BY <3>1
    <3>8. PICK x \in Nat, y \in Nat : x = low[k] /\ y = high[k] /\ x <= y
      BY <3>3
    <3> QED
      BY <3>4, <3>5, <3>6, <3>7, <3>8
  <2>3. base * p <= base * q
    <3>1. CASE p = q
      BY <3>1
    <3>2. CASE p < q
      BY <3>2, MultiplesApart
    <3> QED
      BY <2>2, <3>1, <3>2
  <2>4. base * p \in Nat /\ base * q \in Nat
    OBVIOUS
  <2>5. x + base * p <= y + base * q
    <3>1. PICK s \in Nat, t \in Nat : s = base * p /\ t = base * q /\ s <= t
      BY <2>3, <2>4
    <3>2. x <= y /\ s <= t
      BY <2>2, <3>1
    <3>3. x + s <= y + t
      BY <3>2
    <3> QED
      BY <3>1, <3>3
  <2> QED
    BY <2>2, <2>5
<1> HIDE DEF T
<1>9. width \in T
  BY <1>7, <1>8, Induction
<1> QED
  BY <1>5, <1>6, <1>9 DEF T

-----------------------------------------------------------------------------
(* Pieces of a sequence *)

LEMMA SeqIsFunction ==
  ASSUME NEW S, NEW s \in Seq(S), NEW n, n = Len(s)
  PROVE  s = [i \in 1 .. n |-> s[i]]
  OBVIOUS

LEMMA Piece ==
  ASSUME NEW S, NEW s \in Seq(S),
         NEW m \in 1 .. Len(s) + 1, NEW n \in m - 1 .. Len(s)
  PROVE  /\ SubSeq(s, m, n) \in Seq(S)
         /\ Len(SubSeq(s, m, n)) = n - m + 1
         /\ \A i \in 1 .. n - m + 1 : SubSeq(s, m, n)[i] = s[m + i - 1]
<1>1. Len(s) \in Nat /\ m \in Int /\ n \in Int
  BY LenProperties
<1>2. \A i \in m .. n : s[i] \in S
  BY <1>1, ElementOfSeq
<1> QED
  BY <1>1, <1>2, SubSeqProperties

LEMMA PieceOfLonger ==
  ASSUME NEW S, NEW s \in Seq(S), NEW t \in Seq(S),
         NEW m \in 1 .. Len(s) + 1, NEW n \in m - 1 .. Len(s)
  PROVE  SubSeq(s \o t, m, n) = SubSeq(s, m, n)
<1> DEFINE u == s \o t
<1>1. Len(s) \in Nat /\ Len(t) \in Nat
  BY LenProperties
<1>2. /\ u \in Seq(S) /\ Len(u) = Len(s) + Len(t)
      /\ \A i \in 1 .. Len(s) : u[i] = s[i]
  BY <1>1, ConcatProperties
<1> HIDE DEF u
<1>3. m \in 1 .. Len(u) + 1 /\ n \in m - 1 .. Len(u)
  BY <1>1, <1>2
<1>4. /\ SubSeq(u, m, n) \in Seq(S)
      /\ Len(SubSeq(u, m, n)) = n - m + 1
      /\ \A i \in 1 .. n - m + 1 : SubSeq(u, m, n)[i] = u[m + i - 1]
  BY <1>2, <1>3, Piece
<1>5. /\ SubSeq(s, m, n) \in Seq(S)
      /\ Len(SubSeq(s, m, n)) = n - m + 1
      /\ \A i \in 1 .. n - m + 1 : SubSeq(s, m, n)[i] = s[m + i - 1]
  BY Piece
<1>6. \A i \in 1 .. n - m + 1 : SubSeq(u, m, n)[i] = SubSeq(s, m, n)[i]
  <2>1. \A i \in 1 .. n - m + 1 : m + i - 1 \in 1 .. Len(s)
    BY <1>1
  <2> QED
    BY <1>2, <1>4, <1>5, <2>1
<1>7. SubSeq(u, m, n) = SubSeq(s, m, n)
  BY <1>4, <1>5, <1>6, SeqEqual
<1> QED
  BY <1>7 DEF u

LEMMA BackwardsIs ==
  ASSUME NEW S, NEW s \in Seq(S)
  PROVE  /\ Backwards(s) \in Seq(S)
         /\ Len(Backwards(s)) = Len(s)
         /\ \A i \in 1 .. Len(s) : Backwards(s)[i] = s[Len(s) + 1 - i]
         /\ Backwards(Backwards(s)) = s
<1>1. /\ Len(s) \in Nat /\ DOMAIN s = 1 .. Len(s)
      /\ \A i \in 1 .. Len(s) : s[i] \in S
  BY LenProperties, ElementOfSeq
<1> DEFINE u == Backwards(s)
<1>2. u \in [1 .. Len(s) -> S] /\ \A i \in 1 .. Len(s) : u[i] = s[Len(s) + 1 - i]
  <2>1. \A i \in 1 .. Len(s) : Len(s) + 1 - i \in 1 .. Len(s)
    BY <1>1
  <2> QED
    BY <1>1, <2>1 DEF Backwards
<1> HIDE DEF u
<1>3. u \in Seq(S) /\ Len(u) = Len(s) /\ DOMAIN u = 1 .. Len(s)
  BY <1>1, <1>2
<1> DEFINE v == Backwards(u)
<1>4. v \in [1 .. Len(s) -> S] /\ \A i \in 1 .. Len(s) : v[i] = s[i]
  <2>1. \A i \in 1 .. Len(s) :
          Len(s) + 1 - i \in 1 .. Len(s) /\ Len(s) + 1 - (Len(s) + 1 - i) = i
    BY <1>1
  <2>2. \A i \in 1 .. Len(s) : u[Len(s) + 1 - i] = s[i]
    BY <1>2, <2>1
  <2>3. v = [i \in 1 .. Len(s) |-> u[Len(s) + 1 - i]]
    BY <1>3 DEF Backwards
  <2> QED
    BY <1>1, <2>2, <2>3
<1> HIDE DEF v
<1>5. v \in Seq(S) /\ Len(v) = Len(s)
  BY <1>1, <1>4
<1>6. v = s
  BY <1>1, <1>4, <1>5, SeqEqual
<1> QED
  BY <1>2, <1>3, <1>6 DEF u, v

-----------------------------------------------------------------------------
(* Where the fields are *)

LEMMA FieldWidths ==
  ASSUME NEW version
  PROVE  DateWidth(version) \in Nat \ {0} /\ DateTicks(version) \in Nat \ {0}
BY WidthsAssumption DEF DateWidth, DateTicks

LEMMA TerminatorIs ==
  ASSUME NEW b \in Seq(Byte), Terminators(b) # {}
  PROVE  /\ Terminator(b) \in 2 .. Len(b)
         /\ Terminator(b) <= MaximumDomainLength + 2
         /\ b[Terminator(b)] = 0
         /\ \A p \in Terminators(b) : Terminator(b) <= p
<1>1. Terminators(b) \in SUBSET Nat
  BY LenProperties DEF Terminators
<1>2. Terminator(b) \in Terminators(b) /\ \A p \in Terminators(b) : Terminator(b) <= p
  BY <1>1, LeastExists DEF Terminator
<1> QED
  BY <1>2 DEF Terminators

\* The number of a field, and of the digits it has backwards.
LEMMA FieldNumber ==
  ASSUME NEW bytes \in Seq(Byte)
  PROVE  /\ Number(bytes) \in Nat
         /\ LittleEndian(Number(bytes), Len(bytes)) = bytes
         /\ Fits(Number(bytes), Len(bytes))
<1>1. ByteValues \in Nat \ {0} /\ Byte = 0 .. ByteValues - 1
  BY WidthsAssumption DEF Byte
<1> QED
  BY <1>1, DigitsOfNumber DEF Number, LittleEndian, Fits

LEMMA DateIsTicks ==
  ASSUME NEW version, NEW bytes \in Seq(Byte)
  PROVE  DateOf(version, bytes) \in Nat
<1>1. Backwards(bytes) \in Seq(Byte)
  BY BackwardsIs
<1>2. PICK n \in Nat :
        n = Number(IF version = Version1 THEN Backwards(bytes) ELSE bytes)
  BY <1>1, FieldNumber
<1>3. PICK t \in Nat : t = DateTicks(version)
  BY FieldWidths
<1>4. n * t \in Nat
  OBVIOUS
<1> QED
  BY <1>2, <1>3, <1>4 DEF DateOf

LEMMA Layout ==
  ASSUME NEW b \in Seq(Byte), Terminators(b) # {}
  PROVE  /\ Terminator(b) \in 2 .. Len(b)
         /\ Terminator(b) <= MaximumDomainLength + 2
         /\ DateEnd(b) \in Nat /\ DateEnd(b) = Terminator(b) + DateWidth(b[1])
         /\ DateEnd(b) > Terminator(b)
         /\ LengthEnd(b) \in Nat /\ LengthEnd(b) = DateEnd(b) + LengthWidth
         /\ LengthEnd(b) > DateEnd(b)
         /\ DateEnd(b) <= Len(b) => DateIn(b) \in Nat
         /\ LengthEnd(b) <= Len(b) => Declared(b) \in Nat
         /\ Present(b) \in Int
<1>1. Len(b) \in Nat
  BY LenProperties
<1>2. Terminator(b) \in 2 .. Len(b) /\ Terminator(b) <= MaximumDomainLength + 2
  BY TerminatorIs
<1>3. DateWidth(b[1]) \in Nat \ {0} /\ LengthWidth \in Nat \ {0}
  BY WidthsAssumption, FieldWidths
<1>4. /\ DateEnd(b) \in Nat /\ DateEnd(b) = Terminator(b) + DateWidth(b[1])
      /\ LengthEnd(b) \in Nat /\ LengthEnd(b) = DateEnd(b) + LengthWidth
      /\ DateEnd(b) > Terminator(b) /\ LengthEnd(b) > DateEnd(b)
  BY <1>1, <1>2, <1>3 DEF DateEnd, LengthEnd
<1>5. ASSUME DateEnd(b) <= Len(b)
      PROVE  DateIn(b) \in Nat
  <2>1. /\ Terminator(b) + 1 \in 1 .. Len(b) + 1
        /\ DateEnd(b) \in (Terminator(b) + 1) - 1 .. Len(b)
    BY <1>1, <1>2, <1>4, <1>5
  <2>2. SubSeq(b, Terminator(b) + 1, DateEnd(b)) \in Seq(Byte)
    BY <2>1, Piece
  <2> QED
    BY <2>2, DateIsTicks DEF DateIn
<1>6. ASSUME LengthEnd(b) <= Len(b)
      PROVE  Declared(b) \in Nat
  <2>1. /\ DateEnd(b) + 1 \in 1 .. Len(b) + 1
        /\ LengthEnd(b) \in (DateEnd(b) + 1) - 1 .. Len(b)
    BY <1>1, <1>4, <1>6
  <2>2. SubSeq(b, DateEnd(b) + 1, LengthEnd(b)) \in Seq(Byte)
    BY <2>1, Piece
  <2> QED
    BY <2>2, FieldNumber DEF Declared
<1>7. Present(b) \in Int
  BY <1>1, <1>4, WidthsAssumption DEF Present
<1> QED
  BY <1>2, <1>4, <1>5, <1>6, <1>7

\* The fields of a buffer are where they are in any longer one.
LEMMA SameLayout ==
  ASSUME NEW b \in Seq(Byte), NEW r \in Seq(Byte), Terminators(b) # {}
  PROVE  /\ Terminators(b \o r) # {}
         /\ (b \o r)[1] = b[1]
         /\ Terminator(b \o r) = Terminator(b)
         /\ DateEnd(b \o r) = DateEnd(b)
         /\ LengthEnd(b \o r) = LengthEnd(b)
         /\ DateEnd(b) <= Len(b) => DateIn(b \o r) = DateIn(b)
         /\ LengthEnd(b) <= Len(b) => Declared(b \o r) = Declared(b)
<1> DEFINE c == b \o r
<1>1. /\ Len(b) \in Nat /\ Len(r) \in Nat
      /\ c \in Seq(Byte) /\ Len(c) = Len(b) + Len(r)
      /\ \A i \in 1 .. Len(b) : c[i] = b[i]
  BY LenProperties, ConcatProperties
<1>2. \A m \in 1 .. Len(b) + 1 : \A n \in m - 1 .. Len(b) :
        SubSeq(c, m, n) = SubSeq(b, m, n)
  BY PieceOfLonger
<1> HIDE DEF c
<1>3. /\ Terminator(b) \in 2 .. Len(b)
      /\ Terminator(b) <= MaximumDomainLength + 2
      /\ b[Terminator(b)] = 0
      /\ \A p \in Terminators(b) : Terminator(b) <= p
  BY TerminatorIs
<1>4. Terminator(b) \in Terminators(c)
  BY <1>1, <1>3 DEF Terminators
<1>5. /\ Terminator(c) \in 2 .. Len(c)
      /\ Terminator(c) <= MaximumDomainLength + 2
      /\ c[Terminator(c)] = 0
      /\ \A p \in Terminators(c) : Terminator(c) <= p
  BY <1>1, <1>4, TerminatorIs
<1>6. Terminator(c) <= Terminator(b)
  BY <1>4, <1>5
<1>7. Terminator(c) \in Terminators(b)
  BY <1>1, <1>3, <1>5, <1>6 DEF Terminators
<1>8. Terminator(c) = Terminator(b)
  BY <1>3, <1>5, <1>6, <1>7
<1>9. c[1] = b[1]
  BY <1>1, <1>3
<1>10. DateEnd(c) = DateEnd(b) /\ LengthEnd(c) = LengthEnd(b)
  BY <1>8, <1>9 DEF DateEnd, LengthEnd
<1>11. /\ DateEnd(b) \in Nat /\ DateEnd(b) > Terminator(b)
       /\ LengthEnd(b) \in Nat /\ LengthEnd(b) > DateEnd(b)
  BY Layout
<1>12. ASSUME DateEnd(b) <= Len(b)
       PROVE  DateIn(c) = DateIn(b)
  <2>1. SubSeq(c, Terminator(b) + 1, DateEnd(b)) = SubSeq(b, Terminator(b) + 1, DateEnd(b))
    <3>1. /\ Terminator(b) + 1 \in 1 .. Len(b) + 1
          /\ DateEnd(b) \in (Terminator(b) + 1) - 1 .. Len(b)
      BY <1>1, <1>3, <1>11, <1>12
    <3> QED
      BY <1>2, <3>1
  <2> QED
    BY <1>8, <1>9, <1>10, <2>1 DEF DateIn
<1>13. ASSUME LengthEnd(b) <= Len(b)
       PROVE  Declared(c) = Declared(b)
  <2>1. SubSeq(c, DateEnd(b) + 1, LengthEnd(b)) = SubSeq(b, DateEnd(b) + 1, LengthEnd(b))
    <3>1. /\ DateEnd(b) + 1 \in 1 .. Len(b) + 1
          /\ LengthEnd(b) \in (DateEnd(b) + 1) - 1 .. Len(b)
      BY <1>1, <1>11, <1>13
    <3> QED
      BY <1>2, <3>1
  <2> QED
    BY <1>10, <2>1 DEF Declared
<1> QED
  BY <1>4, <1>8, <1>9, <1>10, <1>12, <1>13 DEF c

-----------------------------------------------------------------------------
(* When a read succeeds *)

\* All of an OWID is there.
Complete(b) ==
  /\ b # <<>> /\ b[1] \in Versions /\ b[1] # EmptyVersion
  /\ Terminators(b) # {}
  /\ LengthEnd(b) <= Len(b)
  /\ b[1] # Version1 => DateIn(b) <= MaximumMinutes * MinuteTicks
  /\ Declared(b) <= Present(b)

LEMMA ParseIs ==
  ASSUME NEW b \in Seq(Byte)
  PROVE  /\ Complete(b) =>
              Parse(b, FALSE) =
                Parsed(OwidIn(b), LengthEnd(b) + Declared(b) + SignatureLength)
         /\ Complete(b) /\ Present(b) = Declared(b) => Parse(b, TRUE) = Parse(b, FALSE)
         /\ Parse(b, FALSE).status = "PARSED" => Complete(b)
         /\ Parse(b, TRUE).status = "PARSED" => Complete(b) /\ Present(b) = Declared(b)
         /\ ~Complete(b) => Parse(b, FALSE).owids = {}
<1>1. Len(b) \in Nat
  BY LenProperties
<1>2. CASE Terminators(b) # {}
  <2>1. /\ DateEnd(b) \in Nat /\ LengthEnd(b) \in Nat /\ LengthEnd(b) > DateEnd(b)
        /\ DateEnd(b) <= Len(b) => DateIn(b) \in Nat
        /\ LengthEnd(b) <= Len(b) => Declared(b) \in Nat
        /\ Present(b) \in Int
    BY <1>2, Layout
  <2>2. MaximumMinutes * MinuteTicks \in Nat
    BY WidthsAssumption
  <2> QED
    BY <1>1, <1>2, <2>1, <2>2 DEF Complete, Parse, Parsed, Failed, DomainFault
<1>3. CASE Terminators(b) = {}
  BY <1>1, <1>3 DEF Complete, Parse, Parsed, Failed, DomainFault
<1> QED
  BY <1>2, <1>3

LEMMA ConsumedIsLength ==
  ASSUME NEW b \in Seq(Byte), Complete(b)
  PROVE  /\ Declared(b) \in Nat /\ LengthEnd(b) \in Nat
         /\ LengthEnd(b) + Declared(b) + SignatureLength \in 0 .. Len(b)
         /\ Present(b) = Declared(b) <=>
              LengthEnd(b) + Declared(b) + SignatureLength = Len(b)
<1>1. Len(b) \in Nat
  BY LenProperties
<1>2. /\ LengthEnd(b) \in Nat /\ Declared(b) \in Nat /\ SignatureLength \in Nat
      /\ Present(b) = Len(b) - LengthEnd(b) - SignatureLength
      /\ Declared(b) <= Present(b)
  BY Layout, WidthsAssumption DEF Complete, Present
<1> QED
  BY <1>1, <1>2

LEMMA WholeAndFramed ==
  ASSUME buffer \in Seq(Byte)
  PROVE  ContractsAgree
<1>1. ASSUME Whole.status = "PARSED"
      PROVE  Framed = Whole /\ Framed.consumed = Len(buffer)
  <2>1. Complete(buffer) /\ Present(buffer) = Declared(buffer)
    BY <1>1, ParseIs DEF Whole
  <2>2. Whole = Framed /\ Framed = Parsed(OwidIn(buffer),
          LengthEnd(buffer) + Declared(buffer) + SignatureLength)
    BY <2>1, ParseIs DEF Whole, Framed
  <2> QED
    BY <2>1, <2>2, ConsumedIsLength DEF Parsed
<1>2. ASSUME Framed.status = "PARSED", Framed.consumed = Len(buffer)
      PROVE  Whole = Framed
  <2>1. Complete(buffer)
    BY <1>2, ParseIs DEF Framed
  <2>2. Framed = Parsed(OwidIn(buffer),
          LengthEnd(buffer) + Declared(buffer) + SignatureLength)
    BY <2>1, ParseIs DEF Framed
  <2>3. Present(buffer) = Declared(buffer)
    BY <1>2, <2>1, <2>2, ConsumedIsLength DEF Parsed
  <2> QED
    BY <2>1, <2>3, ParseIs DEF Whole, Framed
<1> QED
  BY <1>1, <1>2 DEF ContractsAgree

-----------------------------------------------------------------------------
(* Decisions *)

LEMMA DecisionIsFinal ==
  ASSUME NEW b \in Seq(Byte), NEW r \in Seq(Byte),
         Parse(b, FALSE).status \notin Undecided
  PROVE  Parse(b \o r, FALSE) = Parse(b, FALSE)
<1> DEFINE c == b \o r
<1>1. /\ Len(b) \in Nat /\ Len(r) \in Nat
      /\ c \in Seq(Byte) /\ Len(c) = Len(b) + Len(r)
      /\ \A i \in 1 .. Len(b) : c[i] = b[i]
  BY LenProperties, ConcatProperties
<1>2. Terminators(b) # {} =>
        /\ Terminators(c) # {} /\ DateEnd(c) = DateEnd(b) /\ LengthEnd(c) = LengthEnd(b)
        /\ DateEnd(b) <= Len(b) => DateIn(c) = DateIn(b)
        /\ LengthEnd(b) <= Len(b) => Declared(c) = Declared(b)
  BY SameLayout
<1>3. \A m \in 1 .. Len(b) + 1 : \A n \in m - 1 .. Len(b) :
        SubSeq(c, m, n) = SubSeq(b, m, n)
  BY PieceOfLonger
<1>4. Terminators(b) # {} => Terminator(c) = Terminator(b)
  BY SameLayout
<1> SUFFICES Parse(c, FALSE) = Parse(b, FALSE)
  OBVIOUS
<1> HIDE DEF c
<1>5. b # <<>> /\ c # <<>> /\ Len(b) > 0 /\ c[1] = b[1]
  <2>1. b # <<>>
    BY DEF Parse, Failed, Undecided
  <2>2. Len(b) > 0
    BY <2>1, EmptySeq
  <2> QED
    BY <1>1, <2>1, <2>2
<1>6. CASE b[1] \notin Versions \/ b[1] = EmptyVersion
  BY <1>5, <1>6 DEF Parse
<1>7. CASE b[1] \in Versions /\ b[1] # EmptyVersion /\ Terminators(b) = {}
  <2>1. Parse(b, FALSE) = DomainFault(b)
    BY <1>5, <1>7 DEF Parse
  <2>2. ~(Len(b) <= MaximumDomainLength + 1)
    <3>1. SUFFICES ASSUME Len(b) <= MaximumDomainLength + 1
                   PROVE  FALSE
      OBVIOUS
    <3>2. Parse(b, FALSE) = Failed("UNEXPECTED_END")
      BY <2>1, <3>1 DEF DomainFault
    <3>3. Failed("UNEXPECTED_END").status = "UNEXPECTED_END"
      BY DEF Failed
    <3> QED
      BY <3>2, <3>3, Zenon DEF Undecided
  <2>3. MaximumDomainLength \in Nat
    BY WidthsAssumption
  <2>4. Terminators(c) = {}
    <3>1. ASSUME NEW p \in Terminators(c)
          PROVE  p \in Terminators(b)
      BY <1>1, <2>2, <2>3, <3>1 DEF Terminators
    <3> QED
      BY <1>7, <3>1
  <2>5. ~(Len(c) <= MaximumDomainLength + 1)
    BY <1>1, <2>2, <2>3
  <2> QED
    BY <1>5, <1>7, <2>1, <2>2, <2>4, <2>5 DEF Parse, DomainFault
<1>8. CASE b[1] \in Versions /\ b[1] # EmptyVersion /\ Terminators(b) # {}
  <2>1. /\ Terminator(b) \in 2 .. Len(b)
        /\ DateEnd(b) \in Nat /\ LengthEnd(b) \in Nat
        /\ DateEnd(b) > Terminator(b) /\ LengthEnd(b) > DateEnd(b)
        /\ DateEnd(b) <= Len(b) => DateIn(b) \in Nat
        /\ LengthEnd(b) <= Len(b) => Declared(b) \in Nat
    BY <1>8, Layout
  <2>2. ~(Len(b) < DateEnd(b)) /\ ~(Len(c) < DateEnd(b))
    <3>1. ~(Len(b) < DateEnd(b))
      BY <1>5, <1>8 DEF Parse, Failed, Undecided
    <3> QED
      BY <1>1, <2>1, <3>1
  <2>3. CASE b[1] # Version1 /\ DateIn(b) > MaximumMinutes * MinuteTicks
    <3>1. DateIn(c) = DateIn(b) /\ DateEnd(c) = DateEnd(b) /\ Terminators(c) # {}
      BY <1>1, <1>2, <1>8, <2>1, <2>2
    <3> QED
      BY <1>5, <1>8, <2>2, <2>3, <3>1 DEF Parse
  <2>4. CASE ~(b[1] # Version1 /\ DateIn(b) > MaximumMinutes * MinuteTicks)
    <3>1. ~(Len(b) < LengthEnd(b))
      BY <1>5, <1>8, <2>2, <2>4 DEF Parse, Failed, Undecided
    <3>2. ~(Len(c) < LengthEnd(b))
      BY <1>1, <2>1, <3>1
    <3>3. ~(Present(b) < Declared(b))
      BY <1>5, <1>8, <2>2, <2>4, <3>1 DEF Parse, Failed, Undecided
    <3>4. /\ DateIn(c) = DateIn(b) /\ DateEnd(c) = DateEnd(b) /\ LengthEnd(c) = LengthEnd(b)
          /\ Declared(c) = Declared(b) /\ Declared(b) \in Nat
      BY <1>1, <1>2, <1>8, <2>1, <2>2, <3>1
    <3>5. ~(Present(c) < Declared(c))
      BY <1>1, <2>1, <3>3, <3>4, WidthsAssumption DEF Present
    <3>6. OwidIn(c) = OwidIn(b)
      <4>1. PICK e \in Nat : e = LengthEnd(b) + Declared(b)
        BY <2>1, <3>4
      <4>2. SignatureLength \in Nat /\ e + SignatureLength <= Len(b) /\ LengthEnd(b) <= e
        <5>1. PICK l \in Nat, le \in Nat, n \in Nat, s \in Nat :
                l = Len(b) /\ le = LengthEnd(b) /\ n = Declared(b) /\ s = SignatureLength
          BY <1>1, <2>1, <3>4, WidthsAssumption
        <5>2. ~(l - le - s < n)
          BY <3>3, <5>1 DEF Present
        <5>3. e = le + n
          BY <4>1, <5>1
        <5>4. e + s <= l /\ le <= e
          BY <5>2, <5>3
        <5> QED
          BY <5>1, <5>4
      <4>3. SubSeq(c, 2, Terminator(b) - 1) = SubSeq(b, 2, Terminator(b) - 1)
        <5>1. 2 \in 1 .. Len(b) + 1 /\ Terminator(b) - 1 \in 2 - 1 .. Len(b)
          BY <1>1, <2>1
        <5> QED
          BY <1>3, <5>1
      <4>4. SubSeq(c, LengthEnd(b) + 1, e) = SubSeq(b, LengthEnd(b) + 1, e)
        <5>1. LengthEnd(b) + 1 \in 1 .. Len(b) + 1 /\ e \in (LengthEnd(b) + 1) - 1 .. Len(b)
          BY <1>1, <2>1, <4>2
        <5> QED
          BY <1>3, <5>1
      <4>5. SubSeq(c, e + 1, e + SignatureLength) = SubSeq(b, e + 1, e + SignatureLength)
        <5>1. e + 1 \in 1 .. Len(b) + 1 /\ e + SignatureLength \in (e + 1) - 1 .. Len(b)
          BY <1>1, <4>2
        <5> QED
          BY <1>3, <5>1
      <4> QED
        BY <1>5, <1>8, <1>4, <3>4, <4>1, <4>3, <4>4, <4>5 DEF OwidIn
    <3>7. Terminators(c) # {}
      BY <1>2, <1>8
    <3> QED
      BY <1>5, <1>8, <2>2, <2>4, <3>1, <3>2, <3>3, <3>4, <3>5, <3>6, <3>7 DEF Parse
  <2> QED
    BY <2>3, <2>4
<1> QED
  BY <1>6, <1>7, <1>8 DEF c

-----------------------------------------------------------------------------
(* Domains *)

\* The bytes of the first characters, and of all of them in the end.
Encodings(domain, upTo) ==
  /\ upTo \in [0 .. Len(domain) -> Seq(Byte)]
  /\ Encoded(domain) = upTo[Len(domain)]
  /\ upTo[0] = <<>>
  /\ \A i \in 1 .. Len(domain) :
       upTo[i] = upTo[i - 1] \o EncodedCharacter(domain[i])

LEMMA CharacterBytes ==
  ASSUME NEW c \in Character
  PROVE  /\ EncodedCharacter(c) \in Seq(Byte)
         /\ c < FirstHigh => EncodedCharacter(c) = <<c>>
<1>1. /\ FirstHigh \in 4 .. ByteValues - 1 /\ ByteValues \in Nat
      /\ Byte = 0 .. ByteValues - 1
  BY WidthsAssumption DEF Byte
<1>2. FirstHigh \in Byte
  BY <1>1
<1>3. CASE c = Replacement
  <2>1. EncodedCharacter(c) = <<FirstHigh, FirstHigh, FirstHigh>>
    BY <1>3 DEF EncodedCharacter
  <2>2. ~(c < FirstHigh)
    BY <1>1, <1>3 DEF Replacement
  <2> QED
    BY <1>2, <2>1, <2>2
<1>4. CASE c = Wide
  <2>1. EncodedCharacter(c) = <<FirstHigh, FirstHigh>>
    BY <1>1, <1>4 DEF EncodedCharacter, Replacement, Wide
  <2>2. ~(c < FirstHigh)
    BY <1>1, <1>4 DEF Wide
  <2> QED
    BY <1>2, <2>1, <2>2
<1>5. CASE c # Replacement /\ c # Wide
  <2>1. EncodedCharacter(c) = <<c>>
    BY <1>5 DEF EncodedCharacter
  <2>2. c \in Byte
    BY <1>1, <1>5 DEF Character
  <2> QED
    BY <2>1, <2>2
<1> QED
  BY <1>3, <1>4, <1>5

LEMMA EncodingsExist ==
  ASSUME NEW domain \in Seq(Character)
  PROVE  \E upTo : Encodings(domain, upTo)
<1>0. PICK N \in Nat : N = Len(domain)
  BY LenProperties
<1> DEFINE Rec(f) == [i \in 0 .. N |->
                        IF i = 0 THEN <<>> ELSE f[i - 1] \o EncodedCharacter(domain[i])]
           Good(n, f) == \A i \in 0 .. n : i <= N =>
                           f[i] = IF i = 0 THEN <<>>
                                  ELSE f[i - 1] \o EncodedCharacter(domain[i])
           T == {n \in Nat : \E f \in [0 .. n -> Seq(Byte)] : Good(n, f)}
<1>1. \A i \in 1 .. N : EncodedCharacter(domain[i]) \in Seq(Byte)
  <2>1. \A i \in 1 .. N : domain[i] \in Character
    BY <1>0, ElementOfSeq
  <2> QED
    BY <2>1, CharacterBytes
<1>2. 0 \in T
  <2> DEFINE f == [i \in 0 .. 0 |-> <<>>]
  <2>1. f \in [0 .. 0 -> Seq(Byte)] /\ Good(0, f)
    OBVIOUS
  <2> QED
    BY <2>1
<1>3. ASSUME NEW n \in Nat, n \in T
      PROVE  n + 1 \in T
  <2>1. PICK f \in [0 .. n -> Seq(Byte)] : Good(n, f)
    BY <1>3
  <2> DEFINE next == IF n + 1 <= N THEN f[n] \o EncodedCharacter(domain[n + 1]) ELSE <<>>
             g == [i \in 0 .. n + 1 |-> IF i <= n THEN f[i] ELSE next]
  <2>2. next \in Seq(Byte)
    <3>1. CASE n + 1 <= N
      <4>1. EncodedCharacter(domain[n + 1]) \in Seq(Byte)
        BY <1>1, <3>1
      <4>2. f[n] \in Seq(Byte)
        OBVIOUS
      <4>3. f[n] \o EncodedCharacter(domain[n + 1]) \in Seq(Byte)
        BY <4>1, <4>2, ConcatProperties
      <4> QED
        BY <3>1, <4>3
    <3> QED
      BY <3>1
  <2> HIDE DEF next
  <2>3. g \in [0 .. n + 1 -> Seq(Byte)]
    BY <2>2
  <2>4. ASSUME NEW i \in 0 .. n + 1, i <= N
        PROVE  g[i] = IF i = 0 THEN <<>> ELSE g[i - 1] \o EncodedCharacter(domain[i])
    <3>1. CASE i = 0
      BY <2>1, <3>1
    <3>2. CASE i # 0 /\ i <= n
      <4>1. g[i] = f[i] /\ g[i - 1] = f[i - 1] /\ i \in 0 .. n
        BY <3>2
      <4>2. f[i] = f[i - 1] \o EncodedCharacter(domain[i])
        BY <2>1, <2>4, <3>2, <4>1
      <4> QED
        BY <3>2, <4>1, <4>2
    <3>3. CASE i = n + 1
      <4>1. g[i] = next /\ g[i - 1] = f[n]
        BY <3>3
      <4> QED
        BY <2>4, <3>3, <4>1 DEF next
    <3> QED
      BY <3>1, <3>2, <3>3
  <2> HIDE DEF g
  <2>5. Good(n + 1, g)
    BY <2>4
  <2> HIDE DEF Good
  <2>6. n + 1 \in Nat
    OBVIOUS
  <2> QED
    BY <2>3, <2>5, <2>6, Zenon
<1> HIDE DEF T
<1>4. N \in T
  BY <1>2, <1>3, Induction
<1>5. PICK f \in [0 .. N -> Seq(Byte)] : Good(N, f)
  BY <1>4 DEF T
<1>6. f = Rec(f)
  <2>1. ASSUME NEW i \in 0 .. N
        PROVE  f[i] = Rec(f)[i]
    <3>1. i <= N
      OBVIOUS
    <3>2. f[i] = IF i = 0 THEN <<>> ELSE f[i - 1] \o EncodedCharacter(domain[i])
      BY <1>5, <3>1, Zenon
    <3>3. Rec(f)[i] = IF i = 0 THEN <<>> ELSE f[i - 1] \o EncodedCharacter(domain[i])
      BY Zenon
    <3> QED
      BY <3>2, <3>3, Zenon
  <2>2. DOMAIN Rec(f) = 0 .. N /\ Rec(f) = [i \in 0 .. N |-> Rec(f)[i]]
    BY SMTT(30)
  <2> HIDE DEF Rec
  <2>3. f = [i \in 0 .. N |-> f[i]]
    BY ZenonT(30)
  <2> QED
    BY <2>1, <2>2, <2>3
<1> DEFINE upTo == CHOOSE g : g = Rec(g)
<1>7. upTo = Rec(upTo)
  BY <1>6
<1>8. Encoded(domain) = upTo[N]
  BY <1>0 DEF Encoded
<1> HIDE DEF upTo
<1>9. /\ upTo[0] = <<>>
      /\ \A i \in 1 .. N : upTo[i] = upTo[i - 1] \o EncodedCharacter(domain[i])
  <2>1. \A i \in 0 .. N :
          upTo[i] = IF i = 0 THEN <<>> ELSE upTo[i - 1] \o EncodedCharacter(domain[i])
    BY <1>7
  <2>2. upTo[0] = <<>>
    BY <2>1
  <2>3. ASSUME NEW i \in 1 .. N
        PROVE  upTo[i] = upTo[i - 1] \o EncodedCharacter(domain[i])
    <3>1. i \in 0 .. N /\ i # 0
      OBVIOUS
    <3> QED
      BY <2>1, <3>1, Zenon
  <2> QED
    BY <2>2, <2>3
<1>10. upTo \in [0 .. N -> Seq(Byte)]
  <2> DEFINE K == {n \in Nat : n <= N => upTo[n] \in Seq(Byte)}
  <2>1. 0 \in K
    BY <1>9
  <2>2. ASSUME NEW n \in Nat, n \in K
        PROVE  n + 1 \in K
    <3> SUFFICES ASSUME n + 1 <= N
                 PROVE  upTo[n + 1] \in Seq(Byte)
      OBVIOUS
    <3>1. n + 1 \in 1 .. N /\ (n + 1) - 1 = n
      OBVIOUS
    <3>2. upTo[n + 1] = upTo[n] \o EncodedCharacter(domain[n + 1])
      BY <1>9, <3>1
    <3>3. upTo[n] \in Seq(Byte)
      BY <2>2
    <3>4. EncodedCharacter(domain[n + 1]) \in Seq(Byte)
      BY <1>1, <3>1
    <3> QED
      BY <3>2, <3>3, <3>4, ConcatProperties
  <2> HIDE DEF K
  <2>3. Nat \subseteq K
    BY <2>1, <2>2, Induction
  <2>4. \A n \in 0 .. N : upTo[n] \in Seq(Byte)
    BY <2>3 DEF K
  <2> QED
    BY <1>7, <2>4
<1> QED
  BY <1>0, <1>8, <1>9, <1>10 DEF Encodings

LEMMA EncodedBytes ==
  ASSUME NEW domain \in Seq(Character)
  PROVE  Encoded(domain) \in Seq(Byte)
<1>1. PICK upTo : Encodings(domain, upTo)
  BY EncodingsExist
<1>2. Len(domain) \in 0 .. Len(domain)
  BY LenProperties
<1> QED
  BY <1>1, <1>2 DEF Encodings

\* An ASCII domain is its bytes.
LEMMA EncodedAscii ==
  ASSUME NEW domain \in Seq(Character), \A i \in 1 .. Len(domain) : domain[i] < FirstHigh
  PROVE  Encoded(domain) = domain
<1>1. PICK upTo : Encodings(domain, upTo)
  BY EncodingsExist
<1>2. PICK N \in Nat : N = Len(domain)
  BY LenProperties
<1>3. \A i \in 1 .. N : EncodedCharacter(domain[i]) = <<domain[i]>>
  <2>1. \A i \in 1 .. N : domain[i] \in Character
    BY <1>2, ElementOfSeq
  <2> QED
    BY <1>2, <2>1, CharacterBytes
<1> DEFINE T == {n \in Nat : n <= N => upTo[n] = SubSeq(domain, 1, n)}
<1>4. 0 \in T
  <2>1. SubSeq(domain, 1, 0) = <<>>
    BY SubSeqEmpty
  <2> QED
    BY <1>1, <2>1 DEF Encodings
<1>5. ASSUME NEW n \in Nat, n \in T
      PROVE  n + 1 \in T
  <2> SUFFICES ASSUME n + 1 <= N
               PROVE  upTo[n + 1] = SubSeq(domain, 1, n + 1)
    OBVIOUS
  <2>1. n + 1 \in 1 .. N /\ (n + 1) - 1 = n
    OBVIOUS
  <2>2. upTo[n + 1] = upTo[n] \o <<domain[n + 1]>>
    BY <1>1, <1>2, <1>3, <2>1 DEF Encodings
  <2>3. upTo[n] = SubSeq(domain, 1, n)
    BY <1>5
  <2>4. 1 \in 1 .. Len(domain) /\ n + 1 \in 1 .. Len(domain)
    BY <1>2, <2>1
  <2>5. SubSeq(domain, 1, n + 1) = SubSeq(domain, 1, (n + 1) - 1) \o <<domain[n + 1]>>
    BY <2>4, SubSeqRecursiveSecond
  <2> QED
    BY <2>1, <2>2, <2>3, <2>5
<1> HIDE DEF T
<1>6. N \in T
  BY <1>4, <1>5, Induction
<1>7. upTo[N] = SubSeq(domain, 1, Len(domain))
  BY <1>2, <1>6 DEF T
<1>8. SubSeq(domain, 1, Len(domain)) = domain
  BY SubSeqFull
<1> QED
  BY <1>1, <1>2, <1>7, <1>8 DEF Encodings

\* Bytes that decode to ASCII are ASCII, and the text they are the UTF-8 of.
LEMMA AsciiIsItself ==
  ASSUME NEW x \in Seq(Byte),
         \A i \in 1 .. Len(x) : Decoded(x)[i] < FirstHigh
  PROVE  /\ Decoded(x) = x
         /\ \A i \in 1 .. Len(x) : x[i] < FirstHigh
         /\ x \in Seq(Character)
         /\ Encoded(x) = x
<1>1. PICK d \in Nat : d = Len(x)
  BY LenProperties
<1>2. DOMAIN x = 1 .. d /\ \A i \in 1 .. d : x[i] \in Byte
  BY <1>1, LenProperties, ElementOfSeq
<1>3. \A i \in 1 .. d :
        Decoded(x)[i] = IF x[i] < FirstHigh THEN x[i] ELSE Replacement
  BY <1>2 DEF Decoded
<1>4. FirstHigh \in Nat /\ ~(Replacement < FirstHigh)
  BY WidthsAssumption DEF Replacement
<1>5. \A i \in 1 .. d : x[i] < FirstHigh
  BY <1>1, <1>3, <1>4
<1>6. Decoded(x) = [i \in 1 .. d |-> x[i]]
  BY <1>2, <1>5 DEF Decoded
<1>7. x = [i \in 1 .. d |-> x[i]]
  BY <1>1, SeqIsFunction
<1>8. ASSUME NEW i \in 1 .. d
      PROVE  x[i] \in Character
  <2>1. x[i] \in Byte /\ x[i] < FirstHigh
    BY <1>2, <1>5
  <2>2. x[i] \in 0 .. FirstHigh - 1
    BY <1>4, <2>1, WidthsAssumption DEF Byte
  <2> QED
    BY <2>2 DEF Character
<1>9. [i \in 1 .. d |-> x[i]] \in Seq(Character)
  BY <1>8
<1>10. x \in Seq(Character)
  BY <1>7, <1>9
<1>11. \A i \in 1 .. Len(x) : x[i] < FirstHigh
  BY <1>1, <1>5
<1>12. Encoded(x) = x
  BY <1>10, <1>11, EncodedAscii
<1>13. Decoded(x) = x
  BY <1>6, <1>7
<1> QED
  BY <1>10, <1>11, <1>12, <1>13

-----------------------------------------------------------------------------
(* What is read is what was written *)

LEMMA DateRoundTrip ==
  ASSUME NEW version, NEW bytes \in Seq(Byte), Len(bytes) = DateWidth(version)
  PROVE  /\ Fits(DateOf(version, bytes) \div DateTicks(version), DateWidth(version))
         /\ DateBytes(version, DateOf(version, bytes)) = bytes
<1>1. PICK t \in Nat \ {0} : t = DateTicks(version)
  BY FieldWidths
<1> DEFINE digits == IF version = Version1 THEN Backwards(bytes) ELSE bytes
<1>2. digits \in Seq(Byte) /\ Len(digits) = DateWidth(version)
  BY BackwardsIs
<1>3. (IF version = Version1 THEN Backwards(digits) ELSE digits) = bytes
  BY BackwardsIs
<1> HIDE DEF digits
<1>4. PICK n \in Nat : n = Number(digits)
  BY <1>2, FieldNumber
<1>5. LittleEndian(n, DateWidth(version)) = digits /\ Fits(n, DateWidth(version))
  BY <1>2, <1>4, FieldNumber
<1>6. DateOf(version, bytes) = 0 + t * n
  <2>1. DateOf(version, bytes) = n * t
    BY <1>1, <1>4 DEF DateOf, digits
  <2> QED
    BY <2>1
<1>7. DateOf(version, bytes) \div t = n
  <2>1. 0 \in 0 .. t - 1
    OBVIOUS
  <2> QED
    BY <1>6, <2>1, DivisionIs
<1> QED
  BY <1>1, <1>3, <1>5, <1>7 DEF DateBytes

\* What is cut off a sequence, and what it is cut from.
LEMMA Cut ==
  ASSUME NEW S, NEW s \in Seq(S), NEW m \in Nat, NEW d \in Nat, m + d <= Len(s)
  PROVE  /\ SubSeq(s, m + 1, m + d) \in Seq(S)
         /\ Len(SubSeq(s, m + 1, m + d)) = d
         /\ \A i \in 1 .. d : SubSeq(s, m + 1, m + d)[i] = s[m + i]
         /\ SubSeq(s, 1, m + d) = SubSeq(s, 1, m) \o SubSeq(s, m + 1, m + d)
<1>1. Len(s) \in Nat
  BY LenProperties
<1>2. PICK n \in Nat : n = m + d
  OBVIOUS
<1>3. /\ m + 1 \in 1 .. Len(s) + 1 /\ n \in (m + 1) - 1 .. Len(s)
      /\ n - (m + 1) + 1 = d /\ \A i \in Int : (m + 1) + i - 1 = m + i
  BY <1>1, <1>2
<1>4. /\ SubSeq(s, m + 1, n) \in Seq(S)
      /\ Len(SubSeq(s, m + 1, n)) = n - (m + 1) + 1
      /\ \A i \in 1 .. n - (m + 1) + 1 : SubSeq(s, m + 1, n)[i] = s[(m + 1) + i - 1]
  BY <1>3, Piece
<1>5. 1 \in 1 .. Len(s) + 1 /\ m \in 1 - 1 .. Len(s) /\ n \in m .. Len(s)
  BY <1>1, <1>2
<1>6. SubSeq(s, 1, m) \o SubSeq(s, m + 1, n) = SubSeq(s, 1, n)
  BY <1>5, ConcatAdjacentSubSeq
<1> QED
  BY <1>2, <1>3, <1>4, <1>6

LEMMA CutOne ==
  ASSUME NEW S, NEW s \in Seq(S), NEW m \in Nat, m + 1 <= Len(s)
  PROVE  SubSeq(s, 1, m + 1) = SubSeq(s, 1, m) \o <<s[m + 1]>>
<1>1. m + 1 \in 1 .. Len(s) /\ 1 \in 1 .. Len(s) /\ m + 1 \in 1 .. Len(s)
      /\ (m + 1) - 1 = m
  BY LenProperties
<1>2. SubSeq(s, 1, m + 1) = SubSeq(s, 1, (m + 1) - 1) \o <<s[m + 1]>>
  BY <1>1, SubSeqRecursiveSecond
<1> QED
  BY <1>1, <1>2

LEMMA ReadIsWritten ==
  ASSUME NEW b \in Seq(Byte), Complete(b), Ascii(OwidIn(b)),
         NEW end \in Nat, end = LengthEnd(b) + Declared(b)
  PROVE  /\ Writable(OwidIn(b))
         /\ SignedBytes(OwidIn(b)) = SubSeq(b, 1, end)
         /\ OwidIn(b).signature = SubSeq(b, end + 1, end + SignatureLength)
         /\ Len(OwidIn(b).signature) = SignatureLength
         /\ Written(OwidIn(b)) = SubSeq(b, 1, end + SignatureLength)
<1>1. PICK d \in Nat, w \in Nat, n \in Nat :
        /\ Terminator(b) = (1 + d) + 1 /\ w = DateWidth(b[1]) /\ n = Declared(b)
  <2>1. Terminator(b) \in Nat /\ 2 <= Terminator(b)
    BY LenProperties, Layout DEF Complete
  <2>2. Terminator(b) - 2 \in Nat /\ Terminator(b) = (1 + (Terminator(b) - 2)) + 1
    BY <2>1
  <2> QED
    BY <2>2, FieldWidths, ConsumedIsLength
<1>2. PICK t \in Nat, de \in Nat, le \in Nat :
        /\ t = (1 + d) + 1 /\ de = t + w /\ le = de + LengthWidth /\ end = le + n
        /\ t = Terminator(b) /\ de = DateEnd(b) /\ le = LengthEnd(b)
  BY <1>1, WidthsAssumption DEF DateEnd, LengthEnd
<1>3. end + SignatureLength <= Len(b)
  BY ConsumedIsLength, LenProperties
<1>4. end <= Len(b) /\ le <= Len(b) /\ de <= Len(b) /\ t <= Len(b) /\ 1 + d <= Len(b)
      /\ 0 + 1 <= Len(b)
  BY <1>2, <1>3, LenProperties, WidthsAssumption
<1>5. b[1] \in Versions \ {EmptyVersion} /\ b[t] = 0
  BY <1>2, TerminatorIs DEF Complete
<1> DEFINE o == OwidIn(b)
<1>6. SubSeq(b, 1, 1) = <<b[1]>>
  <2>1. 1 \in 1 .. Len(b) /\ 1 - 1 = 0
    BY <1>4, LenProperties
  <2>2. SubSeq(b, 1, 1) = SubSeq(b, 1, 1 - 1) \o <<b[1]>>
    BY <2>1, SubSeqRecursiveSecond
  <2>3. SubSeq(b, 1, 0) = <<>>
    BY SubSeqEmpty
  <2>4. <<b[1]>> \in Seq(Byte)
    BY <2>1, ElementOfSeq
  <2>5. <<>> \o <<b[1]>> = <<b[1]>>
    BY <2>4, ConcatEmptySeq
  <2> QED
    BY <2>1, <2>2, <2>3, <2>5, Zenon
<1>7. PICK x : /\ x = SubSeq(b, 1 + 1, 1 + d) /\ x \in Seq(Byte) /\ Len(x) = d
               /\ \A i \in 1 .. d : x[i] = b[1 + i]
               /\ SubSeq(b, 1, 1 + d) = SubSeq(b, 1, 1) \o x
  <2>1. PICK k \in Nat : k = 1
    OBVIOUS
  <2>2. k + d <= Len(b)
    BY <1>4, <2>1
  <2>3. /\ SubSeq(b, k + 1, k + d) \in Seq(Byte) /\ Len(SubSeq(b, k + 1, k + d)) = d
        /\ \A i \in 1 .. d : SubSeq(b, k + 1, k + d)[i] = b[k + i]
        /\ SubSeq(b, 1, k + d) = SubSeq(b, 1, k) \o SubSeq(b, k + 1, k + d)
    BY <2>2, Cut
  <2> QED
    BY <2>1, <2>3, Zenon
<1>8. SubSeq(b, 1, t) = SubSeq(b, 1, 1 + d) \o <<0>>
  <2>1. PICK k \in Nat : k = 1 + d
    OBVIOUS
  <2>2. k + 1 <= Len(b) /\ k + 1 = t
    BY <1>2, <1>4, <2>1
  <2>3. SubSeq(b, 1, k + 1) = SubSeq(b, 1, k) \o <<b[k + 1]>>
    BY <2>2, CutOne
  <2> QED
    BY <1>5, <2>1, <2>2, <2>3
<1>9. PICK y : /\ y = SubSeq(b, t + 1, t + w) /\ y \in Seq(Byte) /\ Len(y) = w
               /\ SubSeq(b, 1, t + w) = SubSeq(b, 1, t) \o y
  <2>1. t + w <= Len(b)
    BY <1>2, <1>4
  <2>2. /\ SubSeq(b, t + 1, t + w) \in Seq(Byte)
        /\ Len(SubSeq(b, t + 1, t + w)) = w
        /\ SubSeq(b, 1, t + w) = SubSeq(b, 1, t) \o SubSeq(b, t + 1, t + w)
    BY <2>1, Cut
  <2> QED
    BY <2>2, Zenon
<1>10. PICK z : /\ z = SubSeq(b, de + 1, de + LengthWidth)
                /\ z \in Seq(Byte) /\ Len(z) = LengthWidth
                /\ SubSeq(b, 1, de + LengthWidth) = SubSeq(b, 1, de) \o z
  <2>1. de + LengthWidth <= Len(b) /\ LengthWidth \in Nat
    BY <1>2, <1>4, WidthsAssumption
  <2>2. /\ SubSeq(b, de + 1, de + LengthWidth) \in Seq(Byte)
        /\ Len(SubSeq(b, de + 1, de + LengthWidth)) = LengthWidth
        /\ SubSeq(b, 1, de + LengthWidth) = SubSeq(b, 1, de) \o SubSeq(b, de + 1, de + LengthWidth)
    BY <2>1, Cut
  <2> QED
    BY <2>2, Zenon
<1>11. PICK p : /\ p = SubSeq(b, le + 1, le + n) /\ p \in Seq(Byte) /\ Len(p) = n
                /\ SubSeq(b, 1, le + n) = SubSeq(b, 1, le) \o p
  <2>1. le + n <= Len(b)
    BY <1>2, <1>4
  <2>2. /\ SubSeq(b, le + 1, le + n) \in Seq(Byte)
        /\ Len(SubSeq(b, le + 1, le + n)) = n
        /\ SubSeq(b, 1, le + n) = SubSeq(b, 1, le) \o SubSeq(b, le + 1, le + n)
    BY <2>1, Cut
  <2> QED
    BY <2>2, Zenon
<1>12. PICK s : /\ s = SubSeq(b, end + 1, end + SignatureLength)
                /\ s \in Seq(Byte) /\ Len(s) = SignatureLength
                /\ SubSeq(b, 1, end + SignatureLength) = SubSeq(b, 1, end) \o s
  <2>1. PICK sg \in Nat, e \in Nat : sg = SignatureLength /\ e = end
    BY WidthsAssumption
  <2>2. e + sg <= Len(b)
    BY <1>3, <2>1
  <2>3. /\ SubSeq(b, e + 1, e + sg) \in Seq(Byte)
        /\ Len(SubSeq(b, e + 1, e + sg)) = sg
        /\ SubSeq(b, 1, e + sg) = SubSeq(b, 1, e) \o SubSeq(b, e + 1, e + sg)
    BY <2>2, Cut
  <2> QED
    BY <2>1, <2>3, Zenon
<1>13. /\ o.version = b[1] /\ o.domain = Decoded(x) /\ o.date = DateOf(b[1], y)
       /\ o.payload = p /\ o.signature = s
  <2>1. x = SubSeq(b, 2, t - 1)
    <3>1. 1 + 1 = 2 /\ 1 + d = t - 1
      BY <1>2
    <3> QED
      BY <1>7, <3>1
  <2>2. y = SubSeq(b, t + 1, de) /\ p = SubSeq(b, le + 1, end)
    BY <1>2, <1>9, <1>11
  <2>3. DateIn(b) = DateOf(b[1], y)
    BY <1>2, <2>2 DEF DateIn
  <2>4. LengthEnd(b) = le /\ le + Declared(b) = end
    BY <1>1, <1>2
  <2> QED
    BY <1>2, <1>12, <2>1, <2>2, <2>3, <2>4 DEF OwidIn
<1>14. n = Number(z)
  BY <1>1, <1>2, <1>10 DEF Declared
<1> HIDE DEF o
<1>15. DOMAIN x = 1 .. d /\ \A i \in 1 .. d : x[i] \in Byte
  BY <1>7, LenProperties, ElementOfSeq
<1>16. \A i \in 1 .. Len(x) : Decoded(x)[i] < FirstHigh
  <2>1. DOMAIN Decoded(x) = 1 .. d
    BY <1>15 DEF Decoded
  <2> QED
    BY <1>7, <1>13, <2>1 DEF Ascii, o
<1>17. /\ Decoded(x) = x /\ \A i \in 1 .. d : x[i] < FirstHigh
       /\ x \in Seq(Character) /\ Encoded(x) = x
  BY <1>7, <1>16, AsciiIsItself
<1>18. \A i \in DOMAIN x : x[i] # 0
  <2>1. ASSUME NEW i \in 1 .. d, x[i] = 0
        PROVE  FALSE
    <3>1. b[1 + i] = 0 /\ 1 + i \in 2 .. Len(b) /\ 1 + i < t
      BY <1>2, <1>4, <1>7, <2>1, LenProperties
    <3>2. t <= MaximumDomainLength + 2 /\ \A q \in Terminators(b) : t <= q
      BY <1>2, TerminatorIs DEF Complete
    <3>3. 1 + i \in Terminators(b)
      BY <3>1, <3>2, WidthsAssumption DEF Terminators
    <3> QED
      BY <3>1, <3>2, <3>3
  <2> QED
    BY <1>15, <2>1
<1>19. /\ Fits(o.date \div DateTicks(b[1]), DateWidth(b[1]))
       /\ DateBytes(b[1], o.date) = y
  <2>1. Len(y) = DateWidth(b[1]) /\ y \in Seq(Byte)
    BY <1>1, <1>9
  <2> QED
    BY <1>13, <2>1, DateRoundTrip
<1>20. Fits(n, LengthWidth) /\ LittleEndian(n, LengthWidth) = z
  BY <1>10, <1>14, FieldNumber
<1>21. Len(Encoded(x)) <= MaximumDomainLength
  <2>1. t <= MaximumDomainLength + 2
    BY <1>2, TerminatorIs DEF Complete
  <2>2. d <= MaximumDomainLength
    BY <1>2, <2>1, WidthsAssumption
  <2> QED
    BY <1>7, <1>17, <2>2
<1>22. Writable(o)
  <2>1. o.domain = x /\ Len(o.payload) = n /\ Len(o.signature) = SignatureLength
    BY <1>11, <1>12, <1>13, <1>17
  <2> QED
    BY <1>5, <1>13, <1>18, <1>19, <1>20, <1>21, <2>1 DEF Writable
<1>23. SignedBytes(o) = SubSeq(b, 1, end)
  <2>1. SignedBytes(o) = <<b[1]>> \o x \o <<0>> \o y \o z \o p
    <3>1. o.domain = x /\ o.payload = p /\ Len(p) = n
      BY <1>11, <1>13, <1>17
    <3> QED
      BY <1>13, <1>17, <1>19, <1>20, <3>1 DEF SignedBytes
  <2>2. SubSeq(b, 1, de) = SubSeq(b, 1, t) \o y
    BY <1>2, <1>9
  <2>3. SubSeq(b, 1, le) = SubSeq(b, 1, de) \o z
    BY <1>2, <1>10
  <2>4. SubSeq(b, 1, end) = SubSeq(b, 1, le) \o p
    BY <1>2, <1>11
  <2>5. SubSeq(b, 1, 1 + d) = <<b[1]>> \o x
    BY <1>6, <1>7
  <2> QED
    BY <1>8, <2>1, <2>2, <2>3, <2>4, <2>5
<1>24. Written(o) = SubSeq(b, 1, end + SignatureLength)
  BY <1>12, <1>13, <1>23 DEF Written
<1> QED
  BY <1>12, <1>13, <1>22, <1>23, <1>24 DEF o

LEMMA WhatIsReadWasSigned ==
  ASSUME buffer \in Seq(Byte)
  PROVE  ReadsWhatWasSigned
<1>1. SUFFICES ASSUME NEW owid \in Framed.owids, Ascii(owid)
               PROVE  /\ Writable(owid)
                      /\ Written(owid) = SubSeq(buffer, 1, Framed.consumed)
  BY DEF ReadsWhatWasSigned
<1>2. Complete(buffer)
  BY <1>1, ParseIs DEF Framed
<1>3. Framed = Parsed(OwidIn(buffer),
                      LengthEnd(buffer) + Declared(buffer) + SignatureLength)
  BY <1>2, ParseIs DEF Framed
<1>4. /\ owid = OwidIn(buffer)
      /\ Framed.consumed = LengthEnd(buffer) + Declared(buffer) + SignatureLength
  BY <1>1, <1>3 DEF Parsed
<1>5. LengthEnd(buffer) + Declared(buffer) \in Nat
  BY <1>2, ConsumedIsLength
<1> QED
  BY <1>1, <1>2, <1>4, <1>5, ReadIsWritten

-----------------------------------------------------------------------------
(* What waiting is worth *)

LEMMA ProductsKeepOrder ==
  ASSUME NEW p \in Nat, NEW q \in Nat, NEW k \in Nat, p <= q
  PROVE  p * k <= q * k
<1>1. CASE p = q
  BY <1>1
<1>2. CASE p < q
  <2>1. k * p + k <= k * q
    BY <1>2, MultiplesApart
  <2>2. PICK x \in Nat, y \in Nat : x = k * p /\ y = k * q /\ x = p * k /\ y = q * k
    <3>1. k * p \in Nat /\ k * q \in Nat /\ k * p = p * k /\ k * q = q * k
      OBVIOUS
    <3> QED
      BY <3>1
  <2>3. x + k <= y
    BY <2>1, <2>2
  <2>4. x <= y
    BY <2>3
  <2> QED
    BY <2>2, <2>4
<1> QED
  BY <1>1, <1>2

LEMMA WiderSeq ==
  ASSUME NEW S, NEW T, S \subseteq T, NEW s \in Seq(S)
  PROVE  s \in Seq(T)
<1>1. Len(s) \in Nat /\ s \in [1 .. Len(s) -> S]
  BY LenProperties
<1>2. s \in [1 .. Len(s) -> T]
  BY <1>1
<1> QED
  BY <1>1, <1>2

\* A field is worth no more than another that is nowhere smaller.
LEMMA FieldAtMost ==
  ASSUME NEW low \in Seq(Byte), NEW high \in Seq(Byte), Len(low) = Len(high),
         \A i \in 1 .. Len(low) : low[i] <= high[i]
  PROVE  Number(low) <= Number(high)
<1>1. ByteValues \in Nat /\ Byte \subseteq Nat
  BY WidthsAssumption DEF Byte
<1>2. low \in Seq(Nat) /\ high \in Seq(Nat)
  BY <1>1, WiderSeq
<1> QED
  BY <1>1, <1>2, NumberIsMonotone DEF Number

LEMMA WaitingIsWorthIt ==
  ASSUME buffer \in Seq(Byte)
  PROVE  WaitingHelps
<1> SUFFICES ASSUME Framed.status = "UNEXPECTED_END"
             PROVE  Parse(buffer \o Zeros(Longest), FALSE).status = "PARSED"
  BY DEF WaitingHelps
<1> DEFINE b == buffer
           r == Zeros(Longest)
           c == b \o r
           biggest == [i \in 1 .. LengthWidth |-> ByteValues - 1]
           short == [i \in 1 .. MinutesWidth |->
                       IF i = MinutesWidth THEN 0 ELSE ByteValues - 1]
<1>1. /\ Byte = 0 .. ByteValues - 1 /\ ByteValues \in Nat /\ 0 \in Byte
      /\ ByteValues - 1 \in Byte
      /\ MaximumDomainLength \in Nat /\ SignatureLength \in Nat
      /\ HoursWidth \in Nat \ {0} /\ MinutesWidth \in Nat \ {0}
      /\ LengthWidth \in Nat \ {0} /\ MaximumMinutes \in Nat /\ MinuteTicks \in Nat \ {0}
  BY WidthsAssumption DEF Byte
<1>2. /\ biggest \in Seq(Byte) /\ Len(biggest) = LengthWidth
      /\ \A i \in 1 .. LengthWidth : biggest[i] = ByteValues - 1
  BY <1>1
<1>3. /\ short \in Seq(Byte) /\ Len(short) = MinutesWidth
      /\ \A i \in 1 .. MinutesWidth :
           short[i] = IF i = MinutesWidth THEN 0 ELSE ByteValues - 1
  BY <1>1
<1>4. PICK large \in Nat : large = Largest(LengthWidth) /\ large = Number(biggest)
  BY <1>2, FieldNumber DEF Largest
<1>5. PICK long \in Nat :
        /\ long = Longest
        /\ long = 1 + MaximumDomainLength + 1 + MinutesWidth + HoursWidth + LengthWidth
                    + large + SignatureLength
  BY <1>1, <1>4 DEF Longest
<1>6. r \in Seq(Byte) /\ Len(r) = long /\ \A i \in 1 .. long : r[i] = 0
  BY <1>1, <1>5 DEF Zeros
<1> HIDE DEF b, r, biggest, short
<1>7. b \in Seq(Byte) /\ Len(b) \in Nat
  BY LenProperties DEF b
<1>8. /\ c \in Seq(Byte) /\ Len(c) = Len(b) + long
      /\ \A i \in 1 .. Len(b) : c[i] = b[i]
      /\ \A i \in Len(b) + 1 .. Len(b) + long : c[i] = 0
  <2>1. /\ c \in Seq(Byte) /\ Len(c) = Len(b) + Len(r)
        /\ \A i \in 1 .. Len(b) + Len(r) :
             c[i] = IF i <= Len(b) THEN b[i] ELSE r[i - Len(b)]
    BY <1>6, <1>7, ConcatProperties
  <2> HIDE DEF c
  <2>2. \A i \in 1 .. Len(b) : c[i] = b[i]
    BY <1>6, <1>7, <2>1
  <2>3. ASSUME NEW i \in Len(b) + 1 .. Len(b) + long
        PROVE  c[i] = 0
    <3>1. i \in 1 .. Len(b) + Len(r) /\ ~(i <= Len(b)) /\ i - Len(b) \in 1 .. long
      BY <1>6, <1>7
    <3> QED
      BY <1>6, <2>1, <3>1
  <2> QED
    BY <1>6, <2>1, <2>2, <2>3
<1>9. Parse(b, FALSE).status = "UNEXPECTED_END"
  BY DEF Framed, b
<1>10. b # <<>> /\ b[1] \in Versions /\ b[1] # EmptyVersion
  BY <1>9 DEF Parse, Failed
<1>11. 1 <= Len(b) /\ c # <<>> /\ c[1] = b[1]
  <2>1. 1 <= Len(b)
    BY <1>7, <1>10, EmptySeq
  <2> QED
    BY <1>7, <1>8, <2>1
<1>12. Terminators(b) # {} =>
         /\ Terminators(c) # {} /\ DateEnd(c) = DateEnd(b)
         /\ DateEnd(b) <= Len(b) => DateIn(c) = DateIn(b)
  BY <1>6, <1>7, SameLayout
<1> HIDE DEF c
<1>13. Terminators(c) # {}
  <2>1. CASE Terminators(b) = {}
    <3>1. Parse(b, FALSE) = DomainFault(b)
      BY <1>10, <2>1 DEF Parse
    <3>2. Len(b) <= MaximumDomainLength + 1
      <4>1. SUFFICES ASSUME ~(Len(b) <= MaximumDomainLength + 1)
                     PROVE  FALSE
        OBVIOUS
      <4>2. DomainFault(b) = Failed("INVALID_DOMAIN_ENCODING")
        BY <4>1 DEF DomainFault
      <4>3. Failed("INVALID_DOMAIN_ENCODING").status = "INVALID_DOMAIN_ENCODING"
        BY DEF Failed
      <4>4. "INVALID_DOMAIN_ENCODING" # "UNEXPECTED_END"
        OBVIOUS
      <4> QED
        BY <1>9, <3>1, <4>2, <4>3, <4>4, Zenon
    <3>3. Len(b) + 1 \in Len(b) + 1 .. Len(b) + long /\ Len(b) + 1 \in 2 .. Len(c)
      BY <1>1, <1>5, <1>7, <1>8, <1>11
    <3>4. c[Len(b) + 1] = 0
      BY <1>8, <3>3
    <3> QED
      BY <1>1, <1>7, <3>2, <3>3, <3>4 DEF Terminators
  <2>2. CASE Terminators(b) # {}
    BY <1>12, <2>2
  <2> QED
    BY <2>1, <2>2
<1>14. PICK t \in Nat, w \in Nat, de \in Nat, le \in Nat :
         /\ t = Terminator(c) /\ w = DateWidth(c[1])
         /\ de = DateEnd(c) /\ le = LengthEnd(c)
         /\ 2 <= t /\ t <= MaximumDomainLength + 2 /\ t <= Len(c) /\ 0 < w
         /\ de = t + w /\ le = de + LengthWidth
  <2>1. /\ Terminator(c) \in 2 .. Len(c) /\ Terminator(c) <= MaximumDomainLength + 2
        /\ DateEnd(c) \in Nat /\ DateEnd(c) = Terminator(c) + DateWidth(c[1])
        /\ LengthEnd(c) \in Nat /\ LengthEnd(c) = DateEnd(c) + LengthWidth
    BY <1>8, <1>13, Layout
  <2>2. DateWidth(c[1]) \in Nat \ {0} /\ Len(c) \in Nat
    BY <1>7, <1>8, FieldWidths
  <2> QED
    BY <2>1, <2>2
<1>15. w <= MinutesWidth + HoursWidth
  BY <1>1, <1>14 DEF DateWidth
<1>16. le + large + SignatureLength <= Len(c)
  <2>1. t <= MaximumDomainLength + 2 /\ le = t + w + LengthWidth
    BY <1>1, <1>14
  <2>2. long = MaximumDomainLength + 2 + MinutesWidth + HoursWidth + LengthWidth
                 + large + SignatureLength
    BY <1>1, <1>5
  <2>3. le + large + SignatureLength <= long
    BY <1>1, <1>15, <2>1, <2>2
  <2>4. long <= Len(c)
    BY <1>7, <1>8
  <2>5. Len(c) \in Nat
    BY <1>7, <1>8
  <2> QED
    BY <1>1, <2>3, <2>4, <2>5
<1>17. Len(c) \in Nat /\ de <= Len(c) /\ le <= Len(c)
  <2>1. Len(c) \in Nat
    BY <1>7, <1>8
  <2>2. de <= le
    BY <1>1, <1>14
  <2> QED
    BY <1>1, <1>16, <2>1, <2>2
<1>18. Declared(c) \in Nat /\ Declared(c) <= large
  <2>1. PICK z : /\ z = SubSeq(c, de + 1, de + LengthWidth)
                 /\ z \in Seq(Byte) /\ Len(z) = LengthWidth
    <3>1. de + LengthWidth <= Len(c) /\ LengthWidth \in Nat
      BY <1>1, <1>14, <1>17
    <3>2. /\ SubSeq(c, de + 1, de + LengthWidth) \in Seq(Byte)
          /\ Len(SubSeq(c, de + 1, de + LengthWidth)) = LengthWidth
      BY <1>8, <3>1, Cut
    <3> QED
      BY <3>2, Zenon
  <2>2. Declared(c) = Number(z)
    BY <1>14, <2>1 DEF Declared
  <2>3. \A i \in 1 .. Len(z) : z[i] <= biggest[i]
    <3>1. \A i \in 1 .. Len(z) : z[i] \in Byte
      BY <2>1, ElementOfSeq
    <3> QED
      BY <1>1, <1>2, <2>1, <3>1
  <2>4. Number(z) <= Number(biggest)
    BY <1>2, <2>1, <2>3, FieldAtMost
  <2>5. Number(z) \in Nat
    BY <2>1, FieldNumber
  <2> QED
    BY <1>4, <2>2, <2>4, <2>5
<1>19. ASSUME c[1] # Version1
       PROVE  DateIn(c) <= MaximumMinutes * MinuteTicks
  <2>1. CASE de <= Len(b)
    <3>1. t \in Terminators(b)
      <4>1. t \in 2 .. Len(b)
        BY <1>7, <1>14, <2>1
      <4>2. c[t] = 0
        BY <1>8, <1>13, <1>14, TerminatorIs
      <4> QED
        BY <1>8, <1>14, <4>1, <4>2 DEF Terminators
    <3>2. DateEnd(b) = de /\ DateIn(c) = DateIn(b)
      BY <1>12, <1>14, <2>1, <3>1
    <3>3. ~(DateIn(b) > MaximumMinutes * MinuteTicks)
      <4>1. SUFFICES ASSUME DateIn(b) > MaximumMinutes * MinuteTicks
                     PROVE  FALSE
        OBVIOUS
      <4>2. ~(Len(b) < DateEnd(b)) /\ b[1] # Version1 /\ Terminators(b) # {}
        BY <1>7, <1>11, <1>14, <1>19, <2>1, <3>1, <3>2
      <4>3. Parse(b, FALSE) = Failed("IMPLEMENTATION_CAPACITY_EXCEEDED")
        BY <1>10, <4>1, <4>2 DEF Parse
      <4>4. Failed("IMPLEMENTATION_CAPACITY_EXCEEDED").status
              = "IMPLEMENTATION_CAPACITY_EXCEEDED"
        BY DEF Failed
      <4>5. "IMPLEMENTATION_CAPACITY_EXCEEDED" # "UNEXPECTED_END"
        OBVIOUS
      <4> QED
        BY <1>9, <4>3, <4>4, <4>5, Zenon
    <3>4. DateIn(b) \in Nat
      BY <1>7, <2>1, <3>1, <3>2, Layout
    <3>5. MaximumMinutes * MinuteTicks \in Nat
      BY <1>1
    <3>6. DateIn(b) <= MaximumMinutes * MinuteTicks
      BY <3>3, <3>4, <3>5
    <3> QED
      BY <3>2, <3>6
  <2>2. CASE Len(b) < de
    <3>1. w = MinutesWidth /\ DateTicks(c[1]) = MinuteTicks
      BY <1>14, <1>19 DEF DateWidth, DateTicks
    <3>2. PICK y : /\ y = SubSeq(c, t + 1, t + w) /\ y \in Seq(Byte) /\ Len(y) = w
                   /\ \A i \in 1 .. w : y[i] = c[t + i]
      <4>1. t + w <= Len(c)
        BY <1>14, <1>17
      <4>2. /\ SubSeq(c, t + 1, t + w) \in Seq(Byte) /\ Len(SubSeq(c, t + 1, t + w)) = w
            /\ \A i \in 1 .. w : SubSeq(c, t + 1, t + w)[i] = c[t + i]
        BY <1>8, <4>1, Cut
      <4> QED
        BY <4>2, Zenon
    <3>3. DateIn(c) = Number(y) * MinuteTicks
      <4>1. y = SubSeq(c, t + 1, de)
        BY <1>14, <3>2
      <4> QED
        BY <1>14, <1>19, <3>1, <4>1 DEF DateIn, DateOf
    <3>4. y[w] = 0
      <4>1. w \in 1 .. w /\ t + w \in Len(b) + 1 .. Len(b) + long
        BY <1>7, <1>8, <1>14, <1>17, <2>2
      <4> QED
        BY <1>8, <3>2, <4>1
    <3>5. \A i \in 1 .. Len(y) : y[i] <= short[i]
      <4>1. \A i \in 1 .. Len(y) : y[i] \in Byte
        BY <3>2, ElementOfSeq
      <4> QED
        BY <1>1, <1>3, <3>1, <3>2, <3>4, <4>1
    <3>6. Number(y) <= Number(short)
      BY <1>3, <3>1, <3>2, <3>5, FieldAtMost
    <3>7. Number(y) \in Nat /\ Number(short) \in Nat
      BY <1>3, <3>2, FieldNumber
    <3>8. Number(short) <= MaximumMinutes
      BY MaximumAssumption DEF short
    <3>9. Number(y) <= MaximumMinutes
      BY <1>1, <3>6, <3>7, <3>8
    <3> QED
      BY <1>1, <3>3, <3>7, <3>9, ProductsKeepOrder
  <2> QED
    BY <1>7, <1>14, <2>1, <2>2
<1>20. Declared(c) <= Present(c)
  <2>1. Present(c) = Len(c) - le - SignatureLength
    BY <1>14 DEF Present
  <2> QED
    BY <1>1, <1>16, <1>17, <1>18, <2>1
<1>21. Complete(c)
  BY <1>10, <1>11, <1>13, <1>14, <1>17, <1>19, <1>20 DEF Complete
<1>22. Parse(c, FALSE) = Parsed(OwidIn(c), LengthEnd(c) + Declared(c) + SignatureLength)
  BY <1>8, <1>21, ParseIs
<1>23. Parse(c, FALSE).status = "PARSED"
  <2>1. \A owid, consumed : Parsed(owid, consumed).status = "PARSED"
    BY DEF Parsed
  <2> QED
    BY <1>22, <2>1, Zenon
<1> QED
  BY <1>23 DEF c, b, r

-----------------------------------------------------------------------------
(* Groups of three bytes and of four symbols *)

LEMMA Values64 ==
  /\ PartValues \in Nat \ {0}
  /\ SymbolValues \in Nat \ {0} /\ ByteValues \in Nat \ {0}
  /\ Byte = 0 .. ByteValues - 1
  /\ ByteValues = SymbolValues * PartValues
  /\ \A x \in Nat : ByteValues * x = SymbolValues * (PartValues * x)
  /\ ByteValues * (ByteValues * ByteValues)
       = SymbolValues * (SymbolValues * (SymbolValues * SymbolValues))
  /\ \A x \in Nat : ByteValues * (ByteValues * x)
                      = SymbolValues * (SymbolValues * (PartValues * (PartValues * x)))
<1>1. PICK p \in Nat : p = PartValues
  BY SymbolAssumption
<1>2. PICK s \in Nat : s = SymbolValues /\ s = p * p * p
  BY <1>1, SymbolAssumption
<1>3. PICK v \in Nat : v = ByteValues /\ v = p * p * p * p /\ v > 4
  BY <1>1, SymbolAssumption, WidthsAssumption
<1>4. p # 0
  BY <1>3
<1>5. s # 0
  BY <1>2, <1>3
<1>6. v = s * p
  BY <1>2, <1>3
<1>7. ASSUME NEW x \in Nat
      PROVE  v * x = s * (p * x)
  BY <1>2, <1>3
<1>8. v * (v * v) = s * (s * (s * s))
  BY <1>2, <1>3
<1>9. ASSUME NEW x \in Nat
      PROVE  v * (v * x) = s * (s * (p * (p * x)))
  BY <1>2, <1>3
<1> QED
  BY <1>1, <1>2, <1>3, <1>4, <1>5, <1>6, <1>7, <1>8, <1>9 DEF Byte

\* A quotient is below what its number is below that many times.
LEMMA QuotientBelow ==
  ASSUME NEW base \in Nat \ {0}, NEW x \in Nat, NEW y \in Nat, x < base * y
  PROVE  x \div base < y
<1>1. PICK q \in Nat, r \in 0 .. base - 1 :
        q = x \div base /\ r = x % base /\ x = base * q + r
  BY Division
<1>2. SUFFICES ASSUME ~(q < y)
               PROVE  FALSE
  BY <1>1
<1>3. base * y <= base * q
  <2>1. CASE y = q
    BY <2>1
  <2>2. CASE y < q
    BY <2>2, MultiplesApart
  <2> QED
    BY <1>2, <2>1, <2>2
<1>4. PICK s \in Nat, t \in Nat : s = base * y /\ t = base * q
  OBVIOUS
<1>5. x < s /\ x = t + r /\ s <= t
  BY <1>1, <1>3, <1>4
<1> QED
  BY <1>5

LEMMA ThreeDigits ==
  ASSUME NEW base \in Nat \ {0}, NEW digits \in Seq(0 .. base - 1), Len(digits) = 3
  PROVE  /\ NumberIn(digits, base) = digits[1] + base * (digits[2] + base * digits[3])
         /\ NumberIn(digits, base) \in Nat
         /\ NumberIn(digits, base) < base * (base * base)
<1>1. digits \in Seq(Nat)
  BY WiderSeq
<1>2. PICK last : Values(digits, base, last)
  BY <1>1, ValuesExist
<1>3. /\ last \in [0 .. 3 -> Nat] /\ NumberIn(digits, base) = last[3] /\ last[0] = 0
      /\ \A i \in 1 .. 3 : last[i] = digits[3 + 1 - i] + base * last[i - 1]
  BY <1>2 DEF Values
<1>4. PICK x \in 0 .. base - 1, y \in 0 .. base - 1, z \in 0 .. base - 1 :
        x = digits[1] /\ y = digits[2] /\ z = digits[3]
  <2>1. 1 \in 1 .. Len(digits) /\ 2 \in 1 .. Len(digits) /\ 3 \in 1 .. Len(digits)
    OBVIOUS
  <2> QED
    BY <2>1, ElementOfSeq
<1>5. last[1] = z
  <2>1. last[1] = digits[3] + base * last[0]
    BY <1>3
  <2>2. base * 0 = 0
    OBVIOUS
  <2> QED
    BY <1>3, <1>4, <2>1, <2>2
<1>6. last[2] = y + base * z
  BY <1>3, <1>4, <1>5
<1>7. last[3] = x + base * (y + base * z)
  BY <1>3, <1>4, <1>6
<1>8. y + base * z < base * base
  <2>1. z < base
    OBVIOUS
  <2>2. base * z + base <= base * base
    BY <2>1, MultiplesApart
  <2>3. PICK s \in Nat, t \in Nat : s = base * z /\ t = base * base
    OBVIOUS
  <2>4. s + base <= t
    BY <2>2, <2>3
  <2>5. y + s < t
    BY <2>4
  <2> QED
    BY <2>3, <2>5
<1>9. PICK u \in Nat, w \in Nat : u = y + base * z /\ w = base * base /\ u < w
  <2>1. base * z \in Nat /\ base * base \in Nat
    OBVIOUS
  <2>2. y + base * z \in Nat
    BY <2>1
  <2> QED
    BY <1>8, <2>1, <2>2
<1>10. x + base * u < base * w
  <2>1. base * u + base <= base * w
    <3>1. u < w
      BY <1>9
    <3> QED
      BY <3>1, MultiplesApart
  <2>2. PICK s \in Nat, t \in Nat : s = base * u /\ t = base * w
    OBVIOUS
  <2>3. s + base <= t
    BY <2>1, <2>2
  <2>4. x + s < t
    BY <2>3
  <2> QED
    BY <2>2, <2>4
<1> QED
  BY <1>3, <1>4, <1>7, <1>9, <1>10

\* Four symbols hold what three bytes do, and the last of the symbols are zero
\* where the last of the bytes are.
LEMMA GroupHolds ==
  ASSUME NEW digits \in Seq(Byte), Len(digits) = 3,
         NEW value, value = NumberIn(digits, ByteValues)
  PROVE  LET symbols == DigitsOf(value, SymbolValues, 4)
         IN  /\ value \in Nat
             /\ symbols \in Seq(0 .. SymbolValues - 1) /\ Len(symbols) = 4
             /\ NumberIn(symbols, SymbolValues) = value
             /\ digits[1] = 0 => symbols[1] = 0
             /\ digits[1] = 0 /\ digits[2] = 0 => symbols[2] = 0
<1>1. PICK s \in Nat \ {0}, v \in Nat \ {0}, p \in Nat :
        /\ s = SymbolValues /\ v = ByteValues /\ Byte = 0 .. v - 1
        /\ v * (v * v) = s * (s * (s * s))
        /\ \A x \in Nat : v * x = s * (p * x)
        /\ \A x \in Nat : v * (v * x) = s * (s * (p * (p * x)))
  BY Values64, ZenonT(40)
<1>2. PICK x \in Nat, y \in Nat, z \in Nat : x = digits[1] /\ y = digits[2] /\ z = digits[3]
  <2>1. 1 \in 1 .. Len(digits) /\ 2 \in 1 .. Len(digits) /\ 3 \in 1 .. Len(digits)
    OBVIOUS
  <2>2. digits[1] \in Byte /\ digits[2] \in Byte /\ digits[3] \in Byte
    BY <2>1, ElementOfSeq
  <2> QED
    BY <1>1, <2>2
<1>3. value = x + v * (y + v * z) /\ value \in Nat /\ value < v * (v * v)
  <2>1. digits \in Seq(0 .. v - 1)
    BY <1>1
  <2> QED
    BY <1>1, <1>2, <2>1, ThreeDigits
<1> DEFINE left == Quotients(value, s, 4)
           symbols == DigitsOf(value, s, 4)
<1>4. /\ left \in [0 .. 4 -> Nat] /\ left[0] = value
      /\ \A i \in 1 .. 4 : left[i] = left[i - 1] \div s
  <2>1. PICK width \in Nat, number \in Nat : width = 4 /\ number = value
    BY <1>3
  <2> DEFINE f == Quotients(number, s, width)
  <2>2. f \in [0 .. width -> Nat]
    BY QuotientsAre
  <2>3. f[0] = number
    BY QuotientsAre
  <2>4. \A i \in 1 .. width : f[i] = f[i - 1] \div s
    BY QuotientsAre
  <2>5. f = left
    BY <2>1
  <2> HIDE DEF f, left
  <2> QED
    BY <2>1, <2>2, <2>3, <2>4, <2>5
<1>5. /\ symbols \in Seq(0 .. s - 1) /\ Len(symbols) = 4
      /\ \A i \in 1 .. 4 : symbols[i] = left[i - 1] % s
  <2>1. PICK width \in Nat, number \in Nat : width = 4 /\ number = value
    BY <1>3
  <2> DEFINE f == DigitsOf(number, s, width)
             g == Quotients(number, s, width)
  <2>2. f \in Seq(0 .. s - 1)
    BY DigitsAre
  <2>3. Len(f) = width
    BY DigitsAre
  <2>4. \A i \in 1 .. width : f[i] = g[i - 1] % s
    BY DigitsAre
  <2>5. f = symbols /\ g = left
    BY <2>1
  <2> HIDE DEF f, g, left, symbols
  <2> QED
    BY <2>1, <2>2, <2>3, <2>4, <2>5
<1> HIDE DEF left
<1>6. left[1] = value \div s /\ left[2] = left[1] \div s /\ left[3] = left[2] \div s
      /\ left[4] = left[3] \div s
  <2>1. /\ 1 \in 1 .. 4 /\ 1 - 1 = 0 /\ 2 \in 1 .. 4 /\ 2 - 1 = 1
        /\ 3 \in 1 .. 4 /\ 3 - 1 = 2 /\ 4 \in 1 .. 4 /\ 4 - 1 = 3
    OBVIOUS
  <2>2. left[1] = left[1 - 1] \div s
    BY <1>4, <2>1
  <2>3. left[2] = left[2 - 1] \div s
    BY <1>4, <2>1
  <2>4. left[3] = left[3 - 1] \div s
    BY <1>4, <2>1
  <2>5. left[4] = left[4 - 1] \div s
    BY <1>4, <2>1
  <2> QED
    BY <1>4, <2>1, <2>2, <2>3, <2>4, <2>5, Zenon
<1>7. left[4] = 0
  <2>1. PICK q1 \in Nat, q2 \in Nat, q3 \in Nat :
          q1 = left[1] /\ q2 = left[2] /\ q3 = left[3]
    <3>1. 1 \in 0 .. 4 /\ 2 \in 0 .. 4 /\ 3 \in 0 .. 4
      OBVIOUS
    <3> QED
      BY <1>4, <3>1, Zenon
  <2>2. s * s \in Nat /\ s * (s * s) \in Nat /\ value < s * (s * (s * s))
    BY <1>1, <1>3
  <2>3. q1 < s * (s * s)
    BY <1>3, <1>6, <2>1, <2>2, QuotientBelow
  <2>4. q2 < s * s
    BY <1>6, <2>1, <2>2, <2>3, QuotientBelow
  <2>5. q3 < s
    BY <1>6, <2>1, <2>4, QuotientBelow
  <2>6. q3 < s * 1
    BY <2>5
  <2>7. PICK q4 : q4 = q3 \div s
    OBVIOUS
  <2>8. q4 < 1
    BY <2>6, <2>7, QuotientBelow
  <2>9. q4 \in Nat
    BY <2>7, Division
  <2>10. q4 = 0
    BY <2>8, <2>9
  <2> QED
    BY <1>6, <2>1, <2>7, <2>10
<1>8. NumberIn(symbols, s) = value
  <2>1. Quotients(value, s, 4)[4] = 0 /\ 4 \in Nat
    BY <1>7 DEF left
  <2> QED
    BY <1>3, <2>1, NumberOfDigits
<1>9. ASSUME x = 0
      PROVE  value % s = 0
  <2>1. PICK u \in Nat : u = y + v * z
    <3>1. v * z \in Nat
      OBVIOUS
    <3>2. y + v * z \in Nat
      BY <3>1
    <3> QED
      BY <3>2
  <2>2. PICK w \in Nat : w = p * u
    OBVIOUS
  <2>3. v * u = s * w
    BY <1>1, <2>2
  <2>4. value = 0 + s * w
    BY <1>3, <1>9, <2>1, <2>3
  <2>5. 0 \in 0 .. s - 1
    OBVIOUS
  <2> QED
    BY <2>4, <2>5, DivisionIs
<1>10. ASSUME x = 0, y = 0
       PROVE  (value \div s) % s = 0
  <2>1. PICK w \in Nat : w = p * (p * z)
    <3>1. p * z \in Nat
      OBVIOUS
    <3>2. p * (p * z) \in Nat
      BY <3>1
    <3> QED
      BY <3>2
  <2>2. v * (v * z) = s * (s * w)
    BY <1>1, <2>1
  <2>3. PICK q \in Nat : q = s * w
    OBVIOUS
  <2>4. value = 0 + s * q
    <3>1. y + v * z = v * z
      BY <1>10
    <3> QED
      BY <1>3, <1>10, <2>2, <2>3, <3>1
  <2>5. 0 \in 0 .. s - 1
    OBVIOUS
  <2>6. value \div s = q
    BY <2>4, <2>5, DivisionIs
  <2>7. q = 0 + s * w
    BY <2>3
  <2>8. q % s = 0
    BY <2>5, <2>7, DivisionIs
  <2> QED
    BY <2>6, <2>8
<1>11. symbols[1] = value % s /\ symbols[2] = (value \div s) % s
  BY <1>4, <1>5, <1>6
<1> HIDE DEF symbols
<1>12. /\ value \in Nat /\ symbols \in Seq(0 .. s - 1) /\ Len(symbols) = 4
       /\ NumberIn(symbols, s) = value
       /\ digits[1] = 0 => symbols[1] = 0
       /\ digits[1] = 0 /\ digits[2] = 0 => symbols[2] = 0
  BY <1>2, <1>3, <1>5, <1>8, <1>9, <1>10, <1>11
<1> QED
  BY <1>1, <1>12 DEF symbols

\* So many bytes take so many symbols.
LEMMA TextLength ==
  ASSUME NEW bytes \in Nat, NEW symbols \in Nat, symbols = (4 * bytes + 2) \div 3
  PROVE  /\ (3 * symbols) \div 4 = bytes
         /\ symbols % 4 # 1
         /\ symbols = 0 => bytes = 0
<1>1. PICK k \in Nat : bytes = 3 * k \/ bytes = 3 * k + 1 \/ bytes = 3 * k + 2
  <2>1. bytes = 3 * (bytes \div 3) + (bytes % 3) /\ bytes \div 3 \in Nat /\ bytes % 3 \in 0 .. 2
    OBVIOUS
  <2> QED
    BY <2>1
<1>2. \/ bytes = 3 * k /\ symbols = 4 * k
      \/ bytes = 3 * k + 1 /\ symbols = 4 * k + 2
      \/ bytes = 3 * k + 2 /\ symbols = 4 * k + 3
  BY <1>1
<1>3. (3 * symbols) \div 4 = bytes /\ symbols % 4 # 1 /\ (symbols = 0 => bytes = 0)
  BY <1>2
<1> QED
  BY <1>2, <1>3

LEMMA GroupIs ==
  ASSUME NEW base \in Nat \ {0}, NEW digits \in Seq(0 .. base - 1),
         NEW size \in {3, 4}, NEW g \in Nat
  PROVE  /\ Group(digits, size, g) \in Seq(0 .. base - 1)
         /\ Len(Group(digits, size, g)) = size
         /\ \A n \in 1 .. size :
              Group(digits, size, g)[n] =
                IF (g + 1) * size + 1 - n <= Len(digits)
                  THEN digits[(g + 1) * size + 1 - n] ELSE 0
<1>1. Len(digits) \in Nat
  BY LenProperties
<1>2. ASSUME NEW n \in 1 .. size
      PROVE  (IF (g + 1) * size + 1 - n <= Len(digits)
                THEN digits[(g + 1) * size + 1 - n] ELSE 0) \in 0 .. base - 1
  <2>1. PICK k \in Int : k = (g + 1) * size + 1 - n /\ 1 <= k
    <3>1. CASE size = 3
      BY <3>1
    <3>2. CASE size = 4
      BY <3>2
    <3> QED
      BY <3>1, <3>2
  <2>2. CASE k <= Len(digits)
    <3>1. k \in 1 .. Len(digits)
      BY <1>1, <2>1, <2>2
    <3>2. digits[k] \in 0 .. base - 1
      BY <3>1, ElementOfSeq
    <3> QED
      BY <2>1, <2>2, <3>2
  <2>3. CASE ~(k <= Len(digits))
    BY <2>1, <2>3
  <2> QED
    BY <2>2, <2>3
<1> DEFINE h == [n \in 1 .. size |->
                   IF (g + 1) * size + 1 - n <= Len(digits)
                     THEN digits[(g + 1) * size + 1 - n] ELSE 0]
<1>3. Group(digits, size, g) = h
  BY DEF Group
<1>4. h \in [1 .. size -> 0 .. base - 1] /\ size \in Nat
  BY <1>2
<1>5. \A n \in 1 .. size : h[n] = IF (g + 1) * size + 1 - n <= Len(digits)
                                    THEN digits[(g + 1) * size + 1 - n] ELSE 0
  OBVIOUS
<1> HIDE DEF h
<1>6. h \in Seq(0 .. base - 1) /\ Len(h) = size
  BY <1>4
<1> QED
  BY <1>3, <1>5, <1>6

\* What a group of three bytes comes to.
LEMMA BytesGroup ==
  ASSUME NEW bytes \in Seq(Byte), NEW g \in Nat
  PROVE  /\ GroupValue(bytes, ByteValues, 3, g) \in Nat
         /\ DigitsOf(GroupValue(bytes, ByteValues, 3, g), ByteValues, 3)
              = Group(bytes, 3, g)
         /\ LET symbols == DigitsOf(GroupValue(bytes, ByteValues, 3, g), SymbolValues, 4)
            IN  /\ symbols \in Seq(0 .. SymbolValues - 1) /\ Len(symbols) = 4
                /\ NumberIn(symbols, SymbolValues) = GroupValue(bytes, ByteValues, 3, g)
                /\ Len(bytes) < 3 * g + 3 => symbols[1] = 0
                /\ Len(bytes) < 3 * g + 2 => symbols[2] = 0
<1>1. ByteValues \in Nat \ {0} /\ Byte = 0 .. ByteValues - 1
  BY Values64
<1>2. PICK d : d = Group(bytes, 3, g)
  OBVIOUS
<1>3. /\ d \in Seq(Byte) /\ Len(d) = 3
      /\ \A n \in 1 .. 3 : d[n] = IF (g + 1) * 3 + 1 - n <= Len(bytes)
                                    THEN bytes[(g + 1) * 3 + 1 - n] ELSE 0
  BY <1>1, <1>2, GroupIs, ZenonT(30)
<1>4. /\ Len(bytes) < 3 * g + 3 => d[1] = 0
      /\ Len(bytes) < 3 * g + 2 => d[1] = 0 /\ d[2] = 0
  <2>1. Len(bytes) \in Nat
    BY LenProperties
  <2>2. (g + 1) * 3 + 1 - 1 = 3 * g + 3 /\ (g + 1) * 3 + 1 - 2 = 3 * g + 2
    OBVIOUS
  <2>3. 1 \in 1 .. 3 /\ 2 \in 1 .. 3
    OBVIOUS
  <2> QED
    BY <1>3, <2>1, <2>2, <2>3
<1>5. PICK value : value = NumberIn(d, ByteValues) /\ value = GroupValue(bytes, ByteValues, 3, g)
  BY <1>2 DEF GroupValue
<1>6. DigitsOf(value, ByteValues, 3) = d
  <2>1. d \in Seq(0 .. ByteValues - 1)
    BY <1>1, <1>3
  <2>2. DigitsOf(NumberIn(d, ByteValues), ByteValues, Len(d)) = d
    BY <1>1, <2>1, DigitsOfNumber
  <2> QED
    BY <1>3, <1>5, <2>2
<1> DEFINE symbols == DigitsOf(value, SymbolValues, 4)
<1>7. /\ value \in Nat /\ symbols \in Seq(0 .. SymbolValues - 1) /\ Len(symbols) = 4
      /\ NumberIn(symbols, SymbolValues) = value
      /\ d[1] = 0 => symbols[1] = 0
      /\ d[1] = 0 /\ d[2] = 0 => symbols[2] = 0
  BY <1>3, <1>5, GroupHolds, Zenon
<1> HIDE DEF symbols
<1>8. /\ Len(bytes) < 3 * g + 3 => symbols[1] = 0
      /\ Len(bytes) < 3 * g + 2 => symbols[2] = 0
  BY <1>4, <1>7
<1> QED
  BY <1>2, <1>5, <1>6, <1>7, <1>8 DEF symbols

LEMMA UnpaddedIs ==
  ASSUME NEW bytes \in Seq(Byte)
  PROVE  /\ Unpadded(bytes) \in Seq(0 .. SymbolValues - 1)
         /\ Len(Unpadded(bytes)) = (4 * Len(bytes) + 2) \div 3
         /\ \A j \in 1 .. (4 * Len(bytes) + 2) \div 3 :
              Unpadded(bytes)[j] =
                DigitsOf(GroupValue(bytes, ByteValues, 3, (j - 1) \div 4), SymbolValues, 4)
                  [4 - ((j - 1) % 4)]
<1>1. PICK length \in Nat : length = (4 * Len(bytes) + 2) \div 3
  BY LenProperties
<1> DEFINE Symbol(j) ==
             DigitsOf(GroupValue(bytes, ByteValues, 3, (j - 1) \div 4), SymbolValues, 4)
               [4 - ((j - 1) % 4)]
<1>2. Unpadded(bytes) = [j \in 1 .. length |-> Symbol(j)]
  BY <1>1 DEF Unpadded, Regrouped
<1>3. ASSUME NEW j \in 1 .. length
      PROVE  Symbol(j) \in 0 .. SymbolValues - 1
  <2>1. PICK g \in Nat, n \in 1 .. 4 : g = (j - 1) \div 4 /\ n = 4 - ((j - 1) % 4)
    OBVIOUS
  <2>2. PICK symbols :
          /\ symbols = DigitsOf(GroupValue(bytes, ByteValues, 3, g), SymbolValues, 4)
          /\ symbols \in Seq(0 .. SymbolValues - 1) /\ Len(symbols) = 4
    BY BytesGroup, ZenonT(30)
  <2>3. symbols[n] \in 0 .. SymbolValues - 1
    BY <2>2, ElementOfSeq
  <2> QED
    BY <2>1, <2>2, <2>3
<1> HIDE DEF Symbol
<1>4. [j \in 1 .. length |-> Symbol(j)] \in Seq(0 .. SymbolValues - 1)
  BY <1>3
<1>5. Len([j \in 1 .. length |-> Symbol(j)]) = length
  OBVIOUS
<1>6. \A j \in 1 .. length : Unpadded(bytes)[j] = Symbol(j)
  BY <1>2
<1> QED
  BY <1>1, <1>2, <1>4, <1>5, <1>6 DEF Symbol

\* A group of the symbols of bytes is the digits of a group of the bytes.
LEMMA GroupOfText ==
  ASSUME NEW bytes \in Seq(Byte), NEW g \in Nat, 3 * g < Len(bytes)
  PROVE  /\ Group(Unpadded(bytes), 4, g)
              = DigitsOf(GroupValue(bytes, ByteValues, 3, g), SymbolValues, 4)
         /\ GroupValue(Unpadded(bytes), SymbolValues, 4, g)
              = GroupValue(bytes, ByteValues, 3, g)
<1>1. PICK count \in Nat, length \in Nat :
        count = Len(bytes) /\ length = (4 * Len(bytes) + 2) \div 3
  BY LenProperties
<1>2. PICK text : text = Unpadded(bytes)
  OBVIOUS
<1>3. /\ text \in Seq(0 .. SymbolValues - 1) /\ Len(text) = length
      /\ \A j \in 1 .. length :
           text[j] = DigitsOf(GroupValue(bytes, ByteValues, 3, (j - 1) \div 4), SymbolValues, 4)
                       [4 - ((j - 1) % 4)]
  BY <1>1, <1>2, UnpaddedIs
<1>4. PICK symbols :
        /\ symbols = DigitsOf(GroupValue(bytes, ByteValues, 3, g), SymbolValues, 4)
        /\ symbols \in Seq(0 .. SymbolValues - 1) /\ Len(symbols) = 4
        /\ NumberIn(symbols, SymbolValues) = GroupValue(bytes, ByteValues, 3, g)
        /\ Len(bytes) < 3 * g + 3 => symbols[1] = 0
        /\ Len(bytes) < 3 * g + 2 => symbols[2] = 0
  BY BytesGroup
<1>5. PICK group : group = Group(text, 4, g)
  OBVIOUS
<1>6. /\ group \in Seq(0 .. SymbolValues - 1) /\ Len(group) = 4
      /\ \A n \in 1 .. 4 : group[n] = IF (g + 1) * 4 + 1 - n <= length
                                        THEN text[(g + 1) * 4 + 1 - n] ELSE 0
  <2>1. PICK size \in {3, 4} : size = 4
    OBVIOUS
  <2>2. PICK base \in Nat \ {0} : base = SymbolValues
    BY Values64
  <2>3. text \in Seq(0 .. base - 1)
    BY <1>3, <2>2
  <2>4. /\ Group(text, size, g) \in Seq(0 .. base - 1)
        /\ Len(Group(text, size, g)) = size
        /\ \A n \in 1 .. size :
             Group(text, size, g)[n] = IF (g + 1) * size + 1 - n <= Len(text)
                                         THEN text[(g + 1) * size + 1 - n] ELSE 0
    BY <2>3, GroupIs, Zenon
  <2> QED
    BY <1>3, <1>5, <2>1, <2>2, <2>4
<1>7. ASSUME NEW n \in 1 .. 4
      PROVE  group[n] = symbols[n]
  <2>1. PICK j \in 1 .. 4 * g + 4 : j = (g + 1) * 4 + 1 - n
    OBVIOUS
  <2>2. (j - 1) \div 4 = g /\ 4 - ((j - 1) % 4) = n
    BY <2>1
  <2>3. CASE j <= length
    <3>1. j \in 1 .. length
      BY <2>3
    <3>2. text[j] = symbols[n]
      BY <1>3, <1>4, <2>2, <3>1
    <3> QED
      BY <1>6, <2>1, <2>3, <3>2
  <2>4. CASE ~(j <= length)
    <3>1. group[n] = 0
      BY <1>6, <2>1, <2>4
    <3>2. PICK k \in Nat : \/ count = 3 * k /\ length = 4 * k
                           \/ count = 3 * k + 1 /\ length = 4 * k + 2
                           \/ count = 3 * k + 2 /\ length = 4 * k + 3
      <4>1. PICK k \in Nat : count = 3 * k \/ count = 3 * k + 1 \/ count = 3 * k + 2
        <5>1. count = 3 * (count \div 3) + (count % 3) /\ count \div 3 \in Nat /\ count % 3 \in 0 .. 2
          OBVIOUS
        <5> QED
          BY <5>1
      <4>2. length = (4 * count + 2) \div 3
        BY <1>1
      <4>3. \/ count = 3 * k /\ length = 4 * k
            \/ count = 3 * k + 1 /\ length = 4 * k + 2
            \/ count = 3 * k + 2 /\ length = 4 * k + 3
        BY <4>1, <4>2
      <4> QED
        BY <4>3
    <3>3. \/ n = 1 /\ count < 3 * g + 3
          \/ n = 2 /\ count < 3 * g + 2
      BY <1>1, <2>1, <2>4, <3>2
    <3>4. symbols[n] = 0
      BY <1>1, <1>4, <3>3
    <3> QED
      BY <3>1, <3>4
  <2> QED
    BY <2>3, <2>4
<1>8. group = symbols
  <2>1. PICK S : S = 0 .. SymbolValues - 1
    OBVIOUS
  <2>2. group \in Seq(S) /\ symbols \in Seq(S) /\ Len(group) = Len(symbols)
    BY <1>4, <1>6, <2>1
  <2>3. \A n \in 1 .. Len(group) : group[n] = symbols[n]
    BY <1>6, <1>7
  <2> QED
    BY <2>2, <2>3, SeqEqual
<1> QED
  BY <1>2, <1>4, <1>5, <1>8 DEF GroupValue

\* The symbols of bytes, in groups, give back the bytes.
LEMMA TextHoldsBytes ==
  ASSUME NEW bytes \in Seq(Byte), NEW text, text = Unpadded(bytes)
  PROVE  Regrouped(text, SymbolValues, 4, ByteValues, 3, (3 * Len(text)) \div 4) = bytes
<1>1. PICK count \in Nat, length \in Nat :
        count = Len(bytes) /\ length = (4 * Len(bytes) + 2) \div 3
  BY LenProperties
<1>2. Len(text) = length
  BY <1>1, UnpaddedIs
<1>3. (3 * length) \div 4 = count
  BY <1>1, TextLength
<1> DEFINE Digit(i) == DigitsOf(GroupValue(text, SymbolValues, 4, (i - 1) \div 3), ByteValues, 3)
                         [3 - ((i - 1) % 3)]
<1>4. Regrouped(text, SymbolValues, 4, ByteValues, 3, (3 * Len(text)) \div 4)
        = [i \in 1 .. count |-> Digit(i)]
  BY <1>2, <1>3 DEF Regrouped
<1>5. ASSUME NEW i \in 1 .. count
      PROVE  Digit(i) = bytes[i]
  <2>1. PICK g \in Nat, n \in 1 .. 3 : g = (i - 1) \div 3 /\ n = 3 - ((i - 1) % 3)
    OBVIOUS
  <2>2. (g + 1) * 3 + 1 - n = i /\ 3 * g < count
    BY <2>1
  <2>3. GroupValue(text, SymbolValues, 4, g) = GroupValue(bytes, ByteValues, 3, g)
    BY <1>1, <2>2, GroupOfText
  <2>4. Digit(i) = Group(bytes, 3, g)[n]
    BY <2>1, <2>3, BytesGroup, ZenonT(30)
  <2>5. Byte = 0 .. ByteValues - 1 /\ ByteValues \in Nat \ {0}
    BY Values64
  <2>6. Group(bytes, 3, g)[n] = IF (g + 1) * 3 + 1 - n <= Len(bytes)
                                  THEN bytes[(g + 1) * 3 + 1 - n] ELSE 0
    BY <2>5, GroupIs, ZenonT(30)
  <2> QED
    BY <1>1, <2>2, <2>4, <2>6
<1> HIDE DEF Digit
<1>6. bytes = [i \in 1 .. count |-> bytes[i]]
  BY <1>1
<1> QED
  BY <1>4, <1>5, <1>6

LEMMA EndsOfRange ==
  ASSUME NEW low \in Nat, NEW high \in Nat, low <= high
  PROVE  Least(low .. high) = low /\ Greatest(low .. high) = high
<1>1. /\ low \in low .. high /\ \A q \in low .. high : low <= q
      /\ high \in low .. high /\ \A q \in low .. high : q <= high
  OBVIOUS
<1>2. /\ \A p \in low .. high : (\A q \in low .. high : p <= q) => p = low
      /\ \A p \in low .. high : (\A q \in low .. high : q <= p) => p = high
  OBVIOUS
<1>3. Least(low .. high) = low
  <2>1. \A q \in low .. high : Least(low .. high) <= q
    BY <1>1 DEF Least
  <2>2. Least(low .. high) \in low .. high
    BY <1>1 DEF Least
  <2> QED
    BY <1>2, <2>1, <2>2
<1>4. Greatest(low .. high) = high
  <2>1. \A q \in low .. high : q <= Greatest(low .. high)
    BY <1>1 DEF Greatest
  <2>2. Greatest(low .. high) \in low .. high
    BY <1>1 DEF Greatest
  <2> QED
    BY <1>2, <2>1, <2>2
<1> QED
  BY <1>3, <1>4

\* Stripping leaves what holds no space, and takes one at either end.
LEMMA StrippedIs ==
  ASSUME NEW text \in Seq(0 .. Padding)
  PROVE  /\ Stripped(text) = text
         /\ Stripped(<<Space>> \o text \o <<Space>>) = text
<1>1. PICK s \in Nat : s = SymbolValues
  BY Values64
<1>2. PICK n \in Nat : n = Len(text)
  BY LenProperties
<1>3. \A i \in 1 .. n : text[i] \in 0 .. s
  BY <1>1, <1>2, ElementOfSeq DEF Padding
<1>4. \A i \in 1 .. n : text[i] # Space
  BY <1>1, <1>3 DEF Space
<1>5. Stripped(text) = text
  <2>1. {i \in DOMAIN text : text[i] # Space} = 1 .. n
    BY <1>2, <1>4
  <2>2. CASE n = 0
    <3>1. text = <<>>
      BY <1>2, <2>2, EmptySeq
    <3>2. 1 .. n = {}
      BY <2>2
    <3> QED
      BY <2>1, <3>1, <3>2 DEF Stripped
  <2>3. CASE n # 0
    <3>1. 1 .. n # {} /\ Least(1 .. n) = 1 /\ Greatest(1 .. n) = n
      <4>1. PICK low \in Nat, high \in Nat : low = 1 /\ high = n /\ low <= high
        BY <2>3
      <4>2. low \in low .. high
        BY <4>1
      <4> QED
        BY <4>1, <4>2, EndsOfRange
    <3>2. SubSeq(text, 1, n) = text
      BY <1>2
    <3> QED
      BY <2>1, <3>1, <3>2 DEF Stripped
  <2> QED
    BY <2>2, <2>3
<1> DEFINE spaced == <<Space>> \o text \o <<Space>>
<1>6. /\ spaced \in Seq(Nat) /\ Len(spaced) = n + 2
      /\ spaced[1] = Space /\ spaced[n + 2] = Space
      /\ \A i \in 1 .. n : spaced[i + 1] = text[i]
  <2>1. Space \in Nat
    BY <1>1 DEF Space
  <2>2. text \in Seq(Nat)
    BY <1>1 DEF Padding
  <2> QED
    BY <1>2, <2>1, <2>2
<1> HIDE DEF spaced
<1>7. Stripped(spaced) = text
  <2>1. {i \in DOMAIN spaced : spaced[i] # Space} = 2 .. n + 1
    <3>1. ASSUME NEW i \in 2 .. n + 1
          PROVE  spaced[i] # Space
      <4>1. PICK j \in 1 .. n : i = j + 1
        <5>1. i - 1 \in 1 .. n
          OBVIOUS
        <5> QED
          BY <5>1
      <4> QED
        BY <1>4, <1>6, <4>1
    <3>2. DOMAIN spaced = 1 .. n + 2
      BY <1>6
    <3> QED
      BY <1>6, <3>1, <3>2
  <2>2. CASE n = 0
    <3>1. text = <<>>
      BY <1>2, <2>2, EmptySeq
    <3>2. 2 .. n + 1 = {}
      BY <2>2
    <3> QED
      BY <2>1, <3>1, <3>2 DEF Stripped
  <2>3. CASE n # 0
    <3>1. 2 .. n + 1 # {} /\ Least(2 .. n + 1) = 2 /\ Greatest(2 .. n + 1) = n + 1
      <4>1. PICK low \in Nat, high \in Nat : low = 2 /\ high = n + 1 /\ low <= high
        BY <2>3
      <4>2. low \in low .. high
        BY <4>1
      <4> QED
        BY <4>1, <4>2, EndsOfRange
    <3>2. SubSeq(spaced, 2, n + 1) = text
      <4>1. PICK first \in Nat, last \in Nat : first = 2 /\ last = n + 1
        OBVIOUS
      <4>2. first \in 1 .. Len(spaced) + 1 /\ last \in first - 1 .. Len(spaced)
        BY <1>6, <4>1
      <4>3. PICK inner : inner = SubSeq(spaced, first, last)
        OBVIOUS
      <4>4. /\ inner \in Seq(Nat) /\ Len(inner) = last - first + 1
            /\ \A i \in 1 .. last - first + 1 : inner[i] = spaced[first + i - 1]
        <5>1. spaced \in Seq(Nat)
          BY <1>6
        <5> QED
          BY <4>2, <4>3, <5>1, Piece, ZenonT(30)
      <4>5. Len(inner) = n /\ \A i \in 1 .. n : inner[i] = text[i]
        <5>1. last - first + 1 = n
          BY <4>1
        <5>2. ASSUME NEW i \in 1 .. n
              PROVE  inner[i] = text[i]
          <6>1. first + i - 1 = i + 1
            BY <4>1
          <6>2. inner[i] = spaced[first + i - 1]
            BY <4>4, <5>1
          <6> QED
            BY <1>6, <6>1, <6>2
        <5> QED
          BY <4>4, <5>1, <5>2
      <4>6. text \in Seq(Nat) /\ Len(text) = n
        BY <1>1, <1>2 DEF Padding
      <4>7. inner = text
        BY <4>4, <4>5, <4>6, SeqEqual
      <4> QED
        BY <4>1, <4>3, <4>7
    <3> QED
      BY <2>1, <3>1, <3>2 DEF Stripped
  <2> QED
    BY <2>2, <2>3
<1> QED
  BY <1>5, <1>7 DEF spaced

\* What the padding of a text adds to it.
LEMMA FilledIs ==
  ASSUME NEW text \in Seq(0 .. SymbolValues - 1), Len(text) % 4 # 1
  PROVE  /\ Filled(text) \in Seq(0 .. Padding)
         /\ Filled(Filled(text)) = Filled(text)
         /\ Symbols(Filled(text)) = text
         /\ Decodable(Filled(text))
<1>1. PICK s \in Nat : s = SymbolValues
  BY Values64
<1>2. PICK n \in Nat : n = Len(text)
  BY LenProperties
<1>3. PICK filled : filled = Filled(text)
  OBVIOUS
<1>4. \A i \in 1 .. n : text[i] \in 0 .. s - 1
  BY <1>1, <1>2, ElementOfSeq
<1>5. PICK m \in 0 .. 2 :
        /\ (n + m) % 4 = 0
        /\ filled \in Seq(0 .. s) /\ Len(filled) = n + m
        /\ \A i \in 1 .. n : filled[i] = text[i]
        /\ \A i \in n + 1 .. n + m : filled[i] = s
  <2>1. text \in Seq(0 .. s) /\ s \in 0 .. s
    BY <1>1
  <2>2. CASE n % 4 = 0
    <3>1. filled = text \o <<>>
      BY <1>2, <1>3, <2>2 DEF Filled
    <3>2. filled = text
      BY <3>1
    <3>3. (n + 0) % 4 = 0
      BY <2>2
    <3> QED
      BY <1>2, <2>1, <3>2, <3>3
  <2>3. CASE n % 4 = 2
    <3>1. filled = text \o <<s, s>>
      BY <1>1, <1>2, <1>3, <2>3 DEF Filled, Padding
    <3>2. /\ filled \in Seq(0 .. s) /\ Len(filled) = n + 2
          /\ \A i \in 1 .. n : filled[i] = text[i]
          /\ \A i \in n + 1 .. n + 2 : filled[i] = s
      BY <1>2, <2>1, <3>1
    <3>3. (n + 2) % 4 = 0
      BY <2>3
    <3> QED
      BY <3>2, <3>3
  <2>4. CASE n % 4 = 3
    <3>1. filled = text \o <<s>>
      BY <1>1, <1>2, <1>3, <2>4 DEF Filled, Padding
    <3>2. /\ filled \in Seq(0 .. s) /\ Len(filled) = n + 1
          /\ \A i \in 1 .. n : filled[i] = text[i]
          /\ \A i \in n + 1 .. n + 1 : filled[i] = s
      BY <1>2, <2>1, <3>1
    <3>3. (n + 1) % 4 = 0
      BY <2>4
    <3> QED
      BY <3>2, <3>3
  <2> QED
    BY <1>2, <2>2, <2>3, <2>4
<1>6. Filled(filled) = filled
  <2>1. Len(filled) % 4 = 0
    BY <1>5
  <2>2. Len(filled) % 4 # 2 /\ Len(filled) % 4 # 3
    BY <2>1
  <2>3. Filled(filled) = filled \o <<>>
    BY <2>2, Zenon DEF Filled
  <2> QED
    BY <1>5, <2>3
<1>7. Symbols(filled) = text
  <2>1. SubSeq(filled, 1, n) = text
    <3>1. filled \in Seq(0 .. s) /\ Len(filled) = n + m /\ n <= n + m /\ n + m \in Nat
      BY <1>5
    <3>2. PICK begin : begin = SubSeq(filled, 1, n)
      OBVIOUS
    <3>3. /\ begin \in Seq(0 .. s) /\ Len(begin) = n
          /\ \A i \in 1 .. n : begin[i] = filled[i]
      BY <3>1, <3>2, Piece
    <3>4. text \in Seq(0 .. s) /\ \A i \in 1 .. n : begin[i] = text[i]
      BY <1>1, <1>5, <3>3
    <3>5. begin = text
      BY <1>2, <3>3, <3>4, SeqEqual
    <3> QED
      BY <3>2, <3>5
  <2>2. {i \in DOMAIN filled : filled[i] >= SymbolValues} = n + 1 .. n + m
    <3>1. DOMAIN filled = 1 .. n + m
      BY <1>5
    <3>2. ASSUME NEW i \in 1 .. n + m
          PROVE  filled[i] >= s <=> i \in n + 1 .. n + m
      <4>1. CASE i <= n
        BY <1>4, <1>5, <4>1
      <4>2. CASE ~(i <= n)
        BY <1>5, <4>2
      <4> QED
        BY <4>1, <4>2
    <3>3. \A i \in n + 1 .. n + m : i \in 1 .. n + m
      OBVIOUS
    <3> QED
      BY <1>1, <3>1, <3>2, <3>3
  <2>3. CASE m = 0
    <3>1. n + 1 .. n + m = {} /\ Len(filled) = n
      BY <1>5, <2>3
    <3> QED
      BY <2>1, <2>2, <3>1 DEF Symbols
  <2>4. CASE m # 0
    <3>1. n + 1 .. n + m # {} /\ Least(n + 1 .. n + m) = n + 1
      <4>1. PICK low \in Nat, high \in Nat : low = n + 1 /\ high = n + m /\ low <= high
        BY <2>4
      <4>2. low \in low .. high
        BY <4>1
      <4> QED
        BY <4>1, <4>2, EndsOfRange
    <3>2. (n + 1) - 1 = n
      OBVIOUS
    <3> QED
      BY <2>1, <2>2, <3>1, <3>2 DEF Symbols
  <2> QED
    BY <2>3, <2>4
<1>8. Decodable(filled)
  BY <1>1, <1>2, <1>5, <1>7 DEF Decodable, Padding
<1> QED
  BY <1>1, <1>3, <1>5, <1>6, <1>7, <1>8 DEF Padding

\* Text in any of its three forms is read as the bytes it stands for.
LEMMA TextIsRead ==
  ASSUME buffer \in Seq(Byte)
  PROVE  TextReadsAsBytes
<1>1. PICK text : text = Unpadded(buffer)
  OBVIOUS
<1>2. /\ text \in Seq(0 .. SymbolValues - 1)
      /\ Len(text) = (4 * Len(buffer) + 2) \div 3
  BY <1>1, UnpaddedIs
<1>3. Len(text) % 4 # 1 /\ (Len(text) = 0 => Len(buffer) = 0)
  <2>1. PICK bytes \in Nat, symbols \in Nat :
          bytes = Len(buffer) /\ symbols = Len(text) /\ symbols = (4 * bytes + 2) \div 3
    BY <1>2, LenProperties
  <2> QED
    BY <2>1, TextLength
<1>4. /\ Filled(text) \in Seq(0 .. Padding)
      /\ Filled(Filled(text)) = Filled(text)
      /\ Symbols(Filled(text)) = text
      /\ Decodable(Filled(text))
  BY <1>2, <1>3, FilledIs
<1>5. DecodedText(Filled(text)) = buffer
  <2>1. DecodedText(Filled(text))
          = Regrouped(text, SymbolValues, 4, ByteValues, 3, (3 * Len(text)) \div 4)
    BY <1>4 DEF DecodedText
  <2> QED
    BY <1>1, <2>1, TextHoldsBytes
<1>6. ASSUME NEW form, form # <<>>, Filled(Stripped(form)) = Filled(text)
      PROVE  ParseText(form) = Whole
  BY <1>4, <1>5, <1>6 DEF ParseText, Whole
<1>7. ASSUME NEW form, form = <<>>, text = <<>>
      PROVE  ParseText(form) = Whole
  <2>1. buffer = <<>>
    BY <1>3, <1>7
  <2> QED
    BY <1>7, <2>1 DEF ParseText, Whole, Parse
<1>8. text \in Seq(0 .. Padding)
  BY <1>2, Values64 DEF Padding
<1>9. ParseText(text) = Whole
  <2>1. Stripped(text) = text
    BY <1>8, StrippedIs
  <2> QED
    BY <1>6, <1>7, <2>1
<1>10. ParseText(Filled(text)) = Whole
  <2>1. Stripped(Filled(text)) = Filled(text)
    BY <1>4, StrippedIs
  <2>2. CASE Filled(text) = <<>>
    <3>1. text = <<>>
      BY <1>4, <2>2 DEF Symbols
    <3> QED
      BY <1>7, <2>2, <3>1
  <2> QED
    BY <1>4, <1>6, <2>1, <2>2
<1>11. ParseText(<<Space>> \o text \o <<Space>>) = Whole
  <2>1. Stripped(<<Space>> \o text \o <<Space>>) = text
    BY <1>8, StrippedIs
  <2>2. <<Space>> \o text \o <<Space>> # <<>>
    <3>1. Space \in Nat /\ text \in Seq(Nat)
      BY <1>8, Values64 DEF Space, Padding
    <3>2. Len(<<Space>> \o text \o <<Space>>) # 0
      BY <3>1
    <3> QED
      BY <3>2
  <2> QED
    BY <1>6, <2>1, <2>2
<1> QED
  BY <1>1, <1>9, <1>10, <1>11 DEF TextReadsAsBytes

-----------------------------------------------------------------------------
(* What the Reader reads *)

\* Each method of the Reader, from where the walk of parse.py is.
LEMMA DomainRead ==
  ASSUME NEW b \in Seq(Byte), NEW o
  PROVE  LET c == [position |-> 1, owid |-> o]
         IN  ReadDomain(b, c) =
               IF Terminators(b) = {} THEN {}
               ELSE {[position |-> Terminator(b), owid |-> [o EXCEPT !.domain = text]] :
                       text \in Utf8(SubSeq(b, 2, Terminator(b) - 1))}
<1> DEFINE c == [position |-> 1, owid |-> o]
           zeros == {p \in DOMAIN b \cap (1 + 1 .. 1 + MaximumDomainLength + 1) : b[p] = 0}
<1>1. DOMAIN b = 1 .. Len(b) /\ Len(b) \in Nat /\ MaximumDomainLength \in Nat
  BY LenProperties, WidthsAssumption
<1>2. zeros = Terminators(b)
  BY <1>1 DEF Terminators
<1>3. ASSUME Terminators(b) # {}
      PROVE  Ahead(b, c, Terminator(b) - 1 - 1) = SubSeq(b, 2, Terminator(b) - 1)
  <2>1. PICK t \in Nat : t = Terminator(b)
    BY <1>1, <1>3, TerminatorIs
  <2>2. c.position + 1 = 2 /\ c.position + (t - 1 - 1) = t - 1
    OBVIOUS
  <2> QED
    BY <2>1, <2>2 DEF Ahead
<1> QED
  BY <1>2, <1>3 DEF ReadDomain, Terminator

LEMMA DateRead ==
  ASSUME NEW b \in Seq(Byte), Terminators(b) # {}, NEW o, o.version = b[1]
  PROVE  LET c == [position |-> Terminator(b), owid |-> o]
         IN  ReadDate(b, c) =
               IF \/ DateEnd(b) > Len(b)
                  \/ b[1] # Version1 /\ DateIn(b) > MaximumMinutes * MinuteTicks
                 THEN {}
               ELSE {[position |-> DateEnd(b), owid |-> [o EXCEPT !.date = DateIn(b)]]}
<1> DEFINE c == [position |-> Terminator(b), owid |-> o]
           bytes == SubSeq(b, Terminator(b) + 1, DateEnd(b))
<1>1. PICK t \in Nat, de \in Nat, w \in Nat, n \in Nat :
        /\ t = Terminator(b) /\ de = DateEnd(b) /\ w = DateWidth(b[1])
        /\ n = Len(b) /\ de = t + w /\ t \in 2 .. n
  BY Layout, FieldWidths, LenProperties
<1>2. Left(b, c) < w <=> de > n
  BY <1>1 DEF Left
<1>3. Ahead(b, c, w) = bytes
  BY <1>1 DEF Ahead
<1>4. ASSUME ~(de > n)
      PROVE  /\ DateIn(b) = (IF b[1] = Version1 THEN Number(Backwards(bytes)) * HourTicks
                             ELSE Number(bytes) * MinuteTicks)
             /\ b[1] # Version1 =>
                  (Number(bytes) > MaximumMinutes
                     <=> DateIn(b) > MaximumMinutes * MinuteTicks)
  <2>1. bytes \in Seq(Byte)
    BY <1>1, <1>4, Piece
  <2>2. DateIn(b) = (IF b[1] = Version1 THEN Number(Backwards(bytes)) * HourTicks
                     ELSE Number(bytes) * MinuteTicks)
    BY DEF DateIn, DateOf, DateTicks
  <2> HIDE DEF bytes
  <2>3. PICK q \in Nat, m \in Nat, k \in Nat \ {0} :
          q = Number(bytes) /\ m = MaximumMinutes /\ k = MinuteTicks
    BY <2>1, FieldNumber, WidthsAssumption
  <2>4. q > m => q * k > m * k
    <3> SUFFICES ASSUME q > m
                 PROVE  q * k > m * k
      OBVIOUS
    <3>1. k * m + k <= k * q
      BY MultiplesApart
    <3>2. PICK x \in Nat, y \in Nat : x = k * m /\ y = k * q /\ x = m * k /\ y = q * k
      <4>1. k * m \in Nat /\ k * q \in Nat /\ k * m = m * k /\ k * q = q * k
        OBVIOUS
      <4> QED
        BY <4>1
    <3>3. x + k <= y /\ k > 0
      BY <3>1, <3>2
    <3> QED
      BY <3>2, <3>3
  <2>5. q <= m => q * k <= m * k
    BY ProductsKeepOrder
  <2>6. q * k \in Nat /\ m * k \in Nat
    OBVIOUS
  <2>7. q > m <=> q * k > m * k
    <3>1. PICK x \in Nat, y \in Nat : x = q * k /\ y = m * k
      BY <2>6
    <3>2. (q > m => x > y) /\ (q <= m => x <= y)
      BY <2>4, <2>5, <3>1
    <3> QED
      BY <3>1, <3>2
  <2>8. b[1] # Version1 => DateIn(b) = q * k
    BY <2>2, <2>3
  <2> QED
    BY <2>2, <2>3, <2>7, <2>8
<1>5. w = IF o.version = Version1 THEN HoursWidth ELSE MinutesWidth
  BY <1>1 DEF DateWidth
<1> DEFINE date == IF o.version = Version1 THEN Number(Backwards(bytes)) * HourTicks
                   ELSE Number(bytes) * MinuteTicks
<1>6. ReadDate(b, c) =
        IF Left(b, c) < w \/ (o.version # Version1 /\ Number(bytes) > MaximumMinutes) THEN {}
        ELSE {[position |-> t + w, owid |-> [o EXCEPT !.date = date]]}
  <2>1. c.owid = o /\ c.position = t
    BY <1>1
  <2> HIDE DEF c, bytes
  <2> QED
    BY <1>3, <1>5, <2>1 DEF ReadDate
<1> HIDE DEF bytes, c
<1>7. CASE de > n
  BY <1>1, <1>2, <1>6, <1>7 DEF c
<1>8. CASE ~(de > n)
  <2>1. /\ DateIn(b) = date
        /\ b[1] # Version1 => (Number(bytes) > MaximumMinutes
                                 <=> DateIn(b) > MaximumMinutes * MinuteTicks)
    BY <1>4, <1>8
  <2> HIDE DEF date
  <2> QED
    BY <1>1, <1>2, <1>6, <1>8, <2>1 DEF c
<1> QED
  BY <1>7, <1>8

LEMMA PayloadRead ==
  ASSUME NEW b \in Seq(Byte), Terminators(b) # {}, DateEnd(b) <= Len(b), NEW o
  PROVE  LET c == [position |-> DateEnd(b), owid |-> o]
         IN  ReadPayload(b, c) =
               IF LengthEnd(b) > Len(b) \/ Present(b) # Declared(b) THEN {}
               ELSE {[position |-> LengthEnd(b) + Declared(b),
                      owid |-> [o EXCEPT !.payload =
                                  SubSeq(b, LengthEnd(b) + 1, LengthEnd(b) + Declared(b))]]}
<1> DEFINE c == [position |-> DateEnd(b), owid |-> o]
<1>1. PICK de \in Nat, le \in Nat, n \in Nat :
        /\ de = DateEnd(b) /\ le = LengthEnd(b) /\ n = Len(b)
        /\ le = de + LengthWidth /\ LengthWidth \in Nat /\ SignatureLength \in Nat
  BY Layout, LenProperties, WidthsAssumption
<1> DEFINE count == Number(Ahead(b, c, LengthWidth))
           start == [c EXCEPT !.position = @ + LengthWidth]
<1>2. c.position = de /\ start.position = le /\ c.owid = o
  BY <1>1
<1>3. count = Declared(b)
  BY <1>1 DEF Ahead, Declared
<1>4. Left(b, c) < LengthWidth <=> le > n
  BY <1>1, <1>2 DEF Left
<1>5. Left(b, start) = n - le
  BY <1>1, <1>2 DEF Left
<1>6. Ahead(b, start, Declared(b)) = SubSeq(b, le + 1, le + Declared(b))
  BY <1>2 DEF Ahead
<1>7. ReadPayload(b, c) =
        IF Left(b, c) < LengthWidth \/ Left(b, start) # count + SignatureLength THEN {}
        ELSE {[position |-> start.position + count,
               owid |-> [c.owid EXCEPT !.payload = Ahead(b, start, count)]]}
  BY DEF ReadPayload
<1> HIDE DEF c, count, start
<1>8. CASE le > n
  BY <1>1, <1>4, <1>7, <1>8 DEF c
<1>9. CASE ~(le > n)
  <2>1. PICK d \in Nat : d = Declared(b)
    BY <1>1, <1>9, Layout
  <2>2. n - le # d + SignatureLength <=> Present(b) # d
    <3>1. PICK s \in Nat : s = SignatureLength
      BY <1>1
    <3>2. Present(b) = n - le - s
      BY <1>1, <3>1 DEF Present
    <3> QED
      BY <3>1, <3>2
  <2> QED
    BY <1>1, <1>2, <1>3, <1>4, <1>5, <1>6, <1>7, <1>9, <2>1, <2>2 DEF c
<1> QED
  BY <1>8, <1>9

LEMMA SignatureRead ==
  ASSUME NEW b \in Seq(Byte), Complete(b), Present(b) = Declared(b), NEW o
  PROVE  LET c == [position |-> LengthEnd(b) + Declared(b), owid |-> o]
         IN  ReadSignature(b, c) =
               {[position |-> Len(b),
                 owid |-> [o EXCEPT !.signature =
                             SubSeq(b, LengthEnd(b) + Declared(b) + 1,
                                       LengthEnd(b) + Declared(b) + SignatureLength)]]}
<1> DEFINE c == [position |-> LengthEnd(b) + Declared(b), owid |-> o]
<1>1. PICK p \in Nat, n \in Nat :
        /\ p = LengthEnd(b) + Declared(b) /\ n = Len(b)
        /\ p + SignatureLength = n /\ SignatureLength \in Nat
  BY ConsumedIsLength, LenProperties, WidthsAssumption
<1>2. c.position = p /\ c.owid = o /\ Left(b, c) = n - p
  BY <1>1 DEF Left
<1>3. Ahead(b, c, SignatureLength) = SubSeq(b, p + 1, p + SignatureLength)
  BY <1>2 DEF Ahead
<1>4. ~(Left(b, c) < SignatureLength)
  BY <1>1, <1>2
<1> HIDE DEF c
<1> QED
  BY <1>1, <1>2, <1>3, <1>4 DEF ReadSignature, c

\* One after the other they read an OWID where the walk finds a complete one,
\* and raise elsewhere.
LEMMA ReaderIs ==
  ASSUME NEW b \in Seq(Byte)
  PROVE  /\ b = <<>> \/ b[1] \notin Versions => ReaderOwids(b) = {}
         /\ b # <<>> /\ b[1] = EmptyVersion => ReaderOwids(b) = {AbsentNode}
         /\ b # <<>> /\ b[1] \in Versions \ {EmptyVersion} =>
              ReaderOwids(b) =
                IF Complete(b) /\ Present(b) = Declared(b)
                  THEN {[OwidIn(b) EXCEPT !.domain = text] :
                          text \in Utf8(SubSeq(b, 2, Terminator(b) - 1))}
                  ELSE {}
<1> DEFINE absent == {c \in ReadVersion(b) : c.owid.version = EmptyVersion}
           domains == UNION {ReadDomain(b, c) : c \in ReadVersion(b) \ absent}
           dates == UNION {ReadDate(b, c) : c \in domains}
           payloads == UNION {ReadPayload(b, c) : c \in dates}
           signatures == UNION {ReadSignature(b, c) : c \in payloads}
<1>1. ReaderOwids(b) = {c.owid : c \in absent \cup signatures}
  BY DEF ReaderOwids
<1>2. ASSUME b = <<>> \/ b[1] \notin Versions
      PROVE  ReaderOwids(b) = {}
  BY <1>1, <1>2 DEF ReadVersion
<1> DEFINE start == [AbsentNode EXCEPT !.version = b[1]]
           at1 == [position |-> 1, owid |-> start]
<1>3. start.version = b[1]
  BY DEF AbsentNode
<1>4. b # <<>> /\ b[1] \in Versions => ReadVersion(b) = {at1}
  BY DEF ReadVersion
<1>5. ASSUME b # <<>>, b[1] = EmptyVersion
      PROVE  ReaderOwids(b) = {AbsentNode}
  <2>1. ReadVersion(b) = {at1} /\ start = AbsentNode
    BY <1>4, <1>5 DEF Versions, EmptyVersion, AbsentNode
  <2>2. at1.owid.version = EmptyVersion /\ at1.owid = AbsentNode
    BY <1>3, <1>5, <2>1
  <2> HIDE DEF at1
  <2>7. absent = {at1}
    BY <2>1, <2>2
  <2>8. domains = {}
    BY <2>1, <2>2
  <2> HIDE DEF absent, domains
  <2>3. dates = {}
    BY <2>8
  <2> HIDE DEF dates
  <2>4. payloads = {}
    BY <2>3
  <2> HIDE DEF payloads
  <2>5. signatures = {}
    BY <2>4
  <2> HIDE DEF signatures
  <2> QED
    BY <1>1, <2>2, <2>5, <2>7
<1>6. ASSUME b # <<>>, b[1] \in Versions \ {EmptyVersion}
      PROVE  ReaderOwids(b) =
               IF Complete(b) /\ Present(b) = Declared(b)
                 THEN {[OwidIn(b) EXCEPT !.domain = text] :
                         text \in Utf8(SubSeq(b, 2, Terminator(b) - 1))}
                 ELSE {}
  <2>1. absent = {} /\ domains = ReadDomain(b, at1)
    <3>1. at1.owid.version # EmptyVersion /\ ReadVersion(b) = {at1}
      BY <1>3, <1>4, <1>6
    <3> HIDE DEF at1
    <3> QED
      BY <3>1
  <2> HIDE DEF absent, domains
  <2> DEFINE texts == Utf8(SubSeq(b, 2, Terminator(b) - 1))
             owid1(text) == [start EXCEPT !.domain = text]
             at2(text) == [position |-> Terminator(b), owid |-> owid1(text)]
  <2>2. CASE Terminators(b) = {}
    <3>1. domains = {}
      BY <2>1, <2>2, DomainRead
    <3>2. dates = {}
      BY <3>1
    <3> HIDE DEF dates
    <3>3. payloads = {}
      BY <3>2
    <3> HIDE DEF payloads
    <3>4. signatures = {}
      BY <3>3
    <3> QED
      BY <1>1, <2>1, <2>2, <3>4 DEF Complete
  <2>3. CASE Terminators(b) # {}
    <3>1. domains = {at2(text) : text \in texts}
      BY <2>1, <2>3, DomainRead
    <3>2. \A text \in texts : owid1(text).version = b[1]
      BY DEF AbsentNode
    <3> DEFINE dated == ~ \/ DateEnd(b) > Len(b)
                          \/ b[1] # Version1 /\ DateIn(b) > MaximumMinutes * MinuteTicks
               owid2(text) == [owid1(text) EXCEPT !.date = DateIn(b)]
               at3(text) == [position |-> DateEnd(b), owid |-> owid2(text)]
    <3>3. \A text \in texts : ReadDate(b, at2(text)) = IF dated THEN {at3(text)} ELSE {}
      <4> TAKE text \in texts
      <4> DEFINE o == owid1(text)
      <4>1. o.version = b[1]
        BY <3>2
      <4> HIDE DEF o
      <4> QED
        BY <2>3, <4>1, DateRead DEF o
    <3> HIDE DEF owid1, start, texts
    <3>4. dates = IF dated THEN {at3(text) : text \in texts} ELSE {}
      <4> HIDE DEF at2, at3, dated
      <4> QED
        BY <3>1, <3>3
    <3> DEFINE fits == LengthEnd(b) <= Len(b) /\ Present(b) = Declared(b)
               owid3(text) ==
                 [owid2(text) EXCEPT !.payload =
                    SubSeq(b, LengthEnd(b) + 1, LengthEnd(b) + Declared(b))]
               at4(text) == [position |-> LengthEnd(b) + Declared(b), owid |-> owid3(text)]
    <3>5. DateEnd(b) \in Nat /\ LengthEnd(b) \in Nat /\ Len(b) \in Nat
          /\ (LengthEnd(b) <= Len(b) => DateEnd(b) <= Len(b) /\ Declared(b) \in Nat)
          /\ (DateEnd(b) <= Len(b) => DateIn(b) \in Nat)
          /\ MaximumMinutes * MinuteTicks \in Nat
      BY <2>3, Layout, LenProperties, WidthsAssumption
    <3>6. ASSUME dated
          PROVE  \A text \in texts :
                   ReadPayload(b, at3(text)) = IF fits THEN {at4(text)} ELSE {}
      <4> TAKE text \in texts
      <4> DEFINE o == owid2(text)
      <4>1. DateEnd(b) <= Len(b)
        BY <3>5, <3>6
      <4> HIDE DEF o
      <4>2. ReadPayload(b, [position |-> DateEnd(b), owid |-> o]) =
              IF LengthEnd(b) > Len(b) \/ Present(b) # Declared(b) THEN {}
              ELSE {[position |-> LengthEnd(b) + Declared(b),
                     owid |-> [o EXCEPT !.payload =
                                 SubSeq(b, LengthEnd(b) + 1, LengthEnd(b) + Declared(b))]]}
        BY <2>3, <4>1, PayloadRead
      <4>3. LengthEnd(b) > Len(b) \/ Present(b) # Declared(b) <=> ~fits
        BY <3>5
      <4> HIDE DEF fits
      <4> QED
        BY <4>2, <4>3 DEF o
    <3> HIDE DEF dates, owid2
    <3>7. payloads = IF dated /\ fits THEN {at4(text) : text \in texts} ELSE {}
      <4> HIDE DEF at3, at4, dated, fits
      <4>1. CASE dated
        <5>1. dates = {at3(text) : text \in texts}
          BY <3>4, <4>1
        <5>2. \A text \in texts : ReadPayload(b, at3(text)) = IF fits THEN {at4(text)} ELSE {}
          BY <3>6, <4>1
        <5>3. payloads = IF fits THEN {at4(text) : text \in texts} ELSE {}
          BY <5>1, <5>2
        <5> QED
          BY <4>1, <5>3
      <4>2. CASE ~dated
        <5>1. dates = {}
          BY <3>4, <4>2
        <5> QED
          BY <4>2, <5>1
      <4> QED
        BY <4>1, <4>2
    <3>8. dated /\ fits <=> Complete(b) /\ Present(b) = Declared(b)
      BY <1>6, <2>3, <3>5 DEF Complete
    <3> DEFINE owid4(text) ==
                 [owid3(text) EXCEPT !.signature =
                    SubSeq(b, LengthEnd(b) + Declared(b) + 1,
                              LengthEnd(b) + Declared(b) + SignatureLength)]
               at5(text) == [position |-> Len(b), owid |-> owid4(text)]
    <3>9. ASSUME dated /\ fits
          PROVE  \A text \in texts : ReadSignature(b, at4(text)) = {at5(text)}
      <4> TAKE text \in texts
      <4> DEFINE o == owid3(text)
      <4> HIDE DEF o, dated, fits
      <4> QED
        BY <3>8, <3>9, SignatureRead DEF o
    <3> HIDE DEF payloads, owid3
    <3>10. signatures = IF dated /\ fits THEN {at5(text) : text \in texts} ELSE {}
      <4> HIDE DEF at4, at5, dated, fits
      <4> QED
        BY <3>7, <3>9
    <3>11. ASSUME NEW text
           PROVE  owid4(text) = [OwidIn(b) EXCEPT !.domain = text]
      <4> DEFINE fields(domain, date, payload, signature) ==
                   [version |-> b[1], domain |-> domain, date |-> date,
                    payload |-> payload, signature |-> signature]
                 read == SubSeq(b, 2, Terminator(b) - 1)
                 load == SubSeq(b, LengthEnd(b) + 1, LengthEnd(b) + Declared(b))
                 sign == SubSeq(b, LengthEnd(b) + Declared(b) + 1,
                                   LengthEnd(b) + Declared(b) + SignatureLength)
      <4>1. \A d, t, p, s, v :
              /\ [fields(d, t, p, s) EXCEPT !.domain = v] = fields(v, t, p, s)
              /\ [fields(d, t, p, s) EXCEPT !.date = v] = fields(d, v, p, s)
              /\ [fields(d, t, p, s) EXCEPT !.payload = v] = fields(d, t, v, s)
              /\ [fields(d, t, p, s) EXCEPT !.signature = v] = fields(d, t, p, v)
        OBVIOUS
      <4>2. start = fields(<<>>, 0, <<>>, <<>>)
        BY DEF start, AbsentNode
      <4>3. OwidIn(b) = fields(Decoded(read), DateIn(b), load, sign)
        BY DEF OwidIn
      <4> HIDE DEF fields, read, load, sign, start
      <4>4. owid1(text) = fields(text, 0, <<>>, <<>>)
        BY <4>1, <4>2 DEF owid1
      <4>5. owid2(text) = fields(text, DateIn(b), <<>>, <<>>)
        BY <4>1, <4>4 DEF owid2
      <4>6. owid3(text) = fields(text, DateIn(b), load, <<>>)
        <5>1. owid3(text) = [owid2(text) EXCEPT !.payload = load]
          BY DEF owid3, load
        <5> QED
          BY <4>1, <4>5, <5>1
      <4>7. owid4(text) = fields(text, DateIn(b), load, sign)
        <5>1. owid4(text) = [owid3(text) EXCEPT !.signature = sign]
          BY DEF owid4, sign
        <5> QED
          BY <4>1, <4>6, <5>1
      <4>8. [OwidIn(b) EXCEPT !.domain = text] = fields(text, DateIn(b), load, sign)
        <5>1. \A d, t, p, q : [fields(d, t, p, q) EXCEPT !.domain = text] = fields(text, t, p, q)
          BY <4>1
        <5> QED
          BY <4>3, <5>1
      <4> QED
        BY <4>7, <4>8
    <3> HIDE DEF signatures, owid4
    <3>12. {c.owid : c \in {at5(text) : text \in texts}} = {owid4(text) : text \in texts}
      <4>1. \A text : at5(text).owid = owid4(text)
        OBVIOUS
      <4> HIDE DEF at5
      <4> QED
        BY <4>1
    <3>13. {owid4(text) : text \in texts}
             = {[OwidIn(b) EXCEPT !.domain = text] : text \in texts}
      BY <3>11
    <3> HIDE DEF at5, dated, fits
    <3> QED
      BY <1>1, <2>1, <3>8, <3>10, <3>12, <3>13 DEF texts
  <2> QED
    BY <2>2, <2>3
<1> QED
  BY <1>2, <1>5, <1>6

-----------------------------------------------------------------------------
(* Texts *)

\* A text whose UTF-8 is ASCII is ASCII.
LEMMA AsciiText ==
  ASSUME NEW text \in Seq(Character),
         \A i \in 1 .. Len(Encoded(text)) : Encoded(text)[i] < FirstHigh
  PROVE  \A i \in 1 .. Len(text) : text[i] < FirstHigh
<1>1. PICK upTo : Encodings(text, upTo)
  BY EncodingsExist
<1>2. PICK N \in Nat : N = Len(text)
  BY LenProperties
<1>3. /\ FirstHigh \in Nat /\ FirstHigh < ByteValues /\ ByteValues \in Nat
  BY WidthsAssumption
<1> SUFFICES ASSUME NEW i \in 1 .. N, ~(text[i] < FirstHigh)
             PROVE  FALSE
  BY <1>2
<1> DEFINE High(s) == \E p \in 1 .. Len(s) : ~(s[p] < FirstHigh)
           T == {n \in Nat : i + n <= N => High(upTo[i + n])}
<1>4. \A n \in 0 .. N : upTo[n] \in Seq(Byte)
  BY <1>1, <1>2 DEF Encodings
<1>5. \A n \in 1 .. N : /\ upTo[n] = upTo[n - 1] \o EncodedCharacter(text[n])
                        /\ EncodedCharacter(text[n]) \in Seq(Byte)
  <2>1. \A n \in 1 .. N : text[n] \in Character
    BY <1>2, ElementOfSeq
  <2> QED
    BY <1>1, <1>2, <2>1, CharacterBytes DEF Encodings
<1>6. 0 \in T
  <2>1. EncodedCharacter(text[i]) \in {<<FirstHigh, FirstHigh, FirstHigh>>,
                                       <<FirstHigh, FirstHigh>>}
    <3>1. text[i] \in Character
      BY <1>2, ElementOfSeq
    <3>2. text[i] = Replacement \/ text[i] = Wide
      BY <1>3, <3>1 DEF Character
    <3> QED
      BY <3>2 DEF EncodedCharacter
  <2> DEFINE e == EncodedCharacter(text[i])
             u == upTo[i - 1]
  <2>2. e \in Seq(Byte) /\ u \in Seq(Byte) /\ upTo[i] = u \o e
    <3>1. i \in 1 .. N /\ i - 1 \in 0 .. N
      OBVIOUS
    <3> QED
      BY <1>4, <1>5, <3>1
  <2>3. Len(e) >= 1 /\ e[1] = FirstHigh
    BY <2>1
  <2> HIDE DEF e, u
  <2>4. Len(u) \in Nat /\ Len(e) \in Nat
    BY <2>2, LenProperties
  <2>5. Len(upTo[i]) = Len(u) + Len(e) /\ upTo[i][Len(u) + 1] = e[1]
    <3>1. Len(u) + 1 \in Len(u) + 1 .. Len(u) + Len(e) /\ (Len(u) + 1) - Len(u) = 1
      BY <2>3, <2>4
    <3> QED
      BY <2>2, <2>3, <2>4, <3>1, ConcatProperties
  <2>6. Len(u) + 1 \in 1 .. Len(upTo[i]) /\ ~(upTo[i][Len(u) + 1] < FirstHigh)
    BY <1>3, <2>3, <2>4, <2>5
  <2> QED
    BY <2>6
<1>7. ASSUME NEW n \in Nat, n \in T
      PROVE  n + 1 \in T
  <2> SUFFICES ASSUME i + (n + 1) <= N
               PROVE  High(upTo[i + (n + 1)])
    OBVIOUS
  <2>1. i + n \in 0 .. N /\ i + (n + 1) \in 1 .. N /\ (i + (n + 1)) - 1 = i + n
    OBVIOUS
  <2> DEFINE u == upTo[i + n]
             e == EncodedCharacter(text[i + (n + 1)])
  <2>2. u \in Seq(Byte) /\ e \in Seq(Byte) /\ upTo[i + (n + 1)] = u \o e
    BY <1>4, <1>5, <2>1
  <2>3. PICK p \in 1 .. Len(u) : ~(u[p] < FirstHigh)
    BY <1>7, <2>1
  <2> HIDE DEF u, e
  <2>4. Len(u) \in Nat /\ Len(e) \in Nat
    BY <2>2, LenProperties
  <2>5. Len(u \o e) = Len(u) + Len(e) /\ (u \o e)[p] = u[p]
    BY <2>2, <2>4, ConcatProperties
  <2>6. p \in 1 .. Len(u \o e) /\ ~((u \o e)[p] < FirstHigh)
    BY <2>3, <2>4, <2>5
  <2> QED
    BY <2>2, <2>6
<1> HIDE DEF T
<1>8. N - i \in T
  BY <1>6, <1>7, Induction
<1>9. High(upTo[N])
  BY <1>8 DEF T
<1> QED
  BY <1>1, <1>2, <1>9 DEF Encodings

\* ASCII bytes are the UTF-8 of one text.
LEMMA AsciiIsOneText ==
  ASSUME NEW x \in Seq(Byte), \A i \in 1 .. Len(x) : Decoded(x)[i] < FirstHigh
  PROVE  Utf8(x) = {x}
<1>1. /\ x \in Seq(Character) /\ Encoded(x) = x /\ Len(x) \in Nat
      /\ \A i \in 1 .. Len(x) : x[i] < FirstHigh
  BY AsciiIsItself, LenProperties
<1>2. x \in Utf8(x)
  <2>1. x \in [1 .. Len(x) -> Character] /\ Len(x) \in 0 .. Len(x)
    BY <1>1, LenProperties
  <2> QED
    BY <1>1, <2>1 DEF Utf8
<1>3. ASSUME NEW text \in Utf8(x)
      PROVE  text = x
  <2>1. PICK n \in 0 .. Len(x) : text \in [1 .. n -> Character]
    BY DEF Utf8
  <2>2. text \in Seq(Character) /\ Encoded(text) = x
    BY <1>1, <2>1 DEF Utf8
  <2>3. \A i \in 1 .. Len(text) : text[i] < FirstHigh
    BY <1>1, <2>2, AsciiText
  <2>4. Encoded(text) = text
    BY <2>2, <2>3, EncodedAscii
  <2> QED
    BY <2>2, <2>4
<1> QED
  BY <1>2, <1>3

LEMMA ReaderAndWhole ==
  ASSUME buffer \in Seq(Byte)
  PROVE  ReadersAgree
<1> DEFINE b == buffer
           x == SubSeq(b, 2, Terminator(b) - 1)
           whole == Complete(b) /\ Present(b) = Declared(b)
<1>1. Whole.status = "ABSENT_NODE" <=> b # <<>> /\ b[1] = EmptyVersion
  BY DEF Whole, Parse, Parsed, Failed, DomainFault, Versions, EmptyVersion
<1>2. Whole.owids = IF whole THEN {OwidIn(b)} ELSE {}
  <2>1. CASE whole
    <3>1. Whole = Parsed(OwidIn(b), LengthEnd(b) + Declared(b) + SignatureLength)
      BY <2>1, ParseIs DEF Whole
    <3> QED
      BY <2>1, <3>1 DEF Parsed
  <2>2. CASE ~whole
    <3>1. Whole.status # "PARSED"
      BY <2>2, ParseIs DEF Whole
    <3>2. Whole.owids = {}
      BY <3>1 DEF Whole, Parse, Parsed, Failed, DomainFault
    <3> QED
      BY <2>2, <3>2
  <2> QED
    BY <2>1, <2>2
<1>3. CASE b = <<>> \/ b[1] \notin Versions
  <2>1. ReaderOwids(b) = {} /\ ~whole /\ Whole.status # "ABSENT_NODE"
    BY <1>1, <1>3, ReaderIs DEF Complete, Versions, EmptyVersion
  <2> QED
    BY <1>2, <2>1 DEF ReadersAgree
<1>4. CASE b # <<>> /\ b[1] = EmptyVersion
  <2>1. ReaderOwids(b) = {AbsentNode} /\ ~whole /\ Whole.status = "ABSENT_NODE"
    BY <1>1, <1>4, ReaderIs DEF Complete
  <2> QED
    BY <1>2, <2>1 DEF ReadersAgree
<1>5. CASE b # <<>> /\ b[1] \in Versions \ {EmptyVersion}
  <2>1. ReaderOwids(b) =
          IF whole THEN {[OwidIn(b) EXCEPT !.domain = text] : text \in Utf8(x)} ELSE {}
    BY <1>5, ReaderIs
  <2>2. Whole.status # "ABSENT_NODE"
    BY <1>1, <1>5
  <2>3. CASE ~whole
    BY <1>2, <2>1, <2>2, <2>3 DEF ReadersAgree
  <2>4. CASE whole
    <3>1. OwidIn(b).domain = Decoded(x) /\ OwidIn(b).version = b[1]
      BY DEF OwidIn
    <3>2. x \in Seq(Byte)
      <4>1. PICK t \in Nat, n \in Nat :
              t = Terminator(b) /\ n = Len(b) /\ 2 <= t /\ t <= n
        BY <2>4, Layout, LenProperties DEF Complete
      <4>2. 2 \in 1 .. Len(b) + 1 /\ t - 1 \in 2 - 1 .. Len(b)
        BY <4>1
      <4> QED
        BY <4>1, <4>2, Piece
    <3>3. \A text : [OwidIn(b) EXCEPT !.domain = text].version = b[1]
                    /\ [OwidIn(b) EXCEPT !.domain = text].domain = text
      BY DEF OwidIn
    <3>4. AbsentNode \notin ReaderOwids(b)
      <4> SUFFICES ASSUME AbsentNode \in ReaderOwids(b)
                   PROVE  FALSE
        OBVIOUS
      <4>1. PICK text \in Utf8(x) : AbsentNode = [OwidIn(b) EXCEPT !.domain = text]
        BY <2>1, <2>4
      <4>2. AbsentNode.version = b[1]
        BY <3>3, <4>1
      <4> QED
        BY <1>5, <4>2 DEF AbsentNode
    <3>5. ASSUME NEW owid \in ReaderOwids(b)
          PROVE  Whole.owids = {[owid EXCEPT !.domain = Decoded(Encoded(@))]}
      <4>1. PICK text \in Utf8(x) : owid = [OwidIn(b) EXCEPT !.domain = text]
        BY <2>1, <2>4
      <4>2. Encoded(text) = x
        BY DEF Utf8
      <4> HIDE DEF x
      <4>3. Decoded(Encoded(owid.domain)) = OwidIn(b).domain
        BY <3>1, <3>3, <4>1, <4>2
      <4>4. [owid EXCEPT !.domain = OwidIn(b).domain] = OwidIn(b)
        BY <4>1 DEF OwidIn
      <4> QED
        BY <1>2, <2>4, <4>3, <4>4
    <3>6. ASSUME NEW owid \in Whole.owids, Ascii(owid)
          PROVE  ReaderOwids(b) = {owid}
      <4>1. owid = OwidIn(b)
        BY <1>2, <2>4
      <4>2. \A i \in 1 .. Len(x) : Decoded(x)[i] < FirstHigh
        <5>1. DOMAIN Decoded(x) = 1 .. Len(x)
          BY <3>2, LenProperties DEF Decoded
        <5> QED
          BY <3>1, <3>6, <4>1, <5>1 DEF Ascii
      <4>3. Utf8(x) = {x} /\ Decoded(x) = x
        BY <3>2, <4>2, AsciiIsOneText, AsciiIsItself
      <4> HIDE DEF x
      <4>4. [OwidIn(b) EXCEPT !.domain = x] = OwidIn(b)
        BY <3>1, <4>3 DEF OwidIn
      <4> QED
        BY <2>1, <2>4, <4>1, <4>3, <4>4
    <3> QED
      BY <2>2, <3>4, <3>5, <3>6 DEF ReadersAgree
  <2> QED
    BY <2>3, <2>4
<1> QED
  BY <1>3, <1>4, <1>5 DEF Versions, EmptyVersion

-----------------------------------------------------------------------------
(* The buffer of the specification *)

BufferIsBytes == buffer \in Seq(Byte)

LEMMA BytesArrive == BufferIsBytes /\ [Next]_buffer => BufferIsBytes'
<1> SUFFICES ASSUME BufferIsBytes, [Next]_buffer
             PROVE  BufferIsBytes'
  OBVIOUS
<1>1. ASSUME NEW byte \in Incoming, Arrive(byte)
      PROVE  BufferIsBytes'
  BY <1>1, IncomingAssumption DEF Arrive, BufferIsBytes
<1>2. CASE UNCHANGED buffer
  BY <1>2 DEF BufferIsBytes
<1> QED
  BY <1>1, <1>2 DEF Next

LEMMA BufferStaysBytes == Spec => []BufferIsBytes
<1>1. Init => BufferIsBytes
  BY DEF Init, BufferIsBytes
<1> QED
  BY <1>1, BytesArrive, PTL DEF Spec

\* Every OWID a read returns is written back as the bytes it was read from,
\* the bytes its signature is verified over: the reads of parse.py invert the
\* writes of owid.py and io.py at every width and boundary.
THEOREM SignedBytesAreReadBack == Spec => []ReadsWhatWasSigned
<1>1. BufferIsBytes => ReadsWhatWasSigned
  BY WhatIsReadWasSigned DEF BufferIsBytes
<1> QED
  BY <1>1, BufferStaysBytes, PTL

\* A whole read succeeds exactly where a framed one succeeds and consumes the
\* buffer, with one result: parse_bytes and parse_prefix differ nowhere else.
THEOREM ContractsDifferInOnePlace == Spec => []ContractsAgree
<1>1. BufferIsBytes => ContractsAgree
  BY WholeAndFramed DEF BufferIsBytes
<1> QED
  BY <1>1, BufferStaysBytes, PTL

\* A framed read that asks for more bytes can be given them: parse.py never
\* keeps a caller waiting for what no bytes can complete.
THEOREM WaitingCanHelp == Spec => []WaitingHelps
<1>1. BufferIsBytes => WaitingHelps
  BY WaitingIsWorthIt DEF BufferIsBytes
<1> QED
  BY <1>1, BufferStaysBytes, PTL

\* Of any buffer the Reader of io.py reads what parse_bytes reads, but for a
\* domain that is not ASCII, and besides it the marker of an absent node.
THEOREM ReadersTakeTheSame == Spec => []ReadersAgree
<1>1. BufferIsBytes => ReadersAgree
  BY ReaderAndWhole DEF BufferIsBytes
<1> QED
  BY <1>1, BufferStaysBytes, PTL

\* The text of any bytes, padded or not and with white space around it, is
\* read by parse_base64 as parse_bytes reads the bytes.
THEOREM TextIsReadAsBytes == Spec => []TextReadsAsBytes
<1>1. BufferIsBytes => TextReadsAsBytes
  BY TextIsRead DEF BufferIsBytes
<1> QED
  BY <1>1, BufferStaysBytes, PTL

\* A step only adds bytes, and a framed read that had decided decides the same.
Stands ==
  Framed.status \notin Undecided /\ Len(buffer') > Len(buffer)
    => Parse(buffer', FALSE) = Framed

\* No byte that arrives later changes what parse_prefix has decided or how
\* much it consumed.
THEOREM FramedDecisionsStand == Spec => DecisionsStand
<1>1. BufferIsBytes /\ [Next]_buffer => [Stands]_buffer
  <2> SUFFICES ASSUME BufferIsBytes, NEW byte \in Incoming, Arrive(byte),
                      Framed.status \notin Undecided
               PROVE  Parse(buffer', FALSE) = Framed
    BY DEF Next, Stands
  <2>1. buffer' = buffer \o <<byte>> /\ <<byte>> \in Seq(Byte) /\ buffer \in Seq(Byte)
    BY IncomingAssumption DEF Arrive, BufferIsBytes
  <2>2. Parse(buffer, FALSE).status \notin Undecided
    BY DEF Framed
  <2>3. Parse(buffer \o <<byte>>, FALSE) = Parse(buffer, FALSE)
    BY <2>1, <2>2, DecisionIsFinal
  <2> QED
    BY <2>1, <2>3 DEF Framed
<1> QED
  BY <1>1, BufferStaysBytes, PTL DEF Spec, DecisionsStand, Stands
=============================================================================
