---------------------------- MODULE ConfigProofs ----------------------------
(***************************************************************************)
(* Proofs about Config: whatever text its lines have, the numbers of a     *)
(* configuration are in the ranges of their types and its size_specs are   *)
(* of the kind that get_sizes expects, and then the widths that get_sizes  *)
(* gives are those that the comment on size_spec describes; a file that is *)
(* accepted means what the example file says of its lines, and one that    *)
(* is refused gives a reason.                                              *)
(***************************************************************************)
EXTENDS Config, SequenceTheorems, FiniteSetTheorems, WellFoundedInduction, TLAPS

-----------------------------------------------------------------------------
(* Numbers.                                                                 *)

\* A set of numbers has a least one.
LEMMA Smallest ==
  ASSUME NEW T \in SUBSET Nat, T # {}
  PROVE  \E n \in T : \A m \in T : n <= m
<1> DEFINE R == OpToRel(<, Nat)
<1>1. IsWellFoundedOn(R, Nat)
  BY NatLessThanWellFounded
<1>2. \A n, m \in Nat : <<m, n>> \in R <=> m < n
  BY DEF OpToRel
<1> HIDE DEF R
<1>3. \E n \in T : \A m \in T : <<m, n>> \notin R
  BY <1>1, WFMin
<1>4. PICK n \in T : \A m \in T : <<m, n>> \notin R
  BY <1>3
<1>5. ASSUME NEW m \in T PROVE n <= m
  <2>1. m \in Nat /\ n \in Nat /\ ~(m < n)
    BY <1>2, <1>4
  <2> QED
    BY <2>1
<1> QED
  BY <1>5

\* What holds of 0 and of every successor up to m holds up to m.
LEMMA UpTo ==
  ASSUME NEW m \in Nat, NEW G, 0 \in G, \A n \in 1..m : n - 1 \in G => n \in G
  PROVE  0..m \subseteq G
<1> DEFINE T == 0..m \ G
<1> SUFFICES ASSUME T # {} PROVE FALSE
  OBVIOUS
<1>1. T \in SUBSET Nat
  OBVIOUS
<1>2. PICK n \in T : \A i \in T : n <= i
  <2> HIDE DEF T
  <2> QED
    BY <1>1, Smallest
<1>3. n \in 1..m /\ n - 1 \in 0..m /\ n - 1 \notin T
  BY <1>2
<1> QED
  BY <1>3

\* A sequence of steps, from a, each of which is given by g.
Steps(m, S, a, g) ==
  CHOOSE f \in [0..m -> S] : f[0] = a /\ \A n \in 1..m : f[n] = g[n][f[n - 1]]

\* It exists.
LEMMA Recursion ==
  ASSUME NEW m \in Nat, NEW S, NEW a \in S, NEW g \in [1..m -> [S -> S]]
  PROVE  LET f == Steps(m, S, a, g)
         IN /\ f \in [0..m -> S] /\ f[0] = a
            /\ \A n \in 1..m : f[n] = g[n][f[n - 1]]
<1> DEFINE Good(f, j) == f[0] = a /\ \A n \in 1..j : f[n] = g[n][f[n - 1]]
<1> DEFINE G == {j \in 0..m : \E f \in [0..j -> S] : Good(f, j)}
<1>1. 0 \in G
  <2> DEFINE h == [n \in 0..0 |-> a]
  <2>1. h \in [0..0 -> S] /\ Good(h, 0)
    OBVIOUS
  <2> HIDE DEF h
  <2> QED
    BY <2>1
<1>2. ASSUME NEW j \in 1..m, j - 1 \in G PROVE j \in G
  <2>1. PICK f \in [0..j - 1 -> S] : Good(f, j - 1)
    BY <1>2
  <2> DEFINE h == [n \in 0..j |-> IF n = j THEN g[j][f[j - 1]] ELSE f[n]]
  <2>2. g[j][f[j - 1]] \in S
    <3>1. j - 1 \in 0..j - 1
      OBVIOUS
    <3>2. f[j - 1] \in S /\ g[j] \in [S -> S]
      BY <3>1
    <3> QED
      BY <3>2
  <2>3. /\ \A n \in 0..j - 1 : n \in 0..j /\ n # j /\ f[n] \in S
        /\ \A n \in 0..j : n = j \/ n \in 0..j - 1
        /\ \A n \in 1..j : n - 1 \in 0..j - 1 /\ (n = j \/ n \in 1..j - 1)
        /\ 0 \in 0..j - 1 /\ j \in 0..j
    OBVIOUS
  <2>4. h \in [0..j -> S]
    BY <2>2, <2>3
  <2>5. /\ \A n \in 0..j - 1 : h[n] = f[n]
        /\ h[j] = g[j][f[j - 1]]
    BY <2>3
  <2> HIDE DEF h
  <2>6. Good(h, j)
    BY <2>1, <2>3, <2>5
  <2>7. j \in 0..m
    OBVIOUS
  <2> HIDE DEF Good
  <2> QED
    BY <2>4, <2>6, <2>7
<1>3. m \in G
  <2> HIDE DEF G
  <2>1. \A j \in 1..m : j - 1 \in G => j \in G
    BY <1>2
  <2>2. 0..m \subseteq G
    BY <1>1, <2>1, UpTo
  <2> QED
    BY <2>2
<1>4. \E f \in [0..m -> S] : Good(f, m)
  BY <1>3 DEF G
<1> QED
  BY <1>4 DEF Steps

-----------------------------------------------------------------------------
(* Texts.                                                                   *)

\* The digits.
DigitSet == DOMAIN DigitValue

\* The ten digits and their values.
LEMMA TheDigits ==
  /\ DigitSet = {"0", "1", "2", "3", "4", "5", "6", "7", "8", "9"}
  /\ \A i \in 0..9 : DigitChars[i + 1] \in DigitSet /\ DigitValue[DigitChars[i + 1]] = i
<1>1. DigitSet = {"0", "1", "2", "3", "4", "5", "6", "7", "8", "9"}
  BY DEF DigitSet, DigitValue, Range, DigitChars
<1>2. \A i, j \in 1..10 : DigitChars[i] = DigitChars[j] => i = j
  BY DEF DigitChars
<1>3. ASSUME NEW i \in 0..9
      PROVE  DigitChars[i + 1] \in DigitSet /\ DigitValue[DigitChars[i + 1]] = i
  <2>1. i + 1 \in 1..10 /\ DOMAIN DigitChars = 1..10
    BY DEF DigitChars
  <2>2. DigitChars[i + 1] \in Range(DigitChars) /\ DigitSet = Range(DigitChars)
    BY <2>1 DEF Range, DigitSet, DigitValue
  <2> DEFINE c == DigitChars[i + 1]
  <2> DEFINE e == CHOOSE j \in 1..10 : DigitChars[j] = c
  <2>3. e = i + 1
    BY <1>2, <2>1
  <2>4. DigitValue[c] = e - 1
    <3> HIDE DEF c
    <3>1. c \in Range(DigitChars)
      BY <2>2 DEF c
    <3> QED
      BY <3>1 DEF DigitValue
  <2>5. c \in DigitSet
    BY <2>2
  <2> HIDE DEF e, c
  <2>6. DigitValue[c] = i
    BY <2>3, <2>4
  <2> QED
    BY <2>5, <2>6 DEF c
<1> QED
  BY <1>1, <1>3

\* A digit has a value.
LEMMA DigitIsInt ==
  ASSUME NEW c \in DigitSet
  PROVE  DigitValue[c] \in Int
<1>1. \E i \in 1..10 : DigitChars[i] = c
  BY DEF Range, DigitChars, DigitSet, DigitValue
<1> QED
  BY <1>1 DEF DigitSet, DigitValue

\* The digits of a text are digits.
LEMMA DigitsAreDigits ==
  ASSUME NEW s \in Seq(STRING)
  PROVE  Digits(s) \in Seq(DigitSet)
<1> DEFINE t == Append(s, "end")
<1> DEFINE I == {i \in 1..Len(t) : t[i] \notin DOMAIN DigitValue}
<1> DEFINE p == IF I # {} THEN Min(I) ELSE 0
<1>1. Digits(s) = SubSeq(s, 1, p - 1)
  BY DEF Digits, SelectInSeq
<1>2. Len(s) \in Nat /\ Len(t) = Len(s) + 1 /\ \A i \in 1..Len(s) : t[i] = s[i] /\ s[i] \in STRING
  BY AppendProperties, LenProperties, ElementOfSeq
<1> HIDE DEF t
<1>3. p \in 0..Len(s) + 1 /\ \A i \in 1..p - 1 : t[i] \in DOMAIN DigitValue
  <2>1. CASE I = {}
    BY <1>2, <2>1
  <2>2. CASE I # {}
    <3>1. I \in SUBSET Nat
      OBVIOUS
    <3>2. \E n \in I : \A i \in I : n <= i
      <4> HIDE DEF I
      <4> QED
        BY <2>2, <3>1, Smallest
    <3>3. p \in I /\ \A i \in I : p <= i
      BY <2>2, <3>2 DEF Min
    <3>4. p \in 1..Len(s) + 1
      BY <1>2, <3>3
    <3> HIDE DEF p
    <3>5. ASSUME NEW i \in 1..p - 1 PROVE i \notin I /\ i \in 1..Len(t)
      BY <1>2, <3>3, <3>4
    <3> QED
      BY <3>4, <3>5
  <2> QED
    BY <2>1, <2>2
<1> HIDE DEF p
<1>4. p - 1 \in Int /\ \A i \in 1..p - 1 : s[i] \in DigitSet
  BY <1>2, <1>3 DEF DigitSet
<1> QED
  BY <1>1, <1>4, SubSeqProperties

\* The equation of the recursive function in Number.
LEMMA NumberUnfolds ==
  ASSUME NEW d \in Seq(DigitSet)
  PROVE  \E value : /\ value[0] = 0 /\ Number(d) = value[Len(d)]
                    /\ \A j \in 1..Len(d) : value[j] = 10 * value[j - 1] + DigitValue[d[j]]
<1> DEFINE m == Len(d)
<1> DEFINE Value(v) == v = [j \in 0..m |-> IF j = 0 THEN 0 ELSE 10 * v[j - 1] + DigitValue[d[j]]]
<1> DEFINE value == CHOOSE v : Value(v)
<1>1. m \in Nat
  BY LenProperties
<1>2. \A c \in DOMAIN DigitValue : DigitValue[c] \in Int
  BY DigitIsInt DEF DigitSet
<1>3. \E v : Value(v)
  <2> DEFINE g == [j \in 1..m |-> [i \in Int |-> 10 * i + DigitValue[d[j]]]]
  <2>1. g \in [1..m -> [Int -> Int]]
    BY <1>2, ElementOfSeq DEF DigitSet
  <2>2. \A j \in 1..m, i \in Int : g[j][i] = 10 * i + DigitValue[d[j]]
    OBVIOUS
  <2> HIDE DEF g, m
  <2> DEFINE S == Int
  <2> DEFINE zero == 0
  <2> DEFINE f == Steps(m, S, zero, g)
  <2>3. f \in [0..m -> Int] /\ f[0] = 0 /\ \A j \in 1..m : f[j] = g[j][f[j - 1]]
    <3>1. m \in Nat /\ zero \in S /\ g \in [1..m -> [S -> S]]
      BY <1>1, <2>1
    <3>2. f \in [0..m -> S] /\ f[0] = zero /\ \A j \in 1..m : f[j] = g[j][f[j - 1]]
      <4> HIDE DEF S, zero
      <4> QED
        BY <3>1, Recursion
    <3> HIDE DEF f
    <3> QED
      BY <3>2
  <2> HIDE DEF f
  <2>4. ASSUME NEW j \in 1..m PROVE f[j] = 10 * f[j - 1] + DigitValue[d[j]]
    <3>1. j - 1 \in 0..m
      BY <1>1
    <3> QED
      BY <2>2, <2>3, <3>1
  <2>5. f = [j \in 0..m |-> IF j = 0 THEN 0 ELSE 10 * f[j - 1] + DigitValue[d[j]]]
    <3>1. \A j \in 0..m : j = 0 \/ j \in 1..m
      BY <1>1
    <3> QED
      BY <2>3, <2>4, <3>1
  <2> QED
    BY <2>5
<1>4. Value(value)
  BY <1>3
<1>5. Number(d) = value[m]
  BY DEF Number
<1> HIDE DEF value, m
<1>6. value[0] = 0 /\ \A j \in 1..m : value[j] = 10 * value[j - 1] + DigitValue[d[j]]
  <2>1. 0 \in 0..m /\ \A j \in 1..m : j \in 0..m /\ j # 0
    BY <1>1
  <2> QED
    BY <1>4, <2>1
<1> QED
  BY <1>5, <1>6 DEF m

\* They are a number.
LEMMA NumberIsNumber ==
  ASSUME NEW d \in Seq(DigitSet)
  PROVE  Number(d) \in Int
<1>1. PICK value : /\ value[0] = 0 /\ Number(d) = value[Len(d)]
                   /\ \A j \in 1..Len(d) : value[j] = 10 * value[j - 1] + DigitValue[d[j]]
  BY NumberUnfolds
<1>2. Len(d) \in Nat /\ \A j \in 1..Len(d) : d[j] \in DigitSet
  BY LenProperties, ElementOfSeq
<1> DEFINE G == {j \in 0..Len(d) : value[j] \in Int}
<1>3. \A j \in 1..Len(d) : j - 1 \in G => j \in G
  <2>1. \A j \in 1..Len(d) : DigitValue[d[j]] \in Int
    BY <1>2, DigitIsInt
  <2> QED
    BY <1>1, <1>2, <2>1
<1>4. 0 \in G
  BY <1>1, <1>2
<1> HIDE DEF G
<1>5. Len(d) \in G
  <2>1. 0..Len(d) \subseteq G
    BY <1>2, <1>3, <1>4, UpTo
  <2> QED
    BY <1>2, <2>1
<1> QED
  BY <1>1, <1>5 DEF G

\* What an integer is parsed to is one.
LEMMA IntegerParsed ==
  ASSUME NEW s, NEW n \in StringViewToInt(s)
  PROVE  n \in Int
BY TextAssumption DEF StringViewToInt, IntMax, UnsignedRange, Factor

\* The ranges, as numbers.
LEMMA Ranges ==
  /\ UnsignedRange \in Nat \ {0} /\ IntMax \in Nat \ {0} /\ IntMax < UnsignedRange
  /\ LongRange \in Nat \ {0} /\ UnsignedRange <= LongRange
<1>1. \A x, y \in Nat \ {0} : x * y \in Nat \ {0} /\ y <= x * y
  <2> SUFFICES ASSUME NEW x \in Nat \ {0}, NEW y \in Nat \ {0}
               PROVE  x * y \in Nat \ {0} /\ y <= x * y
    OBVIOUS
  <2>1. x * y = (x - 1) * y + y /\ (x - 1) * y \in Nat
    <3>1. \A a, b \in Nat : a * b \in Nat
      OBVIOUS
    <3>2. x - 1 \in Nat
      OBVIOUS
    <3> QED
      BY <3>1, <3>2
  <2> QED
    BY <2>1
<1>2. Factor["G"] \in Nat \ {0} /\ UnsignedRange = 4 * Factor["G"]
  <2>1. Kilo * Kilo * Kilo \in Nat \ {0}
    BY <1>1, TextAssumption
  <2> QED
    BY <2>1 DEF Factor, UnsignedRange
<1>3. UnsignedRange \in Nat \ {0} /\ UnsignedRange >= 4
  BY <1>2
<1>4. IntMax \in Nat \ {0} /\ IntMax < UnsignedRange
  BY <1>3 DEF IntMax
<1>5. LongRange \in Nat \ {0} /\ UnsignedRange <= LongRange
  BY <1>1, <1>3 DEF LongRange
<1> QED
  BY <1>3, <1>4, <1>5

-----------------------------------------------------------------------------
(* Numerals.                                                                *)

\* A further digit.
LEMMA NumberGrows ==
  ASSUME NEW d \in Seq(DigitSet), NEW c \in DigitSet
  PROVE  Number(Append(d, c)) = 10 * Number(d) + DigitValue[c]
<1> DEFINE e == Append(d, c)
<1> DEFINE m == Len(d)
<1>1. e \in Seq(DigitSet) /\ Len(e) = m + 1 /\ e[m + 1] = c /\ \A j \in 1..m : e[j] = d[j]
  BY AppendProperties
<1>2. m \in Nat
  BY LenProperties
<1> HIDE DEF e
<1>3. PICK u : /\ u[0] = 0 /\ Number(d) = u[m]
               /\ \A j \in 1..m : u[j] = 10 * u[j - 1] + DigitValue[d[j]]
  BY NumberUnfolds
<1>4. PICK v : /\ v[0] = 0 /\ Number(e) = v[Len(e)]
               /\ \A j \in 1..Len(e) : v[j] = 10 * v[j - 1] + DigitValue[e[j]]
  BY <1>1, NumberUnfolds
<1> HIDE DEF m
<1> DEFINE G == {j \in 0..m : v[j] = u[j]}
<1>5. 0 \in G
  BY <1>2, <1>3, <1>4
<1>6. ASSUME NEW j \in 1..m, j - 1 \in G PROVE j \in G
  <2>1. j \in 1..Len(e) /\ j \in 0..m
    BY <1>1, <1>2
  <2>2. v[j] = 10 * v[j - 1] + DigitValue[d[j]]
    BY <1>1, <1>4, <2>1
  <2> QED
    BY <1>3, <1>6, <2>1, <2>2
<1>7. m \in G
  <2>1. \A j \in 1..m : j - 1 \in G => j \in G
    BY <1>6
  <2> HIDE DEF G
  <2>2. 0..m \subseteq G
    BY <1>2, <1>5, <2>1, UpTo
  <2> QED
    BY <1>2, <2>2
<1>8. m + 1 \in 1..Len(e) /\ (m + 1) - 1 = m
  BY <1>1, <1>2
<1>9. v[m + 1] = 10 * v[m] + DigitValue[c]
  BY <1>1, <1>4, <1>8
<1> QED
  BY <1>1, <1>3, <1>4, <1>7, <1>9 DEF e

\* One digit.
LEMMA NumberOfOne ==
  ASSUME NEW c \in DigitSet
  PROVE  <<c>> \in Seq(DigitSet) /\ Len(<<c>>) = 1 /\ Number(<<c>>) = DigitValue[c]
<1>1. <<>> \in Seq(DigitSet) /\ Len(<<>>) = 0
  BY EmptySeq
<1>2. Append(<<>>, c) = <<c>>
  OBVIOUS
<1>3. Number(<<>>) = 0
  BY <1>1, NumberUnfolds
<1>4. DigitValue[c] \in Int
  BY DigitIsInt
<1>5. Number(<<c>>) = 10 * Number(<<>>) + DigitValue[c]
  BY <1>1, <1>2, NumberGrows
<1>6. <<c>> \in Seq(DigitSet) /\ Len(<<c>>) = 1
  OBVIOUS
<1> QED
  BY <1>3, <1>4, <1>5, <1>6

\* A number and its last digit.
LEMMA LastDigit ==
  ASSUME NEW n \in Nat
  PROVE  \E q \in Nat, r \in 0..9 : q = n \div 10 /\ r = n % 10 /\ n = 10 * q + r
<1> DEFINE q == n \div 10
<1> DEFINE r == n % 10
<1>1. r \in 0..9
  OBVIOUS
<1>2. q \in Nat
  OBVIOUS
<1>3. n - 10 * q = r
  OBVIOUS
<1>4. q = n \div 10 /\ r = n % 10
  OBVIOUS
<1> HIDE DEF q, r
<1>5. n = 10 * q + r
  BY <1>1, <1>2, <1>3
<1> QED
  BY <1>1, <1>2, <1>4, <1>5

\* The equation of the recursive function in Text, up to n.
LEMMA TextUnfolds ==
  ASSUME NEW n \in Nat
  PROVE  \E text : /\ Text(n) = text[n]
                   /\ \A m \in 0..n :
                        text[m] = IF m < 10 THEN <<DigitChars[m + 1]>>
                                  ELSE Append(text[m \div 10], DigitChars[(m % 10) + 1])
<1> DEFINE Next10(t, m) == IF m < 10 THEN <<DigitChars[m + 1]>>
                           ELSE Append(t[m \div 10], DigitChars[(m % 10) + 1])
<1> DEFINE Value(t) == t = [m \in 0..n |-> Next10(t, m)]
<1> DEFINE text == CHOOSE t : Value(t)
<1> DEFINE Good(t, j) == \A m \in 0..j : t[m] = Next10(t, m)
<1> DEFINE G == {j \in 0..n : \E t : t = [m \in 0..j |-> t[m]] /\ Good(t, j)}
<1>1. \A m \in Nat : m >= 10 => m \div 10 \in 0..m - 1
  OBVIOUS
<1>2. 0 \in G
  <2> DEFINE t == [m \in 0..0 |-> <<DigitChars[1]>>]
  <2>1. t = [m \in 0..0 |-> t[m]] /\ t[0] = <<DigitChars[1]>>
    OBVIOUS
  <2> HIDE DEF t
  <2>2. Good(t, 0)
    BY <2>1
  <2> HIDE DEF Good
  <2> QED
    BY <2>1, <2>2
<1>3. ASSUME NEW j \in 1..n, j - 1 \in G PROVE j \in G
  <2>1. PICK t : t = [m \in 0..j - 1 |-> t[m]] /\ Good(t, j - 1)
    BY <1>3
  <2> DEFINE u == [m \in 0..j |-> IF m = j THEN Next10(t, j) ELSE t[m]]
  <2>2. /\ \A m \in 0..j - 1 : m \in 0..j /\ m # j /\ u[m] = t[m]
        /\ \A m \in 0..j : m = j \/ m \in 0..j - 1
        /\ u[j] = Next10(t, j) /\ u = [m \in 0..j |-> u[m]]
    <3> HIDE DEF Next10
    <3> QED
      OBVIOUS
  <2> HIDE DEF u
  <2>3. ASSUME NEW m \in 0..j PROVE Next10(u, m) = Next10(t, m)
    <3>1. CASE m < 10
      BY <3>1
    <3>2. CASE ~(m < 10)
      <4>1. m \div 10 \in 0..j - 1
        BY <1>1, <3>2
      <4>2. u[m \div 10] = t[m \div 10]
        BY <2>2, <4>1
      <4> QED
        BY <3>2, <4>2
    <3> QED
      BY <3>1, <3>2
  <2>4. Good(u, j)
    <3> HIDE DEF Next10
    <3> QED
      BY <2>1, <2>2, <2>3
  <2> HIDE DEF Good
  <2> QED
    BY <2>2, <2>4
<1>4. n \in G
  <2>1. \A j \in 1..n : j - 1 \in G => j \in G
    BY <1>3
  <2> HIDE DEF G
  <2>2. 0..n \subseteq G
    BY <1>2, <2>1, UpTo
  <2> QED
    BY <2>2
<1>5. \E t : Value(t)
  <2> HIDE DEF Next10
  <2>1. PICK t : t = [m \in 0..n |-> t[m]] /\ Good(t, n)
    BY <1>4
  <2>2. Value(t)
    BY <2>1
  <2> HIDE DEF Value
  <2> QED
    BY <2>2
<1>6. Value(text)
  <2> HIDE DEF Value
  <2> QED
    BY <1>5
<1>7. Text(n) = text[n]
  BY DEF Text
<1> HIDE DEF text
<1>8. \A m \in 0..n : text[m] = Next10(text, m)
  <2> HIDE DEF Next10
  <2> QED
    BY <1>6
<1> QED
  BY <1>7, <1>8

\* The numeral of n has digits only, and the number that it is read as is n.
LEMMA Numerals ==
  ASSUME NEW n \in Nat
  PROVE  Text(n) \in Seq(DigitSet) /\ Text(n) # <<>> /\ Number(Text(n)) = n
<1>1. PICK text : /\ Text(n) = text[n]
                  /\ \A m \in 0..n :
                       text[m] = IF m < 10 THEN <<DigitChars[m + 1]>>
                                 ELSE Append(text[m \div 10], DigitChars[(m % 10) + 1])
  BY TextUnfolds
<1> DEFINE Good(m) == text[m] \in Seq(DigitSet) /\ text[m] # <<>> /\ Number(text[m]) = m
<1> DEFINE G == {j \in 0..n : \A m \in 0..j : Good(m)}
<1>2. ASSUME NEW m \in 0..n, m < 10 PROVE Good(m)
  <2> DEFINE c == DigitChars[m + 1]
  <2>1. text[m] = <<c>>
    BY <1>1, <1>2
  <2>2. c \in DigitSet /\ DigitValue[c] = m
    BY <1>2, TheDigits
  <2> HIDE DEF c
  <2>3. <<c>> \in Seq(DigitSet) /\ <<c>> # <<>> /\ Number(<<c>>) = m
    BY <2>2, NumberOfOne
  <2> QED
    BY <2>1, <2>3
<1>3. ASSUME NEW m \in 0..n, m >= 10, Good(m \div 10) PROVE Good(m)
  <2> DEFINE c == DigitChars[(m % 10) + 1]
  <2> DEFINE t == text[m \div 10]
  <2>1. text[m] = Append(t, c)
    <3>1. ~(m < 10)
      BY <1>3
    <3> QED
      BY <1>1, <3>1
  <2>2. PICK q \in Nat, r \in 0..9 : q = m \div 10 /\ r = m % 10 /\ m = 10 * q + r
    <3>1. m \in Nat
      OBVIOUS
    <3> QED
      BY <3>1, LastDigit
  <2>3. c \in DigitSet /\ DigitValue[c] = r
    BY <2>2, TheDigits
  <2>4. t \in Seq(DigitSet) /\ Number(t) = q
    BY <1>3, <2>2
  <2> HIDE DEF c, t
  <2>5. Number(Append(t, c)) = m
    BY <2>2, <2>3, <2>4, NumberGrows
  <2>6. Append(t, c) \in Seq(DigitSet) /\ Append(t, c) # <<>>
    BY <2>3, <2>4, AppendProperties
  <2> QED
    BY <2>1, <2>5, <2>6
<1>4. 0 \in G
  <2>1. Good(0)
    BY <1>2
  <2> HIDE DEF Good
  <2> QED
    BY <2>1
<1>5. ASSUME NEW j \in 1..n, j - 1 \in G PROVE j \in G
  <2>1. \A m \in 0..j - 1 : Good(m)
    BY <1>5
  <2>2. Good(j)
    <3>1. j >= 10 => j \div 10 \in 0..j - 1
      OBVIOUS
    <3> HIDE DEF Good
    <3> QED
      BY <1>2, <1>3, <2>1, <3>1
  <2> HIDE DEF Good
  <2>3. \A m \in 0..j : m = j \/ m \in 0..j - 1
    OBVIOUS
  <2> QED
    BY <2>1, <2>2, <2>3
<1>6. n \in G
  <2>1. \A j \in 1..n : j - 1 \in G => j \in G
    BY <1>5
  <2> HIDE DEF G
  <2>2. 0..n \subseteq G
    BY <1>4, <2>1, UpTo
  <2> QED
    BY <2>2
<1>7. Good(n)
  <2> HIDE DEF Good
  <2> QED
    BY <1>6
<1> QED
  BY <1>1, <1>7

-----------------------------------------------------------------------------
(* What the parser accepts.                                                 *)

\* A specification that it accepts: a percentage has one from 1 to 99.
GoodSpec ==
  {s \in [fixed_value : Nat, decrement : Nat, decrement_is_pct : BOOLEAN] :
     s.decrement_is_pct => s.decrement \in 1..99}

\* It gives nothing else, whatever the text.
LEMMA SpecParsed ==
  ASSUME NEW s
  PROVE  Parse(s) \subseteq GoodSpec
<1>1. \A t : \A n \in StringViewToInt(t) : Long(n) \in Nat
  <2>1. \A n \in Int : Long(n) \in Nat
    BY Ranges DEF Long
  <2> QED
    BY <2>1, IntegerParsed
<1>2. ASSUME NEW t PROVE FixedSpec(t) \subseteq GoodSpec
  <2> SUFFICES ASSUME NEW n \in StringViewToInt(t) PROVE SizeSpec(Long(n), 0, FALSE) \in GoodSpec
    BY DEF FixedSpec
  <2> QED
    BY <1>1 DEF SizeSpec, GoodSpec
<1>3. ASSUME NEW t, NEW u PROVE PercentSpec(t, u) \subseteq GoodSpec
  <2> DEFINE I == StringViewToInt(t)
  <2> DEFINE D == {Long(e) : e \in StringViewToInt(u)} \cap 1..99
  <2> DEFINE Result(n, d) == SizeSpec(Long(n), d, TRUE)
  <2>1. PercentSpec(t, u) = {Result(n, d) : n \in I, d \in D}
    BY DEF PercentSpec
  <2>2. \A d \in D : d \in 1..99
    BY <1>1
  <2>3. \A n \in I, d \in D : Result(n, d) \in GoodSpec
    <3> HIDE DEF D
    <3> QED
      BY <1>1, <2>2 DEF SizeSpec, GoodSpec
  <2> HIDE DEF I, D, Result
  <2> QED
    BY <2>1, <2>3
<1>4. ASSUME NEW t, NEW u PROVE PixelSpec(t, u) \subseteq GoodSpec
  <2> DEFINE I == StringViewToInt(t)
  <2> DEFINE D == {Long(e) : e \in StringViewToInt(u)} \ {0}
  <2> DEFINE Result(n, d) == SizeSpec(Long(n), d, FALSE)
  <2>1. PixelSpec(t, u) = {Result(n, d) : n \in I, d \in D}
    BY DEF PixelSpec
  <2>2. \A d \in D : d \in Nat
    BY <1>1
  <2>3. \A n \in I, d \in D : Result(n, d) \in GoodSpec
    <3> HIDE DEF D
    <3> QED
      BY <1>1, <2>2 DEF SizeSpec, GoodSpec
  <2> HIDE DEF I, D, Result
  <2> QED
    BY <2>1, <2>3
<1> DEFINE colon == SelectInSeq(s, LAMBDA c : c = ":")
<1> DEFINE limit == SubSeq(s, 1, colon - 1)
<1> DEFINE rest == SubSeq(s, colon + 1, Len(s))
<1> DEFINE unit == IF rest = <<>> THEN ":" ELSE Last(rest)
<1>5. Parse(s) = CASE colon = 0 -> FixedSpec(s)
                   [] colon # 0 /\ unit = "%" -> PercentSpec(limit, Front(rest))
                   [] colon # 0 /\ unit \in {"x", "q"} ->
                        PixelSpec(limit, SubSeq(rest, 1, Len(rest) - 2))
                   [] OTHER -> {}
  BY DEF Parse
<1> HIDE DEF colon, limit, rest, unit
<1> QED
  BY <1>2, <1>3, <1>4, <1>5

\* The pieces of a text are a sequence.
LEMMA PiecesOfText ==
  ASSUME NEW s \in Seq(STRING)
  PROVE  \E n \in Nat : DOMAIN Split(s) = 1..n
<1> DEFINE ends == Commas(s) \cup (IF s # <<>> /\ Last(s) # "," THEN {Len(s) + 1} ELSE {})
<1>1. Len(s) \in Nat /\ DOMAIN s = 1..Len(s)
  BY LenProperties
<1>2. ends \subseteq 1..Len(s) + 1
  <2>1. Commas(s) \subseteq 1..Len(s) + 1
    <3>1. \A i \in 1..Len(s) : i \in 1..Len(s) + 1
      BY <1>1
    <3> QED
      BY <1>1, <3>1 DEF Commas
  <2>2. Len(s) + 1 \in 1..Len(s) + 1
    BY <1>1
  <2> QED
    BY <2>1, <2>2
<1>3. DOMAIN Split(s) = 1..Cardinality(ends)
  BY DEF Split, Pieces
<1> HIDE DEF ends
<1>4. Cardinality(ends) \in Nat
  <2>1. IsFiniteSet(1..Len(s) + 1)
    BY <1>1, FS_Interval
  <2>2. IsFiniteSet(ends)
    BY <1>2, <2>1, FS_Subset
  <2> QED
    BY <2>2, FS_CardinalityType
<1> QED
  BY <1>3, <1>4

\* The sizes of a configuration are such specifications.
LEMMA SpecsParsed ==
  ASSUME NEW s \in Seq(STRING), NEW x \in ParseSpecs(s)
  PROVE  x \in Seq(GoodSpec)
<1> DEFINE parsed == [j \in DOMAIN Split(s) |-> Parse(Split(s)[j])]
<1>1. {} \notin Range(parsed) /\ x = [j \in DOMAIN parsed |-> CHOOSE spec \in parsed[j] : TRUE]
  BY DEF ParseSpecs
<1>2. \A j \in DOMAIN parsed : parsed[j] # {} /\ parsed[j] \subseteq GoodSpec
  BY <1>1, SpecParsed DEF Range
<1>3. PICK n \in Nat : DOMAIN parsed = 1..n
  BY PiecesOfText
<1> HIDE DEF parsed
<1>4. x \in [1..n -> GoodSpec]
  BY <1>1, <1>2, <1>3
<1> QED
  BY <1>3, <1>4, IsASeq

\* A size in bytes is in range.
LEMMA BytesParsed ==
  ASSUME NEW s \in Seq(STRING), NEW n \in ParseBytes(s)
  PROVE  n \in 0..UnsignedRange - 1
<1>1. \A m \in Int : Unsigned(m) \in 0..UnsignedRange - 1
  BY Ranges DEF Unsigned
<1> DEFINE d == Digits(s)
<1> DEFINE u == Unsigned(Number(d))
<1>2. Last(s) \in DOMAIN Factor /\ n = Unsigned(u * Factor[Last(s)])
  BY DEF ParseBytes
<1>3. Number(d) \in Int
  BY DigitsAreDigits, NumberIsNumber
<1>4. Factor[Last(s)] \in Nat
  BY <1>2, TextAssumption DEF Factor
<1>5. u \in Nat
  BY <1>1, <1>3, Ranges
<1> HIDE DEF u
<1>6. u * Factor[Last(s)] \in Nat
  BY <1>4, <1>5
<1> QED
  BY <1>1, <1>2, <1>6

-----------------------------------------------------------------------------
(* Documented texts.                                                        *)

\* The characters of the documented texts but the comma, and what Digits appends.
Chars == DigitSet \cup {":", "%", "p", "x"} \cup DOMAIN Factor \cup {"end"}

\* Those that are no digits.
LEMMA NoDigits ==
  /\ DOMAIN Factor = {"B", "k", "K", "M", "G"}
  /\ \A c \in Chars \ DigitSet : c \in {":", "%", "p", "x", "B", "k", "K", "M", "G", "end"}
  /\ \A c \in {":", "%", "p", "x", "B", "k", "K", "M", "G", "end", "-"} : c \notin DigitSet
  /\ {":", "%", "p", "x", "end"} \subseteq Chars /\ "," \notin Chars
  /\ DOMAIN Factor \subseteq Chars /\ DigitSet \subseteq Chars
<1>1. DOMAIN Factor = {"B", "k", "K", "M", "G"}
  BY DEF Factor
<1>2. \A c \in {":", "%", "p", "x", "B", "k", "K", "M", "G", "end", "-"} : c \notin DigitSet
  BY TheDigits
<1> QED
  BY <1>1, <1>2, TheDigits DEF Chars

\* The least element of a set.
LEMMA LeastIsMin ==
  ASSUME NEW I \in SUBSET Int, NEW p \in I, \A i \in I : p <= i
  PROVE  Min(I) = p
<1>1. \A n \in I : (\A i \in I : n <= i) => n = p
  OBVIOUS
<1> QED
  BY <1>1 DEF Min

\* A text between its first character of a kind and its end.
LEMMA Prefix ==
  ASSUME NEW S, NEW d \in Seq(S), NEW t \in Seq(S)
  PROVE  SubSeq(d \o t, 1, Len(d)) = d
<1>1. Len(d) \in Nat
  BY LenProperties
<1>2. CASE Len(d) = 0
  <2>1. d = <<>>
    BY <1>2, EmptySeq
  <2>2. SubSeq(d \o t, 1, Len(d)) = <<>>
    BY <1>2, SubSeqEmpty
  <2> QED
    BY <2>1, <2>2
<1>3. CASE Len(d) > 0
  <2>1. 1 \in 1..Len(d) /\ Len(d) \in 1..Len(d)
    BY <1>1, <1>3
  <2>2. SubSeq(d \o t, 1, Len(d)) = SubSeq(d, 1, Len(d))
    BY <2>1, SubSeqOfConcat1
  <2> QED
    BY <2>2, SubSeqFull
<1> QED
  BY <1>1, <1>2, <1>3

\* The rest of it.
LEMMA Suffix ==
  ASSUME NEW S, NEW d \in Seq(S), NEW t \in Seq(S)
  PROVE  SubSeq(d \o t, Len(d) + 1, Len(d \o t)) = t
<1>1. Len(d) \in Nat /\ Len(t) \in Nat /\ Len(d \o t) = Len(d) + Len(t)
  BY LenProperties, ConcatProperties
<1>2. CASE Len(t) = 0
  <2>1. t = <<>>
    BY <1>2, EmptySeq
  <2>2. SubSeq(d \o t, Len(d) + 1, Len(d \o t)) = <<>>
    BY <1>1, <1>2, SubSeqEmpty
  <2> QED
    BY <2>1, <2>2
<1>3. CASE Len(t) > 0
  <2> DEFINE m == Len(d) + 1
  <2> DEFINE n == Len(d) + Len(t)
  <2>1. m \in Len(d) + 1..Len(d) + Len(t) /\ n \in Len(d) + 1..Len(d) + Len(t)
        /\ m - Len(d) = 1 /\ n - Len(d) = Len(t)
    BY <1>1, <1>3
  <2> HIDE DEF m, n
  <2>2. SubSeq(d \o t, m, n) = SubSeq(t, m - Len(d), n - Len(d))
    BY <2>1, SubSeqOfConcat2
  <2>3. SubSeq(d \o t, m, n) = SubSeq(t, 1, Len(t))
    BY <2>1, <2>2
  <2> QED
    BY <1>1, <2>3, SubSeqFull DEF m, n
<1> QED
  BY <1>1, <1>2, <1>3

\* The digits that a text begins with.
LEMMA DigitsOf ==
  ASSUME NEW d \in Seq(DigitSet), NEW t \in Seq(Chars), t = <<>> \/ t[1] \notin DigitSet
  PROVE  Digits(d \o t) = d
<1> DEFINE s == d \o t
<1> DEFINE u == Append(s, "end")
<1> DEFINE I == {i \in 1..Len(u) : u[i] \notin DOMAIN DigitValue}
<1> DEFINE p == IF I # {} THEN Min(I) ELSE 0
<1>1. d \in Seq(Chars) /\ "end" \in Chars /\ "end" \notin DigitSet
  BY NoDigits, SeqMonotonic
<1>2. /\ Len(d) \in Nat /\ Len(t) \in Nat /\ s \in Seq(Chars) /\ Len(s) = Len(d) + Len(t)
      /\ \A i \in 1..Len(d) + Len(t) : s[i] = IF i <= Len(d) THEN d[i] ELSE t[i - Len(d)]
  BY <1>1, LenProperties, ConcatProperties
<1>3. Digits(s) = SubSeq(s, 1, p - 1)
  BY DEF Digits, SelectInSeq
<1> HIDE DEF s
<1>4. Len(u) = Len(s) + 1 /\ (\A i \in 1..Len(s) : u[i] = s[i]) /\ u[Len(s) + 1] = "end"
  <2> DEFINE c == "end"
  <2>1. c \in Chars /\ s \in Seq(Chars)
    BY <1>1, <1>2
  <2> HIDE DEF c
  <2>2. /\ Len(Append(s, c)) = Len(s) + 1 /\ Append(s, c)[Len(s) + 1] = c
        /\ \A i \in 1..Len(s) : Append(s, c)[i] = s[i]
    BY <2>1, AppendProperties
  <2> QED
    BY <2>2 DEF c
<1>5. \A i \in 1..Len(d) : d[i] \in DigitSet
  BY ElementOfSeq
<1> HIDE DEF u
<1>6. \A i \in 1..Len(d) : u[i] \in DigitSet
  <2> SUFFICES ASSUME NEW i \in 1..Len(d) PROVE u[i] \in DigitSet
    OBVIOUS
  <2>1. i \in 1..Len(s) /\ i <= Len(d)
    BY <1>2
  <2> QED
    BY <1>2, <1>4, <1>5, <2>1
<1>7. u[Len(d) + 1] \notin DigitSet /\ Len(d) + 1 \in 1..Len(u)
  <2>1. CASE t = <<>>
    <3>1. Len(t) = 0
      BY <2>1, EmptySeq
    <3> QED
      BY <1>1, <1>2, <1>4, <3>1
  <2>2. CASE t # <<>>
    <3>1. Len(t) > 0
      BY <2>2, EmptySeq
    <3>2. Len(d) + 1 \in 1..Len(s) /\ ~(Len(d) + 1 <= Len(d)) /\ (Len(d) + 1) - Len(d) = 1
      BY <1>2, <3>1
    <3>3. u[Len(d) + 1] = t[1]
      BY <1>2, <1>4, <3>2
    <3> QED
      BY <1>2, <1>4, <2>2, <3>2, <3>3
  <2> QED
    BY <2>1, <2>2
<1>8. p = Len(d) + 1
  <2>1. I \in SUBSET Int /\ Len(d) + 1 \in I /\ \A i \in I : Len(d) + 1 <= i
    BY <1>2, <1>6, <1>7 DEF DigitSet
  <2> HIDE DEF I
  <2> QED
    BY <2>1, LeastIsMin
<1> HIDE DEF p
<1>9. Digits(s) = SubSeq(s, 1, Len(d))
  BY <1>2, <1>3, <1>8
<1> QED
  BY <1>1, <1>9, Prefix DEF s

\* A number is as it is written, and is that number in every width.
LEMMA IntegerOf ==
  ASSUME NEW n \in 0..IntMax
  PROVE  /\ StringViewToInt(Text(n)) = {n}
         /\ Unsigned(n) = n /\ Long(n) = n
         /\ n < ShortRange => Short(n) = n
<1>1. n \in Nat
  BY Ranges
<1>2. Text(n) \in Seq(DigitSet) /\ Text(n) # <<>> /\ Number(Text(n)) = n
  BY <1>1, Numerals
<1> DEFINE t == Text(n)
<1>3. Head(t) \in DigitSet
  BY <1>2, HeadTailProperties
<1>4. Head(t) # "-"
  BY <1>3, NoDigits
<1>5. <<>> \in Seq(Chars) /\ t \o <<>> = t
  BY <1>2, EmptySeq, ConcatEmptySeq
<1>6. Digits(t) = t
  BY <1>2, <1>5, DigitsOf
<1> HIDE DEF t
<1>7. n \in (-IntMax - 1)..IntMax
  BY <1>1, Ranges
<1>8. StringViewToInt(t) = {n}
  BY <1>2, <1>4, <1>6, <1>7 DEF StringViewToInt, t
<1>9. \A m \in Nat : n < m => n % m = n
  BY <1>1
<1>10. Unsigned(n) = n /\ Long(n) = n /\ (n < ShortRange => Short(n) = n)
  <2>1. n < UnsignedRange /\ n < LongRange /\ ShortRange \in Nat
    BY <1>1, Ranges, TextAssumption
  <2> QED
    BY <1>9, <2>1, Ranges DEF Unsigned, Long, Short
<1> QED
  BY <1>8, <1>10 DEF t

\* A size in bytes is the number times what the suffix stands for.
LEMMA BytesOf ==
  ASSUME NEW n \in Nat, NEW f \in DOMAIN Factor, n * Factor[f] < UnsignedRange
  PROVE  ParseBytes(Append(Text(n), f)) = {n * Factor[f]}
<1> DEFINE t == Text(n)
<1> DEFINE s == Append(t, f)
<1>1. t \in Seq(DigitSet) /\ t # <<>> /\ Number(t) = n
  BY Numerals
<1>2. f \in Chars /\ f \notin DigitSet /\ t \in Seq(Chars) /\ DigitSet \subseteq Chars
  BY <1>1, NoDigits, SeqMonotonic
<1>3. s = t \o <<f>>
  BY <1>2, AppendIsConcat
<1>4. <<f>> \in Seq(Chars) /\ <<f>>[1] = f
  BY <1>2
<1>5. Digits(s) = t
  BY <1>1, <1>2, <1>3, <1>4, DigitsOf
<1>6. Len(s) = Len(t) + 1 /\ s[Len(t) + 1] = f
  BY <1>2, AppendProperties
<1>7. Last(s) = f
  BY <1>6 DEF Last
<1>8. n * Factor[f] \in Nat /\ n <= n * Factor[f]
  <2>1. Factor[f] \in Nat \ {0}
    <3>1. \A x, y \in Nat \ {0} : x * y \in Nat \ {0}
      OBVIOUS
    <3> DEFINE mega == Kilo * Kilo
    <3> DEFINE giga == Kilo * Kilo * Kilo
    <3>2. mega \in Nat \ {0} /\ giga \in Nat \ {0}
      BY <3>1, TextAssumption
    <3>3. Factor = [B |-> 1, k |-> Kilo, K |-> Kilo, M |-> mega, G |-> giga]
      BY DEF Factor
    <3> HIDE DEF mega, giga
    <3>4. Factor[f] \in {1, Kilo, mega, giga}
      BY <3>3
    <3> QED
      BY <3>2, <3>4, TextAssumption
  <2> DEFINE y == Factor[f] - 1
  <2>2. y \in Nat /\ Factor[f] = y + 1
    BY <2>1
  <2> HIDE DEF y
  <2>3. n * y \in Nat
    <3>1. \A a, b \in Nat : a * b \in Nat
      OBVIOUS
    <3> QED
      BY <2>2, <3>1
  <2>4. n * (y + 1) = n * y + n
    BY <2>2
  <2> QED
    BY <2>2, <2>3, <2>4
<1> HIDE DEF s, t
<1>9. \A m \in Nat : m < UnsignedRange => Unsigned(m) = m
  BY Ranges DEF Unsigned
<1>10. Unsigned(n) = n /\ Unsigned(n * Factor[f]) = n * Factor[f]
  <2> DEFINE product == n * Factor[f]
  <2>1. product \in Nat /\ product < UnsignedRange /\ n <= product
    BY <1>8
  <2> HIDE DEF product
  <2>2. n < UnsignedRange
    BY <2>1, Ranges
  <2>3. Unsigned(n) = n /\ Unsigned(product) = product
    BY <1>9, <2>1, <2>2
  <2> QED
    BY <2>3 DEF product
<1>11. ParseBytes(s) = {Unsigned(Unsigned(Number(t)) * Factor[f])}
  BY <1>5, <1>6, <1>7 DEF ParseBytes
<1>12. ParseBytes(s) = {n * Factor[f]}
  BY <1>1, <1>10, <1>11 DEF t
<1> QED
  BY <1>12 DEF s, t

\* A percentage is an int.
LEMMA PercentagesFit == 99 <= IntMax
<1> DEFINE mega == Kilo * Kilo
<1>1. /\ Kilo \in Nat \ {0} /\ Factor["M"] = mega /\ UnsignedRange = 4 * (mega * Kilo)
      /\ 20 * mega < UnsignedRange
  BY TextAssumption, ConfigAssumption DEF UnsignedRange, Factor
<1>2. mega \in Nat \ {0}
  BY <1>1
<1>3. Kilo >= 6
  <2> SUFFICES ASSUME Kilo \in 1..5 PROVE FALSE
    BY <1>1
  <2> HIDE DEF mega
  <2>1. mega * Kilo <= 5 * mega
    <3>1. Kilo = 1 \/ Kilo = 2 \/ Kilo = 3 \/ Kilo = 4 \/ Kilo = 5
      OBVIOUS
    <3> QED
      BY <1>2, <3>1
  <2>2. mega * Kilo \in Int
    BY <1>1, <1>2
  <2> QED
    BY <1>1, <1>2, <2>1, <2>2
<1>4. mega >= 36
  <2>1. (Kilo - 6) * (Kilo - 6) \in Nat
    <3>1. \A a, b \in Nat : a * b \in Nat
      OBVIOUS
    <3>2. Kilo - 6 \in Nat
      BY <1>1, <1>3
    <3> QED
      BY <3>1, <3>2
  <2>2. (Kilo - 6) * (Kilo - 6) = mega - 12 * Kilo + 36
    BY <1>1
  <2> QED
    BY <1>1, <1>2, <1>3, <2>1, <2>2
<1> HIDE DEF mega
<1>5. UnsignedRange >= 720 /\ UnsignedRange \in Nat
  BY <1>1, <1>2, <1>4, Ranges
<1> QED
  BY <1>5 DEF IntMax

\* One character, and two.
LEMMA ShortTexts ==
  ASSUME NEW c \in Chars, NEW e \in Chars
  PROVE  /\ <<c>> \in Seq(Chars) /\ Len(<<c>>) = 1 /\ <<c>>[1] = c
         /\ <<c, e>> \in Seq(Chars) /\ Len(<<c, e>>) = 2 /\ <<c, e>>[1] = c /\ <<c, e>>[2] = e
OBVIOUS

\* A colon, and where those of a text are.
Colon == <<":">>
Colons(s) == {i \in 1..Len(s) : s[i] = ":"}

\* A text with a colon.
LEMMA AtColon ==
  ASSUME NEW a \in Seq(DigitSet), NEW b \in Seq(Chars)
  PROVE  LET s == a \o Colon \o b
         IN /\ s \in Seq(Chars) /\ Colons(s) # {} /\ Min(Colons(s)) = Len(a) + 1
            /\ SubSeq(s, 1, Len(a)) = a
            /\ SubSeq(s, Len(a) + 2, Len(s)) = b
<1> DEFINE c == Colon
<1> DEFINE ac == a \o c
<1> DEFINE s == ac \o b
<1>0. s = ac \o b
  OBVIOUS
<1> DEFINE I == Colons(s)
<1>1. a \in Seq(Chars) /\ c \in Seq(Chars) /\ Len(c) = 1 /\ c[1] = ":" /\ ":" \notin DigitSet
  <2> DEFINE x == ":"
  <2>1. x \in Chars /\ ":" \notin DigitSet /\ DigitSet \subseteq Chars
    BY NoDigits
  <2> HIDE DEF x
  <2>2. <<x>> \in Seq(Chars) /\ Len(<<x>>) = 1 /\ <<x>>[1] = x
    BY <2>1, ShortTexts
  <2> QED
    BY <2>1, <2>2, SeqMonotonic DEF x, Colon
<1> HIDE DEF c
<1>2. Len(a) \in Nat /\ Len(b) \in Nat /\ \A i \in 1..Len(a) : a[i] \in DigitSet
  BY LenProperties, ElementOfSeq
<1>3. /\ ac \in Seq(Chars) /\ Len(ac) = Len(a) + 1
      /\ \A i \in 1..Len(a) + 1 : ac[i] = IF i <= Len(a) THEN a[i] ELSE c[i - Len(a)]
  <2>1. a \in Seq(Chars) /\ c \in Seq(Chars) /\ Len(c) = 1
    BY <1>1
  <2>2. /\ ac \in Seq(Chars) /\ Len(ac) = Len(a) + Len(c)
        /\ \A i \in 1..Len(a) + Len(c) : ac[i] = IF i <= Len(a) THEN a[i] ELSE c[i - Len(a)]
    BY <2>1, ConcatProperties
  <2> HIDE DEF ac
  <2> QED
    BY <2>1, <2>2
<1>4. s = a \o (c \o b) /\ c \o b \in Seq(Chars)
  <2>1. ac \o b = a \o (c \o b)
    BY <1>1, ConcatAssociative
  <2>2. c \o b \in Seq(Chars)
    BY <1>1, ConcatProperties
  <2> QED
    BY <1>0, <2>1, <2>2
<1>5. SubSeq(s, 1, Len(a)) = a
  BY <1>1, <1>4, Prefix
<1> HIDE DEF ac, s
<1>6. SubSeq(s, Len(ac) + 1, Len(s)) = b
  BY <1>0, <1>3, Suffix
<1>7. /\ s \in Seq(Chars) /\ Len(s) = Len(ac) + Len(b)
      /\ \A i \in 1..Len(ac) + Len(b) : s[i] = IF i <= Len(ac) THEN ac[i] ELSE b[i - Len(ac)]
  <2>1. /\ ac \o b \in Seq(Chars) /\ Len(ac \o b) = Len(ac) + Len(b)
        /\ \A i \in 1..Len(ac) + Len(b) :
             (ac \o b)[i] = IF i <= Len(ac) THEN ac[i] ELSE b[i - Len(ac)]
    <3>1. ac \in Seq(Chars) /\ b \in Seq(Chars)
      BY <1>1, <1>3
    <3> QED
      BY <3>1, ConcatProperties
  <2> QED
    BY <1>0, <2>1
<1>8. \A i \in 1..Len(a) : s[i] # ":"
  <2> SUFFICES ASSUME NEW i \in 1..Len(a) PROVE s[i] # ":"
    OBVIOUS
  <2>1. i \in 1..Len(ac) + Len(b) /\ i <= Len(ac) /\ i \in 1..Len(a) + 1 /\ i <= Len(a)
    BY <1>2, <1>3
  <2>2. s[i] = a[i]
    BY <1>3, <1>7, <2>1
  <2> QED
    BY <1>1, <1>2, <2>2
<1>9. s[Len(a) + 1] = ":" /\ Len(a) + 1 \in 1..Len(s)
  <2> DEFINE i == Len(a) + 1
  <2>1. i \in 1..Len(ac) + Len(b) /\ i <= Len(ac) /\ i \in 1..Len(a) + 1 /\ ~(i <= Len(a))
        /\ i - Len(a) = 1
    BY <1>2, <1>3
  <2> HIDE DEF i
  <2>2. s[i] = ":"
    BY <1>1, <1>3, <1>7, <2>1
  <2> QED
    BY <1>2, <1>3, <1>7, <2>1, <2>2 DEF i
<1>10. I \in SUBSET Int /\ Len(a) + 1 \in I /\ \A i \in I : Len(a) + 1 <= i
  BY <1>2, <1>8, <1>9 DEF Colons
<1>11. I # {} /\ Min(I) = Len(a) + 1
  <2> HIDE DEF I
  <2> QED
    BY <1>10, LeastIsMin
<1>12. Len(ac) + 1 = Len(a) + 2
  BY <1>2, <1>3
<1> QED
  BY <1>5, <1>6, <1>7, <1>11, <1>12 DEF s, ac, c

\* A text has a limit before its first colon, and a decrement and a unit after it.
Divided(s, limit, decrement, unit) ==
  LET colon == Min(Colons(s))
      rest == SubSeq(s, colon + 1, Len(s))
  IN /\ s \in Seq(Chars) /\ Colons(s) # {} /\ colon # 0
     /\ SubSeq(s, 1, colon - 1) = limit
     /\ rest # <<>> /\ Last(rest) = unit[Len(unit)]
     /\ SubSeq(rest, 1, Len(rest) - Len(unit)) = decrement

\* A documented text is divided in this way.
LEMMA WithUnit ==
  ASSUME NEW t \in Seq(DigitSet), NEW u \in Seq(DigitSet), u # <<>>,
         NEW v \in Seq(Chars), v # <<>>
  PROVE  Divided(t \o Colon \o u \o v, t, u, v)
<1> DEFINE c == Colon
<1> DEFINE tc == t \o c
<1> DEFINE w == u \o v
<1> DEFINE s == (tc \o u) \o v
<1>1. t \in Seq(Chars) /\ u \in Seq(Chars) /\ c \in Seq(Chars)
  <2>1. ":" \in Chars /\ DigitSet \subseteq Chars
    BY NoDigits
  <2> DEFINE x == ":"
  <2> HIDE DEF x
  <2>2. x \in Chars => <<x>> \in Seq(Chars)
    BY ShortTexts
  <2> QED
    BY <2>1, <2>2, SeqMonotonic DEF x, Colon
<1> HIDE DEF c
<1>2. tc \in Seq(Chars)
  BY <1>1, ConcatProperties
<1>3. s = tc \o w
  <2>1. s = (tc \o u) \o v
    OBVIOUS
  <2> HIDE DEF tc, s
  <2>2. (tc \o u) \o v = tc \o (u \o v)
    BY <1>1, <1>2, ConcatAssociative
  <2> QED
    BY <2>1, <2>2
<1>4. SubSeq(w, 1, Len(u)) = u
  BY <1>1, Prefix
<1>5. /\ w \in Seq(Chars) /\ Len(w) = Len(u) + Len(v)
      /\ \A i \in 1..Len(u) + Len(v) : w[i] = IF i <= Len(u) THEN u[i] ELSE v[i - Len(u)]
  BY <1>1, ConcatProperties
<1>6. Len(u) \in Nat \ {0} /\ Len(v) \in Nat \ {0} /\ Len(t) \in Nat
  BY EmptySeq, LenProperties
<1> HIDE DEF w
<1> DEFINE I == Colons(s)
<1> HIDE DEF s
<1>7. /\ s \in Seq(Chars) /\ I # {} /\ Min(I) = Len(t) + 1
      /\ SubSeq(s, 1, Len(t)) = t
      /\ SubSeq(s, Len(t) + 2, Len(s)) = w
  <2>1. s = t \o Colon \o w
    BY <1>3 DEF c
  <2>2. w \in Seq(Chars) /\ t \in Seq(DigitSet)
    BY <1>5
  <2> HIDE DEF tc, I
  <2>3. /\ s \in Seq(Chars) /\ Colons(s) # {} /\ Min(Colons(s)) = Len(t) + 1
        /\ SubSeq(s, 1, Len(t)) = t
        /\ SubSeq(s, Len(t) + 2, Len(s)) = w
    <3> DEFINE x == t \o Colon \o w
    <3>1. /\ x \in Seq(Chars) /\ Colons(x) # {} /\ Min(Colons(x)) = Len(t) + 1
          /\ SubSeq(x, 1, Len(t)) = t
          /\ SubSeq(x, Len(t) + 2, Len(x)) = w
      BY <2>2, AtColon
    <3>2. s = x
      BY <2>1
    <3> HIDE DEF x
    <3> QED
      BY <3>1, <3>2
  <2> QED
    BY <2>3 DEF I
<1> HIDE DEF I
<1>8. Min(I) - 1 = Len(t) /\ Min(I) + 1 = Len(t) + 2 /\ Min(I) # 0
  BY <1>6, <1>7
<1>9. SubSeq(s, 1, Min(I) - 1) = t /\ SubSeq(s, Min(I) + 1, Len(s)) = w
  BY <1>7, <1>8
<1>10. Len(w) \in 1..Len(u) + Len(v) /\ ~(Len(w) <= Len(u)) /\ Len(w) - Len(u) = Len(v)
       /\ Len(w) - Len(v) = Len(u) /\ Len(w) # 0
  BY <1>5, <1>6
<1>11. w[Len(w)] = v[Len(v)]
  BY <1>5, <1>10
<1>12. w # <<>> /\ Last(w) = v[Len(v)]
  BY <1>10, <1>11, EmptySeq DEF Last
<1>13. SubSeq(w, 1, Len(w) - Len(v)) = u
  BY <1>4, <1>10
<1> QED
  <2>1. Divided(s, t, u, v)
    BY <1>7, <1>8, <1>9, <1>12, <1>13 DEF Divided, I
  <2> QED
    BY <2>1 DEF s, tc, c

\* A documented specification.
LEMMA SpecOf ==
  ASSUME NEW spec \in SpecSet
  PROVE  /\ Parse(SpecText(spec)) = {spec}
         /\ SpecText(spec) \in Seq(Chars) /\ SpecText(spec) # <<>>
<1> DEFINE f == spec.fixed_value
<1> DEFINE d == spec.decrement
<1> DEFINE p == spec.decrement_is_pct
<1> DEFINE t == Text(f)
<1> DEFINE u == Text(d)
<1> DEFINE s == SpecText(spec)
<1> DEFINE I == Colons(s)
<1> DEFINE rest == SubSeq(s, Min(I) + 1, Len(s))
<1>1. /\ p \in BOOLEAN /\ f \in 1..IntMax
      /\ IF p THEN d \in 1..99 ELSE d \in 0..IntMax
      /\ spec = SizeSpec(f, d, p)
  <2>1. IF p THEN spec \in SizeSpecs(1..99, TRUE) ELSE spec \in SizeSpecs(0..IntMax, FALSE)
    BY ConfigAssumption
  <2> QED
    BY <2>1 DEF SizeSpecs, SizeSpec
<1>2. f \in 0..IntMax /\ d \in 0..IntMax /\ d \in Nat /\ f \in Nat
  BY <1>1, Ranges, PercentagesFit
<1>3. t \in Seq(DigitSet) /\ t # <<>> /\ u \in Seq(DigitSet) /\ u # <<>>
  BY <1>2, Numerals
<1>4. /\ StringViewToInt(t) = {f} /\ StringViewToInt(u) = {d}
      /\ Long(f) = f /\ Long(d) = d
  BY <1>2, IntegerOf
<1>5. /\ I = {} => Parse(s) = FixedSpec(s)
      /\ I # {} /\ Min(I) # 0 /\ rest # <<>> =>
           /\ Last(rest) = "%" => Parse(s) = PercentSpec(SubSeq(s, 1, Min(I) - 1), Front(rest))
           /\ Last(rest) = "x" => Parse(s) = PixelSpec(SubSeq(s, 1, Min(I) - 1),
                                                       SubSeq(rest, 1, Len(rest) - 2))
  <2> DEFINE colon == IF I # {} THEN Min(I) ELSE 0
  <2> DEFINE limit == SubSeq(s, 1, colon - 1)
  <2> DEFINE after == SubSeq(s, colon + 1, Len(s))
  <2> DEFINE unit == IF after = <<>> THEN ":" ELSE Last(after)
  <2>1. Parse(s) = CASE colon = 0 -> FixedSpec(s)
                     [] colon # 0 /\ unit = "%" -> PercentSpec(limit, Front(after))
                     [] colon # 0 /\ unit \in {"x", "q"} ->
                          PixelSpec(limit, SubSeq(after, 1, Len(after) - 2))
                     [] OTHER -> {}
    BY DEF Parse, SelectInSeq, Colons
  <2>2. /\ I = {} => colon = 0
        /\ I # {} => /\ limit = SubSeq(s, 1, Min(I) - 1) /\ after = rest /\ colon = Min(I)
                     /\ unit = IF rest = <<>> THEN ":" ELSE Last(rest)
    OBVIOUS
  <2> HIDE DEF I, s, colon, limit, after, unit, rest
  <2> QED
    BY <2>1, <2>2
<1> HIDE DEF I, rest
<1>6. CASE d = 0
  <2>1. s = t /\ ~p
    BY <1>1, <1>6 DEF SpecText
  <2>2. t \in Seq(Chars) /\ \A i \in 1..Len(t) : t[i] \in DigitSet /\ t[i] # ":"
    <3>1. DigitSet \subseteq Chars /\ \A c \in DigitSet : c # ":"
      BY NoDigits
    <3>2. \A i \in 1..Len(t) : t[i] \in DigitSet
      BY <1>3, ElementOfSeq
    <3> HIDE DEF t
    <3> QED
      BY <1>3, <3>1, <3>2, SeqMonotonic
  <2>3. I = {}
    BY <2>1, <2>2 DEF I, Colons
  <2>4. Parse(s) = FixedSpec(t)
    BY <1>5, <2>1, <2>3
  <2>5. FixedSpec(t) = {SizeSpec(f, 0, FALSE)}
    BY <1>4 DEF FixedSpec
  <2> QED
    BY <1>1, <1>3, <1>6, <2>1, <2>2, <2>4, <2>5
<1>7. CASE d # 0 /\ p
  <2> DEFINE v == <<"%">>
  <2>1. v \in Seq(Chars) /\ Len(v) = 1 /\ v[1] = "%" /\ v # <<>>
    <3> DEFINE x == "%"
    <3>1. x \in Chars
      BY NoDigits
    <3> HIDE DEF x
    <3>2. <<x>> \in Seq(Chars) /\ Len(<<x>>) = 1 /\ <<x>>[1] = x
      BY <3>1, ShortTexts
    <3> QED
      BY <3>2 DEF x
  <2>2. s = t \o Colon \o u \o v
    BY <1>7 DEF SpecText, Colon
  <2> HIDE DEF v, s, t, u
  <2>3. /\ s \in Seq(Chars) /\ I # {} /\ Min(I) # 0
        /\ SubSeq(s, 1, Min(I) - 1) = t
        /\ rest # <<>> /\ Last(rest) = v[Len(v)]
        /\ SubSeq(rest, 1, Len(rest) - Len(v)) = u
    <3>1. Divided(t \o Colon \o u \o v, t, u, v)
      BY <1>3, <2>1, WithUnit
    <3>2. Divided(s, t, u, v)
      BY <2>2, <3>1
    <3> QED
      BY <3>2 DEF Divided, I, rest
  <2>4. Last(rest) = "%" /\ Front(rest) = u
    BY <2>1, <2>3 DEF Front
  <2>5. Parse(s) = PercentSpec(t, u)
    BY <1>5, <2>3, <2>4
  <2>6. PercentSpec(t, u) = {SizeSpec(f, d, TRUE)}
    <3>1. {Long(e) : e \in StringViewToInt(u)} \cap 1..99 = {d}
      BY <1>1, <1>4, <1>7
    <3> DEFINE Result(n, e) == SizeSpec(Long(n), e, TRUE)
    <3> DEFINE D == {Long(e) : e \in StringViewToInt(u)} \cap 1..99
    <3>2. PercentSpec(t, u) = {Result(n, e) : n \in StringViewToInt(t), e \in D}
      BY DEF PercentSpec
    <3>3. Result(f, d) = SizeSpec(f, d, TRUE) /\ D = {d}
      BY <1>4, <3>1
    <3> HIDE DEF Result, D, d, f
    <3> QED
      BY <1>4, <3>2, <3>3
  <2>7. s # <<>>
    <3>1. s = <<>> => Len(s) = 0
      BY EmptySeq
    <3> QED
      BY <2>3, <3>1 DEF I, Colons
  <2> QED
    BY <1>1, <1>7, <2>3, <2>5, <2>6, <2>7 DEF s
<1>8. CASE d # 0 /\ ~p
  <2> DEFINE v == <<"p", "x">>
  <2>1. v \in Seq(Chars) /\ Len(v) = 2 /\ v[2] = "x" /\ v # <<>>
    <3> DEFINE x == "p"
    <3> DEFINE y == "x"
    <3>1. x \in Chars /\ y \in Chars
      BY NoDigits
    <3> HIDE DEF x, y
    <3>2. <<x, y>> \in Seq(Chars) /\ Len(<<x, y>>) = 2 /\ <<x, y>>[2] = y
      BY <3>1, ShortTexts
    <3> QED
      BY <3>2 DEF x, y
  <2>2. s = t \o Colon \o u \o v
    BY <1>8 DEF SpecText, Colon
  <2> HIDE DEF v, s, t, u
  <2>3. /\ s \in Seq(Chars) /\ I # {} /\ Min(I) # 0
        /\ SubSeq(s, 1, Min(I) - 1) = t
        /\ rest # <<>> /\ Last(rest) = v[Len(v)]
        /\ SubSeq(rest, 1, Len(rest) - Len(v)) = u
    <3>1. Divided(t \o Colon \o u \o v, t, u, v)
      BY <1>3, <2>1, WithUnit
    <3>2. Divided(s, t, u, v)
      BY <2>2, <3>1
    <3> QED
      BY <3>2 DEF Divided, I, rest
  <2>4. Last(rest) = "x" /\ SubSeq(rest, 1, Len(rest) - 2) = u
    BY <2>1, <2>3
  <2>5. Parse(s) = PixelSpec(t, u)
    BY <1>5, <2>3, <2>4
  <2>6. PixelSpec(t, u) = {SizeSpec(f, d, FALSE)}
    <3>1. {Long(e) : e \in StringViewToInt(u)} \ {0} = {d}
      BY <1>4, <1>8
    <3> DEFINE Result(n, e) == SizeSpec(Long(n), e, FALSE)
    <3> DEFINE D == {Long(e) : e \in StringViewToInt(u)} \ {0}
    <3>2. PixelSpec(t, u) = {Result(n, e) : n \in StringViewToInt(t), e \in D}
      BY DEF PixelSpec
    <3>3. Result(f, d) = SizeSpec(f, d, FALSE) /\ D = {d}
      BY <1>4, <3>1
    <3> HIDE DEF Result, D, d, f
    <3> QED
      BY <1>4, <3>2, <3>3
  <2>7. s # <<>>
    <3>1. s = <<>> => Len(s) = 0
      BY EmptySeq
    <3> QED
      BY <2>3, <3>1 DEF I, Colons
  <2> QED
    BY <1>1, <1>8, <2>3, <2>5, <2>6, <2>7 DEF s
<1> QED
  BY <1>1, <1>6, <1>7, <1>8

\* One piece.
LEMMA OnePiece ==
  ASSUME NEW s, NEW e \in Int
  PROVE  Pieces(s, {e}) = <<SubSeq(s, 1, e - 1)>>
<1> DEFINE At(j) == CHOOSE x \in {e} : Cardinality({f \in {e} : f <= x}) = j
<1> DEFINE end == [j \in 1..Cardinality({e}) |-> At(j)]
<1> DEFINE Piece(j) == SubSeq(s, IF j = 1 THEN 1 ELSE end[j - 1] + 1, end[j] - 1)
<1>1. Pieces(s, {e}) = [j \in DOMAIN end |-> Piece(j)]
  BY DEF Pieces
<1>2. Cardinality({e}) = 1
  BY FS_Singleton
<1>3. {f \in {e} : f <= e} = {e}
  OBVIOUS
<1>4. At(1) = e
  BY <1>2, <1>3
<1> HIDE DEF At
<1>5. DOMAIN end = 1..1 /\ end[1] = e
  BY <1>2, <1>4
<1> HIDE DEF end
<1>6. Piece(1) = SubSeq(s, 1, e - 1)
  BY <1>5
<1> HIDE DEF Piece
<1>7. [j \in 1..1 |-> Piece(j)] = <<Piece(1)>>
  OBVIOUS
<1> QED
  BY <1>1, <1>5, <1>6, <1>7

\* Two pieces.
LEMMA TwoPieces ==
  ASSUME NEW s, NEW d \in Int, NEW e \in Int, d < e
  PROVE  Pieces(s, {d, e}) = <<SubSeq(s, 1, d - 1), SubSeq(s, d + 1, e - 1)>>
<1> DEFINE ends == {d, e}
<1> DEFINE Below(x) == {f \in ends : f <= x}
<1> DEFINE At(j) == CHOOSE x \in ends : Cardinality(Below(x)) = j
<1> DEFINE end == [j \in 1..Cardinality(ends) |-> At(j)]
<1> DEFINE Piece(j) == SubSeq(s, IF j = 1 THEN 1 ELSE end[j - 1] + 1, end[j] - 1)
<1>1. Pieces(s, ends) = [j \in DOMAIN end |-> Piece(j)]
  BY DEF Pieces
<1>2. Cardinality({d}) = 1 /\ Cardinality(ends) = 2
  <2>1. Cardinality({d}) = 1 /\ IsFiniteSet({d})
    BY FS_Singleton
  <2>2. Cardinality({d} \cup {e}) = IF e \in {d} THEN Cardinality({d}) ELSE Cardinality({d}) + 1
    BY <2>1, FS_AddElement
  <2>3. {d} \cup {e} = ends /\ e \notin {d}
    OBVIOUS
  <2> HIDE DEF ends
  <2> QED
    BY <2>1, <2>2, <2>3
<1>3. Below(d) = {d} /\ Below(e) = ends
  OBVIOUS
<1>4. \A x \in ends : x = d \/ x = e
  OBVIOUS
<1>5. d \in ends /\ e \in ends
  OBVIOUS
<1> HIDE DEF Below, ends
<1>6. At(1) = d /\ At(2) = e
  BY <1>2, <1>3, <1>4, <1>5
<1> HIDE DEF At
<1>7. DOMAIN end = 1..2 /\ end[1] = d /\ end[2] = e
  BY <1>2, <1>6
<1> HIDE DEF end
<1>8. Piece(1) = SubSeq(s, 1, d - 1) /\ Piece(2) = SubSeq(s, d + 1, e - 1)
  BY <1>7
<1> HIDE DEF Piece
<1>9. [j \in 1..2 |-> Piece(j)] = <<Piece(1), Piece(2)>>
  OBVIOUS
<1> QED
  BY <1>1, <1>7, <1>8, <1>9 DEF ends

\* The character between pieces.
comma == ","

\* It is not in Chars.
LEMMA NoComma ==
  ASSUME NEW x \in Seq(Chars)
  PROVE  /\ Len(x) \in Nat /\ DOMAIN x = 1..Len(x) /\ (x # <<>> => Len(x) \in Nat \ {0})
         /\ \A i \in 1..Len(x) : x[i] # comma
<1>1. Len(x) \in Nat /\ DOMAIN x = 1..Len(x) /\ (x # <<>> => Len(x) \in Nat \ {0})
  BY EmptySeq, LenProperties
<1>2. comma \notin Chars
  BY NoDigits DEF comma
<1>3. \A i \in 1..Len(x) : x[i] \in Chars
  BY ElementOfSeq
<1> QED
  BY <1>1, <1>2, <1>3

\* The indices at which a text is split.
LEMMA SplitAt ==
  ASSUME NEW s
  PROVE  /\ Commas(s) = {i \in DOMAIN s : s[i] = comma}
         /\ Split(s) = Pieces(s, Commas(s) \cup
                                 (IF s # <<>> /\ Last(s) # comma THEN {Len(s) + 1} ELSE {}))
BY DEF Commas, Split, comma

\* A text without commas is one piece.
LEMMA SplitOne ==
  ASSUME NEW x \in Seq(Chars), x # <<>>
  PROVE  Split(x) = <<x>>
<1>1. Len(x) \in Nat \ {0} /\ DOMAIN x = 1..Len(x) /\ \A i \in 1..Len(x) : x[i] # comma
  BY NoComma
<1>2. Commas(x) = {}
  BY <1>1, SplitAt
<1>3. Last(x) # comma
  BY <1>1 DEF Last
<1>4. Commas(x) \cup (IF x # <<>> /\ Last(x) # comma THEN {Len(x) + 1} ELSE {}) = {Len(x) + 1}
  BY <1>2, <1>3
<1>5. Split(x) = Pieces(x, {Len(x) + 1})
  BY <1>4, SplitAt
<1>6. Pieces(x, {Len(x) + 1}) = <<SubSeq(x, 1, (Len(x) + 1) - 1)>>
  BY <1>1, OnePiece
<1>7. (Len(x) + 1) - 1 = Len(x)
  BY <1>1
<1>8. SubSeq(x, 1, Len(x)) = x
  BY SubSeqFull
<1> QED
  BY <1>5, <1>6, <1>7, <1>8

\* Two such texts with a comma between them are two pieces.
LEMMA SplitTwo ==
  ASSUME NEW x \in Seq(Chars), NEW y \in Seq(Chars), y # <<>>
  PROVE  Split(x \o <<comma>> \o y) = <<x, y>>
<1> DEFINE S == Chars \cup {comma}
<1> DEFINE c == <<comma>>
<1> DEFINE xc == x \o c
<1> DEFINE s == xc \o y
<1>1. c \in Seq(S) /\ Len(c) = 1 /\ c[1] = comma
  OBVIOUS
<1>2. x \in Seq(S) /\ y \in Seq(S)
  BY SeqMonotonic
<1>3. Len(x) \in Nat /\ Len(y) \in Nat \ {0}
  BY NoComma
<1>4. (\A i \in 1..Len(x) : x[i] # comma) /\ (\A i \in 1..Len(y) : y[i] # comma)
  BY NoComma
<1> HIDE DEF c, S
<1>5. /\ xc \in Seq(S) /\ Len(xc) = Len(x) + 1
      /\ \A i \in 1..Len(x) + 1 : xc[i] = IF i <= Len(x) THEN x[i] ELSE c[i - Len(x)]
  <2>1. /\ xc \in Seq(S) /\ Len(xc) = Len(x) + Len(c)
        /\ \A i \in 1..Len(x) + Len(c) : xc[i] = IF i <= Len(x) THEN x[i] ELSE c[i - Len(x)]
    BY <1>1, <1>2, ConcatProperties
  <2> QED
    BY <1>1, <2>1
<1>6. SubSeq(s, 1, Len(x)) = x
  <2>1. s = x \o (c \o y)
    BY <1>1, <1>2, ConcatAssociative
  <2>2. c \o y \in Seq(S)
    BY <1>1, <1>2, ConcatProperties
  <2> HIDE DEF s, xc
  <2> QED
    BY <1>2, <2>1, <2>2, Prefix
<1> HIDE DEF xc
<1>7. SubSeq(s, Len(xc) + 1, Len(s)) = y
  BY <1>2, <1>5, Suffix
<1>8. /\ s \in Seq(S) /\ Len(s) = Len(xc) + Len(y)
      /\ \A i \in 1..Len(xc) + Len(y) : s[i] = IF i <= Len(xc) THEN xc[i] ELSE y[i - Len(xc)]
  <2>1. xc \in Seq(S) /\ y \in Seq(S)
    BY <1>2, <1>5
  <2> QED
    BY <2>1, ConcatProperties
<1>9. DOMAIN s = 1..Len(s)
  BY <1>8, LenProperties
<1> HIDE DEF s
<1> DEFINE d == Len(x) + 1
<1> DEFINE e == Len(s) + 1
<1>10. d \in Int /\ e \in Int /\ d < e /\ d - 1 = Len(x) /\ e - 1 = Len(s) /\ d = Len(xc)
       /\ Len(s) = d + Len(y) /\ d \in 1..Len(s)
  <2>1. Len(xc) = Len(x) + 1 /\ Len(s) = Len(xc) + Len(y)
    BY <1>5, <1>8
  <2> QED
    BY <1>3, <2>1
<1>11. s[d] = comma
  <2>1. d \in 1..Len(xc) + Len(y) /\ d <= Len(xc) /\ d \in 1..Len(x) + 1 /\ ~(d <= Len(x))
        /\ d - Len(x) = 1
    BY <1>3, <1>10
  <2> HIDE DEF d
  <2> QED
    BY <1>1, <1>5, <1>8, <2>1
<1>12. ASSUME NEW i \in 1..Len(s), i # d PROVE s[i] # comma
  <2>1. i \in 1..Len(xc) + Len(y) /\ i \in Int
    BY <1>3, <1>10
  <2>2. CASE i < d
    <3>1. i <= Len(xc) /\ i \in 1..Len(x) + 1 /\ i <= Len(x) /\ i \in 1..Len(x)
      BY <1>3, <1>10, <2>1, <2>2
    <3> HIDE DEF d
    <3>2. s[i] = x[i]
      BY <1>5, <1>8, <2>1, <3>1
    <3> QED
      BY <1>4, <3>1, <3>2
  <2>3. CASE i > d
    <3>1. ~(i <= Len(xc)) /\ i - Len(xc) \in 1..Len(y)
      BY <1>3, <1>10, <2>1, <2>3
    <3> HIDE DEF d
    <3>2. s[i] = y[i - Len(xc)]
      BY <1>8, <2>1, <3>1
    <3> QED
      BY <1>4, <3>1, <3>2
  <2>4. i < d \/ i > d
    BY <1>10, <1>12, <2>1
  <2> QED
    BY <2>2, <2>3, <2>4
<1> HIDE DEF d
<1>13. Commas(s) = {d}
  BY <1>9, <1>10, <1>11, <1>12, SplitAt
<1>14. s # <<>> /\ Last(s) # comma
  <2>1. Len(s) \in 1..Len(s) /\ Len(s) # d /\ Len(s) # 0
    BY <1>3, <1>10
  <2> QED
    BY <1>12, <2>1, EmptySeq DEF Last
<1>15. Split(s) = Pieces(s, {d} \cup {e})
  BY <1>13, <1>14, SplitAt
<1>16. {d} \cup {e} = {d, e}
  OBVIOUS
<1> HIDE DEF e
<1>17. Pieces(s, {d, e}) = <<SubSeq(s, 1, d - 1), SubSeq(s, d + 1, e - 1)>>
  BY <1>10, TwoPieces
<1>18. SubSeq(s, 1, d - 1) = x /\ SubSeq(s, d + 1, e - 1) = y
  BY <1>6, <1>7, <1>10
<1> QED
  BY <1>15, <1>16, <1>17, <1>18 DEF s, xc, c

\* A documented list of one specification, and of two.
LEMMA SpecsOf ==
  ASSUME NEW a \in SpecSet, NEW b \in SpecSet
  PROVE  /\ ParseSpecs(SpecText(a)) = {<<a>>}
         /\ ParseSpecs(SpecText(a) \o <<",">> \o SpecText(b)) = {<<a, b>>}
<1>1. /\ Parse(SpecText(a)) = {a} /\ Parse(SpecText(b)) = {b}
      /\ SpecText(a) \in Seq(Chars) /\ SpecText(a) # <<>>
      /\ SpecText(b) \in Seq(Chars) /\ SpecText(b) # <<>>
  BY SpecOf
<1> DEFINE x == SpecText(a)
<1> DEFINE y == SpecText(b)
<1> DEFINE z == x \o <<",">> \o y
<1>2. Split(x) = <<x>> /\ Split(z) = <<x, y>>
  <2>1. Split(x) = <<x>> /\ Split(x \o <<comma>> \o y) = <<x, y>>
    BY <1>1, SplitOne, SplitTwo
  <2> QED
    BY <2>1 DEF comma
<1> HIDE DEF x, y, z
<1>3. ParseSpecs(x) = {<<a>>}
  <2> DEFINE parsed == [j \in DOMAIN Split(x) |-> Parse(Split(x)[j])]
  <2>1. parsed = <<{a}>>
    <3> DEFINE P(t) == Parse(t)
    <3>1. P(x) = {a}
      BY <1>1 DEF x
    <3>2. parsed = [j \in DOMAIN Split(x) |-> P(Split(x)[j])]
      OBVIOUS
    <3> HIDE DEF P, parsed
    <3>3. parsed = [j \in DOMAIN <<x>> |-> P(<<x>>[j])]
      BY <1>2, <3>2
    <3>4. DOMAIN <<x>> = 1..1 /\ <<x>>[1] = x
      OBVIOUS
    <3>5. DOMAIN parsed = 1..1 /\ parsed[1] = {a}
      BY <3>1, <3>3, <3>4
    <3>6. parsed = [j \in 1..1 |-> parsed[j]]
      BY <3>3, <3>4
    <3> QED
      BY <3>5, <3>6
  <2>2. ParseSpecs(x) = IF {} \in Range(parsed) THEN {}
                        ELSE {[j \in DOMAIN parsed |-> CHOOSE spec \in parsed[j] : TRUE]}
    BY DEF ParseSpecs
  <2> HIDE DEF parsed
  <2>3. DOMAIN parsed = 1..1 /\ parsed[1] = {a}
    BY <2>1
  <2>4. {} \notin Range(parsed)
    BY <2>3 DEF Range
  <2>5. [j \in DOMAIN parsed |-> CHOOSE spec \in parsed[j] : TRUE] = <<a>>
    <3> DEFINE Chosen(j) == CHOOSE spec \in parsed[j] : TRUE
    <3>1. Chosen(1) = a
      BY <2>3
    <3> HIDE DEF Chosen
    <3>2. [j \in 1..1 |-> Chosen(j)] = <<Chosen(1)>>
      OBVIOUS
    <3> QED
      BY <2>3, <3>1, <3>2 DEF Chosen
  <2> QED
    BY <2>2, <2>4, <2>5
<1>4. ParseSpecs(z) = {<<a, b>>}
  <2> DEFINE parsed == [j \in DOMAIN Split(z) |-> Parse(Split(z)[j])]
  <2>1. parsed = <<{a}, {b}>>
    <3> DEFINE P(t) == Parse(t)
    <3>1. P(x) = {a} /\ P(y) = {b}
      BY <1>1 DEF x, y
    <3>2. parsed = [j \in DOMAIN Split(z) |-> P(Split(z)[j])]
      OBVIOUS
    <3> HIDE DEF P, parsed
    <3>3. parsed = [j \in DOMAIN <<x, y>> |-> P(<<x, y>>[j])]
      BY <1>2, <3>2
    <3>4. DOMAIN <<x, y>> = 1..2 /\ <<x, y>>[1] = x /\ <<x, y>>[2] = y
      OBVIOUS
    <3>5. DOMAIN parsed = 1..2 /\ parsed[1] = {a} /\ parsed[2] = {b}
      BY <3>1, <3>3, <3>4
    <3>6. parsed = [j \in 1..2 |-> parsed[j]]
      BY <3>3, <3>4
    <3> QED
      BY <3>5, <3>6
  <2>2. ParseSpecs(z) = IF {} \in Range(parsed) THEN {}
                        ELSE {[j \in DOMAIN parsed |-> CHOOSE spec \in parsed[j] : TRUE]}
    BY DEF ParseSpecs
  <2> HIDE DEF parsed
  <2>3. DOMAIN parsed = 1..2 /\ parsed[1] = {a} /\ parsed[2] = {b}
    BY <2>1
  <2>4. {} \notin Range(parsed)
    BY <2>3 DEF Range
  <2>5. [j \in DOMAIN parsed |-> CHOOSE spec \in parsed[j] : TRUE] = <<a, b>>
    <3> DEFINE Chosen(j) == CHOOSE spec \in parsed[j] : TRUE
    <3>1. Chosen(1) = a /\ Chosen(2) = b
      BY <2>3
    <3> HIDE DEF Chosen
    <3>2. [j \in 1..2 |-> Chosen(j)] = <<Chosen(1), Chosen(2)>>
      OBVIOUS
    <3> QED
      BY <2>3, <3>1, <3>2 DEF Chosen
  <2> QED
    BY <2>2, <2>4, <2>5
<1> QED
  BY <1>3, <1>4 DEF x, y, z

-----------------------------------------------------------------------------
(* The parser.                                                              *)

\* What the fields of a configuration may be, at any line.
GoodConfig(c) ==
  /\ DOMAIN c = DOMAIN Defaults
  /\ c.listen_port \in 0..ShortRange - 1
  /\ c.processing_timeout_secs \in 0..UnsignedRange - 1
  /\ c.socket_kill_timeout_secs \in 0..UnsignedRange - 1
  /\ c.upload_limit \in 0..UnsignedRange - 1
  /\ c.sizes \in Seq(GoodSpec)

\* The names of the fields.
LEMMA FieldNames ==
  DOMAIN Defaults =
    {"listen_host", "listen_port", "processing_timeout_secs", "socket_kill_timeout_secs",
     "thread_pool_size", "upload_limit", "auth_token", "sizes", "formats", "storage"}
BY DEF Defaults

\* The defaults are good: the numbers in the source are below the ranges.
LEMMA DefaultsAreGood == GoodConfig(Defaults)
<1>1. 20 * Factor["M"] \in Nat /\ 20 * Factor["M"] >= 20
  <2>1. \A x, y \in Nat \ {0} : x * y \in Nat \ {0}
    OBVIOUS
  <2>2. Kilo * Kilo \in Nat \ {0}
    BY <2>1, TextAssumption
  <2> DEFINE mega == Kilo * Kilo
  <2>3. Factor["M"] = mega
    BY DEF Factor
  <2>4. mega \in Nat \ {0}
    BY <2>2
  <2> HIDE DEF mega
  <2> QED
    BY <2>3, <2>4
<1>2. 20 < UnsignedRange /\ 20 * Factor["M"] \in 0..UnsignedRange - 1
  BY <1>1, ConfigAssumption, Ranges
<1>3. <<>> \in Seq(GoodSpec)
  BY EmptySeq
<1>4. 8 \in 0..UnsignedRange - 1 /\ 10 \in 0..UnsignedRange - 1
  BY <1>2, Ranges
<1> QED
  BY <1>2, <1>3, <1>4, ConfigAssumption DEF Defaults, GoodConfig

\* So is what a value is parsed to.
LEMMA FieldParsed ==
  ASSUME NEW value \in Seq(STRING), NEW field \in Fields, NEW x \in Parsed(field, value)
  PROVE  /\ field = "listen_port" => x \in 0..ShortRange - 1
         /\ field \in {"processing_timeout_secs", "socket_kill_timeout_secs", "upload_limit"} =>
              x \in 0..UnsignedRange - 1
         /\ field = "sizes" => x \in Seq(GoodSpec)
<1>1. ASSUME field = "listen_port" PROVE x \in 0..ShortRange - 1
  <2>1. PICK n \in StringViewToInt(value) : x = Short(n)
    BY <1>1 DEF Parsed
  <2> QED
    BY <2>1, IntegerParsed, TextAssumption DEF Short
<1>2. ASSUME field \in {"processing_timeout_secs", "socket_kill_timeout_secs"}
      PROVE  x \in 0..UnsignedRange - 1
  <2>1. PICK n \in StringViewToInt(value) : x = Unsigned(n)
    BY <1>2 DEF Parsed
  <2> QED
    BY <2>1, IntegerParsed, Ranges DEF Unsigned
<1>3. ASSUME field = "upload_limit" PROVE x \in 0..UnsignedRange - 1
  <2>1. x \in ParseBytes(value)
    BY <1>3 DEF Parsed
  <2> QED
    BY <2>1, BytesParsed
<1>4. ASSUME field = "sizes" PROVE x \in Seq(GoodSpec)
  <2>1. x \in ParseSpecs(value)
    BY <1>4 DEF Parsed
  <2> QED
    BY <2>1, SpecsParsed
<1> QED
  BY <1>1, <1>2, <1>3, <1>4

\* A line keeps a configuration good.
LEMMA LineApplied ==
  ASSUME NEW l \in Lines, GoodConfig(cfg), NEW c \in Applied(l)
  PROVE  GoodConfig(c)
<1>1. l.value \in Seq(STRING)
  BY ConfigAssumption
<1>2. CASE c \in SetField(l)
  <2>1. l.key[1] \in Fields /\ \E x \in Parsed(l.key[1], l.value) : c = [cfg EXCEPT ![l.key[1]] = x]
    BY <1>2 DEF SetField
  <2> DEFINE field == l.key[1]
  <2>2. PICK x \in Parsed(field, l.value) : c = [cfg EXCEPT ![field] = x]
    BY <2>1
  <2>3. /\ field = "listen_port" => x \in 0..ShortRange - 1
        /\ field \in {"processing_timeout_secs", "socket_kill_timeout_secs", "upload_limit"} =>
             x \in 0..UnsignedRange - 1
        /\ field = "sizes" => x \in Seq(GoodSpec)
    BY <1>1, <2>1, FieldParsed
  <2>4. field \in DOMAIN Defaults
    BY <2>1, FieldNames DEF Fields
  <2> HIDE DEF field
  <2> QED
    BY <2>2, <2>3, <2>4, FieldNames DEF GoodConfig
<1>3. CASE c \in SetStorageType(l) \cup SetStorage(l) \cup SetFormats(l)
  <2>1. /\ DOMAIN c = DOMAIN cfg
        /\ \A f \in DOMAIN cfg \ {"formats", "storage"} : c[f] = cfg[f]
    BY <1>3 DEF SetStorageType, SetStorage, SetFormats
  <2> QED
    BY <2>1, FieldNames DEF GoodConfig
<1> QED
  BY <1>2, <1>3 DEF Applied

\* The state of the parser.
ParserInv ==
  /\ phase \in {"reading", "accepted", "refused"}
  /\ read \in SUBSET Lines
  /\ bad \in Lines \cup {None}
  /\ GoodConfig(cfg)

\* Every step keeps it.
LEMMA ParserStep ==
  ASSUME ParserInv, [Next]_vars
  PROVE  ParserInv'
<1>1. ASSUME NEW l \in Lines, ReadLine(l) PROVE ParserInv'
  BY <1>1, LineApplied DEF ParserInv, ReadLine
<1>2. ASSUME NEW l \in Lines, RefuseLine(l) PROVE ParserInv'
  BY <1>2 DEF ParserInv, RefuseLine
<1>3. CASE EndOfFile
  BY <1>3 DEF ParserInv, EndOfFile
<1>4. CASE UNCHANGED parser
  BY <1>4 DEF ParserInv, parser
<1> QED
  BY <1>1, <1>2, <1>3, <1>4 DEF Next, LoadImage, Expand, vars

-----------------------------------------------------------------------------
(* What was read.                                                           *)

\* The settings of the storage, both of which a file must give.
Dirs == {"data_dir", "temp_dir"}

\* What a line that was read has set, and what of it is there still.
FieldSet(l) ==
  /\ Len(l.key) = 1 /\ l.key[1] \in Fields
  /\ cfg[l.key[1]] \in Parsed(l.key[1], l.value)
TypeSet(l) == l.key = <<"storage", "type">> /\ l.value = <<"fs">>
DirSet(l) ==
  /\ Len(l.key) = 2 /\ l.key[1] = "storage" /\ l.key[2] \in Dirs
  /\ cfg.storage # None /\ cfg.storage[l.key[2]] = l.value
FormatSet(l) == Len(l.key) = 2 /\ l.key[1] = "formats" /\ l.value # <<>>

\* The configuration is what the lines that were read say, each key of them once,
\* and the defaults.
ReadInv ==
  /\ IsFiniteSet(read)
  /\ \A l, m \in read : l.key = m.key => l = m
  /\ \A l \in read : FieldSet(l) \/ TypeSet(l) \/ DirSet(l) \/ FormatSet(l)
  /\ \A f \in Fields : (\A l \in read : l.key # <<f>>) => cfg[f] = Defaults[f]
  /\ cfg.storage = None <=> <<"storage", "type">> \notin Keys(read)
  /\ cfg.storage # None =>
       /\ cfg.storage \in [Dirs -> Seq(STRING)]
       /\ \A d \in Dirs : (\A l \in read : l.key # <<"storage", d>>) => cfg.storage[d] = <<>>
  /\ cfg.formats = {} <=> \A l \in read : l.key[1] # "formats"

\* Why the file was accepted or refused.
VerdictInv ==
  /\ phase # "refused" => bad = None
  /\ phase = "accepted" => Valid
  /\ phase = "refused" => IF bad = None THEN ~Valid ELSE Seen(bad) \/ Applied(bad) = {}

\* The pieces of a text that is not empty.
LEMMA SplitsToSome ==
  ASSUME NEW s \in Seq(STRING)
  PROVE  /\ Split(s) # <<>> <=> s # <<>>
         /\ s # <<>> => 1 \in DOMAIN Split(s)
<1> DEFINE ends == Commas(s) \cup (IF s # <<>> /\ Last(s) # comma THEN {Len(s) + 1} ELSE {})
<1>1. Len(s) \in Nat /\ DOMAIN s = 1..Len(s) /\ (s # <<>> => Len(s) \in Nat \ {0})
  BY EmptySeq, LenProperties
<1>2. Commas(s) = {i \in DOMAIN s : s[i] = comma} /\ Split(s) = Pieces(s, ends)
  BY SplitAt
<1>3. IsFiniteSet(ends)
  <2>1. ends \subseteq 1..Len(s) + 1
    BY <1>1, <1>2
  <2>2. IsFiniteSet(1..Len(s) + 1)
    BY <1>1, FS_Interval
  <2> HIDE DEF ends
  <2> QED
    BY <2>1, <2>2, FS_Subset
<1>4. ends = {} <=> s = <<>>
  <2>1. CASE s = <<>>
    <3>1. DOMAIN s = {}
      BY <2>1
    <3> QED
      BY <1>2, <2>1, <3>1
  <2>2. CASE s # <<>>
    <3>1. Len(s) \in DOMAIN s
      BY <1>1, <2>2
    <3> QED
      BY <1>2, <2>2, <3>1 DEF Last
  <2> QED
    BY <2>1, <2>2
<1> HIDE DEF ends
<1>5. Cardinality(ends) \in Nat /\ (Cardinality(ends) = 0 <=> ends = {})
  BY <1>3, FS_CardinalityType, FS_EmptySet
<1>6. DOMAIN Split(s) = 1..Cardinality(ends)
  BY <1>2 DEF Pieces
<1>7. s # <<>> => 1 \in DOMAIN Split(s)
  BY <1>4, <1>5, <1>6
<1>8. DOMAIN <<>> = {}
  OBVIOUS
<1>9. s # <<>> => Split(s) # <<>>
  BY <1>7, <1>8
<1>10. s = <<>> => Split(s) = <<>>
  <2> SUFFICES ASSUME s = <<>> PROVE Split(s) = <<>>
    OBVIOUS
  <2>1. 1..Cardinality(ends) = {}
    BY <1>4, <1>5
  <2> DEFINE end == [j \in 1..Cardinality(ends) |->
                       CHOOSE e \in ends : Cardinality({f \in ends : f <= e}) = j]
  <2> DEFINE Piece(j) == SubSeq(s, IF j = 1 THEN 1 ELSE end[j - 1] + 1, end[j] - 1)
  <2>2. Split(s) = [j \in DOMAIN end |-> Piece(j)] /\ DOMAIN end = 1..Cardinality(ends)
    BY <1>2 DEF Pieces
  <2> HIDE DEF end, Piece
  <2>3. Split(s) = [j \in {} |-> Piece(j)]
    BY <2>1, <2>2
  <2> QED
    BY <2>3
<1> QED
  BY <1>7, <1>9, <1>10

\* Sizes are parsed to something if and only if something is there.
LEMMA SomeSizes ==
  ASSUME NEW s \in Seq(STRING), NEW x \in ParseSpecs(s)
  PROVE  x # <<>> <=> s # <<>>
<1>1. DOMAIN x = DOMAIN Split(s)
  BY DEF ParseSpecs
<1>2. CASE s # <<>>
  <2>1. 1 \in DOMAIN x
    BY <1>1, <1>2, SplitsToSome
  <2>2. DOMAIN <<>> = {}
    OBVIOUS
  <2> QED
    BY <1>2, <2>1, <2>2
<1>3. CASE s = <<>>
  <2>1. Split(s) = <<>>
    BY <1>3, SplitsToSome
  <2>2. DOMAIN x = {}
    BY <1>1, <2>1
  <2>3. x \in Seq(GoodSpec)
    BY SpecsParsed
  <2>4. Len(x) = 0
    BY <2>2, <2>3, LenProperties
  <2>5. x = <<>>
    BY <2>3, <2>4, EmptySeq
  <2> QED
    BY <1>3, <2>5
<1> QED
  BY <1>2, <1>3

\* The keys of lines.
LEMMA LineShape ==
  ASSUME NEW l \in Lines
  PROVE  /\ l.key \in Seq(STRING) /\ l.key # <<>> /\ l.value \in Seq(STRING)
         /\ Len(l.key) = 1 => l.key = <<l.key[1]>>
         /\ Len(l.key) = 2 => l.key = <<l.key[1], l.key[2]>>
<1>1. l.key \in Seq(STRING) /\ l.key # <<>> /\ l.value \in Seq(STRING)
  BY ConfigAssumption
<1> DEFINE key == l.key
<1>2. key \in Seq(STRING)
  BY <1>1
<1> HIDE DEF key
<1>3. Len(key) = 1 => key = <<key[1]>>
  BY <1>2
<1>4. Len(key) = 2 => key = <<key[1], key[2]>>
  BY <1>2
<1> QED
  BY <1>1, <1>3, <1>4 DEF key

\* Nothing was read and nothing is set at first.
LEMMA ReadInit == Init => ReadInv /\ VerdictInv
<1> SUFFICES ASSUME Init PROVE ReadInv /\ VerdictInv
  OBVIOUS
<1>1. read = {} /\ cfg = Defaults /\ phase = "reading" /\ bad = None
  BY DEF Init
<1>2. IsFiniteSet(read) /\ Keys(read) = {}
  BY <1>1, FS_EmptySet DEF Keys
<1>3. Fields \subseteq DOMAIN Defaults /\ Defaults.storage = None /\ Defaults.formats = {}
  BY FieldNames DEF Defaults, Fields
<1> QED
  BY <1>1, <1>2, <1>3 DEF ReadInv, VerdictInv

\* A key is new.
LEMMA NewKey ==
  ASSUME ParserInv, ReadInv, NEW l \in Lines, ~Seen(l), read' = read \cup {l}
  PROVE  /\ IsFiniteSet(read') /\ \A m, n \in read' : m.key = n.key => m = n
         /\ l \in read' /\ read \subseteq read' /\ \A m \in read : m.key # l.key
         /\ \A m \in read' : m \in read \/ m = l
         /\ Keys(read)' = Keys(read) \cup {l.key}
<1>1. \A m \in read : m.key # l.key
  BY DEF Seen, Keys
<1>2. IsFiniteSet(read')
  BY FS_AddElement DEF ReadInv
<1>3. Keys(read)' = Keys(read) \cup {l.key}
  BY DEF Keys
<1> QED
  BY <1>1, <1>2, <1>3 DEF ReadInv

\* A line that sets a field.
LEMMA FieldRead ==
  ASSUME ParserInv, ReadInv, NEW l \in Lines, ~Seen(l), cfg' \in SetField(l),
         read' = read \cup {l}
  PROVE  ReadInv'
<1> DEFINE f == l.key[1]
<1>1. PICK x \in Parsed(f, l.value) : cfg' = [cfg EXCEPT ![f] = x]
  BY DEF SetField
<1>2. Len(l.key) = 1 /\ f \in Fields
  BY DEF SetField
<1>3. DOMAIN cfg = DOMAIN Defaults /\ Fields \subseteq DOMAIN Defaults
      /\ "storage" \in DOMAIN Defaults /\ "formats" \in DOMAIN Defaults
  BY FieldNames DEF ParserInv, GoodConfig, Fields
<1>4. f # "storage" /\ f # "formats"
  BY <1>2 DEF Fields
<1>5. cfg'[f] = x /\ \A g \in DOMAIN Defaults : g # f => cfg'[g] = cfg[g]
  BY <1>1, <1>2, <1>3
<1>6. cfg'.storage = cfg.storage /\ cfg'.formats = cfg.formats
  BY <1>3, <1>4, <1>5
<1>7. l.key = <<f>>
  BY <1>2, LineShape
<1>8. /\ IsFiniteSet(read') /\ \A m, n \in read' : m.key = n.key => m = n
      /\ l \in read' /\ read \subseteq read' /\ \A m \in read : m.key # l.key
      /\ \A m \in read' : m \in read \/ m = l
      /\ Keys(read)' = Keys(read) \cup {l.key}
  BY NewKey
<1> HIDE DEF f
<1>9. ASSUME NEW m \in read' PROVE (FieldSet(m) \/ TypeSet(m) \/ DirSet(m) \/ FormatSet(m))'
  <2>1. CASE m = l
    <3>1. FieldSet(l)'
      BY <1>1, <1>2, <1>5 DEF FieldSet, f
    <3> QED
      BY <2>1, <3>1
  <2>2. CASE m \in read
    <3>1. FieldSet(m) \/ TypeSet(m) \/ DirSet(m) \/ FormatSet(m)
      BY <2>2 DEF ReadInv
    <3>2. CASE FieldSet(m)
      <4>1. m \in Lines /\ Len(m.key) = 1 /\ m.key[1] \in Fields
        BY <2>2, <3>2 DEF FieldSet, ParserInv
      <4>2. m.key = <<m.key[1]>>
        BY <4>1, LineShape
      <4>3. m.key[1] # f
        BY <1>7, <1>8, <2>2, <4>2
      <4>4. cfg'[m.key[1]] = cfg[m.key[1]]
        BY <1>3, <1>5, <4>1, <4>3
      <4> QED
        BY <3>2, <4>4 DEF FieldSet
    <3>3. CASE TypeSet(m) \/ DirSet(m) \/ FormatSet(m)
      BY <1>6, <3>3 DEF TypeSet, DirSet, FormatSet
    <3> QED
      BY <3>1, <3>2, <3>3
  <2> QED
    BY <1>8, <2>1, <2>2
<1>10. ASSUME NEW g \in Fields, \A m \in read' : m.key # <<g>> PROVE cfg'[g] = Defaults[g]
  <2>1. g # f
    BY <1>7, <1>8, <1>10
  <2>2. \A m \in read : m.key # <<g>>
    BY <1>8, <1>10
  <2>3. cfg'[g] = cfg[g]
    BY <1>3, <1>5, <2>1
  <2> QED
    BY <2>2, <2>3 DEF ReadInv
<1>11. (cfg.storage = None <=> <<"storage", "type">> \notin Keys(read))'
  <2>1. l.key # <<"storage", "type">>
    BY <1>2
  <2> QED
    BY <1>6, <1>8, <2>1 DEF ReadInv
<1>12. ASSUME cfg'.storage # None
       PROVE  /\ cfg'.storage \in [Dirs -> Seq(STRING)]
              /\ \A d \in Dirs :
                   (\A m \in read' : m.key # <<"storage", d>>) => cfg'.storage[d] = <<>>
  BY <1>6, <1>8, <1>12 DEF ReadInv
<1>13. (cfg.formats = {} <=> \A m \in read : m.key[1] # "formats")'
  BY <1>4, <1>6, <1>8 DEF ReadInv, f
<1> QED
  BY <1>8, <1>9, <1>10, <1>11, <1>12, <1>13 DEF ReadInv

\* The keys of a storage.
LEMMA StorageKeys ==
  /\ DOMAIN NewStorage = Dirs /\ NewStorage \in [Dirs -> Seq(STRING)]
  /\ \A d \in Dirs : NewStorage[d] = <<>>
  /\ None \notin [Dirs -> Seq(STRING)]
<1>1. <<>> \in Seq(STRING)
  BY EmptySeq
<1>2. NewStorage = [d \in Dirs |-> <<>>]
  BY DEF NewStorage, Dirs
<1>3. None \notin [Dirs -> Seq(STRING)]
  BY ConfigAssumption DEF Dirs
<1> QED
  BY <1>1, <1>2, <1>3

\* A line that sets something else than a field leaves the fields.
LEMMA FieldsStay ==
  ASSUME ParserInv, ReadInv, NEW l \in Lines, ~Seen(l), read' = read \cup {l}, Len(l.key) = 2,
         \A g \in Fields : cfg'[g] = cfg[g]
  PROVE  /\ \A m \in read : FieldSet(m) => FieldSet(m)'
         /\ \A g \in Fields : (\A m \in read' : m.key # <<g>>) => cfg'[g] = Defaults[g]
<1>1. ASSUME NEW m \in read, FieldSet(m) PROVE FieldSet(m)'
  BY <1>1 DEF FieldSet
<1>2. ASSUME NEW g \in Fields, \A m \in read' : m.key # <<g>> PROVE cfg'[g] = Defaults[g]
  BY <1>2, NewKey DEF ReadInv
<1> QED
  BY <1>1, <1>2

\* A storage.type.
LEMMA TypeRead ==
  ASSUME ParserInv, ReadInv, NEW l \in Lines, ~Seen(l), cfg' \in SetStorageType(l),
         read' = read \cup {l}
  PROVE  ReadInv'
<1>1. l.key = <<"storage", "type">> /\ l.value = <<"fs">>
      /\ cfg' = [cfg EXCEPT !.storage = NewStorage]
  BY DEF SetStorageType
<1>2. DOMAIN cfg = DOMAIN Defaults /\ Fields \subseteq DOMAIN Defaults
      /\ "storage" \in DOMAIN Defaults /\ "formats" \in DOMAIN Defaults /\ "storage" \notin Fields
  BY FieldNames DEF ParserInv, GoodConfig, Fields
<1>3. cfg'.storage = NewStorage /\ cfg'.formats = cfg.formats /\ \A g \in Fields : cfg'[g] = cfg[g]
  BY <1>1, <1>2
<1>4. Len(l.key) = 2 /\ l.key[1] = "storage"
  BY <1>1
<1>5. /\ IsFiniteSet(read') /\ \A m, n \in read' : m.key = n.key => m = n
      /\ l \in read' /\ read \subseteq read' /\ \A m \in read : m.key # l.key
      /\ \A m \in read' : m \in read \/ m = l
      /\ Keys(read)' = Keys(read) \cup {l.key}
  BY NewKey
<1>6. cfg.storage = None /\ NewStorage # None
  BY <1>1, StorageKeys DEF ReadInv, Seen
<1>7. /\ \A m \in read : FieldSet(m) => FieldSet(m)'
      /\ \A g \in Fields : (\A m \in read' : m.key # <<g>>) => cfg'[g] = Defaults[g]
  BY <1>3, <1>4, FieldsStay
<1>8. ASSUME NEW m \in read' PROVE (FieldSet(m) \/ TypeSet(m) \/ DirSet(m) \/ FormatSet(m))'
  <2>1. CASE m = l
    BY <1>1, <2>1 DEF TypeSet
  <2>2. CASE m \in read
    <3>1. FieldSet(m) \/ TypeSet(m) \/ DirSet(m) \/ FormatSet(m)
      BY <2>2 DEF ReadInv
    <3>2. ~DirSet(m)
      BY <1>6 DEF DirSet
    <3> QED
      BY <1>7, <2>2, <3>1, <3>2 DEF TypeSet, FormatSet
  <2> QED
    BY <1>5, <2>1, <2>2
<1>9. (cfg.storage = None <=> <<"storage", "type">> \notin Keys(read))'
  BY <1>1, <1>3, <1>5, <1>6
<1>10. (/\ cfg.storage \in [Dirs -> Seq(STRING)]
        /\ \A d \in Dirs : (\A m \in read : m.key # <<"storage", d>>) => cfg.storage[d] = <<>>)'
  BY <1>3, StorageKeys
<1>11. (cfg.formats = {} <=> \A m \in read : m.key[1] # "formats")'
  BY <1>3, <1>4, <1>5 DEF ReadInv
<1> QED
  BY <1>5, <1>7, <1>8, <1>9, <1>10, <1>11 DEF ReadInv

\* A directory of the storage.
LEMMA DirRead ==
  ASSUME ParserInv, ReadInv, NEW l \in Lines, ~Seen(l), cfg' \in SetStorage(l),
         read' = read \cup {l}
  PROVE  ReadInv'
<1> DEFINE d == l.key[2]
<1>1. Len(l.key) = 2 /\ l.key[1] = "storage" /\ d \in DOMAIN NewStorage /\ cfg.storage # None
      /\ cfg' = [cfg EXCEPT !.storage[d] = l.value]
  BY DEF SetStorage
<1>2. DOMAIN cfg = DOMAIN Defaults /\ Fields \subseteq DOMAIN Defaults
      /\ "storage" \in DOMAIN Defaults /\ "formats" \in DOMAIN Defaults /\ "storage" \notin Fields
  BY FieldNames DEF ParserInv, GoodConfig, Fields
<1>3. /\ cfg'.storage = [cfg.storage EXCEPT ![d] = l.value]
      /\ cfg'.formats = cfg.formats /\ \A g \in Fields : cfg'[g] = cfg[g]
  BY <1>1, <1>2
<1>4. d \in Dirs /\ l.key = <<"storage", d>> /\ l.value \in Seq(STRING)
  BY <1>1, StorageKeys, LineShape
<1>5. /\ IsFiniteSet(read') /\ \A m, n \in read' : m.key = n.key => m = n
      /\ l \in read' /\ read \subseteq read' /\ \A m \in read : m.key # l.key
      /\ \A m \in read' : m \in read \/ m = l
      /\ Keys(read)' = Keys(read) \cup {l.key}
  BY NewKey
<1>6. cfg.storage \in [Dirs -> Seq(STRING)]
  BY <1>1 DEF ReadInv
<1>7. /\ cfg'.storage \in [Dirs -> Seq(STRING)] /\ cfg'.storage[d] = l.value
      /\ \A e \in Dirs : e # d => cfg'.storage[e] = cfg.storage[e]
  <2> DEFINE storage == cfg.storage
  <2> DEFINE value == l.value
  <2>1. storage \in [Dirs -> Seq(STRING)] /\ value \in Seq(STRING) /\ d \in Dirs
        /\ cfg'.storage = [storage EXCEPT ![d] = value]
    BY <1>3, <1>4, <1>6
  <2> HIDE DEF d, storage, value
  <2>2. /\ cfg'.storage \in [Dirs -> Seq(STRING)] /\ cfg'.storage[d] = value
        /\ \A e \in Dirs : e # d => cfg'.storage[e] = storage[e]
    BY <2>1
  <2> QED
    BY <2>2 DEF storage, value
<1>8. cfg'.storage # None
  BY <1>7, StorageKeys
<1>9. d # "type" /\ "storage" # "formats"
  BY <1>4 DEF Dirs
<1> HIDE DEF d
<1>10. /\ \A m \in read : FieldSet(m) => FieldSet(m)'
       /\ \A g \in Fields : (\A m \in read' : m.key # <<g>>) => cfg'[g] = Defaults[g]
  BY <1>1, <1>3, FieldsStay
<1>11. ASSUME NEW m \in read' PROVE (FieldSet(m) \/ TypeSet(m) \/ DirSet(m) \/ FormatSet(m))'
  <2>1. CASE m = l
    BY <1>1, <1>4, <1>7, <1>8, <2>1 DEF DirSet, d
  <2>2. CASE m \in read
    <3>1. FieldSet(m) \/ TypeSet(m) \/ DirSet(m) \/ FormatSet(m)
      BY <2>2 DEF ReadInv
    <3>2. CASE DirSet(m)
      <4>1. m \in Lines /\ Len(m.key) = 2 /\ m.key[1] = "storage" /\ m.key[2] \in Dirs
        BY <2>2, <3>2 DEF DirSet, ParserInv
      <4>2. m.key = <<"storage", m.key[2]>>
        BY <4>1, LineShape
      <4>3. m.key[2] # d
        BY <1>4, <1>5, <2>2, <4>2
      <4>4. cfg'.storage[m.key[2]] = cfg.storage[m.key[2]]
        BY <1>7, <4>1, <4>3
      <4> QED
        BY <1>8, <3>2, <4>4 DEF DirSet
    <3> QED
      BY <1>10, <2>2, <3>1, <3>2 DEF TypeSet, FormatSet
  <2> QED
    BY <1>5, <2>1, <2>2
<1>12. (cfg.storage = None <=> <<"storage", "type">> \notin Keys(read))'
  BY <1>1, <1>5, <1>8 DEF ReadInv
<1>13. ASSUME NEW e \in Dirs, \A m \in read' : m.key # <<"storage", e>>
       PROVE  cfg'.storage[e] = <<>>
  <2>1. e # d /\ \A m \in read : m.key # <<"storage", e>>
    BY <1>4, <1>5, <1>13
  <2> QED
    BY <1>1, <1>7, <2>1 DEF ReadInv
<1>14. (cfg.formats = {} <=> \A m \in read : m.key[1] # "formats")'
  BY <1>1, <1>3, <1>5, <1>9 DEF ReadInv
<1> QED
  BY <1>5, <1>7, <1>10, <1>11, <1>12, <1>13, <1>14 DEF ReadInv

\* A format.
LEMMA FormatRead ==
  ASSUME ParserInv, ReadInv, NEW l \in Lines, ~Seen(l), cfg' \in SetFormats(l),
         read' = read \cup {l}
  PROVE  ReadInv'
<1> DEFINE pair == <<l.key[2], Split(l.value)>>
<1>1. Len(l.key) = 2 /\ l.key[1] = "formats" /\ Split(l.value) # <<>>
      /\ cfg' = [cfg EXCEPT !.formats = @ \cup {pair}]
  BY DEF SetFormats
<1> HIDE DEF pair
<1>2. DOMAIN cfg = DOMAIN Defaults /\ Fields \subseteq DOMAIN Defaults
      /\ "storage" \in DOMAIN Defaults /\ "formats" \in DOMAIN Defaults /\ "formats" \notin Fields
  BY FieldNames DEF ParserInv, GoodConfig, Fields
<1>3. cfg'.storage = cfg.storage /\ cfg'.formats = cfg.formats \cup {pair}
      /\ \A g \in Fields : cfg'[g] = cfg[g]
  BY <1>1, <1>2
<1>4. l.value # <<>>
  BY <1>1, LineShape, SplitsToSome
<1>5. /\ IsFiniteSet(read') /\ \A m, n \in read' : m.key = n.key => m = n
      /\ l \in read' /\ read \subseteq read' /\ \A m \in read : m.key # l.key
      /\ \A m \in read' : m \in read \/ m = l
      /\ Keys(read)' = Keys(read) \cup {l.key}
  BY NewKey
<1>6. /\ \A m \in read : FieldSet(m) => FieldSet(m)'
      /\ \A g \in Fields : (\A m \in read' : m.key # <<g>>) => cfg'[g] = Defaults[g]
  BY <1>1, <1>3, FieldsStay
<1>7. ASSUME NEW m \in read' PROVE (FieldSet(m) \/ TypeSet(m) \/ DirSet(m) \/ FormatSet(m))'
  <2>1. CASE m = l
    BY <1>1, <1>4, <2>1 DEF FormatSet
  <2>2. CASE m \in read
    <3>1. FieldSet(m) \/ TypeSet(m) \/ DirSet(m) \/ FormatSet(m)
      BY <2>2 DEF ReadInv
    <3> QED
      BY <1>3, <1>6, <2>2, <3>1 DEF TypeSet, DirSet, FormatSet
  <2> QED
    BY <1>5, <2>1, <2>2
<1>8. (cfg.storage = None <=> <<"storage", "type">> \notin Keys(read))'
  <2>1. l.key # <<"storage", "type">>
    BY <1>1
  <2> QED
    BY <1>3, <1>5, <2>1 DEF ReadInv
<1>9. ASSUME cfg'.storage # None
      PROVE  /\ cfg'.storage \in [Dirs -> Seq(STRING)]
             /\ \A d \in Dirs :
                  (\A m \in read' : m.key # <<"storage", d>>) => cfg'.storage[d] = <<>>
  BY <1>3, <1>5, <1>9 DEF ReadInv
<1>10. cfg'.formats # {} /\ ~\A m \in read' : m.key[1] # "formats"
  BY <1>1, <1>3, <1>5
<1> QED
  BY <1>5, <1>6, <1>7, <1>8, <1>9, <1>10 DEF ReadInv

\* Every step keeps what was read.
LEMMA ReadStep ==
  ASSUME ParserInv, ReadInv, [Next]_vars
  PROVE  ReadInv'
<1>1. ASSUME NEW l \in Lines, ReadLine(l) PROVE ReadInv'
  <2>1. ~Seen(l) /\ cfg' \in Applied(l) /\ read' = read \cup {l}
    BY <1>1 DEF ReadLine
  <2> QED
    BY <2>1, FieldRead, TypeRead, DirRead, FormatRead DEF Applied
<1>2. ASSUME UNCHANGED <<read, cfg>> PROVE ReadInv'
  BY <1>2 DEF ReadInv, FieldSet, TypeSet, DirSet, FormatSet, Keys
<1>3. ASSUME NEW l \in Lines, RefuseLine(l) PROVE ReadInv'
  BY <1>2, <1>3 DEF RefuseLine
<1>4. CASE EndOfFile
  BY <1>2, <1>4 DEF EndOfFile
<1>5. CASE UNCHANGED parser
  BY <1>2, <1>5 DEF parser
<1> QED
  BY <1>1, <1>3, <1>4, <1>5 DEF Next, LoadImage, Expand, vars

\* Every step keeps the reason.
LEMMA VerdictStep ==
  ASSUME ParserInv, VerdictInv, [Next]_vars
  PROVE  VerdictInv'
<1>1. ASSUME NEW l \in Lines, ReadLine(l) PROVE VerdictInv'
  BY <1>1 DEF ReadLine, VerdictInv
<1>2. ASSUME NEW l \in Lines, RefuseLine(l) PROVE VerdictInv'
  <2>1. phase' = "refused" /\ bad' = l /\ l # None /\ UNCHANGED <<read, cfg>>
        /\ (Seen(l) \/ Applied(l) = {})
    BY <1>2, ConfigAssumption DEF RefuseLine
  <2>2. Seen(l)' = Seen(l) /\ Applied(l)' = Applied(l)
    BY <2>1 DEF Seen, Keys, Applied, SetField, SetStorageType, SetStorage, SetFormats
  <2>3. (Seen(bad) \/ Applied(bad) = {})'
    BY <2>1, <2>2 DEF Seen, Applied, SetField, SetStorageType, SetStorage, SetFormats
  <2> QED
    BY <2>1, <2>3 DEF VerdictInv
<1>3. CASE EndOfFile
  BY <1>3 DEF EndOfFile, VerdictInv, Valid
<1>4. CASE UNCHANGED parser
  BY <1>4 DEF parser, VerdictInv, Valid, Seen, Keys, Applied, SetField, SetStorageType,
              SetStorage, SetFormats
<1> QED
  BY <1>1, <1>2, <1>3, <1>4 DEF Next, LoadImage, Expand, vars

-----------------------------------------------------------------------------
(* What is documented.                                                      *)

\* What is documented, field by field.
LEMMA DocumentedFields ==
  /\ DOMAIN Documented = {"listen_port", "processing_timeout_secs", "socket_kill_timeout_secs",
                          "thread_pool_size", "upload_limit", "sizes"}
  /\ Documented["listen_port"] = Integer(ShortRange - 1)
  /\ Documented["processing_timeout_secs"] = Integer(IntMax)
  /\ Documented["socket_kill_timeout_secs"] = Integer(IntMax)
  /\ Documented["thread_pool_size"] = Integer(IntMax)
  /\ \A v \in Documented["upload_limit"] :
       /\ v[2] < UnsignedRange
       /\ \E n \in Nat, f \in DOMAIN Factor : v = <<Append(Text(n), f), n * Factor[f]>>
  /\ \A v \in Documented["sizes"] :
       \E a, b \in SpecSet :
         \/ v = <<SpecText(a), <<a>>>>
         \/ v = <<SpecText(a) \o <<",">> \o SpecText(b), <<a, b>>>>
<1> DEFINE Port == Integer(ShortRange - 1)
<1> DEFINE Int32 == Integer(IntMax)
<1> DEFINE Bytes(n, f) == <<Append(Text(n), f), n * Factor[f]>>
<1> DEFINE Size1(a) == <<SpecText(a), <<a>>>>
<1> DEFINE Size2(a, b) == <<SpecText(a) \o <<",">> \o SpecText(b), <<a, b>>>>
<1> DEFINE AllBytes == {Bytes(n, f) : n \in 1..IntMax \div Kilo, f \in DOMAIN Factor}
<1> DEFINE Limits == {v \in AllBytes : v[2] < UnsignedRange}
<1> DEFINE Specs1 == {Size1(a) : a \in SpecSet}
<1> DEFINE Specs2 == {Size2(a, b) : a, b \in SpecSet}
<1> DEFINE Lists == Specs1 \cup Specs2
<1>1. Documented = [listen_port |-> Port, processing_timeout_secs |-> Int32,
                    socket_kill_timeout_secs |-> Int32, thread_pool_size |-> Int32,
                    upload_limit |-> Limits, sizes |-> Lists]
  BY DEF Documented
<1> HIDE DEF Bytes, Size1, Size2
<1>2. \A v \in Limits : v[2] < UnsignedRange /\ \E n \in Nat, f \in DOMAIN Factor : v = Bytes(n, f)
  OBVIOUS
<1>3. \A v \in Lists : \E a, b \in SpecSet : v = Size1(a) \/ v = Size2(a, b)
  <2>1. \A v \in Specs1 : \E a, b \in SpecSet : v = Size1(a)
    OBVIOUS
  <2>2. \A v \in Specs2 : \E a, b \in SpecSet : v = Size2(a, b)
    OBVIOUS
  <2> HIDE DEF Specs1, Specs2
  <2> QED
    BY <2>1, <2>2
<1> HIDE DEF Port, Int32, Limits, Lists
<1>4. /\ DOMAIN Documented = {"listen_port", "processing_timeout_secs",
                              "socket_kill_timeout_secs", "thread_pool_size", "upload_limit",
                              "sizes"}
      /\ Documented["listen_port"] = Port
      /\ Documented["processing_timeout_secs"] = Int32
      /\ Documented["socket_kill_timeout_secs"] = Int32
      /\ Documented["thread_pool_size"] = Int32
      /\ Documented["upload_limit"] = Limits
      /\ Documented["sizes"] = Lists
  BY <1>1
<1> HIDE DEF AllBytes, Specs1, Specs2
<1>5. /\ \A v \in Documented["upload_limit"] :
           v[2] < UnsignedRange /\ \E n \in Nat, f \in DOMAIN Factor : v = Bytes(n, f)
      /\ \A v \in Documented["sizes"] : \E a, b \in SpecSet : v = Size1(a) \/ v = Size2(a, b)
  BY <1>2, <1>3, <1>4
<1> QED
  BY <1>4, <1>5 DEF Port, Int32, Bytes, Size1, Size2

\* Documented values are parsed to what they mean.
LEMMA DocumentedParsed ==
  ASSUME NEW f \in DOMAIN Documented, NEW v \in Documented[f]
  PROVE  Parsed(f, v[1]) = {v[2]}
<1>1. f \in {"listen_port", "processing_timeout_secs", "socket_kill_timeout_secs",
             "thread_pool_size", "upload_limit", "sizes"}
  BY DocumentedFields
<1>2. CASE f = "listen_port"
  <2>1. PICK n \in 1..ShortRange - 1 : v = <<Text(n), n>>
    BY <1>2, DocumentedFields DEF Integer
  <2>2. n \in 0..IntMax /\ n < ShortRange
    BY <2>1, ConfigAssumption, TextAssumption, Ranges
  <2>3. StringViewToInt(v[1]) = {n} /\ Short(n) = n /\ v[2] = n
    BY <2>1, <2>2, IntegerOf
  <2>4. Parsed(f, v[1]) = {Short(m) : m \in StringViewToInt(v[1])}
    BY <1>2 DEF Parsed
  <2> QED
    BY <2>3, <2>4
<1>3. CASE f \in {"processing_timeout_secs", "socket_kill_timeout_secs", "thread_pool_size"}
  <2>1. v \in Integer(IntMax)
    BY <1>3, DocumentedFields
  <2>2. PICK n \in 1..IntMax : v = <<Text(n), n>>
    BY <2>1 DEF Integer
  <2>3. n \in 0..IntMax
    BY <2>2, Ranges
  <2>4. StringViewToInt(v[1]) = {n} /\ Unsigned(n) = n /\ v[2] = n
    BY <2>2, <2>3, IntegerOf
  <2>5. Parsed(f, v[1]) = {Unsigned(m) : m \in StringViewToInt(v[1])}
    BY <1>3 DEF Parsed
  <2> QED
    BY <2>4, <2>5
<1>4. CASE f = "upload_limit"
  <2>1. PICK n \in Nat, g \in DOMAIN Factor : v = <<Append(Text(n), g), n * Factor[g]>>
    BY <1>4, DocumentedFields
  <2>2. v[2] < UnsignedRange
    BY <1>4, DocumentedFields
  <2>3. v[1] = Append(Text(n), g) /\ v[2] = n * Factor[g]
    BY <2>1
  <2>4. ParseBytes(v[1]) = {v[2]}
    BY <2>2, <2>3, BytesOf
  <2> QED
    BY <1>4, <2>4 DEF Parsed
<1>5. CASE f = "sizes"
  <2>1. Parsed(f, v[1]) = ParseSpecs(v[1])
    BY <1>5 DEF Parsed
  <2>2. PICK a \in SpecSet, b \in SpecSet :
          \/ v = <<SpecText(a), <<a>>>>
          \/ v = <<SpecText(a) \o <<",">> \o SpecText(b), <<a, b>>>>
    BY <1>5, DocumentedFields
  <2>3. CASE v = <<SpecText(a), <<a>>>>
    <3>1. v[1] = SpecText(a) /\ v[2] = <<a>>
      BY <2>3
    <3> QED
      BY <2>1, <3>1, SpecsOf
  <2>4. CASE v = <<SpecText(a) \o <<",">> \o SpecText(b), <<a, b>>>>
    <3>1. v[1] = SpecText(a) \o <<",">> \o SpecText(b) /\ v[2] = <<a, b>>
      BY <2>4
    <3> QED
      BY <2>1, <3>1, SpecsOf
  <2> QED
    BY <2>2, <2>3, <2>4
<1> QED
  BY <1>1, <1>2, <1>3, <1>4, <1>5

\* The documented fields are fields.
LEMMA DocumentedAreFields == DOMAIN Documented \subseteq Fields
BY DocumentedFields DEF Fields

\* What was read means what the example file says.
LEMMA ReadAsWritten == ReadInv => AsWritten
<1> SUFFICES ASSUME ReadInv PROVE AsWritten
  OBVIOUS
<1>1. ASSUME NEW l \in read, NEW f \in DOMAIN Documented, l.key = <<f>>,
             NEW v \in Documented[f], l.value = v[1]
      PROVE  cfg[f] = v[2]
  <2>1. FieldSet(l) \/ TypeSet(l) \/ DirSet(l) \/ FormatSet(l)
    BY DEF ReadInv
  <2>2. Len(l.key) = 1 /\ l.key[1] = f
    BY <1>1
  <2>3. ~TypeSet(l) /\ ~DirSet(l) /\ ~FormatSet(l)
    BY <2>2 DEF TypeSet, DirSet, FormatSet
  <2>4. cfg[f] \in Parsed(f, v[1])
    BY <1>1, <2>1, <2>2, <2>3 DEF FieldSet
  <2> QED
    BY <2>4, DocumentedParsed
<1>2. ASSUME NEW f \in DOMAIN DocumentedDefaults, Absent(f)
      PROVE  cfg[f] = DocumentedDefaults[f] <=> f \notin TimeoutFields
  <2>1. f \in {"listen_host", "listen_port", "thread_pool_size", "upload_limit", "auth_token"}
               \cup TimeoutFields
    BY <1>2 DEF DocumentedDefaults, TimeoutFields
  <2>2. f \in Fields /\ \A l \in read : l.key # <<f>>
    BY <1>2, <2>1, FieldNames DEF Fields, Absent, TimeoutFields
  <2>3. cfg[f] = Defaults[f]
    BY <2>2 DEF ReadInv
  <2> QED
    BY <2>1, <2>3 DEF Defaults, DocumentedDefaults, TimeoutFields
<1> QED
  BY <1>1, <1>2 DEF AsWritten

\* The sizes of a configuration are those of a line, which are some if and only
\* if something is there.
LEMMA SizesThere ==
  ASSUME ParserInv, ReadInv
  PROVE  cfg.sizes = <<>> <=> \A l \in read : l.key # <<"sizes">> \/ l.value = <<>>
<1>1. ASSUME NEW l \in read, l.key = <<"sizes">>
      PROVE  cfg.sizes # <<>> <=> l.value # <<>>
  <2>1. FieldSet(l) \/ TypeSet(l) \/ DirSet(l) \/ FormatSet(l)
    BY DEF ReadInv
  <2>2. Len(l.key) = 1 /\ l.key[1] = "sizes"
    BY <1>1
  <2>3. ~TypeSet(l) /\ ~DirSet(l) /\ ~FormatSet(l)
    BY <2>2 DEF TypeSet, DirSet, FormatSet
  <2>4. cfg.sizes \in ParseSpecs(l.value)
    BY <2>1, <2>2, <2>3 DEF FieldSet, Parsed
  <2>5. l.value \in Seq(STRING)
    BY LineShape DEF ParserInv
  <2> QED
    BY <2>4, <2>5, SomeSizes
<1>2. (\A l \in read : l.key # <<"sizes">>) => cfg.sizes = <<>>
  BY DEF ReadInv, Fields, Defaults
<1> QED
  BY <1>1, <1>2

\* What parse asks for in the end is there if and only if nothing is missing.
LEMMA Completeness ==
  ASSUME ParserInv, ReadInv
  PROVE  Valid <=> ~Incomplete /\ ~Timeouts
<1>1. cfg.sizes = <<>> <=> \A l \in read : l.key # <<"sizes">> \/ l.value = <<>>
  BY SizesThere
<1>2. cfg.formats = {} <=> \A l \in read : l.key[1] # "formats"
  BY DEF ReadInv
<1>3. /\ cfg.processing_timeout_secs \in Int /\ cfg.socket_kill_timeout_secs \in Int
      /\ cfg.processing_timeout_secs >= 0
  BY Ranges DEF ParserInv, GoodConfig
<1>4. Timeouts <=> ~(/\ cfg.socket_kill_timeout_secs > cfg.processing_timeout_secs
                     /\ cfg.processing_timeout_secs # 0)
  BY <1>3 DEF Timeouts
<1>5. ASSUME NEW l \in read, NEW x \in Dirs \cup {"type"}, l.key = <<"storage", x>>
      PROVE  /\ x = "type" => l.value = <<"fs">>
             /\ x \in Dirs => cfg.storage # None /\ cfg.storage[x] = l.value
  <2>1. FieldSet(l) \/ TypeSet(l) \/ DirSet(l) \/ FormatSet(l)
    BY DEF ReadInv
  <2>2. Len(l.key) = 2 /\ l.key[1] = "storage" /\ l.key[2] = x
    BY <1>5
  <2>3. ~FieldSet(l) /\ ~FormatSet(l)
    BY <2>2 DEF FieldSet, FormatSet
  <2>4. CASE TypeSet(l)
    <3>1. l.key[2] = "type" /\ l.value = <<"fs">>
      BY <2>4 DEF TypeSet
    <3>2. x = "type"
      BY <2>2, <3>1
    <3> QED
      BY <3>1, <3>2 DEF Dirs
  <2>5. CASE DirSet(l)
    BY <2>2, <2>5 DEF DirSet, Dirs
  <2> QED
    BY <2>1, <2>3, <2>4, <2>5
<1>6. <<"fs">> # <<>>
  OBVIOUS
<1> DEFINE Missing(key) == \A l \in read : l.key # key \/ l.value = <<>>
<1>7. Missing(<<"storage", "type">>) <=> cfg.storage = None
  <2>1. cfg.storage = None <=> \A l \in read : l.key # <<"storage", "type">>
    BY DEF ReadInv, Keys
  <2> QED
    BY <1>5, <1>6, <2>1
<1>8. ASSUME NEW d \in Dirs, cfg.storage # None
      PROVE  Missing(<<"storage", d>>) <=> cfg.storage[d] = <<>>
  <2>1. (\A l \in read : l.key # <<"storage", d>>) => cfg.storage[d] = <<>>
    BY <1>8 DEF ReadInv
  <2>2. \A l \in read : l.key = <<"storage", d>> => cfg.storage[d] = l.value
    BY <1>5
  <2> QED
    BY <2>1, <2>2
<1>9. "data_dir" \in Dirs /\ "temp_dir" \in Dirs
  BY DEF Dirs
<1>10. Incomplete <=> \/ Missing(<<"sizes">>) \/ Missing(<<"storage", "type">>)
                      \/ Missing(<<"storage", "data_dir">>) \/ Missing(<<"storage", "temp_dir">>)
                      \/ \A l \in read : l.key[1] # "formats"
  <2> DEFINE K == {<<"sizes">>, <<"storage", "type">>, <<"storage", "data_dir">>,
                   <<"storage", "temp_dir">>}
  <2>1. Incomplete <=> (\E key \in K : Missing(key)) \/ \A l \in read : l.key[1] # "formats"
    BY DEF Incomplete
  <2> HIDE DEF Missing
  <2> QED
    BY <2>1
<1>11. Missing(<<"sizes">>) <=> cfg.sizes = <<>>
  BY <1>1
<1> HIDE DEF Missing
<1>12. CASE cfg.storage = None
  BY <1>7, <1>10, <1>12 DEF Valid
<1>13. CASE cfg.storage # None
  <2>1. /\ Missing(<<"storage", "data_dir">>) <=> cfg.storage.data_dir = <<>>
        /\ Missing(<<"storage", "temp_dir">>) <=> cfg.storage.temp_dir = <<>>
    BY <1>8, <1>9, <1>13
  <2> QED
    BY <1>2, <1>4, <1>7, <1>10, <1>11, <1>13, <2>1 DEF Valid
<1> QED
  BY <1>12, <1>13

\* A line that cannot be applied is one that the example file does not allow, or
\* has a storage key before storage.type.
LEMMA NotApplied ==
  ASSUME ReadInv, NEW l \in Lines, Applied(l) = {}
  PROVE  \/ Undocumented(l)
         \/ l.key[1] = "storage" /\ <<"storage", "type">> \notin Keys(read)
<1> SUFFICES ASSUME ~Undocumented(l)
             PROVE  l.key[1] = "storage" /\ <<"storage", "type">> \notin Keys(read)
  OBVIOUS
<1>1. SetField(l) = {} /\ SetStorageType(l) = {} /\ SetStorage(l) = {} /\ SetFormats(l) = {}
  BY DEF Applied
<1>2. ASSUME Len(l.key) = 1, l.key[1] \in Fields, Parsed(l.key[1], l.value) # {} PROVE FALSE
  <2>1. PICK x : x \in Parsed(l.key[1], l.value)
    BY <1>2
  <2>2. [cfg EXCEPT ![l.key[1]] = x] \in SetField(l)
    BY <1>2, <2>1 DEF SetField
  <2> QED
    BY <1>1, <2>2
<1>3. CASE Len(l.key) = 1 /\ l.key[1] \in DOMAIN Documented
  <2>1. l.value \in {v[1] : v \in Documented[l.key[1]]}
    BY <1>3 DEF Undocumented
  <2>2. PICK v \in Documented[l.key[1]] : l.value = v[1]
    BY <2>1
  <2>3. Parsed(l.key[1], l.value) = {v[2]}
    BY <1>3, <2>2, DocumentedParsed
  <2> QED
    BY <1>2, <1>3, <2>3, DocumentedAreFields
<1>4. CASE Len(l.key) = 2 /\ l.key[1] = "formats"
  <2>1. l.value # <<>>
    BY <1>4 DEF Undocumented
  <2>2. Split(l.value) # <<>>
    BY <2>1, LineShape, SplitsToSome
  <2>3. SetFormats(l) # {}
    BY <1>4, <2>2 DEF SetFormats
  <2> QED
    BY <1>1, <2>3
<1>5. CASE ~(Len(l.key) = 1 /\ l.key[1] \in DOMAIN Documented)
           /\ ~(Len(l.key) = 2 /\ l.key[1] = "formats")
  <2>1. \/ <<l.key, l.value>> = <<<<"storage", "type">>, <<"fs">>>>
        \/ l.key \in {<<"storage", "data_dir">>, <<"storage", "temp_dir">>,
                      <<"listen_host">>, <<"auth_token">>}
    BY <1>5 DEF Undocumented
  <2>2. CASE <<l.key, l.value>> = <<<<"storage", "type">>, <<"fs">>>>
    <3>1. l.key = <<"storage", "type">> /\ l.value = <<"fs">>
      BY <2>2
    <3>2. SetStorageType(l) # {}
      BY <3>1 DEF SetStorageType
    <3> QED
      BY <1>1, <3>2
  <2>3. CASE l.key \in {<<"storage", "data_dir">>, <<"storage", "temp_dir">>}
    <3>1. Len(l.key) = 2 /\ l.key[1] = "storage" /\ l.key[2] \in Dirs
      BY <2>3 DEF Dirs
    <3>2. cfg.storage = None
      <4> SUFFICES ASSUME cfg.storage # None PROVE FALSE
        OBVIOUS
      <4>1. SetStorage(l) # {}
        BY <3>1, StorageKeys DEF SetStorage
      <4> QED
        BY <1>1, <4>1
    <3> QED
      BY <3>1, <3>2 DEF ReadInv
  <2>4. CASE l.key \in {<<"listen_host">>, <<"auth_token">>}
    <3>1. Len(l.key) = 1 /\ l.key[1] \in {"listen_host", "auth_token"}
      BY <2>4
    <3>2. l.key[1] \in Fields
      BY <3>1 DEF Fields
    <3>3. Parsed(l.key[1], l.value) # {}
      BY <3>1 DEF Parsed
    <3> QED
      BY <1>2, <3>1, <3>2, <3>3
  <2> QED
    BY <2>1, <2>2, <2>3, <2>4
<1> QED
  BY <1>3, <1>4, <1>5

\* There are as many keys as lines.
LEMMA KeysCounted ==
  ASSUME ReadInv
  PROVE  Cardinality(Keys(read)) = Cardinality(read)
<1> DEFINE key == [l \in read |-> l.key]
<1>1. key \in [read -> Keys(read)]
  BY DEF Keys
<1>2. \A l, m \in read : key[l] = key[m] => l = m
  BY DEF ReadInv
<1>3. \A x \in Keys(read) : \E l \in read : key[l] = x
  BY DEF Keys
<1> HIDE DEF key
<1>4. key \in Bijection(read, Keys(read))
  BY <1>1, <1>2, <1>3 DEF Bijection, Injection, Surjection, IsInjective
<1>5. ExistsBijection(read, Keys(read))
  BY <1>4 DEF ExistsBijection
<1> QED
  BY <1>5, FS_Bijection DEF ReadInv

\* The verdict has its reasons.
LEMMA Reasons ==
  ASSUME ParserInv, ReadInv, VerdictInv
  PROVE  Verdict
<1>1. Valid <=> ~Incomplete /\ ~Timeouts
  BY Completeness
<1>2. ASSUME phase = "refused", bad # None
      PROVE  \/ Undocumented(bad)
             \/ \E l \in read : l.key = bad.key
             \/ bad.key[1] = "storage" /\ <<"storage", "type">> \notin Keys(read)
  <2>1. bad \in Lines /\ (Seen(bad) \/ Applied(bad) = {})
    BY <1>2 DEF ParserInv, VerdictInv
  <2>2. CASE Seen(bad)
    BY <2>2 DEF Seen, Keys
  <2>3. CASE Applied(bad) = {}
    BY <2>1, <2>3, NotApplied
  <2> QED
    BY <2>1, <2>2, <2>3
<1>3. phase = "refused" /\ bad = None => Incomplete \/ Timeouts
  BY <1>1 DEF VerdictInv
<1>4. phase = "accepted" => ~Incomplete /\ ~Timeouts
  BY <1>1 DEF VerdictInv
<1> QED
  BY <1>2, <1>3, <1>4, KeysCounted DEF Verdict

-----------------------------------------------------------------------------
(* The sizes of one specification.                                          *)

\* The sequence that the comment on size_spec describes.
Size(s, w) ==
  CHOOSE size : size = [n \in 0..w |-> IF n = 0 THEN w ELSE GetSizes!Reduced(s, size[n - 1])]

\* The widths that are reached: those of a percentage do not go below 0.
Reached(s) == {v \in Int : s.decrement_is_pct => v >= 0}

\* The rounded quotient is the percentage rounded up, and not more than the width.
LEMMA Percentage ==
  ASSUME NEW v \in Nat, NEW p \in 1..99
  PROVE  LET d == GetSizes!DivRoundUp(v * p, 100)
         IN d = GetSizes!CeilPercent(v, p) /\ d \in 0..v /\ (v > 0 => d > 0)
<1> DEFINE q == v * p
<1> DEFINE d == (q + 100 - 1) \div 100
<1>1. q \in Nat /\ q <= 100 * v /\ (v > 0 => q > 0)
  <2>1. \A x, y \in Nat : x * y \in Nat /\ (x > 0 /\ y > 0 => x * y > 0)
    OBVIOUS
  <2>2. v * p \in Nat /\ (v > 0 => v * p > 0)
    BY <2>1
  <2>3. v * (100 - p) \in Nat
    BY <2>1
  <2>4. v * p + v * (100 - p) = 100 * v
    OBVIOUS
  <2> QED
    BY <2>2, <2>3, <2>4
<1>2. GetSizes!CeilPercent(v, p) = CHOOSE n \in 0..v : 100 * n >= q /\ 100 * (n - 1) < q
  BY DEF GetSizes!CeilPercent
<1>3. GetSizes!DivRoundUp(v * p, 100) = d
  BY DEF GetSizes!DivRoundUp
<1> HIDE DEF q
<1>4. d \in 0..v /\ 100 * d >= q /\ 100 * (d - 1) < q /\ (v > 0 => d > 0)
  BY <1>1
<1>5. \A n \in 0..v : 100 * n >= q /\ 100 * (n - 1) < q => n = d
  BY <1>1, <1>4
<1> HIDE DEF d
<1> QED
  BY <1>2, <1>3, <1>4, <1>5

\* What the loop takes off is what the comment says, and it is something
\* unless the width is 0 already.
LEMMA Descent ==
  ASSUME NEW s \in GoodSpec, s.decrement # 0, NEW v \in Reached(s)
  PROVE  /\ GetSizes!Reduced(s, v) \in Reached(s)
         /\ v \in Nat => GetSizes!Reduced(s, v) = v - GetSizes!Decrement(s, v)
         /\ v \in Nat => GetSizes!Decrement(s, v) \in Nat
         /\ GetSizes!Reduced(s, v) <= v
         /\ v > 0 => GetSizes!Reduced(s, v) < v
<1>1. CASE s.decrement_is_pct
  <2>1. s.decrement \in 1..99 /\ v \in Nat
    BY <1>1 DEF GoodSpec, Reached
  <2> DEFINE d == GetSizes!DivRoundUp(v * s.decrement, 100)
  <2>2. d = GetSizes!CeilPercent(v, s.decrement) /\ d \in 0..v /\ (v > 0 => d > 0)
    BY <2>1, Percentage
  <2>3. GetSizes!Reduced(s, v) = v - d /\ GetSizes!Decrement(s, v) = d
    BY <1>1, <2>2 DEF GetSizes!Reduced, GetSizes!Decrement
  <2> HIDE DEF d
  <2> QED
    BY <2>1, <2>2, <2>3 DEF Reached
<1>2. CASE ~s.decrement_is_pct
  <2>1. s.decrement \in Nat \ {0} /\ v \in Int
    BY DEF GoodSpec, Reached
  <2>2. GetSizes!Reduced(s, v) = v - s.decrement /\ GetSizes!Decrement(s, v) = s.decrement
    BY <1>2 DEF GetSizes!Reduced, GetSizes!Decrement
  <2> QED
    BY <1>2, <2>1, <2>2 DEF Reached
<1> QED
  BY <1>1, <1>2

\* The sequence exists.
LEMMA Sizing ==
  ASSUME NEW s \in GoodSpec, s.decrement # 0, NEW w \in Nat
  PROVE  /\ GetSizes!Sequence(s, w) = {Size(s, w)[n] : n \in 0..w}
         /\ Size(s, w) \in [0..w -> Reached(s)]
         /\ Size(s, w)[0] = w
         /\ \A n \in 1..w : Size(s, w)[n] = GetSizes!Reduced(s, Size(s, w)[n - 1])
<1> DEFINE Value(h) == h = [n \in 0..w |-> IF n = 0 THEN w ELSE GetSizes!Reduced(s, h[n - 1])]
<1> DEFINE size == CHOOSE h : Value(h)
<1> DEFINE S == Reached(s)
<1> DEFINE g == [n \in 1..w |-> [v \in S |-> GetSizes!Reduced(s, v)]]
<1> DEFINE f == Steps(w, S, w, g)
<1>1. w \in S
  BY DEF Reached
<1>2. \A v \in S : GetSizes!Reduced(s, v) \in S
  BY Descent
<1>3. g \in [1..w -> [S -> S]] /\ \A n \in 1..w, v \in S : g[n][v] = GetSizes!Reduced(s, v)
  <2> HIDE DEF S
  <2> QED
    BY <1>2
<1>4. f \in [0..w -> S] /\ f[0] = w /\ \A n \in 1..w : f[n] = g[n][f[n - 1]]
  <2>1. w \in Nat /\ w \in S /\ g \in [1..w -> [S -> S]]
    BY <1>1, <1>3
  <2> HIDE DEF S, g
  <2> DEFINE a == w
  <2> DEFINE m == w
  <2>2. m \in Nat /\ a \in S /\ g \in [1..m -> [S -> S]]
    BY <2>1
  <2> HIDE DEF a, m
  <2>3. /\ Steps(m, S, a, g) \in [0..m -> S]
        /\ Steps(m, S, a, g)[0] = a
        /\ \A n \in 1..m : Steps(m, S, a, g)[n] = g[n][Steps(m, S, a, g)[n - 1]]
    BY <2>2, Recursion
  <2> QED
    BY <2>3 DEF a, m
<1> HIDE DEF f, g, S
<1>5. /\ \A n \in 1..w : n - 1 \in 0..w /\ n # 0
      /\ \A n \in 0..w : n = 0 \/ n \in 1..w
      /\ 0 \in 0..w
  OBVIOUS
<1>6. \A n \in 1..w : f[n] = GetSizes!Reduced(s, f[n - 1])
  BY <1>3, <1>4, <1>5
<1>7. Value(f)
  BY <1>4, <1>5, <1>6
<1>8. Value(size)
  BY <1>7
<1>9. size = Size(s, w) /\ GetSizes!Sequence(s, w) = {size[n] : n \in 0..w}
  BY DEF Size, GetSizes!Sequence
<1> HIDE DEF size
<1>10. /\ size[0] = w
       /\ \A n \in 1..w : size[n] = GetSizes!Reduced(s, size[n - 1])
       /\ DOMAIN size = 0..w /\ size = [n \in 0..w |-> size[n]]
  BY <1>5, <1>8
<1> HIDE DEF Value
<1> DEFINE G == {n \in 0..w : size[n] \in S}
<1>11. 0 \in G
  BY <1>1, <1>5, <1>10
<1>12. ASSUME NEW n \in 1..w, n - 1 \in G PROVE n \in G
  <2>1. size[n - 1] \in S /\ n \in 0..w
    BY <1>12
  <2>2. size[n] \in S
    BY <1>2, <1>10, <2>1
  <2> QED
    BY <2>1, <2>2
<1>13. 0..w \subseteq G
  <2> HIDE DEF G
  <2> QED
    BY <1>11, <1>12, UpTo
<1>14. size \in [0..w -> S]
  BY <1>10, <1>13
<1> QED
  BY <1>9, <1>10, <1>14 DEF S

\* It comes down, and by its end to 0.
LEMMA Sinking ==
  ASSUME NEW s \in GoodSpec, s.decrement # 0, NEW w \in Nat
  PROVE  /\ Size(s, w)[w] <= 0
         /\ \A i, j \in 0..w : i <= j => Size(s, w)[j] <= Size(s, w)[i]
<1> DEFINE h == Size(s, w)
<1>1. \A n \in 0..w : h[n] \in Int /\ h[n] \in Reached(s)
  BY Sizing DEF Reached
<1>2. h[0] = w
  BY Sizing
<1>3. \A n \in 1..w : h[n] <= h[n - 1] /\ (h[n - 1] > 0 => h[n] < h[n - 1])
  <2> SUFFICES ASSUME NEW n \in 1..w PROVE h[n] <= h[n - 1] /\ (h[n - 1] > 0 => h[n] < h[n - 1])
    OBVIOUS
  <2>1. h[n] = GetSizes!Reduced(s, h[n - 1])
    BY Sizing
  <2>2. n - 1 \in 0..w
    OBVIOUS
  <2> HIDE DEF h
  <2>3. h[n - 1] \in Reached(s)
    BY <1>1, <2>2
  <2> QED
    BY <2>1, <2>3, Descent
<1> HIDE DEF h
<1>4. h[w] <= 0
  <2> DEFINE G == {n \in 0..w : h[n] <= w - n \/ h[n] <= 0}
  <2>1. 0 \in G
    BY <1>2
  <2>2. ASSUME NEW n \in 1..w, n - 1 \in G PROVE n \in G
    <3>1. n \in 0..w /\ n - 1 \in 0..w
      OBVIOUS
    <3>2. h[n] \in Int /\ h[n - 1] \in Int
      BY <1>1, <3>1
    <3> QED
      BY <1>3, <2>2, <3>1, <3>2
  <2> HIDE DEF G
  <2>3. w \in G
    BY <2>1, <2>2, UpTo
  <2> QED
    BY <1>1, <2>3 DEF G
<1>5. ASSUME NEW i \in 0..w PROVE \A j \in 0..w : i <= j => h[j] <= h[i]
  <2> DEFINE G == {n \in 0..w : i <= n => h[n] <= h[i]}
  <2>1. 0 \in G
    BY <1>1, <1>2
  <2>2. ASSUME NEW n \in 1..w, n - 1 \in G PROVE n \in G
    <3>1. n \in 0..w /\ n - 1 \in 0..w
      OBVIOUS
    <3>2. h[n] \in Int /\ h[n - 1] \in Int /\ h[i] \in Int
      BY <1>1, <3>1
    <3> QED
      BY <1>3, <2>2, <3>1, <3>2
  <2> HIDE DEF G
  <2>3. 0..w \subseteq G
    BY <2>1, <2>2, UpTo
  <2> QED
    BY <2>3 DEF G
<1> QED
  BY <1>4, <1>5 DEF h

-----------------------------------------------------------------------------
(* The loop.                                                                *)

\* What the specifications before the one at hand contributed.
Done == UNION {GetSizes!Described(cfg.sizes[n], original) : n \in 1..k - 1}

\* The loop of the one at hand stands at the j-th width of its sequence, and
\* has inserted those before it.
AtWidth(j) ==
  LET s == cfg.sizes[k]
      size == Size(s, original)
  IN /\ width = size[j]
     /\ \A i \in 0..j - 1 : size[i] \in result /\ size[i] >= s.fixed_value
     /\ Done \subseteq result
     /\ result \subseteq Done \cup GetSizes!Described(s, original)

\* The loop is at one of the widths of its sequence; between two loops the
\* result is what the specifications before contributed.
LoopInv ==
  /\ original \in Nat
  /\ k \in 0..Len(cfg.sizes) + 1
  /\ looping \in BOOLEAN
  /\ width \in Nat
  /\ result \in SUBSET Nat
  /\ k > 0 => phase = "accepted"
  /\ ~looping => result = Done
  /\ looping => /\ k \in DOMAIN cfg.sizes /\ cfg.sizes[k].decrement # 0
                /\ \E j \in 0..original : AtWidth(j)

\* The widths before the one at which the loop ends are the ones described.
LEMMA DescribedSizes ==
  ASSUME NEW s \in GoodSpec, s.decrement # 0, NEW w \in Nat
  PROVE  /\ \A n \in 0..w : Size(s, w)[n] >= s.fixed_value =>
                              Size(s, w)[n] \in GetSizes!Described(s, w)
         /\ \A v \in GetSizes!Described(s, w) :
              v >= s.fixed_value /\ \E n \in 0..w : v = Size(s, w)[n]
<1> DEFINE h == Size(s, w)
<1>1. GetSizes!Sequence(s, w) = {h[n] : n \in 0..w}
  BY Sizing
<1>2. GetSizes!Described(s, w) = {v \in GetSizes!Sequence(s, w) : v >= s.fixed_value}
  BY DEF GetSizes!Described
<1> HIDE DEF h
<1>3. GetSizes!Described(s, w) = {v \in {h[n] : n \in 0..w} : v >= s.fixed_value}
  BY <1>1, <1>2
<1>4. /\ \A n \in 0..w : h[n] >= s.fixed_value => h[n] \in GetSizes!Described(s, w)
      /\ \A v \in GetSizes!Described(s, w) : v >= s.fixed_value /\ \E n \in 0..w : v = h[n]
  BY <1>3
<1> QED
  BY <1>4 DEF h

\* A specification that is done with is added to those before it.
LEMMA DoneWith ==
  ASSUME k \in Nat \ {0}, k' = k + 1, UNCHANGED <<cfg, original>>
  PROVE  Done' = Done \cup GetSizes!Described(cfg.sizes[k], original)
<1>1. \A n : n \in 1..k' - 1 <=> n \in 1..k - 1 \/ n = k
  OBVIOUS
<1>2. Done' = UNION {GetSizes!Described(cfg.sizes[n], original) : n \in 1..k' - 1}
  BY DEF Done
<1> QED
  BY <1>1, <1>2 DEF Done

\* What does not touch the loop keeps its invariant.
LEMMA LoopStays ==
  ASSUME LoopInv, UNCHANGED <<cfg, expansion>>, k > 0 => phase' = "accepted"
  PROVE  LoopInv'
<1>1. Done' = Done
  BY DEF Done, expansion
<1>2. \A j : AtWidth(j)' <=> AtWidth(j)
  BY <1>1 DEF AtWidth, expansion
<1> QED
  BY <1>1, <1>2 DEF LoopInv, expansion

\* The first specification is next when an image is loaded, and none is at hand
\* before.
LEMMA LoopIdle ==
  ASSUME ParserInv, LoopInv, k = 0
  PROVE  ~looping /\ result = {}
<1>1. DOMAIN cfg.sizes = 1..Len(cfg.sizes)
  BY LenProperties DEF ParserInv, GoodConfig
<1>2. ~looping
  BY <1>1 DEF LoopInv
<1>3. 1..k - 1 = {}
  OBVIOUS
<1> QED
  BY <1>2, <1>3 DEF LoopInv, Done

\* Every step keeps the invariant.  An iteration at the last width of the
\* sequence, which is 0, changes nothing any more: the loop does not end.
LEMMA LoopStep ==
  ASSUME ParserInv, LoopInv, [Next]_vars
  PROVE  LoopInv'
<1>1. cfg.sizes \in Seq(GoodSpec) /\ (cfg.sizes)' \in Seq(GoodSpec)
  BY ParserStep DEF ParserInv, GoodConfig
<1>2. /\ Len(cfg.sizes) \in Nat /\ Len((cfg.sizes)') \in Nat
      /\ DOMAIN cfg.sizes = 1..Len(cfg.sizes)
      /\ \A n \in DOMAIN cfg.sizes : cfg.sizes[n] \in GoodSpec
  BY <1>1, LenProperties, ElementOfSeq
<1>3. k \in Int /\ (k = 0 => ~looping /\ result = {})
  BY <1>2, LoopIdle DEF LoopInv
<1>4. ASSUME NEW l \in Lines, ReadLine(l) PROVE LoopInv'
  <2>1. k = 0 /\ UNCHANGED expansion
    BY <1>3, <1>4 DEF LoopInv, ReadLine
  <2>2. Done' = {}
    BY <2>1 DEF Done, expansion
  <2> QED
    BY <1>2, <1>3, <2>1, <2>2 DEF LoopInv, expansion
<1>5. ASSUME NEW l \in Lines, RefuseLine(l) PROVE LoopInv'
  BY <1>5, LoopStays, <1>3 DEF LoopInv, RefuseLine
<1>6. CASE EndOfFile
  BY <1>6, LoopStays, <1>3 DEF LoopInv, EndOfFile
<1>7. ASSUME NEW w \in Widths, LoadImage(w) PROVE LoopInv'
  <2>1. k = 0 /\ k' = 1 /\ original' = w /\ phase' = "accepted"
        /\ UNCHANGED <<cfg, looping, width, result>>
    BY <1>7 DEF LoadImage, parser, GetSizes!Call
  <2>2. Done' = {}
    BY <2>1 DEF Done
  <2>3. w \in Nat
    BY ConfigAssumption
  <2> QED
    BY <1>2, <1>3, <2>1, <2>2, <2>3 DEF LoopInv
<1>8. ASSUME Expand PROVE LoopInv'
  <2> DEFINE s == cfg.sizes[k]
  <2> DEFINE size == Size(s, original)
  <2> DEFINE d == GetSizes!Decrement(s, width)
  <2>1. UNCHANGED <<phase, cfg>>
    BY <1>8 DEF Expand, parser
  <2>2. k \in DOMAIN cfg.sizes /\ UNCHANGED original
    BY <1>8 DEF Expand, GetSizes!Next, GetSizes!Fixed, GetSizes!EnterLoop, GetSizes!LeaveLoop,
                GetSizes!Iterate, GetSizes!AtSpec
  <2>3. /\ s \in GoodSpec /\ s.fixed_value \in Nat /\ k \in Nat \ {0} /\ phase = "accepted"
        /\ original \in Nat /\ k <= Len(cfg.sizes)
    BY <1>2, <2>2 DEF LoopInv, GoodSpec
  <2>4. ASSUME GetSizes!NextSpec, result' = Done \cup GetSizes!Described(s, original),
               result' \in SUBSET Nat
        PROVE  LoopInv'
    <3>1. k' = k + 1 /\ looping' = FALSE /\ width' = 0
      BY <2>4 DEF GetSizes!NextSpec
    <3>2. Done' = result'
      BY <2>1, <2>2, <2>3, <2>4, <3>1, DoneWith
    <3>3. k' \in 0..Len((cfg.sizes)') + 1
      BY <1>2, <2>1, <2>2, <2>3, <3>1
    <3>4. original' \in Nat /\ phase' = "accepted"
      BY <2>1, <2>2, <2>3
    <3> QED
      BY <2>4, <3>1, <3>2, <3>3, <3>4 DEF LoopInv
  <2>5. CASE GetSizes!Fixed
    <3>1. /\ s.decrement = 0 /\ result' = result \cup {s.fixed_value}
          /\ GetSizes!NextSpec
      BY <2>5 DEF GetSizes!Fixed
    <3>2. GetSizes!Described(s, original) = {s.fixed_value}
      BY <3>1 DEF GetSizes!Described
    <3>3. result = Done /\ result \in SUBSET Nat
      BY <3>1 DEF LoopInv
    <3> QED
      BY <2>3, <2>4, <3>1, <3>2, <3>3
  <2>6. CASE GetSizes!EnterLoop
    <3>1. /\ s.decrement # 0 /\ ~looping /\ looping' /\ width' = original
          /\ UNCHANGED <<k, result>>
      BY <2>6 DEF GetSizes!EnterLoop
    <3>2. size[0] = original
      BY <2>3, <3>1, Sizing
    <3>3. Done' = Done /\ result = Done
      BY <2>1, <2>2, <3>1 DEF Done, LoopInv
    <3>4. AtWidth(0)'
      BY <2>1, <2>2, <3>1, <3>2, <3>3 DEF AtWidth
    <3> QED
      BY <1>2, <2>1, <2>2, <2>3, <3>1, <3>3, <3>4 DEF LoopInv
  <2>7. ASSUME looping
        PROVE  \E j \in 0..original : AtWidth(j) /\ s.decrement # 0 /\ size[j] = width
    BY <2>7 DEF LoopInv, AtWidth
  <2>8. ASSUME NEW j \in 0..original, AtWidth(j), s.decrement # 0
        PROVE  /\ \A i \in 0..original : size[i] \in Int
               /\ \A i \in 0..original : j <= i => size[i] <= size[j]
               /\ j < original => size[j + 1] = GetSizes!Reduced(s, size[j])
               /\ size[original] <= 0
               /\ size[j] = width
    <3>1. j < original => j + 1 \in 1..original /\ (j + 1) - 1 = j
      BY <2>3
    <3>2. \A i \in 0..original : size[i] \in Int
      BY <2>3, <2>8, Sizing DEF Reached
    <3>3. /\ size[original] <= 0
          /\ \A i, m \in 0..original : i <= m => size[m] <= size[i]
      BY <2>3, <2>8, Sinking
    <3>4. \A n \in 1..original : size[n] = GetSizes!Reduced(s, size[n - 1])
      BY <2>3, <2>8, Sizing
    <3>5. size[j] = width
      BY <2>8 DEF AtWidth
    <3> HIDE DEF size, s
    <3>6. j < original => size[j + 1] = GetSizes!Reduced(s, size[j])
      BY <3>1, <3>4
    <3> QED
      BY <3>2, <3>3, <3>5, <3>6
  <2>9. CASE GetSizes!LeaveLoop
    <3>1. looping /\ width < s.fixed_value /\ result' = result /\ GetSizes!NextSpec
      BY <2>9 DEF GetSizes!LeaveLoop
    <3>2. PICK j \in 0..original : AtWidth(j) /\ s.decrement # 0 /\ size[j] = width
      BY <2>7, <3>1
    <3>3. ASSUME NEW v \in GetSizes!Described(s, original) PROVE v \in result
      <4>1. PICK n \in 0..original : v >= s.fixed_value /\ v = size[n]
        BY <2>3, <3>2, DescribedSizes
      <4>2. n < j
        BY <2>3, <2>8, <3>1, <3>2, <4>1
      <4> QED
        BY <3>2, <4>1, <4>2 DEF AtWidth
    <3>4. result = Done \cup GetSizes!Described(s, original)
      BY <3>2, <3>3 DEF AtWidth
    <3> QED
      BY <2>4, <3>1, <3>4 DEF LoopInv
  <2>10. CASE GetSizes!Iterate
    <3>1. /\ looping /\ width >= s.fixed_value /\ result' = result \cup {width}
          /\ IF d > width THEN GetSizes!NextSpec
                          ELSE width' = width - d /\ UNCHANGED <<k, looping>>
      BY <2>10 DEF GetSizes!Iterate
    <3>2. PICK j \in 0..original : AtWidth(j) /\ s.decrement # 0 /\ size[j] = width
      BY <2>7, <3>1
    <3>3. width \in Nat /\ result' \in SUBSET Nat
      BY <3>1 DEF LoopInv
    <3>4. width \in GetSizes!Described(s, original)
      BY <2>3, <3>1, <3>2, DescribedSizes
    <3>5. width \in Reached(s)
      BY <3>3 DEF Reached
    <3>6. d \in Nat /\ GetSizes!Reduced(s, width) = width - d /\ (width > 0 => d > 0)
      <4>1. d \in Nat /\ GetSizes!Reduced(s, width) = width - d
        BY <2>3, <3>2, <3>3, <3>5, Descent
      <4>2. width > 0 => GetSizes!Reduced(s, width) < width
        BY <2>3, <3>2, <3>5, Descent
      <4> HIDE DEF d
      <4> QED
        BY <3>3, <4>1, <4>2
    <3>7. Done \subseteq result' /\ result' \subseteq Done \cup GetSizes!Described(s, original)
      BY <3>1, <3>2, <3>4 DEF AtWidth
    <3> HIDE DEF d, size, s
    <3>8. CASE d > width
      <4>1. ASSUME NEW v \in GetSizes!Described(s, original) PROVE v \in result'
        <5>1. PICK n \in 0..original : v >= s.fixed_value /\ v = size[n]
          BY <2>3, <3>2, DescribedSizes DEF size
        <5>2. n <= j
          <6> SUFFICES ASSUME n > j PROVE FALSE
            BY <2>3
          <6>1. size[j + 1] < 0 /\ j + 1 \in 0..original /\ j + 1 <= n
            BY <2>3, <2>8, <3>2, <3>3, <3>6, <3>8
          <6>2. size[n] <= size[j + 1] /\ size[n] \in Int /\ size[j + 1] \in Int
            <7>1. \A i, m \in 0..original : i <= m => size[m] <= size[i]
              BY <2>3, <3>2, Sinking DEF size
            <7> QED
              BY <2>8, <3>2, <6>1, <7>1
          <6> QED
            BY <2>3, <5>1, <6>1, <6>2
        <5>3. n = j \/ n \in 0..j - 1
          BY <5>2
        <5> QED
          BY <3>1, <3>2, <5>1, <5>3 DEF AtWidth, size, s
      <4>2. result' = Done \cup GetSizes!Described(s, original)
        BY <3>7, <4>1
      <4> QED
        BY <2>4, <3>1, <3>3, <3>8, <4>2
    <3>9. CASE ~(d > width)
      <4>1. width' = width - d /\ width' \in Nat /\ UNCHANGED <<k, looping>>
        BY <3>1, <3>3, <3>6, <3>9
      <4>2. Done' = Done
        BY <2>1, <2>2, <4>1 DEF Done
      <4>3. \E i \in 0..original :
              /\ width' = size[i]
              /\ \A n \in 0..i - 1 : size[n] \in result' /\ size[n] >= s.fixed_value
        <5>1. CASE j < original
          <6>1. width' = size[j + 1]
            BY <2>8, <3>2, <3>6, <4>1, <5>1
          <6>2. \A n \in 0..(j + 1) - 1 : n = j \/ n \in 0..j - 1
            OBVIOUS
          <6>3. \A n \in 0..(j + 1) - 1 : size[n] \in result' /\ size[n] >= s.fixed_value
            BY <3>1, <3>2, <6>2 DEF AtWidth, size, s
          <6>4. j + 1 \in 0..original
            BY <2>3, <5>1
          <6> QED
            BY <6>1, <6>3, <6>4
        <5>2. CASE j = original
          <6>1. width = 0
            BY <2>3, <2>8, <3>2, <3>3, <5>2
          <6>2. width' = size[j]
            BY <3>2, <3>6, <3>9, <4>1, <6>1
          <6>3. \A n \in 0..j - 1 : size[n] \in result' /\ size[n] >= s.fixed_value
            BY <3>1, <3>2 DEF AtWidth, size, s
          <6> QED
            BY <6>2, <6>3
        <5> QED
          BY <2>3, <5>1, <5>2
      <4>4. PICK i \in 0..original :
              /\ width' = size[i]
              /\ \A n \in 0..i - 1 : size[n] \in result' /\ size[n] >= s.fixed_value
        BY <4>3
      <4>5. AtWidth(i)'
        BY <2>1, <2>2, <3>7, <4>1, <4>2, <4>4 DEF AtWidth, size, s
      <4> QED
        BY <1>2, <2>1, <2>2, <2>3, <3>1, <3>2, <3>3, <4>1, <4>5 DEF LoopInv, s
    <3> QED
      BY <3>8, <3>9
  <2> QED
    BY <1>8, <2>5, <2>6, <2>9, <2>10 DEF Expand, GetSizes!Next
<1>9. CASE UNCHANGED vars
  BY <1>9, LoopStays DEF LoopInv, vars, parser
<1> QED
  BY <1>4, <1>5, <1>6, <1>7, <1>8, <1>9 DEF Next

-----------------------------------------------------------------------------
(* The theorems.                                                            *)

\* The inductive invariant.
IInv == ParserInv /\ ReadInv /\ VerdictInv /\ LoopInv

\* It holds throughout.
THEOREM Invariance == Spec => []IInv
<1>1. Init => IInv
  <2> SUFFICES ASSUME Init PROVE IInv
    OBVIOUS
  <2>1. ParserInv
    BY DefaultsAreGood DEF Init, ParserInv
  <2>2. Len(cfg.sizes) \in Nat
    BY <2>1, LenProperties DEF ParserInv, GoodConfig
  <2>3. original = 0 /\ k = 0 /\ ~looping /\ looping \in BOOLEAN /\ width = 0 /\ result = {}
    BY DEF Init, GetSizes!Init
  <2>4. Done = {}
    BY <2>3 DEF Done
  <2> QED
    BY <2>1, <2>2, <2>3, <2>4, ReadInit DEF IInv, LoopInv
<1>2. IInv /\ [Next]_vars => IInv'
  BY ParserStep, ReadStep, VerdictStep, LoopStep DEF IInv
<1> QED
  BY <1>1, <1>2, PTL DEF Spec

\* Every variable has its type, whatever lines a file has and whatever the
\* images: no number of an accepted configuration is out of the range of its
\* type, and no width falls below 0.
THEOREM TypeCorrect == Spec => []TypeOK
<1>1. IInv => TypeOK
  <2> SUFFICES ASSUME IInv PROVE TypeOK
    OBVIOUS
  <2>1. GetSizes!TypeOK
    BY DEF IInv, LoopInv, GetSizes!TypeOK
  <2> QED
    BY <2>1 DEF IInv, ParserInv, GoodConfig, TypeOK
<1> QED
  BY <1>1, Invariance, PTL

\* Whatever lines a file has, and in whatever order, an accepted one means what the
\* example file says: each documented value in it is taken as it is written, and
\* what is not in it has the documented default, all but the two timeouts.
THEOREM Written == Spec => []AsWritten
<1>1. IInv => AsWritten
  BY ReadAsWritten DEF IInv
<1> QED
  BY <1>1, Invariance, PTL

\* A file is refused for a reason that the example file gives, and an accepted
\* one gives none.
THEOREM Judged == Spec => []Verdict
<1>1. IInv => Verdict
  BY Reasons DEF IInv
<1> QED
  BY <1>1, Invariance, PTL

\* The widths that get_sizes returns are those that the comment on size_spec
\* describes, for any file that parse accepts and any image.
THEOREM SizesRight == Spec => []SizesAsDescribed
<1>1. IInv => SizesAsDescribed
  <2> SUFFICES ASSUME IInv, k > Len(cfg.sizes)
               PROVE  result = UNION {GetSizes!Described(cfg.sizes[n], original) :
                                         n \in DOMAIN cfg.sizes}
    BY DEF SizesAsDescribed, GetSizes!SizesAsDescribed
  <2>1. Len(cfg.sizes) \in Nat /\ DOMAIN cfg.sizes = 1..Len(cfg.sizes)
    BY LenProperties DEF IInv, ParserInv, GoodConfig
  <2>2. ~looping /\ result = Done /\ k - 1 = Len(cfg.sizes)
    BY <2>1 DEF IInv, LoopInv
  <2> QED
    BY <2>1, <2>2 DEF Done
<1> QED
  BY <1>1, Invariance, PTL

\* A step of get_sizes goes to the next specification, or enters the loop of the
\* one at hand, or comes nearer to the end of it; only a percentage with the limit
\* 0, which NeverEnds names, lets it stay where it is.
Descends ==
  \/ k' = k + 1 /\ ~looping'
  \/ k' = k /\ ~looping /\ looping' /\ width' = original
  \/ k' = k /\ looping /\ looping' /\ width' \in 0..width - 1
  \/ NeverEnds(cfg.sizes[k])

\* The safety part of SizesFound: a loop that is not one of those has at most as
\* many iterations as the image is wide, whatever file was accepted.
THEOREM Descending == Spec => [][Expand => Descends]_vars
<1>1. ASSUME IInv, Expand PROVE Descends
  <2> DEFINE s == cfg.sizes[k]
  <2> DEFINE d == GetSizes!Decrement(s, width)
  <2>1. CASE GetSizes!Fixed \/ GetSizes!EnterLoop \/ GetSizes!LeaveLoop
    BY <2>1 DEF Descends, GetSizes!Fixed, GetSizes!EnterLoop, GetSizes!LeaveLoop, GetSizes!NextSpec
  <2>2. CASE GetSizes!Iterate
    <3>1. /\ looping /\ width >= s.fixed_value
          /\ IF d > width THEN GetSizes!NextSpec
                          ELSE width' = width - d /\ UNCHANGED <<k, looping>>
      BY <2>2 DEF GetSizes!Iterate
    <3>2. k \in DOMAIN cfg.sizes /\ s.decrement # 0 /\ width \in Nat
      BY <1>1, <3>1 DEF IInv, LoopInv
    <3>3. s \in GoodSpec
      BY <1>1, <3>2, ElementOfSeq, LenProperties DEF IInv, ParserInv, GoodConfig
    <3>4. s.fixed_value \in Nat /\ s.decrement \in Nat \ {0} /\ width \in Reached(s)
      BY <3>2, <3>3 DEF GoodSpec, Reached
    <3>5. /\ d \in Nat /\ GetSizes!Reduced(s, width) = width - d
          /\ width > 0 => GetSizes!Reduced(s, width) < width
      BY <3>2, <3>3, <3>4, Descent
    <3>6. ~s.decrement_is_pct => d = s.decrement
      BY DEF GetSizes!Decrement
    <3> HIDE DEF d
    <3>7. CASE d > width
      BY <3>1, <3>7 DEF Descends, GetSizes!NextSpec
    <3>8. CASE ~(d > width) /\ width > 0
      <4>1. width' \in 0..width - 1
        BY <3>1, <3>2, <3>5, <3>8
      <4> QED
        BY <3>1, <3>8, <4>1 DEF Descends
    <3>9. CASE ~(d > width) /\ ~(width > 0)
      <4>1. width = 0 /\ s.fixed_value = 0 /\ d = 0
        BY <3>1, <3>2, <3>4, <3>5, <3>9
      <4>2. s.decrement_is_pct
        BY <3>4, <3>6, <4>1
      <4> QED
        BY <4>1, <4>2 DEF Descends, NeverEnds
    <3> QED
      BY <3>7, <3>8, <3>9
  <2> QED
    BY <1>1, <2>1, <2>2 DEF Expand, GetSizes!Next
<1>2. IInv /\ [Next]_vars => [Expand => Descends]_vars
  BY <1>1
<1> QED
  BY <1>2, Invariance, PTL DEF Spec
=============================================================================
