----------------------------- MODULE CodecProofs -----------------------------
(***************************************************************************)
(* A row that is written is read back as it was, for every row: the commas *)
(* part its fields, no field is trimmed, and a number is its numeral.      *)
(***************************************************************************)
EXTENDS CsvCodec, SequenceTheorems, TLAPS

\* The loops over the bytes of a numeral, the bytes of a line, the values of a row
\* and the lines of a file.
Number == INSTANCE FoldFacts WITH
    Op <- LAMBDA p, n, byte : 10 * n + DigitOf(byte), Base <- LAMBDA p : 0
Parsing == INSTANCE FoldFacts WITH
    Op <- LAMBDA p, fields, byte : WithByte(fields, byte), Base <- LAMBDA p : p
Writing == INSTANCE FoldFacts WITH
    Op <- LAMBDA p, t, value : t \o <<",">> \o FieldText(value), Base <- LAMBDA p : <<>>
Reading == INSTANCE FoldFacts WITH
    Op <- LAMBDA schema, rows, line : WithLine(schema, rows, line), Base <- LAMBDA p : <<>>

LEMMA FoldsAreLoops ==
    /\ \A t : DigitsValue(t) = Number!Fold(0, t)
    /\ \A t : Fields(t) = Parsing!Fold(<<<<>>>>, t)
    /\ \A row : CommaFields(row) = Writing!Fold(0, row)
    /\ \A schema, lines : RowsOf(schema, lines) = Reading!Fold(schema, lines)
<1>1. \A t : DigitsValue(t) = Number!Fold(0, t)
  BY DEF DigitsValue, Number!Fold, FoldLeft, Number!FoldLeft, MapThenFoldSet,
         Number!MapThenFoldSet, Max, Number!Max
<1>2. \A t : Fields(t) = Parsing!Fold(<<<<>>>>, t)
  BY DEF Fields, Parsing!Fold, FoldLeft, Parsing!FoldLeft, MapThenFoldSet,
         Parsing!MapThenFoldSet, Max, Parsing!Max
<1>3. \A row : CommaFields(row) = Writing!Fold(0, row)
  BY DEF CommaFields, Writing!Fold, FoldLeft, Writing!FoldLeft, MapThenFoldSet,
         Writing!MapThenFoldSet, Max, Writing!Max
<1>4. \A schema, lines : RowsOf(schema, lines) = Reading!Fold(schema, lines)
  BY DEF RowsOf, Reading!Fold, FoldLeft, Reading!FoldLeft, MapThenFoldSet,
         Reading!MapThenFoldSet, Max, Reading!Max
<1> QED  BY <1>1, <1>2, <1>3, <1>4

-----------------------------------------------------------------------------
(* Numerals *)

NatTextBody(g, n) ==
    IF n < 10 THEN <<Digits[n + 1]>> ELSE Append(g[n \div 10], Digits[(n % 10) + 1])
IsNatText(g, D) == g = [n \in D |-> NatTextBody(g, n)]

LEMMA NatTextIsChosen == NatText = CHOOSE g : IsNatText(g, Nat)
BY DEF NatText, IsNatText, NatTextBody

LEMMA Tenth ==
    ASSUME NEW n \in Nat, n >= 10
    PROVE  n \div 10 \in Nat /\ n \div 10 < n
OBVIOUS

LEMMA NatTextUpTo ==
    ASSUME NEW n \in Nat
    PROVE  \E g : IsNatText(g, 0..n)
<1> DEFINE T == {k \in Nat : \E g : IsNatText(g, 0..k)}
<1>1. 0 \in T
  <2> DEFINE g == [n0 \in 0..0 |-> <<Digits[n0 + 1]>>]
  <2>1. IsNatText(g, 0..0)
    BY DEF IsNatText, NatTextBody
  <2> QED  BY <2>1
<1>2. ASSUME NEW k \in Nat, k \in T PROVE k + 1 \in T
  <2>1. PICK h : IsNatText(h, 0..k)
    BY <1>2
  <2> DEFINE g == [m \in 0..k + 1 |-> IF m = k + 1 THEN NatTextBody(h, m) ELSE h[m]]
  <2>2. ASSUME NEW m \in 0..k + 1 PROVE g[m] = NatTextBody(g, m)
    <3>1. m >= 10 => m \div 10 \in 0..k
      BY Tenth
    <3>2. m >= 10 => g[m \div 10] = h[m \div 10]
      BY <3>1
    <3>3. NatTextBody(g, m) = NatTextBody(h, m)
      BY <3>2 DEF NatTextBody
    <3>4. g[m] = NatTextBody(h, m)
      <4>1. m \in 0..k => h[m] = NatTextBody(h, m)
        BY <2>1 DEF IsNatText
      <4> QED  BY <4>1
    <3> QED  BY <3>3, <3>4
  <2>3. IsNatText(g, 0..k + 1)
    BY <2>2 DEF IsNatText
  <2> QED  BY <2>3
<1> HIDE DEF T
<1>3. n \in T
  BY <1>1, <1>2, Number!SetInduction
<1> QED  BY <1>3 DEF T

LEMMA NatTextsAgree ==
    ASSUME NEW a \in Nat, NEW b \in Nat, NEW g, NEW h,
           IsNatText(g, 0..a), IsNatText(h, 0..b)
    PROVE  \A n \in Nat : n <= a /\ n <= b => g[n] = h[n]
<1> DEFINE Same(k) == \A n \in 0..k : n <= a /\ n <= b => g[n] = h[n]
           T == {k \in Nat : Same(k)}
<1>1. \A n \in Nat : n <= a /\ n <= b => g[n] = NatTextBody(g, n) /\ h[n] = NatTextBody(h, n)
  <2>1. \A n \in Nat : n <= a /\ n <= b => n \in 0..a /\ n \in 0..b
    OBVIOUS
  <2>2. /\ \A n \in 0..a : g[n] = NatTextBody(g, n)
        /\ \A n \in 0..b : h[n] = NatTextBody(h, n)
    BY Zenon DEF IsNatText
  <2> QED  BY <2>1, <2>2, Zenon
<1>2. Same(0)
  <2>1. g[0] = NatTextBody(g, 0) /\ h[0] = NatTextBody(h, 0)
    BY <1>1
  <2>2. g[0] = h[0]
    BY <2>1 DEF NatTextBody
  <2> QED  BY <2>2
<1>3. ASSUME NEW k \in Nat, Same(k) PROVE Same(k + 1)
  <2> SUFFICES ASSUME NEW n \in 0..k + 1, n <= a, n <= b PROVE g[n] = h[n]
    OBVIOUS
  <2>0. n \in Nat /\ g[n] = NatTextBody(g, n) /\ h[n] = NatTextBody(h, n)
    BY <1>1
  <2>1. CASE n < 10
    BY <2>0, <2>1 DEF NatTextBody
  <2>2. CASE n >= 10
    <3>1. n \div 10 \in 0..k /\ n \div 10 <= a /\ n \div 10 <= b
      BY <2>2, Tenth
    <3>2. g[n \div 10] = h[n \div 10]
      BY <3>1, <1>3
    <3> QED  BY <2>0, <2>2, <3>2 DEF NatTextBody
  <2> QED  BY <2>0, <2>1, <2>2
<1> HIDE DEF Same
<1>4. 0 \in T /\ \A k \in Nat : k \in T => k + 1 \in T
  BY <1>2, <1>3
<1>5. \A k \in Nat : k \in T
  <2> HIDE DEF T
  <2> QED  BY <1>4, Number!SetInduction
<1>6. \A k \in Nat : Same(k)
  BY <1>5
<1> QED  BY <1>6 DEF Same

\* The recursive function NatText is the one its definition describes.
LEMMA NatTextUnfolds == IsNatText(NatText, Nat)
<1> DEFINE G(n) == CHOOSE g : IsNatText(g, 0..n)
           f == [n \in Nat |-> G(n)[n]]
<1>1. ASSUME NEW n \in Nat PROVE IsNatText(G(n), 0..n)
  BY NatTextUpTo
<1> HIDE DEF G
<1>2. ASSUME NEW n \in Nat PROVE f[n] = NatTextBody(f, n)
  <2>1. G(n)[n] = NatTextBody(G(n), n)
    BY <1>1 DEF IsNatText
  <2>2. n >= 10 => G(n)[n \div 10] = G(n \div 10)[n \div 10]
    <3> HAVE n >= 10
    <3>1. n \div 10 \in Nat /\ n \div 10 <= n
      BY Tenth
    <3>2. IsNatText(G(n), 0..n) /\ IsNatText(G(n \div 10), 0..(n \div 10))
      BY <1>1, <3>1
    <3> QED  BY <3>1, <3>2, NatTextsAgree
  <2>3. NatTextBody(f, n) = NatTextBody(G(n), n)
    BY <2>2, Tenth DEF NatTextBody
  <2> QED  BY <2>1, <2>3
<1>3. IsNatText(f, Nat)
  BY <1>2 DEF IsNatText
<1> QED  BY <1>3, NatTextIsChosen

Numerals == {Digits[i] : i \in 1..10}

LEMMA NatTextIsText ==
    ASSUME NEW n \in Nat
    PROVE  NatText[n] \in Seq(Numerals) /\ NatText[n] # <<>>
<1> DEFINE Fine(k) == \A m \in 0..k : NatText[m] \in Seq(Numerals) /\ NatText[m] # <<>>
           T == {k \in Nat : Fine(k)}
<1>1. \A m \in Nat : NatText[m] = NatTextBody(NatText, m)
  BY NatTextUnfolds DEF IsNatText
<1>2. \A m \in Nat : m < 10 => <<Digits[m + 1]>> \in Seq(Numerals) /\ <<Digits[m + 1]>> # <<>>
  <2> TAKE m \in Nat
  <2> HAVE m < 10
  <2>1. Digits[m + 1] \in Numerals
    BY DEF Numerals
  <2> QED  BY <2>1
<1>3. Fine(0)
  <2>1. NatText[0] = NatTextBody(NatText, 0)
    BY <1>1
  <2>2. NatText[0] \in Seq(Numerals) /\ NatText[0] # <<>>
    BY <1>2, <2>1 DEF NatTextBody
  <2>3. \A m \in 0..0 : m = 0
    OBVIOUS
  <2> QED  BY <2>2, <2>3
<1>4. ASSUME NEW k \in Nat, Fine(k) PROVE Fine(k + 1)
  <2> SUFFICES ASSUME NEW m \in 0..k + 1 PROVE NatText[m] \in Seq(Numerals) /\ NatText[m] # <<>>
    OBVIOUS
  <2>0. m \in Nat /\ NatText[m] = NatTextBody(NatText, m)
    BY <1>1
  <2>1. CASE m < 10
    BY <2>0, <1>2, <2>1 DEF NatTextBody
  <2>2. CASE m >= 10
    <3>1. m \div 10 \in 0..k /\ (m % 10) + 1 \in 1..10
      BY <2>2, Tenth
    <3>2. NatText[m \div 10] \in Seq(Numerals) /\ Digits[(m % 10) + 1] \in Numerals
      BY <3>1, <1>4 DEF Numerals
    <3>3. NatText[m] = Append(NatText[m \div 10], Digits[(m % 10) + 1])
      BY <2>0, <2>2 DEF NatTextBody
    <3> QED  BY <3>2, <3>3, AppendProperties
  <2> QED  BY <2>0, <2>1, <2>2
<1> HIDE DEF Fine
<1>5. 0 \in T /\ \A k \in Nat : k \in T => k + 1 \in T
  BY <1>3, <1>4
<1>6. \A k \in Nat : k \in T
  <2> HIDE DEF T
  <2> QED  BY <1>5, Number!SetInduction
<1>7. Fine(n)
  BY <1>6
<1> QED  BY <1>7 DEF Fine

LEMMA IntTextIsText ==
    ASSUME NEW n \in Int
    PROVE  IntText(n) \in Seq(Numerals \cup {"-"}) /\ IntText(n) # <<>>
<1>1. CASE n < 0
  <2>1. -n \in Nat
    BY <1>1
  <2>2. NatText[-n] \in Seq(Numerals \cup {"-"}) /\ <<"-">> \in Seq(Numerals \cup {"-"})
    BY <2>1, NatTextIsText
  <2>3. IntText(n) = <<"-">> \o NatText[-n]
    BY <1>1 DEF IntText
  <2> QED  BY <2>2, <2>3
<1>2. CASE n >= 0
  BY <1>2, NatTextIsText DEF IntText
<1> QED  BY <1>1, <1>2

LEMMA DigitOfDigit == \A d \in 0..9 : DigitOf(Digits[d + 1]) = d
<1>1. \A d \in 0..9, e \in 0..9 : Digits[d + 1] = Digits[e + 1] => d = e
  BY DEF Digits
<1> SUFFICES ASSUME NEW d \in 0..9 PROVE DigitOf(Digits[d + 1]) = d
  OBVIOUS
<1>2. \E e \in 0..9 : Digits[e + 1] = Digits[d + 1]
  OBVIOUS
<1>3. DigitOf(Digits[d + 1]) \in 0..9 /\ Digits[DigitOf(Digits[d + 1]) + 1] = Digits[d + 1]
  BY <1>2, Zenon DEF DigitOf
<1> QED  BY <1>1, <1>3

\* Printing a number and reading its digits.
LEMMA NatValue ==
    ASSUME NEW n \in Nat
    PROVE  DigitsValue(NatText[n]) = n
<1> DEFINE Fine(k) == \A m \in 0..k : Number!Fold(0, NatText[m]) = m
           T == {k \in Nat : Fine(k)}
<1>1. \A m \in Nat : NatText[m] = NatTextBody(NatText, m)
  BY NatTextUnfolds DEF IsNatText
<1>2. ASSUME NEW m \in Nat, m < 10 PROVE Number!Fold(0, NatText[m]) = m
  <2>1. NatText[m] = Append(<<>>, Digits[m + 1])
    <3>1. NatText[m] = <<Digits[m + 1]>>
      BY <1>1, <1>2 DEF NatTextBody
    <3>2. \A x : <<x>> = Append(<<>>, x)
      OBVIOUS
    <3> QED  BY <3>1, <3>2
  <2>2. Digits[m + 1] \in Numerals /\ <<>> \in Seq(Numerals)
    BY <1>2 DEF Numerals
  <2>3. Number!Fold(0, Append(<<>>, Digits[m + 1]))
            = 10 * Number!Fold(0, <<>>) + DigitOf(Digits[m + 1])
    BY <2>2, Number!FoldOfMore
  <2>4. Number!Fold(0, <<>>) = 0
    BY Number!FoldOfNone
  <2>5. DigitOf(Digits[m + 1]) = m
    BY <1>2, DigitOfDigit
  <2> QED  BY <2>1, <2>3, <2>4, <2>5
<1>3. Fine(0)
  <2>1. \A m \in 0..0 : m \in Nat /\ m < 10
    OBVIOUS
  <2> QED  BY <1>2, <2>1
<1>4. ASSUME NEW k \in Nat, Fine(k) PROVE Fine(k + 1)
  <2> SUFFICES ASSUME NEW m \in 0..k + 1 PROVE Number!Fold(0, NatText[m]) = m
    OBVIOUS
  <2>0. m \in Nat
    OBVIOUS
  <2>1. CASE m < 10
    BY <2>0, <1>2, <2>1
  <2>2. CASE m >= 10
    <3>1. m \div 10 \in 0..k /\ m \div 10 \in Nat /\ m % 10 \in 0..9
          /\ m = 10 * (m \div 10) + (m % 10)
      BY <2>2, Tenth
    <3>2. NatText[m \div 10] \in Seq(Numerals) /\ Digits[(m % 10) + 1] \in Numerals
      BY <3>1, NatTextIsText DEF Numerals
    <3>3. NatText[m] = Append(NatText[m \div 10], Digits[(m % 10) + 1])
      <4>1. NatText[m] = NatTextBody(NatText, m) /\ ~(m < 10)
        BY <2>0, <1>1, <2>2
      <4> QED  BY <4>1, Zenon DEF NatTextBody
    <3>4. Number!Fold(0, Append(NatText[m \div 10], Digits[(m % 10) + 1]))
              = 10 * Number!Fold(0, NatText[m \div 10]) + DigitOf(Digits[(m % 10) + 1])
      BY <3>2, Number!FoldOfMore
    <3>5. Number!Fold(0, NatText[m \div 10]) = m \div 10
      BY <3>1, <1>4
    <3>6. DigitOf(Digits[(m % 10) + 1]) = m % 10
      BY <3>1, DigitOfDigit
    <3> QED  BY <3>1, <3>3, <3>4, <3>5, <3>6
  <2> QED  BY <2>0, <2>1, <2>2
<1> HIDE DEF Fine
<1>5. 0 \in T /\ \A k \in Nat : k \in T => k + 1 \in T
  BY <1>3, <1>4
<1>6. \A k \in Nat : k \in T
  <2> HIDE DEF T
  <2> QED  BY <1>5, Number!SetInduction
<1>7. Fine(n)
  BY <1>6
<1> QED  BY <1>7, FoldsAreLoops DEF Fine

LEMMA NumeralsArePlain ==
    \A byte \in Numerals \cup {"-"} :
        byte \notin WhiteSpace /\ byte # "," /\ byte \notin {NL, CR, DQ} /\ byte # "+"
        /\ (byte \in Numerals => byte # "-")
<1>1. Numerals = {"0", "1", "2", "3", "4", "5", "6", "7", "8", "9"}
  <2>1. 1..10 = {1, 2, 3, 4, 5, 6, 7, 8, 9, 10}
    OBVIOUS
  <2> QED  BY <2>1 DEF Numerals, Digits
<1> QED  BY <1>1 DEF WhiteSpace, NL, CR, DQ

LEMMA IntValue ==
    ASSUME NEW n \in Int
    PROVE  IsNumeral(IntText(n)) /\ NumeralValue(IntText(n)) = n
<1> DEFINE t == IntText(n)
           digits == IF n < 0 THEN NatText[-n] ELSE NatText[n]
           m == IF n < 0 THEN -n ELSE n
<1>1. m \in Nat /\ digits = NatText[m]
  OBVIOUS
<1>2. digits \in Seq(Numerals) /\ digits # <<>> /\ DigitsValue(digits) = m
  BY <1>1, NatTextIsText, NatValue
<1>3. t \in Seq(Numerals \cup {"-"}) /\ t # <<>>
  BY IntTextIsText
<1>4. t = IF n < 0 THEN <<"-">> \o digits ELSE digits
  BY DEF IntText
<1> HIDE DEF t, digits, m
<1>5. Unspaced(t) = t
  <2> DEFINE kept == {i \in DOMAIN t : t[i] \notin WhiteSpace}
  <2>0. Len(t) \in Nat /\ DOMAIN t = 1..Len(t) /\ Len(t) >= 1
        /\ \A i \in 1..Len(t) : t[i] \in Numerals \cup {"-"}
    BY <1>3
  <2>1. kept = 1..Len(t)
    BY <2>0, NumeralsArePlain
  <2> HIDE DEF kept
  <2>2. kept \in SUBSET Nat /\ kept # {} /\ 1 \in kept /\ \A i \in kept : 1 <= i
    BY <2>0, <2>1
  <2>3. Number!Min(kept) \in kept /\ \A i \in kept : Number!Min(kept) <= i
    BY <2>2, Number!FirstOf
  <2>4. Min(kept) \in kept /\ \A i \in kept : Min(kept) <= i
    BY <2>3, Zenon DEF Min, Number!Min
  <2>5. Min(kept) = 1
    <3>1. Min(kept) \in Nat /\ Min(kept) <= 1 /\ 1 <= Min(kept)
      BY <2>2, <2>4
    <3> QED  BY <3>1
  <2>6. SubSeq(t, 1, Len(t)) = t
    BY <1>3
  <2> QED  BY <2>2, <2>5, <2>6, Zenon DEF Unspaced, kept
<1>6. Head(digits) \in Numerals
  BY <1>2
<1>7. Unsigned(t) = digits /\ (Head(t) = "-" <=> n < 0)
  <2>1. CASE n < 0
    <3>1. t # <<>> /\ Head(t) = "-" /\ Tail(t) = digits
      BY <1>2, <1>4, <2>1
    <3> QED  BY <2>1, <3>1 DEF Unsigned
  <2>2. CASE ~(n < 0)
    <3>1. t = digits
      BY <1>4, <2>2
    <3>2. Head(t) # "+" /\ Head(t) # "-"
      BY <1>6, <3>1, NumeralsArePlain
    <3> QED  BY <2>2, <3>1, <3>2 DEF Unsigned
  <2> QED  BY <2>1, <2>2
<1>8. Range(digits) \subseteq Range(Digits)
  <2>1. \A i \in DOMAIN digits : digits[i] \in Numerals
    BY <1>2
  <2>2. Numerals \subseteq Range(Digits)
    <3>1. DOMAIN Digits = 1..10
      BY DEF Digits
    <3> QED  BY <3>1 DEF Numerals, Range
  <2> QED  BY <2>1, <2>2 DEF Range
<1>9. IsNumeral(t)
  BY <1>2, <1>5, <1>7, <1>8 DEF IsNumeral
<1>10. NumeralValue(t) = n
  <2>1. NumeralValue(t) = IF n < 0 THEN -m ELSE m
    BY <1>2, <1>5, <1>7 DEF NumeralValue
  <2> QED  BY <2>1 DEF m
<1> QED  BY <1>9, <1>10 DEF t

-----------------------------------------------------------------------------
(* Fields *)

\* The bytes the texts of the fields are made of, and the values that become one.
FieldBytes == (Bytes \cup Numerals \cup {"-"}) \ {",", NL, CR, DQ}
Writable == {v \in Cells : v.type = "text" => ValidText(v.text)}

LEMMA SeqElements ==
    ASSUME NEW A, NEW B, NEW t \in Seq(A), \A i \in 1..Len(t) : t[i] \in B
    PROVE  t \in Seq(B)
OBVIOUS

LEMMA SeqIsLarger ==
    ASSUME NEW A, NEW B, A \subseteq B
    PROVE  Seq(A) \subseteq Seq(B)
OBVIOUS

LEMMA AppendIs ==
    ASSUME NEW E, NEW s \in Seq(E), NEW e \in E
    PROVE  /\ Append(s, e) \in Seq(E)
           /\ Append(s, e) = [i \in 1..(Len(s) + 1) |-> IF i = Len(s) + 1 THEN e ELSE s[i]]
<1> DEFINE t == Append(s, e)
<1>1. /\ t \in Seq(E) /\ Len(s) \in Nat /\ Len(t) = Len(s) + 1 /\ DOMAIN t = 1..Len(t)
      /\ \A i \in 1..Len(s) : t[i] = s[i]
      /\ t[Len(s) + 1] = e
  BY AppendProperties, LenProperties
<1> HIDE DEF t
<1>2. t = [i \in 1..(Len(s) + 1) |-> t[i]]
  BY <1>1
<1>3. \A i \in 1..(Len(s) + 1) : t[i] = IF i = Len(s) + 1 THEN e ELSE s[i]
  BY <1>1
<1>4. t = [i \in 1..(Len(s) + 1) |-> IF i = Len(s) + 1 THEN e ELSE s[i]]
  BY <1>2, <1>3
<1> QED  BY <1>1, <1>4 DEF t

\* What an operation does to each element of a sequence.
LEMMA MappedSeq ==
    ASSUME NEW E, NEW n \in Nat, NEW t, t = [i \in 1..n |-> t[i]], \A i \in 1..n : t[i] \in E
    PROVE  t \in Seq(E) /\ Len(t) = n
OBVIOUS

LEMMA Elements ==
    ASSUME NEW E, NEW t \in Seq(E)
    PROVE  \A i \in 1..Len(t) : i \in DOMAIN t /\ t[i] \in E
OBVIOUS

LEMMA LongerText ==
    ASSUME NEW E, NEW c \in Seq(E), NEW b \in E, NEW f \in Seq(E)
    PROVE  /\ c \o <<b>> = Append(c, b) /\ Append(c, b) \in Seq(E)
           /\ Append(c, b) \o f \in Seq(E)
<1>1. c \o <<b>> = Append(c, b) /\ Append(c, b) \in Seq(E)
  OBVIOUS
<1> QED  BY <1>1, ConcatProperties

LEMMA LongerHead ==
    ASSUME NEW E, NEW c \in Seq(E), NEW b \in E, NEW f \in Seq(E)
    PROVE  /\ Append(c, b) \o f # <<>>
           /\ c = <<>> => Head(Append(c, b) \o f) = b
           /\ c # <<>> => Head(Append(c, b) \o f) = Head(c)
<1> DEFINE d == Append(c, b)
<1>1. d \in Seq(E) /\ d # <<>> /\ (c = <<>> => Head(d) = b) /\ (c # <<>> => Head(d) = Head(c))
  OBVIOUS
<1> HIDE DEF d
<1>2. d \o f # <<>> /\ Head(d \o f) = Head(d)
  BY <1>1
<1>3. d \o f # <<>> /\ (c = <<>> => Head(d \o f) = b) /\ (c # <<>> => Head(d \o f) = Head(c))
  BY <1>1, <1>2
<1> QED  BY <1>3 DEF d

LEMMA FieldIsPlain ==
    ASSUME NEW v \in Writable
    PROVE  FieldText(v) \in Seq(FieldBytes)
<1>1. CASE v \in [type : {"int"}, int : INT_MIN..INT_MAX]
  <2>1. v.type = "int" /\ v.int \in Int
    BY <1>1, CodecConstants
  <2>2. IntText(v.int) \in Seq(Numerals \cup {"-"})
    BY <2>1, IntTextIsText
  <2>3. Numerals \cup {"-"} \subseteq FieldBytes
    BY NumeralsArePlain DEF FieldBytes
  <2>4. IntText(v.int) \in Seq(FieldBytes)
    BY <2>2, <2>3
  <2> QED  BY <2>1, <2>4 DEF FieldText
<1>2. CASE v \in [type : {"text"}, text : Seq(Bytes)]
  <2>1. v.type = "text" /\ v.text \in Seq(Bytes) /\ ValidText(v.text)
    BY <1>2 DEF Writable
  <2> DEFINE t == v.text
  <2>2. t \in Seq(Bytes) /\ \A i \in DOMAIN t : t[i] \notin {",", NL, CR, DQ}
    BY <2>1 DEF ValidText
  <2> HIDE DEF t
  <2>3. \A i \in 1..Len(t) : i \in DOMAIN t /\ t[i] \in Bytes
    BY <2>2, Elements, Zenon
  <2>5. \A b \in Bytes : b \notin {",", NL, CR, DQ} => b \in FieldBytes
    BY DEF FieldBytes
  <2>6. \A i \in 1..Len(t) : t[i] \in FieldBytes
    BY <2>2, <2>3, <2>5, Zenon
  <2>4. t \in Seq(FieldBytes)
    BY <2>2, <2>6, SeqElements, Zenon
  <2> QED  BY <2>1, <2>4 DEF FieldText, t
<1> QED  BY <1>1, <1>2 DEF Writable, Cells

LEMMA FieldTextsOfMore ==
    ASSUME NEW row \in Seq(Writable), NEW v \in Writable
    PROVE  /\ FieldTexts(row) \in Seq(Seq(FieldBytes))
           /\ FieldTexts(Append(row, v)) = Append(FieldTexts(row), FieldText(v))
<1> DEFINE texts == FieldTexts(row)
           f == FieldText(v)
           r == Append(row, v)
           n == Len(row)
<1>1. /\ n \in Nat /\ DOMAIN row = 1..n
      /\ \A i \in 1..n : row[i] \in Writable
  OBVIOUS
<1>2. r = [i \in 1..(n + 1) |-> IF i = n + 1 THEN v ELSE row[i]]
  BY AppendIs
<1>3. texts = [i \in 1..n |-> FieldText(row[i])]
  BY <1>1 DEF FieldTexts
<1> HIDE DEF texts, r, n
<1>4. texts = [i \in 1..n |-> texts[i]] /\ \A i \in 1..n : texts[i] = FieldText(row[i])
  BY <1>3
<1>5. \A i \in 1..n : texts[i] \in Seq(FieldBytes)
  BY <1>1, <1>4, FieldIsPlain
<1>6. texts \in Seq(Seq(FieldBytes)) /\ Len(texts) = n
  BY <1>1, <1>4, <1>5, MappedSeq, Zenon
<1>7. f \in Seq(FieldBytes)
  BY FieldIsPlain
<1>8. DOMAIN r = 1..(n + 1) /\ \A i \in 1..(n + 1) : r[i] = IF i = n + 1 THEN v ELSE row[i]
  BY <1>2
<1>9. FieldTexts(r) = [i \in 1..(n + 1) |-> FieldText(r[i])]
  BY <1>8 DEF FieldTexts
<1> HIDE DEF f
<1>10. /\ Append(texts, f) \in Seq(Seq(FieldBytes)) /\ Len(Append(texts, f)) = n + 1
       /\ \A i \in 1..(n + 1) : Append(texts, f)[i] = IF i = n + 1 THEN f ELSE texts[i]
  BY <1>1, <1>6, <1>7, AppendProperties
<1>11. \A i \in 1..(n + 1) : FieldText(r[i]) = Append(texts, f)[i]
  BY <1>1, <1>4, <1>8, <1>10 DEF f
<1>12. FieldTexts(r) = Append(texts, f)
  <2> DEFINE g == FieldTexts(r)
  <2>1. g = [i \in 1..(n + 1) |-> g[i]] /\ \A i \in 1..(n + 1) : g[i] = Append(texts, f)[i]
    BY <1>9, <1>11
  <2> HIDE DEF g
  <2>2. \A i \in 1..(n + 1) : g[i] \in Seq(FieldBytes)
    BY <1>5, <1>7, <1>10, <2>1
  <2>3. n + 1 \in Nat
    BY <1>1
  <2>4. g \in Seq(Seq(FieldBytes)) /\ Len(g) = n + 1
    BY <2>1, <2>2, <2>3, MappedSeq, Zenon
  <2> DEFINE h == Append(texts, f)
  <2> HIDE DEF h
  <2>5. g = h
    BY <1>10, <2>1, <2>4, SeqEqual DEF h
  <2> QED  BY <2>5 DEF g, h
<1> QED  BY <1>6, <1>12 DEF texts, f, r

\* A parser that has read a text goes on from where it is.
LEMMA ParsingGoesOn ==
    ASSUME NEW E, NEW p, NEW s \in Seq(E)
    PROVE  \A t \in Seq(E) : Parsing!Fold(p, s \o t) = Parsing!Fold(Parsing!Fold(p, s), t)
<1> DEFINE T == {t \in Seq(E) : Parsing!Fold(p, s \o t) = Parsing!Fold(Parsing!Fold(p, s), t)}
<1>1. <<>> \in T
  <2>1. s \o <<>> = s /\ <<>> \in Seq(E)
    OBVIOUS
  <2>2. Parsing!Fold(Parsing!Fold(p, s), <<>>) = Parsing!Fold(p, s)
    BY Parsing!FoldOfNone
  <2> QED  BY <2>1, <2>2
<1>2. ASSUME NEW t \in Seq(E), NEW e \in E, t \in T PROVE Append(t, e) \in T
  <2>1. s \o t \in Seq(E) /\ s \o Append(t, e) = Append(s \o t, e)
    OBVIOUS
  <2>2. Parsing!Fold(p, Append(s \o t, e)) = WithByte(Parsing!Fold(p, s \o t), e)
    BY <2>1, Parsing!FoldOfMore
  <2>3. Parsing!Fold(Parsing!Fold(p, s), Append(t, e))
            = WithByte(Parsing!Fold(Parsing!Fold(p, s), t), e)
    BY Parsing!FoldOfMore
  <2>4. Parsing!Fold(p, s \o t) = Parsing!Fold(Parsing!Fold(p, s), t)
    BY <1>2
  <2>5. Parsing!Fold(p, s \o Append(t, e)) = Parsing!Fold(Parsing!Fold(p, s), Append(t, e))
    BY <2>1, <2>2, <2>3, <2>4, Zenon
  <2> QED  BY <2>5
<1> HIDE DEF T
<1>3. \A t \in Seq(E) : t \in T
  BY <1>1, <1>2, Parsing!SeqInduction
<1> QED  BY <1>3 DEF T

\* A text without a comma becomes one field.
LEMMA FieldIsRead ==
    ASSUME NEW fields, NEW F, fields \in Seq(F), Seq(FieldBytes) \subseteq F
    PROVE  \A f \in Seq(FieldBytes) :
                Parsing!Fold(Append(fields, <<>>), f) = Append(fields, f)
<1> DEFINE T == {f \in Seq(FieldBytes) :
                    Parsing!Fold(Append(fields, <<>>), f) = Append(fields, f)}
<1>1. <<>> \in T
  <2>1. <<>> \in Seq(FieldBytes)
    OBVIOUS
  <2>2. Parsing!Fold(Append(fields, <<>>), <<>>) = Append(fields, <<>>)
    BY Parsing!FoldOfNone
  <2> QED  BY <2>1, <2>2
<1>2. ASSUME NEW f \in Seq(FieldBytes), NEW b \in FieldBytes, f \in T PROVE Append(f, b) \in T
  <2> DEFINE g == Append(fields, f)
             h == Append(f, b)
  <2>1. Parsing!Fold(Append(fields, <<>>), h) = WithByte(g, b)
    <3>1. Parsing!Fold(Append(fields, <<>>), h)
              = WithByte(Parsing!Fold(Append(fields, <<>>), f), b)
      BY Parsing!FoldOfMore
    <3> QED  BY <1>2, <3>1
  <2>2. f \in F /\ h \in F /\ h \in Seq(FieldBytes)
    <3>1. h \in Seq(FieldBytes)
      OBVIOUS
    <3> QED  BY <3>1
  <2>3. /\ g \in Seq(F) /\ Len(g) = Len(fields) + 1 /\ Len(fields) \in Nat
        /\ \A i \in 1..Len(fields) : g[i] = fields[i]
        /\ g[Len(fields) + 1] = f
    BY <2>2
  <2>4. /\ Append(fields, h) \in Seq(F) /\ Len(Append(fields, h)) = Len(fields) + 1
        /\ \A i \in 1..Len(fields) : Append(fields, h)[i] = fields[i]
        /\ Append(fields, h)[Len(fields) + 1] = h
    BY <2>2
  <2>5. b # ","
    BY DEF FieldBytes
  <2> DEFINE w == [g EXCEPT ![Len(g)] = Append(g[Len(g)], b)]
  <2>6. WithByte(g, b) = w
    BY <2>5 DEF WithByte
  <2> HIDE DEF g
  <2>7. w \in Seq(F) /\ Len(w) = Len(fields) + 1
        /\ \A i \in 1..(Len(fields) + 1) : w[i] = IF i = Len(fields) + 1 THEN h ELSE fields[i]
    <3>1. DOMAIN w = 1..(Len(fields) + 1)
      BY <2>3
    <3>2. \A i \in 1..(Len(fields) + 1) :
              w[i] = IF i = Len(fields) + 1 THEN h ELSE fields[i]
      BY <2>3
    <3>3. \A i \in 1..(Len(fields) + 1) : w[i] \in F
      BY <2>2, <3>2
    <3>4. w = [i \in 1..(Len(fields) + 1) |-> w[i]]
      BY <3>1
    <3> HIDE DEF w
    <3>5. w \in Seq(F) /\ Len(w) = Len(fields) + 1
      BY <2>3, <3>3, <3>4
    <3> QED  BY <3>2, <3>5
  <2>8. w = Append(fields, h)
    <3> HIDE DEF w, h
    <3>1. \A i \in 1..Len(w) : w[i] = Append(fields, h)[i]
      BY <2>3, <2>4, <2>7
    <3> QED  BY <2>4, <2>7, <3>1, SeqEqual
  <2> QED  BY <2>1, <2>2, <2>6, <2>8
<1> HIDE DEF T
<1>3. \A f \in Seq(FieldBytes) : f \in T
  BY <1>1, <1>2, Parsing!SeqInduction
<1> QED  BY <1>3 DEF T

LineBytes == FieldBytes \cup {","}

LEMMA CommaFirst ==
    ASSUME NEW c \in Seq(LineBytes), NEW f \in Seq(LineBytes)
    PROVE  /\ Append(c, ",") \o f # <<>>
           /\ c = <<>> => Head(Append(c, ",") \o f) = ","
           /\ c # <<>> => Head(Append(c, ",") \o f) = Head(c)
<1>1. "," \in LineBytes
  BY DEF LineBytes
<1> QED  BY <1>1, LongerHead, Zenon

\* What is written, a comma before each field, is read as those fields.
LEMMA RowIsParsed ==
    \A row \in Seq(Writable) :
        /\ CommaFields(row) \in Seq(LineBytes)
        /\ FieldTexts(row) \in Seq(Seq(FieldBytes))
        /\ Parsing!Fold(<<>>, CommaFields(row)) = FieldTexts(row)
        /\ row # <<>> => CommaFields(row) # <<>> /\ Head(CommaFields(row)) = ","
<1> DEFINE Good(row) ==
        /\ CommaFields(row) \in Seq(LineBytes)
        /\ FieldTexts(row) \in Seq(Seq(FieldBytes))
        /\ Parsing!Fold(<<>>, CommaFields(row)) = FieldTexts(row)
        /\ row # <<>> => CommaFields(row) # <<>> /\ Head(CommaFields(row)) = ","
    T == {row \in Seq(Writable) : Good(row)}
<1>1. <<>> \in T
  <2>1. CommaFields(<<>>) = <<>>
    BY FoldsAreLoops, Writing!FoldOfNone
  <2>2. FieldTexts(<<>>) = <<>>
    BY DEF FieldTexts
  <2>3. Parsing!Fold(<<>>, <<>>) = <<>>
    BY Parsing!FoldOfNone
  <2>4. <<>> \in Seq(LineBytes) /\ <<>> \in Seq(Seq(FieldBytes)) /\ <<>> \in Seq(Writable)
    OBVIOUS
  <2>5. Good(<<>>)
    BY <2>1, <2>2, <2>3, <2>4
  <2> HIDE DEF Good
  <2> QED  BY <2>4, <2>5
<1>2. ASSUME NEW row \in Seq(Writable), NEW v \in Writable, row \in T
      PROVE  Append(row, v) \in T
  <2> DEFINE c == CommaFields(row)
             f == FieldText(v)
             d == Append(c, ",")
             texts == FieldTexts(row)
  <2>0. /\ c \in Seq(LineBytes) /\ texts \in Seq(Seq(FieldBytes))
        /\ Parsing!Fold(<<>>, c) = texts /\ (row # <<>> => c # <<>> /\ Head(c) = ",")
    BY <1>2
  <2> HIDE DEF Good, T
  <2>1. CommaFields(Append(row, v)) = c \o <<",">> \o f
    <3>1. Writing!Fold(0, Append(row, v)) = Writing!Fold(0, row) \o <<",">> \o f
      BY Writing!FoldOfMore
    <3> QED  BY <3>1, FoldsAreLoops
  <2>2. f \in Seq(FieldBytes)
    BY FieldIsPlain
  <2>3. FieldTexts(Append(row, v)) = Append(texts, f)
    BY FieldTextsOfMore
  <2> HIDE DEF c, f, texts
  <2>4. "," \in LineBytes /\ f \in Seq(LineBytes) /\ d \in Seq(LineBytes)
        /\ c \o <<",">> = d /\ d \o f \in Seq(LineBytes)
    <3>1. "," \in LineBytes /\ FieldBytes \subseteq LineBytes
      BY DEF LineBytes
    <3>2. f \in Seq(LineBytes)
      BY <2>2, <3>1, SeqIsLarger, Zenon
    <3> QED  BY <2>0, <3>1, <3>2, LongerText
  <2>5. Parsing!Fold(<<>>, d) = Append(texts, <<>>)
    <3>1. Parsing!Fold(<<>>, Append(c, ",")) = WithByte(Parsing!Fold(<<>>, c), ",")
      BY <2>0, <2>4, Parsing!FoldOfMore
    <3> QED  BY <2>0, <3>1 DEF WithByte
  <2>6. Parsing!Fold(Append(texts, <<>>), f) = Append(texts, f)
    BY <2>0, <2>2, FieldIsRead
  <2>7. Parsing!Fold(<<>>, d \o f) = Parsing!Fold(Parsing!Fold(<<>>, d), f)
    <3>1. PICK e : e = d
      OBVIOUS
    <3>2. f \in Seq(LineBytes) /\ e \in Seq(LineBytes)
      BY <2>4, <3>1
    <3>3. Parsing!Fold(<<>>, e \o f) = Parsing!Fold(Parsing!Fold(<<>>, e), f)
      <4> HIDE DEF d
      <4> QED  BY <3>2, ParsingGoesOn
    <3> QED  BY <3>1, <3>3
  <2>8. Parsing!Fold(<<>>, d \o f) = Append(texts, f)
    BY <2>5, <2>6, <2>7, Zenon
  <2>9. Append(texts, f) \in Seq(Seq(FieldBytes))
    BY <2>0, <2>2, AppendIs, Zenon
  <2>10. d \o f # <<>> /\ Head(d \o f) = ","
    <3>1. c \in Seq(LineBytes) /\ f \in Seq(LineBytes)
      BY <2>0, <2>4
    <3>2. d \o f # <<>> /\ (c = <<>> => Head(d \o f) = ",") /\ (c # <<>> => Head(d \o f) = Head(c))
      BY <3>1, CommaFirst
    <3>3. row = <<>> => c = <<>>
      BY FoldsAreLoops, Writing!FoldOfNone DEF c
    <3> QED  BY <2>0, <3>2, <3>3, Zenon
  <2>11. CommaFields(Append(row, v)) = d \o f
    BY <2>1, <2>4
  <2>12. Good(Append(row, v))
    <3> HIDE DEF d
    <3> QED  BY <2>3, <2>4, <2>8, <2>9, <2>10, <2>11 DEF Good
  <2>13. Append(row, v) \in Seq(Writable)
    OBVIOUS
  <2> QED  BY <2>12, <2>13 DEF T
<1> HIDE DEF Good
<1>3. \A row \in Seq(Writable) : row \in T
  <2> HIDE DEF T
  <2> QED  BY <1>1, <1>2, Parsing!SeqInduction
<1>4. \A row \in Seq(Writable) : Good(row)
  BY <1>3
<1> QED  BY <1>4 DEF Good

LEMMA HeadAndTail ==
    ASSUME NEW E, NEW c \in Seq(E), c # <<>>
    PROVE  /\ Tail(c) \in Seq(E) /\ Head(c) \in E
           /\ c = <<Head(c)>> \o Tail(c)
           /\ <<Head(c)>> = Append(<<>>, Head(c))
OBVIOUS

\* The commas part the fields of a row that is read.
LEMMA FieldsAreRead ==
    ASSUME NEW row \in Seq(Writable), row # <<>>
    PROVE  Serialize(row) \in Seq(LineBytes) /\ Fields(Serialize(row)) = FieldTexts(row)
<1>1. PICK c : c = CommaFields(row)
  OBVIOUS
<1>2. /\ c \in Seq(LineBytes) /\ c # <<>> /\ Head(c) = ","
      /\ Parsing!Fold(<<>>, c) = FieldTexts(row)
  BY <1>1, RowIsParsed
<1>3. PICK u : u = Tail(c)
  OBVIOUS
<1>4. Serialize(row) = u
  BY <1>1, <1>3 DEF Serialize
<1>5. PICK comma : comma = Append(<<>>, ",")
  OBVIOUS
<1>6. "," \in LineBytes /\ <<>> \in Seq(LineBytes)
  BY DEF LineBytes
<1>7. u \in Seq(LineBytes) /\ comma \in Seq(LineBytes) /\ c = comma \o u
  <2>1. Tail(c) \in Seq(LineBytes) /\ c = Append(<<>>, Head(c)) \o Tail(c)
    BY <1>2, HeadAndTail, Zenon
  <2> QED  BY <1>2, <1>3, <1>5, <1>6, <2>1, AppendProperties, Zenon
<1>8. Parsing!Fold(<<>>, comma) = <<<<>>>>
  <2>1. Parsing!Fold(<<>>, Append(<<>>, ",")) = WithByte(Parsing!Fold(<<>>, <<>>), ",")
    BY <1>6, Parsing!FoldOfMore
  <2>2. Parsing!Fold(<<>>, <<>>) = <<>>
    BY Parsing!FoldOfNone
  <2>3. WithByte(<<>>, ",") = <<<<>>>>
    BY DEF WithByte
  <2> QED  BY <1>5, <2>1, <2>2, <2>3
<1>9. Parsing!Fold(<<>>, comma \o u) = Parsing!Fold(Parsing!Fold(<<>>, comma), u)
  BY <1>7, ParsingGoesOn
<1>10. Fields(u) = Parsing!Fold(<<<<>>>>, u)
  BY FoldsAreLoops
<1> QED  BY <1>2, <1>4, <1>7, <1>8, <1>9, <1>10, Zenon

-----------------------------------------------------------------------------
(* A line *)

\* A line without line endings loses nothing to read_all_rows.
LEMMA PlainLine ==
    ASSUME NEW t \in Seq(LineBytes)
    PROVE  StripLineEndings(t) = t /\ (Blank(t) <=> t = <<>>)
<1> DEFINE kept == {i \in DOMAIN t : t[i] \notin {NL, CR}}
<1>0. Len(t) \in Nat /\ DOMAIN t = 1..Len(t) /\ \A i \in 1..Len(t) : t[i] \in LineBytes
  OBVIOUS
<1>1. kept = 1..Len(t)
  <2>1. \A b \in LineBytes : b \notin {NL, CR}
    BY DEF LineBytes, FieldBytes, NL, CR
  <2> QED  BY <1>0, <2>1
<1>2. StripLineEndings(t) = IF kept = {} THEN <<>> ELSE SubSeq(t, 1, Max(kept))
  BY DEF StripLineEndings
<1> HIDE DEF kept
<1>3. CASE t = <<>>
  BY <1>0, <1>1, <1>2, <1>3 DEF Blank
<1>4. CASE t # <<>>
  <2>1. Len(t) >= 1
    BY <1>4
  <2>2. kept \in SUBSET (1..Len(t)) /\ kept # {} /\ Len(t) \in kept
    BY <1>0, <1>1, <2>1
  <2>3. Number!Max(kept) \in kept /\ \A i \in kept : i <= Number!Max(kept)
    BY <1>0, <2>2, Number!LastOf
  <2>4. Max(kept) \in kept /\ \A i \in kept : i <= Max(kept)
    BY <2>3, Zenon DEF Max, Number!Max
  <2>5. Max(kept) = Len(t)
    <3>1. Max(kept) \in 1..Len(t) /\ Len(t) <= Max(kept)
      BY <2>2, <2>4, <1>1
    <3> QED  BY <1>0, <3>1
  <2>6. SubSeq(t, 1, Len(t)) = t
    OBVIOUS
  <2> QED  BY <1>2, <1>4, <2>2, <2>5, <2>6, Zenon DEF Blank
<1> QED  BY <1>3, <1>4


\* A schema that reads at least what another does.
TypesWiden(schema, wider) ==
    /\ Len(wider) = Len(schema)
    /\ \A i \in 1..Len(schema) : wider[i] \in {schema[i], "text"}

ReadCells == [type : {"int"}, int : INT_MIN..INT_MAX]
             \cup [type : {"text"}, text : Seq(FieldBytes)]

\* One value, written under one type and read under another.
LEMMA ValueIsRead ==
    ASSUME NEW type \in ColumnTypes, NEW wider \in {type, "text"},
           NEW v \in Writable, v.type = type
    PROVE  LET field == FieldText(v)
               read  == IF wider = "int" THEN IntV(NumeralValue(field)) ELSE TextV(field)
           IN  /\ Len(field) < MAX_VALUE_LENGTH
               /\ wider = "int" => IsInt(field)
               /\ read \in ReadCells /\ read.type = wider /\ FieldText(read) = field
               /\ wider = type => read = v
<1>1. CASE v \in [type : {"int"}, int : INT_MIN..INT_MAX]
  <2>1. PICK n \in INT_MIN..INT_MAX : v = [type |-> "int", int |-> n]
    BY <1>1
  <2>2. n \in Int /\ v.type = "int" /\ v.int = n /\ v = IntV(n)
    BY <2>1, CodecConstants DEF IntV
  <2>3. FieldText(v) = IntText(n)
    BY <2>2 DEF FieldText
  <2>4. IsNumeral(IntText(n)) /\ NumeralValue(IntText(n)) = n /\ Len(IntText(n)) < MAX_VALUE_LENGTH
    BY <2>2, IntValue, NumbersFit
  <2>5. IsInt(IntText(n))
    BY <2>4 DEF IsInt
  <2>6. IntText(n) \in Seq(FieldBytes)
    BY <2>3, FieldIsPlain
  <2>7. CASE wider = "int"
    BY <2>2, <2>3, <2>4, <2>5, <2>7 DEF IntV, ReadCells, FieldText
  <2>8. CASE wider = "text"
    <3>1. TextV(IntText(n)) \in ReadCells /\ TextV(IntText(n)).type = "text"
          /\ FieldText(TextV(IntText(n))) = IntText(n)
      BY <2>6 DEF ReadCells, TextV, FieldText
    <3> QED  BY <2>2, <2>3, <2>4, <2>8, <3>1
  <2> QED  BY <2>2, <2>7, <2>8
<1>2. CASE v \in [type : {"text"}, text : Seq(Bytes)]
  <2>1. PICK t \in Seq(Bytes) : v = [type |-> "text", text |-> t]
    BY <1>2
  <2>2. v.type = "text" /\ v.text = t /\ v = TextV(t) /\ ValidText(t)
    BY <2>1 DEF TextV, Writable
  <2>3. FieldText(v) = t /\ FieldText(TextV(t)) = t
    BY <2>2 DEF FieldText
  <2>4. t \in Seq(FieldBytes) /\ Len(t) < MAX_VALUE_LENGTH
    BY <2>2, <2>3, FieldIsPlain DEF ValidText
  <2>5. TextV(t) \in ReadCells /\ TextV(t).type = "text"
    BY <2>4 DEF ReadCells, TextV
  <2> QED  BY <2>2, <2>3, <2>4, <2>5
<1> QED  BY <1>1, <1>2 DEF Writable, Cells

\* A row that is written and is not a blank line is read with the same texts
\* under every wider schema, and as it was under its own.
LEMMA ReadWider ==
    ASSUME NEW schema \in Seq(ColumnTypes), NEW wider \in Seq(ColumnTypes),
           TypesWiden(schema, wider), NEW row \in Seq(Cells),
           ValidRow(schema, row), Serialize(row) # <<>>
    PROVE  LET line == Serialize(row)
           IN  /\ ~Blank(line) /\ StripLineEndings(line) = line /\ Parsable(wider, line)
               /\ ParsedRow(wider, line) \in Seq(ReadCells)
               /\ Len(ParsedRow(wider, line)) = Len(wider)
               /\ \A i \in 1..Len(wider) : ParsedRow(wider, line)[i].type = wider[i]
               /\ FieldTexts(ParsedRow(wider, line)) = FieldTexts(row)
               /\ wider = schema => ParsedRow(wider, line) = row
<1> DEFINE n == Len(schema)
<1>1. /\ n \in 1..MAX_COLUMNS /\ n \in Nat /\ Len(row) = n /\ Len(wider) = n
      /\ DOMAIN schema = 1..n /\ DOMAIN wider = 1..n /\ DOMAIN row = 1..n
      /\ \A i \in 1..n : /\ row[i] \in Cells /\ schema[i] \in ColumnTypes
                         /\ row[i].type = schema[i] /\ wider[i] \in {schema[i], "text"}
                         /\ row[i].type = "text" => ValidText(row[i].text)
  <2>1. DOMAIN schema = 1..n /\ DOMAIN wider = 1..Len(wider) /\ DOMAIN row = 1..Len(row)
    OBVIOUS
  <2>2. Len(row) = n /\ Len(wider) = n
    BY DEF ValidRow, TypesWiden
  <2>3. \A i \in 1..n : row[i] \in Cells /\ schema[i] \in ColumnTypes
    BY <2>2
  <2> QED  BY <2>1, <2>2, <2>3 DEF ValidRow, TypesWiden
<1>2. row \in Seq(Writable) /\ row # <<>> /\ \A i \in 1..n : row[i] \in Writable
  <2>1. \A i \in 1..Len(row) : row[i] \in Writable
    BY <1>1 DEF Writable
  <2>2. row \in Seq(Writable)
    BY <2>1, SeqElements
  <2>3. row # <<>>
    BY <1>1
  <2> QED  BY <1>1, <2>1, <2>2, <2>3
<1>3. PICK line : line = Serialize(row)
  OBVIOUS
<1>4. line \in Seq(LineBytes) /\ Fields(line) = FieldTexts(row) /\ line # <<>>
  BY <1>2, <1>3, FieldsAreRead
<1>5. ~Blank(line) /\ StripLineEndings(line) = line
  BY <1>4, PlainLine
<1>6. PICK fields : fields = Fields(line)
  OBVIOUS
<1> HIDE DEF n
<1>7. /\ fields = [i \in 1..n |-> FieldText(row[i])] /\ Len(fields) = n
      /\ \A i \in 1..n : fields[i] = FieldText(row[i])
  <2>1. fields = [i \in 1..n |-> FieldText(row[i])]
    BY <1>1, <1>4, <1>6 DEF FieldTexts
  <2>2. \A i \in 1..n : fields[i] = FieldText(row[i])
    BY <2>1
  <2>3. fields = [i \in 1..n |-> fields[i]]
    BY <2>1
  <2>4. \A i \in 1..n : fields[i] \in Seq(FieldBytes)
    BY <1>2, <2>2, FieldIsPlain
  <2> QED  BY <1>1, <2>1, <2>2, <2>3, <2>4, MappedSeq
<1> DEFINE Read(i) == IF wider[i] = "int" THEN IntV(NumeralValue(fields[i])) ELSE TextV(fields[i])
<1>8. \A i \in 1..n : /\ Len(fields[i]) < MAX_VALUE_LENGTH
                      /\ wider[i] = "int" => IsInt(fields[i])
                      /\ Read(i) \in ReadCells /\ Read(i).type = wider[i]
                      /\ FieldText(Read(i)) = fields[i]
                      /\ wider[i] = schema[i] => Read(i) = row[i]
  BY <1>1, <1>2, <1>7, ValueIsRead
<1>9. PICK read : read = ParsedRow(wider, line)
  OBVIOUS
<1>10. read = [i \in 1..n |-> Read(i)]
  BY <1>1, <1>6, <1>9 DEF ParsedRow
<1> HIDE DEF Read
<1>11. read = [i \in 1..n |-> read[i]] /\ DOMAIN read = 1..n /\ \A i \in 1..n : read[i] = Read(i)
  BY <1>10
<1>12. read \in Seq(ReadCells) /\ Len(read) = n
  BY <1>1, <1>8, <1>11, MappedSeq
<1>13. Parsable(wider, line)
  BY <1>1, <1>6, <1>7, <1>8 DEF Parsable
<1>14. FieldTexts(read) = FieldTexts(row)
  <2>1. FieldTexts(read) = [i \in 1..n |-> FieldText(read[i])]
    BY <1>11 DEF FieldTexts
  <2>2. FieldTexts(row) = [i \in 1..n |-> FieldText(row[i])]
    BY <1>1 DEF FieldTexts
  <2> QED  BY <1>7, <1>8, <1>11, <2>1, <2>2
<1>15. wider = schema => read = row
  <2>1. row = [i \in 1..n |-> row[i]]
    BY <1>1
  <2> QED  BY <1>8, <1>10, <2>1
<1> QED  BY <1>1, <1>3, <1>5, <1>8, <1>9, <1>11, <1>12, <1>13, <1>14, <1>15

\* Its own schema is wide enough.
LEMMA RoundTrip ==
    ASSUME NEW schema \in Seq(ColumnTypes), NEW row \in Seq(Cells),
           ValidRow(schema, row), Serialize(row) # <<>>
    PROVE  LET line == Serialize(row)
           IN  /\ ~Blank(line) /\ StripLineEndings(line) = line
               /\ Parsable(schema, line) /\ ParsedRow(schema, line) = row
<1>1. TypesWiden(schema, schema)
  BY DEF TypesWiden
<1> QED  BY <1>1, ReadWider

\* Two values of one type are equal when they are written alike.
LEMMA WrittenAlike ==
    ASSUME NEW T, NEW v, NEW w,
           v \in [type : {"int"}, int : INT_MIN..INT_MAX] \cup [type : {"text"}, text : T],
           w \in [type : {"int"}, int : INT_MIN..INT_MAX] \cup [type : {"text"}, text : T],
           v.type = w.type
    PROVE  v = w <=> FieldText(v) = FieldText(w)
<1>1. CASE v.type = "int"
  <2>1. PICK m \in INT_MIN..INT_MAX : v = [type |-> "int", int |-> m]
    BY <1>1
  <2>2. PICK n \in INT_MIN..INT_MAX : w = [type |-> "int", int |-> n]
    BY <1>1
  <2>3. FieldText(v) = IntText(m) /\ FieldText(w) = IntText(n) /\ m \in Int /\ n \in Int
    BY <2>1, <2>2, CodecConstants DEF FieldText
  <2>4. NumeralValue(IntText(m)) = m /\ NumeralValue(IntText(n)) = n
    BY <2>3, IntValue
  <2>5. FieldText(v) = FieldText(w) => m = n
    BY <2>3, <2>4, Zenon
  <2> QED  BY <2>1, <2>2, <2>3, <2>5
<1>2. CASE v.type = "text"
  <2>1. PICK s \in T : v = [type |-> "text", text |-> s]
    BY <1>2
  <2>2. PICK t \in T : w = [type |-> "text", text |-> t]
    BY <1>2
  <2> QED  BY <2>1, <2>2 DEF FieldText
<1> QED  BY <1>1, <1>2

-----------------------------------------------------------------------------
(* A file *)

LEMMA RowsOfNone == ASSUME NEW schema PROVE RowsOf(schema, <<>>) = <<>>
BY FoldsAreLoops, Reading!FoldOfNone

LEMMA RowsOfMore ==
    ASSUME NEW schema, NEW E, NEW lines \in Seq(E), NEW line \in E
    PROVE  RowsOf(schema, Append(lines, line)) = WithLine(schema, RowsOf(schema, lines), line)
<1>1. Reading!Fold(schema, Append(lines, line)) = WithLine(schema, Reading!Fold(schema, lines), line)
  BY Reading!FoldOfMore
<1> QED  BY <1>1, FoldsAreLoops

\* What read_all_rows makes of the lines is a list of rows.
LEMMA RowsAreRows ==
    ASSUME NEW schema, NEW E, NEW lines \in Seq(E)
    PROVE  RowsOf(schema, lines) \in Seq({ParsedRow(schema, StripLineEndings(l)) : l \in E})
<1> DEFINE V == Seq({ParsedRow(schema, StripLineEndings(l)) : l \in E})
<1>1. <<>> \in V
  OBVIOUS
<1>2. \A v \in V, l \in E : WithLine(schema, v, l) \in V
  <2> SUFFICES ASSUME NEW v \in V, NEW l \in E PROVE WithLine(schema, v, l) \in V
    OBVIOUS
  <2> DEFINE r == ParsedRow(schema, StripLineEndings(l))
             R == {ParsedRow(schema, StripLineEndings(k)) : k \in E}
  <2>1. r \in R /\ v \in Seq(R)
    OBVIOUS
  <2> HIDE DEF r, R
  <2>2. Append(v, r) \in Seq(R)
    BY <2>1
  <2> QED  BY <2>1, <2>2 DEF WithLine, r, R
<1> HIDE DEF V
<1>3. \A s \in Seq(E) : Reading!Fold(schema, s) \in V
  BY <1>1, <1>2, Reading!FoldHasType
<1> QED  BY <1>3, FoldsAreLoops DEF V

\* Without blank lines there is one row for each line.
LEMMA EveryLineARow ==
    ASSUME NEW schema, NEW E, \A l \in E : ~Blank(l)
    PROVE  \A lines \in Seq(E) : RowsOf(schema, lines) =
                [k \in 1..Len(lines) |-> ParsedRow(schema, StripLineEndings(lines[k]))]
<1> DEFINE Parsed(l) == ParsedRow(schema, StripLineEndings(l))
           Each(lines) == [k \in 1..Len(lines) |-> Parsed(lines[k])]
           T == {lines \in Seq(E) : RowsOf(schema, lines) = Each(lines)}
<1>1. <<>> \in T
  <2>1. Each(<<>>) = <<>> /\ <<>> \in Seq(E)
    OBVIOUS
  <2>2. RowsOf(schema, <<>>) = <<>>
    BY RowsOfNone
  <2> HIDE DEF Each
  <2> QED  BY <2>1, <2>2
<1>2. ASSUME NEW lines \in Seq(E), NEW l \in E, lines \in T PROVE Append(lines, l) \in T
  <2> DEFINE more == Append(lines, l)
             n == Len(lines)
             F == {Parsed(k) : k \in E}
  <2>1. more \in Seq(E) /\ n \in Nat /\ Len(more) = n + 1
        /\ (\A k \in 1..n : more[k] = lines[k] /\ lines[k] \in E) /\ more[n + 1] = l
    OBVIOUS
  <2>2. RowsOf(schema, more) = Append(RowsOf(schema, lines), Parsed(l))
    BY RowsOfMore DEF WithLine
  <2>3. RowsOf(schema, lines) = Each(lines)
    BY <1>2
  <2> HIDE DEF more, n
  <2>4. Each(lines) \in Seq(F) /\ Len(Each(lines)) = n /\ Parsed(l) \in F
    <3> DEFINE g == Each(lines)
    <3>1. \A k \in 1..n : g[k] = Parsed(lines[k]) /\ g[k] \in F
      BY <2>1 DEF n
    <3>2. g = [k \in 1..n |-> g[k]]
      BY DEF n
    <3>3. Parsed(l) \in F
      OBVIOUS
    <3> HIDE DEF g, F
    <3>4. g \in Seq(F) /\ Len(g) = n
      BY <2>1, <3>1, <3>2, MappedSeq
    <3> QED  BY <3>3, <3>4 DEF g
  <2>5. Each(more) = [k \in 1..(n + 1) |-> IF k = n + 1 THEN Parsed(l) ELSE Each(lines)[k]]
    <3> HIDE DEF Parsed
    <3>1. Each(more) = [k \in 1..(n + 1) |-> Parsed(more[k])]
      BY <2>1
    <3>2. \A k \in 1..(n + 1) :
            Parsed(more[k]) = IF k = n + 1 THEN Parsed(l) ELSE Each(lines)[k]
      BY <2>1 DEF n
    <3> QED  BY <3>1, <3>2
  <2>6. Append(Each(lines), Parsed(l))
            = [k \in 1..(n + 1) |-> IF k = n + 1 THEN Parsed(l) ELSE Each(lines)[k]]
    <3> HIDE DEF Each, Parsed, F
    <3> QED  BY <2>4, AppendIs
  <2>7. RowsOf(schema, more) = Each(more)
    <3> HIDE DEF Each, Parsed
    <3> QED  BY <2>2, <2>3, <2>5, <2>6, Zenon
  <2> QED  BY <2>1, <2>7 DEF more
<1> HIDE DEF T
<1>3. \A lines \in Seq(E) : lines \in T
  BY <1>1, <1>2, Reading!SeqInduction
<1> QED  BY <1>3 DEF T

\* The fields of a line are texts of its bytes.
LEMMA FieldsAreTexts ==
    \A line \in Seq(Bytes) : Fields(line) \in Seq(Seq(Bytes))
<1> DEFINE V == {f \in Seq(Seq(Bytes)) : f # <<>>}
<1>1. <<<<>>>> \in V
  OBVIOUS
<1>2. ASSUME NEW f \in V, NEW b \in Bytes PROVE WithByte(f, b) \in V
  <2>1. CASE b = ","
    <3>1. <<>> \in Seq(Bytes)
      OBVIOUS
    <3>2. Append(f, <<>>) \in Seq(Seq(Bytes)) /\ Append(f, <<>>) # <<>>
      BY <3>1, AppendProperties
    <3> QED  BY <2>1, <3>2 DEF WithByte
  <2>2. CASE b # ","
    <3> DEFINE n == Len(f)
               e == Append(f[n], b)
    <3>1. n \in 1..Len(f) /\ f[n] \in Seq(Bytes)
      OBVIOUS
    <3>2. e \in Seq(Bytes)
      BY <3>1, AppendProperties
    <3>3. WithByte(f, b) = [f EXCEPT ![n] = e]
      BY <2>2 DEF WithByte
    <3> HIDE DEF n, e
    <3>4. [f EXCEPT ![n] = e] \in Seq(Seq(Bytes)) /\ Len([f EXCEPT ![n] = e]) = Len(f)
      BY <3>1, <3>2, ExceptSeq
    <3> QED  BY <3>1, <3>3, <3>4
  <2> QED  BY <2>1, <2>2
<1> HIDE DEF V
<1>3. \A s \in Seq(Bytes) : Parsing!Fold(<<<<>>>>, s) \in V
  BY <1>1, <1>2, Parsing!FoldHasType
<1> QED  BY <1>3, FoldsAreLoops DEF V

\* So are the texts of a row that is stored.
LEMMA StoredTexts ==
    ASSUME NEW schema \in Seq(ColumnTypes), NEW row \in Seq(Cells), Storable(schema, row)
    PROVE  FieldTexts(row) \in Seq(Seq(Bytes)) /\ Serialize(row) \in Line
<1>1. ValidRow(schema, row) /\ Serialize(row) \in Seq(Bytes) /\ Serialize(row) \in Line
  BY DEF Storable, Line
<1>2. row # <<>> /\ \A i \in 1..Len(row) : row[i] \in Writable
  <2>1. Len(row) = Len(schema) /\ DOMAIN schema = 1..Len(schema) /\ Len(schema) >= 1
    BY <1>1 DEF ValidRow
  <2>2. \A i \in 1..Len(row) : row[i] \in Cells
    OBVIOUS
  <2>3. row # <<>>
    BY <2>1
  <2> QED  BY <1>1, <2>1, <2>2, <2>3 DEF ValidRow, Writable
<1>3. row \in Seq(Writable)
  BY <1>2, SeqElements
<1>4. Fields(Serialize(row)) = FieldTexts(row)
  BY <1>2, <1>3, FieldsAreRead
<1>5. Fields(Serialize(row)) \in Seq(Seq(Bytes))
  BY <1>1, FieldsAreTexts
<1> QED  BY <1>1, <1>4, <1>5
=============================================================================
