------------------------------ MODULE FoldFacts ------------------------------
(***************************************************************************)
(* What FoldLeft computes: its value on the empty sequence, on a sequence  *)
(* with one more element, and its type, for every operator.  A module that *)
(* proves something about a loop of the program takes an instance of this  *)
(* one; p stands for what the body of the loop reads besides v and e.      *)
(***************************************************************************)
EXTENDS SequencesExt, SequenceTheorems, WellFoundedInduction, TLAPS

CONSTANTS Op(_, _, _), Base(_)

Fold(p, s) == FoldLeft(LAMBDA v, e : Op(p, v, e), Base(p), s)

\* Induction over the naturals, for a set of them.
LEMMA SetInduction ==
    ASSUME NEW T, 0 \in T, \A n \in Nat : n \in T => n + 1 \in T
    PROVE  \A n \in Nat : n \in T
<1> DEFINE Out == Nat \ T
<1>1. SUFFICES ASSUME Out # {} PROVE FALSE
  OBVIOUS
<1>2. PICK x \in Out : \A y \in Out : ~ (<<y, x>> \in OpToRel(<, Nat))
  BY <1>1, NatLessThanWellFounded, WFMin
<1>3. \A y \in Out : ~ (y < x)
  BY <1>2 DEF OpToRel
<1>4. x # 0 /\ x - 1 \in Nat /\ x - 1 < x
  OBVIOUS
<1>5. x - 1 \in T
  BY <1>3, <1>4
<1>6. x \in T
  BY <1>4, <1>5
<1> QED  BY <1>6

\* Induction over the sequences of E, for a set of them.
LEMMA SeqInduction ==
    ASSUME NEW E, NEW T, <<>> \in T,
           \A s \in Seq(E), e \in E : s \in T => Append(s, e) \in T
    PROVE  \A s \in Seq(E) : s \in T
<1> DEFINE N == {n \in Nat : \A s \in Seq(E) : Len(s) = n => s \in T}
<1>1. 0 \in N
  BY EmptySeq
<1>2. ASSUME NEW n \in Nat, n \in N PROVE n + 1 \in N
  <2> SUFFICES ASSUME NEW s \in Seq(E), Len(s) = n + 1 PROVE s \in T
    OBVIOUS
  <2>1. s # <<>>
    OBVIOUS
  <2>2. PICK r \in Seq(E), e \in E : s = Append(r, e)
    BY <2>1, SequenceEmptyOrAppend
  <2>3. Len(r) = n
    BY <2>2
  <2> QED  BY <1>2, <2>2, <2>3
<1> HIDE DEF N
<1>3. \A n \in Nat : n \in N
  BY <1>1, <1>2, SetInduction
<1> QED  BY <1>3 DEF N

\* A set of natural numbers that has an element has a least one.
LEMMA FirstOf ==
    ASSUME NEW d \in SUBSET Nat, d # {}
    PROVE  /\ Min(d) \in d
           /\ \A y \in d : Min(d) <= y
<1>1. PICK x \in d : \A y \in d : ~ (<<y, x>> \in OpToRel(<, Nat))
  BY NatLessThanWellFounded, WFMin
<1>2. \A y \in d : ~ (y < x)
  BY <1>1 DEF OpToRel
<1>3. \A y \in d : x <= y
  BY <1>2
<1> QED  BY <1>3 DEF Min

LEMMA LastOf ==
    ASSUME NEW n \in Nat, NEW d \in SUBSET (1..n), d # {}
    PROVE  /\ Max(d) \in d
           /\ \A y \in d : y <= Max(d)
<1> DEFINE T == {k \in Nat : \A c \in SUBSET (1..k) :
                    c # {} => \E x \in c : \A y \in c : y <= x}
<1>1. 0 \in T
  <2>1. \A c \in SUBSET (1..0) : c = {}
    OBVIOUS
  <2> QED  BY <2>1
<1>2. ASSUME NEW k \in Nat, k \in T PROVE k + 1 \in T
  <2> SUFFICES ASSUME NEW c \in SUBSET (1..k + 1), c # {}
               PROVE  \E x \in c : \A y \in c : y <= x
    OBVIOUS
  <2>1. CASE k + 1 \in c
    BY <2>1
  <2>2. CASE k + 1 \notin c
    <3>1. c \in SUBSET (1..k)
      BY <2>2
    <3> QED  BY <3>1, <1>2
  <2> QED  BY <2>1, <2>2
<1> HIDE DEF T
<1>3. n \in T
  BY <1>1, <1>2, SetInduction
<1>4. \E x \in d : \A y \in d : y <= x
  BY <1>3 DEF T
<1> QED  BY <1>4 DEF Max

-----------------------------------------------------------------------------
\* g is the function FoldLeft iterates, over the subsets of D.
Body(p, g, s, d) ==
    IF d = {} THEN Base(p) ELSE Op(p, g[d \ {Max(d)}], s[Max(d)])
Iterates(p, g, s, D) == g = [d \in SUBSET D |-> Body(p, g, s, d)]

LEMMA FoldIsIterate ==
    ASSUME NEW p, NEW s
    PROVE  Fold(p, s) = (CHOOSE g : Iterates(p, g, s, DOMAIN s))[DOMAIN s]
BY DEF Fold, FoldLeft, MapThenFoldSet, Iterates, Body

LEMMA IterateExists ==
    ASSUME NEW p, NEW s, NEW n \in Nat
    PROVE  \E g : Iterates(p, g, s, 1..n)
<1> DEFINE T == {k \in Nat : \E g : Iterates(p, g, s, 1..k)}
<1>1. 0 \in T
  <2> DEFINE g == [d \in SUBSET (1..0) |-> Base(p)]
  <2>1. \A d \in SUBSET (1..0) : d = {}
    OBVIOUS
  <2>2. Iterates(p, g, s, 1..0)
    BY <2>1 DEF Iterates, Body
  <2> QED  BY <2>2
<1>2. ASSUME NEW k \in Nat, k \in T PROVE k + 1 \in T
  <2>1. PICK h : Iterates(p, h, s, 1..k)
    BY <1>2
  <2> DEFINE g == [d \in SUBSET (1..k + 1) |->
                    IF k + 1 \in d THEN Op(p, h[d \ {k + 1}], s[k + 1]) ELSE h[d]]
  <2>2. ASSUME NEW d \in SUBSET (1..k + 1) PROVE g[d] = Body(p, g, s, d)
    <3>1. CASE k + 1 \in d
      <4>1. Max(d) = k + 1
        <5>1. Max(d) \in d /\ \A y \in d : y <= Max(d)
          <6>1. k + 1 \in Nat
            OBVIOUS
          <6> QED  BY <6>1, <3>1, LastOf
        <5>2. Max(d) \in 1..k + 1 /\ k + 1 <= Max(d)
          BY <5>1, <3>1
        <5> QED  BY <5>2
      <4>2. d \ {k + 1} \in SUBSET (1..k + 1) /\ k + 1 \notin d \ {k + 1}
        OBVIOUS
      <4>3. g[d \ {k + 1}] = h[d \ {k + 1}]
        BY <4>2
      <4>4. g[d] = Op(p, h[d \ {k + 1}], s[k + 1])
        BY <3>1
      <4> QED  BY <3>1, <4>1, <4>3, <4>4 DEF Body
    <3>2. CASE k + 1 \notin d
      <4>1. d \in SUBSET (1..k)
        BY <3>2
      <4>2. g[d] = h[d] /\ h[d] = Body(p, h, s, d)
        BY <3>2, <4>1, <2>1 DEF Iterates
      <4>3. d # {} => g[d \ {Max(d)}] = h[d \ {Max(d)}]
        BY <3>2
      <4> QED  BY <4>2, <4>3 DEF Body
    <3> QED  BY <3>1, <3>2
  <2>3. Iterates(p, g, s, 1..k + 1)
    BY <2>2 DEF Iterates
  <2> QED  BY <2>3
<1> HIDE DEF T
<1>3. n \in T
  BY <1>1, <1>2, SetInduction
<1> QED  BY <1>3 DEF T

LEMMA IteratesAgree ==
    ASSUME NEW p, NEW s, NEW t, NEW n \in Nat, NEW g, NEW h, NEW D, NEW F,
           1..n \subseteq D, 1..n \subseteq F,
           Iterates(p, g, s, D), Iterates(p, h, t, F),
           \A i \in 1..n : s[i] = t[i]
    PROVE  g[1..n] = h[1..n]
<1> DEFINE Same(k) == \A d \in SUBSET (1..k) : g[d] = h[d]
           T == {k \in Nat : k <= n => Same(k)}
<1>1. \A d \in SUBSET (1..n) : g[d] = Body(p, g, s, d) /\ h[d] = Body(p, h, t, d)
  <2> SUFFICES ASSUME NEW d \in SUBSET (1..n)
               PROVE  g[d] = Body(p, g, s, d) /\ h[d] = Body(p, h, t, d)
    OBVIOUS
  <2>1. d \in SUBSET D /\ d \in SUBSET F
    OBVIOUS
  <2> QED  BY <2>1 DEF Iterates
<1>2. 0 \in T
  <2>1. \A d \in SUBSET (1..0) : d = {} /\ d \in SUBSET (1..n)
    OBVIOUS
  <2> QED  BY <1>1, <2>1 DEF Body
<1>3. ASSUME NEW k \in Nat, k + 1 <= n, Same(k) PROVE Same(k + 1)
  <2> TAKE d \in SUBSET (1..k + 1)
  <2>0. k + 1 \in Nat /\ 1..k + 1 \subseteq 1..n
    BY <1>3
  <2>1. d \in SUBSET (1..n)
    BY <2>0
  <2>2. CASE d = {}
    BY <1>1, <2>1, <2>2 DEF Body
  <2>3. CASE d # {}
    <3>1. Max(d) \in d /\ \A y \in d : y <= Max(d)
      BY <2>0, <2>3, LastOf
    <3>2. d \ {Max(d)} \in SUBSET (1..k)
      <4>1. ASSUME NEW y \in d, y # Max(d) PROVE y \in 1..k
        <5>1. y \in 1..k + 1 /\ Max(d) \in 1..k + 1 /\ y <= Max(d)
          BY <3>1
        <5> QED  BY <4>1, <5>1
      <4> QED  BY <4>1
    <3>3. g[d \ {Max(d)}] = h[d \ {Max(d)}]
      BY <1>3, <3>2
    <3>4. s[Max(d)] = t[Max(d)]
      BY <3>1, <2>1
    <3> QED  BY <1>1, <2>1, <2>3, <3>3, <3>4 DEF Body
  <2> QED  BY <2>2, <2>3
<1> HIDE DEF Same
<1>4. \A k \in Nat : k \in T => k + 1 \in T
  BY <1>3
<1> HIDE DEF T
<1>5. n \in T
  BY <1>2, <1>4, SetInduction
<1> QED  BY <1>5 DEF T, Same

LEMMA FoldOfNone == ASSUME NEW p PROVE Fold(p, <<>>) = Base(p)
<1>1. DOMAIN <<>> = {} /\ 1..0 = {}
  OBVIOUS
<1>2. \E g : Iterates(p, g, <<>>, DOMAIN <<>>)
  BY <1>1, IterateExists
<1> DEFINE g == CHOOSE f : Iterates(p, f, <<>>, DOMAIN <<>>)
<1>3. Iterates(p, g, <<>>, DOMAIN <<>>)
  BY <1>2
<1>4. g[{}] = Base(p)
  BY <1>1, <1>3 DEF Iterates, Body
<1> QED  BY <1>1, <1>4, FoldIsIterate

\* One more element is one more turn of the loop.
LEMMA FoldOfMore ==
    ASSUME NEW p, NEW E, NEW s \in Seq(E), NEW e \in E
    PROVE  Fold(p, Append(s, e)) = Op(p, Fold(p, s), e)
<1> DEFINE t == Append(s, e)
           n == Len(s)
           g == CHOOSE f : Iterates(p, f, s, DOMAIN s)
           h == CHOOSE f : Iterates(p, f, t, DOMAIN t)
<1>1. n \in Nat /\ DOMAIN s = 1..n /\ DOMAIN t = 1..n + 1
      /\ (\A i \in 1..n : t[i] = s[i]) /\ t[n + 1] = e
  OBVIOUS
<1>2. Iterates(p, g, s, DOMAIN s)
  <2>1. \E f : Iterates(p, f, s, DOMAIN s)
    BY <1>1, IterateExists
  <2> QED  BY <2>1
<1>3. Iterates(p, h, t, DOMAIN t)
  <2>1. n + 1 \in Nat
    BY <1>1
  <2>2. \E f : Iterates(p, f, t, DOMAIN t)
    BY <1>1, <2>1, IterateExists
  <2> QED  BY <2>2
<1> HIDE DEF g, h, t, n
<1>4. h[1..n] = g[1..n]
  <2>1. 1..n \subseteq DOMAIN s /\ 1..n \subseteq DOMAIN t
    BY <1>1
  <2> QED  BY <1>1, <1>2, <1>3, <2>1, IteratesAgree
<1>5. h[1..n + 1] = Op(p, h[1..n], t[n + 1])
  <2>1. (1..n + 1) \in SUBSET DOMAIN t /\ (1..n + 1) # {} /\ n + 1 \in Nat
    BY <1>1
  <2>2. Max(1..n + 1) \in 1..n + 1 /\ \A y \in 1..n + 1 : y <= Max(1..n + 1)
    BY <2>1, LastOf
  <2>3. Max(1..n + 1) = n + 1
    BY <2>2, <1>1
  <2>4. (1..n + 1) \ {n + 1} = 1..n
    BY <1>1
  <2> QED  BY <2>1, <2>3, <2>4, <1>3 DEF Iterates, Body
<1>6. Fold(p, t) = h[1..n + 1] /\ Fold(p, s) = g[1..n]
  BY <1>1, FoldIsIterate DEF g, h
<1> QED  BY <1>1, <1>4, <1>5, <1>6 DEF t

LEMMA FoldHasType ==
    ASSUME NEW p, NEW V, NEW E, Base(p) \in V,
           \A v \in V, e \in E : Op(p, v, e) \in V
    PROVE  \A s \in Seq(E) : Fold(p, s) \in V
<1> DEFINE T == {s \in Seq(E) : Fold(p, s) \in V}
<1>1. <<>> \in T
  BY FoldOfNone
<1>2. ASSUME NEW s \in Seq(E), NEW e \in E, s \in T PROVE Append(s, e) \in T
  BY <1>2, FoldOfMore
<1> HIDE DEF T
<1>3. \A s \in Seq(E) : s \in T
  BY <1>1, <1>2, SeqInduction
<1> QED  BY <1>3 DEF T

=============================================================================
