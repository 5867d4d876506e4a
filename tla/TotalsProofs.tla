----------------------------- MODULE TotalsProofs -----------------------------
(***************************************************************************)
(* Laws of Total, and what the loop of Turns does.                         *)
(*                                                                         *)
(* Total is a fold.  That the function a fold chooses exists is an         *)
(* induction over the length; with it, the total is the last of the        *)
(* partial sums (TotalIsPartialSum), and the other laws only say what the  *)
(* partial sums are.                                                       *)
(***************************************************************************)
EXTENDS Totals, Turns, FiniteSetsExt, SequenceTheorems, FiniteSetTheorems,
        WellFoundedInduction, TLAPS

\* Induction, about a set rather than a predicate.
LEMMA InductiveSet ==
  ASSUME NEW S, 0 \in S, \A n \in Nat : n \in S => n + 1 \in S
  PROVE  Nat \subseteq S
  <1> DEFINE T == Nat \ S
             Less == OpToRel(<, Nat)
  <1> SUFFICES ASSUME T # {} PROVE FALSE
    OBVIOUS
  <1>1. IsWellFoundedOn(Less, Nat)
    BY NatLessThanWellFounded, Zenon
  <1>2. PICK h \in T : \A g \in T : ~ (<<g, h>> \in Less)
    <2>1. T \subseteq Nat
      OBVIOUS
    <2> HIDE DEF T, Less
    <2> QED
      BY <1>1, <2>1, WFMin
  <1>3. \A g \in T : ~ (g < h)
    BY <1>2 DEF OpToRel
  <1>4. h \in Nat \ {0}
    OBVIOUS
  <1>5. h - 1 \in Nat /\ h - 1 < h
    BY <1>4
  <1>6. h - 1 \in S
    BY <1>3, <1>5
  <1> QED
    BY <1>5, <1>6

\* What the fold's function is, over the sets of positions up to n.
Folds(g, f, n) ==
  g = [s \in SUBSET (1..n) |->
         IF s = {} THEN 0 ELSE g[s \ {Max(s)}] + f[Max(s)]]

LEMMA MaxOfUpTo ==
  ASSUME NEW n \in Nat, NEW s \in SUBSET (1..n + 1), n + 1 \in s
  PROVE  Max(s) = n + 1
  <1>1. n + 1 \in s /\ \A y \in s : n + 1 >= y
    OBVIOUS
  <1>2. \A x \in s : (\A y \in s : x >= y) => x = n + 1
    BY <1>1
  <1> QED
    BY <1>1, <1>2 DEF Max

LEMMA FoldExists ==
  ASSUME NEW f, NEW n \in Nat
  PROVE  \E g : Folds(g, f, n)
  <1> DEFINE S == {m \in Nat : \E g : Folds(g, f, m)}
  <1>1. 0 \in S
    <2> DEFINE g == [s \in SUBSET (1..0) |-> 0]
    <2>1. \A s \in SUBSET (1..0) : s = {}
      OBVIOUS
    <2>2. Folds(g, f, 0)
      BY <2>1 DEF Folds
    <2> QED
      BY <2>2
  <1>2. ASSUME NEW m \in Nat, m \in S PROVE m + 1 \in S
    <2>1. PICK g : Folds(g, f, m)
      BY <1>2
    <2> DEFINE h == [s \in SUBSET (1..m + 1) |->
                       IF m + 1 \in s THEN g[s \ {m + 1}] + f[m + 1] ELSE g[s]]
    <2>2. ASSUME NEW s \in SUBSET (1..m + 1)
          PROVE  h[s] = IF s = {} THEN 0 ELSE h[s \ {Max(s)}] + f[Max(s)]
      <3>1. CASE m + 1 \in s
        <4>1. Max(s) = m + 1
          BY <3>1, MaxOfUpTo
        <4>2. /\ s \ {m + 1} \in SUBSET (1..m + 1)
              /\ m + 1 \notin s \ {m + 1}
          OBVIOUS
        <4>3. h[s \ {m + 1}] = g[s \ {m + 1}]
          BY <4>2
        <4> QED
          BY <3>1, <4>1, <4>3
      <3>2. CASE m + 1 \notin s
        <4>1. s \in SUBSET (1..m)
          BY <3>2
        <4>2. /\ s \ {Max(s)} \in SUBSET (1..m + 1)
              /\ m + 1 \notin s \ {Max(s)}
          BY <3>2
        <4>3. h[s] = g[s] /\ h[s \ {Max(s)}] = g[s \ {Max(s)}]
          BY <3>2, <4>2
        <4>4. g[s] = IF s = {} THEN 0 ELSE g[s \ {Max(s)}] + f[Max(s)]
          BY <2>1, <4>1 DEF Folds
        <4> QED
          BY <4>3, <4>4
      <3> QED
        BY <3>1, <3>2
    <2>3. Folds(h, f, m + 1)
      BY <2>2 DEF Folds
    <2> QED
      BY <2>3
  <1>3. Nat \subseteq S
    <2> HIDE DEF S
    <2> QED
      BY <1>1, <1>2, InductiveSet
  <1> QED
    BY <1>3

LEMMA TotalFolds ==
  ASSUME NEW s \in Seq(Int)
  PROVE  \E g : Folds(g, s, Len(s)) /\ Total(s) = g[1..Len(s)]
  <1> DEFINE g == CHOOSE g : Folds(g, s, Len(s))
  <1>1. Len(s) \in Nat /\ DOMAIN s = 1..Len(s)
    BY LenProperties
  <1>2. Folds(g, s, Len(s))
    BY <1>1, FoldExists
  <1>3. Total(s) = g[1..Len(s)]
    BY <1>1 DEF Total, FoldLeft, MapThenFoldSet, Folds
  <1> QED
    BY <1>2, <1>3

LEMMA FoldOfPrefix ==
  ASSUME NEW s \in Seq(Int), NEW g, Folds(g, s, Len(s))
  PROVE  /\ g[1..0] = 0
         /\ \A m \in 0..Len(s) - 1 : g[1..m + 1] = g[1..m] + s[m + 1]
  <1>1. Len(s) \in Nat
    BY LenProperties
  <1>2. g[1..0] = 0
    <2>1. 1..0 = {} /\ {} \in SUBSET (1..Len(s))
      OBVIOUS
    <2> QED
      BY <2>1 DEF Folds
  <1>3. ASSUME NEW m \in 0..Len(s) - 1
        PROVE  g[1..m + 1] = g[1..m] + s[m + 1]
    <2>1. m \in Nat /\ m + 1 <= Len(s) /\ 1..m + 1 \in SUBSET (1..Len(s))
      BY <1>1
    <2>4. m + 1 \in 1..m + 1
      BY <2>1
    <2>2. Max(1..m + 1) = m + 1
      BY <2>1, MaxOfUpTo
    <2>3. (1..m + 1) \ {m + 1} = 1..m
      BY <2>1
    <2> QED
      BY <2>1, <2>2, <2>3, <2>4 DEF Folds
  <1> QED
    BY <1>2, <1>3

-------------------------------------------------------------------------------
(***************************************************************************)
(* The laws.                                                               *)
(***************************************************************************)

\* h[m] is the sum of the first m elements of s.
PartialSums(h, s) ==
  /\ h \in [0..Len(s) -> Int]
  /\ h[0] = 0
  /\ \A m \in 0..Len(s) - 1 : h[m + 1] = h[m] + s[m + 1]

\* Sums that start and grow alike are the same.
LEMMA PartialSumsAgree ==
  ASSUME NEW s \in Seq(Int), NEW h, PartialSums(h, s),
         NEW g, Folds(g, s, Len(s)), NEW m \in 0..Len(s)
  PROVE  g[1..m] = h[m]
  <1> DEFINE S == {i \in Nat : i <= Len(s) => g[1..i] = h[i]}
  <1>1. Len(s) \in Nat
    BY LenProperties
  <1>2. 0 \in S
    BY FoldOfPrefix DEF PartialSums
  <1>3. ASSUME NEW i \in Nat, i \in S PROVE i + 1 \in S
    <2> SUFFICES ASSUME i + 1 <= Len(s) PROVE g[1..i + 1] = h[i + 1]
      OBVIOUS
    <2>1. i \in 0..Len(s) - 1 /\ g[1..i] = h[i]
      BY <1>1, <1>3
    <2> QED
      BY <2>1, FoldOfPrefix DEF PartialSums
  <1>4. Nat \subseteq S
    <2> HIDE DEF S
    <2> QED
      BY <1>2, <1>3, InductiveSet
  <1> QED
    BY <1>1, <1>4

\* The total is the last of the partial sums.
LEMMA TotalIsPartialSum ==
  ASSUME NEW s \in Seq(Int), NEW h, PartialSums(h, s)
  PROVE  Total(s) = h[Len(s)]
  <1>1. Len(s) \in Nat
    BY LenProperties
  <1> QED
    BY <1>1, TotalFolds, PartialSumsAgree

\* There are partial sums.
LEMMA PartialSumsExist ==
  ASSUME NEW s \in Seq(Int)
  PROVE  \E h : PartialSums(h, s)
  <1>1. PICK g : Folds(g, s, Len(s))
    BY TotalFolds
  <1>2. Len(s) \in Nat /\ \A i \in 1..Len(s) : s[i] \in Int
    BY LenProperties, ElementOfSeq
  <1> DEFINE S == {i \in Nat : i <= Len(s) => g[1..i] \in Int}
             h == [m \in 0..Len(s) |-> g[1..m]]
  <1>3. 0 \in S
    BY <1>1, FoldOfPrefix
  <1>4. ASSUME NEW i \in Nat, i \in S PROVE i + 1 \in S
    <2> SUFFICES ASSUME i + 1 <= Len(s) PROVE g[1..i + 1] \in Int
      OBVIOUS
    <2>1. i \in 0..Len(s) - 1 /\ g[1..i] \in Int /\ s[i + 1] \in Int
      BY <1>2, <1>4
    <2> QED
      BY <1>1, <2>1, FoldOfPrefix
  <1>5. Nat \subseteq S
    <2> HIDE DEF S
    <2> QED
      BY <1>3, <1>4, InductiveSet
  <1>6. h \in [0..Len(s) -> Int]
    BY <1>2, <1>5
  <1>7. h[0] = 0 /\ \A m \in 0..Len(s) - 1 : h[m + 1] = h[m] + s[m + 1]
    BY <1>1, <1>2, FoldOfPrefix
  <1> QED
    BY <1>6, <1>7 DEF PartialSums

LEMMA TotalType ==
  ASSUME NEW s \in Seq(Int)
  PROVE  Total(s) \in Int
  <1>1. PICK h : PartialSums(h, s)
    BY PartialSumsExist
  <1>2. Total(s) = h[Len(s)] /\ Len(s) \in 0..Len(s)
    BY <1>1, TotalIsPartialSum, LenProperties
  <1> QED
    BY <1>1, <1>2 DEF PartialSums

LEMMA TotalEmpty == Total(<< >>) = 0
  <1>1. << >> \in Seq(Int) /\ Len(<< >>) = 0
    BY EmptySeq
  <1>2. PartialSums([m \in 0..0 |-> 0], << >>)
    BY <1>1 DEF PartialSums
  <1> QED
    BY <1>1, <1>2, TotalIsPartialSum

LEMMA TotalAppend ==
  ASSUME NEW s \in Seq(Int), NEW x \in Int
  PROVE  Total(Append(s, x)) = Total(s) + x
  <1> DEFINE n == Len(s)
             t == Append(s, x)
  <1>1. PICK h : PartialSums(h, s)
    BY PartialSumsExist
  <1>2. /\ n \in Nat /\ t \in Seq(Int) /\ Len(t) = n + 1
        /\ t[n + 1] = x /\ \A i \in 1..n : t[i] = s[i]
    BY AppendProperties, LenProperties
  <1> DEFINE g == [m \in 0..n + 1 |-> IF m = n + 1 THEN h[n] + x ELSE h[m]]
  <1>3. PartialSums(g, t)
    BY <1>1, <1>2 DEF PartialSums
  <1>4. Total(t) = g[n + 1] /\ Total(s) = h[n]
    BY <1>1, <1>2, <1>3, TotalIsPartialSum
  <1> QED
    BY <1>2, <1>4

LEMMA TotalTail ==
  ASSUME NEW s \in Seq(Int), s # << >>
  PROVE  Total(Tail(s)) = Total(s) - Head(s)
  <1> DEFINE n == Len(s)
             t == Tail(s)
  <1>1. PICK h : PartialSums(h, s)
    BY PartialSumsExist
  <1>2. /\ n \in Nat /\ n > 0 /\ t \in Seq(Int) /\ Len(t) = n - 1
        /\ \A i \in 1..n - 1 : t[i] = s[i + 1]
        /\ Head(s) = s[1] /\ s[1] \in Int
    BY HeadTailProperties, LenProperties, EmptySeq, ElementOfSeq
  <1> DEFINE g == [m \in 0..n - 1 |-> h[m + 1] - s[1]]
  <1>3. h[1] = s[1]
    BY <1>1, <1>2 DEF PartialSums
  <1>4. PartialSums(g, t)
    <2>1. g \in [0..n - 1 -> Int] /\ g[0] = 0
      BY <1>1, <1>2, <1>3 DEF PartialSums
    <2>2. ASSUME NEW m \in 0..Len(t) - 1 PROVE g[m + 1] = g[m] + t[m + 1]
      <3>1. /\ m \in 0..n - 1 /\ m + 1 \in 0..n - 1 /\ m + 1 \in 1..n - 1
            /\ m + 1 \in 0..n /\ m + 1 + 1 \in 1..n
        BY <1>2
      <3>2. h[m + 1] \in Int /\ h[m + 1 + 1] = h[m + 1] + s[m + 1 + 1]
        BY <1>1, <3>1 DEF PartialSums
      <3>3. s[m + 1 + 1] \in Int
        BY <3>1, ElementOfSeq
      <3>4. t[m + 1] = s[m + 1 + 1]
        BY <1>2, <3>1
      <3>5. g[m] = h[m + 1] - s[1] /\ g[m + 1] = h[m + 1 + 1] - s[1]
        BY <3>1
      <3> QED
        BY <1>2, <3>2, <3>3, <3>4, <3>5
    <2> QED
      BY <1>2, <2>1, <2>2 DEF PartialSums
  <1>5. Total(t) = g[n - 1] /\ Total(s) = h[n]
    BY <1>1, <1>2, <1>4, TotalIsPartialSum
  <1> QED
    BY <1>2, <1>5

LEMMA TotalExcept ==
  ASSUME NEW s \in Seq(Int), NEW i \in 1..Len(s), NEW v \in Int
  PROVE  Total([s EXCEPT ![i] = v]) = Total(s) - s[i] + v
  <1> DEFINE n == Len(s)
             t == [s EXCEPT ![i] = v]
  <1>1. PICK h : PartialSums(h, s)
    BY PartialSumsExist
  <1>2. /\ n \in Nat /\ t \in Seq(Int) /\ Len(t) = n /\ t[i] = v
        /\ \A j \in 1..n : s[j] \in Int /\ (j # i => t[j] = s[j])
    BY ExceptSeq, LenProperties, ElementOfSeq
  <1> DEFINE g == [m \in 0..n |-> IF m < i THEN h[m] ELSE h[m] - s[i] + v]
  <1>3. PartialSums(g, t)
    <2>1. g \in [0..n -> Int] /\ g[0] = 0
      BY <1>1, <1>2 DEF PartialSums
    <2>2. ASSUME NEW m \in 0..n - 1 PROVE g[m + 1] = g[m] + t[m + 1]
      <3>1. /\ m \in 0..n /\ m + 1 \in 0..n /\ m + 1 \in 1..n
            /\ h[m] \in Int /\ h[m + 1] = h[m] + s[m + 1]
        BY <1>1, <1>2 DEF PartialSums
      <3> QED
        BY <1>2, <3>1
    <2> QED
      BY <1>2, <2>1, <2>2 DEF PartialSums
  <1>4. Total(t) = g[n] /\ Total(s) = h[n]
    BY <1>1, <1>2, <1>3, TotalIsPartialSum
  <1> QED
    BY <1>2, <1>4

LEMMA TotalZero ==
  ASSUME NEW s \in Seq(Int), \A i \in 1..Len(s) : s[i] = 0
  PROVE  Total(s) = 0
  <1>1. Len(s) \in Nat
    BY LenProperties
  <1>2. PartialSums([m \in 0..Len(s) |-> 0], s)
    BY <1>1 DEF PartialSums
  <1> QED
    BY <1>1, <1>2, TotalIsPartialSum

\* A single number is not 0.
LEMMA TotalSingle ==
  ASSUME NEW s \in Seq(Int), NEW i \in 1..Len(s),
         \A j \in 1..Len(s) : j # i => s[j] = 0
  PROVE  Total(s) = s[i]
  <1> DEFINE t == [s EXCEPT ![i] = 0]
  <1>1. s[i] \in Int /\ Total(s) \in Int
    BY ElementOfSeq, TotalType
  <1>2. t \in Seq(Int) /\ \A j \in 1..Len(t) : t[j] = 0
    BY ExceptSeq
  <1>3. Total(t) = 0
    <2> HIDE DEF t
    <2> QED
      BY <1>2, TotalZero
  <1>4. Total(t) = Total(s) - s[i] + 0
    BY TotalExcept
  <1> QED
    BY <1>1, <1>3, <1>4

LEMMA TotalNat ==
  ASSUME NEW s \in Seq(Nat)
  PROVE  Total(s) \in Nat
  <1>1. /\ s \in Seq(Int) /\ Len(s) \in Nat
        /\ \A i \in 1..Len(s) : s[i] \in Nat
    BY LenProperties, ElementOfSeq, SeqDef
  <1>2. PICK h : PartialSums(h, s)
    BY <1>1, PartialSumsExist
  <1> DEFINE S == {i \in Nat : i <= Len(s) => h[i] \in Nat}
  <1>3. 0 \in S
    BY <1>2 DEF PartialSums
  <1>4. ASSUME NEW i \in Nat, i \in S PROVE i + 1 \in S
    <2> SUFFICES ASSUME i + 1 <= Len(s) PROVE h[i + 1] \in Nat
      OBVIOUS
    <2>1. i \in 0..Len(s) - 1 /\ h[i] \in Nat /\ s[i + 1] \in Nat
      BY <1>1, <1>4
    <2> QED
      BY <1>2, <2>1 DEF PartialSums
  <1>5. Nat \subseteq S
    <2> HIDE DEF S
    <2> QED
      BY <1>3, <1>4, InductiveSet
  <1> QED
    BY <1>1, <1>2, <1>5, TotalIsPartialSum

\* Sums over what is made of the elements of a sequence.
LEMMA MappedType ==
  ASSUME NEW S, NEW F \in [S -> Int], NEW s \in Seq(S)
  PROVE  /\ [i \in DOMAIN s |-> F[s[i]]] \in Seq(Int)
         /\ Len([i \in DOMAIN s |-> F[s[i]]]) = Len(s)
  <1>1. /\ Len(s) \in Nat /\ DOMAIN s = 1..Len(s)
        /\ \A i \in 1..Len(s) : s[i] \in S
    BY LenProperties, ElementOfSeq
  <1> QED
    BY <1>1

LEMMA TotalMapAppend ==
  ASSUME NEW S, NEW F \in [S -> Int], NEW s \in Seq(S), NEW e \in S
  PROVE  Total([i \in DOMAIN Append(s, e) |-> F[Append(s, e)[i]]])
           = Total([i \in DOMAIN s |-> F[s[i]]]) + F[e]
  <1> DEFINE t == Append(s, e)
             a == [i \in DOMAIN s |-> F[s[i]]]
             b == [i \in DOMAIN t |-> F[t[i]]]
  <1>1. /\ t \in Seq(S) /\ Len(t) = Len(s) + 1 /\ Len(s) \in Nat
        /\ \A i \in 1..Len(s) : t[i] = s[i]
        /\ t[Len(s) + 1] = e
    BY AppendProperties, LenProperties
  <1>2. DOMAIN s = 1..Len(s) /\ DOMAIN t = 1..(Len(s) + 1)
    BY <1>1, LenProperties
  <1> HIDE DEF t
  <1>3. a \in Seq(Int) /\ Len(a) = Len(s) /\ F[e] \in Int
    BY MappedType
  <1>4. b \in Seq(Int) /\ Len(b) = Len(s) + 1
    BY <1>1, MappedType
  <1>5. b = Append(a, F[e])
    <2>1. /\ Append(a, F[e]) \in Seq(Int)
          /\ Len(Append(a, F[e])) = Len(s) + 1
          /\ \A i \in 1..Len(s) : Append(a, F[e])[i] = a[i]
          /\ Append(a, F[e])[Len(s) + 1] = F[e]
      BY <1>3, AppendProperties
    <2>2. \A i \in 1..Len(s) + 1 : b[i] = Append(a, F[e])[i]
      BY <1>1, <1>2, <2>1
    <2> HIDE DEF a, b
    <2> QED
      BY <1>4, <2>1, <2>2, SeqEqual
  <1> HIDE DEF a, b
  <1> QED
    BY <1>3, <1>5, TotalAppend DEF a, b, t

LEMMA TotalMapTail ==
  ASSUME NEW S, NEW F \in [S -> Int], NEW s \in Seq(S), s # << >>
  PROVE  Total([i \in DOMAIN Tail(s) |-> F[Tail(s)[i]]])
           = Total([i \in DOMAIN s |-> F[s[i]]]) - F[Head(s)]
  <1> DEFINE t == Tail(s)
             a == [i \in DOMAIN s |-> F[s[i]]]
             b == [i \in DOMAIN t |-> F[t[i]]]
  <1>1. /\ t \in Seq(S) /\ Len(t) = Len(s) - 1 /\ Len(s) \in Nat \ {0}
        /\ \A i \in 1..Len(s) - 1 : t[i] = s[i + 1]
        /\ Head(s) = s[1]
    BY HeadTailProperties, LenProperties, EmptySeq
  <1>2. DOMAIN s = 1..Len(s) /\ DOMAIN t = 1..(Len(s) - 1)
    BY <1>1, LenProperties
  <1> HIDE DEF t
  <1>3. a \in Seq(Int) /\ Len(a) = Len(s)
    BY MappedType
  <1>4. b \in Seq(Int) /\ Len(b) = Len(s) - 1
    BY <1>1, MappedType
  <1>5. a # << >> /\ Head(a) = F[Head(s)]
    <2>1. a[1] = F[s[1]]
      BY <1>1, <1>2
    <2> HIDE DEF a
    <2> QED
      BY <1>1, <1>3, <2>1, EmptySeq, HeadTailProperties
  <1>6. b = Tail(a)
    <2>1. /\ Tail(a) \in Seq(Int) /\ Len(Tail(a)) = Len(s) - 1
          /\ \A i \in 1..Len(s) - 1 : Tail(a)[i] = a[i + 1]
      <3> HIDE DEF a
      <3> QED
        BY <1>3, <1>5, HeadTailProperties
    <2>2. \A i \in 1..Len(s) - 1 : b[i] = Tail(a)[i]
      BY <1>1, <1>2, <2>1
    <2> HIDE DEF a, b
    <2> QED
      BY <1>4, <2>1, <2>2, SeqEqual
  <1> HIDE DEF a, b
  <1> QED
    BY <1>3, <1>5, <1>6, TotalTail DEF a, b, t

\* Two sequences that differ in one place.
LEMMA TotalReplaced ==
  ASSUME NEW s \in Seq(Int), NEW t \in Seq(Int), Len(t) = Len(s),
         NEW i \in 1..Len(s), \A m \in 1..Len(s) : m # i => t[m] = s[m]
  PROVE  Total(t) = Total(s) - s[i] + t[i]
  <1>1. t[i] \in Int
    BY ElementOfSeq
  <1>2. PICK v \in Int : v = t[i]
    BY <1>1
  <1>3. Total([s EXCEPT ![i] = v]) = Total(s) - s[i] + v
    BY <1>2, TotalExcept
  <1>4. /\ [s EXCEPT ![i] = v] \in Seq(Int) /\ Len([s EXCEPT ![i] = v]) = Len(s)
        /\ \A m \in 1..Len(s) : [s EXCEPT ![i] = v][m] = IF m = i THEN v ELSE s[m]
    BY <1>2, ExceptSeq
  <1>5. PICK u : u = [s EXCEPT ![i] = v]
    OBVIOUS
  <1>6. u \in Seq(Int) /\ Len(u) = Len(t) /\ \A m \in 1..Len(u) : u[m] = t[m]
    BY <1>2, <1>4, <1>5
  <1>7. u = t
    BY <1>6, SeqEqual
  <1> QED
    BY <1>2, <1>3, <1>5, <1>7

\* Two sequences that differ in two places.
LEMMA TotalMoved ==
  ASSUME NEW s \in Seq(Int), NEW t \in Seq(Int), Len(t) = Len(s),
         NEW i \in 1..Len(s), NEW j \in 1..Len(s), i # j,
         \A m \in 1..Len(s) : m # i /\ m # j => t[m] = s[m]
  PROVE  Total(t) = (Total(s) - s[i] + t[i]) - s[j] + t[j]
  <1>1. /\ s[i] \in Int /\ s[j] \in Int /\ t[i] \in Int /\ t[j] \in Int
        /\ Total(s) \in Int /\ Total(t) \in Int
    BY ElementOfSeq, TotalType
  <1>2. PICK v \in Int : v = t[i]
    BY <1>1
  <1>3. PICK u : u = [s EXCEPT ![i] = v]
    OBVIOUS
  <1>4. /\ [s EXCEPT ![i] = v] \in Seq(Int) /\ Len([s EXCEPT ![i] = v]) = Len(s)
        /\ \A m \in 1..Len(s) : [s EXCEPT ![i] = v][m] = IF m = i THEN v ELSE s[m]
    BY <1>2, ExceptSeq
  <1>5. /\ u \in Seq(Int) /\ Len(u) = Len(s) /\ u[i] = t[i] /\ u[j] = s[j]
        /\ \A m \in 1..Len(s) : m # i => u[m] = s[m]
        /\ \A m \in 1..Len(u) : m # j => t[m] = u[m]
    BY <1>2, <1>3, <1>4
  <1>6. Total(u) = Total(s) - s[i] + u[i]
    BY <1>5, TotalReplaced
  <1>7. Total(t) = Total(u) - u[j] + t[j]
    BY <1>5, TotalReplaced
  <1>8. u[i] = t[i] /\ u[j] = s[j]
    BY <1>5
  <1>9. Total(u) = Total(s) - s[i] + t[i]
    BY <1>6, <1>8
  <1>10. Total(t) = Total(u) - s[j] + t[j]
    BY <1>7, <1>8
  <1>11. Total(u) \in Int
    BY <1>1, <1>9
  <1> QED
    BY <1>1, <1>9, <1>10, <1>11

\* A sum of sums, place by place.
LEMMA TotalAdd ==
  ASSUME NEW s \in Seq(Int), NEW t \in Seq(Int), NEW u \in Seq(Int),
         Len(t) = Len(s), Len(u) = Len(s),
         \A i \in 1..Len(s) : u[i] = s[i] + t[i]
  PROVE  Total(u) = Total(s) + Total(t)
  <1> DEFINE n == Len(s)
  <1>1. PICK h : PartialSums(h, s)
    BY PartialSumsExist
  <1>2. PICK g : PartialSums(g, t)
    BY PartialSumsExist
  <1>3. n \in Nat /\ \A i \in 1..n : s[i] \in Int /\ t[i] \in Int
    BY LenProperties, ElementOfSeq
  <1> DEFINE f == [m \in 0..n |-> h[m] + g[m]]
  <1>4. PartialSums(f, u)
    <2>1. f \in [0..n -> Int] /\ f[0] = 0
      BY <1>1, <1>2, <1>3 DEF PartialSums
    <2>2. ASSUME NEW m \in 0..n - 1 PROVE f[m + 1] = f[m] + u[m + 1]
      <3>1. m \in 0..n /\ m + 1 \in 0..n /\ m + 1 \in 1..n
        BY <1>3
      <3>2. h[m] \in Int /\ h[m + 1] = h[m] + s[m + 1]
        BY <1>1, <3>1 DEF PartialSums
      <3>3. g[m] \in Int /\ g[m + 1] = g[m] + t[m + 1]
        BY <1>2, <3>1 DEF PartialSums
      <3>4. f[m] = h[m] + g[m] /\ f[m + 1] = h[m + 1] + g[m + 1]
        BY <3>1
      <3>5. s[m + 1] \in Int /\ t[m + 1] \in Int /\ u[m + 1] = s[m + 1] + t[m + 1]
        BY <1>3, <3>1
      <3>6. PICK a \in Int : a = h[m]
        BY <3>2
      <3>7. PICK b \in Int : b = g[m]
        BY <3>3
      <3>8. PICK x \in Int, y \in Int : x = s[m + 1] /\ y = t[m + 1]
        BY <3>5
      <3>9. f[m] = a + b /\ f[m + 1] = (a + x) + (b + y) /\ u[m + 1] = x + y
        BY <3>2, <3>3, <3>4, <3>5, <3>6, <3>7, <3>8
      <3>10. (a + x) + (b + y) = (a + b) + (x + y)
        OBVIOUS
      <3> HIDE DEF f
      <3> QED
        BY <3>9, <3>10, Zenon
    <2> QED
      BY <2>1, <2>2 DEF PartialSums
  <1>5. Total(s) = h[n] /\ Total(t) = g[n] /\ Total(u) = f[n]
    BY <1>1, <1>2, <1>4, TotalIsPartialSum
  <1> QED
    BY <1>3, <1>5

-------------------------------------------------------------------------------
(***************************************************************************)
(* The sum over a set: the elements are picked one after the other.        *)
(***************************************************************************)

SumOver(f, S) == MapThenSumSet(LAMBDA k : f[k], S)

Picked(s) == CHOOSE x \in s : TRUE

\* What the fold's function is, as far as the sets of at most n elements.
Picks(g, f, S, n) ==
  /\ DOMAIN g = SUBSET S
  /\ \A s \in SUBSET S : Cardinality(s) <= n =>
       g[s] = IF s = {} THEN 0 ELSE f[Picked(s)] + g[s \ {Picked(s)}]

\* One element is taken out of a finite set.
LEMMA PickOne ==
  ASSUME NEW s, IsFiniteSet(s), s # {}
  PROVE  /\ Picked(s) \in s /\ IsFiniteSet(s \ {Picked(s)})
         /\ Cardinality(s) \in Nat \ {0}
         /\ Cardinality(s \ {Picked(s)}) = Cardinality(s) - 1
  <1>1. Picked(s) \in s
    BY DEF Picked
  <1>2. Cardinality(s) \in Nat /\ Cardinality(s) # 0
    BY FS_EmptySet, FS_CardinalityType
  <1> QED
    BY <1>1, <1>2, FS_RemoveElement

LEMMA PicksExist ==
  ASSUME NEW S, IsFiniteSet(S), NEW f, NEW n \in Nat
  PROVE  \E g : Picks(g, f, S, n)
  <1> DEFINE Next(g) ==
               [s \in SUBSET S |->
                  IF s = {} THEN 0 ELSE f[Picked(s)] + g[s \ {Picked(s)}]]
             T == {m \in Nat : \E g : Picks(g, f, S, m)}
  <1>1. \A s \in SUBSET S : IsFiniteSet(s) /\ Cardinality(s) \in Nat
    BY FS_Subset, FS_CardinalityType
  <1>2. 0 \in T
    <2> DEFINE g == [s \in SUBSET S |-> 0]
    <2>1. \A s \in SUBSET S : Cardinality(s) <= 0 => s = {}
      BY <1>1, FS_EmptySet
    <2>2. Picks(g, f, S, 0)
      BY <2>1 DEF Picks
    <2> QED
      BY <2>2
  <1>3. ASSUME NEW m \in Nat, m \in T PROVE m + 1 \in T
    <2>1. PICK g : Picks(g, f, S, m)
      BY <1>3
    <2>2. \A s \in SUBSET S : Cardinality(s) <= m => Next(g)[s] = g[s]
      BY <2>1 DEF Picks
    <2>3. ASSUME NEW s \in SUBSET S, Cardinality(s) <= m + 1, s # {}
          PROVE  Next(g)[s] = f[Picked(s)] + Next(g)[s \ {Picked(s)}]
      <3>1. s \ {Picked(s)} \in SUBSET S
        OBVIOUS
      <3>2. Cardinality(s \ {Picked(s)}) <= m
        BY <1>1, <2>3, PickOne
      <3>3. Next(g)[s \ {Picked(s)}] = g[s \ {Picked(s)}]
        BY <2>2, <3>1, <3>2
      <3> QED
        BY <2>3, <3>3
    <2>4. Picks(Next(g), f, S, m + 1)
      <3>1. DOMAIN Next(g) = SUBSET S /\ Next(g)[{}] = 0
        OBVIOUS
      <3> HIDE DEF Next
      <3> QED
        BY <2>3, <3>1 DEF Picks
    <2> QED
      BY <2>4
  <1>4. Nat \subseteq T
    <2> HIDE DEF T
    <2> QED
      BY <1>2, <1>3, InductiveSet
  <1> QED
    BY <1>4

\* The sum over a set is what grows by f[x] with every element x.
LEMMA SumOverIs ==
  ASSUME NEW S, IsFiniteSet(S), NEW f, NEW h, h[{}] = 0,
         \A s \in SUBSET S : \A x \in s : h[s] = f[x] + h[s \ {x}]
  PROVE  SumOver(f, S) = h[S]
  <1> DEFINE n == Cardinality(S)
             Sums(g) ==
               g = [s \in SUBSET S |->
                      IF s = {} THEN 0
                                ELSE f[CHOOSE x \in s : TRUE]
                                     + g[s \ {CHOOSE x \in s : TRUE}]]
             g == CHOOSE g : Sums(g)
             T == {m \in Nat : \A s \in SUBSET S : Cardinality(s) = m =>
                                 g[s] = h[s]}
  <1>1. /\ n \in Nat
        /\ \A s \in SUBSET S : /\ IsFiniteSet(s) /\ Cardinality(s) \in Nat
                               /\ Cardinality(s) <= n
    BY FS_Subset, FS_CardinalityType
  <1>2. \E w : Sums(w)
    <2>1. PICK w : Picks(w, f, S, n)
      BY <1>1, PicksExist
    <2>2. PICK v : v = [s \in SUBSET S |-> w[s]]
      OBVIOUS
    <2>3. v = [s \in SUBSET S |->
                 IF s = {} THEN 0 ELSE f[Picked(s)] + v[s \ {Picked(s)}]]
      BY <1>1, <2>1, <2>2 DEF Picks
    <2> QED
      BY <2>3 DEF Picked
  <1>3. SumOver(f, S) = g[S]
    BY DEF SumOver, MapThenSumSet, MapThenFoldSet
  <1>4. Sums(g)
    BY <1>2
  <1> HIDE DEF g
  <1>5. /\ g[{}] = 0
        /\ \A s \in SUBSET S : s # {} => g[s] = f[Picked(s)] + g[s \ {Picked(s)}]
    BY <1>4 DEF Picked
  <1>6. 0 \in T
    <2>1. \A s \in SUBSET S : Cardinality(s) = 0 => s = {}
      BY <1>1, FS_EmptySet
    <2> QED
      BY <1>5, <2>1
  <1>7. ASSUME NEW m \in Nat, m \in T PROVE m + 1 \in T
    <2> SUFFICES ASSUME NEW s \in SUBSET S, Cardinality(s) = m + 1
                 PROVE  g[s] = h[s]
      OBVIOUS
    <2>1. s # {}
      <3>1. Cardinality(s) # 0
        OBVIOUS
      <3> QED
        BY <1>1, <3>1, FS_EmptySet
    <2>2. /\ s \ {Picked(s)} \in SUBSET S /\ Picked(s) \in s
          /\ Cardinality(s \ {Picked(s)}) = m
      BY <1>1, <2>1, PickOne
    <2>3. g[s \ {Picked(s)}] = h[s \ {Picked(s)}]
      BY <1>7, <2>2
    <2> QED
      BY <1>5, <2>1, <2>2, <2>3
  <1>8. Nat \subseteq T
    <2> HIDE DEF T
    <2> QED
      BY <1>6, <1>7, InductiveSet
  <1> QED
    BY <1>1, <1>3, <1>8

-------------------------------------------------------------------------------
(***************************************************************************)
(* The loop of Turns.                                                      *)
(***************************************************************************)

\* What `now' is at its i-th test: idx - 1 and, from there, down the ring.
Countdown(idx, n) ==
  [i \in 0..n - 1 |-> IF i = 0 \/ i < idx - 1 THEN idx - 1 - i
                                              ELSE idx - 1 - i + n]

\* The recursion of the loop has a solution, and no other.
LEMMA TestedIs ==
  ASSUME NEW n \in Nat, n >= 2, NEW idx \in 1..n
  PROVE  Tested(idx, n) = Countdown(idx, n)
  <1> DEFINE Loops(g) ==
               g = [i \in 0..n - 1 |->
                      IF i = 0 THEN idx - 1 ELSE Below(Wrap(g[i - 1], n), n)]
             c == Countdown(idx, n)
             t == Tested(idx, n)
  <1>1. ASSUME NEW i \in 0..n - 1
        PROVE  c[i] = IF i = 0 THEN idx - 1 ELSE Below(Wrap(c[i - 1], n), n)
    <2>1. CASE i = 0
      BY <2>1 DEF Countdown
    <2>2. CASE i # 0
      <3>1. i - 1 \in 0..n - 1
        BY <2>2
      <3>2. c[i] = IF i < idx - 1 THEN idx - 1 - i ELSE idx - 1 - i + n
        BY <2>2 DEF Countdown
      <3>3. c[i - 1] = IF i - 1 = 0 \/ i - 1 < idx - 1 THEN idx - i
                                                      ELSE idx - i + n
        BY <3>1 DEF Countdown
      <3>4. PICK a \in Int : a = c[i - 1]
        BY <3>3
      <3> HIDE DEF c
      <3> QED
        BY <2>2, <3>2, <3>3, <3>4 DEF Below, Wrap
    <2> QED
      BY <2>1, <2>2
  <1>2. Loops(c)
    <2>1. c = [i \in 0..n - 1 |-> c[i]]
      BY DEF Countdown
    <2> HIDE DEF c
    <2> QED
      BY <1>1, <2>1
  <1>3. Loops(t)
    <2>1. t = CHOOSE g : Loops(g)
      BY DEF Tested
    <2> HIDE DEF Loops, c, t
    <2> QED
      BY <1>2, <2>1
  <1> DEFINE S == {i \in Nat : i \in 0..n - 1 => t[i] = c[i]}
  <1>4. 0 \in S
    <2>1. 0 \in 0..n - 1
      OBVIOUS
    <2> HIDE DEF c, t
    <2> QED
      BY <1>2, <1>3, <2>1
  <1>5. ASSUME NEW i \in Nat, i \in S PROVE i + 1 \in S
    <2> SUFFICES ASSUME i + 1 \in 0..n - 1 PROVE t[i + 1] = c[i + 1]
      OBVIOUS
    <2>1. i \in 0..n - 1 /\ i + 1 # 0 /\ i + 1 - 1 = i
      OBVIOUS
    <2>2. t[i] = c[i]
      BY <1>5, <2>1
    <2>3. PICK j \in 0..n - 1 : j = i + 1
      OBVIOUS
    <2>4. j # 0 /\ j - 1 = i
      BY <2>1, <2>3
    <2> HIDE DEF c, t
    <2>5. t[j] = Below(Wrap(t[i], n), n)
      BY <1>3, <2>4
    <2>6. c[j] = Below(Wrap(c[i], n), n)
      BY <1>2, <2>4
    <2> QED
      BY <2>2, <2>3, <2>5, <2>6
  <1>6. Nat \subseteq S
    <2> HIDE DEF S
    <2> QED
      BY <1>4, <1>5, InductiveSet
  <1>7. \A i \in 0..n - 1 : t[i] = c[i]
    BY <1>6
  <1> QED
    <2>1. c = [i \in 0..n - 1 |-> c[i]]
      BY DEF Countdown
    <2>2. t = [i \in 0..n - 1 |-> t[i]]
      <3> HIDE DEF t
      <3> QED
        BY <1>3
    <2> HIDE DEF c, t
    <2>3. t = c
      BY <1>7, <2>1, <2>2
    <2> QED
      BY <2>3 DEF c, t

\* The loop goes down the ring from below idx, without a gap and in n - 1 rounds:
\* the test is true before every one of them and false after the last.
THEOREM LoopIsRing ==
  ASSUME NEW n \in Nat, n >= 2, NEW idx \in 1..n
  PROVE  /\ \A i \in 0..n - 2 : Tested(idx, n)[i] # idx
         /\ Tested(idx, n)[n - 1] = idx
         /\ \A i \in 0..n - 2 :
              TurnOf(i, idx, n) = IF i < idx - 1 THEN idx - 1 - i
                                                 ELSE idx - 1 - i + n
  <1>1. \A i \in 0..n - 1 :
          Tested(idx, n)[i] = IF i = 0 \/ i < idx - 1 THEN idx - 1 - i
                                                     ELSE idx - 1 - i + n
    BY TestedIs DEF Countdown
  <1>2. n - 1 \in 0..n - 1 /\ n - 1 # 0 /\ ~ (n - 1 < idx - 1)
    OBVIOUS
  <1>3. \A i \in 0..n - 2 : i \in 0..n - 1
    OBVIOUS
  <1>4. ASSUME NEW i \in 0..n - 2
        PROVE  /\ Tested(idx, n)[i] # idx
               /\ TurnOf(i, idx, n) = IF i < idx - 1 THEN idx - 1 - i
                                                     ELSE idx - 1 - i + n
    <2>1. PICK a \in Int : a = Tested(idx, n)[i]
      BY <1>1, <1>3
    <2>2. a = IF i = 0 \/ i < idx - 1 THEN idx - 1 - i ELSE idx - 1 - i + n
      BY <1>1, <1>3, <2>1
    <2> QED
      BY <2>1, <2>2 DEF TurnOf, Wrap
  <1>5. Tested(idx, n)[n - 1] = idx
    BY <1>1, <1>2
  <1> QED
    BY <1>4, <1>5

===============================================================================
