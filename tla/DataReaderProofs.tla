--------------------------- MODULE DataReaderProofs ---------------------------
(***************************************************************************)
(* Proofs about the dataReader of Transfer, for any number of instances,   *)
(* any files and whatever a line is parsed to: LinesPartitioned.           *)
(*                                                                         *)
(* Lines and records are counted by weight: a function of records, such as *)
(* the one that is 1 for one record, is added up over what an instance has *)
(* loaded and over the lines it has read and keeps (Taken).  Over all      *)
(* instances the lines of a divided file are those of the files put one    *)
(* behind the other, and of a common file each line is kept by the one     *)
(* instance of its remainder.                                              *)
(***************************************************************************)
EXTENDS Transfer, TotalsProofs

\* What the elements of a sequence weigh.
Weight(s, G) == Total([i \in DOMAIN s |-> G[s[i]]])

\* The sequences of a set, and their elements.
LEMMA SeqIs ==
  ASSUME NEW S, NEW s \in Seq(S)
  PROVE  /\ Len(s) \in Nat /\ DOMAIN s = 1..Len(s)
         /\ \A i \in 1..Len(s) : s[i] \in S
  BY LenProperties, ElementOfSeq

\* The number of the ones.
LEMMA Ones ==
  ASSUME NEW t \in Seq(Int), \A i \in 1..Len(t) : t[i] \in {0, 1}
  PROVE  Cardinality({i \in 1..Len(t) : t[i] = 1}) = Total(t)
  <1> DEFINE A(m) == {i \in 1..m : t[i] = 1}
  <1>1. PICK n \in Nat : n = Len(t)
    BY SeqIs
  <1>2. ASSUME NEW m \in Nat PROVE IsFiniteSet(A(m)) /\ Cardinality(A(m)) \in Nat
    <2>1. IsFiniteSet(1..m)
      BY FS_Interval
    <2>2. A(m) \subseteq 1..m
      OBVIOUS
    <2> HIDE DEF A
    <2> QED
      BY <2>1, <2>2, FS_Subset, FS_CardinalityType
  <1>3. Cardinality(A(0)) = 0
    <2>1. A(0) = {}
      OBVIOUS
    <2> QED
      BY <2>1, FS_EmptySet
  <1>4. ASSUME NEW m \in 0..n - 1
        PROVE  Cardinality(A(m + 1)) = Cardinality(A(m)) + t[m + 1]
    <2>1. m \in Nat /\ m + 1 \in 1..n
      BY <1>1
    <2>2. CASE t[m + 1] = 1
      <3>1. A(m + 1) = A(m) \cup {m + 1} /\ m + 1 \notin A(m)
        BY <2>1, <2>2
      <3> HIDE DEF A
      <3>2. Cardinality(A(m + 1)) = Cardinality(A(m)) + 1
        BY <1>2, <2>1, <3>1, FS_AddElement
      <3> QED
        BY <2>2, <3>2
    <2>3. CASE t[m + 1] = 0
      <3>1. A(m + 1) = A(m)
        BY <2>1, <2>3
      <3> HIDE DEF A
      <3> QED
        BY <1>2, <2>1, <2>3, <3>1
    <2> QED
      BY <1>1, <2>1, <2>2, <2>3
  <1> DEFINE h == [m \in 0..n |-> Cardinality(A(m))]
  <1> HIDE DEF A
  <1>5. PartialSums(h, t)
    <2>1. h \in [0..n -> Int]
      BY <1>1, <1>2
    <2>2. h[0] = 0
      BY <1>1, <1>3
    <2>3. \A m \in 0..n - 1 : h[m + 1] = h[m] + t[m + 1]
      BY <1>1, <1>4
    <2> HIDE DEF h
    <2> QED
      BY <1>1, <2>1, <2>2, <2>3 DEF PartialSums
  <1>6. Total(t) = h[n]
    <2> HIDE DEF h
    <2> QED
      BY <1>1, <1>5, TotalIsPartialSum
  <1>7. h[n] = Cardinality(A(n))
    BY <1>1
  <1> QED
    BY <1>1, <1>6, <1>7 DEF A

\* Two sequences put one behind the other.
LEMMA TotalConcat ==
  ASSUME NEW s \in Seq(Int), NEW t \in Seq(Int), NEW u \in Seq(Int),
         Len(u) = Len(s) + Len(t),
         \A i \in 1..Len(s) : u[i] = s[i],
         \A i \in 1..Len(t) : u[Len(s) + i] = t[i]
  PROVE  Total(u) = Total(s) + Total(t)
  <1>1. PICK m \in Nat, n \in Nat : m = Len(s) /\ n = Len(t)
    BY SeqIs
  <1>2. PICK g : PartialSums(g, s)
    BY PartialSumsExist
  <1>3. PICK h : PartialSums(h, t)
    BY PartialSumsExist
  <1>4. /\ g \in [0..m -> Int] /\ g[0] = 0
        /\ \A i \in 0..m - 1 : g[i + 1] = g[i] + s[i + 1]
        /\ h \in [0..n -> Int] /\ h[0] = 0
        /\ \A i \in 0..n - 1 : h[i + 1] = h[i] + t[i + 1]
    BY <1>1, <1>2, <1>3 DEF PartialSums
  <1>5. ASSUME NEW j \in 0..n
        PROVE  g[m] \in Int /\ h[j] \in Int /\ m + j \in 0..m + n
    <2>1. m \in 0..m /\ m + j \in 0..m + n
      BY <1>1
    <2>2. g \in [0..m -> Int] /\ h \in [0..n -> Int]
      BY <1>4
    <2> QED
      BY <2>1, <2>2
  <1> DEFINE f == [i \in 0..m + n |-> IF i <= m THEN g[i] ELSE g[m] + h[i - m]]
  <1>6. ASSUME NEW i \in 0..m PROVE f[i] = g[i] /\ f[i] \in Int
    <2>1. i \in 0..m + n /\ i <= m
      BY <1>1
    <2> QED
      BY <1>4, <2>1
  <1>7. ASSUME NEW j \in 0..n PROVE f[m + j] = g[m] + h[j] /\ f[m + j] \in Int
    <2>1. CASE j = 0
      <3>1. m + j = m /\ h[j] = 0
        BY <1>1, <1>4, <2>1
      <3>2. m \in 0..m
        BY <1>1
      <3>3. g[m] + h[j] = g[m]
        BY <1>5, <3>1
      <3> HIDE DEF f
      <3>4. f[m] = g[m] /\ f[m] \in Int
        BY <1>6, <3>2
      <3> QED
        BY <3>1, <3>3, <3>4
    <2>2. CASE j # 0
      <3>1. /\ m + j \in 0..m + n /\ ~ (m + j <= m)
            /\ (m + j) - m = j
        BY <1>1, <2>2
      <3>2. PICK e \in 0..m + n : e = m + j
        BY <3>1
      <3>3. ~ (e <= m) /\ e - m = j
        BY <3>1, <3>2
      <3>4. f[e] = g[m] + h[e - m]
        BY <3>3
      <3> HIDE DEF f
      <3>5. f[m + j] = g[m] + h[j]
        BY <3>2, <3>3, <3>4
      <3> QED
        BY <1>5, <3>5
    <2> QED
      BY <2>1, <2>2
  <1>8. f \in [0..m + n -> Int]
    <2>1. ASSUME NEW i \in 0..m + n PROVE f[i] \in Int
      <3>1. CASE i <= m
        <4>1. i \in 0..m
          BY <1>1, <3>1
        <4> HIDE DEF f
        <4> QED
          BY <1>6, <4>1
      <3>2. CASE ~ (i <= m)
        <4>1. PICK j \in 0..n : i = m + j
          <5>1. i - m \in 0..n /\ i = m + (i - m)
            BY <1>1, <3>2
          <5> QED
            BY <5>1
        <4> HIDE DEF f
        <4> QED
          BY <1>7, <4>1
      <3> QED
        BY <3>1, <3>2
    <2>2. f = [i \in 0..m + n |-> f[i]]
      OBVIOUS
    <2> HIDE DEF f
    <2> QED
      BY <2>1, <2>2
  <1> HIDE DEF f
  <1>9. f[0] = 0
    BY <1>1, <1>4, <1>6
  <1>10. ASSUME NEW i \in 0..(m + n) - 1 PROVE f[i + 1] = f[i] + u[i + 1]
    <2>1. CASE i < m
      <3>1. i \in 0..m /\ i + 1 \in 0..m /\ i \in 0..m - 1 /\ i + 1 \in 1..m
        BY <1>1, <2>1
      <3>2. f[i] = g[i] /\ f[i + 1] = g[i + 1]
        BY <1>6, <3>1
      <3>3. u[i + 1] = s[i + 1]
        BY <1>1, <3>1
      <3> QED
        BY <1>4, <3>1, <3>2, <3>3
    <2>2. CASE ~ (i < m)
      <3>1. PICK j \in 0..n - 1 : i = m + j
        <4>1. i - m \in 0..n - 1 /\ i = m + (i - m)
          BY <1>1, <2>2
        <4> QED
          BY <4>1
      <3>2. j \in 0..n /\ j + 1 \in 0..n /\ j + 1 \in 1..n /\ m + (j + 1) = i + 1
        BY <1>1, <3>1
      <3>3. PICK k \in 1..n : k = j + 1
        BY <3>2
      <3>4. f[m + j] = g[m] + h[j] /\ f[m + k] = g[m] + h[k] /\ k \in 0..n
        BY <1>7, <3>2, <3>3
      <3>5. u[m + k] = t[k] /\ t[k] \in Int
        BY <1>1, <3>3, SeqIs
      <3>6. h[k] = h[j] + t[k]
        BY <1>4, <3>1, <3>3
      <3>7. PICK a \in Int, b \in Int, c \in Int :
              a = g[m] /\ b = h[j] /\ c = t[k]
        BY <1>5, <3>2, <3>5
      <3>8. f[m + j] = a + b
        BY <3>4, <3>7
      <3>9. f[m + k] = a + (b + c)
        BY <3>4, <3>6, <3>7
      <3>10. a + (b + c) = (a + b) + c
        OBVIOUS
      <3>11. f[m + k] = f[m + j] + u[m + k]
        BY <3>5, <3>7, <3>8, <3>9, <3>10
      <3>12. m + k = i + 1 /\ m + j = i
        BY <1>1, <3>1, <3>2, <3>3
      <3> QED
        BY <3>11, <3>12
    <2> QED
      BY <2>1, <2>2
  <1>11. PartialSums(f, u)
    BY <1>1, <1>8, <1>9, <1>10 DEF PartialSums
  <1>12. Total(u) = f[m + n]
    BY <1>1, <1>11, TotalIsPartialSum
  <1>13. f[m + n] = g[m] + h[n]
    BY <1>1, <1>7
  <1>14. Total(s) = g[m] /\ Total(t) = h[n]
    BY <1>1, <1>2, <1>3, TotalIsPartialSum
  <1> QED
    BY <1>12, <1>13, <1>14

\* Weights.
LEMMA WeightIs ==
  ASSUME NEW S, NEW G \in [S -> Nat], NEW s \in Seq(S)
  PROVE  /\ [i \in DOMAIN s |-> G[s[i]]] \in Seq(Nat)
         /\ [i \in DOMAIN s |-> G[s[i]]] \in Seq(Int)
         /\ Len([i \in DOMAIN s |-> G[s[i]]]) = Len(s)
         /\ Weight(s, G) \in Nat
  <1>1. /\ Len(s) \in Nat /\ DOMAIN s = 1..Len(s)
        /\ \A i \in 1..Len(s) : s[i] \in S
    BY SeqIs
  <1>2. PICK a : a = [i \in DOMAIN s |-> G[s[i]]]
    OBVIOUS
  <1>3. a \in Seq(Nat) /\ a \in Seq(Int) /\ Len(a) = Len(s)
    BY <1>1, <1>2
  <1>4. Total(a) \in Nat
    BY <1>3, TotalNat
  <1> QED
    BY <1>2, <1>3, <1>4 DEF Weight

LEMMA WeightConcat ==
  ASSUME NEW S, NEW G \in [S -> Nat], NEW s \in Seq(S), NEW t \in Seq(S)
  PROVE  s \o t \in Seq(S) /\ Weight(s \o t, G) = Weight(s, G) + Weight(t, G)
  <1>1. PICK u : u = s \o t
    OBVIOUS
  <1>2. /\ u \in Seq(S) /\ Len(u) = Len(s) + Len(t)
        /\ \A i \in 1..Len(s) : u[i] = s[i]
        /\ \A i \in 1..Len(t) : u[Len(s) + i] = t[i]
    <2>1. /\ u \in Seq(S) /\ Len(u) = Len(s) + Len(t)
          /\ \A i \in 1..Len(s) + Len(t) :
               u[i] = IF i <= Len(s) THEN s[i] ELSE t[i - Len(s)]
      BY <1>1, ConcatProperties
    <2>2. PICK m \in Nat, n \in Nat : m = Len(s) /\ n = Len(t)
      BY SeqIs
    <2>3. ASSUME NEW i \in 1..m PROVE u[i] = s[i]
      BY <2>1, <2>2
    <2>4. ASSUME NEW i \in 1..n PROVE u[m + i] = t[i]
      <3>1. PICK e \in 1..m + n : e = m + i
        OBVIOUS
      <3>2. ~ (e <= m) /\ e - m = i
        BY <3>1
      <3>3. u[e] = t[e - m]
        BY <2>1, <2>2, <3>2
      <3> QED
        BY <3>1, <3>2, <3>3
    <2> QED
      BY <2>1, <2>2, <2>3, <2>4
  <1>3. PICK a : a = [i \in DOMAIN s |-> G[s[i]]]
    OBVIOUS
  <1>4. PICK b : b = [i \in DOMAIN t |-> G[t[i]]]
    OBVIOUS
  <1>5. PICK c : c = [i \in DOMAIN u |-> G[u[i]]]
    OBVIOUS
  <1>6. /\ a \in Seq(Int) /\ b \in Seq(Int) /\ c \in Seq(Int)
        /\ Len(a) = Len(s) /\ Len(b) = Len(t) /\ Len(c) = Len(u)
    BY <1>2, <1>3, <1>4, <1>5, WeightIs
  <1>7. /\ DOMAIN s = 1..Len(s) /\ DOMAIN t = 1..Len(t) /\ DOMAIN u = 1..Len(u)
        /\ Len(s) \in Nat /\ Len(t) \in Nat
    BY <1>2, SeqIs
  <1>8. \A i \in 1..Len(a) : c[i] = a[i]
    <2> SUFFICES ASSUME NEW i \in 1..Len(a) PROVE c[i] = a[i]
      OBVIOUS
    <2>1. i \in 1..Len(u) /\ i \in 1..Len(s)
      BY <1>2, <1>6, <1>7
    <2> QED
      BY <1>2, <1>3, <1>5, <1>7, <2>1
  <1>9. \A i \in 1..Len(b) : c[Len(a) + i] = b[i]
    <2> SUFFICES ASSUME NEW i \in 1..Len(b) PROVE c[Len(a) + i] = b[i]
      OBVIOUS
    <2>1. PICK e \in 1..Len(u) : e = Len(s) + i
      <3>1. PICK m \in Nat, n \in Nat : m = Len(s) /\ n = Len(t)
        BY <1>7
      <3>2. i \in 1..n /\ Len(u) = m + n
        BY <1>2, <1>6, <3>1
      <3>3. m + i \in 1..m + n
        BY <3>2
      <3> QED
        BY <3>1, <3>2, <3>3
    <2>2. u[e] = t[i] /\ i \in 1..Len(t)
      BY <1>2, <1>6, <2>1
    <2>3. c[e] = G[u[e]] /\ b[i] = G[t[i]]
      BY <1>4, <1>5, <1>7, <2>1, <2>2
    <2> QED
      BY <1>6, <2>1, <2>2, <2>3
  <1>10. Total(c) = Total(a) + Total(b)
    <2>1. Len(c) = Len(a) + Len(b)
      BY <1>2, <1>6
    <2> QED
      BY <1>6, <1>8, <1>9, <2>1, TotalConcat
  <1> QED
    BY <1>1, <1>2, <1>3, <1>4, <1>5, <1>10 DEF Weight

LEMMA WeightAppend ==
  ASSUME NEW S, NEW G \in [S -> Nat], NEW s \in Seq(S), NEW e \in S
  PROVE  Weight(Append(s, e), G) = Weight(s, G) + G[e]
  <1>1. G \in [S -> Int]
    OBVIOUS
  <1>2. Total([i \in DOMAIN Append(s, e) |-> G[Append(s, e)[i]]])
          = Total([i \in DOMAIN s |-> G[s[i]]]) + G[e]
    BY <1>1, TotalMapAppend
  <1> QED
    BY <1>2 DEF Weight

\* The function that FlattenSeq takes the last value of.
Flattens(f, ss, n) ==
  f = [i \in 1..n |-> IF i = 1 THEN ss[i] ELSE f[i-1] \o ss[i]]

LEMMA FlattensExist ==
  ASSUME NEW ss, NEW n \in Nat
  PROVE  \E f : Flattens(f, ss, n)
  <1> DEFINE S == {m \in Nat : \E f : Flattens(f, ss, m)}
  <1>1. 0 \in S
    <2>1. PICK f : f = [i \in 1..0 |-> 0]
      OBVIOUS
    <2>2. Flattens(f, ss, 0)
      BY <2>1 DEF Flattens
    <2> QED
      BY <2>2
  <1>2. ASSUME NEW m \in Nat, m \in S PROVE m + 1 \in S
    <2>1. PICK f : Flattens(f, ss, m)
      BY <1>2
    <2> DEFINE g == [i \in 1..m + 1 |->
                       IF i = m + 1
                         THEN IF i = 1 THEN ss[i] ELSE f[i-1] \o ss[i]
                         ELSE f[i]]
    <2>2. ASSUME NEW i \in 1..m + 1
          PROVE  g[i] = IF i = 1 THEN ss[i] ELSE g[i-1] \o ss[i]
      <3>1. CASE i = m + 1 /\ i = 1
        BY <3>1
      <3>2. CASE i = m + 1 /\ i # 1
        <4>1. i - 1 \in 1..m + 1 /\ i - 1 # m + 1
          BY <3>2
        <4>2. g[i-1] = f[i-1] /\ g[i] = f[i-1] \o ss[i]
          BY <3>2, <4>1
        <4> HIDE DEF g
        <4> QED
          BY <3>2, <4>2
      <3>3. CASE i # m + 1
        <4>1. i \in 1..m
          BY <3>3
        <4>2. f[i] = IF i = 1 THEN ss[i] ELSE f[i-1] \o ss[i]
          BY <2>1, <4>1 DEF Flattens
        <4>3. g[i] = f[i]
          BY <3>3
        <4>4. i # 1 => i - 1 \in 1..m + 1 /\ i - 1 # m + 1
          BY <3>3
        <4>5. i # 1 => g[i-1] = f[i-1]
          BY <4>4
        <4> HIDE DEF g
        <4> QED
          BY <4>2, <4>3, <4>5
      <3> QED
        BY <3>1, <3>2, <3>3
    <2>3. g = [i \in 1..m + 1 |-> g[i]]
      OBVIOUS
    <2> HIDE DEF g
    <2>4. Flattens(g, ss, m + 1)
      BY <2>2, <2>3 DEF Flattens
    <2> QED
      BY <2>4
  <1>3. Nat \subseteq S
    <2> HIDE DEF S
    <2> QED
      BY <1>1, <1>2, InductiveSet
  <1> QED
    BY <1>3

LEMMA FlattenIs ==
  ASSUME NEW ss, Len(ss) \in Nat \ {0}
  PROVE  \E f : Flattens(f, ss, Len(ss)) /\ FlattenSeq(ss) = f[Len(ss)]
  <1> DEFINE flatten == CHOOSE f : Flattens(f, ss, Len(ss))
  <1>1. Flattens(flatten, ss, Len(ss))
    BY FlattensExist
  <1>2. FlattenSeq(ss) = flatten[Len(ss)]
    BY DEF FlattenSeq, Flattens
  <1> QED
    BY <1>1, <1>2

\* The sequences ss over S weigh what w says.
Weighed(ss, n, S, G, w) ==
  /\ n \in Nat \ {0}
  /\ G \in [S -> Nat]
  /\ ss \in [1..n -> Seq(S)]
  /\ w \in [1..n -> Nat]
  /\ \A p \in 1..n : w[p] = Weight(ss[p], G)

\* All the sequences put one behind the other weigh what they weigh.
LEMMA WeightFlatten ==
  ASSUME NEW S, NEW G, NEW n, NEW ss, NEW w, Weighed(ss, n, S, G, w)
  PROVE  /\ FlattenSeq(ss) \in Seq(S)
         /\ Weight(FlattenSeq(ss), G) = Total(w)
  <1> /\ n \in Nat \ {0} /\ G \in [S -> Nat]
      /\ ss \in [1..n -> Seq(S)] /\ w \in [1..n -> Nat]
    BY DEF Weighed
  <1>1. ss \in Seq(Seq(S)) /\ Len(ss) = n
    OBVIOUS
  <1>2. PICK f : Flattens(f, ss, n) /\ FlattenSeq(ss) = f[n]
    BY <1>1, FlattenIs
  <1>3. f[1] = ss[1] /\ \A i \in 1..n - 1 : f[i + 1] = f[i] \o ss[i + 1]
    <2>1. 1 \in 1..n
      OBVIOUS
    <2>2. f[1] = ss[1]
      BY <1>2, <2>1 DEF Flattens
    <2>3. ASSUME NEW i \in 1..n - 1 PROVE f[i + 1] = f[i] \o ss[i + 1]
      <3>1. PICK e \in 1..n : e = i + 1
        OBVIOUS
      <3>2. e # 1 /\ e - 1 = i
        BY <3>1
      <3>3. f[e] = f[e-1] \o ss[e]
        BY <1>2, <3>2 DEF Flattens
      <3> QED
        BY <3>1, <3>2, <3>3
    <2> QED
      BY <2>2, <2>3
  <1>4. \A p \in 1..n : ss[p] \in Seq(S) /\ Weight(ss[p], G) \in Nat
    BY WeightIs
  <1>5. \A i \in 1..n : f[i] \in Seq(S)
    <2> DEFINE T == {i \in Nat : i + 1 <= n => f[i + 1] \in Seq(S)}
    <2>1. 0 \in T
      BY <1>3, <1>4
    <2>2. ASSUME NEW i \in Nat, i \in T PROVE i + 1 \in T
      <3> SUFFICES ASSUME (i + 1) + 1 <= n PROVE f[(i + 1) + 1] \in Seq(S)
        OBVIOUS
      <3>1. PICK e \in 1..n - 1 : e = i + 1
        OBVIOUS
      <3>2. f[e] \in Seq(S) /\ ss[e + 1] \in Seq(S)
        BY <1>4, <2>2, <3>1
      <3>3. f[e + 1] = f[e] \o ss[e + 1]
        BY <1>3
      <3>4. f[e + 1] \in Seq(S)
        BY <3>2, <3>3, ConcatProperties
      <3> QED
        BY <3>1, <3>4
    <2>3. Nat \subseteq T
      <3> HIDE DEF T
      <3> QED
        BY <2>1, <2>2, InductiveSet
    <2> SUFFICES ASSUME NEW i \in 1..n PROVE f[i] \in Seq(S)
      OBVIOUS
    <2>4. PICK e \in Nat : i = e + 1
      <3>1. i - 1 \in Nat /\ i = (i - 1) + 1
        OBVIOUS
      <3> QED
        BY <3>1
    <2>5. e \in T
      BY <2>3, <2>4
    <2> QED
      BY <2>4, <2>5
  <1>6. \A p \in 1..n : w[p] = Weight(ss[p], G)
    BY DEF Weighed
  <1>7. w \in Seq(Int) /\ Len(w) = n
    OBVIOUS
  <1> DEFINE h == [m \in 0..n |-> IF m = 0 THEN 0 ELSE Weight(f[m], G)]
  <1>8. ASSUME NEW m \in 1..n PROVE h[m] = Weight(f[m], G) /\ h[m] \in Int
    <2>1. f[m] \in Seq(S)
      BY <1>5
    <2>2. PICK z \in Nat : z = Weight(f[m], G)
      BY <2>1, WeightIs
    <2>3. m \in 0..n /\ m # 0
      OBVIOUS
    <2>4. h[m] = Weight(f[m], G)
      BY <2>3
    <2> HIDE DEF h
    <2> QED
      BY <2>2, <2>4
  <1>9. h[0] = 0 /\ h = [m \in 0..n |-> h[m]]
    OBVIOUS
  <1> HIDE DEF h
  <1>10. h \in [0..n -> Int]
    <2>1. ASSUME NEW m \in 0..n PROVE h[m] \in Int
      <3>1. CASE m = 0
        BY <1>9, <3>1
      <3>2. CASE m # 0
        <4>1. m \in 1..n
          BY <3>2
        <4> QED
          BY <1>8, <4>1
      <3> QED
        BY <3>1, <3>2
    <2> QED
      BY <1>9, <2>1
  <1>11. ASSUME NEW m \in 0..n - 1 PROVE h[m + 1] = h[m] + w[m + 1]
    <2>1. PICK e \in 1..n : e = m + 1
      OBVIOUS
    <2>2. w[e] = Weight(ss[e], G) /\ w[e] \in Nat /\ h[e] = Weight(f[e], G)
      BY <1>4, <1>6, <1>8
    <2>3. CASE m = 0
      <3>1. e = 1
        BY <2>1, <2>3
      <3>2. h[e] = w[e]
        BY <1>3, <2>2, <3>1
      <3>3. w[e] = 0 + w[e]
        BY <2>2
      <3> QED
        BY <1>9, <2>1, <2>3, <3>2, <3>3
    <2>4. CASE m # 0
      <3>1. m \in 1..n - 1 /\ m \in 1..n
        BY <2>4
      <3>2. f[e] = f[m] \o ss[e]
        BY <1>3, <2>1, <3>1
      <3>3. PICK u \in Seq(S), v \in Seq(S) : u = f[m] /\ v = ss[e]
        <4>1. f[m] \in Seq(S) /\ ss[e] \in Seq(S)
          BY <1>4, <1>5, <3>1
        <4> QED
          BY <4>1, Zenon
      <3>4. Weight(u \o v, G) = Weight(u, G) + Weight(v, G)
        <4>1. G \in [S -> Nat] /\ u \in Seq(S) /\ v \in Seq(S)
          BY <3>3
        <4> QED
          BY ONLY <4>1, WeightConcat
      <3>5. h[m] = Weight(f[m], G)
        BY <1>8, <3>1
      <3> QED
        BY <2>1, <2>2, <3>2, <3>3, <3>4, <3>5
    <2> QED
      BY <2>3, <2>4
  <1>12. PartialSums(h, w)
    BY <1>7, <1>9, <1>10, <1>11 DEF PartialSums
  <1>13. Total(w) = h[n]
    BY <1>7, <1>12, TotalIsPartialSum
  <1>14. h[n] = Weight(f[n], G) /\ f[n] \in Seq(S)
    BY <1>5, <1>8
  <1> QED
    BY <1>2, <1>6, <1>13, <1>14

\* Equal weights make the same records, each as often.
LEMMA SameMultiplicity ==
  ASSUME NEW S, NEW s \in Seq(S), NEW t \in Seq(S),
         \A G \in [S -> Nat] : Weight(s, G) = Weight(t, G)
  PROVE  Multiplicity(s) = Multiplicity(t)
  <1> DEFINE Of(u, x) == Cardinality({i \in DOMAIN u : u[i] = x})
             One(x) == [r \in S |-> IF r = x THEN 1 ELSE 0]
  <1>1. ASSUME NEW u \in Seq(S), NEW x
        PROVE  /\ Of(u, x) = Weight(u, One(x))
               /\ x \in Range(u) <=> Of(u, x) # 0
    <2>1. PICK a : a = [i \in DOMAIN u |-> One(x)[u[i]]]
      OBVIOUS
    <2>2. /\ Len(u) \in Nat /\ DOMAIN u = 1..Len(u)
          /\ \A i \in 1..Len(u) : u[i] \in S
      BY SeqIs
    <2>3. \A i \in 1..Len(u) : a[i] = IF u[i] = x THEN 1 ELSE 0
      BY <2>1, <2>2
    <2>4. a \in Seq(Int) /\ Len(a) = Len(u)
      BY <2>1, <2>2
    <2>5. {i \in DOMAIN u : u[i] = x} = {i \in 1..Len(a) : a[i] = 1}
      BY <2>2, <2>3, <2>4
    <2>6. \A i \in 1..Len(a) : a[i] \in {0, 1}
      BY <2>3, <2>4
    <2>7. Cardinality({i \in 1..Len(a) : a[i] = 1}) = Total(a)
      BY <2>4, <2>6, Ones
    <2>8. Of(u, x) = Weight(u, One(x))
      BY <2>1, <2>5, <2>7 DEF Weight
    <2>9. PICK A : A = {i \in DOMAIN u : u[i] = x}
      OBVIOUS
    <2>10. IsFiniteSet(A)
      <3>1. IsFiniteSet(1..Len(u)) /\ A \subseteq 1..Len(u)
        BY <2>2, <2>9, FS_Interval
      <3> QED
        BY <3>1, FS_Subset
    <2>11. Cardinality(A) = 0 <=> A = {}
      BY <2>10, FS_EmptySet
    <2>12. x \in Range(u) <=> A # {}
      BY <2>9 DEF Range
    <2> QED
      BY <2>8, <2>9, <2>11, <2>12
  <1>2. ASSUME NEW x PROVE Of(s, x) = Of(t, x)
    <2>1. One(x) \in [S -> Nat]
      OBVIOUS
    <2> HIDE DEF One, Of
    <2> QED
      BY <1>1, <2>1
  <1> HIDE DEF Of
  <1>3. Range(s) = Range(t)
    <2>1. ASSUME NEW x PROVE x \in Range(s) <=> x \in Range(t)
      <3>1. x \in Range(s) <=> Of(s, x) # 0
        BY <1>1
      <3>2. x \in Range(t) <=> Of(t, x) # 0
        BY <1>1
      <3> QED
        BY <1>2, <3>1, <3>2
    <2> QED
      BY <2>1
  <1>4. [x \in Range(s) |-> Of(s, x)] = [x \in Range(t) |-> Of(t, x)]
    BY <1>2, <1>3
  <1> QED
    BY <1>4 DEF Multiplicity, Of

-------------------------------------------------------------------------------
(***************************************************************************)
(* What an instance has taken of a file.                                   *)
(***************************************************************************)

\* The lines among the first c that p keeps, and what they weigh.
Rows(p, files, c, F) ==
  [i \in 1..Len(File(p, files)) |->
     IF i <= c /\ Mine(p, files, i) THEN F[File(p, files)[i]] ELSE 0]

\* What a line weighs: its record.
Through(G, L) == [l \in Text |-> G[L[l]]]

\* The records rs weigh what those lines are parsed to.
Taken(p, files, c, rs, L) ==
  /\ rs \in Seq(Range(L))
  /\ \A G \in [Range(L) -> Nat] :
       Weight(rs, G) = Total(Rows(p, files, c, Through(G, L)))

LEMMA FilesAre ==
  ASSUME NEW files \in OrderFiles \cup PartFiles, NEW p \in Procs
  PROVE  /\ File(p, files) \in Seq(Text) /\ Len(File(p, files)) \in Nat
         /\ DOMAIN File(p, files) = 1..Len(File(p, files))
         /\ \A i \in 1..Len(File(p, files)) : File(p, files)[i] \in Text
  <1>1. /\ files.own \in [DOMAIN files.own -> Seq(Text)]
        /\ files.common \in Seq(Text)
    BY FilesAssumption
  <1>2. File(p, files) \in Seq(Text)
    BY <1>1 DEF File, IsDiv
  <1> QED
    BY <1>2, SeqIs

LEMMA ThroughType ==
  ASSUME NEW L, DOMAIN L = Text, NEW G \in [Range(L) -> Nat]
  PROVE  Through(G, L) \in [Text -> Nat]
  <1>1. ASSUME NEW l \in Text PROVE G[L[l]] \in Nat
    <2>1. L[l] \in Range(L)
      BY DEF Range
    <2> QED
      BY <2>1
  <1> QED
    BY <1>1 DEF Through

LEMMA RowsType ==
  ASSUME NEW files \in OrderFiles \cup PartFiles, NEW p \in Procs, NEW c,
         NEW F \in [Text -> Nat]
  PROVE  /\ Rows(p, files, c, F) \in Seq(Nat) /\ Rows(p, files, c, F) \in Seq(Int)
         /\ Len(Rows(p, files, c, F)) = Len(File(p, files))
         /\ Total(Rows(p, files, c, F)) \in Nat
  <1>1. PICK n \in Nat : n = Len(File(p, files))
    BY FilesAre
  <1>2. \A i \in 1..n : F[File(p, files)[i]] \in Nat
    BY <1>1, FilesAre
  <1>3. PICK a : a = Rows(p, files, c, F)
    OBVIOUS
  <1>4. a = [i \in 1..n |-> IF i <= c /\ Mine(p, files, i)
                              THEN F[File(p, files)[i]] ELSE 0]
    BY <1>1, <1>3 DEF Rows
  <1>5. a \in Seq(Nat) /\ a \in Seq(Int) /\ Len(a) = n
    BY <1>2, <1>4
  <1>6. Total(a) \in Nat
    BY <1>5, TotalNat
  <1> QED
    BY <1>1, <1>3, <1>5, <1>6

LEMMA TakenNone ==
  ASSUME NEW files \in OrderFiles \cup PartFiles, NEW p \in Procs,
         NEW L, DOMAIN L = Text
  PROVE  Taken(p, files, 0, << >>, L)
  <1>1. << >> \in Seq(Range(L))
    BY EmptySeq
  <1>2. ASSUME NEW G \in [Range(L) -> Nat]
        PROVE  Weight(<< >>, G) = Total(Rows(p, files, 0, Through(G, L)))
    <2>1. PICK a : a = Rows(p, files, 0, Through(G, L))
      OBVIOUS
    <2>2. a \in Seq(Int) /\ Len(a) = Len(File(p, files))
      BY <2>1, ThroughType, RowsType
    <2>3. ASSUME NEW i \in 1..Len(a) PROVE a[i] = 0
      <3>1. i \in 1..Len(File(p, files)) /\ ~ (i <= 0)
        BY <2>2, FilesAre
      <3> QED
        BY <2>1, <3>1 DEF Rows
    <2>4. Total(a) = 0
      BY <2>2, <2>3, TotalZero
    <2>5. PICK b : b = [i \in DOMAIN << >> |-> G[<< >>[i]]]
      OBVIOUS
    <2>6. b = << >>
      BY <2>5
    <2>7. Weight(<< >>, G) = 0
      BY <2>5, <2>6, TotalEmpty DEF Weight
    <2> QED
      BY <2>1, <2>4, <2>7
  <1> QED
    BY <1>1, <1>2 DEF Taken

\* The row of the next line.
LEMMA RowsNext ==
  ASSUME NEW files \in OrderFiles \cup PartFiles, NEW p \in Procs,
         NEW c \in Nat, NEW n \in 1..Len(File(p, files)), n = c + 1,
         NEW F \in [Text -> Nat]
  PROVE  Total(Rows(p, files, n, F))
           = Total(Rows(p, files, c, F))
             + IF Mine(p, files, n) THEN F[File(p, files)[n]] ELSE 0
  <1>1. PICK a : a = Rows(p, files, c, F)
    OBVIOUS
  <1>2. PICK b : b = Rows(p, files, n, F)
    OBVIOUS
  <1>3. PICK k \in Nat : k = Len(File(p, files))
    BY FilesAre
  <1>4. /\ a \in Seq(Int) /\ Len(a) = k /\ b \in Seq(Int) /\ Len(b) = k
        /\ Total(a) \in Nat
    BY <1>1, <1>2, <1>3, RowsType
  <1>5. n \in 1..k
    BY <1>3
  <1>6. \A i \in 1..k : a[i] = IF i <= c /\ Mine(p, files, i)
                                 THEN F[File(p, files)[i]] ELSE 0
    BY <1>1, <1>3 DEF Rows
  <1>7. \A i \in 1..k : b[i] = IF i <= n /\ Mine(p, files, i)
                                 THEN F[File(p, files)[i]] ELSE 0
    BY <1>2, <1>3 DEF Rows
  <1>8. ASSUME NEW i \in 1..k, i # n PROVE b[i] = a[i]
    <2>1. i <= n <=> i <= c
      BY <1>8
    <2> QED
      BY <1>6, <1>7, <2>1
  <1>9. a[n] = 0
    <2>1. ~ (n <= c)
      OBVIOUS
    <2> QED
      BY <1>5, <1>6, <2>1
  <1>10. PICK z \in Nat : z = IF Mine(p, files, n) THEN F[File(p, files)[n]] ELSE 0
    <2>1. F[File(p, files)[n]] \in Nat
      BY FilesAre
    <2> QED
      BY <2>1
  <1>11. b[n] = z
    <2>1. n <= n
      OBVIOUS
    <2> QED
      BY <1>5, <1>7, <1>10, <2>1
  <1>12. Total(b) = Total(a) - a[n] + b[n]
    <2>1. Len(a) = Len(b) /\ n \in 1..Len(a)
      BY <1>4, <1>5
    <2>2. \A i \in 1..Len(a) : i # n => b[i] = a[i]
      BY <1>4, <1>8
    <2> QED
      BY <1>4, <2>1, <2>2, TotalReplaced
  <1>13. Total(b) = Total(a) + z
    BY <1>4, <1>9, <1>11, <1>12
  <1> QED
    BY <1>1, <1>2, <1>10, <1>13

\* A line is read and kept, or not.
LEMMA TakenMore ==
  ASSUME NEW files \in OrderFiles \cup PartFiles, NEW p \in Procs,
         NEW L, DOMAIN L = Text, NEW c \in Nat, NEW rs, Taken(p, files, c, rs, L),
         NEW n \in 1..Len(File(p, files)), n = c + 1, Mine(p, files, n)
  PROVE  Taken(p, files, n, Append(rs, L[File(p, files)[n]]), L)
  <1>1. PICK r : r = L[File(p, files)[n]]
    OBVIOUS
  <1>2. r \in Range(L)
    BY <1>1, FilesAre DEF Range
  <1>3. rs \in Seq(Range(L))
    BY DEF Taken
  <1>4. PICK t : t = Append(rs, r)
    OBVIOUS
  <1>5. t \in Seq(Range(L))
    BY <1>2, <1>3, <1>4, AppendProperties
  <1>6. ASSUME NEW G \in [Range(L) -> Nat]
        PROVE  Weight(t, G) = Total(Rows(p, files, n, Through(G, L)))
    <2>1. Through(G, L) \in [Text -> Nat]
      BY ThroughType
    <2>2. Through(G, L)[File(p, files)[n]] = G[r]
      BY <1>1, FilesAre DEF Through
    <2>3. Total(Rows(p, files, n, Through(G, L)))
            = Total(Rows(p, files, c, Through(G, L))) + G[r]
      BY <2>1, <2>2, RowsNext
    <2>4. PICK S : S = Range(L)
      OBVIOUS
    <2>5. Weight(t, G) = Weight(rs, G) + G[r]
      BY <1>2, <1>3, <1>4, <2>4, WeightAppend
    <2>6. Weight(rs, G) = Total(Rows(p, files, c, Through(G, L)))
      BY DEF Taken
    <2> QED
      BY <2>3, <2>5, <2>6
  <1> QED
    BY <1>1, <1>4, <1>5, <1>6 DEF Taken

LEMMA TakenSame ==
  ASSUME NEW files \in OrderFiles \cup PartFiles, NEW p \in Procs,
         NEW L, DOMAIN L = Text, NEW c \in Nat, NEW rs, Taken(p, files, c, rs, L),
         NEW n \in 1..Len(File(p, files)), n = c + 1, ~ Mine(p, files, n)
  PROVE  Taken(p, files, n, rs, L)
  <1>1. ASSUME NEW G \in [Range(L) -> Nat]
        PROVE  Weight(rs, G) = Total(Rows(p, files, n, Through(G, L)))
    <2>1. Through(G, L) \in [Text -> Nat]
      BY ThroughType
    <2>2. PICK x \in Nat : x = Total(Rows(p, files, c, Through(G, L)))
      BY <2>1, RowsType
    <2>3. Total(Rows(p, files, n, Through(G, L))) = x + 0
      <3>1. PICK F \in [Text -> Nat] : F = Through(G, L)
        BY <2>1
      <3>2. Total(Rows(p, files, n, F))
              = Total(Rows(p, files, c, F))
                + IF Mine(p, files, n) THEN F[File(p, files)[n]] ELSE 0
        BY RowsNext
      <3> QED
        BY <2>2, <3>1, <3>2
    <2>4. Weight(rs, G) = x
      BY <2>2 DEF Taken
    <2> QED
      BY <2>2, <2>3, <2>4
  <1> QED
    BY <1>1 DEF Taken

-------------------------------------------------------------------------------
(***************************************************************************)
(* The invariant.                                                          *)
(***************************************************************************)

OrderOf == [l \in Text |-> LoadOrder(l)]
PartOf == [l \in Text |-> LoadPart(l)]

\* The lines p has read.
OrdersRead(p) ==
  IF loading[p] = "orders" THEN cnt[p] ELSE Len(File(p, orderFiles))

PartsRead(p) ==
  IF loading[p] = "orders" THEN 0
  ELSE IF loading[p] = "parts" THEN cnt[p] ELSE Len(File(p, partFiles))

LoadType ==
  /\ orderFiles \in OrderFiles /\ partFiles \in PartFiles
  /\ loading \in [Procs -> {"orders", "parts", "nothing"}]
  /\ cnt \in [Procs -> Nat]
  /\ orders = [p \in Procs |-> orders[p]]
  /\ parts = [p \in Procs |-> parts[p]]

OrdersTaken(p) ==
  /\ OrdersRead(p) <= Len(File(p, orderFiles))
  /\ Taken(p, orderFiles, OrdersRead(p), orders[p], OrderOf)

PartsTaken(p) ==
  /\ PartsRead(p) <= Len(File(p, partFiles))
  /\ Taken(p, partFiles, PartsRead(p), parts[p], PartOf)

ReadInv ==
  /\ LoadType
  /\ \A p \in Procs : OrdersTaken(p) /\ PartsTaken(p)

LEMMA InitRead == Init => ReadInv
  <1> SUFFICES ASSUME Init PROVE ReadInv
    OBVIOUS
  <1>1. LoadType
    BY DEF Init, ReaderInit, LoadType
  <1>2. ASSUME NEW p \in Procs PROVE OrdersTaken(p) /\ PartsTaken(p)
    <2>1. /\ loading[p] = "orders" /\ cnt[p] = 0
          /\ orders[p] = << >> /\ parts[p] = << >>
      BY DEF Init, ReaderInit
    <2>2. OrdersRead(p) = 0 /\ PartsRead(p) = 0
      BY <2>1 DEF OrdersRead, PartsRead
    <2>3. orderFiles \in OrderFiles \cup PartFiles /\ partFiles \in OrderFiles \cup PartFiles
      BY <1>1 DEF LoadType
    <2>4. DOMAIN OrderOf = Text /\ DOMAIN PartOf = Text
      BY DEF OrderOf, PartOf
    <2>5. /\ Taken(p, orderFiles, 0, << >>, OrderOf)
          /\ Taken(p, partFiles, 0, << >>, PartOf)
      BY <2>3, <2>4, TakenNone
    <2>6. 0 <= Len(File(p, orderFiles)) /\ 0 <= Len(File(p, partFiles))
      BY <2>3, FilesAre
    <2> QED
      BY <2>1, <2>2, <2>5, <2>6 DEF OrdersTaken, PartsTaken
  <1> QED
    BY <1>1, <1>2 DEF ReadInv

\* What is left alone.
LEMMA OrdersStay ==
  ASSUME NEW p, OrdersTaken(p), orderFiles' = orderFiles,
         loading'[p] = loading[p], cnt'[p] = cnt[p], orders'[p] = orders[p]
  PROVE  OrdersTaken(p)'
  <1>1. OrdersRead(p)' = OrdersRead(p)
    BY DEF OrdersRead
  <1> QED
    BY <1>1 DEF OrdersTaken, Taken, Rows, Weight

LEMMA PartsStay ==
  ASSUME NEW p, PartsTaken(p), partFiles' = partFiles,
         loading'[p] = loading[p], cnt'[p] = cnt[p], parts'[p] = parts[p]
  PROVE  PartsTaken(p)'
  <1>1. PartsRead(p)' = PartsRead(p)
    BY DEF PartsRead
  <1> QED
    BY <1>1 DEF PartsTaken, Taken, Rows, Weight

LEMMA OrdersAre ==
  ASSUME NEW p, NEW c, orderFiles' = orderFiles, OrdersRead(p)' = c,
         c <= Len(File(p, orderFiles)),
         Taken(p, orderFiles, c, orders'[p], OrderOf)
  PROVE  OrdersTaken(p)'
  BY DEF OrdersTaken, Taken, Rows, Weight

LEMMA PartsAre ==
  ASSUME NEW p, NEW c, partFiles' = partFiles, PartsRead(p)' = c,
         c <= Len(File(p, partFiles)),
         Taken(p, partFiles, c, parts'[p], PartOf)
  PROVE  PartsTaken(p)'
  BY DEF PartsTaken, Taken, Rows, Weight

LEMMA ReadUnchanged == ReadInv /\ UNCHANGED readerVars => ReadInv'
  <1> SUFFICES ASSUME ReadInv, UNCHANGED readerVars PROVE ReadInv'
    OBVIOUS
  <1>1. LoadType'
    BY DEF ReadInv, LoadType, readerVars
  <1>2. ASSUME NEW p \in Procs PROVE OrdersTaken(p)' /\ PartsTaken(p)'
    BY OrdersStay, PartsStay DEF ReadInv, readerVars
  <1> QED
    BY <1>1, <1>2 DEF ReadInv

\* A line of the file of orders.
LEMMA LoadOrdersRead ==
  ASSUME ReadInv, NEW q \in Procs, LoadOrders(q)
  PROVE  ReadInv'
  <1>1. /\ LoadType /\ orderFiles' = orderFiles /\ partFiles' = partFiles
        /\ parts' = parts /\ loading[q] = "orders"
    BY DEF ReadInv, LoadOrders
  <1>2. PICK n \in Nat : n = cnt[q] + 1
    BY <1>1 DEF LoadType
  <1>3. PICK file : file = File(q, orderFiles)
    OBVIOUS
  <1>4. orderFiles \in OrderFiles \cup PartFiles
    BY <1>1 DEF LoadType
  <1>5. /\ file \in Seq(Text) /\ Len(file) \in Nat /\ DOMAIN file = 1..Len(file)
        /\ \A i \in 1..Len(file) : file[i] \in Text
    BY <1>3, <1>4, FilesAre
  <1>6. \/ /\ n \in 1..Len(file)
           /\ cnt' = [cnt EXCEPT ![q] = n]
           /\ orders' = IF Mine(q, orderFiles, n)
                THEN [orders EXCEPT ![q] = Append(@, LoadOrder(file[n]))]
                ELSE orders
           /\ loading' = loading
        \/ /\ n \notin 1..Len(file)
           /\ loading' = [loading EXCEPT ![q] = "parts"]
           /\ cnt' = [cnt EXCEPT ![q] = 0]
           /\ orders' = orders
    BY <1>2, <1>3, <1>5 DEF LoadOrders
  <1>7. LoadType'
    <2>1. CASE cnt' = [cnt EXCEPT ![q] = n] /\ loading' = loading
      BY <1>1, <1>6, <2>1 DEF LoadType
    <2>2. CASE /\ loading' = [loading EXCEPT ![q] = "parts"]
               /\ cnt' = [cnt EXCEPT ![q] = 0]
               /\ orders' = orders
      BY <1>1, <2>2 DEF LoadType
    <2> QED
      BY <1>6, <2>1, <2>2
  <1>8. ASSUME NEW p \in Procs, p # q PROVE OrdersTaken(p)' /\ PartsTaken(p)'
    <2>1. /\ loading'[p] = loading[p] /\ cnt'[p] = cnt[p]
          /\ orders'[p] = orders[p] /\ parts'[p] = parts[p]
      BY <1>1, <1>6, <1>8 DEF LoadType
    <2>2. OrdersTaken(p) /\ PartsTaken(p)
      BY DEF ReadInv
    <2> QED
      BY <1>1, <2>1, <2>2, OrdersStay, PartsStay
  <1>9. /\ OrdersRead(q) = cnt[q] /\ PartsRead(q) = 0 /\ cnt[q] \in Nat
        /\ cnt[q] <= Len(file)
        /\ Taken(q, orderFiles, cnt[q], orders[q], OrderOf)
        /\ Taken(q, partFiles, 0, parts[q], PartOf)
        /\ 0 <= Len(File(q, partFiles))
    <2>1. OrdersTaken(q) /\ PartsTaken(q)
      BY DEF ReadInv
    <2>2. OrdersRead(q) = cnt[q] /\ PartsRead(q) = 0
      BY <1>1 DEF OrdersRead, PartsRead
    <2> QED
      BY <1>1, <1>3, <2>1, <2>2 DEF OrdersTaken, PartsTaken, LoadType
  <1>10. PartsTaken(q)'
    <2>1. PartsRead(q)' = 0
      <3>1. CASE loading' = loading
        BY <1>1, <3>1 DEF PartsRead
      <3>2. CASE /\ loading' = [loading EXCEPT ![q] = "parts"]
                 /\ cnt' = [cnt EXCEPT ![q] = 0]
        <4>1. loading'[q] = "parts" /\ cnt'[q] = 0
          BY <1>1, <3>2 DEF LoadType
        <4> QED
          BY <4>1 DEF PartsRead
      <3> QED
        BY <1>6, <3>1, <3>2
    <2> QED
      BY <1>1, <1>9, <2>1, PartsAre
  <1>11. OrdersTaken(q)'
    <2>1. CASE /\ n \in 1..Len(file)
               /\ cnt' = [cnt EXCEPT ![q] = n]
               /\ orders' = IF Mine(q, orderFiles, n)
                    THEN [orders EXCEPT ![q] = Append(@, LoadOrder(file[n]))]
                    ELSE orders
               /\ loading' = loading
      <3>1. OrdersRead(q)' = n
        <4>1. cnt'[q] = n
          BY <1>1, <2>1 DEF LoadType
        <4> QED
          BY <1>1, <2>1, <4>1 DEF OrdersRead
      <3>2. DOMAIN OrderOf = Text /\ OrderOf[file[n]] = LoadOrder(file[n])
        BY <1>5, <2>1 DEF OrderOf
      <3>3. Taken(q, orderFiles, n, orders'[q], OrderOf)
        <4>1. CASE Mine(q, orderFiles, n)
          <5>1. orders'[q] = Append(orders[q], OrderOf[file[n]])
            BY <1>1, <2>1, <3>2, <4>1 DEF LoadType
          <5> QED
            BY <1>2, <1>3, <1>4, <1>9, <2>1, <3>2, <4>1, <5>1, TakenMore
        <4>2. CASE ~ Mine(q, orderFiles, n)
          <5>1. orders'[q] = orders[q]
            BY <2>1, <4>2
          <5> QED
            BY <1>2, <1>3, <1>4, <1>9, <2>1, <3>2, <4>2, <5>1, TakenSame
        <4> QED
          BY <4>1, <4>2
      <3>4. n <= Len(File(q, orderFiles))
        BY <1>3, <1>5, <2>1
      <3> QED
        BY <1>1, <3>1, <3>3, <3>4, OrdersAre
    <2>2. CASE /\ n \notin 1..Len(file)
               /\ loading' = [loading EXCEPT ![q] = "parts"]
               /\ cnt' = [cnt EXCEPT ![q] = 0]
               /\ orders' = orders
      <3>1. cnt[q] = Len(file)
        BY <1>2, <1>5, <1>9, <2>2
      <3>2. loading'[q] = "parts"
        BY <1>1, <2>2 DEF LoadType
      <3>3. OrdersRead(q)' = cnt[q]
        BY <1>1, <1>3, <3>1, <3>2 DEF OrdersRead
      <3> QED
        BY <1>1, <1>3, <1>9, <2>2, <3>3, OrdersAre
    <2> QED
      BY <1>6, <2>1, <2>2
  <1> QED
    BY <1>7, <1>8, <1>10, <1>11 DEF ReadInv

\* A line of the file of parts.
LEMMA LoadPartsRead ==
  ASSUME ReadInv, NEW q \in Procs, LoadParts(q)
  PROVE  ReadInv'
  <1>1. /\ LoadType /\ orderFiles' = orderFiles /\ partFiles' = partFiles
        /\ orders' = orders /\ loading[q] = "parts"
    BY DEF ReadInv, LoadParts
  <1>2. PICK n \in Nat : n = cnt[q] + 1
    BY <1>1 DEF LoadType
  <1>3. PICK file : file = File(q, partFiles)
    OBVIOUS
  <1>4. partFiles \in OrderFiles \cup PartFiles
    BY <1>1 DEF LoadType
  <1>5. /\ file \in Seq(Text) /\ Len(file) \in Nat /\ DOMAIN file = 1..Len(file)
        /\ \A i \in 1..Len(file) : file[i] \in Text
    BY <1>3, <1>4, FilesAre
  <1>6. \/ /\ n \in 1..Len(file) /\ Mine(q, partFiles, n)
           /\ cnt' = [cnt EXCEPT ![q] = n]
           /\ parts' = [parts EXCEPT ![q] = Append(@, LoadPart(file[n]))]
           /\ loading' = loading
        \/ /\ n \in 1..Len(file) /\ ~ Mine(q, partFiles, n)
           /\ cnt' = [cnt EXCEPT ![q] = n]
           /\ parts' = parts
           /\ loading' = loading
        \/ /\ n \notin 1..Len(file)
           /\ loading' = [loading EXCEPT ![q] = "nothing"]
           /\ cnt' = cnt
           /\ parts' = parts
    BY <1>2, <1>3, <1>5 DEF LoadParts
  <1>7. LoadType'
    <2>1. CASE cnt' = [cnt EXCEPT ![q] = n] /\ loading' = loading
      <3>1. cnt' \in [Procs -> Nat]
        BY <1>1, <2>1 DEF LoadType
      <3>2. parts' = [p \in Procs |-> parts'[p]]
        <4>1. CASE parts' = parts
          BY <1>1, <4>1 DEF LoadType
        <4>2. CASE parts' = [parts EXCEPT ![q] = Append(@, LoadPart(file[n]))]
          BY <1>1, <4>2 DEF LoadType
        <4>3. \/ parts' = parts
              \/ parts' = [parts EXCEPT ![q] = Append(@, LoadPart(file[n]))]
          BY <1>6
        <4> QED
          BY <4>1, <4>2, <4>3
      <3> QED
        BY <1>1, <2>1, <3>1, <3>2 DEF LoadType
    <2>2. CASE /\ loading' = [loading EXCEPT ![q] = "nothing"]
               /\ cnt' = cnt /\ parts' = parts
      BY <1>1, <2>2 DEF LoadType
    <2> QED
      BY <1>6, <2>1, <2>2
  <1>8. ASSUME NEW p \in Procs, p # q PROVE OrdersTaken(p)' /\ PartsTaken(p)'
    <2>1. /\ loading'[p] = loading[p] /\ cnt'[p] = cnt[p]
          /\ orders'[p] = orders[p] /\ parts'[p] = parts[p]
      BY <1>1, <1>6, <1>8 DEF LoadType
    <2>2. OrdersTaken(p) /\ PartsTaken(p)
      BY DEF ReadInv
    <2> QED
      BY <1>1, <2>1, <2>2, OrdersStay, PartsStay
  <1>9. /\ OrdersRead(q) = Len(File(q, orderFiles)) /\ PartsRead(q) = cnt[q]
        /\ cnt[q] \in Nat /\ cnt[q] <= Len(file)
        /\ Taken(q, partFiles, cnt[q], parts[q], PartOf)
        /\ Taken(q, orderFiles, Len(File(q, orderFiles)), orders[q], OrderOf)
        /\ Len(File(q, orderFiles)) <= Len(File(q, orderFiles))
    <2>1. OrdersTaken(q) /\ PartsTaken(q)
      BY DEF ReadInv
    <2>2. OrdersRead(q) = Len(File(q, orderFiles)) /\ PartsRead(q) = cnt[q]
      BY <1>1 DEF OrdersRead, PartsRead
    <2> QED
      BY <1>1, <1>3, <2>1, <2>2 DEF OrdersTaken, PartsTaken, LoadType
  <1>10. OrdersTaken(q)'
    <2>1. loading'[q] # "orders"
      BY <1>1, <1>6 DEF LoadType
    <2>2. OrdersRead(q)' = Len(File(q, orderFiles))
      BY <1>1, <2>1 DEF OrdersRead
    <2> QED
      BY <1>1, <1>9, <2>2, OrdersAre
  <1>11. PartsTaken(q)'
    <2>1. CASE /\ n \in 1..Len(file)
               /\ cnt' = [cnt EXCEPT ![q] = n]
               /\ parts' = IF Mine(q, partFiles, n)
                    THEN [parts EXCEPT ![q] = Append(@, LoadPart(file[n]))]
                    ELSE parts
               /\ loading' = loading
      <3>1. PartsRead(q)' = n
        <4>1. cnt'[q] = n
          BY <1>1, <2>1 DEF LoadType
        <4> QED
          BY <1>1, <2>1, <4>1 DEF PartsRead
      <3>2. DOMAIN PartOf = Text /\ PartOf[file[n]] = LoadPart(file[n])
        BY <1>5, <2>1 DEF PartOf
      <3>3. Taken(q, partFiles, n, parts'[q], PartOf)
        <4>1. CASE Mine(q, partFiles, n)
          <5>1. parts'[q] = Append(parts[q], PartOf[file[n]])
            BY <1>1, <2>1, <3>2, <4>1 DEF LoadType
          <5> QED
            BY <1>2, <1>3, <1>4, <1>9, <2>1, <3>2, <4>1, <5>1, TakenMore
        <4>2. CASE ~ Mine(q, partFiles, n)
          <5>1. parts'[q] = parts[q]
            BY <2>1, <4>2
          <5> QED
            BY <1>2, <1>3, <1>4, <1>9, <2>1, <3>2, <4>2, <5>1, TakenSame
        <4> QED
          BY <4>1, <4>2
      <3>4. n <= Len(File(q, partFiles))
        BY <1>3, <1>5, <2>1
      <3> QED
        BY <1>1, <3>1, <3>3, <3>4, PartsAre
    <2>2. CASE /\ n \notin 1..Len(file)
               /\ loading' = [loading EXCEPT ![q] = "nothing"]
               /\ cnt' = cnt
               /\ parts' = parts
      <3>1. cnt[q] = Len(file)
        BY <1>2, <1>5, <1>9, <2>2
      <3>2. loading'[q] = "nothing"
        BY <1>1, <2>2 DEF LoadType
      <3>3. PartsRead(q)' = cnt[q]
        BY <1>1, <1>3, <3>1, <3>2 DEF PartsRead
      <3> QED
        BY <1>1, <1>3, <1>9, <2>2, <3>3, PartsAre
    <2> QED
      BY <1>6, <2>1, <2>2
  <1> QED
    BY <1>7, <1>8, <1>10, <1>11 DEF ReadInv

LEMMA NextRead == ReadInv /\ [Next]_vars => ReadInv'
  <1> SUFFICES ASSUME ReadInv, [Next]_vars PROVE ReadInv'
    OBVIOUS
  <1>1. \/ \E p \in Procs : LoadOrders(p) \/ LoadParts(p)
        \/ UNCHANGED readerVars
    <2>1. CASE vars' = vars
      BY <2>1 DEF vars
    <2>2. CASE Next
      BY <2>2 DEF Next, Load, SendData, SendSignal, SendStart, Send, Receive
    <2> QED
      BY <2>1, <2>2
  <1> QED
    BY <1>1, LoadOrdersRead, LoadPartsRead, ReadUnchanged

LEMMA AlwaysRead == Spec => []ReadInv
  BY InitRead, NextRead, PTL DEF Spec

-------------------------------------------------------------------------------
(***************************************************************************)
(* What all instances have loaded.                                         *)
(***************************************************************************)

\* Each line of a common file is kept by one instance.
LEMMA KeptOnce ==
  ASSUME NEW lines \in Seq(Text), NEW F \in [Text -> Nat]
  PROVE  Total([p \in 1..N |-> Total([i \in 1..Len(lines) |->
                  IF (i % N) + 1 = p THEN F[lines[i]] ELSE 0])])
           = Weight(lines, F)
  <1>1. PICK n \in Nat : n = Len(lines)
    BY SeqIs
  <1>2. /\ N \in Nat \ {0} /\ \A i \in 1..n : F[lines[i]] \in Nat
        /\ DOMAIN lines = 1..n
    BY <1>1, SeqIs, NAssumption
  <1> DEFINE Row(p) == [i \in 1..n |-> IF (i % N) + 1 = p THEN F[lines[i]] ELSE 0]
             Upto(m) == [i \in 1..n |-> IF (i % N) + 1 <= m THEN F[lines[i]] ELSE 0]
             h == [m \in 0..N |-> Total(Upto(m))]
  <1>3. ASSUME NEW m
        PROVE  /\ Row(m) \in Seq(Int) /\ Len(Row(m)) = n
               /\ Upto(m) \in Seq(Int) /\ Len(Upto(m)) = n
               /\ Total(Row(m)) \in Int /\ Total(Upto(m)) \in Int
    <2>1. /\ Row(m) \in Seq(Int) /\ Len(Row(m)) = n
          /\ Upto(m) \in Seq(Int) /\ Len(Upto(m)) = n
      BY <1>2
    <2> HIDE DEF Row, Upto
    <2> QED
      BY <2>1, TotalType
  <1>4. ASSUME NEW i \in 1..n PROVE (i % N) + 1 \in 1..N
    <2>1. i % N \in 0..N - 1
      BY <1>2
    <2> QED
      BY <1>2, <2>1
  <1>5. Total(Upto(0)) = 0
    <2>1. ASSUME NEW i \in 1..n PROVE Upto(0)[i] = 0
      <3>1. ~ ((i % N) + 1 <= 0)
        BY <1>2, <1>4
      <3> QED
        BY <3>1
    <2> HIDE DEF Upto
    <2> QED
      BY <1>3, <2>1, TotalZero
  <1>6. ASSUME NEW m \in 0..N - 1
        PROVE  Total(Upto(m + 1)) = Total(Upto(m)) + Total(Row(m + 1))
    <2>1. ASSUME NEW i \in 1..n
          PROVE  Upto(m + 1)[i] = Upto(m)[i] + Row(m + 1)[i]
      <3>1. PICK k \in 1..N : k = (i % N) + 1
        BY <1>4
      <3>2. PICK v \in Nat : v = F[lines[i]]
        BY <1>2
      <3>3. /\ Upto(m + 1)[i] = IF k <= m + 1 THEN v ELSE 0
            /\ Upto(m)[i] = IF k <= m THEN v ELSE 0
            /\ Row(m + 1)[i] = IF k = m + 1 THEN v ELSE 0
        BY <3>1, <3>2
      <3> HIDE DEF Upto, Row
      <3> QED
        BY <1>2, <3>3
    <2> HIDE DEF Upto, Row
    <2>2. PICK a \in Seq(Int), b \in Seq(Int), c \in Seq(Int) :
            a = Upto(m) /\ b = Row(m + 1) /\ c = Upto(m + 1)
      BY <1>3
    <2>3. Len(a) = n /\ Len(b) = n /\ Len(c) = n
      BY <1>3, <2>2
    <2>4. \A i \in 1..Len(a) : c[i] = a[i] + b[i]
      BY <2>1, <2>2, <2>3
    <2>5. Total(c) = Total(a) + Total(b)
      BY <2>3, <2>4, TotalAdd
    <2> QED
      BY <2>2, <2>5
  <1>7. PICK w : w = [p \in 1..N |-> Total(Row(p))]
    OBVIOUS
  <1>8. w \in Seq(Int) /\ Len(w) = N
    <2> HIDE DEF Row
    <2>1. \A p \in 1..N : Total(Row(p)) \in Int
      BY <1>3
    <2> QED
      BY <1>2, <1>7, <2>1
  <1>9. PartialSums(h, w)
    <2> HIDE DEF Row, Upto
    <2>1. h \in [0..N -> Int]
      BY <1>3
    <2>2. h[0] = 0
      BY <1>2, <1>5
    <2>3. ASSUME NEW m \in 0..N - 1 PROVE h[m + 1] = h[m] + w[m + 1]
      <3>1. m \in 0..N /\ m + 1 \in 0..N /\ m + 1 \in 1..N
        BY <1>2
      <3>2. w[m + 1] = Total(Row(m + 1))
        BY <1>7, <3>1
      <3> QED
        BY <1>6, <3>1, <3>2
    <2> HIDE DEF h
    <2> QED
      BY <1>8, <2>1, <2>2, <2>3 DEF PartialSums
  <1>10. Total(w) = h[N]
    <2> HIDE DEF h
    <2> QED
      BY <1>8, <1>9, TotalIsPartialSum
  <1>11. h[N] = Total(Upto(N))
    BY <1>2
  <1>12. Upto(N) = [i \in DOMAIN lines |-> F[lines[i]]]
    <2>1. ASSUME NEW i \in 1..n PROVE Upto(N)[i] = F[lines[i]]
      <3>1. (i % N) + 1 <= N
        BY <1>2, <1>4
      <3> QED
        BY <3>1
    <2>2. Upto(N) = [i \in 1..n |-> Upto(N)[i]]
      OBVIOUS
    <2> HIDE DEF Upto
    <2> QED
      BY <1>2, <2>1, <2>2
  <1>13. Total(w) = Weight(lines, F)
    BY <1>10, <1>11, <1>12 DEF Weight
  <1> QED
    BY <1>1, <1>7, <1>13

\* What has been taken of all lines, over all instances.
LEMMA AllTaken ==
  ASSUME NEW files \in OrderFiles \cup PartFiles, Consistent(files),
         NEW F \in [Text -> Nat]
  PROVE  /\ Present(files) \in Seq(Text)
         /\ Total([p \in 1..N |->
                     Total(Rows(p, files, Len(File(p, files)), F))])
              = Weight(Present(files), F)
  <1>1. /\ files.own \in [DOMAIN files.own -> Seq(Text)]
        /\ files.common \in Seq(Text)
    BY FilesAssumption
  <1>2. N \in Nat \ {0} /\ 1 \in Procs /\ Procs = 1..N
    BY NAssumption DEF Procs
  <1>3. ASSUME NEW p \in Procs
        PROVE  Rows(p, files, Len(File(p, files)), F)
                 = [i \in 1..Len(File(p, files)) |->
                      IF Mine(p, files, i) THEN F[File(p, files)[i]] ELSE 0]
    <2>1. \A i \in 1..Len(File(p, files)) : i <= Len(File(p, files))
      BY FilesAre
    <2> QED
      BY <2>1 DEF Rows
  <1>4. CASE DOMAIN files.own = Procs
    <2>1. Present(files) = FlattenSeq(files.own)
      BY <1>4 DEF Present
    <2>2. files.own \in [1..N -> Seq(Text)]
      BY <1>1, <1>2, <1>4
    <2>3. /\ FlattenSeq(files.own) \in Seq(Text)
          /\ Weight(FlattenSeq(files.own), F)
               = Total([p \in 1..N |-> Weight(files.own[p], F)])
      <3>1. PICK w : w = [p \in 1..N |-> Weight(files.own[p], F)]
        OBVIOUS
      <3>2. PICK own \in [1..N -> Seq(Text)] : own = files.own
        BY <2>2
      <3>3. \A p \in 1..N : w[p] = Weight(own[p], F)
        BY <3>1, <3>2
      <3>4. w \in [1..N -> Nat]
        <4>1. \A p \in 1..N : own[p] \in Seq(Text)
          OBVIOUS
        <4>2. \A p \in 1..N : Weight(own[p], F) \in Nat
          BY <4>1, WeightIs
        <4> QED
          BY <3>1, <3>2, <4>2
      <3>5. Weighed(own, N, Text, F, w)
        BY <1>2, <3>3, <3>4 DEF Weighed
      <3>6. FlattenSeq(own) \in Seq(Text) /\ Weight(FlattenSeq(own), F) = Total(w)
        BY <3>5, WeightFlatten
      <3> QED
        BY <3>1, <3>2, <3>6
    <2>4. ASSUME NEW p \in 1..N
          PROVE  Total(Rows(p, files, Len(File(p, files)), F))
                   = Weight(files.own[p], F)
      <3>1. File(p, files) = files.own[p] /\ \A i : Mine(p, files, i)
        BY <1>2, <1>4 DEF File, IsDiv, Mine
      <3>2. DOMAIN files.own[p] = 1..Len(files.own[p])
        BY <2>2, SeqIs
      <3>3. Rows(p, files, Len(File(p, files)), F)
              = [i \in DOMAIN files.own[p] |-> F[files.own[p][i]]]
        BY <1>2, <1>3, <3>1, <3>2
      <3> QED
        BY <3>3 DEF Weight
    <2>5. [p \in 1..N |-> Total(Rows(p, files, Len(File(p, files)), F))]
            = [p \in 1..N |-> Weight(files.own[p], F)]
      BY <2>4
    <2> QED
      BY <2>1, <2>3, <2>5
  <1>5. CASE DOMAIN files.own = {}
    <2>1. Present(files) = files.common
      BY <1>2, <1>5 DEF Present
    <2>2. ASSUME NEW p \in 1..N
          PROVE  Total(Rows(p, files, Len(File(p, files)), F))
                   = Total([i \in 1..Len(files.common) |->
                        IF (i % N) + 1 = p THEN F[files.common[i]] ELSE 0])
      <3>1. /\ File(p, files) = files.common
            /\ \A i : Mine(p, files, i) <=> (i % N) + 1 = p
        BY <1>5 DEF File, IsDiv, Mine
      <3>2. Rows(p, files, Len(File(p, files)), F)
              = [i \in 1..Len(files.common) |->
                   IF (i % N) + 1 = p THEN F[files.common[i]] ELSE 0]
        <4>1. PICK c : c = files.common
          OBVIOUS
        <4>2. Rows(p, files, Len(File(p, files)), F)
                = [i \in 1..Len(c) |->
                     IF Mine(p, files, i) THEN F[c[i]] ELSE 0]
          BY <1>2, <1>3, <3>1, <4>1
        <4>3. \A i \in 1..Len(c) :
                (IF Mine(p, files, i) THEN F[c[i]] ELSE 0)
                  = IF (i % N) + 1 = p THEN F[c[i]] ELSE 0
          BY <3>1
        <4>4. [i \in 1..Len(c) |-> IF Mine(p, files, i) THEN F[c[i]] ELSE 0]
                = [i \in 1..Len(c) |-> IF (i % N) + 1 = p THEN F[c[i]] ELSE 0]
          BY <4>3
        <4> QED
          BY <4>1, <4>2, <4>4
      <3> QED
        BY <3>2
    <2>3. [p \in 1..N |-> Total(Rows(p, files, Len(File(p, files)), F))]
            = [p \in 1..N |-> Total([i \in 1..Len(files.common) |->
                 IF (i % N) + 1 = p THEN F[files.common[i]] ELSE 0])]
      BY <2>2
    <2> QED
      BY <1>1, <2>1, <2>3, KeptOnce
  <1> QED
    BY <1>4, <1>5 DEF Consistent

\* All records are those of the lines there are.
LEMMA SameRecordsLoaded ==
  ASSUME NEW files \in OrderFiles \cup PartFiles, Consistent(files),
         NEW L, DOMAIN L = Text, NEW rs, rs = [p \in Procs |-> rs[p]],
         \A p \in Procs : Taken(p, files, Len(File(p, files)), rs[p], L)
  PROVE  Multiplicity(FlattenSeq(rs))
           = Multiplicity([i \in DOMAIN Present(files) |-> L[Present(files)[i]]])
  <1>1. N \in Nat \ {0} /\ Procs = 1..N
    BY NAssumption DEF Procs
  <1>2. PICK R : R = Range(L)
    OBVIOUS
  <1>3. rs \in [1..N -> Seq(R)]
    BY <1>1, <1>2 DEF Taken
  <1>4. PICK lines \in Seq(Text) : lines = Present(files)
    <2>1. PICK F : F = [l \in Text |-> 0]
      OBVIOUS
    <2>2. F \in [Text -> Nat]
      BY <2>1
    <2> QED
      BY <2>2, AllTaken
  <1>5. PICK t : t = [i \in DOMAIN lines |-> L[lines[i]]]
    OBVIOUS
  <1>6. DOMAIN lines = 1..Len(lines) /\ Len(lines) \in Nat
        /\ \A i \in 1..Len(lines) : lines[i] \in Text
    BY SeqIs
  <1>7. t \in Seq(R)
    <2>1. \A i \in 1..Len(lines) : L[lines[i]] \in R
      BY <1>2, <1>6 DEF Range
    <2> QED
      BY <1>5, <1>6, <2>1
  <1>8. FlattenSeq(rs) \in Seq(R)
    <2>1. PICK G : G = [r \in R |-> 0]
      OBVIOUS
    <2>2. G \in [R -> Nat]
      BY <2>1
    <2>3. PICK w : w = [p \in 1..N |-> Weight(rs[p], G)]
      OBVIOUS
    <2>4. \A p \in 1..N : rs[p] \in Seq(R)
      BY <1>3
    <2>5. \A p \in 1..N : Weight(rs[p], G) \in Nat
      BY <2>2, <2>4, WeightIs
    <2>6. w \in [1..N -> Nat] /\ \A p \in 1..N : w[p] = Weight(rs[p], G)
      BY <2>3, <2>5
    <2>7. Weighed(rs, N, R, G, w)
      BY <1>1, <1>3, <2>2, <2>6 DEF Weighed
    <2> QED
      BY <2>7, WeightFlatten
  <1>9. ASSUME NEW G \in [R -> Nat]
        PROVE  Weight(FlattenSeq(rs), G) = Weight(t, G)
    <2>1. PICK F \in [Text -> Nat] : F = Through(G, L)
      BY <1>2, ThroughType
    <2>2. PICK w : w = [p \in 1..N |-> Weight(rs[p], G)]
      OBVIOUS
    <2>3. \A p \in 1..N :
            Weight(rs[p], G) = Total(Rows(p, files, Len(File(p, files)), F))
      BY <1>1, <1>2, <2>1 DEF Taken
    <2>4. w = [p \in 1..N |-> Total(Rows(p, files, Len(File(p, files)), F))]
      BY <2>2, <2>3
    <2>5. Weight(FlattenSeq(rs), G) = Weight(lines, F)
      <3>1. Weight(FlattenSeq(rs), G) = Total(w)
        <4>1. \A p \in 1..N : rs[p] \in Seq(R)
          BY <1>3
        <4>2. \A p \in 1..N : Weight(rs[p], G) \in Nat
          BY <4>1, WeightIs
        <4>3. w \in [1..N -> Nat] /\ \A p \in 1..N : w[p] = Weight(rs[p], G)
          BY <2>2, <4>2
        <4>4. Weighed(rs, N, R, G, w)
          BY <1>1, <1>3, <4>3 DEF Weighed
        <4> QED
          BY <4>4, WeightFlatten
      <3>2. Total(w) = Weight(lines, F)
        BY <1>4, <2>4, AllTaken
      <3> QED
        BY <3>1, <3>2
    <2>6. DOMAIN t = DOMAIN lines /\ \A i \in DOMAIN lines : G[t[i]] = F[lines[i]]
      BY <1>5, <1>6, <2>1 DEF Through
    <2>7. [i \in DOMAIN t |-> G[t[i]]] = [i \in DOMAIN lines |-> F[lines[i]]]
      BY <2>6
    <2> QED
      BY <2>5, <2>7 DEF Weight
  <1>10. Multiplicity(FlattenSeq(rs)) = Multiplicity(t)
    BY <1>7, <1>8, <1>9, SameMultiplicity
  <1> QED
    BY <1>4, <1>5, <1>10

\* When all instances have loaded, their records are those of the lines of the
\* files there are, each line once: dataReader, with every instance taking
\* cnt % totalProgramCount + 1 == index, or its own file.
THEOREM LinesArePartitioned == Spec => []LinesPartitioned
  <1>1. ReadInv => LinesPartitioned
    <2> SUFFICES ASSUME ReadInv, Loaded, Consistent(orderFiles), Consistent(partFiles)
                 PROVE  /\ SameRecords(orders, Present(orderFiles), LoadOrder)
                        /\ SameRecords(parts, Present(partFiles), LoadPart)
      BY DEF LinesPartitioned
    <2>1. /\ orderFiles \in OrderFiles \cup PartFiles
          /\ partFiles \in OrderFiles \cup PartFiles
          /\ orders = [p \in Procs |-> orders[p]]
          /\ parts = [p \in Procs |-> parts[p]]
      BY DEF ReadInv, LoadType
    <2>2. ASSUME NEW p \in Procs
          PROVE  /\ Taken(p, orderFiles, Len(File(p, orderFiles)), orders[p], OrderOf)
                 /\ Taken(p, partFiles, Len(File(p, partFiles)), parts[p], PartOf)
      <3>1. loading[p] = "nothing"
        BY DEF Loaded
      <3>2. /\ OrdersRead(p) = Len(File(p, orderFiles))
            /\ PartsRead(p) = Len(File(p, partFiles))
        BY <3>1 DEF OrdersRead, PartsRead
      <3> QED
        BY <3>2 DEF ReadInv, OrdersTaken, PartsTaken
    <2>3. DOMAIN OrderOf = Text /\ DOMAIN PartOf = Text
      BY DEF OrderOf, PartOf
    <2>4. Multiplicity(FlattenSeq(orders))
            = Multiplicity([i \in DOMAIN Present(orderFiles) |->
                              OrderOf[Present(orderFiles)[i]]])
      BY <2>1, <2>2, <2>3, SameRecordsLoaded
    <2>5. Multiplicity(FlattenSeq(parts))
            = Multiplicity([i \in DOMAIN Present(partFiles) |->
                              PartOf[Present(partFiles)[i]]])
      BY <2>1, <2>2, <2>3, SameRecordsLoaded
    <2>6. ASSUME NEW files \in {orderFiles, partFiles}
          PROVE  /\ [i \in DOMAIN Present(files) |-> OrderOf[Present(files)[i]]]
                      = [i \in DOMAIN Present(files) |->
                           LoadOrder(Present(files)[i])]
                 /\ [i \in DOMAIN Present(files) |-> PartOf[Present(files)[i]]]
                      = [i \in DOMAIN Present(files) |->
                           LoadPart(Present(files)[i])]
      <3>1. PICK F : F = [l \in Text |-> 0]
        OBVIOUS
      <3>2. F \in [Text -> Nat]
        BY <3>1
      <3>3. Present(files) \in Seq(Text)
        BY <2>1, <3>2, AllTaken
      <3>4. \A i \in DOMAIN Present(files) : Present(files)[i] \in Text
        BY <3>3, SeqIs
      <3> QED
        BY <3>4 DEF OrderOf, PartOf
    <2> QED
      BY <2>4, <2>5, <2>6 DEF SameRecords
  <1> QED
    BY <1>1, AlwaysRead, PTL
===============================================================================
