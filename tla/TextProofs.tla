----------------------------- MODULE TextProofs -----------------------------
(***************************************************************************)
(* What the operations on texts do, for every text: FlattenSeq and Concat, *)
(* find and substr, the printing of a tree in the blocks allocated for it  *)
(* and the reading of what is printed, UrlEncode and UrlDecode.            *)
(*                                                                         *)
(* FlattenSeq, the folds, Printed, ParseString and Parse are or use        *)
(* recursive functions, each chosen to satisfy its equation.  That there   *)
(* is such a function is proved first, by induction on a bound (UpTo) or   *)
(* level by level; then the equation holds of the one that is chosen, and  *)
(* what it computes follows in the same way.                               *)
(***************************************************************************)
EXTENDS TaskManager, UrlCode, SequenceTheorems, WellFoundedInduction, TLAPS

\* A set of positions that is not empty has a least one, which Min chooses.
LEMMA MinOfNats ==
  ASSUME NEW S \in SUBSET Nat, S # {}
  PROVE  Min(S) \in S /\ \A i \in S : Min(S) <= i
  <1> DEFINE Less == {ss \in Nat \X Nat : ss[1] < ss[2]}
  <1>1. IsWellFoundedOn(Less, Nat)
    BY NatLessThanWellFounded, Zenon DEF OpToRel
  <1>2. PICK m \in S : \A i \in S : ~(<<i, m>> \in Less)
    BY <1>1, WFMin
  <1>3. ASSUME NEW i \in S
        PROVE  m <= i
    <2>1. <<i, m>> \in Nat \X Nat /\ <<i, m>>[1] = i /\ <<i, m>>[2] = m
      OBVIOUS
    <2>2. ~(<<i, m>>[1] < <<i, m>>[2])
      BY <1>2, <2>1, Zenon
    <2>3. ~(i < m) /\ i \in Nat /\ m \in Nat
      BY <2>1, <2>2, Zenon
    <2> QED
      BY <2>3
  <1> QED
    BY <1>3 DEF Min

\* Induction, for a set: what holds of 0, and of every n + 1 if it holds of n.
LEMMA NatSet ==
  ASSUME NEW S, 0 \in S, \A n \in Nat : n \in S => n + 1 \in S
  PROVE  \A n \in Nat : n \in S
  <1> SUFFICES ASSUME Nat \ S # {} PROVE FALSE
    OBVIOUS
  <1> DEFINE m == Min(Nat \ S)
  <1>1. m \in Nat /\ m \notin S /\ \A i \in Nat \ S : m <= i
    BY MinOfNats
  <1> HIDE DEF m
  <1>2. m - 1 \in Nat /\ m - 1 \in S
    BY <1>1
  <1> QED
    BY <1>1, <1>2

\* The same up to a bound.
LEMMA UpTo ==
  ASSUME NEW S, NEW m \in Nat, 0 \in S,
         \A n \in 0 .. m - 1 : n \in S => n + 1 \in S
  PROVE  \A n \in 0 .. m : n \in S
  <1> DEFINE T == {n \in Nat : n <= m => n \in S}
  <1>1. 0 \in T
    OBVIOUS
  <1>2. \A n \in Nat : n \in T => n + 1 \in T
    OBVIOUS
  <1>3. \A n \in Nat : n \in T
    <2> HIDE DEF T
    <2> QED
      BY <1>1, <1>2, NatSet
  <1> QED
    BY <1>3
------------------------------------------------------------------------------
\* f[i] is what the first i texts of seqs make together.
Flattens(f, seqs, S) ==
  /\ f \in [0 .. Len(seqs) -> Seq(S)]
  /\ f[0] = <<>>
  /\ \A i \in 0 .. Len(seqs) - 1 : f[i + 1] = f[i] \o seqs[i + 1]
  /\ f[Len(seqs)] = FlattenSeq(seqs)

\* g solves the equation of the recursive function in FlattenSeq.
Recurses(g, seqs, n, S) ==
  /\ g \in [1 .. n -> Seq(S)]
  /\ \A i \in 1 .. n : g[i] = IF i = 1 THEN seqs[i] ELSE g[i - 1] \o seqs[i]

\* The recursive function in FlattenSeq exists: each of its values is determined
\* by the one before.
LEMMA FlattenExists ==
  ASSUME NEW S, NEW seqs \in Seq(Seq(S)), NEW n \in Nat, n = Len(seqs)
  PROVE  \E g : Recurses(g, seqs, n, S)
  <1> DEFINE Has(m, g) ==
               \A i \in 1 .. m : g[i] = IF i = 1 THEN seqs[i] ELSE g[i - 1] \o seqs[i]
             T == {m \in Nat : \E g \in [1 .. m -> Seq(S)] : Has(m, g)}
  <1>1. \A i \in 1 .. n : seqs[i] \in Seq(S)
    BY ElementOfSeq
  <1>2. 0 \in T
    <2>1. [i \in 1 .. 0 |-> <<>>] \in [1 .. 0 -> Seq(S)] /\ Has(0, [i \in 1 .. 0 |-> <<>>])
      OBVIOUS
    <2> QED
      BY <2>1
  <1>3. ASSUME NEW m \in 0 .. n - 1, m \in T
        PROVE  m + 1 \in T
    <2>1. PICK g \in [1 .. m -> Seq(S)] : Has(m, g)
      BY <1>3
    <2>2. PICK v \in Seq(S) : v = IF m = 0 THEN seqs[1] ELSE g[m] \o seqs[m + 1]
      <3>1. CASE m = 0
        BY <1>1, <3>1
      <3>2. CASE m # 0
        <4>1. g[m] \in Seq(S) /\ seqs[m + 1] \in Seq(S) /\ m \in Nat
          BY <1>1, <2>1, <3>2
        <4>2. g[m] \o seqs[m + 1] \in Seq(S)
          BY <4>1, ConcatProperties
        <4> QED
          BY <3>2, <4>2
      <3> QED
        BY <3>1, <3>2
    <2> DEFINE h == [i \in 1 .. m + 1 |-> IF i = m + 1 THEN v ELSE g[i]]
    <2>3. h \in [1 .. m + 1 -> Seq(S)]
      BY <2>1, <2>2
    <2>4. h[m + 1] = v /\ \A i \in 1 .. m : h[i] = g[i]
      OBVIOUS
    <2> HIDE DEF h
    <2>5. ASSUME NEW i \in 1 .. m + 1
          PROVE  h[i] = IF i = 1 THEN seqs[i] ELSE h[i - 1] \o seqs[i]
      <3>1. CASE i = m + 1 /\ i = 1
        BY <2>2, <2>4, <3>1
      <3>2. CASE i = m + 1 /\ i # 1
        <4>1. i - 1 \in 1 .. m /\ i - 1 = m /\ m # 0
          BY <3>2
        <4> QED
          BY <2>2, <2>4, <3>2, <4>1
      <3>3. CASE i # m + 1
        <4>1. i \in 1 .. m /\ (i # 1 => i - 1 \in 1 .. m)
          BY <3>3
        <4> QED
          BY <2>1, <2>4, <4>1
      <3> QED
        BY <3>1, <3>2, <3>3
    <2>6. Has(m + 1, h)
      BY <2>5
    <2>7. m + 1 \in Nat
      OBVIOUS
    <2> QED
      BY <2>3, <2>6, <2>7
  <1>4. n \in T
    <2> HIDE DEF T
    <2>1. \A m \in 0 .. n : m \in T
      BY <1>2, <1>3, UpTo
    <2> QED
      BY <2>1
  <1> QED
    BY <1>4 DEF Recurses

\* What FlattenSeq returns is what the texts make, one after the other.
LEMMA FlattenStep ==
  ASSUME NEW S, NEW seqs \in Seq(Seq(S))
  PROVE  \E f : Flattens(f, seqs, S)
  <1>1. Len(seqs) \in Nat /\ \A i \in 1 .. Len(seqs) : seqs[i] \in Seq(S)
    BY LenProperties, ElementOfSeq
  <1> DEFINE n == Len(seqs)
  <1>2. CASE n = 0
    <2>1. seqs = <<>> /\ FlattenSeq(seqs) = seqs
      BY <1>2, EmptySeq DEF FlattenSeq
    <2>2. Flattens([i \in 0 .. 0 |-> <<>>], seqs, S)
      BY <1>2, <2>1, EmptySeq DEF Flattens
    <2> QED
      BY <2>2
  <1>3. CASE n # 0
    <2> DEFINE Eq(g) == g = [i \in 1 .. n |-> IF i = 1 THEN seqs[i] ELSE g[i - 1] \o seqs[i]]
               F == CHOOSE g : Eq(g)
    <2>1. PICK g : Recurses(g, seqs, n, S)
      <3> HIDE DEF n
      <3>1. n \in Nat /\ n = Len(seqs)
        BY <1>1 DEF n
      <3> QED
        BY <3>1, FlattenExists
    <2>2. Eq(g)
      <3> HIDE DEF n
      <3>1. g = [i \in 1 .. n |-> g[i]]
        BY <2>1 DEF Recurses
      <3> QED
        BY <2>1, <3>1 DEF Recurses
    <2>3. Eq(F)
      <3> HIDE DEF Eq
      <3> QED
        BY <2>2
    <2>4. FlattenSeq(seqs) = F[n]
      BY <1>3 DEF FlattenSeq
    <2>5. \A i \in 1 .. n : F[i] = IF i = 1 THEN seqs[i] ELSE F[i - 1] \o seqs[i]
      <3> HIDE DEF F, n
      <3> QED
        BY <2>3, Zenon
    <2> HIDE DEF F, Eq, n
    <2>6. n \in Nat
      BY <1>1 DEF n
    <2> DEFINE U == {m \in Nat : m \in 1 .. n => F[m] \in Seq(S)}
    <2>7. 0 \in U
      OBVIOUS
    <2>8. ASSUME NEW m \in Nat, m \in U
          PROVE  m + 1 \in U
      <3> SUFFICES ASSUME m + 1 \in 1 .. n
                   PROVE  F[m + 1] \in Seq(S)
        OBVIOUS
      <3>1. seqs[m + 1] \in Seq(S) /\ (m + 1) - 1 = m
        BY <1>1 DEF n
      <3>2. CASE m = 0
        BY <2>5, <3>1, <3>2
      <3>3. CASE m # 0
        <4>1. F[m] \in Seq(S)
          BY <2>6, <2>8, <3>3
        <4>2. F[m] \o seqs[m + 1] \in Seq(S)
          BY <3>1, <4>1, ConcatProperties
        <4>3. m + 1 # 1
          BY <3>3
        <4>4. F[m + 1] = F[(m + 1) - 1] \o seqs[m + 1]
          BY <2>5, <4>3
        <4> QED
          BY <3>1, <4>2, <4>4
      <3> QED
        BY <3>2, <3>3
    <2>9. \A m \in Nat : m \in U
      <3> HIDE DEF U
      <3> QED
        BY <2>7, <2>8, NatSet
    <2> DEFINE f == [i \in 0 .. n |-> IF i = 0 THEN <<>> ELSE F[i]]
    <2>10. f \in [0 .. n -> Seq(S)]
      BY <2>6, <2>9, EmptySeq
    <2>11. f[0] = <<>> /\ \A i \in 1 .. n : f[i] = F[i]
      BY <2>6
    <2> HIDE DEF f, U
    <2>12. \A i \in 0 .. n - 1 : f[i + 1] = f[i] \o seqs[i + 1]
      <3> SUFFICES ASSUME NEW i \in 0 .. n - 1
                   PROVE  f[i + 1] = f[i] \o seqs[i + 1]
        OBVIOUS
      <3>1. i + 1 \in 1 .. n /\ seqs[i + 1] \in Seq(S)
        BY <1>1, <2>6 DEF n
      <3>2. f[i + 1] = F[i + 1]
        BY <2>11, <3>1
      <3>3. CASE i = 0
        <4>1. F[i + 1] = seqs[i + 1] /\ f[i] = <<>>
          BY <2>5, <2>11, <3>1, <3>3
        <4> QED
          BY <3>1, <3>2, <4>1, ConcatEmptySeq
      <3>4. CASE i # 0
        <4>1. i \in 1 .. n /\ i + 1 # 1 /\ (i + 1) - 1 = i
          BY <2>6, <3>4
        <4>2. F[i + 1] = F[(i + 1) - 1] \o seqs[i + 1]
          BY <2>5, <3>1, <4>1
        <4>3. f[i] = F[i]
          BY <2>11, <4>1
        <4> QED
          BY <3>2, <4>1, <4>2, <4>3
      <3> QED
        BY <3>3, <3>4
    <2>13. f[n] = FlattenSeq(seqs)
      <3>1. n \in 1 .. n
        BY <1>3, <2>6 DEF n
      <3> QED
        BY <2>4, <2>11, <3>1 DEF n
    <2> QED
      BY <2>10, <2>11, <2>12, <2>13 DEF Flattens, n
  <1> QED
    BY <1>2, <1>3

\* FlattenSeq makes a text of texts.
LEMMA FlattenType ==
  ASSUME NEW S, NEW seqs \in Seq(Seq(S))
  PROVE  FlattenSeq(seqs) \in Seq(S)
  <1>1. PICK f : Flattens(f, seqs, S)
    BY FlattenStep
  <1>2. Len(seqs) \in 0 .. Len(seqs)
    BY LenProperties
  <1> QED
    BY <1>1, <1>2 DEF Flattens

\* Of no texts it makes the empty one.
LEMMA FlattenEmpty == FlattenSeq(<<>>) = <<>>
  BY EmptySeq DEF FlattenSeq

\* What the first k texts make depends on nothing else.
LEMMA FlattenUnique ==
  ASSUME NEW S, NEW s \in Seq(Seq(S)), NEW t \in Seq(Seq(S)), NEW f, NEW g,
         Flattens(f, s, S), Flattens(g, t, S),
         NEW k \in Nat, k <= Len(s), k <= Len(t), \A i \in 1 .. k : s[i] = t[i]
  PROVE  f[k] = g[k]
  <1> DEFINE T == {i \in Nat : f[i] = g[i]}
  <1>1. Len(s) \in Nat /\ Len(t) \in Nat
    BY LenProperties
  <1>2. 0 \in T
    BY DEF Flattens
  <1>3. ASSUME NEW i \in 0 .. k - 1, i \in T
        PROVE  i + 1 \in T
    <2>1. i \in 0 .. Len(s) - 1 /\ i \in 0 .. Len(t) - 1 /\ i + 1 \in 1 .. k /\ i + 1 \in Nat
      BY <1>1
    <2>2. f[i + 1] = f[i] \o s[i + 1] /\ g[i + 1] = g[i] \o t[i + 1]
      BY <2>1 DEF Flattens
    <2>3. s[i + 1] = t[i + 1]
      BY <2>1
    <2> QED
      BY <1>3, <2>1, <2>2, <2>3
  <1>4. \A i \in 0 .. k : i \in T
    <2> HIDE DEF T
    <2> QED
      BY <1>2, <1>3, UpTo
  <1> QED
    BY <1>4

\* The first k texts make what FlattenSeq makes of them.
LEMMA FlattenFirst ==
  ASSUME NEW S, NEW seqs \in Seq(Seq(S)), NEW f, Flattens(f, seqs, S),
         NEW k \in 0 .. Len(seqs)
  PROVE  f[k] = FlattenSeq(SubSeq(seqs, 1, k))
  <1>1. Len(seqs) \in Nat /\ \A i \in 1 .. k : seqs[i] \in Seq(S)
    BY LenProperties, ElementOfSeq
  <1> DEFINE t == SubSeq(seqs, 1, k)
  <1>2. t \in Seq(Seq(S)) /\ Len(t) = k /\ \A i \in 1 .. k : t[i] = seqs[i]
    BY <1>1, SubSeqProperties
  <1> HIDE DEF t
  <1>3. PICK g : Flattens(g, t, S)
    BY <1>2, FlattenStep
  <1>4. f[k] = g[k]
    BY <1>1, <1>2, <1>3, FlattenUnique
  <1> QED
    BY <1>2, <1>3, <1>4 DEF Flattens, t

\* FlattenSeq takes the concatenation of two sequences to that of two texts.
LEMMA FlattenConcat ==
  ASSUME NEW S, NEW s \in Seq(Seq(S)), NEW t \in Seq(Seq(S))
  PROVE  FlattenSeq(s \o t) = FlattenSeq(s) \o FlattenSeq(t)
  <1> DEFINE u == s \o t
             m == Len(s)
             n == Len(t)
  <1>1. m \in Nat /\ n \in Nat
    BY LenProperties
  <1>2. /\ u \in Seq(Seq(S)) /\ Len(u) = m + n
        /\ \A i \in 1 .. m : u[i] = s[i]
        /\ \A i \in 1 .. n : u[m + i] = t[i]
    <2>1. /\ u \in Seq(Seq(S)) /\ Len(u) = m + n
          /\ \A i \in 1 .. m + n : u[i] = IF i <= m THEN s[i] ELSE t[i - m]
      BY ConcatProperties
    <2> HIDE DEF u, m, n
    <2>2. \A i \in 1 .. n : m + i \in 1 .. m + n /\ ~(m + i <= m) /\ (m + i) - m = i
      BY <1>1
    <2> QED
      BY <1>1, <2>1, <2>2
  <1> HIDE DEF u
  <1>3. PICK f : Flattens(f, u, S)
    BY <1>2, FlattenStep
  <1>4. PICK g : Flattens(g, s, S)
    BY FlattenStep
  <1>5. PICK h : Flattens(h, t, S)
    BY FlattenStep
  <1>6. f[m] = FlattenSeq(s) /\ FlattenSeq(s) \in Seq(S)
    <2>1. m <= Len(u) /\ m <= Len(s)
      BY <1>1, <1>2
    <2>2. f[m] = g[m]
      <3>1. /\ m \in Nat /\ m <= Len(u) /\ m <= Len(s) /\ u \in Seq(Seq(S))
            /\ \A i \in 1 .. m : u[i] = s[i]
        BY <1>1, <1>2, <2>1
      <3> HIDE DEF m, n
      <3> QED
        BY <1>3, <1>4, <3>1, FlattenUnique
    <2> QED
      BY <1>4, <2>2, FlattenType DEF Flattens
  <1> HIDE DEF m, n
  <1> DEFINE T == {i \in Nat : f[m + i] = f[m] \o h[i]}
  <1>7. 0 \in T
    BY <1>1, <1>5, <1>6, ConcatEmptySeq DEF Flattens
  <1>8. ASSUME NEW i \in 0 .. n - 1, i \in T
        PROVE  i + 1 \in T
    <2>1. /\ i \in 0 .. n /\ i + 1 \in 1 .. n /\ m + i \in 0 .. (m + n) - 1
          /\ m + (i + 1) = (m + i) + 1
      BY <1>1
    <2>2. f[(m + i) + 1] = f[m + i] \o u[(m + i) + 1]
      BY <1>2, <1>3, <2>1 DEF Flattens
    <2>3. h[i + 1] = h[i] \o t[i + 1] /\ h[i] \in Seq(S)
      BY <1>1, <1>5, <2>1 DEF Flattens, n
    <2>4. t[i + 1] \in Seq(S) /\ f[m] \in Seq(S)
      BY <1>6, <2>1, ElementOfSeq DEF n
    <2>5. u[m + (i + 1)] = t[i + 1]
      BY <1>2, <2>1
    <2>6. (f[m] \o h[i]) \o t[i + 1] = f[m] \o (h[i] \o t[i + 1])
      <3> DEFINE x == f[m]
                 y == h[i]
                 z == t[i + 1]
      <3>1. x \in Seq(S) /\ y \in Seq(S) /\ z \in Seq(S)
        BY <2>3, <2>4
      <3> HIDE DEF x, y, z
      <3>2. (x \o y) \o z = x \o (y \o z)
        BY <3>1, ConcatAssociative
      <3> QED
        BY <3>2 DEF x, y, z
    <2>7. f[m + i] = f[m] \o h[i]
      BY <1>8
    <2>8. f[m + (i + 1)] = f[m] \o h[i + 1]
      <3>1. f[m + (i + 1)] = f[m + i] \o u[m + (i + 1)]
        BY <2>1, <2>2
      <3> QED
        BY <2>3, <2>5, <2>6, <2>7, <3>1, Zenon
    <2> QED
      <3>1. i + 1 \in Nat
        BY <2>1
      <3> QED
        BY <2>8, <3>1, Zenon
  <1>9. \A i \in 0 .. n : i \in T
    <2> HIDE DEF T
    <2> QED
      BY <1>1, <1>7, <1>8, UpTo
  <1>10. f[m + n] = f[m] \o h[n]
    <2>1. n \in T
      <3> HIDE DEF T
      <3> QED
        BY <1>1, <1>9
    <2> QED
      BY <2>1
  <1> QED
    BY <1>2, <1>3, <1>5, <1>6, <1>10 DEF Flattens, n, u

\* One text makes itself.
LEMMA FlattenOne ==
  ASSUME NEW S, NEW s \in Seq(S)
  PROVE  <<s>> \in Seq(Seq(S)) /\ FlattenSeq(<<s>>) = s
  <1>1. <<s>> \in Seq(Seq(S)) /\ Len(<<s>>) = 1 /\ <<s>>[1] = s
    OBVIOUS
  <1>2. PICK f : Flattens(f, <<s>>, S)
    BY <1>1, FlattenStep
  <1>3. f[1] = <<>> \o s
    <2>1. f[0 + 1] = f[0] \o <<s>>[0 + 1] /\ f[0] = <<>>
      <3>1. 0 \in 0 .. Len(<<s>>) - 1
        BY <1>1
      <3> QED
        BY <1>2, <3>1, Zenon DEF Flattens
    <2> QED
      BY <1>1, <2>1
  <1> QED
    BY <1>1, <1>2, <1>3, ConcatEmptySeq DEF Flattens

\* Concat, chunk by chunk, is FlattenSeq.
LEMMA ConcatFlattens ==
  ASSUME NEW S, NEW seqs \in Seq(Seq(S))
  PROVE  Concat(seqs) = FlattenSeq(seqs)
  <1> DEFINE n == Len(seqs)
             K == (n + ChunkSize - 1) \div ChunkSize
             chunks == [k \in 1 .. K |-> FlattenSeq(Chunk(seqs, k))]
             End(k) == IF k * ChunkSize <= n THEN k * ChunkSize ELSE n
  <1>1. n \in Nat /\ \A i \in 1 .. n : seqs[i] \in Seq(S)
    BY LenProperties, ElementOfSeq
  <1>2. K \in Nat /\ (\A k \in 1 .. K : (k - 1) * ChunkSize <= n) /\ n <= K * ChunkSize
    <2> HIDE DEF n
    <2> QED
      BY <1>1 DEF ChunkSize
  <1> HIDE DEF n, K
  <1>3. ASSUME NEW k \in 1 .. K
        PROVE  /\ End(k) \in (k - 1) * ChunkSize .. n
               /\ Chunk(seqs, k) = SubSeq(seqs, (k - 1) * ChunkSize + 1, End(k))
               /\ Chunk(seqs, k) \in Seq(Seq(S))
    <2>1. k \in Nat /\ k * ChunkSize \in Nat /\ (k - 1) * ChunkSize \in Nat /\ End(k) \in Nat
          /\ (k - 1) * ChunkSize <= k * ChunkSize
      BY <1>1, <1>2 DEF ChunkSize
    <2>2. Min({k * ChunkSize, n}) = End(k)
      <3>1. {k * ChunkSize, n} \in SUBSET Nat /\ {k * ChunkSize, n} # {}
        BY <1>1, <2>1
      <3>2. /\ Min({k * ChunkSize, n}) \in {k * ChunkSize, n}
            /\ \A i \in {k * ChunkSize, n} : Min({k * ChunkSize, n}) <= i
        BY <3>1, MinOfNats
      <3> HIDE DEF End
      <3> QED
        BY <1>1, <2>1, <3>2 DEF End
    <2>3. End(k) \in (k - 1) * ChunkSize .. n
      BY <1>1, <1>2, <2>1
    <2>4. Chunk(seqs, k) = SubSeq(seqs, (k - 1) * ChunkSize + 1, End(k))
      BY <2>2, Zenon DEF Chunk, n
    <2> HIDE DEF End
    <2>5. \A i \in (k - 1) * ChunkSize + 1 .. End(k) : seqs[i] \in Seq(S)
      BY <1>1, <2>1, <2>3
    <2>6. (k - 1) * ChunkSize + 1 \in Int /\ End(k) \in Int
      BY <2>1
    <2>7. SubSeq(seqs, (k - 1) * ChunkSize + 1, End(k)) \in Seq(Seq(S))
      BY <2>5, <2>6, SubSeqProperties
    <2> QED
      BY <2>3, <2>4, <2>7
  <1>4. chunks \in Seq(Seq(S)) /\ Len(chunks) = K
    <2>1. \A k \in 1 .. K : FlattenSeq(Chunk(seqs, k)) \in Seq(S)
      BY <1>3, FlattenType
    <2> QED
      BY <1>2, <2>1
  <1>5. Concat(seqs) = FlattenSeq(chunks)
    BY Zenon DEF Concat, n, K
  <1>6. PICK f : Flattens(f, seqs, S)
    BY FlattenStep
  <1>7. PICK h : Flattens(h, chunks, S)
    <2> HIDE DEF chunks
    <2> QED
      BY <1>4, FlattenStep
  <1> DEFINE T == {k \in Nat : h[k] = f[End(k)]}
  <1>8. 0 \in T
    BY <1>1, <1>6, <1>7 DEF Flattens, ChunkSize
  <1>9. ASSUME NEW k \in 0 .. K - 1, k \in T
        PROVE  k + 1 \in T
    <2>1. k \in Nat /\ k + 1 \in 1 .. K /\ (k + 1) - 1 = k
      BY <1>2
    <2> DEFINE a == k * ChunkSize
               b == End(k + 1)
    <2>2. a \in Nat /\ b \in a .. n /\ End(k) = a
      <3>1. End(k + 1) \in ((k + 1) - 1) * ChunkSize .. n
        BY <1>3, <2>1
      <3>2. End(k + 1) \in a .. n
        BY <2>1, <3>1
      <3>3. a \in Nat /\ a <= n
        <4> HIDE DEF End
        <4> QED
          BY <1>1, <2>1, <3>2 DEF ChunkSize
      <3> QED
        BY <3>2, <3>3
    <2>3. /\ chunks[k + 1] = FlattenSeq(SubSeq(seqs, a + 1, b))
          /\ SubSeq(seqs, a + 1, b) \in Seq(Seq(S))
      <3>1. Chunk(seqs, k + 1) = SubSeq(seqs, ((k + 1) - 1) * ChunkSize + 1, b)
            /\ Chunk(seqs, k + 1) \in Seq(Seq(S))
        BY <1>3, <2>1
      <3> HIDE DEF b
      <3> QED
        BY <2>1, <3>1
    <2>4. h[k + 1] = h[k] \o chunks[k + 1]
      <3> HIDE DEF chunks
      <3> QED
        BY <1>4, <1>7, <2>1 DEF Flattens
    <2> HIDE DEF a, b, chunks, End
    <2>5. f[a] = FlattenSeq(SubSeq(seqs, 1, a)) /\ f[b] = FlattenSeq(SubSeq(seqs, 1, b))
      BY <1>1, <1>6, <2>2, FlattenFirst DEF n
    <2>6. SubSeq(seqs, 1, a) \in Seq(Seq(S))
      BY <1>1, <2>2, SubSeqProperties
    <2>7. SubSeq(seqs, 1, a) \o SubSeq(seqs, a + 1, b) = SubSeq(seqs, 1, b)
      <3>1. 1 \in 1 .. Len(seqs) + 1 /\ a \in 1 - 1 .. Len(seqs) /\ b \in a .. Len(seqs)
        BY <1>1, <2>2 DEF n
      <3> QED
        BY <3>1, ConcatAdjacentSubSeq
    <2>8. h[k] = f[a]
      BY <1>9, <2>2
    <2>9. FlattenSeq(SubSeq(seqs, 1, b)) =
            FlattenSeq(SubSeq(seqs, 1, a)) \o FlattenSeq(SubSeq(seqs, a + 1, b))
      BY <2>3, <2>6, <2>7, FlattenConcat, Zenon
    <2>10. h[k + 1] = f[b]
      BY <2>3, <2>4, <2>5, <2>8, <2>9, Zenon
    <2> QED
      BY <2>1, <2>10 DEF b
  <1>10. \A k \in 0 .. K : k \in T
    <2> HIDE DEF T
    <2> QED
      BY <1>2, <1>8, <1>9, UpTo
  <1>11. h[K] = f[End(K)] /\ End(K) = n
    BY <1>1, <1>2, <1>10 DEF ChunkSize
  <1> HIDE DEF chunks, End
  <1> QED
    BY <1>4, <1>5, <1>6, <1>7, <1>11 DEF Flattens, n

\* The concatenation of two sequences, element by element.
LEMMA ConcatIndex ==
  ASSUME NEW S, NEW s \in Seq(S), NEW t \in Seq(S)
  PROVE  /\ s \o t \in Seq(S) /\ Len(s \o t) = Len(s) + Len(t)
         /\ Len(s) \in Nat /\ Len(t) \in Nat
         /\ \A i \in 1 .. Len(s) : (s \o t)[i] = s[i]
         /\ \A i \in 1 .. Len(t) : (s \o t)[Len(s) + i] = t[i]
  <1> DEFINE u == s \o t
             m == Len(s)
             n == Len(t)
  <1>1. m \in Nat /\ n \in Nat
    BY LenProperties
  <1>2. /\ u \in Seq(S) /\ Len(u) = m + n
        /\ \A i \in 1 .. m + n : u[i] = IF i <= m THEN s[i] ELSE t[i - m]
    BY ConcatProperties
  <1> HIDE DEF u, m, n
  <1>3. \A i \in 1 .. n : m + i \in 1 .. m + n /\ ~(m + i <= m) /\ (m + i) - m = i
    BY <1>1
  <1>4. \A i \in 1 .. m : i \in 1 .. m + n /\ i <= m
    BY <1>1
  <1>5. /\ \A i \in 1 .. m : u[i] = s[i]
        /\ \A i \in 1 .. n : u[m + i] = t[i]
    BY <1>2, <1>3, <1>4
  <1> QED
    BY <1>1, <1>2, <1>5 DEF u, m, n

\* The same of sequences of texts.
LEMMA ConcatTexts ==
  ASSUME NEW S, NEW s \in Seq(Seq(S)), NEW t \in Seq(Seq(S))
  PROVE  /\ s \o t \in Seq(Seq(S)) /\ Len(s \o t) = Len(s) + Len(t)
         /\ Len(s) \in Nat /\ Len(t) \in Nat
         /\ \A i \in 1 .. Len(s) : (s \o t)[i] = s[i]
         /\ \A i \in 1 .. Len(t) : (s \o t)[Len(s) + i] = t[i]
  <1> DEFINE R == Seq(S)
  <1>1. s \in Seq(R) /\ t \in Seq(R)
    OBVIOUS
  <1> HIDE DEF R
  <1>2. /\ s \o t \in Seq(R) /\ Len(s \o t) = Len(s) + Len(t)
        /\ Len(s) \in Nat /\ Len(t) \in Nat
        /\ \A i \in 1 .. Len(s) : (s \o t)[i] = s[i]
        /\ \A i \in 1 .. Len(t) : (s \o t)[Len(s) + i] = t[i]
    BY <1>1, ConcatIndex
  <1> QED
    BY <1>2 DEF R

\* Two texts make their concatenation.
LEMMA FlattenTwo ==
  ASSUME NEW S, NEW a \in Seq(S), NEW b \in Seq(S)
  PROVE  <<a, b>> \in Seq(Seq(S)) /\ FlattenSeq(<<a, b>>) = a \o b
  <1>1. <<a>> \in Seq(Seq(S)) /\ <<b>> \in Seq(Seq(S)) 
    OBVIOUS
  <1>5. <<a>> \o <<b>> = <<a, b>>
    <2> DEFINE u == <<a>>
               v == <<b>>
               x == <<a, b>>
    <2>1. u \in Seq(Seq(S)) /\ v \in Seq(Seq(S)) /\ x \in Seq(Seq(S))
      OBVIOUS
    <2>6. Len(u) = 1 /\ Len(v) = 1 /\ Len(x) = 2 /\ u[1] = a /\ v[1] = b /\ x[1] = a /\ x[2] = b
      OBVIOUS
    <2> HIDE DEF u, v, x
    <2>2. /\ u \o v \in Seq(Seq(S)) /\ Len(u \o v) = Len(u) + Len(v)
          /\ \A i \in 1 .. Len(u) : (u \o v)[i] = u[i]
          /\ \A i \in 1 .. Len(v) : (u \o v)[Len(u) + i] = v[i]
      BY <2>1, ConcatTexts
    <2> DEFINE y == u \o v
    <2>3. y \in Seq(Seq(S)) /\ Len(y) = 2 /\ y[1] = a /\ y[2] = b
      BY <2>2, <2>6
    <2> HIDE DEF y
    <2>4. \A i \in 1 .. 2 : y[i] = x[i]
      BY <2>3, <2>6
    <2>7. y \in Seq(Seq(S)) /\ Len(y) = Len(x) /\ \A i \in 1 .. Len(y) : y[i] = x[i]
      BY <2>3, <2>4, <2>6
    <2>5. y = x
      BY <2>1, <2>7, SeqEqual
    <2> QED
      BY <2>5 DEF u, v, x, y
  <1>4. FlattenSeq(<<a>>) = a /\ FlattenSeq(<<b>>) = b
    BY FlattenOne
  <1>2. FlattenSeq(<<a>> \o <<b>>) = FlattenSeq(<<a>>) \o FlattenSeq(<<b>>)
    BY <1>1, FlattenConcat
  <1>3. <<a, b>> \in Seq(Seq(S))
    OBVIOUS
  <1> QED
    BY <1>1, <1>2, <1>3, <1>4, <1>5, Zenon

\* FlattenSeq begins with the first text.
LEMMA FlattenHead ==
  ASSUME NEW S, NEW seqs \in Seq(Seq(S)), seqs # <<>>
  PROVE  /\ seqs[1] \in Seq(S) /\ Tail(seqs) \in Seq(Seq(S))
         /\ FlattenSeq(seqs) = seqs[1] \o FlattenSeq(Tail(seqs))
  <1>1. Len(seqs) \in Nat \ {0}
    BY EmptySeq
  <1>2. seqs[1] \in Seq(S) /\ Tail(seqs) = SubSeq(seqs, 2, Len(seqs)) /\ Tail(seqs) \in Seq(Seq(S))
    BY <1>1, ElementOfSeq, HeadTailProperties, TailIsSubSeq
  <1>3. seqs = <<seqs[1]>> \o Tail(seqs)
    <2>1. 1 \in 1 .. Len(seqs) /\ Len(seqs) \in 1 .. Len(seqs)
      BY <1>1
    <2>2. SubSeq(seqs, 1, Len(seqs)) = <<seqs[1]>> \o SubSeq(seqs, 1 + 1, Len(seqs))
      BY <2>1, SubSeqRecursiveFirst
    <2>3. SubSeq(seqs, 1, Len(seqs)) = seqs
      BY SubSeqFull
    <2> QED
      BY <1>2, <2>2, <2>3
  <1>4. <<seqs[1]>> \in Seq(Seq(S)) /\ FlattenSeq(<<seqs[1]>>) = seqs[1]
    BY <1>2, FlattenOne
  <1> DEFINE a == <<seqs[1]>>
             b == Tail(seqs)
  <1>5. a \in Seq(Seq(S)) /\ b \in Seq(Seq(S)) /\ seqs = a \o b
    BY <1>2, <1>3, <1>4
  <1> HIDE DEF a, b
  <1>6. FlattenSeq(seqs) = FlattenSeq(a) \o FlattenSeq(b)
    BY <1>5, FlattenConcat
  <1> QED
    BY <1>2, <1>4, <1>6 DEF a, b

\* What concatenation keeps, FlattenSeq keeps.
LEMMA FlattenKeeps ==
  ASSUME NEW S, NEW P \in SUBSET Seq(S), <<>> \in P, \A s, t \in P : s \o t \in P,
         NEW seqs \in Seq(P)
  PROVE  FlattenSeq(seqs) \in P
  <1> DEFINE n == Len(seqs)
  <1>1. n \in Nat /\ \A i \in 1 .. n : seqs[i] \in P
    BY LenProperties, ElementOfSeq
  <1>2. seqs \in Seq(Seq(S))
    BY SeqMonotonic
  <1>3. PICK f : Flattens(f, seqs, S)
    BY <1>2, FlattenStep
  <1> DEFINE T == {i \in Nat : f[i] \in P}
  <1>4. 0 \in T
    BY <1>3 DEF Flattens
  <1>5. ASSUME NEW i \in 0 .. n - 1, i \in T
        PROVE  i + 1 \in T
    <2>1. f[i + 1] = f[i] \o seqs[i + 1]
      BY <1>3 DEF Flattens
    <2>2. i + 1 \in 1 .. n /\ i + 1 \in Nat
      BY <1>1
    <2>3. f[i] \in P /\ seqs[i + 1] \in P
      BY <1>1, <1>5, <2>2
    <2> QED
      BY <2>1, <2>2, <2>3
  <1>6. n \in T
    <2> HIDE DEF T, n
    <2>1. \A i \in 0 .. n : i \in T
      BY <1>1, <1>4, <1>5, UpTo
    <2> QED
      BY <1>1, <2>1
  <1> QED
    BY <1>3, <1>6 DEF Flattens

\* Where a text stands in another one, it is cut out of it.
LEMMA Cut ==
  ASSUME NEW S, NEW s \in Seq(S), NEW t \in Seq(S), NEW m \in Nat, m + Len(t) <= Len(s),
         \A i \in 1 .. Len(t) : s[m + i] = t[i]
  PROVE  SubSeq(s, m + 1, m + Len(t)) = t
  <1> DEFINE n == Len(t)
             u == SubSeq(s, m + 1, m + n)
  <1>1. n \in Nat /\ Len(s) \in Nat
    BY LenProperties
  <1>2. \A i \in m + 1 .. m + n : s[i] \in S
    <2>1. \A i \in m + 1 .. m + n : i \in 1 .. Len(s)
      BY <1>1
    <2> QED
      BY <2>1, ElementOfSeq
  <1>3. m + 1 \in Int /\ m + n \in Int
    BY <1>1
  <1>4. /\ u \in Seq(S) /\ Len(u) = IF m + 1 <= m + n THEN (m + n) - (m + 1) + 1 ELSE 0
        /\ \A i \in 1 .. (m + n) - (m + 1) + 1 : u[i] = s[(m + 1) + i - 1]
    BY <1>2, <1>3, SubSeqProperties
  <1> HIDE DEF u
  <1>5. Len(u) = n
    BY <1>1, <1>4
  <1>6. (m + n) - (m + 1) + 1 = n
    BY <1>1
  <1>7. \A i \in 1 .. n : (m + 1) + i - 1 = m + i
    BY <1>1
  <1>8. \A i \in 1 .. n : u[i] = t[i]
    BY <1>4, <1>6, <1>7
  <1>9. u = t
    BY <1>4, <1>5, <1>8, SeqEqual
  <1> QED
    BY <1>9 DEF u
------------------------------------------------------------------------------
\* find returns npos, or the first place at which the pattern begins.
LEMMA FindFinds ==
  ASSUME NEW s \in Seq(Byte), Len(s) < NPos, NEW pat \in Seq(Byte), NEW pos \in Nat
  PROVE  /\ Find(s, pat, pos) \in 0 .. NPos
         /\ Hits(s, pat, pos) = {} => Find(s, pat, pos) = NPos
         /\ Hits(s, pat, pos) # {} =>
              /\ Find(s, pat, pos) \in Hits(s, pat, pos)
              /\ \A i \in Hits(s, pat, pos) : Find(s, pat, pos) <= i
  <1>1. Len(s) \in Nat /\ Len(pat) \in Nat /\ NPos \in Nat
    BY LenProperties, NPosIsLarge
  <1>2. Hits(s, pat, pos) \subseteq 0 .. NPos
    BY <1>1 DEF Hits
  <1>3. CASE Hits(s, pat, pos) = {}
    BY <1>1, <1>3 DEF Find
  <1>4. CASE Hits(s, pat, pos) # {}
    BY <1>2, <1>4, MinOfNats DEF Find
  <1> QED
    BY <1>3, <1>4

\* What begins at or behind a position begins in the text.
LEMMA HitsBehind ==
  ASSUME NEW s \in Seq(Byte), NEW pat \in Seq(Byte), NEW pos \in Nat,
         NEW i \in Hits(s, pat, pos)
  PROVE  i \in Hits(s, pat, 0) /\ i \in Nat /\ pos <= i /\ i <= Len(s)
  <1>1. Len(s) \in Nat /\ Len(pat) \in Nat
    BY LenProperties
  <1>2. /\ i \in pos .. Len(s) - Len(pat)
        /\ SubSeq(s, i + 1, i + Len(pat)) = pat
    BY DEF Hits
  <1>3. i \in 0 .. Len(s) - Len(pat) /\ i \in Nat /\ pos <= i /\ i <= Len(s)
    BY <1>1, <1>2
  <1> QED
    BY <1>2, <1>3 DEF Hits

\* find returns the first place there is.
LEMMA FindFirst ==
  ASSUME NEW s \in Seq(Byte), Len(s) < NPos, NEW pat \in Seq(Byte), NEW pos \in Nat,
         NEW i \in Hits(s, pat, pos), \A j \in Hits(s, pat, pos) : ~(j < i)
  PROVE  Find(s, pat, pos) = i
  <1>1. Find(s, pat, pos) \in Hits(s, pat, pos) /\ Find(s, pat, pos) <= i
    BY FindFinds
  <1>2. ~(Find(s, pat, pos) < i)
    BY <1>1
  <1>3. i \in Nat /\ Find(s, pat, pos) \in Nat
    BY <1>1, HitsBehind
  <1> QED
    BY <1>1, <1>2, <1>3

\* substr returns a text.
LEMMA SubStrType ==
  ASSUME NEW s \in Seq(Byte), NEW pos \in Nat, NEW n \in Nat
  PROVE  SubStr(s, pos, n) \in Seq(Byte)
  <1> DEFINE end == IF n > Len(s) - pos THEN Len(s) ELSE pos + n
  <1>1. Len(s) \in Nat
    BY LenProperties
  <1>2. end \in Nat /\ end <= Len(s)
    BY <1>1
  <1>3. SubStr(s, pos, n) = SubSeq(s, pos + 1, end)
    BY DEF SubStr
  <1> HIDE DEF end
  <1>4. \A i \in pos + 1 .. end : s[i] \in Byte
    BY <1>1, <1>2, ElementOfSeq
  <1>5. pos + 1 \in Int /\ end \in Int
    BY <1>2
  <1> QED
    BY <1>3, <1>4, <1>5, SubSeqProperties
------------------------------------------------------------------------------
\* A fold over the numbers up to n takes the greatest one first: D says what is
\* made of a result and the next number.
Fold(g, D, base, n) ==
  \A s \in SUBSET (1 .. n) :
    g[s] = IF s = {} THEN base ELSE D[<<g[s \ {Max(s)}], Max(s)>>]

\* Max of a set of the first numbers.
LEMMA MaxOfFirst ==
  ASSUME NEW n \in Nat, NEW s \in SUBSET (1 .. n + 1), n + 1 \in s
  PROVE  Max(s) = n + 1
  <1>1. n + 1 \in s /\ \A i \in s : i \in Nat /\ i <= n + 1
    OBVIOUS
  <1>2. \A x \in s : (\A y \in s : x >= y) <=> x = n + 1
    BY <1>1
  <1> QED
    BY <1>1, <1>2, Zenon DEF Max

\* Max of numbers is one of them.
LEMMA MaxIn ==
  ASSUME NEW n \in Nat, NEW s \in SUBSET (1 .. n), s # {}
  PROVE  Max(s) \in s
  <1> DEFINE T == {m \in Nat : \A t \in SUBSET (1 .. m) : t # {} => Max(t) \in t}
  <1>1. 0 \in T
    <2>1. \A t \in SUBSET (1 .. 0) : t = {}
      OBVIOUS
    <2> QED
      BY <2>1
  <1>2. ASSUME NEW m \in Nat, m \in T
        PROVE  m + 1 \in T
    <2> SUFFICES ASSUME NEW t \in SUBSET (1 .. m + 1), t # {}
                 PROVE  Max(t) \in t
      OBVIOUS
    <2>1. CASE m + 1 \in t
      BY <2>1, MaxOfFirst
    <2>2. CASE m + 1 \notin t
      <3>1. t \in SUBSET (1 .. m)
        BY <2>2
      <3> QED
        BY <1>2, <3>1
    <2> QED
      BY <2>1, <2>2
  <1>3. \A m \in Nat : m \in T
    <2> HIDE DEF T
    <2> QED
      BY <1>1, <1>2, NatSet
  <1> QED
    BY <1>3

\* There is a function that solves the equations of a fold.
LEMMA FoldExists ==
  ASSUME NEW n \in Nat, NEW V, NEW base \in V, NEW D \in [V \X (1 .. n) -> V]
  PROVE  \E g \in [SUBSET (1 .. n) -> V] : Fold(g, D, base, n)
  <1> DEFINE T == {m \in Nat : \E g \in [SUBSET (1 .. m) -> V] : Fold(g, D, base, m)}
  <1>1. 0 \in T
    <2>1. [s \in SUBSET (1 .. 0) |-> base] \in [SUBSET (1 .. 0) -> V]
      OBVIOUS
    <2>2. \A s \in SUBSET (1 .. 0) : s = {}
      OBVIOUS
    <2>3. Fold([s \in SUBSET (1 .. 0) |-> base], D, base, 0)
      BY <2>2 DEF Fold
    <2> QED
      BY <2>1, <2>3
  <1>2. ASSUME NEW m \in 0 .. n - 1, m \in T
        PROVE  m + 1 \in T
    <2>1. PICK g \in [SUBSET (1 .. m) -> V] : Fold(g, D, base, m)
      BY <1>2
    <2> DEFINE h == [s \in SUBSET (1 .. m + 1) |->
                       IF m + 1 \in s THEN D[<<g[s \ {m + 1}], m + 1>>] ELSE g[s]]
    <2>2. \A s \in SUBSET (1 .. m + 1) :
             IF m + 1 \in s THEN s \ {m + 1} \in SUBSET (1 .. m) ELSE s \in SUBSET (1 .. m)
      OBVIOUS
    <2>3. h \in [SUBSET (1 .. m + 1) -> V]
      <3> SUFFICES ASSUME NEW s \in SUBSET (1 .. m + 1)
                   PROVE  (IF m + 1 \in s THEN D[<<g[s \ {m + 1}], m + 1>>] ELSE g[s]) \in V
        OBVIOUS
      <3>1. CASE m + 1 \in s
        <4>1. g[s \ {m + 1}] \in V /\ m + 1 \in 1 .. n
          BY <2>1, <2>2, <3>1
        <4>2. <<g[s \ {m + 1}], m + 1>> \in V \X (1 .. n)
          BY <4>1
        <4> QED
          BY <3>1, <4>2
      <3>2. CASE m + 1 \notin s
        BY <2>1, <2>2, <3>2
      <3> QED
        BY <3>1, <3>2
    <2>4. \A s \in SUBSET (1 .. m) : h[s] = g[s]
      <3>1. \A s \in SUBSET (1 .. m) : s \in SUBSET (1 .. m + 1) /\ m + 1 \notin s
        OBVIOUS
      <3> QED
        BY <3>1
    <2>5. \A s \in SUBSET (1 .. m + 1) :
             m + 1 \in s => h[s] = D[<<g[s \ {m + 1}], m + 1>>]
      OBVIOUS
    <2> HIDE DEF h
    <2>6. ASSUME NEW s \in SUBSET (1 .. m + 1)
          PROVE  h[s] = IF s = {} THEN base ELSE D[<<h[s \ {Max(s)}], Max(s)>>]
      <3>1. CASE m + 1 \in s
        <4>1. Max(s) = m + 1 /\ s # {} /\ s \ {m + 1} \in SUBSET (1 .. m)
          BY <2>2, <3>1, MaxOfFirst
        <4> QED
          BY <2>4, <2>5, <3>1, <4>1
      <3>2. CASE m + 1 \notin s
        <4>1. s \in SUBSET (1 .. m) /\ s \ {Max(s)} \in SUBSET (1 .. m)
          BY <2>2, <3>2
        <4>2. h[s] = g[s] /\ h[s \ {Max(s)}] = g[s \ {Max(s)}]
          BY <2>4, <4>1, Zenon
        <4> QED
          BY <2>1, <4>1, <4>2, Zenon DEF Fold
      <3> QED
        BY <3>1, <3>2
    <2>7. Fold(h, D, base, m + 1)
      BY <2>6 DEF Fold
    <2> QED
      BY <2>3, <2>7
  <1>3. n \in T
    <2> HIDE DEF T
    <2>1. \A m \in 0 .. n : m \in T
      BY <1>1, <1>2, UpTo
    <2> QED
      BY <2>1
  <1> QED
    BY <1>3

\* The numbers up to i + 1, without the greatest, are those up to i.
LEMMA RangeStep ==
  ASSUME NEW n \in Nat, NEW i \in 0 .. n - 1
  PROVE  /\ 1 .. i + 1 \in SUBSET (1 .. n) /\ 1 .. i + 1 # {}
         /\ Max(1 .. i + 1) = i + 1
         /\ (1 .. i + 1) \ {i + 1} = 1 .. i
  <1>1. 1 .. i + 1 \in SUBSET (1 .. i + 1) /\ i + 1 \in 1 .. i + 1 /\ i \in Nat
    OBVIOUS
  <1>2. \A x \in 1 .. i + 1 : x \in 1 .. n
    OBVIOUS
  <1>3. \A x : x \in (1 .. i + 1) \ {i + 1} <=> x \in 1 .. i
    OBVIOUS
  <1>4. (1 .. i + 1) \ {i + 1} = 1 .. i
    BY <1>3, Zenon
  <1>5. 1 .. i + 1 \in SUBSET (1 .. n) /\ 1 .. i + 1 # {}
    BY <1>1, <1>2, Zenon
  <1>6. Max(1 .. i + 1) = i + 1
    BY <1>1, MaxOfFirst
  <1> QED
    BY <1>4, <1>5, <1>6
------------------------------------------------------------------------------
\* f[i] is the sum of the first i numbers of ns.
Sums(f, ns) ==
  /\ f \in [0 .. Len(ns) -> Nat]
  /\ f[0] = 0
  /\ \A i \in 0 .. Len(ns) - 1 : f[i + 1] = f[i] + ns[i + 1]
  /\ f[Len(ns)] = Total(ns)

\* Total adds up the numbers one after the other.
LEMMA TotalStep ==
  ASSUME NEW ns \in Seq(Nat)
  PROVE  \E f : Sums(f, ns)
  <1> DEFINE n == Len(ns)
             D == [p \in Nat \X (1 .. n) |-> p[1] + ns[p[2]]]
             Eq(g) == g = [s \in SUBSET (DOMAIN ns) |->
                             IF s = {} THEN 0 ELSE g[s \ {Max(s)}] + ns[Max(s)]]
             F == CHOOSE g : Eq(g)
  <1>1. n \in Nat /\ DOMAIN ns = 1 .. n /\ \A i \in 1 .. n : ns[i] \in Nat
    BY LenProperties, ElementOfSeq
  <1>2. Total(ns) = F[DOMAIN ns]
    BY DEF Total, FoldLeft, MapThenFoldSet
  <1>3. D \in [Nat \X (1 .. n) -> Nat]
    BY <1>1
  <1>4. PICK g \in [SUBSET (1 .. n) -> Nat] : Fold(g, D, 0, n)
    <2> HIDE DEF D, n
    <2> QED
      BY <1>1, <1>3, FoldExists
  <1>6. Eq(g)
    <2>1. ASSUME NEW s \in SUBSET (1 .. n)
          PROVE  g[s] = IF s = {} THEN 0 ELSE g[s \ {Max(s)}] + ns[Max(s)]
      <3>1. CASE s = {}
        BY <1>4, <3>1 DEF Fold
      <3>2. CASE s # {}
        <4>1. Max(s) \in 1 .. n /\ s \ {Max(s)} \in SUBSET (1 .. n)
          BY <1>1, <3>2, MaxIn
        <4>2. g[s] = D[<<g[s \ {Max(s)}], Max(s)>>] /\ g[s \ {Max(s)}] \in Nat
          BY <1>4, <3>2, <4>1 DEF Fold
        <4> QED
          BY <3>2, <4>1, <4>2
      <3> QED
        BY <3>1, <3>2
    <2> QED
      BY <1>1, <2>1
  <1>7. Eq(F)
    <2> HIDE DEF Eq
    <2> QED
      BY <1>6
  <1> HIDE DEF F
  <1>8. \A s \in SUBSET (1 .. n) :
          F[s] = IF s = {} THEN 0 ELSE F[s \ {Max(s)}] + ns[Max(s)]
    BY <1>1, <1>7, Zenon
  <1>9. F[1 .. 0] = 0 /\ \A i \in 0 .. n - 1 : F[1 .. i + 1] = F[1 .. i] + ns[i + 1]
    <2>1. (1 .. 0) = {} /\ 1 .. 0 \in SUBSET (1 .. n)
      OBVIOUS
    <2>2. ASSUME NEW i \in 0 .. n - 1
          PROVE  F[1 .. i + 1] = F[1 .. i] + ns[i + 1]
      <3> HIDE DEF n, D, Eq
      <3>1. /\ 1 .. i + 1 \in SUBSET (1 .. n) /\ 1 .. i + 1 # {}
            /\ Max(1 .. i + 1) = i + 1
            /\ (1 .. i + 1) \ {i + 1} = 1 .. i
        BY <1>1, RangeStep
      <3>2. F[1 .. i + 1] =
              F[(1 .. i + 1) \ {Max(1 .. i + 1)}] + ns[Max(1 .. i + 1)]
        BY <1>8, <3>1, Zenon
      <3> QED
        BY <3>1, <3>2, Zenon
    <2> QED
      BY <1>8, <2>1, <2>2
  <1> DEFINE T == {i \in Nat : F[1 .. i] \in Nat}
  <1>10. \A i \in 0 .. n : i \in T
    <2>1. 0 \in T
      BY <1>9
    <2>2. ASSUME NEW i \in 0 .. n - 1, i \in T
          PROVE  i + 1 \in T
      <3>1. F[1 .. i] \in Nat /\ ns[i + 1] \in Nat /\ i + 1 \in Nat
        BY <1>1, <2>2
      <3> QED
        BY <1>9, <3>1
    <2> HIDE DEF T, n
    <2> QED
      BY <1>1, <2>1, <2>2, UpTo
  <1> DEFINE f == [i \in 0 .. n |-> F[1 .. i]]
  <1> HIDE DEF D, n
  <1>11. f \in [0 .. n -> Nat] /\ f[0] = 0 /\ f[n] = Total(ns)
    BY <1>1, <1>2, <1>9, <1>10
  <1>12. \A i \in 0 .. n - 1 : f[i + 1] = f[i] + ns[i + 1]
    <2> SUFFICES ASSUME NEW i \in 0 .. n - 1
                 PROVE  f[i + 1] = f[i] + ns[i + 1]
      OBVIOUS
    <2>1. f[i + 1] = F[1 .. i + 1] /\ f[i] = F[1 .. i]
      BY <1>1
    <2> QED
      BY <1>9, <2>1
  <1> HIDE DEF f
  <1> QED
    BY <1>11, <1>12 DEF Sums, n
------------------------------------------------------------------------------
\* What texts make together is as long as the texts are, and fits where room for
\* each of them is.
LEMMA FlattenFits ==
  ASSUME NEW S, NEW seqs \in Seq(Seq(S)), NEW ns \in Seq(Nat), Len(ns) = Len(seqs),
         \A i \in 1 .. Len(seqs) : Len(seqs[i]) <= ns[i]
  PROVE  Len(FlattenSeq(seqs)) <= Total(ns) /\ Total(ns) \in Nat
  <1>1. PICK f : Flattens(f, seqs, S)
    BY FlattenStep
  <1>2. PICK g : Sums(g, ns)
    BY TotalStep
  <1> DEFINE n == Len(seqs)
             T == {i \in Nat : Len(f[i]) <= g[i]}
  <1>3. n \in Nat
    BY LenProperties
  <1>4. 0 \in T
    BY <1>1, <1>2, EmptySeq DEF Flattens, Sums
  <1>5. ASSUME NEW i \in 0 .. n - 1, i \in T
        PROVE  i + 1 \in T
    <2>1. i + 1 \in 1 .. n /\ i \in 0 .. n
      BY <1>3
    <2>2. f[i + 1] = f[i] \o seqs[i + 1] /\ f[i] \in Seq(S)
      BY <1>1, <2>1 DEF Flattens
    <2>3. g[i + 1] = g[i] + ns[i + 1] /\ g[i] \in Nat
      BY <1>2, <2>1 DEF Sums
    <2>4. seqs[i + 1] \in Seq(S) /\ Len(seqs[i + 1]) <= ns[i + 1] /\ ns[i + 1] \in Nat
      BY <2>1, ElementOfSeq
    <2>5. Len(f[i + 1]) = Len(f[i]) + Len(seqs[i + 1])
      BY <2>2, <2>4, ConcatProperties
    <2>6. Len(f[i]) \in Nat /\ Len(seqs[i + 1]) \in Nat
      BY <2>2, <2>4, LenProperties
    <2>7. Len(f[i]) <= g[i]
      BY <1>5
    <2>8. Len(f[i + 1]) <= g[i + 1]
      <3> DEFINE a == Len(f[i])
                 b == Len(seqs[i + 1])
                 c == g[i]
                 d == ns[i + 1]
      <3>1. /\ a \in Nat /\ b \in Nat /\ c \in Nat /\ d \in Nat /\ a <= c /\ b <= d
            /\ Len(f[i + 1]) = a + b /\ g[i + 1] = c + d
        BY <2>3, <2>4, <2>5, <2>6, <2>7
      <3> HIDE DEF a, b, c, d
      <3> QED
        BY <3>1
    <2>9. i + 1 \in Nat
      BY <2>1
    <2> QED
      BY <2>8, <2>9
  <1>6. \A i \in 0 .. n : i \in T
    <2> HIDE DEF T
    <2> QED
      BY <1>3, <1>4, <1>5, UpTo
  <1>7. Len(f[n]) <= g[n]
    BY <1>3, <1>6
  <1>8. g[n] \in Nat
    BY <1>2, <1>3 DEF Sums
  <1> QED
    BY <1>1, <1>2, <1>7, <1>8 DEF Flattens, Sums

\* The same for what is made of each element of a text.
LEMMA EachFits ==
  ASSUME NEW S, NEW A, NEW s \in Seq(A), NEW text, NEW room,
         text = [i \in DOMAIN s |-> text[i]], room = [i \in DOMAIN s |-> room[i]],
         \A i \in DOMAIN s : text[i] \in Seq(S) /\ room[i] \in Nat /\ Len(text[i]) <= room[i]
  PROVE  /\ FlattenSeq(text) \in Seq(S)
         /\ Len(FlattenSeq(text)) <= Total(room) /\ Total(room) \in Nat
  <1>1. Len(s) \in Nat /\ DOMAIN s = 1 .. Len(s)
    BY LenProperties
  <1>2. text \in Seq(Seq(S)) /\ Len(text) = Len(s)
    BY <1>1
  <1>3. room \in Seq(Nat) /\ Len(room) = Len(s)
    BY <1>1
  <1> QED
    BY <1>1, <1>2, <1>3, FlattenFits, FlattenType
------------------------------------------------------------------------------
\* What is printed for a byte is as long as was counted for it.
LEMMA EscapeFits ==
  ASSUME NEW c \in Byte
  PROVE  Escape(c) \in Seq(Byte) /\ EscapeRoom(c) \in Nat /\ Len(Escape(c)) <= EscapeRoom(c)
  <1>0. c \in Nat /\ c <= 255
    BY DEF Byte
  <1>1. CASE c \in Short
    <2>1. Letter(c) \in Byte
      BY <1>1 DEF Letter, Short, Byte, Quote, Backslash
    <2>2. Escape(c) = <<Backslash, Letter(c)>> /\ EscapeRoom(c) = 2
      BY <1>1 DEF Escape, EscapeRoom
    <2> QED
      BY <2>1, <2>2 DEF Byte, Backslash
  <1>2. CASE c \notin Short /\ c < 32
    <2>1. c \div 16 \in 0 .. 1 /\ c % 16 \in 0 .. 15
      BY <1>0, <1>2
    <2>2. HexDigit(c \div 16) \in Byte /\ HexDigit(c % 16) \in Byte
      BY <2>1 DEF HexDigit, Byte
    <2>3. /\ Escape(c) = <<Backslash, 117, 48, 48, HexDigit(c \div 16), HexDigit(c % 16)>>
          /\ EscapeRoom(c) = 6
      BY <1>2 DEF Escape, EscapeRoom
    <2> QED
      BY <2>2, <2>3 DEF Byte, Backslash
  <1>3. CASE c \notin Short /\ ~(c < 32)
    BY <1>3 DEF Escape, EscapeRoom
  <1> QED
    BY <1>1, <1>2, <1>3

\* Two bytes more than the text between them.
LEMMA BetweenFits ==
  ASSUME NEW open \in Byte, NEW text \in Seq(Byte), NEW close \in Byte
  PROVE  Between(open, text, close) \in Seq(Byte)
         /\ Len(Between(open, text, close)) = Len(text) + 2
  <1>1. <<open>> \in Seq(Byte) /\ <<close>> \in Seq(Byte) /\ Len(<<open>>) = 1 /\ Len(<<close>>) = 1
    OBVIOUS
  <1>2. <<open>> \o text \in Seq(Byte) /\ Len(<<open>> \o text) = 1 + Len(text)
    BY <1>1, ConcatProperties
  <1>3. /\ (<<open>> \o text) \o <<close>> \in Seq(Byte)
        /\ Len((<<open>> \o text) \o <<close>>) = (1 + Len(text)) + 1
    BY <1>1, <1>2, ConcatProperties
  <1>4. Len(text) \in Nat
    BY LenProperties
  <1> QED
    BY <1>3, <1>4 DEF Between

\* cJSON.c:282: print_string_ptr writes no more than it allocated.
LEMMA StringFits ==
  ASSUME NEW str \in Seq(Byte)
  PROVE  /\ PrintString(str) \in Seq(Byte)
         /\ Len(PrintString(str)) + 1 <= StringRoom(str)
  <1> DEFINE text == [i \in DOMAIN str |-> Escape(str[i])]
             room == [i \in DOMAIN str |-> EscapeRoom(str[i])]
  <1>1. \A i \in DOMAIN str : str[i] \in Byte
    BY LenProperties
  <1>2. \A i \in DOMAIN str :
           text[i] \in Seq(Byte) /\ room[i] \in Nat /\ Len(text[i]) <= room[i]
    BY <1>1, EscapeFits
  <1>3. text = [i \in DOMAIN str |-> text[i]] /\ room = [i \in DOMAIN str |-> room[i]]
    OBVIOUS
  <1>4. PrintString(str) = Between(Quote, FlattenSeq(text), Quote)
        /\ StringRoom(str) = Total(room) + 3
    BY DEF PrintString, StringRoom
  <1> HIDE DEF text, room
  <1>5. /\ FlattenSeq(text) \in Seq(Byte)
        /\ Len(FlattenSeq(text)) <= Total(room) /\ Total(room) \in Nat
    BY <1>2, <1>3, EachFits
  <1>6. Quote \in Byte
    BY DEF Quote, Byte
  <1>7. /\ PrintString(str) \in Seq(Byte)
        /\ Len(PrintString(str)) = Len(FlattenSeq(text)) + 2
    BY <1>4, <1>5, <1>6, BetweenFits
  <1>8. Len(FlattenSeq(text)) \in Nat
    BY <1>5, LenProperties
  <1> QED
    BY <1>4, <1>5, <1>7, <1>8

\* A list takes one byte more for each text than the text, for a comma.
LEMMA ListedFits ==
  ASSUME NEW texts \in Seq(Seq(Byte)), NEW room,
         room = [i \in DOMAIN texts |-> room[i]],
         \A i \in DOMAIN texts : room[i] \in Nat /\ Len(texts[i]) + 1 <= room[i]
  PROVE  /\ Listed(texts) \in Seq(Byte)
         /\ Len(Listed(texts)) <= Total(room) /\ Total(room) \in Nat
  <1> DEFINE parts == [i \in DOMAIN texts |->
                         IF i = 1 THEN texts[i] ELSE <<Comma>> \o texts[i]]
  <1>1. ASSUME NEW i \in DOMAIN texts
        PROVE  parts[i] \in Seq(Byte) /\ room[i] \in Nat /\ Len(parts[i]) <= room[i]
    <2>1. texts[i] \in Seq(Byte) /\ Len(texts[i]) \in Nat
      BY LenProperties
    <2>2. <<Comma>> \in Seq(Byte) /\ Len(<<Comma>>) = 1
      BY DEF Comma, Byte
    <2>3. <<Comma>> \o texts[i] \in Seq(Byte) /\ Len(<<Comma>> \o texts[i]) = 1 + Len(texts[i])
      BY <2>1, <2>2, ConcatProperties
    <2> QED
      BY <2>1, <2>3
  <1>2. parts = [i \in DOMAIN texts |-> parts[i]]
    OBVIOUS
  <1>3. Listed(texts) = FlattenSeq(parts)
    BY DEF Listed
  <1> HIDE DEF parts
  <1> QED
    BY <1>1, <1>2, <1>3, EachFits

\* cJSON.c:486
LEMMA ArrayFits ==
  ASSUME NEW entries \in Seq(Seq(Byte))
  PROVE  /\ PrintArray(entries) \in Seq(Byte)
         /\ Len(PrintArray(entries)) + 1 <= ArrayRoom(entries)
  <1> DEFINE room == [i \in DOMAIN entries |-> Len(entries[i]) + 2]
  <1>1. \A i \in DOMAIN entries : room[i] \in Nat /\ Len(entries[i]) + 1 <= room[i]
    <2>1. \A i \in DOMAIN entries : entries[i] \in Seq(Byte)
      BY LenProperties
    <2>2. \A i \in DOMAIN entries : Len(entries[i]) \in Nat
      BY <2>1, LenProperties
    <2> QED
      BY <2>2
  <1>2. room = [i \in DOMAIN entries |-> room[i]]
    OBVIOUS
  <1>3. ArrayRoom(entries) = IF entries = <<>> THEN 3 ELSE 5 + Total(room)
    BY DEF ArrayRoom
  <1>4. entries = <<>> => Listed(entries) = <<>>
    <2> SUFFICES ASSUME entries = <<>> PROVE Listed(entries) = <<>>
      OBVIOUS
    <2>1. [i \in DOMAIN entries |-> IF i = 1 THEN entries[i] ELSE <<Comma>> \o entries[i]] = <<>>
      BY EmptySeq
    <2> QED
      BY <2>1, FlattenEmpty DEF Listed
  <1> HIDE DEF room
  <1>5. /\ Listed(entries) \in Seq(Byte)
        /\ Len(Listed(entries)) <= Total(room) /\ Total(room) \in Nat
    BY <1>1, <1>2, ListedFits
  <1>6. /\ PrintArray(entries) \in Seq(Byte)
        /\ Len(PrintArray(entries)) = Len(Listed(entries)) + 2
    <2>1. 91 \in Byte /\ 93 \in Byte
      BY DEF Byte
    <2>2. PrintArray(entries) = Between(91, Listed(entries), 93)
      BY DEF PrintArray, Array
    <2> QED
      BY <1>5, <2>1, <2>2, BetweenFits
  <1>7. Len(Listed(entries)) \in Nat /\ Len(<<>>) = 0
    BY <1>5, LenProperties
  <1> QED
    BY <1>3, <1>4, <1>5, <1>6, <1>7

\* cJSON.c:629
LEMMA ObjectFits ==
  ASSUME NEW names, NEW entries \in Seq(Seq(Byte)), DOMAIN names = DOMAIN entries,
         \A i \in DOMAIN entries : names[i] \in Seq(Byte)
  PROVE  /\ PrintObject(names, entries) \in Seq(Byte)
         /\ Len(PrintObject(names, entries)) + 1 <= ObjectRoom(names, entries)
  <1> DEFINE room == [i \in DOMAIN entries |-> Len(entries[i]) + Len(names[i]) + 2]
             members == [i \in DOMAIN entries |-> names[i] \o <<58>> \o entries[i]]
  <1>1. ASSUME NEW i \in DOMAIN entries
        PROVE  members[i] \in Seq(Byte) /\ room[i] \in Nat /\ Len(members[i]) + 1 <= room[i]
    <2>1. entries[i] \in Seq(Byte) /\ names[i] \in Seq(Byte)
      BY LenProperties
    <2>2. Len(entries[i]) \in Nat /\ Len(names[i]) \in Nat
      BY <2>1, LenProperties
    <2>3. <<58>> \in Seq(Byte) /\ Len(<<58>>) = 1
      BY DEF Byte
    <2>4. names[i] \o <<58>> \in Seq(Byte) /\ Len(names[i] \o <<58>>) = Len(names[i]) + 1
      BY <2>1, <2>3, ConcatProperties
    <2>5. /\ (names[i] \o <<58>>) \o entries[i] \in Seq(Byte)
          /\ Len((names[i] \o <<58>>) \o entries[i]) = (Len(names[i]) + 1) + Len(entries[i])
      BY <2>1, <2>4, ConcatProperties
    <2> QED
      BY <2>2, <2>5
  <1>2. members \in Seq(Seq(Byte)) /\ DOMAIN members = DOMAIN entries
    <2>1. DOMAIN entries = 1 .. Len(entries) /\ Len(entries) \in Nat
      BY LenProperties
    <2>2. \A i \in DOMAIN entries : members[i] \in Seq(Byte)
      BY <1>1
    <2> QED
      BY <2>1, <2>2
  <1>3. room = [i \in DOMAIN members |-> room[i]]
    BY <1>2
  <1>4. /\ ObjectRoom(names, entries) = IF entries = <<>> THEN 3 ELSE 7 + Total(room)
        /\ PrintObject(names, entries) = Object(Listed(members))
    BY DEF ObjectRoom, PrintObject
  <1>5. entries = <<>> => Listed(members) = <<>>
    <2> SUFFICES ASSUME entries = <<>> PROVE Listed(members) = <<>>
      OBVIOUS
    <2>1. members = <<>>
      BY EmptySeq
    <2>2. [i \in DOMAIN <<>> |-> IF i = 1 THEN <<>>[i] ELSE <<Comma>> \o <<>>[i]] = <<>>
      BY EmptySeq
    <2> QED
      BY <2>1, <2>2, FlattenEmpty DEF Listed
  <1> HIDE DEF room, members
  <1>6. /\ Listed(members) \in Seq(Byte)
        /\ Len(Listed(members)) <= Total(room) /\ Total(room) \in Nat
    BY <1>1, <1>2, <1>3, ListedFits
  <1>7. /\ PrintObject(names, entries) \in Seq(Byte)
        /\ Len(PrintObject(names, entries)) = Len(Listed(members)) + 2
    <2>1. 123 \in Byte /\ 125 \in Byte
      BY DEF Byte
    <2>2. PrintObject(names, entries) = Between(123, Listed(members), 125)
      BY <1>4 DEF Object
    <2> QED
      BY <1>6, <2>1, <2>2, BetweenFits
  <1>8. Len(Listed(members)) \in Nat /\ Len(<<>>) = 0
    BY <1>6, LenProperties
  <1> QED
    BY <1>4, <1>5, <1>6, <1>7, <1>8
------------------------------------------------------------------------------
\* The text t stands in s from i on.
Stands(s, i, t) ==
  /\ i \in Nat \ {0}
  /\ i + Len(t) <= Len(s) + 1
  /\ \A m \in 0 .. Len(t) - 1 : s[i + m] = t[m + 1]

\* What two texts make together.
JoinedTwo(a, b) ==
  /\ a \o b \in Seq(Byte) /\ Len(a \o b) = Len(a) + Len(b)
  /\ Len(a) \in Nat /\ Len(b) \in Nat
  /\ a # <<>> => a \o b # <<>> /\ (a \o b)[1] = a[1]

LEMMA JoinTwo ==
  ASSUME NEW a \in Seq(Byte), NEW b \in Seq(Byte)
  PROVE  JoinedTwo(a, b)
  <1>1. /\ a \o b \in Seq(Byte) /\ Len(a \o b) = Len(a) + Len(b)
        /\ Len(a) \in Nat /\ Len(b) \in Nat
        /\ \A k \in 1 .. Len(a) : (a \o b)[k] = a[k]
    BY ConcatIndex
  <1>2. a # <<>> => 1 \in 1 .. Len(a) /\ Len(a \o b) # 0
    BY <1>1, EmptySeq
  <1>3. Len(<<>>) = 0
    BY EmptySeq
  <1> QED
    BY <1>1, <1>2, <1>3 DEF JoinedTwo

\* The same of three.
JoinedThree(a, b, c) ==
  /\ (a \o b) \o c \in Seq(Byte) /\ b \o c \in Seq(Byte)
  /\ (a \o b) \o c = a \o (b \o c)
  /\ Len((a \o b) \o c) = Len(a) + Len(b) + Len(c) /\ Len(b \o c) = Len(b) + Len(c)
  /\ Len(a) \in Nat /\ Len(b) \in Nat /\ Len(c) \in Nat
  /\ a # <<>> => (a \o b) \o c # <<>> /\ ((a \o b) \o c)[1] = a[1]

LEMMA JoinThree ==
  ASSUME NEW a \in Seq(Byte), NEW b \in Seq(Byte), NEW c \in Seq(Byte)
  PROVE  JoinedThree(a, b, c)
  <1> DEFINE d == a \o b
  <1>1. JoinedTwo(a, b) /\ JoinedTwo(b, c)
    BY JoinTwo
  <1>2. d \o c = a \o (b \o c)
    BY ConcatAssociative
  <1>3. d \in Seq(Byte)
    BY <1>1 DEF JoinedTwo
  <1>4. JoinedTwo(d, c)
    <2> HIDE DEF d
    <2> QED
      BY <1>3, JoinTwo
  <1>5. /\ d \in Seq(Byte) /\ Len(d) = Len(a) + Len(b) /\ Len(a) \in Nat /\ Len(b) \in Nat
        /\ a # <<>> => d # <<>> /\ d[1] = a[1]
    BY <1>1 DEF JoinedTwo
  <1>6. b \o c \in Seq(Byte) /\ Len(b \o c) = Len(b) + Len(c)
    BY <1>1 DEF JoinedTwo
  <1> HIDE DEF d
  <1>7. /\ d \o c \in Seq(Byte) /\ Len(d \o c) = Len(d) + Len(c) /\ Len(c) \in Nat
        /\ d # <<>> => d \o c # <<>> /\ (d \o c)[1] = d[1]
    BY <1>4 DEF JoinedTwo
  <1> QED
    BY <1>2, <1>5, <1>6, <1>7 DEF d, JoinedThree

\* Where two texts stand together, each stands in its place.
LEMMA StandsConcat ==
  ASSUME NEW s \in Seq(Byte), NEW i, NEW a \in Seq(Byte), NEW b \in Seq(Byte),
         Stands(s, i, a \o b)
  PROVE  Stands(s, i, a) /\ Stands(s, i + Len(a), b)
  <1>1. /\ Len(a \o b) = Len(a) + Len(b) /\ Len(a) \in Nat /\ Len(b) \in Nat
        /\ \A m \in 1 .. Len(a) : (a \o b)[m] = a[m]
        /\ \A m \in 1 .. Len(b) : (a \o b)[Len(a) + m] = b[m]
    BY ConcatIndex
  <1>2. Len(s) \in Nat /\ i \in Nat \ {0}
    BY LenProperties DEF Stands
  <1> DEFINE k == Len(a)
             n == Len(b)
             ab == a \o b
  <1>3. /\ i + (k + n) <= Len(s) + 1
        /\ \A m \in 0 .. (k + n) - 1 : s[i + m] = ab[m + 1]
        /\ k \in Nat /\ n \in Nat
        /\ \A m \in 1 .. k : ab[m] = a[m]
        /\ \A m \in 1 .. n : ab[k + m] = b[m]
    BY <1>1 DEF Stands
  <1> HIDE DEF k, n, ab
  <1>4. i + k <= Len(s) + 1 /\ (i + k) + n <= Len(s) + 1
    BY <1>2, <1>3
  <1>5. \A m \in 0 .. k - 1 : s[i + m] = a[m + 1]
    <2>1. \A m \in 0 .. k - 1 : m + 1 \in 1 .. k /\ m \in 0 .. (k + n) - 1
      BY <1>3
    <2> QED
      BY <1>3, <2>1
  <1>6. \A m \in 0 .. n - 1 : s[(i + k) + m] = b[m + 1]
    <2>1. \A m \in 0 .. n - 1 : /\ m + 1 \in 1 .. n /\ k + m \in 0 .. (k + n) - 1
                                /\ (i + k) + m = i + (k + m) /\ (k + m) + 1 = k + (m + 1)
      BY <1>2, <1>3
    <2> QED
      BY <1>3, <2>1
  <1> QED
    BY <1>2, <1>3, <1>4, <1>5, <1>6 DEF Stands, k, n

\* Where a text stands, its first byte does.
LEMMA StandsFirst ==
  ASSUME NEW s \in Seq(Byte), NEW i, NEW t \in Seq(Byte), t # <<>>, Stands(s, i, t)
  PROVE  i \in 1 .. Len(s) /\ s[i] = t[1] /\ At(s, i) = t[1]
  <1>1. Len(t) \in Nat \ {0} /\ Len(s) \in Nat
    BY EmptySeq, LenProperties
  <1>2. i \in 1 .. Len(s) /\ 0 \in 0 .. Len(t) - 1
    BY <1>1 DEF Stands
  <1>3. s[i + 0] = t[0 + 1]
    BY <1>2 DEF Stands
  <1> QED
    BY <1>2, <1>3 DEF At

\* The same of a single byte.
LEMMA StandsByte ==
  ASSUME NEW s \in Seq(Byte), NEW i, NEW c \in Byte, Stands(s, i, <<c>>)
  PROVE  i \in 1 .. Len(s) /\ s[i] = c /\ At(s, i) = c
  <1> DEFINE t == <<c>>
  <1>1. t \in Seq(Byte) /\ t # <<>> /\ t[1] = c /\ Stands(s, i, t)
    <2>1. Len(t) = 1 /\ Len(<<>>) = 0
      BY EmptySeq
    <2> QED
      BY <2>1
  <1> HIDE DEF t
  <1> QED
    BY <1>1, StandsFirst

\* skip goes no further than a visible byte.
LEMMA SkipVisible ==
  ASSUME NEW s \in Seq(Byte), NEW i \in 1 .. Len(s), s[i] > 32
  PROVE  Skip(s, i) = i /\ At(s, i) = s[i]
  <1> DEFINE J == {j \in i .. Len(s) + 1 : At(s, j) > 32 \/ At(s, j) = 0}
  <1>1. Len(s) \in Nat /\ i \in Nat
    BY LenProperties
  <1>2. At(s, i) = s[i]
    BY <1>1 DEF At
  <1>3. i \in J
    <2>1. i \in i .. Len(s) + 1
      BY <1>1
    <2>2. At(s, i) > 32
      BY <1>2
    <2> QED
      BY <2>1, <2>2, Zenon
  <1>4. J \in SUBSET Nat /\ \A j \in J : i <= j
    BY <1>1
  <1>5. Skip(s, i) = Min(J)
    BY DEF Skip
  <1> HIDE DEF J
  <1>6. Min(J) \in J /\ Min(J) <= i
    BY <1>3, <1>4, MinOfNats
  <1>7. Min(J) \in Nat /\ i <= Min(J)
    BY <1>4, <1>6, Zenon
  <1>8. Min(J) = i
    BY <1>1, <1>6, <1>7
  <1> QED
    BY <1>2, <1>5, <1>8
------------------------------------------------------------------------------
\* What is read of the character at j, if chars is what is read behind it.
NextChar(s, j) ==
  IF ~(At(s, j) = Backslash) THEN j + 1
  ELSE IF At(s, j + 1) = 117 THEN j + 6 ELSE j + 2

Char(s, j) == IF At(s, j) = Backslash THEN Unescape(s, j + 1) ELSE <<s[j]>>

OneChar(s, chars, j) ==
  IF At(s, j) \in {Quote, 0}
    THEN [text |-> <<>>, next |-> IF At(s, j) = Quote THEN j + 1 ELSE j]
  ELSE [text |-> Char(s, j) \o chars[NextChar(s, j)].text,
        next |-> chars[NextChar(s, j)].next]

\* chars is what is read from each place on.
ReadsChars(chars, s, i) == \A j \in i .. Len(s) + 6 : chars[j] = OneChar(s, chars, j)

\* Reading goes on behind the character, and what stands there decides.
LEMMA OneCharLocal ==
  ASSUME NEW s, NEW j, NEW f, NEW g,
         At(s, j) \notin {Quote, 0} => f[NextChar(s, j)] = g[NextChar(s, j)]
  PROVE  OneChar(s, f, j) = OneChar(s, g, j)
  BY Zenon DEF OneChar

\* There is a function for every text: from its end to its beginning.
LEMMA CharsExist ==
  ASSUME NEW s \in Seq(Byte)
  PROVE  \E chars : ReadsChars(chars, s, 1)
  <1> DEFINE n == Len(s)
             Has(g, k) == \A j \in (n + 1) - k .. n + 6 : g[j] = OneChar(s, g, j)
             T == {k \in Nat : \E g : Has(g, k)}
  <1>1. n \in Nat
    BY LenProperties
  <1>2. 0 \in T
    <2> DEFINE g == [j \in n + 1 .. n + 6 |-> [text |-> <<>>, next |-> j]]
    <2>1. ASSUME NEW j \in n + 1 .. n + 6
          PROVE  g[j] = OneChar(s, g, j)
      <3>1. At(s, j) = 0
        BY <1>1 DEF At
      <3>2. OneChar(s, g, j) = [text |-> <<>>, next |-> j]
        BY <3>1 DEF OneChar, Quote
      <3> QED
        BY <3>2
    <2> HIDE DEF g
    <2>2. (n + 1) - 0 = n + 1
      BY <1>1
    <2>3. Has(g, 0)
      BY <2>1, <2>2
    <2> QED
      BY <2>3
  <1>3. ASSUME NEW k \in 0 .. n - 1, k \in T
        PROVE  k + 1 \in T
    <2>1. PICK g : Has(g, k)
      BY <1>3
    <2> DEFINE m == n - k
               h == [j \in m .. n + 6 |-> IF j = m THEN OneChar(s, g, m) ELSE g[j]]
    <2>2. m \in 1 .. n /\ m = (n + 1) - (k + 1) /\ m + 1 = (n + 1) - k /\ k + 1 \in Nat
      BY <1>1
    <2> HIDE DEF m, n
    <2>3. h[m] = OneChar(s, g, m) /\ \A j \in m + 1 .. n + 6 : h[j] = g[j]
      BY <1>1, <2>2
    <2> HIDE DEF h
    <2>4. ASSUME NEW j \in m .. n + 6
          PROVE  OneChar(s, h, j) = OneChar(s, g, j)
      <3> SUFFICES ASSUME At(s, j) \notin {Quote, 0}
                   PROVE  h[NextChar(s, j)] = g[NextChar(s, j)]
        BY OneCharLocal, Zenon
      <3>1. j <= n
        BY <1>1, <2>2 DEF At, n
      <3>2. NextChar(s, j) \in {j + 1, j + 2, j + 6}
        BY DEF NextChar
      <3>3. NextChar(s, j) \in m + 1 .. n + 6
        BY <1>1, <2>2, <3>1, <3>2
      <3> QED
        BY <2>3, <3>3
    <2>5. ASSUME NEW j \in m .. n + 6
          PROVE  h[j] = OneChar(s, h, j)
      <3>1. CASE j = m
        BY <2>3, <2>4, <3>1
      <3>2. CASE j # m
        <4>1. j \in m + 1 .. n + 6 /\ j \in (n + 1) - k .. n + 6
          BY <1>1, <2>2, <3>2
        <4> QED
          BY <2>1, <2>3, <2>4, <4>1
      <3> QED
        BY <3>1, <3>2
    <2>6. Has(h, k + 1)
      BY <2>2, <2>5
    <2> QED
      BY <2>2, <2>6
  <1>4. n \in T
    <2> HIDE DEF T, n
    <2>1. \A k \in 0 .. n : k \in T
      BY <1>1, <1>2, <1>3, UpTo
    <2> QED
      BY <1>1, <2>1
  <1>5. (n + 1) - n = 1
    BY <1>1
  <1> QED
    BY <1>4, <1>5 DEF ReadsChars

\* parse_string reads character by character.
LEMMA ParsesChars ==
  ASSUME NEW s \in Seq(Byte), NEW i \in 1 .. Len(s) + 6
  PROVE  \E chars : ReadsChars(chars, s, i) /\ ParseString(s, i) = chars[i]
  <1> DEFINE n == Len(s)
             D == i .. n + 6
             Eq(g) == g = [j \in D |-> OneChar(s, g, j)]
             F == CHOOSE g : Eq(g)
  <1>1. n \in Nat
    BY LenProperties
  <1>2. ParseString(s, i) = F[i]
    BY Zenon DEF ParseString, OneChar, Char, NextChar
  <1>3. PICK g : ReadsChars(g, s, 1)
    BY CharsExist
  <1> HIDE DEF n
  <1>4. Eq([j \in D |-> g[j]])
    <2> DEFINE f == [j \in D |-> g[j]]
    <2>1. \A j \in D : f[j] = g[j]
      OBVIOUS
    <2> HIDE DEF f
    <2>2. ASSUME NEW j \in D
          PROVE  g[j] = OneChar(s, f, j)
      <3>1. g[j] = OneChar(s, g, j)
        BY <1>1, <1>3 DEF ReadsChars, n
      <3>2. OneChar(s, g, j) = OneChar(s, f, j)
        <4> SUFFICES ASSUME At(s, j) \notin {Quote, 0}
                     PROVE  g[NextChar(s, j)] = f[NextChar(s, j)]
          BY OneCharLocal, Zenon
        <4>1. j <= n
          BY <1>1 DEF At, n
        <4>2. NextChar(s, j) \in {j + 1, j + 2, j + 6}
          BY DEF NextChar
        <4>3. NextChar(s, j) \in D
          BY <1>1, <4>1, <4>2
        <4> QED
          BY <2>1, <4>3
      <3> QED
        BY <3>1, <3>2
    <2>3. f = [j \in D |-> OneChar(s, f, j)]
      <3>1. [j \in D |-> g[j]] = [j \in D |-> OneChar(s, f, j)]
        BY <2>2
      <3> QED
        BY <3>1, Zenon DEF f
    <2> QED
      BY <2>3 DEF f
  <1>5. Eq(F)
    <2> HIDE DEF Eq
    <2> QED
      BY <1>4
  <1> HIDE DEF F
  <1>6. \A j \in D : F[j] = OneChar(s, F, j)
    BY <1>5, Zenon
  <1> QED
    BY <1>2, <1>6 DEF ReadsChars, n
------------------------------------------------------------------------------
\* What a char pointer points to is a text.
LEMMA CStringIsText ==
  ASSUME NEW t \in CString
  PROVE  t \in Seq(Byte) /\ \A i \in DOMAIN t : t[i] \in Byte \ {0}
  BY DEF CString

\* The letters behind a backslash are those of different characters.
LEMMA Letters ==
  /\ \A c \in Short : Letter(c) \in Byte \ {0, 117}
  /\ \A c, d \in Short : Letter(c) = Letter(d) => c = d
  <1>1. /\ Letter(34) = 34 /\ Letter(92) = 92 /\ Letter(8) = 98 /\ Letter(9) = 116
        /\ Letter(10) = 110 /\ Letter(12) = 102 /\ Letter(13) = 114
    BY DEF Letter, Quote, Backslash
  <1>2. Short = {34, 92, 8, 9, 10, 12, 13}
    BY DEF Short, Quote, Backslash
  <1> QED
    BY <1>1, <1>2 DEF Byte

\* parse_hex4 reads the digits of %04x.
LEMMA HexRead ==
  ASSUME NEW x \in 0 .. 15
  PROVE  HexValue(HexDigit(x)) = x
  <1>1. CASE x > 9
    <2>1. HexDigit(x) = x + 87
      BY <1>1 DEF HexDigit
    <2> QED
      BY <1>1, <2>1 DEF HexValue
  <1>2. CASE ~(x > 9)
    <2>1. HexDigit(x) = x + 48
      BY <1>2 DEF HexDigit
    <2> QED
      BY <1>2, <2>1 DEF HexValue
  <1> QED
    BY <1>1, <1>2

\* What is read if c stands before what is read behind it.
CharThen(c, read) == [text |-> <<c>> \o read.text, next |-> read.next]

\* Where a character was printed, that character is read.
LEMMA ReadChar ==
  ASSUME NEW s \in Seq(Byte), NEW chars, NEW i \in Nat, ReadsChars(chars, s, i),
         NEW c \in Byte \ {0}, NEW j \in Nat, i <= j, Stands(s, j, Escape(c))
  PROVE  chars[j] = CharThen(c, chars[j + Len(Escape(c))])
  <1> DEFINE k == j + Len(Escape(c))
  <1>1. Escape(c) \in Seq(Byte) /\ Len(s) \in Nat /\ c \in Nat /\ c <= 255
    <2>1. c \in Byte /\ c \in Nat /\ c <= 255
      BY DEF Byte
    <2> QED
      BY <2>1, EscapeFits, LenProperties
  <1>2. /\ j + Len(Escape(c)) <= Len(s) + 1
        /\ \A m \in 0 .. Len(Escape(c)) - 1 : s[j + m] = Escape(c)[m + 1]
    BY DEF Stands
  <1>3. Len(Escape(c)) >= 1 => chars[j] = OneChar(s, chars, j)
    <2> DEFINE n == Len(Escape(c))
    <2>1. n \in Nat /\ j + n <= Len(s) + 1
      BY <1>1, <1>2, LenProperties
    <2> HIDE DEF n
    <2>2. n >= 1 => j \in i .. Len(s) + 6
      BY <1>1, <2>1
    <2> QED
      BY <2>2 DEF ReadsChars, n
  <1>4. SUFFICES /\ Len(Escape(c)) >= 1
                 /\ At(s, j) \notin {Quote, 0}
                 /\ Char(s, j) = <<c>>
                 /\ NextChar(s, j) = k
    BY <1>3, Zenon DEF OneChar, CharThen
  <1>5. CASE c \in Short
    <2>1. Escape(c) = <<Backslash, Letter(c)>>
      BY <1>5 DEF Escape
    <2>2. Len(Escape(c)) = 2 /\ s[j] = Backslash /\ s[j + 1] = Letter(c)
      <3>1. Len(Escape(c)) = 2 /\ Escape(c)[1] = Backslash /\ Escape(c)[2] = Letter(c)
        BY <2>1
      <3>2. s[j + 0] = Escape(c)[0 + 1] /\ s[j + 1] = Escape(c)[1 + 1]
        BY <1>2, <3>1
      <3> QED
        BY <3>1, <3>2
    <2>3. At(s, j) = Backslash /\ At(s, j + 1) = Letter(c)
      BY <1>1, <1>2, <2>2 DEF At
    <2>4. Unescape(s, j + 1) = <<c>>
      <3>1. Letter(c) # 117
        BY <1>5, Letters
      <3>2. (CHOOSE d \in Short : Letter(d) = Letter(c)) = c
        BY <1>5, Letters
      <3> QED
        BY <1>5, <2>3, <3>1, <3>2 DEF Unescape
    <2>5. Letter(c) # 117
      BY <1>5, Letters
    <2> QED
      BY <2>2, <2>3, <2>4, <2>5 DEF Char, NextChar, Backslash, Quote
  <1>6. CASE c \notin Short /\ c < 32
    <2> DEFINE h == c \div 16
               l == c % 16
    <2>1. Escape(c) = <<Backslash, 117, 48, 48, HexDigit(h), HexDigit(l)>>
      BY <1>6 DEF Escape
    <2>2. h \in 0 .. 15 /\ l \in 0 .. 15 /\ h * 16 + l = c
      <3>1. h \in 0 .. 15
        BY <1>1, <1>6
      <3>2. l \in 0 .. 15
        BY <1>1
      <3>3. h * 16 + l = c
        BY <1>1
      <3> QED
        BY <3>1, <3>2, <3>3
    <2> HIDE DEF h, l
    <2>3. /\ Len(Escape(c)) = 6 /\ Escape(c)[1] = Backslash /\ Escape(c)[2] = 117
          /\ Escape(c)[5] = HexDigit(h) /\ Escape(c)[6] = HexDigit(l)
      BY <2>1
    <2>4. /\ s[j + 0] = Escape(c)[0 + 1] /\ s[j + 1] = Escape(c)[1 + 1]
          /\ s[j + 4] = Escape(c)[4 + 1] /\ s[j + 5] = Escape(c)[5 + 1]
      BY <1>2, <2>3
    <2>5. /\ At(s, j) = Backslash /\ At(s, j + 1) = 117
          /\ At(s, (j + 1) + 3) = HexDigit(h) /\ At(s, (j + 1) + 4) = HexDigit(l)
      <3>1. j <= Len(s) /\ j + 1 <= Len(s) /\ (j + 1) + 3 <= Len(s) /\ (j + 1) + 4 <= Len(s)
        BY <1>1, <1>2, <2>3
      <3>2. (j + 1) + 3 = j + 4 /\ (j + 1) + 4 = j + 5 /\ j + 0 = j
        OBVIOUS
      <3> QED
        BY <2>3, <2>4, <3>1, <3>2 DEF At
    <2>6. Unescape(s, j + 1) = <<c>>
      <3>1. HexValue(HexDigit(h)) * 16 + HexValue(HexDigit(l)) = c
        BY <2>2, HexRead
      <3> QED
        BY <2>5, <3>1 DEF Unescape
    <2> QED
      BY <2>3, <2>5, <2>6 DEF Char, NextChar, Backslash, Quote
  <1>7. CASE c \notin Short /\ ~(c < 32)
    <2>1. Escape(c) = <<c>>
      BY <1>7 DEF Escape
    <2>2. Len(Escape(c)) = 1 /\ s[j] = c
      <3>1. Len(Escape(c)) = 1 /\ Escape(c)[1] = c
        BY <2>1
      <3>2. s[j + 0] = Escape(c)[0 + 1]
        BY <1>2, <3>1
      <3> QED
        BY <3>1, <3>2
    <2>3. At(s, j) = c
      BY <1>1, <1>2, <2>2 DEF At
    <2> QED
      BY <1>7, <2>2, <2>3 DEF Char, NextChar, Short
  <1> QED
    BY <1>5, <1>6, <1>7

\* A text that is not empty is its first byte and the rest.
LEMMA FirstAndRest ==
  ASSUME NEW S, NEW t \in Seq(S), t # <<>>
  PROVE  /\ t[1] \in S /\ Tail(t) \in Seq(S) /\ Len(Tail(t)) = Len(t) - 1
         /\ t = <<t[1]>> \o Tail(t)
         /\ \A i \in 1 .. Len(t) - 1 : Tail(t)[i] = t[i + 1]
  <1>1. Len(t) \in Nat \ {0}
    BY EmptySeq
  <1>2. /\ t[1] \in S /\ Tail(t) \in Seq(S) /\ Len(Tail(t)) = Len(t) - 1
        /\ \A i \in 1 .. Len(Tail(t)) : Tail(t)[i] = t[i + 1]
        /\ Tail(t) = SubSeq(t, 2, Len(t))
    BY <1>1, ElementOfSeq, HeadTailProperties, TailIsSubSeq
  <1>3. 1 \in 1 .. Len(t) /\ Len(t) \in 1 .. Len(t)
    BY <1>1
  <1>4. SubSeq(t, 1, Len(t)) = <<t[1]>> \o SubSeq(t, 1 + 1, Len(t))
    BY <1>3, SubSeqRecursiveFirst
  <1>5. SubSeq(t, 1, Len(t)) = t
    BY SubSeqFull
  <1> QED
    BY <1>2, <1>4, <1>5

\* What is printed between the quotes.
EscapedText(str) == FlattenSeq([i \in DOMAIN str |-> Escape(str[i])])

\* It begins with what is printed for the first character.
LEMMA EscapedHead ==
  ASSUME NEW str \in CString, str # <<>>
  PROVE  /\ str[1] \in Byte \ {0} /\ Tail(str) \in CString
         /\ Escape(str[1]) \in Seq(Byte) /\ EscapedText(Tail(str)) \in Seq(Byte)
         /\ EscapedText(str) = Escape(str[1]) \o EscapedText(Tail(str))
  <1> DEFINE n == Len(str)
             e == [i \in DOMAIN str |-> Escape(str[i])]
             rest == Tail(str)
             d == [i \in DOMAIN rest |-> Escape(rest[i])]
  <1>1. /\ str[1] \in Byte \ {0} /\ rest \in CString /\ Len(rest) = n - 1
        /\ \A i \in 1 .. n - 1 : rest[i] = str[i + 1]
    BY FirstAndRest DEF CString
  <1>2. n \in Nat \ {0} /\ DOMAIN str = 1 .. n /\ DOMAIN rest = 1 .. n - 1
    BY <1>1, EmptySeq, LenProperties DEF CString
  <1>3. \A c \in Byte : Escape(c) \in Seq(Byte)
    BY EscapeFits
  <1>4. e \in Seq(Seq(Byte)) /\ Len(e) = n /\ \A i \in 1 .. n : e[i] = Escape(str[i])
    <2>1. \A i \in DOMAIN str : Escape(str[i]) \in Seq(Byte)
      BY <1>3, CStringIsText
    <2> HIDE DEF n
    <2> QED
      BY <1>2, <2>1
  <1>5. d \in Seq(Seq(Byte)) /\ Len(d) = n - 1 /\ \A i \in 1 .. n - 1 : d[i] = Escape(rest[i])
    <2>1. \A i \in DOMAIN rest : Escape(rest[i]) \in Seq(Byte)
      BY <1>1, <1>3, CStringIsText
    <2> HIDE DEF n, rest
    <2> QED
      BY <1>2, <2>1
  <1> HIDE DEF e, d, rest, n
  <1>6. e # <<>>
    BY <1>2, <1>4, EmptySeq
  <1>7. Tail(e) \in Seq(Seq(Byte)) /\ FlattenSeq(e) = e[1] \o FlattenSeq(Tail(e))
    BY <1>4, <1>6, FlattenHead
  <1>8. Tail(e) = d
    <2> DEFINE S == Seq(Byte)
               f == Tail(e)
    <2> HIDE DEF S
    <2>1. e \in Seq(S)
      BY <1>4 DEF S
    <2>2. /\ f \in Seq(S) /\ Len(f) = Len(e) - 1
          /\ \A i \in 1 .. Len(e) - 1 : f[i] = e[i + 1]
      BY <1>6, <2>1, FirstAndRest
    <2> HIDE DEF f
    <2>3. ASSUME NEW i \in 1 .. n - 1
          PROVE  f[i] = d[i]
      <3>1. i + 1 \in 1 .. n /\ i \in 1 .. Len(e) - 1
        BY <1>2, <1>4
      <3>2. f[i] = e[i + 1]
        BY <2>2, <3>1
      <3>3. e[i + 1] = Escape(str[i + 1]) /\ d[i] = Escape(rest[i]) /\ rest[i] = str[i + 1]
        BY <1>1, <1>4, <1>5, <3>1
      <3> QED
        BY <3>2, <3>3, Zenon
    <2>4. d \in Seq(S)
      BY <1>5 DEF S
    <2>5. Len(f) = n - 1
      BY <1>4, <2>2
    <2>6. f = d
      BY <1>5, <2>2, <2>3, <2>4, <2>5, SeqEqual
    <2> QED
      BY <2>6 DEF f
  <1>9. EscapedText(str) = FlattenSeq(e) /\ EscapedText(rest) = FlattenSeq(d)
    BY DEF EscapedText, e, d
  <1>10. e[1] = Escape(str[1])
    BY <1>2, <1>4
  <1>11. FlattenSeq(d) \in Seq(Byte)
    BY <1>5, FlattenType
  <1> QED
    BY <1>1, <1>3, <1>7, <1>8, <1>9, <1>10, <1>11 DEF rest

\* What is printed between the quotes is a text.
LEMMA EscapedIsText ==
  ASSUME NEW str \in CString
  PROVE  EscapedText(str) \in Seq(Byte)
  <1>1. \A k \in DOMAIN str : Escape(str[k]) \in Seq(Byte)
    BY CStringIsText, EscapeFits
  <1>2. DOMAIN str = 1 .. Len(str) /\ Len(str) \in Nat
    BY LenProperties DEF CString
  <1>3. [k \in DOMAIN str |-> Escape(str[k])] \in Seq(Seq(Byte))
    BY <1>1, <1>2
  <1> QED
    BY <1>3, FlattenType DEF EscapedText

\* Where a string was printed, that string is read, up to the closing quote.
LEMMA StringRead ==
  ASSUME NEW s \in Seq(Byte), NEW i \in Nat \ {0}, NEW str \in CString,
         Stands(s, i, EscapedText(str) \o <<Quote>>)
  PROVE  ParseString(s, i) = [text |-> str, next |-> i + Len(EscapedText(str)) + 1]
  <1> DEFINE n == Len(s) + 6
             Read(chars, t, j) ==
               chars[j] = [text |-> t, next |-> j + Len(EscapedText(t)) + 1]
  <1>1. Len(s) \in Nat /\ Quote \in Byte /\ <<Quote>> \in Seq(Byte)
    <2>1. Quote \in Byte
      BY DEF Quote, Byte
    <2> QED
      BY <2>1, LenProperties
  <1>2. \A t \in CString : EscapedText(t) \in Seq(Byte)
    BY EscapedIsText
  <1>3. i \in 1 .. Len(s) + 6
    <2>1. EscapedText(str) \o <<Quote>> \in Seq(Byte)
      BY <1>1, <1>2, ConcatProperties
    <2>2. Len(EscapedText(str) \o <<Quote>>) \in Nat
      BY <2>1, LenProperties
    <2> QED
      BY <1>1, <2>2 DEF Stands
  <1>4. PICK chars : ReadsChars(chars, s, i) /\ ParseString(s, i) = chars[i]
    BY <1>3, ParsesChars
  <1> DEFINE T == {k \in Nat : \A t \in CString : \A j \in Nat :
                     /\ i <= j /\ Len(t) = k /\ Stands(s, j, EscapedText(t) \o <<Quote>>)
                     => Read(chars, t, j)}
  <1>5. 0 \in T
    <2> SUFFICES ASSUME NEW t \in CString, NEW j \in Nat, i <= j, Len(t) = 0,
                        Stands(s, j, EscapedText(t) \o <<Quote>>)
                 PROVE  Read(chars, t, j)
      OBVIOUS
    <2>1. t = <<>>
      BY EmptySeq DEF CString
    <2>2. EscapedText(t) = <<>>
      <3>1. [k \in DOMAIN t |-> Escape(t[k])] = <<>>
        BY <2>1, EmptySeq
      <3> QED
        BY <3>1, FlattenEmpty DEF EscapedText
    <2>3. Stands(s, j, <<Quote>>)
      BY <1>1, <2>2, ConcatEmptySeq
    <2>4. j \in 1 .. Len(s) /\ At(s, j) = Quote
      BY <1>1, <2>3, StandsByte
    <2>5. chars[j] = OneChar(s, chars, j)
      <3>1. j \in i .. Len(s) + 6
        BY <1>1, <2>4
      <3> QED
        BY <1>4, <3>1 DEF ReadsChars
    <2>6. chars[j] = [text |-> <<>>, next |-> j + 1]
      BY <2>4, <2>5 DEF OneChar
    <2>7. Len(EscapedText(t)) = 0
      BY <2>2, EmptySeq
    <2> QED
      BY <2>1, <2>6, <2>7
  <1>6. ASSUME NEW k \in Nat, k \in T
        PROVE  k + 1 \in T
    <2> SUFFICES ASSUME NEW t \in CString, NEW j \in Nat, i <= j, Len(t) = k + 1,
                        Stands(s, j, EscapedText(t) \o <<Quote>>)
                 PROVE  Read(chars, t, j)
      OBVIOUS
    <2> DEFINE c == t[1]
               u == Tail(t)
               m == j + Len(Escape(c))
    <2>1. t # <<>>
      BY EmptySeq DEF CString
    <2>2. /\ c \in Byte \ {0} /\ u \in CString
          /\ Escape(c) \in Seq(Byte) /\ EscapedText(u) \in Seq(Byte)
          /\ EscapedText(t) = Escape(c) \o EscapedText(u)
      BY <2>1, EscapedHead
    <2>3. Len(u) = k /\ t = <<c>> \o u
      BY <2>1, FirstAndRest DEF CString
    <2> HIDE DEF c, u
    <2>4. (Escape(c) \o EscapedText(u)) \o <<Quote>> = Escape(c) \o (EscapedText(u) \o <<Quote>>)
      BY <1>1, <2>2, ConcatAssociative
    <2>5. EscapedText(u) \o <<Quote>> \in Seq(Byte)
      BY <1>1, <2>2, ConcatProperties
    <2>6. Stands(s, j, Escape(c)) /\ Stands(s, m, EscapedText(u) \o <<Quote>>)
      BY <2>2, <2>4, <2>5, StandsConcat
    <2>7. Len(Escape(c)) \in Nat
      BY <2>2, LenProperties
    <2>8. m \in Nat /\ i <= m
      BY <2>7
    <2>9. chars[m] = [text |-> u, next |-> m + Len(EscapedText(u)) + 1]
      <3>1. \A v \in CString : \A p \in Nat :
               /\ i <= p /\ Len(v) = k /\ Stands(s, p, EscapedText(v) \o <<Quote>>)
               => chars[p] = [text |-> v, next |-> p + Len(EscapedText(v)) + 1]
        BY <1>6
      <3> HIDE DEF m
      <3> QED
        BY <2>2, <2>3, <2>6, <2>8, <3>1, Zenon
    <2>10. chars[j] = [text |-> <<c>> \o chars[m].text, next |-> chars[m].next]
      <3>1. i \in Nat
        OBVIOUS
      <3>2. c \in Byte \ {0} /\ Stands(s, j, Escape(c)) /\ ReadsChars(chars, s, i)
        BY <1>4, <2>2, <2>6
      <3>3. chars[j] = CharThen(c, chars[j + Len(Escape(c))])
        BY <3>1, <3>2, ReadChar, Zenon
      <3> QED
        BY <3>3 DEF CharThen
    <2>11. Len(EscapedText(t)) = Len(Escape(c)) + Len(EscapedText(u)) /\ Len(EscapedText(u)) \in Nat
      BY <2>2, ConcatIndex
    <2>12. m + Len(EscapedText(u)) + 1 = j + Len(EscapedText(t)) + 1
      BY <2>7, <2>11
    <2>13. chars[m].text = u /\ chars[m].next = m + Len(EscapedText(u)) + 1
      BY <2>9
    <2>14. chars[j] = [text |-> t, next |-> j + Len(EscapedText(t)) + 1]
      <3> HIDE DEF m
      <3> QED
        BY <2>3, <2>10, <2>12, <2>13, Zenon
    <2> QED
      BY <2>14
  <1>7. Len(str) \in T
    <2> HIDE DEF T
    <2>1. \A k \in Nat : k \in T
      BY <1>5, <1>6, NatSet
    <2> QED
      BY <2>1, LenProperties DEF CString
  <1> QED
    BY <1>4, <1>7
------------------------------------------------------------------------------
\* What is read of each type of list from each place on, if below is what is read
\* where fewer bytes are left.
Lists(s, below, n) ==
  [type \in DOMAIN Close |->
     [i \in 1 .. Len(s) + 1 |-> IF n = 0 THEN Failure ELSE ParseList(s, below, type, i)]]

\* lists is what is read by bytes left.
ReadsLists(lists, s) == \A n \in 0 .. Len(s) : lists[n] = Lists(s, lists[n - 1], n)

\* Where no byte is left, nothing more is looked at.
LEMMA NoListsLeft ==
  ASSUME NEW s, NEW f, NEW g
  PROVE  Lists(s, f, 0) = Lists(s, g, 0)
  BY DEF Lists

\* cJSON_Parse reads by bytes left.
LEMMA ParsesLists ==
  ASSUME NEW s \in Seq(Byte)
  PROVE  \E lists : /\ ReadsLists(lists, s)
                    /\ Parse(s) = ParseValue(s, lists[Len(s)], Skip(s, 1))
  <1> DEFINE m == Len(s)
             D == 0 .. m
             Eq(g) == g = [n \in D |-> Lists(s, g[n - 1], n)]
             F == CHOOSE g : Eq(g)
             Has(g, k) == \A n \in 0 .. k : g[n] = Lists(s, g[n - 1], n)
             T == {k \in Nat : \E g : Has(g, k)}
  <1>1. m \in Nat
    BY LenProperties
  <1>2. Parse(s) = ParseValue(s, F[m], Skip(s, 1))
    BY Zenon DEF Parse, Lists
  <1> HIDE DEF m
  <1>3. 0 \in T
    <2> DEFINE g == [n \in {0} |-> Lists(s, <<>>, 0)]
    <2>1. g[0] = Lists(s, <<>>, 0)
      OBVIOUS
    <2> HIDE DEF g
    <2>2. g[0] = Lists(s, g[0 - 1], 0)
      BY <2>1, NoListsLeft, Zenon
    <2>3. 0 .. 0 = {0}
      OBVIOUS
    <2>4. Has(g, 0)
      BY <2>2, <2>3, Zenon
    <2> QED
      BY <2>4
  <1>4. ASSUME NEW k \in 0 .. m - 1, k \in T
        PROVE  k + 1 \in T
    <2>1. PICK g : Has(g, k)
      BY <1>4
    <2> DEFINE h == [n \in 0 .. k + 1 |-> IF n = k + 1 THEN Lists(s, g[k], n) ELSE g[n]]
    <2>2. h[k + 1] = Lists(s, g[k], k + 1) /\ \A n \in 0 .. k : h[n] = g[n]
      BY <1>1
    <2> HIDE DEF h
    <2>3. ASSUME NEW n \in 0 .. k + 1
          PROVE  h[n] = Lists(s, h[n - 1], n)
      <3>1. CASE n = k + 1
        <4>1. n - 1 = k /\ k \in 0 .. k
          BY <1>1, <3>1
        <4>2. h[n - 1] = g[k] /\ h[n] = Lists(s, g[k], n)
          BY <2>2, <3>1, <4>1, Zenon
        <4> QED
          BY <4>2, Zenon
      <3>2. CASE n = 0
        <4>1. n \in 0 .. k
          BY <1>1, <3>2
        <4>2. h[n] = Lists(s, g[n - 1], n)
          BY <2>1, <2>2, <4>1, Zenon
        <4>3. Lists(s, g[n - 1], n) = Lists(s, h[n - 1], n)
          BY <3>2, NoListsLeft, Zenon
        <4> QED
          BY <4>2, <4>3, Zenon
      <3>3. CASE n # k + 1 /\ n # 0
        <4>1. n \in 0 .. k /\ n - 1 \in 0 .. k
          BY <1>1, <3>3
        <4> QED
          BY <2>1, <2>2, <4>1, Zenon
      <3> QED
        BY <3>1, <3>2, <3>3
    <2>4. k + 1 \in Nat
      BY <1>1
    <2> QED
      BY <2>3, <2>4
  <1>5. m \in T
    <2> HIDE DEF T
    <2>1. \A k \in 0 .. m : k \in T
      BY <1>1, <1>3, <1>4, UpTo
    <2> QED
      BY <1>1, <2>1
  <1>6. PICK g : Has(g, m)
    BY <1>5
  <1>7. Eq([n \in D |-> g[n]])
    <2> DEFINE f == [n \in D |-> g[n]]
    <2>1. \A n \in D : f[n] = g[n]
      OBVIOUS
    <2> HIDE DEF f
    <2>2. ASSUME NEW n \in D
          PROVE  g[n] = Lists(s, f[n - 1], n)
      <3>1. g[n] = Lists(s, g[n - 1], n)
        BY <1>6
      <3>2. CASE n = 0
        <4>1. Lists(s, g[n - 1], n) = Lists(s, f[n - 1], n)
          BY <3>2, NoListsLeft, Zenon
        <4> QED
          BY <3>1, <4>1, Zenon
      <3>3. CASE n # 0
        <4>1. n - 1 \in D
          BY <1>1, <3>3
        <4> QED
          BY <2>1, <3>1, <4>1, Zenon
      <3> QED
        BY <3>2, <3>3
    <2>3. f = [n \in D |-> Lists(s, f[n - 1], n)]
      <3>1. [n \in D |-> g[n]] = [n \in D |-> Lists(s, f[n - 1], n)]
        BY <2>2
      <3> QED
        BY <3>1, Zenon DEF f
    <2> QED
      BY <2>3 DEF f
  <1>8. Eq(F)
    <2> HIDE DEF Eq
    <2> QED
      BY <1>7
  <1> HIDE DEF F
  <1>9. \A n \in D : F[n] = Lists(s, F[n - 1], n)
    BY <1>8, Zenon
  <1> QED
    BY <1>2, <1>9 DEF ReadsLists, m
------------------------------------------------------------------------------
\* An item, and the same without its name in an object.
IsItem(item) ==
  item = [type |-> item.type, string |-> item.string,
          valuestring |-> item.valuestring, child |-> item.child]

Unnamed(item) == [item EXCEPT !.string = <<>>]

\* A text that begins with a byte that begins a value.
Begins(text) == text \in Seq(Byte) /\ text # <<>> /\ text[1] \in {Quote, 91, 123}

\* Wherever text stands, and enough lists are read behind it, item is read from it,
\* as a value ...
ReadAs(text, item) ==
  \A s \in Seq(Byte) : \A lists : \A n \in Nat, i \in Nat :
    /\ ReadsLists(lists, s) /\ n <= Len(s)
    /\ Stands(s, i, text) /\ Len(s) <= n + i
    => ParseValue(s, lists[n], i) = Found(Unnamed(item), i + Len(text))

\* ... and as one of a list.
ReadIn(type, text, item) ==
  \A s \in Seq(Byte) : \A lists : \A n \in Nat, i \in Nat :
    /\ ReadsLists(lists, s) /\ n <= Len(s)
    /\ Stands(s, i, text) /\ Len(s) <= n + i
    => ParseItem(s, lists[n], type, i) = Found(item, i + Len(text))

\* The name of an item is all that Unnamed takes from it.
LEMMA Renamed ==
  ASSUME NEW item, IsItem(item)
  PROVE  /\ [Unnamed(item) EXCEPT !.string = item.string] = item
         /\ item.string = <<>> => Unnamed(item) = item
         /\ Unnamed(item) = [type |-> item.type, string |-> <<>>,
                             valuestring |-> item.valuestring, child |-> item.child]
  <1> DEFINE t == item.type
             n == item.string
             v == item.valuestring
             c == item.child
  <1>1. item = [type |-> t, string |-> n, valuestring |-> v, child |-> c]
    BY DEF IsItem
  <1> HIDE DEF t, n, v, c
  <1>2. Unnamed(item) = [type |-> t, string |-> <<>>, valuestring |-> v, child |-> c]
    BY <1>1 DEF Unnamed
  <1>3. [Unnamed(item) EXCEPT !.string = n] = item
    BY <1>1, <1>2
  <1>4. n = <<>> => Unnamed(item) = item
    BY <1>1, <1>2
  <1> QED
    BY <1>2, <1>3, <1>4 DEF t, n, v, c

\* A text between two bytes begins with the first of them.
LEMMA BetweenBegins ==
  ASSUME NEW open \in Byte, NEW text \in Seq(Byte), NEW close \in Byte
  PROVE  LET whole == Between(open, text, close)
         IN  whole \in Seq(Byte) /\ whole # <<>> /\ whole[1] = open
  <1> DEFINE o == <<open>>
             c == <<close>>
             whole == Between(open, text, close)
  <1>1. o \in Seq(Byte) /\ o # <<>> /\ o[1] = open /\ c \in Seq(Byte)
    <2>1. Len(o) = 1 /\ Len(<<>>) = 0
      BY EmptySeq
    <2> QED
      BY <2>1
  <1>2. whole = (o \o text) \o c
    BY DEF Between
  <1> HIDE DEF o, c, whole
  <1>3. (o \o text) \o c \in Seq(Byte) /\ (o \o text) \o c # <<>>
        /\ ((o \o text) \o c)[1] = o[1]
    <2>1. JoinedThree(o, text, c)
      BY <1>1, JoinThree
    <2> QED
      BY <1>1, <2>1 DEF JoinedThree
  <1> QED
    BY <1>1, <1>2, <1>3 DEF whole

\* A text between two bytes, where it stands.
Bracketed(s, i, open, text, close) ==
  /\ i \in 1 .. Len(s) /\ At(s, i) = open
  /\ Stands(s, i + 1, text \o <<close>>)
  /\ Len(text) \in Nat /\ Len(Between(open, text, close)) = Len(text) + 2

LEMMA StandsBetween ==
  ASSUME NEW s \in Seq(Byte), NEW i, NEW open \in Byte, NEW text \in Seq(Byte),
         NEW close \in Byte, Stands(s, i, Between(open, text, close))
  PROVE  Bracketed(s, i, open, text, close)
  <1> DEFINE o == <<open>>
             c == <<close>>
  <1>1. o \in Seq(Byte) /\ Len(o) = 1 /\ c \in Seq(Byte) /\ Len(c) = 1
    OBVIOUS
  <1>2. Between(open, text, close) = (o \o text) \o c
    BY DEF Between
  <1>3. Stands(s, i, <<open>>) = Stands(s, i, o)
    OBVIOUS
  <1>4. c = <<close>>
    OBVIOUS
  <1> HIDE DEF o, c
  <1>5. /\ (o \o text) \o c = o \o (text \o c)
        /\ Len((o \o text) \o c) = Len(o) + Len(text) + Len(c)
        /\ text \o c \in Seq(Byte) /\ Len(text) \in Nat
    <2>1. JoinedThree(o, text, c)
      BY <1>1, JoinThree
    <2> QED
      BY <2>1 DEF JoinedThree
  <1>6. Stands(s, i, o) /\ Stands(s, i + Len(o), text \o c)
    BY <1>1, <1>2, <1>5, StandsConcat
  <1>7. i \in 1 .. Len(s) /\ At(s, i) = open
    BY <1>3, <1>6, StandsByte
  <1> QED
    BY <1>1, <1>2, <1>4, <1>5, <1>6, <1>7 DEF Bracketed

\* A printed string is read.
LEMMA PrintedStringRead ==
  ASSUME NEW s \in Seq(Byte), NEW i, NEW str \in CString, Stands(s, i, PrintString(str))
  PROVE  /\ i \in 1 .. Len(s) /\ At(s, i) = Quote
         /\ ParseString(s, i + 1) = [text |-> str, next |-> i + Len(PrintString(str))]
  <1>1. EscapedText(str) \in Seq(Byte) /\ Quote \in Byte
    BY EscapedIsText DEF Quote, Byte
  <1>2. PrintString(str) = Between(Quote, EscapedText(str), Quote)
    BY DEF PrintString, EscapedText
  <1>3. /\ i \in 1 .. Len(s) /\ At(s, i) = Quote
        /\ Stands(s, i + 1, EscapedText(str) \o <<Quote>>)
        /\ Len(EscapedText(str)) \in Nat /\ Len(PrintString(str)) = Len(EscapedText(str)) + 2
    <2>1. Stands(s, i, Between(Quote, EscapedText(str), Quote))
      BY <1>2
    <2>2. Bracketed(s, i, Quote, EscapedText(str), Quote)
      BY <1>1, <2>1, StandsBetween, Zenon
    <2> QED
      BY <1>2, <2>2, Zenon DEF Bracketed
  <1>4. i + 1 \in Nat \ {0}
    BY <1>3
  <1>5. ParseString(s, i + 1) = [text |-> str, next |-> (i + 1) + Len(EscapedText(str)) + 1]
    BY <1>3, <1>4, StringRead
  <1>6. (i + 1) + Len(EscapedText(str)) + 1 = i + Len(PrintString(str))
    BY <1>3
  <1> QED
    BY <1>3, <1>5, <1>6, Zenon

\* It begins with a quote.
LEMMA PrintedBegins ==
  ASSUME NEW str \in CString
  PROVE  Begins(PrintString(str))
  <1>1. EscapedText(str) \in Seq(Byte) /\ Quote \in Byte
    BY EscapedIsText DEF Quote, Byte
  <1>2. PrintString(str) = Between(Quote, EscapedText(str), Quote)
    BY DEF PrintString, EscapedText
  <1> QED
    <2> DEFINE b == Between(Quote, EscapedText(str), Quote)
    <2>1. b \in Seq(Byte) /\ b # <<>> /\ b[1] = Quote
      BY <1>1, BetweenBegins
    <2> HIDE DEF b
    <2> QED
      BY <1>2, <2>1 DEF Begins, b

\* The same as a value.
LEMMA StringReadAs ==
  ASSUME NEW item, IsItem(item), item.type = "String", item.child = <<>>,
         item.valuestring \in CString
  PROVE  ReadAs(PrintString(item.valuestring), item)
  <1> DEFINE str == item.valuestring
  <1> SUFFICES ASSUME NEW s \in Seq(Byte), NEW lists, NEW i \in Nat,
                      Stands(s, i, PrintString(str))
               PROVE  ParseValue(s, lists, i) = Found(Unnamed(item), i + Len(PrintString(str)))
    BY DEF ReadAs
  <1>1. Unnamed(item) = CreateString(str)
    BY Renamed DEF CreateString, CreateItem
  <1> HIDE DEF str
  <1>2. /\ i \in 1 .. Len(s) /\ At(s, i) = Quote
        /\ ParseString(s, i + 1) = [text |-> str, next |-> i + Len(PrintString(str))]
    BY PrintedStringRead DEF str
  <1>3. ParseValue(s, lists, i) = Found(CreateString(str), i + Len(PrintString(str)))
    BY <1>2 DEF ParseValue, Quote
  <1> QED
    BY <1>1, <1>3
------------------------------------------------------------------------------
\* The text of an item of a list: a member of an object has its name in front.
ItemText(type, item, text) ==
  IF type = "Array" THEN text ELSE (PrintString(item.string) \o <<58>>) \o text

\* What is read as a value is read as an item of a list: of an array, if it has no
\* name, and of an object with its name.
LEMMA ReadAsItem ==
  ASSUME NEW item, IsItem(item), item.string \in CString,
         NEW text, Begins(text), ReadAs(text, item),
         NEW type \in {"Array", "Object"}, type = "Array" => item.string = <<>>
  PROVE  Begins(ItemText(type, item, text)) /\ ReadIn(type, ItemText(type, item, text), item)
  <1>1. CASE type = "Array"
    <2>1. ItemText(type, item, text) = text /\ Unnamed(item) = item
      BY <1>1, Renamed DEF ItemText
    <2>2. ReadIn(type, text, item)
      <3> SUFFICES ASSUME NEW s \in Seq(Byte), NEW lists, NEW n \in Nat, NEW i \in Nat,
                          ReadsLists(lists, s), n <= Len(s),
                          Stands(s, i, text), Len(s) <= n + i
                   PROVE  ParseItem(s, lists[n], type, i) = Found(item, i + Len(text))
        BY DEF ReadIn
      <3>1. ParseValue(s, lists[n], i) = Found(item, i + Len(text))
        BY <2>1 DEF ReadAs
      <3> QED
        BY <1>1, <3>1 DEF ParseItem
    <2> QED
      BY <2>1, <2>2
  <1>2. CASE type = "Object"
    <2> DEFINE name == PrintString(item.string)
               colon == <<58>>
               head == name \o colon
               whole == head \o text
    <2>1. ItemText(type, item, text) = whole
      BY <1>2 DEF ItemText
    <2>2. name \in Seq(Byte) /\ name # <<>> /\ name[1] \in {Quote, 91, 123}
      BY PrintedBegins DEF Begins
    <2>3. colon \in Seq(Byte) /\ Len(colon) = 1 /\ 58 \in Byte
      BY DEF Byte
    <2>4. text \in Seq(Byte) /\ text # <<>> /\ text[1] \in {34, 91, 123}
      BY DEF Begins, Quote
    <2> HIDE DEF name, colon
    <2>5. /\ whole \in Seq(Byte) /\ whole # <<>> /\ whole[1] = name[1]
          /\ Len(whole) = Len(name) + 1 + Len(text)
          /\ Len(name) \in Nat /\ Len(text) \in Nat
      <3>1. JoinedThree(name, colon, text)
        BY <2>2, <2>3, <2>4, JoinThree
      <3> QED
        BY <2>2, <2>3, <3>1 DEF JoinedThree
    <2>6. head \in Seq(Byte) /\ Len(head) = Len(name) + 1
      <3>1. JoinedTwo(name, colon)
        BY <2>2, <2>3, JoinTwo
      <3> QED
        BY <2>3, <3>1 DEF JoinedTwo
    <2> HIDE DEF head
    <2>7. Begins(whole)
      BY <2>2, <2>5 DEF Begins
    <2>8. ReadIn(type, whole, item)
      <3> SUFFICES ASSUME NEW s \in Seq(Byte), NEW lists, NEW n \in Nat, NEW i \in Nat,
                          ReadsLists(lists, s), n <= Len(s),
                          Stands(s, i, whole), Len(s) <= n + i
                   PROVE  ParseItem(s, lists[n], type, i) = Found(item, i + Len(whole))
        BY DEF ReadIn
      <3> DEFINE c == i + Len(name)
                 v == c + 1
                 val == ParseValue(s, lists[n], v)
      <3>1. Stands(s, i, name) /\ Stands(s, c, colon) /\ Stands(s, v, text)
        <4>1. Stands(s, i, head) /\ Stands(s, i + Len(head), text)
          BY <2>4, <2>6, StandsConcat
        <4>2. Stands(s, i, name) /\ Stands(s, c, colon)
          BY <2>2, <2>3, <4>1, StandsConcat DEF head
        <4>3. i + Len(head) = v
          BY <2>5, <2>6
        <4> QED
          BY <4>1, <4>2, <4>3
      <3>2. /\ At(s, i) = Quote
            /\ ParseString(s, i + 1) = [text |-> item.string, next |-> c]
        BY <3>1, PrintedStringRead DEF name
      <3>3. c \in 1 .. Len(s) /\ s[c] = 58 /\ At(s, c) = 58
        BY <2>3, <3>1, StandsByte DEF colon
      <3>4. Skip(s, c) = c
        BY <3>3, SkipVisible
      <3>5. v \in 1 .. Len(s) /\ s[v] = text[1] /\ v \in Nat
        BY <2>4, <3>1, <3>3, StandsFirst
      <3>6. s[v] > 32
        BY <2>4, <3>5
      <3>7. Skip(s, v) = v
        BY <3>5, <3>6, SkipVisible
      <3>8. val = Found(Unnamed(item), v + Len(text))
        <4>1. Len(s) <= n + v
          BY <2>5, LenProperties
        <4> HIDE DEF v
        <4> QED
          BY <3>1, <3>5, <4>1 DEF ReadAs
      <3>9. val.next = v + Len(text) /\ val.items[1] = Unnamed(item)
        BY <3>8 DEF Found
      <3>10. v + Len(text) = i + Len(whole) /\ v + Len(text) # 0
        BY <2>5
      <3> HIDE DEF val, v, c, whole
      <3>11. ParseItem(s, lists[n], type, i) =
               Found([val.items[1] EXCEPT !.string = item.string], val.next)
        <4>1. type # "Array"
          BY <1>2
        <4>2. /\ ParseString(s, i + 1).text = item.string
              /\ Skip(s, ParseString(s, i + 1).next) = c
          BY <3>2, <3>4
        <4>3. ParseValue(s, lists[n], Skip(s, c + 1)) = val
          BY <3>7 DEF val, v
        <4>4. val.next # 0
          BY <3>9, <3>10
        <4> QED
          BY <3>2, <3>3, <4>1, <4>2, <4>3, <4>4, Zenon DEF ParseItem
      <3> QED
        BY <3>9, <3>10, <3>11, Renamed
    <2> QED
      BY <2>1, <2>7, <2>8
  <1> QED
    BY <1>1, <1>2
------------------------------------------------------------------------------
\* A function from 1 .. n on is a sequence.
LEMMA OfLength ==
  ASSUME NEW S, NEW n \in Nat, NEW f, f = [i \in 1 .. n |-> f[i]], \A i \in 1 .. n : f[i] \in S
  PROVE  f \in Seq(S) /\ Len(f) = n
  OBVIOUS

\* A list begins with the first of its texts; a comma separates it from the rest.
LEMMA ListedHead ==
  ASSUME NEW texts \in Seq(Seq(Byte)), texts # <<>>
  PROVE  /\ texts[1] \in Seq(Byte) /\ Tail(texts) \in Seq(Seq(Byte))
         /\ Tail(texts) = <<>> => Listed(texts) = texts[1]
         /\ Tail(texts) # <<>> => Listed(texts) = texts[1] \o (<<Comma>> \o Listed(Tail(texts)))
  <1> DEFINE S == Seq(Byte)
             n == Len(texts)
             rest == Tail(texts)
             e == [i \in DOMAIN texts |-> IF i = 1 THEN texts[i] ELSE <<Comma>> \o texts[i]]
             d == [i \in DOMAIN rest |-> IF i = 1 THEN rest[i] ELSE <<Comma>> \o rest[i]]
  <1>1. /\ texts[1] \in S /\ rest \in Seq(S) /\ Len(rest) = n - 1
        /\ \A i \in 1 .. n - 1 : rest[i] = texts[i + 1]
    <2> HIDE DEF S
    <2>1. texts \in Seq(S)
      BY DEF S
    <2> QED
      BY <2>1, FirstAndRest
  <1>2. n \in Nat \ {0} /\ DOMAIN texts = 1 .. n /\ DOMAIN rest = 1 .. n - 1
    BY <1>1, EmptySeq, LenProperties
  <1>3. \A t \in S : <<Comma>> \o t \in S
    <2>1. <<Comma>> \in Seq(Byte)
      BY DEF Comma, Byte
    <2> QED
      BY <2>1, JoinTwo DEF JoinedTwo
  <1>4. \A i \in 1 .. n : texts[i] \in S
    BY <1>2
  <1>5. \A i \in 1 .. n - 1 : rest[i] \in S
    <2> HIDE DEF S, rest, n
    <2> QED
      BY <1>1, <1>2
  <1> HIDE DEF S, n, rest
  <1>6. e \in Seq(S) /\ Len(e) = n /\ e[1] = texts[1]
        /\ \A i \in 2 .. n : e[i] = <<Comma>> \o texts[i]
    <2>1. \A i \in 1 .. n : e[i] \in S
      BY <1>2, <1>3, <1>4
    <2>2. e = [i \in 1 .. n |-> e[i]]
      BY <1>2
    <2>3. e[1] = texts[1] /\ \A i \in 2 .. n : e[i] = <<Comma>> \o texts[i]
      BY <1>2
    <2> HIDE DEF e
    <2>4. n \in Nat
      BY <1>2
    <2>5. e \in Seq(S) /\ Len(e) = n
      BY <2>1, <2>2, <2>4, OfLength
    <2> QED
      BY <2>3, <2>5, Zenon
  <1>7. d \in Seq(S) /\ Len(d) = n - 1 /\ (n > 1 => d[1] = rest[1])
        /\ \A i \in 2 .. n - 1 : d[i] = <<Comma>> \o rest[i]
    <2>1. \A i \in 1 .. n - 1 : d[i] \in S
      BY <1>2, <1>3, <1>5
    <2>2. d = [i \in 1 .. n - 1 |-> d[i]]
      BY <1>2
    <2>3. (n > 1 => d[1] = rest[1]) /\ \A i \in 2 .. n - 1 : d[i] = <<Comma>> \o rest[i]
      BY <1>2
    <2> HIDE DEF d
    <2>4. n - 1 \in Nat
      BY <1>2
    <2>5. d \in Seq(S) /\ Len(d) = n - 1
      BY <2>1, <2>2, <2>4, OfLength
    <2> QED
      BY <2>3, <2>5, Zenon
  <1>8. Listed(texts) = FlattenSeq(e) /\ Listed(rest) = FlattenSeq(d)
    BY Zenon DEF Listed
  <1> HIDE DEF e, d
  <1> DEFINE f == Tail(e)
  <1>9. /\ f \in Seq(S) /\ Len(f) = n - 1 /\ \A i \in 1 .. n - 1 : f[i] = e[i + 1]
        /\ FlattenSeq(e) = e[1] \o FlattenSeq(f)
    <2>1. e # <<>>
      BY <1>2, <1>6, EmptySeq
    <2>2. FlattenSeq(e) = e[1] \o FlattenSeq(f)
      BY <1>6, <2>1, FlattenHead DEF S
    <2> QED
      BY <1>6, <2>1, <2>2, FirstAndRest
  <1> HIDE DEF f
  <1>10. CASE n = 1
    <2>1. rest = <<>> /\ f = <<>>
      BY <1>1, <1>9, <1>10, EmptySeq
    <2>2. Listed(texts) = texts[1] \o <<>>
      BY <1>6, <1>8, <1>9, <2>1, FlattenEmpty
    <2>3. Listed(texts) = texts[1]
      BY <1>1, <2>2, ConcatEmptySeq DEF S
    <2> QED
      BY <1>1, <2>1, <2>3 DEF rest, S
  <1>11. CASE n > 1
    <2> DEFINE g == Tail(f)
               h == Tail(d)
    <2>1. f # <<>> /\ d # <<>> /\ rest # <<>>
      BY <1>1, <1>2, <1>7, <1>9, <1>11, EmptySeq
    <2>2. /\ g \in Seq(S) /\ Len(g) = n - 2 /\ \A i \in 1 .. n - 2 : g[i] = f[i + 1]
          /\ FlattenSeq(f) = f[1] \o FlattenSeq(g)
      <3>1. FlattenSeq(f) = f[1] \o FlattenSeq(g)
        BY <1>9, <2>1, FlattenHead DEF S
      <3>2. /\ g \in Seq(S) /\ Len(g) = Len(f) - 1
            /\ \A i \in 1 .. Len(f) - 1 : g[i] = f[i + 1]
        BY <1>9, <2>1, FirstAndRest
      <3>3. Len(f) - 1 = n - 2
        BY <1>2, <1>9
      <3> QED
        BY <3>1, <3>2, <3>3
    <2>3. /\ h \in Seq(S) /\ Len(h) = n - 2 /\ \A i \in 1 .. n - 2 : h[i] = d[i + 1]
          /\ FlattenSeq(d) = d[1] \o FlattenSeq(h)
      <3>1. FlattenSeq(d) = d[1] \o FlattenSeq(h)
        BY <1>7, <2>1, FlattenHead DEF S
      <3>2. /\ h \in Seq(S) /\ Len(h) = Len(d) - 1
            /\ \A i \in 1 .. Len(d) - 1 : h[i] = d[i + 1]
        BY <1>7, <2>1, FirstAndRest
      <3>3. Len(d) - 1 = n - 2
        BY <1>2, <1>7
      <3> QED
        BY <3>1, <3>2, <3>3
    <2> HIDE DEF g, h
    <2>4. g = h
      <3>1. ASSUME NEW i \in 1 .. n - 2
            PROVE  g[i] = h[i]
        <4>1. i + 1 \in 1 .. n - 1 /\ i + 1 \in 2 .. n - 1 /\ (i + 1) + 1 \in 2 .. n
          BY <1>2, <1>11
        <4>2. g[i] = <<Comma>> \o texts[(i + 1) + 1]
          BY <1>6, <1>9, <2>2, <4>1
        <4>3. h[i] = <<Comma>> \o rest[i + 1] /\ rest[i + 1] = texts[(i + 1) + 1]
          BY <1>1, <1>7, <2>3, <4>1
        <4> QED
          BY <4>2, <4>3, Zenon
      <3> QED
        BY <2>2, <2>3, <3>1, SeqEqual
    <2>5. f[1] = <<Comma>> \o rest[1] /\ d[1] = rest[1] /\ rest[1] \in S
      <3>1. 1 \in 1 .. n - 1 /\ 1 + 1 \in 2 .. n
        BY <1>2, <1>11
      <3>2. f[1] = e[1 + 1] /\ e[1 + 1] = <<Comma>> \o texts[1 + 1] /\ rest[1] = texts[1 + 1]
        BY <1>1, <1>6, <1>9, <3>1
      <3> QED
        BY <1>5, <1>7, <1>11, <3>1, <3>2
    <2>6. FlattenSeq(g) \in Seq(Byte)
      BY <2>2, FlattenType DEF S
    <2>7. (<<Comma>> \o rest[1]) \o FlattenSeq(g) = <<Comma>> \o (rest[1] \o FlattenSeq(g))
      <3>1. <<Comma>> \in Seq(Byte)
        BY DEF Comma, Byte
      <3>2. JoinedThree(<<Comma>>, rest[1], FlattenSeq(g))
        BY <2>5, <2>6, <3>1, JoinThree DEF S
      <3> QED
        BY <3>2 DEF JoinedThree
    <2>8. FlattenSeq(f) = <<Comma>> \o FlattenSeq(d)
      BY <2>2, <2>3, <2>4, <2>5, <2>7, Zenon
    <2>9. Listed(texts) = texts[1] \o (<<Comma>> \o Listed(rest))
      BY <1>6, <1>8, <1>9, <2>8, Zenon
    <2> QED
      BY <1>1, <2>1, <2>9 DEF rest, S
  <1>12. n = 1 \/ n > 1
    BY <1>2
  <1> QED
    BY <1>10, <1>11, <1>12, Zenon
------------------------------------------------------------------------------
\* Some items and their texts, each of which is read as one of a list.
ReadEach(type, texts, items) ==
  /\ texts \in Seq(Seq(Byte)) /\ Len(items) = Len(texts)
  /\ \A k \in 1 .. Len(texts) : Begins(texts[k]) /\ ReadIn(type, texts[k], items[k])

\* What is read of a list where some bytes are left.
LEMMA ListThere ==
  ASSUME NEW s \in Seq(Byte), NEW lists, ReadsLists(lists, s),
         NEW n \in 1 .. Len(s), NEW type \in {"Array", "Object"}, NEW i \in 1 .. Len(s) + 1
  PROVE  lists[n][type][i] = ParseList(s, lists[n - 1], type, i)
  <1>1. Len(s) \in Nat
    BY LenProperties
  <1>2. n \in 0 .. Len(s) /\ n # 0
    BY <1>1
  <1>3. lists[n] = Lists(s, lists[n - 1], n)
    BY <1>2 DEF ReadsLists
  <1>4. type \in DOMAIN Close
    BY DEF Close
  <1>5. Lists(s, lists[n - 1], n)[type][i] = ParseList(s, lists[n - 1], type, i)
    BY <1>2, <1>4 DEF Lists
  <1> QED
    BY <1>3, <1>5, Zenon

\* A list that is not empty.
LEMMA NotEmpty ==
  ASSUME NEW t, Len(t) # 0
  PROVE  t # <<>>
  <1>1. Len(<<>>) = 0
    BY EmptySeq
  <1> QED
    BY <1>1, Zenon

\* What is read of a list from i on, where n bytes are left.
ReadHere(lists, n, type, i, items, next) ==
  lists[n][type][i] = [items |-> items, next |-> next]

\* At i, where n bytes are left, an item is read as one of a list, up to end, where
\* the byte c is.
ReadsOne(s, lists, n, type, i, item, end, c) ==
  /\ n \in 1 .. Len(s) /\ end \in 1 .. Len(s)
  /\ lists[n][type][i] = ParseList(s, lists[n - 1], type, i)
  /\ ParseItem(s, lists[n - 1], type, i) = Found(item, end)
  /\ Skip(s, end) = end /\ At(s, end) = c

\* Such an item is read where its text stands.
LEMMA OneOfList ==
  ASSUME NEW s \in Seq(Byte), NEW lists, ReadsLists(lists, s),
         NEW n \in Nat, NEW i \in Nat, n <= Len(s), Len(s) < n + i,
         NEW type \in {"Array", "Object"},
         NEW text, NEW item, Begins(text), ReadIn(type, text, item), Stands(s, i, text),
         NEW c \in Byte, c > 32, Stands(s, i + Len(text), <<c>>)
  PROVE  ReadsOne(s, lists, n, type, i, item, i + Len(text), c)
  <1> DEFINE end == i + Len(text)
  <1>1. Len(s) \in Nat /\ text \in Seq(Byte) /\ text # <<>> /\ Len(text) \in Nat
    BY LenProperties DEF Begins
  <1>2. i \in 1 .. Len(s)
    BY <1>1, StandsFirst
  <1>3. end \in 1 .. Len(s) /\ s[end] = c /\ At(s, end) = c
    BY StandsByte
  <1>4. Skip(s, end) = end
    BY <1>3, SkipVisible
  <1>5. n \in 1 .. Len(s) /\ n - 1 \in Nat /\ n - 1 <= Len(s) /\ Len(s) <= (n - 1) + i
    BY <1>1, <1>2
  <1>6. ParseItem(s, lists[n - 1], type, i) = Found(item, end)
    BY <1>5 DEF ReadIn
  <1>7. i \in 1 .. Len(s) + 1
    BY <1>1, <1>2
  <1>8. lists[n][type][i] = ParseList(s, lists[n - 1], type, i)
    BY <1>5, <1>7, ListThere
  <1> QED
    BY <1>3, <1>4, <1>5, <1>6, <1>8 DEF ReadsOne

\* The last item of a list is all that is read of it.
LEMMA LastOfList ==
  ASSUME NEW s, NEW lists, NEW n, NEW type, NEW i, NEW item, NEW end,
         ReadsOne(s, lists, n, type, i, item, end, Close[type]), Len(s) \in Nat
  PROVE  ReadHere(lists, n, type, i, <<item>>, end + 1)
  <1> DEFINE one == ParseItem(s, lists[n - 1], type, i)
  <1>1. one.items = <<item>> /\ one.next = end /\ end # 0
    BY DEF ReadsOne, Found
  <1>2. Skip(s, one.next) = end /\ At(s, end) = Close[type]
    BY <1>1 DEF ReadsOne
  <1>3. ParseList(s, lists[n - 1], type, i) = [items |-> one.items, next |-> end + 1]
    BY <1>1, <1>2 DEF ParseList
  <1> HIDE DEF one
  <1> QED
    BY <1>1, <1>3, Zenon DEF ReadsOne, ReadHere

\* Behind another item, a comma, and all that is read behind the comma.
LEMMA NextOfList ==
  ASSUME NEW s, NEW lists, NEW n, NEW type \in {"Array", "Object"}, NEW i, NEW item, NEW end,
         ReadsOne(s, lists, n, type, i, item, end, Comma), Len(s) \in Nat,
         Skip(s, end + 1) = end + 1,
         NEW items, NEW next \in Nat \ {0},
         ReadHere(lists, n - 1, type, end + 1, items, next)
  PROVE  ReadHere(lists, n, type, i, <<item>> \o items, next)
  <1> DEFINE one == ParseItem(s, lists[n - 1], type, i)
             rest == lists[n - 1][type][Skip(s, end + 1)]
  <1>1. one.items = <<item>> /\ one.next = end /\ end # 0
    BY DEF ReadsOne, Found
  <1>2. Skip(s, one.next) = end /\ At(s, end) = Comma /\ Close[type] # Comma
    BY <1>1 DEF ReadsOne, Close, Comma
  <1>3. rest.items = items /\ rest.next = next /\ next # 0
    BY DEF ReadHere
  <1>4. ParseList(s, lists[n - 1], type, i) =
          [items |-> one.items \o rest.items, next |-> rest.next]
    <2> HIDE DEF rest
    <2>1. lists[n - 1][type][Skip(s, end + 1)] = rest
      BY DEF rest
    <2> QED
      BY <1>1, <1>2, <1>3, <2>1 DEF ParseList
  <1> HIDE DEF one, rest
  <1> QED
    BY <1>1, <1>3, <1>4, Zenon DEF ReadsOne, ReadHere

\* What a list of texts is printed as is a text, ...
LEMMA ListedIsText ==
  ASSUME NEW texts \in Seq(Seq(Byte))
  PROVE  Listed(texts) \in Seq(Byte) /\ Len(Listed(texts)) \in Nat
  <1> DEFINE room == [k \in DOMAIN texts |-> Len(texts[k]) + 1]
  <1>1. \A k \in DOMAIN texts : texts[k] \in Seq(Byte)
    BY LenProperties
  <1>2. \A k \in DOMAIN texts : room[k] \in Nat /\ Len(texts[k]) + 1 <= room[k]
    <2>1. \A k \in DOMAIN texts : Len(texts[k]) \in Nat
      BY <1>1, LenProperties
    <2> QED
      BY <2>1
  <1>3. room = [k \in DOMAIN texts |-> room[k]]
    OBVIOUS
  <1> HIDE DEF room
  <1>4. Listed(texts) \in Seq(Byte)
    BY <1>2, <1>3, ListedFits
  <1> QED
    BY <1>4, LenProperties

\* ... and begins with what the first of them begins with.
LEMMA ListedBegins ==
  ASSUME NEW texts \in Seq(Seq(Byte)), texts # <<>>, Begins(texts[1])
  PROVE  Begins(Listed(texts))
  <1> DEFINE t == texts[1]
             rest == <<Comma>> \o Listed(Tail(texts))
  <1>1. t \in Seq(Byte) /\ t # <<>> /\ t[1] \in {Quote, 91, 123}
    BY DEF Begins
  <1>2. /\ Tail(texts) \in Seq(Seq(Byte))
        /\ Tail(texts) = <<>> => Listed(texts) = t
        /\ Tail(texts) # <<>> => Listed(texts) = t \o rest
    BY ListedHead
  <1>3. rest \in Seq(Byte)
    <2>1. <<Comma>> \in Seq(Byte)
      BY DEF Comma, Byte
    <2>2. Listed(Tail(texts)) \in Seq(Byte)
      BY <1>2, ListedIsText
    <2> QED
      BY <2>1, <2>2, JoinTwo DEF JoinedTwo
  <1> HIDE DEF t, rest
  <1>4. t \o rest \in Seq(Byte) /\ t \o rest # <<>> /\ (t \o rest)[1] = t[1]
    BY <1>1, <1>3, JoinTwo DEF JoinedTwo
  <1> QED
    BY <1>1, <1>2, <1>4 DEF Begins

\* What holds of each item of a list holds of each but the first.
LEMMA ReadTail ==
  ASSUME NEW type, NEW S, NEW texts, NEW items \in Seq(S), ReadEach(type, texts, items),
         texts # <<>>
  PROVE  /\ Begins(texts[1]) /\ ReadIn(type, texts[1], items[1]) /\ items # <<>>
         /\ items = <<items[1]>> \o Tail(items) /\ Tail(items) \in Seq(S)
         /\ Tail(texts) \in Seq(Seq(Byte)) /\ Len(Tail(texts)) = Len(texts) - 1
         /\ ReadEach(type, Tail(texts), Tail(items))
  <1> DEFINE n == Len(texts)
             R == Seq(Byte)
             u == Tail(texts)
             q == Tail(items)
  <1>1. texts \in Seq(R) /\ Len(items) = n
    BY DEF ReadEach
  <1>2. \A k \in 1 .. n : Begins(texts[k]) /\ ReadIn(type, texts[k], items[k])
    BY DEF ReadEach
  <1>3. n \in Nat \ {0}
    BY <1>1, EmptySeq
  <1>4. items # <<>>
    BY <1>1, <1>3, EmptySeq
  <1> HIDE DEF R
  <1>5. /\ u \in Seq(R) /\ Len(u) = n - 1 /\ \A k \in 1 .. n - 1 : u[k] = texts[k + 1]
    BY <1>1, FirstAndRest
  <1>6. /\ q \in Seq(S) /\ Len(q) = n - 1 /\ \A k \in 1 .. n - 1 : q[k] = items[k + 1]
        /\ items = <<items[1]>> \o q
    BY <1>1, <1>4, FirstAndRest
  <1> HIDE DEF u, q, n
  <1>7. ASSUME NEW k \in 1 .. Len(u)
        PROVE  Begins(u[k]) /\ ReadIn(type, u[k], q[k])
    <2>1. k \in 1 .. n - 1 /\ k + 1 \in 1 .. n
      BY <1>3, <1>5
    <2>2. u[k] = texts[k + 1] /\ q[k] = items[k + 1]
      BY <1>5, <1>6, <2>1
    <2> QED
      BY <1>2, <2>1, <2>2, Zenon
  <1>8. ReadEach(type, u, q)
    BY <1>5, <1>6, <1>7, Zenon DEF ReadEach, R
  <1>9. 1 \in 1 .. n
    BY <1>3
  <1>10. Begins(texts[1]) /\ ReadIn(type, texts[1], items[1])
    BY <1>2, <1>9, Zenon
  <1> QED
    BY <1>4, <1>5, <1>6, <1>8, <1>10, Zenon DEF u, q, n, R

\* A printed list stands at j, where m bytes are left, and its items are read.
ListStands(s, type, texts, items, m, j) ==
  /\ ReadEach(type, texts, items)
  /\ m <= Len(s) /\ Len(s) < m + j
  /\ Stands(s, j, Listed(texts) \o <<Close[type]>>)

\* The items are all that is read of it.
ListGot(lists, type, texts, items, m, j) ==
  /\ m # 0
  /\ ReadHere(lists, m, type, j, items, j + Len(Listed(texts)) + 1)

\* The same of the rest of it, where fewer bytes are left.
RestGot(s, lists, type, texts, items, m) ==
  \A k \in Nat : m # 0 /\ ListStands(s, type, Tail(texts), Tail(items), m - 1, k)
                => ListGot(lists, type, Tail(texts), Tail(items), m - 1, k)

\* The bracket that closes a list can be seen.
LEMMA CloseIsByte ==
  ASSUME NEW type \in {"Array", "Object"}
  PROVE  Close[type] \in Byte /\ Close[type] > 32 /\ <<Close[type]>> \in Seq(Byte)
  <1>1. Close[type] \in {93, 125}
    BY DEF Close
  <1> QED
    BY <1>1 DEF Byte

\* So it is for a list of one item, ...
LEMMA ListOfOne ==
  ASSUME NEW s \in Seq(Byte), NEW lists, ReadsLists(lists, s), NEW S,
         NEW type \in {"Array", "Object"}, NEW t, NEW p \in Seq(S),
         NEW m \in Nat, NEW j \in Nat, ListStands(s, type, t, p, m, j), Len(t) = 1
  PROVE  ListGot(lists, type, t, p, m, j)
  <1>1. t # <<>> /\ t \in Seq(Seq(Byte)) /\ ReadEach(type, t, p)
    <2>1. Len(t) # 0
      OBVIOUS
    <2> QED
      BY <2>1, NotEmpty, Zenon DEF ListStands, ReadEach
  <1>2. /\ Begins(t[1]) /\ ReadIn(type, t[1], p[1])
        /\ p = <<p[1]>> \o Tail(p) /\ Tail(p) \in Seq(S)
        /\ Tail(t) \in Seq(Seq(Byte)) /\ Len(Tail(t)) = Len(t) - 1
        /\ ReadEach(type, Tail(t), Tail(p))
    BY <1>1, ReadTail, Zenon
  <1>3. Tail(t) = <<>> /\ Tail(p) = <<>>
    <2>1. Len(Tail(t)) = 0
      BY <1>2
    <2>2. Len(Tail(p)) = 0
      BY <1>2, <2>1 DEF ReadEach
    <2> QED
      BY <1>2, <2>1, <2>2, EmptySeq
  <1>4. Listed(t) = t[1]
    BY <1>1, <1>3, ListedHead, Zenon
  <1>5. p = <<p[1]>>
    <2>1. <<p[1]>> \o <<>> = <<p[1]>>
      OBVIOUS
    <2> QED
      BY <1>2, <1>3, <2>1, Zenon
  <1> DEFINE a == t[1]
             c == Close[type]
  <1>6. a \in Seq(Byte) /\ Stands(s, j, a \o <<c>>)
    BY <1>2, <1>4 DEF Begins, ListStands
  <1>7. c \in Byte /\ c > 32 /\ <<c>> \in Seq(Byte)
    BY CloseIsByte
  <1> HIDE DEF a, c
  <1>8. Stands(s, j, a) /\ Stands(s, j + Len(a), <<c>>)
    BY <1>6, <1>7, StandsConcat
  <1>9. m <= Len(s) /\ Len(s) < m + j /\ Len(s) \in Nat
    BY LenProperties DEF ListStands
  <1>10. ReadsOne(s, lists, m, type, j, p[1], j + Len(a), c)
    BY <1>2, <1>7, <1>8, <1>9, OneOfList DEF a
  <1>11. ReadHere(lists, m, type, j, <<p[1]>>, (j + Len(a)) + 1)
    <2>1. Len(s) \in Nat /\ ReadsOne(s, lists, m, type, j, p[1], j + Len(a), Close[type])
      BY <1>9, <1>10 DEF c
    <2> QED
      BY <2>1, LastOfList, Zenon
  <1>12. m # 0
    BY <1>9, <1>10 DEF ReadsOne
  <1> QED
    BY <1>4, <1>5, <1>11, <1>12, Zenon DEF ListGot, a

\* ... and for a longer one, if it is for the rest of it.
LEMMA ListOfMore ==
  ASSUME NEW s \in Seq(Byte), NEW lists, ReadsLists(lists, s), NEW S,
         NEW type \in {"Array", "Object"}, NEW t, NEW p \in Seq(S),
         NEW m \in Nat, NEW j \in Nat, ListStands(s, type, t, p, m, j), Len(t) > 1,
         RestGot(s, lists, type, t, p, m)
  PROVE  ListGot(lists, type, t, p, m, j)
  <1> DEFINE u == Tail(t)
             q == Tail(p)
             a == t[1]
             b == <<Comma>>
             c == Listed(u)
             cl == <<Close[type]>>
             end == j + Len(a)
             d == b \o c
  <1>1. t # <<>> /\ t \in Seq(Seq(Byte)) /\ ReadEach(type, t, p)
    <2>1. t \in Seq(Seq(Byte)) /\ ReadEach(type, t, p)
      BY DEF ListStands, ReadEach
    <2>2. Len(t) # 0
      OBVIOUS
    <2> QED
      BY <2>1, <2>2, NotEmpty, Zenon
  <1>2. /\ Begins(a) /\ ReadIn(type, a, p[1])
        /\ p = <<p[1]>> \o q /\ q \in Seq(S)
        /\ u \in Seq(Seq(Byte)) /\ Len(u) = Len(t) - 1 /\ ReadEach(type, u, q)
    BY <1>1, ReadTail, Zenon
  <1>3. u # <<>>
    <2>1. Len(u) # 0
      <3>1. Len(t) \in Nat
        BY <1>1, LenProperties
      <3>2. Len(u) = Len(t) - 1
        BY <1>2
      <3> HIDE DEF u
      <3> QED
        BY <3>1, <3>2
    <2> QED
      BY <2>1, NotEmpty, Zenon
  <1>4. Listed(t) = a \o d
    BY <1>1, <1>3, ListedHead, Zenon
  <1>5. Begins(c)
    <2>1. Begins(u[1])
      BY <1>2, <1>3, ReadTail, Zenon
    <2> QED
      BY <1>2, <1>3, <2>1, ListedBegins, Zenon
  <1> HIDE DEF u, q
  <1>6. a \in Seq(Byte) /\ b \in Seq(Byte) /\ c \in Seq(Byte) /\ cl \in Seq(Byte)
        /\ Len(b) = 1
    <2>1. cl \in Seq(Byte)
      BY CloseIsByte
    <2>2. b \in Seq(Byte) /\ Len(b) = 1
      BY DEF Comma, Byte
    <2> QED
      BY <1>2, <1>5, <2>1, <2>2, Zenon DEF Begins
  <1>7. Stands(s, j, (a \o d) \o cl)
    BY <1>4, Zenon DEF ListStands
  <1>8. b = <<Comma>> /\ Comma \in Byte /\ Comma > 32
    BY DEF Comma, Byte
  <1> HIDE DEF a, b, c, cl
  <1>9. d \in Seq(Byte) /\ Len(d) = 1 + Len(c) /\ Len(c) \in Nat
    <2>1. JoinedTwo(b, c)
      BY <1>6, JoinTwo
    <2> QED
      BY <1>6, <2>1, Zenon DEF JoinedTwo
  <1>10. d \o cl = b \o (c \o cl) /\ c \o cl \in Seq(Byte)
    <2>1. JoinedThree(b, c, cl)
      BY <1>6, JoinThree
    <2> QED
      BY <2>1, Zenon DEF JoinedThree
  <1> HIDE DEF d
  <1>11. (a \o d) \o cl = a \o (d \o cl) /\ d \o cl \in Seq(Byte) /\ Len(a) \in Nat
    <2>1. JoinedThree(a, d, cl)
      BY <1>6, <1>9, JoinThree
    <2> QED
      BY <2>1, Zenon DEF JoinedThree
  <1>12. Stands(s, j, a) /\ Stands(s, end, d \o cl)
    <2> DEFINE e == d \o cl
    <2>1. e \in Seq(Byte) /\ Stands(s, j, a \o e)
      BY <1>7, <1>11
    <2> HIDE DEF e
    <2>2. Stands(s, j, a) /\ Stands(s, j + Len(a), e)
      BY <1>6, <2>1, StandsConcat
    <2> QED
      BY <2>2 DEF e
  <1>13. Stands(s, end, b) /\ Stands(s, end + 1, c \o cl)
    <2> DEFINE e == c \o cl
    <2>1. e \in Seq(Byte) /\ Stands(s, end, b \o e)
      BY <1>10, <1>12
    <2> HIDE DEF e, end
    <2>2. Stands(s, end, b) /\ Stands(s, end + Len(b), e)
      BY <1>6, <2>1, StandsConcat
    <2> QED
      BY <1>6, <2>2 DEF e
  <1>14. Len(Listed(t)) = Len(a) + 1 + Len(c)
    <2>1. JoinedTwo(a, d)
      BY <1>6, <1>9, JoinTwo
    <2>2. Len(a \o d) = Len(a) + Len(d)
      BY <2>1, Zenon DEF JoinedTwo
    <2> QED
      BY <1>4, <1>9, <1>11, <2>2
  <1>15. m <= Len(s) /\ Len(s) < m + j /\ Len(s) \in Nat
    BY LenProperties DEF ListStands
  <1>16. ReadsOne(s, lists, m, type, j, p[1], end, Comma)
    BY <1>2, <1>8, <1>12, <1>13, <1>15, OneOfList
  <1>17. m \in 1 .. Len(s) /\ end \in 1 .. Len(s)
    BY <1>16 DEF ReadsOne
  <1>18. Skip(s, end + 1) = end + 1
    <2>1. Stands(s, end + 1, c)
      BY <1>6, <1>13, StandsConcat
    <2>2. c # <<>> /\ c[1] > 32
      BY <1>5 DEF Begins, Quote
    <2> HIDE DEF end
    <2>3. end + 1 \in 1 .. Len(s) /\ s[end + 1] = c[1]
      BY <1>6, <2>1, <2>2, StandsFirst
    <2> QED
      BY <2>2, <2>3, SkipVisible
  <1>19. ListGot(lists, type, u, q, m - 1, end + 1)
    <2>1. /\ m - 1 <= Len(s) /\ end + 1 \in Nat /\ m # 0
          /\ Len(s) < (m - 1) + (end + 1)
      BY <1>11, <1>15, <1>17
    <2> HIDE DEF end
    <2>2. ListStands(s, type, u, q, m - 1, end + 1)
      BY <1>2, <1>13, <2>1, Zenon DEF ListStands, c, cl
    <2> QED
      BY <2>1, <2>2, Zenon DEF RestGot, u, q
  <1> DEFINE next == (end + 1) + Len(c) + 1
  <1>20. ReadHere(lists, m - 1, type, end + 1, q, next)
    BY <1>19, Zenon DEF ListGot, c
  <1>21. next \in Nat \ {0} /\ next = j + Len(Listed(t)) + 1
    BY <1>9, <1>11, <1>14
  <1> HIDE DEF next, end
  <1>22. ReadHere(lists, m, type, j, <<p[1]>> \o q, next)
    <2>1. Len(s) \in Nat /\ next \in Nat \ {0}
      BY <1>15, <1>21
    <2> QED
      BY <1>16, <1>18, <1>20, <2>1, NextOfList, Zenon
  <1>23. m # 0
    BY <1>17
  <1> QED
    BY <1>2, <1>21, <1>22, <1>23, Zenon DEF ListGot

\* A list that was printed is read, up to the bracket behind it.
LEMMA ListRead ==
  ASSUME NEW s \in Seq(Byte), NEW lists, ReadsLists(lists, s), NEW S,
         NEW type \in {"Array", "Object"}
  PROVE  \A t : \A p \in Seq(S) : \A m \in Nat, j \in Nat :
           t # <<>> /\ ListStands(s, type, t, p, m, j) => ListGot(lists, type, t, p, m, j)
  <1> DEFINE T == {k \in Nat : \A t : \A p \in Seq(S) : \A m \in Nat, j \in Nat :
                     Len(t) = k + 1 /\ ListStands(s, type, t, p, m, j)
                     => ListGot(lists, type, t, p, m, j)}
  <1>1. 0 \in T
    <2> SUFFICES ASSUME NEW t, NEW p \in Seq(S), NEW m \in Nat, NEW j \in Nat,
                        Len(t) = 1, ListStands(s, type, t, p, m, j)
                 PROVE  ListGot(lists, type, t, p, m, j)
      OBVIOUS
    <2> QED
      BY ListOfOne
  <1>2. ASSUME NEW k \in Nat, k \in T
        PROVE  k + 1 \in T
    <2> SUFFICES ASSUME NEW t, NEW p \in Seq(S), NEW m \in Nat, NEW j \in Nat,
                        Len(t) = (k + 1) + 1, ListStands(s, type, t, p, m, j)
                 PROVE  ListGot(lists, type, t, p, m, j)
      OBVIOUS
    <2> DEFINE u == Tail(t)
               q == Tail(p)
    <2>1. Len(t) > 1 /\ Len(t) # 0
      OBVIOUS
    <2>2. t # <<>> /\ ReadEach(type, t, p)
      BY <2>1, NotEmpty, Zenon DEF ListStands
    <2>3. q \in Seq(S) /\ Len(u) = Len(t) - 1
      BY <2>2, ReadTail, Zenon
    <2> HIDE DEF u, q
    <2>4. Len(u) = k + 1
      BY <2>3
    <2>5. ASSUME NEW i \in Nat, ListStands(s, type, u, q, m - 1, i), m # 0
          PROVE  ListGot(lists, type, u, q, m - 1, i)
      <3>1. m - 1 \in Nat
        BY <2>5
      <3> QED
        BY <1>2, <2>3, <2>4, <2>5, <3>1
    <2> QED
      <3>1. RestGot(s, lists, type, t, p, m)
        BY <2>5, Zenon DEF RestGot, u, q
      <3> QED
        BY <2>1, <3>1, ListOfMore, Zenon
  <1>3. \A k \in Nat : k \in T
    <2> HIDE DEF T
    <2> QED
      BY <1>1, <1>2, NatSet
  <1>4. ASSUME NEW t, NEW p \in Seq(S), NEW m \in Nat, NEW j \in Nat,
               t # <<>>, ListStands(s, type, t, p, m, j)
        PROVE  ListGot(lists, type, t, p, m, j)
    <2>1. t \in Seq(Seq(Byte))
      BY <1>4 DEF ListStands, ReadEach
    <2>2. Len(t) \in Nat \ {0}
      BY <1>4, <2>1, EmptySeq
    <2> DEFINE k == Len(t) - 1
    <2>3. k \in Nat /\ Len(t) = k + 1
      BY <2>2
    <2> HIDE DEF k
    <2> QED
      BY <1>3, <1>4, <2>3
  <1> QED
    BY <1>4, Zenon
------------------------------------------------------------------------------
\* The bracket that opens a list.
Open(type) == IF type = "Array" THEN 91 ELSE 123

\* An empty list is printed as nothing.
LEMMA ListedEmpty == Listed(<<>>) = <<>>
  <1>1. [i \in DOMAIN <<>> |-> IF i = 1 THEN <<>>[i] ELSE <<Comma>> \o <<>>[i]] = <<>>
    BY EmptySeq
  <1> QED
    BY <1>1, FlattenEmpty DEF Listed

\* An array or an object of these children.
Held(type, child) == [CreateItem(type, <<>>) EXCEPT !.child = child]

\* It is read from i up to end.
HeldHere(s, lists, n, type, i, child, end) ==
  /\ ParseHeld(s, lists[n], type, i) = Found(Held(type, child), end)
  /\ At(s, i) = Open(type)

\* What was printed between two brackets is read as an array or an object of what
\* is read of its list.
LEMMA HeldRead ==
  ASSUME NEW s \in Seq(Byte), NEW lists, ReadsLists(lists, s), NEW S,
         NEW type \in {"Array", "Object"}, NEW texts, NEW child \in Seq(S),
         ReadEach(type, texts, child), NEW n \in Nat, NEW i \in Nat,
         n <= Len(s), Len(s) <= n + i,
         Stands(s, i, Between(Open(type), Listed(texts), Close[type]))
  PROVE  HeldHere(s, lists, n, type, i, child,
                  i + Len(Between(Open(type), Listed(texts), Close[type])))
  <1> DEFINE l == Listed(texts)
             c == Close[type]
             first == Skip(s, i + 1)
             list == lists[n][type][first]
             item == Held(type, child)
             end == i + Len(Between(Open(type), l, c))
  <1>1. texts \in Seq(Seq(Byte)) /\ Len(child) = Len(texts)
    BY DEF ReadEach
  <1>2. l \in Seq(Byte) /\ Len(l) \in Nat
    BY <1>1, ListedIsText
  <1>3. c \in Byte /\ c > 32 /\ <<c>> \in Seq(Byte) /\ Open(type) \in Byte
    <2>1. Open(type) \in Byte
      BY DEF Open, Byte
    <2> QED
      BY <2>1, CloseIsByte
  <1> HIDE DEF l, c
  <1>4. /\ i \in 1 .. Len(s) /\ At(s, i) = Open(type)
        /\ Stands(s, i + 1, l \o <<c>>)
        /\ Len(Between(Open(type), l, c)) = Len(l) + 2
    <2> DEFINE o == Open(type)
    <2>1. Stands(s, i, Between(o, l, c)) /\ o \in Byte
      BY <1>3 DEF l, c
    <2> HIDE DEF o
    <2>2. Bracketed(s, i, o, l, c)
      BY <1>2, <1>3, <2>1, StandsBetween, Zenon
    <2> QED
      BY <2>2, Zenon DEF Bracketed, o
  <1>5. end = ((i + 1) + Len(l)) + 1 /\ i + 1 \in Nat
    BY <1>2, <1>4
  <1> HIDE DEF end
  <1>6. ParseHeld(s, lists[n], type, i) =
          IF At(s, first) = c THEN Found(CreateItem(type, <<>>), first + 1)
          ELSE IF list.next = 0 THEN Failure
          ELSE Found(Held(type, list.items), list.next)
    BY Zenon DEF ParseHeld, Held, c
  <1>7. ParseHeld(s, lists[n], type, i) = Found(item, end)
    <2>1. CASE texts = <<>>
      <3>1. l = <<>> /\ Len(texts) = 0
        BY <2>1, ListedEmpty, EmptySeq DEF l
      <3>2. child = <<>>
        BY <1>1, <3>1, EmptySeq
      <3>3. l \o <<c>> = <<c>> /\ Len(l) = 0
        BY <1>3, <3>1, ConcatEmptySeq, EmptySeq
      <3>4. i + 1 \in 1 .. Len(s) /\ s[i + 1] = c /\ At(s, i + 1) = c
        BY <1>3, <1>4, <3>3, StandsByte
      <3>5. first = i + 1
        BY <1>3, <3>4, SkipVisible
      <3>6. item = CreateItem(type, <<>>)
        BY <3>2 DEF CreateItem, Held
      <3>7. first + 1 = end
        BY <1>4, <1>5, <3>3, <3>5
      <3> HIDE DEF item, first
      <3> QED
        BY <1>6, <3>4, <3>5, <3>6, <3>7, Zenon
    <2>2. CASE texts # <<>>
      <3>1. Begins(l)
        <4>1. Begins(texts[1])
          BY <2>2, ReadTail
        <4> QED
          BY <1>1, <2>2, <4>1, ListedBegins DEF l
      <3>2. l # <<>> /\ l[1] > 32 /\ l[1] # c
        BY <3>1 DEF Begins, Quote, c, Close
      <3>3. Stands(s, i + 1, l)
        BY <1>2, <1>3, <1>4, StandsConcat
      <3>4. i + 1 \in 1 .. Len(s) /\ s[i + 1] = l[1] /\ At(s, i + 1) = l[1]
        BY <1>2, <3>2, <3>3, StandsFirst
      <3>5. first = i + 1
        BY <3>2, <3>4, SkipVisible
      <3>6. ListStands(s, type, texts, child, n, i + 1)
        <4>1. Len(s) < n + (i + 1)
          BY LenProperties
        <4> QED
          BY <1>4, <4>1, Zenon DEF ListStands, l, c
      <3>7. ListGot(lists, type, texts, child, n, i + 1)
        BY <1>5, <2>2, <3>6, ListRead, Zenon
      <3>8. lists[n][type][i + 1] = [items |-> child, next |-> end]
        BY <1>5, <3>7, Zenon DEF ListGot, ReadHere, l
      <3>9. list.items = child /\ list.next = end /\ end # 0
        <4>1. end # 0
          BY <1>2, <1>5
        <4> QED
          BY <3>5, <3>8, <4>1
      <3> HIDE DEF first, list
      <3> QED
        BY <1>6, <3>2, <3>4, <3>5, <3>9, Zenon
    <2> QED
      BY <2>1, <2>2
  <1> QED
    BY <1>4, <1>7, Zenon DEF HeldHere, end, item, l, c

\* So an array or an object is read as a value, if its items are read as a list.
LEMMA HeldReadAs ==
  ASSUME NEW item, IsItem(item), item.type \in {"Array", "Object"},
         item.valuestring = <<>>, NEW S, item.child \in Seq(S),
         NEW texts, ReadEach(item.type, texts, item.child)
  PROVE  LET whole == Between(Open(item.type), Listed(texts), Close[item.type])
         IN  Begins(whole) /\ ReadAs(whole, item)
  <1> DEFINE type == item.type
             whole == Between(Open(type), Listed(texts), Close[type])
             child == item.child
  <1>1. Unnamed(item) = Held(type, child)
    BY Renamed DEF CreateItem, Held
  <1>2. type \in {"Array", "Object"} /\ child \in Seq(S) /\ ReadEach(type, texts, child)
    OBVIOUS
  <1> HIDE DEF type, child
  <1>3. Begins(whole)
    <2>1. Listed(texts) \in Seq(Byte)
      BY <1>2, ListedIsText DEF ReadEach
    <2>2. Close[type] \in Byte
      BY <1>2, CloseIsByte
    <2>3. Open(type) \in Byte /\ Open(type) \in {91, 123}
      BY DEF Open, Byte
    <2>4. whole \in Seq(Byte) /\ whole # <<>> /\ whole[1] = Open(type)
      <3> DEFINE o == Open(type)
                 l == Listed(texts)
                 c == Close[type]
      <3>1. o \in Byte /\ l \in Seq(Byte) /\ c \in Byte /\ whole = Between(o, l, c)
        BY <2>1, <2>2, <2>3
      <3> HIDE DEF o, l, c, whole
      <3>2. Between(o, l, c) \in Seq(Byte) /\ Between(o, l, c) # <<>> /\ Between(o, l, c)[1] = o
        BY <3>1, BetweenBegins
      <3> QED
        BY <3>1, <3>2 DEF o
    <2> QED
      BY <2>3, <2>4 DEF Begins
  <1>4. ReadAs(whole, item)
    <2> SUFFICES ASSUME NEW s \in Seq(Byte), NEW lists, NEW n \in Nat, NEW i \in Nat,
                        ReadsLists(lists, s), n <= Len(s),
                        Stands(s, i, whole), Len(s) <= n + i
                 PROVE  ParseValue(s, lists[n], i) = Found(Unnamed(item), i + Len(whole))
      BY DEF ReadAs
    <2>1. HeldHere(s, lists, n, type, i, child, i + Len(whole))
      BY <1>2, HeldRead, Zenon
    <2>2. ParseValue(s, lists[n], i) = ParseHeld(s, lists[n], type, i)
      BY <1>2, <2>1 DEF HeldHere, ParseValue, Open, Quote
    <2> QED
      BY <1>1, <2>1, <2>2, Zenon DEF HeldHere
  <1> QED
    BY <1>3, <1>4 DEF type

\* A text as which a tree is read as a value is read as this tree.
LEMMA WholeRead ==
  ASSUME NEW text, NEW item, Begins(text), ReadAs(text, item)
  PROVE  Parse(text) = Found(Unnamed(item), Len(text) + 1)
  <1> DEFINE n == Len(text)
  <1>1. text \in Seq(Byte) /\ text # <<>> /\ text[1] > 32
    BY DEF Begins, Quote
  <1>2. n \in Nat \ {0}
    BY <1>1, EmptySeq
  <1>3. Skip(text, 1) = 1
    <2>1. 1 \in 1 .. Len(text)
      BY <1>2
    <2> QED
      BY <1>1, <2>1, SkipVisible
  <1>4. Stands(text, 1, text)
    <2> HIDE DEF n
    <2>1. 1 \in Nat \ {0} /\ 1 + n <= n + 1 /\ \A m \in 0 .. n - 1 : 1 + m = m + 1
      BY <1>2
    <2> QED
      BY <2>1, Zenon DEF Stands, n
  <1>5. PICK lists : /\ ReadsLists(lists, text)
                     /\ Parse(text) = ParseValue(text, lists[n], Skip(text, 1))
    BY <1>1, ParsesLists
  <1>6. ParseValue(text, lists[n], 1) = Found(Unnamed(item), 1 + n)
    <2>1. n \in Nat /\ 1 \in Nat /\ n <= n /\ n <= n + 1
      BY <1>2
    <2> QED
      BY <1>1, <1>4, <1>5, <2>1, Zenon DEF ReadAs
  <1>7. 1 + n = n + 1
    BY <1>2
  <1> QED
    BY <1>3, <1>5, <1>6, <1>7, Zenon
------------------------------------------------------------------------------
\* What is printed for an item, if print is what is printed for those below it.
Entries(print, item) == [i \in DOMAIN item.child |-> print[item.child[i]].text]

Names(item) == [i \in DOMAIN item.child |-> PrintString(item.child[i].string)]

Step(print, item) ==
  CASE item.type = "String" ->
         [text |-> PrintString(item.valuestring),
          room |-> StringRoom(item.valuestring)]
    [] item.type = "Array" ->
         [text |-> PrintArray(Entries(print, item)), room |-> ArrayRoom(Entries(print, item))]
    [] item.type = "Object" ->
         [text |-> PrintObject(Names(item), Entries(print, item)),
          room |-> ObjectRoom(Names(item), Entries(print, item))]

\* A set of items that holds all items below each of them.  Their names and what the
\* strings hold end where their NULs are, and what is in an array has no name.
Trees(R) ==
  \A item \in R :
    /\ IsItem(item) /\ item.type \in {"String", "Array", "Object"}
    /\ item.string \in CString /\ item.child \in Seq(R)
    /\ IF item.type = "String" THEN item.valuestring \in CString /\ item.child = <<>>
                               ELSE item.valuestring = <<>>
    /\ item.type = "Array" => \A i \in DOMAIN item.child : item.child[i].string = <<>>

\* The items without children, and those of a type with these names and children.
Strings == [type : {"String"}, string : CString, valuestring : CString, child : {<<>>}]

Nodes(type, names, S) ==
  [type : {type}, string : names, valuestring : {<<>>}, child : Seq(S)]

\* The items without a name, and one level more.
Nameless(R) == {item \in R : item.string = <<>>}

Over(R) == R \cup Nodes("Object", CString, R) \cup Nodes("Array", CString, Nameless(R))

\* Strings and nodes are items.
LEMMA AreItems ==
  /\ \A item \in Strings : IsItem(item)
  /\ \A type, names, S : \A item \in Nodes(type, names, S) : IsItem(item)
  BY DEF Strings, Nodes, IsItem

\* A string has nothing below it.
LEMMA StringsAreTrees == Trees(Strings)
  <1>1. \A item \in Strings :
          /\ item.type = "String" /\ item.string \in CString
          /\ item.valuestring \in CString /\ item.child = <<>>
    BY DEF Strings
  <1>2. <<>> \in Seq(Strings)
    BY EmptySeq
  <1> QED
    BY <1>1, <1>2, AreItems DEF Trees

\* One level more keeps all items below each item.
LEMMA OverIsTrees ==
  ASSUME NEW R, Trees(R)
  PROVE  /\ Trees(Over(R))
         /\ \A item \in Over(R) : item.child \in Seq(R)
  <1>1. ASSUME NEW item \in Over(R)
        PROVE  /\ IsItem(item) /\ item.type \in {"String", "Array", "Object"}
               /\ item.string \in CString /\ item.child \in Seq(R)
               /\ IF item.type = "String" THEN item.valuestring \in CString /\ item.child = <<>>
                                          ELSE item.valuestring = <<>>
               /\ item.type = "Array" =>
                    \A i \in DOMAIN item.child : item.child[i].string = <<>>
    <2>1. CASE item \in R
      BY <2>1 DEF Trees
    <2>2. CASE item \in Nodes("Object", CString, R)
      <3>1. IsItem(item)
        BY <2>2, AreItems
      <3>2. /\ item.type = "Object" /\ item.string \in CString /\ item.valuestring = <<>>
            /\ item.child \in Seq(R)
        BY <2>2 DEF Nodes
      <3> QED
        BY <3>1, <3>2
    <2>3. CASE item \in Nodes("Array", CString, Nameless(R))
      <3>1. IsItem(item)
        BY <2>3, AreItems
      <3>2. /\ item.type = "Array" /\ item.string \in CString /\ item.valuestring = <<>>
            /\ item.child \in Seq(Nameless(R))
        BY <2>3 DEF Nodes
      <3>3. item.child \in Seq(R)
        <4>1. \A s \in Seq(Nameless(R)) : s \in Seq(R)
          BY DEF Nameless
        <4> QED
          BY <3>2, <4>1
      <3>4. \A i \in DOMAIN item.child : item.child[i].string = <<>>
        BY <3>2 DEF Nameless
      <3> QED
        BY <3>1, <3>2, <3>3, <3>4
    <2> QED
      BY <2>1, <2>2, <2>3 DEF Over
  <1>2. \A s \in Seq(R) : s \in Seq(Over(R))
    BY DEF Over
  <1> QED
    BY <1>1, <1>2 DEF Trees

\* A text that fits in the block that was allocated for it, with its NUL.
Fits(printed) == printed.text \in Seq(Byte) /\ Len(printed.text) + 1 <= printed.room

\* An item whose children fit in their blocks fits in its own.
LEMMA StepFits ==
  ASSUME NEW R, Trees(R), NEW item \in R, NEW print,
         \A i \in DOMAIN item.child : Fits(print[item.child[i]])
  PROVE  Fits(Step(print, item))
  <1>1. /\ item.child \in Seq(R) /\ DOMAIN item.child = 1 .. Len(item.child)
        /\ Len(item.child) \in Nat
    BY LenProperties DEF Trees
  <1>2. /\ Entries(print, item) \in Seq(Seq(Byte))
        /\ DOMAIN Entries(print, item) = DOMAIN item.child
    <2>1. \A i \in DOMAIN item.child : print[item.child[i]].text \in Seq(Byte)
      BY DEF Fits
    <2> QED
      BY <1>1, <2>1 DEF Entries
  <1>3. /\ DOMAIN Names(item) = DOMAIN item.child
        /\ \A i \in DOMAIN item.child : Names(item)[i] \in Seq(Byte)
    <2>1. \A i \in DOMAIN item.child : item.child[i].string \in Seq(Byte)
      BY <1>1, CStringIsText DEF Trees
    <2>2. \A i \in DOMAIN item.child : PrintString(item.child[i].string) \in Seq(Byte)
      BY <2>1, StringFits
    <2> QED
      BY <2>2 DEF Names
  <1>4. CASE item.type = "String"
    <2>1. Step(print, item) = [text |-> PrintString(item.valuestring),
                               room |-> StringRoom(item.valuestring)]
      BY <1>4 DEF Step
    <2>2. item.valuestring \in Seq(Byte)
      BY <1>4, CStringIsText DEF Trees
    <2>3. /\ PrintString(item.valuestring) \in Seq(Byte)
          /\ Len(PrintString(item.valuestring)) + 1 <= StringRoom(item.valuestring)
      BY <2>2, StringFits
    <2> QED
      BY <2>1, <2>3 DEF Fits
  <1>5. CASE item.type = "Array"
    <2> DEFINE e == Entries(print, item)
    <2>1. Step(print, item) = [text |-> PrintArray(e), room |-> ArrayRoom(e)]
      BY <1>5 DEF Step
    <2> HIDE DEF e
    <2>2. PrintArray(e) \in Seq(Byte) /\ Len(PrintArray(e)) + 1 <= ArrayRoom(e)
      BY <1>2, ArrayFits DEF e
    <2> QED
      BY <2>1, <2>2 DEF Fits
  <1>6. CASE item.type = "Object"
    <2> DEFINE e == Entries(print, item)
               n == Names(item)
    <2>1. Step(print, item) = [text |-> PrintObject(n, e), room |-> ObjectRoom(n, e)]
      BY <1>6 DEF Step
    <2> HIDE DEF e, n
    <2>2. PrintObject(n, e) \in Seq(Byte) /\ Len(PrintObject(n, e)) + 1 <= ObjectRoom(n, e)
      <3>1. /\ e \in Seq(Seq(Byte)) /\ DOMAIN n = DOMAIN e
            /\ \A i \in DOMAIN e : n[i] \in Seq(Byte)
        BY <1>2, <1>3 DEF e, n
      <3> QED
        BY <3>1, ObjectFits
    <2> QED
      BY <2>1, <2>2 DEF Fits
  <1> QED
    BY <1>4, <1>5, <1>6 DEF Trees

\* What is printed for an item is read as the item.
Reads(printed, item) == Begins(printed.text) /\ ReadAs(printed.text, item)

\* An item whose children are read again is read again.
LEMMA StepReads ==
  ASSUME NEW R, Trees(R), NEW item \in R, NEW print,
         \A i \in DOMAIN item.child : Reads(print[item.child[i]], item.child[i])
  PROVE  Reads(Step(print, item), item)
  <1> DEFINE type == item.type
             child == item.child
             e == Entries(print, item)
             texts == [i \in DOMAIN child |-> ItemText(type, child[i], e[i])]
             whole == Between(Open(type), Listed(texts), Close[type])
  <1>1. /\ IsItem(item) /\ type \in {"String", "Array", "Object"}
        /\ child \in Seq(R) /\ DOMAIN child = 1 .. Len(child) /\ Len(child) \in Nat
        /\ type # "String" => item.valuestring = <<>>
    BY LenProperties DEF Trees
  <1>2. CASE type = "String"
    <2>1. item.valuestring \in CString /\ item.child = <<>>
      BY <1>2 DEF Trees
    <2>2. Step(print, item).text = PrintString(item.valuestring)
      BY <1>2 DEF Step
    <2>3. Begins(PrintString(item.valuestring))
      BY <2>1, PrintedBegins
    <2>4. ReadAs(PrintString(item.valuestring), item)
      BY <1>1, <1>2, <2>1, StringReadAs
    <2> QED
      BY <2>2, <2>3, <2>4, Zenon DEF Reads
  <1>3. CASE type \in {"Array", "Object"}
    <2>1. ASSUME NEW i \in DOMAIN child
          PROVE  Begins(texts[i]) /\ ReadIn(type, texts[i], child[i])
      <3>1. child[i] \in R
        BY <1>1
      <3>2. /\ IsItem(child[i]) /\ child[i].string \in CString
            /\ type = "Array" => child[i].string = <<>>
        BY <3>1 DEF Trees
      <3>3. Begins(e[i]) /\ ReadAs(e[i], child[i])
        BY DEF Reads, Entries
      <3>4. texts[i] = ItemText(type, child[i], e[i])
        OBVIOUS
      <3> HIDE DEF texts, type, e, child
      <3> QED
        BY <1>3, <3>2, <3>3, <3>4, ReadAsItem
    <2>2. ReadEach(type, texts, child)
      <3>1. \A i \in 1 .. Len(child) : texts[i] \in Seq(Byte)
        BY <1>1, <2>1 DEF Begins
      <3>2. texts = [i \in 1 .. Len(child) |-> texts[i]]
        BY <1>1
      <3> HIDE DEF texts, type
      <3>3. texts \in Seq(Seq(Byte)) /\ Len(texts) = Len(child)
        BY <1>1, <3>1, <3>2, OfLength
      <3> QED
        BY <1>1, <2>1, <3>3 DEF ReadEach
    <2>3. Begins(whole) /\ ReadAs(whole, item)
      <3>1. item.valuestring = <<>>
        BY <1>1, <1>3
      <3> HIDE DEF texts
      <3> QED
        BY <1>1, <1>3, <2>2, <3>1, HeldReadAs
    <2>4. Step(print, item).text = whole
      <3>1. CASE type = "Array"
        <4>1. Step(print, item).text = Between(91, Listed(e), 93)
          BY <3>1 DEF Step, PrintArray, Array
        <4>2. texts = e
          BY <3>1 DEF ItemText, Entries
        <4> QED
          BY <3>1, <4>1, <4>2 DEF Open, Close
      <3>2. CASE type = "Object"
        <4> DEFINE n == Names(item)
        <4>1. Step(print, item).text = PrintObject(n, e)
          BY <3>2 DEF Step
        <4>2. [i \in DOMAIN e |-> n[i] \o <<58>> \o e[i]] = texts
          <5>1. DOMAIN e = DOMAIN child
            BY DEF Entries
          <5>2. \A i \in DOMAIN child : n[i] = PrintString(child[i].string)
            BY DEF Names
          <5> HIDE DEF e, n
          <5>3. \A i \in DOMAIN child :
                  ItemText(type, child[i], e[i]) = n[i] \o <<58>> \o e[i]
            BY <3>2, <5>2 DEF ItemText
          <5> QED
            BY <5>1, <5>3
        <4> HIDE DEF e, n, texts
        <4>3. PrintObject(n, e) = Between(123, Listed(texts), 125)
          BY <4>2 DEF PrintObject, Object
        <4> QED
          BY <3>2, <4>1, <4>3 DEF Open, Close
      <3> QED
        BY <1>3, <3>1, <3>2
    <2> HIDE DEF whole
    <2> QED
      BY <2>3, <2>4, Zenon DEF Reads
  <1> QED
    BY <1>1, <1>2, <1>3

\* What is printed for an item depends on those right below it only.
LEMMA StepLocal ==
  ASSUME NEW item, NEW f, NEW g, \A i \in DOMAIN item.child : f[item.child[i]] = g[item.child[i]]
  PROVE  Step(f, item) = Step(g, item)
  <1>1. Entries(f, item) = Entries(g, item)
    BY DEF Entries
  <1> QED
    BY <1>1, Zenon DEF Step

\* print is what is printed for each item of R.
Prints(print, R) == \A item \in R : print[item] = Step(print, item)

\* Strings can be printed.
LEMMA PrintsStrings == \E print : Prints(print, Strings)
  <1> DEFINE print == [item \in Strings |-> Step(<<>>, item)]
  <1>1. ASSUME NEW item \in Strings
        PROVE  print[item] = Step(print, item)
    <2>1. DOMAIN item.child = {}
      BY DEF Strings
    <2>2. print[item] = Step(<<>>, item)
      BY Zenon
    <2> HIDE DEF print
    <2>3. Step(<<>>, item) = Step(print, item)
      BY <2>1, StepLocal
    <2> QED
      BY <2>2, <2>3, Zenon
  <1> HIDE DEF print
  <1> QED
    BY <1>1 DEF Prints

\* What can be printed below can be printed one level up.
LEMMA PrintsOver ==
  ASSUME NEW R, Trees(R), NEW print, Prints(print, R)
  PROVE  \E more : Prints(more, Over(R))
  <1> DEFINE more == [item \in Over(R) |->
                        IF item \in R THEN print[item] ELSE Step(print, item)]
  <1>1. \A item \in R : more[item] = print[item]
    BY DEF Over
  <1>2. \A item \in Over(R) : more[item] = Step(print, item)
    BY DEF Prints
  <1> HIDE DEF more
  <1>3. ASSUME NEW item \in Over(R)
        PROVE  more[item] = Step(more, item)
    <2>1. item.child \in Seq(R)
      BY OverIsTrees
    <2>2. \A i \in DOMAIN item.child : print[item.child[i]] = more[item.child[i]]
      BY <1>1, <2>1
    <2>3. Step(print, item) = Step(more, item)
      BY <2>2, StepLocal
    <2> QED
      BY <1>2, <2>3, Zenon
  <1> QED
    BY <1>3 DEF Prints
------------------------------------------------------------------------------
\* The levels of a page: the strings, a row, the rows, the page.
Level2 == Over(Strings)

Level3 == Over(Level2)

Level4 == Over(Level3)

\* Each level holds the items below its items.
LEMMA Levels ==
  /\ Trees(Level2) /\ Trees(Level3) /\ Trees(Level4)
  /\ \A item \in Level4 : item.child \in Seq(Level3)
  /\ \A item \in Level3 : item.child \in Seq(Level2)
  /\ \A item \in Level2 : item.child \in Seq(Strings)
  /\ Level3 \subseteq Level4 /\ Level2 \subseteq Level3 /\ Strings \subseteq Level2
  /\ \E print : Prints(print, Level4)
  <1>1. Trees(Level2) /\ \A item \in Level2 : item.child \in Seq(Strings)
    BY StringsAreTrees, OverIsTrees DEF Level2
  <1>2. Trees(Level3) /\ \A item \in Level3 : item.child \in Seq(Level2)
    BY <1>1, OverIsTrees DEF Level3
  <1>3. Trees(Level4) /\ \A item \in Level4 : item.child \in Seq(Level3)
    BY <1>2, OverIsTrees DEF Level4
  <1>4. Level3 \subseteq Level4 /\ Level2 \subseteq Level3 /\ Strings \subseteq Level2
    BY DEF Level2, Level3, Level4, Over
  <1>5. \E print : Prints(print, Level2)
    BY StringsAreTrees, PrintsStrings, PrintsOver DEF Level2
  <1>6. \E print : Prints(print, Level3)
    BY <1>1, <1>5, PrintsOver DEF Level3
  <1>7. \E print : Prints(print, Level4)
    BY <1>2, <1>6, PrintsOver DEF Level4
  <1> QED
    BY <1>1, <1>2, <1>3, <1>4, <1>7

\* Parts goes as deep as four levels do.
LEMMA PartsClosed ==
  ASSUME NEW root \in Level4
  PROVE  /\ root \in Parts(root) /\ Parts(root) \subseteq Level4
         /\ \A item \in Parts(root) : \A i \in DOMAIN item.child :
              item.child[i] \in Parts(root)
  <1> DEFINE Below(items) == items \cup UNION {ToSet(item.child) : item \in items}
             B == Below({root})
             C == Below(B)
             E == Below(C)
  <1>1. Parts(root) = E
    BY Zenon DEF Parts
  <1>2. \A items : \A x : x \in Below(items) <=>
           x \in items \/ \E item \in items : \E i \in DOMAIN item.child : x = item.child[i]
    BY DEF ToSet
  <1> HIDE DEF Below
  <1>3. \A x \in B : x = root \/ x \in Level3
    <2>1. root.child \in Seq(Level3)
      BY Levels
    <2> QED
      BY <1>2, <2>1
  <1>4. \A x \in C : x \in B \/ x \in Level2
    <2> SUFFICES ASSUME NEW y \in B, NEW i \in DOMAIN y.child
                 PROVE  y.child[i] \in B \/ y.child[i] \in Level2
      BY <1>2
    <2>1. CASE y = root
      BY <1>2, <2>1
    <2>2. CASE y \in Level3
      <3>1. y.child \in Seq(Level2)
        BY <2>2, Levels
      <3> QED
        BY <3>1
    <2> QED
      BY <1>3, <2>1, <2>2
  <1>5. \A x \in E : x \in C \/ x \in Strings
    <2> SUFFICES ASSUME NEW y \in C, NEW i \in DOMAIN y.child
                 PROVE  y.child[i] \in C \/ y.child[i] \in Strings
      BY <1>2
    <2>1. CASE y \in B
      BY <1>2, <2>1
    <2>2. CASE y \in Level2
      <3>1. y.child \in Seq(Strings)
        BY <2>2, Levels
      <3> QED
        BY <3>1
    <2> QED
      BY <1>4, <2>1, <2>2
  <1> HIDE DEF B, C, E
  <1>6. ASSUME NEW item \in E, NEW i \in DOMAIN item.child
        PROVE  item.child[i] \in E
    <2>1. CASE item \in C
      BY <1>2, <2>1 DEF E
    <2>2. CASE item \in Strings
      BY <2>2 DEF Strings
    <2> QED
      BY <1>5, <2>1, <2>2
  <1>7. E \subseteq Level4
    BY <1>3, <1>4, <1>5, Levels
  <1>8. root \in E
    BY <1>2 DEF B, C, E
  <1> QED
    BY <1>1, <1>6, <1>7, <1>8, Zenon

\* It fits in its block and is read again.
Sound(printed, item) == Fits(printed) /\ Reads(printed, item)

\* Every part of a tree of at most four levels is printed so.
LEMMA PrintedSound ==
  ASSUME NEW root \in Level4
  PROVE  /\ DOMAIN Printed(root) = Parts(root)
         /\ \A item \in Parts(root) : Sound(Printed(root)[item], item)
  <1> DEFINE P == Parts(root)
             Eq(print) == print = [item \in P |-> Step(print, item)]
             F == CHOOSE print : Eq(print)
  <1>1. Printed(root) = F
    BY Zenon DEF Printed, Step, Entries, Names
  <1>2. /\ P \subseteq Level4
        /\ \A item \in P : \A i \in DOMAIN item.child : item.child[i] \in P
    BY PartsClosed
  <1>3. PICK g : Prints(g, Level4)
    BY Levels
  <1> HIDE DEF P
  <1>4. Eq([item \in P |-> g[item]])
    <2> DEFINE f == [item \in P |-> g[item]]
    <2>1. \A item \in P : f[item] = g[item]
      OBVIOUS
    <2> HIDE DEF f
    <2>2. ASSUME NEW item \in P
          PROVE  g[item] = Step(f, item)
      <3>1. \A i \in DOMAIN item.child : g[item.child[i]] = f[item.child[i]]
        BY <1>2, <2>1
      <3>2. Step(g, item) = Step(f, item)
        BY <3>1, StepLocal
      <3> QED
        BY <1>2, <1>3, <3>2 DEF Prints
    <2>3. f = [item \in P |-> Step(f, item)]
      <3>1. [item \in P |-> g[item]] = [item \in P |-> Step(f, item)]
        BY <2>2
      <3> QED
        BY <3>1, Zenon DEF f
    <2> QED
      BY <2>3 DEF f
  <1>5. Eq(F)
    <2> HIDE DEF Eq
    <2> QED
      BY <1>4
  <1> HIDE DEF F
  <1>6. DOMAIN F = P /\ \A item \in P : F[item] = Step(F, item)
    BY <1>5, Zenon
  <1> HIDE DEF Eq
  <1>7. ASSUME NEW R, Trees(R), NEW item \in P, item \in R,
               \A i \in DOMAIN item.child : Sound(F[item.child[i]], item.child[i])
        PROVE  Sound(F[item], item)
    BY <1>6, <1>7, StepFits, StepReads DEF Sound
  <1>8. \A item \in P : item \in Strings => Sound(F[item], item)
    <2> SUFFICES ASSUME NEW item \in P, item \in Strings
                 PROVE  Sound(F[item], item)
      OBVIOUS
    <2>1. DOMAIN item.child = {}
      BY DEF Strings
    <2> QED
      BY <1>7, <2>1, StringsAreTrees
  <1>9. \A item \in P : item \in Level2 => Sound(F[item], item)
    <2> SUFFICES ASSUME NEW item \in P, item \in Level2
                 PROVE  Sound(F[item], item)
      OBVIOUS
    <2>1. \A i \in DOMAIN item.child : item.child[i] \in P /\ item.child[i] \in Strings
      <3>1. item.child \in Seq(Strings)
        BY Levels
      <3> QED
        BY <1>2, <3>1
    <2> QED
      BY <1>7, <1>8, <2>1, Levels
  <1>10. \A item \in P : item \in Level3 => Sound(F[item], item)
    <2> SUFFICES ASSUME NEW item \in P, item \in Level3
                 PROVE  Sound(F[item], item)
      OBVIOUS
    <2>1. \A i \in DOMAIN item.child : item.child[i] \in P /\ item.child[i] \in Level2
      <3>1. item.child \in Seq(Level2)
        BY Levels
      <3> QED
        BY <1>2, <3>1
    <2> QED
      BY <1>7, <1>9, <2>1, Levels
  <1>11. \A item \in P : Sound(F[item], item)
    <2> SUFFICES ASSUME NEW item \in P
                 PROVE  Sound(F[item], item)
      OBVIOUS
    <2>1. \A i \in DOMAIN item.child : item.child[i] \in P /\ item.child[i] \in Level3
      <3>1. item.child \in Seq(Level3)
        BY <1>2, Levels
      <3> QED
        BY <1>2, <3>1
    <2>2. item \in Level4
      BY <1>2
    <2> QED
      BY <1>7, <1>10, <2>1, <2>2, Levels
  <1> QED
    BY <1>1, <1>6, <1>11 DEF P
------------------------------------------------------------------------------
\* The literals that are printed and searched for are texts without a NUL.
LEMMA LiteralTexts ==
  ASSUME NEW c \in ToSet(Columns) \cup Keys \cup
                   {"HomePageResponse", "Content", "Refresh", "LoadMore", "Type error",
                    "post info error,try again"}
  PROVE  Lit[c] \in CString /\ Lit[c] \in Seq(Byte)
  <1>1. c \in Literals
    BY DEF Literals
  <1>2. Lit[c] \in CString
    BY <1>1, LitIsText
  <1> QED
    BY <1>2, CStringIsText

\* What AddItemToObject and AddItemToArray make of a node.
LEMMA AddItem ==
  ASSUME NEW type, NEW S, NEW node \in Nodes(type, {<<>>}, S), NEW name, NEW item,
         [item EXCEPT !.string = name] \in S
  PROVE  AddItemToObject(node, name, item) \in Nodes(type, {<<>>}, S)
  <1>1. node.child \in Seq(S)
    BY DEF Nodes
  <1>2. Append(node.child, [item EXCEPT !.string = name]) \in Seq(S)
    BY <1>1, AppendProperties
  <1>3. AddItemToObject(node, name, item) =
          [node EXCEPT !.child = Append(node.child, [item EXCEPT !.string = name])]
    BY DEF AddItemToObject, AddItemToArray
  <1> QED
    BY <1>2, <1>3 DEF Nodes

\* The same for an item that keeps its name.
LEMMA AddToArray ==
  ASSUME NEW type, NEW S, NEW node \in Nodes(type, {<<>>}, S), NEW item \in S
  PROVE  AddItemToArray(node, item) \in Nodes(type, {<<>>}, S)
  <1>1. node.child \in Seq(S)
    BY DEF Nodes
  <1>2. Append(node.child, item) \in Seq(S)
    BY <1>1, AppendProperties
  <1>3. AddItemToArray(node, item) = [node EXCEPT !.child = Append(node.child, item)]
    BY DEF AddItemToArray
  <1> QED
    BY <1>2, <1>3 DEF Nodes

\* A string that is created and given a name is one of Strings.
LEMMA NamedString ==
  ASSUME NEW name \in CString, NEW text \in CString
  PROVE  [CreateString(text) EXCEPT !.string = name] \in Strings
  BY DEF CreateString, CreateItem, Strings

\* Created arrays and objects are empty nodes.
LEMMA EmptyNodes ==
  ASSUME NEW S
  PROVE  /\ CreateObject \in Nodes("Object", {<<>>}, S)
         /\ CreateArray \in Nodes("Array", {<<>>}, S)
  BY EmptySeq DEF CreateObject, CreateArray, CreateItem, Nodes

\* Nodes without a name are among those with one, which may be empty.
LEMMA UnnamedNodes ==
  ASSUME NEW type, NEW S, NEW node \in Nodes(type, {<<>>}, S), NEW name \in CString
  PROVE  /\ node \in Nodes(type, CString, S) /\ node.string = <<>>
         /\ [node EXCEPT !.string = name] \in Nodes(type, CString, S)
  <1>1. <<>> \in CString
    BY EmptySeq DEF CString
  <1> QED
    BY <1>1 DEF Nodes

\* What can be stored in a row.
Rows == [ToSet(Columns) -> CString]

\* F[s] is the node to which the items of s were added, in their order.
Adds(F, items, node) ==
  \A s \in SUBSET (DOMAIN items) :
    F[s] = IF s = {} THEN node ELSE AddItemToArray(F[s \ {Max(s)}], items[Max(s)])

\* There is such a function.
LEMMA AdditionsExist ==
  ASSUME NEW type, NEW R, NEW items \in Seq(R), NEW node \in Nodes(type, {<<>>}, R)
  PROVE  \E g \in [SUBSET (DOMAIN items) -> Nodes(type, {<<>>}, R)] : Adds(g, items, node)
  <1> DEFINE n == Len(items)
             V == Nodes(type, {<<>>}, R)
             D == [p \in V \X (1 .. n) |-> AddItemToArray(p[1], items[p[2]])]
  <1>1. n \in Nat /\ DOMAIN items = 1 .. n
    BY LenProperties
  <1>2. ASSUME NEW o \in V, NEW i \in 1 .. n
        PROVE  AddItemToArray(o, items[i]) \in V
    <2>1. items[i] \in R
      BY ElementOfSeq
    <2> QED
      BY <2>1, AddToArray
  <1>3. node \in V
    OBVIOUS
  <1> HIDE DEF n, V
  <1>4. D \in [V \X (1 .. n) -> V]
    BY <1>2
  <1>5. \A o \in V, i \in 1 .. n : D[<<o, i>>] = AddItemToArray(o, items[i])
    OBVIOUS
  <1> HIDE DEF D
  <1>6. PICK g \in [SUBSET (1 .. n) -> V] : Fold(g, D, node, n)
    BY <1>1, <1>3, <1>4, FoldExists
  <1>7. ASSUME NEW s \in SUBSET (1 .. n)
        PROVE  g[s] = IF s = {} THEN node
                      ELSE AddItemToArray(g[s \ {Max(s)}], items[Max(s)])
    <2>1. CASE s = {}
      BY <1>6, <2>1 DEF Fold
    <2>2. CASE s # {}
      <3>1. Max(s) \in 1 .. n /\ s \ {Max(s)} \in SUBSET (1 .. n)
        BY <1>1, <2>2, MaxIn
      <3>2. g[s] = D[<<g[s \ {Max(s)}], Max(s)>>] /\ g[s \ {Max(s)}] \in V
        BY <1>6, <2>2, <3>1 DEF Fold
      <3> QED
        BY <1>5, <2>2, <3>1, <3>2
    <2> QED
      BY <2>1, <2>2
  <1> QED
    BY <1>1, <1>6, <1>7 DEF Adds, V

\* A node to which items of a level were added is a node over that level.
LEMMA Additions ==
  ASSUME NEW type, NEW R, NEW items \in Seq(R), NEW node \in Nodes(type, {<<>>}, R),
         NEW F, Adds(F, items, node)
  PROVE  F[DOMAIN items] \in Nodes(type, {<<>>}, R)
  <1> DEFINE n == Len(items)
             T == {i \in Nat : F[1 .. i] \in Nodes(type, {<<>>}, R)}
  <1>1. n \in Nat /\ DOMAIN items = 1 .. n
    BY LenProperties
  <1>2. 0 \in T
    <2>1. (1 .. 0) = {} /\ {} \in SUBSET (DOMAIN items)
      OBVIOUS
    <2> QED
      BY <2>1 DEF Adds
  <1>3. ASSUME NEW i \in 0 .. n - 1, i \in T
        PROVE  i + 1 \in T
    <2>1. i + 1 \in 1 .. n /\ items[i + 1] \in R /\ i + 1 \in Nat
      BY <1>1, ElementOfSeq
    <2>2. F[1 .. i] \in Nodes(type, {<<>>}, R)
      BY <1>3
    <2> HIDE DEF n, T
    <2>3. /\ 1 .. i + 1 \in SUBSET (1 .. n) /\ 1 .. i + 1 # {}
          /\ Max(1 .. i + 1) = i + 1
          /\ (1 .. i + 1) \ {i + 1} = 1 .. i
      BY <1>1, RangeStep
    <2>4. F[1 .. i + 1] = AddItemToArray(F[(1 .. i + 1) \ {Max(1 .. i + 1)}],
                                        items[Max(1 .. i + 1)])
      BY <1>1, <2>3, Zenon DEF Adds
    <2>5. F[1 .. i + 1] = AddItemToArray(F[1 .. i], items[i + 1])
      BY <2>3, <2>4, Zenon
    <2>6. F[1 .. i + 1] \in Nodes(type, {<<>>}, R)
      BY <2>1, <2>2, <2>5, AddToArray
    <2> QED
      BY <2>1, <2>6 DEF T
  <1>4. \A i \in 0 .. n : i \in T
    <2> HIDE DEF T, n
    <2> QED
      BY <1>1, <1>2, <1>3, UpTo
  <1>5. n \in T
    <2> HIDE DEF T, n
    <2> QED
      BY <1>1, <1>4
  <1> QED
    BY <1>1, <1>5

\* A row is an object of strings.
LEMMA RowIsNode ==
  ASSUME NEW row \in Rows
  PROVE  RowItem(row) \in Nodes("Object", {<<>>}, Strings)
  <1> DEFINE C == DOMAIN Columns
             items == [i \in C |->
                         [CreateString(row[Columns[i]]) EXCEPT !.string = Lit[Columns[i]]]]
             Eq(g) == g = [s \in SUBSET C |->
                             IF s = {} THEN CreateObject
                             ELSE AddItemToObject(g[s \ {Max(s)}], Lit[Columns[Max(s)]],
                                                  CreateString(row[Columns[Max(s)]]))]
             F == CHOOSE g : Eq(g)
  <1>1. RowItem(row) = F[C]
    BY DEF RowItem, FoldLeft, MapThenFoldSet
  <1>2. C = 1 .. 8
    BY DEF Columns
  <1>3. \A i \in C : items[i] \in Strings
    <2> SUFFICES ASSUME NEW i \in C
                 PROVE  items[i] \in Strings
      OBVIOUS
    <2>1. Columns[i] \in ToSet(Columns)
      BY DEF ToSet
    <2>2. Lit[Columns[i]] \in CString /\ row[Columns[i]] \in CString
      BY <2>1, LiteralTexts DEF Rows
    <2> QED
      BY <2>2, NamedString
  <1>4. items \in Seq(Strings) /\ DOMAIN items = C
    <2>1. items = [i \in C |-> items[i]]
      OBVIOUS
    <2> HIDE DEF items, C
    <2> QED
      BY <1>2, <1>3, <2>1
  <1>5. ASSUME NEW g, NEW s \in SUBSET C, s # {}
        PROVE  AddItemToObject(g[s \ {Max(s)}], Lit[Columns[Max(s)]],
                               CreateString(row[Columns[Max(s)]])) =
               AddItemToArray(g[s \ {Max(s)}], items[Max(s)])
    <2>1. Max(s) \in C
      <3> HIDE DEF C
      <3> QED
        BY <1>2, <1>5, MaxIn
    <2>2. items[Max(s)] =
            [CreateString(row[Columns[Max(s)]]) EXCEPT !.string = Lit[Columns[Max(s)]]]
      <3> HIDE DEF C
      <3> QED
        BY <2>1
    <2> QED
      BY <2>2, Zenon DEF AddItemToObject
  <1>6. CreateObject \in Nodes("Object", {<<>>}, Strings)
    BY EmptyNodes
  <1> HIDE DEF items, C
  <1>7. PICK g \in [SUBSET C -> Nodes("Object", {<<>>}, Strings)] : Adds(g, items, CreateObject)
    BY <1>4, <1>6, AdditionsExist
  <1>8. Eq(g)
    <2>1. ASSUME NEW s \in SUBSET C
          PROVE  g[s] = IF s = {} THEN CreateObject
                        ELSE AddItemToObject(g[s \ {Max(s)}], Lit[Columns[Max(s)]],
                                             CreateString(row[Columns[Max(s)]]))
      BY <1>4, <1>5, <1>7, Zenon DEF Adds
    <2> QED
      BY <2>1
  <1>9. Eq(F)
    <2> HIDE DEF Eq
    <2> QED
      BY <1>8
  <1> HIDE DEF F
  <1>10. ASSUME NEW s \in SUBSET C
         PROVE  F[s] = IF s = {} THEN CreateObject
                       ELSE AddItemToArray(F[s \ {Max(s)}], items[Max(s)])
    <2>1. F[s] = IF s = {} THEN CreateObject
                 ELSE AddItemToObject(F[s \ {Max(s)}], Lit[Columns[Max(s)]],
                                      CreateString(row[Columns[Max(s)]]))
      BY <1>9, Zenon
    <2> QED
      BY <1>5, <2>1, Zenon
  <1>11. Adds(F, items, CreateObject)
    BY <1>4, <1>10 DEF Adds
  <1> QED
    BY <1>1, <1>4, <1>6, <1>11, Additions

\* The rows of a page of each type.
LEMMA RowsOfPage ==
  ASSUME NEW taskType \in HomePageTypes
  PROVE  GetDataFromDB(taskType) \in Seq(Rows)
  <1> DEFINE prefix == CASE taskType = Lit["HomePageRequest"] -> <<>>
                         [] taskType = Lit["HomePageRefresh"] -> Lit["Refresh"]
                         [] taskType = Lit["HomePageLoadMore"] -> Lit["LoadMore"]
             row == [Stored EXCEPT !["title"] = prefix \o @]
             size == IF taskType = Lit["HomePageRefresh"] THEN 2 ELSE 3
  <1>1. prefix \in CString
    <2>1. Lit["Refresh"] \in CString /\ Lit["LoadMore"] \in CString /\ <<>> \in CString
      BY LiteralTexts, EmptySeq DEF CString
    <2> QED
      BY <2>1 DEF HomePageTypes
  <1> HIDE DEF prefix
  <1>2. Stored \in Rows
    BY StoredIsText DEF Rows
  <1>3. row \in Rows
    <2>1. "title" \in ToSet(Columns)
      BY DEF Columns, ToSet
    <2>2. prefix \o Stored["title"] \in CString
      BY <1>1, <1>2, <2>1, ConcatProperties DEF Rows, CString
    <2> QED
      BY <1>2, <2>2 DEF Rows
  <1>4. GetDataFromDB(taskType) = [i \in 1 .. size |-> row]
    BY DEF GetDataFromDB, prefix
  <1>5. size \in Nat
    OBVIOUS
  <1> HIDE DEF row, size
  <1> QED
    BY <1>3, <1>4, <1>5

\* A page is a tree of four levels, whose root has no name.
LEMMA PageIsTree ==
  ASSUME NEW taskType \in HomePageTypes
  PROVE  HomePage[taskType] \in Level4 /\ HomePage[taskType].string = <<>>
  <1> DEFINE rows == GetDataFromDB(taskType)
             C == DOMAIN rows
             items == [i \in C |-> RowItem(rows[i])]
             Eq(g) == g = [s \in SUBSET C |->
                             IF s = {} THEN CreateArray
                             ELSE AddItemToArray(g[s \ {Max(s)}], RowItem(rows[Max(s)]))]
             F == CHOOSE g : Eq(g)
             named == AddItemToObject(CreateObject, Lit["type"],
                                      CreateString(Lit["HomePageResponse"]))
  <1>1. HomePage[taskType] = AddItemToObject(named, Lit["Content"], F[C])
    BY DEF HomePage, FoldLeft, MapThenFoldSet
  <1>2. rows \in Seq(Rows)
    BY RowsOfPage
  <1> HIDE DEF rows
  <1>3. Len(rows) \in Nat /\ C = 1 .. Len(rows)
    BY <1>2, LenProperties
  <1>4. \A i \in C : items[i] \in Nameless(Level2)
    <2> SUFFICES ASSUME NEW i \in C
                 PROVE  items[i] \in Nameless(Level2)
      OBVIOUS
    <2>1. rows[i] \in Rows
      BY <1>2, <1>3, ElementOfSeq
    <2>2. RowItem(rows[i]) \in Nodes("Object", {<<>>}, Strings)
      BY <2>1, RowIsNode
    <2>3. /\ RowItem(rows[i]) \in Nodes("Object", CString, Strings)
          /\ RowItem(rows[i]).string = <<>>
      BY <2>2, EmptySeq, UnnamedNodes DEF CString
    <2>4. items[i] = RowItem(rows[i])
      OBVIOUS
    <2> HIDE DEF items
    <2> QED
      BY <2>3, <2>4 DEF Level2, Over, Nameless
  <1>5. items \in Seq(Nameless(Level2)) /\ DOMAIN items = C
    <2>1. items = [i \in C |-> items[i]]
      OBVIOUS
    <2> HIDE DEF items, C
    <2> QED
      BY <1>3, <1>4, <2>1
  <1>6. ASSUME NEW s \in SUBSET C, s # {}
        PROVE  items[Max(s)] = RowItem(rows[Max(s)])
    <2>1. Max(s) \in C
      <3> HIDE DEF C
      <3> QED
        BY <1>3, <1>6, MaxIn
    <2> HIDE DEF C
    <2> QED
      BY <2>1, Zenon
  <1>7. CreateArray \in Nodes("Array", {<<>>}, Nameless(Level2))
    BY EmptyNodes
  <1> HIDE DEF items, C
  <1>8. PICK g \in [SUBSET C -> Nodes("Array", {<<>>}, Nameless(Level2))] : Adds(g, items, CreateArray)
    BY <1>5, <1>7, AdditionsExist
  <1>9. Eq(g)
    <2>1. ASSUME NEW s \in SUBSET C
          PROVE  g[s] = IF s = {} THEN CreateArray
                        ELSE AddItemToArray(g[s \ {Max(s)}], RowItem(rows[Max(s)]))
      BY <1>5, <1>6, <1>8, Zenon DEF Adds
    <2> QED
      BY <2>1
  <1>10. Eq(F)
    <2> HIDE DEF Eq
    <2> QED
      BY <1>9
  <1> HIDE DEF F
  <1>11. ASSUME NEW s \in SUBSET C
         PROVE  F[s] = IF s = {} THEN CreateArray
                       ELSE AddItemToArray(F[s \ {Max(s)}], items[Max(s)])
    <2>1. F[s] = IF s = {} THEN CreateArray
                 ELSE AddItemToArray(F[s \ {Max(s)}], RowItem(rows[Max(s)]))
      BY <1>10, Zenon
    <2> QED
      BY <1>6, <2>1, Zenon
  <1>12. Adds(F, items, CreateArray)
    BY <1>5, <1>11 DEF Adds
  <1>13. F[C] \in Nodes("Array", {<<>>}, Nameless(Level2))
    BY <1>5, <1>7, <1>12, Additions
  <1> HIDE DEF Eq
  <1>14. named \in Nodes("Object", {<<>>}, Level3)
    <2>1. Lit["type"] \in CString /\ Lit["HomePageResponse"] \in CString
      BY LiteralTexts DEF Keys
    <2>2. [CreateString(Lit["HomePageResponse"]) EXCEPT !.string = Lit["type"]] \in Level3
      BY <2>1, NamedString, Levels
    <2>3. CreateObject \in Nodes("Object", {<<>>}, Level3)
      BY EmptyNodes
    <2> QED
      BY <2>2, <2>3, AddItem
  <1> HIDE DEF named
  <1>15. Lit["Content"] \in CString
    BY LiteralTexts
  <1>16. [F[C] EXCEPT !.string = Lit["Content"]] \in Level3
    <2>1. [F[C] EXCEPT !.string = Lit["Content"]] \in Nodes("Array", CString, Nameless(Level2))
      BY <1>13, <1>15, UnnamedNodes
    <2> QED
      BY <2>1 DEF Level3, Over
  <1>17. HomePage[taskType] \in Nodes("Object", {<<>>}, Level3)
    BY <1>1, <1>14, <1>16, AddItem
  <1>18. HomePage[taskType] \in Nodes("Object", CString, Level3) /\ HomePage[taskType].string = <<>>
    BY <1>15, <1>17, UnnamedNodes
  <1> QED
    BY <1>18 DEF Level4, Over

\* cJSON.c:282, 486, 629: no part of a page is longer, with its NUL, than the
\* block that was allocated for it, whatever is stored.
THEOREM PagesFit ==
  ASSUME NEW taskType \in HomePageTypes
  PROVE  \A item \in DOMAIN PrintedPage[taskType] : Fits(PrintedPage[taskType][item])
  <1>1. HomePage[taskType] \in Level4
    BY PageIsTree
  <1>2. PrintedPage[taskType] = Printed(HomePage[taskType])
    BY DEF PrintedPage
  <1> QED
    BY <1>1, <1>2, PrintedSound DEF Sound

\* cJSON_Parse reads the page of each type as the tree that was built for it, up to
\* the end of the text, whatever is stored: printing loses nothing.
THEOREM PagesReadBack ==
  ASSUME NEW taskType \in HomePageTypes, NEW text,
         text = PrintedPage[taskType][HomePage[taskType]].text
  PROVE  Parse(text) = [items |-> <<HomePage[taskType]>>, next |-> Len(text) + 1]
  <1> DEFINE page == HomePage[taskType]
  <1>1. page \in Level4 /\ page.string = <<>>
    BY PageIsTree
  <1>2. PrintedPage[taskType] = Printed(page)
    BY DEF PrintedPage
  <1> HIDE DEF page
  <1>3. page \in Parts(page)
    BY <1>1, PartsClosed
  <1>4. Reads(Printed(page)[page], page)
    BY <1>1, <1>3, PrintedSound DEF Sound
  <1>5. text = Printed(page)[page].text
    BY <1>2 DEF page
  <1>6. Begins(text) /\ ReadAs(text, page)
    BY <1>4, <1>5, Zenon DEF Reads
  <1>7. Parse(text) = Found(Unnamed(page), Len(text) + 1)
    BY <1>6, WholeRead
  <1>8. Unnamed(page) = page
    <2>1. IsItem(page)
      BY <1>1, Levels DEF Trees
    <2> QED
      BY <1>1, <2>1, Renamed
  <1> QED
    BY <1>7, <1>8 DEF Found, page

\* Whatever task is run, the result is a text.
LEMMA RunIsText ==
  ASSUME NEW task
  PROVE  Run(task) \in Seq(Byte)
  <1>1. CASE task["type"] \in HomePageTypes
    <2> DEFINE page == HomePage[task["type"]]
    <2>1. page \in Level4
      BY <1>1, PageIsTree
    <2>2. page \in Parts(page)
      BY <2>1, PartsClosed
    <2>3. Fits(Printed(page)[page])
      BY <2>1, <2>2, PrintedSound DEF Sound
    <2>4. Run(task) = Printed(page)[page].text
      BY <1>1 DEF Run, CreateHomePage, PrintedPage
    <2> QED
      BY <2>3, <2>4 DEF Fits
  <1>2. CASE task["type"] \notin HomePageTypes
    BY <1>2, LiteralTexts, EmptySeq DEF Run
  <1> QED
    BY <1>1, <1>2
------------------------------------------------------------------------------
\* ToHex writes a digit that FromHex reads back: neither a percent sign nor a plus.
LEMMA HexDigits ==
  ASSUME NEW x \in 0 .. 15
  PROVE  /\ IsHex(ToHex(x)) /\ FromHex(ToHex(x)) = x /\ ToHex(x) \notin {Percent, Plus}
         /\ ToHex(x) \in Byte
  <1>1. CASE x > 9
    <2>1. ToHex(x) = x + 55 /\ ToHex(x) \in UpperCase
      BY <1>1 DEF ToHex, UpperCase
    <2>2. FromHex(ToHex(x)) = ToHex(x) - 65 + 10
      BY <2>1 DEF FromHex, UpperCase, LowerCase, Digits
    <2> QED
      BY <2>1, <2>2 DEF IsHex, UpperCase, Percent, Plus, Byte
  <1>2. CASE x <= 9
    <2>1. ToHex(x) = x + 48 /\ ToHex(x) \in Digits
      BY <1>2 DEF ToHex, Digits
    <2>2. FromHex(ToHex(x)) = ToHex(x) - 48
      BY <2>1 DEF FromHex, UpperCase, LowerCase, Digits
    <2> QED
      BY <2>1, <2>2 DEF IsHex, Digits, Percent, Plus, Byte
  <1> QED
    BY <1>1, <1>2

\* A hexadecimal digit has a value, and is neither a percent sign nor a plus.
LEMMA FromHexSmall ==
  ASSUME NEW c, IsHex(c)
  PROVE  FromHex(c) \in 0 .. 35 /\ c \notin {Percent, Plus}
  <1>1. CASE c \in UpperCase
    BY <1>1 DEF FromHex, UpperCase, LowerCase, Digits, Percent, Plus
  <1>2. CASE c \in LowerCase
    BY <1>2 DEF FromHex, UpperCase, LowerCase, Digits, Percent, Plus
  <1>3. CASE c \in Digits
    BY <1>3 DEF FromHex, UpperCase, LowerCase, Digits, Percent, Plus
  <1> QED
    BY <1>1, <1>2, <1>3 DEF IsHex

\* Where no assert fails, every position is decoded to at most one byte; and what
\* stands two places behind an escape's percent sign is no percent sign.
LEMMA DecodeAtType ==
  ASSUME NEW s \in Seq(Byte), ~Aborts(s), NEW i \in DOMAIN s
  PROVE  /\ DecodeAt(s, i) \in Seq(Byte)
         /\ s[i] = Percent => /\ i + 2 <= Len(s) /\ IsHex(s[i + 1]) /\ IsHex(s[i + 2])
                              /\ s[i + 1] # Percent /\ s[i + 2] # Percent
  <1>1. DOMAIN s = 1 .. Len(s) /\ Len(s) \in Nat /\ s[i] \in Byte
    BY LenProperties
  <1>2. CASE s[i] = Percent
    <2>1. i + 2 <= Len(s) /\ IsHex(s[i + 1]) /\ IsHex(s[i + 2])
      BY <1>2 DEF Aborts, Percents
    <2>2. s[i + 1] # Percent /\ s[i + 2] # Percent
      BY <2>1, FromHexSmall
    <2>3. FromHex(s[i + 1]) \in 0 .. 35 /\ FromHex(s[i + 2]) \in 0 .. 35
      BY <2>1, FromHexSmall
    <2> DEFINE v == (FromHex(s[i + 1]) * 16 + FromHex(s[i + 2])) % 256
    <2>4. v \in Byte
      <3> DEFINE a == FromHex(s[i + 1])
                 b == FromHex(s[i + 2])
      <3>1. a \in 0 .. 35 /\ b \in 0 .. 35
        BY <2>3
      <3> HIDE DEF a, b
      <3>2. (a * 16 + b) % 256 \in Byte
        BY <3>1 DEF Byte
      <3> QED
        BY <3>2 DEF a, b
    <2>5. ~(i > 1 /\ s[i - 1] = Percent) /\ ~(i > 2 /\ s[i - 2] = Percent)
      <3>1. ASSUME NEW j \in DOMAIN s, s[j] = Percent
            PROVE  s[j + 1] # Percent /\ s[j + 2] # Percent
        BY <3>1, FromHexSmall DEF Aborts, Percents
      <3>2. i > 1 => i - 1 \in DOMAIN s /\ (i - 1) + 1 = i
        BY <1>1
      <3>3. i > 2 => i - 2 \in DOMAIN s /\ (i - 2) + 2 = i
        BY <1>1
      <3> QED
        BY <1>2, <3>1, <3>2, <3>3
    <2>6. DecodeAt(s, i) = <<v>>
      BY <1>2, <2>5 DEF DecodeAt, Plus, Percent
    <2> HIDE DEF v
    <2> QED
      BY <2>1, <2>2, <2>4, <2>6
  <1>3. CASE s[i] # Percent /\ ((i > 1 /\ s[i - 1] = Percent) \/ (i > 2 /\ s[i - 2] = Percent))
    <2>1. s[i] # Plus
      <3>1. ASSUME NEW j \in DOMAIN s, s[j] = Percent
            PROVE  s[j + 1] # Plus /\ s[j + 2] # Plus
        BY <3>1, FromHexSmall DEF Aborts, Percents
      <3>2. i > 1 => i - 1 \in DOMAIN s /\ (i - 1) + 1 = i
        BY <1>1
      <3>3. i > 2 => i - 2 \in DOMAIN s /\ (i - 2) + 2 = i
        BY <1>1
      <3> QED
        BY <1>3, <3>1, <3>2, <3>3
    <2> QED
      BY <1>3, <2>1, EmptySeq DEF DecodeAt
  <1>4. CASE /\ s[i] # Percent /\ s[i] = Plus
             /\ ~((i > 1 /\ s[i - 1] = Percent) \/ (i > 2 /\ s[i - 2] = Percent))
    <2>1. DecodeAt(s, i) = <<Space>> /\ Space \in Byte
      BY <1>4 DEF DecodeAt, Plus, Percent, Space, Byte
    <2> QED
      BY <1>4, <2>1
  <1>5. CASE /\ s[i] # Percent /\ s[i] # Plus
             /\ ~((i > 1 /\ s[i - 1] = Percent) \/ (i > 2 /\ s[i - 2] = Percent))
    <2>1. DecodeAt(s, i) = <<s[i]>>
      BY <1>5 DEF DecodeAt
    <2> QED
      BY <1>1, <1>5, <2>1
  <1> QED
    BY <1>2, <1>3, <1>4, <1>5

\* Where no assert fails, the decoded text is a text.
LEMMA DecodeType ==
  ASSUME NEW s \in Seq(Byte), ~Aborts(s)
  PROVE  /\ [i \in DOMAIN s |-> DecodeAt(s, i)] \in Seq(Seq(Byte))
         /\ UrlDecode(s) = FlattenSeq([i \in DOMAIN s |-> DecodeAt(s, i)])
         /\ UrlDecode(s) \in Seq(Byte)
  <1> DEFINE d == [i \in DOMAIN s |-> DecodeAt(s, i)]
  <1>1. d \in Seq(Seq(Byte))
    <2>1. \A i \in DOMAIN s : DecodeAt(s, i) \in Seq(Byte)
      BY DecodeAtType
    <2>2. DOMAIN s = 1 .. Len(s) /\ Len(s) \in Nat
      BY LenProperties
    <2> QED
      BY <2>1, <2>2
  <1>2. UrlDecode(s) = Concat(d)
    BY DEF UrlDecode
  <1> HIDE DEF d
  <1> QED
    BY <1>1, <1>2, ConcatFlattens, FlattenType DEF d

\* Texts on which no assert fails can be decoded one after the other.
LEMMA DecodeConcat ==
  ASSUME NEW s \in Seq(Byte), ~Aborts(s), NEW t \in Seq(Byte), ~Aborts(t)
  PROVE  /\ ~Aborts(s \o t)
         /\ UrlDecode(s \o t) = UrlDecode(s) \o UrlDecode(t)
  <1> DEFINE u == s \o t
             m == Len(s)
             n == Len(t)
             ds == [i \in DOMAIN s |-> DecodeAt(s, i)]
             dt == [i \in DOMAIN t |-> DecodeAt(t, i)]
             du == [i \in DOMAIN u |-> DecodeAt(u, i)]
  <1>1. m \in Nat /\ n \in Nat /\ DOMAIN s = 1 .. m /\ DOMAIN t = 1 .. n
    BY LenProperties
  <1>2. /\ u \in Seq(Byte) /\ Len(u) = m + n /\ DOMAIN u = 1 .. m + n
        /\ \A i \in 1 .. m : u[i] = s[i]
        /\ \A i \in 1 .. n : u[m + i] = t[i]
    <2>1. /\ u \in Seq(Byte) /\ Len(u) = m + n
          /\ \A i \in 1 .. m + n : u[i] = IF i <= m THEN s[i] ELSE t[i - m]
      BY ConcatProperties
    <2> HIDE DEF u, m, n
    <2>2. \A i \in 1 .. n : m + i \in 1 .. m + n /\ ~(m + i <= m) /\ (m + i) - m = i
      BY <1>1
    <2> QED
      BY <1>1, <2>1, <2>2, LenProperties
  <1>3. \A i \in 1 .. m : s[i] = Percent =>
          /\ i + 2 <= m /\ IsHex(s[i + 1]) /\ IsHex(s[i + 2])
          /\ s[i + 1] # Percent /\ s[i + 2] # Percent
    BY <1>1, DecodeAtType
  <1>4. \A i \in 1 .. n : t[i] = Percent =>
          /\ i + 2 <= n /\ IsHex(t[i + 1]) /\ IsHex(t[i + 2])
    BY <1>1, DecodeAtType
  <1> HIDE DEF u, m, n
  <1>5. \A i \in 1 .. m + n : i \in 1 .. m \/ (i - m \in 1 .. n /\ m + (i - m) = i)
    BY <1>1
  <1>6. ~Aborts(u)
    <2> SUFFICES ASSUME NEW i \in 1 .. m + n, u[i] = Percent
                 PROVE  i + 2 <= Len(u) /\ IsHex(u[i + 1]) /\ IsHex(u[i + 2])
      BY <1>2 DEF Aborts, Percents
    <2>1. CASE i \in 1 .. m
      <3>1. i + 2 <= m /\ IsHex(s[i + 1]) /\ IsHex(s[i + 2])
        BY <1>2, <1>3, <2>1
      <3>2. i + 1 \in 1 .. m /\ i + 2 \in 1 .. m
        BY <1>1, <3>1
      <3> QED
        BY <1>1, <1>2, <3>1, <3>2
    <2>2. CASE i - m \in 1 .. n /\ m + (i - m) = i
      <3> DEFINE j == i - m
      <3>1. u[m + j] = t[j] /\ j \in 1 .. n
        BY <1>2, <2>2
      <3>2. j + 2 <= n /\ IsHex(t[j + 1]) /\ IsHex(t[j + 2])
        <4>1. t[j] = Percent
          BY <2>2, <3>1
        <4> HIDE DEF j
        <4> QED
          BY <1>4, <3>1, <4>1
      <3>3. j + 1 \in 1 .. n /\ j + 2 \in 1 .. n /\ m + (j + 1) = i + 1 /\ m + (j + 2) = i + 2
            /\ i + 2 <= m + n
        BY <1>1, <3>1, <3>2
      <3> HIDE DEF j
      <3>4. u[m + (j + 1)] = t[j + 1] /\ u[m + (j + 2)] = t[j + 2]
        BY <1>2, <3>3
      <3> QED
        BY <1>2, <3>2, <3>3, <3>4
    <2> QED
      BY <1>5, <2>1, <2>2
  <1>7. ASSUME NEW i \in 1 .. m
        PROVE  DecodeAt(u, i) = DecodeAt(s, i)
    <2>1. u[i] = s[i] /\ (i > 1 => u[i - 1] = s[i - 1]) /\ (i > 2 => u[i - 2] = s[i - 2])
      <3>1. (i > 1 => i - 1 \in 1 .. m) /\ (i > 2 => i - 2 \in 1 .. m)
        BY <1>1
      <3> QED
        BY <1>2, <3>1
    <2>2. s[i] = Percent => u[i + 1] = s[i + 1] /\ u[i + 2] = s[i + 2]
      <3>1. s[i] = Percent => i + 1 \in 1 .. m /\ i + 2 \in 1 .. m
        BY <1>1, <1>3
      <3> QED
        BY <1>2, <3>1
    <2>3. CASE s[i] = Percent
      <3>1. ~((i > 1 /\ s[i - 1] = Percent) \/ (i > 2 /\ s[i - 2] = Percent))
        <4>1. i > 1 => i - 1 \in 1 .. m /\ (i - 1) + 1 = i
          BY <1>1
        <4>2. i > 2 => i - 2 \in 1 .. m /\ (i - 2) + 2 = i
          BY <1>1
        <4> QED
          BY <1>3, <2>3, <4>1, <4>2
      <3>2. DecodeAt(s, i) = <<(FromHex(s[i + 1]) * 16 + FromHex(s[i + 2])) % 256>>
        BY <2>3, <3>1 DEF DecodeAt, Plus, Percent
      <3>3. DecodeAt(u, i) = <<(FromHex(u[i + 1]) * 16 + FromHex(u[i + 2])) % 256>>
        BY <2>1, <2>3, <3>1 DEF DecodeAt, Plus, Percent
      <3> QED
        BY <2>2, <2>3, <3>2, <3>3, Zenon
    <2>4. CASE s[i] # Percent
      BY <2>1, <2>4 DEF DecodeAt
    <2> QED
      BY <2>3, <2>4
  <1>8. ASSUME NEW i \in 1 .. n
        PROVE  DecodeAt(u, m + i) = DecodeAt(t, i)
    <2>1. u[m + i] = t[i]
      BY <1>2
    <2>2. (m + i > 1 /\ u[(m + i) - 1] = Percent) <=> (i > 1 /\ t[i - 1] = Percent)
      <3>1. CASE i > 1
        <4>1. i - 1 \in 1 .. n /\ m + (i - 1) = (m + i) - 1 /\ m + i > 1
          BY <1>1, <3>1
        <4> QED
          BY <1>2, <3>1, <4>1
      <3>2. CASE ~(i > 1)
        <4>1. (m + i) - 1 = m /\ ~(m + 2 <= m)
          BY <1>1, <3>2
        <4>2. m + i > 1 => m \in 1 .. m
          BY <1>1, <3>2
        <4> QED
          BY <1>2, <1>3, <3>2, <4>1, <4>2
      <3> QED
        BY <3>1, <3>2
    <2>3. (m + i > 2 /\ u[(m + i) - 2] = Percent) <=> (i > 2 /\ t[i - 2] = Percent)
      <3>1. CASE i > 2
        <4>1. i - 2 \in 1 .. n /\ m + (i - 2) = (m + i) - 2 /\ m + i > 2
          BY <1>1, <3>1
        <4> QED
          BY <1>2, <3>1, <4>1
      <3>2. CASE ~(i > 2)
        <4>1. ~((m + i) - 2 + 2 <= m)
          BY <1>1, <3>2
        <4>2. m + i > 2 => (m + i) - 2 \in 1 .. m
          BY <1>1, <3>2
        <4> QED
          BY <1>2, <1>3, <3>2, <4>1, <4>2
      <3> QED
        BY <3>1, <3>2
    <2>4. t[i] = Percent => u[(m + i) + 1] = t[i + 1] /\ u[(m + i) + 2] = t[i + 2]
      <3>1. t[i] = Percent => /\ i + 1 \in 1 .. n /\ m + (i + 1) = (m + i) + 1
                              /\ i + 2 \in 1 .. n /\ m + (i + 2) = (m + i) + 2
        BY <1>1, <1>4
      <3> QED
        BY <1>2, <3>1
    <2>5. CASE t[i] = Percent
      <3>1. ~((i > 1 /\ t[i - 1] = Percent) \/ (i > 2 /\ t[i - 2] = Percent))
        <4>1. \A j \in 1 .. n : t[j] = Percent => t[j + 1] # Percent /\ t[j + 2] # Percent
          BY <1>1, DecodeAtType
        <4>2. i > 1 => i - 1 \in 1 .. n /\ (i - 1) + 1 = i
          BY <1>1
        <4>3. i > 2 => i - 2 \in 1 .. n /\ (i - 2) + 2 = i
          BY <1>1
        <4> QED
          BY <2>5, <4>1, <4>2, <4>3
      <3>2. DecodeAt(t, i) = <<(FromHex(t[i + 1]) * 16 + FromHex(t[i + 2])) % 256>>
        BY <2>5, <3>1 DEF DecodeAt, Plus, Percent
      <3>3. DecodeAt(u, m + i) =
              <<(FromHex(u[(m + i) + 1]) * 16 + FromHex(u[(m + i) + 2])) % 256>>
        BY <2>1, <2>2, <2>3, <2>5, <3>1 DEF DecodeAt, Plus, Percent
      <3> QED
        BY <2>4, <2>5, <3>2, <3>3, Zenon
    <2>6. CASE t[i] # Percent
      BY <2>1, <2>2, <2>3, <2>6 DEF DecodeAt
    <2> QED
      BY <2>5, <2>6
  <1>9. du = ds \o dt
    <2>1. /\ du \in Seq(Seq(Byte)) /\ ds \in Seq(Seq(Byte)) /\ dt \in Seq(Seq(Byte))
      BY <1>2, <1>6, DecodeType
    <2>2. Len(ds) = m /\ Len(dt) = n /\ Len(du) = m + n
      BY <1>1, <1>2
    <2>3. /\ ds \o dt \in Seq(Seq(Byte)) /\ Len(ds \o dt) = m + n
          /\ \A i \in 1 .. m + n : (ds \o dt)[i] = IF i <= m THEN ds[i] ELSE dt[i - m]
      <3> HIDE DEF ds, dt
      <3> QED
        BY <2>1, <2>2, ConcatProperties
    <2>4. ASSUME NEW i \in 1 .. m + n
          PROVE  du[i] = (ds \o dt)[i]
      <3>1. CASE i \in 1 .. m
        <4>1. du[i] = DecodeAt(u, i) /\ ds[i] = DecodeAt(s, i) /\ i <= m
          BY <1>1, <1>2, <3>1
        <4> QED
          BY <1>7, <2>3, <3>1, <4>1
      <3>2. CASE i - m \in 1 .. n /\ m + (i - m) = i
        <4>1. /\ du[i] = DecodeAt(u, i) /\ dt[i - m] = DecodeAt(t, i - m) /\ ~(i <= m)
          BY <1>1, <1>2, <3>2
        <4>2. DecodeAt(u, m + (i - m)) = DecodeAt(t, i - m)
          BY <1>8, <3>2
        <4> QED
          BY <2>3, <3>2, <4>1, <4>2
      <3> QED
        BY <1>5, <3>1, <3>2
    <2> HIDE DEF du, ds, dt
    <2> QED
      BY <2>1, <2>2, <2>3, <2>4, SeqEqual
  <1>10. UrlDecode(u) = FlattenSeq(du) /\ UrlDecode(s) = FlattenSeq(ds)
         /\ UrlDecode(t) = FlattenSeq(dt) /\ ds \in Seq(Seq(Byte)) /\ dt \in Seq(Seq(Byte))
    BY <1>2, <1>6, DecodeType
  <1> HIDE DEF du, ds, dt
  <1>11. UrlDecode(u) = UrlDecode(s) \o UrlDecode(t)
    BY <1>9, <1>10, FlattenConcat
  <1> QED
    BY <1>6, <1>11 DEF u
------------------------------------------------------------------------------
\* The empty text can be decoded.
LEMMA DecodeEmpty == ~Aborts(<<>>) /\ UrlDecode(<<>>) = <<>>
  <1>1. ~Aborts(<<>>)
    BY DEF Aborts, Percents
  <1>2. [i \in DOMAIN <<>> |-> DecodeAt(<<>>, i)] = <<>> /\ <<>> \in Seq(Byte)
    BY EmptySeq
  <1> QED
    BY <1>1, <1>2, DecodeType, FlattenEmpty

\* So can any number of them.
LEMMA DecodeFlatten ==
  ASSUME NEW seqs \in Seq(Seq(Byte)), \A i \in DOMAIN seqs : ~Aborts(seqs[i])
  PROVE  /\ ~Aborts(FlattenSeq(seqs))
         /\ [i \in DOMAIN seqs |-> UrlDecode(seqs[i])] \in Seq(Seq(Byte))
         /\ UrlDecode(FlattenSeq(seqs)) =
              FlattenSeq([i \in DOMAIN seqs |-> UrlDecode(seqs[i])])
  <1> DEFINE n == Len(seqs)
             d == [i \in DOMAIN seqs |-> UrlDecode(seqs[i])]
  <1>1. n \in Nat /\ DOMAIN seqs = 1 .. n /\ \A i \in 1 .. n : seqs[i] \in Seq(Byte)
    BY LenProperties, ElementOfSeq
  <1>2. d \in Seq(Seq(Byte)) /\ Len(d) = n /\ \A i \in 1 .. n : d[i] = UrlDecode(seqs[i])
    <2>1. \A i \in DOMAIN seqs : UrlDecode(seqs[i]) \in Seq(Byte)
      BY <1>1, DecodeType
    <2> QED
      BY <1>1, <2>1
  <1> HIDE DEF n, d
  <1>3. PICK f : Flattens(f, seqs, Byte)
    BY FlattenStep
  <1>4. PICK g : Flattens(g, d, Byte)
    BY <1>2, FlattenStep
  <1> DEFINE T == {i \in Nat : ~Aborts(f[i]) /\ UrlDecode(f[i]) = g[i]}
  <1>5. 0 \in T
    BY <1>3, <1>4, DecodeEmpty DEF Flattens
  <1>6. ASSUME NEW i \in 0 .. n - 1, i \in T
        PROVE  i + 1 \in T
    <2>1. i + 1 \in 1 .. n /\ i \in 0 .. n /\ i + 1 \in Nat
      BY <1>1
    <2>2. f[i + 1] = f[i] \o seqs[i + 1] /\ f[i] \in Seq(Byte)
      BY <1>1, <1>3, <2>1 DEF Flattens, n
    <2>3. g[i + 1] = g[i] \o d[i + 1]
      BY <1>2, <1>4 DEF Flattens
    <2>4. seqs[i + 1] \in Seq(Byte) /\ ~Aborts(seqs[i + 1]) /\ d[i + 1] = UrlDecode(seqs[i + 1])
      BY <1>1, <1>2, <2>1
    <2>5. ~Aborts(f[i]) /\ UrlDecode(f[i]) = g[i]
      BY <1>6
    <2>6. /\ ~Aborts(f[i] \o seqs[i + 1])
          /\ UrlDecode(f[i] \o seqs[i + 1]) = UrlDecode(f[i]) \o UrlDecode(seqs[i + 1])
      BY <2>2, <2>4, <2>5, DecodeConcat
    <2>7. ~Aborts(f[i + 1]) /\ UrlDecode(f[i + 1]) = g[i + 1]
      BY <2>2, <2>3, <2>4, <2>5, <2>6, Zenon
    <2> QED
      BY <2>1, <2>7
  <1>7. n \in T
    <2> HIDE DEF T
    <2>1. \A i \in 0 .. n : i \in T
      BY <1>1, <1>5, <1>6, UpTo
    <2> QED
      BY <1>1, <2>1
  <1>8. f[n] = FlattenSeq(seqs) /\ g[n] = FlattenSeq(d)
    BY <1>2, <1>3, <1>4 DEF Flattens, n
  <1> QED
    BY <1>2, <1>7, <1>8 DEF d

\* A text is its bytes, one after the other.
LEMMA FlattenBytes ==
  ASSUME NEW S, NEW s \in Seq(S)
  PROVE  FlattenSeq([i \in DOMAIN s |-> <<s[i]>>]) = s
  <1> DEFINE n == Len(s)
             b == [i \in DOMAIN s |-> <<s[i]>>]
  <1>1. n \in Nat /\ DOMAIN s = 1 .. n /\ \A i \in 1 .. n : s[i] \in S
    BY LenProperties, ElementOfSeq
  <1>2. b \in Seq(Seq(S)) /\ Len(b) = n /\ \A i \in 1 .. n : b[i] = <<s[i]>>
    <2>1. \A i \in DOMAIN s : <<s[i]>> \in Seq(S)
      BY <1>1
    <2> QED
      BY <1>1, <2>1
  <1> HIDE DEF n, b
  <1>3. PICK f : Flattens(f, b, S)
    BY <1>2, FlattenStep
  <1> DEFINE T == {i \in Nat : f[i] = SubSeq(s, 1, i)}
  <1>4. 0 \in T
    <2>1. SubSeq(s, 1, 0) = <<>>
      BY SubSeqEmpty
    <2> QED
      BY <1>3, <2>1 DEF Flattens
  <1>5. ASSUME NEW i \in 0 .. n - 1, i \in T
        PROVE  i + 1 \in T
    <2>1. i + 1 \in 1 .. n /\ i \in Nat /\ i + 1 \in Nat
      BY <1>1
    <2>2. f[i + 1] = f[i] \o b[i + 1] /\ b[i + 1] = <<s[i + 1]>> /\ f[i] = SubSeq(s, 1, i)
      BY <1>2, <1>3, <1>5, <2>1 DEF Flattens
    <2>3. SubSeq(s, i + 1, i + 1) = <<s[i + 1]>>
      <3>1. /\ SubSeq(s, i + 1, i + 1) \in Seq(S) /\ Len(SubSeq(s, i + 1, i + 1)) = 1
            /\ SubSeq(s, i + 1, i + 1)[1] = s[i + 1]
        BY <1>1, <2>1, SubSeqProperties DEF n
      <3>2. <<s[i + 1]>> \in Seq(S) /\ Len(<<s[i + 1]>>) = 1 /\ <<s[i + 1]>>[1] = s[i + 1]
        BY <1>1, <2>1
      <3> DEFINE x == SubSeq(s, i + 1, i + 1)
                 y == <<s[i + 1]>>
      <3>3. x \in Seq(S) /\ y \in Seq(S) /\ Len(x) = Len(y) /\ \A j \in 1 .. Len(x) : x[j] = y[j]
        BY <3>1, <3>2
      <3> HIDE DEF x, y
      <3>4. x = y
        BY <3>3, SeqEqual
      <3> QED
        BY <3>4 DEF x, y
    <2>4. SubSeq(s, 1, i) \o SubSeq(s, i + 1, i + 1) = SubSeq(s, 1, i + 1)
      <3>1. 1 \in 1 .. Len(s) + 1 /\ i \in 1 - 1 .. Len(s) /\ i + 1 \in i .. Len(s)
        BY <1>1, <2>1 DEF n
      <3> QED
        BY <3>1, ConcatAdjacentSubSeq
    <2>5. f[i + 1] = SubSeq(s, 1, i + 1)
      BY <2>2, <2>3, <2>4, Zenon
    <2> QED
      BY <2>1, <2>5
  <1>6. n \in T
    <2> HIDE DEF T
    <2>1. \A i \in 0 .. n : i \in T
      BY <1>1, <1>4, <1>5, UpTo
    <2> QED
      BY <1>1, <2>1
  <1>7. f[n] = FlattenSeq(b) /\ f[n] = SubSeq(s, 1, n)
    BY <1>2, <1>3, <1>6 DEF Flattens
  <1>8. SubSeq(s, 1, n) = s
    BY SubSeqFull DEF n
  <1> QED
    BY <1>7, <1>8 DEF b

\* A byte that is no percent sign is decoded by itself.
LEMMA DecodeOne ==
  ASSUME NEW c \in Byte, c # Percent
  PROVE  /\ ~Aborts(<<c>>)
         /\ UrlDecode(<<c>>) = IF c = Plus THEN <<Space>> ELSE <<c>>
  <1> DEFINE s == <<c>>
             v == IF c = Plus THEN <<Space>> ELSE <<c>>
  <1>1. s \in Seq(Byte) /\ DOMAIN s = {1} /\ s[1] = c
    OBVIOUS
  <1>2. ~Aborts(s)
    BY <1>1 DEF Aborts, Percents
  <1>3. DecodeAt(s, 1) = v
    BY <1>1 DEF DecodeAt
  <1>4. v \in Seq(Byte)
    <2>1. <<c>> \in Seq(Byte) /\ <<Space>> \in Seq(Byte)
      BY DEF Space, Byte
    <2> QED
      BY <2>1
  <1>5. [i \in DOMAIN s |-> DecodeAt(s, i)] = <<v>>
    BY <1>1, <1>3
  <1> HIDE DEF s, v
  <1>6. UrlDecode(s) = FlattenSeq(<<v>>)
    BY <1>1, <1>2, <1>5, DecodeType
  <1>7. FlattenSeq(<<v>>) = v
    BY <1>4, FlattenOne
  <1> QED
    BY <1>2, <1>6, <1>7, Zenon DEF s, v

\* UrlDecode makes one byte of an escape.
LEMMA DecodeEscape ==
  ASSUME NEW c \in Byte
  PROVE  LET s == <<Percent, ToHex(c \div 16), ToHex(c % 16)>>
         IN  s \in Seq(Byte) /\ ~Aborts(s) /\ UrlDecode(s) = <<c>>
  <1> DEFINE h == c \div 16
             l == c % 16
             s == <<Percent, ToHex(h), ToHex(l)>>
  <1>1. h \in 0 .. 15 /\ l \in 0 .. 15 /\ h * 16 + l = c /\ c % 256 = c
    <2>1. c \in Nat /\ c <= 255
      BY DEF Byte
    <2>2. h \in 0 .. 15
      BY <2>1
    <2>3. l \in 0 .. 15
      BY <2>1
    <2>4. h * 16 + l = c
      BY <2>1
    <2>5. c % 256 = c
      BY <2>1
    <2> QED
      BY <2>2, <2>3, <2>4, <2>5
  <1> HIDE DEF h, l
  <1>2. /\ IsHex(ToHex(h)) /\ FromHex(ToHex(h)) = h /\ ToHex(h) \notin {Percent, Plus}
        /\ IsHex(ToHex(l)) /\ FromHex(ToHex(l)) = l /\ ToHex(l) \notin {Percent, Plus}
        /\ ToHex(h) \in Byte /\ ToHex(l) \in Byte /\ Percent \in Byte
    BY <1>1, HexDigits DEF Percent, Byte
  <1>3. /\ s \in Seq(Byte) /\ DOMAIN s = {1, 2, 3} /\ Len(s) = 3
        /\ s[1] = Percent /\ s[2] = ToHex(h) /\ s[3] = ToHex(l)
    BY <1>2
  <1> HIDE DEF s
  <1>4. ~Aborts(s)
    <2>1. Percents(s) = {1}
      BY <1>2, <1>3 DEF Percents
    <2> QED
      BY <1>2, <1>3, <2>1 DEF Aborts
  <1>5. DecodeAt(s, 1) = <<c>>
    <2>1. DecodeAt(s, 1) = <<(FromHex(s[2]) * 16 + FromHex(s[3])) % 256>>
      BY <1>3 DEF DecodeAt, Plus, Percent
    <2> QED
      BY <1>1, <1>2, <1>3, <2>1
  <1>6. DecodeAt(s, 2) = <<>>
    BY <1>2, <1>3 DEF DecodeAt
  <1>7. DecodeAt(s, 3) = <<>>
    BY <1>2, <1>3 DEF DecodeAt
  <1>8. [i \in DOMAIN s |-> DecodeAt(s, i)] = <<<<c>>, <<>>, <<>>>>
    BY <1>3, <1>5, <1>6, <1>7
  <1>9. UrlDecode(s) = FlattenSeq(<<<<c>>, <<>>, <<>>>>)
    BY <1>3, <1>4, <1>8, DecodeType
  <1>10. FlattenSeq(<<<<c>>, <<>>, <<>>>>) = <<c>>
    <2> DEFINE t == <<<<c>>, <<>>, <<>>>>
    <2>1. /\ t \in Seq(Seq(Byte)) /\ Len(t) = 3
          /\ t[1] = <<c>> /\ t[2] = <<>> /\ t[3] = <<>> /\ <<c>> \in Seq(Byte)
      <3>1. <<c>> \in Seq(Byte) /\ <<>> \in Seq(Byte)
        OBVIOUS
      <3> QED
        BY <3>1
    <2> HIDE DEF t
    <2>2. PICK f : Flattens(f, t, Byte)
      BY <2>1, FlattenStep
    <2>3. f[0 + 1] = f[0] \o t[0 + 1] /\ f[1 + 1] = f[1] \o t[1 + 1] /\ f[2 + 1] = f[2] \o t[2 + 1]
      <3>1. 0 \in 0 .. Len(t) - 1 /\ 1 \in 0 .. Len(t) - 1 /\ 2 \in 0 .. Len(t) - 1
        BY <2>1
      <3> QED
        BY <2>2, <3>1, Zenon DEF Flattens
    <2>4. f[1] = <<c>>
      BY <2>1, <2>2, <2>3, ConcatEmptySeq DEF Flattens
    <2>5. f[2] = <<c>>
      BY <2>1, <2>3, <2>4, ConcatEmptySeq
    <2>6. f[3] = <<c>>
      BY <2>1, <2>3, <2>5, ConcatEmptySeq
    <2> QED
      BY <2>1, <2>2, <2>6 DEF Flattens, t
  <1> QED
    BY <1>3, <1>4, <1>9, <1>10 DEF s, h, l

\* UrlDecode makes one byte of what EncodeByte makes of it.
LEMMA DecodeEncodedByte ==
  ASSUME NEW c \in Byte
  PROVE  /\ EncodeByte(c) \in Seq(Byte)
         /\ ~Aborts(EncodeByte(c))
         /\ UrlDecode(EncodeByte(c)) = <<c>>
  <1>1. CASE c \in Unreserved
    <2>1. c # Percent /\ c # Plus
      BY <1>1 DEF Unreserved, Digits, UpperCase, LowerCase, Percent, Plus
    <2>2. EncodeByte(c) = <<c>>
      BY <1>1 DEF EncodeByte
    <2> QED
      BY <2>1, <2>2, DecodeOne
  <1>2. CASE c \notin Unreserved /\ c = Space
    <2>1. EncodeByte(c) = <<Plus>>
      BY <1>2 DEF EncodeByte
    <2>2. Plus \in Byte /\ Plus # Percent
      BY DEF Plus, Percent, Byte
    <2> QED
      BY <1>2, <2>1, <2>2, DecodeOne
  <1>3. CASE c \notin Unreserved /\ c # Space
    <2>1. EncodeByte(c) = <<Percent, ToHex(c \div 16), ToHex(c % 16)>>
      BY <1>3 DEF EncodeByte
    <2> QED
      BY <2>1, DecodeEscape, Zenon
  <1> QED
    BY <1>1, <1>2, <1>3

\* UrlCodeSolution.h: no assert fails on a text that UrlEncode has written, and
\* UrlDecode reads what UrlEncode was given, whatever bytes it holds.
THEOREM EncodedReadBack ==
  ASSUME NEW str \in Seq(Byte)
  PROVE  /\ UrlEncode(str) \in Seq(Byte)
         /\ ~Aborts(UrlEncode(str))
         /\ UrlDecode(UrlEncode(str)) = str
  <1> DEFINE e == [i \in DOMAIN str |-> EncodeByte(str[i])]
  <1>1. DOMAIN str = 1 .. Len(str) /\ Len(str) \in Nat /\ \A i \in DOMAIN str : str[i] \in Byte
    BY LenProperties, ElementOfSeq
  <1>2. \A i \in DOMAIN str : /\ EncodeByte(str[i]) \in Seq(Byte) /\ ~Aborts(EncodeByte(str[i]))
                              /\ UrlDecode(EncodeByte(str[i])) = <<str[i]>>
    BY <1>1, DecodeEncodedByte
  <1>3. /\ e \in Seq(Seq(Byte)) /\ DOMAIN e = DOMAIN str
        /\ \A i \in DOMAIN e : e[i] = EncodeByte(str[i])
    BY <1>1, <1>2
  <1>4. UrlEncode(str) = Concat(e)
    BY DEF UrlEncode
  <1> HIDE DEF e
  <1>5. UrlEncode(str) = FlattenSeq(e) /\ FlattenSeq(e) \in Seq(Byte)
    BY <1>3, <1>4, ConcatFlattens, FlattenType
  <1>6. /\ ~Aborts(FlattenSeq(e))
        /\ UrlDecode(FlattenSeq(e)) = FlattenSeq([i \in DOMAIN e |-> UrlDecode(e[i])])
    BY <1>2, <1>3, DecodeFlatten
  <1>7. [i \in DOMAIN e |-> UrlDecode(e[i])] = [i \in DOMAIN str |-> <<str[i]>>]
    BY <1>2, <1>3
  <1> QED
    BY <1>5, <1>6, <1>7, FlattenBytes
------------------------------------------------------------------------------
\* Where a text is found, byte by byte.
LEMMA HitsAre ==
  ASSUME NEW s \in Seq(Byte), NEW pat \in Seq(Byte), NEW pos \in Nat, NEW i
  PROVE  i \in Hits(s, pat, pos) <=>
           /\ i \in Nat /\ i >= pos /\ i + Len(pat) <= Len(s)
           /\ \A j \in 1 .. Len(pat) : s[i + j] = pat[j]
  <1> DEFINE n == Len(pat)
  <1>1. Len(s) \in Nat /\ n \in Nat
    BY LenProperties
  <1>2. i \in Hits(s, pat, pos) <=>
          i \in pos .. Len(s) - n /\ SubSeq(s, i + 1, i + n) = pat
    BY DEF Hits
  <1>3. i \in pos .. Len(s) - n <=> i \in Nat /\ i >= pos /\ i + n <= Len(s)
    <2> HIDE DEF n
    <2> QED
      BY <1>1
  <1>4. ASSUME i \in Nat, i + n <= Len(s), SubSeq(s, i + 1, i + n) = pat
        PROVE  \A j \in 1 .. n : s[i + j] = pat[j]
    <2> SUFFICES ASSUME NEW j \in 1 .. n PROVE s[i + j] = pat[j]
      OBVIOUS
    <2>1. \A k \in i + 1 .. i + n : s[k] \in Byte
      <3> HIDE DEF n
      <3> QED
        BY <1>1, <1>4, ElementOfSeq
    <2>2. SubSeq(s, i + 1, i + n)[j] = s[i + 1 + j - 1]
      <3> HIDE DEF n
      <3>1. i + 1 \in Int /\ i + n \in Int /\ j \in 1 .. (i + n) - (i + 1) + 1
        BY <1>1, <1>4
      <3> QED
        BY <2>1, <3>1, SubSeqProperties
    <2>3. i + 1 + j - 1 = i + j
      BY <1>4
    <2> QED
      BY <1>4, <2>2, <2>3
  <1>5. ASSUME i \in Nat, i + n <= Len(s), \A j \in 1 .. n : s[i + j] = pat[j]
        PROVE  SubSeq(s, i + 1, i + n) = pat
    BY <1>5, Cut
  <1> QED
    BY <1>2, <1>3, <1>4, <1>5

\* Where a single byte is found.
LEMMA HitsOfByte ==
  ASSUME NEW s \in Seq(Byte), NEW c \in Byte, NEW pos \in Nat, NEW i
  PROVE  i \in Hits(s, <<c>>, pos) <=> i \in Nat /\ i >= pos /\ i + 1 <= Len(s) /\ s[i + 1] = c
  <1> DEFINE p == <<c>>
  <1>1. p \in Seq(Byte) /\ Len(p) = 1 /\ p[1] = c
    OBVIOUS
  <1> HIDE DEF p
  <1>2. i \in Hits(s, p, pos) <=>
          /\ i \in Nat /\ i >= pos /\ i + Len(p) <= Len(s)
          /\ \A j \in 1 .. Len(p) : s[i + j] = p[j]
    <2>1. \A t \in Seq(Byte) :
            i \in Hits(s, t, pos) <=>
              /\ i \in Nat /\ i >= pos /\ i + Len(t) <= Len(s)
              /\ \A j \in 1 .. Len(t) : s[i + j] = t[j]
      BY HitsAre
    <2> QED
      BY <1>1, <2>1
  <1> QED
    BY <1>1, <1>2 DEF p
------------------------------------------------------------------------------
\* A text with no sign of an escape is decoded as it is.
LEMMA DecodePlain ==
  ASSUME NEW s \in Seq(Byte), \A i \in DOMAIN s : s[i] \notin {Percent, Plus}
  PROVE  ~Aborts(s) /\ UrlDecode(s) = s
  <1>1. DOMAIN s = 1 .. Len(s) /\ Len(s) \in Nat
    BY LenProperties
  <1>2. ~Aborts(s)
    BY DEF Aborts, Percents
  <1>3. ASSUME NEW i \in DOMAIN s
        PROVE  DecodeAt(s, i) = <<s[i]>>
    <2>1. i > 1 => s[i - 1] # Percent
      <3>1. i > 1 => i - 1 \in DOMAIN s
        BY <1>1
      <3> QED
        BY <3>1
    <2>2. i > 2 => s[i - 2] # Percent
      <3>1. i > 2 => i - 2 \in DOMAIN s
        BY <1>1
      <3> QED
        BY <3>1
    <2> QED
      BY <2>1, <2>2 DEF DecodeAt
  <1>4. [i \in DOMAIN s |-> DecodeAt(s, i)] = [i \in DOMAIN s |-> <<s[i]>>]
    BY <1>3
  <1> QED
    BY <1>2, <1>4, DecodeType, FlattenBytes

\* Decoding makes no text longer.
LEMMA DecodeShortens ==
  ASSUME NEW s \in Seq(Byte), ~Aborts(s)
  PROVE  Len(UrlDecode(s)) <= Len(s)
  <1> DEFINE d == [i \in DOMAIN s |-> DecodeAt(s, i)]
             n == Len(s)
  <1>1. n \in Nat /\ DOMAIN s = 1 .. n
    BY LenProperties
  <1>2. d \in Seq(Seq(Byte)) /\ UrlDecode(s) = FlattenSeq(d)
    BY DecodeType
  <1>3. Len(d) = n /\ \A i \in 1 .. n : d[i] = DecodeAt(s, i)
    BY <1>1
  <1>4. \A i \in 1 .. n : d[i] \in Seq(Byte) /\ Len(d[i]) <= 1
    <2> SUFFICES ASSUME NEW i \in 1 .. n
                 PROVE  DecodeAt(s, i) \in Seq(Byte) /\ Len(DecodeAt(s, i)) <= 1
      BY <1>3
    <2>1. DecodeAt(s, i) \in Seq(Byte)
      BY <1>1, DecodeAtType
    <2>2. \A x : Len(<<x>>) = 1
      OBVIOUS
    <2>3. \/ DecodeAt(s, i) = <<>>
          \/ DecodeAt(s, i) = <<s[i]>>
          \/ DecodeAt(s, i) = <<Space>>
          \/ DecodeAt(s, i) = <<(FromHex(s[i + 1]) * 16 + FromHex(s[i + 2])) % 256>>
      BY DEF DecodeAt
    <2>4. Len(<<>>) = 0
      BY EmptySeq
    <2>5. Len(DecodeAt(s, i)) = 0 \/ Len(DecodeAt(s, i)) = 1
      <3> DEFINE x == DecodeAt(s, i)
      <3>1. x = <<>> => Len(x) = 0
        BY <2>4
      <3>2. \A y : x = <<y>> => Len(x) = 1
        BY <2>2
      <3>3. \/ x = <<>>
            \/ \E y : x = <<y>>
        BY <2>3
      <3> HIDE DEF x
      <3>4. Len(x) = 0 \/ Len(x) = 1
        BY <3>1, <3>2, <3>3, Zenon
      <3> QED
        BY <3>4 DEF x
    <2>6. \A k : k = 0 \/ k = 1 => k <= 1
      OBVIOUS
    <2> QED
      BY <2>1, <2>5, <2>6, Zenon
  <1> HIDE DEF d, n
  <1>5. PICK f : Flattens(f, d, Byte)
    BY <1>2, FlattenStep
  <1> DEFINE T == {i \in Nat : Len(f[i]) <= i}
  <1>6. 0 \in T
    BY <1>5, EmptySeq DEF Flattens
  <1>7. ASSUME NEW i \in 0 .. n - 1, i \in T
        PROVE  i + 1 \in T
    <2>1. i + 1 \in 1 .. n /\ i \in 0 .. n /\ i + 1 \in Nat /\ i \in Nat
      BY <1>1
    <2>2. f[i + 1] = f[i] \o d[i + 1] /\ f[i] \in Seq(Byte) /\ d[i + 1] \in Seq(Byte)
      BY <1>1, <1>3, <1>4, <1>5, <2>1 DEF Flattens
    <2>3. Len(f[i + 1]) = Len(f[i]) + Len(d[i + 1]) /\ Len(f[i]) \in Nat /\ Len(d[i + 1]) \in Nat
      BY <2>2, ConcatIndex
    <2>4. Len(f[i]) <= i /\ Len(d[i + 1]) <= 1
      BY <1>4, <1>7, <2>1
    <2>5. Len(f[i + 1]) <= i + 1
      <3> DEFINE a == Len(f[i])
                 b == Len(d[i + 1])
                 c == Len(f[i + 1])
      <3>1. c = a + b /\ a \in Nat /\ b \in Nat /\ a <= i /\ b <= 1
        BY <2>3, <2>4
      <3> HIDE DEF a, b, c
      <3>2. c <= i + 1
        BY <2>1, <3>1
      <3> QED
        BY <3>2 DEF c
    <2> QED
      BY <2>1, <2>5
  <1>8. n \in T
    <2> HIDE DEF T
    <2>1. \A i \in 0 .. n : i \in T
      BY <1>1, <1>6, <1>7, UpTo
    <2> QED
      BY <1>1, <2>1
  <1> QED
    BY <1>2, <1>3, <1>5, <1>8 DEF Flattens, n
==============================================================================
