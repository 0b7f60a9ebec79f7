-------------------------- MODULE Pipeline_proofs --------------------------
(***************************************************************************)
(* Proofs about Pipeline, for every set of openBMP messages, any number of *)
(* them and any size of the header and of the blocks.  The lemmas about a  *)
(* context and about a Topic are about values, not variables: the one of   *)
(* forward.py and the one of debag.py both satisfy them.                   *)
(***************************************************************************)
EXTENDS Pipeline, FiniteSetTheorems, SequenceTheorems, TLAPS

(* Induction, and the functions that are defined by recursion *)

LEMMA LeastNatural ==
    ASSUME NEW A, A \subseteq Nat, A # {}
    PROVE  \E n \in A : \A m \in A : n <= m
<1> DEFINE below == {0 .. i : i \in A}
<1>1. below \subseteq FiniteSubsetsOf(Nat) /\ below # {}
  <2>1. \A i \in A : 0 .. i \in FiniteSubsetsOf(Nat)
    <3> TAKE i \in A
    <3>1. IsFiniteSet(0 .. i)
      BY FS_Interval
    <3> QED BY <3>1 DEF FiniteSubsetsOf
  <2> QED BY <2>1
<1>2. PICK b \in below : \A c \in below : ~(<<c, b>> \in StrictSubsetOrdering(Nat))
  <2> HIDE DEF below
  <2> QED BY <1>1, WFMin, FS_StrictSubsetOrderingWellFounded
<1>3. PICK n \in A : b = 0 .. n
  BY <1>2
<1>4. ASSUME NEW m \in A, m < n
      PROVE  FALSE
  <2>1. 0 .. m \in below /\ 0 .. m \subseteq 0 .. n /\ 0 .. n \subseteq Nat
    BY <1>4
  <2>2. n \in 0 .. n /\ n \notin 0 .. m
    BY <1>4
  <2>3. <<0 .. m, 0 .. n>> \in StrictSubsetOrdering(Nat)
    BY <2>1, <2>2 DEF StrictSubsetOrdering
  <2> QED BY <1>2, <1>3, <2>1, <2>3
<1> QED BY <1>4

LEMMA SetInduction ==
    ASSUME NEW A, 0 \in A, \A n \in Nat : n \in A => n + 1 \in A
    PROVE  \A n \in Nat : n \in A
<1> SUFFICES ASSUME Nat \ A # {} PROVE FALSE
  OBVIOUS
<1>1. PICK n \in Nat \ A : \A m \in Nat \ A : n <= m
  BY LeastNatural
<1>2. n - 1 \in Nat /\ n - 1 \notin Nat \ A
  BY <1>1
<1>3. (n - 1) + 1 \in A
  BY <1>2
<1> QED BY <1>1, <1>3

Recurses(f, n, V, v0, step) ==
    /\ f \in [0 .. n -> V] /\ f[0] = v0
    /\ \A i \in 1 .. n : f[i] = step[<<i, f[i - 1]>>]

LEMMA Recursion ==
    ASSUME NEW V, NEW v0 \in V, NEW step \in [Nat \X V -> V], NEW n \in Nat
    PROVE  \E f : Recurses(f, n, V, v0, step)
<1> DEFINE Is(f, k) == Recurses(f, k, V, v0, step)
           A == {k \in Nat : \E f : Is(f, k)}
<1>1. 0 \in A
  <2>1. Is([i \in 0 .. 0 |-> v0], 0)
    BY DEF Recurses
  <2> QED BY <2>1
<1>2. ASSUME NEW k \in Nat, k \in A
      PROVE  k + 1 \in A
  <2>0. PICK f : Is(f, k)
    BY <1>2
  <2>1. /\ f \in [0 .. k -> V] /\ f[0] = v0
        /\ \A i \in 1 .. k : f[i] = step[<<i, f[i - 1]>>]
    BY <2>0 DEF Recurses
  <2> DEFINE g == [i \in 0 .. k + 1 |-> IF i = k + 1 THEN step[<<k + 1, f[k]>>] ELSE f[i]]
  <2>2. f[k] \in V /\ step[<<k + 1, f[k]>>] \in V
    BY <2>1
  <2>3. g \in [0 .. k + 1 -> V] /\ g[0] = v0
    BY <2>1, <2>2
  <2>4. ASSUME NEW i \in 1 .. k + 1
        PROVE  g[i] = step[<<i, g[i - 1]>>]
    <3>1. CASE i = k + 1
      <4>1. k + 1 \in 0 .. k + 1 /\ k \in 0 .. k + 1 /\ k # k + 1 /\ i - 1 = k
        BY <3>1
      <4> QED BY <3>1, <4>1
    <3>2. CASE i # k + 1
      <4>1. i \in 1 .. k /\ i - 1 \in 0 .. k /\ i - 1 # k + 1
        BY <3>2
      <4> QED BY <2>1, <4>1
    <3> QED BY <3>1, <3>2
  <2>5. Is(g, k + 1)
    BY <2>3, <2>4 DEF Recurses
  <2> HIDE DEF g, Is
  <2>6. \E h : Is(h, k + 1)
    BY <2>5
  <2> QED BY <2>6
<1>3. n \in A
  <2> HIDE DEF A
  <2> QED BY <1>1, <1>2, SetInduction
<1> QED BY <1>3

LEMMA FlattenIsRecursive ==
    ASSUME NEW M, NEW s \in Seq(Seq(M))
    PROVE  \E f \in [0 .. Len(s) -> Seq(M)] :
              /\ f[0] = << >> /\ \A i \in 1 .. Len(s) : f[i] = f[i - 1] \o s[i]
              /\ FlattenSeq(s) = f[Len(s)]
<1> DEFINE n == Len(s)
           step == [p \in Nat \X Seq(M) |-> IF p[1] \in 1 .. n THEN p[2] \o s[p[1]] ELSE p[2]]
<1>1. n \in Nat /\ << >> \in Seq(M) /\ \A i \in 1 .. n : s[i] \in Seq(M)
  OBVIOUS
<1>2. step \in [Nat \X Seq(M) -> Seq(M)]
  <2>1. \A p \in Nat \X Seq(M) : p[2] \in Seq(M) /\ (p[1] \in 1 .. n => p[2] \o s[p[1]] \in Seq(M))
    <3> TAKE p \in Nat \X Seq(M)
    <3>1. p[2] \in Seq(M)
      OBVIOUS
    <3>2. ASSUME p[1] \in 1 .. n PROVE p[2] \o s[p[1]] \in Seq(M)
      BY <1>1, <3>1, <3>2, ConcatProperties
    <3> QED BY <3>1, <3>2
  <2> QED BY <2>1
<1>3. PICK f \in [0 .. n -> Seq(M)] :
         f[0] = << >> /\ \A i \in 1 .. n : f[i] = step[<<i, f[i - 1]>>]
  <2> HIDE DEF step, n
  <2>1. \E f : Recurses(f, n, Seq(M), << >>, step)
    BY <1>1, <1>2, Recursion
  <2> QED BY <2>1 DEF Recurses
<1>4. ASSUME NEW i \in 1 .. n
      PROVE  f[i] = f[i - 1] \o s[i]
  <2> HIDE DEF n
  <2>1. i - 1 \in 0 .. n /\ i \in Nat
    BY <1>1
  <2>3. f[i - 1] \in Seq(M) /\ <<i, f[i - 1]>> \in Nat \X Seq(M)
    BY <1>3, <2>1
  <2>2. step[<<i, f[i - 1]>>] = f[i - 1] \o s[i]
    BY <2>1, <2>3
  <2> HIDE DEF step
  <2> QED BY <1>3, <2>2
<1> HIDE DEF step
<1>5. FlattenSeq(s) = f[n]
  <2>1. CASE n = 0
    <3>1. s = << >>
      BY <2>1
    <3> QED BY <1>3, <2>1, <3>1 DEF FlattenSeq
  <2>2. CASE n # 0
    <3> DEFINE Flattens(g) == g = [i \in 1 .. n |-> IF i = 1 THEN s[i] ELSE g[i - 1] \o s[i]]
               h == [i \in 1 .. n |-> f[i]]
               flatten == CHOOSE g : Flattens(g)
    <3>1. Flattens(h)
      <4>1. ASSUME NEW i \in 1 .. n
            PROVE  h[i] = IF i = 1 THEN s[i] ELSE h[i - 1] \o s[i]
        <5>1. CASE i = 1
          <6>1. 1 \in 1 .. n /\ 1 - 1 = 0
            BY <5>1
          <6>2. f[1] = f[0] \o s[1] /\ s[1] \in Seq(M)
            BY <1>1, <1>4, <6>1
          <6> QED BY <1>3, <5>1, <6>2, ConcatEmptySeq
        <5>2. CASE i # 1
          <6>1. i - 1 \in 1 .. n
            BY <5>2
          <6> QED BY <1>4, <5>2, <6>1
        <5> QED BY <5>1, <5>2
      <4> QED BY <4>1
    <3>2. Flattens(flatten)
      <4> HIDE DEF Flattens, h
      <4> QED BY <3>1
    <3>3. FlattenSeq(s) = flatten[n]
      BY <2>2 DEF FlattenSeq
    <3> HIDE DEF flatten
    <3>4. \A i \in 1 .. n : flatten[i] = IF i = 1 THEN s[i] ELSE flatten[i - 1] \o s[i]
      BY <3>2
    <3> DEFINE A == {k \in Nat : k + 1 \in 1 .. n => flatten[k + 1] = f[k + 1]}
    <3>5. 0 \in A
      <4>1. 1 \in 1 .. n /\ 1 - 1 = 0
        BY <1>1, <2>2
      <4>2. f[1] = f[0] \o s[1] /\ s[1] \in Seq(M)
        BY <1>1, <1>4, <4>1
      <4> QED BY <1>3, <3>4, <4>1, <4>2, ConcatEmptySeq
    <3>6. ASSUME NEW k \in Nat, k \in A
          PROVE  k + 1 \in A
      <4> SUFFICES ASSUME k + 2 \in 1 .. n PROVE flatten[k + 2] = f[k + 2]
        <5>1. (k + 1) + 1 = k + 2
          OBVIOUS
        <5> HIDE DEF n
        <5> QED BY <5>1
      <4>1. k + 1 \in 1 .. n /\ (k + 2) - 1 = k + 1 /\ k + 2 # 1
        BY <1>1
      <4>2. flatten[k + 1] = f[k + 1]
        BY <3>6, <4>1
      <4>3. flatten[k + 2] = flatten[(k + 2) - 1] \o s[k + 2]
        BY <3>4, <4>1
      <4>4. f[k + 2] = f[(k + 2) - 1] \o s[k + 2]
        BY <1>4
      <4> QED BY <4>1, <4>2, <4>3, <4>4
    <3>7. n - 1 \in A
      <4>1. n - 1 \in Nat
        BY <1>1, <2>2
      <4> HIDE DEF A
      <4> QED BY <3>5, <3>6, <4>1, SetInduction
    <3> QED BY <1>1, <2>2, <3>3, <3>7
  <2> QED BY <2>1, <2>2
<1> QED BY <1>3, <1>4, <1>5

LEMMA FlattenAppend ==
    ASSUME NEW M, NEW s \in Seq(Seq(M)), NEW t \in Seq(M)
    PROVE  /\ FlattenSeq(s) \in Seq(M)
           /\ FlattenSeq(Append(s, t)) = FlattenSeq(s) \o t
<1> DEFINE n == Len(s)
           s2 == Append(s, t)
<1>1. /\ n \in Nat /\ s2 \in Seq(Seq(M)) /\ Len(s2) = n + 1 /\ s2[n + 1] = t
      /\ \A i \in 1 .. n : s2[i] = s[i]
  OBVIOUS
<1>2. PICK f \in [0 .. n -> Seq(M)] :
         /\ f[0] = << >> /\ \A i \in 1 .. n : f[i] = f[i - 1] \o s[i]
         /\ FlattenSeq(s) = f[n]
  BY FlattenIsRecursive
<1>3. PICK g \in [0 .. n + 1 -> Seq(M)] :
         /\ g[0] = << >> /\ \A i \in 1 .. n + 1 : g[i] = g[i - 1] \o s2[i]
         /\ FlattenSeq(s2) = g[n + 1]
  <2> HIDE DEF s2, n
  <2>1. \E g \in [0 .. Len(s2) -> Seq(M)] :
           /\ g[0] = << >> /\ \A i \in 1 .. Len(s2) : g[i] = g[i - 1] \o s2[i]
           /\ FlattenSeq(s2) = g[Len(s2)]
    BY <1>1, FlattenIsRecursive
  <2> QED BY <1>1, <2>1
<1> HIDE DEF s2
<1> DEFINE A == {k \in Nat : k \in 0 .. n => g[k] = f[k]}
<1>4. 0 \in A
  BY <1>2, <1>3
<1>5. ASSUME NEW k \in Nat, k \in A
      PROVE  k + 1 \in A
  <2> SUFFICES ASSUME k + 1 \in 0 .. n PROVE g[k + 1] = f[k + 1]
    OBVIOUS
  <2>1. k \in 0 .. n /\ k + 1 \in 1 .. n /\ k + 1 \in 1 .. n + 1 /\ (k + 1) - 1 = k
    BY <1>1
  <2> QED BY <1>1, <1>2, <1>3, <1>5, <2>1
<1>6. n \in A
  <2> HIDE DEF A, n
  <2> QED BY <1>1, <1>4, <1>5, SetInduction
<1>7. g[n] = f[n] /\ g[n + 1] = g[n] \o s2[n + 1]
  <2>1. n + 1 \in 1 .. n + 1 /\ (n + 1) - 1 = n /\ n \in 0 .. n
    BY <1>1
  <2> QED BY <1>3, <1>6, <2>1
<1>8. FlattenSeq(s2) = FlattenSeq(s) \o t
  BY <1>1, <1>2, <1>3, <1>7
<1>9. FlattenSeq(s) \in Seq(M)
  <2>1. n \in 0 .. n
    BY <1>1
  <2> HIDE DEF n
  <2> QED BY <1>2, <2>1
<1> QED BY <1>8, <1>9 DEF s2
-----------------------------------------------------------------------------
(* The chunks of a file *)

Sized(file, n) == \A i \in 1 .. n : file[i].size \in Nat

LEMMA EndOfIsRecursive ==
    ASSUME NEW file, NEW n \in Nat, Sized(file, n)
    PROVE  \E f \in [0 .. n -> Nat] :
              /\ f[0] = 0
              /\ \A i \in 1 .. n : f[i] = f[i - 1] + header_length + file[i].size
              /\ EndOf(file, n) = f[n]
<1> DEFINE step == [p \in Nat \X Nat |->
                       IF p[1] \in 1 .. n THEN p[2] + header_length + file[p[1]].size ELSE p[2]]
<1>1. step \in [Nat \X Nat -> Nat]
  <2>1. ASSUME NEW p \in Nat \X Nat
        PROVE  step[p] \in Nat
    <3>1. p[2] \in Nat
      OBVIOUS
    <3>2. CASE p[1] \in 1 .. n
      BY <3>1, <3>2, ChunksAssumption DEF Sized
    <3>3. CASE p[1] \notin 1 .. n
      BY <3>1, <3>3
    <3> QED BY <3>2, <3>3
  <2> QED BY <2>1
<1>2. PICK f \in [0 .. n -> Nat] :
         f[0] = 0 /\ \A i \in 1 .. n : f[i] = step[<<i, f[i - 1]>>]
  <2> HIDE DEF step
  <2>1. \E f : Recurses(f, n, Nat, 0, step)
    BY <1>1, Recursion
  <2> QED BY <2>1 DEF Recurses
<1>3. ASSUME NEW i \in 1 .. n
      PROVE  f[i] = f[i - 1] + header_length + file[i].size
  <2>1. <<i, f[i - 1]>> \in Nat \X Nat
    BY <1>2
  <2>2. step[<<i, f[i - 1]>>] = f[i - 1] + header_length + file[i].size
    BY <2>1
  <2> HIDE DEF step
  <2> QED BY <1>2, <2>2
<1> HIDE DEF step
<1> DEFINE Ends(g) == g = [i \in 0 .. n |-> IF i = 0 THEN 0 ELSE g[i - 1] + Delimited(file[i])]
           end == CHOOSE g : Ends(g)
<1>4. Ends(f)
  <2>1. ASSUME NEW i \in 0 .. n
        PROVE  f[i] = IF i = 0 THEN 0 ELSE f[i - 1] + Delimited(file[i])
    <3>1. CASE i = 0
      BY <1>2, <3>1
    <3>2. CASE i # 0
      <4>1. i \in 1 .. n /\ f[i - 1] \in Nat /\ file[i].size \in Nat
        BY <1>2, <3>2 DEF Sized
      <4> QED BY <1>3, <3>2, <4>1, ChunksAssumption DEF Delimited
    <3> QED BY <3>1, <3>2
  <2> QED BY <1>2, <2>1
<1>5. Ends(end)
  <2> HIDE DEF Ends
  <2> QED BY <1>4
<1>6. EndOf(file, n) = end[n]
  BY DEF EndOf
<1> HIDE DEF end
<1>7. \A i \in 0 .. n : end[i] = IF i = 0 THEN 0 ELSE end[i - 1] + Delimited(file[i])
  BY <1>5
<1> DEFINE A == {k \in Nat : k \in 0 .. n => end[k] = f[k]}
<1>8. 0 \in A
  BY <1>2, <1>7
<1>9. ASSUME NEW k \in Nat, k \in A
      PROVE  k + 1 \in A
  <2> SUFFICES ASSUME k + 1 \in 0 .. n PROVE end[k + 1] = f[k + 1]
    OBVIOUS
  <2>1. k \in 0 .. n /\ k + 1 # 0 /\ (k + 1) - 1 = k
    OBVIOUS
  <2>2. end[k + 1] = end[k] + Delimited(file[k + 1])
    BY <1>7, <2>1
  <2>3. f[k + 1] = f[k] + Delimited(file[k + 1])
    BY <1>4, <2>1
  <2> QED BY <1>9, <2>1, <2>2, <2>3
<1>10. n \in A
  <2> HIDE DEF A
  <2> QED BY <1>8, <1>9, SetInduction
<1> QED BY <1>2, <1>3, <1>6, <1>10

LEMMA EndOfStart == ASSUME NEW file PROVE EndOf(file, 0) = 0
<1>1. Sized(file, 0)
  BY DEF Sized
<1> QED BY <1>1, EndOfIsRecursive

LEMMA EndOfNext ==
    ASSUME NEW file, NEW n \in Nat, Sized(file, n + 1)
    PROVE  /\ EndOf(file, n) \in Nat
           /\ EndOf(file, n + 1) = EndOf(file, n) + header_length + file[n + 1].size
<1>1. Sized(file, n) /\ n + 1 \in Nat
  BY DEF Sized
<1>2. PICK f \in [0 .. n -> Nat] :
         /\ f[0] = 0
         /\ \A i \in 1 .. n : f[i] = f[i - 1] + header_length + file[i].size
         /\ EndOf(file, n) = f[n]
  BY <1>1, EndOfIsRecursive
<1>3. PICK g \in [0 .. n + 1 -> Nat] :
         /\ g[0] = 0
         /\ \A i \in 1 .. n + 1 : g[i] = g[i - 1] + header_length + file[i].size
         /\ EndOf(file, n + 1) = g[n + 1]
  BY <1>1, EndOfIsRecursive
<1> DEFINE A == {k \in Nat : k \in 0 .. n => g[k] = f[k]}
<1>4. 0 \in A
  BY <1>2, <1>3
<1>5. ASSUME NEW k \in Nat, k \in A
      PROVE  k + 1 \in A
  <2> SUFFICES ASSUME k + 1 \in 0 .. n PROVE g[k + 1] = f[k + 1]
    OBVIOUS
  <2>1. k \in 0 .. n /\ k + 1 \in 1 .. n /\ k + 1 \in 1 .. n + 1 /\ (k + 1) - 1 = k
    OBVIOUS
  <2>2. g[k + 1] = g[k] + header_length + file[k + 1].size
    BY <1>3, <2>1
  <2>3. f[k + 1] = f[k] + header_length + file[k + 1].size
    BY <1>2, <2>1
  <2> QED BY <1>5, <2>1, <2>2, <2>3
<1>6. n \in A
  <2> HIDE DEF A
  <2> QED BY <1>4, <1>5, SetInduction
<1>7. n + 1 \in 1 .. n + 1 /\ (n + 1) - 1 = n /\ n \in 0 .. n
  OBVIOUS
<1>8. g[n + 1] = g[n] + header_length + file[n + 1].size
  BY <1>3, <1>7
<1> QED BY <1>2, <1>3, <1>6, <1>7, <1>8

\* A later chunk ends at least a header's length behind an earlier one.
LEMMA EndOfGrows ==
    ASSUME NEW file, NEW n \in Nat, Sized(file, n),
           NEW i \in 0 .. n, NEW j \in 0 .. n, i < j
    PROVE  /\ EndOf(file, i) \in Nat /\ EndOf(file, j) \in Nat
           /\ EndOf(file, j) >= EndOf(file, i) + header_length
<1> DEFINE e(k) == EndOf(file, k)
           A == {k \in Nat : i + 1 + k <= n => /\ e(i + 1 + k) \in Nat
                                               /\ e(i + 1 + k) >= e(i) + header_length}
<1>1. ASSUME NEW k \in 0 .. n, k < n
      PROVE  e(k) \in Nat /\ e(k + 1) = e(k) + header_length + file[k + 1].size
  <2>1. Sized(file, k + 1) /\ k \in Nat
    BY <1>1 DEF Sized
  <2> QED BY <2>1, EndOfNext
<1>2. \A k \in 1 .. n : file[k].size \in Nat
  BY DEF Sized
<1> HIDE DEF e
<1>3. 0 \in A
  <2>1. i \in 0 .. n /\ i < n /\ i + 1 \in 1 .. n
    OBVIOUS
  <2>2. e(i) \in Nat /\ e(i + 1) = e(i) + header_length + file[i + 1].size
    BY <1>1, <2>1
  <2>3. file[i + 1].size \in Nat /\ i + 1 + 0 = i + 1
    BY <1>2, <2>1
  <2> QED BY <2>2, <2>3, ChunksAssumption
<1>4. ASSUME NEW k \in Nat, k \in A
      PROVE  k + 1 \in A
  <2> DEFINE m == i + 1 + k
  <2> SUFFICES ASSUME m + 1 <= n
               PROVE  e(m + 1) \in Nat /\ e(m + 1) >= e(i) + header_length
    <3>1. i + 1 + (k + 1) = m + 1
      OBVIOUS
    <3> HIDE DEF m
    <3> QED BY <3>1
  <2>1. m \in 0 .. n /\ m < n /\ m + 1 \in 1 .. n /\ i \in 0 .. n /\ i < n
    OBVIOUS
  <2>2. e(m) \in Nat /\ e(m) >= e(i) + header_length
    BY <1>4, <2>1
  <2> HIDE DEF m
  <2>3. e(m + 1) = e(m) + header_length + file[m + 1].size /\ e(i) \in Nat
    BY <1>1, <2>1
  <2> QED BY <1>2, <2>1, <2>2, <2>3, ChunksAssumption
<1>5. j - (i + 1) \in A
  <2>1. j - (i + 1) \in Nat
    OBVIOUS
  <2> HIDE DEF A
  <2> QED BY <1>3, <1>4, <2>1, SetInduction
<1>6. e(j) \in Nat /\ e(j) >= e(i) + header_length
  <2>1. i + 1 + (j - (i + 1)) = j
    OBVIOUS
  <2> QED BY <1>5, <2>1
<1>7. e(i) \in Nat
  <2>1. i < n
    OBVIOUS
  <2> QED BY <1>1, <2>1
<1> QED BY <1>6, <1>7 DEF e
-----------------------------------------------------------------------------
(* The peers of a context, as its dump determines them *)

PeersIn(du) == {du[i].peer : i \in {j \in DOMAIN du : du[j].type \in PerPeer}}
AboutIn(du, p) == {i \in DOMAIN du : du[i].type \in PerPeer /\ du[i].peer = p}
Fails(m) == m.type = Route_Monitoring /\ (Refused(m.update) \/ except_flag(m.update))
Applies(m) == m.type = Route_Monitoring /\ ~Fails(m)
MentionsIn(du, p, x) ==
    {i \in AboutIn(du, p) :
        Applies(du[i]) /\ x \in du[i].update.prefixes \cup du[i].update.withdrawn_prefixes}
LastUpdate(du, p, x) == du[Latest(MentionsIn(du, p, x))].update
SaidIn(du, p) ==
    {x \in UNION {du[i].update.prefixes :
                     i \in {j \in AboutIn(du, p) : du[j].type = Route_Monitoring}} :
        MentionsIn(du, p, x) # {} /\ x \notin LastUpdate(du, p, x).withdrawn_prefixes}
RibOf(du, p) == [x \in SaidIn(du, p) |-> LastUpdate(du, p, x).path]
FirstIn(du, p) == du[CHOOSE i \in AboutIn(du, p) : \A j \in AboutIn(du, p) : i <= j]
DataOf(m) == IF m.type = Peer_Up THEN m.data ELSE None

PeersOf(du) == [p \in PeersIn(du) |-> [rib |-> RibOf(du, p),
                                       Peer_Up_data |-> DataOf(FirstIn(du, p))]]

IsAbout(m, p) == m.type \in PerPeer /\ m.peer = p
Says(m, p, x) == /\ IsAbout(m, p) /\ Applies(m)
                 /\ x \in m.update.prefixes \cup m.update.withdrawn_prefixes

\* What parsing a message does to the peers.
KnownIn(pe, m) == IF m.peer \notin DOMAIN pe
                  THEN Put(pe, {m.peer}, [rib |-> Empty, Peer_Up_data |-> DataOf(m)])
                  ELSE pe
After(pe, m) ==
    IF m.type \notin PerPeer THEN pe
    ELSE IF Applies(m)
         THEN [KnownIn(pe, m) EXCEPT ![m.peer].rib = Applied(@, m.update)]
         ELSE KnownIn(pe, m)

LEMMA LatestOfBounded ==
    ASSUME NEW n \in Nat, NEW S, S \subseteq 1 .. n, S # {}
    PROVE  Latest(S) \in S /\ \A j \in S : j <= Latest(S)
<1> DEFINE A == {n - i : i \in S}
<1>1. PICK a \in A : \A b \in A : a <= b
  <2>1. A \subseteq Nat /\ A # {}
    <3>1. \A i \in S : n - i \in Nat
      OBVIOUS
    <3>2. PICK i \in S : TRUE
      OBVIOUS
    <3>3. n - i \in A
      OBVIOUS
    <3> QED BY <3>1, <3>3
  <2> HIDE DEF A
  <2> QED BY <2>1, LeastNatural
<1>2. PICK i \in S : a = n - i
  <2>1. a \in A
    OBVIOUS
  <2> QED BY <2>1, Zenon
<1>3. \A j \in S : j <= i
  <2> TAKE j \in S
  <2>1. n - j \in A
    OBVIOUS
  <2>2. n - i <= n - j
    BY <1>1, <1>2, <2>1
  <2> QED BY <2>2
<1> HIDE DEF A
<1> QED BY <1>3 DEF Latest

LEMMA SaidIff ==
    ASSUME NEW M, NEW du \in Seq(M), NEW p, NEW x
    PROVE  x \in SaidIn(du, p) <=> /\ MentionsIn(du, p, x) # {}
                                   /\ x \notin LastUpdate(du, p, x).withdrawn_prefixes
<1> SUFFICES ASSUME MentionsIn(du, p, x) # {},
                    x \notin LastUpdate(du, p, x).withdrawn_prefixes
             PROVE  x \in SaidIn(du, p)
  BY DEF SaidIn
<1> DEFINE S == MentionsIn(du, p, x)
           i == Latest(S)
<1>1. i \in S
  <2>1. Len(du) \in Nat /\ S \subseteq 1 .. Len(du) /\ S # {}
    BY DEF MentionsIn, AboutIn
  <2> HIDE DEF S
  <2> QED BY <2>1, LatestOfBounded
<1>2. /\ i \in AboutIn(du, p) /\ du[i].type = Route_Monitoring
      /\ x \in du[i].update.prefixes \cup du[i].update.withdrawn_prefixes
  <2> HIDE DEF i
  <2> QED BY <1>1 DEF MentionsIn, Applies
<1>3. x \notin du[i].update.withdrawn_prefixes
  BY DEF LastUpdate
<1> QED BY <1>2, <1>3 DEF SaidIn

\* One message more: what it is about, and what stays as it was.
LEMMA DumpAppend ==
    ASSUME NEW M, NEW du \in Seq(M), NEW m
    PROVE  /\ Len(du) + 1 \in Nat /\ Append(du, m)[Len(du) + 1] = m
           /\ DOMAIN du = 1 .. Len(du) /\ DOMAIN Append(du, m) = DOMAIN du \cup {Len(du) + 1}
           /\ \A i \in DOMAIN du : i < Len(du) + 1 /\ Append(du, m)[i] = du[i]
OBVIOUS

LEMMA AboutAppend ==
    ASSUME NEW M, NEW du \in Seq(M), NEW m, NEW p
    PROVE  /\ IsAbout(m, p) =>
                 AboutIn(Append(du, m), p) = AboutIn(du, p) \cup {Len(du) + 1}
           /\ ~IsAbout(m, p) => AboutIn(Append(du, m), p) = AboutIn(du, p)
<1> DEFINE n == Len(du) + 1
           du2 == Append(du, m)
<1>1. /\ du2[n] = m /\ DOMAIN du2 = DOMAIN du \cup {n}
      /\ \A i \in DOMAIN du : du2[i] = du[i]
  BY DumpAppend
<1> HIDE DEF n, du2
<1> QED BY <1>1 DEF AboutIn, IsAbout, n, du2

LEMMA MentionsAppend ==
    ASSUME NEW M, NEW du \in Seq(M), NEW m, NEW p, NEW x
    PROVE  /\ Says(m, p, x) =>
                 MentionsIn(Append(du, m), p, x) = MentionsIn(du, p, x) \cup {Len(du) + 1}
           /\ ~Says(m, p, x) => MentionsIn(Append(du, m), p, x) = MentionsIn(du, p, x)
<1> DEFINE n == Len(du) + 1
           du2 == Append(du, m)
<1>1. /\ du2[n] = m /\ DOMAIN du2 = DOMAIN du \cup {n}
      /\ \A i \in DOMAIN du : du2[i] = du[i]
  BY DumpAppend
<1> HIDE DEF n, du2
<1>2. MentionsIn(du2, p, x) = {i \in DOMAIN du2 : Says(du2[i], p, x)}
  BY DEF MentionsIn, AboutIn, Says, IsAbout
<1>3. MentionsIn(du, p, x) = {i \in DOMAIN du : Says(du[i], p, x)}
  BY DEF MentionsIn, AboutIn, Says, IsAbout
<1> QED BY <1>1, <1>2, <1>3 DEF n, du2

\* What a message that does not mention a prefix, or is about another peer,
\* leaves alone.
LEMMA UnmentionedStays ==
    ASSUME NEW M, NEW du \in Seq(M), NEW m, NEW p, NEW x,
           MentionsIn(Append(du, m), p, x) = MentionsIn(du, p, x)
    PROVE  /\ x \in SaidIn(Append(du, m), p) <=> x \in SaidIn(du, p)
           /\ x \in SaidIn(du, p) =>
                 LastUpdate(Append(du, m), p, x) = LastUpdate(du, p, x)
<1> DEFINE S == MentionsIn(du, p, x)
           du2 == Append(du, m)
<1>1. du2 \in Seq(M \cup {m}) /\ \A i \in DOMAIN du : du2[i] = du[i]
  <2>1. du \in Seq(M \cup {m})
    OBVIOUS
  <2> QED BY <2>1, DumpAppend, AppendProperties
<1>2. S # {} => LastUpdate(du2, p, x) = LastUpdate(du, p, x)
  <2>1. Len(du) \in Nat /\ S \subseteq 1 .. Len(du) /\ S \subseteq DOMAIN du
    BY DEF MentionsIn, AboutIn
  <2> HIDE DEF S, du2
  <2>2. S # {} => Latest(S) \in DOMAIN du
    BY <2>1, LatestOfBounded
  <2> QED BY <1>1, <2>2 DEF LastUpdate, S, du2
<1>3. x \in SaidIn(du, p) <=> S # {} /\ x \notin LastUpdate(du, p, x).withdrawn_prefixes
  BY SaidIff
<1>4. x \in SaidIn(du2, p) <=> S # {} /\ x \notin LastUpdate(du2, p, x).withdrawn_prefixes
  <2> HIDE DEF du2
  <2> QED BY <1>1, SaidIff DEF du2
<1> QED BY <1>2, <1>3, <1>4

LEMMA FirstStays ==
    ASSUME NEW M, NEW du \in Seq(M), NEW m, NEW p, p \in PeersIn(du)
    PROVE  FirstIn(Append(du, m), p) = FirstIn(du, p)
<1> DEFINE S == AboutIn(du, p)
           S2 == AboutIn(Append(du, m), p)
<1>1. S # {} /\ S \subseteq 1 .. Len(du) /\ Len(du) \in Nat
  BY DEF AboutIn, PeersIn
<1>2. S2 = S \/ S2 = S \cup {Len(du) + 1}
  BY AboutAppend
<1> HIDE DEF S, S2
<1>3. PICK i \in S : \A j \in S : i <= j
  <2>1. S \subseteq Nat
    BY <1>1
  <2> QED BY <1>1, <2>1, LeastNatural
<1>4. /\ i \in S /\ \A j \in S : i <= j
      /\ i \in S2 /\ \A j \in S2 : i <= j
  <2>1. i <= Len(du) + 1
    BY <1>1, <1>3
  <2> QED BY <1>2, <1>3, <2>1
<1>5. S2 \subseteq Nat /\ S \subseteq Nat
  <2>1. S \subseteq Nat /\ Len(du) + 1 \in Nat
    BY <1>1
  <2> QED BY <1>2, <2>1
<1>6. (CHOOSE k \in S : \A j \in S : k <= j) = i
  <2>1. \A k \in S : (\A j \in S : k <= j) => k = i
    BY <1>4, <1>5
  <2> QED BY <1>4, <2>1
<1>7. (CHOOSE k \in S2 : \A j \in S2 : k <= j) = i
  <2>1. \A k \in S2 : (\A j \in S2 : k <= j) => k = i
    BY <1>4, <1>5
  <2> QED BY <1>4, <2>1
<1>8. Append(du, m)[i] = du[i]
  BY <1>1, <1>3, DumpAppend
<1> QED BY <1>6, <1>7, <1>8 DEF FirstIn, S, S2

LEMMA PeersAppend ==
    ASSUME NEW M, NEW du \in Seq(M), NEW m
    PROVE  PeersIn(Append(du, m)) =
              PeersIn(du) \cup (IF m.type \in PerPeer THEN {m.peer} ELSE {})
<1> DEFINE n == Len(du) + 1
           du2 == Append(du, m)
<1>1. /\ DOMAIN du2 = DOMAIN du \cup {n} /\ du2[n] = m
      /\ \A i \in DOMAIN du : du2[i] = du[i]
  OBVIOUS
<1> HIDE DEF n, du2
<1>2. ASSUME NEW p
      PROVE  p \in PeersIn(du2) <=> p \in PeersIn(du) \/ (m.type \in PerPeer /\ p = m.peer)
  BY <1>1 DEF PeersIn
<1> QED BY <1>2 DEF du2

\* The record of a peer that the message is not about.
LEMMA OtherPeerStays ==
    ASSUME NEW M, NEW du \in Seq(M), NEW m, NEW p \in PeersIn(du),
           ~IsAbout(m, p)
    PROVE  PeersOf(Append(du, m))[p] = PeersOf(du)[p]
<1> DEFINE du2 == Append(du, m)
<1>1. ASSUME NEW x
      PROVE  MentionsIn(du2, p, x) = MentionsIn(du, p, x)
  <2>1. ~Says(m, p, x)
    BY DEF Says
  <2> QED BY <2>1, MentionsAppend
<1>2. \A x : /\ x \in SaidIn(du2, p) <=> x \in SaidIn(du, p)
             /\ x \in SaidIn(du, p) => LastUpdate(du2, p, x) = LastUpdate(du, p, x)
  BY <1>1, UnmentionedStays
<1>3. FirstIn(du2, p) = FirstIn(du, p) /\ p \in PeersIn(du2)
  BY FirstStays, PeersAppend
<1> HIDE DEF du2
<1>4. SaidIn(du2, p) = SaidIn(du, p)
  BY <1>2
<1>5. RibOf(du2, p) = RibOf(du, p)
  BY <1>2, <1>4 DEF RibOf
<1> QED BY <1>3, <1>5 DEF PeersOf, du2

\* A prefix that the message mentions.
LEMMA MentionedNow ==
    ASSUME NEW M, NEW du \in Seq(M), NEW m, NEW p, NEW x, Says(m, p, x)
    PROVE  /\ LastUpdate(Append(du, m), p, x) = m.update
           /\ x \in SaidIn(Append(du, m), p) <=> x \notin m.update.withdrawn_prefixes
<1> DEFINE n == Len(du) + 1
           S == MentionsIn(du, p, x)
           du2 == Append(du, m)
<1>1. MentionsIn(du2, p, x) = S \cup {n} /\ du2[n] = m
  BY MentionsAppend, DumpAppend
<1>2. n \in Nat /\ n \in 1 .. n /\ S \subseteq 1 .. n
  BY DEF MentionsIn, AboutIn
<1>3. du2 \in Seq(M \cup {m})
  <2>1. du \in Seq(M \cup {m})
    OBVIOUS
  <2> QED BY <2>1, AppendProperties
<1> HIDE DEF n, S, du2
<1>4. Latest(S \cup {n}) = n
  <2>1. S \cup {n} \subseteq 1 .. n /\ S \cup {n} # {}
    BY <1>2
  <2> DEFINE l == Latest(S \cup {n})
  <2>2. l \in S \cup {n} /\ n <= l
    BY <1>2, <2>1, LatestOfBounded
  <2> HIDE DEF l
  <2>3. l = n
    BY <1>2, <2>1, <2>2
  <2> QED BY <2>3 DEF l
<1>5. LastUpdate(du2, p, x) = m.update
  BY <1>1, <1>4 DEF LastUpdate
<1>6. x \in SaidIn(du2, p) <=> x \notin LastUpdate(du2, p, x).withdrawn_prefixes
  BY <1>1, <1>3, SaidIff
<1> QED BY <1>5, <1>6 DEF du2

\* The table of the peer that the message is about.
LEMMA OwnRib ==
    ASSUME NEW M, NEW du \in Seq(M), NEW m, NEW p, IsAbout(m, p)
    PROVE  RibOf(Append(du, m), p) =
              IF Applies(m) THEN Applied(RibOf(du, p), m.update) ELSE RibOf(du, p)
<1> DEFINE du2 == Append(du, m)
           u == m.update
           S == SaidIn(du, p)
           S2 == SaidIn(du2, p)
<1>1. ASSUME NEW x, ~Says(m, p, x)
      PROVE  /\ x \in S2 <=> x \in S
             /\ x \in S => LastUpdate(du2, p, x) = LastUpdate(du, p, x)
  BY <1>1, MentionsAppend, UnmentionedStays
<1>2. CASE ~Applies(m)
  <2>1. \A x : ~Says(m, p, x)
    BY <1>2 DEF Says
  <2>2. S2 = S /\ \A x \in S : LastUpdate(du2, p, x) = LastUpdate(du, p, x)
    BY <1>1, <2>1
  <2>3. RibOf(du2, p) = RibOf(du, p)
    <3> HIDE DEF du2
    <3> QED BY <2>2 DEF RibOf
  <2> QED BY <1>2, <2>3
<1>3. CASE Applies(m)
  <2>1. ASSUME NEW x
        PROVE  Says(m, p, x) <=> x \in u.prefixes \cup u.withdrawn_prefixes
    BY <1>3 DEF Says
  <2>2. ASSUME NEW x, x \in u.prefixes \cup u.withdrawn_prefixes
        PROVE  /\ x \in S2 <=> x \notin u.withdrawn_prefixes
               /\ LastUpdate(du2, p, x) = u
    BY <2>1, <2>2, MentionedNow
  <2>3. ASSUME NEW x, x \notin u.prefixes \cup u.withdrawn_prefixes
        PROVE  /\ x \in S2 <=> x \in S
               /\ x \in S => LastUpdate(du2, p, x) = LastUpdate(du, p, x)
    BY <1>1, <2>1, <2>3
  <2> HIDE DEF u, du2, S, S2
  <2>4. S2 = (S \cup u.prefixes) \ u.withdrawn_prefixes
    BY <2>2, <2>3
  <2> DEFINE after == [x \in S2 |-> IF x \in u.prefixes THEN u.path
                                    ELSE LastUpdate(du, p, x).path]
  <2>5. RibOf(du2, p) = after
    BY <2>2, <2>3, <2>4 DEF RibOf, S2
  <2>6. Applied(RibOf(du, p), u) = after
    <3>1. RibOf(du, p) = [x \in S |-> LastUpdate(du, p, x).path]
      BY DEF RibOf, S
    <3> QED BY <2>4, <3>1 DEF Applied, Put, Del, Restrict
  <2> QED BY <1>3, <2>5, <2>6 DEF u, du2
<1> QED BY <1>2, <1>3

LEMMA NothingAboutNew ==
    ASSUME NEW M, NEW du \in Seq(M), NEW p, p \notin PeersIn(du)
    PROVE  AboutIn(du, p) = {} /\ RibOf(du, p) = Empty
<1>1. AboutIn(du, p) = {}
  BY DEF PeersIn, AboutIn
<1>2. SaidIn(du, p) = {}
  BY <1>1 DEF SaidIn, MentionsIn
<1> QED BY <1>1, <1>2 DEF RibOf, Empty

\* The data of a peer that is new.
LEMMA NewPeerData ==
    ASSUME NEW M, NEW du \in Seq(M), NEW m, NEW p, IsAbout(m, p), p \notin PeersIn(du)
    PROVE  FirstIn(Append(du, m), p) = m
<1> DEFINE n == Len(du) + 1
<1>1. AboutIn(Append(du, m), p) = {n}
  <2>1. AboutIn(du, p) = {}
    BY NothingAboutNew
  <2>2. AboutIn(Append(du, m), p) = AboutIn(du, p) \cup {n}
    BY AboutAppend
  <2> HIDE DEF n
  <2> QED BY <2>1, <2>2
<1>2. Append(du, m)[n] = m /\ n <= n
  BY DumpAppend
<1> HIDE DEF n
<1>3. (CHOOSE i \in {n} : \A j \in {n} : i <= j) = n
  BY <1>2
<1> QED BY <1>1, <1>2, <1>3 DEF FirstIn

\* The peers are a function of the dump: a message more in it changes them as
\* parsing the message does.
LEMMA PeersOfAppend ==
    ASSUME NEW M, NEW du \in Seq(M), NEW m
    PROVE  PeersOf(Append(du, m)) = After(PeersOf(du), m)
<1> DEFINE du2 == Append(du, m)
           pe == PeersOf(du)
           pe2 == PeersOf(du2)
<1>1. DOMAIN pe = PeersIn(du) /\ DOMAIN pe2 = PeersIn(du2)
  BY DEF PeersOf
<1>2. PeersIn(du2) = PeersIn(du) \cup (IF m.type \in PerPeer THEN {m.peer} ELSE {})
  BY PeersAppend
<1>3. ASSUME NEW p \in PeersIn(du), ~IsAbout(m, p)
      PROVE  pe2[p] = pe[p]
  BY <1>3, OtherPeerStays
<1>4. CASE m.type \notin PerPeer
  <2>1. PeersIn(du2) = PeersIn(du) /\ \A p : ~IsAbout(m, p)
    BY <1>2, <1>4 DEF IsAbout
  <2>2. \A p \in PeersIn(du) : pe2[p] = pe[p]
    BY <1>3, <2>1
  <2>3. pe2 = [p \in DOMAIN pe2 |-> pe2[p]] /\ pe = [p \in DOMAIN pe |-> pe[p]]
    BY DEF PeersOf
  <2> HIDE DEF pe, pe2, du2
  <2>4. pe2 = pe
    BY <1>1, <2>1, <2>2, <2>3
  <2> QED BY <1>4, <2>4 DEF After, pe, pe2, du2
<1>5. CASE m.type \in PerPeer
  <2> DEFINE p == m.peer
             rib == IF Applies(m) THEN Applied(RibOf(du, p), m.update) ELSE RibOf(du, p)
             data == IF p \in PeersIn(du) THEN DataOf(FirstIn(du, p)) ELSE DataOf(m)
  <2>1. IsAbout(m, p) /\ \A q : q # p => ~IsAbout(m, q)
    BY <1>5 DEF IsAbout
  <2>2. PeersIn(du2) = PeersIn(du) \cup {p}
    BY <1>2, <1>5
  <2>3. RibOf(du2, p) = rib
    BY <2>1, OwnRib
  <2>4. DataOf(FirstIn(du2, p)) = data
    BY <2>1, FirstStays, NewPeerData
  <2>5. pe2[p] = [rib |-> rib, Peer_Up_data |-> data]
    <3> HIDE DEF du2, p, rib, data
    <3> QED BY <2>2, <2>3, <2>4 DEF PeersOf
  <2>6. \A q \in PeersIn(du) : q # p => pe2[q] = pe[q]
    BY <1>3, <2>1
  <2>7. pe2 = [q \in DOMAIN pe2 |-> pe2[q]]
    BY DEF PeersOf
  <2>8. pe2 = [q \in PeersIn(du) \cup {p} |->
                  IF q = p THEN [rib |-> rib, Peer_Up_data |-> data] ELSE pe[q]]
    <3> HIDE DEF pe, pe2, du2, p, rib, data
    <3> QED BY <1>1, <2>2, <2>5, <2>6, <2>7
  <2>9. KnownIn(pe, m) = [q \in PeersIn(du) \cup {p} |->
                  IF q = p THEN [rib |-> RibOf(du, p), Peer_Up_data |-> data] ELSE pe[q]]
    <3>1. CASE p \in PeersIn(du)
      <4>1. pe[p] = [rib |-> RibOf(du, p), Peer_Up_data |-> data]
        BY <3>1 DEF PeersOf
      <4>2. KnownIn(pe, m) = pe /\ pe = [q \in DOMAIN pe |-> pe[q]]
        BY <1>1, <3>1 DEF KnownIn, PeersOf
      <4> HIDE DEF pe, p, data
      <4> QED BY <1>1, <3>1, <4>1, <4>2
    <3>2. CASE p \notin PeersIn(du)
      <4>1. RibOf(du, p) = Empty /\ data = DataOf(m)
        BY <3>2, NothingAboutNew
      <4> HIDE DEF pe, data
      <4> QED BY <1>1, <3>2, <4>1 DEF KnownIn, Put
    <3> QED BY <3>1, <3>2
  <2>10. After(pe, m) = [q \in PeersIn(du) \cup {p} |->
                  IF q = p THEN [rib |-> rib, Peer_Up_data |-> data] ELSE pe[q]]
    <3> HIDE DEF pe, data
    <3>1. CASE Applies(m)
      <4> DEFINE known == KnownIn(pe, m)
      <4>1. known[p] = [rib |-> RibOf(du, p), Peer_Up_data |-> data]
        BY <2>9
      <4>2. [known[p] EXCEPT !.rib = Applied(known[p].rib, m.update)] =
               [rib |-> rib, Peer_Up_data |-> data]
        <5> HIDE DEF known
        <5> QED BY <3>1, <4>1
      <4>3. After(pe, m) = 
               [known EXCEPT ![p] = [known[p] EXCEPT !.rib = Applied(known[p].rib, m.update)]]
        BY <1>5, <3>1 DEF After
      <4> HIDE DEF known, rib, p
      <4> QED BY <2>9, <4>2, <4>3 DEF known
    <3>2. CASE ~Applies(m)
      BY <1>5, <2>9, <3>2 DEF After
    <3> QED BY <3>1, <3>2
  <2> QED BY <2>8, <2>10
<1> QED BY <1>4, <1>5

LEMMA NoPeersAtFirst == PeersOf(<< >>) = Empty
<1>1. PeersIn(<< >>) = {}
  BY DEF PeersIn
<1> QED BY <1>1 DEF PeersOf, Empty
-----------------------------------------------------------------------------
(* A topic *)

\* What parsing does to a context, of forward.py's and of debag.py's topic.
LEMMA ParsingIsAfter ==
    ASSUME NEW m
    PROVE  /\ Parse(m) => /\ peers' = After(peers, m) /\ ~Fails(m)
                          /\ dump_file' = Append(dump_file, m)
           /\ ParseFails(m) => /\ peers' = After(peers, m) /\ Fails(m)
                               /\ dump_file' = Append(dump_file, m)
<1>1. Known(m) = KnownIn(peers, m)
  BY DEF Known, New, KnownIn, DataOf
<1> HIDE DEF KnownIn
<1>2. ParseInitiation(m) => /\ peers' = After(peers, m) /\ ~Fails(m)
                            /\ dump_file' = Append(dump_file, m)
  BY DEF ParseInitiation, Dump, After, Fails, PerPeer, Route_Monitoring,
         Statistics_Report, Peer_Down, Peer_Up, Initiation, Route_Mirroring
<1>3. ParseReport(m) => /\ peers' = After(peers, m) /\ ~Fails(m)
                        /\ dump_file' = Append(dump_file, m)
  BY <1>1 DEF ParseReport, Dump, After, Fails, Applies, PerPeer, Route_Monitoring,
         Statistics_Report, Peer_Down, Peer_Up
<1>4. ParseUpdate(m) => /\ peers' = After(peers, m) /\ ~Fails(m)
                        /\ dump_file' = Append(dump_file, m)
  BY <1>1 DEF ParseUpdate, Dump, After, Fails, Applies, PerPeer
<1>5. ParseFails(m) => /\ peers' = After(peers, m) /\ Fails(m)
                       /\ dump_file' = Append(dump_file, m)
  BY <1>1 DEF ParseFails, Dump, After, Fails, Applies, PerPeer
<1> QED BY <1>2, <1>3, <1>4, <1>5 DEF Parse

LEMMA DebagParsingIsAfter ==
    ASSUME NEW m
    PROVE  /\ D!Parse(m) => /\ debag_peers' = After(debag_peers, m) /\ ~Fails(m)
                            /\ debag_dump' = Append(debag_dump, m)
           /\ D!ParseFails(m) => /\ debag_peers' = After(debag_peers, m) /\ Fails(m)
                                 /\ debag_dump' = Append(debag_dump, m)
<1>1. D!Known(m) = KnownIn(debag_peers, m)
  BY DEF D!Known, D!New, D!Put, D!Empty, D!Peer_Up, Put, Empty, KnownIn, DataOf, Peer_Up
<1> HIDE DEF KnownIn
<1>2. \A rib, u : D!Applied(rib, u) = Applied(rib, u)
  BY DEF D!Applied, D!Put, D!Del, D!Restrict, Applied, Put, Del, Restrict
<1>3. \A u : (D!Refused(u) <=> Refused(u)) /\ (D!except_flag(u) <=> except_flag(u))
  BY DEF D!Refused, D!except_flag, Refused, except_flag
<1>4. /\ D!Route_Monitoring = Route_Monitoring /\ D!Peer_Up = Peer_Up
      /\ D!Statistics_Report = Statistics_Report /\ D!Peer_Down = Peer_Down
      /\ D!Initiation = Initiation
  BY DEF D!Route_Monitoring, D!Peer_Up, D!Statistics_Report, D!Peer_Down, D!Initiation,
         Route_Monitoring, Peer_Up, Statistics_Report, Peer_Down, Initiation
<1>5. D!ParseInitiation(m) => /\ debag_peers' = After(debag_peers, m) /\ ~Fails(m)
                              /\ debag_dump' = Append(debag_dump, m)
  BY <1>4 DEF D!ParseInitiation, D!Dump, After, Fails, PerPeer, Route_Monitoring,
         Statistics_Report, Peer_Down, Peer_Up, Initiation, Route_Mirroring
<1>6. D!ParseReport(m) => /\ debag_peers' = After(debag_peers, m) /\ ~Fails(m)
                          /\ debag_dump' = Append(debag_dump, m)
  BY <1>1, <1>4 DEF D!ParseReport, D!Dump, After, Fails, Applies, PerPeer, Route_Monitoring,
         Statistics_Report, Peer_Down, Peer_Up
<1>7. D!ParseUpdate(m) => /\ debag_peers' = After(debag_peers, m) /\ ~Fails(m)
                          /\ debag_dump' = Append(debag_dump, m)
  BY <1>1, <1>2, <1>3, <1>4 DEF D!ParseUpdate, D!Dump, After, Fails, Applies, PerPeer
<1>8. D!ParseFails(m) => /\ debag_peers' = After(debag_peers, m) /\ Fails(m)
                         /\ debag_dump' = Append(debag_dump, m)
  BY <1>1, <1>3, <1>4 DEF D!ParseFails, D!Dump, After, Fails, Applies, PerPeer
<1> QED BY <1>5, <1>6, <1>7, <1>8 DEF D!Parse

\* What a topic is between two steps of it: the peers are those of the dump,
\* the payloads of all messages but the last are parsed to the end, and of the
\* last one's what is left is what comes after messages that were parsed.
Payload(o) == IF Binary(o) THEN o.payload ELSE << >>
Payloads(ob) == [i \in DOMAIN ob |-> Payload(ob[i])]
Succeeds(m) == Parses(m) /\ ~Fails(m)
Good(o) == Binary(o) /\ \A i \in DOMAIN o.payload : Succeeds(o.payload[i])
Rest(o, raw) == /\ Binary(o)
                /\ \E k \in 0 .. Len(o.payload) :
                      /\ raw = SubSeq(o.payload, k + 1, Len(o.payload))
                      /\ \A i \in 1 .. k : Succeeds(o.payload[i])

BetweenMessages(ob, du, bm, raw) == /\ \A i \in 1 .. Len(ob) : Good(ob[i])
                                    /\ raw = << >> /\ bm = du
InMessage(ob, du, bm, raw) == /\ ob # << >> /\ Rest(ob[Len(ob)], raw)
                              /\ bm = du \o raw
StoppedBefore(ob, du, bm, raw) == /\ ob # << >> /\ ~Binary(ob[Len(ob)])
                                  /\ raw = << >> /\ bm = du
StoppedInside(ob, du, bm, raw) == /\ ob # << >> /\ Rest(ob[Len(ob)], raw)
                                  /\ raw # << >> /\ ~Succeeds(Head(raw))
                                  /\ bm = du \o (IF Parses(Head(raw)) THEN Tail(raw) ELSE raw)

TopicIs(pe, du, ob, bm, raw, a) ==
    /\ du \in Seq(BmpMessages) /\ raw \in Seq(BmpMessages) /\ ob \in Seq(ObmpMessages)
    /\ pe = PeersOf(du)
    /\ bm = FlattenSeq(Payloads(ob))
    /\ \A i \in 1 .. Len(ob) : i < Len(ob) => Good(ob[i])
    /\ \/ a = "idle" /\ BetweenMessages(ob, du, bm, raw)
       \/ a = "payload" /\ InMessage(ob, du, bm, raw)
       \/ a = "exited" /\ (StoppedBefore(ob, du, bm, raw) \/ StoppedInside(ob, du, bm, raw))

LEMMA PayloadsAppend ==
    ASSUME NEW ob \in Seq(ObmpMessages), NEW o \in ObmpMessages
    PROVE  /\ Payloads(ob) \in Seq(Seq(BmpMessages)) /\ Payload(o) \in Seq(BmpMessages)
           /\ Payloads(Append(ob, o)) = Append(Payloads(ob), Payload(o))
<1>1. \A c \in ObmpMessages : Payload(c) \in Seq(BmpMessages)
  BY PipelineAssumption DEF Payload
<1> HIDE DEF Payload
<1>2. Payloads(ob) \in Seq(Seq(BmpMessages)) /\ Len(Payloads(ob)) = Len(ob)
  BY <1>1 DEF Payloads
<1>3. Payloads(Append(ob, o)) = Append(Payloads(ob), Payload(o))
  BY <1>1, <1>2 DEF Payloads
<1> QED BY <1>1, <1>2, <1>3

LEMMA BmpFileAppend ==
    ASSUME NEW ob \in Seq(ObmpMessages), NEW o \in ObmpMessages
    PROVE  /\ FlattenSeq(Payloads(ob)) \in Seq(BmpMessages)
           /\ FlattenSeq(Payloads(Append(ob, o))) = FlattenSeq(Payloads(ob)) \o Payload(o)
BY PayloadsAppend, FlattenAppend

LEMMA TopicStarts == TopicIs(Empty, << >>, << >>, << >>, << >>, "idle")
<1>1. FlattenSeq(Payloads(<< >>)) = << >>
  <2>1. << >> \in Seq(Seq(BmpMessages)) /\ Payloads(<< >>) = << >> /\ Len(<< >>) = 0
    BY DEF Payloads
  <2>2. PICK f \in [0 .. Len(<< >>) -> Seq(BmpMessages)] :
           f[0] = << >> /\ FlattenSeq(<< >>) = f[Len(<< >>)]
    <3> DEFINE none == << >>
    <3>1. none \in Seq(Seq(BmpMessages))
      BY <2>1
    <3> HIDE DEF none
    <3>2. \E f \in [0 .. Len(none) -> Seq(BmpMessages)] :
             f[0] = << >> /\ FlattenSeq(none) = f[Len(none)]
      BY <3>1, FlattenIsRecursive
    <3> QED BY <3>2 DEF none
  <2> QED BY <2>1, <2>2
<1>2. BetweenMessages(<< >>, << >>, << >>, << >>)
  BY DEF BetweenMessages
<1>3. << >> \in Seq(BmpMessages) /\ << >> \in Seq(ObmpMessages) /\ Len(<< >>) = 0
  OBVIOUS
<1> QED BY <1>1, <1>2, <1>3, NoPeersAtFirst DEF TopicIs

\* A message that has a payload, and one that has none.
LEMMA TopicProcess ==
    ASSUME NEW pe, NEW du, NEW ob, NEW bm, NEW raw, NEW o \in ObmpMessages,
           TopicIs(pe, du, ob, bm, raw, "idle"), Binary(o)
    PROVE  TopicIs(pe, du, Append(ob, o), bm \o o.payload, o.payload, "payload")
<1> DEFINE ob2 == Append(ob, o)
<1>1. /\ du \in Seq(BmpMessages) /\ ob \in Seq(ObmpMessages) /\ pe = PeersOf(du)
      /\ bm = FlattenSeq(Payloads(ob)) /\ bm = du /\ \A i \in 1 .. Len(ob) : Good(ob[i])
  BY DEF TopicIs, BetweenMessages
<1>2. o.payload \in Seq(BmpMessages) /\ Payload(o) = o.payload
  BY PipelineAssumption DEF Payload
<1>3. /\ ob2 \in Seq(ObmpMessages) /\ Len(ob2) = Len(ob) + 1 /\ ob2 # << >>
      /\ ob2[Len(ob2)] = o /\ \A i \in 1 .. Len(ob) : ob2[i] = ob[i]
  BY <1>1
<1>4. bm \o o.payload = FlattenSeq(Payloads(ob2))
  BY <1>1, <1>2, BmpFileAppend
<1> HIDE DEF ob2
<1>5. Rest(o, o.payload)
  <2>1. o.payload = SubSeq(o.payload, 0 + 1, Len(o.payload)) /\ 0 \in 0 .. Len(o.payload)
    BY <1>2, SubSeqFull
  <2>2. \A i \in 1 .. 0 : Succeeds(o.payload[i])
    OBVIOUS
  <2> QED BY <2>1, <2>2 DEF Rest
<1>6. InMessage(ob2, du, bm \o o.payload, o.payload)
  BY <1>1, <1>3, <1>5 DEF InMessage
<1>7. \A i \in 1 .. Len(ob2) : i < Len(ob2) => Good(ob2[i])
  <2>1. \A i \in 1 .. Len(ob2) : i < Len(ob2) => i \in 1 .. Len(ob)
    BY <1>1, <1>3
  <2> QED BY <1>1, <1>3, <2>1
<1> HIDE DEF InMessage
<1> QED BY <1>1, <1>2, <1>3, <1>4, <1>6, <1>7 DEF TopicIs, ob2

LEMMA TopicOther ==
    ASSUME NEW pe, NEW du, NEW ob, NEW bm, NEW raw, NEW o \in ObmpMessages,
           TopicIs(pe, du, ob, bm, raw, "idle"), ~Binary(o)
    PROVE  TopicIs(pe, du, Append(ob, o), bm, raw, "exited")
<1> DEFINE ob2 == Append(ob, o)
<1>1. /\ du \in Seq(BmpMessages) /\ ob \in Seq(ObmpMessages) /\ pe = PeersOf(du)
      /\ bm = FlattenSeq(Payloads(ob)) /\ bm = du /\ \A i \in 1 .. Len(ob) : Good(ob[i])
      /\ raw = << >>
  BY DEF TopicIs, BetweenMessages
<1>2. Payload(o) = << >> /\ << >> \in Seq(BmpMessages)
  BY DEF Payload
<1>3. /\ ob2 \in Seq(ObmpMessages) /\ Len(ob2) = Len(ob) + 1 /\ ob2 # << >>
      /\ ob2[Len(ob2)] = o /\ \A i \in 1 .. Len(ob) : ob2[i] = ob[i]
  BY <1>1
<1>4. bm = FlattenSeq(Payloads(ob2))
  <2>1. bm \o << >> = FlattenSeq(Payloads(ob2))
    BY <1>1, <1>2, BmpFileAppend
  <2> QED BY <1>1, <2>1, ConcatEmptySeq
<1> HIDE DEF ob2
<1>5. StoppedBefore(ob2, du, bm, raw)
  BY <1>1, <1>3 DEF StoppedBefore
<1>6. \A i \in 1 .. Len(ob2) : i < Len(ob2) => Good(ob2[i])
  <2>1. \A i \in 1 .. Len(ob2) : i < Len(ob2) => i \in 1 .. Len(ob)
    BY <1>1, <1>3
  <2> QED BY <1>1, <1>3, <2>1
<1> QED BY <1>1, <1>2, <1>3, <1>4, <1>5, <1>6 DEF TopicIs, ob2

\* A message parsed is one message less in what is left.
LEMMA RestShrinks ==
    ASSUME NEW o \in ObmpMessages, NEW raw, Rest(o, raw), raw # << >>, Succeeds(Head(raw))
    PROVE  Rest(o, Tail(raw))
<1> DEFINE s == o.payload
           n == Len(s)
<1>1. s \in Seq(BmpMessages) /\ n \in Nat
  BY PipelineAssumption
<1>2. PICK k \in 0 .. n : raw = SubSeq(s, k + 1, n) /\ \A i \in 1 .. k : Succeeds(s[i])
  BY DEF Rest
<1> HIDE DEF s, n
<1>3. k < n
  <2>1. CASE k = n
    <3>1. n + 1 \in Int /\ n < n + 1 /\ n \in Int
      BY <1>1
    <3>2. raw = << >>
      BY <1>2, <2>1, <3>1, SubSeqEmpty
    <3> QED BY <3>2
  <2> QED BY <1>1, <2>1
<1>4. Head(raw) = s[k + 1] /\ Tail(raw) = SubSeq(s, (k + 1) + 1, n)
  <2>1. k + 1 \in 1 .. Len(s) /\ n \in k + 1 .. Len(s)
    BY <1>1, <1>3 DEF n
  <2> QED BY <1>1, <1>2, <2>1, HeadTailOfSubSeq
<1>5. \A i \in 1 .. k + 1 : Succeeds(s[i])
  <2>1. \A i \in 1 .. k + 1 : i \in 1 .. k \/ i = k + 1
    BY <1>1
  <2> QED BY <1>2, <1>4, <2>1
<1>6. k + 1 \in 0 .. n
  BY <1>1, <1>3
<1> QED BY <1>4, <1>5, <1>6 DEF Rest, s, n

\* And when nothing is left, the whole payload was parsed.
LEMMA RestEmpty ==
    ASSUME NEW o \in ObmpMessages, Rest(o, << >>)
    PROVE  Good(o)
<1> DEFINE s == o.payload
           n == Len(s)
<1>1. s \in Seq(BmpMessages) /\ n \in Nat /\ DOMAIN s = 1 .. n
  BY PipelineAssumption
<1>2. PICK k \in 0 .. n : << >> = SubSeq(s, k + 1, n) /\ \A i \in 1 .. k : Succeeds(s[i])
  BY DEF Rest
<1> HIDE DEF s, n
<1>3. k = n
  <2>1. /\ k + 1 \in Int /\ n \in Int /\ Len(<< >>) = 0
        /\ \A i \in k + 1 .. n : s[i] \in BmpMessages
    BY <1>1, ElementOfSeq DEF n
  <2>2. Len(<< >>) = IF k + 1 <= n THEN n - (k + 1) + 1 ELSE 0
    BY <1>2, <2>1, SubSeqProperties
  <2> QED BY <1>1, <2>1, <2>2
<1> QED BY <1>1, <1>2, <1>3 DEF Rest, Good, s

LEMMA InsideTypes ==
    ASSUME NEW ob \in Seq(ObmpMessages), ob # << >>
    PROVE  Len(ob) \in 1 .. Len(ob) /\ ob[Len(ob)] \in ObmpMessages
OBVIOUS

LEMMA TopicHandOn ==
    ASSUME NEW pe, NEW du, NEW ob, NEW bm, NEW raw, TopicIs(pe, du, ob, bm, raw, "payload"),
           raw # << >>, Succeeds(Head(raw))
    PROVE  TopicIs(After(pe, Head(raw)), Append(du, Head(raw)), ob, bm, Tail(raw), "payload")
<1> DEFINE m == Head(raw)
           last == ob[Len(ob)]
<1>1. /\ du \in Seq(BmpMessages) /\ raw \in Seq(BmpMessages) /\ ob \in Seq(ObmpMessages)
      /\ pe = PeersOf(du) /\ bm = FlattenSeq(Payloads(ob))
      /\ \A i \in 1 .. Len(ob) : i < Len(ob) => Good(ob[i])
      /\ ob # << >> /\ Rest(last, raw) /\ bm = du \o raw
  BY DEF TopicIs, InMessage
<1>2. last \in ObmpMessages
  BY <1>1, InsideTypes
<1>3. m \in BmpMessages /\ Tail(raw) \in Seq(BmpMessages) /\ raw = <<m>> \o Tail(raw)
  BY <1>1
<1> HIDE DEF last
<1>4. Rest(last, Tail(raw))
  BY <1>1, <1>2, RestShrinks
<1> HIDE DEF m
<1>5. Append(du, m) \in Seq(BmpMessages) /\ Append(du, m) = du \o <<m>> /\ <<m>> \in Seq(BmpMessages)
  BY <1>1, <1>3, AppendProperties, AppendIsConcat
<1>6. bm = Append(du, m) \o Tail(raw)
  BY <1>1, <1>3, <1>5, ConcatAssociative
<1>7. After(pe, m) = PeersOf(Append(du, m))
  BY <1>1, PeersOfAppend
<1>8. InMessage(ob, Append(du, m), bm, Tail(raw))
  BY <1>1, <1>4, <1>6 DEF InMessage, last
<1> QED BY <1>1, <1>3, <1>5, <1>7, <1>8 DEF TopicIs, m

LEMMA TopicContextRaises ==
    ASSUME NEW pe, NEW du, NEW ob, NEW bm, NEW raw, TopicIs(pe, du, ob, bm, raw, "payload"),
           raw # << >>, Parses(Head(raw)), Fails(Head(raw))
    PROVE  TopicIs(After(pe, Head(raw)), Append(du, Head(raw)), ob, bm, raw, "exited")
<1> DEFINE m == Head(raw)
<1>1. /\ du \in Seq(BmpMessages) /\ raw \in Seq(BmpMessages) /\ ob \in Seq(ObmpMessages)
      /\ pe = PeersOf(du) /\ bm = FlattenSeq(Payloads(ob))
      /\ \A i \in 1 .. Len(ob) : i < Len(ob) => Good(ob[i])
      /\ ob # << >> /\ Rest(ob[Len(ob)], raw) /\ bm = du \o raw
  BY DEF TopicIs, InMessage
<1>2. m \in BmpMessages /\ Tail(raw) \in Seq(BmpMessages) /\ raw = <<m>> \o Tail(raw)
  BY <1>1
<1> HIDE DEF m
<1>3. Append(du, m) \in Seq(BmpMessages) /\ Append(du, m) = du \o <<m>> /\ <<m>> \in Seq(BmpMessages)
  BY <1>1, <1>2, AppendProperties, AppendIsConcat
<1>4. bm = Append(du, m) \o Tail(raw)
  BY <1>1, <1>2, <1>3, ConcatAssociative
<1>5. After(pe, m) = PeersOf(Append(du, m))
  BY <1>1, PeersOfAppend
<1>6. StoppedInside(ob, Append(du, m), bm, raw)
  BY <1>1, <1>4 DEF StoppedInside, Succeeds, m
<1> QED BY <1>1, <1>3, <1>5, <1>6 DEF TopicIs, m

LEMMA TopicMessageRaises ==
    ASSUME NEW pe, NEW du, NEW ob, NEW bm, NEW raw, TopicIs(pe, du, ob, bm, raw, "payload"),
           raw # << >>, ~Parses(Head(raw))
    PROVE  TopicIs(pe, du, ob, bm, raw, "exited")
<1>1. InMessage(ob, du, bm, raw)
  BY DEF TopicIs
<1>2. StoppedInside(ob, du, bm, raw)
  BY <1>1 DEF InMessage, StoppedInside, Succeeds
<1> QED BY <1>2 DEF TopicIs

LEMMA TopicProcessed ==
    ASSUME NEW pe, NEW du, NEW ob, NEW bm, TopicIs(pe, du, ob, bm, << >>, "payload")
    PROVE  TopicIs(pe, du, ob, bm, << >>, "idle")
<1>1. /\ ob \in Seq(ObmpMessages) /\ du \in Seq(BmpMessages)
      /\ InMessage(ob, du, bm, << >>)
      /\ \A i \in 1 .. Len(ob) : i < Len(ob) => Good(ob[i])
  BY DEF TopicIs
<1>2. Good(ob[Len(ob)])
  BY <1>1, InsideTypes, RestEmpty DEF InMessage
<1>3. \A i \in 1 .. Len(ob) : Good(ob[i])
  <2>1. \A i \in 1 .. Len(ob) : i < Len(ob) \/ i = Len(ob)
    BY <1>1
  <2> QED BY <1>1, <1>2, <2>1
<1>4. bm = du
  BY <1>1, ConcatEmptySeq DEF InMessage
<1>5. BetweenMessages(ob, du, bm, << >>)
  BY <1>3, <1>4 DEF BetweenMessages
<1> QED BY <1>5 DEF TopicIs

\* Where a payload was stopped in: at its first message that does not succeed.
LEMMA RestStops ==
    ASSUME NEW o \in ObmpMessages, NEW raw, Rest(o, raw), raw # << >>, ~Succeeds(Head(raw))
    PROVE  \E k \in 1 .. Len(o.payload) :
              /\ raw = SubSeq(o.payload, k, Len(o.payload))
              /\ ~Succeeds(o.payload[k])
              /\ \A i \in 1 .. k - 1 : Succeeds(o.payload[i])
<1> DEFINE s == o.payload
           n == Len(s)
<1>1. s \in Seq(BmpMessages) /\ n \in Nat
  BY PipelineAssumption
<1>2. PICK k \in 0 .. n : raw = SubSeq(s, k + 1, n) /\ \A i \in 1 .. k : Succeeds(s[i])
  BY DEF Rest
<1> HIDE DEF s, n
<1>3. k < n
  <2>1. CASE k = n
    <3>1. n + 1 \in Int /\ n < n + 1 /\ n \in Int
      BY <1>1
    <3>2. raw = << >>
      BY <1>2, <2>1, <3>1, SubSeqEmpty
    <3> QED BY <3>2
  <2> QED BY <1>1, <2>1
<1>4. k + 1 \in 1 .. n /\ (k + 1) - 1 = k
  BY <1>1, <1>3
<1>5. Head(raw) = s[k + 1]
  <2>1. k + 1 \in 1 .. Len(s) /\ n \in k + 1 .. Len(s)
    BY <1>1, <1>3 DEF n
  <2> QED BY <1>1, <1>2, <2>1, HeadTailOfSubSeq
<1>6. \A i \in 1 .. (k + 1) - 1 : Succeeds(s[i])
  BY <1>2, <1>4
<1> QED BY <1>2, <1>4, <1>5, <1>6 DEF s, n

LEMMA ExitedLast ==
    ASSUME NEW pe, NEW du, NEW ob, NEW bm, NEW raw, TopicIs(pe, du, ob, bm, raw, "exited")
    PROVE  Len(ob) \in 1 .. Len(ob) /\ ~Good(ob[Len(ob)])
<1>1. ob \in Seq(ObmpMessages) /\ ob # << >>
  BY DEF TopicIs, StoppedBefore, StoppedInside
<1>2. Len(ob) \in 1 .. Len(ob) /\ ob[Len(ob)] \in ObmpMessages
  BY <1>1, InsideTypes
<1>3. CASE StoppedBefore(ob, du, bm, raw)
  BY <1>2, <1>3 DEF StoppedBefore, Good
<1>4. CASE StoppedInside(ob, du, bm, raw)
  <2> DEFINE o == ob[Len(ob)]
  <2>1. PICK k \in 1 .. Len(o.payload) : ~Succeeds(o.payload[k])
    <3>1. Rest(o, raw) /\ raw # << >> /\ ~Succeeds(Head(raw))
      BY <1>4 DEF StoppedInside
    <3> HIDE DEF o
    <3> QED BY <1>2, <3>1, RestStops DEF o
  <2>2. DOMAIN o.payload = 1 .. Len(o.payload)
    <3>1. o.payload \in Seq(BmpMessages)
      BY <1>2, PipelineAssumption
    <3> QED BY <3>1
  <2> QED BY <1>2, <2>1, <2>2 DEF Good
<1> QED BY <1>3, <1>4 DEF TopicIs

\* A topic that has exited is in the only state that its messages lead to.
LEMMA ExitedIsDetermined ==
    ASSUME NEW pe, NEW du, NEW ob, NEW bm, NEW raw, TopicIs(pe, du, ob, bm, raw, "exited"),
           NEW pe2, NEW du2, NEW bm2, NEW raw2, TopicIs(pe2, du2, ob, bm2, raw2, "exited")
    PROVE  pe = pe2 /\ du = du2 /\ bm = bm2 /\ raw = raw2
<1> DEFINE o == ob[Len(ob)]
<1>1. /\ ob \in Seq(ObmpMessages) /\ du \in Seq(BmpMessages) /\ du2 \in Seq(BmpMessages)
      /\ raw \in Seq(BmpMessages) /\ raw2 \in Seq(BmpMessages)
      /\ pe = PeersOf(du) /\ pe2 = PeersOf(du2)
      /\ bm = FlattenSeq(Payloads(ob)) /\ bm2 = FlattenSeq(Payloads(ob))
      /\ StoppedBefore(ob, du, bm, raw) \/ StoppedInside(ob, du, bm, raw)
      /\ StoppedBefore(ob, du2, bm2, raw2) \/ StoppedInside(ob, du2, bm2, raw2)
  BY DEF TopicIs
<1> SUFFICES du = du2 /\ raw = raw2
  BY <1>1
<1>2. bm = bm2
  BY <1>1
<1>3. CASE ~Binary(o)
  <2>1. StoppedBefore(ob, du, bm, raw) /\ StoppedBefore(ob, du2, bm2, raw2)
    BY <1>1, <1>3 DEF StoppedInside, Rest
  <2> QED BY <1>2, <2>1 DEF StoppedBefore
<1>4. CASE Binary(o)
  <2>1. /\ ob # << >> /\ Rest(o, raw) /\ raw # << >> /\ ~Succeeds(Head(raw))
        /\ Rest(o, raw2) /\ raw2 # << >> /\ ~Succeeds(Head(raw2))
        /\ bm = du \o (IF Parses(Head(raw)) THEN Tail(raw) ELSE raw)
        /\ bm2 = du2 \o (IF Parses(Head(raw2)) THEN Tail(raw2) ELSE raw2)
    BY <1>1, <1>4 DEF StoppedBefore, StoppedInside
  <2>2. o \in ObmpMessages
    BY <1>1, <2>1, InsideTypes
  <2> DEFINE s == o.payload
             n == Len(s)
  <2>3. n \in Nat
    <3>1. s \in Seq(BmpMessages)
      BY <2>2, PipelineAssumption
    <3> QED BY <3>1
  <2> HIDE DEF o
  <2>4. PICK k \in 1 .. n : raw = SubSeq(s, k, n) /\ ~Succeeds(s[k])
                            /\ \A i \in 1 .. k - 1 : Succeeds(s[i])
    BY <2>1, <2>2, RestStops
  <2>5. PICK l \in 1 .. n : raw2 = SubSeq(s, l, n) /\ ~Succeeds(s[l])
                            /\ \A i \in 1 .. l - 1 : Succeeds(s[i])
    BY <2>1, <2>2, RestStops
  <2> HIDE DEF s, n
  <2>6. k = l
    <3>1. k < l => k \in 1 .. l - 1
      BY <2>3
    <3>2. l < k => l \in 1 .. k - 1
      BY <2>3
    <3> QED BY <2>3, <2>4, <2>5, <3>1, <3>2
  <2>7. raw = raw2
    BY <2>4, <2>5, <2>6
  <2> DEFINE left == IF Parses(Head(raw)) THEN Tail(raw) ELSE raw
  <2>8. left \in Seq(BmpMessages)
    BY <1>1, <2>1, HeadTailProperties
  <2>9. du \o left = du2 \o left
    BY <1>2, <2>1, <2>7
  <2> HIDE DEF left
  <2>10. du = du2
    BY <1>1, <2>8, <2>9, ConcatSimplifications
  <2> QED BY <2>7, <2>10
<1> QED BY <1>3, <1>4
-----------------------------------------------------------------------------
(* What a context and a topic promise *)

LEMMA TablesOfDump ==
    ASSUME peers = PeersOf(dump_file)
    PROVE  LastWordCounts /\ FirstPeerUpCounts
<1>1. \A p : About(p) = AboutIn(dump_file, p)
  BY DEF About, AboutIn
<1>2. \A p, x : Mentions(p, x) = MentionsIn(dump_file, p, x)
  BY <1>1 DEF Mentions, MentionsIn, Applies, Fails
<1> HIDE DEF About, Mentions
<1>3. LastWordCounts
  BY <1>1, <1>2 DEF LastWordCounts, PeersOf, PeersIn, RibOf, SaidIn, LastUpdate
<1>4. FirstPeerUpCounts
  <2> SUFFICES ASSUME NEW p \in DOMAIN peers
               PROVE  peers[p].Peer_Up_data =
                         LET first == dump_file[CHOOSE i \in About(p) : \A j \in About(p) : i <= j]
                         IN IF first.type = Peer_Up THEN first.data ELSE None
    BY DEF FirstPeerUpCounts
  <2>1. About(p) = AboutIn(dump_file, p)
    BY <1>1
  <2>2. peers[p].Peer_Up_data = DataOf(FirstIn(dump_file, p))
    BY DEF PeersOf
  <2> QED BY <2>1, <2>2 DEF FirstIn, DataOf
<1> QED BY <1>3, <1>4

LEMMA DebagTablesOfDump ==
    ASSUME debag_peers = PeersOf(debag_dump)
    PROVE  D!LastWordCounts /\ D!FirstPeerUpCounts
<1>1. D!PerPeer = PerPeer
  BY DEF D!PerPeer, D!Route_Monitoring, D!Peer_Up, D!Statistics_Report, D!Peer_Down,
         D!Route_Mirroring, PerPeer, Route_Monitoring, Peer_Up, Statistics_Report,
         Peer_Down, Route_Mirroring
<1>2. \A p : D!About(p) = AboutIn(debag_dump, p)
  BY <1>1 DEF D!About, AboutIn
<1>3. \A p, x : D!Mentions(p, x) = MentionsIn(debag_dump, p, x)
  BY <1>2 DEF D!Mentions, D!Refused, D!except_flag, D!Route_Monitoring, MentionsIn, Applies,
              Fails, Refused, except_flag, Route_Monitoring
<1>4. \A S : D!Latest(S) = Latest(S)
  BY DEF D!Latest, Latest
<1>5. D!Route_Monitoring = Route_Monitoring /\ D!Peer_Up = Peer_Up
  BY DEF D!Route_Monitoring, D!Peer_Up, Route_Monitoring, Peer_Up
<1> HIDE DEF D!About, D!Mentions
<1>6. D!LastWordCounts
  BY <1>1, <1>2, <1>3, <1>4, <1>5
     DEF D!LastWordCounts, PeersOf, PeersIn, RibOf, SaidIn, LastUpdate
<1>7. D!FirstPeerUpCounts
  BY <1>2, <1>5 DEF D!FirstPeerUpCounts, PeersOf, FirstIn, DataOf
<1> QED BY <1>6, <1>7

\* The value form of FilesAgree.
LEMMA FilesOfTopic ==
    ASSUME NEW pe, NEW du, NEW ob, NEW bm, NEW raw, NEW a, TopicIs(pe, du, ob, bm, raw, a)
    PROVE  /\ bm = FlattenSeq([i \in DOMAIN ob |-> IF Binary(ob[i]) THEN ob[i].payload
                                                   ELSE << >>])
           /\ \A i \in DOMAIN ob : ~Binary(ob[i]) => a = "exited" /\ i = Len(ob)
           /\ a = "idle" => bm = du
           /\ bm = du \o raw \/ (a = "exited" /\ bm = du \o Tail(raw))
<1>1. /\ du \in Seq(BmpMessages) /\ raw \in Seq(BmpMessages) /\ ob \in Seq(ObmpMessages)
      /\ bm = FlattenSeq(Payloads(ob))
      /\ \A i \in 1 .. Len(ob) : i < Len(ob) => Good(ob[i])
      /\ \/ a = "idle" /\ BetweenMessages(ob, du, bm, raw)
         \/ a = "payload" /\ InMessage(ob, du, bm, raw)
         \/ a = "exited" /\ (StoppedBefore(ob, du, bm, raw) \/ StoppedInside(ob, du, bm, raw))
  BY DEF TopicIs
<1>2. ASSUME NEW i \in DOMAIN ob, ~Binary(ob[i])
      PROVE  a = "exited" /\ i = Len(ob)
  <2>1. ~Good(ob[i]) /\ i \in 1 .. Len(ob)
    BY <1>1, <1>2 DEF Good
  <2>2. i = Len(ob)
    BY <1>1, <2>1
  <2>3. a # "idle" /\ a # "payload"
    BY <1>1, <1>2, <2>1, <2>2 DEF BetweenMessages, InMessage, Rest
  <2> QED BY <1>1, <2>2, <2>3
<1>3. a = "idle" => bm = du
  BY <1>1 DEF BetweenMessages
<1>4. bm = du \o raw \/ (a = "exited" /\ bm = du \o Tail(raw))
  <2>1. du \o << >> = du
    BY <1>1, ConcatEmptySeq
  <2> QED BY <1>1, <2>1 DEF BetweenMessages, InMessage, StoppedBefore, StoppedInside
<1> QED BY <1>1, <1>2, <1>3, <1>4 DEF Payloads, Payload

LEMMA TopicPromises ==
    TopicIs(peers, dump_file, obmp_file, bmp_file, raw_bmp_message, at) =>
        LastWordCounts /\ FirstPeerUpCounts /\ FilesAgree
<1> SUFFICES ASSUME TopicIs(peers, dump_file, obmp_file, bmp_file, raw_bmp_message, at)
             PROVE  LastWordCounts /\ FirstPeerUpCounts /\ FilesAgree
  OBVIOUS
<1>1. peers = PeersOf(dump_file)
  BY DEF TopicIs
<1> QED BY <1>1, TablesOfDump, FilesOfTopic DEF FilesAgree

LEMMA DebagPromises ==
    TopicIs(debag_peers, debag_dump, debag_obmp, debag_bmp, debag_raw, debag_at) =>
        D!LastWordCounts /\ D!FirstPeerUpCounts /\ D!FilesAgree
<1> SUFFICES ASSUME TopicIs(debag_peers, debag_dump, debag_obmp, debag_bmp, debag_raw, debag_at)
             PROVE  D!LastWordCounts /\ D!FirstPeerUpCounts /\ D!FilesAgree
  OBVIOUS
<1>1. debag_peers = PeersOf(debag_dump)
  BY DEF TopicIs
<1>2. \A o : D!Binary(o) <=> Binary(o)
  BY DEF D!Binary, Binary
<1>3. \A s : D!FlattenSeq(s) = FlattenSeq(s)
  BY DEF D!FlattenSeq, FlattenSeq
<1> QED BY <1>1, <1>2, <1>3, DebagTablesOfDump, FilesOfTopic DEF D!FilesAgree
-----------------------------------------------------------------------------
(* The system *)

ForwardTopic == TopicIs(peers, dump_file, obmp_file, bmp_file, raw_bmp_message, at)
DebagTopic == TopicIs(debag_peers, debag_dump, debag_obmp, debag_bmp, debag_raw, debag_at)

\* Where debag.py is in the file.
InFile == /\ fileLength \in Nat /\ fileLength <= EndOf(obmp_file, Len(obmp_file))
          /\ read \in 0 .. fileLength /\ start \in 0 .. read
          /\ chunks \in 0 .. Len(obmp_file)
          /\ reading \in {"closed", "top", "chunk", "process", "exited", "end",
                          "crc check failed"}
          /\ reading = "closed" => fileLength = 0 /\ chunks = 0
          /\ reading # "crc check failed" => start = EndOf(obmp_file, chunks)
          /\ reading = "chunk" => read - start >= header_length /\ chunks < Len(obmp_file)
          /\ reading = "end" =>
                \A i \in chunks + 1 .. Len(obmp_file) : EndOf(obmp_file, i) > fileLength
          /\ reading = "crc check failed" =>
                LET missing == EndOf(obmp_file, chunks + 1) - read
                IN missing > 0 /\ missing <= header_length

\* What debag.py passed on is a beginning of what forward.py received.
PassedOn == /\ Len(debag_obmp) <= chunks
            /\ \A i \in 1 .. Len(debag_obmp) : debag_obmp[i] = obmp_file[i]
            /\ reading # "process" => Len(debag_obmp) = chunks
            /\ reading \notin {"process", "exited"} => debag_at = "idle"
            /\ Len(debag_obmp) < chunks => Len(debag_obmp) + 1 = chunks /\ debag_at = "idle"
            /\ reading = "exited" => debag_at = "exited"

Ends == /\ forward \in {"running", "killed", "raised"}
        /\ forward = "running" => reading = "closed"
        /\ forward = "raised" => at = "exited"
        /\ forward = "raised" /\ reading # "closed" =>
              fileLength = EndOf(obmp_file, Len(obmp_file))

PipelineInv == ForwardTopic /\ DebagTopic /\ InFile /\ PassedOn /\ Ends

LEMMA AllSized ==
    ASSUME NEW file \in Seq(ObmpMessages)
    PROVE  Len(file) \in Nat /\ Sized(file, Len(file))
BY PipelineAssumption DEF Sized

LEMMA InitPipelineInv == Init => PipelineInv
<1> SUFFICES ASSUME Init PROVE PipelineInv
  OBVIOUS
<1>1. ForwardTopic
  BY TopicStarts DEF Init, TopicInit, ContextInit, ForwardTopic
<1>2. DebagTopic
  <2>1. D!Empty = Empty
    BY DEF D!Empty, Empty
  <2> QED BY <2>1, TopicStarts DEF Init, D!TopicInit, D!ContextInit, DebagTopic
<1>3. obmp_file = << >> /\ debag_obmp = << >> /\ Len(<< >>) = 0
  BY DEF Init, TopicInit, D!TopicInit
<1>4. EndOf(obmp_file, 0) = 0
  BY EndOfStart
<1>5. InFile
  BY <1>3, <1>4 DEF Init, ChunksInit, InFile
<1>6. PassedOn
  BY <1>3 DEF Init, ChunksInit, D!TopicInit, PassedOn
<1>7. Ends
  BY DEF Init, ChunksInit, Ends
<1> QED BY <1>1, <1>2, <1>5, <1>6, <1>7 DEF PipelineInv

\* The steps of a topic.
LEMMA ForwardReceives ==
    ASSUME ForwardTopic, NEW o \in ObmpMessages, Process(o) \/ ProcessOther(o)
    PROVE  ForwardTopic' /\ obmp_file' = Append(obmp_file, o) /\ at' # "idle"
<1>1. CASE Process(o)
  BY <1>1, TopicProcess DEF Process, ForwardTopic
<1>2. CASE ProcessOther(o)
  BY <1>2, TopicOther DEF ProcessOther, ForwardTopic
<1> QED BY <1>1, <1>2

LEMMA ForwardSteps ==
    ASSUME ForwardTopic, TopicStep
    PROVE  ForwardTopic' /\ obmp_file' = obmp_file /\ at = "payload"
<1> DEFINE m == Head(raw_bmp_message)
<1>1. CASE HandOn
  <2>1. /\ at = "payload" /\ raw_bmp_message # << >> /\ Parses(m) /\ Parse(m)
        /\ raw_bmp_message' = Tail(raw_bmp_message) /\ at' = at
        /\ obmp_file' = obmp_file /\ bmp_file' = bmp_file
    BY <1>1 DEF HandOn, InPayload, bmp_msg
  <2>2. peers' = After(peers, m) /\ dump_file' = Append(dump_file, m) /\ Succeeds(m)
    BY <2>1, ParsingIsAfter DEF Succeeds
  <2> HIDE DEF m
  <2>3. TopicIs(peers, dump_file, obmp_file, bmp_file, raw_bmp_message, "payload")
    BY <2>1 DEF ForwardTopic
  <2>4. TopicIs(After(peers, m), Append(dump_file, m), obmp_file, bmp_file,
                Tail(raw_bmp_message), "payload")
    BY <2>1, <2>2, <2>3, TopicHandOn DEF m
  <2> QED BY <2>1, <2>2, <2>4 DEF ForwardTopic
<1>2. CASE ContextRaises
  <2>1. /\ at = "payload" /\ raw_bmp_message # << >> /\ Parses(m) /\ ParseFails(m)
        /\ raw_bmp_message' = raw_bmp_message /\ at' = "exited"
        /\ obmp_file' = obmp_file /\ bmp_file' = bmp_file
    BY <1>2 DEF ContextRaises, InPayload, bmp_msg
  <2>2. peers' = After(peers, m) /\ dump_file' = Append(dump_file, m) /\ Fails(m)
    BY <2>1, ParsingIsAfter
  <2> HIDE DEF m
  <2>3. TopicIs(peers, dump_file, obmp_file, bmp_file, raw_bmp_message, "payload")
    BY <2>1 DEF ForwardTopic
  <2>4. TopicIs(After(peers, m), Append(dump_file, m), obmp_file, bmp_file,
                raw_bmp_message, "exited")
    BY <2>1, <2>2, <2>3, TopicContextRaises DEF m
  <2> QED BY <2>1, <2>2, <2>4 DEF ForwardTopic
<1>3. CASE MessageRaises
  BY <1>3, TopicMessageRaises DEF MessageRaises, InPayload, bmp_msg, ForwardTopic
<1>4. CASE Processed
  BY <1>4, TopicProcessed DEF Processed, ForwardTopic
<1> QED BY <1>1, <1>2, <1>3, <1>4 DEF TopicStep

LEMMA DebagReceives ==
    ASSUME DebagTopic, NEW o \in ObmpMessages, D!Process(o) \/ D!ProcessOther(o)
    PROVE  DebagTopic' /\ debag_obmp' = Append(debag_obmp, o) /\ debag_at' # "idle"
<1>1. D!Binary(o) <=> Binary(o)
  BY DEF D!Binary, Binary
<1>2. CASE D!Process(o)
  BY <1>1, <1>2, TopicProcess DEF D!Process, DebagTopic
<1>3. CASE D!ProcessOther(o)
  BY <1>1, <1>3, TopicOther DEF D!ProcessOther, DebagTopic
<1> QED BY <1>2, <1>3

LEMMA SameMessagesParse ==
    ASSUME NEW m
    PROVE  D!Parses(m) <=> Parses(m)
<1>1. \A S : D!Cardinality(S) = Cardinality(S)
  BY DEF D!Cardinality, Cardinality
<1>2. \A tlvs : /\ D!TlvsRead(tlvs) <=> TlvsRead(tlvs)
                /\ D!Types(tlvs) = Types(tlvs)
                /\ \A t : D!LastOf(tlvs, t) = LastOf(tlvs, t)
  BY DEF D!TlvsRead, D!Types, D!LastOf, TlvsRead, Types, LastOf
<1>3. D!ParsesStatistics(m) <=> ParsesStatistics(m)
  BY <1>1, <1>2 DEF D!ParsesStatistics, ParsesStatistics
<1>4. D!ParsesPeerUp(m) <=> ParsesPeerUp(m)
  BY <1>2 DEF D!ParsesPeerUp, D!Peels, ParsesPeerUp, Peels
<1>5. D!ParsesInitiation(m) <=> ParsesInitiation(m)
  BY <1>2 DEF D!ParsesInitiation, D!sysDescr, D!sysName, ParsesInitiation, sysDescr, sysName
<1> QED BY <1>3, <1>4, <1>5
        DEF D!Parses, D!Route_Monitoring, D!Peer_Up, D!Statistics_Report, D!Peer_Down,
            D!Initiation, Parses, Route_Monitoring, Peer_Up, Statistics_Report, Peer_Down,
            Initiation

LEMMA DebagSteps ==
    ASSUME DebagTopic, D!TopicStep
    PROVE  DebagTopic' /\ debag_obmp' = debag_obmp /\ debag_at = "payload"
<1> DEFINE m == Head(debag_raw)
<1>0. D!Parses(m) <=> Parses(m)
  BY SameMessagesParse
<1>1. CASE D!HandOn
  <2>1. /\ debag_at = "payload" /\ debag_raw # << >> /\ Parses(m) /\ D!Parse(m)
        /\ debag_raw' = Tail(debag_raw) /\ debag_at' = debag_at
        /\ debag_obmp' = debag_obmp /\ debag_bmp' = debag_bmp
    BY <1>0, <1>1 DEF D!HandOn, D!InPayload, D!bmp_msg
  <2>2. debag_peers' = After(debag_peers, m) /\ debag_dump' = Append(debag_dump, m) /\ Succeeds(m)
    BY <2>1, DebagParsingIsAfter DEF Succeeds
  <2> HIDE DEF m
  <2>3. TopicIs(debag_peers, debag_dump, debag_obmp, debag_bmp, debag_raw, "payload")
    BY <2>1 DEF DebagTopic
  <2>4. TopicIs(After(debag_peers, m), Append(debag_dump, m), debag_obmp, debag_bmp,
                Tail(debag_raw), "payload")
    BY <2>1, <2>2, <2>3, TopicHandOn DEF m
  <2> QED BY <2>1, <2>2, <2>4 DEF DebagTopic
<1>2. CASE D!ContextRaises
  <2>1. /\ debag_at = "payload" /\ debag_raw # << >> /\ Parses(m) /\ D!ParseFails(m)
        /\ debag_raw' = debag_raw /\ debag_at' = "exited"
        /\ debag_obmp' = debag_obmp /\ debag_bmp' = debag_bmp
    BY <1>0, <1>2 DEF D!ContextRaises, D!InPayload, D!bmp_msg
  <2>2. debag_peers' = After(debag_peers, m) /\ debag_dump' = Append(debag_dump, m) /\ Fails(m)
    BY <2>1, DebagParsingIsAfter
  <2> HIDE DEF m
  <2>3. TopicIs(debag_peers, debag_dump, debag_obmp, debag_bmp, debag_raw, "payload")
    BY <2>1 DEF DebagTopic
  <2>4. TopicIs(After(debag_peers, m), Append(debag_dump, m), debag_obmp, debag_bmp,
                debag_raw, "exited")
    BY <2>1, <2>2, <2>3, TopicContextRaises DEF m
  <2> QED BY <2>1, <2>2, <2>4 DEF DebagTopic
<1>3. CASE D!MessageRaises
  BY <1>0, <1>3, TopicMessageRaises DEF D!MessageRaises, D!InPayload, D!bmp_msg, DebagTopic
<1>4. CASE D!Processed
  BY <1>4, TopicProcessed DEF D!Processed, DebagTopic
<1> QED BY <1>1, <1>2, <1>3, <1>4 DEF D!TopicStep

\* The steps of the loop over the file, which is complete by then.
LEMMA ReadMoreReads ==
    ASSUME fileLength \in Nat, read \in 0 .. fileLength, ReadMore
    PROVE  read' \in read .. fileLength /\ (read' = fileLength \/ read' = read + BUFSIZE)
BY ChunksAssumption DEF ReadMore

LEMMA OpeningInFile ==
    ASSUME InFile, obmp_file \in Seq(ObmpMessages), obmp_file' = obmp_file,
           NEW n \in FileLengths, OpenChunks(n)
    PROVE  InFile' /\ (forward # "killed" => fileLength' = EndOf(obmp_file, Len(obmp_file)))
<1> DEFINE all == EndOf(obmp_file, Len(obmp_file))
<1>1. all \in Nat
  <2>1. fileLength \in Nat /\ fileLength <= all
    BY DEF InFile
  <2>2. CASE Len(obmp_file) = 0
    BY <2>2, EndOfStart
  <2>3. CASE Len(obmp_file) # 0
    <3>1. Sized(obmp_file, Len(obmp_file)) /\ Len(obmp_file) \in Nat
      BY AllSized
    <3>2. 0 \in 0 .. Len(obmp_file) /\ Len(obmp_file) \in 0 .. Len(obmp_file) /\ 0 < Len(obmp_file)
      BY <2>3, <3>1
    <3> QED BY <3>1, <3>2, EndOfGrows
  <2> QED BY <2>2, <2>3
<1>2. n \in Nat /\ n <= all /\ (forward # "killed" => n = all)
  BY <1>1 DEF FileLengths
<1> HIDE DEF all
<1>3. /\ reading = "closed" /\ reading' = "top" /\ fileLength' = n
      /\ read' = read /\ start' = start /\ chunks' = chunks
  BY DEF OpenChunks
<1>4. /\ fileLength = 0 /\ chunks = 0 /\ read \in 0 .. fileLength /\ start \in 0 .. read
      /\ start = EndOf(obmp_file, chunks)
  BY <1>3 DEF InFile
<1>5. read' \in 0 .. fileLength' /\ start' \in 0 .. read'
  BY <1>2, <1>3, <1>4
<1>6. InFile'
  BY <1>2, <1>3, <1>4, <1>5 DEF InFile, all
<1> QED BY <1>2, <1>3, <1>6 DEF all

LEMMA HeaderInFile ==
    ASSUME InFile, obmp_file \in Seq(ObmpMessages), obmp_file' = obmp_file, NeedHeader
    PROVE  InFile' /\ reading' \in {"end", "chunk"}
<1> DEFINE n == Len(obmp_file)
<1>1. /\ reading = "top" /\ fileLength' = fileLength /\ start' = start /\ chunks' = chunks
      /\ reading' = IF read' - start < header_length THEN "end" ELSE "chunk"
      /\ IF buf_length < header_length THEN ReadMore ELSE read' = read
  BY DEF NeedHeader
<1>2. /\ fileLength \in Nat /\ fileLength <= EndOf(obmp_file, n)
      /\ read \in 0 .. fileLength /\ start \in 0 .. read
      /\ chunks \in 0 .. n /\ start = EndOf(obmp_file, chunks)
  BY <1>1 DEF InFile
<1>3. n \in Nat /\ Sized(obmp_file, n) /\ n \in 0 .. n
  BY AllSized
<1>4. /\ read' \in read .. fileLength
      /\ read' - start < header_length => read' = fileLength
  <2>1. CASE buf_length < header_length
    <3>1. read' \in read .. fileLength /\ (read' = fileLength \/ read' = read + BUFSIZE)
      BY <1>1, <1>2, <2>1, ReadMoreReads
    <3>2. read' = read + BUFSIZE => read' - start >= header_length
      BY <1>2, ChunksAssumption
    <3> QED BY <1>2, <3>1, <3>2, ChunksAssumption
  <2>2. CASE ~(buf_length < header_length)
    BY <1>1, <1>2, <2>2, ChunksAssumption DEF buf_length
  <2> QED BY <2>1, <2>2
<1>5. read' \in 0 .. fileLength' /\ start' \in 0 .. read'
  BY <1>1, <1>2, <1>4
<1> HIDE DEF n
<1>6. CASE read' - start < header_length
  <2>1. reading' = "end" /\ read' = fileLength
    BY <1>1, <1>4, <1>6
  <2>2. ASSUME NEW i \in chunks + 1 .. n
        PROVE  EndOf(obmp_file, i) > fileLength
    <3>1. i \in 0 .. n /\ chunks \in 0 .. n /\ chunks < i
      BY <1>2, <1>3
    <3>2. EndOf(obmp_file, i) \in Nat /\ EndOf(obmp_file, i) >= start + header_length
      BY <1>2, <1>3, <3>1, EndOfGrows
    <3> QED BY <1>2, <1>6, <2>1, <3>2, ChunksAssumption
  <2> QED BY <1>1, <1>2, <1>5, <2>1, <2>2 DEF InFile, n
<1>7. CASE ~(read' - start < header_length)
  <2>1. reading' = "chunk" /\ read' - start >= header_length
    BY <1>1, <1>2, <1>4, <1>7, ChunksAssumption
  <2>2. chunks < n
    <3>1. start < EndOf(obmp_file, n)
      <4>1. CASE chunks = n
        BY <1>2, <1>4, <2>1, <4>1, ChunksAssumption
      <4>2. CASE chunks # n
        <5>1. chunks < n
          BY <1>2, <1>3, <4>2
        <5>2. /\ EndOf(obmp_file, n) \in Nat
              /\ EndOf(obmp_file, n) >= start + header_length
          BY <1>2, <1>3, <5>1, EndOfGrows
        <5> QED BY <1>2, <5>2, ChunksAssumption
      <4> QED BY <4>1, <4>2
    <3>2. CASE chunks = n
      BY <1>2, <3>1, <3>2
    <3> QED BY <1>2, <1>3, <3>2
  <2> QED BY <1>1, <1>2, <1>5, <2>1, <2>2 DEF InFile, n
<1> QED BY <1>6, <1>7

LEMMA ChunkInFile ==
    ASSUME InFile, obmp_file \in Seq(ObmpMessages), obmp_file' = obmp_file,
           \/ NeedChunk(obmp_file) \/ NoChunk(obmp_file)
           \/ CutChunk(obmp_file) \/ GetChunk(obmp_file)
    PROVE  /\ InFile' /\ reading = "chunk" /\ fileLength' = fileLength
           /\ \/ reading' = "process" /\ chunks' = chunks + 1
              \/ reading' \in {"chunk", "end", "crc check failed"} /\ chunks' = chunks
<1> DEFINE n == Len(obmp_file)
           size == obmp_file[chunks + 1].size
<1>1. reading = "chunk" /\ fileLength' = fileLength
  BY DEF NeedChunk, NoChunk, CutChunk, GetChunk
<1>2. /\ fileLength \in Nat /\ fileLength <= EndOf(obmp_file, n)
      /\ read \in 0 .. fileLength /\ start \in 0 .. read
      /\ chunks \in 0 .. n /\ chunks < n
      /\ start = EndOf(obmp_file, chunks) /\ read - start >= header_length
  BY <1>1 DEF InFile
<1>3. n \in Nat /\ Sized(obmp_file, n) /\ n \in 0 .. n /\ chunks + 1 \in 1 .. n
  BY <1>2, AllSized
<1>4. size \in Nat /\ EndOf(obmp_file, chunks + 1) = start + header_length + size
  <2>1. Sized(obmp_file, chunks + 1) /\ chunks \in Nat
    BY <1>2, <1>3 DEF Sized
  <2>2. size \in Nat
    BY <1>3 DEF Sized
  <2> QED BY <1>2, <2>1, <2>2, EndOfNext
<1> HIDE DEF size, n
<1>5. CASE NeedChunk(obmp_file)
  <2>1. start' = start /\ chunks' = chunks /\ reading' = reading
    BY <1>5 DEF NeedChunk
  <2>2. read' \in read .. fileLength
    BY <1>2, <1>5, ReadMoreReads DEF NeedChunk
  <2>3. /\ read' \in 0 .. fileLength' /\ start' \in 0 .. read'
        /\ read' - start' >= header_length
    BY <1>1, <1>2, <2>1, <2>2, ChunksAssumption
  <2> QED BY <1>1, <1>2, <2>1, <2>3 DEF InFile, n
<1>6. CASE NoChunk(obmp_file)
  <2>1. /\ start' = start /\ chunks' = chunks /\ reading' = "end" /\ read' = read
        /\ read - start < size /\ read = fileLength
    BY <1>6 DEF NoChunk, buf_length, size
  <2>2. ASSUME NEW i \in chunks + 1 .. n
        PROVE  EndOf(obmp_file, i) > fileLength
    <3>1. EndOf(obmp_file, i) \in Nat /\ EndOf(obmp_file, i) >= EndOf(obmp_file, chunks + 1)
      <4>1. CASE i = chunks + 1
        BY <1>2, <1>4, <4>1, ChunksAssumption
      <4>2. CASE i # chunks + 1
        <5>1. i \in 0 .. n /\ chunks + 1 \in 0 .. n /\ chunks + 1 < i
          BY <1>2, <1>3, <4>2
        <5>2. /\ EndOf(obmp_file, i) \in Nat /\ EndOf(obmp_file, chunks + 1) \in Nat
              /\ EndOf(obmp_file, i) >= EndOf(obmp_file, chunks + 1) + header_length
          BY <1>3, <5>1, EndOfGrows
        <5> QED BY <5>2, ChunksAssumption
      <4> QED BY <4>1, <4>2
    <3> QED BY <1>2, <1>4, <2>1, <3>1, ChunksAssumption
  <2> QED BY <1>1, <1>2, <2>1, <2>2 DEF InFile, n
<1>7. CASE CutChunk(obmp_file)
  <2>0. reading' = "crc check failed"
    BY <1>7 DEF CutChunk
  <2>1. /\ start' = read /\ chunks' = chunks /\ read' = read
        /\ read - start >= size /\ read - start < size + header_length
    BY <1>7 DEF CutChunk, buf_length, size
  <2>2. /\ EndOf(obmp_file, chunks + 1) - read > 0
        /\ EndOf(obmp_file, chunks + 1) - read <= header_length
    BY <1>2, <1>4, <2>1, ChunksAssumption
  <2>3. read' \in 0 .. fileLength' /\ start' \in 0 .. read'
    BY <1>1, <1>2, <2>1
  <2> QED BY <1>1, <1>2, <2>0, <2>1, <2>2, <2>3 DEF InFile, n
<1>8. CASE GetChunk(obmp_file)
  <2>1. /\ start' = start + size + header_length /\ chunks' = chunks + 1
        /\ reading' = "process" /\ read' = read
        /\ read - start >= size + header_length
    BY <1>8 DEF GetChunk, buf_length, size
  <2>2. start' = EndOf(obmp_file, chunks')
    BY <1>2, <1>4, <2>1, ChunksAssumption
  <2>3. read' \in 0 .. fileLength' /\ start' \in 0 .. read' /\ chunks' \in 0 .. n
    BY <1>1, <1>2, <1>3, <1>4, <2>1, ChunksAssumption
  <2> QED BY <1>1, <1>2, <2>1, <2>2, <2>3 DEF InFile, n
<1> QED BY <1>1, <1>5, <1>6, <1>7, <1>8

LEMMA InFileUnchanged ==
    ASSUME InFile, UNCHANGED <<obmp_file, chunkVars>> PROVE InFile'
BY DEF InFile, chunkVars

LEMMA PassedOnUnchanged ==
    ASSUME PassedOn, UNCHANGED <<obmp_file, chunkVars, debagVars>> PROVE PassedOn'
BY DEF PassedOn, chunkVars, debagVars

LEMMA ForwardUnchanged ==
    ASSUME ForwardTopic, UNCHANGED topicVars PROVE ForwardTopic' /\ obmp_file' = obmp_file
BY DEF ForwardTopic, topicVars

LEMMA DebagUnchanged ==
    ASSUME DebagTopic, UNCHANGED debagVars PROVE DebagTopic'
BY DEF DebagTopic, debagVars

LEMMA ReceivePipelineInv ==
    ASSUME PipelineInv, NEW o \in ObmpMessages, Receive(o)
    PROVE  PipelineInv'
<1>1. /\ ForwardTopic /\ DebagTopic /\ InFile /\ PassedOn /\ Ends
      /\ forward = "running" /\ reading = "closed"
      /\ UNCHANGED <<chunkVars, debagVars, forward>>
  BY DEF PipelineInv, Receive, Ends
<1>2. ForwardTopic' /\ obmp_file' = Append(obmp_file, o)
  BY <1>1, ForwardReceives DEF Receive
<1>3. DebagTopic'
  BY <1>1, DebagUnchanged
<1>4. /\ fileLength = 0 /\ chunks = 0 /\ read \in 0 .. fileLength /\ start \in 0 .. read
      /\ fileLength' = fileLength /\ chunks' = chunks /\ read' = read /\ start' = start
      /\ start = EndOf(obmp_file, chunks) /\ reading' = "closed" /\ forward' = "running"
      /\ debag_obmp' = debag_obmp /\ debag_at' = debag_at
  BY <1>1 DEF InFile, chunkVars, debagVars
<1>5. debag_obmp \in Seq(ObmpMessages) /\ obmp_file' \in Seq(ObmpMessages)
  BY <1>1, <1>2 DEF DebagTopic, ForwardTopic, TopicIs
<1>6. /\ EndOf(obmp_file', 0) = 0 /\ EndOf(obmp_file', Len(obmp_file')) \in Nat
      /\ Len(obmp_file') \in Nat
  <2> DEFINE file == obmp_file'
  <2>1. Sized(file, Len(file)) /\ Len(file) \in Nat /\ Len(file) # 0
    <3>1. file \in Seq(ObmpMessages) /\ obmp_file \in Seq(ObmpMessages)
      BY <1>1, <1>5 DEF ForwardTopic, TopicIs
    <3>2. Len(file) # 0
      BY <1>2, <3>1
    <3> HIDE DEF file
    <3> QED BY <3>1, <3>2, AllSized
  <2> HIDE DEF file
  <2>2. 0 \in 0 .. Len(file) /\ Len(file) \in 0 .. Len(file) /\ 0 < Len(file)
    BY <2>1
  <2>3. EndOf(file, Len(file)) \in Nat /\ EndOf(file, 0) = 0
    BY <2>1, <2>2, EndOfGrows, EndOfStart
  <2> QED BY <2>1, <2>3 DEF file
<1>7. InFile'
  <2>1. start = 0 /\ start' = EndOf(obmp_file', chunks')
    BY <1>4, <1>6
  <2>2. read' \in 0 .. fileLength' /\ start' \in 0 .. read' /\ chunks' \in 0 .. Len(obmp_file')
    BY <1>4, <1>6
  <2>3. fileLength' \in Nat /\ fileLength' <= EndOf(obmp_file', Len(obmp_file'))
    BY <1>4, <1>6
  <2> QED BY <1>4, <2>1, <2>2, <2>3 DEF InFile
<1>8. PassedOn'
  <2>1. Len(debag_obmp) = 0 /\ debag_at = "idle"
    BY <1>1, <1>4 DEF PassedOn
  <2> QED BY <1>4, <2>1 DEF PassedOn
<1>9. Ends'
  BY <1>4 DEF Ends
<1> QED BY <1>2, <1>3, <1>7, <1>8, <1>9 DEF PipelineInv

LEMMA ForwardPipelineInv ==
    ASSUME PipelineInv, Forward \/ Killed \/ Raised
    PROVE  PipelineInv'
<1>1. /\ ForwardTopic /\ DebagTopic /\ InFile /\ PassedOn /\ Ends
      /\ forward = "running" /\ reading = "closed"
      /\ UNCHANGED <<chunkVars, debagVars>>
  BY DEF PipelineInv, Ends, Forward, Killed, Raised
<1>2. ForwardTopic' /\ obmp_file' = obmp_file
  BY <1>1, ForwardSteps, ForwardUnchanged DEF Forward, Killed, Raised
<1>3. InFile' /\ PassedOn' /\ DebagTopic' /\ reading' = "closed"
  BY <1>1, <1>2, InFileUnchanged, PassedOnUnchanged, DebagUnchanged DEF chunkVars
<1>4. Ends'
  BY <1>1, <1>3 DEF Ends, Forward, Killed, Raised, topicVars
<1> QED BY <1>2, <1>3, <1>4 DEF PipelineInv

LEMMA ReadingPipelineInv ==
    ASSUME PipelineInv, StartDebag \/ Debag
    PROVE  PipelineInv'
<1>1. /\ ForwardTopic /\ DebagTopic /\ InFile /\ PassedOn /\ Ends
      /\ UNCHANGED <<topicVars, debagVars, forward>>
  BY DEF PipelineInv, StartDebag, Debag
<1>2. ForwardTopic' /\ DebagTopic' /\ obmp_file' = obmp_file
  BY <1>1, ForwardUnchanged, DebagUnchanged
<1>3. obmp_file \in Seq(ObmpMessages)
  BY <1>1 DEF ForwardTopic, TopicIs
<1>4. debag_obmp' = debag_obmp /\ debag_at' = debag_at /\ at' = at /\ forward' = forward
  BY <1>1 DEF topicVars, debagVars
<1>5. debag_obmp \in Seq(ObmpMessages)
  BY <1>1 DEF DebagTopic, TopicIs
<1>6. CASE StartDebag
  <2>1. PICK n \in FileLengths : OpenChunks(n)
    BY <1>6 DEF StartDebag
  <2>2. /\ reading = "closed" /\ reading' = "top" /\ chunks' = chunks /\ forward # "running"
    BY <1>6, <2>1 DEF OpenChunks, StartDebag
  <2>3. InFile' /\ (forward # "killed" => fileLength' = EndOf(obmp_file, Len(obmp_file)))
    BY <1>1, <1>2, <1>3, <2>1, OpeningInFile
  <2>4. PassedOn'
    BY <1>1, <1>2, <1>4, <2>2 DEF PassedOn
  <2>5. Ends'
    BY <1>1, <1>2, <1>4, <2>2, <2>3 DEF Ends
  <2> QED BY <1>2, <2>3, <2>4, <2>5 DEF PipelineInv
<1>7. CASE Debag /\ NeedHeader
  <2>1. InFile' /\ reading' \in {"end", "chunk"}
    BY <1>1, <1>2, <1>3, <1>7, HeaderInFile
  <2>2. reading = "top" /\ chunks' = chunks /\ fileLength' = fileLength
    BY <1>7 DEF NeedHeader
  <2>3. PassedOn'
    BY <1>1, <1>2, <1>4, <2>1, <2>2 DEF PassedOn
  <2>4. Ends'
    BY <1>1, <1>2, <1>4, <2>1, <2>2 DEF Ends
  <2> QED BY <1>2, <2>1, <2>3, <2>4 DEF PipelineInv
<1>8. CASE Debag /\ ~NeedHeader
  <2>1. /\ InFile' /\ reading = "chunk" /\ fileLength' = fileLength
        /\ \/ reading' = "process" /\ chunks' = chunks + 1
           \/ reading' \in {"chunk", "end", "crc check failed"} /\ chunks' = chunks
    BY <1>1, <1>2, <1>3, <1>8, ChunkInFile DEF Debag, ReadStep
  <2>2. Len(debag_obmp) = chunks /\ debag_at = "idle" /\ chunks \in Nat
    <3>1. Len(debag_obmp) = chunks /\ debag_at = "idle"
      BY <1>1, <2>1 DEF PassedOn
    <3> QED BY <1>5, <3>1
  <2>3. PassedOn'
    <3>1. CASE reading' = "process" /\ chunks' = chunks + 1
      <4>1. Len(debag_obmp) <= chunks' /\ Len(debag_obmp) + 1 = chunks'
        BY <2>2, <3>1
      <4> QED BY <1>1, <1>2, <1>4, <2>2, <3>1, <4>1 DEF PassedOn
    <3>2. CASE reading' \in {"chunk", "end", "crc check failed"} /\ chunks' = chunks
      BY <1>1, <1>2, <1>4, <2>2, <3>2 DEF PassedOn
    <3> QED BY <2>1, <3>1, <3>2
  <2>4. Ends'
    BY <1>1, <1>2, <1>4, <2>1 DEF Ends
  <2> QED BY <1>2, <2>1, <2>3, <2>4 DEF PipelineInv
<1> QED BY <1>6, <1>7, <1>8

LEMMA ReplayPipelineInv ==
    ASSUME PipelineInv, StartChunk \/ ChunkStep \/ EndChunk
    PROVE  PipelineInv'
<1>1. /\ ForwardTopic /\ DebagTopic /\ InFile /\ PassedOn /\ Ends
      /\ reading = "process" /\ UNCHANGED <<topicVars, forward>>
      /\ UNCHANGED <<fileLength, read, start, chunks>>
  BY DEF PipelineInv, StartChunk, ChunkStep, EndChunk, chunkVars
<1>2. ForwardTopic' /\ obmp_file' = obmp_file /\ at' = at
  BY <1>1, ForwardUnchanged DEF topicVars
<1>3. obmp_file \in Seq(ObmpMessages) /\ debag_obmp \in Seq(ObmpMessages)
  BY <1>1 DEF ForwardTopic, DebagTopic, TopicIs
<1>4. chunks \in 0 .. Len(obmp_file) /\ Len(debag_obmp) \in Nat /\ Len(debag_obmp) <= chunks
  BY <1>1, <1>3 DEF InFile, PassedOn
<1>5. CASE StartChunk
  <2>1. Len(debag_obmp) < chunks /\ UNCHANGED chunkVars
    BY <1>5 DEF StartChunk
  <2>2. Len(debag_obmp) + 1 = chunks
    BY <1>1, <2>1 DEF PassedOn
  <2>3. chunks \in 1 .. Len(obmp_file) /\ obmp_file[chunks] \in ObmpMessages
    <3>1. chunks \in 1 .. Len(obmp_file)
      BY <1>4, <2>1
    <3> QED BY <1>3, <3>1, ElementOfSeq
  <2>4. DebagTopic' /\ debag_obmp' = Append(debag_obmp, obmp_file[chunks]) /\ debag_at' # "idle"
    BY <1>1, <1>5, <2>3, DebagReceives DEF StartChunk
  <2>5. /\ Len(debag_obmp') = chunks
        /\ \A i \in 1 .. Len(debag_obmp') : debag_obmp'[i] = obmp_file[i]
    <3>1. /\ Len(debag_obmp') = Len(debag_obmp) + 1
          /\ debag_obmp'[Len(debag_obmp) + 1] = obmp_file[chunks]
          /\ \A i \in 1 .. Len(debag_obmp) : debag_obmp'[i] = debag_obmp[i]
      BY <1>3, <2>3, <2>4, AppendProperties
    <3>2. \A i \in 1 .. Len(debag_obmp) + 1 :
             i \in 1 .. Len(debag_obmp) \/ i = Len(debag_obmp) + 1
      BY <1>4
    <3>3. \A i \in 1 .. Len(debag_obmp) : debag_obmp[i] = obmp_file[i]
      BY <1>1 DEF PassedOn
    <3> QED BY <2>2, <3>1, <3>2, <3>3
  <2>6. InFile' /\ reading' = "process" /\ chunks' = chunks
    BY <1>1, <1>2, <2>1, InFileUnchanged DEF chunkVars
  <2>7. PassedOn'
    <3>1. chunks <= chunks /\ ~(chunks < chunks)
      BY <1>4
    <3> QED BY <1>2, <2>5, <2>6, <3>1 DEF PassedOn
  <2>8. Ends'
    BY <1>1, <1>2, <2>6 DEF Ends
  <2> QED BY <1>2, <2>4, <2>6, <2>7, <2>8 DEF PipelineInv
<1>6. CASE ChunkStep
  <2>1. /\ DebagTopic' /\ debag_obmp' = debag_obmp /\ debag_at = "payload"
        /\ UNCHANGED chunkVars
    BY <1>1, <1>6, DebagSteps DEF ChunkStep
  <2>2. ~(Len(debag_obmp) < chunks)
    BY <1>1, <2>1 DEF PassedOn
  <2>3. InFile' /\ reading' = "process" /\ chunks' = chunks
    BY <1>1, <1>2, <2>1, InFileUnchanged DEF chunkVars
  <2>4. PassedOn'
    BY <1>1, <1>2, <2>1, <2>2, <2>3 DEF PassedOn
  <2>5. Ends'
    BY <1>1, <1>2, <2>3 DEF Ends
  <2> QED BY <1>2, <2>1, <2>3, <2>4, <2>5 DEF PipelineInv
<1>7. CASE EndChunk
  <2>1. /\ Len(debag_obmp) = chunks /\ debag_at # "payload" /\ UNCHANGED debagVars
        /\ reading' = IF debag_at = "idle" THEN "top" ELSE "exited"
    BY <1>7 DEF EndChunk
  <2>2. DebagTopic' /\ debag_obmp' = debag_obmp /\ debag_at' = debag_at
    BY <1>1, <2>1, DebagUnchanged DEF debagVars
  <2>3. debag_at \in {"idle", "exited"}
    BY <1>1, <2>1 DEF DebagTopic, TopicIs
  <2>4. InFile'
    BY <1>1, <1>2, <2>1 DEF InFile
  <2>5. PassedOn'
    BY <1>1, <1>2, <2>1, <2>2, <2>3 DEF PassedOn
  <2>6. Ends'
    BY <1>1, <1>2, <2>1 DEF Ends
  <2> QED BY <1>2, <2>2, <2>4, <2>5, <2>6 DEF PipelineInv
<1> QED BY <1>5, <1>6, <1>7

LEMMA StepPipelineInv == PipelineInv /\ [Next]_vars => PipelineInv'
<1> SUFFICES ASSUME PipelineInv, [Next]_vars PROVE PipelineInv'
  OBVIOUS
<1>1. ASSUME NEW o \in ObmpMessages, Receive(o)
      PROVE  PipelineInv'
  BY <1>1, ReceivePipelineInv
<1>2. CASE Forward \/ Killed \/ Raised
  BY <1>2, ForwardPipelineInv
<1>3. CASE StartDebag \/ Debag
  BY <1>3, ReadingPipelineInv
<1>4. CASE StartChunk \/ ChunkStep \/ EndChunk
  BY <1>4, ReplayPipelineInv
<1>5. CASE UNCHANGED vars
  <2>1. UNCHANGED <<topicVars, chunkVars, debagVars, forward>>
    BY <1>5 DEF vars
  <2>2. ForwardTopic' /\ DebagTopic' /\ obmp_file' = obmp_file
    BY <2>1, ForwardUnchanged, DebagUnchanged DEF PipelineInv
  <2>3. InFile' /\ PassedOn'
    BY <2>1, <2>2, InFileUnchanged, PassedOnUnchanged DEF PipelineInv
  <2>4. Ends'
    BY <2>1 DEF PipelineInv, Ends, topicVars, chunkVars
  <2> QED BY <2>2, <2>3, <2>4 DEF PipelineInv
<1> QED BY <1>1, <1>2, <1>3, <1>4, <1>5 DEF Next, Replay

LEMMA PipelineInvariant == Spec => []PipelineInv
<1>1. Init => PipelineInv
  BY InitPipelineInv
<1>2. PipelineInv /\ [Next]_vars => PipelineInv'
  BY StepPipelineInv
<1> QED BY <1>1, <1>2, PTL DEF Spec
-----------------------------------------------------------------------------
(* The theorems *)

\* Every variable has its type: both topics are idle, inside a payload or have
\* exited, the buffer of debag.py lies inside the file that there is, and
\* forward.py runs, was killed or raised (topic.py, debag.py).
THEOREM PipelineTypesAreRight == Spec => []TypeOK
<1>1. PipelineInv => TypeOK
  <2> SUFFICES ASSUME PipelineInv PROVE TypeOK
    OBVIOUS
  <2>1. at \in {"idle", "payload", "exited"} /\ debag_at \in {"idle", "payload", "exited"}
    BY DEF PipelineInv, ForwardTopic, DebagTopic, TopicIs
  <2>2. chunks \in Nat
    <3>1. chunks \in 0 .. Len(obmp_file)
      BY DEF PipelineInv, InFile
    <3> QED BY <3>1
  <2>3. ChunksTypeOK
    BY <2>2 DEF PipelineInv, InFile, ChunksTypeOK, ReadEnded
  <2> QED BY <2>1, <2>3 DEF TypeOK, PipelineInv, Ends
<1> QED BY <1>1, PipelineInvariant, PTL

\* A table of a peer holds what the last UPDATE of this peer that was not
\* flagged said of each prefix, in forward.py and in debag.py alike, whatever
\* messages of whatever peers came in between (bmpapp.py:86-158).
THEOREM TablesHoldLastWord == Spec => []TablesFollowLastWord
<1>1. PipelineInv => TablesFollowLastWord
  BY TopicPromises, DebagPromises
     DEF PipelineInv, ForwardTopic, DebagTopic, TablesFollowLastWord
<1> QED BY <1>1, PipelineInvariant, PTL

\* What is known of a session is what the first message about its peer says
\* (bmpapp.py:72-76 and 95-108).
THEOREM FirstPeerUpIsKept == Spec => []PeerUpDataIsFirst
<1>1. PipelineInv => PeerUpDataIsFirst
  BY TopicPromises, DebagPromises
     DEF PipelineInv, ForwardTopic, DebagTopic, PeerUpDataIsFirst
<1> QED BY <1>1, PipelineInvariant, PTL

\* The .obmp file, the .bmp file and the dump of a topic agree at every step
\* of process(), the one included that ends the program (topic.py:51-69).
THEOREM FilesAlwaysAgree == Spec => []AllFilesAgree
<1>1. PipelineInv => AllFilesAgree
  BY TopicPromises, DebagPromises DEF PipelineInv, ForwardTopic, DebagTopic, AllFilesAgree
<1> QED BY <1>1, PipelineInvariant, PTL

\* The buffer of debag.py begins at a chunk, and whatever the size of a block
\* and wherever the file was cut, every whole chunk is read or a checksum
\* failed within a header's length of the end of the buffer (debag.py:36-67).
THEOREM WholeChunksAreRead == Spec => []DebagReadsWholeChunks
<1>1. PipelineInv => DebagReadsWholeChunks
  BY DEF PipelineInv, InFile, DebagReadsWholeChunks, ReadsWholeChunks
<1> QED BY <1>1, PipelineInvariant, PTL

\* debag.py brings a forward.py that raised back, to the state of its tables
\* and files and to the message that it failed on, unless a chunk was cut at
\* the end of a buffer (topic.py:57-69, debag.py:36-67).
THEOREM ReplayGivesStateBack == Spec => []ReplayRebuildsTables
<1>1. PipelineInv => ReplayRebuildsTables
  <2> SUFFICES ASSUME PipelineInv, forward = "raised", reading = "end" \/ reading = "exited"
               PROVE  /\ reading = "exited"
                      /\ <<debag_peers, debag_dump, debag_obmp, debag_bmp, debag_raw, debag_at>>
                            = topicVars
    BY DEF ReplayRebuildsTables
  <2>1. ForwardTopic /\ DebagTopic /\ InFile /\ PassedOn /\ Ends /\ at = "exited"
    BY DEF PipelineInv, Ends
  <2>2. fileLength = EndOf(obmp_file, Len(obmp_file))
    BY <2>1 DEF Ends
  <2>3. /\ Len(debag_obmp) = chunks /\ chunks \in 0 .. Len(obmp_file)
        /\ \A i \in 1 .. Len(debag_obmp) : debag_obmp[i] = obmp_file[i]
    BY <2>1 DEF PassedOn, InFile
  <2>4. obmp_file \in Seq(ObmpMessages) /\ debag_obmp \in Seq(ObmpMessages)
    BY <2>1 DEF ForwardTopic, DebagTopic, TopicIs
  <2>5. /\ Len(obmp_file) \in 1 .. Len(obmp_file)
        /\ ~Good(obmp_file[Len(obmp_file)])
        /\ \A i \in 1 .. Len(obmp_file) : i < Len(obmp_file) => Good(obmp_file[i])
    BY <2>1, ExitedLast DEF ForwardTopic, TopicIs
  <2>6. Len(debag_obmp) = Len(obmp_file) => debag_obmp = obmp_file
    BY <2>3, <2>4, SeqEqual
  <2>7. reading = "exited"
    <3> SUFFICES ASSUME reading = "end" PROVE FALSE
      OBVIOUS
    <3>1. debag_at = "idle"
      BY <2>1 DEF PassedOn
    <3>2. \A i \in 1 .. Len(debag_obmp) : Good(debag_obmp[i])
      BY <2>1, <3>1 DEF DebagTopic, TopicIs, BetweenMessages
    <3>3. Len(debag_obmp) # Len(obmp_file)
      BY <2>5, <2>6, <3>2
    <3>4. Len(obmp_file) \in chunks + 1 .. Len(obmp_file)
      BY <2>3, <2>4, <3>3
    <3>5. EndOf(obmp_file, Len(obmp_file)) > fileLength
      BY <2>1, <3>4 DEF InFile
    <3>6. fileLength \in Nat
      BY <2>1 DEF InFile
    <3> QED BY <2>2, <3>5, <3>6
  <2>8. debag_at = "exited"
    BY <2>1, <2>7 DEF PassedOn
  <2>9. debag_obmp = obmp_file
    <3>1. Len(debag_obmp) \in 1 .. Len(debag_obmp) /\ ~Good(debag_obmp[Len(debag_obmp)])
      BY <2>1, <2>8, ExitedLast DEF DebagTopic
    <3>2. ~(Len(debag_obmp) < Len(obmp_file))
      BY <2>3, <2>4, <2>5, <3>1
    <3>3. Len(debag_obmp) = Len(obmp_file)
      BY <2>3, <2>4, <3>2
    <3> QED BY <2>6, <3>3
  <2>10. /\ debag_peers = peers /\ debag_dump = dump_file /\ debag_bmp = bmp_file
         /\ debag_raw = raw_bmp_message
    <3>1. /\ TopicIs(peers, dump_file, obmp_file, bmp_file, raw_bmp_message, "exited")
          /\ TopicIs(debag_peers, debag_dump, obmp_file, debag_bmp, debag_raw, "exited")
      BY <2>1, <2>8, <2>9 DEF ForwardTopic, DebagTopic
    <3> QED BY <3>1, ExitedIsDetermined
  <2> QED BY <2>1, <2>7, <2>8, <2>9, <2>10 DEF topicVars
<1> QED BY <1>1, PipelineInvariant, PTL
=============================================================================
