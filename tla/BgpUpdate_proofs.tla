-------------------------- MODULE BgpUpdate_proofs --------------------------
(***************************************************************************)
(* Proofs about BgpUpdate, for every set of UPDATEs that can be encoded,   *)
(* and for each of them wherever it is cut: what the parser finds at an    *)
(* offset is what the router encoded there.                                *)
(***************************************************************************)
EXTENDS BgpUpdate, FiniteSetTheorems, SequenceTheorems, TLAPS

(* Induction, without a parameter for the property: a set of naturals *)

LEMMA LeastNatural ==
    ASSUME NEW A, A \subseteq Nat, A # {}
    PROVE  \E n \in A : \A m \in A : n <= m
<1> DEFINE below == {0 .. i : i \in A}
<1>1. below \subseteq FiniteSubsetsOf(Nat) /\ below # {}
  <2>1. \A i \in A : 0 .. i \in FiniteSubsetsOf(Nat)
    <3> TAKE i \in A
    <3>1. IsFiniteSet(0 .. i)
      BY FS_Interval
    <3> QED BY <3>1 DEF FiniteSubsetsOf
  <2> QED BY <2>1
<1>2. PICK b \in below : \A c \in below : ~(<<c, b>> \in StrictSubsetOrdering(Nat))
  <2> HIDE DEF below
  <2> QED BY <1>1, WFMin, FS_StrictSubsetOrderingWellFounded
<1>3. PICK n \in A : b = 0 .. n
  BY <1>2
<1>4. ASSUME NEW m \in A, m < n
      PROVE  FALSE
  <2>1. 0 .. m \in below /\ 0 .. m \subseteq 0 .. n /\ 0 .. n \subseteq Nat
    BY <1>4
  <2>2. n \in 0 .. n /\ n \notin 0 .. m
    BY <1>4
  <2>3. <<0 .. m, 0 .. n>> \in StrictSubsetOrdering(Nat)
    BY <2>1, <2>2 DEF StrictSubsetOrdering
  <2> QED BY <1>2, <1>3, <2>1, <2>3
<1> QED BY <1>4

LEMMA SetInduction ==
    ASSUME NEW A, 0 \in A, \A n \in Nat : n \in A => n + 1 \in A
    PROVE  \A n \in Nat : n \in A
<1> SUFFICES ASSUME Nat \ A # {} PROVE FALSE
  OBVIOUS
<1>1. PICK n \in Nat \ A : \A m \in Nat \ A : n <= m
  BY LeastNatural
<1>2. n - 1 \in Nat /\ n - 1 \notin Nat \ A
  BY <1>1
<1>3. (n - 1) + 1 \in A
  BY <1>2
<1> QED BY <1>1, <1>3

-----------------------------------------------------------------------------
(* Sequences of octets in a row, and where each of them begins *)

LEMMA OctetConcat ==
    ASSUME NEW a \in Seq(Octet), NEW b \in Seq(Octet)
    PROVE  /\ a \o b \in Seq(Octet) /\ Len(a) \in Nat /\ Len(b) \in Nat
           /\ Len(a \o b) = Len(a) + Len(b)
           /\ \A i \in 1 .. Len(a) : (a \o b)[i] = a[i]
           /\ \A j \in 1 .. Len(b) : (a \o b)[Len(a) + j] = b[j]
<1>1. /\ a \o b \in Seq(Octet) /\ Len(a \o b) = Len(a) + Len(b)
      /\ \A i \in 1 .. Len(a) + Len(b) :
            (a \o b)[i] = IF i <= Len(a) THEN a[i] ELSE b[i - Len(a)]
  BY ConcatProperties
<1>2. Len(a) \in Nat /\ Len(b) \in Nat
  OBVIOUS
<1>3. \A i \in 1 .. Len(a) : (a \o b)[i] = a[i]
  BY <1>1, <1>2
<1>4. ASSUME NEW j \in 1 .. Len(b)
      PROVE  (a \o b)[Len(a) + j] = b[j]
  <2>1. /\ Len(a) + j \in 1 .. Len(a) + Len(b) /\ ~(Len(a) + j <= Len(a))
        /\ Len(a) + j - Len(a) = j
    BY <1>2
  <2> QED BY <1>1, <2>1
<1> QED BY <1>1, <1>2, <1>3, <1>4

LEMMA OctetJoin ==
    ASSUME NEW a \in Seq(Octet), NEW b \in Seq(Octet), NEW c, c = a \o b
    PROVE  /\ c \in Seq(Octet) /\ Len(a) \in Nat /\ Len(b) \in Nat
           /\ Len(c) = Len(a) + Len(b)
           /\ \A i \in 1 .. Len(a) : c[i] = a[i]
           /\ \A j \in 1 .. Len(b) : c[Len(a) + j] = b[j]
BY OctetConcat

Steps(f, s, n) == /\ f \in [0 .. n -> Seq(Octet)] /\ f[0] = << >>
                  /\ \A i \in 1 .. n : f[i] = f[i - 1] \o s[i]
Joined(s) == CHOOSE f : Steps(f, s, Len(s))
Begin(s, k) == Len(Joined(s)[k])

LEMMA StepsExist ==
    ASSUME NEW s \in Seq(Seq(Octet))
    PROVE  \E f : Steps(f, s, Len(s))
<1> DEFINE A == {k \in Nat : k <= Len(s) => \E f : Steps(f, s, k)}
<1>1. 0 \in A
  <2>1. Steps([i \in 0 .. 0 |-> << >>], s, 0)
    BY DEF Steps
  <2> QED BY <2>1
<1>2. ASSUME NEW k \in Nat, k \in A
      PROVE  k + 1 \in A
  <2> SUFFICES ASSUME k + 1 <= Len(s) PROVE \E f : Steps(f, s, k + 1)
    OBVIOUS
  <2>1. PICK f : Steps(f, s, k)
    BY <1>2
  <2>2. /\ f \in [0 .. k -> Seq(Octet)] /\ f[0] = << >>
        /\ \A i \in 1 .. k : f[i] = f[i - 1] \o s[i]
    BY <2>1 DEF Steps
  <2>3. f[k] \in Seq(Octet) /\ s[k + 1] \in Seq(Octet)
    BY <2>2
  <2>4. f[k] \o s[k + 1] \in Seq(Octet)
    BY <2>3, ConcatProperties
  <2> DEFINE last == f[k] \o s[k + 1]
             g == [i \in 0 .. k + 1 |-> IF i = k + 1 THEN last ELSE f[i]]
  <2> HIDE DEF last
  <2>5. last \in Seq(Octet)
    BY <2>4 DEF last
  <2>6. g \in [0 .. k + 1 -> Seq(Octet)] /\ g[0] = << >>
    BY <2>2, <2>5
  <2>7. ASSUME NEW i \in 1 .. k + 1
        PROVE  g[i] = g[i - 1] \o s[i]
    <3>1. i - 1 \in 0 .. k + 1 /\ i - 1 # k + 1 /\ g[i - 1] = f[i - 1]
      OBVIOUS
    <3>2. CASE i = k + 1
      <4>1. g[i] = last /\ i - 1 = k
        BY <3>2
      <4> HIDE DEF g
      <4> QED BY <3>1, <3>2, <4>1 DEF last
    <3>3. CASE i # k + 1
      <4>1. i \in 1 .. k /\ g[i] = f[i]
        BY <3>3
      <4> HIDE DEF g
      <4> QED BY <2>2, <3>1, <4>1
    <3> QED BY <3>2, <3>3
  <2> HIDE DEF g
  <2>8. Steps(g, s, k + 1)
    BY <2>6, <2>7 DEF Steps
  <2> QED BY <2>8
<1>3. Len(s) \in A
  <2> HIDE DEF A
  <2> QED BY <1>1, <1>2, SetInduction
<1> QED BY <1>3

LEMMA JoinedSteps ==
    ASSUME NEW s \in Seq(Seq(Octet))
    PROVE  Steps(Joined(s), s, Len(s))
BY StepsExist DEF Joined

LEMMA JoinedAll ==
    ASSUME NEW s \in Seq(Seq(Octet))
    PROVE  FlattenSeq(s) = Joined(s)[Len(s)]
<1> DEFINE n == Len(s)
           f == Joined(s)
<1>0. Steps(f, s, n) /\ n \in Nat
  BY JoinedSteps
<1>1. /\ n \in Nat /\ f \in [0 .. n -> Seq(Octet)] /\ f[0] = << >>
      /\ \A i \in 1 .. n : f[i] = f[i - 1] \o s[i]
  <2> HIDE DEF f, n
  <2> QED BY <1>0 DEF Steps
<1> HIDE DEF f
<1>2. CASE n = 0
  <2>1. s = << >>
    BY <1>2
  <2> QED BY <1>1, <1>2, <2>1 DEF FlattenSeq, f
<1>3. CASE n # 0
  <2> DEFINE Flattens(g) == g = [i \in 1 .. n |-> IF i = 1 THEN s[i] ELSE g[i - 1] \o s[i]]
             h == [i \in 1 .. n |-> f[i]]
             flatten == CHOOSE g : Flattens(g)
  <2>0. f[1] = s[1]
    <3>1. 1 \in 1 .. n /\ 1 - 1 = 0 /\ s[1] \in Seq(Octet)
      BY <1>1, <1>3
    <3>2. f[1] = << >> \o s[1]
      BY <1>1, <3>1
    <3> QED BY <3>1, <3>2, ConcatEmptySeq
  <2>1. Flattens(h)
    <3>1. ASSUME NEW i \in 1 .. n
          PROVE  h[i] = IF i = 1 THEN s[i] ELSE h[i - 1] \o s[i]
      <4>1. CASE i = 1
        BY <2>0, <4>1
      <4>2. CASE i # 1
        <5>1. i - 1 \in 1 .. n
          BY <4>2
        <5> QED BY <1>1, <4>2, <5>1
      <4> QED BY <4>1, <4>2
    <3> QED BY <3>1
  <2>2. Flattens(flatten)
    <3> HIDE DEF Flattens, h
    <3> QED BY <2>1
  <2>3. FlattenSeq(s) = flatten[n]
    BY <1>3 DEF FlattenSeq
  <2> HIDE DEF flatten
  <2>4. \A i \in 1 .. n : flatten[i] = IF i = 1 THEN s[i] ELSE flatten[i - 1] \o s[i]
    BY <2>2
  <2> DEFINE A == {k \in Nat : k + 1 \in 1 .. n => flatten[k + 1] = f[k + 1]}
  <2>5. 0 \in A
    <3>1. 1 \in 1 .. n
      BY <1>1, <1>3
    <3> QED BY <2>0, <2>4, <3>1
  <2>6. ASSUME NEW k \in Nat, k \in A
        PROVE  k + 1 \in A
    <3> SUFFICES ASSUME k + 2 \in 1 .. n PROVE flatten[k + 2] = f[k + 2]
      <4>1. (k + 1) + 1 = k + 2
        OBVIOUS
      <4> HIDE DEF n
      <4> QED BY <4>1
    <3>1. k + 1 \in 1 .. n /\ (k + 2) - 1 = k + 1 /\ k + 2 # 1
      BY <1>1
    <3>2. flatten[k + 1] = f[k + 1]
      BY <2>6, <3>1
    <3>3. flatten[k + 2] = flatten[(k + 2) - 1] \o s[k + 2]
      BY <2>4, <3>1
    <3>4. f[k + 2] = f[(k + 2) - 1] \o s[k + 2]
      BY <1>1
    <3> QED BY <3>1, <3>2, <3>3, <3>4
  <2>7. n - 1 \in A
    <3>1. n - 1 \in Nat
      BY <1>1, <1>3
    <3> HIDE DEF A
    <3> QED BY <2>5, <2>6, <3>1, SetInduction
  <2> QED BY <1>1, <1>3, <2>3, <2>7 DEF f
<1> QED BY <1>2, <1>3

\* What comes first stays where it is when more is joined to it.
LEMMA JoinedGrows ==
    ASSUME NEW s \in Seq(Seq(Octet)), NEW k \in 0 .. Len(s), NEW d \in Nat, k + d <= Len(s)
    PROVE  /\ Begin(s, k) \in Nat /\ Begin(s, k + d) \in Nat
           /\ Begin(s, k) <= Begin(s, k + d)
           /\ \A i \in 1 .. Begin(s, k) : Joined(s)[k + d][i] = Joined(s)[k][i]
<1> DEFINE f == Joined(s)
           Grows(m) == /\ Len(f[k]) <= Len(f[m])
                       /\ \A i \in 1 .. Len(f[k]) : f[m][i] = f[k][i]
           A == {e \in Nat : k + e <= Len(s) => Grows(k + e)}
<1>1. /\ f \in [0 .. Len(s) -> Seq(Octet)] /\ f[0] = << >>
      /\ \A i \in 1 .. Len(s) : f[i] = f[i - 1] \o s[i]
  BY JoinedSteps DEF Steps
<1> HIDE DEF f
<1>2. \A m \in 0 .. Len(s) : f[m] \in Seq(Octet) /\ Len(f[m]) \in Nat
  <2> TAKE m \in 0 .. Len(s)
  <2>1. f[m] \in Seq(Octet)
    BY <1>1
  <2> QED BY <2>1, LenProperties
<1>3. 0 \in A
  <2>1. k + 0 = k /\ Len(f[k]) \in Nat
    BY <1>2
  <2> QED BY <2>1
<1>4. ASSUME NEW e \in Nat, e \in A
      PROVE  e + 1 \in A
  <2> DEFINE m == k + e
  <2> SUFFICES ASSUME m + 1 <= Len(s) PROVE Grows(m + 1)
    <3>1. k + (e + 1) = m + 1
      OBVIOUS
    <3> HIDE DEF m, Grows
    <3> QED BY <3>1
  <2>1. m \in 0 .. Len(s) /\ m + 1 \in 1 .. Len(s) /\ (m + 1) - 1 = m /\ Grows(m)
    BY <1>4
  <2> HIDE DEF m
  <2>2. f[m + 1] = f[m] \o s[m + 1]
    BY <1>1, <2>1
  <2>3. f[m] \in Seq(Octet) /\ s[m + 1] \in Seq(Octet) /\ Len(f[k]) \in Nat
    BY <1>2, <2>1
  <2>4. /\ Len(f[m + 1]) = Len(f[m]) + Len(s[m + 1])
        /\ \A i \in 1 .. Len(f[m]) : f[m + 1][i] = f[m][i]
    <3> DEFINE a == f[m]
               b == s[m + 1]
    <3>1. a \in Seq(Octet) /\ b \in Seq(Octet) /\ f[m + 1] = a \o b
      BY <2>2, <2>3
    <3> HIDE DEF a, b
    <3>2. /\ Len(a \o b) = Len(a) + Len(b)
          /\ \A i \in 1 .. Len(a) : (a \o b)[i] = a[i]
      BY <3>1, OctetConcat
    <3>3. /\ Len(f[m + 1]) = Len(a) + Len(b)
          /\ \A i \in 1 .. Len(a) : f[m + 1][i] = a[i]
      BY <3>1, <3>2
    <3> QED BY <3>3 DEF a, b
  <2>5. Len(f[m]) \in Nat /\ Len(s[m + 1]) \in Nat
    BY <2>3, LenProperties
  <2>6. Len(f[k]) <= Len(f[m + 1])
    <3> DEFINE x == Len(f[m])
               y == Len(s[m + 1])
               z == Len(f[k])
    <3>1. /\ x \in Nat /\ y \in Nat /\ z \in Nat
          /\ z <= x /\ Len(f[m + 1]) = x + y
      BY <2>1, <2>3, <2>4, <2>5
    <3> HIDE DEF x, y, z
    <3>2. z <= x + y
      BY <3>1
    <3> QED BY <3>1, <3>2 DEF z
  <2>7. ASSUME NEW i \in 1 .. Len(f[k]) PROVE f[m + 1][i] = f[k][i]
    <3>1. i \in 1 .. Len(f[m]) /\ f[m][i] = f[k][i]
      BY <2>1, <2>3, <2>5
    <3> QED BY <2>4, <3>1
  <2> QED BY <2>6, <2>7
<1>5. d \in A
  <2> HIDE DEF A
  <2> QED BY <1>3, <1>4, SetInduction
<1>6. k + d \in 0 .. Len(s)
  OBVIOUS
<1> QED BY <1>2, <1>5, <1>6 DEF Begin, f

\* Each sequence lies behind those before it.
LEMMA Places ==
    ASSUME NEW s \in Seq(Seq(Octet))
    PROVE  /\ FlattenSeq(s) \in Seq(Octet)
           /\ Begin(s, 0) = 0 /\ Begin(s, Len(s)) = Len(FlattenSeq(s))
           /\ \A k \in 0 .. Len(s) : Begin(s, k) \in 0 .. Len(FlattenSeq(s))
           /\ \A k \in 0 .. Len(s) - 1 :
                 /\ Begin(s, k + 1) = Begin(s, k) + Len(s[k + 1])
                 /\ Begin(s, k + 1) <= Len(FlattenSeq(s))
                 /\ \A j \in 1 .. Len(s[k + 1]) :
                        FlattenSeq(s)[Begin(s, k) + j] = s[k + 1][j]
<1> DEFINE f == Joined(s)
           n == Len(s)
<1>0. Steps(f, s, n) /\ n \in Nat
  BY JoinedSteps
<1>1. /\ n \in Nat /\ f \in [0 .. n -> Seq(Octet)] /\ f[0] = << >>
      /\ \A i \in 1 .. n : f[i] = f[i - 1] \o s[i]
  <2> HIDE DEF f, n
  <2> QED BY <1>0 DEF Steps
<1>2. FlattenSeq(s) = f[n]
  BY JoinedAll
<1>3. \A k \in 0 .. n : /\ Begin(s, k) \in Nat /\ Begin(s, k) <= Begin(s, n)
                        /\ \A i \in 1 .. Begin(s, k) : f[n][i] = f[k][i]
  <2> TAKE k \in 0 .. n
  <2> DEFINE d == n - k
  <2>1. d \in Nat /\ k + d = n /\ k + d <= Len(s)
    BY <1>1
  <2> HIDE DEF d, f
  <2>2. /\ Begin(s, k) \in Nat /\ Begin(s, k) <= Begin(s, k + d)
        /\ \A i \in 1 .. Begin(s, k) : Joined(s)[k + d][i] = Joined(s)[k][i]
    BY <2>1, JoinedGrows
  <2> QED BY <2>1, <2>2 DEF f
<1>4. \A k \in 0 .. n : f[k] \in Seq(Octet)
  BY <1>1
<1>5. \A k \in 0 .. n : Begin(s, k) = Len(f[k])
  BY DEF Begin
<1> HIDE DEF f
<1>6. ASSUME NEW k \in 0 .. n - 1
      PROVE  /\ Begin(s, k + 1) = Begin(s, k) + Len(s[k + 1])
             /\ Begin(s, k + 1) <= Len(FlattenSeq(s))
             /\ \A j \in 1 .. Len(s[k + 1]) : f[n][Begin(s, k) + j] = s[k + 1][j]
  <2>1. k \in 0 .. n /\ k + 1 \in 1 .. n /\ k + 1 \in 0 .. n /\ (k + 1) - 1 = k /\ n \in 0 .. n
    BY <1>1
  <2>2. f[k + 1] = f[k] \o s[k + 1]
    BY <1>1, <2>1
  <2>a. f[k] \in Seq(Octet) /\ s[k + 1] \in Seq(Octet)
    BY <1>4, <2>1
  <2>3. /\ Len(f[k + 1]) = Len(f[k]) + Len(s[k + 1])
        /\ Len(f[k]) \in Nat /\ Len(s[k + 1]) \in Nat
        /\ \A j \in 1 .. Len(s[k + 1]) : f[k + 1][Len(f[k]) + j] = s[k + 1][j]
    <3> DEFINE a == f[k]
               b == s[k + 1]
    <3>1. a \in Seq(Octet) /\ b \in Seq(Octet) /\ f[k + 1] = a \o b
      BY <2>2, <2>a
    <3> HIDE DEF a, b
    <3>2. /\ Len(a \o b) = Len(a) + Len(b) /\ Len(a) \in Nat /\ Len(b) \in Nat
          /\ \A j \in 1 .. Len(b) : (a \o b)[Len(a) + j] = b[j]
      BY <3>1, OctetConcat
    <3>3. /\ Len(f[k + 1]) = Len(a) + Len(b) /\ Len(a) \in Nat /\ Len(b) \in Nat
          /\ \A j \in 1 .. Len(b) : f[k + 1][Len(a) + j] = b[j]
      BY <3>1, <3>2
    <3> QED BY <3>3 DEF a, b
  <2>4. Begin(s, k + 1) = Begin(s, k) + Len(s[k + 1])
    BY <1>5, <2>1, <2>3
  <2>5. Begin(s, k + 1) <= Len(FlattenSeq(s))
    BY <1>2, <1>3, <1>5, <2>1
  <2>6. ASSUME NEW j \in 1 .. Len(s[k + 1])
        PROVE  f[n][Begin(s, k) + j] = s[k + 1][j]
    <3>1. Begin(s, k) = Len(f[k]) /\ Begin(s, k + 1) = Len(f[k]) + Len(s[k + 1])
      BY <1>5, <2>1, <2>3
    <3>2. Begin(s, k) + j \in 1 .. Begin(s, k + 1)
      <4> DEFINE x == Len(f[k])
                 y == Len(s[k + 1])
      <4>1. x \in Nat /\ y \in Nat /\ j \in 1 .. y
        BY <2>3
      <4>2. Begin(s, k) = x /\ Begin(s, k + 1) = x + y
        BY <3>1
      <4> HIDE DEF x, y
      <4> QED BY <4>1, <4>2
    <3>3. f[n][Begin(s, k) + j] = f[k + 1][Begin(s, k) + j]
      BY <1>3, <2>1, <3>2
    <3> QED BY <2>3, <3>1, <3>3
  <2> QED BY <2>4, <2>5, <2>6
<1>7. n \in 0 .. n /\ 0 \in 0 .. n /\ Len(<< >>) = 0
  BY <1>1
<1> QED BY <1>1, <1>2, <1>3, <1>4, <1>5, <1>6, <1>7
-----------------------------------------------------------------------------
(* What is encoded *)

SentPrefix == [length : 0 .. 32, address : [1 .. 4 -> Octet]]
SentAttribute == [flags : Octet, code : Octet, value : Seq(Octet)]
QuantumOf(a) == IF Long(a.flags) THEN 4 ELSE 3

PrefixItems(s) == [i \in DOMAIN s |-> EncodePrefix(s[i])]
AttributeItems(s) == [i \in DOMAIN s |-> EncodeAttribute(s[i])]

LEMMA WordIsRead ==
    ASSUME NEW n \in Nat, n <= 65535
    PROVE  /\ WordBytes(n) \in Seq(Octet) /\ Len(WordBytes(n)) = 2
           /\ 256 * WordBytes(n)[1] + WordBytes(n)[2] = n
<1>1. PICK x, y : x = n \div 256 /\ y = n % 256
  OBVIOUS
<1>2. x \in Int /\ y \in 0 .. 255 /\ n = 256 * x + y
  BY <1>1
<1>3. x \in 0 .. 255
  <2>1. n \in Int /\ 0 <= n
    OBVIOUS
  <2>2. y \in Int /\ 0 <= y /\ y <= 255
    BY <1>2
  <2>3. x < 256
    BY <1>2, <2>2
  <2>4. 0 <= x
    BY <1>2, <2>1, <2>2
  <2> QED BY <1>2, <2>3, <2>4
<1> DEFINE w == WordBytes(n)
<1>4. w = <<x, y>>
  BY <1>1 DEF WordBytes
<1> HIDE DEF w
<1>5. w \in Seq(Octet) /\ Len(w) = 2 /\ w[1] = x /\ w[2] = y
  BY <1>2, <1>3, <1>4 DEF Octet
<1>6. 256 * w[1] + w[2] = n
  BY <1>2, <1>5
<1> QED BY <1>5, <1>6 DEF w

LEMMA EncodedPrefix ==
    ASSUME NEW p \in SentPrefix, p.address \in Address(p.length)
    PROVE  LET b == ByteLength(p.length)
               e == EncodePrefix(p)
           IN /\ b \in 0 .. 4
              /\ e \in Seq(Octet) /\ Len(e) = b + 1 /\ e[1] = p.length
              /\ \A i \in 1 .. b : e[i + 1] = p.address[i]
              /\ \A i \in 1 .. 4 : ~(i <= b) => p.address[i] = 0
<1> DEFINE n == p.length
           b == ByteLength(n)
           e == EncodePrefix(p)
           rest == SubSeq(p.address, 1, b)
<1>1. n \in 0 .. 32 /\ p.address \in [1 .. 4 -> Octet]
  BY DEF SentPrefix
<1> HIDE DEF n
<1>2. b \in 0 .. 4 /\ b = (n + 7) \div 8
  BY <1>1 DEF ByteLength
<1>3. \A i \in 1 .. 4 : ~(i <= b) => n <= 8 * (i - 1)
  BY <1>1, <1>2
<1> HIDE DEF b
<1>4. /\ rest \in Seq(Octet) /\ Len(rest) = b
      /\ \A i \in 1 .. b : rest[i] = p.address[i]
  <2>1. \A i \in 1 .. b : p.address[i] \in Octet
    BY <1>1, <1>2
  <2>2. /\ rest \in Seq(Octet) /\ Len(rest) = IF 1 <= b THEN b - 1 + 1 ELSE 0
        /\ \A i \in 1 .. b - 1 + 1 : rest[i] = p.address[1 + i - 1]
    BY <1>2, <2>1, SubSeqProperties
  <2>3. b - 1 + 1 = b /\ \A i \in 1 .. b : 1 + i - 1 = i
    BY <1>2
  <2> HIDE DEF rest
  <2> QED BY <1>2, <2>2, <2>3
<1>5. e = <<n>> \o rest
  BY <1>2 DEF EncodePrefix, n
<1> HIDE DEF rest, e
<1>6. <<n>> \in Seq(Octet) /\ Len(<<n>>) = 1 /\ <<n>>[1] = n
  BY <1>1 DEF Octet
<1>7. /\ e \in Seq(Octet) /\ Len(e) = 1 + b /\ e[1] = n
      /\ \A i \in 1 .. b : e[1 + i] = rest[i]
  <2> DEFINE h == <<n>>
  <2>1. h \in Seq(Octet) /\ Len(h) = 1 /\ h[1] = n /\ e = h \o rest
    BY <1>5, <1>6
  <2> HIDE DEF h
  <2>2. /\ h \o rest \in Seq(Octet) /\ Len(h \o rest) = Len(h) + Len(rest)
        /\ \A i \in 1 .. Len(h) : (h \o rest)[i] = h[i]
        /\ \A j \in 1 .. Len(rest) : (h \o rest)[Len(h) + j] = rest[j]
    BY <1>4, <2>1, OctetConcat
  <2> QED BY <1>4, <2>1, <2>2
<1>8. \A i \in 1 .. 4 : ~(i <= b) => p.address[i] = 0
  BY <1>3 DEF Address, n
<1> QED BY <1>2, <1>4, <1>7, <1>8 DEF b, e, n

\* e is what attribute a is encoded as, octet by octet.
EncodesAttribute(e, a) ==
    LET q == QuantumOf(a)
    IN /\ q \in {3, 4} /\ Len(a.value) \in Nat
       /\ e \in Seq(Octet) /\ Len(e) = q + Len(a.value)
       /\ e[1] = a.flags /\ e[2] = a.code
       /\ IF Long(a.flags) THEN 256 * e[3] + e[4] = Len(a.value)
          ELSE e[3] = Len(a.value)
       /\ \A i \in 1 .. Len(a.value) : e[q + i] = a.value[i]

LEMMA EncodedAttribute ==
    ASSUME NEW a \in SentAttribute,
           Len(a.value) <= IF Long(a.flags) THEN 65535 ELSE 255
    PROVE  EncodesAttribute(EncodeAttribute(a), a)
<1> DEFINE e == EncodeAttribute(a)
           q == QuantumOf(a)
           n == Len(a.value)
           two == <<a.flags, a.code>>
           len == IF Long(a.flags) THEN WordBytes(n) ELSE <<n>>
           head == two \o len
           v == a.value
<1> DEFINE most == IF Long(a.flags) THEN 65535 ELSE 255
<1>0. n <= most
  OBVIOUS
<1>1. /\ v \in Seq(Octet) /\ n = Len(v) /\ n \in Nat
      /\ two \in Seq(Octet) /\ Len(two) = 2 /\ two[1] = a.flags /\ two[2] = a.code
  BY DEF SentAttribute
<1>2. /\ len \in Seq(Octet) /\ Len(len) = q - 2 /\ q \in {3, 4}
      /\ IF Long(a.flags) THEN q = 4 /\ 256 * len[1] + len[2] = n
         ELSE q = 3 /\ len[1] = n
  <2>1. CASE Long(a.flags)
    <3> HIDE DEF n, v, most
    <3>1. most = 65535
      BY <2>1 DEF most
    <3>2. n \in Nat /\ n <= 65535
      BY <1>0, <1>1, <3>1
    <3>3. len = WordBytes(n) /\ q = 4
      BY <2>1 DEF QuantumOf
    <3> HIDE DEF len, q
    <3>4. len \in Seq(Octet) /\ Len(len) = 2 /\ 256 * len[1] + len[2] = n
      BY <3>2, <3>3, WordIsRead
    <3> QED BY <2>1, <3>3, <3>4
  <2>2. CASE ~Long(a.flags)
    <3> HIDE DEF n, v, most
    <3>1. most = 255
      BY <2>2 DEF most
    <3>a. n \in Nat /\ n <= 255
      BY <1>0, <1>1, <3>1
    <3>2. n \in Octet
      BY <3>a DEF Octet
    <3>3. len = <<n>> /\ q = 3
      BY <2>2 DEF QuantumOf
    <3> HIDE DEF len, q
    <3>4. len \in Seq(Octet) /\ Len(len) = 1 /\ len[1] = n
      BY <3>2, <3>3
    <3> QED BY <2>2, <3>3, <3>4
  <2> QED BY <2>1, <2>2
<1>3. e = head \o v
  BY DEF EncodeAttribute
<1> HIDE DEF two, len, e, q, n, v
<1>4. /\ head \in Seq(Octet) /\ Len(head) = q
      /\ head[1] = a.flags /\ head[2] = a.code
      /\ \A j \in 1 .. q - 2 : head[2 + j] = len[j]
  <2>0. head = two \o len
    OBVIOUS
  <2> HIDE DEF head
  <2>a. two \in Seq(Octet) /\ len \in Seq(Octet)
    BY <1>1, <1>2
  <2>1. /\ head \in Seq(Octet) /\ Len(head) = Len(two) + Len(len)
        /\ \A i \in 1 .. Len(two) : head[i] = two[i]
        /\ \A j \in 1 .. Len(len) : head[Len(two) + j] = len[j]
    BY <2>0, <2>a, OctetJoin
  <2> QED BY <1>1, <1>2, <2>1
<1> HIDE DEF head
<1>5. /\ e \in Seq(Octet) /\ Len(e) = Len(head) + Len(v)
      /\ \A i \in 1 .. Len(head) : e[i] = head[i]
      /\ \A j \in 1 .. Len(v) : e[Len(head) + j] = v[j]
  <2>1. head \in Seq(Octet) /\ v \in Seq(Octet)
    BY <1>1, <1>4
  <2> QED BY <1>3, <2>1, OctetJoin
<1>6. e[1] = a.flags /\ e[2] = a.code
  BY <1>2, <1>4, <1>5
<1>7. Len(e) = q + n /\ \A i \in 1 .. n : e[q + i] = v[i]
  BY <1>1, <1>4, <1>5
<1>8. /\ 1 \in 1 .. q - 2 /\ 3 \in 1 .. q /\ 2 + 1 = 3 /\ 2 + 2 = 4
      /\ q = 4 => 4 \in 1 .. q /\ 2 \in 1 .. q - 2
  BY <1>2
<1>9. e[3] = len[1] /\ (q = 4 => e[4] = len[2])
  BY <1>4, <1>5, <1>8
<1>10. CASE Long(a.flags)
  <2>1. 256 * e[3] + e[4] = n
    BY <1>2, <1>9, <1>10
  <2> QED BY <1>1, <1>2, <1>5, <1>6, <1>7, <1>10, <2>1 DEF e, q, n, v, EncodesAttribute
<1>11. CASE ~Long(a.flags)
  <2>1. e[3] = n
    BY <1>2, <1>9, <1>11
  <2> QED BY <1>1, <1>2, <1>5, <1>6, <1>7, <1>11, <2>1 DEF e, q, n, v, EncodesAttribute
<1> QED BY <1>10, <1>11

LEMMA SliceIs ==
    ASSUME NEW b \in Seq(Octet), NEW from \in Nat, NEW to \in Nat
    PROVE  LET m == IF to < Len(b) THEN to ELSE Len(b)
               part == Slice(b, from, to)
           IN /\ part \in Seq(Octet)
              /\ Len(part) = IF from < m THEN m - from ELSE 0
              /\ \A i \in 1 .. Len(part) : part[i] = b[from + i]
<1> DEFINE m == IF to < Len(b) THEN to ELSE Len(b)
           part == Slice(b, from, to)
<1>1. Len(b) \in Nat /\ m \in Nat /\ m <= Len(b)
  OBVIOUS
<1>2. part = SubSeq(b, from + 1, m)
  BY DEF Slice
<1> HIDE DEF m, part
<1>3. \A i \in from + 1 .. m : b[i] \in Octet
  BY <1>1
<1>4. /\ part \in Seq(Octet)
      /\ Len(part) = IF from + 1 <= m THEN m - (from + 1) + 1 ELSE 0
      /\ \A i \in 1 .. m - (from + 1) + 1 : part[i] = b[(from + 1) + i - 1]
  <2>1. from + 1 \in Int /\ m \in Int
    BY <1>1
  <2> QED BY <1>2, <1>3, <2>1, SubSeqProperties
<1>5. Len(part) = IF from < m THEN m - from ELSE 0
  BY <1>1, <1>4
<1>6. ASSUME NEW i \in 1 .. Len(part) PROVE part[i] = b[from + i]
  <2>1. i \in 1 .. m - (from + 1) + 1 /\ (from + 1) + i - 1 = from + i
    BY <1>1, <1>5
  <2> QED BY <1>4, <2>1
<1> QED BY <1>4, <1>5, <1>6 DEF m, part

\* Two lengths of two octets each, what they are the lengths of, and the rest.
IsPair(s) == s \in Seq(Octet) /\ Len(s) = 2
InARow(a, b, c, d, e, ab, abc, abcd, z) ==
    /\ IsPair(a) /\ IsPair(c)
    /\ b \in Seq(Octet) /\ d \in Seq(Octet) /\ e \in Seq(Octet)
    /\ ab = a \o b /\ abc = ab \o c /\ abcd = abc \o d /\ z = abcd \o e
RowIs(a, b, c, d, e, z) ==
    /\ z \in Seq(Octet)
    /\ Len(z) = 4 + Len(b) + Len(d) + Len(e)
    /\ z[1] = a[1] /\ z[2] = a[2]
    /\ z[Len(b) + 3] = c[1] /\ z[Len(b) + 4] = c[2]
    /\ \A i \in 1 .. Len(b) : z[2 + i] = b[i]
    /\ \A i \in 1 .. Len(d) : z[4 + Len(b) + i] = d[i]
    /\ \A i \in 1 .. Len(e) : z[4 + Len(b) + Len(d) + i] = e[i]

LEMMA FiveInARow ==
    ASSUME NEW a, NEW b, NEW c, NEW d, NEW e, NEW ab, NEW abc, NEW abcd, NEW z,
           InARow(a, b, c, d, e, ab, abc, abcd, z)
    PROVE  RowIs(a, b, c, d, e, z)
<1> DEFINE lb == Len(b)
           ld == Len(d)
           le == Len(e)
<1>a. /\ a \in Seq(Octet) /\ b \in Seq(Octet) /\ c \in Seq(Octet)
      /\ d \in Seq(Octet) /\ e \in Seq(Octet)
  BY DEF InARow, IsPair
<1>b. ab = a \o b /\ abc = ab \o c /\ abcd = abc \o d /\ z = abcd \o e
  BY DEF InARow
<1>0. lb \in Nat /\ ld \in Nat /\ le \in Nat
  BY <1>a
<1> HIDE DEF lb, ld, le
<1>2. /\ ab \in Seq(Octet) /\ Len(ab) = Len(a) + Len(b)
      /\ \A i \in 1 .. Len(a) : ab[i] = a[i]
      /\ \A j \in 1 .. Len(b) : ab[Len(a) + j] = b[j]
  BY <1>a, <1>b, OctetJoin
<1>3. /\ abc \in Seq(Octet) /\ Len(abc) = Len(ab) + Len(c)
      /\ \A i \in 1 .. Len(ab) : abc[i] = ab[i]
      /\ \A j \in 1 .. Len(c) : abc[Len(ab) + j] = c[j]
  BY <1>a, <1>b, <1>2, OctetJoin
<1>4. /\ abcd \in Seq(Octet) /\ Len(abcd) = Len(abc) + Len(d)
      /\ \A i \in 1 .. Len(abc) : abcd[i] = abc[i]
      /\ \A j \in 1 .. Len(d) : abcd[Len(abc) + j] = d[j]
  BY <1>a, <1>b, <1>3, OctetJoin
<1>5. /\ z \in Seq(Octet) /\ Len(z) = Len(abcd) + Len(e)
      /\ \A i \in 1 .. Len(abcd) : z[i] = abcd[i]
      /\ \A j \in 1 .. Len(e) : z[Len(abcd) + j] = e[j]
  BY <1>a, <1>b, <1>4, OctetJoin
<1>6. Len(a) = 2 /\ Len(b) = lb /\ Len(c) = 2 /\ Len(d) = ld /\ Len(e) = le
  BY DEF lb, ld, le, InARow, IsPair
<1>7. /\ Len(ab) = 2 + lb /\ Len(abc) = 4 + lb /\ Len(abcd) = 4 + lb + ld
      /\ Len(z) = 4 + lb + ld + le
  BY <1>0, <1>2, <1>3, <1>4, <1>5, <1>6
<1>8. \A i \in 1 .. 2 : z[i] = a[i]
  <2> TAKE i \in 1 .. 2
  <2>1. i \in 1 .. Len(a) /\ i \in 1 .. Len(ab) /\ i \in 1 .. Len(abc) /\ i \in 1 .. Len(abcd)
    BY <1>0, <1>6, <1>7
  <2> QED BY <1>2, <1>3, <1>4, <1>5, <2>1
<1>9. \A i \in 1 .. lb : z[2 + i] = b[i]
  <2> TAKE i \in 1 .. lb
  <2>1. 2 + i \in 1 .. Len(ab) /\ 2 + i \in 1 .. Len(abc) /\ 2 + i \in 1 .. Len(abcd)
    BY <1>0, <1>7
  <2>2. ab[2 + i] = b[i]
    BY <1>2, <1>6
  <2> QED BY <1>3, <1>4, <1>5, <2>1, <2>2
<1>10. \A i \in 1 .. 2 : z[2 + lb + i] = c[i]
  <2> TAKE i \in 1 .. 2
  <2>1. 2 + lb + i \in 1 .. Len(abc) /\ 2 + lb + i \in 1 .. Len(abcd)
    BY <1>0, <1>7
  <2>2. abc[2 + lb + i] = c[i]
    BY <1>3, <1>6, <1>7
  <2> QED BY <1>4, <1>5, <2>1, <2>2
<1>11. \A i \in 1 .. ld : z[4 + lb + i] = d[i]
  <2> TAKE i \in 1 .. ld
  <2>1. 4 + lb + i \in 1 .. Len(abcd)
    BY <1>0, <1>7
  <2>2. abcd[4 + lb + i] = d[i]
    BY <1>4, <1>6, <1>7
  <2> QED BY <1>5, <2>1, <2>2
<1>12. \A i \in 1 .. le : z[4 + lb + ld + i] = e[i]
  BY <1>5, <1>6, <1>7
<1>13. z[lb + 3] = c[1] /\ z[lb + 4] = c[2]
  <2>1. lb + 3 = 2 + lb + 1 /\ lb + 4 = 2 + lb + 2 /\ 1 \in 1 .. 2 /\ 2 \in 1 .. 2
    BY <1>0
  <2> QED BY <1>10, <2>1
<1>14. z[1] = a[1] /\ z[2] = a[2]
  <2>1. 1 \in 1 .. 2 /\ 2 \in 1 .. 2
    OBVIOUS
  <2> QED BY <1>8, <2>1
<1> QED BY <1>5, <1>6, <1>7, <1>9, <1>11, <1>12, <1>13, <1>14 DEF RowIs

ArePrefixes(s) == s \in Seq(SentPrefix) /\ \A i \in DOMAIN s : s[i].address \in Address(s[i].length)
PrefixAt(s, k) == Begin(PrefixItems(s), k)

\* The octets behind the k-th prefix are those of the next one.
PrefixStands(s, k) ==
    LET p == s[k + 1]
        b == ByteLength(p.length)
        at == PrefixAt(s, k)
        enc == EncodePrefixes(s)
    IN /\ b \in 0 .. 4 /\ p \in SentPrefix
       /\ PrefixAt(s, k + 1) = at + (b + 1)
       /\ PrefixAt(s, k + 1) <= Len(enc)
       /\ enc[at + 1] = p.length
       /\ \A i \in 1 .. b : enc[at + (i + 1)] = p.address[i]
       /\ \A i \in 1 .. 4 : ~(i <= b) => p.address[i] = 0

LEMMA PrefixPlaces ==
    ASSUME NEW s, ArePrefixes(s)
    PROVE  /\ s \in Seq(SentPrefix) /\ Len(s) \in Nat
           /\ EncodePrefixes(s) \in Seq(Octet)
           /\ PrefixAt(s, 0) = 0 /\ PrefixAt(s, Len(s)) = Len(EncodePrefixes(s))
           /\ \A k \in 0 .. Len(s) : PrefixAt(s, k) \in 0 .. Len(EncodePrefixes(s))
           /\ \A k \in 0 .. Len(s) - 1 : PrefixStands(s, k)
<1> DEFINE items == PrefixItems(s)
           enc == EncodePrefixes(s)
<1>1. s \in Seq(SentPrefix) /\ Len(s) \in Nat /\ DOMAIN s = 1 .. Len(s)
  BY DEF ArePrefixes
<1>2. ASSUME NEW k \in 1 .. Len(s)
      PROVE  LET b == ByteLength(s[k].length)
             IN /\ items[k] \in Seq(Octet) /\ items[k] = EncodePrefix(s[k])
                /\ b \in 0 .. 4 /\ s[k] \in SentPrefix
                /\ Len(items[k]) = b + 1 /\ items[k][1] = s[k].length
                /\ \A i \in 1 .. b : items[k][i + 1] = s[k].address[i]
                /\ \A i \in 1 .. 4 : ~(i <= b) => s[k].address[i] = 0
  <2>1. s[k] \in SentPrefix /\ s[k].address \in Address(s[k].length) /\ k \in DOMAIN s
    BY <1>1 DEF ArePrefixes
  <2>2. items[k] = EncodePrefix(s[k])
    BY <2>1 DEF PrefixItems
  <2> DEFINE p == s[k]
  <2>3. p \in SentPrefix /\ p.address \in Address(p.length)
    BY <2>1
  <2> HIDE DEF p
  <2>4. /\ ByteLength(p.length) \in 0 .. 4
        /\ EncodePrefix(p) \in Seq(Octet)
        /\ Len(EncodePrefix(p)) = ByteLength(p.length) + 1 /\ EncodePrefix(p)[1] = p.length
        /\ \A i \in 1 .. ByteLength(p.length) : EncodePrefix(p)[i + 1] = p.address[i]
        /\ \A i \in 1 .. 4 : ~(i <= ByteLength(p.length)) => p.address[i] = 0
    BY <2>3, EncodedPrefix
  <2> HIDE DEF items
  <2> QED BY <2>1, <2>2, <2>4 DEF p
<1>3. items = [k \in 1 .. Len(s) |-> items[k]] /\ enc = FlattenSeq(items)
  BY <1>1 DEF PrefixItems, EncodePrefixes
<1> HIDE DEF items, enc
<1>4. items \in Seq(Seq(Octet)) /\ Len(items) = Len(s)
  <2>1. \A k \in 1 .. Len(s) : items[k] \in Seq(Octet)
    BY <1>2
  <2> QED BY <1>1, <1>3, <2>1
<1>5. /\ enc \in Seq(Octet)
      /\ Begin(items, 0) = 0 /\ Begin(items, Len(items)) = Len(enc)
      /\ \A k \in 0 .. Len(items) : Begin(items, k) \in 0 .. Len(enc)
      /\ \A k \in 0 .. Len(items) - 1 :
            /\ Begin(items, k + 1) = Begin(items, k) + Len(items[k + 1])
            /\ Begin(items, k + 1) <= Len(enc)
            /\ \A j \in 1 .. Len(items[k + 1]) : enc[Begin(items, k) + j] = items[k + 1][j]
  BY <1>3, <1>4, Places
<1>6. \A k : PrefixAt(s, k) = Begin(items, k)
  BY DEF PrefixAt, items
<1>7. ASSUME NEW k \in 0 .. Len(s) - 1
      PROVE  PrefixStands(s, k)
  <2> DEFINE b == ByteLength(s[k + 1].length)
  <2>1. k + 1 \in 1 .. Len(s) /\ k \in 0 .. Len(items) - 1
    BY <1>1, <1>4
  <2>2. /\ b \in 0 .. 4 /\ s[k + 1] \in SentPrefix
        /\ Len(items[k + 1]) = b + 1 /\ items[k + 1][1] = s[k + 1].length
        /\ \A i \in 1 .. b : items[k + 1][i + 1] = s[k + 1].address[i]
        /\ \A i \in 1 .. 4 : ~(i <= b) => s[k + 1].address[i] = 0
    BY <1>2, <2>1
  <2> HIDE DEF b
  <2>a. /\ Begin(items, k + 1) = Begin(items, k) + Len(items[k + 1])
        /\ Begin(items, k + 1) <= Len(enc)
        /\ \A j \in 1 .. Len(items[k + 1]) : enc[Begin(items, k) + j] = items[k + 1][j]
    BY <1>5, <2>1
  <2>b. PrefixAt(s, k) = Begin(items, k) /\ PrefixAt(s, k + 1) = Begin(items, k + 1)
    BY <1>6
  <2>3. /\ PrefixAt(s, k + 1) = PrefixAt(s, k) + (b + 1)
        /\ PrefixAt(s, k + 1) <= Len(enc)
        /\ \A j \in 1 .. b + 1 : enc[PrefixAt(s, k) + j] = items[k + 1][j]
    BY <2>2, <2>a, <2>b
  <2>4. 1 \in 1 .. b + 1 /\ \A i \in 1 .. b : i + 1 \in 1 .. b + 1
    BY <2>2
  <2>5. /\ enc[PrefixAt(s, k) + 1] = s[k + 1].length
        /\ \A i \in 1 .. b : enc[PrefixAt(s, k) + (i + 1)] = s[k + 1].address[i]
    BY <2>2, <2>3, <2>4
  <2> QED BY <2>2, <2>3, <2>5 DEF b, enc, PrefixStands
<1> QED BY <1>1, <1>4, <1>5, <1>6, <1>7 DEF enc

AreAttributes(s) ==
    /\ s \in Seq(SentAttribute)
    /\ \A i \in DOMAIN s : Len(s[i].value) <= IF Long(s[i].flags) THEN 65535 ELSE 255
AttributeAt(s, k) == Begin(AttributeItems(s), k)

\* The octets behind the k-th attribute are those of the next one.
AttributeStands(s, k) ==
    LET a == s[k + 1]
        q == QuantumOf(a)
        at == AttributeAt(s, k)
        enc == EncodeAttributes(s)
    IN /\ a \in SentAttribute /\ q \in {3, 4} /\ Len(a.value) \in Nat
       /\ AttributeAt(s, k + 1) = at + (q + Len(a.value))
       /\ AttributeAt(s, k + 1) <= Len(enc)
       /\ enc[at + 1] = a.flags /\ enc[at + 2] = a.code
       /\ IF Long(a.flags) THEN 256 * enc[at + 3] + enc[at + 4] = Len(a.value)
          ELSE enc[at + 3] = Len(a.value)
       /\ \A i \in 1 .. Len(a.value) : enc[at + (q + i)] = a.value[i]

LEMMA AttributePlaces ==
    ASSUME NEW s, AreAttributes(s)
    PROVE  /\ s \in Seq(SentAttribute) /\ Len(s) \in Nat
           /\ EncodeAttributes(s) \in Seq(Octet)
           /\ AttributeAt(s, 0) = 0 /\ AttributeAt(s, Len(s)) = Len(EncodeAttributes(s))
           /\ \A k \in 0 .. Len(s) : AttributeAt(s, k) \in 0 .. Len(EncodeAttributes(s))
           /\ \A k \in 0 .. Len(s) - 1 : AttributeStands(s, k)
<1> DEFINE items == AttributeItems(s)
           enc == EncodeAttributes(s)
<1>1. s \in Seq(SentAttribute) /\ Len(s) \in Nat /\ DOMAIN s = 1 .. Len(s)
  BY DEF AreAttributes
<1>2. ASSUME NEW k \in 1 .. Len(s)
      PROVE  s[k] \in SentAttribute /\ EncodesAttribute(items[k], s[k])
  <2> DEFINE a == s[k]
  <2>1. /\ a \in SentAttribute /\ k \in DOMAIN s
        /\ Len(a.value) <= IF Long(a.flags) THEN 65535 ELSE 255
    BY <1>1 DEF AreAttributes
  <2>2. items[k] = EncodeAttribute(a)
    BY <2>1 DEF AttributeItems
  <2> HIDE DEF a, items
  <2>3. EncodesAttribute(EncodeAttribute(a), a)
    BY <2>1, EncodedAttribute
  <2> QED BY <2>1, <2>2, <2>3 DEF a
<1>3. items = [k \in 1 .. Len(s) |-> items[k]] /\ enc = FlattenSeq(items)
  BY <1>1 DEF AttributeItems, EncodeAttributes
<1> HIDE DEF items, enc
<1>4. items \in Seq(Seq(Octet)) /\ Len(items) = Len(s)
  <2>1. \A k \in 1 .. Len(s) : items[k] \in Seq(Octet)
    BY <1>2 DEF EncodesAttribute
  <2> QED BY <1>1, <1>3, <2>1
<1>5. /\ enc \in Seq(Octet)
      /\ Begin(items, 0) = 0 /\ Begin(items, Len(items)) = Len(enc)
      /\ \A k \in 0 .. Len(items) : Begin(items, k) \in 0 .. Len(enc)
      /\ \A k \in 0 .. Len(items) - 1 :
            /\ Begin(items, k + 1) = Begin(items, k) + Len(items[k + 1])
            /\ Begin(items, k + 1) <= Len(enc)
            /\ \A j \in 1 .. Len(items[k + 1]) : enc[Begin(items, k) + j] = items[k + 1][j]
  BY <1>3, <1>4, Places
<1>6. \A k : AttributeAt(s, k) = Begin(items, k)
  BY DEF AttributeAt, items
<1>7. ASSUME NEW k \in 0 .. Len(s) - 1
      PROVE  AttributeStands(s, k)
  <2> DEFINE a == s[k + 1]
             q == QuantumOf(a)
             n == Len(a.value)
             at == AttributeAt(s, k)
             e == items[k + 1]
  <2>1. k + 1 \in 1 .. Len(s) /\ k \in 0 .. Len(items) - 1
    BY <1>1, <1>4
  <2>2. /\ a \in SentAttribute /\ q \in {3, 4} /\ n \in Nat
        /\ Len(e) = q + n
        /\ e[1] = a.flags /\ e[2] = a.code
        /\ IF Long(a.flags) THEN 256 * e[3] + e[4] = n ELSE e[3] = n
        /\ \A i \in 1 .. n : e[q + i] = a.value[i]
    <3>1. a \in SentAttribute /\ EncodesAttribute(e, a)
      BY <1>2, <2>1
    <3> HIDE DEF a, e
    <3> QED BY <3>1 DEF EncodesAttribute
  <2>3. Long(a.flags) => q = 4
    BY DEF QuantumOf
  <2>a. /\ Begin(items, k + 1) = Begin(items, k) + Len(e)
        /\ Begin(items, k + 1) <= Len(enc)
        /\ \A j \in 1 .. Len(e) : enc[Begin(items, k) + j] = e[j]
    BY <1>5, <2>1
  <2>b. at = Begin(items, k) /\ AttributeAt(s, k + 1) = Begin(items, k + 1)
    BY <1>6
  <2> HIDE DEF a, q, n, at, e
  <2>4. /\ AttributeAt(s, k + 1) = at + (q + n)
        /\ AttributeAt(s, k + 1) <= Len(enc)
        /\ \A j \in 1 .. q + n : enc[at + j] = e[j]
    BY <2>2, <2>a, <2>b
  <2>5. /\ 1 \in 1 .. q + n /\ 2 \in 1 .. q + n /\ 3 \in 1 .. q + n
        /\ q = 4 => 4 \in 1 .. q + n
        /\ \A i \in 1 .. n : q + i \in 1 .. q + n
    BY <2>2
  <2>6. /\ enc[at + 1] = a.flags /\ enc[at + 2] = a.code
        /\ enc[at + 3] = e[3] /\ (q = 4 => enc[at + 4] = e[4])
        /\ \A i \in 1 .. n : enc[at + (q + i)] = a.value[i]
    BY <2>2, <2>4, <2>5
  <2>7. IF Long(a.flags) THEN 256 * enc[at + 3] + enc[at + 4] = n ELSE enc[at + 3] = n
    <3>1. CASE Long(a.flags)
      <4>1. enc[at + 3] = e[3] /\ enc[at + 4] = e[4]
        BY <2>3, <2>6, <3>1
      <4>2. 256 * e[3] + e[4] = n
        BY <2>2, <3>1
      <4> QED BY <3>1, <4>1, <4>2, Zenon
    <3>2. CASE ~Long(a.flags)
      BY <2>2, <2>6, <3>2
    <3> QED BY <3>1, <3>2
  <2> QED BY <2>2, <2>4, <2>6, <2>7 DEF a, q, n, at, enc, AttributeStands
<1> QED BY <1>1, <1>4, <1>5, <1>6, <1>7 DEF enc

\* Where the parts of an UPDATE are.
LEMMA UpdateOctets ==
    ASSUME NEW u \in Updates
    PROVE  LET w == EncodePrefixes(u.withdrawn)
               a == EncodeAttributes(u.attributes)
               p == EncodePrefixes(u.prefixes)
               z == EncodeUpdate(u)
           IN /\ ArePrefixes(u.withdrawn) /\ ArePrefixes(u.prefixes)
              /\ AreAttributes(u.attributes) /\ u.miscounted \in Int
              /\ z \in Seq(Octet) /\ w \in Seq(Octet) /\ a \in Seq(Octet) /\ p \in Seq(Octet)
              /\ Len(w) \in Nat /\ Len(a) \in Nat /\ Len(p) \in Nat
              /\ Len(z) = 4 + Len(w) + Len(a) + Len(p)
              /\ 256 * z[1] + z[2] = Len(w)
              /\ Len(a) - u.miscounted \in Nat
              /\ 256 * z[Len(w) + 3] + z[Len(w) + 4] = Len(a) - u.miscounted
              /\ \A i \in 1 .. Len(w) : z[2 + i] = w[i]
              /\ \A i \in 1 .. Len(a) : z[4 + Len(w) + i] = a[i]
              /\ \A i \in 1 .. Len(p) : z[4 + Len(w) + Len(a) + i] = p[i]
<1> DEFINE w == EncodePrefixes(u.withdrawn)
           a == EncodeAttributes(u.attributes)
           p == EncodePrefixes(u.prefixes)
           z == EncodeUpdate(u)
           nw == Len(w)
           na == Len(a) - u.miscounted
           bw == WordBytes(nw)
           ba == WordBytes(na)
           x == bw \o w
           y == x \o ba
           t == y \o a
<1>1. Encodable(u)
  BY UpdatesAssumption
<1>2. /\ ArePrefixes(u.withdrawn) /\ ArePrefixes(u.prefixes)
      /\ AreAttributes(u.attributes) /\ u.miscounted \in Int
      /\ nw <= 65535 /\ 0 <= na /\ na <= 65535
  BY <1>1 DEF Encodable, ArePrefixes, AreAttributes, SentPrefix, SentAttribute
<1>3. w \in Seq(Octet) /\ a \in Seq(Octet) /\ p \in Seq(Octet)
  BY <1>2, PrefixPlaces, AttributePlaces
<1>4. z = t \o p
  BY DEF EncodeUpdate
<1> HIDE DEF w, a, p, z
<1>5. nw \in Nat /\ Len(a) \in Nat /\ Len(p) \in Nat
  BY <1>3
<1>6. na \in Int
  BY <1>2, <1>5
<1> HIDE DEF na, nw
<1>7. na \in Nat
  BY <1>2, <1>6
<1>8. /\ IsPair(bw) /\ 256 * bw[1] + bw[2] = nw
      /\ IsPair(ba) /\ 256 * ba[1] + ba[2] = na
  BY <1>2, <1>5, <1>7, WordIsRead DEF IsPair
<1>9. x = bw \o w /\ y = x \o ba /\ t = y \o a
  OBVIOUS
<1> HIDE DEF bw, ba, x, y, t
<1>10. bw \in Seq(Octet) /\ ba \in Seq(Octet) /\ IsPair(bw) /\ IsPair(ba)
  BY <1>8 DEF IsPair
<1>11. /\ z \in Seq(Octet)
       /\ Len(z) = 4 + Len(w) + Len(a) + Len(p)
       /\ z[1] = bw[1] /\ z[2] = bw[2]
       /\ z[Len(w) + 3] = ba[1] /\ z[Len(w) + 4] = ba[2]
       /\ \A i \in 1 .. Len(w) : z[2 + i] = w[i]
       /\ \A i \in 1 .. Len(a) : z[4 + Len(w) + i] = a[i]
       /\ \A i \in 1 .. Len(p) : z[4 + Len(w) + Len(a) + i] = p[i]
  <2>1. InARow(bw, w, ba, a, p, x, y, t, z)
    BY <1>3, <1>4, <1>9, <1>10 DEF InARow
  <2>2. RowIs(bw, w, ba, a, p, z)
    BY <2>1, FiveInARow
  <2> QED BY <2>2 DEF RowIs
<1>12. 256 * z[1] + z[2] = Len(w) /\ 256 * z[Len(w) + 3] + z[Len(w) + 4] = na
  BY <1>8, <1>11 DEF nw
<1> QED BY <1>2, <1>3, <1>5, <1>7, <1>11, <1>12 DEF w, a, p, z, na, nw
-----------------------------------------------------------------------------
(* What the parser finds in the message *)

\* A sequence, or the beginning of it.
Cut(part, whole) ==
    /\ part \in Seq(Octet) /\ whole \in Seq(Octet)
    /\ Len(part) <= Len(whole)
    /\ \A i \in 1 .. Len(part) : part[i] = whole[i]

\* f is in z from offset at on.
InPlace(f, z, at) ==
    /\ f \in Seq(Octet) /\ at \in Nat
    /\ at + Len(f) <= Len(z)
    /\ \A i \in 1 .. Len(f) : z[at + i] = f[i]

LEMMA SliceOfCut ==
    ASSUME NEW m, NEW z, Cut(m, z), NEW f, NEW at, InPlace(f, z, at), NEW to \in Nat
    PROVE  /\ to = at + Len(f) /\ to <= Len(m) => Slice(m, at, to) = f
           /\ at <= to /\ to <= Len(m) /\ to <= at + Len(f) =>
                 Cut(Slice(m, at, to), f) /\ Len(Slice(m, at, to)) = to - at
<1> DEFINE part == Slice(m, at, to)
           n == Len(m)
           l == Len(f)
<1>1. /\ m \in Seq(Octet) /\ z \in Seq(Octet) /\ f \in Seq(Octet) /\ at \in Nat
      /\ \A i \in 1 .. n : m[i] = z[i]
      /\ \A i \in 1 .. l : z[at + i] = f[i]
  BY DEF Cut, InPlace
<1>2. n \in Nat /\ l \in Nat
  BY <1>1
<1>3. /\ part \in Seq(Octet)
      /\ at <= to /\ to <= n => Len(part) = to - at
      /\ \A i \in 1 .. Len(part) : part[i] = m[at + i]
  <2> DEFINE b == IF to < Len(m) THEN to ELSE Len(m)
  <2>1. /\ part \in Seq(Octet) /\ Len(part) = IF at < b THEN b - at ELSE 0
        /\ \A i \in 1 .. Len(part) : part[i] = m[at + i]
    BY <1>1, SliceIs
  <2>2. b = IF to < n THEN to ELSE n
    OBVIOUS
  <2> HIDE DEF part, n, b
  <2>3. at <= to /\ to <= n => b = to
    BY <1>2, <2>2
  <2> QED BY <1>1, <1>2, <2>1, <2>3
<1> HIDE DEF part, n, l
<1>4. ASSUME at <= to, to <= n, to <= at + l
      PROVE  /\ Len(part) = to - at
             /\ \A i \in 1 .. Len(part) : part[i] = f[i]
  <2>1. Len(part) = to - at
    BY <1>3, <1>4
  <2>2. ASSUME NEW i \in 1 .. Len(part) PROVE part[i] = f[i]
    <3>1. i \in 1 .. l /\ at + i \in 1 .. n
      BY <1>1, <1>2, <1>4, <2>1
    <3> QED BY <1>1, <1>3, <3>1
  <2> QED BY <2>1, <2>2
<1>5. ASSUME to = at + l, to <= n
      PROVE  part = f
  <2>1. at <= to /\ to <= at + l
    BY <1>1, <1>2, <1>5
  <2>2. Len(part) = l /\ \A i \in 1 .. Len(part) : part[i] = f[i]
    BY <1>1, <1>2, <1>4, <1>5, <2>1
  <2>3. Len(part) = Len(f)
    BY <2>2 DEF l
  <2> QED BY <1>1, <1>3, <2>2, <2>3, SeqEqual
<1>6. ASSUME at <= to, to <= n, to <= at + l
      PROVE  Cut(part, f)
  <2>1. Len(part) <= l
    BY <1>1, <1>2, <1>4, <1>6
  <2> QED BY <1>1, <1>3, <1>4, <1>6, <2>1 DEF Cut, l
<1> QED BY <1>4, <1>5, <1>6 DEF part, n, l

Reading == {"withdrawn", "nlri", "attributes", "done"}

\* The message is the one that was sent, or its beginning, and long enough
\* for the fields that have been read.
MsgInv ==
    /\ sent \in Updates
    /\ bgp_length \in Nat
    /\ Cut(msg, EncodeUpdate(sent))
    /\ phase = "header" \/ bgp_length = HeaderLength + Len(EncodeUpdate(sent)) =>
          Len(msg) = Len(EncodeUpdate(sent))
    /\ phase \in Reading => WithdrawnLength + 4 <= Len(msg) /\ 2 <= Len(msg)
    /\ phase \in Reading \ {"withdrawn"} =>
          WithdrawnLength + 4 + AttributesLength <= Len(msg)

LEMMA LengthsRead ==
    ASSUME sent \in Updates, Cut(msg, EncodeUpdate(sent)), 2 <= Len(msg)
    PROVE  /\ WithdrawnLength = Len(EncodePrefixes(sent.withdrawn))
           /\ WithdrawnLength \in Nat
           /\ WithdrawnLength + 4 <= Len(msg) =>
                 /\ AttributesLength = Len(EncodeAttributes(sent.attributes)) - sent.miscounted
                 /\ AttributesLength \in Nat
<1> DEFINE w == EncodePrefixes(sent.withdrawn)
           a == EncodeAttributes(sent.attributes)
           z == EncodeUpdate(sent)
           nw == Len(w)
           na == Len(a) - sent.miscounted
           n == Len(msg)
<1>1. /\ nw \in Nat /\ na \in Nat
      /\ 256 * z[1] + z[2] = nw
      /\ 256 * z[nw + 3] + z[nw + 4] = na
  BY UpdateOctets
<1>2. n \in Nat /\ \A i \in 1 .. n : msg[i] = z[i]
  BY DEF Cut
<1>3. 2 <= n
  OBVIOUS
<1> HIDE DEF z, nw, na, n
<1>4. 1 \in 1 .. n /\ 2 \in 1 .. n
  BY <1>2, <1>3
<1>5. WithdrawnLength = 256 * msg[1] + msg[2]
  BY DEF WithdrawnLength, Word, At
<1>6. WithdrawnLength = nw
  BY <1>1, <1>2, <1>4, <1>5
<1>7. ASSUME WithdrawnLength + 4 <= n
      PROVE  AttributesLength = na
  <2>1. nw + 3 \in 1 .. n /\ nw + 4 \in 1 .. n
    BY <1>1, <1>2, <1>6, <1>7
  <2>2. nw + 2 + 1 = nw + 3 /\ nw + 2 + 1 + 1 = nw + 4
    BY <1>1
  <2>3. AttributesLength = 256 * msg[nw + 2 + 1] + msg[nw + 2 + 1 + 1]
    BY <1>6 DEF AttributesLength, Word, At
  <2> QED BY <1>1, <1>2, <2>1, <2>2, <2>3
<1> QED BY <1>1, <1>6, <1>7 DEF nw, na, n

LEMMA FieldsAre ==
    ASSUME MsgInv, phase \in Reading
    PROVE  /\ WithdrawnLength \in Nat /\ AttributesLength \in Nat
           /\ Withdrawn = EncodePrefixes(sent.withdrawn) /\ Withdrawn \in Seq(Octet)
           /\ Attributes \in Seq(Octet) /\ NLRI \in Seq(Octet)
           /\ phase # "withdrawn" /\ sent.miscounted = 0 =>
                 /\ Attributes = EncodeAttributes(sent.attributes)
                 /\ Cut(NLRI, EncodePrefixes(sent.prefixes))
                 /\ Len(msg) = Len(EncodeUpdate(sent)) =>
                       Len(NLRI) = Len(EncodePrefixes(sent.prefixes))
<1> DEFINE w == EncodePrefixes(sent.withdrawn)
           a == EncodeAttributes(sent.attributes)
           p == EncodePrefixes(sent.prefixes)
           z == EncodeUpdate(sent)
           nw == Len(w)
           na == Len(a)
           np == Len(p)
           n == Len(msg)
           nz == Len(z)
           wl == WithdrawnLength
           al == AttributesLength
           mis == sent.miscounted
<1>1. /\ sent \in Updates /\ Cut(msg, z) /\ 2 <= n /\ wl + 4 <= n
      /\ phase # "withdrawn" => wl + 4 + al <= n
  BY DEF MsgInv, Reading
<1>a. sent \in Updates
  BY <1>1
<1>2. wl = nw /\ wl \in Nat /\ al = na - mis /\ al \in Nat
  BY <1>1, LengthsRead
<1>3. /\ z \in Seq(Octet) /\ w \in Seq(Octet) /\ a \in Seq(Octet) /\ p \in Seq(Octet)
      /\ nw \in Nat /\ na \in Nat /\ np \in Nat
      /\ nz = 4 + nw + na + np
      /\ \A i \in 1 .. nw : z[2 + i] = w[i]
      /\ \A i \in 1 .. na : z[4 + nw + i] = a[i]
      /\ \A i \in 1 .. np : z[4 + nw + na + i] = p[i]
  BY <1>a, UpdateOctets
<1>4. msg \in Seq(Octet) /\ n \in Nat /\ n <= nz
  BY <1>1 DEF Cut
<1> HIDE DEF w, a, p, z, n, nw, na, np, nz, wl, al, mis
<1>5. /\ Withdrawn = Slice(msg, 2, wl + 2)
      /\ Attributes = Slice(msg, wl + 4, wl + 4 + al)
      /\ NLRI = Slice(msg, wl + 4 + al, n)
  BY DEF Withdrawn, Attributes, NLRI, AttributesAt, wl, al, n
<1>6. /\ wl + 2 \in Nat /\ wl + 4 \in Nat /\ wl + 4 + al \in Nat
  BY <1>2
<1>7. Attributes \in Seq(Octet) /\ NLRI \in Seq(Octet)
  BY <1>4, <1>5, <1>6, SliceIs
<1>8. InPlace(w, z, 2) /\ InPlace(a, z, 4 + nw) /\ InPlace(p, z, 4 + nw + na)
  <2>1. 2 + nw <= nz /\ 4 + nw + na <= nz /\ 4 + nw + na + np <= nz
    BY <1>3
  <2>2. 2 \in Nat /\ 4 + nw \in Nat /\ 4 + nw + na \in Nat
    BY <1>3
  <2> QED BY <1>3, <2>1, <2>2 DEF InPlace, nw, na, np, nz
<1>9. Withdrawn = w
  <2> DEFINE to == wl + 2
  <2>1. to = 2 + nw /\ to <= n /\ to \in Nat
    BY <1>1, <1>2, <1>3, <1>4
  <2>2. Withdrawn = Slice(msg, 2, to)
    BY <1>5
  <2> HIDE DEF to
  <2> QED BY <1>1, <1>8, <2>1, <2>2, SliceOfCut DEF nw, n
<1>10. ASSUME phase # "withdrawn", mis = 0
       PROVE  Attributes = a /\ Cut(NLRI, p) /\ (n = nz => Len(NLRI) = np)
  <2> DEFINE at == 4 + nw
             to == 4 + nw + na
  <2>1. /\ al = na /\ at = wl + 4 /\ to = wl + 4 + al /\ to = at + na
        /\ to <= n /\ at \in Nat /\ to \in Nat /\ n <= to + np
    BY <1>1, <1>2, <1>3, <1>4, <1>10
  <2>2. /\ Attributes = Slice(msg, at, to) /\ NLRI = Slice(msg, to, n)
        /\ InPlace(a, z, at) /\ InPlace(p, z, to)
    BY <1>5, <1>8, <2>1
  <2> HIDE DEF at, to
  <2>3. Attributes = a
    BY <1>1, <2>1, <2>2, SliceOfCut DEF na, n
  <2>4. Cut(NLRI, p) /\ Len(NLRI) = n - to
    <3>1. n <= n
      BY <1>4
    <3> QED BY <1>1, <1>4, <2>1, <2>2, <3>1, SliceOfCut DEF np, n
  <2>5. n = nz => Len(NLRI) = np
    BY <1>3, <2>4 DEF to
  <2> QED BY <2>3, <2>4, <2>5
<1> QED BY <1>2, <1>3, <1>7, <1>9, <1>10 DEF w, a, p, z, n, np, nz, wl, al, mis
-----------------------------------------------------------------------------
(* Types *)

ParsedPrefix == [length : Octet, address : [1 .. 4 -> Octet]]

LEMMA FieldIsOctets ==
    ASSUME MsgInv, phase \in {"withdrawn", "nlri", "attributes"}
    PROVE  Field \in Seq(Octet)
<1>1. phase \in Reading
  BY DEF Reading
<1>2. Withdrawn \in Seq(Octet) /\ Attributes \in Seq(Octet) /\ NLRI \in Seq(Octet)
  BY <1>1, FieldsAre
<1>3. \/ phase = "withdrawn" /\ Field = Withdrawn
      \/ phase = "nlri" /\ Field = NLRI
      \/ phase = "attributes" /\ Field = Attributes
  BY DEF Field
<1> QED BY <1>2, <1>3

LEMMA PrefixReadType ==
    ASSUME Field \in Seq(Octet), offset \in Nat, ~AtEnd, PrefixEnd <= Len(Field)
    PROVE  PrefixRead \in ParsedPrefix /\ PrefixEnd \in Nat
<1> DEFINE f == Field
           n == f[offset + 1]
           b == ByteLength(n)
           l == Len(Field)
<1>1. l \in Nat /\ offset < l
  BY DEF AtEnd
<1>2. \A i \in 1 .. l : f[i] \in Octet
  OBVIOUS
<1>3. offset + 1 \in 1 .. l
  BY <1>1
<1> HIDE DEF f
<1>4. n \in Octet
  BY <1>2, <1>3
<1>5. b \in 0 .. 4
  BY <1>4 DEF ByteLength, Octet
<1>6. At(Field, offset) = n /\ PrefixEnd = offset + 1 + b
  BY DEF At, f, PrefixEnd
<1> HIDE DEF n, b, l
<1>7. offset + 1 + b <= l /\ PrefixEnd \in Nat
  BY <1>5, <1>6 DEF l
<1>8. ASSUME NEW i \in 1 .. 4, i <= b
      PROVE  At(Field, offset + i) \in Octet
  <2>1. offset + i + 1 \in 1 .. l
    BY <1>1, <1>5, <1>7, <1>8
  <2> QED BY <1>2, <2>1 DEF At, f
<1>9. PrefixRead = [length |-> n,
                    address |-> [i \in 1 .. 4 |-> IF i <= b THEN At(Field, offset + i) ELSE 0]]
  BY <1>6 DEF PrefixRead, b
<1>10. 0 \in Octet
  BY DEF Octet
<1> QED BY <1>4, <1>7, <1>8, <1>9, <1>10 DEF ParsedPrefix

LEMMA AttributeReadType ==
    ASSUME Field \in Seq(Octet), offset \in Nat, HeaderFits
    PROVE  /\ Code \in Octet /\ Quantum \in {3, 4}
           /\ AttributeLength \in Nat /\ AttributeEnd \in Nat
<1> DEFINE f == Field
           l == Len(Field)
<1>1. l \in Nat /\ \A i \in 1 .. l : f[i] \in Octet
  OBVIOUS
<1>2. Quantum \in {3, 4} /\ (Extended => Quantum = 4) /\ offset + Quantum <= l
  BY DEF Quantum, HeaderFits
<1> HIDE DEF f, l
<1>3. /\ offset + 1 + 1 \in 1 .. l /\ offset + 2 + 1 \in 1 .. l
      /\ Extended => offset + 2 + 1 + 1 \in 1 .. l
  BY <1>1, <1>2
<1>a. Octet \subseteq Nat
  BY DEF Octet
<1>4. /\ f[offset + 1 + 1] \in Nat /\ f[offset + 1 + 1] \in Octet
      /\ f[offset + 2 + 1] \in Nat
      /\ Extended => f[offset + 2 + 1 + 1] \in Nat
  BY <1>1, <1>3, <1>a
<1>5. Code \in Octet
  BY <1>4 DEF Code, At, f
<1>6. AttributeLength \in Nat
  <2>1. AttributeLength = IF Extended THEN 256 * f[offset + 2 + 1] + f[offset + 2 + 1 + 1]
                          ELSE f[offset + 2 + 1]
    BY DEF AttributeLength, Word, At, f
  <2> QED BY <1>4, <2>1
<1> QED BY <1>2, <1>5, <1>6 DEF AttributeEnd

LEMMA CutRefl ==
    ASSUME NEW z \in Seq(Octet)
    PROVE  Cut(z, z)
<1>1. Len(z) \in Nat
  OBVIOUS
<1> QED BY <1>1 DEF Cut

LEMMA InitTypes ==
    ASSUME Init
    PROVE  TypeOK /\ MsgInv
<1>1. sent \in Updates /\ msg = EncodeUpdate(sent) /\ phase = "header"
  BY DEF Init
<1>2. msg \in Seq(Octet)
  BY <1>1, UpdateOctets
<1>3. Cut(msg, EncodeUpdate(sent)) /\ Len(msg) \in Nat
  BY <1>1, <1>2, CutRefl
<1>4. bgp_length \in Nat
  BY <1>3 DEF Init, HeaderLength
<1>5. TypeOK
  <2>1. DOMAIN Empty \subseteq Octet
    BY DEF Empty
  <2>2. /\ offset = 0 /\ withdrawn_prefixes = << >> /\ prefixes = << >>
        /\ attribute = Empty /\ except_flag = FALSE
    BY DEF Init
  <2>3. << >> \in Seq([length : Octet, address : [1 .. 4 -> Octet]])
    OBVIOUS
  <2>4. \A s \in {withdrawn_prefixes, prefixes} :
           s \in Seq([length : Octet, address : [1 .. 4 -> Octet]])
    BY <2>2, <2>3
  <2> QED BY <1>1, <1>2, <2>1, <2>2, <2>4 DEF TypeOK
<1>6. MsgInv
  BY <1>1, <1>3, <1>4 DEF MsgInv, Reading
<1> QED BY <1>5, <1>6

\* Without a change of the message, only the phase matters.
LEMMA SameMsg ==
    ASSUME MsgInv, UNCHANGED <<msg, bgp_length, sent>>, phase # "header", phase' # "header",
           phase' \in Reading => WithdrawnLength + 4 <= Len(msg) /\ 2 <= Len(msg),
           phase' \in Reading \ {"withdrawn"} =>
               WithdrawnLength + 4 + AttributesLength <= Len(msg)
    PROVE  MsgInv'
<1>1. /\ WithdrawnLength' = WithdrawnLength /\ AttributesLength' = AttributesLength
      /\ Len(msg)' = Len(msg) /\ EncodeUpdate(sent)' = EncodeUpdate(sent)
      /\ Cut(msg, EncodeUpdate(sent))' = Cut(msg, EncodeUpdate(sent))
  BY DEF WithdrawnLength, AttributesLength
<1> QED BY <1>1 DEF MsgInv

LEMMA MsgKept ==
    ASSUME MsgInv, Next
    PROVE  MsgInv'
<1>1. CASE ParseHeader
  <2> DEFINE z == EncodeUpdate(sent)
             to == bgp_length - HeaderLength
  <2>1. /\ sent \in Updates /\ bgp_length \in Nat /\ Cut(msg, z) /\ Len(msg) = Len(z)
        /\ phase = "header"
    BY <1>1 DEF MsgInv, ParseHeader
  <2>2. z \in Seq(Octet) /\ Len(z) \in Nat /\ Len(msg) \in Nat
    BY <2>1, UpdateOctets
  <2>3. CASE to \in 0 .. Len(msg)
    <3>1. /\ phase' = "lengths" /\ msg' = Slice(msg, 0, to)
          /\ bgp_length' = bgp_length /\ sent' = sent /\ z' = z
      BY <1>1, <2>3 DEF ParseHeader, Go
    <3>2. to \in Nat /\ 0 <= to /\ to <= Len(msg) /\ to <= 0 + Len(z)
      BY <2>1, <2>2, <2>3
    <3>3. InPlace(z, z, 0)
      BY <2>2 DEF InPlace
    <3> HIDE DEF z
    <3>4. Cut(Slice(msg, 0, to), z) /\ Len(Slice(msg, 0, to)) = to - 0
      <4> HIDE DEF to
      <4> QED BY <2>1, <3>2, <3>3, SliceOfCut
    <3>5. bgp_length = HeaderLength + Len(z) => Len(msg') = Len(z)
      <4>1. bgp_length = HeaderLength + Len(z) => to = Len(z)
        BY <2>1, <2>2 DEF HeaderLength
      <4>2. to - 0 = to
        BY <3>2
      <4> HIDE DEF to
      <4> QED BY <3>1, <3>4, <4>1, <4>2
    <3>6. /\ sent' \in Updates /\ bgp_length' \in Nat /\ Cut(msg', z')
          /\ (bgp_length' = HeaderLength + Len(z')) => Len(msg') = Len(z')
      BY <2>1, <3>1, <3>4, <3>5
    <3> QED BY <3>1, <3>6 DEF MsgInv, Reading, z
  <2>4. CASE ~(to \in 0 .. Len(msg))
    <3>1. /\ phase' = "AssertionError" /\ UNCHANGED <<msg, bgp_length, sent>>
      BY <1>1, <2>4 DEF ParseHeader, Go
    <3> QED BY <2>1, <3>1 DEF MsgInv, Reading
  <2> QED BY <2>3, <2>4
<1>2. CASE ParseLengths
  <2>1. /\ phase = "lengths" /\ UNCHANGED <<msg, bgp_length, sent>>
        /\ sent \in Updates /\ Cut(msg, EncodeUpdate(sent)) /\ Len(msg) \in Nat
    BY <1>2 DEF ParseLengths, MsgInv, Cut
  <2>2. CASE Len(msg) < 2
    <3>1. phase' = "struct.error"
      BY <1>2, <2>2 DEF ParseLengths, Go
    <3> QED BY <2>1, <3>1, SameMsg DEF Reading
  <2>3. CASE ~(Len(msg) < 2)
    <3>1. 2 <= Len(msg)
      BY <2>1, <2>3
    <3>2. WithdrawnLength \in Nat
      BY <2>1, <3>1, LengthsRead
    <3>3. CASE WithdrawnLength + 4 <= Len(msg)
      <4>1. ~(Len(msg) \in 2 .. WithdrawnLength + 3)
        BY <2>1, <3>2, <3>3
      <4>2. phase' = "withdrawn"
        BY <1>2, <2>3, <4>1 DEF ParseLengths, Go
      <4> QED BY <2>1, <3>1, <3>3, <4>2, SameMsg
    <3>4. CASE ~(WithdrawnLength + 4 <= Len(msg))
      <4>1. Len(msg) \in 2 .. WithdrawnLength + 3
        BY <2>1, <3>1, <3>2, <3>4
      <4>2. phase' = "AssertionError"
        BY <1>2, <2>3, <4>1 DEF ParseLengths, Go
      <4> QED BY <2>1, <4>2, SameMsg DEF Reading
    <3> QED BY <3>3, <3>4
  <2> QED BY <2>2, <2>3
<1>3. CASE EndWithdrawn
  <2>1. /\ phase = "withdrawn" /\ phase \in Reading /\ UNCHANGED <<msg, bgp_length, sent>>
        /\ WithdrawnLength + 4 <= Len(msg) /\ 2 <= Len(msg) /\ Len(msg) \in Nat
    BY <1>3 DEF EndWithdrawn, MsgInv, Reading, Cut
  <2>2. WithdrawnLength \in Nat /\ AttributesLength \in Nat
    BY <2>1, FieldsAre
  <2>3. CASE Len(msg) > WithdrawnLength + 3 + AttributesLength
    <3>1. phase' = "nlri"
      BY <1>3, <2>3 DEF EndWithdrawn, Go
    <3>2. WithdrawnLength + 4 + AttributesLength <= Len(msg)
      BY <2>1, <2>2, <2>3
    <3> QED BY <2>1, <3>1, <3>2, SameMsg
  <2>4. CASE ~(Len(msg) > WithdrawnLength + 3 + AttributesLength)
    <3>1. phase' = "AssertionError"
      BY <1>3, <2>4 DEF EndWithdrawn, Go
    <3> QED BY <2>1, <3>1, SameMsg DEF Reading
  <2> QED BY <2>3, <2>4
<1>4. CASE GetWithdrawn
  <2>1. /\ phase = "withdrawn" /\ phase' = phase /\ UNCHANGED <<msg, bgp_length, sent>>
    BY <1>4 DEF GetWithdrawn
  <2> QED BY <2>1, SameMsg DEF MsgInv
<1>5. CASE GetAnnounced
  <2>1. /\ phase = "nlri" /\ phase' = phase /\ UNCHANGED <<msg, bgp_length, sent>>
    BY <1>5 DEF GetAnnounced
  <2> QED BY <2>1, SameMsg DEF MsgInv
<1>6. CASE EndNLRI
  <2>1. /\ phase = "nlri" /\ phase' = "attributes" /\ UNCHANGED <<msg, bgp_length, sent>>
    BY <1>6 DEF EndNLRI, Go
  <2> QED BY <2>1, SameMsg DEF MsgInv, Reading
<1>7. CASE ParseAttribute
  <2>1. /\ phase = "attributes" /\ phase' = phase /\ UNCHANGED <<msg, bgp_length, sent>>
    BY <1>7 DEF ParseAttribute
  <2> QED BY <2>1, SameMsg DEF MsgInv
<1>8. CASE EndAttributes
  <2>1. /\ phase = "attributes" /\ phase' = "done" /\ UNCHANGED <<msg, bgp_length, sent>>
    BY <1>8 DEF EndAttributes, Go
  <2> QED BY <2>1, SameMsg DEF MsgInv, Reading
<1>9. CASE CutPrefix \/ BadAttribute \/ CutAttributeHeader
  <2>1. /\ phase # "header" /\ phase' \in {"AssertionError", "SystemExit", "struct.error"}
        /\ UNCHANGED <<msg, bgp_length, sent>>
    BY <1>9 DEF CutPrefix, BadAttribute, CutAttributeHeader, Go
  <2> QED BY <2>1, SameMsg DEF Reading
<1> QED BY <1>1, <1>2, <1>3, <1>4, <1>5, <1>6, <1>7, <1>8, <1>9 DEF Next

LEMMA TypesKept ==
    ASSUME TypeOK, MsgInv, Next
    PROVE  TypeOK'
<1>1. msg' \in Seq(Octet)
  BY MsgKept DEF MsgInv, Cut
<1>2. /\ offset \in Nat /\ DOMAIN attribute \subseteq Octet /\ except_flag \in BOOLEAN
      /\ withdrawn_prefixes \in Seq(ParsedPrefix) /\ prefixes \in Seq(ParsedPrefix)
      /\ phase \in {"header", "lengths", "withdrawn", "nlri", "attributes",
                    "done", "AssertionError", "struct.error", "SystemExit"}
  BY DEF TypeOK, ParsedPrefix
<1>3. SUFFICES /\ offset' \in Nat /\ DOMAIN attribute' \subseteq Octet /\ except_flag' \in BOOLEAN
               /\ withdrawn_prefixes' \in Seq(ParsedPrefix) /\ prefixes' \in Seq(ParsedPrefix)
               /\ phase' \in {"header", "lengths", "withdrawn", "nlri", "attributes",
                              "done", "AssertionError", "struct.error", "SystemExit"}
  BY <1>1 DEF TypeOK, ParsedPrefix
<1>4. CASE ParseHeader
  BY <1>2, <1>4 DEF ParseHeader, Go, parsed
<1>5. CASE ParseLengths
  BY <1>2, <1>5 DEF ParseLengths, Go, parsed
<1>6. CASE GetWithdrawn
  <2>1. Field \in Seq(Octet) /\ ~AtEnd /\ PrefixEnd <= Len(Field)
    BY <1>6, FieldIsOctets DEF GetWithdrawn, GetPrefix
  <2>2. PrefixRead \in ParsedPrefix /\ PrefixEnd \in Nat
    BY <1>2, <2>1, PrefixReadType
  <2>3. Append(withdrawn_prefixes, PrefixRead) \in Seq(ParsedPrefix)
    BY <1>2, <2>2, AppendProperties
  <2> QED BY <1>2, <1>6, <2>2, <2>3 DEF GetWithdrawn, GetPrefix
<1>7. CASE GetAnnounced
  <2>1. Field \in Seq(Octet) /\ ~AtEnd /\ PrefixEnd <= Len(Field)
    BY <1>7, FieldIsOctets DEF GetAnnounced, GetPrefix
  <2>2. PrefixRead \in ParsedPrefix /\ PrefixEnd \in Nat
    BY <1>2, <2>1, PrefixReadType
  <2>3. Append(prefixes, PrefixRead) \in Seq(ParsedPrefix)
    BY <1>2, <2>2, AppendProperties
  <2> QED BY <1>2, <1>7, <2>2, <2>3 DEF GetAnnounced, GetPrefix
<1>8. CASE CutPrefix
  BY <1>2, <1>8 DEF CutPrefix, Go, parsed
<1>9. CASE EndWithdrawn
  BY <1>2, <1>9 DEF EndWithdrawn, Go, parsed
<1>10. CASE EndNLRI
  BY <1>2, <1>10 DEF EndNLRI, Go, parsed
<1>11. CASE ParseAttribute
  <2>1. Field \in Seq(Octet) /\ HeaderFits
    BY <1>11, FieldIsOctets DEF ParseAttribute
  <2>2. Code \in Octet /\ AttributeEnd \in Nat
    BY <1>2, <2>1, AttributeReadType
  <2>3. /\ attribute' \in IF Kept(Code, Value) = {} THEN {attribute}
                          ELSE {Put(attribute, {Code}, v) : v \in Kept(Code, Value)}
        /\ offset' = AttributeEnd
        /\ UNCHANGED <<phase, withdrawn_prefixes, prefixes, except_flag>>
    BY <1>11 DEF ParseAttribute
  <2>4. DOMAIN attribute' \subseteq DOMAIN attribute \cup {Code}
    <3>1. \A v : DOMAIN Put(attribute, {Code}, v) = DOMAIN attribute \cup {Code}
      BY DEF Put
    <3> QED BY <2>3, <3>1
  <2> QED BY <1>2, <2>2, <2>3, <2>4
<1>12. CASE BadAttribute
  BY <1>2, <1>12 DEF BadAttribute, Go
<1>13. CASE CutAttributeHeader
  BY <1>2, <1>13 DEF CutAttributeHeader, Go, parsed
<1>14. CASE EndAttributes
  BY <1>2, <1>14 DEF EndAttributes, Go
<1> QED BY <1>4, <1>5, <1>6, <1>7, <1>8, <1>9, <1>10, <1>11, <1>12, <1>13, <1>14 DEF Next

LEMMA TypesGoOn ==
    ASSUME TypeOK /\ MsgInv, [Next]_vars
    PROVE  (TypeOK /\ MsgInv)'
<1>1. CASE Next
  BY <1>1, MsgKept, TypesKept
<1>2. CASE UNCHANGED vars
  BY <1>2 DEF vars, parsed, TypeOK, MsgInv, WithdrawnLength, AttributesLength
<1> QED BY <1>1, <1>2

\* The parser never leaves the types of its state: an offset is one, every
\* prefix has four octets of address whatever the length octet said, and every
\* attribute is kept under an octet (bgpparse.py:53-60, 130-163 and 184-212).
THEOREM UpdateTypesAreRight == Spec => []TypeOK
<1>1. Init => TypeOK /\ MsgInv
  BY InitTypes
<1>2. (TypeOK /\ MsgInv) /\ [Next]_vars => (TypeOK /\ MsgInv)'
  BY TypesGoOn
<1> QED BY <1>1, <1>2, PTL DEF Spec
-----------------------------------------------------------------------------
(* The loops over prefixes *)

\* The prefixes that have been read are the first that were sent.
ReadSoFar(list, s) ==
    /\ list \in Seq(ParsedPrefix)
    /\ Len(list) <= Len(s)
    /\ \A i \in 1 .. Len(list) : list[i] = s[i]

LEMMA PrefixIsRead ==
    ASSUME NEW s, ArePrefixes(s), Cut(Field, EncodePrefixes(s)),
           NEW k \in 0 .. Len(s), offset = PrefixAt(s, k), ~AtEnd
    PROVE  /\ k + 1 \in 1 .. Len(s)
           /\ PrefixEnd = PrefixAt(s, k + 1)
           /\ PrefixEnd <= Len(EncodePrefixes(s))
           /\ PrefixEnd <= Len(Field) => PrefixRead = s[k + 1]
<1> DEFINE enc == EncodePrefixes(s)
           f == Field
           n == Len(Field)
           m == Len(enc)
           l == Len(s)
           p == s[k + 1]
           b == ByteLength(p.length)
           at == PrefixAt(s, k)
           next == PrefixAt(s, k + 1)
<1>1. /\ n \in Nat /\ m \in Nat /\ n <= m /\ \A i \in 1 .. n : f[i] = enc[i]
  BY DEF Cut
<1>2. l \in Nat /\ at \in Nat /\ PrefixAt(s, l) = m
  BY PrefixPlaces
<1>3. at < n /\ offset = at
  BY <1>1, <1>2 DEF AtEnd
<1>4. k # l
  BY <1>1, <1>2, <1>3
<1>5. k \in 0 .. l - 1 /\ k + 1 \in 1 .. l
  BY <1>2, <1>4
<1>6. /\ b \in 0 .. 4 /\ p \in SentPrefix
      /\ next = at + (b + 1) /\ next <= m
      /\ enc[at + 1] = p.length
      /\ \A i \in 1 .. b : enc[at + (i + 1)] = p.address[i]
      /\ \A i \in 1 .. 4 : ~(i <= b) => p.address[i] = 0
  <2>1. PrefixStands(s, k)
    BY <1>5, PrefixPlaces
  <2> QED BY <2>1 DEF PrefixStands
<1> HIDE DEF enc, f, n, m, l, p, at, next
<1>7. f[at + 1] = p.length
  <2>1. at + 1 \in 1 .. n
    BY <1>1, <1>2, <1>3
  <2> QED BY <1>1, <1>6, <2>1
<1>8. At(Field, offset) = p.length
  BY <1>3, <1>7 DEF At, f
<1>9. PrefixEnd = at + 1 + b
  BY <1>3, <1>8 DEF PrefixEnd
<1> HIDE DEF b
<1>10. PrefixEnd = next
  BY <1>2, <1>6, <1>9
<1>11. ASSUME PrefixEnd <= n
       PROVE  PrefixRead = p
  <2>1. ASSUME NEW i \in 1 .. 4, i <= b
        PROVE  At(Field, offset + i) = p.address[i]
    <3>1. i \in 1 .. b /\ at + (i + 1) \in 1 .. n /\ at + i + 1 = at + (i + 1)
      BY <1>1, <1>2, <1>6, <1>9, <1>11, <2>1
    <3>2. f[at + (i + 1)] = p.address[i]
      BY <1>1, <1>6, <3>1
    <3> QED BY <1>3, <3>1, <3>2 DEF At, f
  <2>2. p = [length |-> p.length, address |-> p.address] /\ p.address \in [1 .. 4 -> Octet]
    BY <1>6 DEF SentPrefix
  <2>3. PrefixRead = [length |-> p.length,
                      address |-> [i \in 1 .. 4 |-> IF i <= b THEN At(Field, offset + i) ELSE 0]]
    BY <1>8 DEF PrefixRead, b
  <2>4. [i \in 1 .. 4 |-> IF i <= b THEN At(Field, offset + i) ELSE 0] = p.address
    <3>1. \A i \in 1 .. 4 : (IF i <= b THEN At(Field, offset + i) ELSE 0) = p.address[i]
      BY <1>6, <2>1
    <3>2. p.address = [i \in 1 .. 4 |-> p.address[i]]
      BY <2>2
    <3> QED BY <3>1, <3>2
  <2> QED BY <2>2, <2>3, <2>4
<1> QED BY <1>5, <1>6, <1>10, <1>11 DEF n, m, l, p, next, enc

LEMMA PrefixesAreRead ==
    ASSUME NEW s, ArePrefixes(s), Field = EncodePrefixes(s), NEW list,
           ReadSoFar(list, s), offset = PrefixAt(s, Len(list)), AtEnd
    PROVE  list = s
<1> DEFINE k == Len(list)
           l == Len(s)
           m == Len(EncodePrefixes(s))
<1>1. /\ l \in Nat /\ m \in Nat /\ PrefixAt(s, l) = m
      /\ \A j \in 0 .. l : PrefixAt(s, j) \in 0 .. m
      /\ \A j \in 0 .. l - 1 : /\ ByteLength(s[j + 1].length) \in 0 .. 4
                               /\ PrefixAt(s, j + 1) = PrefixAt(s, j) + (ByteLength(s[j + 1].length) + 1)
                               /\ PrefixAt(s, j + 1) <= m
  <2>1. EncodePrefixes(s) \in Seq(Octet)
    BY PrefixPlaces
  <2>2. m \in Nat
    BY <2>1
  <2> QED BY <2>2, PrefixPlaces DEF PrefixStands
<1>2. k \in Nat /\ k <= l /\ list \in Seq(ParsedPrefix) /\ \A i \in 1 .. k : list[i] = s[i]
  BY DEF ReadSoFar
<1>3. m <= PrefixAt(s, k)
  BY DEF AtEnd
<1> HIDE DEF k, l, m
<1>4. k = l
  <2> SUFFICES ASSUME k # l PROVE FALSE
    OBVIOUS
  <2>1. k \in 0 .. l - 1 /\ k \in 0 .. l
    BY <1>1, <1>2
  <2> DEFINE b == ByteLength(s[k + 1].length)
             x == PrefixAt(s, k)
             y == PrefixAt(s, k + 1)
  <2>2. b \in 0 .. 4 /\ x \in 0 .. m /\ y = x + (b + 1) /\ y <= m /\ m <= x
    BY <1>1, <1>3, <2>1
  <2> HIDE DEF b, x, y
  <2> QED BY <1>1, <2>2
<1>5. s \in Seq(ParsedPrefix)
  <2>1. SentPrefix \subseteq ParsedPrefix
    BY DEF SentPrefix, ParsedPrefix, Octet
  <2> QED BY <2>1, SeqMonotonic DEF ArePrefixes
<1> QED BY <1>2, <1>4, <1>5, SeqEqual DEF k, l

LEMMA OneMoreRead ==
    ASSUME NEW s, ArePrefixes(s), NEW list, ReadSoFar(list, s),
           NEW p \in ParsedPrefix, Len(list) + 1 \in 1 .. Len(s), p = s[Len(list) + 1]
    PROVE  ReadSoFar(Append(list, p), s) /\ Len(Append(list, p)) = Len(list) + 1
<1> DEFINE more == Append(list, p)
           k == Len(list)
<1>1. list \in Seq(ParsedPrefix) /\ k \in Nat /\ \A i \in 1 .. k : list[i] = s[i]
  BY DEF ReadSoFar
<1>2. /\ more \in Seq(ParsedPrefix) /\ Len(more) = k + 1
      /\ \A i \in 1 .. k : more[i] = list[i]
      /\ more[k + 1] = p
  BY <1>1, AppendProperties
<1>3. k + 1 \in 1 .. Len(s) /\ p = s[k + 1] /\ Len(s) \in Nat
  BY DEF ArePrefixes
<1> HIDE DEF more, k
<1>4. \A i \in 1 .. k + 1 : more[i] = s[i]
  <2> TAKE i \in 1 .. k + 1
  <2>1. CASE i = k + 1
    BY <1>2, <1>3, <2>1
  <2>2. CASE i # k + 1
    <3>1. i \in 1 .. k
      BY <1>1, <2>2
    <3> QED BY <1>1, <1>2, <3>1
  <2> QED BY <2>1, <2>2
<1> QED BY <1>2, <1>3, <1>4 DEF ReadSoFar, more, k

\* A loop over prefixes stands where the last prefix in its list ends.
PrefixInv ==
    /\ phase \in {"header", "lengths"} => withdrawn_prefixes = << >> /\ offset = 0
    /\ phase \in {"header", "lengths", "withdrawn"} => prefixes = << >>
    /\ phase = "withdrawn" =>
          /\ ReadSoFar(withdrawn_prefixes, sent.withdrawn)
          /\ offset = PrefixAt(sent.withdrawn, Len(withdrawn_prefixes))
    /\ phase \in Reading \ {"withdrawn"} => withdrawn_prefixes = sent.withdrawn
    /\ phase \in Reading \ {"withdrawn"} /\ sent.miscounted = 0 =>
          ReadSoFar(prefixes, sent.prefixes)
    /\ phase = "nlri" /\ sent.miscounted = 0 =>
          offset = PrefixAt(sent.prefixes, Len(prefixes))
    /\ phase \in {"attributes", "done"} /\ Whole => prefixes = sent.prefixes

LEMMA NothingRead ==
    ASSUME NEW s, ArePrefixes(s)
    PROVE  ReadSoFar(<< >>, s) /\ PrefixAt(s, Len(<< >>)) = 0
<1>1. Len(s) \in Nat /\ PrefixAt(s, 0) = 0
  BY PrefixPlaces
<1>2. << >> \in Seq(ParsedPrefix) /\ Len(<< >>) = 0
  OBVIOUS
<1> QED BY <1>1, <1>2 DEF ReadSoFar

LEMMA WholeNLRI ==
    ASSUME MsgInv, phase \in Reading \ {"withdrawn"}, Whole
    PROVE  NLRI = EncodePrefixes(sent.prefixes)
<1>1. Len(msg) = Len(EncodeUpdate(sent)) /\ sent.miscounted = 0
  BY DEF MsgInv, Whole
<1>2. Cut(NLRI, EncodePrefixes(sent.prefixes)) /\ Len(NLRI) = Len(EncodePrefixes(sent.prefixes))
  BY <1>1, FieldsAre
<1> QED BY <1>2, SeqEqual DEF Cut

LEMMA SentIsParsed ==
    ASSUME NEW p \in SentPrefix
    PROVE  p \in ParsedPrefix
BY DEF SentPrefix, ParsedPrefix, Octet

LEMMA PrefixesKept ==
    ASSUME MsgInv, PrefixInv, Next
    PROVE  PrefixInv'
<1> DEFINE w == sent.withdrawn
           p == sent.prefixes
<1>1. ArePrefixes(w) /\ ArePrefixes(p)
  BY UpdateOctets DEF MsgInv
<1>2. sent' = sent /\ bgp_length' = bgp_length
  BY DEF Next, ParseHeader, ParseLengths, GetWithdrawn, GetAnnounced, CutPrefix, EndWithdrawn,
         EndNLRI, ParseAttribute, BadAttribute, CutAttributeHeader, EndAttributes
<1>3. Whole' = Whole
  BY <1>2 DEF Whole
<1>4. CASE ParseHeader
  <2>1. /\ phase = "header" /\ phase' \in {"lengths", "AssertionError"} /\ offset' = 0
        /\ UNCHANGED <<withdrawn_prefixes, prefixes>>
    BY <1>4 DEF ParseHeader, Go, parsed
  <2> QED BY <2>1 DEF PrefixInv, Reading
<1>5. CASE ParseLengths
  <2>1. /\ phase = "lengths" /\ phase' \in {"struct.error", "AssertionError", "withdrawn"}
        /\ offset' = 0 /\ UNCHANGED <<withdrawn_prefixes, prefixes>>
    BY <1>5 DEF ParseLengths, Go, parsed
  <2>2. withdrawn_prefixes' = << >> /\ prefixes' = << >>
    BY <2>1 DEF PrefixInv
  <2>3. /\ ReadSoFar(withdrawn_prefixes', w')
        /\ offset' = PrefixAt(w', Len(withdrawn_prefixes'))
    BY <1>1, <1>2, <2>1, <2>2, NothingRead
  <2> QED BY <2>1, <2>2, <2>3 DEF PrefixInv, Reading
<1>6. CASE GetWithdrawn
  <2>1. /\ phase = "withdrawn" /\ phase' = phase /\ prefixes' = prefixes
        /\ ~AtEnd /\ PrefixEnd <= Len(Field) /\ offset' = PrefixEnd
        /\ withdrawn_prefixes' = Append(withdrawn_prefixes, PrefixRead)
    BY <1>6 DEF GetWithdrawn, GetPrefix
  <2> DEFINE list == withdrawn_prefixes
             k == Len(list)
  <2>2. ReadSoFar(list, w) /\ offset = PrefixAt(w, k) /\ prefixes = << >>
    BY <2>1 DEF PrefixInv
  <2>3. Field = EncodePrefixes(w) /\ Field \in Seq(Octet)
    BY <2>1, FieldsAre DEF Field, Reading
  <2>4. Cut(Field, EncodePrefixes(w))
    BY <2>3, CutRefl
  <2>5. k \in 0 .. Len(w)
    BY <1>1, <2>2 DEF ReadSoFar, ArePrefixes
  <2>6. /\ k + 1 \in 1 .. Len(w) /\ PrefixEnd = PrefixAt(w, k + 1) /\ PrefixRead = w[k + 1]
    <3> HIDE DEF k, w
    <3> QED BY <1>1, <2>1, <2>2, <2>4, <2>5, PrefixIsRead DEF k
  <2>7. PrefixRead \in ParsedPrefix
    <3>1. w[k + 1] \in SentPrefix
      BY <1>1, <2>6 DEF ArePrefixes
    <3> QED BY <2>6, <3>1, SentIsParsed
  <2>8. ReadSoFar(list', w) /\ Len(list') = k + 1
    <3> HIDE DEF w
    <3> QED BY <1>1, <2>1, <2>2, <2>6, <2>7, OneMoreRead
  <2> QED BY <1>2, <2>1, <2>2, <2>6, <2>8 DEF PrefixInv, Reading
<1>7. CASE GetAnnounced
  <2>1. /\ phase = "nlri" /\ phase' = phase /\ withdrawn_prefixes' = withdrawn_prefixes
        /\ ~AtEnd /\ PrefixEnd <= Len(Field) /\ offset' = PrefixEnd
        /\ prefixes' = Append(prefixes, PrefixRead)
    BY <1>7 DEF GetAnnounced, GetPrefix
  <2>2. withdrawn_prefixes' = sent.withdrawn
    BY <2>1 DEF PrefixInv, Reading
  <2>3. ASSUME sent.miscounted = 0
        PROVE  ReadSoFar(prefixes', p) /\ offset' = PrefixAt(p, Len(prefixes'))
    <3> DEFINE list == prefixes
               k == Len(list)
    <3>1. ReadSoFar(list, p) /\ offset = PrefixAt(p, k)
      BY <2>1, <2>3 DEF PrefixInv, Reading
    <3>2. Cut(Field, EncodePrefixes(p))
      BY <2>1, <2>3, FieldsAre DEF Field, Reading
    <3>3. k \in 0 .. Len(p)
      BY <1>1, <3>1 DEF ReadSoFar, ArePrefixes
    <3>4. /\ k + 1 \in 1 .. Len(p) /\ PrefixEnd = PrefixAt(p, k + 1) /\ PrefixRead = p[k + 1]
      <4> HIDE DEF k, p
      <4> QED BY <1>1, <2>1, <3>1, <3>2, <3>3, PrefixIsRead DEF k
    <3>5. PrefixRead \in ParsedPrefix
      <4>1. p[k + 1] \in SentPrefix
        BY <1>1, <3>4 DEF ArePrefixes
      <4> QED BY <3>4, <4>1, SentIsParsed
    <3>6. ReadSoFar(list', p) /\ Len(list') = k + 1
      <4> HIDE DEF p
      <4> QED BY <1>1, <2>1, <3>1, <3>4, <3>5, OneMoreRead
    <3> QED BY <2>1, <3>4, <3>6
  <2> QED BY <1>2, <2>1, <2>2, <2>3 DEF PrefixInv, Reading
<1>8. CASE EndWithdrawn
  <2>1. /\ phase = "withdrawn" /\ phase' \in {"nlri", "AssertionError"} /\ AtEnd
        /\ offset' = 0 /\ UNCHANGED <<withdrawn_prefixes, prefixes>>
    BY <1>8 DEF EndWithdrawn, Go, parsed
  <2>2. /\ ReadSoFar(withdrawn_prefixes, w) /\ offset = PrefixAt(w, Len(withdrawn_prefixes))
        /\ prefixes = << >>
    BY <2>1 DEF PrefixInv
  <2>3. Field = EncodePrefixes(w)
    BY <2>1, FieldsAre DEF Field, Reading
  <2>4. withdrawn_prefixes = w
    <3> HIDE DEF w
    <3> QED BY <1>1, <2>1, <2>2, <2>3, PrefixesAreRead
  <2>5. ReadSoFar(prefixes', p') /\ offset' = PrefixAt(p', Len(prefixes'))
    BY <1>1, <1>2, <2>1, <2>2, NothingRead
  <2> QED BY <1>2, <2>1, <2>4, <2>5 DEF PrefixInv, Reading
<1>9. CASE EndNLRI
  <2>1. /\ phase = "nlri" /\ phase' = "attributes" /\ AtEnd
        /\ UNCHANGED <<withdrawn_prefixes, prefixes>>
    BY <1>9 DEF EndNLRI, Go, parsed
  <2>2. /\ withdrawn_prefixes = sent.withdrawn
        /\ sent.miscounted = 0 =>
              ReadSoFar(prefixes, p) /\ offset = PrefixAt(p, Len(prefixes))
    BY <2>1 DEF PrefixInv, Reading
  <2>3. ASSUME Whole PROVE prefixes = p
    <3>1. Field = EncodePrefixes(p) /\ sent.miscounted = 0
      BY <2>1, <2>3, WholeNLRI DEF Field, Reading, Whole
    <3> HIDE DEF p
    <3> QED BY <1>1, <2>1, <2>2, <3>1, PrefixesAreRead
  <2> QED BY <1>2, <1>3, <2>1, <2>2, <2>3 DEF PrefixInv, Reading
<1>10. CASE ParseAttribute \/ EndAttributes
  <2>1. /\ phase = "attributes" /\ phase' \in {"attributes", "done"}
        /\ UNCHANGED <<withdrawn_prefixes, prefixes>>
    BY <1>10 DEF ParseAttribute, EndAttributes, Go
  <2> QED BY <1>2, <1>3, <2>1 DEF PrefixInv, Reading
<1>11. CASE CutPrefix \/ BadAttribute \/ CutAttributeHeader
  <2>1. phase' \in {"AssertionError", "SystemExit", "struct.error"}
    BY <1>11 DEF CutPrefix, BadAttribute, CutAttributeHeader, Go
  <2> QED BY <2>1 DEF PrefixInv, Reading
<1> QED BY <1>4, <1>5, <1>6, <1>7, <1>8, <1>9, <1>10, <1>11 DEF Next
-----------------------------------------------------------------------------
(* Paths *)

\* The paths in attr from k on, where g has those from the next segment on.
PathsFrom(attr, size, g, k) ==
    CASE k = Len(attr) -> {<< >>}
      [] SegmentOK(attr, size, k) ->
            {<<SegmentAt(attr, size, k)>> \o rest : rest \in g[NextSegment(attr, size, k)]}
      [] OTHER -> {}
Paths(attr, size) ==
    CHOOSE g : g = [k \in 0 .. Len(attr) |-> PathsFrom(attr, size, g, k)]

LEMMA SegmentsArePaths ==
    ASSUME NEW attr, NEW size
    PROVE  GetSegments(attr, size) = Paths(attr, size)[0]
BY DEF GetSegments, Paths, PathsFrom

LEMMA DownInduction ==
    ASSUME NEW n \in Nat, NEW A,
           \A k \in 0 .. n : (\A j \in k + 1 .. n : j \in A) => k \in A
    PROVE  \A k \in 0 .. n : k \in A
<1> DEFINE B == {d \in Nat : \A j \in 0 .. n : n - j < d => j \in A}
<1>1. 0 \in B
  OBVIOUS
<1>2. ASSUME NEW d \in Nat, d \in B
      PROVE  d + 1 \in B
  <2> SUFFICES ASSUME NEW k \in 0 .. n, n - k < d + 1 PROVE k \in A
    OBVIOUS
  <2>1. \A j \in k + 1 .. n : j \in 0 .. n /\ n - j < d
    OBVIOUS
  <2>2. \A j \in k + 1 .. n : j \in A
    BY <1>2, <2>1
  <2> QED BY <2>2
<1>3. n + 1 \in B
  <2> HIDE DEF B
  <2> QED BY <1>1, <1>2, SetInduction
<1>4. \A j \in 0 .. n : n - j < n + 1
  OBVIOUS
<1> QED BY <1>3, <1>4

LEMMA NextIsLater ==
    ASSUME NEW attr \in Seq(Octet), NEW size \in {2, 4}, NEW k \in 0 .. Len(attr),
           SegmentOK(attr, size, k)
    PROVE  NextSegment(attr, size, k) \in k + 1 .. Len(attr) /\ k # Len(attr)
<1> DEFINE n == Len(attr)
           c == attr[k + 1 + 1]
<1>1. n \in Nat /\ k + 4 <= n /\ NextSegment(attr, size, k) <= n
  BY DEF SegmentOK
<1>2. k + 1 + 1 \in 1 .. n
  BY <1>1
<1>3. c \in Octet
  BY <1>2
<1>4. NextSegment(attr, size, k) = k + 2 + size * c
  BY DEF NextSegment, At
<1> HIDE DEF c, n
<1>5. c \in Nat
  BY <1>3 DEF Octet
<1>6. size * c \in Nat
  <2>1. CASE size = 2
    BY <1>5, <2>1
  <2>2. CASE size = 4
    BY <1>5, <2>2
  <2> QED BY <2>1, <2>2
<1>7. k + 2 + size * c \in k + 1 .. n
  <2> DEFINE x == size * c
  <2>1. x \in Nat /\ k + 2 + x <= n
    BY <1>1, <1>4, <1>6
  <2> HIDE DEF x
  <2>2. k + 2 + x \in k + 1 .. n
    BY <1>1, <2>1
  <2> QED BY <2>2 DEF x
<1> QED BY <1>1, <1>4, <1>7 DEF n

LEMMA PathsFromSame ==
    ASSUME NEW attr \in Seq(Octet), NEW size \in {2, 4}, NEW k \in 0 .. Len(attr),
           NEW g, NEW h, \A j \in k + 1 .. Len(attr) : g[j] = h[j]
    PROVE  PathsFrom(attr, size, g, k) = PathsFrom(attr, size, h, k)
<1>1. CASE SegmentOK(attr, size, k)
  <2>1. g[NextSegment(attr, size, k)] = h[NextSegment(attr, size, k)]
    BY <1>1, NextIsLater
  <2> QED BY <2>1 DEF PathsFrom
<1>2. CASE ~SegmentOK(attr, size, k)
  BY <1>2 DEF PathsFrom
<1> QED BY <1>1, <1>2

LEMMA PathsExist ==
    ASSUME NEW attr \in Seq(Octet), NEW size \in {2, 4}
    PROVE  \A k \in 0 .. Len(attr) :
              Paths(attr, size)[k] = PathsFrom(attr, size, Paths(attr, size), k)
<1> DEFINE n == Len(attr)
           From(g, k) == PathsFrom(attr, size, g, k)
           Solves(g, m) == g = [k \in m .. n |-> From(g, k)]
           A == {m \in 0 .. n : \E g : Solves(g, m)}
<1>1. n \in Nat
  OBVIOUS
<1>2. \A k \in 0 .. n : \A g, h : (\A j \in k + 1 .. n : g[j] = h[j]) => From(g, k) = From(h, k)
  BY PathsFromSame
<1> HIDE DEF n, From
<1>3. ASSUME NEW m \in 0 .. n, \A j \in m + 1 .. n : j \in A
      PROVE  m \in A
  <2>1. \E g0 : \A k \in m + 1 .. n : g0[k] = From(g0, k)
    <3>1. CASE m = n
      BY <1>1, <3>1
    <3>2. CASE m # n
      <4>1. m + 1 \in A
        BY <1>1, <1>3, <3>2
      <4> QED BY <4>1
    <3> QED BY <3>1, <3>2
  <2>2. PICK g0 : \A k \in m + 1 .. n : g0[k] = From(g0, k)
    BY <2>1
  <2> DEFINE g == [k \in m .. n |-> IF k = m THEN From(g0, m) ELSE g0[k]]
  <2>3. \A j \in m + 1 .. n : g[j] = g0[j]
    BY <1>1
  <2>4. g[m] = From(g0, m)
    BY <1>1
  <2>5. g = [k \in m .. n |-> g[k]]
    OBVIOUS
  <2> HIDE DEF g
  <2>6. ASSUME NEW k \in m .. n PROVE g[k] = From(g, k)
    <3>1. k \in 0 .. n /\ \A j \in k + 1 .. n : j \in m + 1 .. n
      BY <1>1
    <3>2. From(g, k) = From(g0, k)
      BY <1>2, <2>3, <3>1
    <3>3. CASE k = m
      BY <2>4, <3>2, <3>3
    <3>4. CASE k # m
      <4>1. k \in m + 1 .. n
        BY <1>1, <3>4
      <4> QED BY <2>2, <2>3, <3>2, <4>1
    <3> QED BY <3>3, <3>4
  <2>7. Solves(g, m)
    BY <2>5, <2>6
  <2> QED BY <2>7
<1>4. 0 \in A
  <2>1. \A m \in 0 .. n : m \in A
    <3> HIDE DEF A
    <3> QED BY <1>1, <1>3, DownInduction
  <2>2. 0 \in 0 .. n
    BY <1>1
  <2> HIDE DEF A
  <2> QED BY <2>1, <2>2
<1>5. PICK g : Solves(g, 0)
  BY <1>4
<1> DEFINE p == Paths(attr, size)
<1>6. p = CHOOSE h : Solves(h, 0)
  BY DEF Paths, From, n
<1>7. Solves(p, 0)
  <2> HIDE DEF p, Solves
  <2> QED BY <1>5, <1>6
<1> HIDE DEF p
<1>8. \A k \in 0 .. n : p[k] = From(p, k)
  BY <1>7
<1> QED BY <1>8 DEF p, From, n

IsOne(S) == S = {} \/ \E x : S = {x}

\* A path can be read in one way only, and is empty only where nothing is left.
LEMMA OnePath ==
    ASSUME NEW attr \in Seq(Octet), NEW size \in {2, 4}
    PROVE  /\ IsOne(GetSegments(attr, size))
           /\ << >> \in GetSegments(attr, size) => attr = << >>
           /\ attr = << >> => GetSegments(attr, size) = {<< >>}
<1> DEFINE n == Len(attr)
           p == Paths(attr, size)
           segments == {SegmentAt(attr, size, k) : k \in 0 .. n}
           One(k) == \/ p[k] = {}
                     \/ \E x \in Seq(segments) : p[k] = {x} /\ (x = << >> => k = n)
           A == {k \in 0 .. n : One(k)}
<1>1. n \in Nat
  OBVIOUS
<1>2. \A k \in 0 .. n : p[k] = PathsFrom(attr, size, p, k)
  BY PathsExist
<1>3. p[n] = {<< >>}
  <2>1. n \in 0 .. n
    BY <1>1
  <2>2. p[n] = PathsFrom(attr, size, p, n)
    BY <1>2, <2>1
  <2>3. ~SegmentOK(attr, size, n)
    BY <1>1 DEF SegmentOK
  <2> HIDE DEF p
  <2> QED BY <2>2, <2>3 DEF PathsFrom
<1> HIDE DEF p
<1>4. ASSUME NEW k \in 0 .. n, \A j \in k + 1 .. n : j \in A
      PROVE  k \in A
  <2>1. CASE k = n
    <3>1. << >> \in Seq(segments)
      OBVIOUS
    <3> QED BY <1>3, <2>1, <3>1
  <2>2. CASE k # n /\ SegmentOK(attr, size, k)
    <3> DEFINE next == NextSegment(attr, size, k)
               s == SegmentAt(attr, size, k)
    <3>1. next \in k + 1 .. n
      BY <2>2, NextIsLater
    <3>2. One(next)
      BY <1>4, <3>1
    <3>3. p[k] = {<<s>> \o rest : rest \in p[next]}
      BY <1>2, <2>2 DEF PathsFrom
    <3>4. s \in segments
      OBVIOUS
    <3> HIDE DEF next, s, segments
    <3>5. CASE p[next] = {}
      BY <3>3, <3>5
    <3>6. CASE p[next] # {}
      <4>1. PICK x \in Seq(segments) : p[next] = {x}
        BY <3>2, <3>6
      <4> DEFINE y == <<s>> \o x
      <4>2. p[k] = {y}
        BY <3>3, <4>1
      <4>3. y \in Seq(segments) /\ y # << >>
        <5>1. <<s>> \in Seq(segments) /\ Len(<<s>>) = 1
          BY <3>4
        <5> DEFINE h == <<s>>
        <5>2. h \in Seq(segments) /\ Len(h) = 1 /\ y = h \o x
          BY <5>1
        <5> HIDE DEF h, y
        <5>a. h \in Seq(segments) /\ x \in Seq(segments)
          BY <4>1, <5>2
        <5>b. h \o x \in Seq(segments) /\ Len(h \o x) = Len(h) + Len(x)
          BY <5>a, ConcatProperties
        <5>3. y \in Seq(segments) /\ Len(y) = Len(h) + Len(x)
          BY <5>2, <5>b
        <5>4. Len(x) \in Nat
          BY <4>1
        <5>5. Len(y) # 0
          BY <5>2, <5>3, <5>4
        <5> QED BY <5>3, <5>5
      <4> HIDE DEF y
      <4> QED BY <4>2, <4>3
    <3> QED BY <3>5, <3>6
  <2>3. CASE k # n /\ ~SegmentOK(attr, size, k)
    BY <1>2, <2>3 DEF PathsFrom
  <2> QED BY <2>1, <2>2, <2>3
<1>5. 0 \in A
  <2>1. \A k \in 0 .. n : k \in A
    <3> HIDE DEF A
    <3> QED BY <1>1, <1>4, DownInduction
  <2>2. 0 \in 0 .. n
    BY <1>1
  <2> HIDE DEF A
  <2> QED BY <2>1, <2>2
<1>6. GetSegments(attr, size) = p[0]
  BY SegmentsArePaths DEF p
<1>7. n = 0 <=> attr = << >>
  BY EmptySeq
<1> HIDE DEF n, segments
<1>8. IsOne(p[0]) /\ (<< >> \in p[0] => n = 0)
  BY <1>5 DEF IsOne
<1> QED BY <1>3, <1>6, <1>7, <1>8

LEMMA KeptOfPath ==
    ASSUME NEW attr, NEW code \in {AS_PATH, AS4_PATH}
    PROVE  Kept(code, attr) = ReadPath(attr) \ {<< >>}
<1>1. code # 8 /\ code # 32 /\ code \notin {7, 18}
  BY DEF AS_PATH, AS4_PATH
<1> QED BY <1>1 DEF Kept

LEMMA KeptIsOne ==
    ASSUME NEW attr \in Seq(Octet), NEW code
    PROVE  IsOne(Kept(code, attr))
<1>1. IsOne(ReadPath(attr))
  <2>1. 2 \in {2, 4} /\ 4 \in {2, 4}
    OBVIOUS
  <2>2. IsOne(GetSegments(attr, 2)) /\ IsOne(GetSegments(attr, 4))
    BY <2>1, OnePath
  <2> QED BY <2>2 DEF ReadPath
<1>2. IsOne(ReadPath(attr) \ {<< >>})
  BY <1>1 DEF IsOne
<1>3. CASE code \in {AS_PATH, AS4_PATH}
  <2>1. Kept(code, attr) = ReadPath(attr) \ {<< >>}
    BY <1>3, KeptOfPath
  <2> QED BY <1>2, <2>1
<1>4. CASE ~(code \in {AS_PATH, AS4_PATH})
  <2>1. CASE code = 8
    <3>1. Kept(code, attr) = {[i \in 1 .. Len(attr) \div 4 |->
                                  Slice(attr, 4 * (i - 1), 4 * (i - 1) + 2)]}
      BY <1>4, <2>1 DEF Kept
    <3> QED BY <3>1 DEF IsOne
  <2>2. CASE code = 32
    <3>1. Kept(code, attr) = {[i \in 1 .. Len(attr) \div 12 |->
                                  Slice(attr, 12 * (i - 1), 12 * (i - 1) + 4)]}
      BY <1>4, <2>2 DEF Kept
    <3> QED BY <3>1 DEF IsOne
  <2>3. CASE code \notin {8, 32} /\ code \in {7, 18} /\ Len(attr) = 8
    <3>1. Kept(code, attr) = {Slice(attr, 0, 4) \o Slice(attr, 2, 6)}
      BY <1>4, <2>3 DEF Kept
    <3> QED BY <3>1 DEF IsOne
  <2>4. CASE code \notin {8, 32} /\ ~(code \in {7, 18} /\ Len(attr) = 8)
    <3>1. Kept(code, attr) = {attr}
      BY <1>4, <2>4 DEF Kept
    <3> QED BY <3>1 DEF IsOne
  <2> QED BY <2>1, <2>2, <2>3, <2>4
<1> QED BY <1>3, <1>4

SegmentItem(segment) == <<segment.type, Len(segment.ases)>> \o FlattenSeq(segment.ases)
SegmentItems(path) == [i \in DOMAIN path |-> SegmentItem(path[i])]

\* A row of ASes of the same size, a segment of them, what it is encoded as,
\* that this stands at k in attr, and a path of such segments.
IsRow(size, s) == s \in Seq([1 .. size -> Octet])
IsSegment(size, x) ==
    x.type \in {1, 2} /\ IsRow(size, x.ases) /\ Len(x.ases) \in 1 .. 255
EncodesSegment(size, e, count) ==
    /\ e \in Seq(Octet) /\ Len(e) = 2 + size * count
    /\ e[1] \in {1, 2} /\ e[2] = count
Stands(size, attr, k, e, count) ==
    /\ attr \in Seq(Octet) /\ k \in Nat /\ count \in 1 .. 255
    /\ EncodesSegment(size, e, count) /\ k + Len(e) <= Len(attr)
    /\ \A i \in 1 .. Len(e) : attr[k + i] = e[i]
IsPathOf(size, path) ==
    /\ Len(path) \in Nat /\ DOMAIN path = 1 .. Len(path)
    /\ \A j \in 1 .. Len(path) : IsSegment(size, path[j])

LEMMA RowOfOctets ==
    ASSUME NEW size \in {2, 4}, NEW s, IsRow(size, s)
    PROVE  /\ Len(s) \in Nat /\ s \in Seq(Seq(Octet))
           /\ \A i \in 1 .. Len(s) : Len(s[i]) = size
<1> DEFINE l == Len(s)
<1>1. \A i \in 1 .. l : s[i] \in [1 .. size -> Octet]
  BY DEF IsRow
<1>2. l \in Nat /\ s = [i \in 1 .. l |-> s[i]]
  BY DEF IsRow
<1> HIDE DEF l
<1>3. ASSUME NEW i \in 1 .. l PROVE s[i] \in Seq(Octet) /\ Len(s[i]) = size
  <2> DEFINE a == s[i]
  <2>1. a \in [1 .. size -> Octet]
    BY <1>1
  <2> HIDE DEF a
  <2>2. size \in Nat
    OBVIOUS
  <2>3. a \in Seq(Octet) /\ Len(a) = size
    BY <2>1, <2>2
  <2> QED BY <2>3 DEF a
<1>4. \A i \in 1 .. l : s[i] \in Seq(Octet)
  BY <1>3
<1>5. s \in Seq(Seq(Octet))
  BY <1>2, <1>4
<1> QED BY <1>2, <1>3, <1>5 DEF l

LEMMA FlatLength ==
    ASSUME NEW size \in {2, 4}, NEW s, IsRow(size, s)
    PROVE  FlattenSeq(s) \in Seq(Octet) /\ Len(FlattenSeq(s)) = size * Len(s)
<1> DEFINE l == Len(s)
           A == {k \in Nat : k <= l => Begin(s, k) = size * k}
<1>1. /\ l \in Nat /\ s \in Seq(Seq(Octet))
      /\ \A i \in 1 .. l : Len(s[i]) = size
  BY RowOfOctets
<1>2. s \in Seq(Seq(Octet))
  BY <1>1
<1>3. /\ FlattenSeq(s) \in Seq(Octet) /\ Begin(s, 0) = 0
      /\ Begin(s, l) = Len(FlattenSeq(s))
      /\ \A k \in 0 .. l : Begin(s, k) \in 0 .. Len(FlattenSeq(s))
      /\ \A k \in 0 .. l - 1 : Begin(s, k + 1) = Begin(s, k) + Len(s[k + 1])
  BY <1>2, Places
<1> HIDE DEF l
<1>4. 0 \in A
  BY <1>3
<1>5. ASSUME NEW k \in Nat, k \in A
      PROVE  k + 1 \in A
  <2> SUFFICES ASSUME k + 1 <= l PROVE Begin(s, k + 1) = size * (k + 1)
    OBVIOUS
  <2>1. k \in 0 .. l - 1 /\ k + 1 \in 1 .. l /\ k <= l
    BY <1>1
  <2>2. Begin(s, k) = size * k
    BY <1>5, <2>1
  <2>3. Begin(s, k + 1) = Begin(s, k) + size
    BY <1>1, <1>3, <2>1
  <2>4. size * k + size = size * (k + 1)
    <3>1. CASE size = 2
      BY <3>1
    <3>2. CASE size = 4
      BY <3>2
    <3> QED BY <3>1, <3>2
  <2> QED BY <2>2, <2>3, <2>4
<1>6. l \in A
  <2> HIDE DEF A
  <2> QED BY <1>1, <1>4, <1>5, SetInduction
<1>7. Begin(s, l) = size * l
  BY <1>1, <1>6
<1> QED BY <1>3, <1>7 DEF l

LEMMA EncodedSegment ==
    ASSUME NEW size \in {2, 4}, NEW x, IsSegment(size, x)
    PROVE  EncodesSegment(size, SegmentItem(x), Len(x.ases))
<1> DEFINE n == Len(x.ases)
           two == <<x.type, n>>
           flat == FlattenSeq(x.ases)
           e == SegmentItem(x)
           m == size * n
<1>1. x.type \in {1, 2} /\ IsRow(size, x.ases) /\ n \in 1 .. 255
  BY DEF IsSegment
<1>2. flat \in Seq(Octet) /\ Len(flat) = m
  BY <1>1, FlatLength
<1>3. e = two \o flat
  BY DEF SegmentItem
<1> HIDE DEF n, flat, e, m
<1>4. two \in Seq(Octet) /\ Len(two) = 2 /\ two[1] \in {1, 2} /\ two[2] = n
  <2>1. x.type \in Octet /\ n \in Octet
    BY <1>1 DEF Octet
  <2> QED BY <1>1, <2>1
<1> HIDE DEF two
<1>5. two \in Seq(Octet) /\ flat \in Seq(Octet)
  BY <1>2, <1>4
<1>6. /\ e \in Seq(Octet) /\ Len(e) = Len(two) + Len(flat)
      /\ \A i \in 1 .. Len(two) : e[i] = two[i]
  BY <1>3, <1>5, OctetJoin
<1>7. e[1] = two[1] /\ e[2] = two[2] /\ Len(e) = 2 + m
  BY <1>2, <1>4, <1>6
<1> QED BY <1>4, <1>6, <1>7 DEF e, m, n, EncodesSegment

LEMMA SeqDomain ==
    ASSUME NEW S, NEW s \in Seq(S)
    PROVE  Len(s) \in Nat /\ DOMAIN s = 1 .. Len(s)
OBVIOUS

LEMMA SegmentParts ==
    ASSUME NEW size, NEW x, x.type \in {1, 2}, IsRow(size, x.ases),
           Len(x.ases) \in 1 .. 255
    PROVE  IsSegment(size, x)
BY Zenon DEF IsSegment

LEMMA SegmentFields ==
    ASSUME NEW row, NEW x \in [type : {1, 2}, ases : row]
    PROVE  x.type \in {1, 2} /\ x.ases \in row
OBVIOUS

LEMMA PathSize ==
    ASSUME NEW path, IsPath(path)
    PROVE  \E size \in {2, 4} : IsPathOf(size, path)
<1>1. PICK size \in {2, 4} :
         /\ path \in Seq([type : {1, 2}, ases : Seq([1 .. size -> Octet])])
         /\ \A i \in DOMAIN path : Len(path[i].ases) \in 1 .. 255
  BY Zenon DEF IsPath
<1> DEFINE row == Seq([1 .. size -> Octet])
           segments == [type : {1, 2}, ases : row]
           Short(x) == Len(x.ases) \in 1 .. 255
<1>2. path \in Seq(segments)
  BY <1>1, Zenon
<1>3. \A i \in DOMAIN path : Short(path[i])
  BY <1>1, Zenon
<1>4. \A x \in segments : Short(x) => IsSegment(size, x)
  <2> SUFFICES ASSUME NEW x \in segments, Short(x)
               PROVE  IsSegment(size, x)
    BY Zenon
  <2>1. x.type \in {1, 2} /\ x.ases \in row
    <3> HIDE DEF row
    <3> QED BY SegmentFields
  <2>2. IsRow(size, x.ases)
    BY <2>1, Zenon DEF IsRow
  <2>3. Len(x.ases) \in 1 .. 255
    OBVIOUS
  <2> QED BY <2>1, <2>2, <2>3, SegmentParts
<1> HIDE DEF row, segments, Short
<1>5. Len(path) \in Nat /\ DOMAIN path = 1 .. Len(path)
  BY <1>2, SeqDomain
<1>6. \A j \in 1 .. Len(path) : IsSegment(size, path[j])
  <2> SUFFICES ASSUME NEW j \in 1 .. Len(path)
               PROVE  IsSegment(size, path[j])
    OBVIOUS
  <2>1. Short(path[j])
    BY <1>3, <1>5
  <2>2. path[j] \in segments
    BY <1>2, ElementOfSeq
  <2> QED BY <1>4, <2>1, <2>2
<1>7. IsPathOf(size, path)
  BY <1>5, <1>6, Zenon DEF IsPathOf
<1> QED BY <1>7

LEMMA PathPlaces ==
    ASSUME NEW size \in {2, 4}, NEW path, IsPathOf(size, path)
    PROVE  LET attr == EncodePath(path)
               items == SegmentItems(path)
           IN /\ attr \in Seq(Octet) /\ Len(path) \in Nat
              /\ Begin(items, 0) = 0 /\ Begin(items, Len(path)) = Len(attr)
              /\ \A j \in 0 .. Len(path) : Begin(items, j) \in 0 .. Len(attr)
              /\ \A j \in 0 .. Len(path) - 1 :
                    /\ Stands(size, attr, Begin(items, j), items[j + 1],
                              Len(path[j + 1].ases))
                    /\ Begin(items, j + 1) = Begin(items, j) + Len(items[j + 1])
<1> DEFINE attr == EncodePath(path)
           items == SegmentItems(path)
           l == Len(path)
           ItemStands(j) ==
             /\ Begin(items, j + 1) = Begin(items, j) + Len(items[j + 1])
             /\ Begin(items, j + 1) <= Len(attr)
             /\ \A i \in 1 .. Len(items[j + 1]) :
                   attr[Begin(items, j) + i] = items[j + 1][i]
<1>1. l \in Nat /\ DOMAIN path = 1 .. l
  BY DEF IsPathOf
<1>2. ASSUME NEW j \in 1 .. l
      PROVE  /\ EncodesSegment(size, items[j], Len(path[j].ases))
             /\ Len(path[j].ases) \in 1 .. 255
  <2>1. IsSegment(size, path[j])
    BY DEF IsPathOf
  <2>2. items[j] = SegmentItem(path[j])
    BY <1>1 DEF SegmentItems
  <2> HIDE DEF items
  <2> QED BY <2>1, <2>2, EncodedSegment, Zenon DEF IsSegment
<1>3. items = [j \in 1 .. l |-> items[j]] /\ attr = FlattenSeq(items)
  BY <1>1 DEF SegmentItems, EncodePath, SegmentItem
<1> HIDE DEF items, attr, l
<1>4. \A j \in 1 .. l : items[j] \in Seq(Octet)
  BY <1>2, Zenon DEF EncodesSegment
<1>5. items \in Seq(Seq(Octet))
  BY <1>1, <1>3, <1>4
<1>6. Len(items) = l
  BY <1>1, <1>3
<1>7. /\ attr \in Seq(Octet)
      /\ Begin(items, 0) = 0 /\ Begin(items, Len(items)) = Len(attr)
      /\ \A j \in 0 .. Len(items) : Begin(items, j) \in 0 .. Len(attr)
      /\ \A j \in 0 .. Len(items) - 1 : ItemStands(j)
  BY <1>3, <1>5, Places, Zenon
<1> HIDE DEF ItemStands
<1>8. \A j \in 0 .. l : Begin(items, j) \in 0 .. Len(attr)
  BY <1>6, <1>7, Zenon
<1>9. ASSUME NEW j \in 0 .. l - 1
      PROVE  /\ Stands(size, attr, Begin(items, j), items[j + 1], Len(path[j + 1].ases))
             /\ Begin(items, j + 1) = Begin(items, j) + Len(items[j + 1])
  <2>1. j + 1 \in 1 .. l /\ j \in 0 .. l
    BY <1>1
  <2>2. Begin(items, j) \in Nat
    <3>1. Begin(items, j) \in 0 .. Len(attr)
      BY <1>8, <2>1, Zenon
    <3> QED BY <3>1
  <2>3. Len(path[j + 1].ases) \in 1 .. 255
        /\ EncodesSegment(size, items[j + 1], Len(path[j + 1].ases))
    BY <1>2, <2>1, Zenon
  <2>4. ItemStands(j)
    BY <1>6, <1>7, <2>1
  <2>5. Begin(items, j) + Len(items[j + 1]) <= Len(attr)
    BY <2>4 DEF ItemStands
  <2>6. Begin(items, j + 1) = Begin(items, j) + Len(items[j + 1])
        /\ \A i \in 1 .. Len(items[j + 1]) :
              attr[Begin(items, j) + i] = items[j + 1][i]
    BY <2>4 DEF ItemStands
  <2>7. attr \in Seq(Octet)
    BY <1>7
  <2> QED BY <2>2, <2>3, <2>5, <2>6, <2>7, Zenon DEF Stands
<1> QED BY <1>1, <1>6, <1>7, <1>9 DEF items, attr, l

\* What the parser finds where a segment was encoded.
LEMMA SegmentIsRead ==
    ASSUME NEW size \in {2, 4}, NEW attr, NEW k, NEW e, NEW c, Stands(size, attr, k, e, c)
    PROVE  /\ SegmentOK(attr, size, k) /\ k # Len(attr)
           /\ NextSegment(attr, size, k) = k + Len(e)
<1> DEFINE m == size * c
           n == Len(attr)
<1>0. c \in 1 .. 255
  BY DEF Stands
<1>1. m \in Nat /\ m >= 2
  <2>1. CASE size = 2
    BY <1>0, <2>1
  <2>2. CASE size = 4
    BY <1>0, <2>2
  <2> QED BY <2>1, <2>2
<1>2. n \in Nat /\ k \in Nat
  BY DEF Stands
<1> HIDE DEF m, n
<1>3. /\ Len(e) = 2 + m /\ e[1] \in {1, 2} /\ e[2] = c
      /\ k + Len(e) <= n /\ \A i \in 1 .. Len(e) : attr[k + i] = e[i]
  BY DEF Stands, EncodesSegment, m, n
<1>4. 1 \in 1 .. Len(e) /\ 2 \in 1 .. Len(e) /\ k + 1 + 1 = k + 2
  BY <1>1, <1>2, <1>3
<1>5. attr[k + 1] \in {1, 2} /\ attr[k + 1 + 1] = c
  BY <1>3, <1>4
<1>6. NextSegment(attr, size, k) = k + 2 + m
  BY <1>5 DEF NextSegment, At, m
<1>7. k + 2 + m = k + Len(e) /\ k + 4 <= n /\ k # n /\ k + 2 + m <= n
  BY <1>1, <1>2, <1>3
<1> QED BY <1>5, <1>6, <1>7 DEF SegmentOK, At, n

LEMMA EncodedPathOf ==
    ASSUME NEW size \in {2, 4}, NEW path, IsPathOf(size, path)
    PROVE  /\ GetSegments(EncodePath(path), size) # {}
           /\ Len(path) # 0 => Len(EncodePath(path)) # 0
<1> DEFINE attr == EncodePath(path)
           items == SegmentItems(path)
           n == Len(attr)
           l == Len(path)
           p == Paths(attr, size)
           at(j) == Begin(items, j)
           A == {j \in 0 .. l : p[at(j)] # {}}
<1>1. /\ attr \in Seq(Octet) /\ l \in Nat
      /\ at(0) = 0 /\ at(l) = n
      /\ \A j \in 0 .. l : at(j) \in 0 .. n
  BY PathPlaces
<1>2. ASSUME NEW j \in 0 .. l - 1
      PROVE  /\ SegmentOK(attr, size, at(j)) /\ at(j) # n
             /\ NextSegment(attr, size, at(j)) = at(j + 1)
  <2> DEFINE c == Len(path[j + 1].ases)
             e == items[j + 1]
             k == at(j)
  <2>1. Stands(size, attr, k, e, c) /\ at(j + 1) = k + Len(e)
    BY PathPlaces
  <2> HIDE DEF c, e, k, attr
  <2>2. SegmentOK(attr, size, k) /\ k # n /\ NextSegment(attr, size, k) = k + Len(e)
    BY <2>1, SegmentIsRead
  <2> QED BY <2>1, <2>2 DEF k
<1>3. n \in Nat
  BY <1>1
<1>4. \A k \in 0 .. n : p[k] = PathsFrom(attr, size, p, k)
  BY <1>1, PathsExist
<1> HIDE DEF items, attr, l, p
<1>5. ASSUME NEW j \in 0 .. l, \A i \in j + 1 .. l : i \in A
      PROVE  j \in A
  <2> DEFINE k == at(j)
  <2>1. k \in 0 .. n
    BY <1>1
  <2>2. p[k] = PathsFrom(attr, size, p, k)
    BY <1>4, <2>1
  <2>3. CASE j = l
    <3>1. k = Len(attr)
      BY <1>1, <2>3
    <3>2. ~SegmentOK(attr, size, k)
      BY <1>3, <3>1 DEF SegmentOK
    <3>3. p[k] = {<< >>}
      BY <2>2, <3>1, <3>2 DEF PathsFrom
    <3> QED BY <3>3
  <2>4. CASE j # l
    <3>1. j \in 0 .. l - 1 /\ j + 1 \in j + 1 .. l
      BY <1>1, <2>4
    <3>2. p[at(j + 1)] # {}
      BY <1>5, <3>1
    <3>3. SegmentOK(attr, size, k) /\ k # n /\ NextSegment(attr, size, k) = at(j + 1)
      BY <1>2, <3>1
    <3> HIDE DEF at
    <3>4. p[k] = {<<SegmentAt(attr, size, k)>> \o rest : rest \in p[at(j + 1)]}
      BY <2>2, <3>3 DEF PathsFrom
    <3>5. p[k] # {}
      BY <3>2, <3>4
    <3> QED BY <3>5
  <2> QED BY <2>3, <2>4
<1>6. 0 \in A
  <2>1. \A j \in 0 .. l : j \in A
    <3> HIDE DEF A
    <3> QED BY <1>1, <1>5, DownInduction
  <2>2. 0 \in 0 .. l
    BY <1>1
  <2> HIDE DEF A
  <2> QED BY <2>1, <2>2
<1>7. GetSegments(attr, size) # {}
  BY <1>1, <1>6, SegmentsArePaths DEF p
<1>8. ASSUME l # 0 PROVE n # 0
  <2>1. 0 \in 0 .. l - 1
    BY <1>1, <1>8
  <2> QED BY <1>1, <1>2, <2>1
<1> QED BY <1>7, <1>8 DEF attr, l

\* A path that was encoded can be read, if only as some path.
LEMMA EncodedPathIsRead ==
    ASSUME NEW path, IsPath(path)
    PROVE  /\ ReadPath(EncodePath(path)) # {}
           /\ path # << >> => EncodePath(path) # << >>
<1>1. PICK size \in {2, 4} : IsPathOf(size, path)
  BY PathSize
<1>2. GetSegments(EncodePath(path), size) # {}
  BY <1>1, EncodedPathOf
<1>3. ReadPath(EncodePath(path)) # {}
  <2> DEFINE attr == EncodePath(path)
  <2>1. GetSegments(attr, 4) # {} \/ GetSegments(attr, 2) # {}
    BY <1>2
  <2> HIDE DEF attr
  <2> QED BY <2>1 DEF ReadPath, attr
<1>4. ASSUME path # << >> PROVE Len(path) # 0
  BY <1>4 DEF IsPath
<1>5. Len(path) # 0 => Len(EncodePath(path)) # 0
  BY <1>1, EncodedPathOf
<1>6. Len(<< >>) = 0
  OBVIOUS
<1> QED BY <1>3, <1>4, <1>5, <1>6
-----------------------------------------------------------------------------
(* The loop over attributes *)

LEMMA AttributeIsRead ==
    ASSUME NEW s, AreAttributes(s), Field = EncodeAttributes(s),
           NEW k \in 0 .. Len(s), offset = AttributeAt(s, k), ~AtEnd
    PROVE  /\ k + 1 \in 1 .. Len(s) /\ HeaderFits
           /\ Code = s[k + 1].code /\ Value = s[k + 1].value
           /\ s[k + 1].value \in Seq(Octet) /\ s[k + 1].code \in Octet
           /\ AttributeEnd = AttributeAt(s, k + 1)
<1> DEFINE f == Field
           l == Len(s)
           m == Len(Field)
           a == s[k + 1]
           q == QuantumOf(a)
           v == a.value
           n == Len(v)
           at == AttributeAt(s, k)
           next == AttributeAt(s, k + 1)
<1>1. f \in Seq(Octet) /\ m \in Nat /\ l \in Nat
  <2>1. EncodeAttributes(s) \in Seq(Octet) /\ l \in Nat
    BY AttributePlaces
  <2> QED BY <2>1
<1>2. at \in Nat /\ AttributeAt(s, l) = m
  BY AttributePlaces
<1>3. at < m /\ offset = at
  BY <1>1, <1>2 DEF AtEnd
<1>4. k # l
  BY <1>1, <1>2, <1>3
<1>5. k \in 0 .. l - 1 /\ k + 1 \in 1 .. l
  BY <1>1, <1>4
<1>6. /\ a \in SentAttribute /\ q \in {3, 4} /\ n \in Nat
      /\ next = at + (q + n) /\ next <= m
      /\ f[at + 1] = a.flags /\ f[at + 2] = a.code
      /\ IF Long(a.flags) THEN 256 * f[at + 3] + f[at + 4] = n ELSE f[at + 3] = n
      /\ \A i \in 1 .. n : f[at + (q + i)] = v[i]
  <2>1. AttributeStands(s, k)
    BY <1>5, AttributePlaces
  <2> QED BY <2>1 DEF AttributeStands
<1>7. v \in Seq(Octet) /\ a.code \in Octet
  BY <1>6 DEF SentAttribute
<1>8. q = IF Long(a.flags) THEN 4 ELSE 3
  BY DEF QuantumOf
<1> HIDE DEF f, l, m, a, q, v, n, at, next
<1>9. at + 1 + 1 = at + 2 /\ at + 2 + 1 = at + 3 /\ at + 2 + 1 + 1 = at + 4
  BY <1>2
<1>10. Extended <=> Long(a.flags)
  BY <1>3, <1>6 DEF Extended, Long, At, f
<1>11. Quantum = q /\ Code = a.code
  BY <1>3, <1>6, <1>8, <1>9, <1>10 DEF Quantum, Code, At, f
<1>12. AttributeLength = n
  <2>1. CASE Long(a.flags)
    <3>1. 256 * f[at + 3] + f[at + 4] = n
      BY <1>6, <2>1
    <3>2. AttributeLength = 256 * f[at + 2 + 1] + f[at + 2 + 1 + 1]
      BY <1>3, <1>10, <2>1 DEF AttributeLength, Word, At, f
    <3> QED BY <1>9, <3>1, <3>2
  <2>2. CASE ~Long(a.flags)
    <3>1. f[at + 3] = n
      BY <1>6, <2>2
    <3>2. AttributeLength = f[at + 2 + 1]
      BY <1>3, <1>10, <2>2 DEF AttributeLength, At, f
    <3> QED BY <1>9, <3>1, <3>2
  <2> QED BY <2>1, <2>2
<1>13. AttributeEnd = next /\ offset + Quantum <= m /\ at + q \in Nat /\ next \in Nat
       /\ next = (at + q) + n
  <2>1. AttributeEnd = at + q + n /\ offset + Quantum = at + q
    BY <1>3, <1>11, <1>12 DEF AttributeEnd
  <2>2. at \in Nat /\ q \in {3, 4} /\ n \in Nat /\ m \in Nat
        /\ next = at + (q + n) /\ next <= m
    BY <1>1, <1>2, <1>6
  <2>3. at + q + n = next /\ at + q <= m /\ at + q \in Nat /\ next \in Nat
    BY <2>2
  <2> QED BY <2>1, <2>3
<1>14. HeaderFits
  BY <1>13 DEF HeaderFits, m
<1>15. Value = v
  <2> DEFINE from == at + q
  <2>1. from \in Nat /\ next = from + n /\ next <= m
    BY <1>6, <1>13
  <2>2. InPlace(v, f, from)
    <3>1. \A i \in 1 .. n : from + i = at + (q + i)
      BY <1>2, <1>6
    <3> HIDE DEF from
    <3> QED BY <1>6, <1>7, <2>1, <3>1 DEF InPlace, n, m, f
  <2>3. Cut(f, f)
    BY <1>1, CutRefl
  <2>4. Value = Slice(f, from, next)
    BY <1>3, <1>11, <1>13 DEF Value, f
  <2> HIDE DEF from
  <2> QED BY <1>13, <2>1, <2>2, <2>3, <2>4, SliceOfCut DEF n, m, f
<1> QED BY <1>5, <1>7, <1>11, <1>13, <1>14, <1>15 DEF a, v, l, next

LEMMA AttributesEnd ==
    ASSUME NEW s, AreAttributes(s), Field = EncodeAttributes(s),
           NEW k \in 0 .. Len(s), offset = AttributeAt(s, k), AtEnd
    PROVE  k = Len(s)
<1> DEFINE l == Len(s)
           m == Len(EncodeAttributes(s))
<1>1. l \in Nat /\ m \in Nat
  <2>1. EncodeAttributes(s) \in Seq(Octet) /\ l \in Nat
    BY AttributePlaces
  <2> QED BY <2>1
<1>2. m <= AttributeAt(s, k) /\ k \in 0 .. l
  BY DEF AtEnd
<1> SUFFICES ASSUME k # l PROVE FALSE
  OBVIOUS
<1>3. k \in 0 .. l - 1
  BY <1>1, <1>2
<1> DEFINE q == QuantumOf(s[k + 1])
           n == Len(s[k + 1].value)
           x == AttributeAt(s, k)
           y == AttributeAt(s, k + 1)
<1>4. q \in {3, 4} /\ n \in Nat /\ x \in 0 .. m /\ y = x + (q + n) /\ y <= m
  <2>1. AttributeStands(s, k) /\ x \in 0 .. m
    BY <1>2, <1>3, AttributePlaces
  <2> QED BY <2>1 DEF AttributeStands
<1> HIDE DEF l, m, q, n, x, y
<1>5. m <= x
  BY <1>2 DEF x
<1> QED BY <1>1, <1>4, <1>5

\* What is kept of attribute a is in d, and nothing is where nothing is kept.
KeptIn(d, a) == Kept(a.code, a.value) = IF a.code \in DOMAIN d THEN {d[a.code]} ELSE {}

\* d is what is kept of the first k attributes of s.
AttributesRead(d, s, k) ==
    /\ \A i \in 1 .. k : KeptIn(d, s[i])
    /\ \A c \in DOMAIN d : \E i \in 1 .. k : s[i].code = c
Distinct(s) == \A i, j \in DOMAIN s : s[i].code = s[j].code => i = j

LEMMA OneMoreAttribute ==
    ASSUME NEW s, AreAttributes(s), Distinct(s), NEW k \in 0 .. Len(s), k + 1 \in 1 .. Len(s),
           NEW d, AttributesRead(d, s, k),
           NEW e \in IF Kept(s[k + 1].code, s[k + 1].value) = {} THEN {d}
                     ELSE {Put(d, {s[k + 1].code}, v) :
                              v \in Kept(s[k + 1].code, s[k + 1].value)}
    PROVE  AttributesRead(e, s, k + 1)
<1> DEFINE c == s[k + 1].code
           x == Kept(c, s[k + 1].value)
<1>1. k \in Nat /\ Len(s) \in Nat /\ DOMAIN s = 1 .. Len(s)
  BY DEF AreAttributes
<1>2. \A i \in 1 .. k : i \in DOMAIN s /\ k + 1 \in DOMAIN s /\ i # k + 1 /\ i \in 1 .. k + 1
  BY <1>1
<1>3. \A i \in 1 .. k : s[i].code # c
  BY <1>2 DEF Distinct
<1>4. c \notin DOMAIN d
  BY <1>3 DEF AttributesRead
<1>5. IsOne(x)
  <2>1. s[k + 1] \in SentAttribute
    BY DEF AreAttributes
  <2> QED BY <2>1, KeptIsOne DEF SentAttribute
<1>6. \A i \in 1 .. k + 1 : i \in 1 .. k \/ i = k + 1
  BY <1>1
<1>7. k + 1 \in 1 .. k + 1
  BY <1>1
<1>8. CASE x = {}
  <2>1. e = d
    BY <1>8
  <2>2. KeptIn(e, s[k + 1])
    BY <1>4, <1>8, <2>1 DEF KeptIn
  <2>3. \A i \in 1 .. k + 1 : KeptIn(e, s[i])
    BY <1>6, <2>1, <2>2 DEF AttributesRead
  <2>4. \A b \in DOMAIN e : \E i \in 1 .. k + 1 : s[i].code = b
    BY <1>2, <2>1 DEF AttributesRead
  <2> QED BY <2>3, <2>4 DEF AttributesRead
<1>9. CASE x # {}
  <2>1. PICK v \in x : e = Put(d, {c}, v)
    BY <1>9
  <2>2. x = {v}
    BY <1>5, <2>1 DEF IsOne
  <2>3. /\ DOMAIN e = DOMAIN d \cup {c} /\ e[c] = v
        /\ \A b \in DOMAIN d : b # c => e[b] = d[b]
    BY <2>1 DEF Put
  <2>4. KeptIn(e, s[k + 1])
    BY <2>2, <2>3 DEF KeptIn
  <2>5. ASSUME NEW i \in 1 .. k PROVE KeptIn(e, s[i])
    <3>1. KeptIn(d, s[i]) /\ s[i].code # c
      BY <1>3 DEF AttributesRead
    <3>2. s[i].code \in DOMAIN e <=> s[i].code \in DOMAIN d
      BY <2>3, <3>1
    <3>3. s[i].code \in DOMAIN d => e[s[i].code] = d[s[i].code]
      BY <2>3, <3>1
    <3> HIDE DEF c
    <3> QED BY <3>1, <3>2, <3>3 DEF KeptIn
  <2>6. \A i \in 1 .. k + 1 : KeptIn(e, s[i])
    BY <1>6, <2>4, <2>5
  <2>7. ASSUME NEW b \in DOMAIN e PROVE \E i \in 1 .. k + 1 : s[i].code = b
    <3>1. CASE b = c
      BY <1>7, <3>1
    <3>2. CASE b \in DOMAIN d
      BY <1>2, <3>2 DEF AttributesRead
    <3> QED BY <2>3, <3>1, <3>2
  <2> QED BY <2>6, <2>7 DEF AttributesRead
<1> QED BY <1>8, <1>9

\* The loop over attributes stands where the k-th of them ends, with the first
\* k read.
AttrInv ==
    /\ phase \in {"header", "lengths", "withdrawn", "nlri"} => attribute = Empty
    /\ phase = "attributes" /\ sent.miscounted = 0 =>
          \E k \in 0 .. Len(sent.attributes) :
             /\ offset = AttributeAt(sent.attributes, k)
             /\ AttributesRead(attribute, sent.attributes, k)
    /\ phase = "done" /\ sent.miscounted = 0 =>
          AttributesRead(attribute, sent.attributes, Len(sent.attributes))
    /\ phase = "done" =>
          except_flag = (prefixes # << >> /\ ~(Mandatory \subseteq DOMAIN attribute))

LEMMA AttributesKept ==
    ASSUME MsgInv, AttrInv, Next
    PROVE  AttrInv'
<1> DEFINE s == sent.attributes
<1>1. AreAttributes(s) /\ Distinct(s)
  <2>1. Distinct(s)
    BY UpdatesAssumption DEF MsgInv, Encodable, Distinct
  <2> QED BY <2>1, UpdateOctets DEF MsgInv
<1>2. sent' = sent
  BY DEF Next, ParseHeader, ParseLengths, GetWithdrawn, GetAnnounced, CutPrefix, EndWithdrawn,
         EndNLRI, ParseAttribute, BadAttribute, CutAttributeHeader, EndAttributes
<1>3. CASE ParseHeader
  BY <1>3 DEF ParseHeader, Go, parsed, AttrInv
<1>4. CASE ParseLengths
  BY <1>4 DEF ParseLengths, Go, parsed, AttrInv
<1>5. CASE GetWithdrawn \/ GetAnnounced
  BY <1>5 DEF GetWithdrawn, GetAnnounced, AttrInv
<1>6. CASE EndWithdrawn
  BY <1>6 DEF EndWithdrawn, Go, parsed, AttrInv
<1>7. CASE EndNLRI
  <2>1. phase = "nlri" /\ phase' = "attributes" /\ offset' = 0 /\ attribute' = attribute
    BY <1>7 DEF EndNLRI, Go, parsed
  <2>2. attribute' = Empty /\ DOMAIN Empty = {}
    BY <2>1 DEF AttrInv, Empty
  <2>3. AttributesRead(attribute', s, 0)
    BY <2>2 DEF AttributesRead
  <2>4. AttributeAt(s, 0) = 0 /\ 0 \in 0 .. Len(s)
    BY <1>1, AttributePlaces
  <2> QED BY <1>2, <2>1, <2>3, <2>4 DEF AttrInv
<1>8. CASE ParseAttribute
  <2>1. /\ phase = "attributes" /\ phase' = "attributes" /\ ~AtEnd /\ offset' = AttributeEnd
        /\ attribute' \in IF Kept(Code, Value) = {} THEN {attribute}
                          ELSE {Put(attribute, {Code}, v) : v \in Kept(Code, Value)}
    BY <1>8 DEF ParseAttribute
  <2> SUFFICES ASSUME sent.miscounted = 0
               PROVE  \E k \in 0 .. Len(s) : /\ offset' = AttributeAt(s, k)
                                             /\ AttributesRead(attribute', s, k)
    BY <1>2, <2>1 DEF AttrInv
  <2>2. PICK k \in 0 .. Len(s) : offset = AttributeAt(s, k) /\ AttributesRead(attribute, s, k)
    BY <2>1 DEF AttrInv
  <2>3. Field = EncodeAttributes(s)
    BY <2>1, FieldsAre DEF Field, Reading
  <2> HIDE DEF s
  <2>4. /\ k + 1 \in 1 .. Len(s) /\ Code = s[k + 1].code /\ Value = s[k + 1].value
        /\ AttributeEnd = AttributeAt(s, k + 1)
    BY <1>1, <2>1, <2>2, <2>3, AttributeIsRead
  <2>5. AttributesRead(attribute', s, k + 1)
    <3> DEFINE c == s[k + 1].code
               x == Kept(s[k + 1].code, s[k + 1].value)
    <3>1. attribute' \in IF x = {} THEN {attribute} ELSE {Put(attribute, {c}, v) : v \in x}
      BY <2>1, <2>4
    <3> QED BY <1>1, <2>2, <2>4, <3>1, OneMoreAttribute
  <2>6. k + 1 \in 0 .. Len(s)
    BY <2>4
  <2> QED BY <2>1, <2>4, <2>5, <2>6
<1>9. CASE EndAttributes
  <2>1. /\ phase = "attributes" /\ phase' = "done" /\ AtEnd
        /\ UNCHANGED <<prefixes, attribute>>
        /\ except_flag' = (prefixes # << >> /\ ~(Mandatory \subseteq DOMAIN attribute))
    BY <1>9 DEF EndAttributes, Go
  <2>2. ASSUME sent.miscounted = 0 PROVE AttributesRead(attribute, s, Len(s))
    <3>1. PICK k \in 0 .. Len(s) :
             offset = AttributeAt(s, k) /\ AttributesRead(attribute, s, k)
      BY <2>1, <2>2 DEF AttrInv
    <3>2. Field = EncodeAttributes(s)
      BY <2>1, <2>2, FieldsAre DEF Field, Reading
    <3> HIDE DEF s
    <3>3. k = Len(s)
      BY <1>1, <2>1, <3>1, <3>2, AttributesEnd
    <3> QED BY <3>1, <3>3
  <2> QED BY <1>2, <2>1, <2>2 DEF AttrInv
<1>10. CASE CutPrefix \/ BadAttribute \/ CutAttributeHeader
  <2>1. phase' \in {"AssertionError", "SystemExit", "struct.error"}
    BY <1>10 DEF CutPrefix, BadAttribute, CutAttributeHeader, Go
  <2> QED BY <2>1 DEF AttrInv
<1> QED BY <1>3, <1>4, <1>5, <1>6, <1>7, <1>8, <1>9, <1>10 DEF Next
-----------------------------------------------------------------------------
(* What parsing a whole and usual UPDATE comes to *)

\* No assertion has failed.
AcceptInv == Whole /\ Usual => phase \in {"header", "lengths"} \cup Reading

LEMMA UsualLength ==
    ASSUME NEW code \in 1 .. 8 \cup 14 .. 18 \cup {20, 21, 32, 128}, NEW n \in Nat,
           StandardLength(code, n)
    PROVE  LengthOK(code, n)
BY DEF StandardLength, LengthOK, AS_PATH, AS4_PATH, ORIGIN, NEXT_HOP

LEMMA AcceptKept ==
    ASSUME MsgInv, PrefixInv, AttrInv, AcceptInv, Next
    PROVE  AcceptInv'
<1> DEFINE s == sent.attributes
           w == sent.withdrawn
           p == sent.prefixes
           z == EncodeUpdate(sent)
           lw == Len(EncodePrefixes(w))
           la == Len(EncodeAttributes(s))
           lp == Len(EncodePrefixes(p))
<1>1. sent' = sent /\ bgp_length' = bgp_length
  BY DEF Next, ParseHeader, ParseLengths, GetWithdrawn, GetAnnounced, CutPrefix, EndWithdrawn,
         EndNLRI, ParseAttribute, BadAttribute, CutAttributeHeader, EndAttributes
<1>2. Whole' = Whole /\ Usual' = Usual
  BY <1>1 DEF Whole, Usual, Codes
<1> SUFFICES ASSUME Whole, Usual
             PROVE  phase' \in {"header", "lengths"} \cup Reading
  BY <1>2 DEF AcceptInv
<1>3. /\ ArePrefixes(w) /\ ArePrefixes(p) /\ AreAttributes(s)
      /\ lw \in Nat /\ la \in Nat /\ lp \in Nat /\ Len(z) = 4 + lw + la + lp
  BY UpdateOctets DEF MsgInv
<1>4. Len(msg) = Len(z) /\ bgp_length = HeaderLength + Len(z) /\ sent.miscounted = 0
  BY DEF MsgInv, Whole
<1> HIDE DEF lw, la, lp
<1>5. 2 <= Len(msg) /\ lw + 4 <= Len(msg) /\ lw + 3 + la < Len(msg)
  BY <1>3, <1>4
<1>6. WithdrawnLength = lw /\ AttributesLength = la
  <2>1. WithdrawnLength = lw
    BY <1>5, LengthsRead DEF MsgInv, lw
  <2>2. WithdrawnLength + 4 <= Len(msg)
    BY <1>5, <2>1
  <2>3. AttributesLength = Len(EncodeAttributes(s)) - sent.miscounted
    BY <1>5, <2>2, LengthsRead DEF MsgInv
  <2>4. AttributesLength = la - 0
    BY <1>4, <2>3 DEF la
  <2> QED BY <1>3, <2>1, <2>4
<1>7. CASE ParseHeader
  <2>1. bgp_length - HeaderLength \in 0 .. Len(msg)
    BY <1>3, <1>4 DEF HeaderLength
  <2> QED BY <1>7, <2>1 DEF ParseHeader, Go
<1>8. CASE ParseLengths
  <2>1. ~(Len(msg) < 2) /\ ~(Len(msg) \in 2 .. WithdrawnLength + 3)
    BY <1>3, <1>4, <1>5, <1>6
  <2> QED BY <1>8, <2>1 DEF ParseLengths, Go, Reading
<1>9. CASE EndWithdrawn
  <2>1. Len(msg) > WithdrawnLength + 3 + AttributesLength
    BY <1>3, <1>4, <1>5, <1>6
  <2> QED BY <1>9, <2>1 DEF EndWithdrawn, Go, Reading
<1>10. CASE CutPrefix
  <2>1. phase \in {"withdrawn", "nlri"} /\ ~AtEnd /\ PrefixEnd > Len(Field)
    BY <1>10 DEF CutPrefix
  <2>2. PICK t \in {w, p} : /\ Field = EncodePrefixes(t)
                            /\ \E k \in 0 .. Len(t) : offset = PrefixAt(t, k)
    <3>1. CASE phase = "withdrawn"
      <4>1. Field = EncodePrefixes(w)
        BY <3>1, FieldsAre DEF Field, Reading
      <4>2. /\ ReadSoFar(withdrawn_prefixes, w)
            /\ offset = PrefixAt(w, Len(withdrawn_prefixes))
        BY <3>1 DEF PrefixInv
      <4>3. Len(withdrawn_prefixes) \in 0 .. Len(w)
        BY <1>3, <4>2 DEF ReadSoFar, ArePrefixes
      <4> QED BY <4>1, <4>2, <4>3
    <3>2. CASE phase = "nlri"
      <4>1. Field = EncodePrefixes(p)
        BY <3>2, WholeNLRI DEF Field, Reading
      <4>2. ReadSoFar(prefixes, p) /\ offset = PrefixAt(p, Len(prefixes))
        BY <1>4, <3>2 DEF PrefixInv, Reading
      <4>3. Len(prefixes) \in 0 .. Len(p)
        BY <1>3, <4>2 DEF ReadSoFar, ArePrefixes
      <4> QED BY <4>1, <4>2, <4>3
    <3> QED BY <2>1, <3>1, <3>2
  <2>3. PICK k \in 0 .. Len(t) : offset = PrefixAt(t, k)
    BY <2>2
  <2>4. ArePrefixes(t)
    BY <1>3, <2>2
  <2>5. EncodePrefixes(t) \in Seq(Octet)
    BY <2>4, PrefixPlaces
  <2>6. Cut(Field, EncodePrefixes(t))
    BY <2>2, <2>5, CutRefl
  <2> HIDE DEF w, p
  <2>7. PrefixEnd <= Len(Field) /\ PrefixEnd = PrefixAt(t, k + 1) /\ k + 1 \in 1 .. Len(t)
    BY <2>1, <2>2, <2>3, <2>4, <2>6, PrefixIsRead
  <2>8. PrefixEnd \in Nat /\ Len(Field) \in Nat
    <3>1. k + 1 \in 0 .. Len(t) /\ Len(Field) \in Nat
      BY <2>2, <2>5, <2>7
    <3>2. PrefixAt(t, k + 1) \in 0 .. Len(EncodePrefixes(t))
      BY <2>4, <3>1, PrefixPlaces
    <3> QED BY <2>7, <3>1, <3>2
  <2>9. FALSE
    BY <2>1, <2>7, <2>8
  <2> QED BY <2>9
<1>11. CASE BadAttribute \/ CutAttributeHeader
  <2>1. /\ phase = "attributes" /\ ~AtEnd
        /\ HeaderFits => ~LengthOK(Code, Len(Value))
    BY <1>11 DEF BadAttribute, CutAttributeHeader
  <2>2. Field = EncodeAttributes(s)
    BY <1>4, <2>1, FieldsAre DEF Field, Reading
  <2>3. PICK k \in 0 .. Len(s) : offset = AttributeAt(s, k)
    BY <1>4, <2>1 DEF AttrInv
  <2>4. /\ k + 1 \in 1 .. Len(s) /\ HeaderFits
        /\ Code = s[k + 1].code /\ Value = s[k + 1].value /\ s[k + 1].value \in Seq(Octet)
    <3> HIDE DEF s
    <3> QED BY <1>3, <2>1, <2>2, <2>3, AttributeIsRead
  <2>5. k + 1 \in DOMAIN s
    BY <1>3, <2>4 DEF AreAttributes
  <2>6. /\ StandardLength(s[k + 1].code, Len(s[k + 1].value))
        /\ s[k + 1].code \in 1 .. 8 \cup 14 .. 18 \cup {20, 21, 32, 128}
    <3>1. s[k + 1].code \in Codes
      BY <2>5 DEF Codes
    <3>2. Codes \subseteq 1 .. 8 \cup 14 .. 18 \cup {20, 21, 32, 128}
      BY DEF Usual
    <3>3. \A i \in DOMAIN s : StandardLength(s[i].code, Len(s[i].value))
      BY DEF Usual
    <3> HIDE DEF s
    <3> QED BY <2>5, <3>1, <3>2, <3>3
  <2>7. Len(s[k + 1].value) \in Nat
    BY <2>4
  <2>8. LengthOK(Code, Len(Value))
    <3> HIDE DEF s
    <3> QED BY <2>4, <2>6, <2>7, UsualLength
  <2> QED BY <2>1, <2>4, <2>8
<1>12. CASE GetWithdrawn \/ GetAnnounced \/ EndNLRI \/ ParseAttribute \/ EndAttributes
  BY <1>12 DEF GetWithdrawn, GetAnnounced, EndNLRI, ParseAttribute, EndAttributes, Go, Reading
<1> QED BY <1>7, <1>8, <1>9, <1>10, <1>11, <1>12 DEF Next

LEMMA UsualIsKept ==
    ASSUME sent \in Updates, Usual, NEW i \in DOMAIN sent.attributes
    PROVE  Kept(sent.attributes[i].code, sent.attributes[i].value) = {}
               <=> sent.attributes[i].code = AS_PATH /\ sent.path = << >>
<1> DEFINE a == sent.attributes[i]
<1>1. a.value \in Seq(Octet) /\ a.code \in Octet
  <2>1. sent.attributes \in Seq(SentAttribute)
    BY UpdateOctets DEF AreAttributes
  <2>2. a \in SentAttribute
    BY <2>1
  <2> QED BY <2>2 DEF SentAttribute
<1>2. a.code \in Codes
  BY DEF Codes
<1>3. /\ a.code = AS_PATH => a.value = EncodePath(sent.path) /\ IsPath(sent.path)
      /\ a.code = AS4_PATH => /\ a.value = EncodePath(sent.path4) /\ IsPath(sent.path4)
                              /\ sent.path4 # << >>
  BY <1>2, UpdatesAssumption DEF Usual
<1>4. ASSUME NEW path, IsPath(path), a.value = EncodePath(path), path # << >>
      PROVE  ReadPath(a.value) \ {<< >>} # {}
  <2>1. ReadPath(a.value) # {} /\ a.value # << >>
    BY <1>1, <1>4, EncodedPathIsRead
  <2>2. << >> \notin ReadPath(a.value)
    BY <1>1, <2>1, OnePath DEF ReadPath
  <2> QED BY <2>1, <2>2
<1>5. ASSUME a.value = << >> PROVE ReadPath(a.value) \ {<< >>} = {}
  BY <1>1, <1>5, OnePath DEF ReadPath
<1>6. EncodePath(<< >>) = << >>
  <2>1. EncodePath(<< >>) = FlattenSeq(<< >>)
    BY DEF EncodePath
  <2> QED BY <2>1 DEF FlattenSeq
<1> HIDE DEF a
<1>7. CASE a.code = AS_PATH
  <2>1. Kept(a.code, a.value) = ReadPath(a.value) \ {<< >>}
    BY <1>7, KeptOfPath
  <2> QED BY <1>3, <1>4, <1>5, <1>6, <1>7, <2>1 DEF a
<1>8. CASE a.code = AS4_PATH
  <2>1. Kept(a.code, a.value) = ReadPath(a.value) \ {<< >>}
    BY <1>8, KeptOfPath
  <2> QED BY <1>3, <1>4, <1>8, <2>1 DEF a, AS_PATH, AS4_PATH
<1>9. CASE a.code \notin {AS_PATH, AS4_PATH}
  <2>1. Kept(a.code, a.value) # {}
    BY <1>9 DEF Kept
  <2> QED BY <1>9, <2>1 DEF a
<1> QED BY <1>7, <1>8, <1>9
-----------------------------------------------------------------------------
ParseInv == MsgInv /\ PrefixInv /\ AttrInv /\ AcceptInv

LEMMA ParseStarts ==
    ASSUME Init
    PROVE  ParseInv
<1>1. MsgInv
  BY InitTypes
<1> QED BY <1>1 DEF Init, ParseInv, PrefixInv, AttrInv, AcceptInv, Reading

LEMMA ParseGoesOn ==
    ASSUME ParseInv, [Next]_vars
    PROVE  ParseInv'
<1>1. CASE Next
  BY <1>1, MsgKept, PrefixesKept, AttributesKept, AcceptKept DEF ParseInv
<1>2. CASE UNCHANGED vars
  <2> USE <1>2 DEF vars, parsed
  <2>1. MsgInv'
    BY DEF ParseInv, MsgInv, WithdrawnLength, AttributesLength
  <2>2. PrefixInv'
    BY DEF ParseInv, PrefixInv, Whole
  <2>3. AttrInv'
    BY DEF ParseInv, AttrInv
  <2>4. AcceptInv'
    <3>1. Whole' = Whole /\ Usual' = Usual
      BY DEF Whole, Usual, Codes
    <3> QED BY <3>1 DEF ParseInv, AcceptInv
  <2> QED BY <2>1, <2>2, <2>3, <2>4 DEF ParseInv
<1> QED BY <1>1, <1>2

LEMMA ReadIsPrefix ==
    ASSUME NEW list, NEW s, ArePrefixes(s), ReadSoFar(list, s)
    PROVE  IsPrefix(list, s)
<1> DEFINE n == Len(list)
<1>1. s \in Seq(SentPrefix) /\ Len(s) \in Nat
  BY PrefixPlaces
<1>2. list \in Seq(ParsedPrefix) /\ n \in Nat /\ n <= Len(s)
      /\ \A i \in 1 .. n : list[i] = s[i]
  BY DEF ReadSoFar
<1>3. SubSeq(s, 1, n) = [i \in 1 .. n |-> s[i]]
  BY <1>1, <1>2
<1>4. SubSeq(list, 1, n) = [i \in 1 .. n |-> list[i]]
  BY <1>2
<1>5. SubSeq(list, 1, n) = SubSeq(s, 1, n)
  BY <1>2, <1>3, <1>4
<1> QED BY <1>2, <1>5 DEF IsPrefix

LEMMA NothingInventedHolds ==
    ASSUME ParseInv
    PROVE  NothingInvented
<1> SUFFICES ASSUME phase = "done", sent.miscounted = 0
             PROVE  /\ withdrawn_prefixes = sent.withdrawn
                    /\ IsPrefix(prefixes, sent.prefixes)
                    /\ \A i \in DOMAIN sent.attributes : KeptIn(attribute, sent.attributes[i])
  BY DEF NothingInvented, KeptIn
<1>1. ArePrefixes(sent.prefixes) /\ AreAttributes(sent.attributes)
  BY UpdateOctets DEF ParseInv, MsgInv
<1>2. withdrawn_prefixes = sent.withdrawn /\ ReadSoFar(prefixes, sent.prefixes)
  BY DEF ParseInv, PrefixInv, Reading
<1>3. AttributesRead(attribute, sent.attributes, Len(sent.attributes))
  BY DEF ParseInv, AttrInv
<1>4. DOMAIN sent.attributes = 1 .. Len(sent.attributes)
  BY <1>1 DEF AreAttributes
<1> QED BY <1>1, <1>2, <1>3, <1>4, ReadIsPrefix DEF AttributesRead

LEMMA WellFormedHolds ==
    ASSUME ParseInv
    PROVE  WellFormedIsAccepted
<1> DEFINE s == sent.attributes
           d == DOMAIN attribute
<1> SUFFICES ASSUME Ended, Whole, Usual
             PROVE  /\ phase = "done" /\ ~except_flag
                    /\ withdrawn_prefixes = sent.withdrawn
                    /\ prefixes = sent.prefixes
                    /\ d = IF sent.path = << >> THEN Codes \ {AS_PATH} ELSE Codes
  BY DEF WellFormedIsAccepted
<1>1. phase = "done"
  BY DEF ParseInv, AcceptInv, Ended, Reading
<1>2. withdrawn_prefixes = sent.withdrawn /\ prefixes = sent.prefixes
  BY <1>1 DEF ParseInv, PrefixInv, Reading
<1>3. DOMAIN s = 1 .. Len(s) /\ sent \in Updates
  <2>1. sent \in Updates /\ AreAttributes(s)
    BY UpdateOctets DEF ParseInv, MsgInv
  <2> QED BY <2>1 DEF AreAttributes
<1>4. AttributesRead(attribute, s, Len(s))
  BY <1>1 DEF ParseInv, AttrInv, Whole
<1>5. d \subseteq Codes
  BY <1>3, <1>4 DEF AttributesRead, Codes
<1>6. ASSUME NEW i \in DOMAIN s
      PROVE  s[i].code \in d <=> ~(s[i].code = AS_PATH /\ sent.path = << >>)
  <2>1. KeptIn(attribute, s[i])
    BY <1>3, <1>4 DEF AttributesRead
  <2>2. s[i].code \in d <=> Kept(s[i].code, s[i].value) # {}
    BY <2>1 DEF KeptIn
  <2> QED BY <1>3, <2>2, UsualIsKept
<1>7. ASSUME NEW c \in Codes
      PROVE  c \in d <=> ~(c = AS_PATH /\ sent.path = << >>)
  <2>1. PICK i \in DOMAIN s : s[i].code = c
    BY DEF Codes
  <2> QED BY <1>6, <2>1
<1>8. d = IF sent.path = << >> THEN Codes \ {AS_PATH} ELSE Codes
  <2> HIDE DEF d
  <2>1. CASE sent.path = << >>
    BY <1>5, <1>7, <2>1
  <2>2. CASE sent.path # << >>
    BY <1>5, <1>7, <2>2
  <2> QED BY <2>1, <2>2
<1>9. ~except_flag
  <2>1. prefixes # << >> => Mandatory \subseteq d
    BY <1>2, <1>8 DEF Usual
  <2>2. except_flag = (prefixes # << >> /\ ~(Mandatory \subseteq d))
    BY <1>1 DEF ParseInv, AttrInv
  <2> QED BY <2>1, <2>2
<1> QED BY <1>1, <1>2, <1>8, <1>9

\* What the parser has read when it is done was sent, to the last octet of
\* every prefix and every attribute, and only announced prefixes at the end of
\* a message that was cut can be missing (bgpparse.py:111-163 and 184-212).
THEOREM NothingIsInvented == Spec => []NothingInvented
<1>1. Init => ParseInv
  BY ParseStarts
<1>2. ParseInv /\ [Next]_vars => ParseInv'
  BY ParseGoesOn
<1>3. ParseInv => NothingInvented
  BY NothingInventedHolds
<1> QED BY <1>1, <1>2, <1>3, PTL DEF Spec

\* The parser takes every UPDATE that arrives whole and has what it asks for:
\* no assertion fails, nothing is flagged, and all that was sent is in its
\* lists, for any number of prefixes, attributes, segments and ASes
\* (bgpparse.py:111-212 and 307-335).
THEOREM WellFormedAreAccepted == Spec => []WellFormedIsAccepted
<1>1. Init => ParseInv
  BY ParseStarts
<1>2. ParseInv /\ [Next]_vars => ParseInv'
  BY ParseGoesOn
<1>3. ParseInv => WellFormedIsAccepted
  BY WellFormedHolds
<1> QED BY <1>1, <1>2, <1>3, PTL DEF Spec
-----------------------------------------------------------------------------
(* Every round of a loop moves on *)

Moves == \/ Place(phase) < Place(phase')
         \/ /\ phase' = phase /\ Field' = Field
            /\ offset < Len(Field) /\ offset < offset'

LEMMA EveryStepMoves ==
    ASSUME TypeOK, MsgInv, Next
    PROVE  Moves
<1>1. offset \in Nat
  BY DEF TypeOK
<1>2. ASSUME phase \in {"withdrawn", "nlri", "attributes"}, ~AtEnd
      PROVE  /\ Field \in Seq(Octet) /\ Len(Field) \in Nat /\ offset < Len(Field)
             /\ offset < PrefixEnd
             /\ HeaderFits => offset < AttributeEnd
  <2>1. Field \in Seq(Octet)
    BY <1>2, FieldIsOctets
  <2>2. Len(Field) \in Nat /\ offset < Len(Field)
    BY <1>1, <1>2, <2>1 DEF AtEnd
  <2>3. offset < PrefixEnd
    <3> DEFINE f == Field
               n == At(f, offset)
    <3>1. n \in Octet
      <4>1. f \in Seq(Octet) /\ offset + 1 \in 1 .. Len(f)
        BY <1>1, <2>1, <2>2
      <4> HIDE DEF f
      <4> QED BY <4>1, ElementOfSeq DEF At
    <3> HIDE DEF n
    <3>2. ByteLength(n) \in 0 .. 4
      BY <3>1 DEF ByteLength, Octet
    <3>3. PrefixEnd = offset + 1 + ByteLength(n)
      BY DEF PrefixEnd, n
    <3> QED BY <1>1, <3>2, <3>3
  <2>4. ASSUME HeaderFits PROVE offset < AttributeEnd
    <3>1. Quantum \in {3, 4} /\ AttributeLength \in Nat
      BY <1>1, <2>1, <2>4, AttributeReadType
    <3> QED BY <1>1, <3>1 DEF AttributeEnd
  <2> QED BY <2>1, <2>2, <2>3, <2>4
<1>3. ASSUME UNCHANGED <<msg, phase>>
      PROVE  Field' = Field
  BY <1>3 DEF Field, Withdrawn, NLRI, Attributes, AttributesAt, AttributesLength,
              WithdrawnLength
<1>4. CASE ParseHeader
  BY <1>4 DEF ParseHeader, Go, Moves, Place
<1>5. CASE ParseLengths
  BY <1>5 DEF ParseLengths, Go, Moves, Place
<1>6. CASE GetWithdrawn \/ GetAnnounced
  <2>1. /\ phase \in {"withdrawn", "nlri"} /\ ~AtEnd /\ offset' = PrefixEnd
        /\ UNCHANGED <<msg, phase>>
    BY <1>6 DEF GetWithdrawn, GetAnnounced, GetPrefix
  <2> QED BY <1>2, <1>3, <2>1 DEF Moves
<1>7. CASE ParseAttribute
  <2>1. /\ phase = "attributes" /\ ~AtEnd /\ HeaderFits /\ offset' = AttributeEnd
        /\ UNCHANGED <<msg, phase>>
    BY <1>7 DEF ParseAttribute
  <2> QED BY <1>2, <1>3, <2>1 DEF Moves
<1>8. CASE CutPrefix \/ EndWithdrawn
  BY <1>8 DEF CutPrefix, EndWithdrawn, Go, Moves, Place
<1>9. CASE EndNLRI \/ EndAttributes
  BY <1>9 DEF EndNLRI, EndAttributes, Go, Moves, Place
<1>10. CASE BadAttribute \/ CutAttributeHeader
  BY <1>10 DEF BadAttribute, CutAttributeHeader, Go, Moves, Place
<1> QED BY <1>4, <1>5, <1>6, <1>7, <1>8, <1>9, <1>10 DEF Next

\* A round of a loop brings the parser further in its field, and a loop that it
\* left is over, whatever the octets of the message are: as a field is finite,
\* the parser ends if it is not stopped (bgpparse.py:137-163 and 172-197).
THEOREM ParserMovesOn == Spec => MovesOn
<1>1. Init => TypeOK /\ MsgInv
  BY InitTypes
<1>2. (TypeOK /\ MsgInv) /\ [Next]_vars => (TypeOK /\ MsgInv)'
  BY TypesGoOn
<1>3. (TypeOK /\ MsgInv) /\ [Next]_vars => [Moves]_vars
  BY EveryStepMoves
<1>4. Spec => [][Moves]_vars
  BY <1>1, <1>2, <1>3, PTL DEF Spec
<1>5. MovesOn <=> [][Moves]_vars
  BY PTL DEF MovesOn, Moves
<1> QED BY <1>4, <1>5, PTL
=============================================================================
