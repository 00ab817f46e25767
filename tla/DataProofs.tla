------------------------------ MODULE DataProofs ------------------------------
(***************************************************************************)
(* What the proofs about several modules need of numbers, of functions     *)
(* defined along 0..N, and of filtered sequences.  Induction over numbers  *)
(* is an argument about the least exception.                               *)
(***************************************************************************)
EXTENDS Collections, SequenceTheorems, WellFoundedInduction, TLAPS

\* Numbers have a least one.
LEMMA LeastThere ==
    ASSUME NEW T, T \subseteq Nat, T # {}
    PROVE  \E z \in T : \A y \in T : z <= y
<1> DEFINE R == {ss \in Nat \X Nat : ss[1] < ss[2]}
<1>1. IsWellFoundedOn(R, Nat)
  BY NatLessThanWellFounded DEF OpToRel
<1>2. PICK x \in T : \A y \in T : ~(<<y, x>> \in R)
  BY <1>1, WFMin
<1>3. \A y \in T : ~(y < x)
  BY <1>2
<1> QED BY <1>3

\* A recursive definition along 0..N has a function that satisfies it.
Along(f, N, x0, G) == f[0] = x0 /\ \A m \in 1..N : f[m] = G[<<m, f[m - 1]>>]
StaysIn(G, N, X) == \A m \in 1..N, x \in X : G[<<m, x>>] \in X

LEMMA Iterates ==
    ASSUME NEW X, NEW x0 \in X, NEW N \in Nat, NEW G, StaysIn(G, N, X)
    PROVE  \E f \in [0..N -> X] : Along(f, N, x0, G)
<1>0. \A m \in 1..N, x \in X : G[<<m, x>>] \in X
  BY DEF StaysIn
<1> DEFINE Upto(n) == \E f \in [0..n -> X] : f[0] = x0 /\ \A m \in 1..n : f[m] = G[<<m, f[m - 1]>>]
           T == {n \in 0..N : ~Upto(n)}
<1>1. ASSUME T # {} PROVE FALSE
  <2>1. T \subseteq Nat
    OBVIOUS
  <2>2. PICK z \in T : \A y \in T : z <= y
    BY <1>1, <2>1, LeastThere
  <2>3. z \in 0..N /\ ~Upto(z)
    BY <2>2
  <2>4. CASE z = 0
    <3>1. PICK f : f = [m \in 0..0 |-> x0]
      OBVIOUS
    <3>2. f \in [0..0 -> X] /\ f[0] = x0 /\ \A m : m \notin 1..0
      BY <3>1
    <3> QED BY <2>3, <2>4, <3>2
  <2>5. CASE z # 0
    <3>1. z - 1 \in 0..N /\ ~(z <= z - 1) /\ z \in Nat /\ z - 1 \in Nat
      BY <2>3, <2>5
    <3>2. Upto(z - 1)
      BY <2>2, <3>1
    <3>3. PICK f \in [0..(z - 1) -> X] : f[0] = x0 /\ \A m \in 1..(z - 1) : f[m] = G[<<m, f[m - 1]>>]
      BY <3>2
    <3>4. PICK g : g = [m \in 0..z |-> IF m = z THEN G[<<z, f[z - 1]>>] ELSE f[m]]
      OBVIOUS
    <3>5. z - 1 \in 0..(z - 1) /\ z \in 1..N /\ 0 \in 0..z /\ \A m \in 0..z : m # z => m \in 0..(z - 1)
      BY <2>3, <2>5, <3>1
    <3>6. g \in [0..z -> X]
      BY <1>0, <3>3, <3>4, <3>5
    <3>7. g[0] = x0
      BY <2>5, <3>3, <3>4, <3>5
    <3>8. ASSUME NEW m \in 1..z PROVE g[m] = G[<<m, g[m - 1]>>]
      <4>1. m - 1 \in 0..z /\ m - 1 # z /\ m \in 0..z
        BY <3>1
      <4>2. g[m - 1] = f[m - 1]
        BY <3>4, <4>1
      <4>3. m # z => m \in 1..(z - 1)
        BY <3>1
      <4> QED BY <3>3, <3>4, <4>1, <4>2, <4>3
    <3> QED BY <2>3, <3>6, <3>7, <3>8
  <2> QED BY <2>4, <2>5
<1>2. N \in 0..N
  OBVIOUS
<1>3. Upto(N)
  BY <1>1, <1>2
<1> QED BY <1>3 DEF Along


-----------------------------------------------------------------------------
(* Filtered sequences.                                                     *)

\* What is kept of the first n elements
KeptOf(k, s, S) ==
    k = [n \in 0..Len(s) |->
            IF n = 0 THEN << >>
            ELSE IF s[n] \in S THEN Append(k[n - 1], s[n]) ELSE k[n - 1]]

LEMMA KeptThere ==
    ASSUME NEW A, NEW s \in Seq(A), NEW S
    PROVE  \E k : KeptOf(k, s, S)
<1>1. PICK N \in Nat : N = Len(s)
  OBVIOUS
<1>2. PICK X, none, G : X = Seq(A) /\ none = << >> /\ G = [p \in (1..N) \X X |-> IF s[p[1]] \in S THEN Append(p[2], s[p[1]]) ELSE p[2]]
  OBVIOUS
<1>3. \A m \in 1..N, x \in X : G[<<m, x>>] = IF s[m] \in S THEN Append(x, s[m]) ELSE x
  BY <1>2
<1>4. StaysIn(G, N, X)
  <2>1. \A m \in 1..N : s[m] \in A
    BY <1>1, ElementOfSeq
  <2>2. \A m \in 1..N, x \in X : Append(x, s[m]) \in X
    BY <1>2, <2>1, AppendProperties
  <2> QED BY <1>3, <2>2 DEF StaysIn
<1>5. none \in X
  BY <1>2, EmptySeq
<1>6. PICK k \in [0..N -> X] : Along(k, N, none, G)
  BY <1>4, <1>5, Iterates
<1>7. ASSUME NEW n \in 0..N
      PROVE  k[n] = IF n = 0 THEN << >>
                    ELSE IF s[n] \in S THEN Append(k[n - 1], s[n]) ELSE k[n - 1]
  <2>1. n # 0 => n \in 1..N /\ n - 1 \in 0..N
    OBVIOUS
  <2> QED BY <1>2, <1>3, <1>6, <2>1 DEF Along
<1>8. k = [n \in 0..N |-> IF n = 0 THEN << >>
                          ELSE IF s[n] \in S THEN Append(k[n - 1], s[n]) ELSE k[n - 1]]
  BY <1>6, <1>7
<1> QED BY <1>1, <1>8 DEF KeptOf

\* The first n elements of two sequences are the same.
Agree(s, t, N) == N <= Len(s) /\ N <= Len(t) /\ \A n \in 1..N : s[n] = t[n]

\* What is kept of the first n elements does not depend on the others.
LEMMA KeptSame ==
    ASSUME NEW A, NEW s \in Seq(A), NEW t \in Seq(A), NEW S, NEW N \in Nat, Agree(s, t, N),
           NEW k, NEW l, KeptOf(k, s, S), KeptOf(l, t, S)
    PROVE  k[N] = l[N]
<1> DEFINE T == {n \in 0..N : k[n] # l[n]}
<1>0. \A n \in 0..N : n \in 0..Len(s) /\ n \in 0..Len(t)
  BY DEF Agree
<1>1. \A n \in 0..N : k[n] = IF n = 0 THEN << >> ELSE IF s[n] \in S THEN Append(k[n - 1], s[n]) ELSE k[n - 1]
  BY <1>0 DEF KeptOf
<1>2. \A n \in 0..N : l[n] = IF n = 0 THEN << >> ELSE IF t[n] \in S THEN Append(l[n - 1], t[n]) ELSE l[n - 1]
  BY <1>0 DEF KeptOf
<1>3. ASSUME T # {} PROVE FALSE
  <2>1. T \subseteq Nat
    OBVIOUS
  <2>2. PICK z \in T : \A y \in T : z <= y
    BY <1>3, <2>1, LeastThere
  <2>3. 0 \in 0..N
    OBVIOUS
  <2>4. z # 0 /\ z \in 0..N
    BY <1>1, <1>2, <2>2, <2>3
  <2>5. z - 1 \in 0..N /\ ~(z <= z - 1) /\ z \in 1..N
    BY <2>4
  <2>6. k[z - 1] = l[z - 1]
    BY <2>2, <2>5
  <2> QED BY <1>1, <1>2, <2>2, <2>4, <2>5, <2>6 DEF Agree
<1>4. N \in 0..N
  OBVIOUS
<1> QED BY <1>3, <1>4

LEMMA OnlyIs ==
    ASSUME NEW A, NEW s \in Seq(A), NEW S, NEW k, KeptOf(k, s, S)
    PROVE  Only(s, S) = k[Len(s)]
<1> DEFINE kept == CHOOSE f : KeptOf(f, s, S)
<1>1. KeptOf(kept, s, S)
  OBVIOUS
<1>2. Only(s, S) = kept[Len(s)]
  BY DEF Only, KeptOf
<1> HIDE DEF kept
<1>3. Len(s) \in Nat /\ Agree(s, s, Len(s))
  BY DEF Agree
<1>4. kept[Len(s)] = k[Len(s)]
  BY <1>1, <1>3, KeptSame
<1> QED BY <1>2, <1>4

LEMMA OnlyNone == ASSUME NEW S PROVE Only(<< >>, S) = << >>
<1>1. PICK none \in Seq({}) : none = << >> /\ Len(none) = 0
  BY EmptySeq
<1>2. PICK k : KeptOf(k, none, S)
  BY KeptThere
<1>3. k[0] = << >>
  BY <1>1, <1>2 DEF KeptOf
<1>4. Only(none, S) = k[0]
  BY <1>1, <1>2, OnlyIs
<1> QED BY <1>1, <1>3, <1>4

LEMMA OnlyAppend ==
    ASSUME NEW A, NEW s \in Seq(A), NEW e \in A, NEW S
    PROVE  Only(Append(s, e), S) = IF e \in S THEN Append(Only(s, S), e) ELSE Only(s, S)
<1>1. PICK N \in Nat : N = Len(s)
  OBVIOUS
<1>0. PICK t : t = Append(s, e)
  OBVIOUS
<1>2. t \in Seq(A) /\ Len(t) = N + 1 /\ t[N + 1] = e /\ \A i \in 1..N : t[i] = s[i]
  BY <1>0, <1>1, AppendProperties
<1>3. PICK k : KeptOf(k, s, S)
  BY KeptThere
<1>4. PICK l : KeptOf(l, t, S)
  BY <1>2, KeptThere
<1>5. Agree(s, t, N)
  BY <1>1, <1>2 DEF Agree
<1>6. k[N] = l[N]
  BY <1>2, <1>3, <1>4, <1>5, KeptSame
<1>7. N + 1 \in 0..Len(t) /\ N + 1 # 0 /\ (N + 1) - 1 = N
  BY <1>2
<1>8. l[N + 1] = IF t[N + 1] \in S THEN Append(l[N], t[N + 1]) ELSE l[N]
  BY <1>4, <1>7 DEF KeptOf
<1>9. Only(t, S) = l[N + 1]
  BY <1>2, <1>4, OnlyIs
<1>10. Only(s, S) = k[N]
  BY <1>1, <1>3, OnlyIs
<1> QED BY <1>0, <1>2, <1>6, <1>8, <1>9, <1>10


-----------------------------------------------------------------------------
(* A set that holds the empty sequence and whatever an element is appended *)
(* to holds every sequence.                                                *)
GrowsIn(A, H) == << >> \in H /\ \A u \in Seq(A), e \in A : u \in H => Append(u, e) \in H

LEMMA ByAppending ==
    ASSUME NEW A, NEW H, GrowsIn(A, H)
    PROVE  \A s \in Seq(A) : s \in H
<1> DEFINE T == {n \in Nat : \E s \in Seq(A) : Len(s) = n /\ s \notin H}
<1>1. ASSUME T # {} PROVE FALSE
  <2>1. T \subseteq Nat
    OBVIOUS
  <2>2. PICK z \in T : \A y \in T : z <= y
    BY <1>1, <2>1, LeastThere
  <2>3. PICK s \in Seq(A) : Len(s) = z /\ s \notin H
    BY <2>2
  <2>4. s # << >>
    BY <2>3 DEF GrowsIn
  <2>5. PICK u \in Seq(A), e \in A : s = Append(u, e)
    BY <2>4, SequenceEmptyOrAppend
  <2>6. Len(s) = Len(u) + 1 /\ Len(u) \in Nat
    BY <2>5, AppendProperties
  <2>7. u \notin H
    BY <2>3, <2>5 DEF GrowsIn
  <2>8. Len(u) \in T
    BY <2>6, <2>7
  <2> QED BY <2>2, <2>3, <2>6, <2>8
<1>2. \A s \in Seq(A) : Len(s) \in Nat
  OBVIOUS
<1> QED BY <1>1, <1>2

LEMMA OnlyType ==
    ASSUME NEW A, NEW s \in Seq(A), NEW S
    PROVE  Only(s, S) \in Seq(A \cap S)
<1> DEFINE H == {u \in Seq(A) : Only(u, S) \in Seq(A \cap S)}
<1>1. << >> \in H
  BY OnlyNone, EmptySeq
<1>2. ASSUME NEW u \in Seq(A), NEW e \in A, u \in H PROVE Append(u, e) \in H
  <2>1. Append(u, e) \in Seq(A)
    BY AppendProperties
  <2>2. Only(Append(u, e), S) = IF e \in S THEN Append(Only(u, S), e) ELSE Only(u, S)
    BY OnlyAppend
  <2>3. Only(u, S) \in Seq(A \cap S)
    BY <1>2
  <2>4. e \in S => Append(Only(u, S), e) \in Seq(A \cap S)
    BY <2>3, AppendProperties
  <2> QED BY <2>1, <2>2, <2>3, <2>4
<1>3. GrowsIn(A, H)
  BY <1>1, <1>2 DEF GrowsIn
<1> HIDE DEF H
<1>4. s \in H
  BY <1>3, ByAppending
<1> QED BY <1>4 DEF H

\* Only the elements of the sequence matter.
LEMMA OnlySame ==
    ASSUME NEW A, NEW s \in Seq(A), NEW S, NEW R, S \cap A = R \cap A
    PROVE  Only(s, S) = Only(s, R)
<1> DEFINE H == {u \in Seq(A) : Only(u, S) = Only(u, R)}
<1>1. << >> \in H
  BY OnlyNone, EmptySeq
<1>2. ASSUME NEW u \in Seq(A), NEW e \in A, u \in H PROVE Append(u, e) \in H
  <2>1. Append(u, e) \in Seq(A)
    BY AppendProperties
  <2>2. Only(Append(u, e), S) = IF e \in S THEN Append(Only(u, S), e) ELSE Only(u, S)
    BY OnlyAppend
  <2>3. Only(Append(u, e), R) = IF e \in R THEN Append(Only(u, R), e) ELSE Only(u, R)
    BY OnlyAppend
  <2>4. e \in S <=> e \in R
    OBVIOUS
  <2> QED BY <1>2, <2>1, <2>2, <2>3, <2>4
<1>3. GrowsIn(A, H)
  BY <1>1, <1>2 DEF GrowsIn
<1> HIDE DEF H
<1>4. s \in H
  BY <1>3, ByAppending
<1> QED BY <1>4 DEF H

\* Nothing in the set, nothing left
LEMMA OnlyNothing ==
    ASSUME NEW A, NEW s \in Seq(A), NEW S, S \cap A = {}
    PROVE  Only(s, S) = << >>
<1> DEFINE H == {u \in Seq(A) : Only(u, S) = << >>}
<1>1. << >> \in H
  BY OnlyNone, EmptySeq
<1>2. ASSUME NEW u \in Seq(A), NEW e \in A, u \in H PROVE Append(u, e) \in H
  <2>1. Append(u, e) \in Seq(A)
    BY AppendProperties
  <2>2. Only(Append(u, e), S) = IF e \in S THEN Append(Only(u, S), e) ELSE Only(u, S)
    BY OnlyAppend
  <2>3. e \notin S
    OBVIOUS
  <2> QED BY <1>2, <2>1, <2>2, <2>3
<1>3. GrowsIn(A, H)
  BY <1>1, <1>2 DEF GrowsIn
<1> HIDE DEF H
<1>4. s \in H
  BY <1>3, ByAppending
<1> QED BY <1>4 DEF H

LEMMA OneSeq == ASSUME NEW A, NEW e \in A PROVE <<e>> \in Seq(A)
<1>1. << >> \in Seq(A)
  BY EmptySeq
<1>2. Append(<< >>, e) = <<e>>
  OBVIOUS
<1> QED BY <1>1, <1>2, AppendProperties

LEMMA OnlyConcat ==
    ASSUME NEW A, NEW s \in Seq(A), NEW t \in Seq(A), NEW S
    PROVE  Only(s \o t, S) = Only(s, S) \o Only(t, S)
<1> DEFINE H == {u \in Seq(A) : Only(s \o u, S) = Only(s, S) \o Only(u, S)}
<1>0. Only(s, S) \in Seq(A \cap S)
  BY OnlyType
<1>1. << >> \in H
  <2>1. s \o << >> = s
    BY ConcatEmptySeq
  <2>2. Only(s, S) \o << >> = Only(s, S)
    BY <1>0, ConcatEmptySeq
  <2>3. << >> \in Seq(A)
    BY EmptySeq
  <2> QED BY <2>1, <2>2, <2>3, OnlyNone
<1>2. ASSUME NEW u \in Seq(A), NEW e \in A, u \in H PROVE Append(u, e) \in H
  <2>1. Append(u, e) \in Seq(A) /\ Append(u, e) = u \o <<e>>
    BY AppendProperties, AppendIsConcat
  <2>2. Only(Append(u, e), S) = IF e \in S THEN Append(Only(u, S), e) ELSE Only(u, S)
    BY OnlyAppend
  <2>3. s \o u \in Seq(A)
    BY ConcatProperties
  <2>4. Only(Append(s \o u, e), S) = IF e \in S THEN Append(Only(s \o u, S), e) ELSE Only(s \o u, S)
    BY <2>3, OnlyAppend
  <2>5. PICK one \in Seq(A) : one = <<e>>
    BY OneSeq
  <2>6. Append(s \o u, e) = (s \o u) \o one
    BY <2>3, <2>5, AppendIsConcat
  <2>7. (s \o u) \o one = s \o (u \o one)
    BY ConcatAssociative
  <2>8. Append(s \o u, e) = s \o Append(u, e)
    BY <2>1, <2>5, <2>6, <2>7
  <2>9. Only(u, S) \in Seq(A \cap S)
    BY OnlyType
  <2>10. ASSUME e \in S PROVE Append(Only(s, S) \o Only(u, S), e) = Only(s, S) \o Append(Only(u, S), e)
    <3>1. PICK b \in Seq(A \cap S) : b = <<e>>
      BY <2>10, OneSeq
    <3>2. Only(s, S) \o Only(u, S) \in Seq(A \cap S)
      BY <1>0, <2>9, ConcatProperties
    <3>3. e \in A \cap S
      BY <2>10
    <3>4. Append(Only(s, S) \o Only(u, S), e) = (Only(s, S) \o Only(u, S)) \o b
      BY <3>1, <3>2, <3>3, AppendIsConcat
    <3>5. Append(Only(u, S), e) = Only(u, S) \o b
      BY <2>9, <3>1, <3>3, AppendIsConcat
    <3>6. (Only(s, S) \o Only(u, S)) \o b = Only(s, S) \o (Only(u, S) \o b)
      BY <1>0, <2>9, <3>1, ConcatAssociative
    <3> QED BY <3>4, <3>5, <3>6
  <2>11. Only(s \o u, S) = Only(s, S) \o Only(u, S)
    BY <1>2
  <2>12. Only(s \o Append(u, e), S) = Only(s, S) \o Only(Append(u, e), S)
    BY <2>2, <2>4, <2>8, <2>10, <2>11
  <2> QED BY <2>1, <2>12
<1>3. GrowsIn(A, H)
  BY <1>1, <1>2 DEF GrowsIn
<1> HIDE DEF H
<1>4. t \in H
  BY <1>3, ByAppending
<1> QED BY <1>4 DEF H

FilterJoined(s, t, S) == Only(s \o t, S) = Only(s, S) \o Only(t, S)

LEMMA OnlyJoined ==
    ASSUME NEW A, NEW s \in Seq(A), NEW t \in Seq(A), NEW S
    PROVE  FilterJoined(s, t, S)
  BY OnlyConcat DEF FilterJoined

\* What is left stands in the order of the sequence.
StandsIn(t, s) ==
    /\ \A i \in DOMAIN t : \E a \in DOMAIN s : t[i] = s[a]
    /\ \A i, j \in DOMAIN t : i < j => \E a, b \in DOMAIN s : a < b /\ t[i] = s[a] /\ t[j] = s[b]

LEMMA OnlyInOrder ==
    ASSUME NEW A, NEW s \in Seq(A), NEW S
    PROVE  StandsIn(Only(s, S), s)
<1> DEFINE H == {u \in Seq(A) : StandsIn(Only(u, S), u)}
<1>1. << >> \in H
  <2>1. \A i \in DOMAIN << >> : FALSE
    OBVIOUS
  <2>2. StandsIn(<< >>, << >>)
    BY <2>1 DEF StandsIn
  <2> QED BY <2>2, OnlyNone, EmptySeq
<1>2. ASSUME NEW u \in Seq(A), NEW e \in A, u \in H PROVE Append(u, e) \in H
  <2>0. PICK v, k, q : v = Append(u, e) /\ k = Only(u, S) /\ q = Only(v, S)
    OBVIOUS
  <2>1. v \in Seq(A)
    BY <2>0, AppendProperties
  <2>2. v[Len(u) + 1] = e /\ \A i \in 1..Len(u) : v[i] = u[i]
    BY <2>0, AppendProperties
  <2>3. DOMAIN u = 1..Len(u) /\ DOMAIN v = 1..(Len(u) + 1) /\ Len(u) \in Nat
    BY <2>0, <2>1, AppendProperties, LenProperties
  <2>4. StandsIn(k, u)
    BY <1>2, <2>0
  <2>5. StandsIn(k, v)
    <3>1. \A a \in DOMAIN u : a \in DOMAIN v /\ v[a] = u[a]
      BY <2>2, <2>3
    <3> QED BY <2>4, <3>1 DEF StandsIn
  <2>6. q = IF e \in S THEN Append(k, e) ELSE k
    BY <2>0, OnlyAppend
  <2>7. CASE e \in S
    <3>1. k \in Seq(A \cap S)
      BY <2>0, OnlyType
    <3>2. q \in Seq(A \cap S) /\ q[Len(k) + 1] = e /\ \A i \in 1..Len(k) : q[i] = k[i]
      BY <2>6, <2>7, <3>1, AppendProperties
    <3>3. DOMAIN k = 1..Len(k) /\ DOMAIN q = 1..(Len(k) + 1) /\ Len(k) \in Nat
      BY <2>6, <2>7, <3>1, <3>2, AppendProperties, LenProperties
    <3>4. Len(u) + 1 \in DOMAIN v /\ \A a \in DOMAIN u : a < Len(u) + 1 /\ a \in DOMAIN v /\ v[a] = u[a]
      BY <2>2, <2>3
    <3>5. \A i \in DOMAIN q : (i \in DOMAIN k /\ q[i] = k[i]) \/ (i = Len(k) + 1 /\ q[i] = e)
      BY <3>2, <3>3
    <3>6. \A i \in DOMAIN q : \E a \in DOMAIN v : q[i] = v[a]
      BY <2>2, <2>5, <3>4, <3>5 DEF StandsIn
    <3>7. ASSUME NEW i \in DOMAIN q, NEW j \in DOMAIN q, i < j
          PROVE  \E a, b \in DOMAIN v : a < b /\ q[i] = v[a] /\ q[j] = v[b]
      <4>1. i \in DOMAIN k /\ q[i] = k[i]
        BY <3>2, <3>3, <3>7
      <4>2. CASE j \in DOMAIN k /\ q[j] = k[j]
        BY <2>5, <3>7, <4>1, <4>2 DEF StandsIn
      <4>3. CASE j = Len(k) + 1 /\ q[j] = e
        <5>1. PICK a \in DOMAIN u : k[i] = u[a]
          BY <2>4, <4>1 DEF StandsIn
        <5> QED BY <2>2, <3>4, <4>1, <4>3, <5>1
      <4> QED BY <3>5, <4>2, <4>3
    <3>8. StandsIn(q, v)
      BY <3>6, <3>7 DEF StandsIn
    <3> QED BY <2>0, <2>1, <3>8
  <2> QED BY <2>0, <2>1, <2>5, <2>6, <2>7
<1>3. GrowsIn(A, H)
  BY <1>1, <1>2 DEF GrowsIn
<1> HIDE DEF H
<1>4. s \in H
  BY <1>3, ByAppending
<1> QED BY <1>4 DEF H

\* And nothing else of what passes is missing.
LEMMA OnlyHas ==
    ASSUME NEW A, NEW s \in Seq(A), NEW S, NEW a \in 1..Len(s), s[a] \in S
    PROVE  \E i \in 1..Len(Only(s, S)) : Only(s, S)[i] = s[a]
<1> DEFINE H == {u \in Seq(A) : \A b \in 1..Len(u) : u[b] \in S =>
                    \E i \in 1..Len(Only(u, S)) : Only(u, S)[i] = u[b]}
<1>1. << >> \in H
  <2>1. << >> \in Seq(A) /\ 1..Len(<< >>) = {}
    BY EmptySeq
  <2> QED BY <2>1
<1>2. ASSUME NEW u \in Seq(A), NEW e \in A, u \in H PROVE Append(u, e) \in H
  <2>0. PICK v, k, q : v = Append(u, e) /\ k = Only(u, S) /\ q = Only(v, S)
    OBVIOUS
  <2>1. v \in Seq(A) /\ Len(v) = Len(u) + 1 /\ v[Len(u) + 1] = e /\ \A b \in 1..Len(u) : v[b] = u[b]
    BY <2>0, AppendProperties
  <2>2. k \in Seq(A \cap S) /\ Len(k) \in Nat /\ Len(u) \in Nat
    <3>1. k \in Seq(A \cap S)
      BY <2>0, OnlyType
    <3> QED BY <3>1
  <2>3. q = IF e \in S THEN Append(k, e) ELSE k
    BY <2>0, OnlyAppend
  <2>4. \A b \in 1..Len(u) : u[b] \in S => \E i \in 1..Len(k) : k[i] = u[b]
    BY <1>2, <2>0
  <2>5. ASSUME NEW b \in 1..Len(v), v[b] \in S PROVE \E i \in 1..Len(q) : q[i] = v[b]
    <3>1. b \in 1..Len(u) \/ b = Len(u) + 1
      BY <2>1, <2>2
    <3>2. CASE e \notin S
      <4>1. b \in 1..Len(u) /\ v[b] = u[b]
        BY <2>1, <2>5, <3>1, <3>2
      <4> QED BY <2>3, <2>4, <2>5, <3>2, <4>1
    <3>3. CASE e \in S
      <4>1. Len(q) = Len(k) + 1 /\ q[Len(k) + 1] = e /\ \A i \in 1..Len(k) : q[i] = k[i]
        BY <2>2, <2>3, <3>3, AppendProperties
      <4>2. \A i \in 1..Len(k) : i \in 1..Len(q)
        BY <2>2, <4>1
      <4>3. Len(k) + 1 \in 1..Len(q)
        BY <2>2, <4>1
      <4>4. CASE b \in 1..Len(u)
        BY <2>1, <2>4, <2>5, <4>1, <4>2, <4>4
      <4>5. CASE b = Len(u) + 1
        BY <2>1, <4>1, <4>3, <4>5
      <4> QED BY <3>1, <4>4, <4>5
    <3> QED BY <3>2, <3>3
  <2>6. \A b \in 1..Len(v) : v[b] \in S => \E i \in 1..Len(q) : q[i] = v[b]
    BY <2>5
  <2> QED BY <2>0, <2>1, <2>6
<1>3. GrowsIn(A, H)
  BY <1>1, <1>2 DEF GrowsIn
<1> HIDE DEF H
<1>4. s \in H
  BY <1>3, ByAppending
<1> QED BY <1>4 DEF H



LEMMA SliceElements ==
    ASSUME NEW s, NEW m \in Int, NEW n \in Int
    PROVE  \A i \in 1..((n - m) + 1) : SubSeq(s, m, n)[i] = s[(m + i) - 1]
<1>1. PICK A : A = {s[i] : i \in m..n}
  OBVIOUS
<1>2. \A i \in m..n : s[i] \in A
  BY <1>1
<1>3. /\ SubSeq(s, m, n) \in Seq(A)
      /\ Len(SubSeq(s, m, n)) = IF m <= n THEN (n - m) + 1 ELSE 0
      /\ \A i \in 1..((n - m) + 1) : SubSeq(s, m, n)[i] = s[(m + i) - 1]
  BY <1>2, SubSeqProperties
<1> QED BY <1>3

\* What stands around the element dropped
LEMMA DropMiddle ==
    ASSUME NEW A, NEW u \in Seq(A), NEW e \in A, NEW r \in Seq(A), NEW x, x = (u \o <<e>>) \o r
    PROVE  SubSeq(x, 1, Len(u)) = u /\ SubSeq(x, Len(u) + 2, Len(x)) = r
<1>1. PICK N \in Nat, M \in Nat : N = Len(u) /\ M = Len(r)
  OBVIOUS
<1>2. PICK v \in Seq(A) : v = u \o <<e>> /\ Len(v) = N + 1 /\ \A k \in 1..N : v[k] = u[k]
  <2>1. PICK v : v = Append(u, e)
    OBVIOUS
  <2>2. v = u \o <<e>>
    BY <2>1, AppendIsConcat
  <2>3. v \in Seq(A) /\ Len(v) = Len(u) + 1 /\ \A k \in 1..Len(u) : v[k] = u[k]
    BY <2>1, AppendProperties
  <2> QED BY <1>1, <2>2, <2>3
<1>3. x = v \o r
  BY <1>2
<1>4. x \in Seq(A) /\ Len(x) = (N + 1) + M
  BY <1>1, <1>2, <1>3, ConcatProperties
<1>5. \A k \in 1..((N + 1) + M) : x[k] = IF k <= N + 1 THEN v[k] ELSE r[k - (N + 1)]
  BY <1>1, <1>2, <1>3, ConcatProperties
<1>6. SubSeq(x, 1, N) = u
  <2>1. \A k \in 1..N : x[k] = u[k]
    BY <1>2, <1>5
  <2>2. \A k \in 1..N : x[k] \in A
    BY <1>1, <2>1, ElementOfSeq
  <2>a. 1 \in Int /\ N \in Int
    OBVIOUS
  <2>3. SubSeq(x, 1, N) \in Seq(A)
    BY <2>2, <2>a, SubSeqProperties
  <2>4. Len(SubSeq(x, 1, N)) = IF 1 <= N THEN (N - 1) + 1 ELSE 0
    BY <2>2, <2>a, SubSeqProperties
  <2>5. \A k \in 1..((N - 1) + 1) : SubSeq(x, 1, N)[k] = x[(1 + k) - 1]
    BY <2>a, SliceElements
  <2>b. \A k \in 1..N : k \in 1..((N - 1) + 1) /\ (1 + k) - 1 = k
    OBVIOUS
  <2>6. \A k \in 1..N : SubSeq(x, 1, N)[k] = u[k]
    BY <2>1, <2>5, <2>b
  <2>7. Len(SubSeq(x, 1, N)) = Len(u)
    BY <1>1, <2>4
  <2> QED BY <1>1, <2>3, <2>6, <2>7, SeqEqual
<1>7. SubSeq(x, N + 2, (N + 1) + M) = r
  <2>1. \A k \in (N + 2)..((N + 1) + M) : x[k] = r[k - (N + 1)] /\ k - (N + 1) \in 1..M
    <3>1. \A k \in (N + 2)..((N + 1) + M) : k \in 1..((N + 1) + M) /\ ~(k <= N + 1) /\ k - (N + 1) \in 1..M
      OBVIOUS
    <3> QED BY <1>5, <3>1
  <2>2. \A k \in (N + 2)..((N + 1) + M) : x[k] \in A
    BY <1>1, <2>1, ElementOfSeq
  <2>3. N + 2 \in Int /\ (N + 1) + M \in Int
    OBVIOUS
  <2>4. SubSeq(x, N + 2, (N + 1) + M) \in Seq(A)
    BY <2>2, <2>3, SubSeqProperties
  <2>5. Len(SubSeq(x, N + 2, (N + 1) + M)) = IF N + 2 <= (N + 1) + M THEN (((N + 1) + M) - (N + 2)) + 1 ELSE 0
    BY <2>2, <2>3, SubSeqProperties
  <2>6. \A k \in 1..((((N + 1) + M) - (N + 2)) + 1) : SubSeq(x, N + 2, (N + 1) + M)[k] = x[((N + 2) + k) - 1]
    BY <2>3, SliceElements
  <2>7. ASSUME NEW k \in 1..M PROVE SubSeq(x, N + 2, (N + 1) + M)[k] = r[k]
    <3>1. k \in 1..((((N + 1) + M) - (N + 2)) + 1) /\ ((N + 2) + k) - 1 = (N + 1) + k
      OBVIOUS
    <3>2. (N + 1) + k \in (N + 2)..((N + 1) + M) /\ ((N + 1) + k) - (N + 1) = k
      OBVIOUS
    <3>3. x[(N + 1) + k] = r[k]
      BY <2>1, <3>2
    <3> QED BY <2>6, <3>1, <3>3
  <2>8. Len(SubSeq(x, N + 2, (N + 1) + M)) = Len(r)
    BY <1>1, <2>5
  <2> QED BY <1>1, <2>4, <2>7, <2>8, SeqEqual
<1> QED BY <1>1, <1>4, <1>6, <1>7


FirstJoined(e, w, S) ==
    Only(<<e>> \o w, S) = IF e \in S THEN <<e>> \o Only(w, S) ELSE Only(w, S)

LEMMA OnlyFirst ==
    ASSUME NEW A, NEW e \in A, NEW w \in Seq(A), NEW S
    PROVE  FirstJoined(e, w, S)
<1>1. PICK one \in Seq(A) : one = <<e>>
  BY OneSeq
<1>2. Only(one \o w, S) = Only(one, S) \o Only(w, S)
  BY OnlyConcat
<1>3. Only(one, S) = IF e \in S THEN one ELSE << >>
  <2>1. << >> \in Seq(A) /\ Append(<< >>, e) = one
    BY <1>1, EmptySeq
  <2>2. Only(Append(<< >>, e), S) = IF e \in S THEN Append(Only(<< >>, S), e) ELSE Only(<< >>, S)
    BY <2>1, OnlyAppend
  <2> QED BY <2>1, <2>2, OnlyNone
<1>4. Only(w, S) \in Seq(A \cap S)
  BY OnlyType
<1>5. << >> \o Only(w, S) = Only(w, S)
  BY <1>4, ConcatEmptySeq
<1> QED BY <1>1, <1>2, <1>3, <1>5 DEF FirstJoined

\* The filter is put off by one element.
OneFurther(u, e, w, S) ==
    u \o Only(<<e>> \o w, S) = IF e \in S THEN (u \o <<e>>) \o Only(w, S) ELSE u \o Only(w, S)

LEMMA OneBack ==
    ASSUME NEW A, NEW u \in Seq(A), NEW e \in A, NEW w \in Seq(A), NEW S
    PROVE  OneFurther(u, e, w, S)
<1>1. PICK one \in Seq(A) : one = <<e>>
  BY OneSeq
<1>2. PICK r \in Seq(A) : r = Only(w, S)
  <2>1. Only(w, S) \in Seq(A \cap S)
    BY OnlyType
  <2> QED BY <2>1, SeqMonotonic
<1>3. Only(<<e>> \o w, S) = IF e \in S THEN one \o r ELSE r
  <2>1. FirstJoined(e, w, S)
    BY OnlyFirst
  <2> QED BY <1>1, <1>2, <2>1 DEF FirstJoined
<1>4. (u \o one) \o r = u \o (one \o r)
  BY ConcatAssociative
<1> QED BY <1>1, <1>2, <1>3, <1>4 DEF OneFurther


LEMMA HeadTailOne ==
    ASSUME NEW A, NEW e \in A, NEW r \in Seq(A), NEW h, h = <<e>> \o r
    PROVE  Head(h) = e /\ Tail(h) = r
<1>1. PICK one : one \in Seq(A) /\ one = <<e>> /\ Len(one) = 1 /\ one[1] = e
  <2>1. Len(<<e>>) = 1 /\ <<e>>[1] = e
    OBVIOUS
  <2> QED BY <2>1, OneSeq
<1>2. PICK M \in Nat : M = Len(r)
  OBVIOUS
<1>3. h \in Seq(A) /\ Len(h) = 1 + M /\ \A i \in 1..(1 + M) : h[i] = IF i <= 1 THEN one[i] ELSE r[i - 1]
  <2>1. h = one \o r
    BY <1>1
  <2>2. h \in Seq(A) /\ Len(h) = Len(one) + Len(r)
    BY <2>1, ConcatProperties
  <2>3. \A i \in 1..(Len(one) + Len(r)) : h[i] = IF i <= Len(one) THEN one[i] ELSE r[i - Len(one)]
    BY <2>1, ConcatProperties
  <2> QED BY <1>1, <1>2, <2>2, <2>3
<1>4. h # << >>
  BY <1>3
<1>5. Tail(h) \in Seq(A) /\ Len(Tail(h)) = M
  BY <1>3, <1>4, HeadTailProperties
<1>6. \A i \in 1..Len(Tail(h)) : Tail(h)[i] = h[i + 1]
  BY <1>3, <1>4, HeadTailProperties
<1>7. \A i \in 1..M : i + 1 \in 1..(1 + M) /\ ~(i + 1 <= 1) /\ (i + 1) - 1 = i
  OBVIOUS
<1>8. \A i \in 1..M : Tail(h)[i] = r[i]
  BY <1>3, <1>5, <1>6, <1>7
<1>9. Tail(h) = r
  BY <1>2, <1>5, <1>8, SeqEqual
<1>10. Head(h) = h[1] /\ h[1] = e
  BY <1>1, <1>3, <1>4
<1> QED BY <1>9, <1>10

\* What is left when one element is dropped
LeftOut(s, k, t) == t = SubSeq(s, 1, k - 1) \o SubSeq(s, k + 1, Len(s))
OneLess(s, k, t) ==
    /\ Len(t) = Len(s) - 1
    /\ \A j \in 1..(Len(s) - 1) : t[j] = IF j < k THEN s[j] ELSE s[j + 1]

LEMMA WithoutOne ==
    ASSUME NEW A, NEW s \in Seq(A), NEW k \in 1..Len(s), NEW t, LeftOut(s, k, t)
    PROVE  t \in Seq(A) /\ OneLess(s, k, t)
<1>1. PICK N \in Nat : N = Len(s) /\ k \in 1..N
  OBVIOUS
<1>2. \A j \in 1..N : s[j] \in A
  BY <1>1, ElementOfSeq
<1>3. PICK p : p = SubSeq(s, 1, k - 1)
  OBVIOUS
<1>4. p \in Seq(A) /\ Len(p) = k - 1 /\ \A j \in 1..(k - 1) : p[j] = s[j]
  <2>1. 1 \in Int /\ k - 1 \in Int /\ \A j \in 1..(k - 1) : j \in 1..N
    BY <1>1
  <2>2. \A j \in 1..(k - 1) : s[j] \in A
    BY <1>2, <2>1
  <2>3. p \in Seq(A)
    BY <1>3, <2>1, <2>2, SubSeqProperties
  <2>4. Len(p) = IF 1 <= k - 1 THEN ((k - 1) - 1) + 1 ELSE 0
    BY <1>3, <2>1, <2>2, SubSeqProperties
  <2>5. \A j \in 1..(((k - 1) - 1) + 1) : p[j] = s[(1 + j) - 1]
    BY <1>3, <2>1, SliceElements
  <2>6. \A j \in 1..(k - 1) : j \in 1..(((k - 1) - 1) + 1) /\ (1 + j) - 1 = j
    OBVIOUS
  <2> QED BY <1>1, <2>3, <2>4, <2>5, <2>6
<1>5. PICK q : q = SubSeq(s, k + 1, N)
  OBVIOUS
<1>6. q \in Seq(A) /\ Len(q) = N - k /\ \A j \in 1..(N - k) : q[j] = s[k + j]
  <2>1. k + 1 \in Int /\ N \in Int /\ \A j \in (k + 1)..N : j \in 1..N
    BY <1>1
  <2>2. \A j \in (k + 1)..N : s[j] \in A
    BY <1>2, <2>1
  <2>3. q \in Seq(A)
    BY <1>5, <2>1, <2>2, SubSeqProperties
  <2>4. Len(q) = IF k + 1 <= N THEN (N - (k + 1)) + 1 ELSE 0
    BY <1>5, <2>1, <2>2, SubSeqProperties
  <2>5. \A j \in 1..((N - (k + 1)) + 1) : q[j] = s[((k + 1) + j) - 1]
    BY <1>5, <2>1, SliceElements
  <2>6. \A j \in 1..(N - k) : j \in 1..((N - (k + 1)) + 1) /\ ((k + 1) + j) - 1 = k + j
    BY <1>1
  <2> QED BY <1>1, <2>3, <2>4, <2>5, <2>6
<1>7. t = p \o q
  BY <1>1, <1>3, <1>5 DEF LeftOut
<1>8. t \in Seq(A) /\ Len(t) = Len(p) + Len(q)
  BY <1>4, <1>6, <1>7, ConcatProperties
<1>9. \A j \in 1..(Len(p) + Len(q)) : t[j] = IF j <= Len(p) THEN p[j] ELSE q[j - Len(p)]
  <2>1. \A j \in 1..(Len(p) + Len(q)) : (p \o q)[j] = IF j <= Len(p) THEN p[j] ELSE q[j - Len(p)]
    BY <1>4, <1>6, ConcatProperties
  <2> QED BY <1>7, <2>1
<1>10. Len(t) = N - 1
  BY <1>1, <1>4, <1>6, <1>8
<1>11. ASSUME NEW j \in 1..(N - 1) PROVE t[j] = IF j < k THEN s[j] ELSE s[j + 1]
  <2>1. j \in 1..(Len(p) + Len(q))
    BY <1>1, <1>4, <1>6
  <2>2. CASE j < k
    <3>1. j <= Len(p) /\ j \in 1..(k - 1)
      BY <1>1, <1>4, <2>2
    <3> QED BY <1>4, <1>9, <2>1, <2>2, <3>1
  <2>3. CASE ~(j < k)
    <3>1. ~(j <= Len(p)) /\ j - Len(p) \in 1..(N - k) /\ k + (j - Len(p)) = j + 1
      BY <1>1, <1>4, <2>3
    <3> QED BY <1>6, <1>9, <2>1, <2>3, <3>1
  <2> QED BY <2>2, <2>3
<1> QED BY <1>1, <1>8, <1>10, <1>11 DEF OneLess

\* The first element that the filter keeps is the first of what is left.
FirstKept(s, k, S) ==
    /\ s[k] \in S /\ \A j \in 1..(k - 1) : s[j] \notin S
    /\ Head(Only(s, S)) = s[k]
    /\ Tail(Only(s, S)) = Only(SubSeq(s, 1, k - 1) \o SubSeq(s, k + 1, Len(s)), S)

LEMMA OnlyHead ==
    ASSUME NEW A, NEW s \in Seq(A), NEW S, Only(s, S) # << >>
    PROVE  \E k \in 1..Len(s) : FirstKept(s, k, S)
<1>1. PICK N \in Nat : N = Len(s)
  OBVIOUS
<1>2. \A j \in 1..N : s[j] \in A
  BY <1>1, ElementOfSeq
<1> DEFINE T == {j \in 1..N : s[j] \in S}
<1>3. ASSUME T = {} PROVE FALSE
  <2>1. \A j \in 1..N : s[j] \in A \ S
    BY <1>2, <1>3
  <2>2. s \in Seq(A \ S)
    BY <1>1, <2>1
  <2>3. S \cap (A \ S) = {}
    OBVIOUS
  <2> QED BY <2>2, <2>3, OnlyNothing
<1>4. T \subseteq Nat
  OBVIOUS
<1>5. PICK k \in T : \A y \in T : k <= y
  BY <1>3, <1>4, LeastThere
<1>6. k \in 1..N /\ s[k] \in S /\ k \in 1..Len(s) /\ 1 \in 1..(Len(s) + 1) /\ k - 1 \in (1 - 1)..Len(s) /\ N \in (k - 1)..Len(s)
      /\ N \in k..Len(s) /\ (k - 1) + 1 = k
  BY <1>1, <1>5
<1>7. \A j \in 1..(k - 1) : j \in 1..N /\ ~(k <= j)
  BY <1>6
<1>8. \A j \in 1..(k - 1) : s[j] \notin S
  BY <1>5, <1>7
<1>9. PICK p : p = SubSeq(s, 1, k - 1)
  OBVIOUS
<1>10. p \in Seq(A \ S)
  <2>1. \A j \in 1..(k - 1) : s[j] \in A \ S
    BY <1>2, <1>7, <1>8
  <2>2. 1 \in Int /\ k - 1 \in Int
    BY <1>6
  <2> QED BY <1>9, <2>1, <2>2, SubSeqProperties
<1>11. PICK q : q = SubSeq(s, k + 1, N)
  OBVIOUS
<1>12. q \in Seq(A)
  <2>1. \A j \in (k + 1)..N : j \in 1..N
    BY <1>6
  <2>2. \A j \in (k + 1)..N : s[j] \in A
    BY <1>2, <2>1
  <2>3. k + 1 \in Int /\ N \in Int
    BY <1>6
  <2> QED BY <1>11, <2>2, <2>3, SubSeqProperties
<1>13. PICK e \in A : e = s[k]
  BY <1>2, <1>6
<1>14. p \in Seq(A)
  BY <1>10, SeqMonotonic
<1>15. s = p \o (<<e>> \o q)
  <2>1. SubSeq(s, 1, k - 1) \o SubSeq(s, (k - 1) + 1, N) = SubSeq(s, 1, N)
    BY <1>6, ConcatAdjacentSubSeq
  <2>2. SubSeq(s, 1, N) = s
    BY <1>1, SubSeqFull
  <2>3. SubSeq(s, k, N) = <<s[k]>> \o SubSeq(s, k + 1, N)
    BY <1>6, SubSeqRecursiveFirst
  <2> QED BY <1>6, <1>9, <1>11, <1>13, <2>1, <2>2, <2>3
<1>16. Only(p, S) = << >>
  <2>1. S \cap (A \ S) = {}
    OBVIOUS
  <2> QED BY <1>10, <2>1, OnlyNothing
<1>17. PICK r \in Seq(A) : r = Only(q, S)
  <2>1. Only(q, S) \in Seq(A \cap S)
    BY <1>12, OnlyType
  <2> QED BY <2>1, SeqMonotonic
<1>18. PICK m \in Seq(A) : m = <<e>> \o q
  <2>1. <<e>> \in Seq(A)
    BY OneSeq
  <2> QED BY <1>12, <2>1, ConcatProperties
<1>19. Only(m, S) = <<e>> \o r
  <2>1. e \in S
    BY <1>6, <1>13
  <2>2. FirstJoined(e, q, S)
    BY <1>12, OnlyFirst
  <2> QED BY <1>17, <1>18, <2>1, <2>2 DEF FirstJoined
<1>20. PICK h \in Seq(A) : h = <<e>> \o r
  <2>1. <<e>> \in Seq(A)
    BY OneSeq
  <2> QED BY <2>1, ConcatProperties
<1>21. Only(s, S) = h
  <2>1. FilterJoined(p, m, S)
    BY <1>14, OnlyJoined
  <2>2. << >> \o h = h
    BY ConcatEmptySeq
  <2> QED BY <1>15, <1>16, <1>18, <1>19, <1>20, <2>1, <2>2 DEF FilterJoined
<1>22. Only(p \o q, S) = r
  <2>1. FilterJoined(p, q, S)
    BY <1>12, <1>14, OnlyJoined
  <2>2. << >> \o r = r
    BY ConcatEmptySeq
  <2> QED BY <1>16, <1>17, <2>1, <2>2 DEF FilterJoined
<1>23. Head(h) = e /\ Tail(h) = r
  BY <1>20, HeadTailOne
<1>24. FirstKept(s, k, S)
  BY <1>1, <1>6, <1>8, <1>9, <1>11, <1>13, <1>21, <1>22, <1>23 DEF FirstKept
<1> QED BY <1>6, <1>24
=============================================================================
