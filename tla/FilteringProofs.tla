-------------------------- MODULE FilteringProofs --------------------------
(***************************************************************************)
(* What TLAPS proves of Only, for every sequence and every set: the result *)
(* is made of the elements that are in the set, in their order, and those  *)
(* are kept, each as the element of some position; and there is a growing  *)
(* list of the positions that are kept (Embeds).                           *)
(*                                                                         *)
(* The induction is over sets: the positions up to which a fact holds are  *)
(* all positions, since the least of the others would have a predecessor   *)
(* that is not one of them (Least, UpTo).                                  *)
(***************************************************************************)
EXTENDS Filtering, WellFoundedInduction, TLAPS

LEMMA Least ==
  ASSUME NEW T, T \subseteq Nat, T # {}
  PROVE  \E x \in T : \A y \in T : x <= y
<1>1. PICK R : R = OpToRel(<, Nat)
  OBVIOUS
<1>2. IsWellFoundedOn(R, Nat)
  BY <1>1, NatLessThanWellFounded
<1>3. PICK x \in T : \A y \in T : ~ (<<y, x>> \in R)
  BY <1>2, WFMin
<1>4. \A m, n \in Nat : <<n, m>> \in R <=> n < m
  BY <1>1 DEF OpToRel
<1>5. ASSUME NEW y \in T PROVE x <= y
  <2>1. x \in Nat /\ y \in Nat
    OBVIOUS
  <2>2. ~ (<<y, x>> \in R)
    BY <1>3
  <2>3. ~ (y < x)
    BY <1>4, <2>1, <2>2
  <2> QED BY <2>1, <2>3
<1> QED BY <1>5

\* Induction up to N, for a set.
LEMMA UpTo ==
  ASSUME NEW N \in Nat, NEW T, 0 \in T, \A n \in T : n \in 0..(N - 1) => n + 1 \in T
  PROVE  0..N \subseteq T
<1>1. PICK U : U = {n \in 0..N : n \notin T}
  OBVIOUS
<1>2. SUFFICES ASSUME U # {} PROVE FALSE
  BY <1>1
<1>3. U \subseteq Nat
  BY <1>1
<1>4. PICK x \in U : \A y \in U : x <= y
  BY <1>2, <1>3, Least
<1>5. x \in 0..N /\ x \notin T /\ x # 0
  BY <1>1
<1>6. x - 1 \in 0..(N - 1) /\ x - 1 \in 0..N /\ ~ (x <= x - 1)
  BY <1>5
<1>7. x - 1 \notin U
  BY <1>4, <1>6
<1>8. x - 1 \in T
  BY <1>1, <1>6, <1>7
<1>9. (x - 1) + 1 \in T
  BY <1>6, <1>8
<1> QED BY <1>5, <1>9

Step(s, S, f, n) ==
  IF n = 0 THEN <<>> ELSE IF s[n] \in S THEN Append(f[n - 1], s[n]) ELSE f[n - 1]

LEMMA OnlyDefined ==
  ASSUME NEW s, NEW S, Len(s) \in Nat
  PROVE  \E f : f = [n \in 0..Len(s) |-> Step(s, S, f, n)] /\ Only(s, S) = f[Len(s)]
<1>1. PICK T : T = {m \in Nat : \E f : f = [n \in 0..m |-> Step(s, S, f, n)]}
  OBVIOUS
<1>2. 0 \in T
  <2>1. PICK f : f = [n \in 0..0 |-> <<>>]
    OBVIOUS
  <2>2. f = [n \in 0..0 |-> Step(s, S, f, n)]
    BY <2>1 DEF Step
  <2> QED BY <1>1, <2>2
<1>3. ASSUME NEW m \in T PROVE m + 1 \in T
  <2>1. m \in Nat
    BY <1>1
  <2>2. PICK f : f = [n \in 0..m |-> Step(s, S, f, n)]
    BY <1>1
  <2>3. PICK g : g = [n \in 0..(m + 1) |-> Step(s, S, f, n)]
    OBVIOUS
  <2>4. \A n \in 0..m : g[n] = f[n]
    BY <2>1, <2>2, <2>3
  <2>5. \A n \in 0..(m + 1) : n = 0 \/ n - 1 \in 0..m
    BY <2>1
  <2>6. \A n \in 0..(m + 1) : Step(s, S, f, n) = Step(s, S, g, n)
    BY <2>4, <2>5 DEF Step
  <2>7. g = [n \in 0..(m + 1) |-> Step(s, S, g, n)]
    BY <2>3, <2>6
  <2> QED BY <1>1, <2>1, <2>7
<1>4. 0..Len(s) \subseteq T
  BY <1>2, <1>3, UpTo
<1>5. \E f : f = [n \in 0..Len(s) |-> Step(s, S, f, n)]
  BY <1>1, <1>4
<1>6. PICK f : f = CHOOSE g : g = [n \in 0..Len(s) |-> Step(s, S, g, n)]
  OBVIOUS
<1>7. f = [n \in 0..Len(s) |-> Step(s, S, f, n)]
  BY <1>5, <1>6
<1>8. Only(s, S) = f[Len(s)]
  BY <1>6 DEF Only, Step
<1> QED BY <1>7, <1>8

\* r is what is left of the first n elements of s.
Filters(s, S, n, r) ==
  /\ Len(r) <= n
  /\ \A i \in 1..Len(r) : r[i] \in S /\ \E k \in 1..n : s[k] = r[i]
  /\ \A k \in 1..n : s[k] \in S => \E i \in 1..Len(r) : r[i] = s[k]
  /\ \A i, j \in 1..Len(r) :
       i < j => \E k, l \in 1..n : k < l /\ s[k] = r[i] /\ s[l] = r[j]

LEMMA FiltersMore ==
  ASSUME NEW X, NEW s, NEW S, NEW n \in Nat, NEW p \in Seq(X), Filters(s, S, n, p),
         s[n + 1] \in X
  PROVE  IF s[n + 1] \in S THEN Filters(s, S, n + 1, Append(p, s[n + 1]))
                           ELSE Filters(s, S, n + 1, p)
<1>1. Len(p) \in Nat
  OBVIOUS
<1>2. \A k \in 1..n : k \in 1..(n + 1) /\ k < n + 1
  OBVIOUS
<1>3. \A k \in 1..(n + 1) : k \in 1..n \/ k = n + 1
  OBVIOUS
<1>4. CASE s[n + 1] \notin S
  <2>1. Len(p) <= n + 1
    BY <1>1 DEF Filters
  <2>2. \A k \in 1..(n + 1) : s[k] \in S => \E i \in 1..Len(p) : p[i] = s[k]
    BY <1>3, <1>4 DEF Filters
  <2>3. \A i \in 1..Len(p) : p[i] \in S /\ \E k \in 1..(n + 1) : s[k] = p[i]
    BY <1>2 DEF Filters
  <2>4. \A i, j \in 1..Len(p) :
           i < j => \E k, l \in 1..(n + 1) : k < l /\ s[k] = p[i] /\ s[l] = p[j]
    BY <1>2 DEF Filters
  <2>5. Filters(s, S, n + 1, p)
    BY <2>1, <2>2, <2>3, <2>4 DEF Filters
  <2> QED BY <1>4, <2>5
<1>5. CASE s[n + 1] \in S
  <2>1. PICK r : r = Append(p, s[n + 1])
    OBVIOUS
  <2>2. PICK m \in Nat : m = Len(p)
    BY <1>1
  <2>3. Len(r) = m + 1 /\ r[m + 1] = s[n + 1] /\ \A i \in 1..m : r[i] = p[i]
    BY <2>1, <2>2
  <2>4. (\A i \in 1..(m + 1) : i \in 1..m \/ i = m + 1) /\ \A i \in 1..m : i \in 1..(m + 1)
    OBVIOUS
  <2>5. m + 1 \in 1..(m + 1) /\ n + 1 \in 1..(n + 1)
    OBVIOUS
  <2>6. Len(r) <= n + 1
    BY <2>2, <2>3 DEF Filters
  <2>7. ASSUME NEW i \in 1..(m + 1)
        PROVE  r[i] \in S /\ \E k \in 1..(n + 1) : s[k] = r[i]
    <3>1. CASE i = m + 1
      BY <1>5, <2>3, <2>5, <3>1
    <3>2. CASE i \in 1..m
      <4>1. r[i] = p[i] /\ p[i] \in S /\ \E k \in 1..n : s[k] = p[i]
        BY <2>2, <2>3, <3>2 DEF Filters
      <4> QED BY <1>2, <4>1
    <3> QED BY <2>4, <3>1, <3>2
  <2>8. ASSUME NEW k \in 1..(n + 1), s[k] \in S
        PROVE  \E i \in 1..(m + 1) : r[i] = s[k]
    <3>1. CASE k = n + 1
      BY <2>3, <2>5, <3>1
    <3>2. CASE k \in 1..n
      <4>1. PICK i \in 1..m : p[i] = s[k]
        BY <2>2, <2>8, <3>2 DEF Filters
      <4> QED BY <2>3, <2>4, <4>1
    <3> QED BY <1>3, <3>1, <3>2
  <2>9. ASSUME NEW i \in 1..(m + 1), NEW j \in 1..(m + 1), i < j
        PROVE  \E k, l \in 1..(n + 1) : k < l /\ s[k] = r[i] /\ s[l] = r[j]
    <3>1. i \in 1..m
      BY <2>9
    <3>2. CASE j \in 1..m
      <4>1. PICK k \in 1..n, l \in 1..n : k < l /\ s[k] = p[i] /\ s[l] = p[j]
        BY <2>2, <2>9, <3>1, <3>2 DEF Filters
      <4> QED BY <1>2, <2>3, <3>1, <3>2, <4>1
    <3>3. CASE j = m + 1
      <4>1. PICK k \in 1..n : s[k] = p[i]
        BY <2>2, <3>1 DEF Filters
      <4> QED BY <1>2, <2>3, <2>5, <3>1, <3>3, <4>1
    <3> QED BY <2>4, <3>2, <3>3
  <2>10. Filters(s, S, n + 1, r)
    BY <2>3, <2>6, <2>7, <2>8, <2>9 DEF Filters
  <2> QED BY <1>5, <2>1, <2>10
<1> QED BY <1>4, <1>5

\* Only keeps exactly the elements that are in the set, and keeps them in order.
LEMMA OnlyKeeps ==
  ASSUME NEW X, NEW s \in Seq(X), NEW S
  PROVE  Only(s, S) \in Seq(X) /\ Filters(s, S, Len(s), Only(s, S))
<1>1. Len(s) \in Nat /\ s \in [1..Len(s) -> X]
  OBVIOUS
<1>2. PICK f : f = [n \in 0..Len(s) |-> Step(s, S, f, n)] /\ Only(s, S) = f[Len(s)]
  BY <1>1, OnlyDefined
<1>3. PICK T : T = {n \in 0..Len(s) : f[n] \in Seq(X) /\ Filters(s, S, n, f[n])}
  OBVIOUS
<1>4. 0 \in T
  <2>1. f[0] = <<>> /\ 0 \in 0..Len(s)
    BY <1>1, <1>2 DEF Step
  <2>2. <<>> \in Seq(X) /\ Len(<<>>) = 0
    OBVIOUS
  <2>3. Filters(s, S, 0, f[0])
    BY <2>1, <2>2 DEF Filters
  <2>4. f[0] \in Seq(X)
    BY <2>1
  <2> QED BY <1>3, <2>1, <2>3, <2>4
<1>5. ASSUME NEW n \in T, n \in 0..(Len(s) - 1) PROVE n + 1 \in T
  <2>1. n \in Nat /\ n + 1 \in 0..Len(s) /\ n + 1 # 0 /\ (n + 1) - 1 = n
    BY <1>1, <1>5
  <2>2. s[n + 1] \in X
    BY <1>1, <1>5
  <2>3. PICK p \in Seq(X) : p = f[n] /\ Filters(s, S, n, p)
    BY <1>3
  <2>4. f[n + 1] = Step(s, S, f, n + 1)
    BY <1>2, <2>1
  <2>5. f[n + 1] = IF s[n + 1] \in S THEN Append(p, s[n + 1]) ELSE p
    BY <2>1, <2>3, <2>4 DEF Step
  <2>6. Filters(s, S, n + 1, f[n + 1])
    BY <2>1, <2>2, <2>3, <2>5, FiltersMore
  <2>7. f[n + 1] \in Seq(X)
    BY <2>2, <2>3, <2>5
  <2> QED BY <1>3, <2>1, <2>6, <2>7
<1>6. Len(s) \in T
  BY <1>1, <1>4, <1>5, UpTo
<1> QED BY <1>2, <1>3, <1>6

\* r is what is left of the first n elements of s, the i-th from the place f[i].
Embeds(s, S, n, r, f) ==
  /\ f \in [1..Len(r) -> 1..n]
  /\ \A i \in 1..Len(r) : s[f[i]] = r[i]
  /\ \A i, j \in 1..Len(r) : i < j => f[i] < f[j]
  /\ \A k \in 1..n : s[k] \in S <=> \E i \in 1..Len(r) : f[i] = k

LEMMA EmbedsMore ==
  ASSUME NEW X, NEW s, NEW S, NEW n \in Nat, NEW p \in Seq(X), NEW f, Embeds(s, S, n, p, f),
         s[n + 1] \in X
  PROVE  IF s[n + 1] \in S THEN \E g : Embeds(s, S, n + 1, Append(p, s[n + 1]), g)
                           ELSE Embeds(s, S, n + 1, p, f)
<1>1. PICK m \in Nat : m = Len(p)
  OBVIOUS
<1>2. /\ f \in [1..m -> 1..n]
      /\ \A i \in 1..m : s[f[i]] = p[i]
      /\ \A i, j \in 1..m : i < j => f[i] < f[j]
      /\ \A k \in 1..n : s[k] \in S <=> \E i \in 1..m : f[i] = k
  BY <1>1 DEF Embeds
<1>3. (\A k \in 1..(n + 1) : k \in 1..n \/ k = n + 1) /\ \A k \in 1..n : k \in 1..(n + 1)
  OBVIOUS
<1>4. \A i \in 1..m : f[i] \in 1..n /\ f[i] < n + 1 /\ f[i] # n + 1
  BY <1>2
<1>5. CASE s[n + 1] \notin S
  <2>1. f \in [1..m -> 1..(n + 1)]
    BY <1>2, <1>3
  <2>2. \A k \in 1..(n + 1) : s[k] \in S <=> \E i \in 1..m : f[i] = k
    BY <1>2, <1>3, <1>4, <1>5
  <2> QED BY <1>1, <1>2, <1>5, <2>1, <2>2 DEF Embeds
<1>6. CASE s[n + 1] \in S
  <2>1. PICK r : r = Append(p, s[n + 1])
    OBVIOUS
  <2>2. Len(r) = m + 1 /\ r[m + 1] = s[n + 1] /\ \A i \in 1..m : r[i] = p[i]
    BY <1>1, <2>1
  <2>3. (\A i \in 1..(m + 1) : i \in 1..m \/ i = m + 1) /\ (\A i \in 1..m : i \in 1..(m + 1))
        /\ m + 1 \in 1..(m + 1) /\ m + 1 \notin 1..m /\ n + 1 \in 1..(n + 1)
    OBVIOUS
  <2>4. PICK g : g = [i \in 1..(m + 1) |-> IF i = m + 1 THEN n + 1 ELSE f[i]]
    OBVIOUS
  <2>5. g[m + 1] = n + 1 /\ \A i \in 1..m : g[i] = f[i]
    BY <2>3, <2>4
  <2>6. g \in [1..(m + 1) -> 1..(n + 1)]
    <3>1. \A i \in 1..(m + 1) : g[i] \in 1..(n + 1)
      BY <1>3, <1>4, <2>3, <2>5
    <3> QED BY <2>4, <3>1
  <2>7. \A i \in 1..(m + 1) : s[g[i]] = r[i]
    BY <1>2, <2>2, <2>3, <2>5
  <2>8. ASSUME NEW i \in 1..(m + 1), NEW j \in 1..(m + 1), i < j PROVE g[i] < g[j]
    <3>1. i \in 1..m
      BY <2>8
    <3> QED BY <1>2, <1>4, <2>3, <2>5, <2>8, <3>1
  <2>9. ASSUME NEW k \in 1..(n + 1) PROVE s[k] \in S <=> \E i \in 1..(m + 1) : g[i] = k
    <3>1. CASE k = n + 1
      BY <1>6, <2>3, <2>5, <3>1
    <3>2. CASE k \in 1..n /\ k # n + 1
      BY <1>2, <2>3, <2>5, <3>2
    <3> QED BY <1>3, <3>1, <3>2
  <2>10. Embeds(s, S, n + 1, r, g)
    BY <2>2, <2>6, <2>7, <2>8, <2>9 DEF Embeds
  <2> QED BY <1>6, <2>1, <2>10
<1> QED BY <1>5, <1>6

\* What Only keeps, with its places.
LEMMA OnlyEmbeds ==
  ASSUME NEW X, NEW s \in Seq(X), NEW S
  PROVE  Only(s, S) \in Seq(X) /\ \E g : Embeds(s, S, Len(s), Only(s, S), g)
<1>1. Len(s) \in Nat /\ s \in [1..Len(s) -> X]
  OBVIOUS
<1>2. PICK f : f = [n \in 0..Len(s) |-> Step(s, S, f, n)] /\ Only(s, S) = f[Len(s)]
  BY <1>1, OnlyDefined
<1>3. PICK T : T = {n \in 0..Len(s) : f[n] \in Seq(X) /\ \E g : Embeds(s, S, n, f[n], g)}
  OBVIOUS
<1>4. 0 \in T
  <2>1. f[0] = <<>> /\ 0 \in 0..Len(s)
    BY <1>1, <1>2 DEF Step
  <2>2. <<>> \in Seq(X) /\ Len(<<>>) = 0
    OBVIOUS
  <2>3. PICK g : g = [i \in 1..0 |-> i]
    OBVIOUS
  <2>4. Embeds(s, S, 0, f[0], g)
    BY <2>1, <2>2, <2>3 DEF Embeds
  <2>5. f[0] \in Seq(X)
    BY <2>1
  <2> QED BY <1>3, <2>1, <2>4, <2>5
<1>5. ASSUME NEW n \in T, n \in 0..(Len(s) - 1) PROVE n + 1 \in T
  <2>1. n \in Nat /\ n + 1 \in 0..Len(s) /\ n + 1 # 0 /\ (n + 1) - 1 = n
    BY <1>1, <1>5
  <2>2. s[n + 1] \in X
    BY <1>1, <1>5
  <2>3. PICK p \in Seq(X) : p = f[n] /\ \E g : Embeds(s, S, n, p, g)
    BY <1>3
  <2>4. f[n + 1] = Step(s, S, f, n + 1)
    BY <1>2, <2>1
  <2>5. f[n + 1] = IF s[n + 1] \in S THEN Append(p, s[n + 1]) ELSE p
    BY <2>1, <2>3, <2>4 DEF Step
  <2>6. \E h : Embeds(s, S, n + 1, f[n + 1], h)
    BY <2>1, <2>2, <2>3, <2>5, EmbedsMore
  <2>7. f[n + 1] \in Seq(X)
    BY <2>2, <2>3, <2>5
  <2> QED BY <1>3, <2>1, <2>6, <2>7
<1>6. Len(s) \in T
  BY <1>1, <1>4, <1>5, UpTo
<1> QED BY <1>2, <1>3, <1>6

\* Nothing is left out when every element is in the set.
LEMMA OnlyAll ==
  ASSUME NEW X, NEW s \in Seq(X), NEW S, \A i \in 1..Len(s) : s[i] \in S
  PROVE  Only(s, S) = s
<1>1. Len(s) \in Nat
  OBVIOUS
<1>2. PICK f : f = [n \in 0..Len(s) |-> Step(s, S, f, n)] /\ Only(s, S) = f[Len(s)]
  BY <1>1, OnlyDefined
<1>3. PICK T : T = {n \in 0..Len(s) : f[n] = SubSeq(s, 1, n)}
  OBVIOUS
<1>4. 0 \in T
  <2>1. f[0] = <<>> /\ 0 \in 0..Len(s)
    BY <1>1, <1>2 DEF Step
  <2>2. SubSeq(s, 1, 0) = <<>>
    OBVIOUS
  <2> QED BY <1>3, <2>1, <2>2
<1>5. ASSUME NEW n \in T, n \in 0..(Len(s) - 1) PROVE n + 1 \in T
  <2>1. n \in Nat /\ n + 1 \in 0..Len(s) /\ n + 1 # 0 /\ (n + 1) - 1 = n /\ n + 1 \in 1..Len(s)
    BY <1>1, <1>5
  <2>2. f[n] = SubSeq(s, 1, n)
    BY <1>3
  <2>3. f[n + 1] = Step(s, S, f, n + 1)
    BY <1>2, <2>1
  <2>4. f[n + 1] = Append(SubSeq(s, 1, n), s[n + 1])
    BY <2>1, <2>2, <2>3 DEF Step
  <2>5. Append(SubSeq(s, 1, n), s[n + 1]) = SubSeq(s, 1, n + 1)
    BY <2>1
  <2> QED BY <1>3, <2>1, <2>4, <2>5
<1>6. Len(s) \in T
  BY <1>1, <1>4, <1>5, UpTo
<1>7. SubSeq(s, 1, Len(s)) = s
  OBVIOUS
<1> QED BY <1>2, <1>3, <1>6, <1>7

\* What is kept is of the set.
LEMMA OnlyMembers ==
  ASSUME NEW X, NEW s \in Seq(X), NEW S
  PROVE  Only(s, S) \in Seq(S)
<1>1. PICK r, f : r = Only(s, S) /\ r \in Seq(X) /\ Embeds(s, S, Len(s), r, f)
  BY OnlyEmbeds
<1>2. \A i \in 1..Len(r) : r[i] \in S
  BY <1>1 DEF Embeds
<1>3. r \in [1..Len(r) -> S] /\ Len(r) \in Nat
  BY <1>1, <1>2
<1>4. r \in Seq(S)
  BY <1>3
<1> QED BY <1>1, <1>4
=============================================================================
