------------------------ MODULE SettingsEngine_proofs ------------------------
(***************************************************************************)
(* Theorems about the settings engine and its pane, for any schema, keys   *)
(* and cameras.                                                            *)
(***************************************************************************)
EXTENDS SettingsEngine, FiniteSetTheorems, TLAPS

------------------------------------------------------------------------------
(* Counting the requests of a queue.                                       *)

Places(q, A) == {i \in 1..Len(q) : q[i] \in A}
Number(q, A) == Cardinality(Places(q, A))

LEMMA PlacesFinite ==
  ASSUME NEW S, NEW q \in Seq(S), NEW A
  PROVE  IsFiniteSet(Places(q, A)) /\ Number(q, A) \in Nat
<1>1. IsFiniteSet(1..Len(q))
  BY FS_Interval
<1>2. IsFiniteSet(Places(q, A))
  BY <1>1, FS_Subset DEF Places
<1> QED
  BY <1>2, FS_CardinalityType DEF Number

LEMMA Shifted ==
  ASSUME NEW S \in SUBSET Nat, IsFiniteSet(S), NEW n \in Nat
  PROVE  LET T == {i + n : i \in S}
         IN  IsFiniteSet(T) /\ Cardinality(T) = Cardinality(S)
<1> DEFINE T == {i + n : i \in S}
           f == [i \in S |-> i + n]
<1>1. f \in [S -> T] /\ (\A a, b \in S : f[a] = f[b] => a = b) /\ \A t \in T : \E s \in S : f[s] = t
  OBVIOUS
<1> HIDE DEF f, T
<1>2. f \in Bijection(S, T)
  BY <1>1 DEF Bijection, Injection, Surjection, IsInjective
<1>3. ExistsBijection(S, T)
  BY <1>2 DEF ExistsBijection
<1>4. IsFiniteSet(T) /\ Cardinality(T) = Cardinality(S)
  BY <1>3, FS_Bijection
<1> QED
  BY <1>4 DEF T

LEMMA NumberConcat ==
  ASSUME NEW S, NEW q \in Seq(S), NEW r \in Seq(S), NEW A
  PROVE  Number(q \o r, A) = Number(q, A) + Number(r, A)
<1> DEFINE P == Places(q, A)
           R == Places(r, A)
           n == Len(q)
           T == {i + n : i \in R}
<1>1. n \in Nat /\ Len(r) \in Nat /\ Len(q \o r) = n + Len(r)
  OBVIOUS
<1>2. /\ \A i \in 1..n : (q \o r)[i] = q[i]
      /\ \A i \in 1..Len(r) : (q \o r)[i + n] = r[i]
  OBVIOUS
<1>3. P \subseteq 1..n /\ R \subseteq 1..Len(r)
  BY DEF Places
<1>4. IsFiniteSet(P) /\ IsFiniteSet(R) /\ Number(q, A) = Cardinality(P)
      /\ Number(r, A) = Cardinality(R)
  BY PlacesFinite DEF Number
<1>5. R \in SUBSET Nat
  BY <1>3
<1> HIDE DEF n
<1>6. Places(q \o r, A) = P \cup T
  <2>1. ASSUME NEW i \in Places(q \o r, A) PROVE i \in P \cup T
    <3>1. i \in 1..(n + Len(r)) /\ (q \o r)[i] \in A
      BY <1>1 DEF Places
    <3>2. CASE i <= n
      BY <1>1, <1>2, <3>1, <3>2 DEF Places, n
    <3>3. CASE i > n
      <4> DEFINE k == i - n
      <4>1. k \in 1..Len(r) /\ k + n = i
        BY <1>1, <3>1, <3>3
      <4> HIDE DEF k
      <4>2. k \in R
        BY <1>2, <3>1, <4>1 DEF Places
      <4> QED
        BY <4>1, <4>2
    <3> QED
      BY <1>1, <3>1, <3>2, <3>3
  <2>2. ASSUME NEW i \in P PROVE i \in Places(q \o r, A)
    BY <1>1, <1>2 DEF Places, n
  <2>3. ASSUME NEW i \in T PROVE i \in Places(q \o r, A)
    <3>1. PICK k \in R : i = k + n
      OBVIOUS
    <3>2. k \in 1..Len(r) /\ r[k] \in A
      BY DEF Places
    <3> QED
      BY <1>1, <1>2, <3>1, <3>2 DEF Places
  <2> QED
    BY <2>1, <2>2, <2>3
<1>7. P \cap T = {}
  BY <1>1, <1>3
<1> HIDE DEF P, R
<1>8. IsFiniteSet(T) /\ Cardinality(T) = Cardinality(R)
  BY <1>1, <1>4, <1>5, Shifted
<1> HIDE DEF T
<1>9. Cardinality(P \cup T) = Cardinality(P) + Cardinality(T) - Cardinality(P \cap T)
  BY <1>4, <1>8, FS_Union
<1>10. Cardinality(P \cap T) = 0
  BY <1>7, FS_EmptySet
<1>11. Cardinality(P) \in Nat /\ Cardinality(T) \in Nat
  BY <1>4, <1>8, FS_CardinalityType
<1> QED
  BY <1>4, <1>6, <1>8, <1>9, <1>10, <1>11 DEF Number

LEMMA NumberOne ==
  ASSUME NEW x, NEW A
  PROVE  Number(<<x>>, A) = IF x \in A THEN 1 ELSE 0
<1>1. Places(<<x>>, A) = IF x \in A THEN {1} ELSE {}
  BY DEF Places
<1> QED
  BY <1>1, FS_Singleton, FS_EmptySet DEF Number

LEMMA NumberAppend ==
  ASSUME NEW S, NEW q \in Seq(S), NEW x \in S, NEW A
  PROVE  Number(Append(q, x), A) = Number(q, A) + IF x \in A THEN 1 ELSE 0
<1> DEFINE h == <<x>>
<1>1. Append(q, x) = q \o h /\ h \in Seq(S)
  OBVIOUS
<1>2. Number(h, A) = IF x \in A THEN 1 ELSE 0
  BY NumberOne
<1> HIDE DEF h
<1>3. Number(q \o h, A) = Number(q, A) + Number(h, A)
  BY <1>1, NumberConcat
<1> QED
  BY <1>1, <1>2, <1>3

LEMMA NumberTail ==
  ASSUME NEW S, NEW q \in Seq(S), q # <<>>, NEW A
  PROVE  Number(Tail(q), A) = Number(q, A) - IF Head(q) \in A THEN 1 ELSE 0
<1> DEFINE h == <<Head(q)>>
           t == Tail(q)
<1>1. h \in Seq(S) /\ t \in Seq(S) /\ q = h \o t
  OBVIOUS
<1>2. Number(h, A) = IF Head(q) \in A THEN 1 ELSE 0
  BY NumberOne
<1> HIDE DEF h, t
<1>3. Number(q, A) = Number(h, A) + Number(t, A)
  BY <1>1, NumberConcat
<1>4. Number(t, A) \in Nat
  BY <1>1, PlacesFinite
<1> QED
  BY <1>2, <1>3, <1>4 DEF t

LEMMA NumberNone == \A A : Number(<<>>, A) = 0
<1>1. ASSUME NEW A PROVE Places(<<>>, A) = {}
  BY DEF Places
<1> QED
  BY <1>1, FS_EmptySet DEF Number

\* A queue of which every request is of a kind, or none.
LEMMA NumberAll ==
  ASSUME NEW S, NEW q \in Seq(S), NEW A
  PROVE  /\ (\A i \in 1..Len(q) : q[i] \in A) => Number(q, A) = Len(q)
         /\ (\A i \in 1..Len(q) : q[i] \notin A) <=> Number(q, A) = 0
<1> DEFINE n == Len(q)
<1>0. n \in Nat
  OBVIOUS
<1> HIDE DEF n
<1>a. Cardinality(1..n) = IF 1 > n THEN 0 ELSE n - 1 + 1
  BY <1>0, FS_Interval
<1>1. Len(q) \in Nat /\ Cardinality(1..Len(q)) = Len(q)
  BY <1>0, <1>a DEF n
<1>2. ASSUME \A i \in 1..Len(q) : q[i] \in A PROVE Number(q, A) = Len(q)
  <2>1. Places(q, A) = 1..Len(q)
    BY <1>2 DEF Places
  <2> QED
    BY <1>1, <2>1 DEF Number
<1>3. IsFiniteSet(Places(q, A))
  BY PlacesFinite
<1>4. Number(q, A) = 0 <=> Places(q, A) = {}
  BY <1>3, FS_EmptySet DEF Number
<1> QED
  BY <1>2, <1>4 DEF Places

------------------------------------------------------------------------------
(* The order of the requests in a queue.                                   *)

\* The members of A are next to each other.
Contiguous(q, A) ==
  \A i, m \in 1..Len(q) : q[i] \in A /\ q[m] \in A =>
    \A l \in 1..Len(q) : i <= l /\ l <= m => q[l] \in A

\* Behind every member of A there is a member of B.
Followed(q, A, B) ==
  \A i \in 1..Len(q) : q[i] \in A => \E l \in 1..Len(q) : l > i /\ q[l] \in B

\* The last member of A is x.
LastIs(q, A, x) ==
  x \in A /\ \E i \in 1..Len(q) : q[i] = x /\ \A l \in 1..Len(q) : l > i => q[l] \notin A

LEMMA TailAt ==
  ASSUME NEW S, NEW q \in Seq(S), q # <<>>
  PROVE  /\ Tail(q) \in Seq(S) /\ Len(q) \in Nat /\ Len(q) >= 1
         /\ Len(Tail(q)) = Len(q) - 1 /\ Head(q) = q[1] /\ Head(q) \in S
         /\ \A i \in 1..Len(Tail(q)) : i + 1 \in 1..Len(q) /\ Tail(q)[i] = q[i + 1]
  OBVIOUS

LEMMA ConcatAt ==
  ASSUME NEW S, NEW q \in Seq(S), NEW r \in Seq(S)
  PROVE  /\ q \o r \in Seq(S) /\ Len(q) \in Nat /\ Len(r) \in Nat
         /\ Len(q \o r) = Len(q) + Len(r)
         /\ \A i \in 1..Len(q) : i \in 1..Len(q \o r) /\ (q \o r)[i] = q[i]
         /\ \A i \in 1..Len(r) : i + Len(q) \in 1..Len(q \o r) /\ (q \o r)[i + Len(q)] = r[i]
         /\ \A i \in 1..Len(q \o r) : \/ i \in 1..Len(q)
                                      \/ i - Len(q) \in 1..Len(r) /\ (q \o r)[i] = r[i - Len(q)]
<1>1. q \o r \in Seq(S) /\ Len(q) \in Nat /\ Len(r) \in Nat /\ Len(q \o r) = Len(q) + Len(r)
  OBVIOUS
<1>2. \A i \in 1..Len(q \o r) : (q \o r)[i] = IF i <= Len(q) THEN q[i] ELSE r[i - Len(q)]
  OBVIOUS
<1> QED
  BY <1>1, <1>2

LEMMA ContiguousTail ==
  ASSUME NEW S, NEW q \in Seq(S), q # <<>>, NEW A, Contiguous(q, A)
  PROVE  /\ Contiguous(Tail(q), A)
         /\ Head(q) \in A /\ Number(Tail(q), A) > 0 => Tail(q) # <<>> /\ Head(Tail(q)) \in A
<1> DEFINE t == Tail(q)
<1>1. /\ t \in Seq(S) /\ Len(q) \in Nat /\ Len(q) >= 1
      /\ Len(t) = Len(q) - 1 /\ Head(q) = q[1]
      /\ \A i \in 1..Len(t) : i + 1 \in 1..Len(q) /\ t[i] = q[i + 1]
  BY TailAt
<1> HIDE DEF t
<1>2. Contiguous(t, A)
  <2>1. ASSUME NEW i \in 1..Len(t), NEW m \in 1..Len(t), t[i] \in A, t[m] \in A,
               NEW l \in 1..Len(t), i <= l, l <= m
        PROVE  t[l] \in A
    <3>1. q[i + 1] \in A /\ q[m + 1] \in A /\ i + 1 <= l + 1 /\ l + 1 <= m + 1
      BY <1>1, <2>1
    <3>2. i + 1 \in 1..Len(q) /\ m + 1 \in 1..Len(q) /\ l + 1 \in 1..Len(q) /\ t[l] = q[l + 1]
      BY <1>1
    <3> QED
      BY <3>1, <3>2 DEF Contiguous
  <2> QED
    BY <2>1 DEF Contiguous
<1>3. ASSUME Head(q) \in A, Number(t, A) > 0 PROVE t # <<>> /\ Head(t) \in A
  <2>1. PICK i \in 1..Len(t) : t[i] \in A
    <3>1. Number(t, A) # 0
      BY <1>3
    <3> QED
      BY <1>1, <3>1, NumberAll
  <2>2. t # <<>> /\ 1 \in 1..Len(t) /\ Head(t) = t[1] /\ t[1] = q[2] /\ 2 \in 1..Len(q)
    BY <1>1, <2>1
  <2>3. i + 1 \in 1..Len(q) /\ q[i + 1] \in A /\ 2 <= i + 1 /\ 1 \in 1..Len(q)
    BY <1>1, <2>1
  <2>4. q[2] \in A
    BY <1>1, <1>3, <2>2, <2>3 DEF Contiguous
  <2> QED
    BY <2>2, <2>4
<1> QED
  BY <1>2, <1>3 DEF t

LEMMA ContiguousConcat ==
  ASSUME NEW S, NEW q \in Seq(S), NEW r \in Seq(S), NEW A,
         \/ Contiguous(q, A) /\ \A i \in 1..Len(r) : r[i] \notin A
         \/ (\A i \in 1..Len(q) : q[i] \notin A) /\ \A i \in 1..Len(r) : r[i] \in A
  PROVE  Contiguous(q \o r, A)
<1> DEFINE p == q \o r
<1>1. /\ Len(q) \in Nat /\ Len(r) \in Nat
      /\ Len(p) = Len(q) + Len(r)
      /\ \A i \in 1..Len(q) : i \in 1..Len(p) /\ p[i] = q[i]
      /\ \A i \in 1..Len(p) : \/ i \in 1..Len(q)
                              \/ i - Len(q) \in 1..Len(r) /\ p[i] = r[i - Len(q)]
  BY ConcatAt
<1> HIDE DEF p
<1>2. CASE Contiguous(q, A) /\ \A i \in 1..Len(r) : r[i] \notin A
  <2>1. ASSUME NEW i \in 1..Len(p), NEW m \in 1..Len(p), p[i] \in A, p[m] \in A,
               NEW l \in 1..Len(p), i <= l, l <= m
        PROVE  p[l] \in A
    <3>1. i \in 1..Len(q) /\ m \in 1..Len(q)
      BY <1>1, <1>2, <2>1
    <3>2. l \in 1..Len(q)
      BY <1>1, <2>1, <3>1
    <3> QED
      BY <1>1, <1>2, <2>1, <3>1, <3>2 DEF Contiguous
  <2> QED
    BY <2>1 DEF Contiguous, p
<1>3. CASE (\A i \in 1..Len(q) : q[i] \notin A) /\ \A i \in 1..Len(r) : r[i] \in A
  <2>1. ASSUME NEW i \in 1..Len(p), NEW m \in 1..Len(p), p[i] \in A, p[m] \in A,
               NEW l \in 1..Len(p), i <= l, l <= m
        PROVE  p[l] \in A
    <3>1. i \notin 1..Len(q)
      BY <1>1, <1>3, <2>1
    <3>2. l \notin 1..Len(q)
      BY <1>1, <2>1, <3>1
    <3> QED
      BY <1>1, <1>3, <3>2
  <2> QED
    BY <2>1 DEF Contiguous, p
<1> QED
  BY <1>2, <1>3

LEMMA FollowedTail ==
  ASSUME NEW S, NEW q \in Seq(S), q # <<>>, NEW A, NEW B, Followed(q, A, B)
  PROVE  Followed(Tail(q), A, B)
<1> DEFINE t == Tail(q)
<1>1. /\ t \in Seq(S) /\ Len(q) \in Nat /\ Len(q) >= 1 /\ Len(t) = Len(q) - 1
      /\ \A i \in 1..Len(t) : i + 1 \in 1..Len(q) /\ t[i] = q[i + 1]
  BY TailAt
<1> HIDE DEF t
<1>2. ASSUME NEW i \in 1..Len(t), t[i] \in A
      PROVE  \E l \in 1..Len(t) : l > i /\ t[l] \in B
  <2>1. PICK m \in 1..Len(q) : m > i + 1 /\ q[m] \in B
    BY <1>1, <1>2 DEF Followed
  <2>2. m - 1 \in 1..Len(t) /\ m - 1 > i /\ (m - 1) + 1 = m
    BY <1>1, <2>1
  <2> QED
    BY <1>1, <2>1, <2>2
<1> QED
  BY <1>2 DEF Followed, t

\* Requests are appended, none of which is in A.
LEMMA FollowedConcat ==
  ASSUME NEW S, NEW q \in Seq(S), NEW r \in Seq(S), NEW A, NEW B,
         \A i \in 1..Len(r) : r[i] \notin A,
         Followed(q, A, B) \/ \E i \in 1..Len(r) : r[i] \in B
  PROVE  Followed(q \o r, A, B)
<1> DEFINE p == q \o r
<1>1. /\ Len(q) \in Nat /\ Len(r) \in Nat
      /\ Len(p) = Len(q) + Len(r)
      /\ \A i \in 1..Len(q) : i \in 1..Len(p) /\ p[i] = q[i]
      /\ \A i \in 1..Len(r) : i + Len(q) \in 1..Len(p) /\ p[i + Len(q)] = r[i]
      /\ \A i \in 1..Len(p) : \/ i \in 1..Len(q)
                              \/ i - Len(q) \in 1..Len(r) /\ p[i] = r[i - Len(q)]
  BY ConcatAt
<1> HIDE DEF p
<1>2. ASSUME NEW i \in 1..Len(p), p[i] \in A
      PROVE  \E l \in 1..Len(p) : l > i /\ p[l] \in B
  <2>1. i \in 1..Len(q) /\ q[i] \in A
    BY <1>1, <1>2
  <2>2. CASE Followed(q, A, B)
    BY <1>1, <2>1, <2>2 DEF Followed
  <2>3. CASE \E m \in 1..Len(r) : r[m] \in B
    <3>1. PICK m \in 1..Len(r) : r[m] \in B
      BY <2>3
    <3>2. m + Len(q) > i
      BY <1>1, <2>1
    <3> QED
      BY <1>1, <3>1, <3>2
  <2> QED
    BY <2>2, <2>3
<1> QED
  BY <1>2 DEF Followed, p

LEMMA FollowedBy ==
  ASSUME NEW q, NEW A, NEW B, NEW C, Followed(q, A, B),
         \A i \in 1..Len(q) : q[i] \in B => q[i] \in C
  PROVE  Followed(q, A, C)
  BY DEF Followed

LEMMA LastTail ==
  ASSUME NEW S, NEW q \in Seq(S), q # <<>>, NEW A, NEW x, LastIs(q, A, x)
  PROVE  IF Number(Tail(q), A) = 0 THEN x = Head(q) ELSE LastIs(Tail(q), A, x)
<1> DEFINE t == Tail(q)
<1>1. /\ t \in Seq(S) /\ Len(q) \in Nat /\ Len(q) >= 1 /\ Len(t) = Len(q) - 1 /\ Head(q) = q[1]
      /\ \A i \in 1..Len(t) : i + 1 \in 1..Len(q) /\ t[i] = q[i + 1]
  BY TailAt
<1> HIDE DEF t
<1>2. PICK i \in 1..Len(q) : q[i] = x /\ \A l \in 1..Len(q) : l > i => q[l] \notin A
  BY DEF LastIs
<1>3. x \in A
  BY DEF LastIs
<1>4. CASE i = 1
  <2>1. \A l \in 1..Len(t) : t[l] \notin A
    <3>1. ASSUME NEW l \in 1..Len(t) PROVE t[l] \notin A
      <4>1. l + 1 \in 1..Len(q) /\ l + 1 > i /\ t[l] = q[l + 1]
        BY <1>1, <1>4
      <4> QED
        BY <1>2, <4>1
    <3> QED
      BY <3>1
  <2>2. Number(t, A) = 0
    BY <1>1, <2>1, NumberAll
  <2> QED
    BY <1>1, <1>2, <1>4, <2>2 DEF t
<1>5. CASE i # 1
  <2>1. i - 1 \in 1..Len(t) /\ t[i - 1] = x
    <3>1. i - 1 \in 1..Len(t) /\ (i - 1) + 1 = i
      BY <1>1, <1>5
    <3> QED
      BY <1>1, <1>2, <3>1
  <2>2. ASSUME NEW l \in 1..Len(t), l > i - 1 PROVE t[l] \notin A
    <3>1. l + 1 \in 1..Len(q) /\ l + 1 > i /\ t[l] = q[l + 1]
      BY <1>1, <2>2
    <3> QED
      BY <1>2, <3>1
  <2>3. LastIs(t, A, x)
    BY <1>3, <2>1, <2>2 DEF LastIs
  <2>4. Number(t, A) # 0
    BY <1>1, <1>3, <2>1, NumberAll
  <2> QED
    BY <2>3, <2>4 DEF t
<1> QED
  BY <1>4, <1>5

LEMMA LastConcat ==
  ASSUME NEW S, NEW q \in Seq(S), NEW r \in Seq(S), NEW A, NEW x, LastIs(q, A, x),
         \A i \in 1..Len(r) : r[i] \notin A
  PROVE  LastIs(q \o r, A, x)
<1> DEFINE p == q \o r
<1>1. /\ Len(q) \in Nat /\ Len(r) \in Nat
      /\ Len(p) = Len(q) + Len(r)
      /\ \A i \in 1..Len(q) : i \in 1..Len(p) /\ p[i] = q[i]
      /\ \A i \in 1..Len(p) : \/ i \in 1..Len(q)
                              \/ i - Len(q) \in 1..Len(r) /\ p[i] = r[i - Len(q)]
  BY ConcatAt
<1> HIDE DEF p
<1>2. PICK i \in 1..Len(q) : q[i] = x /\ \A l \in 1..Len(q) : l > i => q[l] \notin A
  BY DEF LastIs
<1>3. i \in 1..Len(p) /\ p[i] = x /\ \A l \in 1..Len(p) : l > i => p[l] \notin A
  BY <1>1, <1>2
<1> QED
  BY <1>3 DEF LastIs, p

LEMMA LastAppend ==
  ASSUME NEW S, NEW q \in Seq(S), NEW A, NEW x \in S, x \in A
  PROVE  LastIs(Append(q, x), A, x)
<1> DEFINE p == Append(q, x)
<1>1. Len(q) \in Nat /\ Len(p) = Len(q) + 1 /\ p[Len(q) + 1] = x
  OBVIOUS
<1> HIDE DEF p
<1>2. Len(q) + 1 \in 1..Len(p) /\ \A l \in 1..Len(p) : ~(l > Len(q) + 1)
  BY <1>1
<1> QED
  BY <1>1, <1>2 DEF LastIs, p

------------------------------------------------------------------------------
(* The inductive invariant.                                                *)

Job == [catalog : Catalogs \cup {None}, pending : Int, ok : SUBSET Keys]

Engine ==
  [open : BOOLEAN, queue : Seq(Requests), jobs : [Jobs -> Job],
   values : [Keys -> Texts \cup {None}], defs : [Keys -> Defs \cup {None}],
   groupKeys : [Catalogs -> SUBSET Keys], catalog : Catalogs,
   rows : [Keys -> Texts \cup {None}], owed : [Catalogs -> Int],
   suspect : SUBSET Keys, lag : SUBSET Keys]

Typed(s, cam) == s \in Engine /\ cam \in [Keys -> Texts]

JobGets(j) == {Get(k, j) : k \in Keys}
SetsOf(k) == {Set(k, v) : v \in Texts}

Running(s, c) == {j \in Jobs : s.jobs[j].pending > 0 /\ s.jobs[j].catalog = c}

Accounted(s) ==
  /\ \A c \in Catalogs :
       s.owed[c] = Number(s.queue, {GetBatch(c)}) + Cardinality(Running(s, c))
  /\ \A j \in Jobs : s.jobs[j].pending = Number(s.queue, JobGets(j))

\* A series of reads by key is for keys of its catalog.
Belongs(s) ==
  /\ \A c \in Catalogs : s.groupKeys[c] \subseteq KeysOf(c)
  /\ \A j \in Jobs : s.jobs[j].pending > 0 =>
       /\ s.jobs[j].catalog \in Catalogs
       /\ s.jobs[j].ok \subseteq RangeOf(Schema[s.jobs[j].catalog])
  /\ \A j \in Jobs : \A i \in 1..Len(s.queue) : s.queue[i] \in JobGets(j) =>
       s.queue[i].arg \in RangeOf(Schema[s.jobs[j].catalog])

\* Its requests are next to each other, and it has begun only at the head.
InOrder(s) ==
  \A j \in Jobs :
    /\ Contiguous(s.queue, JobGets(j))
    /\ s.jobs[j].pending > 0 =>
         \/ s.jobs[j].ok = {}
         \/ s.queue # <<>> /\ Head(s.queue) \in JobGets(j)

\* The rows are of the group that is selected.
Painted(s) == \A k \in Keys : s.rows[k] # None => k \in s.groupKeys[s.catalog]

Sound(s, cam) == Typed(s, cam) /\ Accounted(s) /\ Belongs(s) /\ InOrder(s) /\ Painted(s)

\* The requests that will bring the camera's value of a key to the engine.
ReadsOf(k) ==
  {Get(k, j) : j \in {0} \cup Jobs}
    \cup {GetBatch(c) : c \in {d \in Catalogs : k \in Reported[d] \cap RangeOf(Schema[d])}}

CachedAt(s, cam, k) ==
  s.values[k] = None \/ s.values[k] = cam[k] \/ Number(s.queue, ReadsOf(k)) > 0

Cached(s, cam) == \A k \in Keys \ s.suspect : CachedAt(s, cam, k)

\* The requests after which the row of a key will be built from a new answer,
\* or not be built at all.
Fixes(s, k) ==
  {r \in Requests :
    \/ r = GetBatch(s.catalog)
    \/ /\ r.op = "get"
       /\ r.job \in Jobs
       /\ s.jobs[r.job].catalog = s.catalog
       /\ r.arg = k \/ k \notin RangeOf(Schema[s.catalog])}

\* The row shows what the camera will have when the queue has been answered.
Shown(s, cam, k) ==
  IF Number(s.queue, SetsOf(k)) = 0
    THEN s.rows[k] = cam[k]
    ELSE LastIs(s.queue, SetsOf(k), Set(k, s.rows[k]))

\* What a series of reads has read of the key is still right.
ReadRight(s, cam, k) ==
  Number(s.queue, Fixes(s, k)) = 0 =>
    \A j \in Running(s, s.catalog) : k \in s.jobs[j].ok =>
      s.defs[k] # None /\ s.defs[k].value = cam[k]

Settling(s, cam, k) ==
  /\ s.owed[s.catalog] = 0 /\ s.rows[k] # None => Shown(s, cam, k)
  /\ s.owed[s.catalog] > 0 => Followed(s.queue, SetsOf(k), Fixes(s, k))
  /\ ReadRight(s, cam, k)

Settled(s, cam) == s.open => \A k \in KeysOf(s.catalog) \ s.lag : Settling(s, cam, k)

Inv == Sound(e, camera) /\ Cached(e, camera) /\ Settled(e, camera)

------------------------------------------------------------------------------
(* Requests.                                                               *)

LEMMA Kinds ==
  ASSUME NEW r \in Requests
  PROVE  /\ r.op \in {"getbatch", "get", "set", "info"}
         /\ r.op = "getbatch" => r.arg \in Catalogs /\ r = GetBatch(r.arg) /\ r.job = 0
         /\ r.op = "get" =>
              r.arg \in Keys /\ r.job \in {0} \cup Jobs /\ r = Get(r.arg, r.job)
         /\ r.op = "set" =>
              r.arg \in Keys /\ r.value \in Texts /\ r = Set(r.arg, r.value) /\ r.job = 0
         /\ r.op = "info" => r = Info /\ r.job = 0
  BY DEF Requests, GetBatch, Get, Set, Info

LEMMA Sorted ==
  ASSUME NEW r \in Requests
  PROVE  /\ \A j \in Jobs : r \in JobGets(j) <=> r.op = "get" /\ r.job = j
         /\ \A k \in Keys : r \in SetsOf(k) <=> r.op = "set" /\ r.arg = k
         /\ \A c \in Catalogs : r = GetBatch(c) <=> r.op = "getbatch" /\ r.arg = c
<1>1. \A j \in Jobs : r \in JobGets(j) <=> r.op = "get" /\ r.job = j
  BY Kinds DEF JobGets, Get
<1>2. \A k \in Keys : r \in SetsOf(k) <=> r.op = "set" /\ r.arg = k
  BY Kinds DEF SetsOf, Set
<1>3. \A c \in Catalogs : r = GetBatch(c) <=> r.op = "getbatch" /\ r.arg = c
  BY Kinds DEF GetBatch
<1> QED
  BY <1>1, <1>2, <1>3

LEMMA Made ==
  /\ \A c \in Catalogs : GetBatch(c) \in Requests /\ GetBatch(c).op = "getbatch"
       /\ GetBatch(c).arg = c /\ GetBatch(c).job = 0
  /\ \A k \in Keys, j \in {0} \cup Jobs : Get(k, j) \in Requests /\ Get(k, j).op = "get"
       /\ Get(k, j).arg = k /\ Get(k, j).job = j
  /\ \A k \in Keys, v \in Texts : Set(k, v) \in Requests /\ Set(k, v).op = "set"
       /\ Set(k, v).arg = k /\ Set(k, v).value = v /\ Set(k, v).job = 0
  /\ Info \in Requests /\ Info.op = "info" /\ Info.job = 0
<1>1. ASSUME NEW c \in Catalogs
      PROVE  GetBatch(c) \in Requests /\ GetBatch(c).op = "getbatch"
               /\ GetBatch(c).arg = c /\ GetBatch(c).job = 0
  <2>1. GetBatch(c) \in Requests
    BY DEF Requests
  <2> QED
    BY <2>1 DEF GetBatch
<1>2. ASSUME NEW k \in Keys, NEW j \in {0} \cup Jobs
      PROVE  Get(k, j) \in Requests /\ Get(k, j).op = "get"
               /\ Get(k, j).arg = k /\ Get(k, j).job = j
  <2>1. Get(k, j) \in Requests
    BY DEF Requests
  <2> QED
    BY <2>1 DEF Get
<1>3. ASSUME NEW k \in Keys, NEW v \in Texts
      PROVE  Set(k, v) \in Requests /\ Set(k, v).op = "set"
               /\ Set(k, v).arg = k /\ Set(k, v).value = v /\ Set(k, v).job = 0
  <2>1. Set(k, v) \in Requests
    BY DEF Requests
  <2> QED
    BY <2>1 DEF Set
<1>4. Info \in Requests /\ Info.op = "info" /\ Info.job = 0
  <2>1. Info \in Requests
    BY DEF Requests
  <2> QED
    BY <2>1 DEF Info
<1> QED
  BY <1>1, <1>2, <1>3, <1>4

LEMMA JobsCounted == 0 \notin Jobs /\ IsFiniteSet(Jobs) /\ Jobs \subseteq Nat
<1>1. MaxJobs \in Nat
  BY SettingsShape
<1>2. IsFiniteSet(1..MaxJobs)
  BY <1>1, FS_Interval
<1> QED
  BY <1>1, <1>2 DEF Jobs

LEMMA RunningCounted ==
  ASSUME NEW s, NEW c
  PROVE  /\ IsFiniteSet(Running(s, c)) /\ Cardinality(Running(s, c)) \in Nat
         /\ Cardinality(Running(s, c)) = 0 <=> Running(s, c) = {}
<1>1. IsFiniteSet(Running(s, c))
  <2>1. Running(s, c) \subseteq Jobs
    BY DEF Running
  <2> QED
    BY <2>1, JobsCounted, FS_Subset
<1> QED
  BY <1>1, FS_CardinalityType, FS_EmptySet

\* A request in the queue that fixes a row is a group read that is owed.
LEMMA FixIsOwed ==
  ASSUME NEW s, NEW cam, Sound(s, cam), NEW k, Number(s.queue, Fixes(s, k)) # 0
  PROVE  s.owed[s.catalog] > 0
<1>0. s.queue \in Seq(Requests) /\ s.catalog \in Catalogs /\ Accounted(s)
  BY DEF Sound, Typed, Engine
<1>1. PICK i \in 1..Len(s.queue) : s.queue[i] \in Fixes(s, k)
  BY <1>0, NumberAll
<1> DEFINE r == s.queue[i]
           N == Number(s.queue, {GetBatch(s.catalog)})
           R == Cardinality(Running(s, s.catalog))
<1>2. r \in Requests
  BY <1>0
<1>3. N \in Nat /\ R \in Nat /\ s.owed[s.catalog] = N + R
  BY <1>0, PlacesFinite, RunningCounted DEF Accounted
<1>4. CASE r = GetBatch(s.catalog)
  <2>1. N # 0
    BY <1>0, <1>4, NumberAll
  <2> HIDE DEF N, R
  <2> QED
    BY <1>3, <2>1
<1>5. CASE r.op = "get" /\ r.job \in Jobs /\ s.jobs[r.job].catalog = s.catalog
  <2>1. r \in JobGets(r.job)
    BY <1>2, <1>5, Sorted
  <2>2. Number(s.queue, JobGets(r.job)) # 0 /\ Number(s.queue, JobGets(r.job)) \in Nat
    BY <1>0, <2>1, NumberAll, PlacesFinite
  <2>3. s.jobs[r.job].pending > 0
    BY <1>0, <1>5, <2>2 DEF Accounted
  <2>4. R # 0
    BY <1>5, <2>3, RunningCounted DEF Running
  <2> HIDE DEF N, R
  <2> QED
    BY <1>3, <2>4
<1> QED
  BY <1>1, <1>2, <1>4, <1>5 DEF Fixes

------------------------------------------------------------------------------
(* Requests are appended: none of them is a write or belongs to a series.  *)

Asks(s, t, r) ==
  /\ t \in Engine
  /\ r \in Seq(Requests)
  /\ \A i \in 1..Len(r) : r[i].op # "set" /\ r[i].job = 0
  /\ t.queue = s.queue \o r
  /\ \A c \in Catalogs : t.owed[c] = s.owed[c] + Number(r, {GetBatch(c)})
  /\ t.open = s.open /\ t.jobs = s.jobs /\ t.values = s.values /\ t.defs = s.defs
  /\ t.groupKeys = s.groupKeys /\ t.catalog = s.catalog /\ t.rows = s.rows

LEMMA AsksFacts ==
  ASSUME NEW s, NEW t, NEW r, NEW cam, Sound(s, cam), Asks(s, t, r)
  PROVE  /\ s \in Engine /\ s.queue \in Seq(Requests) /\ s.catalog \in Catalogs
         /\ \A j \in Jobs : \A i \in 1..Len(r) : r[i] \notin JobGets(j)
         /\ \A k \in Keys : \A i \in 1..Len(r) : r[i] \notin SetsOf(k)
         /\ \A k : Fixes(t, k) = Fixes(s, k)
         /\ \A c : Running(t, c) = Running(s, c)
<1>1. s \in Engine /\ s.queue \in Seq(Requests) /\ s.catalog \in Catalogs
  BY DEF Sound, Typed, Engine
<1>2. r \in Seq(Requests) /\ \A i \in 1..Len(r) : r[i] \in Requests /\ r[i].op # "set" /\ r[i].job = 0
  BY DEF Asks
<1>3. ASSUME NEW j \in Jobs, NEW i \in 1..Len(r) PROVE r[i] \notin JobGets(j)
  <2>1. j # 0
    BY JobsCounted
  <2> QED
    BY <1>2, <2>1, Sorted
<1>4. \A k \in Keys : \A i \in 1..Len(r) : r[i] \notin SetsOf(k)
  BY <1>2, Sorted
<1>5. \A k : Fixes(t, k) = Fixes(s, k)
  BY DEF Asks, Fixes
<1>6. \A c : Running(t, c) = Running(s, c)
  BY DEF Asks, Running
<1> QED
  BY <1>1, <1>3, <1>4, <1>5, <1>6

\* What any requests do that belong to no series, writes too.
Adds(s, t, r) ==
  /\ t \in Engine
  /\ r \in Seq(Requests)
  /\ \A i \in 1..Len(r) : r[i].job = 0
  /\ t.queue = s.queue \o r
  /\ \A c \in Catalogs : t.owed[c] = s.owed[c] + Number(r, {GetBatch(c)})
  /\ t.jobs = s.jobs /\ t.groupKeys = s.groupKeys /\ t.catalog = s.catalog

LEMMA AddsSound ==
  ASSUME NEW s, NEW t, NEW r, NEW cam, Sound(s, cam), Adds(s, t, r)
  PROVE  Typed(t, cam) /\ Accounted(t) /\ Belongs(t) /\ InOrder(t)
<1>2. r \in Seq(Requests) /\ t.queue = s.queue \o r /\ t.jobs = s.jobs
  BY DEF Adds
<1>1. /\ s \in Engine /\ s.queue \in Seq(Requests) /\ s.catalog \in Catalogs
      /\ \A j \in Jobs : \A i \in 1..Len(r) : r[i] \notin JobGets(j)
      /\ \A c : Running(t, c) = Running(s, c)
  <2>1. s \in Engine /\ s.queue \in Seq(Requests) /\ s.catalog \in Catalogs
    BY DEF Sound, Typed, Engine
  <2>2. ASSUME NEW j \in Jobs, NEW i \in 1..Len(r) PROVE r[i] \notin JobGets(j)
    <3>1. j # 0 /\ r[i] \in Requests /\ r[i].job = 0
      BY <1>2, JobsCounted DEF Adds
    <3> QED
      BY <3>1, Sorted
  <2>3. \A c : Running(t, c) = Running(s, c)
    BY <1>2 DEF Running
  <2> QED
    BY <2>1, <2>2, <2>3
<1>3. Typed(t, cam)
  BY DEF Typed, Sound, Adds
<1>4. Accounted(t)
  <2>1. ASSUME NEW c \in Catalogs
        PROVE  t.owed[c] = Number(t.queue, {GetBatch(c)}) + Cardinality(Running(t, c))
    <3>1. Number(s.queue \o r, {GetBatch(c)})
            = Number(s.queue, {GetBatch(c)}) + Number(r, {GetBatch(c)})
      BY <1>1, <1>2, NumberConcat
    <3>2. /\ Number(s.queue, {GetBatch(c)}) \in Nat /\ Number(r, {GetBatch(c)}) \in Nat
          /\ Cardinality(Running(s, c)) \in Nat
      BY <1>1, <1>2, PlacesFinite, RunningCounted
    <3>3. s.owed[c] = Number(s.queue, {GetBatch(c)}) + Cardinality(Running(s, c))
      BY DEF Sound, Accounted
    <3>4. t.owed[c] = s.owed[c] + Number(r, {GetBatch(c)})
      BY DEF Adds
    <3> QED
      BY <1>1, <1>2, <3>1, <3>2, <3>3, <3>4
  <2>2. ASSUME NEW j \in Jobs PROVE t.jobs[j].pending = Number(t.queue, JobGets(j))
    <3>1. Number(s.queue \o r, JobGets(j)) = Number(s.queue, JobGets(j)) + Number(r, JobGets(j))
      BY <1>1, <1>2, NumberConcat
    <3>2. Number(r, JobGets(j)) = 0
      BY <1>1, <1>2, NumberAll
    <3>3. Number(s.queue, JobGets(j)) \in Nat
      BY <1>1, PlacesFinite
    <3>4. s.jobs[j].pending = Number(s.queue, JobGets(j))
      BY DEF Sound, Accounted
    <3> QED
      BY <1>2, <3>1, <3>2, <3>3, <3>4
  <2> QED
    BY <2>1, <2>2 DEF Accounted
<1>5. Belongs(t)
  <2>1. Belongs(s) /\ t.groupKeys = s.groupKeys
    BY DEF Sound, Adds
  <2>2. ASSUME NEW j \in Jobs, NEW i \in 1..Len(t.queue), t.queue[i] \in JobGets(j)
        PROVE  t.queue[i].arg \in RangeOf(Schema[t.jobs[j].catalog])
    <3>1. i \in 1..Len(s.queue) /\ t.queue[i] = s.queue[i]
      BY <1>1, <1>2, <2>2, ConcatAt
    <3> QED
      BY <1>2, <2>1, <2>2, <3>1 DEF Belongs
  <2> QED
    BY <1>2, <2>1, <2>2 DEF Belongs
<1>6. InOrder(t)
  <2>1. ASSUME NEW j \in Jobs
        PROVE  /\ Contiguous(t.queue, JobGets(j))
               /\ t.jobs[j].pending > 0 =>
                    \/ t.jobs[j].ok = {}
                    \/ t.queue # <<>> /\ Head(t.queue) \in JobGets(j)
    <3>1. Contiguous(s.queue, JobGets(j))
      BY DEF Sound, InOrder
    <3>2. Contiguous(t.queue, JobGets(j))
      BY <1>1, <1>2, <3>1, ContiguousConcat
    <3>3. s.queue # <<>> => t.queue # <<>> /\ Head(t.queue) = Head(s.queue)
      BY <1>1, <1>2
    <3> QED
      BY <1>2, <3>2, <3>3 DEF Sound, InOrder
  <2> QED
    BY <2>1 DEF InOrder
<1> QED
  BY <1>3, <1>4, <1>5, <1>6

LEMMA AsksSound ==
  ASSUME NEW s, NEW t, NEW r, NEW cam, Sound(s, cam), Asks(s, t, r)
  PROVE  Sound(t, cam)
<1>1. Adds(s, t, r)
  BY DEF Asks, Adds
<1>2. Typed(t, cam) /\ Accounted(t) /\ Belongs(t) /\ InOrder(t)
  BY <1>1, AddsSound
<1>3. Painted(t)
  BY DEF Sound, Painted, Asks
<1> QED
  BY <1>2, <1>3 DEF Sound

LEMMA AsksCached ==
  ASSUME NEW s, NEW t, NEW r, NEW cam, Sound(s, cam), Asks(s, t, r), NEW k \in Keys,
         CachedAt(s, cam, k) \/ \E i \in 1..Len(r) : r[i] \in ReadsOf(k)
  PROVE  CachedAt(t, cam, k)
<1>1. s.queue \in Seq(Requests) /\ r \in Seq(Requests) /\ t.queue = s.queue \o r
      /\ t.values = s.values
  BY DEF Sound, Typed, Engine, Asks
<1>2. Number(t.queue, ReadsOf(k)) = Number(s.queue, ReadsOf(k)) + Number(r, ReadsOf(k))
  BY <1>1, NumberConcat
<1>3. Number(s.queue, ReadsOf(k)) \in Nat /\ Number(r, ReadsOf(k)) \in Nat
  BY <1>1, PlacesFinite
<1>4. (\E i \in 1..Len(r) : r[i] \in ReadsOf(k)) => Number(r, ReadsOf(k)) # 0
  BY <1>1, NumberAll
<1> QED
  BY <1>1, <1>2, <1>3, <1>4 DEF CachedAt

LEMMA AsksSettling ==
  ASSUME NEW s, NEW t, NEW r, NEW cam, Sound(s, cam), Asks(s, t, r), NEW k \in Keys,
         Settling(s, cam, k) \/ \E i \in 1..Len(r) : r[i] = GetBatch(s.catalog)
  PROVE  Settling(t, cam, k)
<1> DEFINE c == s.catalog
           G == {GetBatch(c)}
           F == Fixes(s, k)
           W == SetsOf(k)
<1>1. /\ s.queue \in Seq(Requests) /\ c \in Catalogs
      /\ \A i \in 1..Len(r) : r[i] \notin W
      /\ Fixes(t, k) = F /\ Running(t, c) = Running(s, c)
  BY AsksFacts
<1>2. /\ r \in Seq(Requests) /\ t.queue = s.queue \o r /\ t.jobs = s.jobs /\ t.catalog = c
      /\ t.defs = s.defs /\ t.rows = s.rows /\ t.owed[c] = s.owed[c] + Number(r, G)
  BY <1>1 DEF Asks
<1>3. /\ Number(s.queue, F) \in Nat /\ Number(r, F) \in Nat
      /\ Number(r, G) \in Nat /\ s.owed[c] \in Nat
  <2>1. s.owed[c] = Number(s.queue, G) + Cardinality(Running(s, c))
    BY <1>1 DEF Sound, Accounted
  <2>2. Number(s.queue, G) \in Nat /\ Cardinality(Running(s, c)) \in Nat
    BY <1>1, PlacesFinite, RunningCounted
  <2> QED
    BY <1>1, <1>2, <2>1, <2>2, PlacesFinite
<1>4. Number(t.queue, F) = Number(s.queue, F) + Number(r, F)
  BY <1>1, <1>2, NumberConcat
<1>5. Number(r, G) # 0 <=> \E i \in 1..Len(r) : r[i] = GetBatch(c)
  BY <1>2, NumberAll
<1>6. CASE \E i \in 1..Len(r) : r[i] = GetBatch(c)
  <2>1. GetBatch(c) \in F
    BY <1>1, Made DEF Fixes
  <2>2. Number(r, F) # 0
    BY <1>2, <1>6, <2>1, NumberAll
  <2>3. Followed(t.queue, W, F)
    BY <1>1, <1>2, <1>6, <2>1, FollowedConcat
  <2> HIDE DEF c, G, F, W
  <2>4. Number(r, G) # 0
    BY <1>5, <1>6 DEF c
  <2>5. t.owed[c] # 0 /\ Number(t.queue, F) # 0
    BY <1>2, <1>3, <1>4, <2>2, <2>4
  <2> QED
    BY <1>1, <1>2, <2>3, <2>5 DEF Settling, ReadRight, c, F, W
<1>7. CASE ~(\E i \in 1..Len(r) : r[i] = GetBatch(c))
  <2>1. Settling(s, cam, k)
    BY <1>7
  <2>2. t.owed[c] = s.owed[c]
    BY <1>2, <1>3, <1>5, <1>7
  <2>3. ASSUME t.owed[c] = 0, t.rows[k] # None PROVE Shown(t, cam, k)
    <3>1. Shown(s, cam, k)
      BY <1>2, <2>1, <2>2, <2>3 DEF Settling
    <3>2. Number(t.queue, W) = Number(s.queue, W)
      <4>1. Number(t.queue, W) = Number(s.queue, W) + Number(r, W)
        BY <1>1, <1>2, NumberConcat
      <4>2. Number(r, W) = 0 /\ Number(s.queue, W) \in Nat
        BY <1>1, <1>2, NumberAll, PlacesFinite
      <4> QED
        BY <4>1, <4>2
    <3>3. CASE Number(s.queue, W) = 0
      BY <1>2, <3>1, <3>2, <3>3 DEF Shown
    <3>4. CASE Number(s.queue, W) # 0
      <4>1. LastIs(s.queue, W, Set(k, s.rows[k]))
        BY <3>1, <3>4 DEF Shown
      <4>2. LastIs(t.queue, W, Set(k, s.rows[k]))
        BY <1>1, <1>2, <4>1, LastConcat
      <4> QED
        BY <1>2, <3>2, <3>4, <4>2 DEF Shown
    <3> QED
      BY <3>3, <3>4
  <2>4. ASSUME t.owed[c] > 0 PROVE Followed(t.queue, W, F)
    <3>1. Followed(s.queue, W, F)
      BY <2>1, <2>2, <2>4 DEF Settling
    <3> QED
      BY <1>1, <1>2, <3>1, FollowedConcat
  <2>5. ReadRight(t, cam, k)
    <3>1. Number(t.queue, F) = 0 => Number(s.queue, F) = 0
      BY <1>3, <1>4
    <3>2. ReadRight(s, cam, k)
      BY <2>1 DEF Settling
    <3> QED
      BY <1>1, <1>2, <3>1, <3>2 DEF ReadRight
  <2> QED
    BY <1>1, <1>2, <2>3, <2>4, <2>5 DEF Settling
<1> QED
  BY <1>6, <1>7

------------------------------------------------------------------------------
(* The request at the head is answered; it is not part of a series.        *)

Pops(s, t) ==
  /\ t \in Engine
  /\ s.queue # <<>>
  /\ Head(s.queue).job = 0
  /\ t.queue = Tail(s.queue)
  /\ t.open = s.open /\ t.jobs = s.jobs /\ t.groupKeys = s.groupKeys
  /\ t.catalog = s.catalog /\ t.rows = s.rows /\ t.owed = s.owed

\* A read of group c has ended and was not announced yet.
Due(s, cam, c) ==
  /\ Typed(s, cam) /\ Belongs(s) /\ InOrder(s) /\ Painted(s)
  /\ \A d \in Catalogs :
       s.owed[d] = Number(s.queue, {GetBatch(d)}) + Cardinality(Running(s, d))
                     + IF d = c THEN 1 ELSE 0
  /\ \A j \in Jobs : s.jobs[j].pending = Number(s.queue, JobGets(j))

LEMMA PopsFacts ==
  ASSUME NEW s, NEW t, NEW cam, Sound(s, cam), Pops(s, t)
  PROVE  /\ s \in Engine /\ s.queue \in Seq(Requests) /\ s.catalog \in Catalogs
         /\ t.queue \in Seq(Requests) /\ Head(s.queue) \in Requests
         /\ \A j \in Jobs : Head(s.queue) \notin JobGets(j)
         /\ \A k : Fixes(t, k) = Fixes(s, k)
         /\ \A k : Head(s.queue) # GetBatch(s.catalog) => Head(s.queue) \notin Fixes(s, k)
         /\ \A c : Running(t, c) = Running(s, c)
<1>1. s \in Engine /\ s.queue \in Seq(Requests) /\ s.catalog \in Catalogs /\ s.queue # <<>>
  BY DEF Sound, Typed, Engine, Pops
<1>2. Head(s.queue) \in Requests /\ t.queue \in Seq(Requests)
  BY <1>1, TailAt DEF Pops
<1>3. ASSUME NEW j \in Jobs PROVE Head(s.queue) \notin JobGets(j)
  <2>1. j # 0
    BY JobsCounted
  <2> QED
    BY <1>2, <2>1, Sorted DEF Pops
<1>5. \A k : Fixes(t, k) = Fixes(s, k)
  BY DEF Pops, Fixes
<1>6. \A k : Head(s.queue) # GetBatch(s.catalog) => Head(s.queue) \notin Fixes(s, k)
  BY JobsCounted DEF Pops, Fixes
<1>7. \A c : Running(t, c) = Running(s, c)
  BY DEF Pops, Running
<1> QED
  BY <1>1, <1>2, <1>3, <1>5, <1>6, <1>7

LEMMA PopsDue ==
  ASSUME NEW s, NEW t, NEW cam, Sound(s, cam), Pops(s, t)
  PROVE  IF Head(s.queue).op = "getbatch"
           THEN Due(t, cam, Head(s.queue).arg)
           ELSE Sound(t, cam)
<1> DEFINE h == Head(s.queue)
<1>1. /\ s \in Engine /\ s.queue \in Seq(Requests) /\ s.catalog \in Catalogs
      /\ t.queue \in Seq(Requests) /\ h \in Requests
      /\ \A j \in Jobs : h \notin JobGets(j)
      /\ \A c : Running(t, c) = Running(s, c)
  BY PopsFacts
<1>2. /\ t.queue = Tail(s.queue) /\ s.queue # <<>> /\ t.jobs = s.jobs
      /\ t.groupKeys = s.groupKeys /\ t.catalog = s.catalog /\ t.rows = s.rows /\ t.owed = s.owed
  BY DEF Pops
<1> HIDE DEF h
<1>3. Typed(t, cam)
  BY DEF Typed, Sound, Pops
<1>4. \A c \in Catalogs :
        t.owed[c] = Number(t.queue, {GetBatch(c)}) + Cardinality(Running(t, c))
                      + IF h.op = "getbatch" /\ h.arg = c THEN 1 ELSE 0
  <2> SUFFICES ASSUME NEW c \in Catalogs
               PROVE  t.owed[c] = Number(t.queue, {GetBatch(c)}) + Cardinality(Running(t, c))
                                    + IF h.op = "getbatch" /\ h.arg = c THEN 1 ELSE 0
    OBVIOUS
  <2>1. Number(t.queue, {GetBatch(c)})
          = Number(s.queue, {GetBatch(c)}) - IF h = GetBatch(c) THEN 1 ELSE 0
    BY <1>1, <1>2, NumberTail DEF h
  <2>2. Number(s.queue, {GetBatch(c)}) \in Nat /\ Cardinality(Running(s, c)) \in Nat
    BY <1>1, PlacesFinite, RunningCounted
  <2>3. s.owed[c] = Number(s.queue, {GetBatch(c)}) + Cardinality(Running(s, c))
    BY DEF Sound, Accounted
  <2>4. h = GetBatch(c) <=> h.op = "getbatch" /\ h.arg = c
    BY <1>1, Sorted
  <2>5. CASE h = GetBatch(c)
    BY <1>1, <1>2, <2>1, <2>2, <2>3, <2>4, <2>5
  <2>6. CASE h # GetBatch(c)
    BY <1>1, <1>2, <2>1, <2>2, <2>3, <2>4, <2>6
  <2> QED
    BY <2>5, <2>6
<1>5. \A j \in Jobs : t.jobs[j].pending = Number(t.queue, JobGets(j))
  <2>1. ASSUME NEW j \in Jobs PROVE t.jobs[j].pending = Number(t.queue, JobGets(j))
    <3>1. Number(t.queue, JobGets(j)) = Number(s.queue, JobGets(j)) - 0
      BY <1>1, <1>2, NumberTail DEF h
    <3>2. s.jobs[j].pending = Number(s.queue, JobGets(j)) /\ Number(s.queue, JobGets(j)) \in Nat
      BY <1>1, PlacesFinite DEF Sound, Accounted
    <3> QED
      BY <1>2, <3>1, <3>2
  <2> QED
    BY <2>1
<1>6. Belongs(t)
  <2>1. Belongs(s)
    BY DEF Sound
  <2>2. ASSUME NEW j \in Jobs, NEW i \in 1..Len(t.queue), t.queue[i] \in JobGets(j)
        PROVE  t.queue[i].arg \in RangeOf(Schema[t.jobs[j].catalog])
    <3>1. i + 1 \in 1..Len(s.queue) /\ t.queue[i] = s.queue[i + 1]
      BY <1>1, <1>2, TailAt
    <3> QED
      BY <1>2, <2>1, <2>2, <3>1 DEF Belongs
  <2> QED
    BY <1>2, <2>1, <2>2 DEF Belongs
<1>7. InOrder(t)
  <2>1. ASSUME NEW j \in Jobs
        PROVE  /\ Contiguous(t.queue, JobGets(j))
               /\ t.jobs[j].pending > 0 => t.jobs[j].ok = {}
    <3>1. Contiguous(s.queue, JobGets(j))
      BY DEF Sound, InOrder
    <3>2. Contiguous(t.queue, JobGets(j))
      BY <1>1, <1>2, <3>1, ContiguousTail
    <3>3. s.jobs[j].pending > 0 => s.jobs[j].ok = {}
      BY <1>1 DEF Sound, InOrder, h
    <3> QED
      BY <1>2, <3>2, <3>3
  <2> QED
    BY <2>1 DEF InOrder
<1>8. Painted(t)
  BY <1>2 DEF Sound, Painted
<1>9. CASE h.op = "getbatch"
  <2>1. \A c \in Catalogs :
          t.owed[c] = Number(t.queue, {GetBatch(c)}) + Cardinality(Running(t, c))
                        + IF c = h.arg THEN 1 ELSE 0
    BY <1>4, <1>9
  <2> QED
    BY <1>3, <1>5, <1>6, <1>7, <1>8, <1>9, <2>1 DEF Due, h
<1>10. CASE h.op # "getbatch"
  <2>1. ASSUME NEW c \in Catalogs
        PROVE  t.owed[c] = Number(t.queue, {GetBatch(c)}) + Cardinality(Running(t, c))
    <3>1. t.owed[c] = Number(t.queue, {GetBatch(c)}) + Cardinality(Running(t, c)) + 0
      BY <1>4, <1>10
    <3>2. Number(t.queue, {GetBatch(c)}) \in Nat /\ Cardinality(Running(t, c)) \in Nat
      BY <1>1, PlacesFinite, RunningCounted
    <3> QED
      BY <3>1, <3>2
  <2> QED
    BY <1>3, <1>5, <1>6, <1>7, <1>8, <1>10, <2>1 DEF Sound, Accounted, h
<1> QED
  BY <1>9, <1>10 DEF h

LEMMA PopsCached ==
  ASSUME NEW s, NEW t, NEW cam, s.queue \in Seq(Requests), s.queue # <<>>,
         t.queue = Tail(s.queue), NEW k \in Keys,
         CachedAt(s, cam, k), t.values[k] = s.values[k], Head(s.queue) \notin ReadsOf(k)
  PROVE  CachedAt(t, cam, k)
<1>1. Number(t.queue, ReadsOf(k)) = Number(s.queue, ReadsOf(k)) - 0
  BY NumberTail
<1>2. Number(s.queue, ReadsOf(k)) \in Nat
  BY PlacesFinite
<1> QED
  BY <1>1, <1>2 DEF CachedAt

LEMMA PopsSettling ==
  ASSUME NEW s, NEW t, NEW cam, Sound(s, cam), Pops(s, t),
         Head(s.queue) # GetBatch(s.catalog),
         NEW k \in Keys, Settling(s, cam, k), Head(s.queue) \notin SetsOf(k),
         t.defs[k] = s.defs[k] \/ (t.defs[k] # None /\ t.defs[k].value = cam[k])
  PROVE  Settling(t, cam, k)
<1> DEFINE c == s.catalog
           F == Fixes(s, k)
           W == SetsOf(k)
<1>1. /\ s.queue \in Seq(Requests) /\ t.queue \in Seq(Requests) /\ c \in Catalogs
      /\ Head(s.queue) \notin F
      /\ Fixes(t, k) = F /\ Running(t, c) = Running(s, c)
  BY PopsFacts
<1>2. /\ t.queue = Tail(s.queue) /\ s.queue # <<>> /\ t.jobs = s.jobs
      /\ t.catalog = c /\ t.rows = s.rows /\ t.owed = s.owed
  BY DEF Pops
<1>3. Number(t.queue, W) = Number(s.queue, W)
  <2>1. Number(t.queue, W) = Number(s.queue, W) - 0 /\ Number(s.queue, W) \in Nat
    BY <1>1, <1>2, NumberTail, PlacesFinite
  <2> QED
    BY <2>1
<1>4. Number(t.queue, F) = Number(s.queue, F)
  <2>1. Number(t.queue, F) = Number(s.queue, F) - 0 /\ Number(s.queue, F) \in Nat
    BY <1>1, <1>2, NumberTail, PlacesFinite
  <2> QED
    BY <2>1
<1>5. ASSUME t.owed[c] = 0, t.rows[k] # None PROVE Shown(t, cam, k)
  <2>1. Shown(s, cam, k)
    BY <1>2, <1>5 DEF Settling
  <2>2. CASE Number(s.queue, W) = 0
    BY <1>2, <1>3, <2>1, <2>2 DEF Shown
  <2>3. CASE Number(s.queue, W) # 0
    <3>1. LastIs(s.queue, W, Set(k, s.rows[k]))
      BY <2>1, <2>3 DEF Shown
    <3>2. LastIs(t.queue, W, Set(k, s.rows[k]))
      BY <1>1, <1>2, <1>3, <2>3, <3>1, LastTail
    <3> QED
      BY <1>2, <1>3, <2>3, <3>2 DEF Shown
  <2> QED
    BY <2>2, <2>3
<1>6. ASSUME t.owed[c] > 0 PROVE Followed(t.queue, W, F)
  <2>1. Followed(s.queue, W, F)
    BY <1>2, <1>6 DEF Settling
  <2> QED
    BY <1>1, <1>2, <2>1, FollowedTail
<1>7. ReadRight(t, cam, k)
  <2>1. ReadRight(s, cam, k)
    BY DEF Settling
  <2> QED
    BY <1>1, <1>2, <1>4, <2>1 DEF ReadRight
<1> QED
  BY <1>1, <1>2, <1>5, <1>6, <1>7 DEF Settling

------------------------------------------------------------------------------
(* A group read is announced.                                              *)

RowsOf(s, c) ==
  [k \in Keys |->
    IF s.open /\ k \in s.groupKeys[c] /\ s.defs[k] # None
         /\ s.defs[k].supported /\ ~s.defs[k].ro
      THEN s.defs[k].value ELSE None]

LEMMA RowsFacts ==
  ASSUME NEW s \in Engine, NEW c \in Catalogs
  PROVE  /\ RowsOf(s, c) \in [Keys -> Texts \cup {None}]
         /\ \A k \in Keys : RowsOf(s, c)[k] # None =>
              k \in s.groupKeys[c] /\ s.defs[k] # None /\ RowsOf(s, c)[k] = s.defs[k].value
<1>1. s.defs \in [Keys -> Defs \cup {None}]
  BY DEF Engine
<1>2. \A k \in Keys : s.defs[k] # None => s.defs[k].value \in Texts
  BY <1>1 DEF Defs
<1> QED
  BY <1>2 DEF RowsOf

LEMMA Built ==
  ASSUME NEW s \in Engine, NEW c \in Catalogs, NEW t, t = BuildRows(s, c)
  PROVE  /\ t \in Engine /\ t.rows = RowsOf(s, c)
         /\ t.open = s.open /\ t.queue = s.queue /\ t.jobs = s.jobs /\ t.values = s.values
         /\ t.defs = s.defs /\ t.groupKeys = s.groupKeys /\ t.catalog = s.catalog
         /\ t.owed = s.owed /\ t.suspect = s.suspect /\ t.lag = s.lag
<1> DEFINE R == RowsOf(s, c)
<1>1. R \in [Keys -> Texts \cup {None}]
  BY RowsFacts
<1>2. t = [s EXCEPT !.rows = R]
  BY DEF BuildRows, RowsOf
<1> HIDE DEF R
<1>3. t \in Engine /\ t.rows = R
  BY <1>1, <1>2 DEF Engine
<1>4. /\ t.open = s.open /\ t.queue = s.queue /\ t.jobs = s.jobs /\ t.values = s.values
      /\ t.defs = s.defs /\ t.groupKeys = s.groupKeys /\ t.catalog = s.catalog
      /\ t.owed = s.owed /\ t.suspect = s.suspect /\ t.lag = s.lag
  BY <1>2 DEF Engine
<1> QED
  BY <1>3, <1>4 DEF R

Announces(s, t, c, keys) ==
  /\ t \in Engine
  /\ t.rows = IF c = s.catalog THEN RowsOf(t, c) ELSE s.rows
  /\ t.groupKeys = [s.groupKeys EXCEPT ![c] = keys]
  /\ t.owed = [s.owed EXCEPT ![c] = s.owed[c] - 1]
  /\ t.open = s.open /\ t.queue = s.queue /\ t.jobs = s.jobs /\ t.values = s.values
  /\ t.defs = s.defs /\ t.catalog = s.catalog
  /\ t.suspect = s.suspect /\ t.lag = s.lag

LEMMA Announced ==
  ASSUME NEW s \in Engine, NEW c \in Catalogs, NEW keys, keys \subseteq Keys,
         NEW t, t = GroupRead(s, c, keys)
  PROVE  Announces(s, t, c, keys)
<1> DEFINE m == [s EXCEPT !.groupKeys[c] = keys, !.owed[c] = @ - 1]
           G == [s.groupKeys EXCEPT ![c] = keys]
           O == [s.owed EXCEPT ![c] = s.owed[c] - 1]
<1>1. G \in [Catalogs -> SUBSET Keys] /\ O \in [Catalogs -> Int]
  BY DEF Engine
<1>2. m = [s EXCEPT !.groupKeys = G, !.owed = O]
  OBVIOUS
<1>3. t = OnGroupRefreshed(m, c)
  BY DEF GroupRead
<1> HIDE DEF G, O, m
<1>4. m \in Engine
  BY <1>1, <1>2 DEF Engine
<1>5. /\ m.groupKeys = G /\ m.owed = O /\ m.rows = s.rows
      /\ m.open = s.open /\ m.queue = s.queue /\ m.jobs = s.jobs /\ m.values = s.values
      /\ m.defs = s.defs /\ m.catalog = s.catalog
      /\ m.suspect = s.suspect /\ m.lag = s.lag
  BY <1>2 DEF Engine
<1>6. CASE c = s.catalog
  <2>1. t = BuildRows(m, c)
    BY <1>3, <1>5, <1>6 DEF OnGroupRefreshed
  <2>2. /\ t \in Engine /\ t.rows = RowsOf(m, c)
        /\ t.open = m.open /\ t.queue = m.queue /\ t.jobs = m.jobs /\ t.values = m.values
        /\ t.defs = m.defs /\ t.groupKeys = m.groupKeys /\ t.catalog = m.catalog
        /\ t.owed = m.owed /\ t.suspect = m.suspect /\ t.lag = m.lag
    BY <1>4, <2>1, Built
  <2>3. RowsOf(m, c) = RowsOf(t, c)
    BY <2>2 DEF RowsOf
  <2> QED
    BY <1>5, <1>6, <2>2, <2>3 DEF G, O, Announces
<1>7. CASE c # s.catalog
  <2>1. t = m
    BY <1>3, <1>5, <1>7 DEF OnGroupRefreshed
  <2> QED
    BY <1>4, <1>5, <1>7, <2>1 DEF G, O, Announces
<1> QED
  BY <1>6, <1>7

LEMMA AnnouncedSound ==
  ASSUME NEW s, NEW cam, NEW c \in Catalogs, Due(s, cam, c),
         NEW keys, keys \subseteq KeysOf(c), keys \subseteq Keys, NEW t, t = GroupRead(s, c, keys)
  PROVE  Sound(t, cam)
<1>1. s \in Engine /\ s.queue \in Seq(Requests) /\ s.owed \in [Catalogs -> Int]
      /\ s.catalog \in Catalogs /\ s.groupKeys \in [Catalogs -> SUBSET Keys]
  BY DEF Due, Typed, Engine
<1>2. /\ t \in Engine
      /\ t.rows = IF c = s.catalog THEN RowsOf(t, c) ELSE s.rows
      /\ t.groupKeys = [s.groupKeys EXCEPT ![c] = keys]
      /\ t.owed = [s.owed EXCEPT ![c] = s.owed[c] - 1]
      /\ t.queue = s.queue /\ t.jobs = s.jobs /\ t.catalog = s.catalog
  <2>1. Announces(s, t, c, keys)
    BY <1>1, Announced
  <2> QED
    BY <2>1 DEF Announces
<1>3. Typed(t, cam)
  BY <1>2 DEF Due, Typed
<1>4. Accounted(t)
  <2>1. ASSUME NEW d \in Catalogs
        PROVE  t.owed[d] = Number(t.queue, {GetBatch(d)}) + Cardinality(Running(t, d))
    <3>1. s.owed[d] = Number(s.queue, {GetBatch(d)}) + Cardinality(Running(s, d))
                        + IF d = c THEN 1 ELSE 0
      BY DEF Due
    <3>2. Running(t, d) = Running(s, d)
      BY <1>2 DEF Running
    <3>3. Number(s.queue, {GetBatch(d)}) \in Nat /\ Cardinality(Running(s, d)) \in Nat
      BY <1>1, PlacesFinite, RunningCounted
    <3>4. t.owed[d] = s.owed[d] - IF d = c THEN 1 ELSE 0
      BY <1>1, <1>2
    <3> QED
      BY <1>2, <3>1, <3>2, <3>3, <3>4
  <2> QED
    BY <1>2, <2>1 DEF Accounted, Due
<1>5. Belongs(t)
  BY <1>1, <1>2 DEF Belongs, Due
<1>6. InOrder(t)
  BY <1>2 DEF InOrder, Due
<1>7. Painted(t)
  <2>1. CASE c = s.catalog
    <3>1. t.rows = RowsOf(t, c) /\ t \in Engine /\ t.catalog = c
      BY <1>2, <2>1
    <3>2. \A k \in Keys : RowsOf(t, c)[k] # None => k \in t.groupKeys[c]
      BY <3>1, RowsFacts
    <3> QED
      BY <3>1, <3>2 DEF Painted
  <2>2. CASE c # s.catalog
    BY <1>1, <1>2, <2>2 DEF Painted, Due
  <2> QED
    BY <2>1, <2>2
<1> QED
  BY <1>3, <1>4, <1>5, <1>6, <1>7 DEF Sound

\* The group is the one that is shown: the row of k will be right if what was
\* read of k is, unless another read of the group follows.
LEMMA AnnouncedSettling ==
  ASSUME NEW s, NEW cam, NEW c \in Catalogs, Due(s, cam, c),
         NEW keys, keys \subseteq KeysOf(c), keys \subseteq Keys, NEW t, t = GroupRead(s, c, keys),
         NEW k \in Keys, ReadRight(s, cam, k),
         c # s.catalog => Settling(s, cam, k),
         c = s.catalog =>
           /\ Followed(s.queue, SetsOf(k), Fixes(s, k))
           /\ k \in keys /\ Number(s.queue, Fixes(s, k)) = 0 =>
                (s.defs[k] # None => s.defs[k].value = cam[k])
  PROVE  Settling(t, cam, k)
<1>1. s \in Engine /\ s.queue \in Seq(Requests) /\ s.owed \in [Catalogs -> Int]
      /\ s.catalog \in Catalogs /\ s.groupKeys \in [Catalogs -> SUBSET Keys]
  BY DEF Due, Typed, Engine
<1>2. /\ t \in Engine
      /\ t.rows = IF c = s.catalog THEN RowsOf(t, c) ELSE s.rows
      /\ t.groupKeys = [s.groupKeys EXCEPT ![c] = keys]
      /\ t.owed = [s.owed EXCEPT ![c] = s.owed[c] - 1]
      /\ t.queue = s.queue /\ t.jobs = s.jobs /\ t.catalog = s.catalog /\ t.defs = s.defs
  <2>1. Announces(s, t, c, keys)
    BY <1>1, Announced
  <2> QED
    BY <2>1 DEF Announces
<1>3. Fixes(t, k) = Fixes(s, k) /\ Running(t, s.catalog) = Running(s, s.catalog)
  BY <1>2 DEF Fixes, Running
<1>4. ReadRight(t, cam, k)
  BY <1>2, <1>3 DEF ReadRight
<1>5. CASE c # s.catalog
  <2>1. t.owed[s.catalog] = s.owed[s.catalog] /\ t.rows = s.rows
    BY <1>1, <1>2, <1>5
  <2>2. Settling(s, cam, k)
    BY <1>5
  <2>3. Shown(s, cam, k) => Shown(t, cam, k)
    BY <1>2, <2>1 DEF Shown
  <2> QED
    BY <1>2, <1>3, <1>4, <2>1, <2>2, <2>3 DEF Settling
<1>6. CASE c = s.catalog
  <2>1. Followed(t.queue, SetsOf(k), Fixes(t, k))
    BY <1>2, <1>3, <1>6
  <2>2. ASSUME t.owed[c] = 0, t.rows[k] # None PROVE Shown(t, cam, k)
    <3>1. Sound(t, cam)
      BY AnnouncedSound
    <3>2. Number(t.queue, Fixes(t, k)) = 0
      <4>1. ~(t.owed[t.catalog] > 0)
        BY <1>2, <1>6, <2>2
      <4> QED
        BY <3>1, <4>1, FixIsOwed
    <3>3. \A i \in 1..Len(t.queue) : t.queue[i] \notin Fixes(t, k)
      BY <1>1, <1>2, <3>2, NumberAll
    <3>4. \A i \in 1..Len(t.queue) : t.queue[i] \notin SetsOf(k)
      BY <2>1, <3>3 DEF Followed
    <3>5. Number(t.queue, SetsOf(k)) = 0
      BY <1>1, <1>2, <3>4, NumberAll
    <3>6. k \in t.groupKeys[c] /\ t.defs[k] # None /\ t.rows[k] = t.defs[k].value
      <4>1. t.rows = RowsOf(t, c) /\ t \in Engine /\ RowsOf(t, c)[k] # None
        BY <1>2, <1>6, <2>2
      <4> QED
        BY <4>1, RowsFacts
    <3>7. k \in keys
      BY <1>1, <1>2, <3>6
    <3> QED
      BY <1>2, <1>3, <1>6, <3>2, <3>5, <3>6, <3>7 DEF Shown
  <2> QED
    BY <1>2, <1>4, <1>6, <2>1, <2>2 DEF Settling
<1> QED
  BY <1>5, <1>6

------------------------------------------------------------------------------
(* Replies to reads of a group.                                            *)

LEMMA Answered ==
  ASSUME Inv, NEW op, Answering(op)
  PROVE  /\ e \in Engine /\ e.open /\ e.queue \in Seq(Requests) /\ e.queue # <<>>
         /\ Head(e.queue) \in Requests /\ Head(e.queue).op = op
         /\ e.catalog \in Catalogs /\ camera \in [Keys -> Texts]
         /\ Popped \in Engine /\ Popped = [e EXCEPT !.queue = Tail(e.queue)]
         /\ Tail(e.queue) \in Seq(Requests)
<1>1. e \in Engine /\ e.queue \in Seq(Requests) /\ e.catalog \in Catalogs
      /\ camera \in [Keys -> Texts]
  BY DEF Inv, Sound, Typed, Engine
<1>2. e.open /\ e.queue # <<>> /\ Head(e.queue).op = op
  BY DEF Answering
<1>3. Tail(e.queue) \in Seq(Requests) /\ Head(e.queue) \in Requests
  BY <1>1, <1>2, TailAt
<1>4. Popped = [e EXCEPT !.queue = Tail(e.queue)]
  BY DEF Popped
<1>5. Popped \in Engine
  BY <1>1, <1>3, <1>4 DEF Engine
<1> QED
  BY <1>1, <1>2, <1>3, <1>4, <1>5

\* A read of the shown group is at the head: no series has begun, and the rows
\* will be right when another read of the group has been answered.
LEMMA AtGetBatch ==
  ASSUME NEW s, NEW cam, Sound(s, cam), NEW t, Pops(s, t),
         Head(s.queue) = GetBatch(s.catalog), NEW k \in Keys, Settling(s, cam, k)
  PROVE  /\ ReadRight(t, cam, k)
         /\ Followed(t.queue, SetsOf(k), Fixes(t, k))
<1>1. /\ s.queue \in Seq(Requests) /\ s.catalog \in Catalogs
      /\ \A j \in Jobs : Head(s.queue) \notin JobGets(j)
      /\ Fixes(t, k) = Fixes(s, k) /\ Running(t, s.catalog) = Running(s, s.catalog)
  BY PopsFacts
<1>2. /\ t.queue = Tail(s.queue) /\ s.queue # <<>> /\ t.jobs = s.jobs /\ t.catalog = s.catalog
  BY DEF Pops
<1>3. \A j \in Running(s, s.catalog) : s.jobs[j].ok = {}
  BY <1>1 DEF Sound, InOrder, Running
<1>4. ReadRight(t, cam, k)
  BY <1>1, <1>2, <1>3 DEF ReadRight
<1>5. s.owed[s.catalog] > 0
  <2>1. GetBatch(s.catalog) \in Fixes(s, k)
    BY <1>1, Made DEF Fixes
  <2>2. 1 \in 1..Len(s.queue) /\ s.queue[1] = Head(s.queue)
    BY <1>1, <1>2, TailAt
  <2>3. Number(s.queue, Fixes(s, k)) # 0
    BY <1>1, <2>1, <2>2, NumberAll
  <2> QED
    BY <2>3, FixIsOwed
<1>6. Followed(s.queue, SetsOf(k), Fixes(s, k))
  BY <1>5 DEF Settling
<1>7. Followed(Tail(s.queue), SetsOf(k), Fixes(s, k))
  BY <1>1, <1>2, <1>6, FollowedTail
<1> QED
  BY <1>1, <1>2, <1>4, <1>7

LEMMA CatalogKeys ==
  \A c \in Catalogs : /\ Reported[c] \subseteq Keys /\ RangeOf(Schema[c]) \subseteq Keys
                      /\ KeysOf(c) \subseteq Keys
                      /\ Schema[c] \in Seq(Keys)
                      /\ \A i \in 1..Len(Schema[c]) : Schema[c][i] \in Keys
  BY SettingsShape DEF KeysOf, RangeOf

LEMMA AnswerTyped ==
  ASSUME camera \in [Keys -> Texts], NEW k \in Keys
  PROVE  /\ Answer(k) \in Defs /\ Answer(k) # None /\ Answer(k).value = camera[k]
         /\ NoAnswer \in Defs /\ NoAnswer # None /\ NoAnswer.value = Empty
         /\ camera[k] \in Texts /\ Empty \in Texts
<1>1. camera[k] \in Texts /\ Empty \in Texts
  BY DEF Texts
<1> DEFINE b == camera[k] # Empty
           o == k \in ReadOnly
<1>2. b \in BOOLEAN /\ o \in BOOLEAN
  OBVIOUS
<1>3. Answer(k) = [value |-> camera[k], supported |-> b, ro |-> o]
  BY DEF Answer
<1> HIDE DEF b, o
<1>4. Answer(k) \in Defs /\ Answer(k).value = camera[k]
  BY <1>1, <1>2, <1>3 DEF Defs
<1>5. NoAnswer \in Defs /\ NoAnswer.value = Empty
  BY <1>1 DEF NoAnswer, Defs
<1> QED
  BY <1>1, <1>4, <1>5, NoneIsNew

\* The group whose read is at the head of the queue is announced.
LEMMA GroupSettles ==
  ASSUME Inv, e.open, NEW c \in Catalogs, Head(e.queue) = GetBatch(c),
         NEW m, Pops(e, m), m.lag = e.lag,
         NEW keys, keys \subseteq KeysOf(c), keys \subseteq Keys,
         \A k \in keys : m.defs[k] # None /\ m.defs[k].value = camera[k],
         \A k \in Keys \ keys : m.defs[k] = e.defs[k],
         NEW t, t = GroupRead(m, c, keys)
  PROVE  Settled(t, camera)
<1>1. e \in Engine /\ e.queue # <<>> /\ e.catalog \in Catalogs /\ m.catalog = e.catalog /\ m \in Engine
      /\ e.queue \in Seq(Requests)
  BY DEF Inv, Sound, Typed, Engine, Pops
<1>2. Due(m, camera, c)
  BY PopsDue, Made DEF Inv
<1>3. t.catalog = m.catalog /\ t.lag = m.lag
  <2>1. Announces(m, t, c, keys)
    BY <1>1, Announced
  <2> QED
    BY <2>1 DEF Announces
<1>4. ASSUME NEW k \in KeysOf(e.catalog) \ e.lag PROVE Settling(t, camera, k)
  <2>1. k \in Keys /\ Settling(e, camera, k)
    BY <1>1, CatalogKeys DEF Inv, Settled
  <2>2. CASE c = e.catalog
    <3>1. ReadRight(m, camera, k) /\ Followed(m.queue, SetsOf(k), Fixes(m, k))
      BY <2>1, <2>2, AtGetBatch DEF Inv
    <3>2. c = m.catalog
      BY <1>1, <2>2
    <3> QED
      BY <1>2, <2>1, <3>1, <3>2, AnnouncedSettling
  <2>3. CASE c # e.catalog
    <3>1. k \notin keys
      BY <1>1, <2>3, CatalogsDisjoint
    <3>2. m.defs[k] = e.defs[k]
      BY <2>1, <3>1
    <3>3. Head(e.queue) # GetBatch(e.catalog) /\ Head(e.queue) \notin SetsOf(k)
      <4>1. Head(e.queue) \in Requests /\ Head(e.queue).op = "getbatch" /\ Head(e.queue).arg = c
        BY Made
      <4> QED
        BY <1>1, <2>1, <2>3, <4>1, Sorted
    <3>4. Settling(m, camera, k)
      BY <2>1, <3>2, <3>3, PopsSettling DEF Inv
    <3>5. ReadRight(m, camera, k) /\ c # m.catalog
      BY <1>1, <2>3, <3>4 DEF Settling
    <3> QED
      BY <1>2, <2>1, <3>4, <3>5, AnnouncedSettling
  <2> QED
    BY <2>2, <2>3
<1> QED
  BY <1>1, <1>3, <1>4 DEF Settled

LEMMA GetBatchListedStep ==
  ASSUME Inv, GetBatchListed
  PROVE  Inv'
<1> DEFINE c == Head(e.queue).arg
           V == [k \in Keys |-> IF k \in Reported[c] THEN camera[k] ELSE e.values[k]]
           D == [k \in Keys |-> IF k \in Reported[c] THEN Answer(k) ELSE e.defs[k]]
           m == [e EXCEPT !.queue = Tail(e.queue), !.values = V, !.defs = D,
                          !.suspect = e.suspect \ Reported[c]]
<1>1. Answering("getbatch") /\ camera' = camera /\ e' = ApplyBatch(Popped, c)
  BY DEF GetBatchListed
<1>2. /\ e \in Engine /\ e.open /\ e.queue \in Seq(Requests) /\ e.queue # <<>>
      /\ Head(e.queue) \in Requests /\ Head(e.queue).op = "getbatch"
      /\ e.catalog \in Catalogs /\ camera \in [Keys -> Texts]
      /\ Popped = [e EXCEPT !.queue = Tail(e.queue)]
      /\ Tail(e.queue) \in Seq(Requests)
  BY <1>1, Answered
<1>3. c \in Catalogs /\ Head(e.queue) = GetBatch(c) /\ Head(e.queue).job = 0
  BY <1>2, Kinds
<1>4. e' = GroupRead(m, c, Reported[c])
  <2>1. /\ Popped.values = e.values /\ Popped.defs = e.defs /\ Popped.suspect = e.suspect
    BY <1>2 DEF Engine
  <2>2. [Popped EXCEPT !.values = V, !.defs = D, !.suspect = e.suspect \ Reported[c]] = m
    BY <1>2 DEF Engine
  <2> QED
    BY <1>1, <2>1, <2>2 DEF ApplyBatch
<1>5. V \in [Keys -> Texts \cup {None}] /\ D \in [Keys -> Defs \cup {None}]
      /\ Reported[c] \subseteq Keys /\ Reported[c] \subseteq KeysOf(c)
  BY <1>2, <1>3, CatalogKeys, AnswerTyped DEF Engine, KeysOf
<1>6. /\ \A k \in Reported[c] : V[k] = camera[k] /\ D[k] = Answer(k)
      /\ \A k \in Keys \ Reported[c] : V[k] = e.values[k] /\ D[k] = e.defs[k]
  BY <1>5
<1> HIDE DEF c, V, D, m
<1>7. m \in Engine
  BY <1>2, <1>5 DEF Engine, m
<1>8. /\ m.queue = Tail(e.queue) /\ m.values = V /\ m.defs = D
      /\ m.suspect = e.suspect \ Reported[c] /\ m.lag = e.lag
      /\ m.open = e.open /\ m.jobs = e.jobs /\ m.groupKeys = e.groupKeys
      /\ m.catalog = e.catalog /\ m.rows = e.rows /\ m.owed = e.owed
  BY <1>2 DEF Engine, m
<1>9. Pops(e, m)
  BY <1>2, <1>3, <1>7, <1>8 DEF Pops
<1>10. Due(m, camera, c)
  BY <1>2, <1>9, PopsDue DEF Inv, c
<1>11. Sound(e', camera)
  BY <1>3, <1>4, <1>5, <1>10, AnnouncedSound
<1>12. /\ e'.open = m.open /\ e'.queue = m.queue /\ e'.values = m.values
       /\ e'.catalog = m.catalog /\ e'.suspect = m.suspect /\ e'.lag = m.lag
  <2>1. Announces(m, e', c, Reported[c])
    BY <1>3, <1>4, <1>5, <1>7, Announced
  <2> QED
    BY <2>1 DEF Announces
<1>13. Cached(e', camera)
  <2>1. ASSUME NEW k \in Keys \ e'.suspect PROVE CachedAt(e', camera, k)
    <3>1. CASE k \in Reported[c]
      BY <1>6, <1>8, <1>12, <3>1 DEF CachedAt
    <3>2. CASE k \notin Reported[c]
      <4>1. CachedAt(e, camera, k)
        BY <1>8, <1>12, <2>1, <3>2 DEF Inv, Cached
      <4>2. Head(e.queue) \notin ReadsOf(k)
        BY <1>3, <3>2 DEF ReadsOf, GetBatch, Get
      <4>3. CachedAt(m, camera, k)
        BY <1>2, <1>6, <1>8, <3>2, <4>1, <4>2, PopsCached
      <4> QED
        BY <1>12, <4>3 DEF CachedAt
    <3> QED
      BY <3>1, <3>2
  <2> QED
    BY <2>1 DEF Cached
<1>14. Settled(e', camera)
  <2>1. \A k \in Reported[c] : m.defs[k] # None /\ m.defs[k].value = camera[k]
    BY <1>2, <1>5, <1>6, <1>8, AnswerTyped
  <2>2. \A k \in Keys \ Reported[c] : m.defs[k] = e.defs[k]
    BY <1>6, <1>8
  <2> QED
    BY <1>2, <1>3, <1>4, <1>5, <1>8, <1>9, <2>1, <2>2, GroupSettles
<1> QED
  BY <1>1, <1>11, <1>13, <1>14 DEF Inv

------------------------------------------------------------------------------
(* A series of reads by key.                                               *)

LEMMA SamePlaces ==
  ASSUME NEW q, NEW A, NEW B, \A i \in 1..Len(q) : q[i] \in A <=> q[i] \in B
  PROVE  Number(q, A) = Number(q, B)
<1>1. Places(q, A) = Places(q, B)
  BY DEF Places
<1> QED
  BY <1>1 DEF Number

Series(c, j) == [i \in 1..Len(Schema[c]) |-> Get(Schema[c][i], j)]

LEMMA SeriesFacts ==
  ASSUME NEW c \in Catalogs, NEW j \in Jobs
  PROVE  /\ Series(c, j) \in Seq(Requests) /\ Len(Series(c, j)) = Len(Schema[c])
         /\ Len(Schema[c]) \in Nat
         /\ \A i \in 1..Len(Series(c, j)) :
              /\ Series(c, j)[i] = Get(Schema[c][i], j)
              /\ Series(c, j)[i] \in Requests
              /\ Series(c, j)[i].op = "get" /\ Series(c, j)[i].job = j
              /\ Series(c, j)[i].arg = Schema[c][i] /\ Schema[c][i] \in Keys
              /\ Schema[c][i] \in RangeOf(Schema[c])
<1>1. Schema[c] \in Seq(Keys) /\ Len(Schema[c]) \in Nat
      /\ \A i \in 1..Len(Schema[c]) : Schema[c][i] \in Keys /\ Schema[c][i] \in RangeOf(Schema[c])
  BY CatalogKeys DEF RangeOf
<1>2. \A i \in 1..Len(Schema[c]) :
        LET g == Get(Schema[c][i], j)
        IN  g \in Requests /\ g.op = "get" /\ g.job = j /\ g.arg = Schema[c][i]
  <2> SUFFICES ASSUME NEW i \in 1..Len(Schema[c]), NEW g, g = Get(Schema[c][i], j)
               PROVE  g \in Requests /\ g.op = "get" /\ g.job = j /\ g.arg = Schema[c][i]
    OBVIOUS
  <2> DEFINE k == Schema[c][i]
  <2>1. k \in Keys /\ j \in {0} \cup Jobs /\ g = Get(k, j)
    BY <1>1
  <2> HIDE DEF k
  <2>2. g \in Requests /\ g.op = "get" /\ g.job = j /\ g.arg = k
    BY <2>1, Made
  <2> QED
    BY <2>2 DEF k
<1>3. Series(c, j) \in Seq(Requests) /\ Len(Series(c, j)) = Len(Schema[c])
  BY <1>1, <1>2 DEF Series
<1>4. \A i \in 1..Len(Schema[c]) : Series(c, j)[i] = Get(Schema[c][i], j)
  BY DEF Series
<1> QED
  BY <1>1, <1>2, <1>3, <1>4

Starts(s, t, c, j) ==
  /\ t \in Engine /\ c \in Catalogs /\ j \in Jobs /\ Schema[c] # <<>>
  /\ s.jobs[j].pending = 0
  /\ t.queue = s.queue \o Series(c, j)
  /\ t.jobs = [s.jobs EXCEPT ![j] = [catalog |-> c, pending |-> Len(Schema[c]), ok |-> {}]]
  /\ t.open = s.open /\ t.values = s.values /\ t.defs = s.defs /\ t.groupKeys = s.groupKeys
  /\ t.catalog = s.catalog /\ t.rows = s.rows /\ t.owed = s.owed /\ t.suspect = s.suspect
  /\ t.lag = s.lag

Started(s, t, c, j, r) ==
  /\ s \in Engine /\ s.queue \in Seq(Requests)
  /\ c \in Catalogs /\ j \in Jobs /\ Len(Schema[c]) \in Nat /\ Len(Schema[c]) > 0
  /\ t.jobs[j] = [catalog |-> c, pending |-> Len(Schema[c]), ok |-> {}]
  /\ \A x \in Jobs \ {j} : t.jobs[x] = s.jobs[x]
  /\ \A i \in 1..Len(s.queue) : s.queue[i] \in Requests /\ s.queue[i] \notin JobGets(j)
  /\ \A x \in Jobs \ {j} : \A i \in 1..Len(r) : r[i] \notin JobGets(x)
  /\ \A i \in 1..Len(r) : r[i] \in JobGets(j)
  /\ \A k \in Keys : \A i \in 1..Len(r) : r[i] \notin SetsOf(k)
  /\ \A d \in Catalogs : \A i \in 1..Len(r) : r[i] # GetBatch(d)

LEMMA StartsFacts ==
  ASSUME NEW s, NEW t, NEW cam, NEW c, NEW j, Due(s, cam, c), Starts(s, t, c, j)
  PROVE  Started(s, t, c, j, Series(c, j))
<1>1. /\ s \in Engine /\ s.queue \in Seq(Requests) /\ s.jobs \in [Jobs -> Job]
      /\ c \in Catalogs /\ j \in Jobs /\ Schema[c] # <<>>
  BY DEF Due, Typed, Engine, Starts
<1>2. Len(Schema[c]) \in Nat /\ Len(Schema[c]) > 0
  BY <1>1, CatalogKeys
<1>3. /\ t.jobs[j] = [catalog |-> c, pending |-> Len(Schema[c]), ok |-> {}]
      /\ \A x \in Jobs \ {j} : t.jobs[x] = s.jobs[x]
  BY <1>1 DEF Starts
<1>4. \A i \in 1..Len(s.queue) : s.queue[i] \in Requests /\ s.queue[i] \notin JobGets(j)
  <2>1. Number(s.queue, JobGets(j)) = 0
    BY <1>1 DEF Due, Starts
  <2> QED
    BY <1>1, <2>1, NumberAll
<1>5. \A i \in 1..Len(Series(c, j)) : LET g == Series(c, j)[i]
        IN  g \in Requests /\ g.op = "get" /\ g.job = j
  BY <1>1, SeriesFacts
<1>6. \A i \in 1..Len(Series(c, j)) : LET g == Series(c, j)[i]
        IN  /\ \A x \in Jobs \ {j} : g \notin JobGets(x)
            /\ g \in JobGets(j)
            /\ \A k \in Keys : g \notin SetsOf(k)
            /\ \A d \in Catalogs : g # GetBatch(d)
  <2> SUFFICES ASSUME NEW i \in 1..Len(Series(c, j)), NEW g, g = Series(c, j)[i]
               PROVE  /\ \A x \in Jobs \ {j} : g \notin JobGets(x)
                      /\ g \in JobGets(j)
                      /\ \A k \in Keys : g \notin SetsOf(k)
                      /\ \A d \in Catalogs : g # GetBatch(d)
    OBVIOUS
  <2>1. g \in Requests /\ g.op = "get" /\ g.job = j
    BY <1>5
  <2> QED
    BY <1>1, <2>1, Sorted
<1> QED
  BY <1>1, <1>2, <1>3, <1>4, <1>6 DEF Started

LEMMA StartsSound ==
  ASSUME NEW s, NEW t, NEW cam, NEW c, NEW j, Due(s, cam, c), Starts(s, t, c, j)
  PROVE  Sound(t, cam)
<1> DEFINE r == Series(c, j)
<1>1. /\ s \in Engine /\ s.queue \in Seq(Requests)
      /\ c \in Catalogs /\ j \in Jobs /\ Len(Schema[c]) \in Nat /\ Len(Schema[c]) > 0
      /\ t.jobs[j] = [catalog |-> c, pending |-> Len(Schema[c]), ok |-> {}]
      /\ \A x \in Jobs \ {j} : t.jobs[x] = s.jobs[x]
      /\ \A i \in 1..Len(s.queue) : s.queue[i] \in Requests /\ s.queue[i] \notin JobGets(j)
      /\ \A x \in Jobs \ {j} : \A i \in 1..Len(r) : r[i] \notin JobGets(x)
      /\ \A i \in 1..Len(r) : r[i] \in JobGets(j)
      /\ \A d \in Catalogs : \A i \in 1..Len(r) : r[i] # GetBatch(d)
  <2>1. Started(s, t, c, j, r)
    BY StartsFacts
  <2> HIDE DEF r
  <2> QED
    BY <2>1 DEF Started
<1>2. r \in Seq(Requests) /\ Len(r) = Len(Schema[c])
      /\ \A i \in 1..Len(r) : r[i].arg \in RangeOf(Schema[c])
  BY <1>1, SeriesFacts
<1>3. t.queue = s.queue \o r /\ t.owed = s.owed /\ t.groupKeys = s.groupKeys
      /\ s.jobs[j].pending = 0
  BY DEF Starts
<1> HIDE DEF r
<1>4. Typed(t, cam)
  BY DEF Typed, Due, Starts
<1>5. Accounted(t)
  <2>1. ASSUME NEW d \in Catalogs
        PROVE  t.owed[d] = Number(t.queue, {GetBatch(d)}) + Cardinality(Running(t, d))
    <3>1. Number(t.queue, {GetBatch(d)}) = Number(s.queue, {GetBatch(d)})
      <4>1. Number(t.queue, {GetBatch(d)}) = Number(s.queue, {GetBatch(d)}) + Number(r, {GetBatch(d)})
        BY <1>1, <1>2, <1>3, NumberConcat
      <4>2. Number(r, {GetBatch(d)}) = 0 /\ Number(s.queue, {GetBatch(d)}) \in Nat
        BY <1>1, <1>2, NumberAll, PlacesFinite
      <4> QED
        BY <4>1, <4>2
    <3>2. Cardinality(Running(t, d)) = Cardinality(Running(s, d)) + IF d = c THEN 1 ELSE 0
      <4>1. j \notin Running(s, d) /\ IsFiniteSet(Running(s, d)) /\ Cardinality(Running(s, d)) \in Nat
        <5>1. j \notin Running(s, d)
          BY <1>3 DEF Running
        <5> QED
          BY <5>1, RunningCounted
      <4>2. CASE d = c
        <5>1. Running(t, d) = Running(s, d) \cup {j}
          BY <1>1, <4>2 DEF Running
        <5> QED
          BY <4>1, <4>2, <5>1, FS_AddElement
      <4>3. CASE d # c
        <5>1. Running(t, d) = Running(s, d)
          BY <1>1, <1>3, <4>3 DEF Running
        <5> QED
          BY <4>1, <4>3, <5>1
      <4> QED
        BY <4>2, <4>3
    <3>3. s.owed[d] = Number(s.queue, {GetBatch(d)}) + Cardinality(Running(s, d))
                        + IF d = c THEN 1 ELSE 0
      BY DEF Due
    <3>4. Number(s.queue, {GetBatch(d)}) \in Nat /\ Cardinality(Running(s, d)) \in Nat
      BY <1>1, PlacesFinite, RunningCounted
    <3> QED
      BY <1>3, <3>1, <3>2, <3>3, <3>4
  <2>2. ASSUME NEW x \in Jobs PROVE t.jobs[x].pending = Number(t.queue, JobGets(x))
    <3>1. Number(t.queue, JobGets(x)) = Number(s.queue, JobGets(x)) + Number(r, JobGets(x))
      BY <1>1, <1>2, <1>3, NumberConcat
    <3>2. s.jobs[x].pending = Number(s.queue, JobGets(x)) /\ Number(s.queue, JobGets(x)) \in Nat
      BY <1>1, PlacesFinite DEF Due
    <3>3. CASE x = j
      <4>1. Number(r, JobGets(x)) = Len(r)
        BY <1>1, <1>2, <3>3, NumberAll
      <4>2. Number(s.queue, JobGets(x)) = 0 /\ t.jobs[x].pending = Len(Schema[c])
        BY <1>1, <1>3, <3>2, <3>3
      <4> QED
        BY <1>1, <1>2, <3>1, <4>1, <4>2
    <3>4. CASE x # j
      <4>1. Number(r, JobGets(x)) = 0
        BY <1>1, <1>2, <3>4, NumberAll
      <4>2. t.jobs[x] = s.jobs[x]
        BY <1>1, <3>4
      <4> QED
        BY <3>1, <3>2, <4>1, <4>2
    <3> QED
      BY <3>3, <3>4
  <2> QED
    BY <2>1, <2>2 DEF Accounted
<1>6. Belongs(t)
  <2>1. Belongs(s)
    BY DEF Due
  <2>2. \A x \in Jobs : t.jobs[x].pending > 0 =>
          t.jobs[x].catalog \in Catalogs /\ t.jobs[x].ok \subseteq RangeOf(Schema[t.jobs[x].catalog])
    BY <1>1, <2>1 DEF Belongs
  <2>3. ASSUME NEW x \in Jobs, NEW i \in 1..Len(t.queue), t.queue[i] \in JobGets(x)
        PROVE  t.queue[i].arg \in RangeOf(Schema[t.jobs[x].catalog])
    <3>1. CASE i \in 1..Len(s.queue)
      <4>1. t.queue[i] = s.queue[i]
        BY <1>1, <1>2, <1>3, <3>1, ConcatAt
      <4>2. x # j
        BY <1>1, <2>3, <3>1, <4>1
      <4> QED
        BY <1>1, <2>1, <2>3, <3>1, <4>1, <4>2 DEF Belongs
    <3>2. CASE i - Len(s.queue) \in 1..Len(r) /\ t.queue[i] = r[i - Len(s.queue)]
      <4>1. x = j
        BY <1>1, <2>3, <3>2
      <4> QED
        BY <1>1, <1>2, <3>2, <4>1
    <3> QED
      BY <1>1, <1>2, <1>3, <3>1, <3>2, ConcatAt
  <2> QED
    BY <1>3, <2>1, <2>2, <2>3 DEF Belongs
<1>7. InOrder(t)
  <2>1. ASSUME NEW x \in Jobs
        PROVE  /\ Contiguous(t.queue, JobGets(x))
               /\ t.jobs[x].pending > 0 =>
                    \/ t.jobs[x].ok = {}
                    \/ t.queue # <<>> /\ Head(t.queue) \in JobGets(x)
    <3>1. CASE x = j
      <4>1. Contiguous(t.queue, JobGets(x))
        <5>1. /\ \A i \in 1..Len(s.queue) : s.queue[i] \notin JobGets(x)
              /\ \A i \in 1..Len(r) : r[i] \in JobGets(x)
          BY <1>1, <3>1
        <5>2. s.queue \in Seq(Requests) /\ r \in Seq(Requests)
          BY <1>1, <1>2
        <5>3. Contiguous(s.queue \o r, JobGets(x))
          BY <5>1, <5>2, ContiguousConcat
        <5> QED
          BY <1>3, <5>3
      <4> QED
        BY <1>1, <3>1, <4>1
    <3>2. CASE x # j
      <4>1. Contiguous(s.queue, JobGets(x))
        BY DEF Due, InOrder
      <4>2. Contiguous(t.queue, JobGets(x))
        BY <1>1, <1>2, <1>3, <3>2, <4>1, ContiguousConcat
      <4>3. s.queue # <<>> => t.queue # <<>> /\ Head(t.queue) = Head(s.queue)
        BY <1>1, <1>2, <1>3
      <4> QED
        BY <1>1, <3>2, <4>2, <4>3 DEF Due, InOrder
    <3> QED
      BY <3>1, <3>2
  <2> QED
    BY <2>1 DEF InOrder
<1>8. Painted(t)
  BY DEF Due, Painted, Starts
<1> QED
  BY <1>4, <1>5, <1>6, <1>7, <1>8 DEF Sound

LEMMA StartsCached ==
  ASSUME NEW s, NEW t, NEW cam, NEW c, NEW j, Due(s, cam, c), Starts(s, t, c, j), NEW k \in Keys,
         CachedAt(s, cam, k) \/ k \in RangeOf(Schema[c])
  PROVE  CachedAt(t, cam, k)
<1> DEFINE r == Series(c, j)
           R == ReadsOf(k)
<1>1. s.queue \in Seq(Requests) /\ c \in Catalogs /\ j \in Jobs
      /\ t.queue = s.queue \o r /\ t.values = s.values
  BY DEF Due, Typed, Engine, Starts
<1>2. r \in Seq(Requests) /\ Len(r) = Len(Schema[c])
      /\ \A i \in 1..Len(r) : r[i] = Get(Schema[c][i], j)
  BY <1>1, SeriesFacts
<1>3. Number(t.queue, R) = Number(s.queue, R) + Number(r, R)
  BY <1>1, <1>2, NumberConcat
<1>4. Number(s.queue, R) \in Nat /\ Number(r, R) \in Nat
  BY <1>1, <1>2, PlacesFinite
<1>5. ASSUME k \in RangeOf(Schema[c]) PROVE Number(r, R) # 0
  <2>1. PICK i \in 1..Len(r) : k = Schema[c][i]
    BY <1>2, <1>5 DEF RangeOf
  <2>2. r[i] \in R
    BY <1>1, <1>2, <2>1 DEF ReadsOf
  <2> QED
    BY <1>2, <2>2, NumberAll
<1> HIDE DEF r, R
<1> QED
  BY <1>1, <1>3, <1>4, <1>5 DEF CachedAt, R

\* The series is of the group that is shown: it will fix the row.
LEMMA StartsHere ==
  ASSUME NEW s, NEW t, NEW cam, NEW c, NEW j, Due(s, cam, c), Starts(s, t, c, j), NEW k \in Keys,
         c = s.catalog, Followed(s.queue, SetsOf(k), Fixes(s, k))
  PROVE  Settling(t, cam, k)
<1> DEFINE r == Series(c, j)
<1>1. /\ s.queue \in Seq(Requests) /\ c \in Catalogs /\ j \in Jobs
      /\ Len(Schema[c]) \in Nat /\ Len(Schema[c]) > 0
      /\ t.jobs[j].catalog = c
      /\ \A x \in Jobs \ {j} : t.jobs[x] = s.jobs[x]
      /\ \A i \in 1..Len(s.queue) : s.queue[i] \in Requests /\ s.queue[i] \notin JobGets(j)
      /\ \A i \in 1..Len(r) : r[i] \notin SetsOf(k)
  <2>1. Started(s, t, c, j, r)
    BY StartsFacts
  <2> HIDE DEF r
  <2> QED
    BY <2>1 DEF Started
<1>2. r \in Seq(Requests) /\ Len(r) = Len(Schema[c])
      /\ \A i \in 1..Len(r) : /\ r[i] \in Requests /\ r[i].op = "get" /\ r[i].job = j
                              /\ r[i].arg = Schema[c][i]
  BY <1>1, SeriesFacts
<1>3. t.queue = s.queue \o r /\ t.owed = s.owed /\ t.catalog = s.catalog
  BY DEF Starts
<1> HIDE DEF r
<1>4. Followed(t.queue, SetsOf(k), Fixes(t, k))
  <2>1. ASSUME NEW i \in 1..Len(s.queue), s.queue[i] \in Fixes(s, k) PROVE s.queue[i] \in Fixes(t, k)
    <3>1. s.queue[i] \in Requests /\ ~(s.queue[i].op = "get" /\ s.queue[i].job = j)
      BY <1>1, Sorted
    <3> QED
      BY <1>1, <1>3, <2>1, <3>1 DEF Fixes
  <2>2. Followed(s.queue, SetsOf(k), Fixes(t, k))
    BY <2>1, FollowedBy
  <2> QED
    BY <1>1, <1>2, <1>3, <2>2, FollowedConcat
<1>5. Number(t.queue, Fixes(t, k)) # 0
  <2>1. PICK i \in 1..Len(r) : r[i].arg = k \/ k \notin RangeOf(Schema[c])
    <3>1. CASE k \in RangeOf(Schema[c])
      BY <1>2, <3>1 DEF RangeOf
    <3>2. CASE k \notin RangeOf(Schema[c])
      <4>1. 1 \in 1..Len(r)
        BY <1>1, <1>2
      <4> QED
        BY <3>2, <4>1
    <3> QED
      BY <3>1, <3>2
  <2>2. r[i] \in Fixes(t, k)
    BY <1>1, <1>2, <1>3, <2>1 DEF Fixes
  <2>3. Number(r, Fixes(t, k)) # 0
    BY <1>2, <2>2, NumberAll
  <2>4. Number(t.queue, Fixes(t, k)) = Number(s.queue, Fixes(t, k)) + Number(r, Fixes(t, k))
    BY <1>1, <1>2, <1>3, NumberConcat
  <2>5. Number(s.queue, Fixes(t, k)) \in Nat /\ Number(r, Fixes(t, k)) \in Nat
    BY <1>1, <1>2, PlacesFinite
  <2> QED
    BY <2>3, <2>4, <2>5
<1>6. t.owed[t.catalog] > 0
  BY <1>5, StartsSound, FixIsOwed
<1> QED
  BY <1>4, <1>5, <1>6 DEF Settling, ReadRight

\* The series is of another group.
LEMMA StartsElsewhere ==
  ASSUME NEW s, NEW t, NEW cam, NEW c, NEW j, Due(s, cam, c), Starts(s, t, c, j), NEW k \in Keys,
         c # s.catalog, Settling(s, cam, k)
  PROVE  Settling(t, cam, k)
<1> DEFINE r == Series(c, j)
           W == SetsOf(k)
           F == Fixes(s, k)
<1>1. /\ s.queue \in Seq(Requests) /\ c \in Catalogs /\ j \in Jobs
      /\ t.jobs[j].catalog = c
      /\ \A x \in Jobs \ {j} : t.jobs[x] = s.jobs[x]
      /\ \A i \in 1..Len(s.queue) : s.queue[i] \in Requests /\ s.queue[i] \notin JobGets(j)
      /\ \A i \in 1..Len(r) : r[i] \notin W
  <2>1. Started(s, t, c, j, r)
    BY StartsFacts
  <2> HIDE DEF r
  <2> QED
    BY <2>1 DEF Started
<1>2. r \in Seq(Requests)
      /\ \A i \in 1..Len(r) : r[i] \in Requests /\ r[i].op = "get" /\ r[i].job = j
  BY <1>1, SeriesFacts
<1>3. /\ t.queue = s.queue \o r /\ t.owed = s.owed /\ t.catalog = s.catalog
      /\ t.rows = s.rows /\ t.defs = s.defs /\ s.jobs[j].pending = 0
  BY DEF Starts
<1>a. s.catalog \in Catalogs
  BY DEF Due, Typed, Engine
<1> HIDE DEF r
<1>4. \A i \in 1..Len(s.queue) : s.queue[i] \in F <=> s.queue[i] \in Fixes(t, k)
  <2>1. ASSUME NEW i \in 1..Len(s.queue) PROVE s.queue[i] \in F <=> s.queue[i] \in Fixes(t, k)
    <3>1. s.queue[i] \in Requests /\ ~(s.queue[i].op = "get" /\ s.queue[i].job = j)
      BY <1>1, Sorted
    <3> QED
      BY <1>1, <1>3, <3>1 DEF Fixes
  <2> QED
    BY <2>1
<1>5. \A i \in 1..Len(r) : r[i] \notin Fixes(t, k)
  <2>1. GetBatch(s.catalog).op = "getbatch"
    BY <1>a, Made
  <2> QED
    BY <1>1, <1>2, <1>3, <2>1 DEF Fixes
<1>6. Number(t.queue, Fixes(t, k)) = Number(s.queue, F)
  <2>1. Number(t.queue, Fixes(t, k)) = Number(s.queue, Fixes(t, k)) + Number(r, Fixes(t, k))
    BY <1>1, <1>2, <1>3, NumberConcat
  <2>2. Number(r, Fixes(t, k)) = 0 /\ Number(s.queue, Fixes(t, k)) \in Nat
    BY <1>1, <1>2, <1>5, NumberAll, PlacesFinite
  <2>3. Number(s.queue, F) = Number(s.queue, Fixes(t, k))
    BY <1>4, SamePlaces
  <2> QED
    BY <2>1, <2>2, <2>3
<1>7. Running(t, s.catalog) = Running(s, s.catalog) /\ j \notin Running(s, s.catalog)
  BY <1>1, <1>3 DEF Running
<1>8. ReadRight(t, cam, k)
  <2>1. \A x \in Running(s, s.catalog) : t.jobs[x] = s.jobs[x]
    BY <1>1, <1>7 DEF Running
  <2> QED
    BY <1>3, <1>6, <1>7, <2>1 DEF Settling, ReadRight
<1>9. ASSUME t.owed[t.catalog] > 0 PROVE Followed(t.queue, W, Fixes(t, k))
  <2>1. Followed(s.queue, W, F)
    BY <1>3, <1>9 DEF Settling
  <2>2. Followed(s.queue, W, Fixes(t, k))
    BY <1>4, <2>1, FollowedBy
  <2> QED
    BY <1>1, <1>2, <1>3, <2>2, FollowedConcat
<1>10. ASSUME t.owed[t.catalog] = 0, t.rows[k] # None PROVE Shown(t, cam, k)
  <2>1. Shown(s, cam, k)
    BY <1>3, <1>10 DEF Settling
  <2>2. Number(t.queue, W) = Number(s.queue, W)
    <3>1. Number(t.queue, W) = Number(s.queue, W) + Number(r, W)
      BY <1>1, <1>2, <1>3, NumberConcat
    <3>2. Number(r, W) = 0 /\ Number(s.queue, W) \in Nat
      BY <1>1, <1>2, NumberAll, PlacesFinite
    <3> QED
      BY <3>1, <3>2
  <2>3. CASE Number(s.queue, W) = 0
    BY <1>3, <2>1, <2>2, <2>3 DEF Shown
  <2>4. CASE Number(s.queue, W) # 0
    <3>1. LastIs(s.queue, W, Set(k, s.rows[k]))
      BY <2>1, <2>4 DEF Shown
    <3>2. LastIs(t.queue, W, Set(k, s.rows[k]))
      BY <1>1, <1>2, <1>3, <3>1, LastConcat
    <3> QED
      BY <1>3, <2>2, <2>4, <3>2 DEF Shown
  <2> QED
    BY <2>3, <2>4
<1> QED
  BY <1>8, <1>9, <1>10 DEF Settling

LEMMA GetBatchFailedStep ==
  ASSUME Inv, GetBatchFailed
  PROVE  Inv'
<1> DEFINE c == Head(e.queue).arg
           p == Popped
<1>1. /\ Answering("getbatch") /\ camera' = camera /\ e' = ReadGroupByKeys(p, c)
      /\ FreeJobs(e) # {}
  BY DEF GetBatchFailed
<1>2. /\ e \in Engine /\ e.open /\ e.queue \in Seq(Requests) /\ e.queue # <<>>
      /\ Head(e.queue) \in Requests /\ Head(e.queue).op = "getbatch"
      /\ e.catalog \in Catalogs
      /\ p = [e EXCEPT !.queue = Tail(e.queue)] /\ p \in Engine
  BY <1>1, Answered
<1>3. c \in Catalogs /\ Head(e.queue) = GetBatch(c) /\ Head(e.queue).job = 0
  BY <1>2, Kinds
<1>4. /\ p.queue = Tail(e.queue) /\ p.values = e.values /\ p.defs = e.defs
      /\ p.suspect = e.suspect /\ p.lag = e.lag
      /\ p.open = e.open /\ p.jobs = e.jobs /\ p.groupKeys = e.groupKeys
      /\ p.catalog = e.catalog /\ p.rows = e.rows /\ p.owed = e.owed
  BY <1>2 DEF Engine
<1> HIDE DEF c, p
<1>5. Pops(e, p)
  BY <1>2, <1>3, <1>4 DEF Pops
<1>6. Due(p, camera, c)
  BY <1>2, <1>5, PopsDue DEF Inv, c
<1>7. ASSUME NEW k \in Keys \ e.suspect, k \notin RangeOf(Schema[c])
      PROVE  CachedAt(p, camera, k)
  <2>1. CachedAt(e, camera, k)
    BY DEF Inv, Cached
  <2>2. Head(e.queue) \notin ReadsOf(k)
    BY <1>3, <1>7 DEF ReadsOf, GetBatch, Get
  <2> QED
    BY <1>2, <1>4, <2>1, <2>2, PopsCached, ZenonT(30)
<1>8. CASE Schema[c] = <<>>
  <2>1. e' = GroupRead(p, c, {}) /\ {} \subseteq KeysOf(c) /\ {} \subseteq Keys
    BY <1>1, <1>8 DEF ReadGroupByKeys
  <2>2. Sound(e', camera)
    BY <1>3, <1>6, <2>1, AnnouncedSound
  <2>3. Settled(e', camera)
    BY <1>2, <1>3, <1>4, <1>5, <2>1, GroupSettles
  <2>4. e'.values = p.values /\ e'.queue = p.queue /\ e'.suspect = p.suspect
    <3>1. Announces(p, e', c, {})
      BY <1>2, <1>3, <2>1, Announced
    <3> QED
      BY <3>1 DEF Announces
  <2>5. RangeOf(Schema[c]) = {}
    BY <1>8 DEF RangeOf
  <2>6. Cached(e', camera)
    BY <1>4, <1>7, <2>4, <2>5 DEF Cached, CachedAt
  <2> QED
    BY <1>1, <2>2, <2>3, <2>6 DEF Inv
<1>9. CASE Schema[c] # <<>>
  <2> DEFINE j == CHOOSE x \in FreeJobs(p) : TRUE
             J == [catalog |-> c, pending |-> Len(Schema[c]), ok |-> {}]
  <2>1. j \in Jobs /\ p.jobs[j].pending = 0
    <3>1. FreeJobs(p) = FreeJobs(e)
      BY <1>4 DEF FreeJobs
    <3>2. j \in FreeJobs(p)
      BY <1>1, <3>1
    <3> QED
      BY <3>2 DEF FreeJobs
  <2>2. e' = [p EXCEPT !.queue = p.queue \o Series(c, j), !.jobs[j] = J]
    BY <1>1, <1>9 DEF ReadGroupByKeys, Series
  <2>3. J \in Job
    BY <1>3, CatalogKeys DEF Job
  <2> HIDE DEF j, J
  <2> DEFINE M == [p.jobs EXCEPT ![j] = J]
             q == p.queue \o Series(c, j)
  <2>4. M \in [Jobs -> Job] /\ q \in Seq(Requests)
    <3>1. p.queue \in Seq(Requests) /\ p.jobs \in [Jobs -> Job]
      BY <1>2 DEF Engine
    <3>2. Series(c, j) \in Seq(Requests)
      BY <1>3, <2>1, SeriesFacts
    <3> QED
      BY <2>1, <2>3, <3>1, <3>2
  <2>5. e' = [p EXCEPT !.queue = q, !.jobs = M]
    BY <2>2
  <2> HIDE DEF M, q
  <2>6. e' \in Engine
    BY <1>2, <2>4, <2>5 DEF Engine
  <2>7. /\ e'.queue = q /\ e'.jobs = M
        /\ e'.open = p.open /\ e'.values = p.values /\ e'.defs = p.defs
        /\ e'.groupKeys = p.groupKeys /\ e'.catalog = p.catalog /\ e'.rows = p.rows
        /\ e'.owed = p.owed /\ e'.suspect = p.suspect /\ e'.lag = p.lag
    BY <1>2, <2>5 DEF Engine
  <2>8. Starts(p, e', c, j)
    BY <1>3, <1>9, <2>1, <2>6, <2>7 DEF Starts, M, q, J
  <2>9. Sound(e', camera)
    BY <1>6, <2>8, StartsSound
  <2>10. Cached(e', camera)
    <3>1. ASSUME NEW k \in Keys \ e'.suspect PROVE CachedAt(e', camera, k)
      <4>1. CachedAt(p, camera, k) \/ k \in RangeOf(Schema[c])
        BY <1>4, <1>7, <2>7
      <4> QED
        BY <1>6, <2>8, <4>1, StartsCached
    <3> QED
      BY <3>1 DEF Cached
  <2>11. Settled(e', camera)
    <3>1. ASSUME NEW k \in KeysOf(e.catalog) \ e.lag PROVE Settling(e', camera, k)
      <4>1. k \in Keys /\ Settling(e, camera, k)
        BY <1>2, CatalogKeys DEF Inv, Settled
      <4>2. CASE c = e.catalog
        <5>1. Followed(p.queue, SetsOf(k), Fixes(p, k))
          BY <1>3, <1>5, <4>1, <4>2, AtGetBatch DEF Inv
        <5>2. c = p.catalog
          BY <1>4, <4>2
        <5> QED
          BY <1>6, <2>8, <4>1, <5>1, <5>2, StartsHere
      <4>3. CASE c # e.catalog
        <5>1. Head(e.queue) # GetBatch(e.catalog) /\ Head(e.queue) \notin SetsOf(k)
          BY <1>2, <1>3, <4>1, <4>3, Sorted DEF GetBatch
        <5>2. Settling(p, camera, k)
          BY <1>4, <1>5, <4>1, <5>1, PopsSettling DEF Inv
        <5>3. c # p.catalog
          BY <1>4, <4>3
        <5> QED
          BY <1>6, <2>8, <4>1, <5>2, <5>3, StartsElsewhere
      <4> QED
        BY <4>2, <4>3
    <3> QED
      BY <1>4, <2>7, <3>1 DEF Settled
  <2> QED
    BY <1>1, <2>9, <2>10, <2>11 DEF Inv
<1> QED
  BY <1>8, <1>9

------------------------------------------------------------------------------
(* Replies to reads of a key.                                              *)

\* The answer of a key, def, is stored; it is the camera's, or the key's row
\* and value are known to be stale.
Stores(s, t, cam, k, j, def) ==
  /\ s \in Engine /\ t \in Engine /\ s.queue # <<>> /\ Head(s.queue) = Get(k, j)
  /\ k \in Keys /\ j \in {0} \cup Jobs /\ def \in Defs
  /\ t.queue = Tail(s.queue)
  /\ t.values = [s.values EXCEPT ![k] = def.value] /\ t.defs = [s.defs EXCEPT ![k] = def]
  /\ t.open = s.open /\ t.jobs = s.jobs /\ t.groupKeys = s.groupKeys
  /\ t.catalog = s.catalog /\ t.rows = s.rows /\ t.owed = s.owed
  /\ s.lag \subseteq t.lag
  /\ s.suspect \ {k} \subseteq t.suspect
  /\ def.value = cam[k] \/ (k \in t.lag /\ k \in t.suspect)

LEMMA StoresFacts ==
  ASSUME NEW s, NEW t, NEW cam, NEW k, NEW j, NEW def, Sound(s, cam), Stores(s, t, cam, k, j, def)
  PROVE  /\ s.queue \in Seq(Requests) /\ Tail(s.queue) \in Seq(Requests)
         /\ s.catalog \in Catalogs /\ k \in Keys /\ j \in {0} \cup Jobs
         /\ Get(k, j) \in Requests /\ Get(k, j).op = "get" /\ Get(k, j).arg = k /\ Get(k, j).job = j
         /\ \A x \in Jobs : Get(k, j) \in JobGets(x) <=> x = j
         /\ \A x \in Keys : Get(k, j) \notin SetsOf(x)
         /\ \A c \in Catalogs : Get(k, j) # GetBatch(c)
         /\ \A x \in Keys \ {k} : t.values[x] = s.values[x] /\ t.defs[x] = s.defs[x]
         /\ t.values[k] = def.value /\ t.defs[k] = def /\ def # None
<1>1. /\ s.queue \in Seq(Requests) /\ s.catalog \in Catalogs /\ s.queue # <<>>
      /\ s.values \in [Keys -> Texts \cup {None}] /\ s.defs \in [Keys -> Defs \cup {None}]
      /\ k \in Keys /\ j \in {0} \cup Jobs /\ def \in Defs
  BY DEF Stores, Engine
<1>2. Tail(s.queue) \in Seq(Requests)
  BY <1>1, TailAt
<1>3. Get(k, j) \in Requests /\ Get(k, j).op = "get" /\ Get(k, j).arg = k /\ Get(k, j).job = j
  BY <1>1, Made
<1>4. /\ \A x \in Jobs : Get(k, j) \in JobGets(x) <=> x = j
      /\ \A x \in Keys : Get(k, j) \notin SetsOf(x)
      /\ \A c \in Catalogs : Get(k, j) # GetBatch(c)
  BY <1>3, Sorted
<1>5. def # None
  BY <1>1, NoneIsNew
<1> QED
  BY <1>1, <1>2, <1>3, <1>4, <1>5 DEF Stores

LEMMA StoresCached ==
  ASSUME NEW s, NEW t, NEW cam, NEW k, NEW j, NEW def, Sound(s, cam),
         Stores(s, t, cam, k, j, def), Cached(s, cam)
  PROVE  Cached(t, cam)
<1>1. /\ s.queue \in Seq(Requests) /\ k \in Keys
      /\ t.values[k] = def.value
      /\ \A x \in Keys \ {k} : t.values[x] = s.values[x]
  BY StoresFacts
<1>2. ASSUME NEW x \in Keys \ t.suspect PROVE CachedAt(t, cam, x)
  <2>1. CASE x = k
    BY <1>1, <1>2, <2>1 DEF Stores, CachedAt
  <2>2. CASE x # k
    <3>1. CachedAt(s, cam, x)
      BY <1>2, <2>2 DEF Cached, Stores
    <3>2. Head(s.queue) \notin ReadsOf(x)
      BY <2>2 DEF Stores, ReadsOf, Get, GetBatch
    <3>3. s.queue # <<>> /\ t.queue = Tail(s.queue)
      BY DEF Stores
    <3> QED
      BY <1>1, <2>2, <3>1, <3>2, <3>3, PopsCached
  <2> QED
    BY <2>1, <2>2
<1> QED
  BY <1>2 DEF Cached

\* The part of Settling that does not depend on what the series has read, when
\* the head of the queue was the read of a key.
LEMMA GetSettling ==
  ASSUME NEW s, NEW t, NEW cam, NEW h \in Requests, s.queue \in Seq(Requests), s.queue # <<>>,
         Head(s.queue) = h, NEW x \in Keys, h \notin SetsOf(x), t.queue = Tail(s.queue),
         t.catalog = s.catalog, t.owed = s.owed, t.rows = s.rows, Settling(s, cam, x),
         \A i \in 1..Len(t.queue) : t.queue[i] \in Fixes(s, x) <=> t.queue[i] \in Fixes(t, x)
  PROVE  /\ t.owed[t.catalog] = 0 /\ t.rows[x] # None => Shown(t, cam, x)
         /\ t.owed[t.catalog] > 0 => Followed(t.queue, SetsOf(x), Fixes(t, x))
<1> DEFINE W == SetsOf(x)
           F == Fixes(s, x)
<1>1. Number(t.queue, W) = Number(s.queue, W)
  <2>1. Number(t.queue, W) = Number(s.queue, W) - 0 /\ Number(s.queue, W) \in Nat
    BY NumberTail, PlacesFinite
  <2> QED
    BY <2>1
<1>2. ASSUME t.owed[t.catalog] = 0, t.rows[x] # None PROVE Shown(t, cam, x)
  <2>1. Shown(s, cam, x)
    BY <1>2 DEF Settling
  <2>2. CASE Number(s.queue, W) = 0
    BY <1>1, <2>1, <2>2 DEF Shown
  <2>3. CASE Number(s.queue, W) # 0
    <3>1. LastIs(s.queue, W, Set(x, s.rows[x]))
      BY <2>1, <2>3 DEF Shown
    <3>2. LastIs(t.queue, W, Set(x, s.rows[x]))
      BY <1>1, <2>3, <3>1, LastTail
    <3> QED
      BY <1>1, <2>3, <3>2 DEF Shown
  <2> QED
    BY <2>2, <2>3
<1>3. ASSUME t.owed[t.catalog] > 0 PROVE Followed(t.queue, W, Fixes(t, x))
  <2>1. Followed(s.queue, W, F)
    BY <1>3 DEF Settling
  <2>2. Followed(t.queue, W, F)
    BY <2>1, FollowedTail
  <2> QED
    BY <2>2, FollowedBy
<1> QED
  BY <1>2, <1>3

LEMMA GetFixes ==
  ASSUME NEW s, NEW t, s.queue \in Seq(Requests), s.queue # <<>>, NEW x,
         Head(s.queue) \notin Fixes(s, x), t.queue = Tail(s.queue),
         \A i \in 1..Len(t.queue) : t.queue[i] \in Fixes(s, x) <=> t.queue[i] \in Fixes(t, x),
         Number(t.queue, Fixes(t, x)) = 0
  PROVE  Number(s.queue, Fixes(s, x)) = 0
<1>1. Number(t.queue, Fixes(s, x)) = 0
  BY SamePlaces
<1>2. /\ Number(t.queue, Fixes(s, x)) = Number(s.queue, Fixes(s, x)) - 0
      /\ Number(s.queue, Fixes(s, x)) \in Nat
  BY NumberTail, PlacesFinite
<1> QED
  BY <1>1, <1>2

\* The key was read by the preset panel.
LEMMA StoresAlone ==
  ASSUME NEW s, NEW t, NEW cam, NEW k, NEW def, Sound(s, cam), Stores(s, t, cam, k, 0, def),
         Settled(s, cam)
  PROVE  Sound(t, cam) /\ Settled(t, cam)
<1>1. /\ Get(k, 0).op = "get" /\ Get(k, 0).job = 0 /\ s.catalog \in Catalogs
      /\ \A x \in Keys : Get(k, 0) \notin SetsOf(x)
      /\ Get(k, 0) # GetBatch(s.catalog)
      /\ \A x \in Keys \ {k} : t.defs[x] = s.defs[x]
      /\ t.defs[k] = def /\ def # None
  BY StoresFacts
<1>2. Pops(s, t)
  BY <1>1 DEF Stores, Pops
<1>3. Head(s.queue) = Get(k, 0)
  BY DEF Stores
<1>4. Sound(t, cam)
  BY <1>1, <1>2, <1>3, PopsDue
<1>5. ASSUME t.open, NEW x \in KeysOf(t.catalog) \ t.lag PROVE Settling(t, cam, x)
  <2>1. x \in Keys /\ Settling(s, cam, x)
    BY <1>1, <1>5, CatalogKeys DEF Stores, Settled
  <2>2. t.defs[x] = s.defs[x] \/ (t.defs[x] # None /\ t.defs[x].value = cam[x])
    BY <1>1, <1>5, <2>1 DEF Stores
  <2> QED
    BY <1>1, <1>2, <1>3, <2>1, <2>2, PopsSettling
<1> QED
  BY <1>4, <1>5 DEF Settled

\* The key was read for a series, whose job was e.jobs[j] and becomes J.
Advances(s, t, m, cam, k, j, def, J) ==
  /\ Stores(s, m, cam, k, j, def)
  /\ j \in Jobs /\ J \in Job
  /\ t \in Engine /\ t.jobs = [s.jobs EXCEPT ![j] = J]
  /\ t.open = m.open /\ t.queue = m.queue /\ t.values = m.values /\ t.defs = m.defs
  /\ t.groupKeys = m.groupKeys /\ t.catalog = m.catalog /\ t.rows = m.rows /\ t.owed = m.owed
  /\ t.suspect = m.suspect /\ t.lag = m.lag
  /\ J.pending = s.jobs[j].pending - 1
  /\ J.pending > 0 =>
       J.catalog = s.jobs[j].catalog /\ J.ok \subseteq s.jobs[j].ok \cup {k}

Advanced(s, t, k, j, J) ==
  /\ s.queue \in Seq(Requests) /\ t.queue = Tail(s.queue) /\ t.queue \in Seq(Requests)
  /\ s.queue # <<>> /\ Head(s.queue) = Get(k, j) /\ k \in Keys /\ j \in Jobs
  /\ t.jobs[j] = J /\ \A x \in Jobs \ {j} : t.jobs[x] = s.jobs[x]
  /\ \A x \in Jobs \ {j} : s.jobs[x].pending > 0 => s.jobs[x].ok = {}
  /\ s.jobs[j].pending \in Nat /\ s.jobs[j].pending > 0
  /\ Number(t.queue, JobGets(j)) = s.jobs[j].pending - 1
  /\ s.jobs[j].catalog \in Catalogs
  /\ k \in RangeOf(Schema[s.jobs[j].catalog])
  /\ s.jobs[j].ok \subseteq RangeOf(Schema[s.jobs[j].catalog])
  /\ \A x \in Jobs \ {j} : Number(t.queue, JobGets(x)) = s.jobs[x].pending
  /\ \A c \in Catalogs : Number(t.queue, {GetBatch(c)}) = Number(s.queue, {GetBatch(c)})

LEMMA AdvancesFacts ==
  ASSUME NEW s, NEW t, NEW m, NEW cam, NEW k, NEW j, NEW def, NEW J, Sound(s, cam),
         Advances(s, t, m, cam, k, j, def, J)
  PROVE  Advanced(s, t, k, j, J)
<1>0. Stores(s, m, cam, k, j, def) /\ j \in Jobs
  BY DEF Advances
<1>1. /\ s.queue \in Seq(Requests) /\ Tail(s.queue) \in Seq(Requests) /\ k \in Keys
      /\ Get(k, j) \in Requests /\ Get(k, j).arg = k
      /\ \A x \in Jobs : Get(k, j) \in JobGets(x) <=> x = j
      /\ \A c \in Catalogs : Get(k, j) # GetBatch(c)
  BY <1>0, StoresFacts
<1>2. s.queue # <<>> /\ Head(s.queue) = Get(k, j) /\ t.queue = Tail(s.queue)
  BY DEF Advances, Stores
<1>3. t.jobs[j] = J /\ \A x \in Jobs \ {j} : t.jobs[x] = s.jobs[x]
  <2>1. s.jobs \in [Jobs -> Job]
    BY DEF Sound, Typed, Engine
  <2> QED
    BY <1>0, <2>1 DEF Advances
<1>4. \A x \in Jobs \ {j} : s.jobs[x].pending > 0 => s.jobs[x].ok = {}
  BY <1>1, <1>2 DEF Sound, InOrder
<1>5. \A x \in Jobs : s.jobs[x].pending = Number(s.queue, JobGets(x)) /\ s.jobs[x].pending \in Nat
  BY <1>1, PlacesFinite DEF Sound, Accounted
<1>6. /\ Number(t.queue, JobGets(j)) = s.jobs[j].pending - 1
      /\ Number(t.queue, JobGets(j)) \in Nat
  BY <1>0, <1>1, <1>2, <1>5, NumberTail, PlacesFinite
<1>7. ASSUME NEW x \in Jobs \ {j} PROVE Number(t.queue, JobGets(x)) = s.jobs[x].pending
  <2>1. Get(k, j) \notin JobGets(x)
    BY <1>0, <1>1
  <2>2. Number(t.queue, JobGets(x)) = Number(s.queue, JobGets(x)) - 0
    BY <1>1, <1>2, <2>1, NumberTail
  <2> QED
    BY <1>5, <2>2
<1>8. ASSUME NEW c \in Catalogs
      PROVE  Number(t.queue, {GetBatch(c)}) = Number(s.queue, {GetBatch(c)})
  <2>1. Number(t.queue, {GetBatch(c)}) = Number(s.queue, {GetBatch(c)}) - 0
    BY <1>1, <1>2, NumberTail
  <2>2. Number(s.queue, {GetBatch(c)}) \in Nat
    BY <1>1, PlacesFinite
  <2> QED
    BY <2>1, <2>2
<1>9. s.jobs[j].pending \in Nat /\ s.jobs[j].pending > 0
  BY <1>0, <1>5, <1>6
<1>10. /\ s.jobs[j].catalog \in Catalogs
       /\ s.jobs[j].ok \subseteq RangeOf(Schema[s.jobs[j].catalog])
       /\ k \in RangeOf(Schema[s.jobs[j].catalog])
  <2>1. 1 \in 1..Len(s.queue) /\ s.queue[1] = Get(k, j)
    BY <1>1, <1>2, TailAt
  <2>2. s.queue[1] \in JobGets(j) /\ s.queue[1].arg = k
    BY <1>0, <1>1, <2>1
  <2> QED
    BY <1>0, <1>9, <2>1, <2>2 DEF Sound, Belongs
<1> QED
  BY <1>0, <1>1, <1>2, <1>3, <1>4, <1>6, <1>7, <1>8, <1>9, <1>10 DEF Advanced

\* Everything but the number of group reads that are owed.
LEMMA AdvancesShape ==
  ASSUME NEW s, NEW t, NEW m, NEW cam, NEW k, NEW j, NEW def, NEW J, Sound(s, cam),
         Advances(s, t, m, cam, k, j, def, J)
  PROVE  /\ Typed(t, cam) /\ Belongs(t) /\ InOrder(t) /\ Painted(t)
         /\ \A x \in Jobs : t.jobs[x].pending = Number(t.queue, JobGets(x))
<1>1. /\ s.queue \in Seq(Requests) /\ t.queue = Tail(s.queue) /\ t.queue \in Seq(Requests)
      /\ s.queue # <<>> /\ Head(s.queue) = Get(k, j) /\ k \in Keys /\ j \in Jobs
      /\ t.jobs[j] = J /\ \A x \in Jobs \ {j} : t.jobs[x] = s.jobs[x]
      /\ \A x \in Jobs \ {j} : s.jobs[x].pending > 0 => s.jobs[x].ok = {}
      /\ s.jobs[j].pending \in Nat /\ s.jobs[j].pending > 0
      /\ Number(t.queue, JobGets(j)) = s.jobs[j].pending - 1
      /\ s.jobs[j].catalog \in Catalogs
      /\ k \in RangeOf(Schema[s.jobs[j].catalog])
      /\ s.jobs[j].ok \subseteq RangeOf(Schema[s.jobs[j].catalog])
      /\ \A x \in Jobs \ {j} : Number(t.queue, JobGets(x)) = s.jobs[x].pending
  <2>1. Advanced(s, t, k, j, J)
    BY AdvancesFacts
  <2> QED
    BY <2>1 DEF Advanced
<1>2. /\ t \in Engine /\ J.pending = s.jobs[j].pending - 1
      /\ J.pending > 0 => J.catalog = s.jobs[j].catalog /\ J.ok \subseteq s.jobs[j].ok \cup {k}
      /\ t.groupKeys = s.groupKeys /\ t.catalog = s.catalog /\ t.rows = s.rows
  BY DEF Advances, Stores
<1>3. Typed(t, cam)
  BY <1>2 DEF Sound, Typed
<1>4. \A x \in Jobs : t.jobs[x].pending = Number(t.queue, JobGets(x))
  BY <1>1, <1>2
<1>5. Belongs(t)
  <2>1. Belongs(s)
    BY DEF Sound
  <2>2. ASSUME NEW x \in Jobs, t.jobs[x].pending > 0
        PROVE  /\ t.jobs[x].catalog \in Catalogs
               /\ t.jobs[x].ok \subseteq RangeOf(Schema[t.jobs[x].catalog])
    <3>1. CASE x = j
      BY <1>1, <1>2, <2>2, <3>1
    <3>2. CASE x # j
      BY <1>1, <2>1, <2>2, <3>2 DEF Belongs
    <3> QED
      BY <3>1, <3>2
  <2>3. ASSUME NEW x \in Jobs, NEW i \in 1..Len(t.queue), t.queue[i] \in JobGets(x)
        PROVE  t.queue[i].arg \in RangeOf(Schema[t.jobs[x].catalog])
    <3>1. i + 1 \in 1..Len(s.queue) /\ t.queue[i] = s.queue[i + 1]
      BY <1>1, TailAt
    <3>2. t.queue[i].arg \in RangeOf(Schema[s.jobs[x].catalog])
      BY <2>1, <2>3, <3>1 DEF Belongs
    <3>3. t.jobs[x].catalog = s.jobs[x].catalog
      <4>1. CASE x = j
        <5>1. Number(t.queue, JobGets(x)) # 0
          BY <1>1, <2>3, NumberAll
        <5>2. J.pending > 0
          BY <1>1, <1>2, <4>1, <5>1
        <5> QED
          BY <1>1, <1>2, <4>1, <5>2
      <4>2. CASE x # j
        BY <1>1, <4>2
      <4> QED
        BY <4>1, <4>2
    <3> QED
      BY <3>2, <3>3
  <2> QED
    BY <1>2, <2>1, <2>2, <2>3 DEF Belongs
<1>6. InOrder(t)
  <2>1. ASSUME NEW x \in Jobs
        PROVE  /\ Contiguous(t.queue, JobGets(x))
               /\ t.jobs[x].pending > 0 =>
                    \/ t.jobs[x].ok = {}
                    \/ t.queue # <<>> /\ Head(t.queue) \in JobGets(x)
    <3>1. Contiguous(s.queue, JobGets(x))
      BY DEF Sound, InOrder
    <3>2. /\ Contiguous(t.queue, JobGets(x))
          /\ Head(s.queue) \in JobGets(x) /\ Number(t.queue, JobGets(x)) > 0 =>
               t.queue # <<>> /\ Head(t.queue) \in JobGets(x)
      BY <1>1, <3>1, ContiguousTail
    <3>3. CASE x = j
      <4>1. Head(s.queue) \in JobGets(x)
        BY <1>1, <3>3 DEF JobGets
      <4> QED
        BY <1>4, <3>2, <4>1
    <3>4. CASE x # j
      BY <1>1, <3>2, <3>4
    <3> QED
      BY <3>3, <3>4
  <2> QED
    BY <2>1 DEF InOrder
<1>7. Painted(t)
  BY <1>2 DEF Sound, Painted
<1> QED
  BY <1>3, <1>4, <1>5, <1>6, <1>7

\* What is behind the head fixes a row after the step if it did before.
LEMMA AdvancesFixes ==
  ASSUME NEW s, NEW t, NEW m, NEW cam, NEW k, NEW j, NEW def, NEW J, Sound(s, cam),
         Advances(s, t, m, cam, k, j, def, J), NEW x
  PROVE  \A i \in 1..Len(t.queue) : t.queue[i] \in Fixes(s, x) <=> t.queue[i] \in Fixes(t, x)
<1>1. /\ t.queue \in Seq(Requests) /\ j \in Jobs
      /\ t.jobs[j] = J /\ \A y \in Jobs \ {j} : t.jobs[y] = s.jobs[y]
      /\ Number(t.queue, JobGets(j)) = s.jobs[j].pending - 1
      /\ s.jobs[j].pending \in Nat /\ s.jobs[j].pending > 0
  <2>1. Advanced(s, t, k, j, J)
    BY AdvancesFacts
  <2> QED
    BY <2>1 DEF Advanced
<1>2. /\ J.pending = s.jobs[j].pending - 1
      /\ J.pending > 0 => J.catalog = s.jobs[j].catalog
      /\ t.catalog = s.catalog
  BY DEF Advances, Stores
<1>3. CASE J.pending > 0
  <2>1. \A y \in Jobs : t.jobs[y].catalog = s.jobs[y].catalog
    BY <1>1, <1>2, <1>3
  <2> QED
    BY <1>2, <2>1 DEF Fixes
<1>4. CASE ~(J.pending > 0)
  <2>1. Number(t.queue, JobGets(j)) = 0
    BY <1>1, <1>2, <1>4
  <2>2. \A i \in 1..Len(t.queue) : t.queue[i] \in Requests /\ t.queue[i] \notin JobGets(j)
    BY <1>1, <2>1, NumberAll
  <2>3. ASSUME NEW i \in 1..Len(t.queue)
        PROVE  t.queue[i] \in Fixes(s, x) <=> t.queue[i] \in Fixes(t, x)
    <3>1. t.queue[i] \in Requests /\ ~(t.queue[i].op = "get" /\ t.queue[i].job = j)
      BY <1>1, <2>2, Sorted
    <3> QED
      BY <1>1, <1>2, <3>1 DEF Fixes
  <2> QED
    BY <2>3
<1> QED
  BY <1>3, <1>4

\* What the series has read of a key is right if nothing else will fix its row.
LEMMA AdvancesRight ==
  ASSUME NEW s, NEW t, NEW m, NEW cam, NEW k, NEW j, NEW def, NEW J, Sound(s, cam),
         Advances(s, t, m, cam, k, j, def, J), NEW x \in Keys, Settling(s, cam, x),
         x \notin t.lag, Number(t.queue, Fixes(t, x)) = 0,
         s.jobs[j].catalog = s.catalog, x \in s.jobs[j].ok \cup {k}
  PROVE  t.defs[x] # None /\ t.defs[x].value = cam[x]
<1>0. Stores(s, m, cam, k, j, def) /\ t.defs = m.defs /\ t.lag = m.lag
  BY DEF Advances
<1>1. /\ s.queue \in Seq(Requests) /\ t.queue = Tail(s.queue)
      /\ s.queue # <<>> /\ Head(s.queue) = Get(k, j) /\ j \in Jobs
      /\ s.jobs[j].pending > 0
      /\ s.jobs[j].ok \subseteq RangeOf(Schema[s.jobs[j].catalog])
  <2>1. Advanced(s, t, k, j, J)
    BY AdvancesFacts
  <2> QED
    BY <2>1 DEF Advanced
<1>2. /\ Get(k, j) \in Requests /\ Get(k, j).op = "get" /\ Get(k, j).arg = k /\ Get(k, j).job = j
      /\ Get(k, j) \notin SetsOf(x) /\ s.catalog \in Catalogs
      /\ Get(k, j) # GetBatch(s.catalog)
      /\ m.defs[k] = def /\ def # None
      /\ x # k => m.defs[x] = s.defs[x]
  BY <1>0, StoresFacts
<1>3. CASE x = k
  <2>1. def.value = cam[k]
    BY <1>0, <1>3 DEF Stores
  <2> QED
    BY <1>0, <1>2, <1>3, <2>1
<1>4. CASE x # k
  <2>1. x \in s.jobs[j].ok /\ x \in RangeOf(Schema[s.catalog])
    BY <1>1, <1>4
  <2>2. Get(k, j) \notin Fixes(s, x)
    BY <1>2, <1>4, <2>1 DEF Fixes
  <2>3. \A i \in 1..Len(t.queue) : t.queue[i] \in Fixes(s, x) <=> t.queue[i] \in Fixes(t, x)
    BY AdvancesFixes
  <2>5. Number(s.queue, Fixes(s, x)) = 0
    BY <1>1, <2>2, <2>3, GetFixes
  <2>6. j \in Running(s, s.catalog)
    BY <1>1 DEF Running
  <2> QED
    BY <1>0, <1>2, <1>4, <2>1, <2>5, <2>6 DEF Settling, ReadRight
<1> QED
  BY <1>3, <1>4

LEMMA AdvancesSettling ==
  ASSUME NEW s, NEW t, NEW m, NEW cam, NEW k, NEW j, NEW def, NEW J, Sound(s, cam),
         Advances(s, t, m, cam, k, j, def, J), NEW x \in Keys, Settling(s, cam, x), x \notin t.lag
  PROVE  Settling(t, cam, x)
<1>1. /\ s.queue \in Seq(Requests) /\ t.queue = Tail(s.queue)
      /\ s.queue # <<>> /\ Head(s.queue) = Get(k, j) /\ j \in Jobs
      /\ t.jobs[j] = J /\ \A y \in Jobs \ {j} : t.jobs[y] = s.jobs[y]
      /\ \A y \in Jobs \ {j} : s.jobs[y].pending > 0 => s.jobs[y].ok = {}
  <2>1. Advanced(s, t, k, j, J)
    BY AdvancesFacts
  <2> QED
    BY <2>1 DEF Advanced
<1>2. Get(k, j) \in Requests /\ Get(k, j) \notin SetsOf(x)
  <2>1. Stores(s, m, cam, k, j, def)
    BY DEF Advances
  <2> QED
    BY <2>1, StoresFacts
<1>3. \A i \in 1..Len(t.queue) : t.queue[i] \in Fixes(s, x) <=> t.queue[i] \in Fixes(t, x)
  BY AdvancesFixes
<1>4. /\ t.catalog = s.catalog /\ t.owed = s.owed /\ t.rows = s.rows
      /\ J.pending > 0 => J.catalog = s.jobs[j].catalog /\ J.ok \subseteq s.jobs[j].ok \cup {k}
  BY DEF Advances, Stores
<1>5. /\ t.owed[t.catalog] = 0 /\ t.rows[x] # None => Shown(t, cam, x)
      /\ t.owed[t.catalog] > 0 => Followed(t.queue, SetsOf(x), Fixes(t, x))
  BY <1>1, <1>2, <1>3, <1>4, GetSettling
<1>6. ASSUME Number(t.queue, Fixes(t, x)) = 0, NEW i \in Running(t, t.catalog), x \in t.jobs[i].ok
      PROVE  t.defs[x] # None /\ t.defs[x].value = cam[x]
  <2>1. i \in Jobs /\ t.jobs[i].pending > 0 /\ t.jobs[i].catalog = t.catalog
    BY DEF Running
  <2>2. i = j
    BY <1>1, <1>6, <2>1
  <2>3. s.jobs[j].catalog = s.catalog /\ x \in s.jobs[j].ok \cup {k}
    BY <1>1, <1>4, <1>6, <2>1, <2>2
  <2> QED
    BY <1>6, <2>3, AdvancesRight
<1> QED
  BY <1>5, <1>6 DEF Settling, ReadRight

\* The series goes on.
LEMMA AdvancesOn ==
  ASSUME NEW s, NEW t, NEW m, NEW cam, NEW k, NEW j, NEW def, NEW J, Sound(s, cam),
         Advances(s, t, m, cam, k, j, def, J), J.pending > 0, Settled(s, cam)
  PROVE  Sound(t, cam) /\ Settled(t, cam)
<1>1. /\ t.jobs[j] = J /\ j \in Jobs /\ \A y \in Jobs \ {j} : t.jobs[y] = s.jobs[y]
      /\ s.jobs[j].pending > 0
      /\ \A c \in Catalogs : Number(t.queue, {GetBatch(c)}) = Number(s.queue, {GetBatch(c)})
  <2>1. Advanced(s, t, k, j, J)
    BY AdvancesFacts
  <2> QED
    BY <2>1 DEF Advanced
<1>2. /\ t.catalog = s.catalog /\ t.owed = s.owed /\ t.open = s.open /\ s.lag \subseteq t.lag
      /\ J.catalog = s.jobs[j].catalog
  BY DEF Advances, Stores
<1>3. \A c : Running(t, c) = Running(s, c)
  BY <1>1, <1>2 DEF Running
<1>4. Sound(t, cam)
  <2>1. \A c \in Catalogs :
          t.owed[c] = Number(t.queue, {GetBatch(c)}) + Cardinality(Running(t, c))
    BY <1>1, <1>2, <1>3 DEF Sound, Accounted
  <2> QED
    BY <2>1, AdvancesShape DEF Sound, Accounted
<1>5. ASSUME t.open, NEW x \in KeysOf(t.catalog) \ t.lag PROVE Settling(t, cam, x)
  <2>1. s.catalog \in Catalogs
    BY DEF Sound, Typed, Engine
  <2>2. x \in Keys /\ Settling(s, cam, x)
    BY <1>2, <1>5, <2>1, CatalogKeys DEF Settled
  <2> QED
    BY <2>2, <1>5, AdvancesSettling
<1> QED
  BY <1>4, <1>5 DEF Settled

\* The series has ended, and its group is announced with the keys that the
\* camera supports.
LEMMA AdvancesLast ==
  ASSUME NEW s, NEW u, NEW m, NEW cam, NEW k, NEW j, NEW def, Sound(s, cam),
         Advances(s, u, m, cam, k, j, def, NoJob), Settled(s, cam),
         NEW ok, ok \subseteq s.jobs[j].ok \cup {k}, NEW t, t = GroupRead(u, s.jobs[j].catalog, ok)
  PROVE  Sound(t, cam) /\ Settled(t, cam)
<1> DEFINE c == s.jobs[j].catalog
<1>1. /\ s.queue \in Seq(Requests) /\ u.queue = Tail(s.queue) /\ u.queue \in Seq(Requests)
      /\ s.queue # <<>> /\ Head(s.queue) = Get(k, j) /\ k \in Keys /\ j \in Jobs
      /\ u.jobs[j] = NoJob /\ \A x \in Jobs \ {j} : u.jobs[x] = s.jobs[x]
      /\ s.jobs[j].pending > 0
      /\ c \in Catalogs /\ k \in RangeOf(Schema[c]) /\ s.jobs[j].ok \subseteq RangeOf(Schema[c])
      /\ \A d \in Catalogs : Number(u.queue, {GetBatch(d)}) = Number(s.queue, {GetBatch(d)})
  <2>1. Advanced(s, u, k, j, NoJob)
    BY AdvancesFacts
  <2> QED
    BY <2>1 DEF Advanced
<1>2. /\ u.catalog = s.catalog /\ u.owed = s.owed /\ u.open = s.open /\ s.lag \subseteq u.lag
      /\ u.rows = s.rows /\ u \in Engine
  BY DEF Advances, Stores
<1> HIDE DEF c
<1>3. ok \subseteq KeysOf(c) /\ ok \subseteq Keys
  BY <1>1, CatalogKeys DEF KeysOf, c
<1>4. Due(u, cam, c)
  <2>1. ASSUME NEW d \in Catalogs
        PROVE  u.owed[d] = Number(u.queue, {GetBatch(d)}) + Cardinality(Running(u, d))
                             + IF d = c THEN 1 ELSE 0
    <3>1. s.owed[d] = Number(s.queue, {GetBatch(d)}) + Cardinality(Running(s, d))
      BY DEF Sound, Accounted
    <3>2. Number(s.queue, {GetBatch(d)}) \in Nat /\ Cardinality(Running(s, d)) \in Nat
          /\ IsFiniteSet(Running(s, d))
      BY <1>1, PlacesFinite, RunningCounted
    <3>3. CASE d = c
      <4>1. j \in Running(s, d)
        BY <1>1, <3>3 DEF Running, c
      <4>2. Running(u, d) = Running(s, d) \ {j}
        BY <1>1 DEF Running, NoJob
      <4>3. Cardinality(Running(u, d)) = Cardinality(Running(s, d)) - 1
        BY <3>2, <4>1, <4>2, FS_RemoveElement
      <4>4. /\ Number(u.queue, {GetBatch(d)}) = Number(s.queue, {GetBatch(d)})
            /\ u.owed[d] = s.owed[d]
        BY <1>1, <1>2
      <4> QED
        BY <3>1, <3>2, <3>3, <4>3, <4>4
    <3>4. CASE d # c
      <4>1. Running(u, d) = Running(s, d)
        BY <1>1, <3>4 DEF Running, NoJob, c
      <4> QED
        BY <1>1, <1>2, <3>1, <3>2, <3>4, <4>1
    <3> QED
      BY <3>3, <3>4
  <2> QED
    BY <2>1, AdvancesShape DEF Due
<1>5. t = GroupRead(u, c, ok)
  BY DEF c
<1>6. Sound(t, cam)
  BY <1>1, <1>3, <1>4, <1>5, AnnouncedSound
<1>7. t.open = u.open /\ t.catalog = u.catalog /\ t.lag = u.lag
  <2>1. Announces(u, t, c, ok)
    BY <1>1, <1>2, <1>3, <1>5, Announced
  <2> QED
    BY <2>1 DEF Announces
<1>8. ASSUME t.open, NEW x \in KeysOf(t.catalog) \ t.lag PROVE Settling(t, cam, x)
  <2>1. s.catalog \in Catalogs
    BY DEF Sound, Typed, Engine
  <2>2. x \in Keys /\ Settling(s, cam, x) /\ x \notin u.lag
    BY <1>2, <1>7, <1>8, <2>1, CatalogKeys DEF Settled
  <2>3. Settling(u, cam, x)
    BY <2>2, AdvancesSettling
  <2>4. ReadRight(u, cam, x)
    BY <2>3 DEF Settling
  <2>5. ASSUME c = u.catalog
        PROVE  /\ Followed(u.queue, SetsOf(x), Fixes(u, x))
               /\ x \in ok /\ Number(u.queue, Fixes(u, x)) = 0 =>
                    (u.defs[x] # None => u.defs[x].value = cam[x])
    <3>1. u.owed[u.catalog] > 0
      <4>1. u.owed[c] = Number(u.queue, {GetBatch(c)}) + Cardinality(Running(u, c)) + 1
        BY <1>1, <1>4 DEF Due
      <4>2. Number(u.queue, {GetBatch(c)}) \in Nat /\ Cardinality(Running(u, c)) \in Nat
        BY <1>1, PlacesFinite, RunningCounted
      <4> QED
        BY <2>5, <4>1, <4>2
    <3>2. Followed(u.queue, SetsOf(x), Fixes(u, x))
      BY <2>3, <3>1 DEF Settling
    <3>3. ASSUME x \in ok, Number(u.queue, Fixes(u, x)) = 0
          PROVE  u.defs[x] # None /\ u.defs[x].value = cam[x]
      <4>1. s.jobs[j].catalog = s.catalog /\ x \in s.jobs[j].ok \cup {k}
        BY <1>2, <2>5, <3>3 DEF c
      <4> QED
        BY <2>2, <3>3, <4>1, AdvancesRight
    <3> QED
      BY <3>2, <3>3
  <2> QED
    BY <1>1, <1>3, <1>4, <1>5, <2>2, <2>3, <2>4, <2>5, AnnouncedSettling
<1> QED
  BY <1>6, <1>8 DEF Settled

LEMMA KeyDoneStep ==
  ASSUME Inv, NEW k, NEW j, NEW def, NEW m, Stores(e, m, camera, k, j, def),
         e' = KeyDone(m, k, def, j), camera' = camera
  PROVE  Inv'
<1>0. Sound(e, camera) /\ Cached(e, camera) /\ Settled(e, camera)
  BY DEF Inv
<1>1. Cached(m, camera)
  BY <1>0, StoresCached
<1>2. CASE j = 0
  <2>1. e' = m
    BY <1>2 DEF KeyDone
  <2>2. Sound(m, camera) /\ Settled(m, camera)
    BY <1>0, <1>2, StoresAlone
  <2> QED
    BY <1>1, <2>1, <2>2 DEF Inv
<1>3. CASE j # 0
  <2> DEFINE old == e.jobs[j]
             ok == IF def.supported THEN old.ok \cup {k} ELSE old.ok
  <2>1. /\ j \in Jobs /\ k \in Keys /\ m \in Engine /\ m.jobs = e.jobs
        /\ e.jobs \in [Jobs -> Job] /\ old \in Job
    BY <1>3 DEF Stores, Engine
  <2>2. ok \subseteq old.ok \cup {k} /\ ok \in SUBSET Keys /\ old.pending \in Int
    BY <2>1 DEF Job
  <2>3. CASE old.pending = 1
    <3> DEFINE u == [m EXCEPT !.jobs[j] = NoJob]
               M == [m.jobs EXCEPT ![j] = NoJob]
    <3>1. e' = GroupRead(u, old.catalog, ok)
      BY <1>3, <2>1, <2>3 DEF KeyDone
    <3>2. NoJob \in Job /\ NoJob.pending = 0
      BY DEF NoJob, Job
    <3>3. M \in [Jobs -> Job] /\ u = [m EXCEPT !.jobs = M]
      BY <2>1, <3>2
    <3> HIDE DEF u, M, ok
    <3>4. u \in Engine
      BY <2>1, <3>3 DEF Engine
    <3>5. /\ u.jobs = M /\ u.open = m.open /\ u.queue = m.queue /\ u.values = m.values
          /\ u.defs = m.defs /\ u.groupKeys = m.groupKeys /\ u.catalog = m.catalog
          /\ u.rows = m.rows /\ u.owed = m.owed /\ u.suspect = m.suspect /\ u.lag = m.lag
      BY <2>1, <3>3 DEF Engine
    <3>6. Advances(e, u, m, camera, k, j, def, NoJob)
      BY <2>1, <2>3, <3>2, <3>4, <3>5 DEF Advances, M
    <3>7. Sound(e', camera) /\ Settled(e', camera)
      BY <1>0, <2>2, <3>1, <3>6, AdvancesLast
    <3>8. e'.values = u.values /\ e'.queue = u.queue /\ e'.suspect = u.suspect
      <4>1. old.catalog \in Catalogs
        <5>1. Advanced(e, u, k, j, NoJob)
          BY <1>0, <3>6, AdvancesFacts
        <5> QED
          BY <5>1 DEF Advanced
      <4>2. Announces(u, e', old.catalog, ok)
        BY <2>2, <3>1, <3>4, <4>1, Announced
      <4> QED
        BY <4>2 DEF Announces
    <3>9. Cached(e', camera)
      BY <1>1, <3>5, <3>8 DEF Cached, CachedAt
    <3> QED
      BY <3>7, <3>9 DEF Inv
  <2>4. CASE old.pending # 1
    <3> DEFINE J == [old EXCEPT !.pending = @ - 1, !.ok = ok]
               M == [m.jobs EXCEPT ![j] = J]
    <3>1. e' = [m EXCEPT !.jobs[j].pending = @ - 1, !.jobs[j].ok = ok]
      BY <1>3, <2>1, <2>4 DEF KeyDone
    <3> HIDE DEF ok
    <3>2. J \in Job /\ J.pending = old.pending - 1 /\ J.catalog = old.catalog /\ J.ok = ok
      <4> DEFINE a == old.pending - 1
      <4>1. a \in Int /\ J = [old EXCEPT !.pending = a, !.ok = ok]
        BY <2>2
      <4>2. old \in Job
        BY <2>1
      <4> HIDE DEF a, J, old
      <4>3. J.pending = a /\ J.ok = ok /\ J.catalog = old.catalog
        BY <4>1, <4>2 DEF Job
      <4>4. J \in Job
        BY <2>2, <4>1, <4>2 DEF Job
      <4> QED
        BY <4>3, <4>4 DEF a
    <3>3. e' = [m EXCEPT !.jobs = M]
      <4>1. m.jobs \in [Jobs -> Job] /\ m.jobs[j] = old
        BY <2>1
      <4> QED
        BY <2>1, <3>1, <4>1 DEF Job, Engine
    <3> HIDE DEF J
    <3>4. M \in [Jobs -> Job]
      BY <2>1, <3>2
    <3> HIDE DEF M
    <3>5. e' \in Engine
      BY <2>1, <3>3, <3>4 DEF Engine
    <3>6. /\ e'.jobs = M /\ e'.open = m.open /\ e'.queue = m.queue /\ e'.values = m.values
          /\ e'.defs = m.defs /\ e'.groupKeys = m.groupKeys /\ e'.catalog = m.catalog
          /\ e'.rows = m.rows /\ e'.owed = m.owed /\ e'.suspect = m.suspect /\ e'.lag = m.lag
      BY <2>1, <3>3 DEF Engine
    <3>7. Advances(e, e', m, camera, k, j, def, J)
      BY <2>1, <2>2, <3>2, <3>5, <3>6 DEF Advances, M
    <3>8. J.pending > 0
      <4>1. Advanced(e, e', k, j, J)
        BY <1>0, <3>7, AdvancesFacts
      <4>2. old.pending \in Nat /\ old.pending > 0
        BY <4>1 DEF Advanced
      <4> QED
        BY <2>4, <3>2, <4>2
    <3>9. Sound(e', camera) /\ Settled(e', camera)
      BY <1>0, <3>7, <3>8, AdvancesOn
    <3>10. Cached(e', camera)
      BY <1>1, <3>6 DEF Cached, CachedAt
    <3> QED
      BY <3>9, <3>10 DEF Inv
  <2> QED
    BY <2>3, <2>4
<1> QED
  BY <1>2, <1>3

LEMMA AtGet ==
  ASSUME Inv, Answering("get"), NEW k, k = Head(e.queue).arg, NEW def \in Defs,
         NEW sus \in SUBSET Keys, NEW lag \in SUBSET Keys,
         e.lag \subseteq lag, e.suspect \ {k} \subseteq sus,
         def.value = camera[k] \/ (k \in lag /\ k \in sus),
         NEW m, m = [StoreKey(Popped, k, def) EXCEPT !.suspect = sus, !.lag = lag]
  PROVE  Stores(e, m, camera, k, Head(e.queue).job, def)
<1> DEFINE V == [e.values EXCEPT ![k] = def.value]
           D == [e.defs EXCEPT ![k] = def]
<1>1. /\ e \in Engine /\ e.queue # <<>>
      /\ Head(e.queue) \in Requests /\ Head(e.queue).op = "get"
      /\ Popped = [e EXCEPT !.queue = Tail(e.queue)] /\ Tail(e.queue) \in Seq(Requests)
  BY Answered
<1>2. k \in Keys /\ Head(e.queue).job \in {0} \cup Jobs /\ Head(e.queue) = Get(k, Head(e.queue).job)
  BY <1>1, Kinds
<1>3. m = [e EXCEPT !.queue = Tail(e.queue), !.values = V, !.defs = D, !.suspect = sus, !.lag = lag]
  <2>1. Popped.values = e.values /\ Popped.defs = e.defs
    BY <1>1 DEF Engine
  <2>2. StoreKey(Popped, k, def) = [Popped EXCEPT !.values = V, !.defs = D]
    BY <2>1 DEF StoreKey
  <2> HIDE DEF V, D
  <2> QED
    BY <1>1, <2>2 DEF Engine
<1>4. V \in [Keys -> Texts \cup {None}] /\ D \in [Keys -> Defs \cup {None}]
  <2>1. def.value \in Texts
    BY DEF Defs
  <2> QED
    BY <1>1, <2>1 DEF Engine
<1> HIDE DEF V, D
<1>5. m \in Engine
  BY <1>1, <1>3, <1>4 DEF Engine
<1>6. /\ m.queue = Tail(e.queue) /\ m.values = V /\ m.defs = D /\ m.suspect = sus /\ m.lag = lag
      /\ m.open = e.open /\ m.jobs = e.jobs /\ m.groupKeys = e.groupKeys
      /\ m.catalog = e.catalog /\ m.rows = e.rows /\ m.owed = e.owed
  BY <1>1, <1>3 DEF Engine
<1> QED
  BY <1>1, <1>2, <1>5, <1>6 DEF Stores, V, D

LEMMA GetAnsweredStep ==
  ASSUME Inv, GetAnswered
  PROVE  Inv'
<1> DEFINE k == Head(e.queue).arg
           j == Head(e.queue).job
           m == [StoreKey(Popped, k, Answer(k)) EXCEPT !.suspect = e.suspect \ {k}, !.lag = e.lag]
<1>1. /\ Answering("get") /\ camera' = camera
      /\ e' = KeyDone([StoreKey(Popped, k, Answer(k)) EXCEPT !.suspect = @ \ {k}], k, Answer(k), j)
  BY DEF GetAnswered
<1>2. /\ e \in Engine /\ Popped \in Engine /\ camera \in [Keys -> Texts]
      /\ Popped = [e EXCEPT !.queue = Tail(e.queue)]
      /\ Head(e.queue) \in Requests /\ Head(e.queue).op = "get"
  BY <1>1, Answered
<1>3. k \in Keys
  BY <1>2, Kinds
<1>4. Answer(k) \in Defs /\ Answer(k).value = camera[k]
  BY <1>2, <1>3, AnswerTyped
<1>5. [StoreKey(Popped, k, Answer(k)) EXCEPT !.suspect = @ \ {k}] = m
  <2>1. Popped.suspect = e.suspect /\ Popped.lag = e.lag
    BY <1>2 DEF Engine
  <2> QED
    BY <1>2, <2>1 DEF StoreKey, Engine
<1>6. e.suspect \ {k} \in SUBSET Keys /\ e.lag \in SUBSET Keys
  BY <1>2 DEF Engine
<1>7. Stores(e, m, camera, k, j, Answer(k))
  BY <1>1, <1>4, <1>6, AtGet
<1>8. e' = KeyDone(m, k, Answer(k), j)
  BY <1>1, <1>5
<1> HIDE DEF m, k, j
<1> QED
  BY <1>1, <1>7, <1>8, KeyDoneStep

LEMMA GetFailedStep ==
  ASSUME Inv, GetFailed
  PROVE  Inv'
<1> DEFINE k == Head(e.queue).arg
           j == Head(e.queue).job
           m == [StoreKey(Popped, k, NoAnswer) EXCEPT !.suspect = e.suspect \cup {k},
                                                      !.lag = e.lag \cup {k}]
<1>1. /\ Answering("get") /\ camera' = camera
      /\ e' = KeyDone([StoreKey(Popped, k, NoAnswer) EXCEPT !.suspect = @ \cup {k},
                                                            !.lag = @ \cup {k}], k, NoAnswer, j)
  BY DEF GetFailed
<1>2. /\ e \in Engine /\ Popped \in Engine /\ camera \in [Keys -> Texts]
      /\ Popped = [e EXCEPT !.queue = Tail(e.queue)]
      /\ Head(e.queue) \in Requests /\ Head(e.queue).op = "get"
  BY <1>1, Answered
<1>3. k \in Keys
  BY <1>2, Kinds
<1>4. NoAnswer \in Defs
  BY <1>2, <1>3, AnswerTyped
<1>5. [StoreKey(Popped, k, NoAnswer) EXCEPT !.suspect = @ \cup {k}, !.lag = @ \cup {k}] = m
  <2>1. Popped.suspect = e.suspect /\ Popped.lag = e.lag
    BY <1>2 DEF Engine
  <2> QED
    BY <1>2, <2>1 DEF StoreKey, Engine
<1>6. e.suspect \cup {k} \in SUBSET Keys /\ e.lag \cup {k} \in SUBSET Keys
  BY <1>2, <1>3 DEF Engine
<1>7. Stores(e, m, camera, k, j, NoAnswer)
  <2> DEFINE S == e.suspect \cup {k}
             L == e.lag \cup {k}
  <2>1. e.lag \subseteq L /\ e.suspect \ {k} \subseteq S /\ k \in L /\ k \in S
    OBVIOUS
  <2>2. m = [StoreKey(Popped, k, NoAnswer) EXCEPT !.suspect = S, !.lag = L]
    OBVIOUS
  <2> HIDE DEF S, L, m
  <2> QED
    BY <1>1, <1>4, <1>6, <2>1, <2>2, AtGet DEF S, L
<1>8. e' = KeyDone(m, k, NoAnswer, j)
  BY <1>1, <1>5
<1> HIDE DEF m, k, j
<1> QED
  BY <1>1, <1>7, <1>8, KeyDoneStep

------------------------------------------------------------------------------
(* Operators that append requests.                                         *)

LEMMA ReadGroupAsks ==
  ASSUME NEW s \in Engine, NEW c \in Catalogs, NEW t, t = ReadGroup(s, c)
  PROVE  /\ Asks(s, t, <<GetBatch(c)>>)
         /\ t.suspect = s.suspect /\ t.lag = s.lag \ KeysOf(c)
<1> DEFINE r == <<GetBatch(c)>>
           q == s.queue \o r
           O == [s.owed EXCEPT ![c] = s.owed[c] + 1]
           L == s.lag \ KeysOf(c)
<1>0. s.queue \in Seq(Requests) /\ s.owed \in [Catalogs -> Int] /\ s.lag \subseteq Keys
  BY DEF Engine
<1>1. GetBatch(c) \in Requests /\ GetBatch(c).op = "getbatch" /\ GetBatch(c).job = 0
  BY Made
<1>2. r \in Seq(Requests) /\ Append(s.queue, GetBatch(c)) = q /\ q \in Seq(Requests)
  BY <1>0, <1>1
<1>3. \A i \in 1..Len(r) : r[i].op # "set" /\ r[i].job = 0
  BY <1>1
<1>4. O \in [Catalogs -> Int] /\ L \subseteq Keys
  BY <1>0
<1>5. t = [s EXCEPT !.queue = q, !.owed = O, !.lag = L]
  BY <1>2 DEF ReadGroup
<1>6. \A d \in Catalogs : O[d] = s.owed[d] + Number(r, {GetBatch(d)})
  <2>1. ASSUME NEW d \in Catalogs PROVE O[d] = s.owed[d] + Number(r, {GetBatch(d)})
    <3>1. GetBatch(c) = GetBatch(d) <=> c = d
      BY DEF GetBatch
    <3>2. Number(r, {GetBatch(d)}) = IF GetBatch(c) \in {GetBatch(d)} THEN 1 ELSE 0
      BY NumberOne
    <3> QED
      BY <1>0, <3>1, <3>2
  <2> QED
    BY <2>1
<1> HIDE DEF r, q, O, L
<1>7. t \in Engine
  BY <1>2, <1>4, <1>5 DEF Engine
<1>8. /\ t.queue = q /\ t.owed = O /\ t.lag = L /\ t.suspect = s.suspect
      /\ t.open = s.open /\ t.jobs = s.jobs /\ t.values = s.values /\ t.defs = s.defs
      /\ t.groupKeys = s.groupKeys /\ t.catalog = s.catalog /\ t.rows = s.rows
  BY <1>5 DEF Engine
<1> QED
  BY <1>2, <1>3, <1>6, <1>7, <1>8 DEF Asks, r, q, L

\* The reads that follow a write.
Again(k) == [i \in 1..Len(Targets[k]) |-> GetBatch(Targets[k][i])]

LEMMA AgainFacts ==
  ASSUME NEW k \in Keys
  PROVE  /\ Again(k) \in Seq(Requests) /\ Len(Again(k)) = Len(Targets[k])
         /\ Len(Targets[k]) \in Nat
         /\ \A i \in 1..Len(Again(k)) :
              /\ Targets[k][i] \in Catalogs /\ Again(k)[i] = GetBatch(Targets[k][i])
              /\ Again(k)[i].op = "getbatch" /\ Again(k)[i].job = 0
<1>1. Targets[k] \in Seq(Catalogs) /\ Len(Targets[k]) \in Nat
      /\ \A i \in 1..Len(Targets[k]) : Targets[k][i] \in Catalogs
  BY SettingsShape
<1>2. \A i \in 1..Len(Targets[k]) : LET g == GetBatch(Targets[k][i])
        IN  g \in Requests /\ g.op = "getbatch" /\ g.job = 0
  BY <1>1, Made
<1>3. Again(k) \in Seq(Requests) /\ Len(Again(k)) = Len(Targets[k])
  BY <1>1, <1>2 DEF Again
<1>4. \A i \in 1..Len(Targets[k]) : Again(k)[i] = GetBatch(Targets[k][i])
  BY DEF Again
<1> QED
  BY <1>1, <1>2, <1>3, <1>4

LEMMA DependenciesAsk ==
  ASSUME NEW s \in Engine, NEW k \in Keys, NEW t, t = ApplyDependencies(s, k)
  PROVE  /\ Asks(s, t, Again(k))
         /\ t.suspect = s.suspect
         /\ t.lag = s.lag \ UNION {KeysOf(c) : c \in RangeOf(Targets[k])}
<1> DEFINE r == Again(k)
           q == s.queue \o r
           O == [c \in Catalogs |->
                  s.owed[c] + Cardinality({i \in 1..Len(Targets[k]) : Targets[k][i] = c})]
           L == s.lag \ UNION {KeysOf(c) : c \in RangeOf(Targets[k])}
<1>0. s.queue \in Seq(Requests) /\ s.owed \in [Catalogs -> Int] /\ s.lag \subseteq Keys
  BY DEF Engine
<1>1. /\ r \in Seq(Requests) /\ Len(r) = Len(Targets[k]) /\ Len(r) \in Nat
      /\ \A i \in 1..Len(r) : r[i] = GetBatch(Targets[k][i]) /\ r[i].op = "getbatch" /\ r[i].job = 0
  BY AgainFacts
<1>2. q \in Seq(Requests) /\ L \subseteq Keys
  BY <1>0, <1>1
<1>3. t = [s EXCEPT !.queue = q, !.owed = O, !.lag = L]
  BY DEF ApplyDependencies, Again
<1>4. ASSUME NEW c \in Catalogs
      PROVE  /\ Cardinality({i \in 1..Len(Targets[k]) : Targets[k][i] = c}) = Number(r, {GetBatch(c)})
             /\ Number(r, {GetBatch(c)}) \in Nat
  <2>1. Places(r, {GetBatch(c)}) = {i \in 1..Len(Targets[k]) : Targets[k][i] = c}
    <3>1. \A d : GetBatch(d) = GetBatch(c) <=> d = c
      BY DEF GetBatch
    <3>2. \A i \in 1..Len(r) : r[i] \in {GetBatch(c)} <=> Targets[k][i] = c
      BY <1>1, <3>1
    <3> HIDE DEF r
    <3> QED
      BY <1>1, <3>2 DEF Places
  <2>2. Number(r, {GetBatch(c)}) \in Nat
    BY <1>1, PlacesFinite
  <2> QED
    BY <2>1, <2>2 DEF Number
<1>5. O \in [Catalogs -> Int] /\ \A c \in Catalogs : O[c] = s.owed[c] + Number(r, {GetBatch(c)})
  <2>1. ASSUME NEW c \in Catalogs
        PROVE  O[c] = s.owed[c] + Number(r, {GetBatch(c)}) /\ O[c] \in Int
    <3>1. O[c] = s.owed[c] + Cardinality({i \in 1..Len(Targets[k]) : Targets[k][i] = c})
      OBVIOUS
    <3>2. s.owed[c] \in Int
      BY <1>0
    <3> DEFINE n == Cardinality({i \in 1..Len(Targets[k]) : Targets[k][i] = c})
    <3>3. n = Number(r, {GetBatch(c)}) /\ n \in Nat
      BY <1>4
    <3> HIDE DEF O, r, n
    <3>4. O[c] = s.owed[c] + n /\ O[c] \in Int
      BY <3>1, <3>2, <3>3 DEF n
    <3> QED
      BY <3>3, <3>4
  <2>2. O = [c \in Catalogs |-> O[c]]
    OBVIOUS
  <2> HIDE DEF O, r
  <2> QED
    BY <2>1, <2>2
<1> HIDE DEF r, q, O, L
<1>6. t \in Engine
  BY <1>2, <1>3, <1>5 DEF Engine
<1>7. /\ t.queue = q /\ t.owed = O /\ t.lag = L /\ t.suspect = s.suspect
      /\ t.open = s.open /\ t.jobs = s.jobs /\ t.values = s.values /\ t.defs = s.defs
      /\ t.groupKeys = s.groupKeys /\ t.catalog = s.catalog /\ t.rows = s.rows
  BY <1>3 DEF Engine
<1> QED
  BY <1>1, <1>5, <1>6, <1>7 DEF Asks, r, q, L

\* Requests that are no reads of a group.
LEMMA OthersAsk ==
  ASSUME NEW s \in Engine, NEW r \in Seq(Requests),
         \A i \in 1..Len(r) : r[i].op \in {"get", "info"} /\ r[i].job = 0,
         NEW t, t = [s EXCEPT !.queue = s.queue \o r]
  PROVE  Asks(s, t, r) /\ t.suspect = s.suspect /\ t.lag = s.lag
<1> DEFINE q == s.queue \o r
<1>0. q \in Seq(Requests) /\ s.owed \in [Catalogs -> Int]
  BY DEF Engine
<1> HIDE DEF q
<1>1. t \in Engine /\ t.queue = q
  BY <1>0 DEF Engine, q
<1>2. /\ t.owed = s.owed /\ t.lag = s.lag /\ t.suspect = s.suspect
      /\ t.open = s.open /\ t.jobs = s.jobs /\ t.values = s.values /\ t.defs = s.defs
      /\ t.groupKeys = s.groupKeys /\ t.catalog = s.catalog /\ t.rows = s.rows
  BY DEF Engine
<1>3. ASSUME NEW c \in Catalogs PROVE Number(r, {GetBatch(c)}) = 0
  <2>1. \A i \in 1..Len(r) : r[i] \notin {GetBatch(c)}
    BY DEF GetBatch
  <2> QED
    BY <2>1, NumberAll
<1>4. ASSUME NEW c \in Catalogs PROVE t.owed[c] = s.owed[c] + Number(r, {GetBatch(c)})
  <2> DEFINE n == Number(r, {GetBatch(c)})
  <2>1. n = 0
    BY <1>3
  <2>2. s.owed[c] \in Int /\ t.owed[c] = s.owed[c]
    BY <1>0, <1>2
  <2> HIDE DEF n
  <2>3. t.owed[c] = s.owed[c] + n
    BY <2>1, <2>2
  <2> QED
    BY <2>3 DEF n
<1>5. \A i \in 1..Len(r) : r[i].op # "set" /\ r[i].job = 0
  OBVIOUS
<1> QED
  BY <1>1, <1>2, <1>4, <1>5 DEF Asks, q

LEMMA PresetAsks ==
  ASSUME NEW s \in Engine, NEW t, t = PresetRefresh(s)
  PROVE  \E r : Asks(s, t, r) /\ t.suspect = s.suspect /\ t.lag = s.lag
<1> DEFINE r == [i \in 1..Len(PtzKeys) |-> Get(PtzKeys[i], 0)]
<1>1. PtzKeys \in Seq(Keys) /\ Len(PtzKeys) \in Nat
      /\ \A i \in 1..Len(PtzKeys) : PtzKeys[i] \in Keys
  BY SettingsShape
<1>2. \A i \in 1..Len(PtzKeys) : LET g == Get(PtzKeys[i], 0)
        IN  g \in Requests /\ g.op = "get" /\ g.job = 0
  BY <1>1, Made
<1>3. r \in Seq(Requests) /\ \A i \in 1..Len(r) : r[i].op \in {"get", "info"} /\ r[i].job = 0
  BY <1>1, <1>2
<1>4. t = [s EXCEPT !.queue = s.queue \o r]
  BY DEF PresetRefresh
<1> HIDE DEF r
<1> QED
  BY <1>3, <1>4, OthersAsk

\* The step from s to t appends requests and clears the marks of some rows:
\* those of groups that it reads.
LEMMA AsksAll ==
  ASSUME NEW s, NEW t, NEW r, NEW cam, Sound(s, cam), Asks(s, t, r), t.suspect = s.suspect,
         Cached(s, cam),
         \/ \E i \in 1..Len(r) : r[i] = GetBatch(s.catalog)
         \/ Settled(s, cam) /\ t.lag = s.lag
  PROVE  Sound(t, cam) /\ Cached(t, cam) /\ Settled(t, cam)
<1>1. Sound(t, cam)
  BY AsksSound
<1>2. Cached(t, cam)
  BY AsksCached DEF Cached
<1>3. ASSUME t.open, NEW k \in KeysOf(t.catalog) \ t.lag PROVE Settling(t, cam, k)
  <2>1. s.catalog \in Catalogs /\ t.catalog = s.catalog /\ t.open = s.open
    BY DEF Sound, Typed, Engine, Asks
  <2>2. k \in Keys
    BY <2>1, CatalogKeys
  <2>3. Settling(s, cam, k) \/ \E i \in 1..Len(r) : r[i] = GetBatch(s.catalog)
    BY <1>3, <2>1 DEF Settled
  <2> QED
    BY <2>2, <2>3, AsksSettling
<1> QED
  BY <1>1, <1>2, <1>3 DEF Settled

------------------------------------------------------------------------------
(* Replies to writes and to /info.                                         *)

\* The head of the queue is a write, and m is what follows at once from its
\* answer; cam is what the camera has then.
LEMMA AfterSet ==
  ASSUME Inv, NEW h \in Requests, Head(e.queue) = h, h.op \in {"set", "info"}, e.open,
         NEW m, Pops(e, m), NEW cam \in [Keys -> Texts], m.defs = e.defs
  PROVE  /\ Sound(m, cam)
         /\ \A x \in Keys \ e.suspect :
              cam[x] = camera[x] /\ m.values[x] = e.values[x] => CachedAt(m, cam, x)
         /\ \A x \in KeysOf(e.catalog) \ e.lag :
              cam[x] = camera[x] /\ h \notin SetsOf(x) => Settling(m, cam, x)
<1>1. /\ Sound(e, camera) /\ e.queue \in Seq(Requests) /\ e.queue # <<>> /\ e.catalog \in Catalogs
      /\ m.queue = Tail(e.queue)
  BY DEF Inv, Sound, Typed, Engine, Pops
<1>2. h.op # "getbatch" /\ h.op # "get"
  OBVIOUS
<1>3. Sound(m, camera)
  BY <1>1, <1>2, PopsDue
<1>4. Sound(m, cam)
  BY <1>3 DEF Sound, Typed
<1>5. ASSUME NEW x \in Keys \ e.suspect, cam[x] = camera[x], m.values[x] = e.values[x]
      PROVE  CachedAt(m, cam, x)
  <2>1. CachedAt(e, camera, x)
    BY DEF Inv, Cached
  <2>2. h \notin ReadsOf(x)
    BY <1>2 DEF ReadsOf, Get, GetBatch
  <2>3. CachedAt(m, camera, x)
    BY <1>1, <1>5, <2>1, <2>2, PopsCached
  <2> QED
    BY <1>5, <2>3 DEF CachedAt
<1>6. ASSUME NEW x \in KeysOf(e.catalog) \ e.lag, cam[x] = camera[x], h \notin SetsOf(x)
      PROVE  Settling(m, cam, x)
  <2>1. x \in Keys /\ Settling(e, camera, x)
    BY <1>1, CatalogKeys DEF Inv, Settled
  <2>2. h # GetBatch(e.catalog)
    BY <1>1, <1>2, Made
  <2>3. Settling(m, camera, x)
    BY <1>1, <1>6, <2>1, <2>2, PopsSettling
  <2> QED
    BY <1>6, <2>3 DEF Settling, Shown, ReadRight
<1> QED
  BY <1>4, <1>5, <1>6

\* The row of a key that was written and that nothing will build again.
LEMMA WrittenSettling ==
  ASSUME Inv, NEW k \in KeysOf(e.catalog) \ e.lag, NEW v \in Texts, Head(e.queue) = Set(k, v),
         e.open, NEW m, Pops(e, m), NEW cam, cam[k] = v
  PROVE  Settling(m, cam, k)
<1> DEFINE W == SetsOf(k)
           F == Fixes(e, k)
<1>1. /\ e.queue \in Seq(Requests) /\ e.catalog \in Catalogs
      /\ m.queue = Tail(e.queue) /\ e.queue # <<>>
      /\ m.jobs = e.jobs /\ m.catalog = e.catalog /\ m.rows = e.rows /\ m.owed = e.owed
  BY DEF Inv, Sound, Typed, Engine, Pops
<1>2. k \in Keys /\ Settling(e, camera, k)
  BY <1>1, CatalogKeys DEF Inv, Settled
<1>3. Set(k, v) \in W
  BY DEF SetsOf
<1>4. /\ \A j \in Jobs : Head(e.queue) \notin JobGets(j)
      /\ Fixes(m, k) = F
  BY PopsFacts DEF Inv
<1>5. ASSUME m.owed[m.catalog] = 0, m.rows[k] # None PROVE Shown(m, cam, k)
  <2>1. Shown(e, camera, k)
    BY <1>1, <1>2, <1>5 DEF Settling
  <2>2. 1 \in 1..Len(e.queue) /\ e.queue[1] \in W
    BY <1>1, <1>3, TailAt
  <2>3. Number(e.queue, W) # 0
    BY <1>1, <2>2, NumberAll
  <2>4. LastIs(e.queue, W, Set(k, e.rows[k]))
    BY <2>1, <2>3 DEF Shown
  <2>5. IF Number(m.queue, W) = 0 THEN Set(k, e.rows[k]) = Set(k, v)
                                  ELSE LastIs(m.queue, W, Set(k, e.rows[k]))
    BY <1>1, <2>4, LastTail
  <2>6. Set(k, e.rows[k]) = Set(k, v) => e.rows[k] = v
    BY DEF Set
  <2> QED
    BY <1>1, <2>5, <2>6 DEF Shown
<1>6. ASSUME m.owed[m.catalog] > 0 PROVE Followed(m.queue, W, Fixes(m, k))
  <2>1. Followed(e.queue, W, F)
    BY <1>1, <1>2, <1>6 DEF Settling
  <2> QED
    BY <1>1, <1>4, <2>1, FollowedTail
<1>7. ReadRight(m, cam, k)
  <2>1. \A j \in Running(m, m.catalog) : m.jobs[j].ok = {}
    BY <1>1, <1>4 DEF Inv, Sound, InOrder, Running
  <2> QED
    BY <2>1 DEF ReadRight
<1> QED
  BY <1>5, <1>6, <1>7 DEF Settling

\* The head of the queue is a write, and m differs from e as the answer says.
Replied(m, V, sus, lag) ==
  /\ Pops(e, m) /\ m \in Engine
  /\ m.values = V /\ m.suspect = sus /\ m.lag = lag /\ m.defs = e.defs
  /\ m.open = e.open /\ m.catalog = e.catalog

LEMMA AtSet ==
  ASSUME Inv, Answering("set"), NEW V \in [Keys -> Texts \cup {None}],
         NEW sus \in SUBSET Keys, NEW lag \in SUBSET Keys,
         NEW m, m = [e EXCEPT !.queue = Tail(e.queue), !.values = V, !.suspect = sus, !.lag = lag]
  PROVE  Replied(m, V, sus, lag)
<1>1. /\ e \in Engine /\ e.queue # <<>> /\ Head(e.queue) \in Requests
      /\ Head(e.queue).op = "set" /\ Tail(e.queue) \in Seq(Requests)
  BY Answered
<1>2. Head(e.queue).job = 0
  BY <1>1, Kinds
<1>3. m \in Engine
  BY <1>1 DEF Engine
<1>4. /\ m.queue = Tail(e.queue) /\ m.values = V /\ m.suspect = sus /\ m.lag = lag
      /\ m.defs = e.defs /\ m.open = e.open /\ m.jobs = e.jobs /\ m.groupKeys = e.groupKeys
      /\ m.catalog = e.catalog /\ m.rows = e.rows /\ m.owed = e.owed
  BY <1>1 DEF Engine
<1> QED
  BY <1>1, <1>2, <1>3, <1>4 DEF Pops, Replied

\* What the camera has after a write that it takes.
LEMMA Taken ==
  ASSUME camera \in [Keys -> Texts], NEW k \in Keys, NEW v \in Texts, Takes(k, v)
  PROVE  /\ camera' \in [Keys -> Texts] /\ camera'[k] = v
         /\ \A x \in Keys \ Coupled(k) : x # k => camera'[x] = camera[x]
<1>1. PICK new \in [Coupled(k) \ {k} -> Values] :
        camera' = [x \in Keys |-> IF x = k THEN v
                                  ELSE IF x \in DOMAIN new /\ camera[x] # Empty THEN new[x]
                                  ELSE camera[x]]
  BY DEF Takes
<1>2. DOMAIN new = Coupled(k) \ {k} /\ \A x \in Coupled(k) \ {k} : new[x] \in Values
  OBVIOUS
<1>3. Values \subseteq Texts
  BY DEF Texts
<1> QED
  BY <1>1, <1>2, <1>3

\* A key that a write may change is read again.
LEMMA CoupledRead ==
  ASSUME NEW k \in Keys, NEW x \in Coupled(k)
  PROVE  /\ \E i \in 1..Len(Again(k)) : Again(k)[i] \in ReadsOf(x)
         /\ \A c \in Catalogs : x \in KeysOf(c) => \E i \in 1..Len(Again(k)) : Again(k)[i] = GetBatch(c)
<1>1. PICK i \in 1..Len(Targets[k]) : x \in Reported[Targets[k][i]] \cap RangeOf(Schema[Targets[k][i]])
  BY DEF Coupled, RangeOf
<1>2. i \in 1..Len(Again(k)) /\ Targets[k][i] \in Catalogs /\ Again(k)[i] = GetBatch(Targets[k][i])
  BY AgainFacts
<1>3. Again(k)[i] \in ReadsOf(x)
  BY <1>1, <1>2 DEF ReadsOf
<1>4. ASSUME NEW c \in Catalogs, x \in KeysOf(c) PROVE c = Targets[k][i]
  BY <1>1, <1>2, <1>4, CatalogsDisjoint DEF KeysOf
<1> QED
  BY <1>2, <1>3, <1>4

\* Rows that a write unmarks are of groups that are read again.
LEMMA Unmarked ==
  ASSUME NEW k \in Keys, NEW c \in Catalogs, NEW x \in KeysOf(c),
         x \in UNION {KeysOf(d) : d \in RangeOf(Targets[k])}
  PROVE  \E i \in 1..Len(Again(k)) : Again(k)[i] = GetBatch(c)
<1>1. PICK i \in 1..Len(Targets[k]) : x \in KeysOf(Targets[k][i])
  BY DEF RangeOf
<1>2. i \in 1..Len(Again(k)) /\ Targets[k][i] \in Catalogs /\ Again(k)[i] = GetBatch(Targets[k][i])
  BY AgainFacts
<1>3. c = Targets[k][i]
  BY <1>1, <1>2, CatalogsDisjoint
<1> QED
  BY <1>2, <1>3

LEMMA SetTakenStep ==
  ASSUME Inv, SetTaken
  PROVE  Inv'
<1> DEFINE k == Head(e.queue).arg
           v == Head(e.queue).value
           V == [e.values EXCEPT ![k] = v]
           S == e.suspect \ {k}
           L == e.lag
           m == [e EXCEPT !.queue = Tail(e.queue), !.values = V, !.suspect = S, !.lag = L]
           r == Again(k)
<1>1. /\ Answering("set") /\ Takes(k, v)
      /\ e' = WriteDone([Popped EXCEPT !.suspect = @ \ {k}], k, v)
  BY DEF SetTaken
<1>2. /\ e \in Engine /\ e.open /\ e.queue \in Seq(Requests) /\ e.queue # <<>>
      /\ Head(e.queue) \in Requests /\ Head(e.queue).op = "set"
      /\ e.catalog \in Catalogs /\ camera \in [Keys -> Texts]
      /\ Popped = [e EXCEPT !.queue = Tail(e.queue)]
  BY <1>1, Answered
<1>3. k \in Keys /\ v \in Texts /\ Head(e.queue) = Set(k, v)
  BY <1>2, Kinds
<1>4. e' = ApplyDependencies(m, k)
  <2>1. [[Popped EXCEPT !.suspect = @ \ {k}] EXCEPT !.values[k] = v] = m
    BY <1>2 DEF Engine
  <2> QED
    BY <1>1, <2>1 DEF WriteDone
<1>5. V \in [Keys -> Texts \cup {None}] /\ S \in SUBSET Keys /\ L \in SUBSET Keys
      /\ V[k] = v /\ \A x \in Keys \ {k} : V[x] = e.values[x]
  BY <1>2, <1>3 DEF Engine, Texts
<1> HIDE DEF V, k, v, r
<1>6. /\ Pops(e, m) /\ m \in Engine
      /\ m.values = V /\ m.suspect = S /\ m.lag = L /\ m.defs = e.defs
      /\ m.open = e.open /\ m.catalog = e.catalog
  <2>1. m = [e EXCEPT !.queue = Tail(e.queue), !.values = V, !.suspect = S, !.lag = L]
    OBVIOUS
  <2> HIDE DEF m, S, L
  <2>2. Replied(m, V, S, L)
    BY <1>1, <1>5, <2>1, AtSet
  <2> QED
    BY <2>2 DEF Replied
<1> HIDE DEF m
<1>7. /\ camera' \in [Keys -> Texts] /\ camera'[k] = v
      /\ \A x \in Keys \ Coupled(k) : x # k => camera'[x] = camera[x]
  BY <1>1, <1>2, <1>3, Taken
<1>8. /\ Sound(m, camera')
      /\ \A x \in Keys \ e.suspect :
           camera'[x] = camera[x] /\ m.values[x] = e.values[x] => CachedAt(m, camera', x)
      /\ \A x \in KeysOf(e.catalog) \ e.lag :
           camera'[x] = camera[x] /\ Set(k, v) \notin SetsOf(x) => Settling(m, camera', x)
  <2>1. Set(k, v) \in Requests /\ Set(k, v).op \in {"set", "info"}
    BY <1>2, <1>3
  <2> QED
    BY <1>2, <1>3, <1>6, <1>7, <2>1, AfterSet
<1>9. /\ Asks(m, e', r) /\ e'.suspect = m.suspect
      /\ e'.lag = m.lag \ UNION {KeysOf(c) : c \in RangeOf(Targets[k])}
  BY <1>3, <1>4, <1>6, DependenciesAsk DEF r
<1>10. Sound(e', camera')
  BY <1>8, <1>9, AsksSound
<1>11. ASSUME NEW x \in Keys \ e'.suspect PROVE CachedAt(e', camera', x)
  <2>1. CASE x = k
    <3>1. CachedAt(m, camera', x)
      BY <1>5, <1>6, <1>7, <2>1 DEF CachedAt
    <3> QED
      BY <1>8, <1>9, <3>1, AsksCached
  <2>2. CASE x # k /\ x \in Coupled(k)
    <3>1. \E i \in 1..Len(r) : r[i] \in ReadsOf(x)
      BY <1>3, <2>2, CoupledRead DEF r
    <3> QED
      BY <1>8, <1>9, <3>1, AsksCached
  <2>3. CASE x # k /\ x \notin Coupled(k)
    <3>1. x \notin e.suspect
      BY <1>6, <1>9, <1>11, <2>3
    <3>2. CachedAt(m, camera', x)
      BY <1>5, <1>6, <1>7, <1>8, <2>3, <3>1
    <3> QED
      BY <1>8, <1>9, <3>2, AsksCached
  <2> QED
    BY <2>1, <2>2, <2>3
<1>12. ASSUME NEW x \in KeysOf(e.catalog) \ e'.lag PROVE Settling(e', camera', x)
  <2>0. x \in Keys
    BY <1>2, CatalogKeys
  <2>1. CASE \E i \in 1..Len(r) : r[i] = GetBatch(e.catalog)
    BY <1>6, <1>8, <1>9, <2>0, <2>1, AsksSettling
  <2>2. CASE ~(\E i \in 1..Len(r) : r[i] = GetBatch(e.catalog))
    <3>1. x \notin Coupled(k)
      BY <1>2, <1>3, <2>2, CoupledRead DEF r
    <3>2. x \notin e.lag
      BY <1>2, <1>3, <1>6, <1>9, <1>12, <2>2, Unmarked DEF r
    <3>3. Settling(m, camera', x)
      <4>1. CASE x = k
        BY <1>2, <1>3, <1>6, <1>7, <3>2, <4>1, WrittenSettling
      <4>2. CASE x # k
        <5>1. Set(k, v) \notin SetsOf(x)
          BY <4>2 DEF Set, SetsOf
        <5> QED
          BY <1>7, <1>8, <2>0, <3>1, <3>2, <4>2, <5>1
      <4> QED
        BY <4>1, <4>2
    <3> QED
      BY <1>8, <1>9, <2>0, <3>3, AsksSettling
  <2> QED
    BY <2>1, <2>2
<1>13. e'.catalog = e.catalog
  BY <1>6, <1>9 DEF Asks
<1> QED
  BY <1>10, <1>11, <1>12, <1>13 DEF Inv, Cached, Settled

LEMMA SetRefusedStep ==
  ASSUME Inv, SetRefused
  PROVE  Inv'
<1> DEFINE k == Head(e.queue).arg
           v == Head(e.queue).value
           V == [e.values EXCEPT ![k] = v]
           S == e.suspect \cup {k}
           L == e.lag
           m == [e EXCEPT !.queue = Tail(e.queue), !.values = V, !.suspect = S, !.lag = L]
           t == ApplyDependencies(m, k)
           r == Again(k)
<1>1. /\ Answering("set") /\ camera' = camera
      /\ e' = [WriteDone([Popped EXCEPT !.suspect = @ \cup {k}], k, v) EXCEPT !.lag = @ \cup {k}]
  BY DEF SetRefused
<1>2. /\ e \in Engine /\ e.open /\ e.queue \in Seq(Requests) /\ e.queue # <<>>
      /\ Head(e.queue) \in Requests /\ Head(e.queue).op = "set"
      /\ e.catalog \in Catalogs /\ camera \in [Keys -> Texts]
      /\ Popped = [e EXCEPT !.queue = Tail(e.queue)]
  BY <1>1, Answered
<1>3. k \in Keys /\ v \in Texts /\ Head(e.queue) = Set(k, v)
  BY <1>2, Kinds
<1>4. e' = [t EXCEPT !.lag = t.lag \cup {k}]
  <2>1. [[Popped EXCEPT !.suspect = @ \cup {k}] EXCEPT !.values[k] = v] = m
    BY <1>2 DEF Engine
  <2> QED
    BY <1>1, <2>1 DEF WriteDone
<1>5. V \in [Keys -> Texts \cup {None}] /\ S \in SUBSET Keys /\ L \in SUBSET Keys
      /\ V[k] = v /\ \A x \in Keys \ {k} : V[x] = e.values[x]
  BY <1>2, <1>3 DEF Engine, Texts
<1> HIDE DEF V, k, v, r
<1>6. /\ Pops(e, m) /\ m \in Engine
      /\ m.values = V /\ m.suspect = S /\ m.lag = L /\ m.defs = e.defs
      /\ m.open = e.open /\ m.catalog = e.catalog
  <2>1. m = [e EXCEPT !.queue = Tail(e.queue), !.values = V, !.suspect = S, !.lag = L]
    OBVIOUS
  <2> HIDE DEF m, S, L
  <2>2. Replied(m, V, S, L)
    BY <1>1, <1>5, <2>1, AtSet
  <2> QED
    BY <2>2 DEF Replied
<1> HIDE DEF m
<1>7. /\ Sound(m, camera)
      /\ \A x \in Keys \ e.suspect :
           camera[x] = camera[x] /\ m.values[x] = e.values[x] => CachedAt(m, camera, x)
      /\ \A x \in KeysOf(e.catalog) \ e.lag :
           camera[x] = camera[x] /\ Set(k, v) \notin SetsOf(x) => Settling(m, camera, x)
  <2>1. Set(k, v) \in Requests /\ Set(k, v).op \in {"set", "info"}
    BY <1>2, <1>3
  <2> QED
    BY <1>2, <1>3, <1>6, <2>1, AfterSet
<1>8. /\ Asks(m, t, r) /\ t.suspect = m.suspect
      /\ t.lag = m.lag \ UNION {KeysOf(c) : c \in RangeOf(Targets[k])}
  BY <1>3, <1>6, DependenciesAsk DEF r
<1> HIDE DEF t
<1>9. /\ Asks(m, e', r) /\ e'.suspect = m.suspect
      /\ e'.lag = t.lag \cup {k}
  <2> DEFINE K == t.lag \cup {k}
  <2>1. t \in Engine
    BY <1>8 DEF Asks
  <2>2. K \in SUBSET Keys
    BY <1>3, <2>1 DEF Engine
  <2> HIDE DEF K
  <2>3. e' = [t EXCEPT !.lag = K]
    BY <1>4 DEF K
  <2>4. e' \in Engine
    BY <2>1, <2>2, <2>3 DEF Engine
  <2>5. /\ e'.lag = K /\ e'.suspect = t.suspect /\ e'.queue = t.queue /\ e'.owed = t.owed
        /\ e'.open = t.open /\ e'.jobs = t.jobs /\ e'.values = t.values /\ e'.defs = t.defs
        /\ e'.groupKeys = t.groupKeys /\ e'.catalog = t.catalog /\ e'.rows = t.rows
    BY <2>1, <2>3 DEF Engine
  <2> QED
    BY <1>8, <2>4, <2>5 DEF Asks, K
<1>10. Sound(e', camera)
  BY <1>7, <1>9, AsksSound
<1>11. ASSUME NEW x \in Keys \ e'.suspect PROVE CachedAt(e', camera, x)
  <2>1. x \notin e.suspect /\ x # k
    BY <1>6, <1>9, <1>11
  <2>2. CachedAt(m, camera, x)
    BY <1>5, <1>6, <1>7, <2>1
  <2> QED
    BY <1>7, <1>9, <2>2, AsksCached
<1>12. ASSUME NEW x \in KeysOf(e.catalog) \ e'.lag PROVE Settling(e', camera, x)
  <2>0. x \in Keys /\ x # k
    BY <1>2, <1>9, CatalogKeys
  <2>1. CASE \E i \in 1..Len(r) : r[i] = GetBatch(e.catalog)
    BY <1>6, <1>7, <1>9, <2>0, <2>1, AsksSettling
  <2>2. CASE ~(\E i \in 1..Len(r) : r[i] = GetBatch(e.catalog))
    <3>1. x \notin e.lag
      BY <1>2, <1>3, <1>6, <1>8, <1>9, <1>12, <2>2, Unmarked DEF r
    <3>2. Set(k, v) \notin SetsOf(x)
      BY <2>0 DEF Set, SetsOf
    <3>3. Settling(m, camera, x)
      BY <1>7, <3>1, <3>2
    <3> QED
      BY <1>7, <1>9, <2>0, <3>3, AsksSettling
  <2> QED
    BY <2>1, <2>2
<1>13. e'.catalog = e.catalog
  BY <1>6, <1>9 DEF Asks
<1> QED
  BY <1>1, <1>10, <1>11, <1>12, <1>13 DEF Inv, Cached, Settled

\* The answer to a write tells the engine nothing: m only marks keys.
LEMMA UnansweredStep ==
  ASSUME Inv, Answering("set"), NEW sus \in SUBSET Keys, NEW lag \in SUBSET Keys,
         e' = [e EXCEPT !.queue = Tail(e.queue), !.suspect = sus, !.lag = lag],
         e.suspect \subseteq sus, e.lag \subseteq lag, Head(e.queue).arg \in lag,
         camera' \in [Keys -> Texts],
         \A x \in Keys : camera'[x] # camera[x] => x \in sus /\ x \in lag
  PROVE  Inv'
<1> DEFINE k == Head(e.queue).arg
           v == Head(e.queue).value
<1>1. /\ e \in Engine /\ e.open /\ e.queue \in Seq(Requests) /\ e.queue # <<>>
      /\ Head(e.queue) \in Requests /\ Head(e.queue).op = "set"
      /\ e.catalog \in Catalogs /\ camera \in [Keys -> Texts]
  BY Answered
<1>2. k \in Keys /\ v \in Texts /\ Head(e.queue) = Set(k, v)
  BY <1>1, Kinds
<1>3. e.values \in [Keys -> Texts \cup {None}]
  BY <1>1 DEF Engine
<1>4. e' = [e EXCEPT !.queue = Tail(e.queue), !.values = e.values, !.suspect = sus, !.lag = lag]
  BY <1>1 DEF Engine
<1>5. Replied(e', e.values, sus, lag)
  BY <1>3, <1>4, AtSet
<1>6. /\ Pops(e, e') /\ e'.values = e.values /\ e'.suspect = sus /\ e'.lag = lag
      /\ e'.defs = e.defs /\ e'.catalog = e.catalog
  BY <1>5 DEF Replied
<1> HIDE DEF k, v
<1>7. /\ Sound(e', camera')
      /\ \A x \in Keys \ e.suspect :
           camera'[x] = camera[x] /\ e'.values[x] = e.values[x] => CachedAt(e', camera', x)
      /\ \A x \in KeysOf(e.catalog) \ e.lag :
           camera'[x] = camera[x] /\ Set(k, v) \notin SetsOf(x) => Settling(e', camera', x)
  <2>1. Set(k, v) \in Requests /\ Set(k, v).op \in {"set", "info"}
    BY <1>1, <1>2
  <2> QED
    BY <1>1, <1>2, <1>6, <2>1, AfterSet
<1>8. ASSUME NEW x \in Keys \ e'.suspect PROVE CachedAt(e', camera', x)
  BY <1>6, <1>7
<1>9. ASSUME NEW x \in KeysOf(e'.catalog) \ e'.lag PROVE Settling(e', camera', x)
  <2>1. x \in Keys /\ x # k
    BY <1>1, <1>6, CatalogKeys DEF k
  <2>2. Set(k, v) \notin SetsOf(x)
    BY <2>1 DEF Set, SetsOf
  <2> QED
    BY <1>6, <1>7, <2>1, <2>2
<1> QED
  BY <1>7, <1>8, <1>9 DEF Inv, Cached, Settled

LEMMA SetFailedStep ==
  ASSUME Inv, SetFailed
  PROVE  Inv'
<1> DEFINE k == Head(e.queue).arg
           L == e.lag \cup {k}
<1>1. Answering("set") /\ camera' = camera /\ e' = [Popped EXCEPT !.lag = @ \cup {k}]
  BY DEF SetFailed
<1>2. /\ e \in Engine /\ Head(e.queue) \in Requests /\ Head(e.queue).op = "set"
      /\ camera \in [Keys -> Texts] /\ Popped = [e EXCEPT !.queue = Tail(e.queue)]
  BY <1>1, Answered
<1>3. k \in Keys
  BY <1>2, Kinds
<1>4. L \in SUBSET Keys /\ e.suspect \in SUBSET Keys
  BY <1>2, <1>3 DEF Engine
<1>5. e' = [e EXCEPT !.queue = Tail(e.queue), !.suspect = e.suspect, !.lag = L]
  BY <1>1, <1>2 DEF Engine
<1>6. k \in L /\ e.lag \subseteq L
  OBVIOUS
<1> HIDE DEF L
<1> QED
  BY <1>1, <1>2, <1>4, <1>5, <1>6, UnansweredStep

LEMMA SetUnheardStep ==
  ASSUME Inv, SetUnheard
  PROVE  Inv'
<1> DEFINE k == Head(e.queue).arg
           v == Head(e.queue).value
           C == {k} \cup Coupled(k)
           S == e.suspect \cup C
           L == e.lag \cup C
<1>1. /\ Answering("set") /\ Takes(k, v)
      /\ e' = [Popped EXCEPT !.suspect = @ \cup C, !.lag = @ \cup C]
  BY DEF SetUnheard
<1>2. /\ e \in Engine /\ Head(e.queue) \in Requests /\ Head(e.queue).op = "set"
      /\ camera \in [Keys -> Texts] /\ Popped = [e EXCEPT !.queue = Tail(e.queue)]
  BY <1>1, Answered
<1>3. k \in Keys /\ v \in Texts
  BY <1>2, Kinds
<1>4. Coupled(k) \subseteq Keys
  <2>1. \A c \in RangeOf(Targets[k]) : c \in Catalogs
    BY <1>3, SettingsShape DEF RangeOf
  <2> QED
    BY <2>1, CatalogKeys DEF Coupled
<1>5. L \in SUBSET Keys /\ S \in SUBSET Keys
  BY <1>2, <1>3, <1>4 DEF Engine
<1>6. e' = [e EXCEPT !.queue = Tail(e.queue), !.suspect = S, !.lag = L]
  BY <1>1, <1>2 DEF Engine
<1>7. /\ camera' \in [Keys -> Texts]
      /\ \A x \in Keys \ Coupled(k) : x # k => camera'[x] = camera[x]
  BY <1>1, <1>2, <1>3, Taken
<1>8. /\ k \in L /\ e.lag \subseteq L /\ e.suspect \subseteq S
      /\ \A x \in Keys : camera'[x] # camera[x] => x \in S /\ x \in L
  BY <1>7
<1> HIDE DEF L, S
<1> QED
  BY <1>1, <1>5, <1>6, <1>7, <1>8, UnansweredStep

LEMMA BuiltSound ==
  ASSUME NEW s, NEW cam, Typed(s, cam), Accounted(s), Belongs(s), InOrder(s),
         NEW t, t = BuildRows(s, s.catalog)
  PROVE  /\ Sound(t, cam)
         /\ t.open = s.open /\ t.catalog = s.catalog /\ t.suspect = s.suspect
         /\ t.values = s.values /\ t.queue = s.queue
<1>0. s \in Engine /\ s.catalog \in Catalogs
  BY DEF Typed, Engine
<1>1. /\ t \in Engine /\ t.rows = RowsOf(s, s.catalog)
      /\ t.open = s.open /\ t.queue = s.queue /\ t.jobs = s.jobs /\ t.values = s.values
      /\ t.defs = s.defs /\ t.groupKeys = s.groupKeys /\ t.catalog = s.catalog
      /\ t.owed = s.owed /\ t.suspect = s.suspect /\ t.lag = s.lag
  BY <1>0, Built
<1>2. Typed(t, cam)
  BY <1>1 DEF Typed
<1>3. Accounted(t)
  <2>1. \A c : Running(t, c) = Running(s, c)
    BY <1>1 DEF Running
  <2> QED
    BY <1>1, <2>1 DEF Accounted
<1>4. Belongs(t)
  BY <1>1 DEF Belongs
<1>5. InOrder(t)
  BY <1>1 DEF InOrder
<1>6. Painted(t)
  <2>1. \A k \in Keys : RowsOf(s, s.catalog)[k] # None => k \in s.groupKeys[s.catalog]
    BY <1>0, RowsFacts
  <2> QED
    BY <1>1, <2>1 DEF Painted
<1> QED
  BY <1>1, <1>2, <1>3, <1>4, <1>5, <1>6 DEF Sound

LEMMA InfoPops ==
  ASSUME Inv, Answering("info")
  PROVE  /\ Sound(Popped, camera) /\ Cached(Popped, camera) /\ Settled(Popped, camera)
         /\ Popped.catalog = e.catalog
<1>1. /\ e \in Engine /\ e.open /\ e.queue # <<>> /\ e.catalog \in Catalogs
      /\ Head(e.queue) \in Requests /\ Head(e.queue).op = "info"
      /\ camera \in [Keys -> Texts]
      /\ Popped = [e EXCEPT !.queue = Tail(e.queue)] /\ Popped \in Engine
  BY Answered
<1>2. Head(e.queue).job = 0
  BY <1>1, Kinds
<1>3. /\ Popped.queue = Tail(e.queue) /\ Popped.values = e.values /\ Popped.suspect = e.suspect
      /\ Popped.lag = e.lag /\ Popped.defs = e.defs /\ Popped.open = e.open
      /\ Popped.jobs = e.jobs /\ Popped.groupKeys = e.groupKeys
      /\ Popped.catalog = e.catalog /\ Popped.rows = e.rows /\ Popped.owed = e.owed
  BY <1>1 DEF Engine
<1>4. Pops(e, Popped)
  BY <1>1, <1>2, <1>3 DEF Pops
<1>5. /\ Sound(Popped, camera)
      /\ \A x \in Keys \ e.suspect :
           camera[x] = camera[x] /\ Popped.values[x] = e.values[x] => CachedAt(Popped, camera, x)
      /\ \A x \in KeysOf(e.catalog) \ e.lag :
           camera[x] = camera[x] /\ Head(e.queue) \notin SetsOf(x) => Settling(Popped, camera, x)
  BY <1>1, <1>3, <1>4, AfterSet
<1>6. \A x \in KeysOf(e.catalog) : Head(e.queue) \notin SetsOf(x)
  BY <1>1, Sorted, CatalogKeys
<1> QED
  BY <1>3, <1>5, <1>6 DEF Cached, Settled

LEMMA InfoFailedStep ==
  ASSUME Inv, InfoFailed
  PROVE  Inv'
  BY InfoPops DEF InfoFailed, Inv

LEMMA InfoAnsweredStep ==
  ASSUME Inv, NEW ptz \in BOOLEAN, InfoAnswered(ptz)
  PROVE  Inv'
<1> DEFINE c == e.catalog
           b == BuildRows(Popped, c)
           g == ReadGroup(b, c)
<1>1. /\ Answering("info") /\ camera' = camera
      /\ e' = IF ptz THEN PresetRefresh(g) ELSE g
  BY DEF InfoAnswered
<1>2. Sound(Popped, camera) /\ Cached(Popped, camera) /\ Popped.catalog = c
  BY <1>1, InfoPops
<1>3. /\ Sound(b, camera) /\ b.catalog = c
      /\ b.values = Popped.values /\ b.suspect = Popped.suspect /\ b.queue = Popped.queue
  BY <1>2, BuiltSound DEF Sound
<1>4. b \in Engine /\ c \in Catalogs /\ Cached(b, camera)
  BY <1>2, <1>3 DEF Sound, Typed, Engine, Cached, CachedAt
<1> HIDE DEF b
<1>5. Asks(b, g, <<GetBatch(c)>>) /\ g.suspect = b.suspect
  BY <1>4, ReadGroupAsks
<1>6. \E i \in 1..Len(<<GetBatch(c)>>) : <<GetBatch(c)>>[i] = GetBatch(b.catalog)
  BY <1>3
<1> HIDE DEF g, c
<1>7. Sound(g, camera) /\ Cached(g, camera) /\ Settled(g, camera)
  BY <1>3, <1>4, <1>5, <1>6, AsksAll
<1>8. CASE ptz
  <2>1. e' = PresetRefresh(g) /\ g \in Engine
    BY <1>1, <1>5, <1>8 DEF Asks
  <2>2. PICK r : Asks(g, e', r) /\ e'.suspect = g.suspect /\ e'.lag = g.lag
    BY <2>1, PresetAsks
  <2>3. Sound(e', camera) /\ Cached(e', camera) /\ Settled(e', camera)
    BY <1>7, <2>2, AsksAll
  <2> QED
    BY <1>1, <2>3 DEF Inv
<1>9. CASE ~ptz
  BY <1>1, <1>7, <1>9 DEF Inv
<1> QED
  BY <1>8, <1>9

------------------------------------------------------------------------------
(* The operator, the dock and the camera.                                  *)

LEMMA RefreshGroupStep ==
  ASSUME Inv, RefreshGroup
  PROVE  Inv'
<1>1. e' = ReadGroup(e, e.catalog) /\ camera' = camera
  BY DEF RefreshGroup
<1>2. e \in Engine /\ e.catalog \in Catalogs
  BY DEF Inv, Sound, Typed, Engine
<1> DEFINE r == <<GetBatch(e.catalog)>>
<1>3. Asks(e, e', r) /\ e'.suspect = e.suspect
  BY <1>1, <1>2, ReadGroupAsks
<1>4. \E i \in 1..Len(r) : r[i] = GetBatch(e.catalog)
  OBVIOUS
<1> HIDE DEF r
<1>5. Sound(e', camera) /\ Cached(e', camera) /\ Settled(e', camera)
  BY <1>3, <1>4, AsksAll DEF Inv
<1> QED
  BY <1>1, <1>5 DEF Inv

LEMMA OnGroupSelectedStep ==
  ASSUME Inv, NEW c \in Catalogs, OnGroupSelected(c)
  PROVE  Inv'
<1> DEFINE s == [e EXCEPT !.catalog = c]
           b == BuildRows(s, c)
           r == <<GetBatch(c)>>
<1>1. camera' = camera /\ e' = IF e.open THEN ReadGroup(b, c) ELSE b
  BY DEF OnGroupSelected
<1>2. e \in Engine /\ Sound(e, camera) /\ Cached(e, camera)
  BY DEF Inv, Sound, Typed, Engine
<1>3. s \in Engine
  BY <1>2 DEF Engine
<1>4. /\ s.queue = e.queue /\ s.values = e.values /\ s.suspect = e.suspect
      /\ s.open = e.open /\ s.jobs = e.jobs /\ s.groupKeys = e.groupKeys
      /\ s.catalog = c /\ s.owed = e.owed
  BY <1>2 DEF Engine
<1> HIDE DEF s
<1>5. Typed(s, camera) /\ Accounted(s) /\ Belongs(s) /\ InOrder(s)
  <2>1. Typed(s, camera)
    BY <1>2, <1>3 DEF Sound, Typed
  <2>2. \A d : Running(s, d) = Running(e, d)
    BY <1>4 DEF Running
  <2>3. Accounted(s)
    BY <1>2, <1>4, <2>2 DEF Sound, Accounted
  <2>4. Belongs(s)
    BY <1>2, <1>4 DEF Sound, Belongs
  <2>5. InOrder(s)
    BY <1>2, <1>4 DEF Sound, InOrder
  <2> QED
    BY <2>1, <2>3, <2>4, <2>5
<1>6. /\ Sound(b, camera) /\ b.catalog = c /\ b.open = e.open
      /\ b.values = e.values /\ b.suspect = e.suspect /\ b.queue = e.queue
  BY <1>4, <1>5, BuiltSound
<1>7. b \in Engine /\ Cached(b, camera)
  BY <1>2, <1>6 DEF Sound, Typed, Cached, CachedAt
<1> HIDE DEF b
<1>8. CASE e.open
  <2>1. Asks(b, e', r) /\ e'.suspect = b.suspect
    BY <1>1, <1>7, <1>8, ReadGroupAsks
  <2>2. \E i \in 1..Len(r) : r[i] = GetBatch(b.catalog)
    BY <1>6
  <2> HIDE DEF r
  <2>3. Sound(e', camera) /\ Cached(e', camera) /\ Settled(e', camera)
    BY <1>6, <1>7, <2>1, <2>2, AsksAll
  <2> QED
    BY <1>1, <2>3 DEF Inv
<1>9. CASE ~e.open
  <2>1. e' = b
    BY <1>1, <1>9
  <2> QED
    BY <1>1, <1>6, <1>7, <1>9, <2>1 DEF Inv, Settled
<1> QED
  BY <1>8, <1>9

LEMMA AdjustStep ==
  ASSUME Inv, NEW k \in Keys, NEW v \in Texts, Adjust(k, v)
  PROVE  Inv'
<1> DEFINE R == [e.rows EXCEPT ![k] = v]
           L == e.lag \cup {k}
<1>1. /\ e.rows[k] # None /\ camera' = camera
      /\ e' = [e EXCEPT !.rows = R, !.lag = L]
  BY DEF Adjust
<1>2. /\ e \in Engine /\ Sound(e, camera) /\ Cached(e, camera) /\ Settled(e, camera)
      /\ e.rows \in [Keys -> Texts \cup {None}]
      /\ e.catalog \in Catalogs /\ e.lag \in SUBSET Keys
  BY DEF Inv, Sound, Typed, Engine
<1>3. R \in [Keys -> Texts \cup {None}] /\ L \in SUBSET Keys
      /\ \A x \in Keys \ {k} : R[x] = e.rows[x]
  BY <1>2
<1> HIDE DEF R
<1>4. e' \in Engine
  BY <1>1, <1>2, <1>3 DEF Engine
<1>5. /\ e'.rows = R /\ e'.lag = L /\ e'.queue = e.queue /\ e'.open = e.open
      /\ e'.jobs = e.jobs /\ e'.values = e.values /\ e'.defs = e.defs
      /\ e'.groupKeys = e.groupKeys /\ e'.catalog = e.catalog /\ e'.owed = e.owed
      /\ e'.suspect = e.suspect
  BY <1>1, <1>2 DEF Engine
<1>6. /\ \A c : Running(e', c) = Running(e, c)
      /\ \A x : Fixes(e', x) = Fixes(e, x)
  BY <1>5 DEF Running, Fixes
<1>7. Sound(e', camera)
  <2>1. Accounted(e')
    BY <1>2, <1>5, <1>6 DEF Sound, Accounted
  <2>2. Belongs(e') /\ InOrder(e')
    BY <1>2, <1>5 DEF Sound, Belongs, InOrder
  <2>3. Painted(e')
    BY <1>1, <1>2, <1>3, <1>5 DEF Sound, Painted
  <2> QED
    BY <1>2, <1>4, <2>1, <2>2, <2>3 DEF Sound, Typed
<1>8. Cached(e', camera)
  BY <1>2, <1>5 DEF Cached, CachedAt
<1>9. ASSUME e.open, NEW x \in KeysOf(e.catalog) \ L PROVE Settling(e', camera, x)
  <2>1. x \in Keys /\ x # k /\ Settling(e, camera, x)
    BY <1>2, <1>9, CatalogKeys DEF Settled
  <2>2. e'.rows[x] = e.rows[x]
    BY <1>3, <1>5, <2>1
  <2>3. Shown(e', camera, x) <=> Shown(e, camera, x)
    BY <1>5, <2>2 DEF Shown
  <2>4. ReadRight(e', camera, x)
    BY <1>5, <1>6, <2>1 DEF Settling, ReadRight
  <2> QED
    BY <1>5, <1>6, <2>1, <2>2, <2>3, <2>4 DEF Settling
<1> HIDE DEF L
<1> QED
  BY <1>1, <1>5, <1>7, <1>8, <1>9 DEF Inv, Settled

LEMMA CommitStep ==
  ASSUME Inv, NEW k \in Keys, Commit(k)
  PROVE  Inv'
<1> DEFINE v == e.rows[k]
           r == <<Set(k, v)>>
           q == e.queue \o r
           L == IF e.owed[e.catalog] > 0 THEN e.lag \cup {k} ELSE e.lag \ {k}
<1>1. /\ v # None /\ camera' = camera
      /\ e' = [e EXCEPT !.queue = Append(@, Set(k, v)), !.lag = L]
  BY DEF Commit
<1>2. /\ e \in Engine /\ Sound(e, camera) /\ Cached(e, camera) /\ Settled(e, camera)
      /\ e.queue \in Seq(Requests) /\ e.rows \in [Keys -> Texts \cup {None}]
      /\ e.catalog \in Catalogs /\ e.lag \in SUBSET Keys /\ e.owed \in [Catalogs -> Int]
  BY DEF Inv, Sound, Typed, Engine
<1>b. v \in Texts
  BY <1>1, <1>2
<1> HIDE DEF v
<1>3. Set(k, v) \in Requests /\ Set(k, v).op = "set" /\ Set(k, v).job = 0
  BY <1>b, Made
<1>4. /\ r \in Seq(Requests) /\ q \in Seq(Requests) /\ Append(e.queue, Set(k, v)) = q
      /\ \A i \in 1..Len(r) : r[i] = Set(k, v)
  BY <1>2, <1>3
<1>5. L \in SUBSET Keys
  BY <1>2
<1>6. e' = [e EXCEPT !.queue = q, !.lag = L]
  BY <1>1, <1>4
<1>a. LastIs(q, SetsOf(k), Set(k, v))
  <2>1. Set(k, v) \in SetsOf(k)
    BY <1>b DEF SetsOf
  <2> QED
    BY <1>2, <1>3, <1>4, <2>1, LastAppend
<1> HIDE DEF r, q
<1>7. e' \in Engine
  BY <1>2, <1>4, <1>5, <1>6 DEF Engine
<1>8. /\ e'.rows = e.rows /\ e'.queue = q /\ e'.lag = L /\ e'.open = e.open /\ e'.jobs = e.jobs
      /\ e'.values = e.values /\ e'.defs = e.defs /\ e'.groupKeys = e.groupKeys
      /\ e'.catalog = e.catalog /\ e'.owed = e.owed /\ e'.suspect = e.suspect
  BY <1>2, <1>6 DEF Engine
<1>9. Sound(e', camera)
  <2>1. ASSUME NEW c \in Catalogs PROVE e'.owed[c] = e.owed[c] + Number(r, {GetBatch(c)})
    <3> DEFINE n == Number(r, {GetBatch(c)})
    <3>1. \A i \in 1..Len(r) : r[i] \notin {GetBatch(c)}
      BY <1>4 DEF Set, GetBatch
    <3>2. n = 0
      BY <1>4, <3>1, NumberAll
    <3>3. e.owed[c] \in Int /\ e'.owed[c] = e.owed[c]
      BY <1>2, <1>8
    <3> HIDE DEF n
    <3>4. e'.owed[c] = e.owed[c] + n
      BY <3>2, <3>3
    <3> QED
      BY <3>4 DEF n
  <2>2. Adds(e, e', r)
    BY <1>3, <1>4, <1>7, <1>8, <2>1 DEF Adds, q
  <2>3. Typed(e', camera) /\ Accounted(e') /\ Belongs(e') /\ InOrder(e')
    BY <1>2, <2>2, AddsSound
  <2>4. Painted(e')
    BY <1>2, <1>8 DEF Sound, Painted
  <2> QED
    BY <2>3, <2>4 DEF Sound
<1>10. ASSUME NEW x \in Keys \ e'.suspect PROVE CachedAt(e', camera, x)
  <2>1. CachedAt(e, camera, x)
    BY <1>2, <1>8 DEF Cached
  <2>2. Number(q, ReadsOf(x)) = Number(e.queue, ReadsOf(x)) + Number(r, ReadsOf(x))
    BY <1>2, <1>4, NumberConcat DEF q
  <2>3. Number(e.queue, ReadsOf(x)) \in Nat /\ Number(r, ReadsOf(x)) \in Nat
    BY <1>2, <1>4, PlacesFinite
  <2> QED
    BY <1>8, <2>1, <2>2, <2>3 DEF CachedAt
<1>11. ASSUME e.open, NEW x \in KeysOf(e.catalog) \ L PROVE Settling(e', camera, x)
  <2>1. x \in Keys /\ (x # k => Settling(e, camera, x))
    BY <1>2, <1>11, CatalogKeys DEF Settled
  <2>2. Fixes(e', x) = Fixes(e, x) /\ Running(e', e.catalog) = Running(e, e.catalog)
    BY <1>8 DEF Fixes, Running
  <2>4. CASE x = k
    <3>1. ~(e.owed[e.catalog] > 0)
      BY <1>11, <2>4
    <3>2. Number(q, SetsOf(k)) # 0
      BY <1>4, <1>a, NumberAll DEF LastIs
    <3>3. Shown(e', camera, k)
      BY <1>8, <1>a, <3>2 DEF Shown, v
    <3>4. Running(e, e.catalog) = {}
      <4> DEFINE n == Number(e.queue, {GetBatch(e.catalog)})
                 m == Cardinality(Running(e, e.catalog))
      <4>1. n \in Nat /\ m \in Nat /\ e.owed[e.catalog] = n + m
        BY <1>2, PlacesFinite, RunningCounted DEF Sound, Accounted
      <4> HIDE DEF n, m
      <4>2. m = 0
        BY <3>1, <4>1
      <4> QED
        BY <4>2, RunningCounted DEF m
    <3>5. ReadRight(e', camera, x)
      BY <1>8, <2>2, <3>4 DEF ReadRight
    <3> QED
      BY <1>8, <2>4, <3>1, <3>3, <3>5 DEF Settling
  <2>5. CASE x # k
    <3>1. \A i \in 1..Len(r) : r[i] \notin SetsOf(x)
      BY <1>4, <2>5 DEF Set, SetsOf
    <3>2. Number(q, SetsOf(x)) = Number(e.queue, SetsOf(x))
      <4>1. Number(q, SetsOf(x)) = Number(e.queue, SetsOf(x)) + Number(r, SetsOf(x))
        BY <1>2, <1>4, NumberConcat DEF q
      <4>2. Number(r, SetsOf(x)) = 0 /\ Number(e.queue, SetsOf(x)) \in Nat
        BY <1>2, <1>4, <3>1, NumberAll, PlacesFinite
      <4> QED
        BY <4>1, <4>2
    <3>3. ASSUME e.owed[e.catalog] = 0, e'.rows[x] # None PROVE Shown(e', camera, x)
      <4>1. Shown(e, camera, x) /\ e'.rows[x] = e.rows[x]
        BY <1>8, <2>1, <2>5, <3>3 DEF Settling
      <4>2. CASE Number(e.queue, SetsOf(x)) = 0
        BY <1>8, <3>2, <4>1, <4>2 DEF Shown
      <4>3. CASE Number(e.queue, SetsOf(x)) # 0
        <5>1. LastIs(e.queue, SetsOf(x), Set(x, e.rows[x]))
          BY <4>1, <4>3 DEF Shown
        <5>2. LastIs(q, SetsOf(x), Set(x, e.rows[x]))
          BY <1>2, <1>4, <3>1, <5>1, LastConcat DEF q
        <5> QED
          BY <1>8, <3>2, <4>1, <4>3, <5>2 DEF Shown
      <4> QED
        BY <4>2, <4>3
    <3>4. ASSUME e.owed[e.catalog] > 0 PROVE Followed(q, SetsOf(x), Fixes(e, x))
      <4>1. Followed(e.queue, SetsOf(x), Fixes(e, x))
        BY <2>1, <3>4 DEF Settling
      <4> QED
        BY <1>2, <1>4, <3>1, <4>1, FollowedConcat DEF q
    <3>5. ReadRight(e', camera, x)
      <4>1. Number(q, Fixes(e, x)) = Number(e.queue, Fixes(e, x)) + Number(r, Fixes(e, x))
        BY <1>2, <1>4, NumberConcat DEF q
      <4>2. Number(e.queue, Fixes(e, x)) \in Nat /\ Number(r, Fixes(e, x)) \in Nat
        BY <1>2, <1>4, PlacesFinite
      <4>3. Number(q, Fixes(e, x)) = 0 => Number(e.queue, Fixes(e, x)) = 0
        BY <4>1, <4>2
      <4> QED
        BY <1>8, <2>1, <2>2, <2>5, <4>3 DEF Settling, ReadRight
    <3> QED
      BY <1>8, <2>2, <3>3, <3>4, <3>5 DEF Settling
  <2> QED
    BY <2>4, <2>5
<1> HIDE DEF L
<1> QED
  BY <1>1, <1>8, <1>9, <1>10, <1>11 DEF Inv, Cached, Settled

\* A client that was just created, and whether it is open.
Blank(c, b) ==
  [open |-> b, queue |-> <<>>, jobs |-> [j \in Jobs |-> NoJob],
   values |-> [k \in Keys |-> None], defs |-> [k \in Keys |-> None],
   groupKeys |-> [d \in Catalogs |-> {}],
   catalog |-> c, rows |-> [k \in Keys |-> None],
   owed |-> [d \in Catalogs |-> 0], suspect |-> {}, lag |-> {}]

LEMMA BlankSound ==
  ASSUME NEW c \in Catalogs, NEW b \in BOOLEAN, NEW cam \in [Keys -> Texts],
         NEW t, t = Blank(c, b)
  PROVE  Sound(t, cam) /\ Cached(t, cam) /\ t.open = b /\ t.catalog = c
<1> DEFINE J == [j \in Jobs |-> NoJob]
           V == [k \in Keys |-> None]
           G == [d \in Catalogs |-> {}]
           O == [d \in Catalogs |-> 0]
           n == {}
           q == <<>>
<1>1. /\ J \in [Jobs -> Job] /\ V \in [Keys -> Texts \cup {None}]
      /\ V \in [Keys -> Defs \cup {None}]
      /\ G \in [Catalogs -> SUBSET Keys] /\ O \in [Catalogs -> Int] /\ n \in SUBSET Keys
  BY DEF Job, NoJob
<1>2. /\ \A j \in Jobs : J[j].pending = 0
      /\ \A k \in Keys : V[k] = None
      /\ \A d \in Catalogs : O[d] = 0 /\ G[d] = {}
  BY DEF NoJob
<1>3. q \in Seq(Requests) /\ Len(q) = 0
  OBVIOUS
<1>4. t = [open |-> b, queue |-> q, jobs |-> J, values |-> V, defs |-> V, groupKeys |-> G,
           catalog |-> c, rows |-> V, owed |-> O, suspect |-> n, lag |-> n]
  BY DEF Blank
<1> HIDE DEF J, V, G, O, n, q
<1>5. t \in Engine
  BY <1>1, <1>3, <1>4 DEF Engine
<1>6. /\ t.open = b /\ t.queue = q /\ t.jobs = J /\ t.values = V /\ t.groupKeys = G
      /\ t.catalog = c /\ t.rows = V /\ t.owed = O
  BY <1>4
<1>7. \A A : Number(t.queue, A) = 0
  BY <1>6, NumberNone DEF q
<1>8. Accounted(t)
  <2>1. ASSUME NEW d \in Catalogs
        PROVE  t.owed[d] = Number(t.queue, {GetBatch(d)}) + Cardinality(Running(t, d))
    <3> DEFINE z == Number(t.queue, {GetBatch(d)})
               m == Cardinality(Running(t, d))
    <3>1. z = 0
      BY <1>7
    <3>2. Running(t, d) = {}
      BY <1>2, <1>6 DEF Running
    <3>3. m = 0
      BY <3>2, RunningCounted
    <3>4. t.owed[d] = 0
      BY <1>2, <1>6
    <3> HIDE DEF z, m
    <3>5. t.owed[d] = z + m
      BY <3>1, <3>3, <3>4
    <3> QED
      BY <3>5 DEF z, m
  <2>2. \A j \in Jobs : t.jobs[j].pending = Number(t.queue, JobGets(j))
    BY <1>2, <1>6, <1>7
  <2> QED
    BY <2>1, <2>2 DEF Accounted
<1>9. Belongs(t) /\ InOrder(t) /\ Painted(t)
  BY <1>2, <1>3, <1>6 DEF Belongs, InOrder, Painted, Contiguous
<1>10. Cached(t, cam)
  BY <1>2, <1>6 DEF Cached, CachedAt
<1> QED
  BY <1>5, <1>6, <1>8, <1>9, <1>10 DEF Sound, Typed

LEMMA FreshOpened ==
  ASSUME NEW c, NEW b \in BOOLEAN
  PROVE  [Fresh(c) EXCEPT !.open = b] = Blank(c, b)
<1> DEFINE J == [j \in Jobs |-> NoJob]
           V == [k \in Keys |-> None]
           G == [d \in Catalogs |-> {}]
           O == [d \in Catalogs |-> 0]
           n == {}
           q == <<>>
           a == FALSE
           f == Fresh(c)
<1>1. f = [open |-> a, queue |-> q, jobs |-> J, values |-> V, defs |-> V, groupKeys |-> G,
           catalog |-> c, rows |-> V, owed |-> O, suspect |-> n, lag |-> n]
  BY DEF Fresh
<1>2. Blank(c, b) =
        [open |-> b, queue |-> q, jobs |-> J, values |-> V, defs |-> V, groupKeys |-> G,
         catalog |-> c, rows |-> V, owed |-> O, suspect |-> n, lag |-> n]
  BY DEF Blank
<1> HIDE DEF J, V, G, O, n, q, a, f
<1>3. [f EXCEPT !.open = b] = Blank(c, b)
  BY <1>1, <1>2
<1> QED
  BY <1>3 DEF f

LEMMA FreshClosed ==
  ASSUME NEW c \in Catalogs, NEW cam \in [Keys -> Texts]
  PROVE  Sound(Fresh(c), cam) /\ Cached(Fresh(c), cam) /\ Settled(Fresh(c), cam)
<1>1. Fresh(c) = Blank(c, FALSE)
  BY DEF Fresh, Blank
<1> DEFINE f == Fresh(c)
           b == FALSE
<1>2. b \in BOOLEAN /\ f = Blank(c, b) /\ ~b
  BY <1>1
<1> HIDE DEF b, f
<1>3. Sound(f, cam) /\ Cached(f, cam) /\ f.open = b
  BY <1>2, BlankSound
<1>4. Settled(f, cam)
  BY <1>2, <1>3 DEF Settled
<1> QED
  BY <1>3, <1>4 DEF f

LEMMA OpenFailedStep ==
  ASSUME Inv, OpenFailed
  PROVE  Inv'
<1>1. e.catalog \in Catalogs /\ camera \in [Keys -> Texts]
  BY DEF Inv, Sound, Typed, Engine
<1>2. e' = Fresh(e.catalog) /\ camera' = camera
  BY DEF OpenFailed
<1> QED
  BY <1>1, <1>2, FreshClosed DEF Inv

LEMMA OpenCameraStep ==
  ASSUME Inv, OpenCamera
  PROVE  Inv'
<1> DEFINE c == e.catalog
           f == [Fresh(c) EXCEPT !.open = TRUE]
           p == PresetRefresh(f)
           i == [p EXCEPT !.queue = p.queue \o <<Info>>]
<1>1. c \in Catalogs /\ camera' \in [Keys -> Texts]
  BY SettingsShape DEF Inv, Sound, Typed, Engine, OpenCamera, Texts
<1>2. Sound(f, camera') /\ Cached(f, camera') /\ f.catalog = c
  <2> DEFINE b == TRUE
  <2>0. b \in BOOLEAN /\ f = [Fresh(c) EXCEPT !.open = b]
    OBVIOUS
  <2> HIDE DEF b
  <2>1. f = Blank(c, b)
    BY <2>0, FreshOpened
  <2> HIDE DEF f, c
  <2> QED
    BY <1>1, <2>0, <2>1, BlankSound
<1>3. f \in Engine
  BY <1>2 DEF Sound, Typed
<1>a. e' = ReadGroup([p EXCEPT !.queue = Append(@, Info)], c)
  BY DEF OpenCamera
<1> HIDE DEF f, c
<1>4. PICK r : Asks(f, p, r) /\ p.suspect = f.suspect /\ p.lag = f.lag
  BY <1>3, PresetAsks
<1>5. Sound(p, camera') /\ Cached(p, camera') /\ p \in Engine /\ p.catalog = c
  <2>1. Sound(p, camera')
    BY <1>2, <1>4, AsksSound
  <2>2. Cached(p, camera')
    BY <1>2, <1>4, AsksCached DEF Cached
  <2> QED
    BY <1>2, <1>4, <2>1, <2>2 DEF Asks
<1> HIDE DEF p
<1>6. p.queue \in Seq(Requests) /\ Info \in Requests /\ Info.op = "info" /\ Info.job = 0
  BY <1>5, Made DEF Engine
<1> DEFINE h == <<Info>>
<1>7. h \in Seq(Requests) /\ Append(p.queue, Info) = p.queue \o h
      /\ \A l \in 1..Len(h) : h[l].op \in {"get", "info"} /\ h[l].job = 0
  BY <1>6
<1>8. e' = ReadGroup(i, c)
  BY <1>a, <1>7
<1> HIDE DEF h
<1>9. Asks(p, i, h) /\ i.suspect = p.suspect
  BY <1>5, <1>7, OthersAsk DEF h
<1> HIDE DEF i
<1>10. Sound(i, camera') /\ Cached(i, camera') /\ i \in Engine /\ i.catalog = c
  <2>1. Sound(i, camera')
    BY <1>5, <1>9, AsksSound
  <2>2. Cached(i, camera')
    BY <1>5, <1>9, AsksCached DEF Cached
  <2> QED
    BY <1>5, <1>9, <2>1, <2>2 DEF Asks
<1> DEFINE g == <<GetBatch(c)>>
<1>11. Asks(i, e', g) /\ e'.suspect = i.suspect
  BY <1>1, <1>8, <1>10, ReadGroupAsks
<1>12. \E l \in 1..Len(g) : g[l] = GetBatch(i.catalog)
  BY <1>10
<1> HIDE DEF g
<1>13. Sound(e', camera') /\ Cached(e', camera') /\ Settled(e', camera')
  BY <1>10, <1>11, <1>12, AsksAll
<1> QED
  BY <1>13 DEF Inv

LEMMA CameraChangedStep ==
  ASSUME Inv, NEW k \in Keys, CameraChanged(k)
  PROVE  Inv'
<1>1. /\ e \in Engine /\ e.catalog \in Catalogs /\ camera \in [Keys -> Texts]
      /\ e.suspect \in SUBSET Keys /\ e.lag \in SUBSET Keys
  BY DEF Inv, Sound, Typed, Engine
<1>2. e' = [e EXCEPT !.suspect = e.suspect \cup {k}, !.lag = e.lag \cup {k}]
  BY DEF CameraChanged
<1>3. camera' \in [Keys -> Texts] /\ \A x \in Keys \ {k} : camera'[x] = camera[x]
  BY <1>1 DEF CameraChanged, Texts
<1> DEFINE S == e.suspect \cup {k}
           L == e.lag \cup {k}
<1>4. S \in SUBSET Keys /\ L \in SUBSET Keys
  BY <1>1
<1> HIDE DEF S, L
<1>5. e' = [e EXCEPT !.suspect = S, !.lag = L]
  BY <1>2 DEF S, L
<1>6. e' \in Engine
  BY <1>1, <1>4, <1>5 DEF Engine
<1>7. /\ e'.suspect = S /\ e'.lag = L /\ e'.rows = e.rows /\ e'.queue = e.queue
      /\ e'.open = e.open /\ e'.jobs = e.jobs /\ e'.values = e.values /\ e'.defs = e.defs
      /\ e'.groupKeys = e.groupKeys /\ e'.catalog = e.catalog /\ e'.owed = e.owed
  BY <1>1, <1>5 DEF Engine
<1>8. /\ \A c : Running(e', c) = Running(e, c)
      /\ \A x : Fixes(e', x) = Fixes(e, x)
  BY <1>7 DEF Running, Fixes
<1>9. Sound(e', camera')
  <2>1. Accounted(e')
    BY <1>7, <1>8 DEF Inv, Sound, Accounted
  <2>2. Belongs(e')
    BY <1>7 DEF Inv, Sound, Belongs
  <2>3. InOrder(e') /\ Painted(e')
    BY <1>7 DEF Inv, Sound, InOrder, Painted
  <2> QED
    BY <1>3, <1>6, <2>1, <2>2, <2>3 DEF Sound, Typed
<1>10. Cached(e', camera')
  <2>1. ASSUME NEW x \in Keys \ S PROVE CachedAt(e', camera', x)
    <3>1. CachedAt(e, camera, x) /\ camera'[x] = camera[x]
      BY <1>3 DEF Inv, Cached, S
    <3> QED
      BY <1>7, <3>1 DEF CachedAt
  <2> QED
    BY <1>7, <2>1 DEF Cached
<1>11. ASSUME e.open, NEW x \in KeysOf(e.catalog) \ L PROVE Settling(e', camera', x)
  <2>1. x \in Keys /\ x # k /\ Settling(e, camera, x)
    BY <1>1, <1>11, CatalogKeys DEF Inv, Settled, L
  <2>2. camera'[x] = camera[x]
    BY <1>3, <2>1
  <2>3. Shown(e', camera', x) <=> Shown(e, camera, x)
    BY <1>7, <2>2 DEF Shown
  <2>4. ReadRight(e', camera', x)
    BY <1>7, <1>8, <2>1, <2>2 DEF Settling, ReadRight
  <2> QED
    BY <1>7, <1>8, <2>1, <2>3, <2>4 DEF Settling
<1> QED
  BY <1>7, <1>9, <1>10, <1>11 DEF Inv, Settled

------------------------------------------------------------------------------
(* The theorems.                                                           *)

LEMMA InitInv == Init => Inv
<1> SUFFICES ASSUME Init PROVE Inv
  OBVIOUS
<1>1. PICK c \in Catalogs : e = Fresh(c)
  BY DEF Init
<1>2. camera \in [Keys -> Texts]
  BY DEF Init, Texts
<1> QED
  BY <1>1, <1>2, FreshClosed DEF Inv

LEMMA NextInv == Inv /\ [Next]_vars => Inv'
<1> SUFFICES ASSUME Inv, [Next]_vars PROVE Inv'
  OBVIOUS
<1>1. CASE Reply
  BY <1>1, GetBatchListedStep, GetBatchFailedStep, GetAnsweredStep, GetFailedStep,
     SetTakenStep, SetRefusedStep, SetFailedStep, SetUnheardStep, InfoAnsweredStep,
     InfoFailedStep DEF Reply
<1>2. CASE RefreshGroup
  BY <1>2, RefreshGroupStep
<1>3. CASE OpenCamera
  BY <1>3, OpenCameraStep
<1>4. CASE OpenFailed
  BY <1>4, OpenFailedStep
<1>5. ASSUME NEW c \in Catalogs, OnGroupSelected(c) PROVE Inv'
  BY <1>5, OnGroupSelectedStep
<1>6. ASSUME NEW k \in Keys, CameraChanged(k) PROVE Inv'
  BY <1>6, CameraChangedStep
<1>7. ASSUME NEW k \in Keys, NEW v \in Texts, Adjust(k, v) PROVE Inv'
  BY <1>7, AdjustStep
<1>9. ASSUME NEW k \in Keys, Commit(k) PROVE Inv'
  BY <1>9, CommitStep
<1>8. CASE UNCHANGED vars
  BY <1>8 DEF vars, Inv
<1> QED
  BY <1>1, <1>2, <1>3, <1>4, <1>5, <1>6, <1>7, <1>8, <1>9 DEF Next

LEMMA Invariance == Spec => []Inv
  BY InitInv, NextInv, PTL DEF Spec

LEMMA OwedCounted ==
  ASSUME Inv
  PROVE  /\ \A c \in Catalogs : e.owed[c] \in Nat
         /\ \A j \in Jobs : e.jobs[j].pending \in Nat
<1>1. e.queue \in Seq(Requests) /\ Accounted(e)
  BY DEF Inv, Sound, Typed, Engine
<1>2. ASSUME NEW c \in Catalogs PROVE e.owed[c] \in Nat
  <2> DEFINE n == Number(e.queue, {GetBatch(c)})
             m == Cardinality(Running(e, c))
  <2>1. n \in Nat /\ m \in Nat /\ e.owed[c] = n + m
    BY <1>1, PlacesFinite, RunningCounted DEF Accounted
  <2> HIDE DEF n, m
  <2> QED
    BY <2>1
<1>3. ASSUME NEW j \in Jobs PROVE e.jobs[j].pending \in Nat
  BY <1>1, PlacesFinite DEF Accounted
<1> QED
  BY <1>2, <1>3

\* The engine, the pane and the queue keep their shape; the number of keys that
\* a series of reads still waits for, and of group reads that are owed, is never
\* negative.
THEOREM Typing == Spec => []TypeOK
<1>1. Inv => TypeOK
  <2> SUFFICES ASSUME Inv PROVE TypeOK
    OBVIOUS
  <2>1. /\ \A c \in Catalogs : e.owed[c] \in Nat
        /\ \A j \in Jobs : e.jobs[j].pending \in Nat
    BY OwedCounted
  <2>2. e \in Engine /\ camera \in [Keys -> Texts]
    BY DEF Inv, Sound, Typed
  <2>3. e.owed \in [Catalogs -> Int] /\ e.jobs \in [Jobs -> Job]
    BY <2>2 DEF Engine
  <2>4. e.owed \in [Catalogs -> Nat]
    BY <2>1, <2>3
  <2>5. e.jobs \in [Jobs -> [catalog : Catalogs \cup {None}, pending : Nat, ok : SUBSET Keys]]
    <3>1. ASSUME NEW j \in Jobs
          PROVE  e.jobs[j] \in [catalog : Catalogs \cup {None}, pending : Nat, ok : SUBSET Keys]
      <4>1. e.jobs[j] \in Job /\ e.jobs[j].pending \in Nat
        BY <2>1, <2>3
      <4> QED
        BY <4>1 DEF Job
    <3> QED
      BY <2>3, <3>1
  <2> QED
    BY <2>2, <2>4, <2>5 DEF TypeOK, Engine
<1> QED
  BY <1>1, Invariance, PTL

\* Whatever fails, ZcSettingsEngine::readGroup() ends in exactly one
\* groupRefreshed: a read that was not announced is a request in the queue or a
\* series of reads by key, and a series waits for exactly the requests that it
\* still has there.
THEOREM ReadsCounted == Spec => []ReadsAccounted
<1>1. Inv => ReadsAccounted
  <2> SUFFICES ASSUME Inv PROVE ReadsAccounted
    OBVIOUS
  <2>1. e.queue \in Seq(Requests) /\ Accounted(e)
        /\ \A i \in 1..Len(e.queue) : e.queue[i] \in Requests
    BY DEF Inv, Sound, Typed, Engine
  <2>2. ASSUME NEW c \in Catalogs
        PROVE  e.owed[c] = Cardinality({i \in 1..Len(e.queue) : e.queue[i] = GetBatch(c)})
                 + Cardinality({j \in Jobs : e.jobs[j].pending > 0 /\ e.jobs[j].catalog = c})
    <3>1. Places(e.queue, {GetBatch(c)}) = {i \in 1..Len(e.queue) : e.queue[i] = GetBatch(c)}
      BY DEF Places
    <3>2. e.owed[c] = Number(e.queue, {GetBatch(c)}) + Cardinality(Running(e, c))
      BY <2>1 DEF Accounted
    <3> QED
      BY <3>1, <3>2 DEF Number, Running
  <2>3. ASSUME NEW j \in Jobs
        PROVE  e.jobs[j].pending =
                 Cardinality({i \in 1..Len(e.queue) : e.queue[i].op = "get" /\ e.queue[i].job = j})
    <3>1. Places(e.queue, JobGets(j)) =
            {i \in 1..Len(e.queue) : e.queue[i].op = "get" /\ e.queue[i].job = j}
      BY <2>1, Sorted DEF Places
    <3>2. e.jobs[j].pending = Number(e.queue, JobGets(j))
      BY <2>1 DEF Accounted
    <3> QED
      BY <3>1, <3>2 DEF Number
  <2> QED
    BY <2>2, <2>3 DEF ReadsAccounted, Count
<1> QED
  BY <1>1, Invariance, PTL

\* When all replies have arrived, the value that ZcSettingsEngine caches for a
\* key is the camera's, unless the last read or write of the key failed or
\* somebody else changed it: applyDependencies() has read again what a write
\* changed in other catalogs.
THEOREM CacheFollows == Spec => []CacheFollowsCamera
<1>1. Inv => CacheFollowsCamera
  <2> SUFFICES ASSUME Inv, e.queue = <<>>, NEW k \in Keys \ e.suspect, e.values[k] # None
               PROVE  e.values[k] = camera[k]
    BY DEF CacheFollowsCamera
  <2>1. CachedAt(e, camera, k) /\ e.queue \in Seq(Requests)
    BY DEF Inv, Cached, Sound, Typed, Engine
  <2>2. Number(e.queue, ReadsOf(k)) = 0
    BY NumberNone
  <2> QED
    BY <2>1, <2>2 DEF CachedAt
<1> QED
  BY <1>1, Invariance, PTL

\* When all replies have arrived, a row of the settings pane shows the camera's
\* value, unless a write of it failed or was made while a read of its group was
\* on its way, or somebody else changed it, and the group has not been read
\* since.
THEOREM RowsFollow == Spec => []RowsSettle
<1>1. Inv => RowsSettle
  <2> SUFFICES ASSUME Inv, e.open, e.queue = <<>>, NEW k \in Keys \ e.lag, e.rows[k] # None
               PROVE  e.rows[k] = camera[k]
    BY DEF RowsSettle
  <2> DEFINE c == e.catalog
  <2>1. /\ e.queue \in Seq(Requests) /\ c \in Catalogs /\ Accounted(e) /\ Belongs(e)
        /\ Painted(e) /\ Settled(e, camera)
    BY DEF Inv, Sound, Typed, Engine
  <2>2. \A A : Number(e.queue, A) = 0
    BY NumberNone
  <2>3. k \in KeysOf(c)
    BY <2>1 DEF Painted, Belongs
  <2>4. e.owed[c] = 0
    <3> DEFINE n == Number(e.queue, {GetBatch(c)})
               m == Cardinality(Running(e, c))
    <3>1. n = 0 /\ e.owed[c] = n + m
      BY <2>1, <2>2 DEF Accounted
    <3>2. \A j \in Jobs : e.jobs[j].pending = 0
      BY <2>1, <2>2 DEF Accounted
    <3>3. Running(e, c) = {}
      BY <3>2 DEF Running
    <3>4. m = 0
      BY <3>3, RunningCounted
    <3> HIDE DEF n, m
    <3> QED
      BY <3>1, <3>4
  <2>5. Shown(e, camera, k)
    BY <2>1, <2>3, <2>4 DEF Settled, Settling
  <2> QED
    BY <2>2, <2>5 DEF Shown
<1> QED
  BY <1>1, Invariance, PTL

\* The pane has only rows of the group that is selected, however late the
\* replies for other groups arrive: onGroupRefreshed() drops those.
THEOREM PaneFollows == Spec => []PaneShowsGroup
<1>1. Inv => PaneShowsGroup
  <2> SUFFICES ASSUME Inv, NEW k \in Keys, e.rows[k] # None
               PROVE  k \in e.groupKeys[e.catalog] \cap KeysOf(e.catalog)
    BY DEF PaneShowsGroup
  <2>1. e.catalog \in Catalogs /\ Belongs(e) /\ Painted(e)
    BY DEF Inv, Sound, Typed, Engine
  <2> QED
    BY <2>1 DEF Painted, Belongs
<1> QED
  BY <1>1, Invariance, PTL
==============================================================================
