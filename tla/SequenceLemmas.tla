-------------------------- MODULE SequenceLemmas ---------------------------
(***************************************************************************)
(* Lemmas that the proofs about the components share: sequences with an    *)
(* element removed or inserted, sequences without repetition, least        *)
(* elements and cardinalities.                                             *)
(***************************************************************************)
EXTENDS Integers, Sequences, FiniteSets, SequencesExt, SequenceTheorems,
        FiniteSetTheorems, TLAPS

LEMMA OneLess ==
  ASSUME NEW n \in Nat, n > 0
  PROVE  (IF 1 <= n - 1 THEN n - 1 - 1 + 1 ELSE 0) = n - 1
  OBVIOUS

(* A call that starts, and one that returns.                               *)
LEMMA Nesting ==
  ASSUME NEW s \in Seq(Nat)
  PROVE  /\ Len(s) \in Nat
         /\ \A e \in Nat : /\ Append(s, e) \in Seq(Nat) /\ Len(Append(s, e)) = Len(s) + 1
                           /\ \A i \in 1..Len(s) : Append(s, e)[i] = s[i]
                           /\ Append(s, e)[Len(s) + 1] = e
         /\ s # <<>> => /\ Front(s) \in Seq(Nat) /\ Len(Front(s)) = Len(s) - 1
                        /\ \A i \in 1..Len(s) - 1 : Front(s)[i] = s[i]
                        /\ Len(s) > 0 /\ Last(s) = s[Len(s)] /\ Last(s) \in Nat
  <1>1. Len(s) \in Nat /\ (s # <<>> => Len(s) > 0)
    BY LenProperties, EmptySeq
  <1>2. ASSUME NEW e \in Nat
        PROVE  /\ Append(s, e) \in Seq(Nat) /\ Len(Append(s, e)) = Len(s) + 1
               /\ \A i \in 1..Len(s) : Append(s, e)[i] = s[i]
               /\ Append(s, e)[Len(s) + 1] = e
    BY AppendProperties
  <1>3. ASSUME s # <<>>
        PROVE  /\ Front(s) \in Seq(Nat) /\ Len(Front(s)) = Len(s) - 1
               /\ \A i \in 1..Len(s) - 1 : Front(s)[i] = s[i]
    <2>0. Len(s) \in Nat /\ Len(s) > 0
      BY <1>1, <1>3
    <2>1. \A i \in 1..Len(s) - 1 : s[i] \in Nat
      BY <1>1, ElementOfSeq
    <2>2. /\ SubSeq(s, 1, Len(s) - 1) \in Seq(Nat)
          /\ Len(SubSeq(s, 1, Len(s) - 1)) =
               IF 1 <= Len(s) - 1 THEN Len(s) - 1 - 1 + 1 ELSE 0
          /\ \A i \in 1..Len(s) - 1 - 1 + 1 : SubSeq(s, 1, Len(s) - 1)[i] = s[1 + i - 1]
      <3>. Len(s) - 1 \in Int
        BY <1>1
      <3>. QED
        BY <2>1, SubSeqProperties
    <2>3. Len(s) - 1 - 1 + 1 = Len(s) - 1
      BY <1>1
    <2>4. (IF 1 <= Len(s) - 1 THEN Len(s) - 1 - 1 + 1 ELSE 0) = Len(s) - 1
      BY <2>0, OneLess
    <2>5. ASSUME NEW i \in 1..Len(s) - 1
          PROVE  1 + i - 1 = i
      BY <1>1
    <2>. QED
      BY <2>2, <2>3, <2>4, <2>5 DEF Front
  <1>4. s # <<>> => Last(s) = s[Len(s)] /\ Last(s) \in Nat
    BY <1>1, ElementOfSeq DEF Last
  <1>. QED
    BY <1>1, <1>2, <1>3, <1>4

(* A sequence without its element i.                                       *)
LEMMA RemovedAt ==
  ASSUME NEW S, NEW s \in Seq(S), NEW i \in 1..Len(s)
  PROVE  /\ RemoveAt(s, i) \in Seq(S)
         /\ Len(RemoveAt(s, i)) = Len(s) - 1
         /\ \A k \in 1..Len(s) - 1 :
              RemoveAt(s, i)[k] = IF k < i THEN s[k] ELSE s[k + 1]
  <1>. DEFINE a == SubSeq(s, 1, i - 1)
             b == SubSeq(s, i + 1, Len(s))
  <1>0. Len(s) \in Nat /\ i \in Nat /\ i >= 1 /\ i <= Len(s)
        /\ i - 1 \in Int /\ i + 1 \in Int /\ Len(s) \in Int
    BY LenProperties
  <1>1. \A k \in 1..Len(s) : s[k] \in S
    BY ElementOfSeq
  <1>2. a \in Seq(S) /\ Len(a) = i - 1 /\ \A k \in 1..i - 1 : a[k] = s[k]
    <2>1. \A k \in 1..i - 1 : s[k] \in S
      BY <1>0, <1>1
    <2>2. /\ a \in Seq(S)
          /\ Len(a) = IF 1 <= i - 1 THEN (i - 1) - 1 + 1 ELSE 0
          /\ \A k \in 1..(i - 1) - 1 + 1 : a[k] = s[1 + k - 1]
      BY <1>0, <2>1, SubSeqProperties
    <2>. QED
      BY <1>0, <2>2
  <1>3. /\ b \in Seq(S) /\ Len(b) = Len(s) - i
        /\ \A k \in 1..Len(s) - i : b[k] = s[i + k]
    <2>1. \A k \in i + 1..Len(s) : s[k] \in S
      BY <1>0, <1>1
    <2>2. /\ b \in Seq(S)
          /\ Len(b) = IF i + 1 <= Len(s) THEN Len(s) - (i + 1) + 1 ELSE 0
          /\ \A k \in 1..Len(s) - (i + 1) + 1 : b[k] = s[(i + 1) + k - 1]
      BY <1>0, <2>1, SubSeqProperties
    <2>. QED
      BY <1>0, <2>2
  <1>. HIDE DEF a, b
  <1>4. /\ a \o b \in Seq(S) /\ Len(a \o b) = Len(a) + Len(b)
        /\ \A k \in 1..Len(a) + Len(b) :
             (a \o b)[k] = IF k <= Len(a) THEN a[k] ELSE b[k - Len(a)]
    BY <1>2, <1>3, ConcatProperties
  <1>5. RemoveAt(s, i) = a \o b
    BY DEF RemoveAt, a, b
  <1>6. ASSUME NEW k \in 1..Len(s) - 1
        PROVE  (a \o b)[k] = IF k < i THEN s[k] ELSE s[k + 1]
    <2>1. k \in 1..Len(a) + Len(b)
      BY <1>0, <1>2, <1>3
    <2>2. CASE k < i
      BY <1>0, <1>2, <1>4, <2>1, <2>2
    <2>3. CASE k >= i
      <3>1. k - Len(a) \in 1..Len(s) - i /\ ~(k <= Len(a)) /\ i + (k - Len(a)) = k + 1
        BY <1>0, <1>2, <2>3
      <3>. QED
        BY <1>0, <1>3, <1>4, <2>1, <2>3, <3>1
    <2>4. k < i \/ k >= i
      BY <1>0
    <2>. QED
      BY <2>2, <2>3, <2>4
  <1>7. Len(a) + Len(b) = Len(s) - 1
    BY <1>0, <1>2, <1>3
  <1>. QED
    BY <1>4, <1>5, <1>6, <1>7

(* t is s with e put in as its element j.                                  *)
IsWith(t, s, j, e) ==
  /\ Len(t) = Len(s) + 1
  /\ \A k \in 1..Len(s) + 1 :
       t[k] = IF k < j THEN s[k] ELSE IF k = j THEN e ELSE s[k - 1]

LEMMA InsertedAt ==
  ASSUME NEW S, NEW s \in Seq(S), NEW e \in S, NEW j \in 1..Len(s) + 1
  PROVE  InsertAt(s, j, e) \in Seq(S) /\ IsWith(InsertAt(s, j, e), s, j, e)
  <1>. DEFINE a == SubSeq(s, 1, j - 1)
             b == SubSeq(s, j, Len(s))
             m == <<e>>
  <1>0. Len(s) \in Nat /\ j \in Nat /\ j >= 1 /\ j <= Len(s) + 1
        /\ j - 1 \in Int /\ j \in Int /\ Len(s) \in Int
    BY LenProperties
  <1>1. \A k \in 1..Len(s) : s[k] \in S
    BY ElementOfSeq
  <1>2. a \in Seq(S) /\ Len(a) = j - 1 /\ \A k \in 1..j - 1 : a[k] = s[k]
    <2>1. \A k \in 1..j - 1 : s[k] \in S
      BY <1>0, <1>1
    <2>2. /\ a \in Seq(S)
          /\ Len(a) = IF 1 <= j - 1 THEN (j - 1) - 1 + 1 ELSE 0
          /\ \A k \in 1..(j - 1) - 1 + 1 : a[k] = s[1 + k - 1]
      BY <1>0, <2>1, SubSeqProperties
    <2>. QED
      BY <1>0, <2>2
  <1>3. /\ b \in Seq(S) /\ Len(b) = Len(s) - j + 1
        /\ \A k \in 1..Len(s) - j + 1 : b[k] = s[j + k - 1]
    <2>1. \A k \in j..Len(s) : s[k] \in S
      BY <1>0, <1>1
    <2>2. /\ b \in Seq(S)
          /\ Len(b) = IF j <= Len(s) THEN Len(s) - j + 1 ELSE 0
          /\ \A k \in 1..Len(s) - j + 1 : b[k] = s[j + k - 1]
      BY <1>0, <2>1, SubSeqProperties
    <2>. QED
      BY <1>0, <2>2
  <1>4. m \in Seq(S) /\ Len(m) = 1 /\ m[1] = e
    OBVIOUS
  <1>. HIDE DEF a, b, m
  <1>5. /\ a \o m \in Seq(S) /\ Len(a \o m) = j
        /\ \A k \in 1..j : (a \o m)[k] = IF k < j THEN a[k] ELSE e
    <2>1. /\ a \o m \in Seq(S) /\ Len(a \o m) = Len(a) + Len(m)
          /\ \A k \in 1..Len(a) + Len(m) :
               (a \o m)[k] = IF k <= Len(a) THEN a[k] ELSE m[k - Len(a)]
      BY <1>2, <1>4, ConcatProperties
    <2>2. ASSUME NEW k \in 1..j
          PROVE  (a \o m)[k] = IF k < j THEN a[k] ELSE e
      <3>1. CASE k < j
        BY <1>0, <1>2, <1>4, <2>1, <3>1
      <3>2. CASE k = j
        <4>1. k - Len(a) = 1 /\ ~(k <= Len(a)) /\ k \in 1..Len(a) + Len(m)
          BY <1>0, <1>2, <1>4, <3>2
        <4>. QED
          BY <1>4, <2>1, <3>2, <4>1
      <3>3. k < j \/ k = j
        BY <1>0
      <3>. QED
        BY <3>1, <3>2, <3>3
    <2>. QED
      BY <1>0, <1>2, <1>4, <2>1, <2>2
  <1>6. /\ (a \o m) \o b \in Seq(S) /\ Len((a \o m) \o b) = Len(s) + 1
        /\ \A k \in 1..Len(s) + 1 :
             ((a \o m) \o b)[k] = IF k <= j THEN (a \o m)[k] ELSE b[k - j]
    <2>. DEFINE c == a \o m
    <2>0. c \in Seq(S) /\ Len(c) = j
      BY <1>5
    <2>. HIDE DEF c
    <2>1. /\ c \o b \in Seq(S) /\ Len(c \o b) = Len(c) + Len(b)
          /\ \A k \in 1..Len(c) + Len(b) :
               (c \o b)[k] = IF k <= Len(c) THEN c[k] ELSE b[k - Len(c)]
      BY <1>3, <2>0, ConcatProperties
    <2>2. Len(c) + Len(b) = Len(s) + 1
      BY <1>0, <1>3, <2>0
    <2>3. /\ c \o b \in Seq(S) /\ Len(c \o b) = Len(s) + 1
          /\ \A k \in 1..Len(s) + 1 : (c \o b)[k] = IF k <= j THEN c[k] ELSE b[k - j]
      BY <2>0, <2>1, <2>2
    <2>. QED
      BY <2>3 DEF c
  <1>7. InsertAt(s, j, e) = (a \o m) \o b
    BY DEF InsertAt, a, b, m
  <1>8. ASSUME NEW k \in 1..Len(s) + 1
        PROVE  InsertAt(s, j, e)[k] = IF k < j THEN s[k]
                                      ELSE IF k = j THEN e ELSE s[k - 1]
    <2>1. CASE k <= j
      BY <1>0, <1>2, <1>5, <1>6, <1>7, <2>1
    <2>2. CASE k > j
      <3>1. k - j \in 1..Len(s) - j + 1 /\ j + (k - j) - 1 = k - 1 /\ ~(k <= j)
        BY <1>0, <2>2
      <3>2. b[k - j] = s[k - 1]
        BY <1>3, <3>1
      <3>. QED
        BY <1>0, <1>6, <1>7, <2>2, <3>2
    <2>. QED
      BY <1>0, <2>1, <2>2
  <1>. QED
    BY <1>6, <1>7, <1>8 DEF IsWith

(* A handle that is in the list once is in it no more, and the other       *)
(* handles still are, once each.                                           *)
LEMMA TakenOut ==
  ASSUME NEW S, NEW s \in Seq(S), NEW i \in 1..Len(s), IsInjective(s)
  PROVE  /\ RemoveAt(s, i) \in Seq(S) /\ Len(RemoveAt(s, i)) = Len(s) - 1
         /\ IsInjective(RemoveAt(s, i))
         /\ ToSet(RemoveAt(s, i)) = ToSet(s) \ {s[i]}
  <1>. DEFINE r == RemoveAt(s, i)
             n == Len(s)
  <1>0. n \in Nat /\ i \in Nat /\ i >= 1 /\ i <= n /\ DOMAIN s = 1..n
    BY LenProperties
  <1>1. /\ r \in Seq(S) /\ Len(r) = n - 1
        /\ \A k \in 1..n - 1 : r[k] = IF k < i THEN s[k] ELSE s[k + 1]
    BY RemovedAt
  <1>2. DOMAIN r = 1..n - 1
    BY <1>1, LenProperties
  <1>3. \A a, b \in 1..n : s[a] = s[b] => a = b
    BY <1>0 DEF IsInjective
  <1>. HIDE DEF r, n
  <1>4. ASSUME NEW a \in 1..n - 1, NEW b \in 1..n - 1, r[a] = r[b]
        PROVE  a = b
    <2>1. a \in 1..n /\ a + 1 \in 1..n /\ b \in 1..n /\ b + 1 \in 1..n
      BY <1>0
    <2>. QED
      BY <1>0, <1>1, <1>3, <1>4, <2>1
  <1>5. ASSUME NEW k \in 1..n - 1
        PROVE  \E m \in 1..n : m # i /\ r[k] = s[m]
    <2>1. k \in 1..n /\ k + 1 \in 1..n
      BY <1>0
    <2>. QED
      BY <1>0, <1>1, <2>1
  <1>6. ASSUME NEW m \in 1..n, m # i
        PROVE  \E k \in 1..n - 1 : r[k] = s[m]
    <2>1. CASE m < i
      <3>1. m \in 1..n - 1
        BY <1>0, <2>1
      <3>. QED
        BY <1>1, <2>1, <3>1
    <2>2. CASE m > i
      <3>1. m - 1 \in 1..n - 1 /\ ~(m - 1 < i) /\ m - 1 + 1 = m
        BY <1>0, <2>2
      <3>. QED
        BY <1>1, <3>1
    <2>. QED
      BY <1>0, <1>6, <2>1, <2>2
  <1>7. ToSet(r) = ToSet(s) \ {s[i]}
    <2>1. \A x : x \in ToSet(r) <=> \E k \in 1..n - 1 : x = r[k]
      BY <1>2 DEF ToSet
    <2>2. \A x : x \in ToSet(s) <=> \E m \in 1..n : x = s[m]
      BY <1>0 DEF ToSet
    <2>3. ASSUME NEW x \in ToSet(r)
          PROVE  x \in ToSet(s) /\ x # s[i]
      BY <1>0, <1>3, <1>5, <2>1, <2>2, <2>3
    <2>4. ASSUME NEW x \in ToSet(s), x # s[i]
          PROVE  x \in ToSet(r)
      BY <1>6, <2>1, <2>2, <2>4
    <2>. QED
      BY <2>3, <2>4
  <1>8. IsInjective(r)
    BY <1>2, <1>4 DEF IsInjective
  <1>. QED
    BY <1>1, <1>7, <1>8 DEF r, n

(* A handle that was not in the list is put in, at any place.              *)
LEMMA PutIn ==
  ASSUME NEW S, NEW s \in Seq(S), NEW e \in S, NEW t \in Seq(S),
         IsInjective(s), e \notin ToSet(s), NEW j \in 1..Len(s) + 1, IsWith(t, s, j, e)
  PROVE  IsInjective(t) /\ ToSet(t) = ToSet(s) \cup {e}
  <1>. DEFINE n == Len(s)
  <1>0. n \in Nat /\ j \in Nat /\ j >= 1 /\ j <= n + 1 /\ DOMAIN s = 1..n
        /\ DOMAIN t = 1..n + 1
    BY LenProperties DEF IsWith
  <1>1. \A a, b \in 1..n : s[a] = s[b] => a = b
    BY <1>0 DEF IsInjective
  <1>2. \A a \in 1..n : s[a] # e
    BY <1>0 DEF ToSet
  <1>3. \A k \in 1..n + 1 :
          t[k] = IF k < j THEN s[k] ELSE IF k = j THEN e ELSE s[k - 1]
    BY DEF IsWith
  <1>. HIDE DEF n
  <1>4. ASSUME NEW k \in 1..n + 1
        PROVE  /\ k < j => k \in 1..n
               /\ k > j => k - 1 \in 1..n
    BY <1>0
  <1>5. ASSUME NEW a \in 1..n + 1, NEW b \in 1..n + 1, t[a] = t[b]
        PROVE  a = b
    <2>1. a \in Nat /\ b \in Nat
      BY <1>0
    <2>2. CASE a < j
      BY <1>0, <1>1, <1>2, <1>3, <1>4, <1>5, <2>1, <2>2
    <2>3. CASE a = j
      BY <1>0, <1>1, <1>2, <1>3, <1>4, <1>5, <2>1, <2>3
    <2>4. CASE a > j
      BY <1>0, <1>1, <1>2, <1>3, <1>4, <1>5, <2>1, <2>4
    <2>. QED
      BY <1>0, <2>1, <2>2, <2>3, <2>4
  <1>6. ASSUME NEW m \in 1..n
        PROVE  \E k \in 1..n + 1 : t[k] = s[m]
    <2>1. CASE m < j
      <3>1. m \in 1..n + 1
        BY <1>0
      <3>. QED
        BY <1>3, <2>1, <3>1
    <2>2. CASE m >= j
      <3>1. m + 1 \in 1..n + 1 /\ ~(m + 1 < j) /\ m + 1 # j /\ m + 1 - 1 = m
        BY <1>0, <2>2
      <3>. QED
        BY <1>3, <3>1
    <2>. QED
      BY <1>0, <2>1, <2>2
  <1>7. j \in 1..n + 1 /\ t[j] = e
    BY <1>0, <1>3
  <1>8. ASSUME NEW k \in 1..n + 1
        PROVE  t[k] = e \/ \E m \in 1..n : t[k] = s[m]
    BY <1>0, <1>3, <1>4
  <1>9. ToSet(t) = ToSet(s) \cup {e}
    <2>1. \A x : x \in ToSet(t) <=> \E k \in 1..n + 1 : x = t[k]
      BY <1>0 DEF ToSet
    <2>2. \A x : x \in ToSet(s) <=> \E m \in 1..n : x = s[m]
      BY <1>0 DEF ToSet
    <2>3. ASSUME NEW x \in ToSet(t)
          PROVE  x \in ToSet(s) \/ x = e
      BY <1>8, <2>1, <2>2, <2>3
    <2>4. ASSUME NEW x \in ToSet(s)
          PROVE  x \in ToSet(t)
      BY <1>6, <2>1, <2>2, <2>4
    <2>5. e \in ToSet(t)
      BY <1>7, <2>1
    <2>. QED
      BY <2>3, <2>4, <2>5
  <1>. QED
    BY <1>0, <1>5, <1>9 DEF IsInjective

LEMMA PutAt ==
  ASSUME NEW S, NEW s \in Seq(S), NEW e \in S, NEW j \in 1..Len(s) + 1,
         IsInjective(s), e \notin ToSet(s)
  PROVE  /\ InsertAt(s, j, e) \in Seq(S) /\ IsInjective(InsertAt(s, j, e))
         /\ ToSet(InsertAt(s, j, e)) = ToSet(s) \cup {e}
  BY InsertedAt, PutIn

LEMMA AddedLast ==
  ASSUME NEW S, NEW s \in Seq(S), NEW e \in S
  PROVE  Append(s, e) \in Seq(S) /\ IsWith(Append(s, e), s, Len(s) + 1, e)
  <1>. DEFINE t == Append(s, e)
  <1>0. Len(s) \in Nat
    BY LenProperties
  <1>1. /\ t \in Seq(S) /\ Len(t) = Len(s) + 1 /\ t[Len(s) + 1] = e
        /\ \A k \in 1..Len(s) : t[k] = s[k]
    BY AppendProperties
  <1>. HIDE DEF t
  <1>2. ASSUME NEW k \in 1..Len(s) + 1
        PROVE  t[k] = IF k < Len(s) + 1 THEN s[k]
                      ELSE IF k = Len(s) + 1 THEN e ELSE s[k - 1]
    <2>1. k = Len(s) + 1 \/ (k < Len(s) + 1 /\ k \in 1..Len(s))
      BY <1>0
    <2>. QED
      BY <1>1, <2>1
  <1>3. IsWith(t, s, Len(s) + 1, e)
    BY <1>1, <1>2 DEF IsWith
  <1>. QED
    BY <1>1, <1>3 DEF t

LEMMA PutLast ==
  ASSUME NEW S, NEW s \in Seq(S), NEW e \in S, IsInjective(s), e \notin ToSet(s)
  PROVE  /\ Append(s, e) \in Seq(S) /\ IsInjective(Append(s, e))
         /\ ToSet(Append(s, e)) = ToSet(s) \cup {e}
  <1>1. Len(s) \in Nat /\ Len(s) + 1 \in 1..Len(s) + 1
    BY LenProperties
  <1>2. PICK t \in Seq(S) : t = Append(s, e) /\ IsWith(t, s, Len(s) + 1, e)
    BY AddedLast
  <1>3. IsInjective(t) /\ ToSet(t) = ToSet(s) \cup {e}
    <2>1. IsWith(t, s, Len(s) + 1, e)
      BY <1>2
    <2>. QED
      BY <1>1, <2>1, PutIn
  <1>. QED
    BY <1>2, <1>3

LEMMA AddedFirst ==
  ASSUME NEW S, NEW s \in Seq(S), NEW e \in S
  PROVE  <<e>> \o s \in Seq(S) /\ IsWith(<<e>> \o s, s, 1, e)
  <1>. DEFINE m == <<e>>
             t == m \o s
  <1>0. Len(s) \in Nat
    BY LenProperties
  <1>1. m \in Seq(S) /\ Len(m) = 1 /\ m[1] = e
    OBVIOUS
  <1>. HIDE DEF m
  <1>2. /\ t \in Seq(S) /\ Len(t) = Len(m) + Len(s)
        /\ \A k \in 1..Len(m) + Len(s) :
             t[k] = IF k <= Len(m) THEN m[k] ELSE s[k - Len(m)]
    BY <1>1, ConcatProperties
  <1>. HIDE DEF t
  <1>3. Len(t) = Len(s) + 1
    BY <1>0, <1>1, <1>2
  <1>4. ASSUME NEW k \in 1..Len(s) + 1
        PROVE  t[k] = IF k < 1 THEN s[k] ELSE IF k = 1 THEN e ELSE s[k - 1]
    <2>1. k = 1 \/ (k > 1 /\ ~(k <= Len(m)) /\ k - Len(m) = k - 1)
      BY <1>0, <1>1
    <2>2. k \in 1..Len(m) + Len(s) /\ ~(k < 1)
      BY <1>0, <1>1
    <2>. QED
      BY <1>1, <1>2, <2>1, <2>2
  <1>5. IsWith(t, s, 1, e)
    BY <1>3, <1>4 DEF IsWith
  <1>. QED
    BY <1>2, <1>5 DEF t, m

LEMMA PutFirst ==
  ASSUME NEW S, NEW s \in Seq(S), NEW e \in S, IsInjective(s), e \notin ToSet(s)
  PROVE  /\ <<e>> \o s \in Seq(S) /\ IsInjective(<<e>> \o s)
         /\ ToSet(<<e>> \o s) = ToSet(s) \cup {e}
  <1>1. Len(s) \in Nat /\ 1 \in 1..Len(s) + 1
    BY LenProperties
  <1>2. PICK t \in Seq(S) : t = <<e>> \o s /\ IsWith(t, s, 1, e)
    BY AddedFirst
  <1>3. IsInjective(t) /\ ToSet(t) = ToSet(s) \cup {e}
    <2>1. IsWith(t, s, 1, e)
      BY <1>2
    <2>. QED
      BY <1>1, <2>1, PutIn
  <1>. QED
    BY <1>2, <1>3

(* There is one way to put an element in a place.                          *)
LEMMA IsWithUnique ==
  ASSUME NEW S, NEW s \in Seq(S), NEW e, NEW j, NEW t \in Seq(S), NEW u \in Seq(S),
         IsWith(t, s, j, e), IsWith(u, s, j, e)
  PROVE  t = u
  BY SeqEqual DEF IsWith

(* The loops of the code look for the first of several positions.          *)
LEMMA LeastOf ==
  ASSUME NEW T, T \subseteq Nat, T # {}
  PROVE  \E x \in T : \A y \in T : x <= y
  <1>. DEFINE Below(x) == 1..x
             R == StrictSubsetOrdering(Nat)
             W == {Below(x) : x \in T}
  <1>1. IsWellFoundedOn(R, FiniteSubsetsOf(Nat))
    BY FS_StrictSubsetOrderingWellFounded
  <1>2. W \subseteq FiniteSubsetsOf(Nat) /\ W # {}
    <2>1. ASSUME NEW x \in T
          PROVE  IsFiniteSet(1..x) /\ 1..x \subseteq Nat
      BY FS_Interval
    <2>. QED
      BY <2>1 DEF FiniteSubsetsOf
  <1>3. PICK w \in W : \A v \in W : ~ (<<v, w>> \in R)
    <2>. HIDE DEF R, W
    <2>. QED
      BY <1>1, <1>2, WFMin
  <1>4. PICK x \in T : w = 1..x
    OBVIOUS
  <1>5. ASSUME NEW y \in T, y < x
        PROVE  FALSE
    <2>1. 1..y \subseteq 1..x /\ x \in 1..x /\ x \notin 1..y /\ x \in Nat /\ y \in Nat
      BY <1>5
    <2>2. 1..y # 1..x /\ 1..y \in SUBSET Nat /\ 1..x \in SUBSET Nat
      BY <2>1
    <2>3. <<1..y, w>> \in R
      BY <1>4, <2>1, <2>2 DEF StrictSubsetOrdering
    <2>. QED
      BY <1>3, <2>3
  <1>. QED
    BY <1>5
(* A sequence is one over any set that holds its elements.                 *)
LEMMA SeqOver ==
  ASSUME NEW S, NEW s \in Seq(S), NEW T, ToSet(s) \subseteq T
  PROVE  s \in Seq(T)
  <1>1. Len(s) \in Nat /\ DOMAIN s = 1..Len(s) /\ 1 \in Int /\ Len(s) \in Int
    BY LenProperties
  <1>2. \A i \in 1..Len(s) : s[i] \in T
    BY <1>1 DEF ToSet
  <1>3. SubSeq(s, 1, Len(s)) \in Seq(T)
    BY <1>1, <1>2, SubSeqProperties
  <1>. QED
    BY <1>3, SubSeqFull

LEMMA Elements ==
  ASSUME NEW S, NEW s \in Seq(S)
  PROVE  /\ ToSet(s) \subseteq S
         /\ \A x : x \in ToSet(s) <=> \E i \in 1..Len(s) : x = s[i]
         /\ s = <<>> <=> ToSet(s) = {}
  <1>1. Len(s) \in Nat /\ DOMAIN s = 1..Len(s) /\ \A i \in 1..Len(s) : s[i] \in S
    BY LenProperties, ElementOfSeq
  <1>2. \A x : x \in ToSet(s) <=> \E i \in 1..Len(s) : x = s[i]
    BY <1>1 DEF ToSet
  <1>3. s # <<>> => 1 \in 1..Len(s)
    BY <1>1, EmptySeq
  <1>4. s = <<>> => ToSet(s) = {}
    <2>1. Len(<<>>) = 0
      BY EmptySeq
    <2>. QED
      BY <1>2, <2>1
  <1>. QED
    BY <1>1, <1>2, <1>3, <1>4

(* The head leaves a queue.                                                *)
LEMMA HeadLeaves ==
  ASSUME NEW S, NEW s \in Seq(S), s # <<>>, IsInjective(s)
  PROVE  /\ Head(s) \in ToSet(s)
         /\ Tail(s) \in Seq(S) /\ IsInjective(Tail(s))
         /\ ToSet(Tail(s)) = ToSet(s) \ {Head(s)}
  <1>1. Len(s) \in Nat /\ 1 \in 1..Len(s) /\ Head(s) = s[1] /\ DOMAIN s = 1..Len(s)
    BY EmptySeq, LenProperties
  <1>2. Tail(s) \in Seq(S) /\ Tail(s) = SubSeq(s, 2, Len(s))
    BY HeadTailProperties, TailIsSubSeq
  <1>3. SubSeq(s, 1, 1 - 1) = <<>>
    BY SubSeqEmpty
  <1>4. RemoveAt(s, 1) = <<>> \o Tail(s)
    BY <1>2, <1>3 DEF RemoveAt
  <1>5. RemoveAt(s, 1) = Tail(s)
    BY <1>2, <1>4, ConcatEmptySeq
  <1>6. Head(s) \in ToSet(s)
    BY <1>1 DEF ToSet
  <1>7. IsInjective(RemoveAt(s, 1)) /\ ToSet(RemoveAt(s, 1)) = ToSet(s) \ {s[1]}
    BY <1>1, TakenOut
  <1>. QED
    BY <1>1, <1>2, <1>5, <1>6, <1>7

(* All the elements of a finite set in some order.                         *)
LEMMA InSomeOrder ==
  ASSUME NEW S, IsFiniteSet(S), NEW s \in SetToSeqs(S)
  PROVE  s \in Seq(S) /\ IsInjective(s) /\ ToSet(s) = S
  <1>. DEFINE n == Cardinality(S)
  <1>1. n \in Nat
    BY FS_CardinalityType
  <1>2. s \in [1..n -> S] /\ \A i, j \in 1..n : i # j => s[i] # s[j]
    BY DEF SetToSeqs
  <1>3. s \in Seq(S)
    BY <1>1, <1>2, SeqDef
  <1>4. IsInjective(s)
    BY <1>2 DEF IsInjective
  <1>5. s \in Injection(1..n, S)
    BY <1>2, <1>4 DEF Injection
  <1>6. Cardinality(1..n) = n
    BY <1>1, FS_Interval
  <1>7. s \in Surjection(1..n, S)
    BY <1>5, <1>6, FS_Injection
  <1>8. ToSet(s) = S
    BY <1>2, <1>7 DEF ToSet, Surjection
  <1>. QED
    BY <1>3, <1>4, <1>8

(* Two queues one behind the other.                                        *)
LEMMA Joined ==
  ASSUME NEW S, NEW s \in Seq(S), NEW t \in Seq(S), IsInjective(s), IsInjective(t),
         ToSet(s) \cap ToSet(t) = {}
  PROVE  s \o t \in Seq(S) /\ IsInjective(s \o t) /\ ToSet(s \o t) = ToSet(s) \cup ToSet(t)
  <1>. DEFINE m == Len(s)
             n == Len(t)
             r == s \o t
  <1>1. /\ m \in Nat /\ n \in Nat /\ DOMAIN s = 1..m /\ DOMAIN t = 1..n
    BY LenProperties
  <1>2. /\ r \in Seq(S) /\ Len(r) = m + n
        /\ \A i \in 1..m + n : r[i] = IF i <= m THEN s[i] ELSE t[i - m]
    BY ConcatProperties
  <1>3. DOMAIN r = 1..m + n
    BY <1>2, LenProperties
  <1>4. /\ \A x : x \in ToSet(s) <=> \E i \in 1..m : x = s[i]
        /\ \A x : x \in ToSet(t) <=> \E i \in 1..n : x = t[i]
        /\ \A x : x \in ToSet(r) <=> \E i \in 1..m + n : x = r[i]
    BY <1>1, <1>3 DEF ToSet
  <1>5. /\ \A i, j \in 1..m : s[i] = s[j] => i = j
        /\ \A i, j \in 1..n : t[i] = t[j] => i = j
    BY <1>1 DEF IsInjective
  <1>. HIDE DEF m, n, r
  <1>6. ASSUME NEW i \in 1..m + n
        PROVE  \/ i <= m /\ i \in 1..m /\ r[i] = s[i] /\ r[i] \in ToSet(s)
               \/ i > m /\ i - m \in 1..n /\ r[i] = t[i - m] /\ r[i] \in ToSet(t)
    <2>1. (i <= m /\ i \in 1..m) \/ (i > m /\ ~(i <= m) /\ i - m \in 1..n)
      BY <1>1
    <2>. QED
      BY <1>2, <1>4, <2>1
  <1>7. ASSUME NEW i \in 1..m + n, NEW j \in 1..m + n, r[i] = r[j]
        PROVE  i = j
    <2>1. i \in Int /\ j \in Int
      BY <1>1
    <2>2. CASE i <= m
      BY <1>1, <1>5, <1>6, <1>7, <2>1, <2>2
    <2>3. CASE i > m
      <3>1. j > m /\ i - m \in 1..n /\ j - m \in 1..n /\ t[i - m] = t[j - m]
        BY <1>1, <1>6, <1>7, <2>1, <2>3
      <3>. QED
        BY <1>1, <1>5, <2>1, <3>1
    <2>. QED
      BY <1>1, <2>1, <2>2, <2>3
  <1>8. ASSUME NEW x \in ToSet(s)
        PROVE  x \in ToSet(r)
    <2>1. PICK i \in 1..m : x = s[i]
      BY <1>4
    <2>2. i \in 1..m + n /\ i <= m
      BY <1>1
    <2>. QED
      BY <1>2, <1>4, <2>1, <2>2
  <1>9. ASSUME NEW x \in ToSet(t)
        PROVE  x \in ToSet(r)
    <2>1. PICK i \in 1..n : x = t[i]
      BY <1>4
    <2>2. i + m \in 1..m + n /\ ~(i + m <= m) /\ (i + m) - m = i
      BY <1>1
    <2>3. r[i + m] = t[i]
      BY <1>2, <2>2
    <2>. QED
      BY <1>4, <2>1, <2>2, <2>3
  <1>10. ToSet(r) \subseteq ToSet(s) \cup ToSet(t)
    BY <1>4, <1>6
  <1>11. IsInjective(r)
    BY <1>3, <1>7 DEF IsInjective
  <1>. QED
    BY <1>2, <1>8, <1>9, <1>10, <1>11 DEF r

(* Cardinalities of two sets that change together.                         *)
LEMMA BothGrow ==
  ASSUME NEW A, NEW B, NEW x, IsFiniteSet(A), IsFiniteSet(B), x \notin B,
         Cardinality(A) <= Cardinality(B)
  PROVE  Cardinality(A \cup {x}) <= Cardinality(B \cup {x})
  <1>1. /\ Cardinality(A) \in Nat /\ Cardinality(B) \in Nat
    BY FS_CardinalityType
  <1>2. /\ Cardinality(B \cup {x}) = Cardinality(B) + 1
        /\ Cardinality(A \cup {x}) = IF x \in A THEN Cardinality(A) ELSE Cardinality(A) + 1
    BY FS_AddElement
  <1>. QED
    BY <1>1, <1>2

LEMMA BothShrink ==
  ASSUME NEW A, NEW B, NEW x \in A, NEW y, IsFiniteSet(A), IsFiniteSet(B),
         Cardinality(A) <= Cardinality(B)
  PROVE  Cardinality(A \ {x}) <= Cardinality(B \ {y})
  <1>1. /\ Cardinality(A) \in Nat /\ Cardinality(B) \in Nat
    BY FS_CardinalityType
  <1>2. /\ Cardinality(A \ {x}) = Cardinality(A) - 1
        /\ Cardinality(B \ {y}) = IF y \in B THEN Cardinality(B) - 1 ELSE Cardinality(B)
    BY FS_RemoveElement
  <1>. QED
    BY <1>1, <1>2

(* A sequence of keys and the sequence of what a function has for them.    *)
Mapped(f, s) == [i \in DOMAIN s |-> f[s[i]]]

LEMMA MappedSeq ==
  ASSUME NEW S, NEW s \in Seq(S), NEW T, NEW f, \A i \in 1..Len(s) : f[s[i]] \in T
  PROVE  /\ Mapped(f, s) \in Seq(T) /\ Len(Mapped(f, s)) = Len(s)
         /\ \A i \in 1..Len(s) : Mapped(f, s)[i] = f[s[i]]
  <1>1. Len(s) \in Nat /\ DOMAIN s = 1..Len(s)
    BY LenProperties
  <1>. DEFINE m == [i \in 1..Len(s) |-> f[s[i]]]
  <1>2. m \in [1..Len(s) -> T]
    OBVIOUS
  <1>3. m \in Seq(T)
    BY <1>1, <1>2, IsASeq
  <1>4. DOMAIN m = 1..Len(s) /\ Mapped(f, s) = m /\ \A i \in 1..Len(s) : m[i] = f[s[i]]
    BY <1>1 DEF Mapped
  <1>. HIDE DEF m
  <1>5. Len(m) = Len(s)
    BY <1>1, <1>3, <1>4, LenProperties
  <1>. QED
    BY <1>3, <1>4, <1>5

LEMMA MappedAlike ==
  ASSUME NEW S, NEW s \in Seq(S), NEW f, NEW g, \A i \in 1..Len(s) : f[s[i]] = g[s[i]]
  PROVE  Mapped(f, s) = Mapped(g, s)
  <1>1. DOMAIN s = 1..Len(s)
    BY LenProperties
  <1>. QED
    BY <1>1 DEF Mapped

LEMMA MappedRemoved ==
  ASSUME NEW S, NEW s \in Seq(S), NEW T, NEW f, \A i \in 1..Len(s) : f[s[i]] \in T,
         NEW i \in 1..Len(s)
  PROVE  /\ Mapped(f, RemoveAt(s, i)) = RemoveAt(Mapped(f, s), i)
         /\ RemoveAt(Mapped(f, s), i) \in Seq(T)
  <1>. DEFINE r == RemoveAt(s, i)
             m == Mapped(f, s)
             n == Len(s)
  <1>0. n \in Nat /\ i \in 1..n
    BY LenProperties
  <1>1. /\ r \in Seq(S) /\ Len(r) = n - 1
        /\ \A k \in 1..n - 1 : r[k] = IF k < i THEN s[k] ELSE s[k + 1]
    BY RemovedAt
  <1>2. m \in Seq(T) /\ Len(m) = n /\ \A k \in 1..n : m[k] = f[s[k]]
    BY MappedSeq
  <1>3. /\ RemoveAt(m, i) \in Seq(T) /\ Len(RemoveAt(m, i)) = n - 1
        /\ \A k \in 1..n - 1 : RemoveAt(m, i)[k] = IF k < i THEN m[k] ELSE m[k + 1]
    <2>. HIDE DEF m
    <2>1. i \in 1..Len(m)
      BY <1>0, <1>2
    <2>. QED
      BY <1>2, <2>1, RemovedAt
  <1>. HIDE DEF r, m, n
  <1>4. ASSUME NEW k \in 1..n - 1
        PROVE  f[r[k]] = RemoveAt(m, i)[k] /\ RemoveAt(m, i)[k] \in T
    <2>1. k \in 1..n /\ k + 1 \in 1..n
      BY <1>0
    <2>2. f[r[k]] = RemoveAt(m, i)[k]
      BY <1>1, <1>2, <1>3, <2>1
    <2>3. RemoveAt(m, i)[k] \in T
      BY <1>3, ElementOfSeq
    <2>. QED
      BY <2>2, <2>3
  <1>5. \A k \in 1..Len(r) : f[r[k]] \in T
    BY <1>1, <1>4
  <1>6. /\ Mapped(f, r) \in Seq(T) /\ Len(Mapped(f, r)) = n - 1
        /\ \A k \in 1..n - 1 : Mapped(f, r)[k] = f[r[k]]
    <2>1. r \in Seq(S)
      BY <1>1
    <2>2. /\ Mapped(f, r) \in Seq(T) /\ Len(Mapped(f, r)) = Len(r)
          /\ \A k \in 1..Len(r) : Mapped(f, r)[k] = f[r[k]]
      <3>1. PICK q \in Seq(S) : q = r
        BY <2>1
      <3>2. \A k \in 1..Len(q) : f[q[k]] \in T
        BY <1>5, <3>1
      <3>3. /\ Mapped(f, q) \in Seq(T) /\ Len(Mapped(f, q)) = Len(q)
            /\ \A k \in 1..Len(q) : Mapped(f, q)[k] = f[q[k]]
        BY <3>2, MappedSeq
      <3>. QED
        BY <3>1, <3>3
    <2>. QED
      BY <1>1, <2>2
  <1>7. Mapped(f, r) = RemoveAt(m, i)
    BY <1>3, <1>4, <1>6, SeqEqual
  <1>. QED
    BY <1>3, <1>7 DEF r, m

LEMMA MappedWith ==
  ASSUME NEW S, NEW s \in Seq(S), NEW t \in Seq(S), NEW T, NEW f, NEW j \in 1..Len(s) + 1, NEW e,
         IsWith(t, s, j, e), \A i \in 1..Len(s) : f[s[i]] \in T, f[e] \in T
  PROVE  /\ Mapped(f, t) \in Seq(T) /\ Mapped(f, s) \in Seq(T)
         /\ IsWith(Mapped(f, t), Mapped(f, s), j, f[e])
  <1>. DEFINE n == Len(s)
  <1>0. n \in Nat /\ j \in 1..n + 1
    BY LenProperties
  <1>1. /\ Len(t) = n + 1
        /\ \A k \in 1..n + 1 : t[k] = IF k < j THEN s[k] ELSE IF k = j THEN e ELSE s[k - 1]
    BY DEF IsWith
  <1>2. /\ Mapped(f, s) \in Seq(T) /\ Len(Mapped(f, s)) = n
        /\ \A k \in 1..n : Mapped(f, s)[k] = f[s[k]]
    <2>1. s \in Seq(S) /\ \A i \in 1..Len(s) : f[s[i]] \in T
      OBVIOUS
    <2>. QED
      BY ONLY <2>1, MappedSeq
  <1>3. \A i \in 1..n : f[s[i]] \in T
    OBVIOUS
  <1>. HIDE DEF n
  <1>4. ASSUME NEW k \in 1..n + 1
        PROVE  /\ f[t[k]] \in T
               /\ f[t[k]] = IF k < j THEN Mapped(f, s)[k]
                            ELSE IF k = j THEN f[e] ELSE Mapped(f, s)[k - 1]
    <2>1. k < j => k \in 1..n
      BY <1>0
    <2>2. ~(k < j) /\ k # j => k - 1 \in 1..n
      BY <1>0
    <2>. QED
      BY <1>1, <1>2, <1>3, <2>1, <2>2
  <1>5. /\ Mapped(f, t) \in Seq(T) /\ Len(Mapped(f, t)) = n + 1
        /\ \A k \in 1..n + 1 : Mapped(f, t)[k] = f[t[k]]
    <2>1. \A k \in 1..Len(t) : f[t[k]] \in T
      BY <1>1, <1>4
    <2>2. /\ Mapped(f, t) \in Seq(T) /\ Len(Mapped(f, t)) = Len(t)
          /\ \A k \in 1..Len(t) : Mapped(f, t)[k] = f[t[k]]
      BY ONLY t \in Seq(S), <2>1, MappedSeq
    <2>. QED
      BY <1>1, <2>2
  <1>6. IsWith(Mapped(f, t), Mapped(f, s), j, f[e])
    BY <1>2, <1>4, <1>5 DEF IsWith
  <1>. QED
    BY <1>2, <1>5, <1>6
=============================================================================
