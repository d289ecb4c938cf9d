--------------------------- MODULE ListingProofs ---------------------------
(***************************************************************************)
(* No request of a plugin goes astray, and a listing that fits its buffer  *)
(* is complete, whatever the keys, the prefixes, the page sizes and the    *)
(* settings, and whatever the plugin does between two pages.               *)
(***************************************************************************)
EXTENDS AddressingProofs

-----------------------------------------------------------------------------
(***************************************************************************)
(* The order of keys.                                                      *)
(***************************************************************************)

\* a and b agree up to n, and there b goes on with more.
LessAt(a, b, n) ==
  /\ n \in Nat /\ n <= Len(a) /\ n < Len(b) /\ \A i \in 1..n : a[i] = b[i]
  /\ n = Len(a) \/ a[n + 1] < b[n + 1]

\* Less compares at the first position where two strings differ.
LEMMA LessIs ==
  ASSUME NEW a \in Seq(Nat), NEW b \in Seq(Nat)
  PROVE  Less(a, b) <=> \E n \in Nat : LessAt(a, b, n)
<1>1. Len(a) \in Nat /\ Len(b) \in Nat
  OBVIOUS
<1>2. ASSUME NEW n \in 0..Len(a), n < Len(b)
      PROVE  SubSeq(a, 1, n) = SubSeq(b, 1, n) <=> \A i \in 1..n : a[i] = b[i]
  <2>1. \A i \in 1..n : i \in 1..Len(a) /\ i \in 1..Len(b) /\ 1 + i - 1 = i
    BY <1>1, <1>2
  <2>2. n \in Int /\ 1 \in Int /\ n - 1 + 1 = n /\ (1 <= n => n - 1 + 1 = n) /\ (~(1 <= n) => n = 0)
    BY <1>1
  <2>3. \A i \in 1..n : a[i] \in Nat /\ b[i] \in Nat
    BY <2>1, ElementOfSeq
  <2>4. /\ SubSeq(a, 1, n) \in Seq(Nat) /\ Len(SubSeq(a, 1, n)) = n
        /\ \A i \in 1..n : SubSeq(a, 1, n)[i] = a[i]
    <3>1. /\ SubSeq(a, 1, n) \in Seq(Nat) /\ Len(SubSeq(a, 1, n)) = IF 1 <= n THEN n - 1 + 1 ELSE 0
          /\ \A i \in 1..(n - 1 + 1) : SubSeq(a, 1, n)[i] = a[1 + i - 1]
      BY <2>2, <2>3, SubSeqProperties
    <3> QED BY <2>1, <2>2, <3>1
  <2>5. /\ SubSeq(b, 1, n) \in Seq(Nat) /\ Len(SubSeq(b, 1, n)) = n
        /\ \A i \in 1..n : SubSeq(b, 1, n)[i] = b[i]
    <3>1. /\ SubSeq(b, 1, n) \in Seq(Nat) /\ Len(SubSeq(b, 1, n)) = IF 1 <= n THEN n - 1 + 1 ELSE 0
          /\ \A i \in 1..(n - 1 + 1) : SubSeq(b, 1, n)[i] = b[1 + i - 1]
      BY <2>2, <2>3, SubSeqProperties
    <3> QED BY <2>1, <2>2, <3>1
  <2>6. ASSUME \A i \in 1..n : a[i] = b[i] PROVE SubSeq(a, 1, n) = SubSeq(b, 1, n)
    <3>1. \A i \in 1..n : SubSeq(a, 1, n)[i] = SubSeq(b, 1, n)[i]
      BY <2>4, <2>5, <2>6
    <3> QED BY <2>4, <2>5, <3>1, SeqEqual
  <2>7. ASSUME SubSeq(a, 1, n) = SubSeq(b, 1, n), NEW i \in 1..n PROVE a[i] = b[i]
    BY <2>4, <2>5, <2>7
  <2> QED BY <2>6, <2>7
<1>3. ASSUME Less(a, b) PROVE \E n \in Nat : LessAt(a, b, n)
  <2>1. PICK n \in 0..Len(a) :
          /\ n < Len(b) /\ SubSeq(a, 1, n) = SubSeq(b, 1, n)
          /\ n = Len(a) \/ a[n + 1] < b[n + 1]
    BY <1>3 DEF Less
  <2>2. \A i \in 1..n : a[i] = b[i]
    BY <1>2, <2>1
  <2>3. n \in Nat /\ n <= Len(a)
    BY <1>1
  <2> QED BY <2>1, <2>2, <2>3 DEF LessAt
<1>4. ASSUME NEW n \in Nat, LessAt(a, b, n) PROVE Less(a, b)
  <2>1. n \in 0..Len(a) /\ n < Len(b) /\ \A i \in 1..n : a[i] = b[i]
    BY <1>1, <1>4 DEF LessAt
  <2>2. SubSeq(a, 1, n) = SubSeq(b, 1, n)
    BY <1>2, <2>1
  <2> QED BY <1>4, <2>1, <2>2 DEF LessAt, Less
<1> QED BY <1>3, <1>4

\* The order of keys is strict,
LEMMA LessIrreflexive ==
  ASSUME NEW a \in Seq(Nat)
  PROVE  ~Less(a, a)
<1>1. ASSUME NEW n \in Nat, LessAt(a, a, n) PROVE FALSE
  <2>1. n + 1 \in 1..Len(a) /\ a[n + 1] < a[n + 1]
    BY <1>1 DEF LessAt
  <2>2. a[n + 1] \in Nat
    BY <2>1, ElementOfSeq
  <2> QED BY <2>1, <2>2
<1> QED BY <1>1, LessIs

\* transitive
LEMMA LessTransitive ==
  ASSUME NEW a \in Seq(Nat), NEW b \in Seq(Nat), NEW c \in Seq(Nat), Less(a, b), Less(b, c)
  PROVE  Less(a, c)
<1>1. PICK n \in Nat : LessAt(a, b, n)
  BY LessIs
<1>2. PICK m \in Nat : LessAt(b, c, m)
  BY LessIs
<1>3. Len(a) \in Nat /\ Len(b) \in Nat /\ Len(c) \in Nat
  BY LenProperties
<1>4. CASE n <= m
  <2>1. n < Len(c) /\ n <= Len(a) /\ n < Len(b)
    <3>1. m < Len(c)
      BY <1>2 DEF LessAt
    <3>2. n <= Len(a) /\ n < Len(b)
      BY <1>1 DEF LessAt
    <3> QED BY <1>3, <1>4, <3>1, <3>2
  <2>2. \A i \in 1..n : a[i] = c[i]
    <3>1. \A i \in 1..n : i \in 1..m
      BY <1>4
    <3> QED BY <1>1, <1>2, <3>1 DEF LessAt
  <2>3. ASSUME n # Len(a) PROVE a[n + 1] < c[n + 1]
    <3>1. n + 1 \in 1..Len(a) /\ n + 1 \in 1..Len(b) /\ n + 1 \in 1..Len(c)
      BY <1>3, <2>1, <2>3
    <3>2. a[n + 1] < b[n + 1] /\ a[n + 1] \in Nat /\ b[n + 1] \in Nat /\ c[n + 1] \in Nat
      <4>1. a[n + 1] < b[n + 1]
        BY <1>1, <2>3 DEF LessAt
      <4> QED BY <3>1, <4>1, ElementOfSeq
    <3>3. b[n + 1] = c[n + 1] \/ b[n + 1] < c[n + 1]
      <4>1. n = m \/ n + 1 \in 1..m
        BY <1>4
      <4>2. ASSUME n = m PROVE b[n + 1] < c[n + 1]
        <5>1. m # Len(b)
          BY <1>3, <2>1, <4>2
        <5>2. b[m + 1] < c[m + 1]
          BY <1>2, <5>1 DEF LessAt
        <5> QED BY <4>2, <5>2
      <4>3. ASSUME n + 1 \in 1..m PROVE b[n + 1] = c[n + 1]
        BY <1>2, <4>3 DEF LessAt
      <4> QED BY <4>1, <4>2, <4>3
    <3> QED BY <3>2, <3>3
  <2>4. LessAt(a, c, n)
    BY <2>1, <2>2, <2>3 DEF LessAt
  <2> QED BY <2>4, LessIs
<1>5. CASE m < n
  <2>1. m < Len(c) /\ m <= Len(a) /\ m < Len(b) /\ m + 1 \in 1..n
    <3>1. m < Len(c)
      BY <1>2 DEF LessAt
    <3>2. n <= Len(a) /\ n < Len(b)
      BY <1>1 DEF LessAt
    <3> QED BY <1>3, <1>5, <3>1, <3>2
  <2>2. \A i \in 1..m : a[i] = c[i]
    <3>1. \A i \in 1..m : i \in 1..n
      BY <1>5
    <3> QED BY <1>1, <1>2, <3>1 DEF LessAt
  <2>3. a[m + 1] = b[m + 1]
    BY <1>1, <2>1 DEF LessAt
  <2>4. b[m + 1] < c[m + 1]
    <3>1. m # Len(b)
      BY <1>3, <2>1
    <3> QED BY <1>2, <3>1 DEF LessAt
  <2>5. LessAt(a, c, m)
    BY <2>1, <2>2, <2>3, <2>4 DEF LessAt
  <2> QED BY <2>5, LessIs
<1> QED BY <1>4, <1>5

\* and total.
LEMMA LessTotal ==
  ASSUME NEW a \in Seq(Nat), NEW b \in Seq(Nat), a # b
  PROVE  Less(a, b) \/ Less(b, a)
<1> DEFINE Apart == {i \in Nat \ {0} : i > Len(a) \/ i > Len(b) \/ a[i] # b[i]}
<1>1. /\ Len(a) \in Nat /\ Len(b) \in Nat
  OBVIOUS
<1>2. PICK i \in Apart : \A k \in Apart : i <= k
  <2>1. Len(a) + 1 \in Apart
    BY <1>1
  <2>2. Apart \subseteq Nat
    OBVIOUS
  <2> HIDE DEF Apart
  <2> QED BY <2>1, <2>2, LeastNatural
<1>3. i \in Nat /\ i # 0
  OBVIOUS
<1>4. PICK n \in Nat : i = n + 1
  <2>1. i - 1 \in Nat /\ i = (i - 1) + 1
    BY <1>3
  <2> QED BY <2>1
<1>5. \A k \in 1..n : k <= Len(a) /\ k <= Len(b) /\ a[k] = b[k]
  <2>1. \A k \in 1..n : k \in Nat \ {0} /\ ~(i <= k)
    BY <1>4
  <2>2. \A k \in 1..n : k \notin Apart
    <3> HIDE DEF Apart
    <3> QED BY <1>2, <2>1
  <2>3. \A k \in 1..n : ~(k > Len(a)) /\ ~(k > Len(b)) /\ a[k] = b[k]
    BY <2>1, <2>2
  <2> QED BY <1>1, <2>3
<1>6. n <= Len(a) /\ n <= Len(b)
  <2>1. CASE n = 0
    BY <1>1, <2>1
  <2>2. CASE n # 0
    <3>1. n \in 1..n
      BY <2>2
    <3> QED BY <1>5, <3>1
  <2> QED BY <2>1, <2>2
<1>7. i > Len(a) \/ i > Len(b) \/ a[i] # b[i]
  OBVIOUS
<1> HIDE DEF Apart
<1>8. CASE n = Len(a) /\ n = Len(b)
  <2>1. \A k \in 1..Len(a) : a[k] = b[k]
    BY <1>5, <1>8
  <2> QED BY <1>8, <2>1, SeqEqual
<1>9. CASE n = Len(a) /\ n # Len(b)
  <2>1. LessAt(a, b, n)
    BY <1>1, <1>5, <1>6, <1>9 DEF LessAt
  <2> QED BY <2>1, LessIs
<1>10. CASE n # Len(a) /\ n = Len(b)
  <2>1. \A k \in 1..n : b[k] = a[k]
    BY <1>5
  <2>2. LessAt(b, a, n)
    BY <1>1, <1>6, <1>10, <2>1 DEF LessAt
  <2> QED BY <2>2, LessIs
<1>11. CASE n # Len(a) /\ n # Len(b)
  <2>1. n + 1 \in 1..Len(a) /\ n + 1 \in 1..Len(b) /\ a[n + 1] # b[n + 1]
    BY <1>1, <1>4, <1>6, <1>7, <1>11
  <2>2. a[n + 1] \in Nat /\ b[n + 1] \in Nat
    BY <2>1, ElementOfSeq
  <2>3. CASE a[n + 1] < b[n + 1]
    <3>1. n < Len(b)
      BY <1>1, <1>6, <1>11
    <3>2. LessAt(a, b, n)
      BY <1>5, <1>6, <2>3, <3>1 DEF LessAt
    <3> QED BY <3>2, LessIs
  <2>4. CASE b[n + 1] < a[n + 1]
    <3>1. n < Len(a)
      BY <1>1, <1>6, <1>11
    <3>2. \A k \in 1..n : b[k] = a[k]
      BY <1>5
    <3>3. LessAt(b, a, n)
      BY <1>6, <2>4, <3>1, <3>2 DEF LessAt
    <3> QED BY <3>3, LessIs
  <2> QED BY <2>1, <2>2, <2>3, <2>4
<1> QED BY <1>8, <1>9, <1>10, <1>11

-----------------------------------------------------------------------------
(***************************************************************************)
(* Sets of keys in order.                                                  *)
(***************************************************************************)

KeySets == {S \in SUBSET Seq(Nat) : IsFiniteSet(S)}

\* The last key of a set.
IsLastOf(S, m) == m \in S /\ \A x \in S \ {m} : Less(x, m)

\* A finite set of keys has a last one: were there a set without, a least one would have a
\* key to take away that leaves another.
LEMMA HasLast ==
  ASSUME NEW S \in KeySets, S # {}
  PROVE  \E m \in S : IsLastOf(S, m)
<1> DEFINE Lacks(T) == T # {} /\ \A m \in T : ~IsLastOf(T, m)
           Sizes == {n \in Nat : \E T \in KeySets : Cardinality(T) = n /\ Lacks(T)}
<1>1. ASSUME Sizes # {} PROVE FALSE
  <2>1. PICK n \in Sizes : \A k \in Sizes : n <= k
    <3>1. Sizes \subseteq Nat
      OBVIOUS
    <3> HIDE DEF Sizes
    <3> QED BY <1>1, <3>1, LeastNatural
  <2>2. PICK T \in KeySets : Cardinality(T) = n /\ Lacks(T)
    OBVIOUS
  <2>3. PICK x \in T : TRUE
    BY <2>2
  <2>4. IsFiniteSet(T) /\ x \in Seq(Nat) /\ T \subseteq Seq(Nat)
    BY <2>2, <2>3 DEF KeySets
  <2>5. PICK rest : rest = T \ {x}
    OBVIOUS
  <2>6. rest \in KeySets /\ Cardinality(rest) = n - 1 /\ n - 1 \in Nat
    <3>1. IsFiniteSet(T \ {x}) /\ Cardinality(T \ {x}) = Cardinality(T) - 1
      BY <2>3, <2>4, FS_RemoveElement
    <3>2. Cardinality(T \ {x}) \in Nat
      BY <3>1, FS_CardinalityType
    <3> QED BY <2>2, <2>4, <2>5, <3>1, <3>2 DEF KeySets
  <2>7. ~Lacks(rest)
    <3>1. n \in Nat /\ ~(n <= n - 1)
      OBVIOUS
    <3>2. n - 1 \notin Sizes
      <4> HIDE DEF Sizes
      <4> QED BY <2>1, <3>1
    <3> QED BY <2>6, <3>2
  <2>8. CASE rest = {}
    <3>1. IsLastOf(T, x)
      BY <2>3, <2>5, <2>8 DEF IsLastOf
    <3> QED BY <2>2, <2>3, <3>1
  <2>9. CASE rest # {}
    <3>1. PICK m \in rest : IsLastOf(rest, m)
      BY <2>7, <2>9
    <3>2. m \in T /\ m # x /\ m \in Seq(Nat)
      BY <2>4, <2>5
    <3>3. CASE Less(x, m)
      <4>1. IsLastOf(T, m)
        BY <2>5, <3>1, <3>2, <3>3 DEF IsLastOf
      <4> QED BY <2>2, <3>2, <4>1
    <3>4. CASE ~Less(x, m)
      <4>1. Less(m, x)
        BY <2>4, <3>2, <3>4, LessTotal
      <4>2. ASSUME NEW y \in T \ {x} PROVE Less(y, x)
        <5>1. CASE y = m
          BY <4>1, <5>1
        <5>2. CASE y # m
          <6>1. Less(y, m) /\ y \in Seq(Nat)
            BY <2>4, <2>5, <3>1, <4>2, <5>2 DEF IsLastOf
          <6> QED BY <2>4, <3>2, <4>1, <6>1, LessTransitive
        <5> QED BY <5>1, <5>2
      <4>3. IsLastOf(T, x)
        BY <2>3, <4>2 DEF IsLastOf
      <4> QED BY <2>2, <2>3, <4>3
    <3> QED BY <3>3, <3>4
  <2> QED BY <2>8, <2>9
<1>2. ~Lacks(S)
  <2>1. Cardinality(S) \in Nat
    BY FS_CardinalityType DEF KeySets
  <2>2. Lacks(S) => Cardinality(S) \in Sizes
    BY <2>1
  <2> HIDE DEF Sizes, Lacks
  <2> QED BY <1>1, <2>2
<1> QED BY <1>2

\* s lists the keys of S one after the other.
Ascending(s) == \A i, k \in DOMAIN s : i < k => Less(s[i], s[k])
Enumerates(S, s) == s \in [1..Cardinality(S) -> S] /\ Ascending(s)

\* A finite set of keys can be put in order: were there a set that cannot, the least one
\* could, by its last key.
LEMMA HasEnumeration ==
  ASSUME NEW S \in KeySets
  PROVE  \E s : Enumerates(S, s)
<1> DEFINE Lacks(T) == \A s : ~Enumerates(T, s)
           Sizes == {n \in Nat : \E T \in KeySets : Cardinality(T) = n /\ Lacks(T)}
<1>1. ASSUME Sizes # {} PROVE FALSE
  <2>1. PICK n \in Sizes : \A k \in Sizes : n <= k
    <3>1. Sizes \subseteq Nat
      OBVIOUS
    <3> HIDE DEF Sizes
    <3> QED BY <1>1, <3>1, LeastNatural
  <2>2. PICK T \in KeySets : Cardinality(T) = n /\ Lacks(T)
    OBVIOUS
  <2>3. IsFiniteSet(T) /\ T \subseteq Seq(Nat) /\ n \in Nat
    BY DEF KeySets
  <2>4. CASE T = {}
    <3>1. Cardinality(T) = 0
      BY <2>4, FS_EmptySet
    <3>2. [i \in 1..0 |-> {}] \in [1..0 -> {}] /\ 1..0 = {}
      OBVIOUS
    <3>3. PICK s : s \in [1..0 -> {}]
      BY <3>2
    <3>4. \A i \in DOMAIN s : FALSE
      BY <3>2, <3>3
    <3>5. Enumerates(T, s)
      BY <2>4, <3>1, <3>3, <3>4 DEF Enumerates, Ascending
    <3> QED BY <2>2, <3>5
  <2>5. CASE T # {}
    <3>1. PICK m \in T : IsLastOf(T, m)
      BY <2>5, HasLast
    <3>2. PICK rest : rest = T \ {m}
      OBVIOUS
    <3>3. rest \in KeySets /\ Cardinality(rest) = n - 1 /\ n - 1 \in Nat
      <4>1. IsFiniteSet(T \ {m}) /\ Cardinality(T \ {m}) = Cardinality(T) - 1
        BY <2>3, FS_RemoveElement
      <4>2. Cardinality(T \ {m}) \in Nat
        BY <4>1, FS_CardinalityType
      <4> QED BY <2>2, <2>3, <3>2, <4>1, <4>2 DEF KeySets
    <3>4. ~Lacks(rest)
      <4>1. ~(n <= n - 1)
        BY <2>3
      <4>2. n - 1 \notin Sizes
        <5> HIDE DEF Sizes
        <5> QED BY <2>1, <4>1
      <4> QED BY <3>3, <4>2
    <3>5. PICK e : Enumerates(rest, e)
      BY <3>4
    <3>6. e \in [1..(n - 1) -> rest] /\ \A i, k \in 1..(n - 1) : i < k => Less(e[i], e[k])
      BY <3>3, <3>5 DEF Enumerates, Ascending
    <3>7. PICK s : s = [i \in 1..n |-> IF i = n THEN m ELSE e[i]]
      OBVIOUS
    <3>8. \A i \in 1..n : i # n => i \in 1..(n - 1)
      BY <2>3
    <3>9. s \in [1..n -> T]
      <4>1. ASSUME NEW i \in 1..n PROVE (IF i = n THEN m ELSE e[i]) \in T
        BY <3>2, <3>6, <3>8
      <4> QED BY <3>7, <4>1
    <3>10. ASSUME NEW i \in 1..n, NEW k \in 1..n, i < k PROVE Less(s[i], s[k])
      <4>1. i # n /\ i \in 1..(n - 1)
        BY <2>3, <3>10
      <4>2. s[i] = e[i] /\ e[i] \in T /\ e[i] # m
        BY <3>2, <3>6, <3>7, <4>1
      <4>3. CASE k = n
        <5>1. s[k] = m
          BY <3>7, <4>3
        <5>2. Less(e[i], m)
          BY <3>1, <4>2 DEF IsLastOf
        <5> QED BY <4>2, <5>1, <5>2
      <4>4. CASE k # n
        <5>1. k \in 1..(n - 1) /\ s[k] = e[k]
          BY <3>7, <3>8, <4>4
        <5> QED BY <3>6, <3>10, <4>1, <4>2, <5>1
      <4> QED BY <4>3, <4>4
    <3>11. Enumerates(T, s)
      <4>1. DOMAIN s = 1..n
        BY <3>9
      <4> QED BY <2>2, <3>9, <3>10, <4>1 DEF Enumerates, Ascending
    <3> QED BY <2>2, <3>11
  <2> QED BY <2>4, <2>5
<1>2. ~Lacks(S)
  <2>1. Cardinality(S) \in Nat
    BY FS_CardinalityType DEF KeySets
  <2>2. Lacks(S) => Cardinality(S) \in Sizes
    BY <2>1
  <2> HIDE DEF Sizes, Lacks
  <2> QED BY <1>1, <2>2
<1> QED BY <1>2

\* The keys in order are all the keys, one after the other.
LEMMA InOrderIs ==
  ASSUME NEW S \in KeySets
  PROVE  /\ InOrder(S) \in Seq(S) /\ Len(InOrder(S)) = Cardinality(S)
         /\ \A i, k \in 1..Len(InOrder(S)) : i < k => Less(InOrder(S)[i], InOrder(S)[k])
         /\ \A x \in S : \E i \in 1..Len(InOrder(S)) : InOrder(S)[i] = x
<1>1. PICK n : n = Cardinality(S)
  OBVIOUS
<1>2. IsFiniteSet(S) /\ S \subseteq Seq(Nat) /\ n \in Nat
  BY <1>1, FS_CardinalityType DEF KeySets
<1>3. PICK s : s = InOrder(S)
  OBVIOUS
<1>4. s = CHOOSE t \in [1..Cardinality(S) -> S] :
            \A i, k \in DOMAIN t : i < k => Less(t[i], t[k])
  BY <1>3 DEF InOrder
<1>5. \E t \in [1..Cardinality(S) -> S] : \A i, k \in DOMAIN t : i < k => Less(t[i], t[k])
  BY HasEnumeration DEF Enumerates, Ascending
<1>6. s \in [1..Cardinality(S) -> S] /\ \A i, k \in DOMAIN s : i < k => Less(s[i], s[k])
  BY <1>4, <1>5, Zenon
<1>7. s \in [1..n -> S] /\ \A i, k \in 1..n : i < k => Less(s[i], s[k])
  BY <1>1, <1>6
<1>8. s \in Seq(S) /\ Len(s) = n
  BY <1>2, <1>7
<1>9. ASSUME NEW i \in 1..n, NEW k \in 1..n, s[i] = s[k] PROVE i = k
  <2>1. s[i] \in Seq(Nat) /\ s[k] \in Seq(Nat)
    BY <1>2, <1>7
  <2>2. ~Less(s[i], s[i])
    BY <2>1, LessIrreflexive
  <2>3. ~(i < k) /\ ~(k < i)
    BY <1>7, <1>9, <2>2
  <2> QED BY <1>2, <2>3
<1>10. s \in Injection(1..n, S)
  BY <1>7, <1>9 DEF Injection, IsInjective
<1>11. s \in Surjection(1..n, S)
  <2>1. Cardinality(1..n) = n
    BY <1>2, FS_Interval
  <2>2. Cardinality(1..n) = Cardinality(S)
    BY <1>1, <2>1
  <2> QED BY <1>2, <1>10, <2>2, FS_Injection
<1>12. \A x \in S : \E i \in 1..n : s[i] = x
  BY <1>11 DEF Surjection
<1> QED BY <1>1, <1>3, <1>7, <1>8, <1>12

-----------------------------------------------------------------------------
(***************************************************************************)
(* Pages.                                                                  *)
(***************************************************************************)

\* A sequence spread over another, after h empty places.
Spread(ss, h, s) ==
  \A i \in 1..Len(ss) : ss[i] = IF h < i /\ i <= h + Len(s) THEN <<s[i - h]>> ELSE <<>>

\* Empty places leave no trace.
LEMMA FlattenSpread ==
  ASSUME NEW S, NEW s \in Seq(S), NEW h \in Nat \ {0}, NEW ss \in Seq(Seq(S)),
         h + Len(s) <= Len(ss), Spread(ss, h, s)
  PROVE  FlattenSeq(ss) = s
<1>1. PICK n, m : n = Len(s) /\ m = Len(ss)
  OBVIOUS
<1>2. n \in Nat /\ m \in Nat /\ h + n <= m
  BY <1>1
<1> DEFINE upTo(i) == IF i <= h THEN 0 ELSE IF i <= h + n THEN i - h ELSE n
<1>3. PICK f : f = [i \in 1..m |-> SubSeq(s, 1, upTo(i))]
  OBVIOUS
<1>4. \A k \in 0..n : SubSeq(s, 1, k) \in Seq(S)
  <2>1. ASSUME NEW k \in 0..n PROVE SubSeq(s, 1, k) \in Seq(S)
    <3>1. \A i \in 1..k : i \in 1..Len(s)
      BY <1>1, <1>2
    <3>2. \A i \in 1..k : s[i] \in S
      BY <3>1, ElementOfSeq
    <3> QED BY <3>2, SubSeqProperties
  <2> QED BY <2>1
<1>5. \A i \in Int : upTo(i) \in 0..n
  BY <1>2
<1>6. \A i \in 1..m : f[i] = SubSeq(s, 1, upTo(i))
  BY <1>3
<1>7. SubSeq(s, 1, 0) = <<>>
  BY SubSeqEmpty
<1>8. ASSUME NEW i \in 1..m PROVE f[i] = FlattenStep(ss, f, i)
  <2>1. ss[i] = IF h < i /\ i <= h + n THEN <<s[i - h]>> ELSE <<>>
    BY <1>1 DEF Spread
  <2>2. i # 1 => i - 1 \in 1..m
    BY <1>2
  <2>3. CASE i = 1
    <3>1. upTo(i) = 0 /\ ~(h < i)
      BY <2>3
    <3>2. f[i] = <<>> /\ ss[i] = <<>>
      <4> HIDE DEF upTo
      <4> QED BY <1>6, <1>7, <2>1, <3>1
    <3> QED BY <2>3, <3>2 DEF FlattenStep
  <2>4. CASE i # 1 /\ (i <= h \/ h + n < i)
    <3>1. upTo(i - 1) = upTo(i) /\ ~(h < i /\ i <= h + n)
      BY <1>2, <2>4
    <3>2. f[i] = f[i - 1] /\ ss[i] = <<>> /\ f[i - 1] \in Seq(S)
      <4> HIDE DEF upTo
      <4>1. f[i] = SubSeq(s, 1, upTo(i)) /\ f[i - 1] = SubSeq(s, 1, upTo(i - 1))
        BY <1>6, <2>2, <2>4
      <4>2. SubSeq(s, 1, upTo(i)) \in Seq(S)
        <5>1. upTo(i) \in 0..n
          BY <1>5
        <5> QED BY <1>4, <5>1
      <4>3. ss[i] = <<>>
        BY <2>1, <3>1
      <4> QED BY <3>1, <4>1, <4>2, <4>3
    <3>3. f[i - 1] \o <<>> = f[i - 1]
      BY <3>2, ConcatEmptySeq
    <3> QED BY <2>4, <3>2, <3>3 DEF FlattenStep
  <2>5. CASE i # 1 /\ h < i /\ i <= h + n
    <3>1. PICK k : k = i - h
      OBVIOUS
    <3>2. upTo(i) = k /\ upTo(i - 1) = k - 1 /\ k \in 1..n
      BY <1>2, <2>5, <3>1
    <3>3. f[i] = SubSeq(s, 1, k) /\ f[i - 1] = SubSeq(s, 1, k - 1) /\ ss[i] = <<s[k]>>
      <4> HIDE DEF upTo
      <4> QED BY <1>6, <2>1, <2>2, <2>5, <3>1, <3>2
    <3>4. SubSeq(s, 1, k) = SubSeq(s, 1, k - 1) \o <<s[k]>>
      <4>1. 1 \in 1..Len(s) /\ k \in 1..Len(s)
        BY <1>1, <1>2, <3>2
      <4> QED BY <4>1, SubSeqRecursiveSecond
    <3> QED BY <2>5, <3>3, <3>4 DEF FlattenStep
  <2> QED BY <1>2, <2>3, <2>4, <2>5
<1>9. Flattens(ss, f)
  <2> HIDE DEF upTo
  <2>1. f = [i \in 1..m |-> FlattenStep(ss, f, i)]
    BY <1>3, <1>8
  <2> QED BY <1>1, <2>1 DEF Flattens
<1>10. ss # <<>> /\ m \in 1..m
  <2>1. m # 0
    BY <1>2
  <2> QED BY <1>1, <1>2, <2>1
<1>11. PICK g \in [1..Len(ss) -> Seq(S)] : Flattens(ss, g) /\ FlattenSeq(ss) = g[Len(ss)]
  BY <1>10, FlattenIs
<1>12. \A i \in 1..Len(ss) : g[i] = f[i]
  <2>1. Len(ss) \in Nat /\ Len(ss) <= Len(ss)
    BY <1>1, <1>2
  <2>2. \A i \in 1..Len(ss) : ss[i] = ss[i]
    OBVIOUS
  <2>3. Flattens(ss, g) /\ Flattens(ss, f)
    BY <1>9, <1>11
  <2> HIDE DEF upTo
  <2> QED BY <2>1, <2>2, <2>3, FlattenUnique
<1>13. FlattenSeq(ss) = SubSeq(s, 1, upTo(m))
  <2> HIDE DEF upTo
  <2> QED BY <1>1, <1>6, <1>10, <1>11, <1>12
<1>14. upTo(m) = n
  BY <1>2
<1>15. SubSeq(s, 1, n) = s
  BY <1>1, SubSeqFull
<1> QED BY <1>13, <1>14, <1>15

\* The units of a body, whose objects are keys.
Units ==
  {u \in [tag : {"ListBucketResult", "NextContinuationToken", "Contents"}, text : Seq(Byte)] :
     u.tag = "Contents" => u.text \in Keys}

\* The keys are strings of bytes.
LEMMA KeysAreBytes == Keys \subseteq Seq(Byte) /\ Keys \subseteq Seq(Nat) /\ IsFiniteSet(Keys)
<1>1. IsFiniteSet(Keys) /\ \A k \in Keys : k \in Seq(Byte)
  BY ListingAssumption DEF Byte
<1> QED BY <1>1, BytesAreNumbers

\* The keys the server has still to list, the keys it lists, and their page.
Rest(r) ==
  {k \in Matching(bucket, r.prefix) :
     r.continuationToken = <<>> \/ Less(LastKey(r.continuationToken), k)}
Shown(r) == Min({Len(InOrder(Rest(r))), r.maxKeys, PageLimit})
Root == <<[tag |-> "ListBucketResult", text |-> <<>>]>>
NextOf(s, n) ==
  IF n < Len(s) THEN <<[tag |-> "NextContinuationToken", text |-> Token(s[n])]>> ELSE <<>>
ContentsOf(s, n) == [i \in 1..n |-> [tag |-> "Contents", text |-> s[i]]]

\* What is left to list are keys.
LEMMA RestIs ==
  ASSUME NEW r, bucket \subseteq Keys
  PROVE  Rest(r) \in KeySets /\ Rest(r) \subseteq Keys
<1>1. Rest(r) \subseteq Keys
  BY DEF Rest, Matching
<1>2. IsFiniteSet(Rest(r))
  BY <1>1, KeysAreBytes, FS_Subset
<1> QED BY <1>1, <1>2, KeysAreBytes DEF KeySets

\* A page is its root element, the token if keys follow, and the keys it shows.
LEMMA PageIs ==
  ASSUME NEW r, bucket \subseteq Keys, r.maxKeys \in Nat \ {0}
  PROVE  /\ Page(r) = (Root \o NextOf(InOrder(Rest(r)), Shown(r)))
                        \o ContentsOf(InOrder(Rest(r)), Shown(r))
         /\ InOrder(Rest(r)) \in Seq(Keys)
         /\ Shown(r) \in 0..Len(InOrder(Rest(r))) /\ Shown(r) <= PageLimit
         /\ Shown(r) < Len(InOrder(Rest(r))) => Shown(r) > 0
<1>1. PICK s : s = InOrder(Rest(r))
  OBVIOUS
<1>2. s \in Seq(Keys)
  <2>1. s \in Seq(Rest(r)) /\ Rest(r) \subseteq Keys
    BY <1>1, RestIs, InOrderIs
  <2> QED BY <2>1, SeqMonotonic
<1>3. PICK m : m = Len(s)
  OBVIOUS
<1>4. m \in Nat /\ PageLimit \in Nat \ {0}
  BY <1>2, <1>3, ListingAssumption
<1>5. PICK n : n = Shown(r)
  OBVIOUS
<1>6. n \in {m, r.maxKeys, PageLimit} /\ \A x \in {m, r.maxKeys, PageLimit} : n <= x
  <2>1. n = Min({m, r.maxKeys, PageLimit})
    BY <1>1, <1>3, <1>5 DEF Shown
  <2>2. {m, r.maxKeys, PageLimit} \in SUBSET Nat /\ {m, r.maxKeys, PageLimit} # {}
    BY <1>4
  <2> QED BY <2>1, <2>2, LeastIs
<1>7. n \in 0..m /\ n <= PageLimit /\ (n < m => n > 0)
  BY <1>4, <1>6
<1>8. Page(r) = (Root \o NextOf(s, n)) \o ContentsOf(s, n)
  BY <1>1, <1>5, Zenon DEF Page, Rest, Shown, Root, NextOf, ContentsOf
<1> QED BY <1>1, <1>2, <1>3, <1>5, <1>7, <1>8

RootOf(body) ==
  LET roots == {i \in DOMAIN body : body[i].tag = "ListBucketResult"}
      ends == {i \in roots : i > 1} \cup {Len(body) + 1}
  IN IF 1 \in roots THEN SubSeq(body, 1, Min(ends) - 1) ELSE <<>>
Texts(root, tag) == [i \in DOMAIN root |-> IF root[i].tag = tag THEN <<root[i].text>> ELSE <<>>]

\* ParseListObjects joins the texts of the root's elements.
LEMMA ParseIs ==
  ASSUME NEW body
  PROVE  /\ ParseListObjects(body).objects = FlattenSeq(Texts(RootOf(body), "Contents"))
         /\ ParseListObjects(body).nextToken
              = FlattenSeq(FlattenSeq(Texts(RootOf(body), "NextContinuationToken")))
<1>1. ParseListObjects(body) =
        [objects |-> FlattenSeq(Texts(RootOf(body), "Contents")),
         nextToken |-> FlattenSeq(FlattenSeq(Texts(RootOf(body), "NextContinuationToken")))]
  BY Zenon DEF ParseListObjects, RootOf, Texts
<1> QED BY <1>1

\* The root of a body that has one root element is the body.
LEMMA RootIs ==
  ASSUME NEW body \in Seq(Units)
  PROVE  /\ RootOf(body) \in Seq(Units)
         /\ (/\ body # <<>> /\ body[1].tag = "ListBucketResult"
             /\ \A i \in 2..Len(body) : body[i].tag # "ListBucketResult")
            => RootOf(body) = body
<1> DEFINE roots == {i \in DOMAIN body : body[i].tag = "ListBucketResult"}
           ends == {i \in roots : i > 1} \cup {Len(body) + 1}
<1>1. PICK n : n = Len(body)
  OBVIOUS
<1>2. n \in Nat /\ DOMAIN body = 1..n
  BY <1>1
<1>3. ends \in SUBSET Nat /\ ends # {} /\ \A i \in ends : i \in 1..(n + 1)
  BY <1>1, <1>2
<1>4. Min(ends) \in ends /\ Min(ends) \in 1..(n + 1)
  <2> HIDE DEF ends
  <2> QED BY <1>3, LeastIs
<1>5. RootOf(body) = IF 1 \in roots THEN SubSeq(body, 1, Min(ends) - 1) ELSE <<>>
  BY DEF RootOf
<1>6. RootOf(body) \in Seq(Units)
  <2> HIDE DEF roots, ends
  <2>1. \A i \in 1..(Min(ends) - 1) : i \in 1..Len(body)
    BY <1>1, <1>2, <1>4
  <2>2. \A i \in 1..(Min(ends) - 1) : body[i] \in Units
    BY <2>1, ElementOfSeq
  <2>3. SubSeq(body, 1, Min(ends) - 1) \in Seq(Units)
    <3>1. 1 \in Int /\ Min(ends) - 1 \in Int
      BY <1>2, <1>4
    <3> QED BY <2>2, <3>1, SubSeqProperties
  <2>4. CASE 1 \in roots
    BY <1>5, <2>3, <2>4
  <2>5. CASE 1 \notin roots
    BY <1>5, <2>5, EmptySeq
  <2> QED BY <2>4, <2>5
<1>7. ASSUME body # <<>>, body[1].tag = "ListBucketResult",
             \A i \in 2..Len(body) : body[i].tag # "ListBucketResult"
      PROVE  RootOf(body) = body
  <2>1. n # 0
    BY <1>1, <1>7
  <2>2. 1 \in roots
    BY <1>2, <1>7, <2>1
  <2>3. \A i \in roots : ~(i > 1)
    BY <1>1, <1>2, <1>7
  <2>4. ends = {n + 1}
    BY <1>1, <2>3
  <2>5. Min(ends) = n + 1
    <3> HIDE DEF ends
    <3> QED BY <1>4, <2>4
  <2>6. RootOf(body) = SubSeq(body, 1, n)
    <3> HIDE DEF ends, roots
    <3>1. (n + 1) - 1 = n
      BY <1>2
    <3> QED BY <1>5, <2>2, <2>5, <3>1
  <2> QED BY <1>1, <2>6, SubSeqFull
<1> QED BY <1>6, <1>7

\* The texts of a kind of element.
LEMMA TextsAre ==
  ASSUME NEW root \in Seq(Units), NEW tag, NEW T,
         \A u \in Units : u.tag = tag => u.text \in T
  PROVE  /\ Texts(root, tag) \in Seq(Seq(T)) /\ Len(Texts(root, tag)) = Len(root)
         /\ FlattenSeq(Texts(root, tag)) \in Seq(T)
<1>1. PICK n : n = Len(root)
  OBVIOUS
<1>2. n \in Nat /\ DOMAIN root = 1..n /\ \A i \in 1..n : root[i] \in Units
  BY <1>1, ElementOfSeq, LenProperties
<1>3. PICK ss : ss = Texts(root, tag)
  OBVIOUS
<1>4. ss = [i \in 1..n |-> IF root[i].tag = tag THEN <<root[i].text>> ELSE <<>>]
  BY <1>2, <1>3 DEF Texts
<1>5. ASSUME NEW i \in 1..n
      PROVE  (IF root[i].tag = tag THEN <<root[i].text>> ELSE <<>>) \in Seq(T)
  <2>1. CASE root[i].tag = tag
    <3>1. root[i].text \in T
      BY <1>2, <2>1
    <3>2. <<root[i].text>> \in Seq(T)
      BY <3>1
    <3> QED BY <2>1, <3>2
  <2>2. CASE root[i].tag # tag
    BY <2>2, EmptySeq
  <2> QED BY <2>1, <2>2
<1>6. ss \in Seq(Seq(T)) /\ Len(ss) = n
  <2>1. ss \in [1..n -> Seq(T)]
    BY <1>4, <1>5
  <2> QED BY <1>2, <2>1
<1>7. ss \in Seq(Seq(T)) /\ <<>> \in Seq(T)
  BY <1>6, EmptySeq
<1>8. FlattenSeq(ss) \in Seq(T)
  BY <1>7, FlattenAppend
<1> QED BY <1>1, <1>3, <1>6, <1>8

\* Whatever part of its pages arrives, the plugin gets keys and a token.
LEMMA ParsedIs ==
  ASSUME NEW body \in Seq(Units)
  PROVE  /\ ParseListObjects(body).objects \in Seq(Keys)
         /\ ParseListObjects(body).nextToken \in Seq(Byte)
<1>1. RootOf(body) \in Seq(Units)
  BY RootIs
<1>2. /\ \A u \in Units : u.tag = "Contents" => u.text \in Keys
      /\ \A u \in Units : u.tag = "NextContinuationToken" => u.text \in Seq(Byte)
  BY DEF Units
<1>3. FlattenSeq(Texts(RootOf(body), "Contents")) \in Seq(Keys)
  BY <1>1, <1>2, TextsAre
<1>4. FlattenSeq(Texts(RootOf(body), "NextContinuationToken")) \in Seq(Seq(Byte))
  BY <1>1, <1>2, TextsAre
<1>5. FlattenSeq(FlattenSeq(Texts(RootOf(body), "NextContinuationToken"))) \in Seq(Byte)
  BY <1>4, EmptySeq, FlattenAppend
<1> QED BY <1>3, <1>5, ParseIs

\* A token says which key it follows.
LEMMA TokenIs ==
  ASSUME NEW key \in Seq(Byte)
  PROVE  /\ Token(key) \in Seq(Byte) /\ Token(key) # <<>>
         /\ LastKey(Token(key)) = key
<1>1. PICK a, b : a = <<Plus>> /\ b = <<Equals>>
  OBVIOUS
<1>2. a \in Seq(Byte) /\ Len(a) = 1 /\ b \in Seq(Byte) /\ Len(b) = 1
  BY <1>1 DEF Byte, Plus, Equals
<1>3. a \in Seq(Byte) /\ b \in Seq(Byte)
  BY <1>2
<1>4. PICK c : c = a \o key
  OBVIOUS
<1>5. /\ c \in Seq(Byte) /\ Len(c) = Len(a) + Len(key) /\ Len(key) \in Nat
      /\ \A i \in 1..Len(key) : c[Len(a) + i] = key[i]
  BY <1>3, <1>4, ConcatIs
<1>6. c \in Seq(Byte)
  BY <1>5
<1>7. PICK t : t = c \o b
  OBVIOUS
<1>8. /\ t \in Seq(Byte) /\ Len(t) = Len(c) + Len(b)
      /\ \A i \in 1..Len(c) : t[i] = c[i]
  BY <1>3, <1>6, <1>7, ConcatIs
<1>9. t = Token(key)
  BY <1>1, <1>4, <1>7 DEF Token
<1>10. t # <<>> /\ Len(t) = Len(key) + 2
  <2>1. Len(t) = Len(key) + 2 /\ Len(key) + 2 # 0
    BY <1>2, <1>5, <1>8
  <2> QED BY <2>1, EmptySeq
<1>11. \A k \in 1..Len(key) : t[1 + k] = key[k]
  <2>1. ASSUME NEW k \in 1..Len(key) PROVE t[1 + k] = key[k]
    <3>1. 1 + k \in 1..Len(c) /\ Len(a) + k = 1 + k
      BY <1>2, <1>5
    <3>2. t[1 + k] = c[1 + k]
      BY <1>8, <3>1
    <3>3. c[Len(a) + k] = key[k]
      BY <1>5
    <3> QED BY <3>1, <3>2, <3>3
  <2> QED BY <2>1
<1>12. SubSeq(t, 1 + 1, 1 + Len(key)) = key
  <2>1. t \in Seq(Byte) /\ key \in Seq(Byte) /\ 1 \in Nat
    BY <1>8
  <2>2. 1 + Len(key) <= Len(t)
    BY <1>5, <1>10
  <2> QED BY <1>11, <2>1, <2>2, PartIs
<1>13. 1 + 1 = 2 /\ 1 + Len(key) = Len(t) - 1
  BY <1>5, <1>10
<1>14. LastKey(t) = key
  BY <1>12, <1>13 DEF LastKey
<1> QED BY <1>8, <1>9, <1>10, <1>14

\* A page lists n keys of s, one after the other, and the token of the last one if more follow.
Lists(page, s, n) ==
  LET h == IF n < Len(s) THEN 2 ELSE 1
  IN /\ page \in Seq(Units) /\ Len(page) = h + n
     /\ page[1].tag = "ListBucketResult"
     /\ h = 2 => page[2].tag = "NextContinuationToken" /\ page[2].text = Token(s[n])
     /\ \A i \in 1..n : page[h + i].tag = "Contents" /\ page[h + i].text = s[i]

\* The page the server makes lists its keys.
LEMMA PageLists ==
  ASSUME NEW s \in Seq(Keys), NEW n \in 0..Len(s), n < Len(s) => n > 0
  PROVE  Lists((Root \o NextOf(s, n)) \o ContentsOf(s, n), s, n)
<1>1. PICK m : m = Len(s)
  OBVIOUS
<1>2. m \in Nat /\ n \in 0..m /\ (n < m => n > 0) /\ \A i \in 1..m : s[i] \in Keys
  BY <1>1, ElementOfSeq
<1>3. PICK h : h = IF n < Len(s) THEN 2 ELSE 1
  OBVIOUS
<1>4. PICK a, b, c : a = Root /\ b = NextOf(s, n) /\ c = ContentsOf(s, n)
  OBVIOUS
<1>5. a \in Seq(Units) /\ Len(a) = 1 /\ a[1].tag = "ListBucketResult"
  <2>1. [tag |-> "ListBucketResult", text |-> <<>>] \in Units
    BY EmptySeq DEF Units
  <2> QED BY <1>4, <2>1 DEF Root
<1>6. /\ b \in Seq(Units) /\ Len(b) = h - 1
      /\ h = 2 => b[1].tag = "NextContinuationToken" /\ b[1].text = Token(s[n])
  <2>1. CASE n < m
    <3>1. n \in 1..m /\ s[n] \in Seq(Byte)
      BY <1>2, <2>1, KeysAreBytes
    <3>2. [tag |-> "NextContinuationToken", text |-> Token(s[n])] \in Units
      <4>1. Token(s[n]) \in Seq(Byte)
        BY <3>1, TokenIs
      <4> QED BY <4>1 DEF Units
    <3>3. b = <<[tag |-> "NextContinuationToken", text |-> Token(s[n])]>> /\ h = 2
      BY <1>1, <1>3, <1>4, <2>1 DEF NextOf
    <3> QED BY <3>2, <3>3
  <2>2. CASE ~(n < m)
    <3>1. b = <<>> /\ h = 1
      BY <1>1, <1>3, <1>4, <2>2 DEF NextOf
    <3> QED BY <3>1, EmptySeq
  <2> QED BY <2>1, <2>2
<1>7. /\ c \in Seq(Units) /\ Len(c) = n
      /\ \A i \in 1..n : c[i].tag = "Contents" /\ c[i].text = s[i]
  <2>1. ASSUME NEW i \in 1..n PROVE [tag |-> "Contents", text |-> s[i]] \in Units
    <3>1. s[i] \in Keys /\ s[i] \in Seq(Byte)
      BY <1>2, KeysAreBytes
    <3> QED BY <3>1 DEF Units
  <2>2. c = [i \in 1..n |-> [tag |-> "Contents", text |-> s[i]]]
    BY <1>4 DEF ContentsOf
  <2>3. c \in [1..n -> Units] /\ n \in Nat
    BY <1>2, <2>1, <2>2
  <2> QED BY <2>2, <2>3
<1>8. a \in Seq(Units) /\ b \in Seq(Units) /\ c \in Seq(Units)
  BY <1>5, <1>6, <1>7
<1>9. PICK d : d = a \o b
  OBVIOUS
<1>10. /\ d \in Seq(Units) /\ Len(d) = Len(a) + Len(b) /\ \A i \in 1..Len(a) : d[i] = a[i]
       /\ \A i \in 1..Len(b) : d[Len(a) + i] = b[i]
  BY <1>8, <1>9, ConcatIs
<1>11. d \in Seq(Units)
  BY <1>10
<1>12. PICK p : p = d \o c
  OBVIOUS
<1>13. /\ p \in Seq(Units) /\ Len(p) = Len(d) + Len(c) /\ \A i \in 1..Len(d) : p[i] = d[i]
       /\ \A i \in 1..Len(c) : p[Len(d) + i] = c[i]
  BY <1>8, <1>11, <1>12, ConcatIs
<1>14. h \in {1, 2} /\ Len(d) = h
  BY <1>3, <1>5, <1>6, <1>10
<1>15. p[1] = a[1]
  <2>1. 1 \in 1..Len(a) /\ 1 \in 1..Len(d)
    BY <1>5, <1>14
  <2> QED BY <1>10, <1>13, <2>1
<1>16. h = 2 => p[2] = b[1]
  <2>1. h = 2 => 1 \in 1..Len(b) /\ Len(a) + 1 = 2 /\ 2 \in 1..Len(d)
    BY <1>5, <1>6, <1>14
  <2> QED BY <1>10, <1>13, <2>1
<1>17. \A i \in 1..n : p[h + i] = c[i]
  BY <1>7, <1>13, <1>14
<1>18. Len(p) = h + n
  BY <1>7, <1>13, <1>14
<1>19. Lists(p, s, n)
  <2>1. h = 2 => p[2].tag = "NextContinuationToken" /\ p[2].text = Token(s[n])
    BY <1>6, <1>16, Zenon
  <2>2. \A i \in 1..n : p[h + i].tag = "Contents" /\ p[h + i].text = s[i]
    BY <1>7, <1>17, Zenon
  <2>3. p \in Seq(Units) /\ p[1].tag = "ListBucketResult"
    BY <1>5, <1>13, <1>15, Zenon
  <2> QED BY <1>3, <1>18, <2>1, <2>2, <2>3, Zenon DEF Lists
<1> QED BY <1>4, <1>9, <1>12, <1>19

\* What the plugin reads off a whole page.
LEMMA PageParsed ==
  ASSUME NEW s \in Seq(Keys), NEW n \in 0..Len(s), n < Len(s) => n > 0,
         NEW page, Lists(page, s, n)
  PROVE  /\ ParseListObjects(page).objects = SubSeq(s, 1, n)
         /\ ParseListObjects(page).nextToken = IF n < Len(s) THEN Token(s[n]) ELSE <<>>
<1>1. PICK m : m = Len(s)
  OBVIOUS
<1>2. m \in Nat /\ n \in 0..m /\ (n < m => n > 0) /\ \A i \in 1..m : s[i] \in Keys
  BY <1>1, ElementOfSeq
<1>3. PICK h : h = IF n < Len(s) THEN 2 ELSE 1
  OBVIOUS
<1>4. /\ page \in Seq(Units) /\ Len(page) = h + n
      /\ page[1].tag = "ListBucketResult"
      /\ h = 2 => page[2].tag = "NextContinuationToken" /\ page[2].text = Token(s[n])
      /\ \A i \in 1..n : page[h + i].tag = "Contents" /\ page[h + i].text = s[i]
  BY <1>3, Zenon DEF Lists
<1>5. h \in {1, 2} /\ (h = 2 <=> n < m)
  BY <1>1, <1>3
<1>6. page \in Seq(Units) /\ DOMAIN page = 1..(h + n) /\ page # <<>>
  <2>1. DOMAIN page = 1..Len(page) /\ Len(page) # 0
    BY <1>2, <1>4, <1>5
  <2> QED BY <1>4, <2>1, EmptySeq
<1>7. ASSUME NEW i \in 1..(h + n)
      PROVE  \/ i = 1
             \/ i = 2 /\ h = 2
             \/ i - h \in 1..n /\ h < i /\ i = h + (i - h)
  BY <1>2, <1>5
<1>8. RootOf(page) = page
  <2>1. ASSUME NEW i \in 2..Len(page) PROVE page[i].tag # "ListBucketResult"
    <3>1. i \in 1..(h + n) /\ i # 1
      BY <1>2, <1>4, <1>5
    <3> QED BY <1>4, <1>7, <3>1
  <2> QED BY <1>4, <1>6, <2>1, RootIs
<1>9. SubSeq(s, 1, n) \in Seq(Keys) /\ Len(SubSeq(s, 1, n)) = n
      /\ \A i \in 1..n : SubSeq(s, 1, n)[i] = s[i]
  <2>1. \A i \in 1..n : s[i] \in Keys
    BY <1>2
  <2>2. 1 \in Int /\ n \in Int /\ n - 1 + 1 = n /\ (~(1 <= n) => n = 0)
        /\ \A i \in 1..n : 1 + i - 1 = i
    BY <1>2
  <2>3. /\ SubSeq(s, 1, n) \in Seq(Keys)
        /\ Len(SubSeq(s, 1, n)) = IF 1 <= n THEN n - 1 + 1 ELSE 0
        /\ \A i \in 1..(n - 1 + 1) : SubSeq(s, 1, n)[i] = s[1 + i - 1]
    BY <2>1, <2>2, SubSeqProperties
  <2> QED BY <2>2, <2>3
<1>10. FlattenSeq(Texts(page, "Contents")) = SubSeq(s, 1, n)
  <2>1. PICK ss, keys : ss = Texts(page, "Contents") /\ keys = SubSeq(s, 1, n)
    OBVIOUS
  <2>2. ss \in Seq(Seq(Keys)) /\ Len(ss) = h + n
    <3>1. \A u \in Units : u.tag = "Contents" => u.text \in Keys
      BY DEF Units
    <3> QED BY <1>4, <1>6, <2>1, <3>1, TextsAre
  <2>3. keys \in Seq(Keys) /\ Len(keys) = n /\ \A i \in 1..n : keys[i] = s[i]
    BY <1>9, <2>1
  <2>4. ASSUME NEW i \in 1..(h + n)
        PROVE  ss[i] = IF h < i /\ i <= h + n THEN <<keys[i - h]>> ELSE <<>>
    <3>1. ss[i] = IF page[i].tag = "Contents" THEN <<page[i].text>> ELSE <<>>
      BY <1>6, <2>1 DEF Texts
    <3>2. CASE h < i
      <4>1. i - h \in 1..n /\ i = h + (i - h) /\ i <= h + n
        BY <1>2, <1>5, <3>2
      <4>2. page[i].tag = "Contents" /\ page[i].text = s[i - h]
        BY <1>4, <4>1
      <4> QED BY <2>3, <3>1, <3>2, <4>1, <4>2
    <3>3. CASE ~(h < i)
      <4>1. i = 1 \/ (i = 2 /\ h = 2)
        BY <1>7, <3>3
      <4>2. page[i].tag # "Contents"
        BY <1>4, <4>1
      <4> QED BY <3>1, <3>3, <4>2
    <3> QED BY <3>2, <3>3
  <2>5. Spread(ss, h, keys)
    BY <2>2, <2>3, <2>4 DEF Spread
  <2>6. keys \in Seq(Keys) /\ h \in Nat \ {0} /\ ss \in Seq(Seq(Keys)) /\ h + Len(keys) <= Len(ss)
    BY <1>2, <1>5, <2>2, <2>3
  <2>7. FlattenSeq(ss) = keys
    BY <2>5, <2>6, FlattenSpread
  <2> QED BY <2>1, <2>7
<1>11. PICK tokens : tokens = IF n < Len(s) THEN <<Token(s[n])>> ELSE <<>>
  OBVIOUS
<1>12. /\ tokens \in Seq(Seq(Byte)) /\ Len(tokens) = h - 1
       /\ FlattenSeq(tokens) = IF n < Len(s) THEN Token(s[n]) ELSE <<>>
  <2>1. CASE n < m
    <3>1. PICK t : t = Token(s[n])
      OBVIOUS
    <3>2. t \in Seq(Byte)
      <4>1. s[n] \in Seq(Byte)
        BY <1>2, <2>1, KeysAreBytes
      <4> QED BY <3>1, <4>1, TokenIs
    <3>3. Append(<<>>, t) = <<t>> /\ <<>> \in Seq(Seq(Byte))
      OBVIOUS
    <3>4. FlattenSeq(Append(<<>>, t)) = FlattenSeq(<<>>) \o t
      BY <3>2, <3>3, FlattenAppend
    <3>5. <<>> \o t = t
      BY <3>2, ConcatEmptySeq
    <3>6. FlattenSeq(<<t>>) = t
      BY <3>3, <3>4, <3>5, FlattenEmpty
    <3>7. tokens = <<t>> /\ h = 2
      BY <1>1, <1>5, <1>11, <2>1, <3>1
    <3>8. tokens \in Seq(Seq(Byte)) /\ Len(tokens) = 1
      BY <3>2, <3>7
    <3> QED BY <1>1, <2>1, <3>1, <3>6, <3>7, <3>8
  <2>2. CASE ~(n < m)
    <3>1. tokens = <<>> /\ h = 1
      BY <1>1, <1>5, <1>11, <2>2
    <3> QED BY <1>1, <2>2, <3>1, FlattenEmpty, EmptySeq
  <2> QED BY <2>1, <2>2
<1>13. FlattenSeq(Texts(page, "NextContinuationToken")) = tokens
  <2>1. PICK ss : ss = Texts(page, "NextContinuationToken")
    OBVIOUS
  <2>2. ss \in Seq(Seq(Seq(Byte))) /\ Len(ss) = h + n
    <3>1. \A u \in Units : u.tag = "NextContinuationToken" => u.text \in Seq(Byte)
      BY DEF Units
    <3> QED BY <1>4, <1>6, <2>1, <3>1, TextsAre
  <2>3. ASSUME NEW i \in 1..(h + n)
        PROVE  ss[i] = IF 1 < i /\ i <= 1 + (h - 1) THEN <<tokens[i - 1]>> ELSE <<>>
    <3>1. ss[i] = IF page[i].tag = "NextContinuationToken" THEN <<page[i].text>> ELSE <<>>
      BY <1>6, <2>1 DEF Texts
    <3>2. CASE i = 2 /\ h = 2
      <4>1. tokens = <<Token(s[n])>>
        BY <1>3, <1>11, <3>2
      <4>2. tokens[1] = Token(s[n])
        BY <4>1
      <4>3. page[i].tag = "NextContinuationToken" /\ page[i].text = Token(s[n])
        BY <1>4, <3>2
      <4>4. i - 1 = 1 /\ 1 < i /\ i <= 1 + (h - 1)
        BY <3>2
      <4> QED BY <3>1, <4>2, <4>3, <4>4
    <3>3. CASE ~(i = 2 /\ h = 2)
      <4>1. ~(1 < i /\ i <= 1 + (h - 1))
        BY <1>5, <3>3
      <4>2. page[i].tag # "NextContinuationToken"
        BY <1>4, <1>7, <3>3
      <4> QED BY <3>1, <4>1, <4>2
    <3> QED BY <3>2, <3>3
  <2>4. Spread(ss, 1, tokens)
    BY <1>12, <2>2, <2>3 DEF Spread
  <2>5. /\ tokens \in Seq(Seq(Byte)) /\ 1 \in Nat \ {0} /\ ss \in Seq(Seq(Seq(Byte)))
        /\ 1 + Len(tokens) <= Len(ss)
    BY <1>2, <1>5, <1>12, <2>2
  <2>6. FlattenSeq(ss) = tokens
    BY <2>4, <2>5, FlattenSpread
  <2> QED BY <2>1, <2>6
<1> QED BY <1>8, <1>10, <1>12, <1>13, ParseIs

\* What an attempt keeps of what it is sent.
LEMMA AttemptBodyIs ==
  ASSUME NEW data \in Seq(Units)
  PROVE  /\ AttemptBody(data) \in Seq(Units) /\ Len(AttemptBody(data)) \in Nat
         /\ Len(AttemptBody(data)) <= MaxBody
         /\ Len(data) <= MaxBody => AttemptBody(data) = data
<1>1. PICK n : n = Len(data)
  OBVIOUS
<1>2. n \in Nat /\ MaxBody \in Nat
  BY <1>1, ListingAssumption
<1>3. PICK k : k = Min({MaxBody, n})
  OBVIOUS
<1>4. k \in Nat /\ k <= n /\ k <= MaxBody /\ (n <= MaxBody => k = n)
  <2>1. {MaxBody, n} \in SUBSET Nat /\ {MaxBody, n} # {}
    BY <1>2
  <2>2. k \in {MaxBody, n} /\ \A x \in {MaxBody, n} : k <= x
    BY <1>3, <2>1, LeastIs
  <2> QED BY <1>2, <2>2
<1>5. AttemptBody(data) = <<>> \o SubSeq(data, 1, k)
  <2>1. Max({0, MaxBody - Len(<<>>)}) = MaxBody
    <3>1. {0, MaxBody} \in SUBSET Nat /\ {0, MaxBody} # {} /\ \A x \in {0, MaxBody} : x <= MaxBody
      BY <1>2
    <3>2. Max({0, MaxBody}) \in {0, MaxBody} /\ \A x \in {0, MaxBody} : Max({0, MaxBody}) >= x
      BY <1>2, <3>1, GreatestIs
    <3>3. Max({0, MaxBody}) = MaxBody
      BY <1>2, <3>2
    <3>4. MaxBody - Len(<<>>) = MaxBody
      BY <1>2, EmptySeq
    <3> QED BY <3>3, <3>4
  <2>2. ResetBody(lister.body) = <<>>
    BY DEF ResetBody
  <2> QED BY <1>1, <1>3, <2>1, <2>2 DEF AttemptBody, Received
<1>6. SubSeq(data, 1, k) \in Seq(Units) /\ Len(SubSeq(data, 1, k)) = k
  <2>1. \A i \in 1..k : i \in 1..Len(data)
    BY <1>1, <1>2, <1>4
  <2>2. \A i \in 1..k : data[i] \in Units
    BY <2>1, ElementOfSeq
  <2>3. 1 \in Int /\ k \in Int /\ k - 1 + 1 = k /\ (~(1 <= k) => k = 0)
    BY <1>4
  <2>4. /\ SubSeq(data, 1, k) \in Seq(Units)
        /\ Len(SubSeq(data, 1, k)) = IF 1 <= k THEN k - 1 + 1 ELSE 0
    BY <2>2, <2>3, SubSeqProperties
  <2> QED BY <2>3, <2>4
<1>7. <<>> \o SubSeq(data, 1, k) = SubSeq(data, 1, k)
  BY <1>6, ConcatEmptySeq
<1>8. n <= MaxBody => SubSeq(data, 1, k) = data
  BY <1>1, <1>4, SubSeqFull
<1> QED BY <1>1, <1>4, <1>5, <1>6, <1>7, <1>8

-----------------------------------------------------------------------------
(***************************************************************************)
(* No request goes astray.                                                 *)
(***************************************************************************)

ListSpecs == {spec \in Specs : spec.op = "List"}

ListingInv ==
  /\ config \in Configs
  /\ bucket \subseteq Keys
  /\ lister \in [phase : {"idle", "due", "done"}, spec : ListSpecs, body : Seq(Units),
                 listed : Seq(Keys)]
  /\ Len(lister.body) <= MaxBody
  /\ steady \subseteq seen /\ seen \subseteq Keys
  /\ astray = FALSE

\* A request of these fields.
SpecOf(op, key, source, prefix, maxKeys, token, c) ==
  [op |-> op, key |-> key, sourceKey |-> source, prefix |-> prefix, maxKeys |-> maxKeys,
   continuationToken |-> token, config |-> c]

\* The plugin makes requests.
LEMMA SpecsAre ==
  ASSUME config \in Configs
  PROVE  /\ NewSpec("List") \in ListSpecs
         /\ \A op \in {"Put", "Delete", "Get", "Head"}, key \in Keys :
              [NewSpec(op) EXCEPT !.key = key] \in Specs
         /\ \A source, key \in Keys :
              [NewSpec("Copy") EXCEPT !.sourceKey = source, !.key = key] \in Specs
         /\ \A prefix, token \in Seq(Byte), maxKeys \in Int :
              ListSpec(prefix, maxKeys, token) \in ListSpecs
<1>1. <<>> \in Seq(Byte) /\ 1000 \in Nat \ {0} /\ Keys \subseteq Seq(Byte)
  BY KeysAreBytes, EmptySeq
<1>2. NewSpec("List") \in ListSpecs
  BY <1>1 DEF NewSpec, ListSpecs, Specs
<1>3. PICK none : none = <<>>
  OBVIOUS
<1>4. none \in Seq(Byte)
  BY <1>1, <1>3
<1>5. \A op : NewSpec(op) = SpecOf(op, none, none, none, 1000, none, config)
  BY <1>3 DEF NewSpec, SpecOf
<1>6. ASSUME NEW op \in {"Put", "Delete", "Get", "Head"}, NEW key \in Keys
      PROVE  [NewSpec(op) EXCEPT !.key = key] \in Specs
  <2>1. key \in Seq(Byte)
    BY <1>1
  <2>2. SpecOf(op, key, none, none, 1000, none, config) \in Specs
    BY <1>1, <1>3, <1>4, <2>1, SMT DEF Specs, SpecOf
  <2>3. PICK base : base = NewSpec(op)
    OBVIOUS
  <2>4. PICK spec : spec = [base EXCEPT !.key = key]
    OBVIOUS
  <2>5. base = SpecOf(op, none, none, none, 1000, none, config)
    BY <1>5, <2>3
  <2>6. spec = SpecOf(op, key, none, none, 1000, none, config)
    BY <2>4, <2>5, SMT DEF SpecOf
  <2>7. spec \in Specs
    BY <2>2, <2>6
  <2> QED BY <2>3, <2>4, <2>7
<1>7. ASSUME NEW source \in Keys, NEW key \in Keys
      PROVE  [NewSpec("Copy") EXCEPT !.sourceKey = source, !.key = key] \in Specs
  <2>1. key \in Seq(Byte) /\ source \in Seq(Byte)
    BY <1>1
  <2>2. SpecOf("Copy", key, source, none, 1000, none, config) \in Specs
    BY <1>1, <1>3, <1>4, <2>1, SMT DEF Specs, SpecOf
  <2>3. PICK base : base = NewSpec("Copy")
    OBVIOUS
  <2>4. PICK part : part = [base EXCEPT !.sourceKey = source]
    OBVIOUS
  <2>5. PICK spec : spec = [part EXCEPT !.key = key]
    OBVIOUS
  <2>6. base = SpecOf("Copy", none, none, none, 1000, none, config)
    BY <1>5, <2>3
  <2>7. part = SpecOf("Copy", none, source, none, 1000, none, config)
    BY <2>4, <2>6, SMT DEF SpecOf
  <2>8. spec = SpecOf("Copy", key, source, none, 1000, none, config)
    BY <2>5, <2>7, SMT DEF SpecOf
  <2>9. spec \in Specs
    BY <2>2, <2>8
  <2>10. spec = [base EXCEPT !.sourceKey = source, !.key = key]
    BY <2>4, <2>5, Zenon
  <2> QED BY <2>3, <2>9, <2>10
<1>8. ASSUME NEW prefix \in Seq(Byte), NEW token \in Seq(Byte), NEW maxKeys \in Int
      PROVE  ListSpec(prefix, maxKeys, token) \in ListSpecs
  <2>1. PICK n : n = PageSize(maxKeys)
    OBVIOUS
  <2>2. n \in Nat \ {0}
    BY <2>1 DEF PageSize
  <2>3. SpecOf("List", none, none, prefix, n, token, config) \in ListSpecs
    BY <1>3, <1>4, <2>2, SMT DEF Specs, ListSpecs, SpecOf
  <2>4. PICK base : base = NewSpec("List")
    OBVIOUS
  <2>5. PICK one : one = [base EXCEPT !.prefix = prefix]
    OBVIOUS
  <2>6. PICK two : two = [one EXCEPT !.maxKeys = n]
    OBVIOUS
  <2>7. PICK spec : spec = [two EXCEPT !.continuationToken = token]
    OBVIOUS
  <2>8. base = SpecOf("List", none, none, none, 1000, none, config)
    BY <1>5, <2>4
  <2>9. one = SpecOf("List", none, none, prefix, 1000, none, config)
    BY <2>5, <2>8, SMT DEF SpecOf
  <2>10. two = SpecOf("List", none, none, prefix, n, none, config)
    BY <2>6, <2>9, SMT DEF SpecOf
  <2>11. spec = SpecOf("List", none, none, prefix, n, token, config)
    BY <2>7, <2>10, SMT DEF SpecOf
  <2>12. spec = [base EXCEPT !.prefix = prefix, !.maxKeys = n, !.continuationToken = token]
    BY <2>5, <2>6, <2>7, Zenon
  <2>13. spec = ListSpec(prefix, maxKeys, token)
    BY <2>1, <2>4, <2>12 DEF ListSpec
  <2> QED BY <2>3, <2>11, <2>13
<1> QED BY <1>2, <1>6, <1>7, <1>8

\* A request that is understood does what it says to the bucket, and is not astray.
LEMMA RequestKeeps ==
  ASSUME ListingInv, NEW spec \in Specs, spec.key \in Keys, Request(spec)
  PROVE  /\ bucket' \subseteq Keys /\ astray' = FALSE /\ UNCHANGED <<config, lister>>
         /\ lister.phase = "due" => /\ steady' = steady \cap bucket'
                                    /\ seen' = seen \cup Matching(bucket', lister.spec.prefix)
         /\ lister.phase # "due" => steady' = steady /\ seen' = seen
         /\ steady' \subseteq seen' /\ seen' \subseteq Keys
<1>1. Understood(BuildRequest(spec)) = Meaning(spec)
  <2>1. IsAddressable(spec.key)
    BY ListingAssumption DEF IsPlainKey
  <2> QED BY <2>1, RequestsUnderstood
<1>2. PICK r : r = Meaning(spec)
  OBVIOUS
<1>3. /\ GoesAstray(spec, r) /\ bucket' = Applied(r) /\ UNCHANGED <<config, lister>>
      /\ lister.phase = "due" => /\ steady' = steady \cap bucket'
                                 /\ seen' = seen \cup Matching(bucket', lister.spec.prefix)
      /\ lister.phase # "due" => steady' = steady /\ seen' = seen
  BY <1>1, <1>2 DEF Request
<1>4. astray' = FALSE
  BY <1>2, <1>3 DEF GoesAstray, ListingInv
<1>5. r.key = spec.key
  BY <1>2 DEF Meaning
<1>6. bucket' \subseteq Keys
  BY <1>3, <1>5 DEF Applied, ListingInv
<1>7. steady' \subseteq seen' /\ seen' \subseteq Keys
  BY <1>3, <1>6 DEF Matching, ListingInv
<1> QED BY <1>3, <1>4, <1>6, <1>7

\* The page that answers the List request in flight.
LEMMA PageAnswers ==
  ASSUME ListingInv
  PROVE  LET r == Meaning(lister.spec)
         IN /\ Understood(BuildRequest(lister.spec)) = r
            /\ Lists(Page(r), InOrder(Rest(r)), Shown(r)) /\ Page(r) \in Seq(Units)
            /\ InOrder(Rest(r)) \in Seq(Keys)
            /\ Shown(r) \in 0..Len(InOrder(Rest(r))) /\ Shown(r) <= PageLimit
            /\ Shown(r) < Len(InOrder(Rest(r))) => Shown(r) > 0
            /\ r.prefix = lister.spec.prefix
            /\ r.continuationToken = lister.spec.continuationToken
<1>1. lister.spec \in Specs /\ bucket \subseteq Keys
  BY DEF ListingInv, ListSpecs
<1>2. PICK r : r = Meaning(lister.spec)
  OBVIOUS
<1>3. Understood(BuildRequest(lister.spec)) = r
  <2>1. lister.spec.op = "List"
    BY DEF ListingInv, ListSpecs
  <2> QED BY <1>1, <1>2, <2>1, RequestsUnderstood
<1>4. /\ r.maxKeys = lister.spec.maxKeys /\ r.prefix = lister.spec.prefix
      /\ r.continuationToken = lister.spec.continuationToken
  BY <1>2 DEF Meaning
<1>5. r.maxKeys \in Nat \ {0}
  BY <1>1, <1>4 DEF Specs
<1>6. PICK s, n : s = InOrder(Rest(r)) /\ n = Shown(r)
  OBVIOUS
<1>7. /\ Page(r) = (Root \o NextOf(s, n)) \o ContentsOf(s, n) /\ s \in Seq(Keys)
      /\ n \in 0..Len(s) /\ n <= PageLimit /\ (n < Len(s) => n > 0)
  BY <1>1, <1>5, <1>6, PageIs
<1>8. Lists(Page(r), s, n)
  <2>1. s \in Seq(Keys) /\ n \in 0..Len(s) /\ (n < Len(s) => n > 0)
    BY <1>7
  <2>2. Lists((Root \o NextOf(s, n)) \o ContentsOf(s, n), s, n)
    BY <2>1, PageLists
  <2> QED BY <1>7, <2>2
<1>9. Page(r) \in Seq(Units)
  BY <1>8, Zenon DEF Lists
<1> QED BY <1>2, <1>3, <1>4, <1>6, <1>7, <1>8, <1>9

\* A page that breaks off is a body.
LEMMA PartOfPage ==
  ASSUME NEW page \in Seq(Units), NEW n \in 0..(Len(page) - 1)
  PROVE  SubSeq(page, 1, n) \in Seq(Units)
<1>1. Len(page) \in Nat
  BY LenProperties
<1>2. \A i \in 1..n : i \in 1..Len(page)
  BY <1>1
<1>3. \A i \in 1..n : page[i] \in Units
  BY <1>2, ElementOfSeq
<1>4. 1 \in Int /\ n \in Int
  BY <1>1
<1> QED BY <1>3, <1>4, SubSeqProperties

\* It holds at first,
LEMMA ListingInit_Inv == ListingInit => ListingInv
<1> SUFFICES ASSUME ListingInit PROVE ListingInv
  OBVIOUS
<1>1. config \in Configs
  <2>1. PICK e \in Endpoints : config = NewConfig(e)
    BY DEF ListingInit
  <2> QED BY <2>1 DEF NewConfig, Configs
<1>2. NewSpec("List") \in ListSpecs
  BY <1>1, SpecsAre
<1>3. PICK none : none = <<>>
  OBVIOUS
<1>4. none \in Seq(Units) /\ none \in Seq(Keys) /\ Len(none) = 0 /\ MaxBody \in Nat
  BY <1>3, EmptySeq, ListingAssumption
<1>5. PICK spec \in ListSpecs : spec = NewSpec("List")
  BY <1>2
<1>6. lister = [phase |-> "idle", spec |-> spec, body |-> none, listed |-> none]
  BY <1>3, <1>5, Zenon DEF ListingInit
<1>7. lister \in [phase : {"idle", "due", "done"}, spec : ListSpecs, body : Seq(Units),
                  listed : Seq(Keys)] /\ lister.body = none
  BY <1>4, <1>6
<1>8. bucket \subseteq Keys /\ steady = {} /\ seen = {} /\ astray = FALSE
  BY DEF ListingInit
<1> QED BY <1>1, <1>4, <1>7, <1>8 DEF ListingInv

\* The steps that begin, follow or break off the loop.
LEMMA StartKeeps ==
  ASSUME ListingInv, NEW prefix \in ListedPrefixes, NEW maxKeys \in PageSizes,
         StartListing(prefix, maxKeys)
  PROVE  ListingInv'
<1>1. prefix \in Seq(Byte) /\ maxKeys \in Int /\ <<>> \in Seq(Byte) /\ MaxBody \in Nat
  BY ListingAssumption, EmptySeq DEF Byte
<1>2. PICK spec : spec = ListSpec(prefix, maxKeys, <<>>)
  OBVIOUS
<1>3. spec \in ListSpecs
  BY <1>1, <1>2, SpecsAre DEF ListingInv
<1>4. PICK none : none = <<>>
  OBVIOUS
<1>5. none \in Seq(Units) /\ none \in Seq(Keys) /\ Len(none) = 0
  BY <1>4, EmptySeq
<1>6. lister' = [phase |-> "due", spec |-> spec, body |-> none, listed |-> none]
  BY <1>2, <1>4, Zenon DEF StartListing
<1>7. lister' \in [phase : {"idle", "due", "done"}, spec : ListSpecs, body : Seq(Units),
                   listed : Seq(Keys)] /\ lister'.body = none
  BY <1>3, <1>5, <1>6
<1>8. steady' = Matching(bucket, prefix) /\ seen' = Matching(bucket, prefix)
      /\ UNCHANGED <<config, bucket, astray>>
  BY DEF StartListing
<1>9. Matching(bucket, prefix) \subseteq Keys
  BY DEF Matching, ListingInv
<1> QED BY <1>1, <1>5, <1>7, <1>8, <1>9 DEF ListingInv

\* The step in which a page breaks off keeps it.
LEMMA BreakKeeps ==
  ASSUME ListingInv, PageBreaksOff
  PROVE  ListingInv'
<1>1. PICK r : r = Meaning(lister.spec)
  OBVIOUS
<1>2. Understood(BuildRequest(lister.spec)) = r /\ Page(r) \in Seq(Units)
  BY <1>1, PageAnswers
<1>3. GoesAstray(lister.spec, r) /\ UNCHANGED <<config, bucket, steady, seen>>
  BY <1>2 DEF PageBreaksOff
<1>4. PICK n \in 0..(Len(Page(r)) - 1) :
        lister' = [lister EXCEPT !.body = AttemptBody(SubSeq(Page(r), 1, n))]
  BY <1>2 DEF PageBreaksOff
<1>5. PICK body : body = AttemptBody(SubSeq(Page(r), 1, n))
  OBVIOUS
<1>6. body \in Seq(Units) /\ Len(body) <= MaxBody
  <2>1. SubSeq(Page(r), 1, n) \in Seq(Units)
    BY <1>2, PartOfPage
  <2> QED BY <1>5, <2>1, AttemptBodyIs
<1>7. lister' \in [phase : {"idle", "due", "done"}, spec : ListSpecs, body : Seq(Units),
                   listed : Seq(Keys)] /\ lister'.body = body
  BY <1>4, <1>5, <1>6 DEF ListingInv
<1>8. astray' = FALSE
  BY <1>1, <1>3 DEF GoesAstray, ListingInv
<1> QED BY <1>3, <1>6, <1>7, <1>8 DEF ListingInv

\* What a page that arrives whole leaves.
LEMMA ArriveIs ==
  ASSUME ListingInv, PageArrives
  PROVE  LET r == Meaning(lister.spec)
             page == ParseListObjects(AttemptBody(Page(r)))
         IN /\ astray' = FALSE /\ UNCHANGED <<config, bucket, steady, seen>>
            /\ page.objects \in Seq(Keys) /\ page.nextToken \in Seq(Byte)
            /\ lister'.listed = lister.listed \o page.objects /\ lister'.body = <<>>
            /\ page.nextToken = <<>> =>
                 lister'.phase = "done"
            /\ page.nextToken # <<>> =>
                 /\ lister'.phase = "due"
                 /\ lister'.spec = ListSpec(lister.spec.prefix, lister.spec.maxKeys,
                                            page.nextToken)
            /\ lister'.spec \in ListSpecs
            /\ lister' \in [phase : {"idle", "due", "done"}, spec : ListSpecs,
                            body : Seq(Units), listed : Seq(Keys)]
<1>1. PICK r : r = Meaning(lister.spec)
  OBVIOUS
<1>2. Understood(BuildRequest(lister.spec)) = r /\ Page(r) \in Seq(Units)
  BY <1>1, PageAnswers
<1>3. PICK page : page = ParseListObjects(AttemptBody(Page(r)))
  OBVIOUS
<1>4. page.objects \in Seq(Keys) /\ page.nextToken \in Seq(Byte)
  <2>1. AttemptBody(Page(r)) \in Seq(Units)
    BY <1>2, AttemptBodyIs
  <2> QED BY <1>3, <2>1, ParsedIs
<1>5. PICK listed : listed = lister.listed \o page.objects
  OBVIOUS
<1>6. listed \in Seq(Keys)
  BY <1>4, <1>5, ConcatProperties DEF ListingInv
<1>7. PICK none : none = <<>>
  OBVIOUS
<1>8. none \in Seq(Units)
  BY <1>7, EmptySeq
<1>9. PICK next : next = ListSpec(lister.spec.prefix, lister.spec.maxKeys, page.nextToken)
  OBVIOUS
<1>10. next \in ListSpecs
  <2>1. /\ config \in Configs /\ lister.spec.prefix \in Seq(Byte)
        /\ lister.spec.maxKeys \in Int
    BY DEF ListingInv, ListSpecs, Specs
  <2> QED BY <1>4, <1>9, <2>1, SpecsAre
<1>11. GoesAstray(lister.spec, r) /\ UNCHANGED <<config, bucket, steady, seen>>
  BY <1>2 DEF PageArrives
<1>12. lister' = IF page.nextToken = none
                 THEN Over("done", listed)
                 ELSE [lister EXCEPT !.listed = listed, !.body = none, !.spec = next]
  BY <1>2, <1>3, <1>5, <1>7, <1>9, Zenon DEF PageArrives
<1>13. astray' = FALSE
  BY <1>1, <1>11 DEF GoesAstray, ListingInv
<1>14. lister \in [phase : {"idle", "due", "done"}, spec : ListSpecs, body : Seq(Units),
                   listed : Seq(Keys)] /\ lister.phase = "due"
  BY DEF ListingInv, PageArrives
<1>15. CASE page.nextToken = none
  <2>1. PICK spec \in ListSpecs : spec = NewSpec("List")
    BY SpecsAre DEF ListingInv
  <2>2. lister' = [phase |-> "done", spec |-> spec, body |-> none, listed |-> listed]
    BY <1>7, <1>12, <1>15, <2>1, Zenon DEF Over
  <2>3. /\ lister' \in [phase : {"idle", "due", "done"}, spec : ListSpecs, body : Seq(Units),
                        listed : Seq(Keys)]
        /\ lister'.phase = "done" /\ lister'.body = none /\ lister'.listed = listed
    BY <1>6, <1>8, <2>2
  <2> QED BY <1>1, <1>3, <1>4, <1>5, <1>7, <1>11, <1>13, <1>15, <2>3
<1>16. CASE page.nextToken # none
  <2>1. PICK a : a = [lister EXCEPT !.listed = listed]
    OBVIOUS
  <2>2. PICK b : b = [a EXCEPT !.body = none]
    OBVIOUS
  <2>3. lister' = [b EXCEPT !.spec = next]
    BY <1>12, <1>16, <2>1, <2>2, Zenon
  <2>4. /\ a \in [phase : {"idle", "due", "done"}, spec : ListSpecs, body : Seq(Units),
                  listed : Seq(Keys)]
        /\ a.phase = "due" /\ a.listed = listed
    BY <1>6, <1>14, <2>1
  <2>5. /\ b \in [phase : {"idle", "due", "done"}, spec : ListSpecs, body : Seq(Units),
                  listed : Seq(Keys)]
        /\ b.phase = "due" /\ b.listed = listed /\ b.body = none
    BY <1>8, <2>2, <2>4
  <2>6. /\ lister' \in [phase : {"idle", "due", "done"}, spec : ListSpecs, body : Seq(Units),
                        listed : Seq(Keys)]
        /\ lister'.phase = "due" /\ lister'.spec = next /\ lister'.body = none
        /\ lister'.listed = listed
    BY <1>10, <2>3, <2>5
  <2> QED BY <1>1, <1>3, <1>4, <1>5, <1>7, <1>9, <1>10, <1>11, <1>13, <1>16, <2>6
<1> QED BY <1>15, <1>16

\* The step that gives up keeps it and forgets what was listed.
LEMMA FailIs ==
  ASSUME ListingInv, ListingFails
  PROVE  ListingInv' /\ lister'.phase = "idle" /\ lister'.listed = <<>>
<1>1. PICK none : none = <<>>
  OBVIOUS
<1>2. none \in Seq(Units) /\ none \in Seq(Keys) /\ Len(none) = 0 /\ MaxBody \in Nat
  BY <1>1, EmptySeq, ListingAssumption
<1>3. PICK spec \in ListSpecs : spec = NewSpec("List")
  BY SpecsAre DEF ListingInv
<1>4. lister' = [phase |-> "idle", spec |-> spec, body |-> none, listed |-> none]
  BY <1>1, <1>3, Zenon DEF ListingFails, Over
<1>5. /\ lister' \in [phase : {"idle", "due", "done"}, spec : ListSpecs, body : Seq(Units),
                      listed : Seq(Keys)]
      /\ lister'.phase = "idle" /\ lister'.body = none /\ lister'.listed = none
  BY <1>2, <1>4
<1>6. steady' = {} /\ seen' = {} /\ UNCHANGED <<config, bucket, astray>>
  BY DEF ListingFails
<1> QED BY <1>1, <1>2, <1>5, <1>6 DEF ListingInv

\* The key a request on an object is about.
LEMMA AccessKey == \A op, key : [NewSpec(op) EXCEPT !.key = key].key = key
BY DEF NewSpec

\* And that of a Copy.
LEMMA CopyKey ==
  \A source, key : [NewSpec("Copy") EXCEPT !.sourceKey = source, !.key = key].key = key
<1> SUFFICES ASSUME NEW source, NEW key
             PROVE  [NewSpec("Copy") EXCEPT !.sourceKey = source, !.key = key].key = key
  OBVIOUS
<1>1. PICK part : part = [NewSpec("Copy") EXCEPT !.sourceKey = source]
  OBVIOUS
<1>2. "key" \in DOMAIN part
  BY <1>1 DEF NewSpec
<1>3. PICK spec : spec = [part EXCEPT !.key = key]
  OBVIOUS
<1>4. spec.key = key
  BY <1>2, <1>3
<1> QED BY <1>1, <1>3, <1>4, Zenon

\* and every step keeps it,
LEMMA ListingNext_Inv == ListingInv /\ [ListingNext]_listingVars => ListingInv'
<1> SUFFICES ASSUME ListingInv, [ListingNext]_listingVars PROVE ListingInv'
  OBVIOUS
<1>1. CASE SetPathStyle
  <2>1. config' \in Configs
    BY <1>1 DEF SetPathStyle, ListingInv, Configs
  <2>2. UNCHANGED <<bucket, lister, astray, steady, seen>>
    BY <1>1 DEF SetPathStyle
  <2> QED BY <2>1, <2>2 DEF ListingInv
<1>2. CASE SetPublicUrl
  <2>1. config' \in Configs
    BY <1>2 DEF SetPublicUrl, ListingInv, Configs
  <2>2. UNCHANGED <<bucket, lister, astray, steady, seen>>
    BY <1>2 DEF SetPublicUrl
  <2> QED BY <2>1, <2>2 DEF ListingInv
<1>3. ASSUME NEW spec \in Specs, spec.key \in Keys, Request(spec) PROVE ListingInv'
  BY <1>3, RequestKeeps DEF ListingInv
<1>4. CASE \E op \in {"Put", "Delete", "Get", "Head"}, key \in Keys : Access(op, key)
  <2>1. PICK op \in {"Put", "Delete", "Get", "Head"}, key \in Keys : Access(op, key)
    BY <1>4
  <2>2. PICK spec : spec = [NewSpec(op) EXCEPT !.key = key]
    OBVIOUS
  <2>3. spec \in Specs /\ spec.key = key
    BY <2>2, SpecsAre, AccessKey DEF ListingInv
  <2>4. Request(spec)
    BY <2>1, <2>2 DEF Access
  <2> QED BY <1>3, <2>3, <2>4
<1>5. CASE \E source, key \in Keys : Copy(source, key)
  <2>1. PICK source \in Keys, key \in Keys : Copy(source, key)
    BY <1>5
  <2>2. PICK spec : spec = [NewSpec("Copy") EXCEPT !.sourceKey = source, !.key = key]
    OBVIOUS
  <2>3. spec \in Specs /\ spec.key = key
    BY <2>2, SpecsAre, CopyKey DEF ListingInv
  <2>4. Request(spec)
    BY <2>1, <2>2 DEF Copy
  <2> QED BY <1>3, <2>3, <2>4
<1>6. CASE \E prefix \in ListedPrefixes, maxKeys \in PageSizes : StartListing(prefix, maxKeys)
  BY <1>6, StartKeeps
<1>7. CASE PageBreaksOff
  BY <1>7, BreakKeeps
<1>8. CASE PageArrives
  <2>1. PICK none : none = <<>>
    OBVIOUS
  <2>2. Len(none) = 0 /\ MaxBody \in Nat
    BY <2>1, EmptySeq, ListingAssumption
  <2>3. /\ astray' = FALSE /\ UNCHANGED <<config, bucket, steady, seen>>
        /\ lister'.body = none
        /\ lister' \in [phase : {"idle", "due", "done"}, spec : ListSpecs, body : Seq(Units),
                        listed : Seq(Keys)]
    BY <1>8, <2>1, ArriveIs
  <2> QED BY <2>2, <2>3 DEF ListingInv
<1>9. CASE ListingFails
  BY <1>9, FailIs
<1>10. CASE UNCHANGED listingVars
  BY <1>10 DEF listingVars, ListingInv
<1> QED BY <1>1, <1>2, <1>4, <1>5, <1>6, <1>7, <1>8, <1>9, <1>10 DEF ListingNext

\* so it is an invariant.
LEMMA ListingInvHolds == ListingSpec => []ListingInv
BY ListingInit_Inv, ListingNext_Inv, PTL DEF ListingSpec

\* The settings name the service, the request in flight is a List with a page size, its body
\* stays within kMaxListBody, and what the plugin has listed are keys.
THEOREM ListingTypeCorrect == ListingSpec => []ListingTypeOK
<1>1. ListingInv => ListingTypeOK
  <2> SUFFICES ASSUME ListingInv PROVE ListingTypeOK
    OBVIOUS
  <2>1. config.endpoint.host = ServiceHost /\ config.pathStyle \in BOOLEAN
    BY ConfigIs DEF ListingInv
  <2>2. /\ lister.phase \in {"idle", "due", "done"} /\ lister.spec.op = "List"
        /\ lister.spec.maxKeys \in Nat \ {0}
    BY DEF ListingInv, ListSpecs, Specs
  <2>3. ToSet(lister.listed) \subseteq Keys
    <3>1. lister.listed \in Seq(Keys)
      BY DEF ListingInv
    <3> QED BY <3>1, LenProperties, ElementOfSeq DEF ToSet
  <2> QED BY <2>1, <2>2, <2>3 DEF ListingInv, ListingTypeOK
<1> QED BY <1>1, ListingInvHolds, PTL

\* The server takes each request for the one its caller made, whatever bytes its keys and
\* tokens have and whenever the settings change.
THEOREM NothingGoesAstray == ListingSpec => []NothingAstray
<1>1. ListingInv => NothingAstray
  BY DEF ListingInv, NothingAstray
<1> QED BY <1>1, ListingInvHolds, PTL

-----------------------------------------------------------------------------
(***************************************************************************)
(* A listing is complete.                                                  *)
(***************************************************************************)

\* What a loop in progress has behind it: where the next page begins, and which of the keys
\* it must find it has.
Behind ==
  LET token == lister.spec.continuationToken
      prefix == lister.spec.prefix
      listed == lister.listed
  IN /\ steady \subseteq Matching(bucket, prefix) /\ Matching(bucket, prefix) \subseteq seen
     /\ token = <<>> => listed = <<>>
     /\ token # <<>> => listed # <<>> /\ LastKey(token) = listed[Len(listed)]
     /\ \A k \in steady : k \in ToSet(listed) \/ token = <<>> \/ Less(LastKey(token), k)

LoopInv == CompleteListing /\ (lister.phase = "due" => Behind)

\* The elements of what is listed.
LEMMA ListedIs ==
  ASSUME NEW s \in Seq(Keys)
  PROVE  /\ DOMAIN s = 1..Len(s) /\ Len(s) \in Nat /\ ToSet(s) \subseteq Keys
         /\ \A x : x \in ToSet(s) <=> \E i \in 1..Len(s) : s[i] = x
         /\ \A i \in 1..Len(s) : s[i] \in Keys /\ s[i] \in Seq(Nat)
<1>1. DOMAIN s = 1..Len(s) /\ Len(s) \in Nat
  BY LenProperties
<1>2. \A i \in 1..Len(s) : s[i] \in Keys /\ s[i] \in Seq(Nat)
  BY ElementOfSeq, KeysAreBytes
<1> QED BY <1>1, <1>2 DEF ToSet

\* The keys a page adds: all that are left up to its last one, and all if it is the last page.
LEMMA PageAdds ==
  ASSUME ListingInv, MaxBody >= PageLimit + 2
  PROVE  LET r == Meaning(lister.spec)
             s == InOrder(Rest(r))
             page == ParseListObjects(AttemptBody(Page(r)))
         IN /\ page.objects = SubSeq(s, 1, Shown(r)) /\ s \in Seq(Keys)
            /\ Shown(r) \in 0..Len(s) /\ (Shown(r) < Len(s) => Shown(r) > 0)
            /\ page.nextToken = IF Shown(r) < Len(s) THEN Token(s[Shown(r)]) ELSE <<>>
            /\ \A i, k \in 1..Len(s) : i < k => Less(s[i], s[k])
            /\ \A x : x \in Rest(r) <=> \E i \in 1..Len(s) : s[i] = x
            /\ Rest(r) \subseteq Keys
<1>1. PICK r : r = Meaning(lister.spec)
  OBVIOUS
<1>2. PICK s, n : s = InOrder(Rest(r)) /\ n = Shown(r)
  OBVIOUS
<1>3. /\ Lists(Page(r), s, n) /\ Page(r) \in Seq(Units) /\ s \in Seq(Keys)
      /\ n \in 0..Len(s) /\ n <= PageLimit /\ (n < Len(s) => n > 0)
  BY <1>1, <1>2, PageAnswers
<1>4. Len(Page(r)) <= MaxBody
  <2>1. Len(Page(r)) = (IF n < Len(s) THEN 2 ELSE 1) + n
    BY <1>3, Zenon DEF Lists
  <2>2. MaxBody \in Nat /\ PageLimit \in Nat /\ Len(s) \in Nat /\ n \in Nat
    BY <1>3, ListingAssumption, LenProperties
  <2> QED BY <1>3, <2>1, <2>2
<1>5. AttemptBody(Page(r)) = Page(r)
  BY <1>3, <1>4, AttemptBodyIs
<1>6. /\ ParseListObjects(Page(r)).objects = SubSeq(s, 1, n)
      /\ ParseListObjects(Page(r)).nextToken = IF n < Len(s) THEN Token(s[n]) ELSE <<>>
  <2>1. s \in Seq(Keys) /\ n \in 0..Len(s) /\ (n < Len(s) => n > 0)
    BY <1>3
  <2> QED BY <1>3, <2>1, PageParsed
<1>7. Rest(r) \in KeySets /\ Rest(r) \subseteq Keys
  BY RestIs DEF ListingInv
<1>8. /\ s \in Seq(Rest(r)) /\ \A i, k \in 1..Len(s) : i < k => Less(s[i], s[k])
      /\ \A x \in Rest(r) : \E i \in 1..Len(s) : s[i] = x
  BY <1>2, <1>7, InOrderIs
<1>9. \A i \in 1..Len(s) : s[i] \in Rest(r)
  BY <1>8, ElementOfSeq
<1>10. \A x : x \in Rest(r) <=> \E i \in 1..Len(s) : s[i] = x
  BY <1>8, <1>9
<1> QED BY <1>1, <1>2, <1>3, <1>5, <1>6, <1>7, <1>8, <1>10

\* Keys listed after the last one keep the order and add to what is listed.
LEMMA ListedGrows ==
  ASSUME NEW a \in Seq(Keys), NEW s \in Seq(Keys), NEW n \in 0..Len(s),
         Ascending(a), \A i, k \in 1..Len(s) : i < k => Less(s[i], s[k]),
         a # <<>> => \A i \in 1..Len(s) : Less(a[Len(a)], s[i])
  PROVE  LET b == a \o SubSeq(s, 1, n)
         IN /\ b \in Seq(Keys) /\ Ascending(b)
            /\ \A x : x \in ToSet(b) <=> x \in ToSet(a) \/ \E i \in 1..n : s[i] = x
            /\ n > 0 => b # <<>> /\ b[Len(b)] = s[n]
<1>1. PICK p, m : p = Len(a) /\ m = Len(s)
  OBVIOUS
<1>2. /\ p \in Nat /\ m \in Nat /\ n \in 0..m /\ DOMAIN a = 1..p
      /\ \A i \in 1..p : a[i] \in Seq(Nat)
      /\ \A i \in 1..m : s[i] \in Seq(Nat) /\ s[i] \in Keys
  BY <1>1, ListedIs
<1>3. PICK c : c = SubSeq(s, 1, n)
  OBVIOUS
<1>4. c \in Seq(Keys) /\ Len(c) = n /\ \A i \in 1..n : c[i] = s[i]
  <2>1. \A i \in 1..n : i \in 1..Len(s)
    BY <1>1, <1>2
  <2>2. \A i \in 1..n : s[i] \in Keys
    BY <2>1, ElementOfSeq
  <2>3. 1 \in Int /\ n \in Int /\ n - 1 + 1 = n /\ (~(1 <= n) => n = 0)
        /\ \A i \in 1..n : 1 + i - 1 = i
    BY <1>2
  <2>4. /\ SubSeq(s, 1, n) \in Seq(Keys)
        /\ Len(SubSeq(s, 1, n)) = IF 1 <= n THEN n - 1 + 1 ELSE 0
        /\ \A i \in 1..(n - 1 + 1) : SubSeq(s, 1, n)[i] = s[1 + i - 1]
    BY <2>2, <2>3, SubSeqProperties
  <2> QED BY <1>3, <2>3, <2>4
<1>5. PICK b : b = a \o c
  OBVIOUS
<1>6. c \in Seq(Keys)
  BY <1>4
<1>7. /\ b \in Seq(Keys) /\ Len(b) = Len(a) + Len(c) /\ \A i \in 1..Len(a) : b[i] = a[i]
      /\ \A i \in 1..Len(c) : b[Len(a) + i] = c[i]
  BY <1>5, <1>6, ConcatIs
<1>8. /\ b \in Seq(Keys) /\ Len(b) = p + n /\ DOMAIN b = 1..(p + n)
      /\ \A i \in 1..p : b[i] = a[i]
      /\ \A i \in 1..n : b[p + i] = s[i]
  <2>1. DOMAIN b = 1..Len(b)
    BY <1>7, LenProperties
  <2>2. \A i \in 1..n : b[p + i] = s[i]
    BY <1>1, <1>4, <1>7
  <2> QED BY <1>1, <1>4, <1>7, <2>1, <2>2
<1>9. ASSUME NEW i \in (p + 1)..(p + n) PROVE b[i] = s[i - p]
  <2>1. i - p \in 1..n /\ p + (i - p) = i
    BY <1>2
  <2>2. PICK k : k = i - p
    OBVIOUS
  <2>3. k \in 1..n /\ p + k = i
    BY <2>1, <2>2
  <2>4. b[p + k] = s[k]
    BY <1>8, <2>3, Zenon
  <2> QED BY <2>2, <2>3, <2>4
<1>10. \A i, k \in 1..p : i < k => Less(a[i], a[k])
  BY <1>2 DEF Ascending
<1>11. ASSUME NEW i \in 1..p, NEW k \in 1..n PROVE Less(a[i], s[k])
  <2>1. p \in 1..p /\ k \in 1..m /\ p # 0
    BY <1>2
  <2>2. a # <<>>
    BY <1>1, <2>1
  <2>3. Less(a[p], s[k])
    BY <1>1, <2>1, <2>2
  <2>4. CASE i = p
    BY <2>3, <2>4
  <2>5. CASE i # p
    <3>1. i < p
      BY <1>2, <2>5
    <3>2. Less(a[i], a[p])
      BY <1>10, <2>1, <3>1
    <3>3. a[i] \in Seq(Nat) /\ a[p] \in Seq(Nat) /\ s[k] \in Seq(Nat)
      BY <1>2, <2>1
    <3> QED BY <2>3, <3>2, <3>3, LessTransitive
  <2> QED BY <2>4, <2>5
<1>12. ASSUME NEW i \in 1..(p + n), NEW k \in 1..(p + n), i < k PROVE Less(b[i], b[k])
  <2>1. CASE k <= p
    <3>1. i \in 1..p /\ k \in 1..p
      BY <1>2, <1>12, <2>1
    <3> QED BY <1>8, <1>10, <1>12, <3>1
  <2>2. CASE i <= p /\ k > p
    <3>1. i \in 1..p /\ k - p \in 1..n /\ k \in (p + 1)..(p + n)
      BY <1>2, <1>12, <2>2
    <3>2. b[i] = a[i] /\ b[k] = s[k - p]
      BY <1>8, <1>9, <3>1
    <3> QED BY <1>11, <3>1, <3>2
  <2>3. CASE i > p
    <3>1. /\ i \in (p + 1)..(p + n) /\ k \in (p + 1)..(p + n)
          /\ i - p < k - p /\ i - p \in 1..m /\ k - p \in 1..m
      BY <1>2, <1>12, <2>3
    <3>2. b[i] = s[i - p] /\ b[k] = s[k - p]
      BY <1>9, <3>1
    <3>3. Less(s[i - p], s[k - p])
      BY <1>1, <3>1
    <3> QED BY <3>1, <3>2, <3>3
  <2> QED BY <1>2, <2>1, <2>2, <2>3
<1>13. Ascending(b)
  BY <1>8, <1>12 DEF Ascending
<1>14. \A x : x \in ToSet(b) <=> x \in ToSet(a) \/ \E i \in 1..n : s[i] = x
  <2>1. ASSUME NEW x, x \in ToSet(b) PROVE x \in ToSet(a) \/ \E i \in 1..n : s[i] = x
    <3>1. PICK i \in 1..(p + n) : b[i] = x
      BY <1>8, <2>1 DEF ToSet
    <3>2. CASE i <= p
      <4>1. i \in 1..p
        BY <1>2, <3>2
      <4> QED BY <1>2, <1>8, <3>1, <4>1 DEF ToSet
    <3>3. CASE i > p
      <4>1. i - p \in 1..n /\ i \in (p + 1)..(p + n)
        BY <1>2, <3>3
      <4>2. b[i] = s[i - p]
        BY <1>9, <4>1
      <4> QED BY <3>1, <4>1, <4>2
    <3> QED BY <1>2, <3>2, <3>3
  <2>2. ASSUME NEW x, x \in ToSet(a) PROVE x \in ToSet(b)
    <3>1. PICK i \in 1..p : a[i] = x
      BY <1>2, <2>2 DEF ToSet
    <3>2. i \in 1..(p + n) /\ b[i] = x
      BY <1>2, <1>8, <3>1
    <3> QED BY <1>8, <3>2 DEF ToSet
  <2>3. ASSUME NEW i \in 1..n PROVE s[i] \in ToSet(b)
    <3>1. p + i \in 1..(p + n) /\ p + i \in (p + 1)..(p + n) /\ (p + i) - p = i
      BY <1>2
    <3>2. b[p + i] = s[i]
      BY <1>9, <3>1
    <3> QED BY <1>8, <3>1, <3>2 DEF ToSet
  <2> QED BY <2>1, <2>2, <2>3
<1>15. ASSUME n > 0 PROVE b # <<>> /\ b[Len(b)] = s[n]
  <2>1. n \in 1..n /\ Len(b) = p + n /\ Len(b) # 0
    BY <1>2, <1>8, <1>15
  <2>2. b[p + n] = s[n]
    <3>1. p + n \in (p + 1)..(p + n) /\ (p + n) - p = n
      BY <1>2, <2>1
    <3> QED BY <1>9, <3>1
  <2> QED BY <2>1, <2>2
<1> QED BY <1>3, <1>5, <1>8, <1>13, <1>14, <1>15

\* A page that arrives leaves the loop with all it must have behind it.
LEMMA ArriveKeepsLoop ==
  ASSUME ListingInv, LoopInv, MaxBody >= PageLimit + 2, PageArrives
  PROVE  LoopInv'
<1>1. PICK r : r = Meaning(lister.spec)
  OBVIOUS
<1>2. PICK s, n : s = InOrder(Rest(r)) /\ n = Shown(r)
  OBVIOUS
<1>3. PICK page : page = ParseListObjects(AttemptBody(Page(r)))
  OBVIOUS
<1>4. /\ page.objects = SubSeq(s, 1, n) /\ s \in Seq(Keys)
      /\ n \in 0..Len(s) /\ (n < Len(s) => n > 0)
      /\ page.nextToken = (IF n < Len(s) THEN Token(s[n]) ELSE <<>>)
      /\ \A i, k \in 1..Len(s) : i < k => Less(s[i], s[k])
      /\ \A x : x \in Rest(r) <=> \E i \in 1..Len(s) : s[i] = x
  BY <1>1, <1>2, <1>3, PageAdds
<1>5. /\ UNCHANGED <<config, bucket, steady, seen>>
      /\ lister'.listed = lister.listed \o page.objects
      /\ page.nextToken = <<>> => lister'.phase = "done"
      /\ page.nextToken # <<>> =>
           /\ lister'.phase = "due"
           /\ lister'.spec = ListSpec(lister.spec.prefix, lister.spec.maxKeys, page.nextToken)
  BY <1>1, <1>3, ArriveIs
<1>6. PICK a, token, prefix : a = lister.listed /\ token = lister.spec.continuationToken
                              /\ prefix = lister.spec.prefix
  OBVIOUS
<1>7. /\ steady \subseteq Matching(bucket, prefix) /\ Matching(bucket, prefix) \subseteq seen
      /\ token = <<>> => a = <<>>
      /\ token # <<>> => a # <<>> /\ LastKey(token) = a[Len(a)]
      /\ \A k \in steady : k \in ToSet(a) \/ token = <<>> \/ Less(LastKey(token), k)
      /\ Ascending(a) /\ ToSet(a) \subseteq seen /\ a \in Seq(Keys)
  BY <1>6 DEF LoopInv, Behind, CompleteListing, Ascending, ListingInv, PageArrives
<1>8. \A x : x \in Rest(r) <=> x \in Matching(bucket, prefix)
                               /\ (token = <<>> \/ Less(LastKey(token), x))
  <2>1. r.prefix = prefix /\ r.continuationToken = token
    BY <1>1, <1>6 DEF Meaning
  <2> QED BY <2>1 DEF Rest
<1>9. a # <<>> => \A i \in 1..Len(s) : Less(a[Len(a)], s[i])
  <2>1. ASSUME a # <<>>, NEW i \in 1..Len(s) PROVE Less(a[Len(a)], s[i])
    <3>1. token # <<>> /\ LastKey(token) = a[Len(a)]
      BY <1>7, <2>1
    <3>2. s[i] \in Rest(r)
      BY <1>4
    <3>3. Less(LastKey(token), s[i])
      BY <1>8, <3>1, <3>2
    <3> QED BY <3>1, <3>3
  <2> QED BY <2>1
<1>10. PICK b : b = a \o SubSeq(s, 1, n)
  OBVIOUS
<1>11. /\ Ascending(b) /\ b \in Seq(Keys)
       /\ \A x : x \in ToSet(b) <=> x \in ToSet(a) \/ \E i \in 1..n : s[i] = x
       /\ n > 0 => b # <<>> /\ b[Len(b)] = s[n]
  <2>1. a \in Seq(Keys) /\ s \in Seq(Keys) /\ n \in 0..Len(s)
    BY <1>4, <1>7
  <2>2. Ascending(a)
    BY <1>7
  <2>3. \A i, k \in 1..Len(s) : i < k => Less(s[i], s[k])
    BY <1>4
  <2>4. LET c == a \o SubSeq(s, 1, n)
        IN /\ c \in Seq(Keys) /\ Ascending(c)
           /\ \A x : x \in ToSet(c) <=> x \in ToSet(a) \/ \E i \in 1..n : s[i] = x
           /\ n > 0 => c # <<>> /\ c[Len(c)] = s[n]
    BY <1>9, <2>1, <2>2, <2>3, ListedGrows, Zenon
  <2> QED BY <1>10, <2>4
<1>12. lister'.listed = b
  BY <1>4, <1>5, <1>6, <1>10
<1>13. ToSet(b) \subseteq seen
  <2>1. ASSUME NEW i \in 1..n PROVE s[i] \in seen
    <3>1. i \in 1..Len(s)
      BY <1>4, LenProperties
    <3>2. s[i] \in Rest(r)
      BY <1>4, <3>1
    <3> QED BY <1>7, <1>8, <3>2
  <2> QED BY <1>7, <1>11, <2>1
<1>14. \A k \in steady : k \in ToSet(a) \/ \E i \in 1..Len(s) : s[i] = k
  <2>1. ASSUME NEW k \in steady, k \notin ToSet(a) PROVE \E i \in 1..Len(s) : s[i] = k
    <3>1. k \in Rest(r)
      BY <1>7, <1>8, <2>1
    <3> QED BY <1>4, <3>1
  <2> QED BY <2>1
<1>15. CASE n < Len(s)
  <2>1. n \in 1..Len(s) /\ n > 0 /\ Len(s) \in Nat
    BY <1>4, <1>15, LenProperties
  <2>2. PICK last : last = s[n]
    OBVIOUS
  <2>3. last \in Seq(Byte)
    BY <1>4, <2>1, <2>2, ElementOfSeq, KeysAreBytes
  <2>4. page.nextToken = Token(last) /\ Token(last) # <<>> /\ LastKey(Token(last)) = last
    BY <1>4, <1>15, <2>2, <2>3, TokenIs
  <2>5. lister'.phase = "due" /\ lister'.spec = ListSpec(prefix, lister.spec.maxKeys, Token(last))
    BY <1>5, <1>6, <2>4
  <2>6. lister'.spec.continuationToken = Token(last) /\ lister'.spec.prefix = prefix
    <3>1. PICK t, m : t = Token(last) /\ m = lister.spec.maxKeys
      OBVIOUS
    <3>2. ListSpec(prefix, m, t).continuationToken = t /\ ListSpec(prefix, m, t).prefix = prefix
      BY DEF ListSpec, NewSpec
    <3> QED BY <2>5, <3>1, <3>2
  <2>7. b # <<>> /\ b[Len(b)] = last
    BY <1>11, <2>1, <2>2
  <2>8. ASSUME NEW k \in steady PROVE k \in ToSet(b) \/ Less(last, k)
    <3>1. CASE k \in ToSet(a)
      BY <1>11, <3>1
    <3>2. CASE k \notin ToSet(a)
      <4>1. PICK i \in 1..Len(s) : s[i] = k
        BY <1>14, <3>2
      <4>2. CASE i <= n
        <5>1. i \in 1..n
          BY <2>1, <4>2
        <5> QED BY <1>11, <4>1, <5>1
      <4>3. CASE i > n
        <5>1. Less(s[n], s[i])
          BY <1>4, <2>1, <4>3
        <5> QED BY <2>2, <4>1, <5>1
      <4> QED BY <2>1, <4>2, <4>3
    <3> QED BY <3>1, <3>2
  <2>9. Behind'
    <3>1. steady' = steady /\ seen' = seen /\ bucket' = bucket
      BY <1>5
    <3> QED BY <1>7, <1>12, <2>4, <2>6, <2>7, <2>8, <3>1 DEF Behind, Matching
  <2>10. CompleteListing'
    BY <1>5, <1>11, <1>12, <1>13, <2>5 DEF CompleteListing, Ascending
  <2> QED BY <2>9, <2>10 DEF LoopInv
<1>16. CASE ~(n < Len(s))
  <2>1. n = Len(s)
    BY <1>4, <1>16, LenProperties
  <2>2. lister'.phase = "done"
    BY <1>4, <1>5, <1>16
  <2>3. steady \subseteq ToSet(b)
    BY <1>11, <1>14, <2>1
  <2>4. CompleteListing'
    BY <1>5, <1>11, <1>12, <1>13, <2>2, <2>3 DEF CompleteListing, Ascending
  <2> QED BY <2>2, <2>4 DEF LoopInv
<1> QED BY <1>15, <1>16

\* Nothing is listed at first.
LEMMA NoneListed == ToSet(<<>>) = {} /\ Ascending(<<>>)
<1>1. DOMAIN <<>> = {}
  OBVIOUS
<1> QED BY <1>1 DEF ToSet, Ascending

\* The steps that leave the loop where it is.
LEMMA StillLoop ==
  ASSUME LoopInv, UNCHANGED <<bucket, steady, seen>>, lister'.phase = lister.phase,
         lister'.spec = lister.spec, lister'.listed = lister.listed
  PROVE  LoopInv'
BY DEF LoopInv, Behind, CompleteListing, Matching

\* And the requests on objects.
LEMMA RequestKeepsLoop ==
  ASSUME ListingInv, LoopInv, NEW spec \in Specs, spec.key \in Keys, Request(spec)
  PROVE  LoopInv'
<1>1. /\ lister' = lister
      /\ lister.phase = "due" => /\ steady' = steady \cap bucket'
                                 /\ seen' = seen \cup Matching(bucket', lister.spec.prefix)
      /\ lister.phase # "due" => steady' = steady /\ seen' = seen
  BY RequestKeeps
<1>2. CASE lister.phase # "due"
  BY <1>1, <1>2 DEF LoopInv, CompleteListing
<1>3. CASE lister.phase = "due"
  <2>1. CompleteListing'
    BY <1>1, <1>3 DEF LoopInv, CompleteListing
  <2>2. Behind /\ steady' = steady \cap bucket'
        /\ seen' = seen \cup Matching(bucket', lister.spec.prefix)
    BY <1>1, <1>3 DEF LoopInv
  <2>3. steady' \subseteq Matching(bucket', lister.spec.prefix)
    BY <2>2 DEF Behind, Matching
  <2>4. Behind'
    BY <1>1, <2>2, <2>3 DEF Behind, Matching
  <2> QED BY <2>1, <2>4 DEF LoopInv
<1> QED BY <1>2, <1>3

\* The step that begins the loop begins with nothing behind it.
LEMMA StartKeepsLoop ==
  ASSUME NEW prefix, NEW maxKeys, StartListing(prefix, maxKeys)
  PROVE  LoopInv'
<1>1. PICK none : none = <<>>
  OBVIOUS
<1>2. PICK spec : spec = ListSpec(prefix, maxKeys, none)
  OBVIOUS
<1>3. spec.continuationToken = none /\ spec.prefix = prefix
  BY <1>2 DEF ListSpec, NewSpec
<1>4. lister' = [phase |-> "due", spec |-> spec, body |-> none, listed |-> none]
  BY <1>1, <1>2, Zenon DEF StartListing
<1>5. lister'.phase = "due" /\ lister'.spec = spec /\ lister'.listed = none
  BY <1>4
<1>6. steady' = Matching(bucket, prefix) /\ seen' = Matching(bucket, prefix) /\ bucket' = bucket
  BY DEF StartListing
<1>7. ToSet(none) = {} /\ Ascending(none)
  BY <1>1, NoneListed
<1>8. CompleteListing'
  BY <1>5, <1>6, <1>7 DEF CompleteListing, Ascending
<1>9. Behind'
  BY <1>1, <1>3, <1>5, <1>6 DEF Behind, Matching
<1> QED BY <1>8, <1>9 DEF LoopInv

\* It holds at first,
LEMMA ListingInit_Loop == ListingInit => LoopInv
<1> SUFFICES ASSUME ListingInit PROVE LoopInv
  OBVIOUS
<1>1. PICK none : none = <<>>
  OBVIOUS
<1>2. PICK spec : spec = NewSpec("List")
  OBVIOUS
<1>3. lister = [phase |-> "idle", spec |-> spec, body |-> none, listed |-> none]
  BY <1>1, <1>2, Zenon DEF ListingInit
<1>4. lister.phase = "idle" /\ lister.listed = none
  BY <1>3
<1>5. ToSet(none) = {} /\ Ascending(none)
  BY <1>1, NoneListed
<1> QED BY <1>4, <1>5 DEF LoopInv, CompleteListing, Ascending

\* and every step keeps it.
LEMMA ListingNext_Loop ==
  MaxBody >= PageLimit + 2 /\ ListingInv /\ LoopInv /\ [ListingNext]_listingVars => LoopInv'
<1> SUFFICES ASSUME MaxBody >= PageLimit + 2, ListingInv, LoopInv, [ListingNext]_listingVars
             PROVE  LoopInv'
  OBVIOUS
<1>1. CASE SetPathStyle
  BY <1>1, StillLoop DEF SetPathStyle
<1>2. CASE SetPublicUrl
  BY <1>2, StillLoop DEF SetPublicUrl
<1>3. ASSUME NEW op \in {"Put", "Delete", "Get", "Head"}, NEW key \in Keys, Access(op, key)
      PROVE  LoopInv'
  <2>1. PICK spec : spec = [NewSpec(op) EXCEPT !.key = key]
    OBVIOUS
  <2>2. spec \in Specs /\ spec.key = key
    BY <2>1, SpecsAre, AccessKey DEF ListingInv
  <2> QED BY <1>3, <2>1, <2>2, RequestKeepsLoop DEF Access
<1>4. ASSUME NEW source \in Keys, NEW key \in Keys, Copy(source, key) PROVE LoopInv'
  <2>1. PICK spec : spec = [NewSpec("Copy") EXCEPT !.sourceKey = source, !.key = key]
    OBVIOUS
  <2>2. spec \in Specs /\ spec.key = key
    BY <2>1, SpecsAre, CopyKey DEF ListingInv
  <2> QED BY <1>4, <2>1, <2>2, RequestKeepsLoop DEF Copy
<1>5. CASE \E prefix \in ListedPrefixes, maxKeys \in PageSizes : StartListing(prefix, maxKeys)
  BY <1>5, StartKeepsLoop
<1>6. CASE PageBreaksOff
  <2>1. PICK body : lister' = [lister EXCEPT !.body = body]
    BY <1>6 DEF PageBreaksOff
  <2>2. lister'.phase = lister.phase /\ lister'.spec = lister.spec
        /\ lister'.listed = lister.listed
    BY <2>1 DEF ListingInv
  <2>3. UNCHANGED <<bucket, steady, seen>>
    BY <1>6 DEF PageBreaksOff
  <2> QED BY <2>2, <2>3, StillLoop
<1>7. CASE PageArrives
  BY <1>7, ArriveKeepsLoop
<1>8. CASE ListingFails
  <2>1. PICK none : none = <<>>
    OBVIOUS
  <2>2. lister'.phase = "idle" /\ lister'.listed = none /\ ToSet(none) = {} /\ Ascending(none)
    BY <1>8, <2>1, FailIs, NoneListed
  <2> QED BY <2>2 DEF LoopInv, CompleteListing, Ascending
<1>9. CASE UNCHANGED listingVars
  BY <1>9, StillLoop DEF listingVars
<1> QED BY <1>1, <1>2, <1>3, <1>4, <1>5, <1>6, <1>7, <1>8, <1>9 DEF ListingNext

\* Where a full page fits the buffer, the loop lists every key that was there throughout,
\* none that never was and none twice, whatever happens between its pages.
THEOREM ListingsAreComplete ==
  ASSUME MaxBody >= PageLimit + 2
  PROVE  ListingSpec => []CompleteListing
<1>1. LoopInv => CompleteListing
  BY DEF LoopInv
<1>2. ListingInv /\ LoopInv /\ [ListingNext]_listingVars => LoopInv'
  BY ListingNext_Loop
<1> QED BY <1>1, <1>2, ListingInit_Loop, ListingInvHolds, PTL DEF ListingSpec
=============================================================================
