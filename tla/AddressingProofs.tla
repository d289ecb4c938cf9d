-------------------------- MODULE AddressingProofs --------------------------
(***************************************************************************)
(* Whatever bytes a key, a prefix or a token has and whichever address the *)
(* settings choose, the server takes a request for the one its caller      *)
(* meant: the URL that BuildRequest builds is taken apart where it was put *)
(* together, and decoding undoes UriEncode.                                *)
(***************************************************************************)
EXTENDS Listing, FiniteSetTheorems, SequenceTheorems, TLAPS

\* Any set of naturals has a least element: of the initial segments below its elements,
\* those within the segment of one of them are finite, and one is minimal.
LEMMA LeastNatural ==
  ASSUME NEW S, S \subseteq Nat, S # {}
  PROVE  \E x \in S : \A y \in S : x <= y
<1> PICK top \in S : TRUE
  OBVIOUS
<1> DEFINE I == 0..top
           Below(y) == {z \in I : z < y}
           T == {Below(y) : y \in S \cap I}
<1>1. IsFiniteSet(I)
  <2>1. 0 \in Int /\ top \in Int
    OBVIOUS
  <2> QED BY <2>1, FS_Interval
<1>2. T \subseteq SUBSET I
  OBVIOUS
<1>3. T \subseteq FiniteSubsetsOf(I)
  <2>1. FiniteSubsetsOf(I) = SUBSET I
    BY <1>1, FS_FiniteSubsetsOfFinite
  <2> HIDE DEF T
  <2> QED BY <1>2, <2>1
<1>4. T # {}
  <2>1. top \in S \cap I
    OBVIOUS
  <2> QED BY <2>1
<1>5. IsWellFoundedOn(StrictSubsetOrdering(I), FiniteSubsetsOf(I))
  BY FS_StrictSubsetOrderingWellFounded
<1>6. \E L \in T : \A M \in T : ~(<<M, L>> \in StrictSubsetOrdering(I))
  <2> HIDE DEF T, I
  <2> QED BY <1>3, <1>4, <1>5, WFMin
<1>7. PICK x \in S \cap I : \A M \in T : ~(<<M, Below(x)>> \in StrictSubsetOrdering(I))
  BY <1>6
<1>8. ASSUME NEW y \in S, y < x
      PROVE  FALSE
  <2>1. y \in S \cap I /\ y \in Below(x) /\ y \notin Below(y)
    BY <1>8
  <2>2. Below(y) \subseteq Below(x)
    BY <1>8
  <2>3. Below(y) \in SUBSET I /\ Below(x) \in SUBSET I
    OBVIOUS
  <2>4. Below(y) \in T
    BY <2>1
  <2>5. <<Below(y), Below(x)>> \in StrictSubsetOrdering(I)
    <3> HIDE DEF Below, I
    <3> QED BY <2>1, <2>2, <2>3 DEF StrictSubsetOrdering
  <2> QED BY <1>7, <2>4, <2>5
<1>9. x \in Nat /\ \A y \in S : y \in Nat /\ ~(y < x)
  BY <1>8
<1> QED BY <1>9

-----------------------------------------------------------------------------
(***************************************************************************)
(* Concatenation of many sequences.                                        *)
(***************************************************************************)

\* What FlattenSeq computes on the way: the concatenation of the first i.
FlattenStep(ss, f, i) == IF i = 1 THEN ss[i] ELSE f[i-1] \o ss[i]
Flattens(ss, f) == f = [i \in 1..Len(ss) |-> FlattenStep(ss, f, i)]

\* The recursion has a solution: were there one only up to some length, the least
\* length without one could be reached from the length before.
LEMMA FlattenExists ==
  ASSUME NEW S, NEW ss \in Seq(Seq(S))
  PROVE  \E f \in [1..Len(ss) -> Seq(S)] : Flattens(ss, f)
<1> DEFINE Solved(n) ==
             \E f \in [1..n -> Seq(S)] : \A i \in 1..n : f[i] = FlattenStep(ss, f, i)
           Unsolved == {n \in 0..Len(ss) : ~Solved(n)}
<1>1. Len(ss) \in Nat /\ \A i \in 1..Len(ss) : ss[i] \in Seq(S)
  OBVIOUS
<1>2. Solved(0)
  <2>1. [i \in 1..0 |-> <<>>] \in [1..0 -> Seq(S)]
    OBVIOUS
  <2>2. \A i \in 1..0 : FALSE
    OBVIOUS
  <2> QED BY <2>1, <2>2
<1>3. ASSUME Unsolved # {} PROVE FALSE
  <2> HIDE DEF Solved
  <2>1. PICK n \in Unsolved : \A k \in Unsolved : n <= k
    <3>1. Unsolved \subseteq Nat
      OBVIOUS
    <3> HIDE DEF Unsolved
    <3> QED BY <1>3, <3>1, LeastNatural
  <2>2. n \in 1..Len(ss) /\ n - 1 \in 0..Len(ss) /\ n - 1 < n /\ n \in Nat
    BY <1>1, <1>2
  <2>3. Solved(n - 1)
    BY <2>1, <2>2
  <2> USE DEF Solved
  <2>4. PICK f \in [1..(n - 1) -> Seq(S)] : \A i \in 1..(n - 1) : f[i] = FlattenStep(ss, f, i)
    BY <2>3
  <2> DEFINE last == IF n = 1 THEN ss[n] ELSE f[n - 1] \o ss[n]
             g == [i \in 1..n |-> IF i = n THEN last ELSE f[i]]
  <2>5. last \in Seq(S)
    <3>1. ss[n] \in Seq(S)
      BY <1>1, <2>2
    <3>2. n # 1 => f[n - 1] \in Seq(S)
      BY <2>2
    <3> QED BY <3>1, <3>2, ConcatProperties
  <2>6. g \in [1..n -> Seq(S)]
    <3> HIDE DEF last
    <3> QED BY <2>2, <2>5
  <2>7. ASSUME NEW i \in 1..n PROVE g[i] = FlattenStep(ss, g, i)
    <3>1. i # 1 => i - 1 \in 1..(n - 1) /\ i - 1 # n /\ i - 1 \in 1..n
      BY <2>2
    <3>2. CASE i = n
      <4>1. i # 1 => g[i - 1] = f[i - 1]
        BY <3>1
      <4> QED BY <3>2, <4>1 DEF FlattenStep
    <3>3. CASE i # n
      <4>1. i \in 1..(n - 1)
        BY <2>2, <3>3
      <4>2. i # 1 => g[i - 1] = f[i - 1]
        BY <3>1
      <4> QED BY <2>4, <3>3, <4>1, <4>2 DEF FlattenStep
    <3> QED BY <3>2, <3>3
  <2>8. Solved(n)
    <3> HIDE DEF g
    <3> QED BY <2>6, <2>7
  <2> QED BY <2>1, <2>8
<1>4. Solved(Len(ss))
  <2> HIDE DEF Solved
  <2>1. Len(ss) \in 0..Len(ss)
    BY <1>1
  <2> QED BY <1>3, <2>1
<1>5. PICK f \in [1..Len(ss) -> Seq(S)] : \A i \in 1..Len(ss) : f[i] = FlattenStep(ss, f, i)
  BY <1>4
<1>6. f = [i \in 1..Len(ss) |-> FlattenStep(ss, f, i)]
  BY <1>5
<1> QED BY <1>6 DEF Flattens

\* The solutions for a sequence and for one that continues it agree as far as both go.
LEMMA FlattenUnique ==
  ASSUME NEW ss, NEW tt, NEW f, NEW g, Len(ss) \in Nat, Len(tt) \in Nat,
         Len(ss) <= Len(tt), \A i \in 1..Len(ss) : ss[i] = tt[i],
         Flattens(ss, f), Flattens(tt, g)
  PROVE  \A i \in 1..Len(ss) : f[i] = g[i]
<1> DEFINE Differ == {i \in 1..Len(ss) : f[i] # g[i]}
<1>1. \A i \in 1..Len(ss) : f[i] = FlattenStep(ss, f, i) /\ g[i] = FlattenStep(tt, g, i)
  <2>1. \A i \in 1..Len(ss) : i \in 1..Len(tt)
    OBVIOUS
  <2> QED BY <2>1 DEF Flattens
<1>2. ASSUME Differ # {} PROVE FALSE
  <2>1. PICK i \in Differ : \A k \in Differ : i <= k
    <3>1. Differ \subseteq Nat
      OBVIOUS
    <3> HIDE DEF Differ
    <3> QED BY <1>2, <3>1, LeastNatural
  <2>2. CASE i = 1
    BY <1>1, <2>2 DEF FlattenStep
  <2>3. CASE i # 1
    <3>1. i - 1 \in 1..Len(ss) /\ ~(i <= i - 1)
      BY <2>3
    <3>2. f[i - 1] = g[i - 1]
      BY <2>1, <3>1
    <3> QED BY <1>1, <2>3, <3>2 DEF FlattenStep
  <2> QED BY <2>2, <2>3
<1> QED BY <1>2

\* What FlattenSeq computes is the last of the partial concatenations.
LEMMA FlattenIs ==
  ASSUME NEW S, NEW ss \in Seq(Seq(S)), ss # <<>>
  PROVE  \E f \in [1..Len(ss) -> Seq(S)] : Flattens(ss, f) /\ FlattenSeq(ss) = f[Len(ss)]
<1>1. Len(ss) \in Nat /\ Len(ss) # 0
  BY EmptySeq
<1>2. FlattenSeq(ss) = (CHOOSE f : Flattens(ss, f))[Len(ss)]
  BY <1>1 DEF FlattenSeq, Flattens, FlattenStep
<1>3. PICK f \in [1..Len(ss) -> Seq(S)] : Flattens(ss, f)
  BY FlattenExists
<1> DEFINE g == CHOOSE f1 : Flattens(ss, f1)
<1>4. Flattens(ss, g)
  BY <1>3
<1>5. \A i \in 1..Len(ss) : f[i] = g[i]
  <2> HIDE DEF g
  <2> QED BY <1>1, <1>3, <1>4, FlattenUnique, SMTT(30)
<1>6. g[Len(ss)] = f[Len(ss)]
  <2> HIDE DEF g
  <2> QED BY <1>1, <1>5
<1> QED BY <1>2, <1>3, <1>6

\* No sequences concatenate to none.
LEMMA FlattenEmpty == FlattenSeq(<<>>) = <<>>
  BY DEF FlattenSeq

\* One more sequence is appended to the concatenation of the others.
LEMMA FlattenAppend ==
  ASSUME NEW S, NEW ss \in Seq(Seq(S)), NEW x \in Seq(S)
  PROVE  /\ FlattenSeq(ss) \in Seq(S)
         /\ FlattenSeq(Append(ss, x)) = FlattenSeq(ss) \o x
<1>1. PICK tt : tt = Append(ss, x)
  OBVIOUS
<1>2. /\ tt \in Seq(Seq(S)) /\ tt # <<>> /\ Len(tt) = Len(ss) + 1 /\ Len(ss) \in Nat
      /\ tt[Len(tt)] = x /\ \A i \in 1..Len(ss) : tt[i] = ss[i]
  BY <1>1, AppendProperties, LenProperties
<1>3. PICK g \in [1..Len(tt) -> Seq(S)] : Flattens(tt, g) /\ FlattenSeq(tt) = g[Len(tt)]
  BY <1>2, FlattenIs
<1>4. g[Len(tt)] = FlattenStep(tt, g, Len(tt))
  <2>1. Len(tt) \in 1..Len(tt)
    BY <1>2
  <2> QED BY <1>3, <2>1 DEF Flattens
<1>5. CASE ss = <<>>
  <2>1. Len(tt) = 1
    BY <1>2, <1>5
  <2>2. FlattenSeq(tt) = x
    BY <1>2, <1>3, <1>4, <2>1 DEF FlattenStep
  <2> QED BY <1>1, <1>5, <2>2, FlattenEmpty, ConcatEmptySeq, EmptySeq
<1>6. CASE ss # <<>>
  <2>1. Len(ss) # 0
    BY <1>6, EmptySeq
  <2>2. PICK f \in [1..Len(ss) -> Seq(S)] : Flattens(ss, f) /\ FlattenSeq(ss) = f[Len(ss)]
    BY <1>6, FlattenIs
  <2>3. \A i \in 1..Len(ss) : f[i] = g[i]
    <3>1. Len(ss) \in Nat /\ Len(tt) \in Nat /\ Len(ss) <= Len(tt)
      BY <1>2
    <3>2. \A i \in 1..Len(ss) : ss[i] = tt[i]
      BY <1>2
    <3>3. Flattens(ss, f) /\ Flattens(tt, g)
      BY <1>3, <2>2
    <3> QED BY <3>1, <3>2, <3>3, FlattenUnique
  <2>4. Len(ss) \in 1..Len(ss) /\ Len(tt) - 1 = Len(ss) /\ Len(tt) # 1
    BY <1>2, <2>1
  <2>5. g[Len(tt)] = g[Len(ss)] \o x
    BY <1>2, <1>4, <2>4 DEF FlattenStep
  <2> QED BY <1>1, <1>3, <2>2, <2>3, <2>4, <2>5
<1> QED BY <1>5, <1>6

-----------------------------------------------------------------------------
(***************************************************************************)
(* Percent encoding.                                                       *)
(***************************************************************************)

Byte == 0..255
Unreserved == (65..90) \cup (97..122) \cup (48..57) \cup {45, 95, Dot, 126}

\* The characters that encoding leaves.
Encoded(encodeSlash) == Unreserved \cup {Percent} \cup (IF encodeSlash THEN {} ELSE {Slash})

\* What becomes of one character.
Enc(c, encodeSlash) ==
  IF IsUnreserved(c) \/ (c = Slash /\ ~encodeSlash)
  THEN <<c>>
  ELSE <<Percent, HexDigit(c \div 16), HexDigit(c % 16)>>

\* HexDigit makes an upper-case digit, and HexValue reads it back.
LEMMA HexIs ==
  ASSUME NEW n \in 0..15
  PROVE  /\ HexDigit(n) \in (48..57) \cup (65..70) /\ HexValue(HexDigit(n)) = n
BY SMT DEF HexDigit, HexValue

\* A byte is left alone or becomes an escape of its two halves.
LEMMA EncIs ==
  ASSUME NEW c \in Byte, NEW b \in BOOLEAN
  PROVE  /\ Enc(c, b) \in Seq(Encoded(b))
         /\ \/ Enc(c, b) = <<c>> /\ c # Percent
            \/ /\ Enc(c, b) = <<Percent, HexDigit(c \div 16), HexDigit(c % 16)>>
               /\ c \div 16 \in 0..15 /\ c % 16 \in 0..15 /\ c = 16 * (c \div 16) + (c % 16)
<1>1. c \div 16 \in 0..15 /\ c % 16 \in 0..15 /\ c = 16 * (c \div 16) + (c % 16)
  BY SMT DEF Byte
<1>2. CASE IsUnreserved(c) \/ (c = Slash /\ ~b)
  <2>1. Enc(c, b) = <<c>>
    BY <1>2 DEF Enc
  <2>2. c \in Encoded(b) /\ c # Percent
    BY <1>2, SMT DEF IsUnreserved, Encoded, Unreserved, Slash, Percent, Dot
  <2> QED BY <2>1, <2>2
<1>3. CASE ~(IsUnreserved(c) \/ (c = Slash /\ ~b))
  <2>1. Enc(c, b) = <<Percent, HexDigit(c \div 16), HexDigit(c % 16)>>
    BY <1>3 DEF Enc
  <2>2. \A n \in (48..57) \cup (65..70) : n \in Encoded(b)
    BY SMT DEF Encoded, Unreserved
  <2>3. HexDigit(c \div 16) \in Encoded(b) /\ HexDigit(c % 16) \in Encoded(b)
    BY <1>1, <2>2, HexIs
  <2>4. Percent \in Encoded(b)
    BY DEF Encoded
  <2> PICK x, y : x = HexDigit(c \div 16) /\ y = HexDigit(c % 16)
    OBVIOUS
  <2>5. <<Percent, x, y>> \in Seq(Encoded(b))
    BY <2>3, <2>4
  <2> QED BY <1>1, <2>1, <2>5
<1> QED BY <1>2, <1>3

\* Nothing is encoded as nothing.
LEMMA EncodeEmpty == \A b : UriEncode(<<>>, b) = <<>>
<1> SUFFICES ASSUME NEW b PROVE UriEncode(<<>>, b) = <<>>
  OBVIOUS
<1>1. [i \in DOMAIN <<>> |-> Enc(<<>>[i], b)] = <<>>
  OBVIOUS
<1> QED BY <1>1, FlattenEmpty DEF UriEncode, Enc

\* UriEncode goes byte by byte.
LEMMA EncodeAppend ==
  ASSUME NEW s \in Seq(Byte), NEW c \in Byte, NEW b \in BOOLEAN
  PROVE  /\ UriEncode(s, b) \in Seq(Encoded(b))
         /\ UriEncode(Append(s, c), b) = UriEncode(s, b) \o Enc(c, b)
<1> DEFINE U(q) == [i \in DOMAIN q |-> Enc(q[i], b)]
<1>1. \A q : UriEncode(q, b) = FlattenSeq(U(q))
  BY DEF UriEncode, Enc
<1>2. U(s) \in Seq(Seq(Encoded(b)))
  <2>1. Len(s) \in Nat /\ DOMAIN s = 1..Len(s) /\ \A i \in 1..Len(s) : s[i] \in Byte
    BY LenProperties
  <2>2. \A i \in 1..Len(s) : Enc(s[i], b) \in Seq(Encoded(b))
    BY <2>1, EncIs
  <2> QED BY <2>1, <2>2
<1>3. U(Append(s, c)) = Append(U(s), Enc(c, b))
  <2> DEFINE t == Append(s, c)
             l == U(t)
             r == Append(U(s), Enc(c, b))
  <2>1. /\ t \in Seq(Byte) /\ Len(t) = Len(s) + 1 /\ t[Len(t)] = c
        /\ \A i \in 1..Len(s) : t[i] = s[i]
        /\ Len(s) \in Nat /\ DOMAIN s = 1..Len(s) /\ DOMAIN t = 1..Len(t)
    BY AppendProperties, LenProperties
  <2>2. Enc(c, b) \in Seq(Encoded(b))
    BY EncIs
  <2>3. Len(U(s)) = Len(s)
    BY <1>2, <2>1, LenProperties
  <2> HIDE DEF t
  <2>4. /\ r \in Seq(Seq(Encoded(b))) /\ Len(r) = Len(s) + 1 /\ r[Len(s) + 1] = Enc(c, b)
        /\ \A i \in 1..Len(s) : r[i] = U(s)[i]
    <3> HIDE DEF U
    <3> QED BY <1>2, <2>2, <2>3, AppendProperties
  <2>5. l \in Seq(Seq(Encoded(b))) /\ Len(l) = Len(s) + 1
    <3>1. \A i \in 1..Len(t) : Enc(t[i], b) \in Seq(Encoded(b))
      BY <2>1, EncIs, ElementOfSeq
    <3> QED BY <2>1, <3>1
  <2>6. ASSUME NEW i \in 1..Len(l) PROVE l[i] = r[i]
    <3>1. CASE i = Len(s) + 1
      BY <2>1, <2>4, <2>5, <3>1
    <3>2. CASE i # Len(s) + 1
      <4>1. i \in 1..Len(s)
        BY <2>1, <2>5, <3>2
      <4> QED BY <2>1, <2>4, <2>5, <4>1
    <3> QED BY <3>1, <3>2
  <2>7. l = r
    <3> HIDE DEF l, r
    <3> QED BY <2>4, <2>5, <2>6, SeqEqual
  <2> QED BY <2>7 DEF t
<1>4. Enc(c, b) \in Seq(Encoded(b))
  BY EncIs
<1> HIDE DEF U
<1>5. /\ FlattenSeq(U(s)) \in Seq(Encoded(b))
      /\ FlattenSeq(Append(U(s), Enc(c, b))) = FlattenSeq(U(s)) \o Enc(c, b)
  BY <1>2, <1>4, FlattenAppend
<1> QED BY <1>1, <1>3, <1>5

-----------------------------------------------------------------------------
(***************************************************************************)
(* Decoding.                                                               *)
(***************************************************************************)

EscapeAt(s, i) ==
  /\ i \in 1..(Len(s) - 2) /\ s[i] = Percent
  /\ HexValue(s[i + 1]) >= 0 /\ HexValue(s[i + 2]) >= 0
Unit(s, i) ==
  IF EscapeAt(s, i) THEN <<16 * HexValue(s[i + 1]) + HexValue(s[i + 2])>>
  ELSE IF EscapeAt(s, i - 1) \/ EscapeAt(s, i - 2) THEN <<>>
  ELSE <<s[i]>>

\* No escape of s is cut off.
Complete(s) == \A i \in 1..Len(s) : s[i] = Percent => i <= Len(s) - 2

\* Decode joins what it makes of each position.
LEMMA DecodeIs == \A s : Decode(s) = FlattenSeq([i \in DOMAIN s |-> Unit(s, i)])
BY DEF Decode, Unit, EscapeAt

\* HexValue is a number of every byte.
LEMMA HexValueIs == \A c \in Nat : HexValue(c) \in Int
BY SMT DEF HexValue

\* A position decodes to a sequence of numbers.
LEMMA UnitIs ==
  ASSUME NEW s \in Seq(Nat), NEW i \in 1..Len(s)
  PROVE  Unit(s, i) \in Seq(Int)
<1>1. s[i] \in Int /\ Len(s) \in Nat
  BY LenProperties
<1>2. CASE EscapeAt(s, i)
  <2>1. i + 1 \in 1..Len(s) /\ i + 2 \in 1..Len(s)
    BY <1>1, <1>2 DEF EscapeAt
  <2>2. HexValue(s[i + 1]) \in Int /\ HexValue(s[i + 2]) \in Int
    BY <2>1, HexValueIs, ElementOfSeq
  <2>3. 16 * HexValue(s[i + 1]) + HexValue(s[i + 2]) \in Int
    BY <2>2
  <2> QED BY <1>2, <2>3 DEF Unit
<1> QED BY <1>1, <1>2 DEF Unit

\* A complete prefix decodes on its own.
LEMMA UnitsOfPrefix ==
  ASSUME NEW s \in Seq(Nat), NEW t \in Seq(Nat), Complete(s)
  PROVE  /\ \A i \in 1..Len(s) : Unit(s \o t, i) = Unit(s, i)
         /\ \A i \in Int : i <= Len(s) => (EscapeAt(s \o t, i) <=> EscapeAt(s, i))
         /\ ~EscapeAt(s, Len(s)) /\ ~EscapeAt(s, Len(s) - 1)
<1> DEFINE w == s \o t
<1>1. /\ w \in Seq(Nat) /\ Len(w) = Len(s) + Len(t) /\ Len(s) \in Nat /\ Len(t) \in Nat
      /\ \A i \in 1..Len(s) : w[i] = s[i]
  BY ConcatProperties, LenProperties
<1> HIDE DEF w
<1>2. ASSUME NEW i \in Int, i <= Len(s) PROVE EscapeAt(w, i) <=> EscapeAt(s, i)
  <2>1. CASE i < 1
    BY <2>1 DEF EscapeAt
  <2>2. CASE i >= 1 /\ s[i] # Percent
    <3>1. i \in 1..Len(s)
      BY <1>1, <1>2, <2>2
    <3> QED BY <1>1, <2>2, <3>1 DEF EscapeAt
  <2>3. CASE i >= 1 /\ s[i] = Percent
    <3>1. i \in 1..Len(s)
      BY <1>1, <1>2, <2>3
    <3>2. i <= Len(s) - 2
      BY <2>3, <3>1 DEF Complete
    <3>3. /\ i + 1 \in 1..Len(s) /\ i + 2 \in 1..Len(s)
          /\ i \in 1..(Len(s) - 2) /\ i \in 1..(Len(w) - 2)
      BY <1>1, <3>1, <3>2
    <3> QED BY <1>1, <3>1, <3>3 DEF EscapeAt
  <2> QED BY <2>1, <2>2, <2>3
<1>3. ASSUME NEW i \in 1..Len(s) PROVE Unit(w, i) = Unit(s, i)
  <2>1. /\ EscapeAt(w, i) <=> EscapeAt(s, i)
        /\ EscapeAt(w, i - 1) <=> EscapeAt(s, i - 1)
        /\ EscapeAt(w, i - 2) <=> EscapeAt(s, i - 2)
    BY <1>1, <1>2
  <2>2. EscapeAt(s, i) => i + 1 \in 1..Len(s) /\ i + 2 \in 1..Len(s)
    BY <1>1 DEF EscapeAt
  <2> QED BY <1>1, <2>1, <2>2 DEF Unit
<1>4. ~EscapeAt(s, Len(s)) /\ ~EscapeAt(s, Len(s) - 1)
  BY <1>1 DEF EscapeAt
<1> QED BY <1>2, <1>3, <1>4 DEF w

\* A plain byte behind complete escapes decodes to itself.
LEMMA DecodeChar ==
  ASSUME NEW s \in Seq(Nat), Complete(s), NEW c \in Nat, c # Percent
  PROVE  /\ Complete(s \o <<c>>)
         /\ Decode(s \o <<c>>) = Decode(s) \o <<c>> /\ Decode(s) \in Seq(Int)
<1> DEFINE w == s \o <<c>>
           u == [i \in 1..Len(s) |-> Unit(s, i)]
           v == [i \in 1..(Len(s) + 1) |-> Unit(w, i)]
<1>1. /\ w \in Seq(Nat) /\ Len(w) = Len(s) + 1 /\ Len(s) \in Nat
      /\ \A i \in 1..Len(s) : w[i] = s[i]
      /\ w[Len(s) + 1] = c /\ DOMAIN w = 1..(Len(s) + 1) /\ DOMAIN s = 1..Len(s)
  <2>1. <<c>> \in Seq(Nat) /\ Len(<<c>>) = 1 /\ <<c>>[1] = c
    OBVIOUS
  <2>2. Len(s) \in Nat
    OBVIOUS
  <2>3. /\ w \in Seq(Nat) /\ Len(w) = Len(s) + 1
        /\ \A i \in 1..(Len(s) + 1) : w[i] = IF i <= Len(s) THEN s[i] ELSE <<c>>[i - Len(s)]
    BY <2>1, ConcatProperties
  <2>4. w[Len(s) + 1] = c
    <3>1. Len(s) + 1 \in 1..(Len(s) + 1) /\ ~(Len(s) + 1 <= Len(s)) /\ (Len(s) + 1) - Len(s) = 1
      BY <2>2
    <3> QED BY <2>1, <2>3, <3>1
  <2> HIDE DEF w
  <2> QED BY <2>2, <2>3, <2>4, LenProperties
<1>2. /\ \A i \in 1..Len(s) : Unit(w, i) = Unit(s, i)
      /\ ~EscapeAt(w, Len(s)) /\ ~EscapeAt(w, Len(s) - 1)
  <2>1. <<c>> \in Seq(Nat)
    OBVIOUS
  <2>2. Len(s) \in Int /\ Len(s) - 1 \in Int /\ Len(s) - 1 <= Len(s) /\ Len(s) <= Len(s)
    BY <1>1
  <2> QED BY <2>1, <2>2, UnitsOfPrefix
<1> HIDE DEF w
<1>3. Unit(w, Len(s) + 1) = <<c>>
  <2>1. ~EscapeAt(w, Len(s) + 1)
    BY <1>1 DEF EscapeAt
  <2>2. (Len(s) + 1) - 1 = Len(s) /\ (Len(s) + 1) - 2 = Len(s) - 1
    BY <1>1
  <2> QED BY <1>1, <1>2, <2>1, <2>2 DEF Unit
<1>4. u \in Seq(Seq(Int)) /\ Len(u) = Len(s) /\ <<c>> \in Seq(Int)
  <2>1. \A i \in 1..Len(s) : Unit(s, i) \in Seq(Int)
    BY UnitIs
  <2> QED BY <1>1, <2>1
<1>5. v = Append(u, <<c>>)
  <2>1. v \in Seq(Seq(Int)) /\ Len(v) = Len(s) + 1
    <3>1. \A i \in 1..(Len(s) + 1) : Unit(w, i) \in Seq(Int)
      BY <1>1, UnitIs
    <3> QED BY <1>1, <3>1
  <2>2. /\ Append(u, <<c>>) \in Seq(Seq(Int)) /\ Len(Append(u, <<c>>)) = Len(s) + 1
        /\ Append(u, <<c>>)[Len(s) + 1] = <<c>>
        /\ \A i \in 1..Len(s) : Append(u, <<c>>)[i] = u[i]
    <3> HIDE DEF u
    <3> QED BY <1>4, AppendProperties
  <2>3. ASSUME NEW i \in 1..Len(v) PROVE v[i] = Append(u, <<c>>)[i]
    <3>1. i \in 1..Len(s) \/ i = Len(s) + 1
      BY <1>1, <2>1
    <3>2. Len(s) + 1 \in 1..(Len(s) + 1)
      BY <1>1
    <3>3. \A k \in 1..(Len(s) + 1) : v[k] = Unit(w, k)
      OBVIOUS
    <3>4. \A k \in 1..Len(s) : u[k] = Unit(s, k) /\ k \in 1..(Len(s) + 1)
      BY <1>1
    <3> HIDE DEF u, v
    <3> QED BY <1>2, <1>3, <2>2, <3>1, <3>2, <3>3, <3>4
  <2> HIDE DEF u, v
  <2> QED BY <2>1, <2>2, <2>3, SeqEqual
<1>6. Decode(w) = FlattenSeq(v) /\ Decode(s) = FlattenSeq(u)
  BY <1>1, DecodeIs
<1>7. Complete(w)
  BY <1>1 DEF Complete
<1> HIDE DEF u, v
<1> QED BY <1>4, <1>5, <1>6, <1>7, FlattenAppend DEF w

\* An escape behind complete escapes decodes to its byte.
LEMMA DecodeEscape ==
  ASSUME NEW s \in Seq(Nat), Complete(s), NEW a \in 0..15, NEW b \in 0..15
  PROVE  LET t == <<Percent, HexDigit(a), HexDigit(b)>>
         IN /\ Complete(s \o t)
            /\ Decode(s \o t) = Decode(s) \o <<16 * a + b>>
<1>1. PICK n : n = Len(s)
  OBVIOUS
<1>2. PICK x, y : x = HexDigit(a) /\ y = HexDigit(b)
  OBVIOUS
<1>3. /\ x \in Nat /\ y \in Nat /\ x # Percent /\ y # Percent
      /\ HexValue(x) = a /\ HexValue(y) = b
  <2>1. \A k \in (48..57) \cup (65..70) : k \in Nat /\ k # Percent
    BY SMT DEF Percent
  <2> QED BY <1>2, <2>1, HexIs
<1>4. PICK w : w = s \o <<Percent, x, y>>
  OBVIOUS
<1> DEFINE u == [i \in 1..n |-> Unit(s, i)]
           v == [i \in 1..(n + 3) |-> Unit(w, i)]
           code == 16 * a + b
           r1 == Append(u, <<code>>)
           r2 == Append(r1, <<>>)
           r == Append(r2, <<>>)
<1>5. /\ w \in Seq(Nat) /\ Len(w) = n + 3 /\ n \in Nat
      /\ \A i \in 1..n : w[i] = s[i]
      /\ w[n + 1] = Percent /\ w[n + 2] = x /\ w[n + 3] = y
      /\ DOMAIN w = 1..(n + 3) /\ DOMAIN s = 1..n
  <2>1. PICK t : t = <<Percent, x, y>>
    OBVIOUS
  <2>2. /\ t \in Seq(Nat) /\ Len(t) = 3 /\ t[1] = Percent /\ t[2] = x /\ t[3] = y
    BY <1>3, <2>1 DEF Percent
  <2>3. n \in Nat
    BY <1>1
  <2>4. /\ w \in Seq(Nat) /\ Len(w) = n + 3
        /\ \A i \in 1..(n + 3) : w[i] = IF i <= n THEN s[i] ELSE t[i - n]
    BY <1>1, <1>4, <2>1, <2>2, ConcatProperties
  <2>5. /\ n + 1 \in 1..(n + 3) /\ n + 2 \in 1..(n + 3) /\ n + 3 \in 1..(n + 3)
        /\ ~(n + 1 <= n) /\ ~(n + 2 <= n) /\ ~(n + 3 <= n)
        /\ (n + 1) - n = 1 /\ (n + 2) - n = 2 /\ (n + 3) - n = 3
    BY <2>3
  <2>6. w[n + 1] = Percent /\ w[n + 2] = x /\ w[n + 3] = y
    BY <2>2, <2>4, <2>5
  <2> QED BY <1>1, <2>3, <2>4, <2>6, LenProperties
<1>6. /\ \A i \in 1..n : Unit(w, i) = Unit(s, i)
      /\ ~EscapeAt(w, n) /\ ~EscapeAt(w, n - 1)
  <2>1. <<Percent, x, y>> \in Seq(Nat)
    BY <1>3 DEF Percent
  <2>2. n \in Int /\ n - 1 \in Int /\ n - 1 <= n /\ n <= n
    BY <1>5
  <2> QED BY <1>1, <1>4, <2>1, <2>2, UnitsOfPrefix, ZenonT(30)
<1>7. EscapeAt(w, n + 1) /\ ~EscapeAt(w, n + 2) /\ ~EscapeAt(w, n + 3)
  BY <1>3, <1>5 DEF EscapeAt
<1>8. Unit(w, n + 1) = <<code>> /\ Unit(w, n + 2) = <<>> /\ Unit(w, n + 3) = <<>>
  <2>1. (n + 2) - 1 = n + 1 /\ (n + 3) - 2 = n + 1 /\ (n + 1) + 1 = n + 2 /\ (n + 1) + 2 = n + 3
    BY <1>5
  <2>2. Unit(w, n + 1) = <<16 * HexValue(x) + HexValue(y)>>
    BY <1>5, <1>7, <2>1 DEF Unit
  <2> QED BY <1>3, <1>7, <2>1, <2>2 DEF Unit
<1>9. /\ u \in Seq(Seq(Int)) /\ Len(u) = n
      /\ code \in Int /\ <<>> \in Seq(Int) /\ <<code>> \in Seq(Int)
  <2>1. \A i \in 1..n : Unit(s, i) \in Seq(Int)
    BY <1>1, UnitIs
  <2> QED BY <1>5, <2>1
<1>10. /\ r1 \in Seq(Seq(Int)) /\ r2 \in Seq(Seq(Int)) /\ r \in Seq(Seq(Int)) /\ Len(r) = n + 3
       /\ \A i \in 1..n : r[i] = Unit(s, i)
       /\ r[n + 1] = <<code>> /\ r[n + 2] = <<>> /\ r[n + 3] = <<>>
  <2>1. \A i \in 1..n : u[i] = Unit(s, i)
    OBVIOUS
  <2> HIDE DEF u
  <2>2. /\ r1 \in Seq(Seq(Int)) /\ Len(r1) = n + 1 /\ r1[n + 1] = <<code>>
        /\ \A i \in 1..n : r1[i] = u[i]
    BY <1>9, AppendProperties
  <2> HIDE DEF r1
  <2>3. /\ r2 \in Seq(Seq(Int)) /\ Len(r2) = (n + 1) + 1 /\ r2[(n + 1) + 1] = <<>>
        /\ \A i \in 1..(n + 1) : r2[i] = r1[i]
    BY <1>9, <2>2, AppendProperties
  <2> HIDE DEF r2
  <2>4. /\ r \in Seq(Seq(Int)) /\ Len(r) = (n + 2) + 1 /\ r[(n + 2) + 1] = <<>>
        /\ \A i \in 1..(n + 2) : r[i] = r2[i]
    <3>1. Len(r2) = n + 2
      BY <1>5, <2>3
    <3> QED BY <1>9, <2>3, <3>1, AppendProperties
  <2> HIDE DEF r
  <2>5. /\ (n + 1) + 1 = n + 2 /\ (n + 2) + 1 = n + 3 /\ n + 1 \in 1..(n + 1)
        /\ n + 1 \in 1..(n + 2) /\ n + 2 \in 1..(n + 2)
        /\ \A i \in 1..n : i \in 1..(n + 1) /\ i \in 1..(n + 2)
    BY <1>5
  <2> QED BY <2>1, <2>2, <2>3, <2>4, <2>5
<1>11. v = r
  <2>1. v \in Seq(Seq(Int)) /\ Len(v) = n + 3
    <3>1. \A i \in 1..(n + 3) : Unit(w, i) \in Seq(Int)
      BY <1>5, UnitIs
    <3>2. n + 3 \in Nat
      BY <1>5
    <3> QED BY <3>1, <3>2
  <2>2. \A i \in 1..(n + 3) : v[i] = Unit(w, i)
    OBVIOUS
  <2> HIDE DEF v, r
  <2>3. ASSUME NEW i \in 1..Len(v) PROVE v[i] = r[i]
    <3>1. i \in 1..n \/ i = n + 1 \/ i = n + 2 \/ i = n + 3
      BY <1>5, <2>1
    <3>2. v[i] = Unit(w, i)
      BY <2>1, <2>2
    <3> QED BY <1>6, <1>8, <1>10, <3>1, <3>2
  <2> QED BY <1>10, <2>1, <2>3, SeqEqual
<1>12. FlattenSeq(r) = FlattenSeq(u) \o <<code>> /\ FlattenSeq(u) \in Seq(Int)
  <2> HIDE DEF u
  <2>1. FlattenSeq(r1) = FlattenSeq(u) \o <<code>> /\ FlattenSeq(u) \in Seq(Int)
    BY <1>9, FlattenAppend
  <2>2. FlattenSeq(r1) \in Seq(Int)
    BY <1>9, <2>1, ConcatProperties
  <2> HIDE DEF r1
  <2>3. FlattenSeq(r2) = FlattenSeq(r1) \o <<>>
    BY <1>9, <1>10, FlattenAppend
  <2>4. FlattenSeq(r2) = FlattenSeq(r1)
    BY <2>2, <2>3, ConcatEmptySeq
  <2>5. r = Append(r2, <<>>)
    BY DEF r1
  <2> HIDE DEF r2, r
  <2>6. FlattenSeq(r) = FlattenSeq(r2) \o <<>>
    BY <1>9, <1>10, <2>5, FlattenAppend
  <2> QED BY <2>1, <2>2, <2>4, <2>6, ConcatEmptySeq
<1>13. Decode(w) = FlattenSeq(v) /\ Decode(s) = FlattenSeq(u)
  <2>1. DOMAIN w = 1..(n + 3) /\ DOMAIN s = 1..n
    BY <1>5
  <2> QED BY <2>1, DecodeIs
<1>14. Complete(w)
  <2> SUFFICES ASSUME NEW i \in 1..(n + 3), w[i] = Percent PROVE i <= (n + 3) - 2
    BY <1>5 DEF Complete
  <2>1. i \in 1..n \/ i = n + 1 \/ i = n + 2 \/ i = n + 3
    BY <1>5
  <2>2. i \in 1..n \/ i = n + 1
    BY <1>3, <1>5, <2>1
  <2> QED BY <1>5, <2>2
<1> HIDE DEF r, u, v
<1> QED BY <1>2, <1>4, <1>11, <1>12, <1>13, <1>14

\* Decoding undoes UriEncode, for every string of bytes, whether it encodes slashes or not.
THEOREM DecodeUndoes ==
  ASSUME NEW s \in Seq(Byte), NEW b \in BOOLEAN
  PROVE  /\ Decode(UriEncode(s, b)) = s
         /\ UriEncode(s, b) \in Seq(Encoded(b))
<1> DEFINE Part(n) == SubSeq(s, 1, n)
           Undone(n) == /\ Decode(UriEncode(Part(n), b)) = Part(n)
                        /\ UriEncode(Part(n), b) \in Seq(Encoded(b))
                        /\ Complete(UriEncode(Part(n), b))
           Failing == {n \in 0..Len(s) : ~Undone(n)}
<1>1. Len(s) \in Nat /\ Part(0) = <<>>
  BY SubSeqEmpty
<1>2. Undone(0)
  <2>1. Decode(<<>>) = <<>>
    <3>1. [i \in DOMAIN <<>> |-> Unit(<<>>, i)] = <<>>
      OBVIOUS
    <3> QED BY <3>1, DecodeIs, FlattenEmpty
  <2>2. Complete(<<>>)
    BY DEF Complete
  <2> HIDE DEF Part
  <2> QED BY <1>1, <2>1, <2>2, EncodeEmpty, EmptySeq
<1>3. ASSUME Failing # {} PROVE FALSE
  <2> HIDE DEF Undone
  <2>1. PICK n \in Failing : \A k \in Failing : n <= k
    <3>1. Failing \subseteq Nat
      OBVIOUS
    <3> HIDE DEF Failing
    <3> QED BY <1>3, <3>1, LeastNatural
  <2>2. n \in 1..Len(s) /\ n - 1 \in 0..Len(s) /\ n - 1 < n /\ n \in Nat
    BY <1>1, <1>2
  <2>3. Undone(n - 1)
    BY <2>1, <2>2
  <2>4. Part(n - 1) \in Seq(Byte) /\ s[n] \in Byte /\ Part(n) = Append(Part(n - 1), s[n])
    <3>1. /\ Part(n - 1) \in Seq(Byte) /\ s[n] \in Byte
      <4>1. \A i \in 1..(n - 1) : s[i] \in Byte
        BY <2>2, ElementOfSeq
      <4> QED BY <2>2, <4>1, SubSeqProperties, ElementOfSeq
    <3>2. Part(n) = Part(n - 1) \o <<s[n]>>
      <4>1. 1 \in 1..Len(s) /\ n \in 1..Len(s)
        BY <1>1, <2>2
      <4> QED BY <4>1, SubSeqRecursiveSecond
    <3> HIDE DEF Part
    <3> QED BY <3>1, <3>2, AppendIsConcat
  <2>5. PICK p, c : p = Part(n - 1) /\ c = s[n]
    OBVIOUS
  <2>6. PICK e : e = UriEncode(p, b)
    OBVIOUS
  <2>7. /\ p \in Seq(Byte) /\ c \in Byte /\ Part(n) = Append(p, c)
        /\ Decode(e) = p /\ e \in Seq(Encoded(b)) /\ Complete(e)
    BY <2>3, <2>4, <2>5, <2>6 DEF Undone
  <2>8. e \in Seq(Nat)
    <3>1. Encoded(b) \subseteq Nat
      BY SMT DEF Encoded, Unreserved, Percent, Slash, Dot
    <3> QED BY <2>7, <3>1, SeqMonotonic
  <2>9. UriEncode(Append(p, c), b) = e \o Enc(c, b) /\ Enc(c, b) \in Seq(Encoded(b))
    BY <2>7, <2>6, EncodeAppend, EncIs
  <2>10. Decode(e \o Enc(c, b)) = Decode(e) \o <<c>> /\ Complete(e \o Enc(c, b))
    <3>1. CASE Enc(c, b) = <<c>> /\ c # Percent
      <4>1. c \in Nat
        BY <2>7, SMT DEF Byte
      <4> QED BY <2>7, <2>8, <3>1, <4>1, DecodeChar
    <3>2. CASE /\ Enc(c, b) = <<Percent, HexDigit(c \div 16), HexDigit(c % 16)>>
               /\ c \div 16 \in 0..15 /\ c % 16 \in 0..15 /\ c = 16 * (c \div 16) + (c % 16)
      <4>1. \A k, m \in 0..15 :
              LET t == <<Percent, HexDigit(k), HexDigit(m)>>
              IN Complete(e \o t) /\ Decode(e \o t) = Decode(e) \o <<16 * k + m>>
        BY <2>7, <2>8, DecodeEscape
      <4> QED BY <3>2, <4>1
    <3> QED BY <2>7, <3>1, <3>2, EncIs
  <2>11. e \o Enc(c, b) \in Seq(Encoded(b))
    BY <2>7, <2>9, ConcatProperties
  <2>12. Decode(e) \o <<c>> = Append(p, c)
    BY <2>7, AppendIsConcat
  <2>13. Undone(n)
    <3> HIDE DEF Part
    <3> QED BY <2>7, <2>9, <2>10, <2>11, <2>12 DEF Undone
  <2> QED BY <2>13
<1>4. Undone(Len(s))
  <2> HIDE DEF Undone
  <2>1. Len(s) \in 0..Len(s)
    BY <1>1
  <2> QED BY <1>3, <2>1
<1>5. Part(Len(s)) = s
  BY SubSeqFull
<1> HIDE DEF Part
<1> QED BY <1>4, <1>5

\* In a query as well: encoding leaves no plus sign for the server to take for a space.
LEMMA DecodeQueryUndoes ==
  ASSUME NEW s \in Seq(Byte)
  PROVE  DecodeQuery(UriEncode(s, TRUE)) = s
<1> PICK e : e = UriEncode(s, TRUE)
  OBVIOUS
<1>1. e \in Seq(Encoded(TRUE)) /\ Decode(e) = s
  BY DecodeUndoes
<1>2. Plus \notin Encoded(TRUE)
  BY SMT DEF Plus, Encoded, Unreserved, Percent, Dot
<1>3. \A i \in DOMAIN e : e[i] # Plus
  <2>1. DOMAIN e = 1..Len(e)
    BY <1>1, LenProperties
  <2>2. \A i \in 1..Len(e) : e[i] \in Encoded(TRUE)
    BY <1>1, ElementOfSeq
  <2> QED BY <1>2, <2>1, <2>2, Zenon
<1>4. [i \in DOMAIN e |-> IF e[i] = Plus THEN Space ELSE e[i]] = e
  <2>1. e = [i \in DOMAIN e |-> e[i]]
    <3>1. e \in [1..Len(e) -> Encoded(TRUE)]
      BY <1>1, LenProperties
    <3> QED BY <3>1
  <2> QED BY <1>3, <2>1
<1> QED BY <1>1, <1>4 DEF DecodeQuery

-----------------------------------------------------------------------------
(***************************************************************************)
(* Positions in sequences.                                                 *)
(***************************************************************************)

\* The elements of a concatenation, counted from where each part begins.
LEMMA ConcatIs ==
  ASSUME NEW S, NEW s \in Seq(S), NEW t \in Seq(S)
  PROVE  /\ s \o t \in Seq(S) /\ Len(s \o t) = Len(s) + Len(t)
         /\ Len(s) \in Nat /\ Len(t) \in Nat
         /\ \A i \in 1..Len(s) : (s \o t)[i] = s[i]
         /\ \A i \in 1..Len(t) : (s \o t)[Len(s) + i] = t[i]
<1>1. Len(s) \in Nat /\ Len(t) \in Nat
  BY LenProperties
<1>2. \A i \in 1..Len(s) : i \in 1..(Len(s) + Len(t)) /\ i <= Len(s)
  BY <1>1
<1>3. \A i \in 1..Len(t) : /\ Len(s) + i \in 1..(Len(s) + Len(t)) /\ ~(Len(s) + i <= Len(s))
                           /\ (Len(s) + i) - Len(s) = i
  BY <1>1
<1> QED BY <1>1, <1>2, <1>3, ConcatProperties

\* A part of a sequence is t when its elements are.
LEMMA SubSeqIs ==
  ASSUME NEW S, NEW s \in Seq(S), NEW t \in Seq(S),
         NEW i \in 1..(Len(s) - Len(t) + 1)
  PROVE  SubSeq(s, i, i + Len(t) - 1) = t <=> \A k \in 1..Len(t) : s[i + k - 1] = t[k]
<1>1. PICK n : n = i + Len(t) - 1
  OBVIOUS
<1>2. Len(s) \in Nat /\ Len(t) \in Nat /\ i \in Int /\ n \in Int /\ n - i + 1 = Len(t)
  BY <1>1, LenProperties
<1>3. \A k \in i..n : s[k] \in S
  <2>1. \A k \in i..n : k \in 1..Len(s)
    BY <1>1, <1>2
  <2> QED BY <2>1, ElementOfSeq
<1>4. /\ SubSeq(s, i, n) \in Seq(S) /\ Len(SubSeq(s, i, n)) = Len(t)
      /\ \A k \in 1..Len(t) : SubSeq(s, i, n)[k] = s[i + k - 1]
  BY <1>1, <1>2, <1>3, SubSeqProperties
<1>5. PICK u : u = SubSeq(s, i, n)
  OBVIOUS
<1>6. u = t <=> \A k \in 1..Len(t) : s[i + k - 1] = t[k]
  <2>1. ASSUME \A k \in 1..Len(t) : s[i + k - 1] = t[k] PROVE u = t
    BY <1>4, <1>5, <2>1, SeqEqual
  <2> QED BY <1>4, <1>5, <2>1
<1> QED BY <1>1, <1>5, <1>6

\* What is in a set and below all of it is its Min.
LEMMA MinIs ==
  ASSUME NEW S \in SUBSET Int, NEW m \in S, \A x \in S : m <= x
  PROVE  Min(S) = m
<1>1. \A x \in S : (\A y \in S : x <= y) => x = m
  <2>1. ASSUME NEW x \in S, \A y \in S : x <= y PROVE x = m
    <3>1. x <= m /\ m <= x /\ x \in Int /\ m \in Int
      BY <2>1
    <3> QED BY <3>1
  <2> QED BY <2>1
<1>2. Min(S) = CHOOSE x \in S : \A y \in S : x <= y
  BY DEF Min
<1>3. m \in S /\ \A y \in S : m <= y
  OBVIOUS
<1>4. /\ (CHOOSE x \in S : \A y \in S : x <= y) \in S
      /\ \A y \in S : (CHOOSE x \in S : \A y1 \in S : x <= y1) <= y
  BY <1>3
<1> QED BY <1>1, <1>2, <1>4

\* Min of a set of naturals that is not empty.
LEMMA LeastIs ==
  ASSUME NEW S \in SUBSET Nat, S # {}
  PROVE  Min(S) \in S /\ \A x \in S : Min(S) <= x
BY LeastNatural DEF Min

\* Max of a set of naturals that has a bound.
LEMMA GreatestIs ==
  ASSUME NEW S \in SUBSET Nat, S # {}, NEW n \in Nat, \A x \in S : x <= n
  PROVE  Max(S) \in S /\ \A x \in S : Max(S) >= x
<1> DEFINE T == {k \in Nat : n - k \in S}
<1>1. T \subseteq Nat /\ T # {}
  <2>1. PICK x \in S : TRUE
    OBVIOUS
  <2>2. n - x \in Nat /\ n - (n - x) = x
    BY <2>1
  <2> QED BY <2>1, <2>2
<1>2. PICK k \in T : \A y \in T : k <= y
  <2> HIDE DEF T
  <2> QED BY <1>1, LeastNatural
<1>3. \A x \in S : n - k >= x
  <2>1. ASSUME NEW x \in S PROVE n - k >= x
    <3>1. n - x \in Nat /\ n - (n - x) = x
      OBVIOUS
    <3>2. k <= n - x
      BY <1>2, <3>1
    <3> QED BY <1>2, <3>1, <3>2
  <2> QED BY <2>1
<1>4. n - k \in S
  BY <1>2
<1> QED BY <1>3, <1>4 DEF Max

\* Where Until stops: at the first of the characters, or behind the end.
LEMMA UntilIs ==
  ASSUME NEW s, Len(s) \in Nat, NEW chars, NEW i \in Nat, NEW m \in i..(Len(s) + 1),
         \A k \in i..(m - 1) : s[k] \notin chars,
         m = Len(s) + 1 \/ s[m] \in chars
  PROVE  Until(s, i, chars) = m
<1> DEFINE S == {k \in i..Len(s) : s[k] \in chars} \cup {Len(s) + 1}
<1>1. S \in SUBSET Int
  OBVIOUS
<1>2. m \in S
  <2>1. m # Len(s) + 1 => m \in i..Len(s)
    OBVIOUS
  <2> QED BY <2>1
<1>3. ASSUME NEW x \in S PROVE m <= x
  <2>1. CASE x = Len(s) + 1
    BY <2>1
  <2>2. CASE x \in i..Len(s) /\ s[x] \in chars
    <3>1. ~(x \in i..(m - 1))
      BY <2>2
    <3> QED BY <2>2, <3>1
  <2> QED BY <2>1, <2>2
<1>4. Until(s, i, chars) = Min(S)
  BY DEF Until
<1> HIDE DEF S
<1> QED BY <1>1, <1>2, <1>3, <1>4, MinIs

\* Where s holds "://".
SchemeEndAt(s, i) ==
  i \in 1..(Len(s) - 2) /\ s[i] = 58 /\ s[i + 1] = Slash /\ s[i + 2] = Slash
\* Where s holds the name of a parameter.
NameAt(s, name, i) == i \in 1..(Len(s) - 1) /\ s[i] = name /\ s[i + 1] = Equals

\* Find is the least position at which the elements agree.
LEMMA FindIs ==
  ASSUME NEW s \in Seq(Nat), NEW t \in Seq(Nat), NEW at,
         \A i : i \in at <=> /\ i \in 1..(Len(s) - Len(t) + 1)
                             /\ \A k \in 1..Len(t) : s[i + k - 1] = t[k]
  PROVE  Find(s, t) = IF at = {} THEN 0 ELSE Min(at)
<1>1. \A i \in 1..(Len(s) - Len(t) + 1) :
        SubSeq(s, i, i + Len(t) - 1) = t <=> \A k \in 1..Len(t) : s[i + k - 1] = t[k]
  BY SubSeqIs, SMTT(30)
<1>2. {i \in 1..(Len(s) - Len(t) + 1) : SubSeq(s, i, i + Len(t) - 1) = t} = at
  BY <1>1
<1> QED BY <1>2 DEF Find

\* Find looks for the first "://".
LEMMA FindSchemeEnd ==
  ASSUME NEW s \in Seq(Nat)
  PROVE  Find(s, SchemeEnd) = IF \A i \in Nat : ~SchemeEndAt(s, i) THEN 0
                              ELSE Min({i \in Nat : SchemeEndAt(s, i)})
<1>1. PICK t : t = SchemeEnd
  OBVIOUS
<1>2. t \in Seq(Nat) /\ Len(t) = 3 /\ t[1] = 58 /\ t[2] = Slash /\ t[3] = Slash
  BY <1>1 DEF SchemeEnd, Slash
<1>3. Len(s) \in Nat
  BY LenProperties
<1>4. \A i \in Nat : SchemeEndAt(s, i) <=> /\ i \in 1..(Len(s) - Len(t) + 1)
                                           /\ \A k \in 1..Len(t) : s[i + k - 1] = t[k]
  <2>1. ASSUME NEW i \in Nat
        PROVE  /\ i + 1 - 1 = i /\ i + 2 - 1 = i + 1 /\ i + 3 - 1 = i + 2
               /\ i \in 1..(Len(s) - Len(t) + 1) <=> i \in 1..(Len(s) - 2)
    BY <1>2, <1>3
  <2>2. \A k : k \in 1..Len(t) <=> k = 1 \/ k = 2 \/ k = 3
    BY <1>2
  <2> QED BY <1>2, <2>1, <2>2 DEF SchemeEndAt
<1> DEFINE at == {i \in Nat : SchemeEndAt(s, i)}
<1>5. \A i : i \in at <=> /\ i \in 1..(Len(s) - Len(t) + 1)
                          /\ \A k \in 1..Len(t) : s[i + k - 1] = t[k]
  <2>1. \A i \in 1..(Len(s) - Len(t) + 1) : i \in Nat
    BY <1>2, <1>3
  <2> QED BY <1>4, <2>1
<1>6. at = {} <=> \A i \in Nat : ~SchemeEndAt(s, i)
  OBVIOUS
<1> HIDE DEF at
<1>7. Find(s, t) = IF at = {} THEN 0 ELSE Min(at)
  <2>1. t \in Seq(Nat)
    BY <1>2
  <2> QED BY <1>5, <2>1, FindIs
<1> QED BY <1>1, <1>6, <1>7 DEF at

\* And for the first name of a parameter.
LEMMA FindName ==
  ASSUME NEW s \in Seq(Nat), NEW name \in Nat
  PROVE  Find(s, <<name, Equals>>) = IF \A i \in Nat : ~NameAt(s, name, i) THEN 0
                                     ELSE Min({i \in Nat : NameAt(s, name, i)})
<1>1. PICK t : t = <<name, Equals>>
  OBVIOUS
<1>2. t \in Seq(Nat) /\ Len(t) = 2 /\ t[1] = name /\ t[2] = Equals
  BY <1>1 DEF Equals
<1>3. Len(s) \in Nat
  BY LenProperties
<1>4. \A i \in Nat : NameAt(s, name, i) <=> /\ i \in 1..(Len(s) - Len(t) + 1)
                                            /\ \A k \in 1..Len(t) : s[i + k - 1] = t[k]
  <2>1. ASSUME NEW i \in Nat
        PROVE  /\ i + 1 - 1 = i /\ i + 2 - 1 = i + 1
               /\ i \in 1..(Len(s) - Len(t) + 1) <=> i \in 1..(Len(s) - 1)
    BY <1>2, <1>3
  <2>2. \A k : k \in 1..Len(t) <=> k = 1 \/ k = 2
    BY <1>2
  <2> QED BY <1>2, <2>1, <2>2 DEF NameAt
<1> DEFINE at == {i \in Nat : NameAt(s, name, i)}
<1>5. \A i : i \in at <=> /\ i \in 1..(Len(s) - Len(t) + 1)
                          /\ \A k \in 1..Len(t) : s[i + k - 1] = t[k]
  <2>1. \A i \in 1..(Len(s) - Len(t) + 1) : i \in Nat
    BY <1>2, <1>3
  <2> QED BY <1>4, <2>1
<1>6. at = {} <=> \A i \in Nat : ~NameAt(s, name, i)
  OBVIOUS
<1> HIDE DEF at
<1>7. Find(s, t) = IF at = {} THEN 0 ELSE Min(at)
  BY <1>2, <1>5, FindIs
<1> QED BY <1>1, <1>6, <1>7 DEF at

\* A part of a sequence is what its elements say.
LEMMA PartIs ==
  ASSUME NEW S, NEW s \in Seq(S), NEW t \in Seq(S), NEW n \in Nat, n + Len(t) <= Len(s),
         \A k \in 1..Len(t) : s[n + k] = t[k]
  PROVE  SubSeq(s, n + 1, n + Len(t)) = t
<1>1. Len(s) \in Nat /\ Len(t) \in Nat
  BY LenProperties
<1>2. n + 1 \in 1..(Len(s) - Len(t) + 1) /\ (n + 1) + Len(t) - 1 = n + Len(t)
  BY <1>1
<1>3. \A k \in 1..Len(t) : s[(n + 1) + k - 1] = t[k]
  <2>1. \A k \in 1..Len(t) : (n + 1) + k - 1 = n + k
    BY <1>1
  <2> QED BY <2>1
<1>4. SubSeq(s, n + 1, (n + 1) + Len(t) - 1) = t
  BY <1>2, <1>3, SubSeqIs
<1> QED BY <1>2, <1>4

-----------------------------------------------------------------------------
(***************************************************************************)
(* URLs.                                                                   *)
(***************************************************************************)

Schemeless(s) == \A i \in Nat : ~SchemeEndAt(s, i)

\* The three characters of "://".
LEMMA SchemeEndIs ==
  /\ SchemeEnd \in Seq(Nat) /\ Len(SchemeEnd) = 3
  /\ SchemeEnd[1] = 58 /\ SchemeEnd[2] = Slash /\ SchemeEnd[3] = Slash
BY DEF SchemeEnd, Slash

\* The elements of a scheme followed by "://".
LEMMA AfterScheme ==
  ASSUME NEW a \in Seq(Nat)
  PROVE  /\ a \o SchemeEnd \in Seq(Nat) /\ Len(a \o SchemeEnd) = Len(a) + 3
         /\ \A i \in 1..Len(a) : (a \o SchemeEnd)[i] = a[i]
         /\ (a \o SchemeEnd)[Len(a) + 1] = 58
         /\ (a \o SchemeEnd)[Len(a) + 2] = Slash /\ (a \o SchemeEnd)[Len(a) + 3] = Slash
<1>1. PICK e : e = SchemeEnd
  OBVIOUS
<1>2. e \in Seq(Nat) /\ Len(e) = 3 /\ e[1] = 58 /\ e[2] = Slash /\ e[3] = Slash
  BY <1>1, SchemeEndIs
<1>3. PICK w : w = a \o e
  OBVIOUS
<1>4. /\ w \in Seq(Nat) /\ Len(w) = Len(a) + Len(e)
      /\ \A i \in 1..Len(a) : w[i] = a[i]
      /\ \A i \in 1..Len(e) : w[Len(a) + i] = e[i]
  <2>1. e \in Seq(Nat)
    BY <1>2
  <2> QED BY <1>3, <2>1, ConcatIs
<1>5. 1 \in 1..Len(e) /\ 2 \in 1..Len(e) /\ 3 \in 1..Len(e)
  BY <1>2
<1> QED BY <1>1, <1>2, <1>3, <1>4, <1>5

\* The first "://" is the one behind the scheme.
LEMMA FindAfterScheme ==
  ASSUME NEW a \in Seq(Nat), Schemeless(a), NEW u \in Seq(Nat), Len(u) >= Len(a) + 3,
         \A i \in 1..(Len(a) + 3) : u[i] = (a \o SchemeEnd)[i]
  PROVE  Find(u, SchemeEnd) = Len(a) + 1
<1>1. PICK w, n : w = a \o SchemeEnd /\ n = Len(a)
  OBVIOUS
<1>2. /\ w \in Seq(Nat) /\ Len(w) = n + 3 /\ n \in Nat
      /\ \A i \in 1..n : w[i] = a[i]
      /\ w[n + 1] = 58 /\ w[n + 2] = Slash /\ w[n + 3] = Slash
  BY <1>1, AfterScheme, LenProperties
<1>3. /\ u \in Seq(Nat) /\ Len(u) >= n + 3 /\ Len(u) \in Nat
      /\ \A i \in 1..(n + 3) : u[i] = w[i]
  BY <1>1, LenProperties
<1>4. /\ \A i \in 1..n : u[i] = a[i]
      /\ u[n + 1] = 58 /\ u[n + 2] = Slash /\ u[n + 3] = Slash
  <2>1. /\ \A i \in 1..n : i \in 1..(n + 3)
        /\ n + 1 \in 1..(n + 3) /\ n + 2 \in 1..(n + 3) /\ n + 3 \in 1..(n + 3)
    BY <1>2
  <2> QED BY <1>2, <1>3, <2>1
<1>5. SchemeEndAt(u, n + 1)
  <2>1. n + 1 \in 1..(Len(u) - 2) /\ (n + 1) + 1 = n + 2 /\ (n + 1) + 2 = n + 3
    BY <1>2, <1>3
  <2> QED BY <1>4, <2>1 DEF SchemeEndAt
<1>6. ASSUME NEW i \in Nat, SchemeEndAt(u, i), i < n + 1 PROVE FALSE
  <2>1. i >= 1 /\ u[i] = 58 /\ u[i + 1] = Slash /\ u[i + 2] = Slash
    BY <1>6 DEF SchemeEndAt
  <2>2. CASE i <= n - 2
    <3>1. i \in 1..n /\ i + 1 \in 1..n /\ i + 2 \in 1..n /\ i \in 1..(n - 2)
      BY <1>2, <2>1, <2>2
    <3>2. SchemeEndAt(a, i)
      BY <1>1, <1>4, <2>1, <3>1 DEF SchemeEndAt
    <3> QED BY <3>2 DEF Schemeless
  <2>3. CASE i = n - 1
    <3>1. i + 2 = n + 1
      BY <1>2, <2>3
    <3> QED BY <1>4, <2>1, <3>1 DEF Slash
  <2>4. CASE i = n
    BY <1>4, <2>1, <2>4 DEF Slash
  <2> QED BY <1>2, <1>6, <2>2, <2>3, <2>4
<1>7. PICK S : S = {i \in Nat : SchemeEndAt(u, i)}
  OBVIOUS
<1>8. Find(u, SchemeEnd) = Min(S)
  <2>1. ~ \A i \in Nat : ~SchemeEndAt(u, i)
    <3>1. n + 1 \in Nat
      BY <1>2
    <3> QED BY <1>5, <3>1
  <2> QED BY <1>3, <1>7, <2>1, FindSchemeEnd
<1>9. Min(S) = n + 1
  <2>1. S \in SUBSET Int /\ n + 1 \in S
    BY <1>2, <1>5, <1>7
  <2>2. \A i \in S : n + 1 <= i
    BY <1>2, <1>6, <1>7
  <2> QED BY <2>1, <2>2, MinIs
<1> QED BY <1>1, <1>8, <1>9

\* What an address is taken apart into makes it up again.
LEMMA SchemeOf ==
  ASSUME NEW v \in Seq(Nat), Find(v, SchemeEnd) # 0
  PROVE  LET at == Find(v, SchemeEnd)
             a == SubSeq(v, 1, at - 1)
             r == SubSeq(v, at + 3, Len(v))
         IN /\ a \in Seq(Nat) /\ r \in Seq(Nat) /\ Schemeless(a)
            /\ v = (a \o SchemeEnd) \o r
<1>1. PICK at : at = Find(v, SchemeEnd)
  OBVIOUS
<1>2. PICK S : S = {i \in Nat : SchemeEndAt(v, i)}
  OBVIOUS
<1>3. at = Min(S) /\ S # {} /\ S \in SUBSET Nat
  BY <1>1, <1>2, FindSchemeEnd
<1>4. at \in S /\ \A i \in S : at <= i
  BY <1>3, LeastIs
<1>5. /\ at \in 1..(Len(v) - 2) /\ Len(v) \in Nat
      /\ v[at] = 58 /\ v[at + 1] = Slash /\ v[at + 2] = Slash
  BY <1>2, <1>4, LenProperties DEF SchemeEndAt
<1>6. at \in Int /\ at >= 1 /\ at <= Len(v) - 2 /\ Len(v) \in Int
  BY <1>5
<1>7. PICK a, r : a = SubSeq(v, 1, at - 1) /\ r = SubSeq(v, at + 3, Len(v))
  OBVIOUS
<1>8. /\ a \in Seq(Nat) /\ Len(a) = at - 1 /\ \A i \in 1..(at - 1) : a[i] = v[i]
  <2>1. \A i \in 1..(at - 1) : i \in 1..Len(v) /\ 1 + i - 1 = i
    BY <1>5
  <2>2. \A i \in 1..(at - 1) : v[i] \in Nat
    BY <2>1, ElementOfSeq
  <2>3. 1 \in Int /\ at - 1 \in Int /\ (at - 1) - 1 + 1 = at - 1
    BY <1>5
  <2>4. /\ a \in Seq(Nat) /\ Len(a) = IF 1 <= at - 1 THEN (at - 1) - 1 + 1 ELSE 0
        /\ \A i \in 1..((at - 1) - 1 + 1) : a[i] = v[1 + i - 1]
    BY <1>7, <2>2, <2>3, SubSeqProperties
  <2>5. ~(1 <= at - 1) => at - 1 = 0
    BY <1>5
  <2> QED BY <2>1, <2>3, <2>4, <2>5
<1>9. /\ r \in Seq(Nat) /\ Len(r) = Len(v) - (at + 2)
      /\ \A i \in 1..(Len(v) - (at + 2)) : r[i] = v[at + 2 + i]
  <2>1. \A i \in (at + 3)..Len(v) : i \in 1..Len(v)
    BY <1>5
  <2>2. \A i \in (at + 3)..Len(v) : v[i] \in Nat
    BY <2>1, ElementOfSeq
  <2>3. at + 3 \in Int /\ Len(v) \in Int /\ Len(v) - (at + 3) + 1 = Len(v) - (at + 2)
    BY <1>5
  <2>4. /\ r \in Seq(Nat) /\ Len(r) = IF at + 3 <= Len(v) THEN Len(v) - (at + 3) + 1 ELSE 0
        /\ \A i \in 1..(Len(v) - (at + 3) + 1) : r[i] = v[at + 3 + i - 1]
    BY <1>7, <2>2, <2>3, SubSeqProperties
  <2>5. ~(at + 3 <= Len(v)) => Len(v) - (at + 2) = 0
    BY <1>5
  <2>6. \A i \in 1..(Len(v) - (at + 2)) : at + 3 + i - 1 = at + 2 + i
    BY <1>5
  <2> QED BY <2>3, <2>4, <2>5, <2>6
<1>10. Schemeless(a)
  <2> SUFFICES ASSUME NEW i \in Nat, SchemeEndAt(a, i) PROVE FALSE
    BY DEF Schemeless
  <2>1. i \in 1..(at - 3) /\ a[i] = 58 /\ a[i + 1] = Slash /\ a[i + 2] = Slash
    BY <1>5, <1>8 DEF SchemeEndAt
  <2>2. /\ i \in 1..(at - 1) /\ i + 1 \in 1..(at - 1) /\ i + 2 \in 1..(at - 1)
        /\ i \in 1..(Len(v) - 2)
    <3>1. i \in 1..(at - 3)
      BY <2>1
    <3> QED BY <1>6, <3>1
  <2>3. SchemeEndAt(v, i)
    BY <1>8, <2>1, <2>2 DEF SchemeEndAt
  <2>4. at <= i
    BY <1>2, <1>4, <2>3
  <2> QED BY <1>5, <2>1, <2>4
<1>11. PICK w, u : w = a \o SchemeEnd /\ u = w \o r
  OBVIOUS
<1>12. /\ w \in Seq(Nat) /\ Len(w) = at + 2
       /\ \A i \in 1..(at - 1) : w[i] = v[i]
       /\ w[at] = 58 /\ w[at + 1] = Slash /\ w[at + 2] = Slash
  <2>1. /\ w \in Seq(Nat) /\ Len(w) = Len(a) + 3
        /\ \A i \in 1..Len(a) : w[i] = a[i]
        /\ w[Len(a) + 1] = 58 /\ w[Len(a) + 2] = Slash /\ w[Len(a) + 3] = Slash
    BY <1>8, <1>11, AfterScheme
  <2>2. at - 1 + 3 = at + 2 /\ at - 1 + 1 = at /\ at - 1 + 2 = at + 1
    BY <1>5
  <2> QED BY <1>8, <2>1, <2>2
<1>13. \A i \in 1..(at + 2) : w[i] = v[i]
  <2>1. ASSUME NEW i \in 1..(at + 2) PROVE w[i] = v[i]
    <3>1. i \in Int /\ i >= 1 /\ i <= at + 2
      BY <1>6
    <3>2. i \in 1..(at - 1) \/ i = at \/ i = at + 1 \/ i = at + 2
      BY <1>6, <3>1
    <3> QED BY <1>5, <1>12, <3>2
  <2> QED BY <2>1
<1>14. /\ u \in Seq(Nat) /\ Len(u) = Len(v)
       /\ \A i \in 1..(at + 2) : u[i] = w[i]
       /\ \A i \in 1..(Len(v) - (at + 2)) : u[at + 2 + i] = r[i]
  <2>1. /\ u \in Seq(Nat) /\ Len(u) = Len(w) + Len(r)
        /\ \A i \in 1..Len(w) : u[i] = w[i]
        /\ \A i \in 1..Len(r) : u[Len(w) + i] = r[i]
    <3>1. r \in Seq(Nat) /\ w \in Seq(Nat)
      BY <1>9, <1>12
    <3> QED BY <1>11, <3>1, ConcatIs
  <2>2. at + 2 + (Len(v) - (at + 2)) = Len(v)
    BY <1>5
  <2> QED BY <1>9, <1>12, <2>1, <2>2
<1>15. ASSUME NEW i \in 1..Len(u) PROVE u[i] = v[i]
  <2>1. CASE i \in 1..(at + 2)
    BY <1>13, <1>14, <2>1
  <2>2. CASE ~(i \in 1..(at + 2))
    <3>1. PICK k : k = i - (at + 2)
      OBVIOUS
    <3>2. k \in 1..(Len(v) - (at + 2)) /\ at + 2 + k = i
      <4>1. Len(u) = Len(v)
        BY <1>14
      <4>2. i \in Int /\ i >= 1 /\ i <= Len(v)
        BY <1>6, <4>1
      <4>3. i > at + 2
        BY <1>6, <2>2, <4>2
      <4> QED BY <1>6, <3>1, <4>2, <4>3
    <3> QED BY <1>9, <1>14, <3>2
  <2> QED BY <2>1, <2>2
<1>16. u = v
  BY <1>14, <1>15, SeqEqual
<1> QED BY <1>1, <1>7, <1>8, <1>9, <1>10, <1>11, <1>16

IsQuery(s) ==
  s \in Seq(Nat) /\ (s # <<>> => s[1] = Question) /\ \A i \in DOMAIN s : s[i] # Hash

\* Strings of bytes are strings of the model.
LEMMA BytesAreNumbers == \A s \in Seq(Byte) : s \in Seq(Nat)
<1>1. Byte \subseteq Nat
  BY DEF Byte
<1> QED BY <1>1, SeqMonotonic

\* A URL put together from a scheme, a host, a path and a query is taken apart into them.
LEMMA ResolveIs ==
  ASSUME NEW a \in Seq(Nat), Schemeless(a), NEW h, IsName(h), NEW p, IsPath(p), p # <<>>,
         ~HasDotSegment(p), NEW q, IsQuery(q)
  PROVE  Resolve((((a \o SchemeEnd) \o h) \o p) \o q)
           = [host |-> h, path |-> p, query |-> SubSeq(q, 2, Len(q))]
<1>1. h \in Seq(Nat) /\ p \in Seq(Nat) /\ q \in Seq(Nat)
  BY BytesAreNumbers DEF IsName, IsPath, IsQuery, Byte
<1>2. /\ Len(h) \in Nat /\ Len(p) \in Nat /\ Len(q) \in Nat /\ Len(p) >= 1 /\ Len(a) \in Nat
      /\ DOMAIN h = 1..Len(h) /\ DOMAIN p = 1..Len(p) /\ DOMAIN q = 1..Len(q)
      /\ q # <<>> => Len(q) >= 1
      /\ q = <<>> => Len(q) = 0
  BY <1>1, LenProperties, EmptySeq
<1>3. PICK w0 : w0 = a \o SchemeEnd
  OBVIOUS
<1>4. PICK w1 : w1 = w0 \o h
  OBVIOUS
<1>5. PICK w2 : w2 = w1 \o p
  OBVIOUS
<1>6. PICK u : u = w2 \o q
  OBVIOUS
<1>7. PICK n0, n1, n2, n3 : /\ n0 = Len(a) + 3 /\ n1 = n0 + Len(h)
                            /\ n2 = n1 + Len(p) /\ n3 = n2 + Len(q)
  OBVIOUS
<1>8. /\ n0 \in Nat /\ n1 \in Nat /\ n2 \in Nat /\ n3 \in Nat
      /\ n0 <= n1 /\ n1 < n2 /\ n2 <= n3 /\ n0 >= 3
  BY <1>2, <1>7
<1>9. w0 \in Seq(Nat) /\ Len(w0) = n0
  BY <1>3, <1>7, AfterScheme
<1>10. /\ w1 \in Seq(Nat) /\ Len(w1) = n1
       /\ \A i \in 1..n0 : w1[i] = w0[i]
       /\ \A i \in 1..Len(h) : w1[n0 + i] = h[i]
  <2>1. /\ w1 \in Seq(Nat) /\ Len(w1) = Len(w0) + Len(h)
        /\ \A i \in 1..Len(w0) : w1[i] = w0[i]
        /\ \A i \in 1..Len(h) : w1[Len(w0) + i] = h[i]
    <3>1. w0 \in Seq(Nat)
      BY <1>9
    <3> QED BY <1>1, <1>4, <3>1, ConcatIs
  <2> QED BY <1>7, <1>9, <2>1
<1>11. /\ w2 \in Seq(Nat) /\ Len(w2) = n2
       /\ \A i \in 1..n1 : w2[i] = w1[i]
       /\ \A i \in 1..Len(p) : w2[n1 + i] = p[i]
  <2>1. w1 \in Seq(Nat) /\ Len(w1) = n1
    BY <1>10
  <2>2. /\ w2 \in Seq(Nat) /\ Len(w2) = Len(w1) + Len(p)
        /\ \A i \in 1..Len(w1) : w2[i] = w1[i]
        /\ \A i \in 1..Len(p) : w2[Len(w1) + i] = p[i]
    <3>1. w1 \in Seq(Nat)
      BY <2>1
    <3> QED BY <1>1, <1>5, <3>1, ConcatIs
  <2> QED BY <1>7, <2>1, <2>2
<1>12. /\ u \in Seq(Nat) /\ Len(u) = n3
       /\ \A i \in 1..n2 : u[i] = w2[i]
       /\ \A i \in 1..Len(q) : u[n2 + i] = q[i]
  <2>1. w2 \in Seq(Nat) /\ Len(w2) = n2
    BY <1>11
  <2>2. /\ u \in Seq(Nat) /\ Len(u) = Len(w2) + Len(q)
        /\ \A i \in 1..Len(w2) : u[i] = w2[i]
        /\ \A i \in 1..Len(q) : u[Len(w2) + i] = q[i]
    <3>1. w2 \in Seq(Nat)
      BY <2>1
    <3> QED BY <1>1, <1>6, <3>1, ConcatIs
  <2> QED BY <1>7, <2>1, <2>2
<1>13. /\ \A i \in 1..Len(h) : u[n0 + i] = h[i]
       /\ \A i \in 1..Len(p) : u[n1 + i] = p[i]
  <2>1. \A i \in 1..Len(h) : n0 + i \in 1..n1 /\ n0 + i \in 1..n2
    BY <1>2, <1>7, <1>8
  <2>2. \A i \in 1..Len(p) : n1 + i \in 1..n2
    BY <1>2, <1>7, <1>8
  <2> QED BY <1>10, <1>11, <1>12, <2>1, <2>2
<1>14. Find(u, SchemeEnd) + 3 = n0 + 1
  <2>1. \A i \in 1..n0 : u[i] = w0[i]
    <3>1. \A i \in 1..n0 : i \in 1..n1 /\ i \in 1..n2
      BY <1>8
    <3> QED BY <1>10, <1>11, <1>12, <3>1
  <2>2. u \in Seq(Nat) /\ Len(u) >= Len(a) + 3
    BY <1>7, <1>8, <1>12
  <2>3. Find(u, SchemeEnd) = Len(a) + 1
    BY <1>3, <1>7, <2>1, <2>2, FindAfterScheme
  <2> QED BY <1>2, <1>7, <2>3
<1>15. Until(u, n0 + 1, {Slash, Question, Hash}) = n1 + 1
  <2>1. \A k \in (n0 + 1)..n1 : u[k] \notin {Slash, Question, Hash}
    <3> SUFFICES ASSUME NEW k \in (n0 + 1)..n1 PROVE u[k] \notin {Slash, Question, Hash}
      OBVIOUS
    <3>1. k - n0 \in 1..Len(h) /\ n0 + (k - n0) = k
      BY <1>7, <1>8
    <3>2. u[k] = h[k - n0]
      BY <1>13, <3>1
    <3>3. h[k - n0] \notin {Slash, Question, Hash}
      BY <1>2, <3>1 DEF IsName
    <3> QED BY <3>2, <3>3
  <2>2. u[n1 + 1] \in {Slash, Question, Hash}
    <3>1. 1 \in 1..Len(p)
      BY <1>2
    <3>2. u[n1 + 1] = p[1]
      BY <1>13, <3>1
    <3>3. p[1] = Slash
      BY DEF IsPath
    <3> QED BY <3>2, <3>3
  <2>3. /\ n0 + 1 \in Nat /\ n1 + 1 \in (n0 + 1)..(Len(u) + 1) /\ (n1 + 1) - 1 = n1
        /\ Len(u) \in Nat
    BY <1>8, <1>12
  <2> QED BY <2>1, <2>2, <2>3, UntilIs
<1>16. Until(u, n1 + 1, {Question, Hash}) = n2 + 1
  <2>1. \A k \in (n1 + 1)..n2 : u[k] \notin {Question, Hash}
    <3> SUFFICES ASSUME NEW k \in (n1 + 1)..n2 PROVE u[k] \notin {Question, Hash}
      OBVIOUS
    <3>1. k - n1 \in 1..Len(p) /\ n1 + (k - n1) = k
      BY <1>7, <1>8
    <3>2. u[k] = p[k - n1]
      BY <1>13, <3>1
    <3>3. p[k - n1] \notin {Question, Hash}
      BY <1>2, <3>1 DEF IsPath
    <3> QED BY <3>2, <3>3
  <2>2. n2 + 1 = Len(u) + 1 \/ u[n2 + 1] \in {Question, Hash}
    <3>1. CASE q = <<>>
      BY <1>2, <1>7, <1>8, <1>12, <3>1
    <3>2. CASE q # <<>>
      <4>1. 1 \in 1..Len(q)
        BY <1>2, <3>2
      <4>2. u[n2 + 1] = q[1]
        BY <1>12, <4>1
      <4>3. q[1] = Question
        BY <3>2 DEF IsQuery
      <4> QED BY <4>2, <4>3
    <3> QED BY <3>1, <3>2
  <2>3. /\ n1 + 1 \in Nat /\ n2 + 1 \in (n1 + 1)..(Len(u) + 1) /\ (n2 + 1) - 1 = n2
        /\ Len(u) \in Nat
    BY <1>8, <1>12
  <2> QED BY <2>1, <2>2, <2>3, UntilIs
<1>17. Until(u, n2 + 1, {Hash}) = n3 + 1
  <2>1. \A k \in (n2 + 1)..n3 : u[k] \notin {Hash}
    <3> SUFFICES ASSUME NEW k \in (n2 + 1)..n3 PROVE u[k] \notin {Hash}
      OBVIOUS
    <3>1. k - n2 \in 1..Len(q) /\ n2 + (k - n2) = k
      BY <1>7, <1>8
    <3>2. u[k] = q[k - n2]
      BY <1>12, <3>1
    <3>3. q[k - n2] # Hash
      BY <1>2, <3>1 DEF IsQuery
    <3> QED BY <3>2, <3>3
  <2>2. /\ n2 + 1 \in Nat /\ n3 + 1 \in (n2 + 1)..(Len(u) + 1) /\ (n3 + 1) - 1 = n3
        /\ n3 + 1 = Len(u) + 1 /\ Len(u) \in Nat
    BY <1>8, <1>12
  <2> QED BY <2>1, <2>2, UntilIs
<1>18. SubSeq(u, n0 + 1, n1) = h
  <2>1. n0 + Len(h) <= Len(u) /\ n0 + Len(h) = n1
    BY <1>7, <1>8, <1>12
  <2>2. u \in Seq(Nat) /\ \A i \in 1..Len(h) : u[n0 + i] = h[i]
    BY <1>12, <1>13
  <2>3. SubSeq(u, n0 + 1, n0 + Len(h)) = h
    BY <1>1, <1>8, <2>1, <2>2, PartIs
  <2> QED BY <2>1, <2>3
<1>19. SubSeq(u, n1 + 1, n2) = p
  <2>1. n1 + Len(p) <= Len(u) /\ n1 + Len(p) = n2
    BY <1>7, <1>8, <1>12
  <2>2. u \in Seq(Nat) /\ \A i \in 1..Len(p) : u[n1 + i] = p[i]
    BY <1>12, <1>13
  <2>3. SubSeq(u, n1 + 1, n1 + Len(p)) = p
    BY <1>1, <1>8, <2>1, <2>2, PartIs
  <2> QED BY <2>1, <2>3
<1>20. SubSeq(u, n2 + 2, n3) = SubSeq(q, 2, Len(q))
  <2>1. CASE Len(q) <= 1
    <3>1. n2 + 2 \in Int /\ n3 \in Int /\ n3 < n2 + 2 /\ 2 \in Int /\ Len(q) \in Int /\ Len(q) < 2
      BY <1>2, <1>7, <1>8, <2>1
    <3> QED BY <3>1, SubSeqEmpty
  <2>2. CASE Len(q) > 1
    <3>1. PICK t : t = SubSeq(q, 2, Len(q))
      OBVIOUS
    <3>2. /\ 2 \in Int /\ Len(q) \in Int /\ Len(q) - 2 + 1 = Len(q) - 1 /\ 2 <= Len(q)
          /\ \A i \in 2..Len(q) : i \in 1..Len(q)
      BY <1>2, <2>2
    <3>3. \A i \in 2..Len(q) : q[i] \in Nat
      BY <1>1, <3>2, ElementOfSeq
    <3>4. /\ t \in Seq(Nat) /\ Len(t) = IF 2 <= Len(q) THEN Len(q) - 2 + 1 ELSE 0
          /\ \A i \in 1..(Len(q) - 2 + 1) : t[i] = q[2 + i - 1]
      BY <3>1, <3>2, <3>3, SubSeqProperties
    <3>5. t \in Seq(Nat) /\ Len(t) = Len(q) - 1 /\ \A i \in 1..(Len(q) - 1) : t[i] = q[2 + i - 1]
      BY <3>2, <3>4
    <3>6. /\ n2 + 1 \in Nat /\ (n2 + 1) + Len(t) <= Len(u) /\ (n2 + 1) + Len(t) = n3
          /\ (n2 + 1) + 1 = n2 + 2
      <4>1. Len(t) = Len(q) - 1 /\ Len(u) = n3
        BY <1>12, <3>5
      <4> QED BY <1>2, <1>7, <1>8, <4>1
    <3>7. \A i \in 1..Len(t) : u[(n2 + 1) + i] = t[i]
      <4> SUFFICES ASSUME NEW i \in 1..Len(t) PROVE u[(n2 + 1) + i] = t[i]
        OBVIOUS
      <4>1. Len(t) = Len(q) - 1
        BY <3>5
      <4>2. /\ i + 1 \in 1..Len(q) /\ n2 + (i + 1) = (n2 + 1) + i
            /\ 2 + i - 1 = i + 1 /\ i \in 1..(Len(q) - 1)
        BY <1>2, <1>8, <4>1
      <4>3. u[n2 + (i + 1)] = q[i + 1]
        BY <1>12, <4>2
      <4>4. t[i] = q[2 + i - 1]
        BY <3>5, <4>2
      <4> QED BY <4>2, <4>3, <4>4
    <3>8. u \in Seq(Nat) /\ t \in Seq(Nat)
      BY <1>12, <3>5
    <3>9. SubSeq(u, (n2 + 1) + 1, (n2 + 1) + Len(t)) = t
      BY <3>6, <3>7, <3>8, PartIs
    <3> QED BY <3>1, <3>6, <3>9
  <2>3. Len(q) \in Nat
    BY <1>2
  <2>4. Len(q) <= 1 \/ Len(q) > 1
    BY <2>3
  <2> QED BY <2>1, <2>2, <2>4
<1>21. /\ (n1 + 1) - 1 = n1 /\ (n2 + 1) - 1 = n2 /\ (n3 + 1) - 1 = n3 /\ (n2 + 1) + 1 = n2 + 2
  BY <1>8
<1>23. Squash(p) = p
  BY DEF Squash
<1>22. Resolve(u) = [host |-> h, path |-> p, query |-> SubSeq(q, 2, Len(q))]
  BY <1>14, <1>15, <1>16, <1>17, <1>18, <1>19, <1>20, <1>21, <1>23 DEF Resolve
<1> QED BY <1>3, <1>4, <1>5, <1>6, <1>22

-----------------------------------------------------------------------------
(***************************************************************************)
(* Paths and keys.                                                         *)
(***************************************************************************)

NameChar == Byte \ {Slash, Question, Hash}
PathChar == Byte \ {Question, Hash}

\* A sequence is one over any set that its elements are in.
LEMMA SeqOver ==
  ASSUME NEW S, NEW s \in Seq(S), NEW T, \A i \in DOMAIN s : s[i] \in T
  PROVE  s \in Seq(T)
<1>1. Len(s) \in Nat /\ s \in [1..Len(s) -> S] /\ DOMAIN s = 1..Len(s)
  BY LenProperties
<1>2. s \in [1..Len(s) -> T]
  BY <1>1
<1> QED BY <1>1, <1>2, SeqDef

\* Which characters may be in hosts and paths, and what UriEncode makes of a byte.
LEMMA CharsOf ==
  /\ NameChar \subseteq PathChar /\ PathChar \subseteq Byte /\ Byte \subseteq Nat
  /\ \A b \in BOOLEAN : Encoded(b) \subseteq PathChar
  /\ Slash \in PathChar /\ Dot \in NameChar
  /\ Ampersand \notin Encoded(TRUE)
BY SMT DEF NameChar, PathChar, Byte, Encoded, Unreserved, Percent, Slash, Question, Hash, Dot,
           Ampersand

\* A host is a string of characters that end no host.
LEMMA NameIs == \A s : IsName(s) <=> s \in Seq(NameChar)
<1>1. ASSUME NEW s, IsName(s) PROVE s \in Seq(NameChar)
  <2>1. s \in Seq(Byte) /\ \A i \in DOMAIN s : s[i] \notin {Slash, Question, Hash}
    BY <1>1 DEF IsName, Byte
  <2>2. \A i \in DOMAIN s : s[i] \in Byte
    BY <2>1, LenProperties, ElementOfSeq
  <2>3. \A i \in DOMAIN s : s[i] \in NameChar
    BY <2>1, <2>2 DEF NameChar
  <2>4. s \in Seq(Byte)
    BY <2>1
  <2> QED BY <2>3, <2>4, SeqOver
<1>2. ASSUME NEW s, s \in Seq(NameChar) PROVE IsName(s)
  <2>1. s \in Seq(Byte)
    <3>1. NameChar \subseteq Byte
      BY CharsOf
    <3> QED BY <1>2, <3>1, SeqMonotonic
  <2>2. \A i \in DOMAIN s : s[i] \in NameChar
    BY <1>2, LenProperties, ElementOfSeq
  <2> QED BY <2>1, <2>2 DEF IsName, NameChar, Byte
<1> QED BY <1>1, <1>2

\* A path is a string of characters that end no path, after a slash.
LEMMA PathIs == \A s : IsPath(s) <=> s \in Seq(PathChar) /\ (s # <<>> => s[1] = Slash)
<1>1. ASSUME NEW s, IsPath(s) PROVE s \in Seq(PathChar) /\ (s # <<>> => s[1] = Slash)
  <2>1. s \in Seq(Byte) /\ \A i \in DOMAIN s : s[i] \notin {Question, Hash}
    BY <1>1 DEF IsPath, Byte
  <2>2. \A i \in DOMAIN s : s[i] \in Byte
    BY <2>1, LenProperties, ElementOfSeq
  <2>3. \A i \in DOMAIN s : s[i] \in PathChar
    BY <2>1, <2>2 DEF PathChar
  <2>4. s \in Seq(Byte)
    BY <2>1
  <2>5. s \in Seq(PathChar)
    BY <2>3, <2>4, SeqOver
  <2> QED BY <1>1, <2>5 DEF IsPath
<1>2. ASSUME NEW s, s \in Seq(PathChar), s # <<>> => s[1] = Slash PROVE IsPath(s)
  <2>1. s \in Seq(Byte)
    <3>1. PathChar \subseteq Byte
      BY CharsOf
    <3> QED BY <1>2, <3>1, SeqMonotonic
  <2>2. \A i \in DOMAIN s : s[i] \in PathChar
    BY <1>2, LenProperties, ElementOfSeq
  <2> QED BY <1>2, <2>1, <2>2 DEF IsPath, PathChar, Byte
<1> QED BY <1>1, <1>2

\* A path may go on.
LEMMA PathGrows ==
  ASSUME NEW p, IsPath(p), p # <<>>, NEW e \in Seq(PathChar)
  PROVE  IsPath(p \o e) /\ p \o e # <<>>
<1>1. p \in Seq(PathChar) /\ p[1] = Slash
  BY PathIs
<1>2. PICK w : w = p \o e
  OBVIOUS
<1>3. p \in Seq(PathChar)
  BY <1>1
<1>4. /\ w \in Seq(PathChar) /\ Len(w) = Len(p) + Len(e) /\ Len(e) \in Nat
      /\ \A i \in 1..Len(p) : w[i] = p[i]
  BY <1>2, <1>3, ConcatIs
<1>5. Len(p) \in Nat \ {0}
  BY <1>3, EmptySeq
<1>6. w[1] = Slash
  <2>1. 1 \in 1..Len(p)
    BY <1>5
  <2> QED BY <1>1, <1>4, <2>1
<1>7. w # <<>>
  <2>1. Len(w) # 0
    BY <1>4, <1>5
  <2> QED BY <2>1, EmptySeq
<1> QED BY <1>2, <1>4, <1>6, <1>7, PathIs

\* What UriEncode makes of a string ends no path.
LEMMA EncodedIsPath ==
  ASSUME NEW s \in Seq(Byte), NEW b \in BOOLEAN
  PROVE  UriEncode(s, b) \in Seq(PathChar) /\ UriEncode(s, b) \in Seq(Nat)
<1>1. /\ UriEncode(s, b) \in Seq(Encoded(b))
      /\ Encoded(b) \subseteq PathChar /\ Encoded(b) \subseteq Nat
  BY DecodeUndoes, CharsOf
<1> QED BY <1>1, SeqMonotonic

\* Grouping does not matter.
Regroups(s, t, u) == (s \o t) \o u = s \o (t \o u)
\* Concatenation of strings is associative.
LEMMA Regroup == \A s, t, u \in Seq(Nat) : Regroups(s, t, u)
BY ConcatAssociative, SMTT(30) DEF Regroups

\* The default scheme holds no "://".
LEMMA HttpsSchemeless == Https \in Seq(Nat) /\ Schemeless(Https)
<1>1. /\ Https \in Seq(Nat) /\ Len(Https) = 5 /\ Https[1] # 58 /\ Https[2] # 58 /\ Https[3] # 58
  BY DEF Https
<1>2. ASSUME NEW i \in Nat, SchemeEndAt(Https, i) PROVE FALSE
  <2>1. i \in 1..(Len(Https) - 2) /\ Https[i] = 58
    BY <1>2 DEF SchemeEndAt
  <2>2. i = 1 \/ i = 2 \/ i = 3
    BY <1>1, <2>1
  <2> QED BY <1>1, <2>1, <2>2
<1> QED BY <1>1, <1>2 DEF Schemeless

\* ParseEndpoint takes the service's host and a scheme that holds no "://".
LEMMA EndpointIs ==
  ASSUME NEW e \in Endpoints
  PROVE  /\ ParseEndpoint(e).host = ServiceHost
         /\ ParseEndpoint(e).scheme \in Seq(Nat) /\ Schemeless(ParseEndpoint(e).scheme)
<1>1. e \in Seq(Nat) /\ ParseEndpoint(e).host = ServiceHost
  BY AddressAssumption, BytesAreNumbers DEF Byte
<1>2. CASE Find(e, SchemeEnd) = 0
  <2>1. ParseEndpoint(e).scheme = Https
    BY <1>2 DEF ParseEndpoint
  <2> QED BY <1>1, <2>1, HttpsSchemeless
<1>3. CASE Find(e, SchemeEnd) # 0
  <2>1. ParseEndpoint(e).scheme = SubSeq(e, 1, Find(e, SchemeEnd) - 1)
    BY <1>3 DEF ParseEndpoint
  <2>2. /\ SubSeq(e, 1, Find(e, SchemeEnd) - 1) \in Seq(Nat)
        /\ Schemeless(SubSeq(e, 1, Find(e, SchemeEnd) - 1))
    BY <1>1, <1>3, SchemeOf
  <2> QED BY <1>1, <2>1, <2>2
<1> QED BY <1>2, <1>3

\* TrimSlashes makes a string of a string.
LEMMA TrimmedIs ==
  ASSUME NEW s \in Seq(Nat)
  PROVE  TrimSlashes(s) \in Seq(Nat)
<1> DEFINE kept == {i \in DOMAIN s : s[i] # Slash}
<1>1. CASE kept = {}
  BY <1>1 DEF TrimSlashes
<1>2. CASE kept # {}
  <2>1. Len(s) \in Nat /\ DOMAIN s = 1..Len(s)
    BY LenProperties
  <2>2. kept \in SUBSET Nat /\ \A i \in kept : i <= Len(s)
    BY <2>1
  <2>3. Min(kept) \in kept /\ Max(kept) \in kept
    <3> HIDE DEF kept
    <3> QED BY <1>2, <2>1, <2>2, LeastIs, GreatestIs
  <2>4. PICK m, n : m = Min(kept) /\ n = Max(kept)
    OBVIOUS
  <2>5. m \in 1..Len(s) /\ n \in 1..Len(s)
    BY <2>1, <2>3, <2>4
  <2>6. \A i \in m..n : s[i] \in Nat
    <3>1. \A i \in m..n : i \in 1..Len(s)
      BY <2>1, <2>5
    <3> QED BY <3>1, ElementOfSeq
  <2>7. SubSeq(s, m, n) \in Seq(Nat)
    BY <2>5, <2>6, SubSeqProperties
  <2>8. TrimSlashes(s) = SubSeq(s, m, n)
    BY <1>2, <2>4 DEF TrimSlashes
  <2> QED BY <2>7, <2>8
<1> QED BY <1>1, <1>2

\* The three hosts of the bucket differ.
VirtualHost == Bucket \o <<Dot>> \o ServiceHost

\* The hosts under which the bucket is found are three.
LEMMA HostsDiffer ==
  /\ IsName(ServiceHost) /\ IsName(VirtualHost) /\ IsName(PublicBase[1])
  /\ ServiceHost # VirtualHost /\ PublicBase[1] # ServiceHost /\ PublicBase[1] # VirtualHost
<1>1. ServiceHost \in Seq(NameChar) /\ Bucket \in Seq(NameChar) /\ IsName(PublicBase[1])
  BY AddressAssumption, NameIs
<1>2. PICK d : d = <<Dot>>
  OBVIOUS
<1>3. d \in Seq(NameChar) /\ Len(d) = 1
  BY <1>2, CharsOf
<1>4. PICK b : b = Bucket \o d
  OBVIOUS
<1>5. d \in Seq(NameChar)
  BY <1>3
<1>6. b \in Seq(NameChar) /\ Len(b) = Len(Bucket) + Len(d) /\ Len(Bucket) \in Nat
  BY <1>1, <1>4, <1>5, ConcatIs
<1>7. b \in Seq(NameChar)
  BY <1>6
<1>8. PICK v : v = b \o ServiceHost
  OBVIOUS
<1>9. v \in Seq(NameChar) /\ Len(v) = Len(b) + Len(ServiceHost) /\ Len(ServiceHost) \in Nat
  BY <1>1, <1>7, <1>8, ConcatIs
<1>10. v = VirtualHost
  BY <1>2, <1>4, <1>8 DEF VirtualHost
<1>11. Len(v) # Len(ServiceHost)
  BY <1>3, <1>6, <1>9
<1>12. ServiceHost # v
  BY <1>11
<1>13. PublicBase[1] # ServiceHost /\ PublicBase[1] # VirtualHost
  BY AddressAssumption DEF VirtualHost
<1>14. IsName(ServiceHost) /\ IsName(v)
  BY <1>1, <1>9, NameIs
<1> QED BY <1>1, <1>10, <1>12, <1>13, <1>14

\* Where keys begin under each host.

-----------------------------------------------------------------------------
(***************************************************************************)
(* Dot segments.                                                           *)
(***************************************************************************)

\* One or two dots from i to n that begin a segment, such a segment that a slash ends, and
\* the last j characters as the beginning of one.
DotsAt(s, i, n) ==
  /\ i \in 1..Len(s) /\ n \in 1..Len(s) /\ n \in {i, i + 1}
  /\ \A k \in i..n : s[k] = Dot
  /\ i = 1 \/ s[i - 1] = Slash
Closed(s) == \E i, n \in Nat : DotsAt(s, i, n) /\ n < Len(s) /\ s[n + 1] = Slash
Open(s, j) ==
  /\ j <= Len(s) /\ (j = Len(s) \/ s[Len(s) - j] = Slash)
  /\ \A k \in 1..Len(s) : k > Len(s) - j => s[k] = Dot

LEMMA DotSegmentIs ==
  ASSUME NEW s \in Seq(Nat)
  PROVE  HasDotSegment(s) <=> Closed(s) \/ Open(s, 1) \/ Open(s, 2)
<1>1. PICK m \in Nat : m = Len(s) /\ DOMAIN s = 1..m
  BY LenProperties
<1>2. ASSUME HasDotSegment(s) PROVE Closed(s) \/ Open(s, 1) \/ Open(s, 2)
  <2>1. PICK i \in 1..m, n \in 1..m :
          /\ n \in {i, i + 1} /\ \A k \in i..n : s[k] = Dot
          /\ i = 1 \/ s[i - 1] = Slash
          /\ n = m \/ s[n + 1] = Slash
    BY <1>1, <1>2 DEF HasDotSegment
  <2>2. CASE n < m
    <3>1. DotsAt(s, i, n)
      BY <1>1, <2>1 DEF DotsAt
    <3>2. i \in Nat /\ n \in Nat /\ n < Len(s) /\ s[n + 1] = Slash
      BY <1>1, <2>1, <2>2
    <3> QED BY <3>1, <3>2 DEF Closed
  <2>3. CASE n = m /\ i = n
    <3>1. 1 <= m /\ (1 = m \/ s[m - 1] = Slash)
      BY <1>1, <2>1, <2>3
    <3>2. \A k \in 1..m : k > m - 1 => s[k] = Dot
      BY <1>1, <2>1, <2>3
    <3> QED BY <1>1, <3>1, <3>2 DEF Open
  <2>4. CASE n = m /\ n = i + 1
    <3>1. 2 <= m /\ (2 = m \/ s[m - 2] = Slash)
      <4>1. i - 1 = m - 2 /\ 2 <= m
        BY <1>1, <2>1, <2>4
      <4>2. i = 1 => 2 = m
        BY <1>1, <2>1, <2>4
      <4> QED BY <2>1, <4>1, <4>2
    <3>2. \A k \in 1..m : k > m - 2 => s[k] = Dot
      BY <1>1, <2>1, <2>4
    <3> QED BY <1>1, <3>1, <3>2 DEF Open
  <2>5. n = m \/ n < m
    BY <1>1, <2>1
  <2> QED BY <2>1, <2>2, <2>3, <2>4, <2>5
<1>3. ASSUME Closed(s) PROVE HasDotSegment(s)
  <2>1. PICK i \in Nat, n \in Nat : DotsAt(s, i, n) /\ n < Len(s) /\ s[n + 1] = Slash
    BY <1>3 DEF Closed
  <2>2. /\ i \in 1..m /\ n \in 1..m /\ n \in {i, i + 1} /\ s[n + 1] = Slash
        /\ \A k \in i..n : s[k] = Dot
        /\ i = 1 \/ s[i - 1] = Slash
    BY <1>1, <2>1 DEF DotsAt
  <2> QED BY <1>1, <2>2 DEF HasDotSegment
<1>4. ASSUME NEW j \in {1, 2}, Open(s, j) PROVE HasDotSegment(s)
  <2>1. /\ j <= m /\ (j = m \/ s[m - j] = Slash)
        /\ \A k \in 1..m : k > m - j => s[k] = Dot
    BY <1>1, <1>4 DEF Open
  <2>2. PICK i \in 1..m : i = m - j + 1
    BY <2>1
  <2>3. m \in 1..m /\ m \in {i, i + 1} /\ i - 1 = m - j /\ (j = m <=> i = 1)
    BY <2>1, <2>2
  <2>4. \A k \in i..m : s[k] = Dot
    BY <2>1, <2>2
  <2>5. i = 1 \/ s[i - 1] = Slash
    BY <2>1, <2>3
  <2> QED BY <1>1, <2>3, <2>4, <2>5 DEF HasDotSegment
<1> QED BY <1>2, <1>3, <1>4

\* What one more character does to the dot segments of a string.
LEMMA DotsGrow ==
  ASSUME NEW s \in Seq(Nat), NEW c \in Nat, NEW t, t = Append(s, c)
  PROVE  /\ Open(t, 0) <=> c = Slash
         /\ Open(t, 1) <=> c = Dot /\ Open(s, 0)
         /\ Open(t, 2) <=> c = Dot /\ Open(s, 1)
         /\ Closed(t) <=> Closed(s) \/ (c = Slash /\ (Open(s, 1) \/ Open(s, 2)))
<1>1. /\ Len(s) \in Nat /\ Len(t) = Len(s) + 1 /\ t[Len(s) + 1] = c
      /\ \A i \in 1..Len(s) : t[i] = s[i]
  BY AppendProperties, LenProperties
<1>2. PICK m \in Nat : m = Len(s)
  BY <1>1
<1>3. Len(s) = m /\ Len(t) = m + 1 /\ t[m + 1] = c /\ \A i \in 1..m : t[i] = s[i]
  BY <1>1, <1>2
<1>4. Open(t, 0) <=> c = Slash
  <2>1. (m + 1) - 0 = m + 1 /\ 0 <= m + 1 /\ 0 # m + 1 /\ \A k \in 1..(m + 1) : ~(k > m + 1)
    OBVIOUS
  <2> QED BY <1>3, <2>1 DEF Open
<1>5. ASSUME NEW j \in {0, 1} PROVE Open(t, j + 1) <=> c = Dot /\ Open(s, j)
  <2>1. (m + 1) - (j + 1) = m - j /\ (j + 1 <= m + 1 <=> j <= m) /\ (j + 1 = m + 1 <=> j = m)
    OBVIOUS
  <2>2. j <= m /\ j # m => m - j \in 1..m
    OBVIOUS
  <2>3. (\A k \in 1..(m + 1) : k > m - j => t[k] = Dot)
          <=> c = Dot /\ \A k \in 1..m : k > m - j => s[k] = Dot
    <3>1. m + 1 \in 1..(m + 1) /\ m + 1 > m - j
      OBVIOUS
    <3>2. \A k \in 1..(m + 1) : k \in 1..m \/ k = m + 1
      OBVIOUS
    <3>3. \A k \in 1..m : k \in 1..(m + 1)
      OBVIOUS
    <3> QED BY <1>3, <3>1, <3>2, <3>3
  <2>4. j <= m => (j = m \/ t[m - j] = Slash <=> j = m \/ s[m - j] = Slash)
    BY <1>3, <2>2
  <2> QED BY <1>3, <2>1, <2>3, <2>4 DEF Open
<1>6. Open(t, 1) <=> c = Dot /\ Open(s, 0)
  <2>1. 0 + 1 = 1
    OBVIOUS
  <2> QED BY <1>5, <2>1
<1>7. Open(t, 2) <=> c = Dot /\ Open(s, 1)
  <2>1. 1 + 1 = 2
    OBVIOUS
  <2> QED BY <1>5, <2>1
<1>8. \A i, n \in Nat : n <= m => (DotsAt(t, i, n) <=> DotsAt(s, i, n))
  <2> SUFFICES ASSUME NEW i \in Nat, NEW n \in Nat, n <= m
               PROVE  DotsAt(t, i, n) <=> DotsAt(s, i, n)
    OBVIOUS
  <2>1. ASSUME i \in 1..n, n \in {i, i + 1} PROVE DotsAt(t, i, n) <=> DotsAt(s, i, n)
    <3>1. i \in 1..m /\ n \in 1..m /\ i \in 1..(m + 1) /\ n \in 1..(m + 1)
      BY <2>1
    <3>2. \A k \in i..n : k \in 1..m
      BY <2>1, <3>1
    <3>3. i # 1 => i - 1 \in 1..m
      BY <3>1
    <3> QED BY <1>3, <3>1, <3>2, <3>3 DEF DotsAt
  <2>2. DotsAt(t, i, n) \/ DotsAt(s, i, n) => i \in 1..n /\ n \in {i, i + 1}
    BY <1>3 DEF DotsAt
  <2> QED BY <2>1, <2>2
<1>9. ASSUME Closed(t) PROVE Closed(s) \/ (c = Slash /\ (Open(s, 1) \/ Open(s, 2)))
  <2>1. PICK i \in Nat, n \in Nat : DotsAt(t, i, n) /\ n < Len(t) /\ t[n + 1] = Slash
    BY <1>9 DEF Closed
  <2>2. n <= m /\ DotsAt(s, i, n)
    BY <1>3, <1>8, <2>1
  <2>3. CASE n < m
    <3>1. n + 1 \in 1..m
      BY <2>3
    <3> QED BY <1>3, <2>1, <2>2, <2>3, <3>1 DEF Closed
  <2>4. CASE n = m
    <3>1. c = Slash
      BY <1>3, <2>1, <2>4
    <3>2. HasDotSegment(s)
      <4>1. DOMAIN s = 1..m
        BY <1>3, LenProperties
      <4>2. /\ i \in 1..m /\ n \in 1..m /\ n \in {i, i + 1} /\ (\A k \in i..n : s[k] = Dot)
            /\ i = 1 \/ s[i - 1] = Slash
        BY <1>3, <2>2 DEF DotsAt
      <4> QED BY <1>3, <2>4, <4>1, <4>2 DEF HasDotSegment
    <3> QED BY <3>1, <3>2, DotSegmentIs
  <2> QED BY <2>2, <2>3, <2>4
<1>10. ASSUME Closed(s) PROVE Closed(t)
  <2>1. PICK i \in Nat, n \in Nat : DotsAt(s, i, n) /\ n < m /\ s[n + 1] = Slash
    BY <1>3, <1>10 DEF Closed
  <2>2. DotsAt(t, i, n) /\ n < m + 1 /\ n + 1 \in 1..m
    BY <1>8, <2>1
  <2> QED BY <1>3, <2>1, <2>2 DEF Closed
<1>11. ASSUME c = Slash, NEW j \in {1, 2}, Open(s, j) PROVE Closed(t)
  <2>1. /\ j <= m /\ (j = m \/ s[m - j] = Slash)
        /\ \A k \in 1..m : k > m - j => s[k] = Dot
    BY <1>3, <1>11 DEF Open
  <2>2. PICK i \in 1..m : i = m - j + 1
    BY <2>1
  <2>3. m \in 1..m /\ m \in {i, i + 1} /\ i - 1 = m - j /\ (j = m <=> i = 1)
    BY <2>1, <2>2
  <2>4. \A k \in i..m : s[k] = Dot
    BY <2>1, <2>2
  <2>5. DotsAt(s, i, m)
    BY <1>3, <2>1, <2>2, <2>3, <2>4 DEF DotsAt
  <2>6. DotsAt(t, i, m) /\ m < m + 1
    BY <1>8, <2>2, <2>5
  <2> QED BY <1>3, <1>11, <2>2, <2>6 DEF Closed
<1> QED BY <1>4, <1>6, <1>7, <1>9, <1>10, <1>11

\* After a root that ends with a slash, and has no dot segment before it, the dot segments of
\* an encoded key are the key's.
LEMMA EncodedDots ==
  ASSUME NEW root \in Seq(Nat), Open(root, 0), ~Closed(root), NEW key \in Seq(Byte),
         ~HasDotSegment(key)
  PROVE  ~HasDotSegment(root \o EncodeKeyPath(key))
<1> DEFINE Part(n) == SubSeq(key, 1, n)
           Path(k) == root \o UriEncode(k, FALSE)
           Follows(q, k) == /\ Closed(q) => Closed(k)
                            /\ Open(q, 0) => Open(k, 0)
                            /\ Open(q, 1) => Open(k, 1)
                            /\ Open(q, 2) => Open(k, 2)
           Failing == {n \in 0..Len(key) : ~Follows(Path(Part(n)), Part(n))}
<1>1. Len(key) \in Nat /\ Part(0) = <<>>
  BY SubSeqEmpty
<1>2. Follows(Path(Part(0)), Part(0))
  <2>1. Path(<<>>) = root
    BY EncodeEmpty, ConcatEmptySeq
  <2>2. Open(<<>>, 0)
    BY DEF Open
  <2>3. ~Open(root, 1) /\ ~Open(root, 2)
    <3>1. Len(root) \in Nat /\ 0 <= Len(root) /\ (0 = Len(root) \/ root[Len(root) - 0] = Slash)
      BY LenProperties DEF Open
    <3>2. ASSUME NEW j \in {1, 2}, Open(root, j) PROVE FALSE
      <4>1. j <= Len(root) /\ \A k \in 1..Len(root) : k > Len(root) - j => root[k] = Dot
        BY <3>2 DEF Open
      <4>2. root[Len(root)] = Dot /\ root[Len(root)] = Slash
        BY <3>1, <4>1
      <4> QED BY <4>2 DEF Dot, Slash
    <3> QED BY <3>2
  <2> HIDE DEF Path
  <2> QED BY <1>1, <2>1, <2>2, <2>3
<1>3. ASSUME Failing # {} PROVE FALSE
  <2> HIDE DEF Path, Follows
  <2>1. PICK n \in Failing : \A k \in Failing : n <= k
    <3>1. Failing \subseteq Nat
      OBVIOUS
    <3> HIDE DEF Failing
    <3> QED BY <1>3, <3>1, LeastNatural
  <2>2. n \in 1..Len(key) /\ n - 1 \in 0..Len(key) /\ n - 1 < n /\ n \in Nat
    BY <1>1, <1>2
  <2>3. Follows(Path(Part(n - 1)), Part(n - 1))
    BY <2>1, <2>2
  <2>4. Part(n - 1) \in Seq(Byte) /\ key[n] \in Byte /\ Part(n) = Append(Part(n - 1), key[n])
    <3>1. Part(n - 1) \in Seq(Byte) /\ key[n] \in Byte
      <4>1. \A i \in 1..(n - 1) : key[i] \in Byte
        BY <2>2, ElementOfSeq
      <4> QED BY <2>2, <4>1, SubSeqProperties, ElementOfSeq
    <3>2. Part(n) = Part(n - 1) \o <<key[n]>>
      <4>1. 1 \in 1..Len(key) /\ n \in 1..Len(key)
        BY <1>1, <2>2
      <4> QED BY <4>1, SubSeqRecursiveSecond
    <3> HIDE DEF Part
    <3> QED BY <3>1, <3>2, AppendIsConcat
  <2>5. PICK k, c, q : k = Part(n - 1) /\ c = key[n] /\ q = Path(k)
    OBVIOUS
  <2>6. /\ k \in Seq(Byte) /\ k \in Seq(Nat) /\ c \in Byte /\ c \in Nat
        /\ Part(n) = Append(k, c) /\ Follows(q, k)
    <3>1. Byte \subseteq Nat
      BY CharsOf
    <3> QED BY <2>3, <2>4, <2>5, <3>1, SeqMonotonic
  <2>7. UriEncode(k, FALSE) \in Seq(Nat)
    BY <2>6, EncodedIsPath
  <2>8. q \in Seq(Nat) /\ Path(Append(k, c)) = q \o Enc(c, FALSE)
    <3>1. PICK e, f : e = UriEncode(k, FALSE) /\ f = Enc(c, FALSE)
      OBVIOUS
    <3>2. e \in Seq(Nat) /\ f \in Seq(Nat)
      <4>1. f \in Seq(Encoded(FALSE)) /\ Encoded(FALSE) \subseteq Nat
        BY <2>6, <3>1, EncIs, CharsOf
      <4> QED BY <2>7, <3>1, <4>1, SeqMonotonic
    <3>3. UriEncode(Append(k, c), FALSE) = e \o f
      BY <2>6, <3>1, EncodeAppend
    <3>4. Regroups(root, e, f)
      BY <3>2, Regroup
    <3>5. q = root \o e
      BY <2>5, <3>1 DEF Path
    <3>6. Path(Append(k, c)) = root \o (e \o f)
      BY <3>3 DEF Path
    <3> QED BY <3>1, <3>2, <3>4, <3>5, <3>6, ConcatProperties DEF Regroups
  <2>9. CASE Enc(c, FALSE) = <<c>>
    <3>1. Path(Append(k, c)) = Append(q, c)
      BY <2>6, <2>8, <2>9, AppendIsConcat
    <3>2. Follows(Append(q, c), Append(k, c))
      BY <2>6, <2>8, DotsGrow DEF Follows
    <3> QED BY <2>1, <2>6, <3>1, <3>2
  <2>10. CASE \E x, y \in 0..15 : Enc(c, FALSE) = <<Percent, HexDigit(x), HexDigit(y)>>
    <3>1. PICK a, b : /\ Enc(c, FALSE) = <<Percent, a, b>>
                      /\ a \in (48..57) \cup (65..70) /\ b \in (48..57) \cup (65..70)
      BY <2>10, HexIs
    <3>2. /\ Percent \in Nat /\ a \in Nat /\ b \in Nat
          /\ {Percent, a, b} \cap {Dot, Slash} = {}
      BY <3>1, SMT DEF Percent, Dot, Slash
    <3>3. PICK q1, q2, q3 : q1 = Append(q, Percent) /\ q2 = Append(q1, a) /\ q3 = Append(q2, b)
      OBVIOUS
    <3>4. q1 \in Seq(Nat) /\ q2 \in Seq(Nat) /\ q3 \in Seq(Nat)
      BY <2>8, <3>2, <3>3, AppendProperties
    <3>5. q \o <<Percent, a, b>> = q3
      BY <2>8, <3>2, <3>3, SMT
    <3>6. Closed(q1) <=> Closed(q)
      BY <2>8, <3>2, <3>3, DotsGrow
    <3>7. Closed(q2) <=> Closed(q1)
      BY <3>2, <3>3, <3>4, DotsGrow
    <3>8. /\ Closed(q3) <=> Closed(q2)
          /\ ~Open(q3, 0) /\ ~Open(q3, 1) /\ ~Open(q3, 2)
      BY <3>2, <3>3, <3>4, DotsGrow
    <3>9. Closed(k) => Closed(Append(k, c))
      BY <2>6, DotsGrow
    <3>10. Follows(q3, Append(k, c))
      BY <2>6, <3>6, <3>7, <3>8, <3>9 DEF Follows
    <3> QED BY <2>1, <2>6, <2>8, <3>1, <3>5, <3>10
  <2> QED BY <2>6, <2>9, <2>10, EncIs
<1>4. Follows(Path(key), key)
  <2>1. Len(key) \in 0..Len(key) /\ Part(Len(key)) = key
    BY <1>1, SubSeqFull
  <2> HIDE DEF Path, Follows
  <2> QED BY <1>3, <2>1
<1>5. key \in Seq(Nat) /\ Path(key) \in Seq(Nat)
  BY BytesAreNumbers, EncodedIsPath, ConcatProperties
<1>6. ~Closed(key) /\ ~Open(key, 1) /\ ~Open(key, 2)
  BY <1>5, DotSegmentIs
<1>7. ~HasDotSegment(Path(key))
  BY <1>4, <1>5, <1>6, DotSegmentIs
<1> QED BY <1>7 DEF EncodeKeyPath

\* A slash before a string makes no dot segment of it.
LEMMA DotsAfterSlash ==
  ASSUME NEW s \in Seq(Nat), ~HasDotSegment(s)
  PROVE  ~HasDotSegment(<<Slash>> \o s)
<1>1. PICK o, w : o = <<Slash>> /\ w = o \o s
  OBVIOUS
<1>2. o \in Seq(Nat) /\ Len(o) = 1 /\ o[1] = Slash
  BY <1>1 DEF Slash
<1>3. /\ w \in Seq(Nat) /\ Len(w) = 1 + Len(s) /\ Len(s) \in Nat /\ w[1] = Slash
      /\ \A i \in 1..Len(s) : w[1 + i] = s[i]
  <2>1. /\ w \in Seq(Nat) /\ Len(w) = Len(o) + Len(s) /\ Len(s) \in Nat
        /\ \A i \in 1..Len(o) : w[i] = o[i]
        /\ \A i \in 1..Len(s) : w[Len(o) + i] = s[i]
    BY <1>1, <1>2, ConcatIs
  <2>2. 1 \in 1..Len(o)
    BY <1>2
  <2> QED BY <1>2, <2>1, <2>2
<1>4. DOMAIN w = 1..(1 + Len(s)) /\ DOMAIN s = 1..Len(s)
  BY <1>3, LenProperties
<1>5. ASSUME HasDotSegment(w) PROVE FALSE
  <2>1. PICK i \in 1..(1 + Len(s)), n \in 1..(1 + Len(s)) :
          /\ n \in {i, i + 1}
          /\ \A k \in i..n : w[k] = Dot
          /\ i = 1 \/ w[i - 1] = Slash
          /\ n = 1 + Len(s) \/ w[n + 1] = Slash
    BY <1>3, <1>4, <1>5 DEF HasDotSegment
  <2>2. i \in i..n /\ w[i] = Dot
    BY <2>1
  <2>3. i # 1
    BY <1>3, <2>2 DEF Dot, Slash
  <2>4. PICK a, b : a = i - 1 /\ b = n - 1
    OBVIOUS
  <2>5. a \in 1..Len(s) /\ b \in {a, a + 1} \cap 1..Len(s)
    BY <1>3, <2>1, <2>3, <2>4
  <2>6. ASSUME NEW k \in a..b PROVE s[k] = Dot
    <3>1. 1 + k \in i..n /\ k \in 1..Len(s)
      BY <1>3, <2>1, <2>3, <2>4, <2>5
    <3> QED BY <1>3, <2>1, <3>1
  <2>7. a = 1 \/ s[a - 1] = Slash
    <3>1. a # 1 => a - 1 \in 1..Len(s) /\ 1 + (a - 1) = i - 1
      BY <1>3, <2>4, <2>5
    <3> QED BY <1>3, <2>1, <2>3, <3>1
  <2>8. b = Len(s) \/ s[b + 1] = Slash
    <3>1. n = 1 + Len(s) => b = Len(s)
      BY <1>3, <2>1, <2>4
    <3>2. b # Len(s) => b + 1 \in 1..Len(s) /\ 1 + (b + 1) = n + 1
      BY <1>3, <2>1, <2>4, <2>5
    <3> QED BY <1>3, <2>1, <3>1, <3>2
  <2> QED BY <1>4, <2>5, <2>6, <2>7, <2>8 DEF HasDotSegment
<1> QED BY <1>1, <1>5

-----------------------------------------------------------------------------
(***************************************************************************)
(* Keys and parameters.                                                    *)
(***************************************************************************)

\* What follows a prefix.
LEMMA AfterIs ==
  ASSUME NEW t \in Seq(Nat), NEW s \in Seq(Nat)
  PROVE  After(t \o s, t) = s
<1>1. PICK w : w = t \o s
  OBVIOUS
<1>2. /\ w \in Seq(Nat) /\ Len(w) = Len(t) + Len(s) /\ Len(t) \in Nat /\ Len(s) \in Nat
      /\ \A i \in 1..Len(t) : w[i] = t[i]
      /\ \A i \in 1..Len(s) : w[Len(t) + i] = s[i]
  BY <1>1, ConcatIs
<1>3. SubSeq(w, Len(t) + 1, Len(w)) = s
  <2>1. w \in Seq(Nat) /\ Len(t) \in Nat /\ Len(t) + Len(s) <= Len(w)
    BY <1>2
  <2>2. \A i \in 1..Len(s) : w[Len(t) + i] = s[i]
    BY <1>2
  <2>3. SubSeq(w, Len(t) + 1, Len(t) + Len(s)) = s
    BY <2>1, <2>2, PartIs
  <2> QED BY <1>2, <2>3
<1>4. SubSeq(w, 1, Len(t)) = t
  <2>1. w \in Seq(Nat) /\ 0 \in Nat /\ 0 + Len(t) <= Len(w) /\ 0 + 1 = 1 /\ 0 + Len(t) = Len(t)
    BY <1>2
  <2>2. \A i \in 1..Len(t) : w[0 + i] = t[i]
    BY <1>2
  <2>3. SubSeq(w, 0 + 1, 0 + Len(t)) = t
    BY <2>1, <2>2, PartIs
  <2> QED BY <2>1, <2>3
<1>5. SubSeq(t, 1, Len(t)) = t
  BY SubSeqFull
<1>6. IsPrefix(t, w)
  <2>1. Len(t) <= Len(w)
    BY <1>2
  <2> QED BY <1>4, <1>5, <2>1 DEF IsPrefix
<1> QED BY <1>1, <1>3, <1>6 DEF After

\* Nothing decodes to nothing.
LEMMA DecodeNothing == Decode(<<>>) = <<>> /\ DecodeQuery(<<>>) = <<>>
<1>1. [i \in DOMAIN <<>> |-> Unit(<<>>, i)] = <<>>
  OBVIOUS
<1>2. Decode(<<>>) = <<>>
  BY <1>1, DecodeIs, FlattenEmpty
<1>3. [i \in DOMAIN <<>> |-> IF <<>>[i] = Plus THEN Space ELSE <<>>[i]] = <<>>
  OBVIOUS
<1> QED BY <1>2, <1>3 DEF DecodeQuery

-----------------------------------------------------------------------------
(***************************************************************************)
(* Queries.                                                                *)
(***************************************************************************)

\* The one place where q gives the name a value.
ValueAt(q, name, at, e) ==
  /\ name # Ampersand /\ NameAt(q, name, at) /\ \A i \in Nat : NameAt(q, name, i) => i = at
  /\ at + 1 + Len(e) <= Len(q)
  /\ \A k \in 1..Len(e) : q[at + 1 + k] = e[k] /\ e[k] # Ampersand
  /\ at + 2 + Len(e) = Len(q) + 1 \/ q[at + 2 + Len(e)] = Ampersand

\* The server finds the value of a parameter that the query has.
LEMMA ValueIs ==
  ASSUME NEW q \in Seq(Nat), NEW name \in Nat, NEW at \in Nat, NEW e \in Seq(Nat),
         ValueAt(q, name, at, e)
  PROVE  Value(q, name) = e
<1> USE DEF ValueAt
<1>1. Len(q) \in Nat /\ Len(e) \in Nat /\ at >= 1 /\ at \in 1..(Len(q) - 1)
  BY LenProperties DEF NameAt
<1>2. PICK S : S = {i \in Nat : NameAt(q, name, i)}
  OBVIOUS
<1>3. Min(S) = at
  <2>1. S \in SUBSET Int /\ at \in S /\ \A i \in S : at <= i
    BY <1>2
  <2> QED BY <2>1, MinIs
<1>4. Find(q, <<name, Equals>>) = at
  BY <1>2, <1>3, FindName
<1>5. Until(q, at, {Ampersand}) = at + 2 + Len(e)
  <2>1. \A k \in at..(at + 2 + Len(e) - 1) : q[k] \notin {Ampersand}
    <3> SUFFICES ASSUME NEW k \in at..(at + 2 + Len(e) - 1) PROVE q[k] \notin {Ampersand}
      OBVIOUS
    <3>1. k = at \/ k = at + 1 \/ k - (at + 1) \in 1..Len(e)
      BY <1>1
    <3>2. CASE k = at
      BY <3>2 DEF NameAt
    <3>3. CASE k = at + 1
      BY <3>3 DEF NameAt, Equals, Ampersand
    <3>4. CASE k - (at + 1) \in 1..Len(e)
      <4>1. at + 1 + (k - (at + 1)) = k
        BY <1>1
      <4> QED BY <3>4, <4>1
    <3> QED BY <3>1, <3>2, <3>3, <3>4
  <2>2. PICK m : m = at + 2 + Len(e)
    OBVIOUS
  <2>3. m \in at..(Len(q) + 1)
    BY <1>1, <2>2
  <2>4. m = Len(q) + 1 \/ q[m] \in {Ampersand}
    BY <2>2
  <2>5. \A k \in at..(m - 1) : q[k] \notin {Ampersand}
    BY <2>1, <2>2
  <2>6. Until(q, at, {Ampersand}) = m
    BY <1>1, <2>3, <2>4, <2>5, UntilIs
  <2> QED BY <2>2, <2>6
<1>6. SubSeq(q, at + 2, at + 1 + Len(e)) = e
  <2>1. at + 1 \in Nat /\ (at + 1) + 1 = at + 2 /\ (at + 1) + Len(e) = at + 1 + Len(e)
    BY <1>1
  <2>2. \A k \in 1..Len(e) : q[(at + 1) + k] = e[k]
    OBVIOUS
  <2>3. SubSeq(q, (at + 1) + 1, (at + 1) + Len(e)) = e
    BY <2>1, <2>2, PartIs
  <2> QED BY <2>1, <2>3
<1>7. (at + 2 + Len(e)) - 1 = at + 1 + Len(e) /\ at # 0
  BY <1>1
<1> QED BY <1>4, <1>5, <1>6, <1>7 DEF Value

\* And none for one that it does not have.
LEMMA ValueNone ==
  ASSUME NEW q \in Seq(Nat), NEW name \in Nat, \A i \in Nat : ~NameAt(q, name, i)
  PROVE  Value(q, name) = <<>>
BY FindName DEF Value

\* A parameter p carries the text e, what the value is encoded as.
Carries(p, name, e, value) ==
  /\ p \in Seq(Nat) /\ DecodeQuery(e) = value /\ e \in Seq(Nat)
  /\ \A k \in 1..Len(e) : e[k] \in 0..255 /\ e[k] # Ampersand /\ e[k] # Hash
  /\ value = <<>> => p = <<>> /\ e = <<>>
  /\ value # <<>> =>
       /\ Len(p) = Len(e) + 3 /\ p[1] = Ampersand /\ p[2] = name /\ p[3] = Equals
       /\ \A k \in 1..Len(e) : p[3 + k] = e[k]

\* Parameter carries its value, or is left out if that is empty.
LEMMA ParameterIs ==
  ASSUME NEW name \in 258..259, NEW value \in Seq(Byte)
  PROVE  Carries(Parameter(name, value), name, UriEncode(value, TRUE), value)
<1>1. PICK parameter, e : parameter = Parameter(name, value) /\ e = UriEncode(value, TRUE)
  OBVIOUS
<1>2. e \in Seq(Encoded(TRUE)) /\ DecodeQuery(e) = value
  BY <1>1, DecodeUndoes, DecodeQueryUndoes
<1>3. /\ Encoded(TRUE) \subseteq Nat /\ Encoded(TRUE) \subseteq 0..255
      /\ Ampersand \notin Encoded(TRUE)
      /\ Hash \notin Encoded(TRUE)
  <2>1. /\ Encoded(TRUE) \subseteq PathChar /\ PathChar \subseteq Byte /\ Byte \subseteq Nat
        /\ Ampersand \notin Encoded(TRUE)
    BY CharsOf
  <2>2. Hash \notin PathChar
    BY DEF PathChar
  <2>3. Encoded(TRUE) \subseteq 0..255
    BY <2>1 DEF Byte
  <2>4. Encoded(TRUE) \subseteq Nat
    BY <2>1
  <2>5. Hash \notin Encoded(TRUE)
    BY <2>1, <2>2
  <2> QED BY <2>1, <2>3, <2>4, <2>5
<1>4. e \in Seq(Nat)
  BY <1>2, <1>3, SeqMonotonic
<1>5. \A k \in 1..Len(e) : e[k] \in 0..255 /\ e[k] # Ampersand /\ e[k] # Hash
  <2>1. \A k \in 1..Len(e) : e[k] \in Encoded(TRUE)
    BY <1>2, ElementOfSeq
  <2> QED BY <1>3, <2>1, ZenonT(30)
<1>6. CASE value = <<>>
  <2>1. e = <<>>
    BY <1>1, <1>6, EncodeEmpty
  <2>2. Parameter(name, value) = <<>>
    BY <1>6 DEF Parameter
  <2>3. Carries(parameter, name, e, value)
    <3>1. parameter = <<>> /\ parameter \in Seq(Nat)
      BY <1>1, <2>2
    <3> QED BY <1>2, <1>4, <1>5, <1>6, <2>1, <3>1 DEF Carries
  <2> QED BY <1>1, <2>3
<1>7. CASE value # <<>>
  <2>1. PICK h : h = <<Ampersand, name, Equals>>
    OBVIOUS
  <2>2. h \in Seq(Nat) /\ Len(h) = 3 /\ h[1] = Ampersand /\ h[2] = name /\ h[3] = Equals
    BY <2>1 DEF Ampersand, Equals
  <2>3. PICK p : p = h \o e
    OBVIOUS
  <2>4. /\ p \in Seq(Nat) /\ Len(p) = Len(h) + Len(e) /\ Len(e) \in Nat
        /\ \A i \in 1..Len(h) : p[i] = h[i]
        /\ \A i \in 1..Len(e) : p[Len(h) + i] = e[i]
    <3>1. h \in Seq(Nat)
      BY <2>2
    <3> QED BY <1>4, <2>3, <3>1, ConcatIs
  <2>5. Parameter(name, value) = p
    BY <1>1, <1>7, <2>1, <2>3 DEF Parameter
  <2>6. 1 \in 1..Len(h) /\ 2 \in 1..Len(h) /\ 3 \in 1..Len(h)
    BY <2>2
  <2>7. Len(p) = Len(e) + 3
    BY <2>2, <2>4
  <2>8. p[1] = Ampersand /\ p[2] = name /\ p[3] = Equals
    BY <2>2, <2>4, <2>6
  <2>9. \A k \in 1..Len(e) : p[3 + k] = e[k]
    BY <2>2, <2>4
  <2>10. p \in Seq(Nat)
    BY <2>4
  <2>11. Carries(p, name, e, value)
    BY <1>2, <1>4, <1>5, <1>7, <2>7, <2>8, <2>9, <2>10 DEF Carries
  <2> QED BY <1>1, <2>5, <2>11
<1> QED BY <1>6, <1>7

\* The query of a List: what precedes its parameters, and they.
QueryHead(n) == <<ListType, Equals, 1002, Ampersand, MaxKeysName, Equals, 1000 + n>>

\* The parameters every list query begins with.
LEMMA QueryHeadIs ==
  ASSUME NEW n \in Nat
  PROVE  <<ListType, Equals>> \o Digits(2) \o <<Ampersand, MaxKeysName, Equals>> \o Digits(n)
           = QueryHead(n)
<1> DEFINE S == Nat
<1>1. PICK s1, s2, s3, s4, s : /\ s1 = <<ListType, Equals>> /\ s2 = Digits(2)
                               /\ s3 = <<Ampersand, MaxKeysName, Equals>>
                               /\ s4 = Digits(n) /\ s = QueryHead(n)
  OBVIOUS
<1>2. PICK a, b, c, d, e, f, g :
        /\ a = ListType /\ b = Equals /\ c = 1002 /\ d = Ampersand /\ e = MaxKeysName
        /\ f = Equals /\ g = 1000 + n
  OBVIOUS
<1>3. s1 \in Seq(S) /\ s2 \in Seq(S) /\ s3 \in Seq(S) /\ s4 \in Seq(S) /\ s \in Seq(S)
  BY <1>1 DEF Digits, ListType, Equals, Ampersand, MaxKeysName, QueryHead
<1>4. /\ Len(s1) = 2 /\ Len(s2) = 1 /\ Len(s3) = 3 /\ Len(s4) = 1 /\ Len(s) = 7
      /\ s1[1] = a /\ s1[2] = b /\ s2[1] = c /\ s3[1] = d /\ s3[2] = e /\ s3[3] = f /\ s4[1] = g
      /\ s[1] = a /\ s[2] = b /\ s[3] = c /\ s[4] = d /\ s[5] = e /\ s[6] = f /\ s[7] = g
  BY <1>1, <1>2 DEF Digits, QueryHead
<1> HIDE DEF S
<1>5. PICK w1 : w1 = s1 \o s2
  OBVIOUS
<1>6. /\ w1 \in Seq(S) /\ Len(w1) = Len(s1) + Len(s2) /\ \A i \in 1..Len(s1) : w1[i] = s1[i]
      /\ \A i \in 1..Len(s2) : w1[Len(s1) + i] = s2[i]
  BY <1>3, <1>5, ConcatIs
<1>7. Len(w1) = 3 /\ w1[1] = a /\ w1[2] = b /\ w1[3] = c
  BY <1>4, <1>6
<1>8. PICK w2 : w2 = w1 \o s3
  OBVIOUS
<1>9. w1 \in Seq(S)
  BY <1>6
<1>10. /\ w2 \in Seq(S) /\ Len(w2) = Len(w1) + Len(s3) /\ \A i \in 1..Len(w1) : w2[i] = w1[i]
       /\ \A i \in 1..Len(s3) : w2[Len(w1) + i] = s3[i]
  BY <1>3, <1>8, <1>9, ConcatIs
<1>11. Len(w2) = 6 /\ w2[1] = a /\ w2[2] = b /\ w2[3] = c /\ w2[4] = d /\ w2[5] = e /\ w2[6] = f
  BY <1>4, <1>7, <1>10
<1>12. PICK w3 : w3 = w2 \o s4
  OBVIOUS
<1>13. w2 \in Seq(S)
  BY <1>10
<1>14. /\ w3 \in Seq(S) /\ Len(w3) = Len(w2) + Len(s4) /\ \A i \in 1..Len(w2) : w3[i] = w2[i]
       /\ \A i \in 1..Len(s4) : w3[Len(w2) + i] = s4[i]
  BY <1>3, <1>12, <1>13, ConcatIs
<1>15. /\ Len(w3) = 7 /\ w3[1] = a /\ w3[2] = b /\ w3[3] = c /\ w3[4] = d /\ w3[5] = e
       /\ w3[6] = f /\ w3[7] = g
  BY <1>4, <1>11, <1>14
<1>16. Len(w3) = Len(s) /\ \A i \in 1..Len(w3) : w3[i] = s[i]
  <2>1. \A i \in 1..7 : i = 1 \/ i = 2 \/ i = 3 \/ i = 4 \/ i = 5 \/ i = 6 \/ i = 7
    OBVIOUS
  <2> QED BY <1>4, <1>15, <2>1
<1>17. w3 = s
  <2>1. w3 \in Seq(S)
    BY <1>14
  <2> QED BY <1>3, <1>16, <2>1, SeqEqual
<1> QED BY <1>1, <1>5, <1>8, <1>12, <1>17

\* No character is the name of a parameter.
LEMMA CharsNameNothing ==
  ASSUME NEW c \in 0..255, c # Hash
  PROVE  c # 35 /\ c # 257 /\ c # 258 /\ c # 259
BY DEF Hash

\* The server finds in the query of a List what its caller put there.
LEMMA QueryMeans ==
  ASSUME NEW spec, spec.prefix \in Seq(Byte), spec.continuationToken \in Seq(Byte),
         spec.maxKeys \in Nat \ {0}
  PROVE  LET q == BuildListQuery(spec)
         IN /\ q \in Seq(Nat) /\ q # <<>> /\ \A i \in DOMAIN q : q[i] # Hash
            /\ Value(q, MaxKeysName)[1] - 1000 = spec.maxKeys
            /\ DecodeQuery(Value(q, PrefixName)) = spec.prefix
            /\ DecodeQuery(Value(q, TokenName)) = spec.continuationToken
<1>1. PICK m, prefix, token : /\ m = spec.maxKeys /\ prefix = spec.prefix
                              /\ token = spec.continuationToken
  OBVIOUS
<1>2. prefix \in Seq(Byte) /\ token \in Seq(Byte) /\ m \in Nat /\ m >= 1
  BY <1>1
<1>3. PICK h : h = QueryHead(m)
  OBVIOUS
<1>4. PICK p1, e1 : p1 = Parameter(PrefixName, prefix) /\ e1 = UriEncode(prefix, TRUE)
  OBVIOUS
<1>5. PICK p2, e2 : p2 = Parameter(TokenName, token) /\ e2 = UriEncode(token, TRUE)
  OBVIOUS
<1>6. PICK w : w = h \o p1
  OBVIOUS
<1>7. PICK q : q = w \o p2
  OBVIOUS
<1>8. BuildListQuery(spec) = q
  <2>1. <<ListType, Equals>> \o Digits(2) \o <<Ampersand, MaxKeysName, Equals>> \o Digits(m) = h
    BY <1>2, <1>3, QueryHeadIs
  <2> QED BY <1>1, <1>4, <1>5, <1>6, <1>7, <2>1, Zenon DEF BuildListQuery
<1>9. /\ h \in Seq(Nat) /\ Len(h) = 7 /\ h[1] = 256 /\ h[2] = 61 /\ h[3] = 1002 /\ h[4] = 38
      /\ h[5] = 257 /\ h[6] = 61 /\ h[7] = 1000 + m
  BY <1>2, <1>3 DEF QueryHead, ListType, Equals, Ampersand, MaxKeysName
<1>10. /\ p1 \in Seq(Nat) /\ DecodeQuery(e1) = prefix /\ e1 \in Seq(Nat)
       /\ \A k \in 1..Len(e1) : e1[k] \in 0..255 /\ e1[k] # Ampersand /\ e1[k] # Hash
       /\ prefix = <<>> => p1 = <<>> /\ e1 = <<>>
       /\ prefix # <<>> =>
            /\ Len(p1) = Len(e1) + 3
            /\ p1[1] = Ampersand /\ p1[2] = PrefixName /\ p1[3] = Equals
            /\ \A k \in 1..Len(e1) : p1[3 + k] = e1[k]
  <2>1. PrefixName \in 258..259
    BY DEF PrefixName
  <2>2. Carries(p1, PrefixName, e1, prefix)
    BY <1>2, <1>4, <2>1, ParameterIs
  <2> QED BY <2>2 DEF Carries
<1>11. /\ p2 \in Seq(Nat) /\ DecodeQuery(e2) = token /\ e2 \in Seq(Nat)
       /\ \A k \in 1..Len(e2) : e2[k] \in 0..255 /\ e2[k] # Ampersand /\ e2[k] # Hash
       /\ token = <<>> => p2 = <<>> /\ e2 = <<>>
       /\ token # <<>> =>
            /\ Len(p2) = Len(e2) + 3
            /\ p2[1] = Ampersand /\ p2[2] = TokenName /\ p2[3] = Equals
            /\ \A k \in 1..Len(e2) : p2[3 + k] = e2[k]
  <2>1. TokenName \in 258..259
    BY DEF TokenName
  <2>2. Carries(p2, TokenName, e2, token)
    BY <1>2, <1>5, <2>1, ParameterIs
  <2> QED BY <2>2 DEF Carries
<1>12. PICK n : n = 7 + Len(p1)
  OBVIOUS
<1>13. /\ Len(p1) \in Nat /\ Len(p2) \in Nat /\ Len(e1) \in Nat /\ Len(e2) \in Nat /\ n \in Nat
       /\ p1 = <<>> => Len(p1) = 0
       /\ p2 = <<>> => Len(p2) = 0
  BY <1>10, <1>11, <1>12, LenProperties, EmptySeq
<1>14. /\ w \in Seq(Nat) /\ Len(w) = n /\ \A i \in 1..7 : w[i] = h[i]
       /\ \A i \in 1..Len(p1) : w[7 + i] = p1[i]
  <2>1. h \in Seq(Nat) /\ p1 \in Seq(Nat)
    BY <1>9, <1>10
  <2>2. /\ w \in Seq(Nat) /\ Len(w) = Len(h) + Len(p1) /\ \A i \in 1..Len(h) : w[i] = h[i]
        /\ \A i \in 1..Len(p1) : w[Len(h) + i] = p1[i]
    BY <1>6, <2>1, ConcatIs
  <2> QED BY <1>9, <1>12, <2>2
<1>15. /\ q \in Seq(Nat) /\ Len(q) = n + Len(p2) /\ \A i \in 1..n : q[i] = w[i]
       /\ \A i \in 1..Len(p2) : q[n + i] = p2[i]
  <2>1. w \in Seq(Nat) /\ p2 \in Seq(Nat)
    BY <1>11, <1>14
  <2>2. /\ q \in Seq(Nat) /\ Len(q) = Len(w) + Len(p2) /\ \A i \in 1..Len(w) : q[i] = w[i]
        /\ \A i \in 1..Len(p2) : q[Len(w) + i] = p2[i]
    BY <1>7, <2>1, ConcatIs
  <2> QED BY <1>14, <2>2
<1>16. /\ q[1] = 256 /\ q[2] = 61 /\ q[3] = 1002 /\ q[4] = 38
       /\ q[5] = 257 /\ q[6] = 61 /\ q[7] = 1000 + m
  <2>1. \A i \in 1..7 : i \in 1..n
    BY <1>12, <1>13
  <2>2. \A i \in 1..7 : q[i] = h[i]
    BY <1>14, <1>15, <2>1
  <2>3. \A i \in {1, 2, 3, 4, 5, 6, 7} : i \in 1..7
    OBVIOUS
  <2> QED BY <1>9, <2>2, <2>3
<1>17. ASSUME prefix # <<>>
       PROVE  /\ n = 10 + Len(e1) /\ q[8] = 38 /\ q[9] = 258 /\ q[10] = 61
              /\ \A k \in 1..Len(e1) : q[10 + k] = e1[k]
  <2>1. n = 10 + Len(e1)
    BY <1>10, <1>12, <1>13, <1>17
  <2>2. \A i \in 1..Len(p1) : 7 + i \in 1..n
    BY <1>12, <1>13
  <2>3. \A i \in 1..Len(p1) : q[7 + i] = p1[i]
    BY <1>14, <1>15, <2>2
  <2>4. /\ Len(p1) = Len(e1) + 3 /\ p1[1] = Ampersand /\ p1[2] = PrefixName /\ p1[3] = Equals
        /\ \A k \in 1..Len(e1) : p1[3 + k] = e1[k]
    BY <1>10, <1>17
  <2>5. /\ 1 \in 1..Len(p1) /\ 2 \in 1..Len(p1) /\ 3 \in 1..Len(p1)
        /\ \A k \in 1..Len(e1) : 3 + k \in 1..Len(p1) /\ 7 + (3 + k) = 10 + k
        /\ 7 + 1 = 8 /\ 7 + 2 = 9 /\ 7 + 3 = 10
    BY <1>13, <2>4
  <2>6. q[8] = p1[1] /\ q[9] = p1[2] /\ q[10] = p1[3]
    BY <2>3, <2>5
  <2>7. \A k \in 1..Len(e1) : q[10 + k] = e1[k]
    BY <2>3, <2>4, <2>5
  <2> QED BY <2>1, <2>4, <2>6, <2>7 DEF Ampersand, PrefixName, Equals
<1>18. ASSUME token # <<>>
       PROVE  /\ Len(q) = n + 3 + Len(e2) /\ q[n + 1] = 38 /\ q[n + 2] = 259 /\ q[n + 3] = 61
              /\ \A k \in 1..Len(e2) : q[n + 3 + k] = e2[k]
  <2>1. /\ Len(p2) = Len(e2) + 3 /\ p2[1] = Ampersand /\ p2[2] = TokenName /\ p2[3] = Equals
        /\ \A k \in 1..Len(e2) : p2[3 + k] = e2[k]
    BY <1>11, <1>18
  <2>2. Len(q) = n + 3 + Len(e2)
    BY <1>13, <1>15, <2>1
  <2>3. /\ 1 \in 1..Len(p2) /\ 2 \in 1..Len(p2) /\ 3 \in 1..Len(p2)
        /\ \A k \in 1..Len(e2) : 3 + k \in 1..Len(p2) /\ n + (3 + k) = n + 3 + k
    BY <1>13, <2>1
  <2>4. q[n + 1] = p2[1] /\ q[n + 2] = p2[2] /\ q[n + 3] = p2[3]
    BY <1>15, <2>3
  <2>5. \A k \in 1..Len(e2) : q[n + 3 + k] = e2[k]
    BY <1>15, <2>1, <2>3
  <2> QED BY <2>1, <2>2, <2>4, <2>5 DEF Ampersand, TokenName, Equals
<1>19. /\ prefix = <<>> => n = 7
       /\ token = <<>> => Len(q) = n
  <2>1. prefix = <<>> => p1 = <<>>
    BY <1>10
  <2>2. token = <<>> => p2 = <<>>
    BY <1>11
  <2> QED BY <1>12, <1>13, <1>15, <2>1, <2>2
<1>20. ASSUME NEW i \in 1..Len(q)
       PROVE  \/ i \in 1..7
              \/ prefix # <<>> /\ (i = 8 \/ i = 9 \/ i = 10 \/ \E k \in 1..Len(e1) : i = 10 + k)
              \/ /\ token # <<>>
                 /\ i = n + 1 \/ i = n + 2 \/ i = n + 3 \/ \E k \in 1..Len(e2) : i = n + 3 + k
  <2>1. i \in Nat /\ i >= 1 /\ i <= Len(q)
    BY <1>13, <1>15
  <2>2. CASE i <= 7
    <3>1. i \in 1..7
      BY <2>1, <2>2
    <3> QED BY <3>1
  <2>3. CASE i > 7 /\ i <= n
    <3>1. prefix # <<>>
      BY <1>19, <2>3
    <3>2. n = 10 + Len(e1)
      BY <1>17, <3>1
    <3>3. i > 10 => i - 10 \in 1..Len(e1) /\ i = 10 + (i - 10)
      BY <1>13, <2>1, <2>3, <3>2
    <3>4. i = 8 \/ i = 9 \/ i = 10 \/ i > 10
      BY <2>1, <2>3
    <3> QED BY <3>1, <3>3, <3>4
  <2>4. CASE i > n
    <3>1. token # <<>>
      BY <1>13, <1>19, <2>1, <2>4
    <3>2. Len(q) = n + 3 + Len(e2)
      BY <1>18, <3>1
    <3>3. i > n + 3 => i - (n + 3) \in 1..Len(e2) /\ i = n + 3 + (i - (n + 3))
      BY <1>13, <2>1, <2>4, <3>2
    <3>4. i = n + 1 \/ i = n + 2 \/ i = n + 3 \/ i > n + 3
      BY <1>13, <2>1, <2>4
    <3> QED BY <3>1, <3>3, <3>4
  <2> QED BY <1>13, <2>1, <2>2, <2>3, <2>4
<1>21. ASSUME NEW i \in 1..Len(q)
       PROVE  /\ q[i] # 35
              /\ q[i] = 257 => i = 5
              /\ q[i] = 258 => prefix # <<>> /\ i = 9
              /\ q[i] = 259 => token # <<>> /\ i = n + 2
  <2>1. CASE i \in 1..7
    <3>1. i = 1 \/ i = 2 \/ i = 3 \/ i = 4 \/ i = 5 \/ i = 6 \/ i = 7
      BY <2>1
    <3>2. q[7] # 35 /\ q[7] # 257 /\ q[7] # 258 /\ q[7] # 259
      <4>1. q[7] = 1000 + m
        BY <1>16
      <4> QED BY <1>2, <4>1
    <3>3. /\ q[1] = 256 /\ q[2] = 61 /\ q[3] = 1002 /\ q[4] = 38 /\ q[5] = 257 /\ q[6] = 61
      BY <1>16
    <3>4. CASE i = 7
      BY <3>2, <3>4
    <3>5. CASE i # 7 /\ i # 5
      <4>1. q[i] = 256 \/ q[i] = 61 \/ q[i] = 1002 \/ q[i] = 38
        BY <3>1, <3>3, <3>5
      <4>2. q[i] # 35 /\ q[i] # 257 /\ q[i] # 258 /\ q[i] # 259
        BY <4>1
      <4> QED BY <3>5, <4>2
    <3>6. CASE i = 5
      <4>1. q[i] # 35 /\ q[i] # 258 /\ q[i] # 259
        BY <3>3, <3>6, SMTT(30)
      <4> QED BY <3>6, <4>1
    <3> QED BY <3>1, <3>4, <3>5, <3>6
  <2>2. CASE prefix # <<>> /\ (i = 8 \/ i = 9 \/ i = 10)
    BY <1>17, <2>2
  <2>3. CASE prefix # <<>> /\ \E k \in 1..Len(e1) : i = 10 + k
    <3>1. PICK k \in 1..Len(e1) : i = 10 + k
      BY <2>3
    <3>2. q[i] = e1[k]
      BY <1>17, <2>3, <3>1
    <3>3. e1[k] # 35 /\ e1[k] # 257 /\ e1[k] # 258 /\ e1[k] # 259
      <4>1. e1[k] \in 0..255 /\ e1[k] # Hash
        BY <1>10
      <4> QED BY <4>1, CharsNameNothing
    <3> QED BY <3>2, <3>3
  <2>4. CASE token # <<>> /\ (i = n + 1 \/ i = n + 2 \/ i = n + 3)
    BY <1>18, <2>4, SMTT(30)
  <2>5. CASE token # <<>> /\ \E k \in 1..Len(e2) : i = n + 3 + k
    <3>1. PICK k \in 1..Len(e2) : i = n + 3 + k
      BY <2>5
    <3>2. q[i] = e2[k]
      BY <1>18, <2>5, <3>1
    <3>3. e2[k] # 35 /\ e2[k] # 257 /\ e2[k] # 258 /\ e2[k] # 259
      <4>1. e2[k] \in 0..255 /\ e2[k] # Hash
        BY <1>11
      <4> QED BY <4>1, CharsNameNothing
    <3> QED BY <3>2, <3>3
  <2> QED BY <1>20, <2>1, <2>2, <2>3, <2>4, <2>5
<1>22. \A i \in Nat : \A name : NameAt(q, name, i) => i \in 1..Len(q) /\ q[i] = name
  BY <1>13, <1>15 DEF NameAt
<1>23. Len(q) \in Nat /\ Len(q) >= 7 /\ Len(q) >= n /\ n >= 7 /\ DOMAIN q = 1..Len(q)
  <2>1. q \in Seq(Nat)
    BY <1>15
  <2> QED BY <1>12, <1>13, <1>15, <2>1, LenProperties, SMTT(30)
<1>24. Value(q, MaxKeysName)[1] - 1000 = m
  <2>1. PICK e : e = <<1000 + m>>
    OBVIOUS
  <2>2. e \in Seq(Nat) /\ Len(e) = 1 /\ e[1] = 1000 + m
    BY <1>2, <2>1
  <2>3. NameAt(q, 257, 5)
    BY <1>16, <1>23 DEF NameAt, Equals
  <2>4. \A i \in Nat : NameAt(q, 257, i) => i = 5
    BY <1>21, <1>22
  <2>5. 5 + 1 + Len(e) <= Len(q)
    BY <1>23, <2>2
  <2>6. \A k \in 1..Len(e) : q[5 + 1 + k] = e[k] /\ e[k] # Ampersand
    BY <1>2, <1>16, <2>2 DEF Ampersand
  <2>7. 5 + 2 + Len(e) = Len(q) + 1 \/ q[5 + 2 + Len(e)] = Ampersand
    <3>1. 5 + 2 + Len(e) = 8
      BY <2>2
    <3>2. prefix # <<>> => q[8] = Ampersand
      BY <1>17 DEF Ampersand
    <3>3. prefix = <<>> /\ token # <<>> => q[8] = Ampersand
      BY <1>18, <1>19 DEF Ampersand
    <3>4. prefix = <<>> /\ token = <<>> => Len(q) + 1 = 8
      <4>1. prefix = <<>> /\ token = <<>> => Len(q) = 7
        BY <1>19
      <4>2. Len(q) = 7 => Len(q) + 1 = 8
        OBVIOUS
      <4> QED BY <4>1, <4>2
    <3> QED BY <3>1, <3>2, <3>3, <3>4
  <2>8. q \in Seq(Nat) /\ e \in Seq(Nat) /\ 257 \in Nat /\ 257 # Ampersand /\ 5 \in Nat
    BY <1>15, <2>2 DEF Ampersand
  <2>9. Value(q, 257) = e
    <3>1. ValueAt(q, 257, 5, e)
      BY <2>3, <2>4, <2>5, <2>6, <2>7, <2>8, Zenon DEF ValueAt
    <3> QED BY <2>8, <3>1, ValueIs
  <2> QED BY <1>2, <2>2, <2>9 DEF MaxKeysName
<1>25. Value(q, PrefixName) = e1
  <2>1. CASE prefix = <<>>
    <3>1. \A i \in Nat : ~NameAt(q, 258, i)
      BY <1>21, <1>22, <2>1
    <3>2. q \in Seq(Nat) /\ 258 \in Nat
      BY <1>15
    <3>3. Value(q, 258) = <<>>
      BY <3>1, <3>2, ValueNone
    <3> QED BY <1>10, <2>1, <3>3 DEF PrefixName
  <2>2. CASE prefix # <<>>
    <3>1. NameAt(q, 258, 9)
      BY <1>13, <1>17, <1>23, <2>2 DEF NameAt, Equals
    <3>2. \A i \in Nat : NameAt(q, 258, i) => i = 9
      BY <1>21, <1>22
    <3>3. n = 10 + Len(e1) /\ 9 + 1 + Len(e1) <= Len(q)
      BY <1>13, <1>17, <1>23, <2>2
    <3>4. \A k \in 1..Len(e1) : q[9 + 1 + k] = e1[k] /\ e1[k] # Ampersand
      <4>1. \A k \in 1..Len(e1) : q[10 + k] = e1[k]
        BY <1>17, <2>2
      <4>2. \A k \in 1..Len(e1) : e1[k] # Ampersand
        BY <1>10
      <4> QED BY <4>1, <4>2
    <3>5. 9 + 2 + Len(e1) = Len(q) + 1 \/ q[9 + 2 + Len(e1)] = Ampersand
      <4>1. 9 + 2 + Len(e1) = n + 1
        BY <1>13, <3>3
      <4> QED BY <1>18, <1>19, <4>1 DEF Ampersand
    <3>6. q \in Seq(Nat) /\ e1 \in Seq(Nat) /\ 258 \in Nat /\ 258 # Ampersand /\ 9 \in Nat
      BY <1>10, <1>15 DEF Ampersand
    <3>7. Value(q, 258) = e1
      <4>1. ValueAt(q, 258, 9, e1)
        BY <3>1, <3>2, <3>3, <3>4, <3>5, <3>6, Zenon DEF ValueAt
      <4> QED BY <3>6, <4>1, ValueIs
    <3> QED BY <3>7 DEF PrefixName
  <2> QED BY <2>1, <2>2
<1>26. Value(q, TokenName) = e2
  <2>1. CASE token = <<>>
    <3>1. \A i \in Nat : ~NameAt(q, 259, i)
      BY <1>21, <1>22, <2>1
    <3>2. q \in Seq(Nat) /\ 259 \in Nat
      BY <1>15
    <3>3. Value(q, 259) = <<>>
      BY <3>1, <3>2, ValueNone
    <3> QED BY <1>11, <2>1, <3>3 DEF TokenName
  <2>2. CASE token # <<>>
    <3>1. PICK at : at = n + 2
      OBVIOUS
    <3>2. NameAt(q, 259, at)
      <4>1. at \in 1..(Len(q) - 1) /\ at + 1 = n + 3
        BY <1>13, <1>18, <1>23, <2>2, <3>1
      <4> QED BY <1>18, <2>2, <3>1, <4>1 DEF NameAt, Equals
    <3>3. \A i \in Nat : NameAt(q, 259, i) => i = at
      BY <1>21, <1>22, <3>1
    <3>4. at + 1 + Len(e2) <= Len(q) /\ at + 2 + Len(e2) = Len(q) + 1 /\ at \in Nat
      <4>1. Len(q) = n + 3 + Len(e2)
        BY <1>18, <2>2
      <4>2. n \in Nat /\ Len(e2) \in Nat
        BY <1>13
      <4> QED BY <3>1, <4>1, <4>2
    <3>5. \A k \in 1..Len(e2) : q[at + 1 + k] = e2[k] /\ e2[k] # Ampersand
      <4>1. at + 1 = n + 3
        BY <1>13, <3>1
      <4>2. \A k \in 1..Len(e2) : q[n + 3 + k] = e2[k]
        BY <1>18, <2>2
      <4>3. \A k \in 1..Len(e2) : e2[k] # Ampersand
        BY <1>11
      <4> QED BY <4>1, <4>2, <4>3
    <3>6. q \in Seq(Nat) /\ e2 \in Seq(Nat) /\ 259 \in Nat /\ 259 # Ampersand
      BY <1>11, <1>15 DEF Ampersand
    <3>7. Value(q, 259) = e2
      <4>1. ValueAt(q, 259, at, e2)
        BY <3>2, <3>3, <3>4, <3>5, <3>6, Zenon DEF ValueAt
      <4> QED BY <3>4, <3>6, <4>1, ValueIs
    <3> QED BY <3>7 DEF TokenName
  <2> QED BY <2>1, <2>2
<1>27. q # <<>> /\ \A i \in DOMAIN q : q[i] # Hash
  <2>1. q # <<>>
    BY <1>23, EmptySeq
  <2> QED BY <1>21, <1>23, <2>1 DEF Hash
<1> QED BY <1>1, <1>8, <1>10, <1>11, <1>15, <1>24, <1>25, <1>26, <1>27

-----------------------------------------------------------------------------
(***************************************************************************)
(* Requests.                                                               *)
(***************************************************************************)

Configs ==
  [endpoint : {ParseEndpoint(e) : e \in Endpoints}, bucket : {Bucket}, pathStyle : BOOLEAN,
   publicUrl : PublicUrls \cup {<<>>}]

BucketRoot == <<Slash>> \o Bucket \o <<Slash>>
PublicRoot == PublicBase[2] \o <<Slash>>

\* And what comes before the key is a path under each.
LEMMA RootsArePaths ==
  /\ IsPath(BucketRoot) /\ BucketRoot # <<>>
  /\ IsPath(<<Slash>>) /\ <<Slash>> # <<>>
  /\ IsPath(PublicRoot) /\ PublicRoot # <<>>
<1>1. PICK s : s = <<Slash>>
  OBVIOUS
<1>2. s \in Seq(PathChar) /\ s[1] = Slash /\ Len(s) = 1 /\ s # <<>>
  BY <1>1, CharsOf
<1>3. IsPath(s) /\ s # <<>> /\ s \in Seq(PathChar)
  BY <1>2, PathIs
<1>4. Bucket \in Seq(PathChar)
  <2>1. Bucket \in Seq(NameChar) /\ NameChar \subseteq PathChar
    BY AddressAssumption, NameIs, CharsOf
  <2> QED BY <2>1, SeqMonotonic
<1>5. IsPath(s \o Bucket) /\ s \o Bucket # <<>>
  BY <1>3, <1>4, PathGrows
<1>6. IsPath((s \o Bucket) \o s) /\ (s \o Bucket) \o s # <<>>
  BY <1>3, <1>5, PathGrows
<1>7. IsPath(PublicBase[2] \o s) /\ PublicBase[2] \o s # <<>>
  <2>1. IsPath(PublicBase[2])
    BY AddressAssumption
  <2>2. CASE PublicBase[2] = <<>>
    <3>1. <<>> \o s = s
      BY <1>3, ConcatEmptySeq
    <3> QED BY <1>3, <2>2, <3>1
  <2>3. CASE PublicBase[2] # <<>>
    BY <1>3, <2>1, <2>3, PathGrows
  <2> QED BY <2>2, <2>3
<1> QED BY <1>1, <1>3, <1>6, <1>7 DEF BucketRoot, PublicRoot

\* And its dot segments end with it.
LEMMA RootsHaveNoDots ==
  \A root \in {BucketRoot, <<Slash>>, PublicRoot} :
    root \in Seq(Nat) /\ Open(root, 0) /\ ~Closed(root)
<1>1. PICK o : o = <<Slash>>
  OBVIOUS
<1>2. Slash \in Nat /\ o \in Seq(Nat) /\ <<>> \in Seq(Nat)
  BY <1>1 DEF Slash
<1>3. ASSUME NEW s \in Seq(Nat), ~HasDotSegment(s)
      PROVE  s \o o \in Seq(Nat) /\ Open(s \o o, 0) /\ ~Closed(s \o o)
  <2>1. ~Closed(s) /\ ~Open(s, 1) /\ ~Open(s, 2)
    BY <1>3, DotSegmentIs
  <2>2. s \o o = Append(s, Slash)
    BY <1>1, <1>2, <1>3, AppendIsConcat
  <2>3. Append(s, Slash) \in Seq(Nat)
    BY <1>2, <1>3, AppendProperties
  <2> QED BY <1>2, <1>3, <2>1, <2>2, <2>3, DotsGrow
<1>4. Bucket \in Seq(Nat) /\ PublicBase[2] \in Seq(Nat)
  BY AddressAssumption, BytesAreNumbers DEF IsName, IsPath, Byte
<1>5. ~HasDotSegment(o \o Bucket) /\ o \o Bucket \in Seq(Nat)
  BY <1>1, <1>2, <1>4, AddressAssumption, DotsAfterSlash, ConcatProperties
<1>6. <<>> \o o = o /\ ~HasDotSegment(<<>>)
  <2>1. <<>> \o o = o
    BY <1>2, ConcatEmptySeq
  <2>2. DOMAIN <<>> = {}
    OBVIOUS
  <2> QED BY <2>1, <2>2 DEF HasDotSegment
<1>7. o \in Seq(Nat) /\ Open(o, 0) /\ ~Closed(o)
  BY <1>2, <1>3, <1>6
<1>8. (o \o Bucket) \o o \in Seq(Nat) /\ Open((o \o Bucket) \o o, 0)
      /\ ~Closed((o \o Bucket) \o o)
  BY <1>3, <1>5
<1>9. PublicBase[2] \o o \in Seq(Nat) /\ Open(PublicBase[2] \o o, 0)
      /\ ~Closed(PublicBase[2] \o o)
  BY <1>3, <1>4, AddressAssumption
<1> QED BY <1>1, <1>7, <1>8, <1>9 DEF BucketRoot, PublicRoot

\* What the settings of a client are, whatever the plugin has set.
LEMMA ConfigIs ==
  ASSUME NEW c \in Configs
  PROVE  /\ c.endpoint.host = ServiceHost
         /\ c.endpoint.scheme \in Seq(Nat) /\ Schemeless(c.endpoint.scheme)
         /\ BuildHost(c) = (IF c.pathStyle THEN ServiceHost ELSE VirtualHost)
         /\ BuildBucketUri(c) = (IF c.pathStyle THEN BucketRoot ELSE <<Slash>>)
         /\ c.pathStyle \in BOOLEAN /\ c.bucket = Bucket
         /\ c.publicUrl # <<>> => c.publicUrl \in Seq(Byte) /\ NamesPublicSite(c.publicUrl)
<1>1. /\ c.pathStyle \in BOOLEAN /\ c.bucket = Bucket
      /\ c.publicUrl \in PublicUrls \cup {<<>>}
      /\ c.endpoint \in {ParseEndpoint(e) : e \in Endpoints}
  BY DEF Configs
<1>2. PICK e \in Endpoints : c.endpoint = ParseEndpoint(e)
  BY <1>1
<1>3. /\ c.endpoint.host = ServiceHost
      /\ c.endpoint.scheme \in Seq(Nat) /\ Schemeless(c.endpoint.scheme)
  BY <1>2, EndpointIs
<1>4. BuildHost(c) = (IF c.pathStyle THEN ServiceHost ELSE VirtualHost)
  BY <1>1, <1>3 DEF BuildHost, VirtualHost
<1>5. BuildBucketUri(c) = (IF c.pathStyle THEN BucketRoot ELSE <<Slash>>)
  BY <1>1 DEF BuildBucketUri, BucketRoot
<1>6. c.publicUrl # <<>> => c.publicUrl \in Seq(Byte) /\ NamesPublicSite(c.publicUrl)
  BY <1>1, AddressAssumption DEF Byte
<1> QED BY <1>1, <1>3, <1>4, <1>5, <1>6

\* What libcurl takes a path and perhaps a query of a client's own address for.
LEMMA SignedAddress ==
  ASSUME NEW c \in Configs, NEW key \in Seq(Byte), ~HasDotSegment(key), NEW q, IsQuery(q)
  PROVE  Resolve(c.endpoint.scheme \o SchemeEnd \o BuildHost(c) \o BuildObjectUri(c, key) \o q)
           = [host |-> BuildHost(c), path |-> BuildObjectUri(c, key),
              query |-> SubSeq(q, 2, Len(q))]
<1>1. c.endpoint.scheme \in Seq(Nat) /\ Schemeless(c.endpoint.scheme)
  BY ConfigIs
<1>2. IsName(BuildHost(c))
  BY ConfigIs, HostsDiffer
<1>3. IsPath(BuildBucketUri(c)) /\ BuildBucketUri(c) # <<>>
  BY ConfigIs, RootsArePaths
<1>4. EncodeKeyPath(key) \in Seq(PathChar)
  BY EncodedIsPath DEF EncodeKeyPath
<1>5. IsPath(BuildObjectUri(c, key)) /\ BuildObjectUri(c, key) # <<>>
  BY <1>3, <1>4, PathGrows DEF BuildObjectUri
<1>6. ~HasDotSegment(BuildObjectUri(c, key))
  <2>1. BuildBucketUri(c) \in {BucketRoot, <<Slash>>, PublicRoot}
    BY ConfigIs
  <2> QED BY <2>1, RootsHaveNoDots, EncodedDots DEF BuildObjectUri
<1> QED BY <1>1, <1>2, <1>5, <1>6, ResolveIs

\* What libcurl takes a path below the public URL for.
LEMMA PublicAddress ==
  ASSUME NEW url \in Seq(Byte), NamesPublicSite(url), NEW key \in Seq(Byte),
         ~HasDotSegment(key)
  PROVE  Resolve(TrimSlashes(url) \o <<Slash>> \o EncodeKeyPath(key))
           = [host |-> PublicBase[1], path |-> PublicRoot \o EncodeKeyPath(key), query |-> <<>>]
<1>1. PICK v : v = TrimSlashes(url)
  OBVIOUS
<1>2. v \in Seq(Nat)
  BY <1>1, BytesAreNumbers, TrimmedIs
<1>3. PICK a : a = SubSeq(v, 1, Find(v, SchemeEnd) - 1)
  OBVIOUS
<1>4. PICK h, b : h = PublicBase[1] /\ b = PublicBase[2]
  OBVIOUS
<1>5. a \in Seq(Nat) /\ Schemeless(a) /\ v = (a \o SchemeEnd) \o (h \o b)
  <2>1. Find(v, SchemeEnd) # 0 /\ SubSeq(v, Find(v, SchemeEnd) + 3, Len(v)) = h \o b
    BY <1>1, <1>4 DEF NamesPublicSite
  <2> QED BY <1>2, <1>3, <2>1, SchemeOf
<1>6. PICK s, e, w : s = <<Slash>> /\ e = EncodeKeyPath(key) /\ w = a \o SchemeEnd
  OBVIOUS
<1>7. /\ w \in Seq(Nat) /\ h \in Seq(Nat) /\ b \in Seq(Nat) /\ s \in Seq(Nat) /\ e \in Seq(Nat)
      /\ IsName(h) /\ IsPath(b) /\ e \in Seq(PathChar)
  <2>1. IsName(h) /\ IsPath(b)
    BY <1>4, AddressAssumption
  <2>2. h \in Seq(Nat) /\ b \in Seq(Nat)
    BY <2>1, BytesAreNumbers DEF IsName, IsPath, Byte
  <2>3. w \in Seq(Nat)
    BY <1>5, <1>6, AfterScheme
  <2>4. s \in Seq(Nat)
    BY <1>6 DEF Slash
  <2>5. e \in Seq(Nat) /\ e \in Seq(PathChar)
    BY <1>6, EncodedIsPath DEF EncodeKeyPath
  <2> QED BY <2>1, <2>2, <2>3, <2>4, <2>5
<1>8. PICK x, y : x = w \o h /\ y = b \o s
  OBVIOUS
<1>9. x \in Seq(Nat) /\ y \in Seq(Nat)
  BY <1>7, <1>8, ConcatProperties
<1>10. (v \o s) \o e = x \o (y \o e)
  <2>1. Regroups(w, h, b) /\ Regroups(x, b, s) /\ Regroups(x, y, e)
    BY <1>7, <1>9, Regroup
  <2>2. v = x \o b
    <3>1. (w \o h) \o b = w \o (h \o b)
      BY <2>1 DEF Regroups
    <3> QED BY <1>5, <1>6, <1>8, <3>1
  <2>3. v \o s = x \o y
    <3>1. (x \o b) \o s = x \o (b \o s)
      BY <2>1 DEF Regroups
    <3> QED BY <1>8, <2>2, <3>1
  <2>4. (x \o y) \o e = x \o (y \o e)
    BY <2>1 DEF Regroups
  <2> QED BY <2>3, <2>4
<1>11. PICK p : p = y \o e
  OBVIOUS
<1>12. IsPath(p) /\ p # <<>>
  <2>1. IsPath(y) /\ y # <<>>
    BY <1>4, <1>6, <1>8, RootsArePaths DEF PublicRoot
  <2> QED BY <1>7, <1>11, <2>1, PathGrows
<1>13. ~HasDotSegment(p)
  <2>1. y = PublicRoot
    BY <1>4, <1>6, <1>8 DEF PublicRoot
  <2> QED BY <1>6, <1>11, <2>1, RootsHaveNoDots, EncodedDots
<1>14. (x \o p) \o <<>> = x \o p
  <2>1. p \in Seq(Nat)
    BY <1>12, BytesAreNumbers DEF IsPath, Byte
  <2>2. x \o p \in Seq(Nat)
    BY <1>9, <2>1, ConcatProperties
  <2> QED BY <2>2, ConcatEmptySeq
<1>15. PICK q : q = <<>>
  OBVIOUS
<1>16. IsQuery(q) /\ SubSeq(q, 2, Len(q)) = <<>>
  <2>1. SubSeq(<<>>, 2, 0) = <<>>
    BY SubSeqEmpty
  <2>2. Len(<<>>) = 0 /\ <<>> \in Seq(Nat) /\ DOMAIN <<>> = {}
    OBVIOUS
  <2> QED BY <1>15, <2>1, <2>2 DEF IsQuery
<1>17. Resolve((((a \o SchemeEnd) \o h) \o p) \o q)
         = [host |-> h, path |-> p, query |-> SubSeq(q, 2, Len(q))]
  <2>1. a \in Seq(Nat) /\ Schemeless(a)
    BY <1>5
  <2>2. IsName(h)
    BY <1>7
  <2> QED BY <1>12, <1>16, <1>13, <2>1, <2>2, ResolveIs
<1>18. Resolve(x \o p) = [host |-> h, path |-> p, query |-> <<>>]
  BY <1>6, <1>8, <1>14, <1>15, <1>16, <1>17
<1> QED BY <1>1, <1>4, <1>6, <1>8, <1>10, <1>11, <1>18 DEF PublicRoot

\* The server finds the key in the path, under each host.
LEMMA KeyIs ==
  ASSUME NEW key \in Seq(Byte), NEW r
  PROVE  /\ r.host = ServiceHost /\ r.path = BucketRoot \o EncodeKeyPath(key) => KeyOf(r) = key
         /\ r.host = VirtualHost /\ r.path = <<Slash>> \o EncodeKeyPath(key) => KeyOf(r) = key
         /\ r.host = PublicBase[1] /\ r.path = PublicRoot \o EncodeKeyPath(key) => KeyOf(r) = key
<1>1. PICK e : e = EncodeKeyPath(key)
  OBVIOUS
<1>2. e \in Seq(Nat) /\ Decode(e) = key
  BY <1>1, EncodedIsPath, DecodeUndoes DEF EncodeKeyPath
<1>3. BucketRoot \in Seq(Nat) /\ <<Slash>> \in Seq(Nat) /\ PublicRoot \in Seq(Nat)
  BY RootsArePaths, BytesAreNumbers DEF IsPath, Byte
<1>4. /\ After(BucketRoot \o e, BucketRoot) = e /\ After(<<Slash>> \o e, <<Slash>>) = e
      /\ After(PublicRoot \o e, PublicRoot) = e
  BY <1>2, <1>3, AfterIs
<1>5. ASSUME r.host = ServiceHost, r.path = BucketRoot \o e PROVE KeyOf(r) = key
  <2>1. r.host # VirtualHost /\ r.host # PublicBase[1]
    BY <1>5, HostsDiffer
  <2>2. KeyOf(r) = Decode(After(r.path, BucketRoot))
    BY <1>5, <2>1 DEF KeyOf, VirtualHost, BucketRoot
  <2> QED BY <1>2, <1>4, <1>5, <2>2
<1>6. ASSUME r.host = VirtualHost, r.path = <<Slash>> \o e PROVE KeyOf(r) = key
  <2>1. r.host # ServiceHost /\ r.host # PublicBase[1]
    BY <1>6, HostsDiffer
  <2>2. KeyOf(r) = Decode(After(r.path, <<Slash>>))
    BY <1>6, <2>1 DEF KeyOf, VirtualHost
  <2> QED BY <1>2, <1>4, <1>6, <2>2
<1>7. ASSUME r.host = PublicBase[1], r.path = PublicRoot \o e PROVE KeyOf(r) = key
  <2>1. r.host # ServiceHost /\ r.host # VirtualHost
    BY <1>7, HostsDiffer
  <2>2. KeyOf(r) = Decode(After(r.path, PublicRoot))
    BY <1>7, <2>1 DEF KeyOf, VirtualHost, PublicRoot
  <2> QED BY <1>2, <1>4, <1>7, <2>2
<1> QED BY <1>1, <1>5, <1>6, <1>7

\* The requests a plugin makes.
Specs ==
  {spec \in [op : {"Head", "Get", "Put", "Copy", "Delete", "List"}, key : Seq(Byte),
             sourceKey : Seq(Byte), prefix : Seq(Byte), maxKeys : Nat \ {0},
             continuationToken : Seq(Byte), config : Configs] :
     /\ spec.op = "List" => spec.key = <<>>
     /\ spec.op # "List" => /\ spec.prefix = <<>> /\ spec.continuationToken = <<>>
                            /\ spec.maxKeys = 1000
     /\ spec.op # "Copy" => spec.sourceKey = <<>>}

\* What libcurl takes the URL of a signed request for.
LEMMA SignedUrlIs ==
  ASSUME NEW spec \in Specs, ~HasDotSegment(spec.key)
  PROVE  Resolve(BuildSignedUrl(spec))
           = [host |-> BuildHost(spec.config), path |-> BuildObjectUri(spec.config, spec.key),
              query |-> IF spec.op = "List" THEN BuildListQuery(spec) ELSE <<>>]
<1>1. PICK c, key : c = spec.config /\ key = spec.key
  OBVIOUS
<1>2. c \in Configs /\ key \in Seq(Byte) /\ ~HasDotSegment(key)
  BY <1>1 DEF Specs
<1>3. PICK x : x = c.endpoint.scheme \o SchemeEnd \o BuildHost(c) \o BuildObjectUri(c, key)
  OBVIOUS
<1>4. x \in Seq(Nat)
  <2>1. c.endpoint.scheme \o SchemeEnd \in Seq(Nat)
    BY <1>2, ConfigIs, AfterScheme
  <2>2. BuildHost(c) \in Seq(Nat)
    BY <1>2, ConfigIs, HostsDiffer, BytesAreNumbers DEF IsName, Byte
  <2>3. BuildObjectUri(c, key) \in Seq(Nat)
    <3>1. BuildBucketUri(c) \in Seq(Nat)
      BY <1>2, ConfigIs, RootsArePaths, BytesAreNumbers DEF IsPath, Byte
    <3>2. EncodeKeyPath(key) \in Seq(Nat)
      BY <1>2, EncodedIsPath DEF EncodeKeyPath
    <3> QED BY <3>1, <3>2, ConcatProperties DEF BuildObjectUri
  <2>4. c.endpoint.scheme \o SchemeEnd \o BuildHost(c) \in Seq(Nat)
    BY <2>1, <2>2, ConcatProperties
  <2> QED BY <1>3, <2>3, <2>4, ConcatProperties
<1>5. CASE spec.op # "List"
  <2>1. PICK q : q = <<>>
    OBVIOUS
  <2>2. IsQuery(q) /\ SubSeq(q, 2, Len(q)) = <<>>
    <3>1. SubSeq(<<>>, 2, 0) = <<>>
      BY SubSeqEmpty
    <3>2. Len(<<>>) = 0 /\ <<>> \in Seq(Nat) /\ DOMAIN <<>> = {}
      OBVIOUS
    <3> QED BY <2>1, <3>1, <3>2 DEF IsQuery
  <2>3. BuildSignedUrl(spec) = x \o q
    <3>1. x \o <<>> = x
      BY <1>4, ConcatEmptySeq
    <3> QED BY <1>1, <1>3, <1>5, <2>1, <3>1, Zenon DEF BuildSignedUrl
  <2>4. Resolve(x \o q) = [host |-> BuildHost(c), path |-> BuildObjectUri(c, key),
                           query |-> SubSeq(q, 2, Len(q))]
    BY <1>2, <1>3, <2>2, SignedAddress
  <2> QED BY <1>1, <1>5, <2>2, <2>3, <2>4
<1>6. CASE spec.op = "List"
  <2>1. PICK query, m : query = BuildListQuery(spec) /\ m = <<Question>>
    OBVIOUS
  <2>2. query \in Seq(Nat) /\ \A i \in DOMAIN query : query[i] # Hash
    <3>1. /\ spec.prefix \in Seq(Byte) /\ spec.continuationToken \in Seq(Byte)
          /\ spec.maxKeys \in Nat \ {0}
      BY DEF Specs
    <3> QED BY <2>1, <3>1, QueryMeans
  <2>3. m \in Seq(Nat) /\ Len(m) = 1 /\ m[1] = Question
    BY <2>1 DEF Question
  <2>4. PICK q : q = m \o query
    OBVIOUS
  <2>5. /\ q \in Seq(Nat) /\ Len(q) = 1 + Len(query) /\ Len(query) \in Nat
        /\ q[1] = Question /\ \A i \in 1..Len(query) : q[1 + i] = query[i]
        /\ DOMAIN query = 1..Len(query)
    <3>1. m \in Seq(Nat) /\ query \in Seq(Nat)
      BY <2>2, <2>3
    <3>2. /\ q \in Seq(Nat) /\ Len(q) = Len(m) + Len(query) /\ Len(query) \in Nat
          /\ \A i \in 1..Len(m) : q[i] = m[i]
          /\ \A i \in 1..Len(query) : q[Len(m) + i] = query[i]
      BY <2>4, <3>1, ConcatIs
    <3>3. DOMAIN query = 1..Len(query)
      BY <2>2, LenProperties
    <3>4. 1 \in 1..Len(m)
      BY <2>3
    <3> QED BY <2>3, <3>2, <3>3, <3>4
  <2>6. IsQuery(q)
    <3>1. q \in Seq(Nat)
      BY <2>5
    <3>2. DOMAIN q = 1..Len(q)
      BY <3>1, LenProperties
    <3>3. ASSUME NEW i \in DOMAIN q PROVE q[i] # Hash
      <4>1. i \in 1..(1 + Len(query)) /\ Len(query) \in Nat
        BY <2>5, <3>2
      <4>2. CASE i = 1
        BY <2>5, <4>2 DEF Question, Hash
      <4>3. CASE i # 1
        <5>1. i - 1 \in 1..Len(query) /\ 1 + (i - 1) = i
          BY <4>1, <4>3
        <5>2. q[i] = query[i - 1]
          BY <2>5, <5>1
        <5> QED BY <2>2, <2>5, <5>1, <5>2
      <4> QED BY <4>2, <4>3
    <3> QED BY <2>5, <3>1, <3>3 DEF IsQuery
  <2>7. SubSeq(q, 2, Len(q)) = query
    <3>1. 1 \in Nat /\ 1 + Len(query) <= Len(q) /\ 1 + Len(query) = Len(q) /\ 1 + 1 = 2
      BY <2>5
    <3>2. q \in Seq(Nat) /\ query \in Seq(Nat) /\ \A i \in 1..Len(query) : q[1 + i] = query[i]
      BY <2>2, <2>5
    <3>3. SubSeq(q, 1 + 1, 1 + Len(query)) = query
      BY <3>1, <3>2, PartIs
    <3> QED BY <3>1, <3>3
  <2>8. BuildObjectUri(c, key) = BuildBucketUri(c)
    <3>1. key = <<>>
      BY <1>1, <1>6 DEF Specs
    <3>2. EncodeKeyPath(key) = <<>>
      BY <3>1, EncodeEmpty DEF EncodeKeyPath
    <3>3. BuildBucketUri(c) \in Seq(Nat)
      BY <1>2, ConfigIs, RootsArePaths, BytesAreNumbers DEF IsPath, Byte
    <3> QED BY <3>2, <3>3, ConcatEmptySeq DEF BuildObjectUri
  <2>9. BuildSignedUrl(spec) = (x \o m) \o query
    BY <1>1, <1>3, <1>6, <2>1, <2>8, Zenon DEF BuildSignedUrl
  <2>10. (x \o m) \o query = x \o q
    <3>1. Regroups(x, m, query)
      BY <1>4, <2>2, <2>3, Regroup
    <3> QED BY <2>4, <3>1 DEF Regroups
  <2>11. Resolve(x \o q) = [host |-> BuildHost(c), path |-> BuildObjectUri(c, key),
                            query |-> SubSeq(q, 2, Len(q))]
    BY <1>2, <1>3, <2>6, SignedAddress
  <2> QED BY <1>1, <1>6, <2>1, <2>7, <2>9, <2>10, <2>11
<1> QED BY <1>5, <1>6

\* What the server reads off the URL of a request.
LEMMA UrlMeans ==
  ASSUME NEW spec \in Specs, ~HasDotSegment(spec.key)
  PROVE  LET r == Resolve(BuildRequest(spec).url)
         IN /\ KeyOf(r) = spec.key
            /\ r.query = (IF spec.op = "List" THEN BuildListQuery(spec) ELSE <<>>)
            /\ r.host = PublicBase[1] <=> UsesPublicUrl(spec)
<1>1. PICK c, key : c = spec.config /\ key = spec.key
  OBVIOUS
<1>2. c \in Configs /\ key \in Seq(Byte) /\ ~HasDotSegment(key)
  BY <1>1 DEF Specs
<1>3. CASE UsesPublicUrl(spec)
  <2>1. c.publicUrl \in Seq(Byte) /\ NamesPublicSite(c.publicUrl) /\ spec.op = "Get"
    BY <1>1, <1>2, <1>3, ConfigIs DEF UsesPublicUrl
  <2>2. BuildRequest(spec).url = TrimSlashes(c.publicUrl) \o <<Slash>> \o EncodeKeyPath(key)
    BY <1>1, <1>3 DEF BuildRequest, BuildPublicUrl
  <2>3. PICK r : r = Resolve(BuildRequest(spec).url)
    OBVIOUS
  <2>4. r = [host |-> PublicBase[1], path |-> PublicRoot \o EncodeKeyPath(key), query |-> <<>>]
    BY <1>2, <2>1, <2>2, <2>3, PublicAddress
  <2>5. r.host = PublicBase[1] /\ r.path = PublicRoot \o EncodeKeyPath(key) /\ r.query = <<>>
    BY <2>4
  <2>6. KeyOf(r) = key
    BY <1>2, <2>5, KeyIs
  <2> QED BY <1>1, <1>3, <2>1, <2>3, <2>5, <2>6
<1>4. CASE ~UsesPublicUrl(spec)
  <2>1. BuildRequest(spec).url = BuildSignedUrl(spec)
    BY <1>4 DEF BuildRequest
  <2>2. PICK r : r = Resolve(BuildRequest(spec).url)
    OBVIOUS
  <2>3. r = [host |-> BuildHost(c), path |-> BuildObjectUri(c, key),
             query |-> IF spec.op = "List" THEN BuildListQuery(spec) ELSE <<>>]
    BY <1>1, <2>1, <2>2, SignedUrlIs
  <2>4. /\ r.host = BuildHost(c) /\ r.path = BuildObjectUri(c, key)
        /\ r.query = (IF spec.op = "List" THEN BuildListQuery(spec) ELSE <<>>)
    BY <2>3
  <2>5. r.path = BuildBucketUri(c) \o EncodeKeyPath(key)
    BY <2>4 DEF BuildObjectUri
  <2>6. CASE c.pathStyle
    <3>1. r.host = ServiceHost /\ r.path = BucketRoot \o EncodeKeyPath(key)
      BY <1>2, <2>4, <2>5, <2>6, ConfigIs
    <3>2. KeyOf(r) = key /\ r.host # PublicBase[1]
      BY <1>2, <3>1, KeyIs, HostsDiffer
    <3> QED BY <1>1, <1>4, <2>2, <2>4, <3>2
  <2>7. CASE ~c.pathStyle
    <3>1. r.host = VirtualHost /\ r.path = <<Slash>> \o EncodeKeyPath(key)
      BY <1>2, <2>4, <2>5, <2>7, ConfigIs
    <3>2. KeyOf(r) = key /\ r.host # PublicBase[1]
      BY <1>2, <3>1, KeyIs, HostsDiffer
    <3> QED BY <1>1, <1>4, <2>2, <2>4, <3>2
  <2> QED BY <2>6, <2>7
<1> QED BY <1>3, <1>4

\* The server reads the source of a Copy, and of nothing else, off its header.
LEMMA CopySourceMeans ==
  ASSUME NEW spec \in Specs
  PROVE  /\ Decode(After(CopySource(spec), BucketRoot)) = spec.sourceKey
         /\ CopySource(spec) = <<>> <=> spec.op # "Copy"
<1>1. PICK key : key = spec.sourceKey
  OBVIOUS
<1>2. key \in Seq(Byte) /\ spec.config.bucket = Bucket
  BY <1>1, ConfigIs DEF Specs
<1>3. CASE spec.op = "Copy"
  <2>1. PICK e : e = EncodeKeyPath(key)
    OBVIOUS
  <2>2. e \in Seq(Nat) /\ Decode(e) = key
    BY <1>2, <2>1, EncodedIsPath, DecodeUndoes DEF EncodeKeyPath
  <2>3. CopySource(spec) = BucketRoot \o e
    BY <1>1, <1>2, <1>3, <2>1 DEF CopySource, BucketRoot
  <2>4. IsPath(BucketRoot) /\ BucketRoot # <<>> /\ BucketRoot \in Seq(Nat)
    BY RootsArePaths, BytesAreNumbers DEF IsPath, Byte
  <2>5. After(BucketRoot \o e, BucketRoot) = e
    BY <2>2, <2>4, AfterIs
  <2>6. BucketRoot \o e # <<>>
    BY <2>2, <2>4, ConcatEqualIffEmpty
  <2> QED BY <1>1, <1>3, <2>2, <2>3, <2>5, <2>6
<1>4. CASE spec.op # "Copy"
  <2>1. CopySource(spec) = <<>> /\ key = <<>>
    BY <1>1, <1>4 DEF CopySource, Specs
  <2>2. After(<<>>, BucketRoot) = <<>>
    <3>1. IsPath(BucketRoot) /\ BucketRoot # <<>> /\ BucketRoot \in Seq(Nat)
      BY RootsArePaths, BytesAreNumbers DEF IsPath, Byte
    <3>2. Len(BucketRoot) \in Nat \ {0}
      BY <3>1, EmptySeq
    <3>3. ~(Len(BucketRoot) <= Len(<<>>))
      BY <3>2
    <3> QED BY <3>3 DEF After, IsPrefix
  <2> QED BY <1>1, <1>4, <2>1, <2>2, DecodeNothing
<1> QED BY <1>3, <1>4

\* An empty query has no parameters.
LEMMA NoQuery == Value(<<>>, PrefixName) = <<>> /\ Value(<<>>, TokenName) = <<>>
<1>1. \A name, i \in Nat : ~NameAt(<<>>, name, i)
  BY DEF NameAt
<1>2. <<>> \in Seq(Nat) /\ 258 \in Nat /\ 259 \in Nat
  OBVIOUS
<1>3. ASSUME NEW name \in Nat PROVE Value(<<>>, name) = <<>>
  <2>1. \A i \in Nat : ~NameAt(<<>>, name, i)
    BY <1>1
  <2> QED BY <1>2, <2>1, ValueNone
<1>4. Value(<<>>, 258) = <<>> /\ Value(<<>>, 259) = <<>>
  BY <1>2, <1>3
<1> QED BY <1>4 DEF PrefixName, TokenName

\* The server takes every request for the one its caller means: BuildRequest is undone,
\* whatever bytes the key, the prefix and the token have, whatever the page size and the
\* settings, as long as a URL can name the key: it is not empty, and no segment of it is
\* "." or "..".
THEOREM RequestsUnderstood ==
  ASSUME NEW spec \in Specs, spec.op # "List" => IsAddressable(spec.key)
  PROVE  Understood(BuildRequest(spec)) = Meaning(spec)
<1>1. ~HasDotSegment(spec.key) /\ (spec.op # "List" => spec.key # <<>>)
  <2>1. ~HasDotSegment(<<>>)
    BY DEF HasDotSegment
  <2> QED BY <2>1 DEF IsAddressable, Specs
<1>2. PICK r : r = Resolve(BuildRequest(spec).url)
  OBVIOUS
<1>3. /\ KeyOf(r) = spec.key
      /\ r.query = (IF spec.op = "List" THEN BuildListQuery(spec) ELSE <<>>)
      /\ r.host = PublicBase[1] <=> UsesPublicUrl(spec)
  BY <1>1, <1>2, UrlMeans
<1>4. /\ BuildRequest(spec).method = Method(spec.op)
      /\ BuildRequest(spec).copySource = CopySource(spec)
      /\ BuildRequest(spec).signed = ~UsesPublicUrl(spec)
  BY DEF BuildRequest
<1>5. /\ Decode(After(BuildRequest(spec).copySource, <<Slash>> \o Bucket \o <<Slash>>))
           = spec.sourceKey
      /\ BuildRequest(spec).copySource = <<>> <=> spec.op # "Copy"
  BY <1>4, CopySourceMeans DEF BucketRoot
<1>6. CASE spec.op = "List"
  <2>1. PICK q : q = BuildListQuery(spec)
    OBVIOUS
  <2>2. /\ q # <<>> /\ Value(q, MaxKeysName)[1] - 1000 = spec.maxKeys
        /\ DecodeQuery(Value(q, PrefixName)) = spec.prefix
        /\ DecodeQuery(Value(q, TokenName)) = spec.continuationToken
    <3>1. /\ spec.prefix \in Seq(Byte) /\ spec.continuationToken \in Seq(Byte)
          /\ spec.maxKeys \in Nat \ {0}
      BY DEF Specs
    <3> QED BY <2>1, <3>1, QueryMeans
  <2>3. r.query = q /\ ~UsesPublicUrl(spec) /\ BuildRequest(spec).method = "GET"
    BY <1>3, <1>4, <1>6, <2>1 DEF UsesPublicUrl, Method
  <2> QED BY <1>2, <1>3, <1>4, <1>5, <1>6, <2>2, <2>3 DEF Understood, Meaning, UsesPublicUrl
<1>7. CASE spec.op # "List"
  <2>1. KeyOf(r) # <<>>
    BY <1>1, <1>3, <1>7
  <2>2. /\ r.query = <<>> /\ spec.prefix = <<>> /\ spec.continuationToken = <<>>
        /\ spec.maxKeys = 1000 /\ spec.op \in {"Head", "Get", "Put", "Copy", "Delete"}
    BY <1>3, <1>7 DEF Specs
  <2>3. /\ DecodeQuery(Value(r.query, PrefixName)) = spec.prefix
        /\ DecodeQuery(Value(r.query, TokenName)) = spec.continuationToken
    BY <2>2, NoQuery, DecodeNothing
  <2>4. BuildRequest(spec).method = (CASE spec.op = "Head" -> "HEAD"
          [] spec.op \in {"Put", "Copy"} -> "PUT" [] spec.op = "Delete" -> "DELETE"
          [] spec.op \in {"Get", "List"} -> "GET")
    BY <1>4 DEF Method
  <2> QED BY <1>2, <1>3, <1>4, <1>5, <1>7, <2>1, <2>2, <2>3, <2>4
          DEF Understood, Meaning, UsesPublicUrl
<1> QED BY <1>6, <1>7
=============================================================================
