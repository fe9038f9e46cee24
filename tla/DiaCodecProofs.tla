--------------------------- MODULE DiaCodecProofs ---------------------------
(***************************************************************************)
(* Theorems about DiaCodec, for every message and every nesting of groups: *)
(* the positions of encoder and decoder stay on the 4-byte boundary.       *)
(***************************************************************************)
EXTENDS DiaCodec, SequenceTheorems, WellFoundedInduction, TLAPS

Frames == [code : Nat, start : Nat, rest : Seq(Avps)]
Groups == [code : Nat, vendorId : Nat \cup {NoVendor}, end : Int, next : Nat]

\* What is left of every list is AVPs of the message, and no group begins behind
\* the position.
Ahead ==
  /\ building \in Seq(Frames) /\ building # <<>>
  /\ stage = "encode" => \A i \in DOMAIN building : building[i].start <= pos

\* The decoder goes on at a boundary when it leaves a group.
ReturnsAligned == \A i \in DOMAIN reading : reading[i].next % 4 = 0

IInv ==
  /\ TypeOK
  /\ Ahead
  /\ ReturnsAligned
  /\ WordAligned

(***************************************************************************)
(* Induction over numbers and lists, and what is taken of a list (Those). A *)
(* set stands for the property: the theorems of the library take operators. *)
(***************************************************************************)
\* The order of the numbers, as a relation.
Less == {ss \in Nat \X Nat : ss[1] < ss[2]}

\* A set of numbers with anything in it has a least one.
LEMMA LeastNumber ==
  ASSUME NEW T \in SUBSET Nat, T # {}
  PROVE  \E x \in T : \A y \in T : x <= y
<1>1. IsWellFoundedOn(Less, Nat)
  BY NatLessThanWellFounded DEF OpToRel, Less
<1>2. PICK x \in T : \A y \in T : ~ (<<y, x>> \in Less)
  BY <1>1, WFMin
<1>3. ASSUME NEW y \in T PROVE x <= y
  <2>1. ~ (<<y, x>> \in Less) /\ x \in Nat /\ y \in Nat
    BY <1>2
  <2> QED
    BY <2>1 DEF Less
<1> QED
  BY <1>3

\* What holds of 0, and of every number behind one it holds of, holds of all.
LEMMA Induction ==
  ASSUME NEW T, 0 \in T, \A n \in Nat : n \in T => n + 1 \in T
  PROVE  Nat \subseteq T
<1> DEFINE B == Nat \ T
<1>1. SUFFICES ASSUME B # {} PROVE FALSE
  OBVIOUS
<1>2. PICK x \in B : \A y \in B : x <= y
  BY <1>1, LeastNumber
<1>3. x - 1 \in Nat /\ x - 1 \in T
  BY <1>2
<1> QED
  BY <1>2, <1>3

\* The first n elements are through, and f holds what was taken of them.
Taken(f, list, at, n) ==
  f = [i \in 0..n |-> IF i = 0 THEN <<>>
                      ELSE IF i \in at THEN Append(f[i - 1], list[i]) ELSE f[i - 1]]

\* What such a function holds, one element after the other.
LEMMA TakenSteps ==
  ASSUME NEW f, NEW list, NEW at, NEW n \in Nat, Taken(f, list, at, n)
  PROVE  /\ f[0] = <<>>
         /\ \A i \in 1..n : f[i] = IF i \in at THEN Append(f[i - 1], list[i]) ELSE f[i - 1]
<1> DEFINE rhs == [i \in 0..n |-> IF i = 0 THEN <<>>
                      ELSE IF i \in at THEN Append(f[i - 1], list[i]) ELSE f[i - 1]]
<1>1. f = rhs
  BY DEF Taken
<1>2. rhs[0] = <<>>
  OBVIOUS
<1>3. \A i \in 1..n : rhs[i] = IF i \in at THEN Append(f[i - 1], list[i]) ELSE f[i - 1]
  OBVIOUS
<1> HIDE DEF rhs
<1> QED
  BY <1>1, <1>2, <1>3

\* There is one for every list.
LEMMA TakenExists ==
  ASSUME NEW list, NEW at, NEW n \in Nat
  PROVE  \E f : Taken(f, list, at, n)
<1> DEFINE T == {k \in Nat : \E f : Taken(f, list, at, k)}
<1>1. 0 \in T
  <2> DEFINE f == [i \in 0..0 |-> <<>>]
  <2>1. Taken(f, list, at, 0)
    BY DEF Taken
  <2> QED
    BY <2>1
<1>2. ASSUME NEW k \in Nat, k \in T PROVE k + 1 \in T
  <2>1. PICK f : Taken(f, list, at, k)
    BY <1>2
  <2> DEFINE g == [i \in 0..(k + 1) |->
                     IF i <= k THEN f[i]
                     ELSE IF i \in at THEN Append(f[i - 1], list[i]) ELSE f[i - 1]]
  <2>2. ASSUME NEW i \in 0..(k + 1)
        PROVE  g[i] = IF i = 0 THEN <<>>
                      ELSE IF i \in at THEN Append(g[i - 1], list[i]) ELSE g[i - 1]
    <3>1. CASE i = 0
      <4>1. f[0] = <<>>
        BY <2>1 DEF Taken
      <4> QED
        BY <3>1, <4>1
    <3>2. CASE i # 0
      <4>1. i - 1 \in 0..k /\ g[i - 1] = f[i - 1]
        BY <3>2
      <4>2. i <= k => f[i] = IF i \in at THEN Append(f[i - 1], list[i]) ELSE f[i - 1]
        BY <2>1, <3>2, TakenSteps
      <4> QED
        BY <3>2, <4>1, <4>2
    <3> QED
      BY <3>1, <3>2
  <2>3. g = [i \in 0..(k + 1) |-> g[i]]
    OBVIOUS
  <2> HIDE DEF g
  <2>4. g = [i \in 0..(k + 1) |-> IF i = 0 THEN <<>>
                      ELSE IF i \in at THEN Append(g[i - 1], list[i]) ELSE g[i - 1]]
    BY <2>2, <2>3
  <2> QED
    BY <2>4 DEF Taken
<1> HIDE DEF T
<1>3. Nat \subseteq T
  BY <1>1, <1>2, Induction
<1> QED
  BY <1>3 DEF T

\* The elements taken are what it holds at the end.
LEMMA ThoseTaken ==
  ASSUME NEW list, NEW at, Len(list) \in Nat
  PROVE  \E f : Taken(f, list, at, Len(list)) /\ Those(list, at) = f[Len(list)]
<1> DEFINE f == CHOOSE f : Taken(f, list, at, Len(list))
<1>1. Taken(f, list, at, Len(list))
  BY TakenExists
<1>2. Those(list, at) = f[Len(list)]
  BY DEF Those, Taken
<1> QED
  BY <1>1, <1>2

\* What is taken of a list depends on its elements up to there only.
LEMMA TakenAlike ==
  ASSUME NEW f, NEW g, NEW list, NEW other, NEW at, NEW m \in Nat, NEW n \in Nat, m <= n,
         Taken(f, list, at, m), Taken(g, other, at, n),
         \A i \in 1..m : list[i] = other[i]
  PROVE  f[m] = g[m]
<1> DEFINE T == {k \in Nat : k <= m => f[k] = g[k]}
<1>1. 0 \in T
  BY TakenSteps
<1>2. ASSUME NEW k \in Nat, k \in T PROVE k + 1 \in T
  <2>1. SUFFICES ASSUME k + 1 <= m PROVE f[k + 1] = g[k + 1]
    OBVIOUS
  <2>2. f[k] = g[k] /\ list[k + 1] = other[k + 1]
    BY <1>2, <2>1
  <2>3. /\ f[k + 1] = IF k + 1 \in at THEN Append(f[k], list[k + 1]) ELSE f[k]
        /\ g[k + 1] = IF k + 1 \in at THEN Append(g[k], other[k + 1]) ELSE g[k]
    <3>1. k + 1 \in 1..m /\ k + 1 \in 1..n /\ (k + 1) - 1 = k
      BY <2>1
    <3> QED
      BY <3>1, TakenSteps
  <2> QED
    BY <2>2, <2>3
<1> HIDE DEF T
<1>3. Nat \subseteq T
  BY <1>1, <1>2, Induction
<1> QED
  BY <1>3 DEF T

\* Of an empty list nothing is taken.
LEMMA ThoseEmpty == ASSUME NEW at PROVE Those(<<>>, at) = <<>>
<1>1. PICK f : Taken(f, <<>>, at, 0) /\ Those(<<>>, at) = f[0]
  BY ThoseTaken
<1> QED
  BY <1>1 DEF Taken

\* One more element of the list is taken or not.
LEMMA ThoseAppend ==
  ASSUME NEW S, NEW s \in Seq(S), NEW x \in S, NEW at
  PROVE  Those(Append(s, x), at) =
           IF Len(s) + 1 \in at THEN Append(Those(s, at), x) ELSE Those(s, at)
<1> DEFINE n == Len(s)
           t == Append(s, x)
<1>1. n \in Nat /\ Len(t) = n + 1 /\ (\A i \in 1..n : t[i] = s[i]) /\ t[n + 1] = x
  BY AppendProperties, LenProperties
<1>2. PICK f : Taken(f, s, at, n) /\ Those(s, at) = f[n]
  BY <1>1, ThoseTaken
<1> HIDE DEF n, t
<1>3. PICK g : Taken(g, t, at, n + 1) /\ Those(t, at) = g[n + 1]
  BY <1>1, ThoseTaken
<1>4. f[n] = g[n]
  <2>1. n \in Nat /\ n + 1 \in Nat /\ n <= n + 1 /\ \A i \in 1..n : s[i] = t[i]
    BY <1>1
  <2> QED
    BY <1>2, <1>3, <2>1, TakenAlike, Zenon
<1>5. g[n + 1] = IF n + 1 \in at THEN Append(g[n], x) ELSE g[n]
  <2>1. n + 1 \in 1..(n + 1) /\ (n + 1) - 1 = n
    BY <1>1
  <2> QED
    BY <1>1, <1>3, <2>1, TakenSteps
<1> QED
  BY <1>2, <1>3, <1>4, <1>5 DEF n, t

\* What holds of the empty list, and of every list with one more element than one it
\* holds of, holds of all lists.
LEMMA SeqInduction ==
  ASSUME NEW S, NEW T, <<>> \in T,
         \A s \in Seq(S), x \in S : s \in T => Append(s, x) \in T
  PROVE  Seq(S) \subseteq T
<1> DEFINE N == {n \in Nat : \A s \in Seq(S) : Len(s) = n => s \in T}
<1>1. 0 \in N
  BY EmptySeq
<1>2. ASSUME NEW n \in Nat, n \in N PROVE n + 1 \in N
  <2>1. SUFFICES ASSUME NEW s \in Seq(S), Len(s) = n + 1 PROVE s \in T
    OBVIOUS
  <2>2. s # <<>>
    BY <2>1, EmptySeq
  <2>3. PICK r \in Seq(S), x \in S : s = Append(r, x)
    BY <2>2, SequenceEmptyOrAppend
  <2>4. Len(r) = n
    BY <2>1, <2>3, AppendProperties, LenProperties
  <2> QED
    BY <1>2, <2>3, <2>4
<1> HIDE DEF N
<1>3. Nat \subseteq N
  BY <1>1, <1>2, Induction
<1> QED
  BY <1>3, LenProperties DEF N

\* The elements taken are elements of the list.
LEMMA ThoseType ==
  ASSUME NEW S, NEW s \in Seq(S), NEW at
  PROVE  Those(s, at) \in Seq(S)
<1> DEFINE T == {r \in Seq(S) : Those(r, at) \in Seq(S)}
<1>1. <<>> \in T
  BY ThoseEmpty, EmptySeq
<1>2. ASSUME NEW r \in Seq(S), NEW x \in S, r \in T PROVE Append(r, x) \in T
  <2>1. Those(r, at) \in Seq(S)
    BY <1>2
  <2>2. Append(r, x) \in Seq(S) /\ Append(Those(r, at), x) \in Seq(S)
    BY <2>1, AppendProperties
  <2>3. Those(Append(r, x), at) = IF Len(r) + 1 \in at THEN Append(Those(r, at), x)
                                                       ELSE Those(r, at)
    BY ThoseAppend
  <2> QED
    BY <2>1, <2>2, <2>3
<1> HIDE DEF T
<1>3. Seq(S) \subseteq T
  BY <1>1, <1>2, SeqInduction
<1> QED
  BY <1>3 DEF T

\* Positions outside the list make no difference.
LEMMA ThoseSame ==
  ASSUME NEW S, NEW s \in Seq(S), NEW at, NEW there,
         \A i \in 1..Len(s) : i \in at <=> i \in there
  PROVE  Those(s, at) = Those(s, there)
<1> DEFINE T == {r \in Seq(S) : (\A i \in 1..Len(r) : i \in at <=> i \in there)
                                   => Those(r, at) = Those(r, there)}
<1>1. <<>> \in T
  BY ThoseEmpty, EmptySeq
<1>2. ASSUME NEW r \in Seq(S), NEW x \in S, r \in T PROVE Append(r, x) \in T
  <2>1. SUFFICES ASSUME \A i \in 1..Len(Append(r, x)) : i \in at <=> i \in there
                 PROVE  Those(Append(r, x), at) = Those(Append(r, x), there)
    BY AppendProperties
  <2>2. Len(Append(r, x)) = Len(r) + 1 /\ Len(r) \in Nat
    BY AppendProperties, LenProperties
  <2>3. Those(r, at) = Those(r, there)
    BY <1>2, <2>1, <2>2
  <2>4. Len(r) + 1 \in at <=> Len(r) + 1 \in there
    BY <2>1, <2>2
  <2>5. /\ Those(Append(r, x), at) = IF Len(r) + 1 \in at THEN Append(Those(r, at), x)
                                                          ELSE Those(r, at)
        /\ Those(Append(r, x), there) = IF Len(r) + 1 \in there THEN Append(Those(r, there), x)
                                                                ELSE Those(r, there)
    BY ThoseAppend
  <2> QED
    BY <2>3, <2>4, <2>5
<1> HIDE DEF T
<1>3. Seq(S) \subseteq T
  BY <1>1, <1>2, SeqInduction
<1> QED
  BY <1>3 DEF T

\* Of two lists one behind the other the elements are taken of each.
LEMMA ThoseConcat ==
  ASSUME NEW S, NEW s \in Seq(S), NEW t \in Seq(S), NEW at, NEW behind,
         \A i \in 1..Len(t) : i \in behind <=> Len(s) + i \in at
  PROVE  Those(s \o t, at) = Those(s, at) \o Those(t, behind)
<1> DEFINE T == {r \in Seq(S) : (\A i \in 1..Len(r) : i \in behind <=> Len(s) + i \in at)
                        => Those(s \o r, at) = Those(s, at) \o Those(r, behind)}
<1>1. <<>> \in T
  BY ThoseEmpty, ThoseType, EmptySeq, ConcatEmptySeq
<1>2. ASSUME NEW r \in Seq(S), NEW x \in S, r \in T PROVE Append(r, x) \in T
  <2>1. SUFFICES ASSUME \A i \in 1..Len(Append(r, x)) : i \in behind <=> Len(s) + i \in at
                 PROVE  Those(s \o Append(r, x), at)
                          = Those(s, at) \o Those(Append(r, x), behind)
    BY AppendProperties
  <2>2. /\ Len(Append(r, x)) = Len(r) + 1 /\ Len(r) \in Nat /\ Len(s) \in Nat
        /\ s \o r \in Seq(S) /\ Len(s \o r) = Len(s) + Len(r)
    BY AppendProperties, LenProperties, ConcatProperties
  <2>3. Those(s \o r, at) = Those(s, at) \o Those(r, behind)
    BY <1>2, <2>1, <2>2
  <2>4. Len(r) + 1 \in behind <=> Len(s \o r) + 1 \in at
    BY <2>1, <2>2
  <2>5. s \o Append(r, x) = Append(s \o r, x)
    BY <2>2, AppendIsConcat, ConcatAssociative
  <2>6. Those(s \o Append(r, x), at) = IF Len(r) + 1 \in behind
                                         THEN Append(Those(s \o r, at), x) ELSE Those(s \o r, at)
    <3>1. Those(Append(s \o r, x), at) = IF Len(s \o r) + 1 \in at
                                          THEN Append(Those(s \o r, at), x) ELSE Those(s \o r, at)
      <4> DEFINE q == s \o r
      <4>1. q \in Seq(S)
        BY <2>2
      <4> HIDE DEF q
      <4>2. Those(Append(q, x), at) = IF Len(q) + 1 \in at
                                        THEN Append(Those(q, at), x) ELSE Those(q, at)
        BY <4>1, ThoseAppend
      <4> QED
        BY <4>2 DEF q
    <3> QED
      BY <2>4, <2>5, <3>1
  <2>7. Those(Append(r, x), behind) = IF Len(r) + 1 \in behind
                                       THEN Append(Those(r, behind), x) ELSE Those(r, behind)
    BY ThoseAppend
  <2>8. Those(s, at) \o Append(Those(r, behind), x) = Append(Those(s, at) \o Those(r, behind), x)
    <3>1. Those(s, at) \in Seq(S) /\ Those(r, behind) \in Seq(S)
      BY ThoseType
    <3> QED
      BY <3>1, AppendIsConcat, ConcatAssociative, ConcatProperties
  <2> QED
    BY <2>3, <2>6, <2>7, <2>8
<1> HIDE DEF T
<1>3. Seq(S) \subseteq T
  BY <1>1, <1>2, SeqInduction
<1> QED
  BY <1>3 DEF T

\* Nothing is taken.
LEMMA ThoseNone ==
  ASSUME NEW S, NEW s \in Seq(S), NEW at, \A i \in 1..Len(s) : i \notin at
  PROVE  Those(s, at) = <<>>
<1> DEFINE T == {r \in Seq(S) : (\A i \in 1..Len(r) : i \notin at) => Those(r, at) = <<>>}
<1>1. <<>> \in T
  BY ThoseEmpty, EmptySeq
<1>2. ASSUME NEW r \in Seq(S), NEW x \in S, r \in T PROVE Append(r, x) \in T
  BY <1>2, ThoseAppend, AppendProperties, LenProperties
<1> HIDE DEF T
<1>3. Seq(S) \subseteq T
  BY <1>1, <1>2, SeqInduction
<1> QED
  BY <1>3 DEF T

\* Everything is taken.
LEMMA ThoseAll ==
  ASSUME NEW S, NEW s \in Seq(S), NEW at, \A i \in 1..Len(s) : i \in at
  PROVE  Those(s, at) = s
<1> DEFINE T == {r \in Seq(S) : (\A i \in 1..Len(r) : i \in at) => Those(r, at) = r}
<1>1. <<>> \in T
  BY ThoseEmpty, EmptySeq
<1>2. ASSUME NEW r \in Seq(S), NEW x \in S, r \in T PROVE Append(r, x) \in T
  BY <1>2, ThoseAppend, AppendProperties, LenProperties
<1> HIDE DEF T
<1>3. Seq(S) \subseteq T
  BY <1>1, <1>2, SeqInduction
<1> QED
  BY <1>3 DEF T

(***************************************************************************)
(* The dictionary and the buffer                                           *)
(***************************************************************************)
LEMMA InfoType ==
  ASSUME NEW cmd, NEW code
  PROVE  diaGetAvpInfo(cmd, code).vendor \in BOOLEAN /\ diaGetAvpInfo(cmd, code).id \in Nat
BY DEF diaGetAvpInfo

LEMMA WordsAligned ==
  ASSUME NEW m \in Nat, NEW n \in Nat, m % 4 = 0, n % 4 = 0
  PROVE  m + n \in Nat /\ m + n >= m /\ (m + n) % 4 = 0
OBVIOUS

\* The padding of a string or an AVP completes it to whole words.
LEMMA PaddingAligns ==
  ASSUME NEW n \in Nat
  PROVE  Padding(n) \in 0..3 /\ (n + Padding(n)) % 4 = 0
BY DEF Padding

LEMMA HdrLenAligned ==
  ASSUME NEW vendor \in BOOLEAN
  PROVE  AvpHdrLen(vendor) \in {8, 12}
BY DEF AvpHdrLen

\* What is written anywhere into a buffer of numbers leaves a buffer of numbers.
LEMMA PutType ==
  ASSUME NEW b \in Seq(Nat), NEW at \in Nat, NEW bytes \in Seq(Nat)
  PROVE  Put(b, at, bytes) \in Seq(Nat)
<1> DEFINE n == IF at + Len(bytes) > Len(b) THEN at + Len(bytes) ELSE Len(b)
<1>1. n \in Nat
  BY LenProperties
<1>2. \A i \in DOMAIN bytes : bytes[i] \in Nat
  BY LenProperties, ElementOfSeq
<1>3. \A i \in DOMAIN b : b[i] \in Nat
  BY LenProperties, ElementOfSeq
<1>4. Put(b, at, bytes) \in [1..n -> Nat]
  BY <1>2, <1>3 DEF Put
<1> HIDE DEF n
<1> QED
  BY <1>1, <1>4, SeqDef, Zenon

LEMMA WordTypes ==
  ASSUME NEW v \in Nat
  PROVE  U32(v) \in Seq(Nat) /\ Len(U32(v)) = 4 /\ U64(v) \in Seq(Nat) /\ Len(U64(v)) = 8
<1>1. \A w \in Nat : U32(w) \in Seq(Nat) /\ Len(U32(w)) = 4
  BY DEF U32
<1>2. U64(v) \in Seq(Nat) /\ Len(U64(v)) = 8
  <2>1. U32(v) \in Seq(Nat) /\ U32(0) \in Seq(Nat)
    BY <1>1
  <2>2. U32(v) \o U32(0) \in Seq(Nat) /\ Len(U32(v) \o U32(0)) = Len(U32(v)) + Len(U32(0))
    BY <2>1, ConcatProperties, Zenon
  <2>3. Len(U32(v)) = 4 /\ Len(U32(0)) = 4
    BY <1>1, Zenon
  <2> QED
    <3>1. Len(U32(v) \o U32(0)) = 8
      BY <2>2, <2>3
    <3> QED
      BY <2>2, <3>1, Zenon DEF U64
<1> QED
  BY <1>1, <1>2

LEMMA HdrType ==
  ASSUME NEW cmd, NEW code \in Nat, NEW len \in Nat
  PROVE  LET info == diaGetAvpInfo(cmd, code)
         IN  /\ AvpHdr(info, code, len) \in Seq(Nat)
             /\ Len(AvpHdr(info, code, len)) = AvpHdrLen(info.vendor)
<1> DEFINE info == diaGetAvpInfo(cmd, code)
           flags == <<IF info.vendor THEN 1 ELSE 0, len, 0, 0>>
           id == IF info.vendor THEN U32(info.id) ELSE <<>>
<1>1. U32(code) \in Seq(Nat) /\ Len(U32(code)) = 4
  BY WordTypes
<1>2. flags \in Seq(Nat) /\ Len(flags) = 4
  <2>1. (IF info.vendor THEN 1 ELSE 0) \in Nat
    OBVIOUS
  <2> QED
    BY <2>1
<1>3. id \in Seq(Nat) /\ Len(id) = AvpHdrLen(info.vendor) - 8
  <2>1. info.id \in Nat /\ info.vendor \in BOOLEAN
    BY InfoType
  <2>2. CASE info.vendor
    <3>1. id = U32(info.id) /\ AvpHdrLen(info.vendor) = 12
      BY <2>2, Zenon DEF AvpHdrLen
    <3> HIDE DEF id
    <3> QED
      BY <2>1, <3>1, WordTypes
  <2>3. CASE ~info.vendor
    BY <2>3, EmptySeq DEF AvpHdrLen
  <2> QED
    BY <2>2, <2>3
<1> HIDE DEF flags, id
<1>4. U32(code) \o flags \in Seq(Nat) /\ Len(U32(code) \o flags) = 8
  <2>1. U32(code) \o flags \in Seq(Nat)
        /\ Len(U32(code) \o flags) = Len(U32(code)) + Len(flags)
    BY <1>1, <1>2, ConcatProperties, Zenon
  <2> QED
    BY <1>1, <1>2, <2>1
<1>5. (U32(code) \o flags) \o id \in Seq(Nat)
      /\ Len((U32(code) \o flags) \o id) = 8 + (AvpHdrLen(info.vendor) - 8)
  BY <1>3, <1>4, ConcatProperties
<1>6. AvpHdr(info, code, len) = (U32(code) \o flags) \o id
  BY DEF AvpHdr, flags, id
<1>7. AvpHdrLen(info.vendor) \in Nat
  BY InfoType, HdrLenAligned
<1> QED
  BY <1>5, <1>6, <1>7

(***************************************************************************)
(* Encoding                                                                *)
(***************************************************************************)
\* An AVP is there to encode, of the innermost call.
LEMMA NextToEncode ==
  ASSUME IInv, NEW types, Encodes(types)
  PROVE  /\ Call \in Frames /\ Head(Call.rest) \in Avps /\ Tail(Call.rest) \in Seq(Avps)
         /\ Head(Call.rest).code \in Nat
         /\ Len(building) \in DOMAIN building
<1>1. Len(building) \in DOMAIN building
  BY EmptySeq, LenProperties DEF IInv, Ahead
<1>2. Call \in Frames
  BY <1>1, ElementOfSeq, LenProperties DEF IInv, Ahead, Call, Last
<1>3. Call.rest \in Seq(Avps) /\ Call.rest # <<>>
  BY <1>2 DEF Frames, Encodes
<1>4. Head(Call.rest) \in Avps /\ Tail(Call.rest) \in Seq(Avps)
  BY <1>3, HeadTailProperties
<1>5. \E m \in Messages : TRUE
  BY DEF IInv, TypeOK
<1>6. Head(Call.rest).code \in Nat
  BY <1>4, <1>5, CodecAssumption
<1> QED
  BY <1>1, <1>2, <1>4, <1>6

\* The data of the AVP is what its type says.
LEMMA NextIsTyped ==
  ASSUME IInv, NEW types, Encodes(types)
  PROVE  /\ types = {"octets"} => Head(Call.rest).data \in Seq(Nat)
         /\ types \in SUBSET {"uint32", "uint64", "enum"} => Head(Call.rest).data \in Nat
         /\ types = {"grouped"} => Head(Call.rest).data \in Seq(Avps)
<1>1. Head(Call.rest) \in Avps
  BY NextToEncode
<1>2. msg.cmd \in {m.cmd : m \in Messages}
  BY DEF IInv, TypeOK
<1>3. diaGetAvpInfo(msg.cmd, Head(Call.rest).code).type \in types
  BY DEF Encodes, Info
<1> QED
  BY <1>1, <1>2, <1>3, CodecAssumption

\* The innermost call takes one AVP off its list.
LEMMA CallAdvances ==
  ASSUME IInv, NEW types, Encodes(types)
  PROVE  LET calls == [building EXCEPT ![Len(building)].rest = Tail(@)]
         IN  /\ calls \in Seq(Frames) /\ calls # <<>>
             /\ DOMAIN calls = DOMAIN building
             /\ \A i \in DOMAIN building : calls[i].start = building[i].start
<1> DEFINE calls == [building EXCEPT ![Len(building)].rest = Tail(@)]
           frame == [Call EXCEPT !.rest = Tail(@)]
<1>1. calls = [building EXCEPT ![Len(building)] = frame]
  BY DEF Call, Last
<1>2. frame \in Frames /\ frame.start = Call.start
  BY NextToEncode DEF Frames
<1> HIDE DEF frame, calls
<1>3. building \in Seq(Frames) /\ Len(building) \in 1..Len(building)
  BY NextToEncode, LenProperties DEF IInv, Ahead
<1>4. calls \in Seq(Frames) /\ Len(calls) = Len(building)
  BY <1>1, <1>2, <1>3, ExceptSeq
<1>5. calls # <<>>
  BY <1>3, <1>4, EmptySeq, LenProperties
<1>6. DOMAIN calls = DOMAIN building
  BY <1>3, <1>4, LenProperties
<1>7. \A i \in DOMAIN building : calls[i].start = building[i].start
  BY <1>1, <1>2, <1>3 DEF Call, Last
<1> QED
  BY <1>4, <1>5, <1>6, <1>7 DEF calls

\* An AVP of whole words goes to the buffer, and the call goes on behind it.
LEMMA Written ==
  ASSUME IInv, NEW types, Encodes(types), NEW len \in Nat, NEW data \in Seq(Nat),
         Len(data) % 4 = 0, WriteAvp(len, data), Returned("OK")
  PROVE  IInv'
<1> DEFINE code == Head(Call.rest).code
           info == Info(code)
           bytes == AvpHdr(info, code, AvpHdrLen(info.vendor) + len) \o data
<1>1. code \in Nat /\ Len(building) \in DOMAIN building /\ Call \in Frames
      /\ Tail(Call.rest) \in Seq(Avps)
  BY NextToEncode
<1>2. AvpHdrLen(info.vendor) \in {8, 12}
  BY InfoType, HdrLenAligned DEF Info
<1>3. bytes \in Seq(Nat) /\ Len(bytes) = AvpHdrLen(info.vendor) + Len(data)
  <2> DEFINE hdr == AvpHdr(info, code, AvpHdrLen(info.vendor) + len)
  <2>1. AvpHdrLen(info.vendor) + len \in Nat
    BY <1>2
  <2>2. hdr \in Seq(Nat) /\ Len(hdr) = AvpHdrLen(info.vendor)
    BY <1>1, <2>1, HdrType DEF Info
  <2> HIDE DEF hdr
  <2>3. hdr \o data \in Seq(Nat) /\ Len(hdr \o data) = Len(hdr) + Len(data)
    BY <2>2, ConcatProperties, Zenon
  <2> QED
    BY <2>2, <2>3 DEF hdr
<1>4. Len(data) \in Nat
  BY LenProperties
<1>5. buf' = Put(buf, pos, bytes) /\ pos' = pos + Len(bytes)
  BY DEF WriteAvp
<1> HIDE DEF bytes, info, code
<1>6. pos' \in Nat /\ pos' >= pos /\ pos' % 4 = 0
  <2>1. Len(bytes) \in Nat /\ Len(bytes) % 4 = 0
    BY <1>2, <1>3, <1>4, WordsAligned, SMTT(30)
  <2>2. pos \in Nat /\ pos % 4 = 0
    BY DEF IInv, TypeOK, WordAligned
  <2> QED
    BY <1>5, <2>1, <2>2, WordsAligned
<1>7. buf' \in Seq(Nat)
  BY <1>3, <1>5, PutType DEF IInv, TypeOK
<1>8. /\ building' \in Seq(Frames) /\ building' # <<>>
      /\ DOMAIN building' = DOMAIN building
      /\ \A i \in DOMAIN building : building'[i].start = building[i].start
  BY CallAdvances DEF Returned
<1>9. \A i \in DOMAIN building' : building'[i].code \in Nat /\ building'[i].start \in Nat
  <2>1. \A i \in DOMAIN building' : building'[i] \in Frames
    BY <1>8, ElementOfSeq, LenProperties
  <2> QED
    BY <2>1 DEF Frames
<1>10. TypeOK'
  BY <1>6, <1>7, <1>9 DEF IInv, TypeOK, Returned
<1>11. Ahead'
  <2>1. stage = "encode" /\ stage' = "encode"
    BY DEF Encodes, Returned
  <2>2. \A i \in DOMAIN building : building[i].start \in Nat /\ building[i].start <= pos
    BY <2>1 DEF IInv, Ahead, TypeOK
  <2>3. pos \in Nat
    BY DEF IInv, TypeOK
  <2>4. ASSUME NEW i \in DOMAIN building' PROVE building'[i].start <= pos'
    <3>1. building'[i].start = building[i].start /\ building[i].start \in Nat
          /\ building[i].start <= pos
      BY <1>8, <2>2
    <3> QED
      BY <1>6, <2>3, <3>1
  <2> QED
    BY <1>8, <2>4 DEF Ahead
<1>12. ReturnsAligned' /\ WordAligned'
  BY <1>6 DEF IInv, ReturnsAligned, WordAligned, Returned
<1> QED
  BY <1>10, <1>11, <1>12 DEF IInv

LEMMA StrKeeps == IInv /\ encodeStr => IInv'
<1> SUFFICES ASSUME IInv, encodeStr PROVE IInv'
  OBVIOUS
<1> DEFINE str == Head(Call.rest).data
           zeros == [i \in 1..Padding(Len(str)) |-> 0]
<1>1. Encodes({"octets"}) /\ WriteAvp(Len(str), str \o zeros) /\ Returned("OK")
  BY DEF encodeStr
<1>2. str \in Seq(Nat) /\ Len(str) \in Nat
  BY <1>1, NextIsTyped, LenProperties
<1>3. Padding(Len(str)) \in Nat /\ (Len(str) + Padding(Len(str))) % 4 = 0
  <2>1. Padding(Len(str)) \in 0..3 /\ (Len(str) + Padding(Len(str))) % 4 = 0
    BY <1>2, PaddingAligns, Zenon
  <2> QED
    BY <2>1
<1>4. zeros \in Seq(Nat) /\ Len(zeros) = Padding(Len(str))
  <2> DEFINE n == Padding(Len(str))
  <2>1. n \in Nat
    BY <1>3
  <2> HIDE DEF n
  <2>2. [i \in 1..n |-> 0] \in [1..n -> Nat] /\ DOMAIN [i \in 1..n |-> 0] = 1..n
    OBVIOUS
  <2>3. [i \in 1..n |-> 0] \in Seq(Nat)
    BY <2>1, <2>2, SeqDef, Zenon
  <2>4. Len([i \in 1..n |-> 0]) = n
    BY <2>1, <2>2, <2>3
  <2> QED
    BY <2>3, <2>4 DEF n
<1> HIDE DEF str, zeros
<1>5. str \o zeros \in Seq(Nat) /\ Len(str \o zeros) = Len(str) + Len(zeros)
  BY <1>2, <1>4, ConcatProperties, Zenon
<1>6. Len(str \o zeros) % 4 = 0
  BY <1>3, <1>4, <1>5
<1> QED
  BY <1>1, <1>2, <1>5, <1>6, Written

LEMMA IntsKeep == IInv /\ (encodeInt32 \/ encodeInt64) => IInv'
<1> SUFFICES ASSUME IInv PROVE (encodeInt32 => IInv') /\ (encodeInt64 => IInv')
  OBVIOUS
<1> DEFINE value == Head(Call.rest).data
<1>1. ASSUME encodeInt32 PROVE IInv'
  <2>1. Encodes({"uint32", "enum"}) /\ WriteAvp(4, U32(value)) /\ Returned("OK")
    BY <1>1 DEF encodeInt32
  <2>2. value \in Nat
    BY <2>1, NextIsTyped
  <2> HIDE DEF value
  <2>3. U32(value) \in Seq(Nat) /\ Len(U32(value)) = 4
    BY <2>2, WordTypes, Zenon
  <2>4. Len(U32(value)) % 4 = 0
    BY <2>3
  <2> QED
    BY <2>1, <2>3, <2>4, Written
<1>2. ASSUME encodeInt64 PROVE IInv'
  <2>1. Encodes({"uint64"}) /\ WriteAvp(8, U64(value)) /\ Returned("OK")
    BY <1>2 DEF encodeInt64
  <2>2. value \in Nat
    BY <2>1, NextIsTyped
  <2> HIDE DEF value
  <2>3. U64(value) \in Seq(Nat) /\ Len(U64(value)) = 8
    BY <2>2, WordTypes, Zenon
  <2>4. Len(U64(value)) % 4 = 0
    BY <2>3
  <2> QED
    BY <2>1, <2>3, <2>4, Written
<1> QED
  BY <1>1, <1>2

LEMMA UnknownKeeps == IInv /\ encodeUnknown => IInv'
<1> SUFFICES ASSUME IInv, encodeUnknown PROVE IInv'
  OBVIOUS
<1>1. Encodes({"unknown"}) /\ Returned("INVALID_VALUE") /\ UNCHANGED <<buf, pos>>
  BY DEF encodeUnknown
<1>2. /\ building' \in Seq(Frames) /\ building' # <<>>
      /\ DOMAIN building' = DOMAIN building
      /\ \A i \in DOMAIN building : building'[i].start = building[i].start
  BY <1>1, CallAdvances DEF Returned
<1>3. \A i \in DOMAIN building' : building'[i] \in Frames
  BY <1>2, ElementOfSeq, LenProperties
<1>4. TypeOK'
  BY <1>1, <1>3 DEF IInv, TypeOK, Returned, Frames
<1>5. Ahead'
  BY <1>1, <1>2 DEF IInv, Ahead, Returned, Encodes
<1> QED
  BY <1>1, <1>4, <1>5 DEF IInv, ReturnsAligned, WordAligned, Returned

LEMMA GroupedKeeps == IInv /\ encodeGrouped => IInv'
<1> SUFFICES ASSUME IInv, encodeGrouped PROVE IInv'
  OBVIOUS
<1> DEFINE avp == Head(Call.rest)
           calls == [building EXCEPT ![Len(building)].rest = Tail(@)]
           frame == [code |-> avp.code, start |-> pos, rest |-> avp.data]
<1>1. /\ Encodes({"grouped"}) /\ building' = Append(calls, frame)
      /\ pos' = pos + AvpHdrLen(Info(avp.code).vendor)
      /\ stage' = "encode" /\ stage = "encode" /\ status' = "OK"
      /\ UNCHANGED <<msg, reading, buf>>
  BY DEF encodeGrouped, Encodes
<1>2. pos \in Nat /\ pos' \in Nat /\ pos <= pos' /\ pos' % 4 = 0
  <2>1. AvpHdrLen(Info(avp.code).vendor) \in {8, 12}
    BY InfoType, HdrLenAligned DEF Info
  <2>2. pos \in Nat /\ pos % 4 = 0
    BY DEF IInv, TypeOK, WordAligned
  <2> HIDE DEF avp
  <2>3. AvpHdrLen(Info(avp.code).vendor) \in Nat /\ AvpHdrLen(Info(avp.code).vendor) % 4 = 0
    BY <2>1
  <2> QED
    BY <1>1, <2>2, <2>3, WordsAligned
<1>3. avp.code \in Nat /\ avp.data \in Seq(Avps)
  BY <1>1, NextToEncode, NextIsTyped
<1>4. frame \in Frames /\ frame.start = pos
  BY <1>2, <1>3 DEF Frames
<1>5. /\ calls \in Seq(Frames)
      /\ DOMAIN calls = DOMAIN building
      /\ \A i \in DOMAIN building : calls[i].start = building[i].start
  BY <1>1, CallAdvances
<1> HIDE DEF frame, calls, avp
<1>6. /\ building' \in Seq(Frames) /\ building' # <<>>
      /\ Len(building') = Len(calls) + 1
      /\ \A i \in 1..Len(calls) : building'[i] = calls[i]
      /\ building'[Len(calls) + 1] = frame
  BY <1>1, <1>4, <1>5, AppendProperties
<1>7. DOMAIN building' = 1..(Len(calls) + 1) /\ DOMAIN calls = 1..Len(calls)
      /\ Len(calls) \in Nat
  BY <1>5, <1>6, LenProperties
<1>8. \A i \in DOMAIN building' : building'[i] \in Frames
  BY <1>6, ElementOfSeq, LenProperties
<1>9. ASSUME NEW i \in DOMAIN building' PROVE building'[i].start <= pos'
  <2>1. CASE i \in 1..Len(calls)
    <3>1. building'[i].start = building[i].start
      BY <1>5, <1>6, <1>7, <2>1
    <3>2. building[i].start \in Nat /\ building[i].start <= pos
      BY <1>1, <1>5, <1>7, <2>1 DEF IInv, TypeOK, Ahead
    <3> QED
      BY <1>2, <3>1, <3>2
  <2>2. CASE i = Len(calls) + 1
    BY <1>2, <1>4, <1>6, <2>2
  <2> QED
    BY <1>7, <2>1, <2>2
<1>10. TypeOK'
  BY <1>1, <1>2, <1>8 DEF IInv, TypeOK, Frames
<1>11. Ahead'
  BY <1>6, <1>9 DEF Ahead
<1> QED
  BY <1>1, <1>2, <1>10, <1>11 DEF IInv, ReturnsAligned, WordAligned

\* Without its last call a stack is a stack of the same calls.
LEMMA Returning ==
  ASSUME NEW S, NEW calls \in Seq(S), Len(calls) > 1
  PROVE  /\ Front(calls) \in Seq(S) /\ Front(calls) # <<>>
         /\ DOMAIN Front(calls) \subseteq DOMAIN calls
         /\ \A i \in DOMAIN Front(calls) : Front(calls)[i] = calls[i]
         /\ Last(calls) \in S /\ Len(calls) \in DOMAIN calls
<1> DEFINE n == Len(calls)
<1>1. n \in Nat /\ DOMAIN calls = 1..n /\ \A i \in 1..n : calls[i] \in S
  BY LenProperties, ElementOfSeq
<1>2. /\ SubSeq(calls, 1, n - 1) \in Seq(S)
      /\ Len(SubSeq(calls, 1, n - 1)) = n - 1
      /\ \A i \in 1..(n - 1) : SubSeq(calls, 1, n - 1)[i] = calls[i]
  BY <1>1, SubSeqProperties
<1>3. DOMAIN SubSeq(calls, 1, n - 1) = 1..(n - 1)
  BY <1>2, LenProperties
<1>4. SubSeq(calls, 1, n - 1) # <<>>
  <2>1. n - 1 # 0
    BY <1>1
  <2> HIDE DEF n
  <2> QED
    BY <1>2, <2>1, EmptySeq
<1> QED
  BY <1>1, <1>2, <1>3, <1>4 DEF Front, Last

LEMMA GroupedEndKeeps == IInv /\ encodeGroupedEnd => IInv'
<1> SUFFICES ASSUME IInv, encodeGroupedEnd PROVE IInv'
  OBVIOUS
<1> DEFINE hdr == AvpHdr(Info(Call.code), Call.code, pos - Call.start)
<1>1. /\ stage = "encode" /\ stage' = "encode" /\ Len(building) > 1
      /\ buf' = Put(buf, Call.start, hdr) /\ building' = Front(building)
      /\ UNCHANGED <<msg, reading, status, pos>>
  BY DEF encodeGroupedEnd
<1>2. building \in Seq(Frames)
  BY DEF IInv, Ahead
<1>3. /\ building' \in Seq(Frames) /\ building' # <<>>
      /\ DOMAIN building' \subseteq DOMAIN building
      /\ \A i \in DOMAIN building' : building'[i] = building[i]
      /\ Call \in Frames /\ Len(building) \in DOMAIN building
  BY <1>1, <1>2, Returning DEF Call
<1>4. Call.code \in Nat /\ Call.start \in Nat /\ pos - Call.start \in Nat
  <2>1. Call.start <= pos
    BY <1>1, <1>3 DEF IInv, Ahead, Call, Last
  <2> QED
    BY <1>3, <2>1 DEF Frames, IInv, TypeOK
<1>5. hdr \in Seq(Nat)
  BY <1>4, HdrType DEF Info
<1> HIDE DEF hdr
<1>6. buf' \in Seq(Nat)
  BY <1>1, <1>4, <1>5, PutType DEF IInv, TypeOK
<1>7. TypeOK'
  BY <1>1, <1>3, <1>6 DEF IInv, TypeOK
<1>8. Ahead'
  BY <1>1, <1>3 DEF IInv, Ahead
<1> QED
  BY <1>1, <1>7, <1>8 DEF IInv, ReturnsAligned, WordAligned

LEMMA EncodeEndKeeps == IInv /\ (encodeFails \/ encodeHdr) => IInv'
<1> SUFFICES ASSUME IInv PROVE (encodeFails => IInv') /\ (encodeHdr => IInv')
  OBVIOUS
<1>1. ASSUME encodeFails PROVE IInv'
  BY <1>1, EmptySeq DEF IInv, TypeOK, Ahead, ReturnsAligned, WordAligned, encodeFails
<1>2. ASSUME encodeHdr PROVE IInv'
  <2> DEFINE R == IF msg.isReq THEN 1 ELSE 0
             head == <<1, pos, 0, 0, R, msg.cmd, 0, 0>>
  <2>1. head \in Seq(Nat)
    <3>1. pos \in Nat /\ msg.cmd \in Nat
      BY CodecAssumption DEF IInv, TypeOK
    <3>2. R \in Nat
      OBVIOUS
    <3> QED
      BY <3>1, <3>2
  <2>2. U32(0) \in Seq(Nat) /\ U64(0) \in Seq(Nat)
    BY WordTypes
  <2> HIDE DEF head
  <2>3. (head \o U32(0)) \o U64(0) \in Seq(Nat)
    BY <2>1, <2>2, ConcatProperties, Zenon
  <2>4. buf' = Put(buf, 0, (head \o U32(0)) \o U64(0))
    BY <1>2 DEF encodeHdr, head
  <2>5. buf' \in Seq(Nat)
    BY <2>3, <2>4, PutType DEF IInv, TypeOK
  <2> QED
    BY <1>2, <2>5 DEF IInv, TypeOK, Ahead, ReturnsAligned, WordAligned, encodeHdr
<1> QED
  BY <1>1, <1>2

(***************************************************************************)
(* Decoding                                                                *)
(***************************************************************************)
\* Whatever stands in the buffer, the decoder takes numbers from it.
LEMMA AtType ==
  ASSUME IInv, NEW p \in Nat
  PROVE  At(p) \in Nat
BY ElementOfSeq, LenProperties DEF IInv, TypeOK, At

\* The positions around an AVP that starts at a boundary.
LEMMA PositionTypes ==
  ASSUME IInv
  PROVE  /\ avpCode \in Nat /\ VendorId \in Nat \cup {NoVendor}
         /\ DataPos \in Nat /\ DataPos % 4 = 0 /\ DataPos + DataLen \in Int
         /\ NextAvp \in Nat /\ NextAvp % 4 = 0
<1>1. pos \in Nat /\ pos % 4 = 0
  BY DEF IInv, TypeOK, WordAligned
<1>2. avpCode \in Nat /\ avpLen \in Nat /\ At(pos + 8) \in Nat
  BY <1>1, AtType DEF avpCode, avpLen
<1>3. AvpHdrLen(HasVendor) \in {8, 12}
  BY HdrLenAligned DEF HasVendor
<1>4. VendorId \in Nat \cup {NoVendor}
  BY <1>2 DEF VendorId
<1>5. DataPos \in Nat /\ DataPos % 4 = 0
  <2>1. AvpHdrLen(HasVendor) \in Nat /\ AvpHdrLen(HasVendor) % 4 = 0
    BY <1>3
  <2> QED
    BY <1>1, <2>1, WordsAligned DEF DataPos
<1>6. DataLen \in Int
  BY <1>2, <1>3 DEF DataLen
<1>7. NextAvp \in Nat /\ NextAvp % 4 = 0
  <2> DEFINE len == avpLen
             padding == Padding(avpLen)
  <2>1. padding \in 0..3 /\ (len + padding) % 4 = 0
    BY <1>2, PaddingAligns, Zenon
  <2>2. len \in Nat /\ NextAvp = pos + len + padding
    BY <1>2 DEF NextAvp
  <2> HIDE DEF len, padding
  <2>3. padding \in Nat
    BY <2>1
  <2>4. len + padding \in Nat /\ NextAvp = pos + (len + padding)
    BY <1>1, <2>2, <2>3
  <2> QED
    BY <1>1, <2>1, <2>4, WordsAligned
<1> QED
  BY <1>2, <1>4, <1>5, <1>6, <1>7

LEMMA DecodeKeeps ==
  IInv /\ (decodeHdr \/ decodeAvp \/ decodeGrouped \/ decodeGroupEnd \/ decodeEnd) => IInv'
<1> SUFFICES ASSUME IInv
             PROVE  /\ decodeHdr => IInv'
                    /\ decodeAvp => IInv'
                    /\ decodeGrouped => IInv'
                    /\ decodeGroupEnd => IInv'
                    /\ decodeEnd => IInv'
  OBVIOUS
<1>1. ASSUME decodeHdr PROVE IInv'
  <2> DEFINE frame == [code |-> 0, vendorId |-> NoVendor, end |-> Len(buf), next |-> 0]
  <2>1. frame \in Groups /\ frame.next % 4 = 0
    BY LenProperties DEF Groups, IInv, TypeOK
  <2>2. /\ stage' = "decode" /\ reading' = <<frame>> /\ pos' = 20
        /\ UNCHANGED <<msg, building, status, buf>>
    BY <1>1 DEF decodeHdr, HdrLen
  <2> HIDE DEF frame
  <2>3. reading' \in Seq(Groups) /\ \A i \in DOMAIN reading' : reading'[i] = frame
    BY <2>1, <2>2
  <2>4. pos' \in Nat /\ pos' % 4 = 0
    BY <2>2
  <2> QED
    BY <2>1, <2>2, <2>3, <2>4 DEF IInv, TypeOK, Ahead, ReturnsAligned, WordAligned, Groups
<1>2. ASSUME decodeAvp PROVE IInv'
  <2>1. /\ stage = "decode" /\ stage' \in {"decode", "refused"}
        /\ pos' = NextAvp \/ pos' = pos
        /\ UNCHANGED <<msg, building, status, reading, buf>>
    BY <1>2 DEF decodeAvp
  <2>2. pos' \in Nat /\ pos' % 4 = 0
    BY <2>1, PositionTypes DEF IInv, TypeOK, WordAligned
  <2> QED
    BY <2>1, <2>2 DEF IInv, TypeOK, Ahead, ReturnsAligned, WordAligned
<1>3. ASSUME decodeGrouped PROVE IInv'
  <2> DEFINE frame == [code |-> avpCode, vendorId |-> VendorId,
                       end |-> DataPos + DataLen, next |-> NextAvp]
  <2>1. /\ stage = "decode" /\ reading' = Append(reading, frame) /\ pos' = DataPos
        /\ UNCHANGED <<msg, stage, building, status, buf>>
    BY <1>3 DEF decodeGrouped
  <2>2. frame \in Groups /\ frame.next % 4 = 0
    BY PositionTypes DEF Groups
  <2> HIDE DEF frame
  <2>3. reading \in Seq(Groups)
    BY DEF IInv, TypeOK, Groups
  <2>4. /\ reading' \in Seq(Groups) /\ Len(reading') = Len(reading) + 1
        /\ \A i \in 1..Len(reading) : reading'[i] = reading[i]
        /\ reading'[Len(reading) + 1] = frame
    BY <2>1, <2>2, <2>3, AppendProperties
  <2>5. DOMAIN reading' = 1..(Len(reading) + 1) /\ DOMAIN reading = 1..Len(reading)
        /\ Len(reading) \in Nat
    BY <2>3, <2>4, LenProperties
  <2>6. \A i \in DOMAIN reading' : reading'[i].next % 4 = 0
    BY <2>2, <2>4, <2>5 DEF IInv, ReturnsAligned
  <2>7. pos' \in Nat /\ pos' % 4 = 0
    BY <2>1, PositionTypes
  <2> QED
    BY <2>1, <2>4, <2>6, <2>7 DEF IInv, TypeOK, Ahead, ReturnsAligned, WordAligned, Groups
<1>4. ASSUME decodeGroupEnd PROVE IInv'
  <2>1. /\ stage = "decode" /\ Len(reading) > 1
        /\ reading' = Front(reading) /\ pos' = Scan.next
        /\ UNCHANGED <<msg, stage, building, status, buf>>
    BY <1>4 DEF decodeGroupEnd
  <2>2. reading \in Seq(Groups)
    BY DEF IInv, TypeOK, Groups
  <2>3. /\ reading' \in Seq(Groups)
        /\ DOMAIN reading' \subseteq DOMAIN reading
        /\ \A i \in DOMAIN reading' : reading'[i] = reading[i]
        /\ Scan \in Groups /\ Len(reading) \in DOMAIN reading
    BY <2>1, <2>2, Returning DEF Scan
  <2>4. pos' \in Nat /\ pos' % 4 = 0
    BY <2>1, <2>3 DEF Groups, IInv, ReturnsAligned, Scan, Last
  <2>5. ReturnsAligned'
    BY <2>3 DEF IInv, ReturnsAligned
  <2> QED
    BY <2>1, <2>3, <2>4, <2>5 DEF IInv, TypeOK, Ahead, WordAligned, Groups
<1>5. ASSUME decodeEnd PROVE IInv'
  BY <1>5 DEF IInv, TypeOK, Ahead, ReturnsAligned, WordAligned, decodeEnd
<1> QED
  BY <1>1, <1>2, <1>3, <1>4, <1>5

(***************************************************************************)
(* What is refused                                                         *)
(***************************************************************************)
\* The first n AVPs of the list have been taken off it.
Left(rest, list, n) == n \in 0..Len(list) /\ rest = SubSeq(list, n + 1, Len(list))

IsGroup(avp) == Info(avp.code).type = "grouped"

\* Of the group that is being encoded in the message j members have been taken: the
\* status is that of the last one, which was unknown or a group itself when it is not OK.
InGroup(group, j) ==
  /\ Left(building[2].rest, group.data, j)
  /\ Len(building) > 2 => j > 0 /\ IsGroup(group.data[j])
  /\ Len(building) = 2 /\ status # "OK" =>
       j > 0 /\ (Unknown(group.data[j]) \/ IsGroup(group.data[j]))

\* An AVP of the message that is cause to refuse it.
Cause(avp) ==
  \/ Unknown(avp)
  \/ /\ IsGroup(avp) /\ avp.data # <<>>
     /\ Unknown(Last(avp.data)) \/ IsGroup(Last(avp.data))

\* Of the message k AVPs have been taken, the last of which may still be in progress.
\* Only the last can be unknown, and then the status says so.
InMessage(k) ==
  /\ Left(building[1].rest, msg.avps, k)
  /\ \A i \in 1..k : Unknown(msg.avps[i]) => i = k /\ Len(building) = 1 /\ status # "OK"
  /\ Len(building) = 1 /\ status # "OK" => k > 0 /\ Cause(msg.avps[k])
  /\ Len(building) > 1 =>
       k > 0 /\ IsGroup(msg.avps[k]) /\ \E j \in Nat : InGroup(msg.avps[k], j)

Refusal ==
  /\ stage = "encode" => \E k \in Nat : InMessage(k)
  /\ stage \in {"sent", "decode", "done"} => \A i \in DOMAIN msg.avps : ~Unknown(msg.avps[i])
  /\ stage = "refused" => \E i \in DOMAIN msg.avps : Cause(msg.avps[i])

\* Taking an element off the list.
LEMMA LeftSteps ==
  ASSUME NEW S, NEW list \in Seq(S), NEW rest, NEW n, Left(rest, list, n)
  PROVE  /\ n \in Nat /\ n <= Len(list)
         /\ rest = <<>> => n = Len(list)
         /\ rest # <<>> => /\ n + 1 \in 1..Len(list) /\ Head(rest) = list[n + 1]
                           /\ Left(Tail(rest), list, n + 1)
<1>1. Len(list) \in Nat /\ n \in 0..Len(list) /\ rest = SubSeq(list, n + 1, Len(list))
  BY LenProperties DEF Left
<1>2. \A i \in (n + 1)..Len(list) : list[i] \in S
  BY <1>1, ElementOfSeq
<1>3. /\ rest \in Seq(S)
      /\ Len(rest) = IF n + 1 <= Len(list) THEN Len(list) - (n + 1) + 1 ELSE 0
      /\ \A i \in 1..(Len(list) - (n + 1) + 1) : rest[i] = list[(n + 1) + i - 1]
  BY <1>1, <1>2, SubSeqProperties
<1>4. ASSUME rest = <<>> PROVE n = Len(list)
  <2>1. Len(rest) = 0
    BY <1>3, <1>4, EmptySeq
  <2> QED
    BY <1>1, <1>3, <2>1
<1>5. ASSUME rest # <<>>
      PROVE  n + 1 \in 1..Len(list) /\ Head(rest) = list[n + 1] /\ Left(Tail(rest), list, n + 1)
  <2>1. n + 1 \in 1..Len(list)
    BY <1>1, <1>3, <1>5, EmptySeq
  <2>2. Head(rest) = list[n + 1] /\ Len(rest) = Len(list) - n /\ rest[1] = list[n + 1]
    BY <1>1, <1>3, <1>5, <2>1, HeadTailProperties
  <2>3. /\ Tail(rest) \in Seq(S) /\ Len(Tail(rest)) = Len(list) - n - 1
        /\ \A i \in 1..Len(Tail(rest)) : Tail(rest)[i] = list[n + 1 + i]
    <3>1. /\ Tail(rest) \in Seq(S) /\ Len(Tail(rest)) = Len(rest) - 1
          /\ \A i \in 1..Len(Tail(rest)) : Tail(rest)[i] = rest[i + 1]
      BY <1>3, <1>5, HeadTailProperties
    <3> QED
      BY <1>1, <1>3, <2>1, <2>2, <3>1
  <2> DEFINE tail == SubSeq(list, (n + 1) + 1, Len(list))
  <2>4. /\ tail \in Seq(S) /\ Len(tail) = Len(list) - n - 1
        /\ \A i \in 1..Len(tail) : tail[i] = list[n + 1 + i]
    <3>1. \A i \in ((n + 1) + 1)..Len(list) : list[i] \in S
      BY <1>1, ElementOfSeq
    <3>2. /\ tail \in Seq(S)
          /\ Len(tail) = IF (n + 1) + 1 <= Len(list) THEN Len(list) - ((n + 1) + 1) + 1 ELSE 0
          /\ \A i \in 1..(Len(list) - ((n + 1) + 1) + 1) : tail[i] = list[((n + 1) + 1) + i - 1]
      BY <1>1, <3>1, SubSeqProperties
    <3> QED
      BY <1>1, <2>1, <3>2
  <2> HIDE DEF tail
  <2>5. Tail(rest) = tail
    BY <2>3, <2>4, SeqEqual
  <2> QED
    BY <1>1, <2>1, <2>2, <2>5 DEF Left, tail
<1> QED
  BY <1>1, <1>4, <1>5

\* The lists of the calls after the next AVP was taken.
LEMMA CallsAfter ==
  ASSUME IInv, NEW types, Encodes(types)
  PROVE  LET calls == [building EXCEPT ![Len(building)].rest = Tail(@)]
         IN  /\ Len(building) \in Nat /\ Len(building) >= 1 /\ Len(calls) = Len(building)
             /\ DOMAIN calls = 1..Len(building)
             /\ calls[Len(building)].rest = Tail(Call.rest)
             /\ calls[Len(building)].code = Call.code /\ calls[Len(building)].start = Call.start
             /\ \A i \in 1..(Len(building) - 1) : calls[i] = building[i]
<1> DEFINE n == Len(building)
           frame == [Call EXCEPT !.rest = Tail(@)]
           calls == [building EXCEPT ![n].rest = Tail(@)]
<1>1. building \in Seq(Frames) /\ n \in Nat /\ n >= 1 /\ DOMAIN building = 1..n
  BY EmptySeq, LenProperties DEF IInv, Ahead
<1>2. Call \in Frames /\ Call = building[n]
  BY NextToEncode DEF Call, Last
<1>3. frame \in Frames /\ frame.rest = Tail(Call.rest)
      /\ frame.code = Call.code /\ frame.start = Call.start
  BY <1>2, NextToEncode DEF Frames
<1>4. calls = [building EXCEPT ![n] = frame]
  BY <1>2
<1> HIDE DEF n, frame, calls
<1>5. calls \in Seq(Frames) /\ Len(calls) = n
  BY <1>1, <1>3, <1>4, ExceptSeq DEF n
<1>6. DOMAIN calls = 1..n /\ calls[n].rest = Tail(Call.rest)
      /\ calls[n].code = Call.code /\ calls[n].start = Call.start
      /\ \A i \in 1..(n - 1) : calls[i] = building[i]
  BY <1>1, <1>3, <1>4
<1> QED
  BY <1>1, <1>5, <1>6 DEF n, calls

\* The message of the state is one of the messages, and so are its lists.
LEMMA MessageTypes ==
  ASSUME IInv
  PROVE  /\ msg.avps \in Seq(Avps) /\ Len(msg.avps) \in Nat
         /\ DOMAIN msg.avps = 1..Len(msg.avps)
         /\ \A a \in Avps : IsGroup(a) => a.data \in Seq(Avps)
<1>1. msg \in Messages
  BY DEF IInv, TypeOK
<1>2. msg.cmd \in {m.cmd : m \in Messages} /\ msg.avps \in Seq(Avps)
  BY <1>1, CodecAssumption
<1>3. \A a \in Avps : IsGroup(a) => a.data \in Seq(Avps)
  BY <1>2, CodecAssumption DEF IsGroup, Info
<1> QED
  BY <1>2, <1>3, LenProperties

\* An AVP of the message or of a group in it is taken, and is not a group.
LEMMA RefusalAdvances ==
  ASSUME IInv, Refusal, NEW types, Encodes(types), NEW result, Returned(result),
         "grouped" \notin types,
         \/ types = {"unknown"} /\ result # "OK"
         \/ "unknown" \notin types /\ result = "OK"
  PROVE  Refusal'
<1> DEFINE n == Len(building)
           avp == Head(Call.rest)
<1>1. /\ n \in Nat /\ n >= 1 /\ Len(building') = n
      /\ building'[n].rest = Tail(building[n].rest)
      /\ \A i \in 1..(n - 1) : building'[i] = building[i]
  BY CallsAfter DEF Returned, Call, Last
<1>2. /\ stage = "encode" /\ stage' = "encode" /\ msg' = msg /\ status' = result
      /\ building[n].rest # <<>> /\ avp = Head(building[n].rest)
      /\ n = 1 => status = "OK"
  BY DEF Encodes, Returned, Call, Last
<1>3. ~IsGroup(avp) /\ (Unknown(avp) <=> result # "OK")
  BY DEF Encodes, IsGroup, Unknown
<1>4. \A a : (Unknown(a)' <=> Unknown(a)) /\ (IsGroup(a)' <=> IsGroup(a)) /\ (Cause(a)' <=> Cause(a))
  BY <1>2 DEF Unknown, IsGroup, Cause, Info
<1>5. PICK k \in Nat : InMessage(k)
  BY <1>2 DEF Refusal
<1>6. msg.avps \in Seq(Avps) /\ \A a \in Avps : IsGroup(a) => a.data \in Seq(Avps)
  BY MessageTypes
<1> HIDE DEF n, avp
<1>7. CASE n = 1
  <2>1. /\ k + 1 \in 1..Len(msg.avps) /\ avp = msg.avps[k + 1]
        /\ Left(building'[1].rest, msg.avps, k + 1)
    <3>1. Left(building[1].rest, msg.avps, k) /\ building[1].rest # <<>>
      BY <1>2, <1>5, <1>7 DEF InMessage
    <3>2. /\ k + 1 \in 1..Len(msg.avps) /\ Head(building[1].rest) = msg.avps[k + 1]
          /\ Left(Tail(building[1].rest), msg.avps, k + 1)
      BY <1>6, <3>1, LeftSteps
    <3> QED
      BY <1>1, <1>2, <1>7, <3>2
  <2>2. \A i \in 1..k : ~Unknown(msg.avps[i])
    BY <1>2, <1>5, <1>7 DEF InMessage
  <2>3. \A i \in 1..(k + 1) : Unknown(msg.avps[i]) => i = k + 1 /\ status' # "OK"
    BY <1>2, <1>3, <2>1, <2>2
  <2>4. status' # "OK" => Cause(msg.avps[k + 1])
    BY <1>2, <1>3, <2>1 DEF Cause
  <2>5. InMessage(k + 1)'
    BY <1>1, <1>2, <1>4, <1>7, <2>1, <2>3, <2>4 DEF InMessage
  <2> QED
    BY <1>2, <2>5 DEF Refusal
<1>8. CASE n > 1
  <2>1. /\ Left(building'[1].rest, msg.avps, k) /\ building'[1] = building[1]
        /\ k > 0 /\ IsGroup(msg.avps[k])
        /\ \A i \in 1..k : ~Unknown(msg.avps[i])
    BY <1>1, <1>5, <1>8 DEF InMessage, n
  <2> DEFINE group == msg.avps[k]
  <2>2. group.data \in Seq(Avps)
    BY <1>5, <1>6, <2>1, ElementOfSeq DEF InMessage, Left
  <2>3. PICK j \in Nat : InGroup(group, j)
    BY <1>5, <1>8 DEF InMessage, n
  <2> HIDE DEF group
  <2>4. CASE n = 2
    <3>1. /\ j + 1 \in 1..Len(group.data) /\ avp = group.data[j + 1]
          /\ Left(building'[2].rest, group.data, j + 1)
      <4>1. Left(building[2].rest, group.data, j) /\ building[2].rest # <<>>
        BY <1>2, <2>3, <2>4 DEF InGroup
      <4>2. /\ j + 1 \in 1..Len(group.data) /\ Head(building[2].rest) = group.data[j + 1]
            /\ Left(Tail(building[2].rest), group.data, j + 1)
        BY <2>2, <4>1, LeftSteps
      <4> QED
        BY <1>1, <1>2, <2>4, <4>2
    <3>2. InGroup(group, j + 1)'
      BY <1>1, <1>2, <1>3, <1>4, <2>4, <3>1 DEF InGroup, group
    <3> QED
      BY <1>1, <1>2, <1>4, <2>1, <2>4, <3>2 DEF Refusal, InMessage, group
  <2>5. CASE n > 2
    <3>1. building'[2] = building[2]
      BY <1>1, <2>5
    <3>2. InGroup(group, j)'
      BY <1>1, <1>2, <1>4, <2>3, <2>5, <3>1 DEF InGroup, group, n
    <3> QED
      BY <1>1, <1>2, <1>4, <2>1, <2>5, <3>2 DEF Refusal, InMessage, group
  <2> QED
    BY <1>1, <1>8, <2>4, <2>5
<1> QED
  BY <1>1, <1>7, <1>8

\* A group of the message or of a group in it is opened.
LEMMA RefusalOpens ==
  ASSUME IInv, Refusal, encodeGrouped
  PROVE  Refusal'
<1> DEFINE n == Len(building)
           avp == Head(Call.rest)
           calls == [building EXCEPT ![n].rest = Tail(@)]
           frame == [code |-> avp.code, start |-> pos, rest |-> avp.data]
<1>1. /\ Encodes({"grouped"}) /\ building' = Append(calls, frame)
      /\ stage' = "encode" /\ stage = "encode" /\ status' = "OK" /\ msg' = msg
  BY DEF encodeGrouped, Encodes
<1>2. /\ n \in Nat /\ n >= 1 /\ Len(calls) = n /\ calls[n].rest = Tail(building[n].rest)
      /\ \A i \in 1..(n - 1) : calls[i] = building[i]
  BY <1>1, CallsAfter DEF Call, Last
<1>3. calls \in Seq(Frames)
  BY <1>1, CallAdvances
<1>4. frame \in Frames /\ frame.rest = avp.data
  BY <1>1, NextToEncode, NextIsTyped DEF Frames, IInv, TypeOK
<1>5. /\ building[n].rest # <<>> /\ avp = Head(building[n].rest)
      /\ n = 1 => status = "OK"
  BY <1>1 DEF Encodes, Call, Last
<1>6. IsGroup(avp) /\ ~Unknown(avp)
  BY <1>1 DEF Encodes, IsGroup, Unknown
<1>7. avp.data \in Seq(Avps) /\ Left(avp.data, avp.data, 0)
  <2>1. avp.data \in Seq(Avps)
    BY <1>1, NextIsTyped
  <2> QED
    BY <2>1, LenProperties, SubSeqFull DEF Left
<1> HIDE DEF n, avp, calls, frame
<1>8. /\ Len(building') = n + 1 /\ building'[n].rest = Tail(building[n].rest)
      /\ building'[n + 1].rest = avp.data
      /\ \A i \in 1..(n - 1) : building'[i] = building[i]
  BY <1>1, <1>2, <1>3, <1>4, AppendProperties
<1>9. \A a : (Unknown(a)' <=> Unknown(a)) /\ (IsGroup(a)' <=> IsGroup(a)) /\ (Cause(a)' <=> Cause(a))
  BY <1>1 DEF Unknown, IsGroup, Cause, Info
<1>10. PICK k \in Nat : InMessage(k)
  BY <1>1 DEF Refusal
<1>11. msg.avps \in Seq(Avps) /\ \A a \in Avps : IsGroup(a) => a.data \in Seq(Avps)
  BY MessageTypes
<1>12. CASE n = 1
  <2>1. Left(building[1].rest, msg.avps, k) /\ building[1].rest # <<>>
    BY <1>5, <1>10, <1>12 DEF InMessage
  <2>2. /\ k + 1 \in 1..Len(msg.avps) /\ Head(building[1].rest) = msg.avps[k + 1]
        /\ Left(Tail(building[1].rest), msg.avps, k + 1)
    BY <1>11, <2>1, LeftSteps
  <2>3. avp = msg.avps[k + 1] /\ Left(building'[1].rest, msg.avps, k + 1)
    BY <1>5, <1>8, <1>12, <2>2
  <2>4. \A i \in 1..(k + 1) : ~Unknown(msg.avps[i])
    BY <1>5, <1>6, <1>10, <1>12, <2>3 DEF InMessage, n
  <2> DEFINE group == msg.avps[k + 1]
  <2>5. InGroup(group, 0)' /\ IsGroup(group)'
    <3>1. group' = group /\ group = avp /\ IsGroup(group)'
      BY <1>1, <1>6, <2>3 DEF IsGroup, Info
    <3> HIDE DEF group
    <3>2. Left(building'[2].rest, group.data, 0) /\ Len(building') = 2
      BY <1>7, <1>8, <1>12, <3>1
    <3> QED
      BY <1>1, <3>1, <3>2 DEF InGroup
  <2>6. InMessage(k + 1)'
    <3>1. \A i \in 1..(k + 1) : ~Unknown(msg.avps[i])'
      BY <1>1, <2>4 DEF Unknown, Info
    <3>2. Left(building'[1].rest, msg'.avps, k + 1) /\ Len(building') = 2
      BY <1>1, <1>8, <1>12, <2>3
    <3> HIDE DEF group
    <3> QED
      BY <2>5, <3>1, <3>2 DEF InMessage, group
  <2> QED
    BY <1>1, <2>6 DEF Refusal
<1>13. CASE n > 1
  <2>1. /\ Left(building'[1].rest, msg.avps, k) /\ building'[1] = building[1]
        /\ k > 0 /\ IsGroup(msg.avps[k])
        /\ \A i \in 1..k : ~Unknown(msg.avps[i])
    BY <1>8, <1>10, <1>13 DEF InMessage, n
  <2> DEFINE group == msg.avps[k]
  <2>2. group.data \in Seq(Avps)
    BY <1>10, <1>11, <2>1, ElementOfSeq DEF InMessage, Left
  <2>3. PICK j \in Nat : InGroup(group, j)
    BY <1>10, <1>13 DEF InMessage, n
  <2> HIDE DEF group
  <2>4. CASE n = 2
    <3>1. Left(building[2].rest, group.data, j) /\ building[2].rest # <<>>
      BY <1>5, <2>3, <2>4 DEF InGroup
    <3>2. /\ j + 1 \in 1..Len(group.data) /\ Head(building[2].rest) = group.data[j + 1]
          /\ Left(Tail(building[2].rest), group.data, j + 1)
      BY <2>2, <3>1, LeftSteps
    <3>3. InGroup(group, j + 1)'
      BY <1>1, <1>5, <1>6, <1>8, <1>9, <2>4, <3>2 DEF InGroup, group
    <3> QED
      BY <1>1, <1>8, <1>9, <2>1, <2>4, <3>3 DEF Refusal, InMessage, group
  <2>5. CASE n > 2
    <3>1. building'[2] = building[2]
      BY <1>2, <1>8, <2>5
    <3>2. InGroup(group, j)'
      BY <1>1, <1>8, <1>9, <2>3, <2>5, <3>1 DEF InGroup, group, n
    <3> QED
      BY <1>1, <1>8, <1>9, <2>1, <2>5, <3>2 DEF Refusal, InMessage, group
  <2> QED
    BY <1>2, <1>13, <2>4, <2>5
<1> QED
  BY <1>2, <1>12, <1>13

\* A group is closed: what its last member returned is the status of the group.
LEMMA RefusalCloses ==
  ASSUME IInv, Refusal, encodeGroupedEnd
  PROVE  Refusal'
<1> DEFINE n == Len(building)
<1>1. /\ stage = "encode" /\ stage' = "encode" /\ n > 1 /\ building[n].rest = <<>>
      /\ building' = Front(building) /\ UNCHANGED <<msg, status>>
  BY DEF encodeGroupedEnd, Call, Last
<1>2. /\ n \in Nat /\ Len(building') = n - 1 /\ \A i \in 1..(n - 1) : building'[i] = building[i]
  <2>1. building \in Seq(Frames) /\ n \in Nat
    BY LenProperties DEF IInv, Ahead
  <2>2. \A i \in 1..(n - 1) : building[i] \in Frames
    BY <2>1, ElementOfSeq
  <2> QED
    BY <1>1, <2>1, <2>2, SubSeqProperties DEF Front
<1>3. \A a : (Unknown(a)' <=> Unknown(a)) /\ (IsGroup(a)' <=> IsGroup(a)) /\ (Cause(a)' <=> Cause(a))
  BY <1>1 DEF Unknown, IsGroup, Cause, Info
<1>4. PICK k \in Nat : InMessage(k)
  BY <1>1 DEF Refusal
<1>5. /\ Left(building'[1].rest, msg.avps, k) /\ building'[1] = building[1]
      /\ k > 0 /\ IsGroup(msg.avps[k])
      /\ \A i \in 1..k : ~Unknown(msg.avps[i])
  BY <1>1, <1>2, <1>4 DEF InMessage
<1> DEFINE group == msg.avps[k]
<1>6. group.data \in Seq(Avps)
  BY <1>4, <1>5, MessageTypes, ElementOfSeq DEF InMessage, Left
<1>7. PICK j \in Nat : InGroup(group, j)
  BY <1>1, <1>4 DEF InMessage
<1> HIDE DEF group
<1>8. CASE n = 2
  <2>1. j = Len(group.data)
    BY <1>1, <1>6, <1>7, <1>8, LeftSteps, ZenonT(60) DEF InGroup
  <2>2. ASSUME status # "OK" PROVE Cause(group)
    <3>1. j > 0 /\ (Unknown(group.data[j]) \/ IsGroup(group.data[j]))
      BY <1>7, <1>8, <2>2 DEF InGroup
    <3>2. group.data # <<>> /\ Last(group.data) = group.data[j]
      BY <1>6, <2>1, <3>1, EmptySeq DEF Last
    <3> QED
      BY <1>5, <3>1, <3>2 DEF Cause, group
  <2>3. InMessage(k)'
    BY <1>1, <1>2, <1>3, <1>5, <1>8, <2>2 DEF InMessage, group
  <2> QED
    BY <1>1, <2>3 DEF Refusal
<1>9. CASE n > 2
  <2>1. building'[2] = building[2]
    BY <1>2, <1>9
  <2>2. InGroup(group, j)'
    BY <1>1, <1>2, <1>3, <1>7, <1>9, <2>1 DEF InGroup, group
  <2>3. InMessage(k)'
    BY <1>1, <1>2, <1>3, <1>5, <1>9, <2>2 DEF InMessage, group
  <2> QED
    BY <1>1, <2>3 DEF Refusal
<1> QED
  BY <1>1, <1>2, <1>8, <1>9

LEMMA RefusalInit == Init => Refusal
<1> SUFFICES ASSUME Init PROVE Refusal
  OBVIOUS
<1>1. msg.avps \in Seq(Avps) /\ Len(building) = 1 /\ building[1].rest = msg.avps
      /\ stage = "encode" /\ status = "OK"
  BY CodecAssumption DEF Init
<1>2. Left(building[1].rest, msg.avps, 0)
  BY <1>1, LenProperties, SubSeqFull DEF Left
<1>3. InMessage(0)
  BY <1>1, <1>2 DEF InMessage
<1> QED
  BY <1>1, <1>3 DEF Refusal

LEMMA RefusalStep == IInv /\ Refusal /\ [Next]_codecVars => Refusal'
<1> SUFFICES ASSUME IInv, Refusal, [Next]_codecVars PROVE Refusal'
  OBVIOUS
<1>1. CASE encodeStr \/ encodeInt32 \/ encodeInt64
  BY <1>1, RefusalAdvances DEF encodeStr, encodeInt32, encodeInt64
<1>2. CASE encodeUnknown
  BY <1>2, RefusalAdvances DEF encodeUnknown
<1>3. CASE encodeGrouped
  BY <1>3, RefusalOpens
<1>4. CASE encodeGroupedEnd
  BY <1>4, RefusalCloses
<1>5. CASE encodeFails \/ encodeHdr
  <2>1. /\ stage = "encode" /\ Len(building) = 1 /\ msg' = msg
        /\ \/ stage' = "refused" /\ status # "OK"
           \/ stage' = "sent" /\ status = "OK" /\ building[1].rest = <<>>
    BY <1>5 DEF encodeFails, encodeHdr, Call, Last
  <2>2. PICK k \in Nat : InMessage(k)
    BY <2>1 DEF Refusal
  <2>3. /\ Left(building[1].rest, msg.avps, k)
        /\ \A i \in 1..k : Unknown(msg.avps[i]) => status # "OK"
        /\ status # "OK" => k > 0 /\ Cause(msg.avps[k])
    BY <2>1, <2>2 DEF InMessage
  <2>4. k <= Len(msg.avps) /\ (building[1].rest = <<>> => k = Len(msg.avps))
        /\ DOMAIN msg.avps = 1..Len(msg.avps) /\ Len(msg.avps) \in Nat
    <3>1. msg.avps \in Seq(Avps) /\ DOMAIN msg.avps = 1..Len(msg.avps) /\ Len(msg.avps) \in Nat
      BY MessageTypes
    <3> QED
      BY <2>3, <3>1, LeftSteps
  <2>5. \A a : (Unknown(a)' <=> Unknown(a)) /\ (Cause(a)' <=> Cause(a))
    BY <2>1 DEF Unknown, IsGroup, Cause, Info
  <2>6. CASE stage' = "refused" /\ status # "OK"
    <3>1. k \in DOMAIN msg.avps /\ Cause(msg.avps[k])'
      BY <2>1, <2>3, <2>4, <2>6 DEF Cause, IsGroup, Unknown, Info
    <3> QED
      BY <2>1, <2>6, <3>1 DEF Refusal
  <2>7. CASE stage' = "sent" /\ status = "OK" /\ building[1].rest = <<>>
    BY <2>1, <2>3, <2>4, <2>5, <2>7 DEF Refusal
  <2> QED
    BY <2>1, <2>6, <2>7
<1>6. CASE Decode
  <2>1. stage \in {"sent", "decode"} /\ stage' \in {"sent", "decode", "done"} /\ msg' = msg
    BY <1>6 DEF Decode, decodeHdr, decodeAvp, decodeGrouped, decodeGroupEnd, decodeEnd,
                IInv, WordAligned
  <2>2. \A a : Unknown(a)' <=> Unknown(a)
    BY <2>1 DEF Unknown, Info
  <2> QED
    BY <2>1, <2>2 DEF Refusal
<1>7. CASE UNCHANGED codecVars
  <2>1. UNCHANGED <<msg, stage, building, status>>
    BY <1>7 DEF codecVars
  <2>2. \A a : (Unknown(a)' <=> Unknown(a)) /\ (IsGroup(a)' <=> IsGroup(a)) /\ (Cause(a)' <=> Cause(a))
    BY <2>1 DEF Unknown, IsGroup, Cause, Info
  <2>3. \A g, j : InGroup(g, j)' <=> InGroup(g, j)
    BY <2>1, <2>2 DEF InGroup
  <2>4. \A k : InMessage(k)' <=> InMessage(k)
    BY <2>1, <2>2, <2>3 DEF InMessage
  <2> QED
    BY <2>1, <2>2, <2>4 DEF Refusal
<1> QED
  BY <1>1, <1>2, <1>3, <1>4, <1>5, <1>6, <1>7 DEF Next, Encode

(***************************************************************************)
(* The theorems                                                            *)
(***************************************************************************)
LEMMA InitIInv == Init => IInv
<1> SUFFICES ASSUME Init PROVE IInv
  OBVIOUS
<1> DEFINE frame == [code |-> 0, start |-> 0, rest |-> msg.avps]
<1>1. frame \in Frames /\ frame.start = 0 /\ frame.code = 0
  BY CodecAssumption DEF Init, Frames
<1>2. building = <<frame>> /\ pos = 20
  BY DEF Init, HdrLen
<1> HIDE DEF frame
<1>3. building \in Seq(Frames) /\ building # <<>>
      /\ \A i \in DOMAIN building : building[i] = frame
  BY <1>1, <1>2
<1>4. TypeOK
  BY <1>1, <1>2, <1>3, EmptySeq DEF Init, TypeOK
<1>5. Ahead
  BY <1>1, <1>2, <1>3 DEF Ahead
<1>6. ReturnsAligned /\ WordAligned
  BY <1>2 DEF Init, ReturnsAligned, WordAligned
<1> QED
  BY <1>4, <1>5, <1>6 DEF IInv

LEMMA StepIInv == IInv /\ [Next]_codecVars => IInv'
<1> SUFFICES ASSUME IInv, [Next]_codecVars PROVE IInv'
  OBVIOUS
<1>1. CASE Encode
  BY <1>1, StrKeeps, IntsKeep, UnknownKeeps, GroupedKeeps, GroupedEndKeeps, EncodeEndKeeps
     DEF Encode
<1>2. CASE Decode
  BY <1>2, DecodeKeeps DEF Decode
<1>3. CASE UNCHANGED codecVars
  BY <1>3 DEF codecVars, IInv, TypeOK, Ahead, ReturnsAligned, WordAligned
<1> QED
  BY <1>1, <1>2, <1>3 DEF Next

\* Every reachable state satisfies the inductive invariant.
THEOREM Invariance == Spec => []IInv
BY InitIInv, StepIInv, PTL DEF Spec

\* The stacks of calls, the buffer and the position keep their types, whatever the
\* messages of the users are.
THEOREM TypeCorrect == Spec => []TypeOK
<1>1. IInv => TypeOK
  BY DEF IInv
<1> QED
  BY <1>1, Invariance, PTL

\* Encoder and decoder only ever stand on a 4-byte boundary (diaAvp.c), so that the
\* decoder's one error, of a position off the boundary, is never met.
THEOREM AlwaysAligned == Spec => []WordAligned
<1>1. IInv => WordAligned
  BY DEF IInv
<1> QED
  BY <1>1, Invariance, PTL

\* A message is refused only for an AVP of its own that is in no dictionary, or for a
\* group whose last member is unknown or a group itself, and a message with an unknown
\* AVP of its own is never sent (diaMsg_encode, diaAvp_encode, diaAvp_encodeGrouped).
THEOREM RefusedRightly == Spec => []RefusedForCause
<1>1. IInv /\ Refusal => RefusedForCause
  BY DEF IInv, TypeOK, Refusal, RefusedForCause, Cause, IsGroup
<1>2. Spec => []Refusal
  <2>1. IInv /\ [Next]_codecVars /\ Refusal => Refusal'
    BY RefusalStep
  <2> QED
    BY <2>1, RefusalInit, Invariance, PTL DEF Spec
<1> QED
  BY <1>1, <1>2, Invariance, PTL
=============================================================================
