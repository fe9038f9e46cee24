-------------------------- MODULE DiaMessageProofs --------------------------
(***************************************************************************)
(* Theorems about DiaCapEx and DiaCx: what the messages hold that their    *)
(* builders lay out, for every configuration, every request and every list *)
(* of AVPs of the application, and with DiaWireProofs what the peer learns *)
(* of it.                                                                  *)
(***************************************************************************)
EXTENDS DiaCx, DiaWireProofs

(***************************************************************************)
(* Lists of AVPs                                                           *)
(***************************************************************************)
IsSeq(s) == \E S : s \in Seq(S)
Count(list, code) == Len(Having(list, code))

LEMMA SeqOfMore ==
  ASSUME NEW S, NEW T, S \subseteq T, NEW s \in Seq(S)
  PROVE  s \in Seq(T)
<1>1. Len(s) \in Nat /\ s \in [1..Len(s) -> S]
  BY LenProperties
<1>2. s \in [1..Len(s) -> T]
  BY <1>1
<1>3. Seq(T) = UNION {[1..n -> T] : n \in Nat}
  BY SeqDef
<1> QED
  BY <1>1, <1>2, <1>3

\* Two lists are lists of the same.
LEMMA SeqPair ==
  ASSUME NEW s, NEW t, IsSeq(s), IsSeq(t)
  PROVE  \E S : s \in Seq(S) /\ t \in Seq(S)
<1>1. PICK S, T : s \in Seq(S) /\ t \in Seq(T)
  BY DEF IsSeq
<1>2. s \in Seq(S \cup T) /\ t \in Seq(S \cup T)
  <2>1. S \subseteq S \cup T /\ T \subseteq S \cup T
    OBVIOUS
  <2> QED
    BY <1>1, <2>1, SeqOfMore
<1> QED
  BY <1>2

LEMMA IsSeqLen ==
  ASSUME NEW s, IsSeq(s)
  PROVE  Len(s) \in Nat /\ DOMAIN s = 1..Len(s) /\ (Len(s) = 0 => s = <<>>)
<1>1. PICK S : s \in Seq(S)
  BY DEF IsSeq
<1> QED
  BY <1>1, LenProperties, EmptySeq

\* One more element of the list is taken or not, and the rest as before.
LEMMA ThoseGrow ==
  ASSUME NEW S, NEW s \in Seq(S), NEW x \in S, NEW at, NEW there,
         \A i \in 1..Len(s) : i \in at <=> i \in there
  PROVE  Those(Append(s, x), at) = IF Len(s) + 1 \in at THEN Append(Those(s, there), x)
                                   ELSE Those(s, there)
<1>1. Those(s, at) = Those(s, there)
  BY ThoseSame
<1> QED
  BY <1>1, ThoseAppend

LEMMA HavingAppend ==
  ASSUME NEW S, NEW s \in Seq(S), NEW x \in S, NEW code
  PROVE  Having(Append(s, x), code) = IF x.code = code THEN Append(Having(s, code), x)
                                      ELSE Having(s, code)
<1> DEFINE t == Append(s, x)
           at == {i \in DOMAIN t : t[i].code = code}
           there == {i \in DOMAIN s : s[i].code = code}
<1>1. /\ Len(s) \in Nat /\ DOMAIN s = 1..Len(s) /\ DOMAIN t = 1..(Len(s) + 1)
      /\ t[Len(s) + 1] = x /\ \A i \in 1..Len(s) : t[i] = s[i]
  BY AppendProperties, LenProperties
<1>2. \A i \in 1..Len(s) : i \in at <=> i \in there
  BY <1>1
<1>3. Len(s) + 1 \in at <=> x.code = code
  BY <1>1
<1>4. Those(t, at) = IF Len(s) + 1 \in at THEN Append(Those(s, there), x)
                     ELSE Those(s, there)
  BY <1>2, ThoseGrow
<1> QED
  BY <1>3, <1>4 DEF Having

LEMMA HavingNothing == ASSUME NEW code PROVE Having(<<>>, code) = <<>>
BY ThoseEmpty DEF Having

LEMMA HavingType ==
  ASSUME NEW S, NEW s \in Seq(S), NEW code
  PROVE  Having(s, code) \in Seq(S) /\ Count(s, code) \in Nat
<1>1. Having(s, code) \in Seq(S)
  BY ThoseType DEF Having
<1> QED
  BY <1>1, LenProperties DEF Count

\* Nothing is found if and only if no element has the code.
LEMMA HavingNone ==
  ASSUME NEW S, NEW s \in Seq(S), NEW code
  PROVE  Having(s, code) = <<>> <=> \A i \in 1..Len(s) : s[i].code # code
<1> DEFINE T == {r \in Seq(S) : Having(r, code) = <<>> => \A i \in 1..Len(r) : r[i].code # code}
<1>1. <<>> \in T
  BY EmptySeq
<1>2. ASSUME NEW r \in Seq(S), NEW x \in S, r \in T PROVE Append(r, x) \in T
  <2>1. /\ Append(r, x) \in Seq(S) /\ Len(Append(r, x)) = Len(r) + 1 /\ Len(r) \in Nat
        /\ Append(r, x)[Len(r) + 1] = x /\ \A i \in 1..Len(r) : Append(r, x)[i] = r[i]
    BY AppendProperties, LenProperties
  <2>2. Append(Having(r, code), x) # <<>>
    <3>1. Having(r, code) \in Seq(S)
      BY HavingType
    <3> QED
      BY <3>1, AppendProperties, EmptySeq, LenProperties
  <2> DEFINE t == Append(r, x)
  <2>3. ASSUME Having(t, code) = <<>>, NEW i \in 1..Len(t) PROVE t[i].code # code
    <3>1. x.code # code /\ Having(r, code) = <<>>
      BY <2>2, <2>3, HavingAppend
    <3>2. i \in 1..Len(r) \/ i = Len(r) + 1
      BY <2>1
    <3>3. \A j \in 1..Len(r) : r[j].code # code
      BY <1>2, <3>1
    <3> QED
      BY <2>1, <3>1, <3>2, <3>3
  <2> QED
    BY <2>1, <2>3
<1> HIDE DEF T
<1>3. Seq(S) \subseteq T
  BY <1>1, <1>2, SeqInduction
<1>4. ASSUME \A i \in 1..Len(s) : s[i].code # code PROVE Having(s, code) = <<>>
  BY <1>4, LenProperties, ThoseNone DEF Having
<1> QED
  BY <1>3, <1>4 DEF T

LEMMA HavingConcat ==
  ASSUME NEW S, NEW s \in Seq(S), NEW t \in Seq(S), NEW code
  PROVE  Having(s \o t, code) = Having(s, code) \o Having(t, code)
<1> DEFINE at == {i \in DOMAIN (s \o t) : (s \o t)[i].code = code}
           front == {i \in DOMAIN s : s[i].code = code}
           behind == {i \in DOMAIN t : t[i].code = code}
<1>1. /\ Len(s) \in Nat /\ Len(t) \in Nat /\ DOMAIN s = 1..Len(s) /\ DOMAIN t = 1..Len(t)
      /\ DOMAIN (s \o t) = 1..(Len(s) + Len(t))
      /\ \A i \in 1..(Len(s) + Len(t)) : (s \o t)[i] = IF i <= Len(s) THEN s[i] ELSE t[i - Len(s)]
  BY ConcatProperties, LenProperties
<1>2. \A i \in 1..Len(t) : Len(s) + i \in 1..(Len(s) + Len(t)) /\ (s \o t)[Len(s) + i] = t[i]
  BY <1>1
<1>3. \A i \in 1..Len(t) : i \in behind <=> Len(s) + i \in at
  BY <1>1, <1>2
<1>4. \A i \in 1..Len(s) : i \in at <=> i \in front
  BY <1>1
<1>5. Those(s, at) = Those(s, front)
  BY <1>4, ThoseSame
<1> HIDE DEF at, front, behind
<1>6. Those(s \o t, at) = Those(s, at) \o Those(t, behind)
  BY <1>3, ThoseConcat
<1> QED
  BY <1>5, <1>6 DEF Having, at, front, behind

\* Elements that all have one code.
LEMMA HavingOnly ==
  ASSUME NEW S, NEW s \in Seq(S), NEW code, \A i \in 1..Len(s) : s[i].code = code, NEW other
  PROVE  Having(s, other) = IF code = other THEN s ELSE <<>>
<1>1. DOMAIN s = 1..Len(s)
  BY LenProperties
<1>2. CASE code = other
  <2>1. \A i \in 1..Len(s) : i \in {j \in DOMAIN s : s[j].code = other}
    BY <1>1, <1>2
  <2> QED
    BY <1>2, <2>1, ThoseAll DEF Having
<1>3. CASE code # other
  BY <1>3, HavingNone
<1> QED
  BY <1>2, <1>3

\* What is found has the code that was looked for.
LEMMA HavingCodes ==
  ASSUME NEW S, NEW s \in Seq(S), NEW code
  PROVE  Having(s, code) \in Seq({x \in S : x.code = code})
<1> DEFINE U == {x \in S : x.code = code}
           T == {r \in Seq(S) : Having(r, code) \in Seq(U)}
<1>1. <<>> \in T
  BY HavingNothing, EmptySeq
<1>2. ASSUME NEW r \in Seq(S), NEW x \in S, r \in T PROVE Append(r, x) \in T
  <2>1. Having(Append(r, x), code) = IF x.code = code THEN Append(Having(r, code), x)
                                     ELSE Having(r, code)
    BY HavingAppend
  <2>2. Having(r, code) \in Seq(U) /\ Append(r, x) \in Seq(S)
    BY <1>2, AppendProperties
  <2>3. x.code = code => Append(Having(r, code), x) \in Seq(U)
    BY <2>2, AppendProperties
  <2> QED
    BY <2>1, <2>2, <2>3
<1> HIDE DEF T
<1>3. Seq(S) \subseteq T
  BY <1>1, <1>2, SeqInduction
<1> QED
  BY <1>3 DEF T

LEMMA HavingTwice ==
  ASSUME NEW S, NEW s \in Seq(S), NEW code, NEW other
  PROVE  Having(Having(s, code), other) = IF code = other THEN Having(s, code) ELSE <<>>
<1> DEFINE t == Having(s, code)
           U == {x \in S : x.code = code}
<1>1. t \in Seq(U)
  BY HavingCodes
<1> HIDE DEF t
<1>2. \A i \in 1..Len(t) : t[i] \in U
  BY <1>1, ElementOfSeq
<1>3. \A i \in 1..Len(t) : t[i].code = code
  BY <1>2
<1>4. Having(t, other) = IF code = other THEN t ELSE <<>>
  BY <1>1, <1>3, HavingOnly
<1> QED
  BY <1>4 DEF t

LEMMA HavingSingle ==
  ASSUME NEW a, NEW code
  PROVE  IsSeq(<<a>>) /\ Having(<<a>>, code) = IF a.code = code THEN <<a>> ELSE <<>>
<1>1. <<a>> \in Seq({a}) /\ Len(<<a>>) = 1 /\ <<a>>[1] = a
  OBVIOUS
<1>2. \A i \in 1..Len(<<a>>) : <<a>>[i].code = a.code
  BY <1>1
<1> QED
  BY <1>1, <1>2, HavingOnly DEF IsSeq

LEMMA HavingListed ==
  ASSUME NEW list, IsSeq(list), NEW own, NEW code
  PROVE  /\ IsSeq(AvpsOf(own, list)) /\ Len(AvpsOf(own, list)) = Len(list)
         /\ Having(AvpsOf(own, list), code) = IF own = code THEN AvpsOf(own, list) ELSE <<>>
<1> DEFINE s == AvpsOf(own, list)
           S == {Avp(own, list[i]) : i \in 1..Len(list)}
<1>1. Len(list) \in Nat /\ DOMAIN list = 1..Len(list)
  BY IsSeqLen
<1>2. s = [i \in 1..Len(list) |-> Avp(own, list[i])]
  BY <1>1 DEF AvpsOf
<1>3. s \in [1..Len(list) -> S]
  BY <1>2
<1>4. s \in Seq(S) /\ Len(s) = Len(list)
  BY <1>1, <1>3
<1>5. \A i \in 1..Len(s) : s[i].code = own
  BY <1>2, <1>4 DEF Avp
<1> HIDE DEF s, S
<1>6. Having(s, code) = IF own = code THEN s ELSE <<>>
  BY <1>4, <1>5, HavingOnly
<1> QED
  BY <1>4, <1>6 DEF IsSeq, s

(***************************************************************************)
(* The first AVP of a code, and what is left of a list                     *)
(***************************************************************************)
LEMMA FirstAppend ==
  ASSUME NEW S, NEW s \in Seq(S), NEW x \in S, NEW code
  PROVE  /\ \A i \in 1..Len(s) : i \in FirstOf(Append(s, x), code) <=> i \in FirstOf(s, code)
         /\ Len(s) + 1 \in FirstOf(Append(s, x), code)
              <=> x.code = code /\ Having(s, code) = <<>>
<1> DEFINE t == Append(s, x)
<1>1. /\ Len(s) \in Nat /\ DOMAIN s = 1..Len(s) /\ DOMAIN t = 1..(Len(s) + 1)
      /\ t[Len(s) + 1] = x /\ \A i \in 1..Len(s) : t[i] = s[i]
  BY AppendProperties, LenProperties
<1>2. Having(s, code) = <<>> <=> \A i \in 1..Len(s) : s[i].code # code
  BY HavingNone
<1> HIDE DEF t
<1>3. ASSUME NEW i \in 1..Len(s) PROVE i \in FirstOf(t, code) <=> i \in FirstOf(s, code)
  <2>1. i \in DOMAIN s /\ i \in DOMAIN t /\ t[i] = s[i]
        /\ \A j \in 1..(i - 1) : j \in 1..Len(s) /\ t[j] = s[j]
    BY <1>1
  <2> QED
    BY <2>1 DEF FirstOf
<1>4. Len(s) + 1 \in FirstOf(t, code) <=> x.code = code /\ Having(s, code) = <<>>
  <2>1. (Len(s) + 1) - 1 = Len(s) /\ Len(s) + 1 \in DOMAIN t
    BY <1>1
  <2>2. Len(s) + 1 \in FirstOf(t, code)
          <=> x.code = code /\ \A j \in 1..Len(s) : t[j].code # code
    BY <1>1, <2>1 DEF FirstOf
  <2>3. (\A j \in 1..Len(s) : t[j].code # code) <=> \A j \in 1..Len(s) : s[j].code # code
    BY <1>1
  <2> QED
    BY <1>2, <2>2, <2>3
<1> QED
  BY <1>3, <1>4 DEF t

LEMMA FindFirstAppend ==
  ASSUME NEW S, NEW s \in Seq(S), NEW x \in S, NEW code
  PROVE  FindFirst(Append(s, x), code)
           = IF x.code = code /\ Having(s, code) = <<>> THEN Append(FindFirst(s, code), x)
             ELSE FindFirst(s, code)
<1> DEFINE at == FirstOf(Append(s, x), code)
           there == FirstOf(s, code)
<1>1. /\ \A i \in 1..Len(s) : i \in at <=> i \in there
      /\ Len(s) + 1 \in at <=> x.code = code /\ Having(s, code) = <<>>
  BY FirstAppend
<1>2. FindFirst(Append(s, x), code) = Those(Append(s, x), at)
      /\ FindFirst(s, code) = Those(s, there)
  BY DEF FindFirst
<1> HIDE DEF at, there
<1>3. Those(Append(s, x), at) = IF Len(s) + 1 \in at THEN Append(Those(s, there), x)
                                ELSE Those(s, there)
  BY <1>1, ThoseGrow
<1> QED
  BY <1>1, <1>2, <1>3

\* The first of those that have the code.
LEMMA FindFirstIs ==
  ASSUME NEW S, NEW s \in Seq(S), NEW code
  PROVE  FindFirst(s, code) = IF Having(s, code) = <<>> THEN <<>> ELSE <<Having(s, code)[1]>>
<1> DEFINE Is(r) == FindFirst(r, code) = IF Having(r, code) = <<>> THEN <<>>
                                         ELSE <<Having(r, code)[1]>>
           T == {r \in Seq(S) : Is(r)}
<1>1. <<>> \in T
  <2>1. FindFirst(<<>>, code) = <<>> /\ Having(<<>>, code) = <<>> /\ <<>> \in Seq(S)
    BY ThoseEmpty, HavingNothing, EmptySeq DEF FindFirst
  <2> QED
    BY <2>1
<1>2. ASSUME NEW r \in Seq(S), NEW x \in S, r \in T PROVE Append(r, x) \in T
  <2> DEFINE h == Having(r, code)
             t == Append(r, x)
  <2>1. h \in Seq(S) /\ Having(t, code) = IF x.code = code THEN Append(h, x) ELSE h
    BY HavingAppend, HavingType
  <2>2. FindFirst(t, code) = IF x.code = code /\ h = <<>> THEN Append(FindFirst(r, code), x)
                             ELSE FindFirst(r, code)
    BY FindFirstAppend
  <2>3. FindFirst(r, code) = IF h = <<>> THEN <<>> ELSE <<h[1]>>
    BY <1>2
  <2>4. t \in Seq(S)
    BY AppendProperties
  <2> HIDE DEF h, t
  <2>5. Append(h, x) # <<>> /\ (h # <<>> => Append(h, x)[1] = h[1])
    <3>1. Len(Append(h, x)) = Len(h) + 1 /\ Len(h) \in Nat /\ Len(<<>>) = 0
      BY <2>1, AppendProperties, LenProperties, EmptySeq
    <3>2. h # <<>> => 1 \in 1..Len(h)
      BY <2>1, <3>1, EmptySeq
    <3> QED
      BY <2>1, <3>1, <3>2, AppendProperties
  <2>6. h = <<>> => Append(h, x) = <<x>> /\ <<x>>[1] = x /\ <<x>> # <<>>
    OBVIOUS
  <2>7. Is(t)
    <3>1. CASE x.code = code /\ h = <<>>
      BY <2>1, <2>2, <2>3, <2>6, <3>1
    <3>2. CASE x.code = code /\ h # <<>>
      BY <2>1, <2>2, <2>3, <2>5, <3>2
    <3>3. CASE x.code # code
      BY <2>1, <2>2, <2>3, <3>3
    <3> QED
      BY <3>1, <3>2, <3>3
  <2> HIDE DEF Is
  <2> QED
    BY <2>4, <2>7 DEF t
<1> HIDE DEF T
<1>3. Seq(S) \subseteq T
  BY <1>1, <1>2, SeqInduction
<1> QED
  BY <1>3 DEF T

LEMMA DropAppend ==
  ASSUME NEW S, NEW s \in Seq(S), NEW x \in S, NEW codes
  PROVE  Drop(Append(s, x), codes)
           = IF x.code \in codes /\ Having(s, x.code) = <<>> THEN Drop(s, codes)
             ELSE Append(Drop(s, codes), x)
<1> DEFINE t == Append(s, x)
           at == {i \in DOMAIN t : \A code \in codes : i \notin FirstOf(t, code)}
           there == {i \in DOMAIN s : \A code \in codes : i \notin FirstOf(s, code)}
<1>1. /\ Len(s) \in Nat /\ DOMAIN s = 1..Len(s) /\ DOMAIN t = 1..(Len(s) + 1)
  BY AppendProperties, LenProperties
<1>2. ASSUME NEW code
      PROVE  /\ \A i \in 1..Len(s) : i \in FirstOf(t, code) <=> i \in FirstOf(s, code)
             /\ Len(s) + 1 \in FirstOf(t, code) <=> x.code = code /\ Having(s, code) = <<>>
  BY FirstAppend
<1>3. Drop(t, codes) = Those(t, at) /\ Drop(s, codes) = Those(s, there)
  BY DEF Drop
<1>4. \A i \in 1..Len(s) : i \in at <=> i \in there
  BY <1>1, <1>2
<1>5. Len(s) + 1 \in at <=> ~ (x.code \in codes /\ Having(s, x.code) = <<>>)
  BY <1>1, <1>2
<1>6. Those(t, at) = IF Len(s) + 1 \in at THEN Append(Those(s, there), x) ELSE Those(s, there)
  <2> HIDE DEF at, there
  <2> QED
    BY <1>4, ThoseGrow
<1> HIDE DEF at, there, t
<1> QED
  BY <1>3, <1>5, <1>6 DEF t

(***************************************************************************)
(* How often a code is in a list                                           *)
(***************************************************************************)
LEMMA CountAppend ==
  ASSUME NEW S, NEW s \in Seq(S), NEW x \in S, NEW code
  PROVE  Count(Append(s, x), code) = IF x.code = code THEN Count(s, code) + 1 ELSE Count(s, code)
<1>1. Having(Append(s, x), code) = IF x.code = code THEN Append(Having(s, code), x)
                                   ELSE Having(s, code)
  BY HavingAppend
<1>2. Len(Append(Having(s, code), x)) = Len(Having(s, code)) + 1
  BY HavingType, AppendProperties
<1> QED
  BY <1>1, <1>2 DEF Count

LEMMA CountNothing == ASSUME NEW code PROVE IsSeq(<<>>) /\ Count(<<>>, code) = 0
<1>1. <<>> \in Seq({}) /\ Len(<<>>) = 0
  BY EmptySeq
<1> QED
  BY <1>1, HavingNothing DEF IsSeq, Count

LEMMA CountType ==
  ASSUME NEW s, IsSeq(s), NEW code
  PROVE  /\ Count(s, code) \in Nat
         /\ Count(s, code) = 0 <=> Having(s, code) = <<>>
         /\ Count(s, code) = 0 <=> \A i \in 1..Len(s) : s[i].code # code
<1>1. PICK S : s \in Seq(S)
  BY DEF IsSeq
<1>2. Having(s, code) \in Seq(S)
  BY <1>1, HavingType
<1>3. Len(Having(s, code)) \in Nat /\ (Len(Having(s, code)) = 0 <=> Having(s, code) = <<>>)
  BY <1>2, LenProperties, EmptySeq
<1> QED
  BY <1>1, <1>3, HavingNone DEF Count

LEMMA CountConcat ==
  ASSUME NEW s, NEW t, IsSeq(s), IsSeq(t), NEW code
  PROVE  IsSeq(s \o t) /\ Count(s \o t, code) = Count(s, code) + Count(t, code)
<1>1. PICK S : s \in Seq(S) /\ t \in Seq(S)
  BY SeqPair
<1>2. s \o t \in Seq(S) /\ Having(s \o t, code) = Having(s, code) \o Having(t, code)
  BY <1>1, HavingConcat, ConcatProperties
<1>3. Having(s, code) \in Seq(S) /\ Having(t, code) \in Seq(S)
  BY <1>1, HavingType
<1>4. Len(Having(s, code) \o Having(t, code)) = Len(Having(s, code)) + Len(Having(t, code))
  BY <1>3, ConcatProperties
<1> QED
  BY <1>2, <1>4 DEF IsSeq, Count

LEMMA CountSingle ==
  ASSUME NEW a, NEW code
  PROVE  IsSeq(<<a>>) /\ Count(<<a>>, code) = IF a.code = code THEN 1 ELSE 0
<1>1. Len(<<a>>) = 1 /\ Len(<<>>) = 0
  BY EmptySeq
<1> QED
  BY <1>1, HavingSingle DEF Count

LEMMA CountListed ==
  ASSUME NEW list, IsSeq(list), NEW own, NEW code
  PROVE  /\ IsSeq(AvpsOf(own, list))
         /\ Count(AvpsOf(own, list), code) = IF own = code THEN Len(list) ELSE 0
<1>1. Len(<<>>) = 0
  BY EmptySeq
<1> QED
  BY <1>1, HavingListed DEF Count

LEMMA FindFirstFound ==
  ASSUME NEW s, IsSeq(s), NEW own
  PROVE  /\ IsSeq(FindFirst(s, own)) /\ Len(FindFirst(s, own)) <= 1
         /\ Len(FindFirst(s, own)) \in Nat
         /\ Count(s, own) = 1 => FindFirst(s, own) = Having(s, own)
         /\ \A code : Having(FindFirst(s, own), code)
                        = IF own = code THEN FindFirst(s, own) ELSE <<>>
         /\ \A code : Count(FindFirst(s, own), code)
                        = IF own = code /\ Count(s, own) > 0 THEN 1 ELSE 0
<1>1. PICK S : s \in Seq(S)
  BY DEF IsSeq
<1> DEFINE h == Having(s, own)
           f == FindFirst(s, own)
           U == {x \in S : x.code = own}
<1>2. f = IF h = <<>> THEN <<>> ELSE <<h[1]>>
  BY <1>1, FindFirstIs
<1>3. h \in Seq(U) /\ Len(h) \in Nat /\ DOMAIN h = 1..Len(h)
  BY <1>1, HavingCodes, LenProperties
<1>4. Count(s, own) = Len(h)
  BY DEF Count
<1> HIDE DEF h, f, U
<1>5. h # <<>> => Len(h) > 0 /\ h[1] \in U
  BY <1>3, EmptySeq, ElementOfSeq
<1>6. f \in Seq(U) /\ Len(f) = IF h = <<>> THEN 0 ELSE 1
  BY <1>2, <1>5
<1>7. Len(h) = 1 => f = h
  <2>1. SUFFICES ASSUME Len(h) = 1 PROVE f = h
    OBVIOUS
  <2>2. h = [i \in 1..1 |-> h[i]]
    BY <1>3, <2>1
  <2>3. h # <<>>
    BY <2>1, EmptySeq
  <2> QED
    BY <1>2, <2>2, <2>3
<1>8. \A i \in 1..Len(f) : f[i] \in U
  BY <1>6, ElementOfSeq
<1>9. ASSUME NEW code PROVE Having(f, code) = IF own = code THEN f ELSE <<>>
  BY <1>6, <1>8, HavingOnly DEF U
<1>10. Len(h) = 0 <=> h = <<>>
  BY <1>3, EmptySeq
<1>11. ASSUME NEW code
       PROVE  Count(f, code) = IF own = code /\ Count(s, own) > 0 THEN 1 ELSE 0
  <2>1. Count(f, code) = IF own = code THEN Len(f) ELSE 0
    BY <1>9, EmptySeq DEF Count
  <2> QED
    BY <1>3, <1>4, <1>6, <1>10, <2>1
<1>12. IsSeq(f)
  BY <1>6 DEF IsSeq
<1> QED
  BY <1>4, <1>6, <1>7, <1>9, <1>11, <1>12 DEF f, h

LEMMA DropCount ==
  ASSUME NEW s, IsSeq(s), NEW codes, NEW code
  PROVE  /\ IsSeq(Drop(s, codes))
         /\ Count(Drop(s, codes), code) = IF code \in codes /\ Count(s, code) > 0
                                            THEN Count(s, code) - 1 ELSE Count(s, code)
<1>1. PICK S : s \in Seq(S)
  BY DEF IsSeq
<1> DEFINE Dropped(r) == /\ Drop(r, codes) \in Seq(S)
                         /\ Count(Drop(r, codes), code)
                              = IF code \in codes /\ Count(r, code) > 0
                                  THEN Count(r, code) - 1 ELSE Count(r, code)
           T == {r \in Seq(S) : Dropped(r)}
<1>2. <<>> \in T
  <2>1. <<>> \in Seq(S) /\ Drop(<<>>, codes) = <<>>
    BY ThoseEmpty, EmptySeq DEF Drop
  <2>2. Count(<<>>, code) = 0
    BY CountNothing
  <2>3. Count(Drop(<<>>, codes), code) = 0 /\ Drop(<<>>, codes) \in Seq(S)
    BY <2>1, <2>2, Zenon
  <2>4. ~ (Count(<<>>, code) > 0)
    BY <2>2
  <2>5. Dropped(<<>>)
    BY <2>2, <2>3, <2>4, Zenon
  <2> HIDE DEF Dropped
  <2> QED
    BY <2>1, <2>5
<1>3. ASSUME NEW r \in Seq(S), NEW x \in S, r \in T PROVE Append(r, x) \in T
  <2> DEFINE t == Append(r, x)
             d == Drop(r, codes)
  <2>1. d \in Seq(S) /\ t \in Seq(S) /\ Append(d, x) \in Seq(S)
    BY <1>3, AppendProperties
  <2>2. /\ Count(d, code) = IF code \in codes /\ Count(r, code) > 0
                              THEN Count(r, code) - 1 ELSE Count(r, code)
        /\ Count(r, code) \in Nat
    BY <1>3, HavingType
  <2>3. Drop(t, codes) = IF x.code \in codes /\ Having(r, x.code) = <<>> THEN d ELSE Append(d, x)
    BY DropAppend
  <2>4. Count(t, code) = IF x.code = code THEN Count(r, code) + 1 ELSE Count(r, code)
    BY CountAppend
  <2>5. Count(Append(d, x), code) = IF x.code = code THEN Count(d, code) + 1 ELSE Count(d, code)
    BY <2>1, CountAppend
  <2>6. Count(r, x.code) = 0 <=> Having(r, x.code) = <<>>
    BY CountType DEF IsSeq
  <2>7. Drop(t, codes) = IF x.code \in codes /\ Count(r, x.code) = 0 THEN d ELSE Append(d, x)
    BY <2>3, <2>6
  <2> HIDE DEF d, t
  <2>8. Dropped(t)
    <3>1. Drop(t, codes) \in Seq(S)
      BY <2>1, <2>7
    <3>2. CASE x.code = code
      BY <2>2, <2>4, <2>5, <2>7, <3>1, <3>2
    <3>3. CASE x.code # code
      BY <2>2, <2>4, <2>5, <2>7, <3>1, <3>3
    <3> QED
      BY <3>2, <3>3
  <2> HIDE DEF Dropped
  <2> QED
    BY <2>1, <2>8 DEF t
<1> HIDE DEF T
<1>4. Seq(S) \subseteq T
  BY <1>2, <1>3, SeqInduction
<1> QED
  BY <1>1, <1>4 DEF T, IsSeq

\* Of a list everything but one code.
Without(s, own) == Those(s, {i \in DOMAIN s : s[i].code # own})

LEMMA WithoutCount ==
  ASSUME NEW s, IsSeq(s), NEW own, NEW code
  PROVE  /\ IsSeq(Without(s, own))
         /\ Count(Without(s, own), code) = IF code = own THEN 0 ELSE Count(s, code)
<1>1. PICK S : s \in Seq(S)
  BY DEF IsSeq
<1> DEFINE at(r) == {i \in DOMAIN r : r[i].code # own}
           T == {r \in Seq(S) : Count(Those(r, at(r)), code)
                                  = IF code = own THEN 0 ELSE Count(r, code)}
<1>2. <<>> \in T
  <2>1. Those(<<>>, at(<<>>)) = <<>> /\ <<>> \in Seq(S) /\ Count(<<>>, code) = 0
    BY ThoseEmpty, EmptySeq, CountNothing
  <2> QED
    BY <2>1
<1>3. ASSUME NEW r \in Seq(S), NEW x \in S, r \in T PROVE Append(r, x) \in T
  <2> DEFINE t == Append(r, x)
             d == Those(r, at(r))
  <2>1. /\ t \in Seq(S) /\ Len(r) \in Nat /\ DOMAIN r = 1..Len(r)
        /\ DOMAIN t = 1..(Len(r) + 1) /\ t[Len(r) + 1] = x
        /\ \A i \in 1..Len(r) : t[i] = r[i]
    BY AppendProperties, LenProperties
  <2>2. \A i \in 1..Len(r) : i \in at(t) <=> i \in at(r)
    BY <2>1
  <2>3. Len(r) + 1 \in at(t) <=> x.code # own
    BY <2>1
  <2>4. Those(t, at(t)) = IF Len(r) + 1 \in at(t) THEN Append(d, x) ELSE d
    <3> HIDE DEF at
    <3> QED
      BY <2>2, ThoseGrow
  <2>5. d \in Seq(S)
    BY ThoseType
  <2>6. Count(Append(d, x), code) = IF x.code = code THEN Count(d, code) + 1 ELSE Count(d, code)
    BY <2>5, CountAppend
  <2>7. Count(t, code) = IF x.code = code THEN Count(r, code) + 1 ELSE Count(r, code)
    BY CountAppend
  <2>8. Count(d, code) = IF code = own THEN 0 ELSE Count(r, code)
    BY <1>3
  <2>9. Count(Those(t, at(t)), code) = IF code = own THEN 0 ELSE Count(t, code)
    <3> HIDE DEF at, t, d
    <3> QED
      BY <2>3, <2>4, <2>6, <2>7, <2>8
  <2> QED
    BY <2>1, <2>9
<1> HIDE DEF T
<1>4. Seq(S) \subseteq T
  BY <1>2, <1>3, SeqInduction
<1>5. Those(s, at(s)) \in Seq(S)
  BY <1>1, ThoseType
<1> QED
  BY <1>1, <1>4, <1>5 DEF T, IsSeq, Without

LEMMA RestCount ==
  ASSUME NEW s, IsSeq(s), NEW codes, NEW code
  PROVE  /\ IsSeq(Rest(s, codes))
         /\ Count(Rest(s, codes), code)
              = IF code = SUPPORTED_FEATURE THEN 0
                ELSE IF code \in codes /\ Count(s, code) > 0
                       THEN Count(s, code) - 1 ELSE Count(s, code)
<1> DEFINE left == Drop(s, codes)
<1>1. IsSeq(left)
      /\ Count(left, code) = IF code \in codes /\ Count(s, code) > 0
                               THEN Count(s, code) - 1 ELSE Count(s, code)
  BY DropCount
<1>2. Rest(s, codes) = Without(left, SUPPORTED_FEATURE)
  BY DEF Rest, Without
<1> HIDE DEF left
<1>3. /\ IsSeq(Without(left, SUPPORTED_FEATURE))
      /\ Count(Without(left, SUPPORTED_FEATURE), code)
           = IF code = SUPPORTED_FEATURE THEN 0 ELSE Count(left, code)
  BY <1>1, WithoutCount
<1> QED
  BY <1>1, <1>2, <1>3

LEMMA HavingCount ==
  ASSUME NEW s, IsSeq(s), NEW own, NEW code
  PROVE  /\ IsSeq(Having(s, own))
         /\ Count(Having(s, own), code) = IF own = code THEN Count(s, own) ELSE 0
<1>1. PICK S : s \in Seq(S)
  BY DEF IsSeq
<1>2. Having(s, own) \in Seq(S)
      /\ Having(Having(s, own), code) = IF own = code THEN Having(s, own) ELSE <<>>
  BY <1>1, HavingType, HavingTwice
<1> QED
  BY <1>2, EmptySeq DEF IsSeq, Count

\* A list of elements that all have one code.
LEMMA CountAlike ==
  ASSUME NEW n \in Nat, NEW s, IsList(s, n), NEW own,
         \A i \in 1..n : s[i].code = own, NEW code
  PROVE  /\ IsSeq(s) /\ Len(s) = n
         /\ Having(s, code) = IF own = code THEN s ELSE <<>>
         /\ Count(s, code) = IF own = code THEN n ELSE 0
<1> DEFINE S == {s[i] : i \in 1..n}
<1>1. s \in [1..n -> S]
  <2> DEFINE f == [i \in 1..n |-> s[i]]
  <2>1. f \in [1..n -> S]
    OBVIOUS
  <2>2. s = f
    BY DEF IsList
  <2> HIDE DEF f, S
  <2> QED
    BY <2>1, <2>2
<1> HIDE DEF S
<1>2. s \in Seq(S) /\ Len(s) = n
  BY <1>1
<1>3. Having(s, code) = IF own = code THEN s ELSE <<>>
  BY <1>2, HavingOnly
<1> QED
  BY <1>2, <1>3, EmptySeq DEF IsSeq, Count

\* Nothing is left to the pointers.
Settled(left) == left = <<>> \/ (Count(left, PROXY_INFO) > 0 /\ Count(left, ROUTE_RECORD) > 0)

Alike(s, n, own) == n \in Nat /\ IsList(s, n) /\ \A i \in 1..n : s[i].code = own

LEMMA CountOthers ==
  ASSUME NEW n, NEW s, NEW own, Alike(s, n, own), NEW code, own # code
  PROVE  IsSeq(s) /\ Count(s, code) = 0
<1>1. n \in Nat /\ IsList(s, n) /\ \A i \in 1..n : s[i].code = own
  BY DEF Alike
<1>2. IsSeq(s) /\ Count(s, code) = IF own = code THEN n ELSE 0
  BY <1>1, CountAlike, ZenonT(60)
<1> QED
  BY <1>2

\* The end of a message has every AVP that is left, and unless a pointer is not assigned
\* nothing else (Trailer).
LEMMA TrailerCount ==
  ASSUME NEW left, IsSeq(left), NEW wild, IsSeq(wild[1]), IsSeq(wild[2]), NEW code
  PROVE  /\ IsSeq(Trailer(left, wild))
         /\ Count(Trailer(left, wild), code) \in Nat
         /\ Count(Trailer(left, wild), code) >= Count(left, code)
         /\ Settled(left) => Count(Trailer(left, wild), code) = Count(left, code)
<1> DEFINE d == Drop(left, {PROXY_INFO, ROUTE_RECORD})
           p == Pointed(left, PROXY_INFO, wild[1])
           q == Pointed(left, ROUTE_RECORD, wild[2])
           T == Trailer(left, wild)
           n == Count(left, code)
<1>1. CASE left = <<>>
  BY <1>1, CountNothing DEF Trailer
<1>2. CASE left # <<>>
  <2>1. T = (d \o p) \o q
    BY <1>2 DEF Trailer
  <2>2. IsSeq(d) /\ Count(d, code) = IF code \in {PROXY_INFO, ROUTE_RECORD} /\ n > 0
                                       THEN n - 1 ELSE n
    BY DropCount
  <2>3. ASSUME NEW own, NEW w, IsSeq(w)
        PROVE  /\ IsSeq(Pointed(left, own, w))
               /\ Count(Pointed(left, own, w), code)
                    = IF Count(left, own) = 0 THEN Count(w, code)
                      ELSE IF own = code THEN 1 ELSE 0
    <3>1. Count(left, own) = 0 <=> Having(left, own) = <<>>
      BY CountType
    <3>2. Count(left, own) \in Nat
      BY CountType
    <3> QED
      BY <2>3, <3>1, <3>2, FindFirstFound DEF Pointed
  <2>4. IsSeq(p) /\ Count(p, code) = IF Count(left, PROXY_INFO) = 0 THEN Count(wild[1], code)
                                      ELSE IF PROXY_INFO = code THEN 1 ELSE 0
    BY <2>3
  <2>5. IsSeq(q) /\ Count(q, code) = IF Count(left, ROUTE_RECORD) = 0 THEN Count(wild[2], code)
                                      ELSE IF ROUTE_RECORD = code THEN 1 ELSE 0
    BY <2>3
  <2>6. Count(wild[1], code) \in Nat /\ Count(wild[2], code) \in Nat /\ n \in Nat
    BY CountType
  <2> HIDE DEF d, p, q
  <2>7. IsSeq(T) /\ Count(T, code) = Count(d, code) + Count(p, code) + Count(q, code)
    <3>1. IsSeq(d \o p) /\ Count(d \o p, code) = Count(d, code) + Count(p, code)
      BY <2>2, <2>4, CountConcat
    <3> QED
      BY <2>1, <2>5, <3>1, CountConcat
  <2> HIDE DEF T
  <2>8. PROXY_INFO = 284 /\ ROUTE_RECORD = 282
    BY DEF PROXY_INFO, ROUTE_RECORD
  <2>9. Count(T, code) \in Nat /\ Count(T, code) >= n
    BY <2>2, <2>4, <2>5, <2>6, <2>7, <2>8
  <2>10. Settled(left) => Count(T, code) = n
    BY <1>2, <2>2, <2>4, <2>5, <2>6, <2>7, <2>8 DEF Settled
  <2> QED
    BY <2>7, <2>9, <2>10 DEF T
<1> QED
  BY <1>1, <1>2

\* What is taken out of the application's list for the front of a message leaves the
\* pointers as settled as they were.
Fronts == {{OC_SUPPORTED_FEATURES}, {OC_SUPPORTED_FEATURES, UAR_FLAGS}}
LEMMA LeftSettled ==
  ASSUME NEW list, IsSeq(list), NEW codes \in Fronts, Settled(list)
  PROVE  Settled(Drop(list, codes))
<1>1. CASE list = <<>>
  <2> DEFINE at == {i \in DOMAIN list : \A code \in codes : i \notin FirstOf(list, code)}
  <2> HIDE DEF at
  <2>1. Those(<<>>, at) = <<>>
    BY ThoseEmpty
  <2> QED
    BY <1>1, <2>1 DEF Drop, Settled, at
<1>2. CASE list # <<>>
  <2>1. \A c \in {PROXY_INFO, ROUTE_RECORD} : c \notin codes
    BY DEF Fronts, PROXY_INFO, ROUTE_RECORD, OC_SUPPORTED_FEATURES, UAR_FLAGS
  <2>2. \A c \in {PROXY_INFO, ROUTE_RECORD} : Count(Drop(list, codes), c) = Count(list, c)
    BY <2>1, DropCount
  <2> QED
    BY <1>2, <2>2 DEF Settled
<1> QED
  BY <1>1, <1>2

(***************************************************************************)
(* What each builder of the Cx application lays out                        *)
(***************************************************************************)
One(own, code) == IF own = code THEN 1 ELSE 0

LEMMA TwoAvps ==
  ASSUME NEW a, NEW b, NEW code
  PROVE  /\ IsSeq(<<a, b>>)
         /\ Count(<<a, b>>, code) = One(a.code, code) + One(b.code, code)
<1> DEFINE s == <<a>>
           t == <<b>>
<1>1. <<a, b>> = Append(s, b)
  OBVIOUS
<1>2. Append(s, b) = s \o t
  <2>1. s \in Seq({a}) /\ b \in {b}
    OBVIOUS
  <2> QED
    BY <2>1, AppendIsConcat, SeqPair, SeqOfMore
<1>3. IsSeq(s) /\ Count(s, code) = One(a.code, code)
      /\ IsSeq(t) /\ Count(t, code) = One(b.code, code)
  BY CountSingle DEF One
<1> HIDE DEF s, t
<1>4. IsSeq(s \o t) /\ Count(s \o t, code) = Count(s, code) + Count(t, code)
  BY <1>3, CountConcat
<1> QED
  BY <1>1, <1>2, <1>3, <1>4, Zenon

LEMMA ThreeAvps ==
  ASSUME NEW a, NEW b, NEW c, NEW code
  PROVE  /\ IsSeq(<<a, b, c>>)
         /\ Count(<<a, b, c>>, code)
              = One(a.code, code) + One(b.code, code) + One(c.code, code)
<1> DEFINE s == <<a, b>>
           t == <<c>>
<1>1. <<a, b, c>> = s \o t
  OBVIOUS
<1>2. IsSeq(t) /\ Count(t, code) = One(c.code, code)
  BY CountSingle DEF One
<1>3. IsSeq(s) /\ Count(s, code) = One(a.code, code) + One(b.code, code)
  BY TwoAvps
<1> HIDE DEF s, t
<1>4. IsSeq(s \o t) /\ Count(s \o t, code) = Count(s, code) + Count(t, code)
  BY <1>2, <1>3, CountConcat
<1> QED
  BY <1>1, <1>2, <1>3, <1>4, Zenon

\* The first element stays the first whatever follows.
Leads(s, code) == IsSeq(s) /\ Len(s) > 0 /\ s[1].code = code

LEMMA LeadsOn ==
  ASSUME NEW s, NEW t, NEW code, Leads(s, code), IsSeq(t)
  PROVE  Leads(s \o t, code)
<1>1. PICK S : s \in Seq(S) /\ t \in Seq(S)
  BY SeqPair DEF Leads
<1>2. s \o t \in Seq(S) /\ Len(s \o t) = Len(s) + Len(t) /\ Len(t) \in Nat /\ Len(s) \in Nat
  BY <1>1, ConcatProperties, LenProperties
<1>3. (s \o t)[1] = s[1] /\ Len(s \o t) > 0
  BY <1>1, <1>2, ConcatProperties DEF Leads
<1> QED
  BY <1>2, <1>3 DEF Leads, IsSeq

Begins(s, a) == IsSeq(s) /\ Len(s) > 0 /\ s[1] = a

LEMMA BeginsOn ==
  ASSUME NEW s, NEW t, NEW a, Begins(s, a), IsSeq(t)
  PROVE  Begins(s \o t, a)
<1>1. PICK S : s \in Seq(S) /\ t \in Seq(S)
  BY SeqPair DEF Begins
<1>2. s \o t \in Seq(S) /\ Len(s \o t) = Len(s) + Len(t) /\ Len(t) \in Nat /\ Len(s) \in Nat
  BY <1>1, ConcatProperties, LenProperties
<1>3. (s \o t)[1] = s[1] /\ Len(s \o t) > 0
  BY <1>1, <1>2, ConcatProperties DEF Begins
<1> QED
  BY <1>2, <1>3 DEF Begins, IsSeq

LEMMA OpeningCount ==
  ASSUME NEW r, NEW code
  PROVE  /\ IsSeq(Opening(r)) /\ Leads(Opening(r), SESSION_ID)
         /\ Count(Opening(r), code) = IF code \in Always THEN 1 ELSE 0
<1> DEFINE s == <<Avp(SESSION_ID, r.sessionId), diaAvp_encodeVendorSpecificAppId,
                  Avp(AUTH_SESSION_STATE, 1)>>
           t == <<Avp(OrigHost, r.host), Avp(OrigRealm, r.realm)>>
<1>1. Opening(r) = s \o t
  BY DEF Opening, Origin
<1>2. IsSeq(s) /\ Count(s, code) = One(SESSION_ID, code) + One(VendorSpecificAppId, code)
                                     + One(AUTH_SESSION_STATE, code)
  BY ThreeAvps DEF Avp, diaAvp_encodeVendorSpecificAppId
<1>3. IsSeq(t) /\ Count(t, code) = One(OrigHost, code) + One(OrigRealm, code)
  BY TwoAvps DEF Avp
<1>4. Len(s) > 0 /\ s[1].code = SESSION_ID
  BY DEF Avp
<1> HIDE DEF s, t
<1>5. IsSeq(s \o t) /\ Leads(s \o t, SESSION_ID) /\ Count(s \o t, code) = Count(s, code) + Count(t, code)
  BY <1>2, <1>3, <1>4, CountConcat, LeadsOn DEF Leads
<1>6. Count(s, code) + Count(t, code) = IF code \in Always THEN 1 ELSE 0
  BY <1>2, <1>3 DEF One, Always, SESSION_ID, VendorSpecificAppId, AUTH_SESSION_STATE, OrigHost,
                    OrigRealm
<1> QED
  BY <1>1, <1>5, <1>6

\* What the lemmas about requests need to know of one.
LEMMA RequestTypes ==
  ASSUME NEW r \in RequestType
  PROVE  /\ IsSeq(r.destHost) /\ IsSeq(r.destRealm) /\ IsSeq(r.userName)
         /\ IsSeq(r.featureLists) /\ IsSeq(r.authType) /\ IsSeq(r.multiRegInd)
         /\ IsSeq(r.extra) /\ IsSeq(r.serverNames) /\ IsSeq(r.cap)
         /\ r.restorationInfo \in BOOLEAN /\ r.isResultCode \in BOOLEAN
<1>1. /\ r.destHost \in Seq(Seq(Nat)) /\ r.destRealm \in Seq(Seq(Nat))
      /\ r.userName \in Seq(Seq(Nat)) /\ r.featureLists \in Seq(Nat)
      /\ r.authType \in Seq(Nat) /\ r.multiRegInd \in Seq(Nat) /\ r.extra \in Seq(Avps)
      /\ r.serverNames \in Seq(Seq(Nat))
      /\ r.cap \in Seq([msc : [1..DIA_CX_MAX_SERVER_CAPABILITY_ITEM -> Nat],
                        mscNum : 0..DIA_CX_MAX_SERVER_CAPABILITY_ITEM])
      /\ r.restorationInfo \in BOOLEAN /\ r.isResultCode \in BOOLEAN
  BY DEF RequestType
<1> QED
  BY <1>1, Zenon DEF IsSeq

LEMMA FeatureCount ==
  ASSUME NEW list, IsSeq(list), NEW code
  PROVE  /\ IsSeq(diaAvp_encodeSupportedFeature(list))
         /\ Count(diaAvp_encodeSupportedFeature(list), code)
              = IF SUPPORTED_FEATURE = code THEN Len(list) ELSE 0
<1> DEFINE s == diaAvp_encodeSupportedFeature(list)
<1>1. Len(list) \in Nat /\ DOMAIN list = 1..Len(list)
  BY IsSeqLen
<1>2. IsList(s, Len(list)) /\ \A i \in 1..Len(list) : s[i].code = SUPPORTED_FEATURE
  BY <1>1 DEF diaAvp_encodeSupportedFeature, Avp, IsList
<1> HIDE DEF s
<1>3. IsSeq(s) /\ Count(s, code) = IF SUPPORTED_FEATURE = code THEN Len(list) ELSE 0
  BY <1>1, <1>2, CountAlike, ZenonT(60)
<1> QED
  BY <1>3 DEF s

\* What a builder lays out: what is in front, and of the application's list what is left
\* for the end of the message. An AVP of its own is there once, and an AVP of the
\* application as often as it was given.
LaidOut(all, front, left, wild, own, extra, code) ==
  /\ all = front \o Trailer(left, wild)
  /\ Leads(front, SESSION_ID) /\ IsSeq(left)
  /\ code \in own /\ Count(extra, code) = 0 => Count(front, code) = 1 /\ Count(left, code) = 0
  /\ code \notin Parameters => Count(front, code) + Count(left, code) = Count(extra, code)
  /\ code \in {PROXY_INFO, ROUTE_RECORD} => Count(left, code) = Count(extra, code)

LEMMA UarLayout ==
  ASSUME NEW r \in RequestType, NEW wild, NEW code
  PROVE  \E front : LaidOut(diaBuildUar(r, wild), front, Drop(r.extra, {OC_SUPPORTED_FEATURES, UAR_FLAGS}), wild,
                            Always \cup InBraces.UAR, r.extra, code)
<1> DEFINE opt == AvpsOf(DEST_HOST, r.destHost)
                    \o diaAvp_encodeSupportedFeature(r.featureLists)
                    \o AvpsOf(USER_AUTH_TYPE, r.authType)
           left == Drop(r.extra, {OC_SUPPORTED_FEATURES, UAR_FLAGS})
           x == Count(r.extra, code)
           n(c) == Count(opt, c)
           p1 == Opening(r)
           p2 == FindFirst(opt, DEST_HOST)
           p3 == <<Avp(DEST_REALM, r.destRealm[1]), Avp(USER_NAME, r.userName[1])>>
           p4 == FindFirst(r.extra, OC_SUPPORTED_FEATURES)
           p5 == Having(opt, SUPPORTED_FEATURE)
           p6 == <<Avp(PUBLIC_ID, r.pubId), Avp(VISITED_NW_ID, r.realm)>>
           p7 == FindFirst(opt, USER_AUTH_TYPE)
           p8 == FindFirst(r.extra, UAR_FLAGS)
           p9 == FindFirst(opt, ACCESS_NW_INFO)
           p10 == Rest(opt, {DEST_HOST, USER_AUTH_TYPE, ACCESS_NW_INFO})
           front == p1 \o p2 \o p3 \o p4 \o p5 \o p6 \o p7 \o p8 \o p9 \o p10
<1>1. diaBuildUar(r, wild) = front \o Trailer(left, wild)
  BY DEF diaBuildUar, diaCxUar_encode
<1>2. IsSeq(r.extra) /\ x \in Nat
  BY RequestTypes, CountType
<1>3. ASSUME NEW c
      PROVE  /\ IsSeq(opt) /\ n(c) \in Nat
             /\ c \notin {DEST_HOST, SUPPORTED_FEATURE, USER_AUTH_TYPE} => n(c) = 0
  <2> DEFINE o1 == AvpsOf(DEST_HOST, r.destHost)
             o2 == diaAvp_encodeSupportedFeature(r.featureLists)
             o3 == AvpsOf(USER_AUTH_TYPE, r.authType)
  <2>1. IsSeq(r.destHost) /\ IsSeq(r.featureLists) /\ IsSeq(r.authType)
    BY RequestTypes
  <2>2. IsSeq(o1) /\ (DEST_HOST # c => Count(o1, c) = 0)
    BY <2>1, CountListed
  <2>3. IsSeq(o2) /\ (SUPPORTED_FEATURE # c => Count(o2, c) = 0)
    BY <2>1, FeatureCount
  <2>4. IsSeq(o3) /\ (USER_AUTH_TYPE # c => Count(o3, c) = 0)
    BY <2>1, CountListed
  <2> HIDE DEF o1, o2, o3
  <2>5. IsSeq(o1 \o o2) /\ Count(o1 \o o2, c) = Count(o1, c) + Count(o2, c)
    BY <2>2, <2>3, CountConcat
  <2>6. IsSeq(opt) /\ n(c) = Count(o1, c) + Count(o2, c) + Count(o3, c)
    BY <2>4, <2>5, CountConcat DEF o1, o2, o3
  <2>7. n(c) \in Nat
    BY <2>6, CountType
  <2>8. ASSUME c \notin {DEST_HOST, SUPPORTED_FEATURE, USER_AUTH_TYPE} PROVE n(c) = 0
    <3>1. Count(o1, c) = 0 /\ Count(o2, c) = 0 /\ Count(o3, c) = 0
      BY <2>2, <2>3, <2>4, <2>8
    <3> QED
      BY <2>6, <3>1
  <2> QED
    BY <2>6, <2>7, <2>8
<1> HIDE DEF opt
<1>4. /\ IsSeq(p1) /\ Leads(p1, SESSION_ID)
      /\ Count(p1, code) = IF code \in Always THEN 1 ELSE 0
  BY OpeningCount
<1>5. IsSeq(p2) /\ Count(p2, code) = IF DEST_HOST = code /\ n(DEST_HOST) > 0 THEN 1 ELSE 0
  BY <1>3, FindFirstFound
<1>6. IsSeq(p3) /\ Count(p3, code) = One(DEST_REALM, code) + One(USER_NAME, code)
  BY TwoAvps DEF Avp
<1>7. IsSeq(p4) /\ Count(p4, code) = IF OC_SUPPORTED_FEATURES = code /\ x > 0 THEN 1 ELSE 0
  BY <1>2, FindFirstFound
<1>8. IsSeq(p5) /\ Count(p5, code) = IF SUPPORTED_FEATURE = code THEN n(SUPPORTED_FEATURE) ELSE 0
  BY <1>3, HavingCount
<1>9. IsSeq(p6) /\ Count(p6, code) = One(PUBLIC_ID, code) + One(VISITED_NW_ID, code)
  BY TwoAvps DEF Avp
<1>10. IsSeq(p7) /\ Count(p7, code) = IF USER_AUTH_TYPE = code /\ n(USER_AUTH_TYPE) > 0 THEN 1 ELSE 0
  BY <1>3, FindFirstFound
<1>11. IsSeq(p8) /\ Count(p8, code) = IF UAR_FLAGS = code /\ x > 0 THEN 1 ELSE 0
  BY <1>2, FindFirstFound
<1>12. IsSeq(p9) /\ Count(p9, code) = IF ACCESS_NW_INFO = code /\ n(ACCESS_NW_INFO) > 0 THEN 1 ELSE 0
  BY <1>3, FindFirstFound
<1>13. /\ IsSeq(p10)
      /\ Count(p10, code) = IF code = SUPPORTED_FEATURE THEN 0
                             ELSE IF code \in {DEST_HOST, USER_AUTH_TYPE, ACCESS_NW_INFO} /\ n(code) > 0
                                    THEN n(code) - 1 ELSE n(code)
  BY <1>3, RestCount
<1>14. /\ IsSeq(left)
       /\ Count(left, code) = IF code \in {OC_SUPPORTED_FEATURES, UAR_FLAGS} /\ x > 0 THEN x - 1 ELSE x
  BY <1>2, DropCount
<1> HIDE DEF p1, p2, p3, p4, p5, p6, p7, p8, p9, p10, left
<1>15. /\ Leads(front, SESSION_ID)
       /\ Count(front, code) = Count(p1, code) + Count(p2, code) + Count(p3, code) +
                                Count(p4, code) + Count(p5, code) + Count(p6, code) +
                                Count(p7, code) + Count(p8, code) + Count(p9, code) +
                                Count(p10, code)
  <2>1. /\ IsSeq(front)
        /\ Count(front, code) = Count(p1, code) + Count(p2, code) + Count(p3, code) +
                                 Count(p4, code) + Count(p5, code) + Count(p6, code) +
                                 Count(p7, code) + Count(p8, code) + Count(p9, code) +
                                 Count(p10, code)
    BY <1>4, <1>5, <1>6, <1>7, <1>8, <1>9, <1>10, <1>11, <1>12, <1>13, CountConcat
  <2>2. Leads(front, SESSION_ID)
    BY <1>4, <1>5, <1>6, <1>7, <1>8, <1>9, <1>10, <1>11, <1>12, <1>13, LeadsOn
  <2> HIDE DEF front
  <2> QED
    BY <2>1, <2>2
<1> HIDE DEF front
<1>16. ASSUME code \in Always \cup InBraces.UAR, x = 0
       PROVE  Count(front, code) = 1 /\ Count(left, code) = 0
  BY <1>3, <1>4, <1>5, <1>6, <1>7, <1>8, <1>9, <1>10, <1>11, <1>12, <1>13, <1>14, <1>15,
     <1>16
     DEF One, Always, InBraces, SESSION_ID, VendorSpecificAppId, AUTH_SESSION_STATE,
         OrigHost, OrigRealm, DEST_HOST, DEST_REALM, USER_NAME, SUPPORTED_FEATURE,
         PUBLIC_ID, VISITED_NW_ID, USER_AUTH_TYPE, OC_SUPPORTED_FEATURES, UAR_FLAGS,
         ACCESS_NW_INFO
<1>17. ASSUME code \notin Parameters PROVE Count(front, code) + Count(left, code) = x
  BY <1>2, <1>3, <1>4, <1>5, <1>6, <1>7, <1>8, <1>9, <1>10, <1>11, <1>12, <1>13, <1>14,
     <1>15, <1>17
     DEF One, Always, Parameters, SESSION_ID, VendorSpecificAppId, AUTH_SESSION_STATE,
         OrigHost, OrigRealm, DEST_HOST, DEST_REALM, USER_NAME, SUPPORTED_FEATURE,
         PUBLIC_ID, VISITED_NW_ID, USER_AUTH_TYPE, OC_SUPPORTED_FEATURES, UAR_FLAGS,
         ACCESS_NW_INFO
<1>18. LaidOut(diaBuildUar(r, wild), front, left, wild, Always \cup InBraces.UAR, r.extra, code)
  BY <1>1, <1>14, <1>15, <1>16, <1>17
     DEF LaidOut, PROXY_INFO, ROUTE_RECORD, UAR_FLAGS, OC_SUPPORTED_FEATURES
<1> QED
  BY <1>18 DEF left

LEMMA DestinationCount ==
  ASSUME NEW r \in RequestType, Len(r.destRealm) = 1, NEW c
  PROVE  /\ IsSeq(Destination(r)) /\ Count(Destination(r), c) \in Nat
         /\ c \notin {DEST_HOST, DEST_REALM, SUPPORTED_FEATURE} => Count(Destination(r), c) = 0
         /\ c = DEST_REALM => Count(Destination(r), c) = 1
<1> DEFINE o1 == AvpsOf(DEST_HOST, r.destHost)
           o2 == AvpsOf(DEST_REALM, r.destRealm)
           o3 == diaAvp_encodeSupportedFeature(r.featureLists)
           opt == Destination(r)
<1>1. IsSeq(r.destHost) /\ IsSeq(r.destRealm) /\ IsSeq(r.featureLists)
  BY RequestTypes
<1>2. IsSeq(o1) /\ (DEST_HOST # c => Count(o1, c) = 0)
  BY <1>1, CountListed
<1>3. IsSeq(o2) /\ Count(o2, c) = IF DEST_REALM = c THEN 1 ELSE 0
  BY <1>1, CountListed
<1>4. IsSeq(o3) /\ (SUPPORTED_FEATURE # c => Count(o3, c) = 0)
  BY <1>1, FeatureCount
<1>5. opt = o1 \o o2 \o o3
  BY DEF Destination
<1> HIDE DEF o1, o2, o3, opt
<1>6. IsSeq(o1 \o o2) /\ Count(o1 \o o2, c) = Count(o1, c) + Count(o2, c)
  BY <1>2, <1>3, CountConcat
<1>7. IsSeq(opt) /\ Count(opt, c) = Count(o1, c) + Count(o2, c) + Count(o3, c)
  BY <1>4, <1>5, <1>6, CountConcat
<1>8. Count(opt, c) \in Nat
  BY <1>7, CountType
<1>9. ASSUME c \notin {DEST_HOST, DEST_REALM, SUPPORTED_FEATURE} PROVE Count(opt, c) = 0
  <2>1. Count(o1, c) = 0 /\ Count(o2, c) = 0 /\ Count(o3, c) = 0
    BY <1>2, <1>3, <1>4, <1>9
  <2> QED
    BY <1>7, <2>1
<1>10. ASSUME c = DEST_REALM PROVE Count(opt, c) = 1
  <2>1. DEST_REALM = 283 /\ DEST_HOST = 293 /\ SUPPORTED_FEATURE = 628
    BY DEF DEST_REALM, DEST_HOST, SUPPORTED_FEATURE
  <2>2. Count(o1, c) = 0 /\ Count(o2, c) = 1 /\ Count(o3, c) = 0
    BY <1>2, <1>3, <1>4, <1>10, <2>1
  <2> QED
    BY <1>7, <2>2
<1> QED
  BY <1>7, <1>8, <1>9, <1>10 DEF opt

LEMMA LirLayout ==
  ASSUME NEW r \in RequestType, Len(r.destRealm) = 1, NEW wild, NEW code
  PROVE  \E front : LaidOut(diaBuildLir(r, wild), front, Drop(r.extra, {OC_SUPPORTED_FEATURES}), wild,
                            Always \cup InBraces.LIR, r.extra, code)
<1> DEFINE opt == Destination(r)
           left == Drop(r.extra, {OC_SUPPORTED_FEATURES})
           x == Count(r.extra, code)
           n(c) == Count(opt, c)
           p1 == Opening(r)
           p2 == FindFirst(opt, DEST_HOST)
           p3 == FindFirst(opt, DEST_REALM)
           p4 == FindFirst(r.extra, OC_SUPPORTED_FEATURES)
           p5 == Having(opt, SUPPORTED_FEATURE)
           p6 == <<Avp(PUBLIC_ID, r.pubId)>>
           p7 == Rest(opt, {DEST_HOST, DEST_REALM})
           p8 == AvpsOf(USER_AUTH_TYPE, Those(r.authType, {i \in DOMAIN r.authType : r.authType[i] = 2}))
           front == p1 \o p2 \o p3 \o p4 \o p5 \o p6 \o p7 \o p8
<1>1. diaBuildLir(r, wild) = front \o Trailer(left, wild)
  BY DEF diaBuildLir, diaCxLir_encode
<1>2. IsSeq(r.extra) /\ x \in Nat
  BY RequestTypes, CountType
<1>3. ASSUME NEW c
      PROVE  /\ IsSeq(opt) /\ n(c) \in Nat
             /\ c \notin {DEST_HOST, DEST_REALM, SUPPORTED_FEATURE} => n(c) = 0
             /\ n(DEST_REALM) = 1
  BY DestinationCount
<1> HIDE DEF opt
<1>4. /\ IsSeq(p1) /\ Leads(p1, SESSION_ID)
      /\ Count(p1, code) = IF code \in Always THEN 1 ELSE 0
  BY OpeningCount
<1>5. IsSeq(p2) /\ Count(p2, code) = IF DEST_HOST = code /\ n(DEST_HOST) > 0 THEN 1 ELSE 0
  BY <1>3, FindFirstFound
<1>6. IsSeq(p3) /\ Count(p3, code) = IF DEST_REALM = code /\ n(DEST_REALM) > 0 THEN 1 ELSE 0
  BY <1>3, FindFirstFound
<1>7. IsSeq(p4) /\ Count(p4, code) = IF OC_SUPPORTED_FEATURES = code /\ x > 0 THEN 1 ELSE 0
  BY <1>2, FindFirstFound
<1>8. IsSeq(p5) /\ Count(p5, code) = IF SUPPORTED_FEATURE = code THEN n(SUPPORTED_FEATURE) ELSE 0
  BY <1>3, HavingCount
<1>9. IsSeq(p6) /\ Count(p6, code) = One(PUBLIC_ID, code)
  BY CountSingle DEF Avp, One
<1>10. /\ IsSeq(p7)
      /\ Count(p7, code) = IF code = SUPPORTED_FEATURE THEN 0
                             ELSE IF code \in {DEST_HOST, DEST_REALM} /\ n(code) > 0
                                    THEN n(code) - 1 ELSE n(code)
  BY <1>3, RestCount
<1>11. IsSeq(p8) /\ (USER_AUTH_TYPE # code => Count(p8, code) = 0)
  <2> DEFINE at == {i \in DOMAIN r.authType : r.authType[i] = 2}
  <2>1. r.authType \in Seq(Nat)
    BY DEF RequestType
  <2> HIDE DEF at
  <2>2. IsSeq(Those(r.authType, at))
    BY <2>1, ThoseType DEF IsSeq
  <2> QED
    BY <2>2, CountListed DEF at
<1>12. /\ IsSeq(left)
       /\ Count(left, code) = IF code \in {OC_SUPPORTED_FEATURES} /\ x > 0 THEN x - 1 ELSE x
  BY <1>2, DropCount
<1> HIDE DEF p1, p2, p3, p4, p5, p6, p7, p8, left
<1>13. /\ Leads(front, SESSION_ID)
       /\ Count(front, code) = Count(p1, code) + Count(p2, code) + Count(p3, code) +
                                Count(p4, code) + Count(p5, code) + Count(p6, code) +
                                Count(p7, code) + Count(p8, code)
  <2>1. /\ IsSeq(front)
        /\ Count(front, code) = Count(p1, code) + Count(p2, code) + Count(p3, code) +
                                 Count(p4, code) + Count(p5, code) + Count(p6, code) +
                                 Count(p7, code) + Count(p8, code)
    BY <1>4, <1>5, <1>6, <1>7, <1>8, <1>9, <1>10, <1>11, CountConcat
  <2>2. Leads(front, SESSION_ID)
    BY <1>4, <1>5, <1>6, <1>7, <1>8, <1>9, <1>10, <1>11, LeadsOn
  <2> HIDE DEF front
  <2> QED
    BY <2>1, <2>2
<1> HIDE DEF front
<1>14. ASSUME code \in Always \cup InBraces.LIR, x = 0
       PROVE  Count(front, code) = 1 /\ Count(left, code) = 0
  BY <1>3, <1>4, <1>5, <1>6, <1>7, <1>8, <1>9, <1>10, <1>11, <1>12, <1>13, <1>14
     DEF One, Always, InBraces, SESSION_ID, VendorSpecificAppId, AUTH_SESSION_STATE,
         OrigHost, OrigRealm, DEST_HOST, DEST_REALM, SUPPORTED_FEATURE,
         OC_SUPPORTED_FEATURES, PUBLIC_ID, USER_AUTH_TYPE
<1>15. ASSUME code \notin Parameters PROVE Count(front, code) + Count(left, code) = x
  BY <1>2, <1>3, <1>4, <1>5, <1>6, <1>7, <1>8, <1>9, <1>10, <1>11, <1>12, <1>13, <1>15
     DEF One, Always, Parameters, SESSION_ID, VendorSpecificAppId, AUTH_SESSION_STATE,
         OrigHost, OrigRealm, DEST_HOST, DEST_REALM, SUPPORTED_FEATURE,
         OC_SUPPORTED_FEATURES, PUBLIC_ID, USER_AUTH_TYPE
<1>16. LaidOut(diaBuildLir(r, wild), front, left, wild, Always \cup InBraces.LIR, r.extra, code)
  BY <1>1, <1>12, <1>13, <1>14, <1>15
     DEF LaidOut, PROXY_INFO, ROUTE_RECORD, OC_SUPPORTED_FEATURES
<1> QED
  BY <1>16 DEF left

LEMMA SarLayout ==
  ASSUME NEW r \in RequestType, Len(r.destRealm) = 1, NEW wild, NEW code
  PROVE  \E front : LaidOut(diaBuildSar(r, wild), front, Drop(r.extra, {OC_SUPPORTED_FEATURES}), wild,
                            Always \cup InBraces.SAR, r.extra, code)
<1> DEFINE opt == Destination(r)
           left == Drop(r.extra, {OC_SUPPORTED_FEATURES})
           x == Count(r.extra, code)
           n(c) == Count(opt, c)
           p1 == Opening(r)
           p2 == FindFirst(opt, DEST_HOST)
           p3 == FindFirst(opt, DEST_REALM)
           p4 == AvpsOf(USER_NAME, r.userName)
           p5 == FindFirst(r.extra, OC_SUPPORTED_FEATURES)
           p6 == Having(opt, SUPPORTED_FEATURE)
           p7 == <<Avp(PUBLIC_ID, r.pubId), Avp(SERVER_NAME, r.serverName)>>
           p8 == Rest(opt, {DEST_HOST, DEST_REALM})
           p9 == <<Avp(SERVER_ASSIGNMENT_TYPE, r.assignment), Avp(USER_DATA_ALREADY_AVAILABLE, 0)>>
           p10 == AvpsOf(MULTI_REG_INDICATION, IF r.restorationInfo THEN r.multiRegInd ELSE <<>>)
           front == p1 \o p2 \o p3 \o p4 \o p5 \o p6 \o p7 \o p8 \o p9 \o p10
<1>1. diaBuildSar(r, wild) = front \o Trailer(left, wild)
  BY DEF diaBuildSar, diaCxSar_encode
<1>2. IsSeq(r.extra) /\ x \in Nat
  BY RequestTypes, CountType
<1>3. ASSUME NEW c
      PROVE  /\ IsSeq(opt) /\ n(c) \in Nat
             /\ c \notin {DEST_HOST, DEST_REALM, SUPPORTED_FEATURE} => n(c) = 0
             /\ n(DEST_REALM) = 1
  BY DestinationCount
<1> HIDE DEF opt
<1>4. /\ IsSeq(p1) /\ Leads(p1, SESSION_ID)
      /\ Count(p1, code) = IF code \in Always THEN 1 ELSE 0
  BY OpeningCount
<1>5. IsSeq(p2) /\ Count(p2, code) = IF DEST_HOST = code /\ n(DEST_HOST) > 0 THEN 1 ELSE 0
  BY <1>3, FindFirstFound
<1>6. IsSeq(p3) /\ Count(p3, code) = IF DEST_REALM = code /\ n(DEST_REALM) > 0 THEN 1 ELSE 0
  BY <1>3, FindFirstFound
<1>7. IsSeq(p4) /\ (USER_NAME # code => Count(p4, code) = 0)
  BY RequestTypes, CountListed
<1>8. IsSeq(p5) /\ Count(p5, code) = IF OC_SUPPORTED_FEATURES = code /\ x > 0 THEN 1 ELSE 0
  BY <1>2, FindFirstFound
<1>9. IsSeq(p6) /\ Count(p6, code) = IF SUPPORTED_FEATURE = code THEN n(SUPPORTED_FEATURE) ELSE 0
  BY <1>3, HavingCount
<1>10. IsSeq(p7) /\ Count(p7, code) = One(PUBLIC_ID, code) + One(SERVER_NAME, code)
  BY TwoAvps DEF Avp
<1>11. /\ IsSeq(p8)
      /\ Count(p8, code) = IF code = SUPPORTED_FEATURE THEN 0
                             ELSE IF code \in {DEST_HOST, DEST_REALM} /\ n(code) > 0
                                    THEN n(code) - 1 ELSE n(code)
  BY <1>3, RestCount
<1>12. IsSeq(p9) /\ Count(p9, code) = One(SERVER_ASSIGNMENT_TYPE, code) + One(USER_DATA_ALREADY_AVAILABLE, code)
  BY TwoAvps DEF Avp
<1>13. IsSeq(p10) /\ (MULTI_REG_INDICATION # code => Count(p10, code) = 0)
  <2>1. IsSeq(IF r.restorationInfo THEN r.multiRegInd ELSE <<>>)
    BY RequestTypes, CountNothing
  <2> QED
    BY <2>1, CountListed
<1>14. /\ IsSeq(left)
       /\ Count(left, code) = IF code \in {OC_SUPPORTED_FEATURES} /\ x > 0 THEN x - 1 ELSE x
  BY <1>2, DropCount
<1> HIDE DEF p1, p2, p3, p4, p5, p6, p7, p8, p9, p10, left
<1>15. /\ Leads(front, SESSION_ID)
       /\ Count(front, code) = Count(p1, code) + Count(p2, code) + Count(p3, code) +
                                Count(p4, code) + Count(p5, code) + Count(p6, code) +
                                Count(p7, code) + Count(p8, code) + Count(p9, code) +
                                Count(p10, code)
  <2>1. /\ IsSeq(front)
        /\ Count(front, code) = Count(p1, code) + Count(p2, code) + Count(p3, code) +
                                 Count(p4, code) + Count(p5, code) + Count(p6, code) +
                                 Count(p7, code) + Count(p8, code) + Count(p9, code) +
                                 Count(p10, code)
    BY <1>4, <1>5, <1>6, <1>7, <1>8, <1>9, <1>10, <1>11, <1>12, <1>13, CountConcat
  <2>2. Leads(front, SESSION_ID)
    BY <1>4, <1>5, <1>6, <1>7, <1>8, <1>9, <1>10, <1>11, <1>12, <1>13, LeadsOn
  <2> HIDE DEF front
  <2> QED
    BY <2>1, <2>2
<1> HIDE DEF front
<1>16. ASSUME code \in Always \cup InBraces.SAR, x = 0
       PROVE  Count(front, code) = 1 /\ Count(left, code) = 0
  BY <1>3, <1>4, <1>5, <1>6, <1>7, <1>8, <1>9, <1>10, <1>11, <1>12, <1>13, <1>14, <1>15,
     <1>16
     DEF One, Always, InBraces, SESSION_ID, VendorSpecificAppId, AUTH_SESSION_STATE,
         OrigHost, OrigRealm, DEST_HOST, DEST_REALM, SUPPORTED_FEATURE,
         OC_SUPPORTED_FEATURES, PUBLIC_ID, USER_NAME, SERVER_NAME, SERVER_ASSIGNMENT_TYPE,
         USER_DATA_ALREADY_AVAILABLE, MULTI_REG_INDICATION
<1>17. ASSUME code \notin Parameters PROVE Count(front, code) + Count(left, code) = x
  BY <1>2, <1>3, <1>4, <1>5, <1>6, <1>7, <1>8, <1>9, <1>10, <1>11, <1>12, <1>13, <1>14,
     <1>15, <1>17
     DEF One, Always, Parameters, SESSION_ID, VendorSpecificAppId, AUTH_SESSION_STATE,
         OrigHost, OrigRealm, DEST_HOST, DEST_REALM, SUPPORTED_FEATURE,
         OC_SUPPORTED_FEATURES, PUBLIC_ID, USER_NAME, SERVER_NAME, SERVER_ASSIGNMENT_TYPE,
         USER_DATA_ALREADY_AVAILABLE, MULTI_REG_INDICATION
<1>18. LaidOut(diaBuildSar(r, wild), front, left, wild, Always \cup InBraces.SAR, r.extra, code)
  BY <1>1, <1>14, <1>15, <1>16, <1>17
     DEF LaidOut, PROXY_INFO, ROUTE_RECORD, OC_SUPPORTED_FEATURES
<1> QED
  BY <1>18 DEF left

\* A MAR has one SIP-Auth-Data-Item or none.
LEMMA AuthCount ==
  ASSUME NEW auth, NEW code
  PROVE  /\ IsSeq(diaCxMar_encodeAuthData(auth))
         /\ SIP_AUTH_DATA_ITEM # code => Count(diaCxMar_encodeAuthData(auth), code) = 0
<1> DEFINE s == diaCxMar_encodeAuthData(auth)
<1>1. s = <<>> \/ \E data : s = <<Avp(SIP_AUTH_DATA_ITEM, data)>>
  BY DEF diaCxMar_encodeAuthData
<1> HIDE DEF s
<1>2. CASE s = <<>>
  BY <1>2, CountNothing DEF s
<1>3. ASSUME NEW data, s = <<Avp(SIP_AUTH_DATA_ITEM, data)>>
      PROVE  IsSeq(s) /\ (SIP_AUTH_DATA_ITEM # code => Count(s, code) = 0)
  <2> DEFINE a == Avp(SIP_AUTH_DATA_ITEM, data)
  <2>1. a.code = SIP_AUTH_DATA_ITEM
    BY DEF Avp
  <2> HIDE DEF a
  <2>2. IsSeq(<<a>>) /\ Count(<<a>>, code) = IF a.code = code THEN 1 ELSE 0
    BY CountSingle
  <2> QED
    BY <1>3, <2>1, <2>2 DEF a
<1> QED
  BY <1>1, <1>2, <1>3 DEF s

LEMMA MarLayout ==
  ASSUME NEW r \in RequestType, Len(r.destRealm) = 1, NEW wild, NEW code
  PROVE  \E front : LaidOut(diaBuildMar(r, wild), front, Drop(r.extra, {OC_SUPPORTED_FEATURES}), wild,
                            Always \cup InBraces.MAR, r.extra, code)
<1> DEFINE opt == Destination(r)
           left == Drop(r.extra, {OC_SUPPORTED_FEATURES})
           x == Count(r.extra, code)
           n(c) == Count(opt, c)
           p1 == Opening(r)
           p2 == FindFirst(opt, DEST_HOST)
           p3 == <<Avp(DEST_REALM, DestRealmNotConfigured), Avp(USER_NAME, r.userName[1])>>
           p4 == FindFirst(r.extra, OC_SUPPORTED_FEATURES)
           p5 == Having(opt, SUPPORTED_FEATURE)
           p6 == <<Avp(PUBLIC_ID, r.pubId)>>
           p7 == diaCxMar_encodeAuthData(r.auth)
           p8 == <<Avp(SIP_NUM_AUTH_ITEMS, IF r.auth.scheme = "AKA" THEN r.auth.authItem ELSE 1),
                  Avp(SERVER_NAME, r.serverName)>>
           p9 == Rest(opt, {DEST_HOST})
           front == p1 \o p2 \o p3 \o p4 \o p5 \o p6 \o p7 \o p8 \o p9
<1>1. diaBuildMar(r, wild) = front \o Trailer(left, wild)
  BY DEF diaBuildMar, diaCxMar_encode
<1>2. IsSeq(r.extra) /\ x \in Nat
  BY RequestTypes, CountType
<1>3. ASSUME NEW c
      PROVE  /\ IsSeq(opt) /\ n(c) \in Nat
             /\ c \notin {DEST_HOST, DEST_REALM, SUPPORTED_FEATURE} => n(c) = 0
             /\ n(DEST_REALM) = 1
  BY DestinationCount
<1> HIDE DEF opt
<1>4. /\ IsSeq(p1) /\ Leads(p1, SESSION_ID)
      /\ Count(p1, code) = IF code \in Always THEN 1 ELSE 0
  BY OpeningCount
<1>5. IsSeq(p2) /\ Count(p2, code) = IF DEST_HOST = code /\ n(DEST_HOST) > 0 THEN 1 ELSE 0
  BY <1>3, FindFirstFound
<1>6. IsSeq(p3) /\ Count(p3, code) = One(DEST_REALM, code) + One(USER_NAME, code)
  BY TwoAvps DEF Avp
<1>7. IsSeq(p4) /\ Count(p4, code) = IF OC_SUPPORTED_FEATURES = code /\ x > 0 THEN 1 ELSE 0
  BY <1>2, FindFirstFound
<1>8. IsSeq(p5) /\ Count(p5, code) = IF SUPPORTED_FEATURE = code THEN n(SUPPORTED_FEATURE) ELSE 0
  BY <1>3, HavingCount
<1>9. IsSeq(p6) /\ Count(p6, code) = One(PUBLIC_ID, code)
  BY CountSingle DEF Avp, One
<1>10. IsSeq(p7) /\ (SIP_AUTH_DATA_ITEM # code => Count(p7, code) = 0)
  BY AuthCount
<1>11. IsSeq(p8) /\ Count(p8, code) = One(SIP_NUM_AUTH_ITEMS, code) + One(SERVER_NAME, code)
  BY TwoAvps DEF Avp
<1>12. /\ IsSeq(p9)
      /\ Count(p9, code) = IF code = SUPPORTED_FEATURE THEN 0
                             ELSE IF code \in {DEST_HOST} /\ n(code) > 0
                                    THEN n(code) - 1 ELSE n(code)
  BY <1>3, RestCount
<1>13. /\ IsSeq(left)
       /\ Count(left, code) = IF code \in {OC_SUPPORTED_FEATURES} /\ x > 0 THEN x - 1 ELSE x
  BY <1>2, DropCount
<1> HIDE DEF p1, p2, p3, p4, p5, p6, p7, p8, p9, left
<1>14. /\ Leads(front, SESSION_ID)
       /\ Count(front, code) = Count(p1, code) + Count(p2, code) + Count(p3, code) +
                                Count(p4, code) + Count(p5, code) + Count(p6, code) +
                                Count(p7, code) + Count(p8, code) + Count(p9, code)
  <2>1. /\ IsSeq(front)
        /\ Count(front, code) = Count(p1, code) + Count(p2, code) + Count(p3, code) +
                                 Count(p4, code) + Count(p5, code) + Count(p6, code) +
                                 Count(p7, code) + Count(p8, code) + Count(p9, code)
    BY <1>4, <1>5, <1>6, <1>7, <1>8, <1>9, <1>10, <1>11, <1>12, CountConcat
  <2>2. Leads(front, SESSION_ID)
    BY <1>4, <1>5, <1>6, <1>7, <1>8, <1>9, <1>10, <1>11, <1>12, LeadsOn
  <2> HIDE DEF front
  <2> QED
    BY <2>1, <2>2
<1> HIDE DEF front
<1>15. ASSUME code \in Always \cup InBraces.MAR, x = 0
       PROVE  Count(front, code) = 1 /\ Count(left, code) = 0
  BY <1>3, <1>4, <1>5, <1>6, <1>7, <1>8, <1>9, <1>10, <1>11, <1>12, <1>13, <1>14, <1>15
     DEF One, Always, InBraces, SESSION_ID, VendorSpecificAppId, AUTH_SESSION_STATE,
         OrigHost, OrigRealm, DEST_HOST, DEST_REALM, SUPPORTED_FEATURE,
         OC_SUPPORTED_FEATURES, PUBLIC_ID, USER_NAME, SERVER_NAME, SIP_NUM_AUTH_ITEMS,
         SIP_AUTH_DATA_ITEM
<1>16. ASSUME code \notin Parameters PROVE Count(front, code) + Count(left, code) = x
  BY <1>2, <1>3, <1>4, <1>5, <1>6, <1>7, <1>8, <1>9, <1>10, <1>11, <1>12, <1>13, <1>14,
     <1>16
     DEF One, Always, Parameters, SESSION_ID, VendorSpecificAppId, AUTH_SESSION_STATE,
         OrigHost, OrigRealm, DEST_HOST, DEST_REALM, SUPPORTED_FEATURE,
         OC_SUPPORTED_FEATURES, PUBLIC_ID, USER_NAME, SERVER_NAME, SIP_NUM_AUTH_ITEMS,
         SIP_AUTH_DATA_ITEM
<1>17. LaidOut(diaBuildMar(r, wild), front, left, wild, Always \cup InBraces.MAR, r.extra, code)
  BY <1>1, <1>13, <1>14, <1>15, <1>16
     DEF LaidOut, PROXY_INFO, ROUTE_RECORD, OC_SUPPORTED_FEATURES
<1> QED
  BY <1>17 DEF left

\* Where one of two lists has nothing of a code, it is in the other.
LEMMA HavingEither ==
  ASSUME NEW s, NEW t, IsSeq(s), IsSeq(t), NEW code
  PROVE  /\ IsSeq(s \o t)
         /\ Count(s, code) = 0 => Having(s \o t, code) = Having(t, code)
         /\ Count(t, code) = 0 => Having(s \o t, code) = Having(s, code)
<1>1. PICK S : s \in Seq(S) /\ t \in Seq(S)
  BY SeqPair
<1>2. s \o t \in Seq(S) /\ Having(s \o t, code) = Having(s, code) \o Having(t, code)
  BY <1>1, HavingConcat, ConcatProperties
<1>3. Having(s, code) \in Seq(S) /\ Having(t, code) \in Seq(S)
  BY <1>1, HavingType
<1>4. Count(s, code) = 0 => Having(s, code) = <<>>
  BY CountType
<1>5. Count(t, code) = 0 => Having(t, code) = <<>>
  BY CountType
<1>6. <<>> \o Having(t, code) = Having(t, code) /\ Having(s, code) \o <<>> = Having(s, code)
  BY <1>3, ConcatEmptySeq
<1> QED
  BY <1>2, <1>4, <1>5, <1>6, Zenon DEF IsSeq

\* The capabilities of a UAA, of which there is one at most.
Capability(r) == [i \in DOMAIN r.cap |-> ServerCapability(r.cap[i])]

\* What the application is to hear of a UAA, and what ours says besides.
Says(list, r) ==
  /\ Begins(list, Avp(SESSION_ID, r.sessionId))
  /\ Having(list, SERVER_NAME) = AvpsOf(SERVER_NAME, r.serverNames)
  /\ Having(list, ResultCode) = IF r.isResultCode THEN <<Avp(ResultCode, r.result)>> ELSE <<>>

Answers(front, r) ==
  /\ Says(front, r)
  /\ Having(front, SERVER_CAPABILITY) = Capability(r)
  /\ Count(front, ResultCode) + Count(front, EXPERIMENTAL_RESULT) = 1

\* The options of a UAA.
UaaOptions(r) ==
  diaAvp_encodeSupportedFeature(r.featureLists)
    \o AvpsOf(SERVER_NAME, r.serverNames)
    \o [i \in DOMAIN r.cap |-> ServerCapability(r.cap[i])]

LEMMA UaaOptionCount ==
  ASSUME NEW r \in RequestType, Len(r.serverNames) <= 1, Len(r.cap) <= 1, NEW c
  PROVE  /\ IsSeq(UaaOptions(r)) /\ Count(UaaOptions(r), c) \in Nat
         /\ c \notin {SERVER_NAME, SERVER_CAPABILITY, SUPPORTED_FEATURE} => Count(UaaOptions(r), c) = 0
         /\ c = SERVER_NAME => /\ Count(UaaOptions(r), c) <= 1
                               /\ Having(UaaOptions(r), c) = AvpsOf(SERVER_NAME, r.serverNames)
         /\ c = SERVER_CAPABILITY => /\ Count(UaaOptions(r), c) <= 1
                                     /\ Having(UaaOptions(r), c) = Capability(r)
<1> DEFINE o1 == diaAvp_encodeSupportedFeature(r.featureLists)
           o2 == AvpsOf(SERVER_NAME, r.serverNames)
           o3 == Capability(r)
           opt == UaaOptions(r)
           n == Len(r.cap)
<1>1. IsSeq(r.serverNames) /\ IsSeq(r.featureLists) /\ IsSeq(r.cap)
  BY RequestTypes
<1>2. IsSeq(o1) /\ (SUPPORTED_FEATURE # c => Count(o1, c) = 0)
  BY <1>1, FeatureCount
<1>3. /\ IsSeq(o2) /\ Count(o2, c) = IF SERVER_NAME = c THEN Len(r.serverNames) ELSE 0
      /\ SERVER_NAME = c => Having(o2, c) = o2
  BY <1>1, CountListed, HavingListed
<1>4. n \in Nat /\ DOMAIN r.cap = 1..n
  BY <1>1, IsSeqLen
<1>5. IsList(o3, n) /\ \A i \in 1..n : o3[i].code = SERVER_CAPABILITY
  BY <1>4 DEF Capability, IsList, ServerCapability, Avp
<1>6. opt = o1 \o o2 \o o3
  BY DEF UaaOptions, Capability
<1>7. n <= 1 /\ Len(r.serverNames) <= 1
  OBVIOUS
<1> HIDE DEF o1, o2, o3, opt, n
<1>8. /\ IsSeq(o3) /\ Count(o3, c) = IF SERVER_CAPABILITY = c THEN n ELSE 0
      /\ SERVER_CAPABILITY = c => Having(o3, c) = o3
  <2>1. /\ IsSeq(o3) /\ Having(o3, c) = IF SERVER_CAPABILITY = c THEN o3 ELSE <<>>
        /\ Count(o3, c) = IF SERVER_CAPABILITY = c THEN n ELSE 0
    <3>1. ASSUME NEW own, \A i \in 1..n : o3[i].code = own
          PROVE  /\ IsSeq(o3) /\ Having(o3, c) = IF own = c THEN o3 ELSE <<>>
                 /\ Count(o3, c) = IF own = c THEN n ELSE 0
      BY <1>4, <1>5, <3>1, CountAlike, ZenonT(60)
    <3> QED
      BY <1>5, <3>1
  <2> QED
    BY <2>1
<1>9. IsSeq(o1 \o o2) /\ Count(o1 \o o2, c) = Count(o1, c) + Count(o2, c)
  BY <1>2, <1>3, CountConcat
<1>10. IsSeq(opt) /\ Count(opt, c) = Count(o1, c) + Count(o2, c) + Count(o3, c)
  BY <1>6, <1>8, <1>9, CountConcat
<1>11. Count(opt, c) \in Nat
  BY <1>10, CountType
<1>12. ASSUME c \notin {SERVER_NAME, SERVER_CAPABILITY, SUPPORTED_FEATURE} PROVE Count(opt, c) = 0
  <2>1. Count(o1, c) = 0 /\ Count(o2, c) = 0 /\ Count(o3, c) = 0
    BY <1>2, <1>3, <1>8, <1>12
  <2> QED
    BY <1>10, <2>1
<1>13. SERVER_NAME = 602 /\ SERVER_CAPABILITY = 603 /\ SUPPORTED_FEATURE = 628
  BY DEF SERVER_NAME, SERVER_CAPABILITY, SUPPORTED_FEATURE
<1>14. ASSUME c = SERVER_NAME PROVE Count(opt, c) <= 1 /\ Having(opt, c) = o2
  <2>1. Count(o1, c) = 0 /\ Count(o2, c) = Len(r.serverNames) /\ Count(o3, c) = 0 /\ Having(o2, c) = o2
    BY <1>2, <1>3, <1>8, <1>13, <1>14
  <2>2. Having(o1 \o o2, c) = Having(o2, c)
    BY <1>2, <1>3, <2>1, HavingEither
  <2>3. Having(opt, c) = Having(o1 \o o2, c)
    BY <1>6, <1>8, <1>9, <2>1, HavingEither
  <2>4. Count(o2, c) \in Nat
    BY <1>3, CountType
  <2> QED
    BY <1>7, <1>10, <2>1, <2>2, <2>3, <2>4
<1>15. ASSUME c = SERVER_CAPABILITY PROVE Count(opt, c) <= 1 /\ Having(opt, c) = o3
  <2>1. Count(o1, c) = 0 /\ Count(o2, c) = 0 /\ Count(o3, c) = n /\ Having(o3, c) = o3
    BY <1>2, <1>3, <1>8, <1>13, <1>15
  <2>2. Count(o1 \o o2, c) = 0
    BY <1>9, <2>1
  <2>3. Having(opt, c) = Having(o3, c)
    BY <1>6, <1>8, <1>9, <2>2, HavingEither
  <2> QED
    BY <1>4, <1>7, <1>10, <2>1, <2>3
<1> QED
  BY <1>10, <1>11, <1>12, <1>14, <1>15 DEF opt, o2, o3

LEMMA UaaLayout ==
  ASSUME NEW r \in RequestType, Len(r.serverNames) <= 1, Len(r.cap) <= 1, NEW wild, NEW code
  PROVE  \E front : /\ LaidOut(diaCxUaa_encode(r, UaaOptions(r), wild), front,
                               Drop(r.extra, {OC_SUPPORTED_FEATURES}),
                               wild, Always \cup InBraces.UAA, r.extra, code)
                    /\ (\A c \in {SERVER_NAME, SERVER_CAPABILITY, ResultCode, EXPERIMENTAL_RESULT} :
                          Count(r.extra, c) = 0) => Answers(front, r)
<1> DEFINE opt == UaaOptions(r)
           left == Drop(r.extra, {OC_SUPPORTED_FEATURES})
           x(c) == Count(r.extra, c)
           n(c) == Count(opt, c)
           result == IF r.isResultCode THEN Avp(ResultCode, r.result)
                     ELSE Avp(EXPERIMENTAL_RESULT, <<Avp(ExpResultCode, r.result)>>)
           p1 == <<Avp(SESSION_ID, r.sessionId), diaAvp_encodeVendorSpecificAppId>>
           p2 == <<result>>
           p3 == <<Avp(AUTH_SESSION_STATE, 1)>>
           p4 == Origin(r)
           p5 == FindFirst(r.extra, OC_SUPPORTED_FEATURES)
           p6 == Having(opt, SUPPORTED_FEATURE)
           p7 == FindFirst(opt, SERVER_NAME)
           p8 == FindFirst(opt, SERVER_CAPABILITY)
           p9 == Rest(opt, {SERVER_NAME, SERVER_CAPABILITY})
           first == p1 \o p2 \o p3
           front == first \o p4 \o p5 \o p6 \o p7 \o p8 \o p9
<1>1. diaCxUaa_encode(r, opt, wild) = front \o Trailer(left, wild)
  <2> DEFINE four == <<Avp(SESSION_ID, r.sessionId), diaAvp_encodeVendorSpecificAppId, result,
                       Avp(AUTH_SESSION_STATE, 1)>>
  <2>1. diaCxUaa_encode(r, opt, wild) = (four \o p4 \o p5 \o p6 \o p7 \o p8 \o p9) \o Trailer(left, wild)
    BY DEF diaCxUaa_encode, UaaResult
  <2>2. four = first
    OBVIOUS
  <2> HIDE DEF four, first, p4, p5, p6, p7, p8, p9, left
  <2> QED
    BY <2>1, <2>2
<1>2. IsSeq(r.extra) /\ \A c : x(c) \in Nat
  BY RequestTypes, CountType
<1>3. ASSUME NEW c
      PROVE  /\ IsSeq(opt) /\ n(c) \in Nat
             /\ c \notin {SERVER_NAME, SERVER_CAPABILITY, SUPPORTED_FEATURE} => n(c) = 0
             /\ n(SERVER_NAME) <= 1 /\ n(SERVER_CAPABILITY) <= 1
             /\ Having(opt, SERVER_NAME) = AvpsOf(SERVER_NAME, r.serverNames)
             /\ Having(opt, SERVER_CAPABILITY) = Capability(r)
  BY UaaOptionCount
<1>4. result.code = (IF r.isResultCode THEN ResultCode ELSE EXPERIMENTAL_RESULT)
  BY DEF Avp
<1>5. r.isResultCode => result = Avp(ResultCode, r.result)
  OBVIOUS
<1> HIDE DEF opt, result
<1>6. ASSUME NEW c
      PROVE  /\ IsSeq(p1) /\ Leads(p1, SESSION_ID) /\ Begins(p1, Avp(SESSION_ID, r.sessionId))
             /\ Count(p1, c) = One(SESSION_ID, c) + One(VendorSpecificAppId, c)
  <2>1. IsSeq(p1) /\ Count(p1, c) = One(SESSION_ID, c) + One(VendorSpecificAppId, c)
    BY TwoAvps DEF Avp, diaAvp_encodeVendorSpecificAppId
  <2>2. Len(p1) > 0 /\ p1[1].code = SESSION_ID /\ p1[1] = Avp(SESSION_ID, r.sessionId)
    BY DEF Avp
  <2> QED
    BY <2>1, <2>2 DEF Leads, Begins
<1>7. ASSUME NEW c
      PROVE  /\ IsSeq(p2) /\ Count(p2, c) = One(result.code, c)
             /\ Having(p2, c) = IF result.code = c THEN <<result>> ELSE <<>>
  BY CountSingle, HavingSingle DEF One
<1>8. ASSUME NEW c PROVE IsSeq(p3) /\ Count(p3, c) = One(AUTH_SESSION_STATE, c)
  BY CountSingle DEF Avp, One
<1>9. ASSUME NEW c PROVE IsSeq(p4) /\ Count(p4, c) = One(OrigHost, c) + One(OrigRealm, c)
  BY TwoAvps DEF Avp, Origin
<1>10. ASSUME NEW c
       PROVE  /\ IsSeq(p5)
              /\ Count(p5, c) = IF OC_SUPPORTED_FEATURES = c /\ x(c) > 0 THEN 1 ELSE 0
  BY <1>2, FindFirstFound
<1>11. ASSUME NEW c
       PROVE IsSeq(p6) /\ Count(p6, c) = IF SUPPORTED_FEATURE = c THEN n(SUPPORTED_FEATURE) ELSE 0
  BY <1>3, HavingCount
<1>12. ASSUME NEW own, NEW c, n(own) <= 1
       PROVE  /\ IsSeq(FindFirst(opt, own))
              /\ Count(FindFirst(opt, own), c) = IF own = c THEN n(own) ELSE 0
              /\ own = c => Having(FindFirst(opt, own), c) = Having(opt, own)
  <2>1. /\ IsSeq(FindFirst(opt, own))
        /\ n(own) = 1 => FindFirst(opt, own) = Having(opt, own)
        /\ Having(FindFirst(opt, own), c) = IF own = c THEN FindFirst(opt, own) ELSE <<>>
        /\ Count(FindFirst(opt, own), c) = IF own = c /\ n(own) > 0 THEN 1 ELSE 0
    BY <1>3, FindFirstFound
  <2>2. n(own) \in Nat /\ (n(own) = 0 <=> Having(opt, own) = <<>>)
    BY <1>3, CountType
  <2>3. n(own) = 0 \/ n(own) = 1
    BY <1>12, <2>2
  <2>4. n(own) = 0 => Count(FindFirst(opt, own), own) = 0
    <3>1. Count(FindFirst(opt, own), own) = IF n(own) > 0 THEN 1 ELSE 0
      BY <1>3, FindFirstFound
    <3> QED
      BY <3>1
  <2>5. Count(FindFirst(opt, own), own) = 0 <=> Having(FindFirst(opt, own), own) = <<>>
    BY <2>1, CountType
  <2> QED
    BY <2>1, <2>2, <2>3, <2>4, <2>5
<1>13. ASSUME NEW c
       PROVE  /\ IsSeq(p7) /\ Count(p7, c) = IF SERVER_NAME = c THEN n(SERVER_NAME) ELSE 0
              /\ SERVER_NAME = c => Having(p7, c) = Having(opt, SERVER_NAME)
  BY <1>3, <1>12
<1>14. ASSUME NEW c
       PROVE  /\ IsSeq(p8) /\ Count(p8, c) = IF SERVER_CAPABILITY = c THEN n(SERVER_CAPABILITY) ELSE 0
              /\ SERVER_CAPABILITY = c => Having(p8, c) = Having(opt, SERVER_CAPABILITY)
  BY <1>3, <1>12
<1>15. ASSUME NEW c
       PROVE  IsSeq(p9) /\ Count(p9, c) = 0
  <2>1. IsSeq(p9) /\ Count(p9, c) = IF c = SUPPORTED_FEATURE THEN 0
                      ELSE IF c \in {SERVER_NAME, SERVER_CAPABILITY} /\ n(c) > 0 THEN n(c) - 1 ELSE n(c)
    BY <1>3, RestCount
  <2>2. n(c) \in Nat /\ (c \in {SERVER_NAME, SERVER_CAPABILITY} => n(c) <= 1)
    BY <1>3
  <2> QED
    BY <1>3, <2>1, <2>2
<1>16. ASSUME NEW c
       PROVE  IsSeq(left) /\ Count(left, c) = IF c \in {OC_SUPPORTED_FEATURES} /\ x(c) > 0
                                                THEN x(c) - 1 ELSE x(c)
  BY <1>2, DropCount
<1> HIDE DEF p1, p2, p3, p4, p5, p6, p7, p8, p9, left
<1>17. ASSUME NEW c
       PROVE  /\ IsSeq(first) /\ Leads(first, SESSION_ID)
              /\ Count(first, c) = Count(p1, c) + Count(p2, c) + Count(p3, c)
              /\ Count(p1, c) = 0 /\ Count(p3, c) = 0 => Having(first, c) = Having(p2, c)
  <2>1. /\ IsSeq(p1 \o p2) /\ Leads(p1 \o p2, SESSION_ID)
        /\ Count(p1 \o p2, c) = Count(p1, c) + Count(p2, c)
        /\ Count(p1, c) = 0 => Having(p1 \o p2, c) = Having(p2, c)
    BY <1>6, <1>7, CountConcat, LeadsOn, HavingEither
  <2> QED
    BY <1>8, <2>1, CountConcat, LeadsOn, HavingEither
<1>begins. Begins(front, Avp(SESSION_ID, r.sessionId))
  <2>1. Begins(p1 \o p2, Avp(SESSION_ID, r.sessionId))
    BY <1>6, <1>7, BeginsOn
  <2>2. Begins(first, Avp(SESSION_ID, r.sessionId))
    BY <1>8, <2>1, BeginsOn
  <2> HIDE DEF first
  <2> QED
    BY <1>9, <1>10, <1>11, <1>13, <1>14, <1>15, <2>2, BeginsOn
<1> HIDE DEF first
<1>18. ASSUME NEW c
       PROVE  /\ IsSeq(front) /\ Leads(front, SESSION_ID)
              /\ Count(front, c) = Count(first, c) + Count(p4, c) + Count(p5, c) + Count(p6, c)
                                     + Count(p7, c) + Count(p8, c) + Count(p9, c)
  <2>1. /\ IsSeq(front)
        /\ Count(front, c) = Count(first, c) + Count(p4, c) + Count(p5, c) + Count(p6, c)
                               + Count(p7, c) + Count(p8, c) + Count(p9, c)
    BY <1>9, <1>10, <1>11, <1>13, <1>14, <1>15, <1>17, CountConcat
  <2>2. Leads(front, SESSION_ID)
    BY <1>9, <1>10, <1>11, <1>13, <1>14, <1>15, <1>17, LeadsOn
  <2> HIDE DEF front
  <2> QED
    BY <2>1, <2>2
<1>19. ASSUME NEW c, Count(p4, c) = 0, Count(p5, c) = 0, Count(p6, c) = 0, Count(p9, c) = 0
       PROVE  /\ Count(p7, c) = 0 /\ Count(p8, c) = 0 => Having(front, c) = Having(first, c)
              /\ Count(first, c) = 0 /\ Count(p8, c) = 0 => Having(front, c) = Having(p7, c)
              /\ Count(first, c) = 0 /\ Count(p7, c) = 0 => Having(front, c) = Having(p8, c)
  <2> DEFINE q1 == first \o p4 \o p5 \o p6
             q2 == q1 \o p7
             q3 == q2 \o p8
  <2>1. IsSeq(q1) /\ Having(q1, c) = Having(first, c)
    BY <1>9, <1>10, <1>11, <1>17, <1>19, HavingEither
  <2>2. Count(q1, c) = Count(first, c)
    BY <1>9, <1>10, <1>11, <1>17, <1>19, <2>1 DEF Count
  <2> HIDE DEF q1
  <2>3. /\ IsSeq(q2) /\ Count(q2, c) = Count(q1, c) + Count(p7, c)
        /\ Count(q1, c) = 0 => Having(q2, c) = Having(p7, c)
        /\ Count(p7, c) = 0 => Having(q2, c) = Having(q1, c)
    BY <1>13, <2>1, CountConcat, HavingEither
  <2> HIDE DEF q2
  <2>4. /\ IsSeq(q3)
        /\ Count(q2, c) = 0 => Having(q3, c) = Having(p8, c)
        /\ Count(p8, c) = 0 => Having(q3, c) = Having(q2, c)
    BY <1>14, <2>3, HavingEither
  <2>5. front = q3 \o p9
    BY DEF q1, q2
  <2> HIDE DEF q3, front
  <2>6. Having(front, c) = Having(q3, c)
    BY <1>15, <1>19, <2>4, <2>5, HavingEither
  <2> QED
    BY <2>1, <2>2, <2>3, <2>4, <2>6
<1> HIDE DEF front
<1>20. ASSUME code \in Always \cup InBraces.UAA, x(code) = 0
       PROVE  Count(front, code) = 1 /\ Count(left, code) = 0
  <2>1. code \in {SESSION_ID, VendorSpecificAppId, AUTH_SESSION_STATE, OrigHost, OrigRealm}
    BY <1>20 DEF Always, InBraces
  <2>2. code \notin {OC_SUPPORTED_FEATURES, SUPPORTED_FEATURE, SERVER_NAME, SERVER_CAPABILITY,
                     ResultCode, EXPERIMENTAL_RESULT}
    BY <2>1 DEF SESSION_ID, VendorSpecificAppId, AUTH_SESSION_STATE, OrigHost, OrigRealm,
                SUPPORTED_FEATURE, OC_SUPPORTED_FEATURES, SERVER_NAME, SERVER_CAPABILITY,
                ResultCode, EXPERIMENTAL_RESULT
  <2>3. Count(p5, code) = 0 /\ Count(p6, code) = 0 /\ Count(p7, code) = 0
        /\ Count(p8, code) = 0 /\ Count(p9, code) = 0
    BY <1>10, <1>11, <1>13, <1>14, <1>15, <2>2
  <2>4. Count(p2, code) = 0
    BY <1>4, <1>7, <2>2 DEF One
  <2>5. Count(p1, code) + Count(p3, code) + Count(p4, code) = 1
    BY <1>6, <1>8, <1>9, <2>1
       DEF One, SESSION_ID, VendorSpecificAppId, AUTH_SESSION_STATE, OrigHost, OrigRealm
  <2>6. Count(front, code) = Count(p1, code) + Count(p3, code) + Count(p4, code)
    <3>1. /\ Count(p1, code) \in Nat /\ Count(p3, code) \in Nat /\ Count(p4, code) \in Nat
      BY <1>6, <1>8, <1>9, CountType
    <3> QED
      BY <1>17, <1>18, <2>3, <2>4, <3>1
  <2>7. Count(left, code) = 0
    BY <1>16, <1>20
  <2> QED
    BY <2>5, <2>6, <2>7
<1>21. ASSUME code \notin Parameters PROVE Count(front, code) + Count(left, code) = x(code)
  BY <1>2, <1>3, <1>4, <1>6, <1>7, <1>8, <1>9, <1>10, <1>11, <1>13, <1>14, <1>15, <1>16, <1>17, <1>18,
     <1>21
     DEF One, Parameters, SESSION_ID, VendorSpecificAppId, AUTH_SESSION_STATE, OrigHost,
         OrigRealm, SUPPORTED_FEATURE, OC_SUPPORTED_FEATURES, SERVER_NAME, SERVER_CAPABILITY,
         ResultCode, EXPERIMENTAL_RESULT
<1>22. LaidOut(diaCxUaa_encode(r, opt, wild), front, left, wild, Always \cup InBraces.UAA, r.extra, code)
  BY <1>1, <1>16, <1>18, <1>20, <1>21
     DEF LaidOut, PROXY_INFO, ROUTE_RECORD, OC_SUPPORTED_FEATURES
<1>23. ASSUME x(SERVER_NAME) = 0, x(SERVER_CAPABILITY) = 0, x(ResultCode) = 0,
              x(EXPERIMENTAL_RESULT) = 0
       PROVE  Answers(front, r)
  <2>1. Having(front, SERVER_NAME) = Having(opt, SERVER_NAME)
    <3>1. /\ Count(p4, SERVER_NAME) = 0 /\ Count(p5, SERVER_NAME) = 0 /\ Count(p6, SERVER_NAME) = 0
          /\ Count(first, SERVER_NAME) = 0 /\ Count(p8, SERVER_NAME) = 0
      BY <1>4, <1>6, <1>7, <1>8, <1>9, <1>10, <1>11, <1>14, <1>17, <1>23
         DEF One, SESSION_ID, VendorSpecificAppId, AUTH_SESSION_STATE, OrigHost, OrigRealm,
             SUPPORTED_FEATURE, OC_SUPPORTED_FEATURES, SERVER_NAME, SERVER_CAPABILITY,
             ResultCode, EXPERIMENTAL_RESULT
    <3> QED
      BY <1>13, <1>15, <1>19, <3>1
  <2>2. Having(front, SERVER_CAPABILITY) = Having(opt, SERVER_CAPABILITY)
    <3>1. /\ Count(p4, SERVER_CAPABILITY) = 0 /\ Count(p5, SERVER_CAPABILITY) = 0
          /\ Count(p6, SERVER_CAPABILITY) = 0
          /\ Count(first, SERVER_CAPABILITY) = 0 /\ Count(p7, SERVER_CAPABILITY) = 0
      BY <1>4, <1>6, <1>7, <1>8, <1>9, <1>10, <1>11, <1>13, <1>17, <1>23
         DEF One, SESSION_ID, VendorSpecificAppId, AUTH_SESSION_STATE, OrigHost, OrigRealm,
             SUPPORTED_FEATURE, OC_SUPPORTED_FEATURES, SERVER_NAME, SERVER_CAPABILITY,
             ResultCode, EXPERIMENTAL_RESULT
    <3> QED
      BY <1>14, <1>15, <1>19, <3>1
  <2>3. ASSUME NEW c \in {ResultCode, EXPERIMENTAL_RESULT}
        PROVE  /\ Having(front, c) = Having(p2, c)
               /\ Count(front, c) = IF result.code = c THEN 1 ELSE 0
    <3>1. /\ Count(p4, c) = 0 /\ Count(p5, c) = 0 /\ Count(p6, c) = 0
          /\ Count(p7, c) = 0 /\ Count(p8, c) = 0 /\ Count(p1, c) = 0 /\ Count(p3, c) = 0
      BY <1>6, <1>8, <1>9, <1>10, <1>11, <1>13, <1>14, <1>23
         DEF One, SESSION_ID, VendorSpecificAppId, AUTH_SESSION_STATE, OrigHost, OrigRealm,
             SUPPORTED_FEATURE, OC_SUPPORTED_FEATURES, SERVER_NAME, SERVER_CAPABILITY,
             ResultCode, EXPERIMENTAL_RESULT
    <3>2. Having(front, c) = Having(p2, c)
      BY <1>15, <1>17, <1>19, <3>1
    <3> QED
      BY <1>7, <3>2 DEF Count, One
  <2>4. ResultCode = 268 /\ EXPERIMENTAL_RESULT = 297
    BY DEF ResultCode, EXPERIMENTAL_RESULT
  <2>5. Count(front, ResultCode) + Count(front, EXPERIMENTAL_RESULT) = 1
    BY <1>4, <2>3, <2>4
  <2>6. Having(front, ResultCode) = IF r.isResultCode THEN <<Avp(ResultCode, r.result)>> ELSE <<>>
    <3>1. Having(front, ResultCode) = IF result.code = ResultCode THEN <<result>> ELSE <<>>
      BY <1>7, <2>3
    <3> QED
      BY <1>4, <1>5, <2>4, <3>1
  <2> QED
    BY <1>3, <1>begins, <2>1, <2>2, <2>5, <2>6 DEF Answers, Says
<1> QED
  BY <1>22, <1>23 DEF left, opt

(***************************************************************************)
(* What the peer has decoded of a message                                  *)
(***************************************************************************)
AllHeard(cmd, list) == [i \in 1..Len(list) |-> Heard(cmd, list[i])]

LEMMA AllHeardList ==
  ASSUME NEW cmd, NEW S, NEW s \in Seq(S)
  PROVE  /\ IsList(AllHeard(cmd, s), Len(s)) /\ Len(s) \in Nat
         /\ IsSeq(AllHeard(cmd, s)) /\ Len(AllHeard(cmd, s)) = Len(s)
         /\ DOMAIN AllHeard(cmd, s) = 1..Len(s)
         /\ \A i \in 1..Len(s) : AllHeard(cmd, s)[i] = Heard(cmd, s[i])
<1> DEFINE t == AllHeard(cmd, s)
           n == Len(s)
           T == {t[i] : i \in 1..n}
<1>1. n \in Nat
  BY LenProperties
<1>2. IsList(t, n) /\ \A i \in 1..n : t[i] = Heard(cmd, s[i])
  BY DEF AllHeard, IsList
<1> HIDE DEF n, t
<1>3. Len(t) = n /\ DOMAIN t = 1..n /\ \A S1 : (\A i \in 1..n : t[i] \in S1) => t \in Seq(S1)
  BY <1>1, <1>2, ListType
<1>4. \A i \in 1..n : t[i] \in T
  OBVIOUS
<1> HIDE DEF T
<1>5. IsSeq(t)
  BY <1>3, <1>4 DEF IsSeq
<1> QED
  BY <1>1, <1>2, <1>3, <1>5 DEF t, n

LEMMA HeardData ==
  ASSUME NEW cmd, NEW a
  PROVE  /\ Heard(cmd, a).code = a.code /\ Heard(cmd, a).type = TypeOf(cmd, a)
         /\ TypeOf(cmd, a) \in {"octets", "uint32", "uint64"} => Heard(cmd, a).data = a.data
         /\ TypeOf(cmd, a) = "grouped" => Heard(cmd, a).data = Expected(cmd)[a.data]
BY DEF Heard, Meant, TypeOf

LEMMA ExpectedKnown ==
  ASSUME NEW cmd \in Cmds, NEW list \in Seq(Avps),
         \A i \in 1..Len(list) : TypeOf(cmd, list[i]) # "unknown"
  PROVE  Expected(cmd)[list] = AllHeard(cmd, list)
<1>1. DOMAIN list = 1..Len(list)
  BY LenProperties
<1>2. Known(cmd, list) = list
  <2> DEFINE at == {i \in DOMAIN list : diaGetAvpInfo(cmd, list[i].code).type # "unknown"}
  <2>1. \A i \in 1..Len(list) : i \in at
    BY <1>1 DEF TypeOf
  <2>2. Known(cmd, list) = Those(list, at)
    BY DEF Known
  <2> HIDE DEF at
  <2> QED
    BY <2>1, <2>2, ThoseAll
<1>3. Expected(cmd)[list] = [i \in DOMAIN Known(cmd, list) |-> Heard(cmd, Known(cmd, list)[i])]
  BY ExpectedWorks
<1> QED
  BY <1>1, <1>2, <1>3, Zenon DEF AllHeard

\* Looking for a code before or after the decoding is the same.
LEMMA HeardHaving ==
  ASSUME NEW cmd, NEW S, NEW s \in Seq(S), NEW code
  PROVE  Having(AllHeard(cmd, s), code) = AllHeard(cmd, Having(s, code))
<1> DEFINE T == {r \in Seq(S) : Having(AllHeard(cmd, r), code) = AllHeard(cmd, Having(r, code))}
<1>1. <<>> \in T
  <2>1. Having(<<>>, code) = <<>> /\ <<>> \in Seq(S) /\ AllHeard(cmd, <<>>) = <<>>
    BY HavingNothing, EmptySeq DEF AllHeard
  <2> QED
    BY <2>1
<1>2. ASSUME NEW r \in Seq(S), NEW x \in S
      PROVE  AllHeard(cmd, Append(r, x)) = Append(AllHeard(cmd, r), Heard(cmd, x))
  <2> DEFINE n == Len(r)
             t == Append(r, x)
             g == AllHeard(cmd, r)
             h == AllHeard(cmd, t)
             y == Heard(cmd, x)
  <2>1. n \in Nat /\ t \in Seq(S) /\ Len(t) = n + 1 /\ t[n + 1] = x /\ \A i \in 1..n : t[i] = r[i]
    BY AppendProperties, LenProperties
  <2>2. IsList(g, n) /\ \A i \in 1..n : g[i] = Heard(cmd, r[i])
    BY AllHeardList
  <2>3. IsList(h, n + 1) /\ \A i \in 1..(n + 1) : h[i] = Heard(cmd, t[i])
    <3> HIDE DEF t
    <3>1. IsList(h, Len(t)) /\ \A i \in 1..Len(t) : h[i] = Heard(cmd, t[i])
      BY <2>1, AllHeardList
    <3> QED
      BY <2>1, <3>1
  <2> HIDE DEF n, t, g, h, y
  <2>4. Grown(g, n, y, Append(g, y))
    BY <2>1, <2>2, ListAppend
  <2> DEFINE k == Append(g, y)
  <2>5. IsList(k, n + 1) /\ k[n + 1] = y /\ \A i \in 1..n : k[i] = g[i]
    BY <2>4, Zenon DEF Grown
  <2> HIDE DEF k
  <2>6. \A i \in 1..(n + 1) : i \in 1..n \/ i = n + 1
    BY <2>1
  <2>7. n + 1 \in 1..(n + 1) /\ \A i \in 1..n : i \in 1..(n + 1)
    BY <2>1
  <2>8. h[n + 1] = y
    BY <2>1, <2>3, <2>7 DEF y
  <2>9. \A i \in 1..n : h[i] = g[i]
    BY <2>1, <2>2, <2>3, <2>7
  <2>10. \A i \in 1..(n + 1) : h[i] = k[i]
    BY <2>5, <2>6, <2>8, <2>9
  <2>11. h = k
    BY <2>3, <2>5, <2>10, ListsAlike
  <2> QED
    BY <2>11 DEF h, k, g, y, t
<1>3. ASSUME NEW r \in Seq(S), NEW x \in S, r \in T PROVE Append(r, x) \in T
  <2> DEFINE t == Append(r, x)
             g == AllHeard(cmd, r)
             y == Heard(cmd, x)
             h == Having(r, code)
  <2>1. t \in Seq(S) /\ h \in Seq(S) /\ IsSeq(g)
    BY AppendProperties, HavingType, AllHeardList
  <2>2. AllHeard(cmd, t) = Append(g, y) /\ AllHeard(cmd, Append(h, x)) = Append(AllHeard(cmd, h), y)
    BY <1>2, <2>1
  <2>3. Having(t, code) = IF x.code = code THEN Append(h, x) ELSE h
    BY HavingAppend
  <2>4. PICK S1 : g \in Seq(S1) /\ y \in S1
    <3>1. PICK S2 : g \in Seq(S2)
      BY <2>1 DEF IsSeq
    <3>2. S2 \subseteq S2 \cup {y} /\ y \in S2 \cup {y}
      OBVIOUS
    <3> QED
      BY <3>1, <3>2, SeqOfMore, ZenonT(60)
  <2>5. Having(Append(g, y), code) = IF y.code = code THEN Append(Having(g, code), y)
                                     ELSE Having(g, code)
    BY <2>4, HavingAppend
  <2>6. y.code = x.code
    BY HeardData
  <2>7. Having(g, code) = AllHeard(cmd, h)
    BY <1>3
  <2> HIDE DEF t, g, y, h
  <2>8. Having(AllHeard(cmd, t), code) = AllHeard(cmd, Having(t, code))
    BY <2>2, <2>3, <2>5, <2>6, <2>7
  <2> QED
    BY <2>1, <2>8 DEF t
<1> HIDE DEF T
<1>4. Seq(S) \subseteq T
  BY <1>1, <1>3, SeqInduction
<1> QED
  BY <1>4 DEF T

\* Nothing was left out, or the message would have been refused.
LEMMA Received ==
  ASSUME IInv, RoundTrip, RefusedForCause, stage = "done"
  PROVE  /\ msg \in Messages /\ msg.cmd \in Cmds /\ msg.avps \in Seq(Avps)
         /\ \A i \in 1..Len(msg.avps) : TypeOf(msg.cmd, msg.avps[i]) # "unknown"
         /\ decoded[1] = AllHeard(msg.cmd, msg.avps)
         /\ \A code : Having(decoded[1], code) = AllHeard(msg.cmd, Having(msg.avps, code))
         /\ \A code : Times(code) = Count(msg.avps, code)
<1>1. msg \in Messages /\ msg.cmd \in Cmds /\ msg.avps \in Seq(Avps)
      /\ DOMAIN msg.avps = 1..Len(msg.avps)
  <2>1. msg \in Messages
    BY DEF IInv, TypeOK
  <2> QED
    BY <2>1, MessageTypes DEF Cmds
<1>2. \A i \in 1..Len(msg.avps) : TypeOf(msg.cmd, msg.avps[i]) # "unknown"
  BY <1>1 DEF RefusedForCause, Unknown, Info, TypeOf
<1>3. decoded[1] = AllHeard(msg.cmd, msg.avps)
  BY <1>1, <1>2, ExpectedKnown DEF RoundTrip
<1>4. ASSUME NEW code
      PROVE  /\ Having(decoded[1], code) = AllHeard(msg.cmd, Having(msg.avps, code))
             /\ Times(code) = Count(msg.avps, code)
  <2>1. Having(decoded[1], code) = AllHeard(msg.cmd, Having(msg.avps, code))
    BY <1>1, <1>3, HeardHaving
  <2>2. Len(AllHeard(msg.cmd, Having(msg.avps, code))) = Len(Having(msg.avps, code))
    BY <1>1, HavingType, AllHeardList
  <2> QED
    BY <2>1, <2>2 DEF Times, Count
<1> QED
  BY <1>1, <1>2, <1>3, <1>4

(***************************************************************************)
(* The dictionaries                                                        *)
(***************************************************************************)
LEMMA TypeInOne ==
  ASSUME NEW table, NEW code, NEW t \in DOMAIN table, code \in table[t],
         \A u \in DOMAIN table : code \in table[u] => u = t
  PROVE  TypeIn(table, code) = t
BY DEF TypeIn

\* The application's parameters are in the dictionaries of the Cx commands.
LEMMA ParametersKnown ==
  ASSUME NEW cmd, NEW code \in Parameters \cup Always
  PROVE  cmd \in CxCmds => diaGetAvpInfo(cmd, code).type # "unknown"
<1>1. DOMAIN BaseTypes = {"uint32", "uint64", "octets", "grouped"}
      /\ DOMAIN CxTypes = {"uint32", "enum", "octets", "grouped"}
      /\ DOMAIN CxReusedTypes = {"octets", "enum", "grouped"}
  BY DEF BaseTypes, CxTypes, CxReusedTypes
<1>2. \/ code \in BaseTypes["uint32"] \/ code \in BaseTypes["octets"] \/ code \in BaseTypes["grouped"]
      \/ code \in CxTypes["uint32"] \/ code \in CxTypes["enum"] \/ code \in CxTypes["octets"]
      \/ code \in CxTypes["grouped"]
  BY DEF Parameters, Always, SESSION_ID, VendorSpecificAppId, AUTH_SESSION_STATE, OrigHost, OrigRealm,
         DEST_HOST, DEST_REALM, USER_NAME, SUPPORTED_FEATURE, PUBLIC_ID, VISITED_NW_ID,
         USER_AUTH_TYPE, SERVER_NAME, SERVER_ASSIGNMENT_TYPE, USER_DATA_ALREADY_AVAILABLE,
         MULTI_REG_INDICATION, SIP_NUM_AUTH_ITEMS, SIP_AUTH_DATA_ITEM, ResultCode,
         EXPERIMENTAL_RESULT, SERVER_CAPABILITY, BaseTypes, CxTypes
<1>3. \/ \E t \in DOMAIN BaseTypes : code \in BaseTypes[t]
      \/ \E t \in DOMAIN CxTypes : code \in CxTypes[t]
  BY <1>1, <1>2
<1>4. ASSUME NEW table, \E t \in DOMAIN table : code \in table[t]
      PROVE  TypeIn(table, code) \in DOMAIN table
  BY <1>4 DEF TypeIn
<1> HIDE DEF TypeIn, BaseTypes, CxTypes, CxReusedTypes
<1>5. TypeIn(BaseTypes, code) # "unknown" \/ TypeIn(CxTypes, code) # "unknown"
  BY <1>1, <1>3, <1>4
<1> QED
  BY <1>5 DEF diaGetAvpInfo

\* The types of the AVPs whose data is asked for.
LEMMA CxAvpTypes ==
  ASSUME NEW cmd \in CxCmds
  PROVE  /\ diaGetAvpInfo(cmd, SESSION_ID).type = "octets"
         /\ diaGetAvpInfo(cmd, ResultCode).type = "uint32"
         /\ diaGetAvpInfo(cmd, SERVER_NAME).type = "octets"
         /\ diaGetAvpInfo(cmd, SERVER_CAPABILITY).type = "grouped"
         /\ diaGetAvpInfo(cmd, MANDATORY_CAPABILITY).type = "uint32"
<1>1. /\ TypeIn(CxTypes, 602) = "octets" /\ TypeIn(CxTypes, 603) = "grouped"
      /\ TypeIn(CxTypes, 604) = "uint32"
  <2>1. TypeIn(CxTypes, 602) = "octets"
    BY TypeInOne, SMTT(30) DEF CxTypes
  <2>2. TypeIn(CxTypes, 603) = "grouped"
    BY TypeInOne DEF CxTypes
  <2>3. TypeIn(CxTypes, 604) = "uint32"
    BY TypeInOne, SMTT(30) DEF CxTypes
  <2> QED
    BY <2>1, <2>2, <2>3
<1>2. TypeIn(BaseTypes, 263) = "octets" /\ TypeIn(BaseTypes, 268) = "uint32"
  BY TypeInOne DEF BaseTypes
<1>3. TypeIn(CxTypes, 263) = "unknown" /\ TypeIn(CxTypes, 268) = "unknown"
      /\ TypeIn(CxReusedTypes, 263) = "unknown" /\ TypeIn(CxReusedTypes, 268) = "unknown"
  BY DEF TypeIn, CxTypes, CxReusedTypes
<1> HIDE DEF TypeIn, BaseTypes, CxTypes, CxReusedTypes
<1> QED
  BY <1>1, <1>2, <1>3
     DEF diaGetAvpInfo, SESSION_ID, ResultCode, SERVER_NAME, SERVER_CAPABILITY, MANDATORY_CAPABILITY

LEMMA BaseAvpTypes ==
  /\ diaGetAvpInfo(CER, OrigHost).type = "octets" /\ diaGetAvpInfo(CER, OrigRealm).type = "octets"
  /\ diaGetAvpInfo(CER, HostIp).type = "octets"
  /\ diaGetAvpInfo(CER, SupportedVendorId).type = "uint32"
  /\ diaGetAvpInfo(CER, AuthAppId).type = "uint32" /\ diaGetAvpInfo(CER, VendorIdCode).type = "uint32"
  /\ diaGetAvpInfo(CER, VendorSpecificAppId).type = "grouped"
  /\ diaGetAvpInfo(CER, ResultCode).type = "uint32"
<1>1. /\ TypeIn(BaseTypes, 264) = "octets" /\ TypeIn(BaseTypes, 296) = "octets"
      /\ TypeIn(BaseTypes, 257) = "octets"
  BY TypeInOne DEF BaseTypes
<1>2. /\ TypeIn(BaseTypes, 265) = "uint32" /\ TypeIn(BaseTypes, 258) = "uint32"
      /\ TypeIn(BaseTypes, 266) = "uint32" /\ TypeIn(BaseTypes, 268) = "uint32"
  BY TypeInOne, SMTT(30) DEF BaseTypes
<1>3. TypeIn(BaseTypes, 260) = "grouped"
  BY TypeInOne DEF BaseTypes
<1>4. CER \notin CxCmds
  BY DEF CER, CxCmds
<1> HIDE DEF TypeIn, BaseTypes, CxTypes, CxReusedTypes
<1> QED
  BY <1>1, <1>2, <1>3, <1>4
     DEF diaGetAvpInfo, OrigHost, OrigRealm, HostIp, SupportedVendorId, AuthAppId, VendorIdCode,
         VendorSpecificAppId, ResultCode

(***************************************************************************)
(* The messages of the application                                         *)
(***************************************************************************)
Kinds == {"UAR", "UAA", "LIR", "SAR", "MAR"}

\* What is assumed of a message of the application.
LEMMA CxMessage ==
  ASSUME NEW m \in Messages, "cx" \in DOMAIN m
  PROVE  /\ m.kind \in Kinds \cup {"PeerUaa"} /\ m.cmd \in CxCmds /\ m.isReq = SentAsRequest[m.kind]
         /\ m.cx \in RequestType /\ Len(m.cx.destRealm) = 1
         /\ Len(m.cx.serverNames) <= 1 /\ Len(m.cx.cap) <= 1
         /\ IsSeq(m.wild[1]) /\ IsSeq(m.wild[2]) /\ m.avps = Build(m.kind, m.cx, m.wild)
         /\ IsSeq(m.cx.extra) /\ IsSeq(HandedOn(m))
         /\ \A c \in Parameters : Count(m.cx.extra, c) = 0 /\ Count(HandedOn(m), c) = 0
<1> DEFINE extra == m.cx.extra
<1>1. DOMAIN CmdOf = Kinds \cup {"PeerUaa"}
  BY DEF CmdOf, Kinds
<1>2. /\ m.kind \in Kinds \cup {"PeerUaa"} /\ m.cmd = CmdOf[m.kind]
      /\ m.isReq = SentAsRequest[m.kind] /\ m.cx \in RequestType
      /\ Len(m.cx.destRealm) = 1 /\ Len(m.cx.serverNames) <= 1 /\ Len(m.cx.cap) <= 1
      /\ \A i \in DOMAIN extra : extra[i].code \notin Parameters
      /\ m.wild \in Wild \X Wild /\ m.avps = Build(m.kind, m.cx, m.wild)
  BY <1>1, ApplicationAssumption
<1>3. m.cmd \in CxCmds
  BY <1>2 DEF Kinds, CmdOf, CxCmds, UAR, SAR, LIR, MAR
<1>4. ASSUME NEW w \in Wild PROVE IsSeq(w)
  BY <1>4, CountNothing, CountSingle DEF Wild
<1>5. m.wild[1] \in Wild /\ m.wild[2] \in Wild
  BY <1>2
<1>6. IsSeq(extra)
  BY <1>2, RequestTypes
<1>7. ASSUME NEW c \in Parameters PROVE Count(extra, c) = 0
  <2>1. \A i \in 1..Len(extra) : extra[i].code # c
    BY <1>2, <1>6, IsSeqLen
  <2> HIDE DEF extra
  <2> QED
    BY <1>6, <2>1, CountType
<1>8. IsSeq(HandedOn(m)) /\ \A c \in Parameters : Count(HandedOn(m), c) = 0
  BY <1>6, <1>7, CountNothing DEF HandedOn
<1> QED
  BY <1>2, <1>3, <1>4, <1>5, <1>6, <1>7, <1>8

\* The parameters of a UAA as its encoder gets them: without the application's list.
LEMMA UaaBuilt ==
  ASSUME NEW r \in RequestType, Len(r.serverNames) <= 1, Len(r.cap) <= 1, NEW wild, NEW code
  PROVE  \E front : /\ LaidOut(diaBuildUaa(r, wild), front, Drop(<<>>, {OC_SUPPORTED_FEATURES}),
                               wild, Always \cup InBraces.UAA, <<>>, code)
                    /\ Answers(front, r)
<1> DEFINE q == [r EXCEPT !.extra = <<>>]
<1>1. q \in RequestType
  <2>1. <<>> \in Seq(Avps)
    BY EmptySeq
  <2> QED
    BY <2>1 DEF RequestType
<1>2. /\ q.extra = <<>> /\ q.sessionId = r.sessionId /\ q.serverNames = r.serverNames
      /\ q.cap = r.cap /\ q.featureLists = r.featureLists
      /\ q.isResultCode = r.isResultCode /\ q.result = r.result
  BY DEF RequestType
<1>3. diaBuildUaa(r, wild) = diaCxUaa_encode(q, UaaOptions(r), wild)
  BY DEF diaBuildUaa, UaaOptions
<1> HIDE DEF q
<1>4. UaaOptions(q) = UaaOptions(r)
  BY <1>2 DEF UaaOptions
<1>5. \A front : Answers(front, q) => Answers(front, r)
  BY <1>2 DEF Answers, Says, Capability
<1>6. \A c : Count(q.extra, c) = 0
  BY <1>2, CountNothing
<1>7. Len(q.serverNames) <= 1 /\ Len(q.cap) <= 1
  BY <1>2
<1>8. \E front : /\ LaidOut(diaCxUaa_encode(q, UaaOptions(q), wild), front,
                            Drop(q.extra, {OC_SUPPORTED_FEATURES}),
                            wild, Always \cup InBraces.UAA, q.extra, code)
                 /\ Answers(front, q)
  BY <1>1, <1>6, <1>7, UaaLayout
<1> QED
  BY <1>2, <1>3, <1>4, <1>5, <1>8

\* A message of the application is laid out by its builder.
LEMMA CxLayout ==
  ASSUME NEW m \in Messages, "cx" \in DOMAIN m, m.kind \in Kinds, NEW code
  PROVE  \E codes \in Fronts : \E front :
           LaidOut(m.avps, front, Drop(HandedOn(m), codes), m.wild,
                   Always \cup InBraces[m.kind], HandedOn(m), code)
<1> DEFINE r == m.cx
           kind == m.kind
           wild == m.wild
<1>1. /\ r \in RequestType /\ Len(r.serverNames) <= 1 /\ Len(r.cap) <= 1
      /\ Len(r.destRealm) = 1 /\ m.avps = Build(kind, r, wild)
  BY CxMessage
<1>2. HandedOn(m) = IF kind = "UAA" THEN <<>> ELSE r.extra
  BY DEF HandedOn
<1>3. {OC_SUPPORTED_FEATURES} \in Fronts /\ {OC_SUPPORTED_FEATURES, UAR_FLAGS} \in Fronts
  BY DEF Fronts
<1> HIDE DEF r, kind, wild
<1>4. CASE kind = "UAR"
  <2>1. m.avps = diaBuildUar(r, wild) /\ InBraces[kind] = InBraces.UAR /\ HandedOn(m) = r.extra
    BY <1>1, <1>2, <1>4 DEF Build
  <2> QED
    BY <1>1, <1>3, <2>1, UarLayout DEF kind, wild
<1>5. CASE kind = "LIR"
  <2>1. m.avps = diaBuildLir(r, wild) /\ InBraces[kind] = InBraces.LIR /\ HandedOn(m) = r.extra
    BY <1>1, <1>2, <1>5 DEF Build
  <2> QED
    BY <1>1, <1>3, <2>1, LirLayout DEF kind, wild
<1>6. CASE kind = "SAR"
  <2>1. m.avps = diaBuildSar(r, wild) /\ InBraces[kind] = InBraces.SAR /\ HandedOn(m) = r.extra
    BY <1>1, <1>2, <1>6 DEF Build
  <2> QED
    BY <1>1, <1>3, <2>1, SarLayout DEF kind, wild
<1>7. CASE kind = "MAR"
  <2>1. m.avps = diaBuildMar(r, wild) /\ InBraces[kind] = InBraces.MAR /\ HandedOn(m) = r.extra
    BY <1>1, <1>2, <1>7 DEF Build
  <2> QED
    BY <1>1, <1>3, <2>1, MarLayout DEF kind, wild
<1>8. CASE kind = "UAA"
  <2>1. m.avps = diaBuildUaa(r, wild) /\ InBraces[kind] = InBraces.UAA /\ HandedOn(m) = <<>>
    BY <1>1, <1>2, <1>8 DEF Build
  <2> QED
    BY <1>1, <1>3, <2>1, UaaBuilt DEF kind, wild
<1> QED
  BY <1>4, <1>5, <1>6, <1>7, <1>8 DEF Kinds, kind

LEMMA GrammarParameters ==
  ASSUME NEW kind \in Kinds, NEW code \in Always \cup InBraces[kind]
  PROVE  code \in Parameters
<1>1. InBraces[kind] \subseteq {DEST_REALM, USER_NAME, PUBLIC_ID, VISITED_NW_ID, SERVER_NAME,
                                SERVER_ASSIGNMENT_TYPE, USER_DATA_ALREADY_AVAILABLE,
                                SIP_NUM_AUTH_ITEMS}
  BY DEF Kinds, InBraces
<1> QED
  BY <1>1 DEF Always, Parameters

\* How often each AVP is in a message of the application.
LEMMA CxCount ==
  ASSUME NEW m \in Messages, "cx" \in DOMAIN m, m.kind \in Kinds, NEW code
  PROVE  /\ Leads(m.avps, SESSION_ID) /\ Count(m.avps, code) \in Nat
         /\ code \in Always \cup InBraces[m.kind] =>
              Count(m.avps, code) >= 1 /\ (Assigned(m) => Count(m.avps, code) = 1)
         /\ code \notin Parameters =>
              /\ Count(m.avps, code) >= Count(HandedOn(m), code)
              /\ Assigned(m) => Count(m.avps, code) = Count(HandedOn(m), code)
<1> DEFINE list == HandedOn(m)
           x == Count(list, code)
           own == Always \cup InBraces[m.kind]
           wild == m.wild
<1>1. IsSeq(list) /\ IsSeq(wild[1]) /\ IsSeq(wild[2]) /\ \A c \in Parameters : Count(list, c) = 0
  BY CxMessage
<1>2. PICK codes \in Fronts : \E f : LaidOut(m.avps, f, Drop(list, codes), wild, own, list, code)
  BY CxLayout
<1> DEFINE left == Drop(list, codes)
           end == Trailer(left, wild)
<1>11. PICK front : LaidOut(m.avps, front, left, wild, own, list, code)
  BY <1>2
<1>3. Assigned(m) => Settled(left)
  <2>1. \A c : Having(list, c) # <<>> => Count(list, c) > 0
    <3>1. \A c : Count(list, c) \in Nat /\ (Count(list, c) = 0 <=> Having(list, c) = <<>>)
      BY <1>1, CountType
    <3> QED
      BY <3>1
  <2>2. Assigned(m) => Settled(list)
    BY <2>1 DEF Assigned, Settled
  <2> QED
    BY <1>1, <2>2, LeftSettled
<1> HIDE DEF wild, list, own, left
<1>4. /\ m.avps = front \o end /\ Leads(front, SESSION_ID) /\ IsSeq(front) /\ IsSeq(left)
      /\ code \in own /\ x = 0 => Count(front, code) = 1 /\ Count(left, code) = 0
      /\ code \notin Parameters => Count(front, code) + Count(left, code) = x
  BY <1>11 DEF LaidOut, Leads, left
<1>5. code \in own => x = 0
  BY <1>1, GrammarParameters DEF own
<1>6. /\ IsSeq(end) /\ Count(end, code) \in Nat /\ Count(end, code) >= Count(left, code)
      /\ Settled(left) => Count(end, code) = Count(left, code)
  BY <1>1, <1>4, TrailerCount
<1> HIDE DEF end
<1>7. Leads(m.avps, SESSION_ID) /\ Count(m.avps, code) = Count(front, code) + Count(end, code)
  BY <1>4, <1>6, LeadsOn, CountConcat
<1>8. Count(front, code) \in Nat /\ Count(left, code) \in Nat /\ x \in Nat
  BY <1>1, <1>4, CountType
<1>9. code \in own => Count(m.avps, code) >= 1 /\ (Assigned(m) => Count(m.avps, code) = 1)
  BY <1>3, <1>4, <1>5, <1>6, <1>7, <1>8
<1>10. code \notin Parameters =>
         Count(m.avps, code) >= x /\ (Assigned(m) => Count(m.avps, code) = x)
  BY <1>3, <1>4, <1>6, <1>7, <1>8
<1> QED
  BY <1>6, <1>7, <1>8, <1>9, <1>10 DEF own, list

\* A UAA is what stands in front: no list follows.
LEMMA UaaAnswers ==
  ASSUME NEW m \in Messages, "cx" \in DOMAIN m, m.kind = "UAA"
  PROVE  Answers(m.avps, m.cx)
<1>1. /\ m.cx \in RequestType /\ Len(m.cx.serverNames) <= 1 /\ Len(m.cx.cap) <= 1
      /\ m.avps = diaBuildUaa(m.cx, m.wild)
  BY CxMessage DEF Build
<1> DEFINE left == Drop(<<>>, {OC_SUPPORTED_FEATURES})
<1>2. PICK front : /\ LaidOut(m.avps, front, left, m.wild, Always \cup InBraces.UAA, <<>>, SESSION_ID)
                   /\ Answers(front, m.cx)
  BY <1>1, UaaBuilt
<1>3. left = <<>>
  <2> DEFINE at == {i \in DOMAIN <<>> : \A code \in {OC_SUPPORTED_FEATURES} : i \notin FirstOf(<<>>, code)}
  <2>1. left = Those(<<>>, at)
    BY DEF Drop
  <2> HIDE DEF at
  <2> QED
    BY <2>1, ThoseEmpty
<1>4. m.avps = front \o <<>> /\ IsSeq(front)
  BY <1>2, <1>3 DEF LaidOut, Leads, Trailer
<1>5. m.avps = front
  <2>1. PICK S : front \in Seq(S)
    BY <1>4 DEF IsSeq
  <2> QED
    BY <1>4, <2>1, ConcatEmptySeq
<1> QED
  BY <1>2, <1>5

\* The UAA of another make says the same, wherever it has the other AVPs.
LEMMA PeerAnswers ==
  ASSUME NEW m \in Messages, "cx" \in DOMAIN m, m.kind = "PeerUaa"
  PROVE  Says(m.avps, m.cx)
<1> DEFINE r == m.cx
           result == UaaResult(r)
           n == Len(r.cap)
           p1 == <<Avp(SESSION_ID, r.sessionId)>>
           p2 == r.extra
           p3 == <<diaAvp_encodeVendorSpecificAppId, result, Avp(AUTH_SESSION_STATE, 1)>>
           p4 == Origin(r)
           p5 == diaAvp_encodeSupportedFeature(r.featureLists)
           p6 == [i \in DOMAIN r.cap |->
                    Avp(SERVER_CAPABILITY,
                        AvpsOf(MANDATORY_CAPABILITY, SubSeq(r.cap[i].msc, 1, r.cap[i].mscNum))
                          \o <<Avp(SERVER_NAME, r.host)>>)]
           p7 == AvpsOf(SERVER_NAME, r.serverNames)
           s == p1 \o p2 \o p3 \o p4 \o p5 \o p6 \o p7
<1>1. /\ r \in RequestType /\ IsSeq(p2) /\ \A c \in Parameters : Count(p2, c) = 0
      /\ m.avps = PeerUaa(r)
  BY CxMessage DEF Build
<1>2. IsSeq(r.serverNames) /\ IsSeq(r.featureLists) /\ IsSeq(r.cap)
  BY <1>1, RequestTypes
<1>3. m.avps = s
  BY <1>1 DEF PeerUaa
<1>4. result = IF r.isResultCode THEN Avp(ResultCode, r.result)
               ELSE Avp(EXPERIMENTAL_RESULT, <<Avp(ExpResultCode, r.result)>>)
  BY DEF UaaResult
<1>5. IsSeq(p1) /\ Begins(p1, Avp(SESSION_ID, r.sessionId))
  <2>1. IsSeq(p1)
    BY CountSingle
  <2>2. Len(p1) > 0 /\ p1[1] = Avp(SESSION_ID, r.sessionId)
    OBVIOUS
  <2> QED
    BY <2>1, <2>2 DEF Begins
<1>6. n \in Nat /\ DOMAIN r.cap = 1..n
  BY <1>2, IsSeqLen
<1>7. IsList(p6, n) /\ \A i \in 1..n : p6[i].code = SERVER_CAPABILITY
  BY <1>6 DEF Avp, IsList
<1>8. p3 = <<diaAvp_encodeVendorSpecificAppId, result, Avp(AUTH_SESSION_STATE, 1)>>
  OBVIOUS
<1> HIDE DEF p2, p3, p6, r, result, n
<1>9. ASSUME NEW c \in {SERVER_NAME, ResultCode}
      PROVE  /\ Count(p1, c) = 0 /\ Count(p2, c) = 0 /\ IsSeq(p4) /\ Count(p4, c) = 0
             /\ IsSeq(p5) /\ Count(p5, c) = 0 /\ IsSeq(p6) /\ Count(p6, c) = 0
             /\ IsSeq(p7) /\ Count(p7, c) = (IF c = SERVER_NAME THEN Len(r.serverNames) ELSE 0)
             /\ c = SERVER_NAME => Having(p7, c) = p7
  <2>1. c = 602 \/ c = 268
    BY DEF SERVER_NAME, ResultCode
  <2>2. Count(p1, c) = 0
    BY <2>1, CountSingle DEF Avp, SESSION_ID
  <2>3. Count(p2, c) = 0
    BY <1>1 DEF Parameters
  <2>4. IsSeq(p4) /\ Count(p4, c) = One(OrigHost, c) + One(OrigRealm, c)
    BY TwoAvps DEF Avp, Origin
  <2>5. Count(p4, c) = 0
    BY <2>1, <2>4 DEF One, OrigHost, OrigRealm
  <2>6. IsSeq(p5) /\ Count(p5, c) = 0
    BY <1>2, <2>1, FeatureCount DEF SUPPORTED_FEATURE
  <2>7. SERVER_CAPABILITY # c
    BY <2>1 DEF SERVER_CAPABILITY
  <2>8. IsSeq(p6) /\ Count(p6, c) = 0
    <3>1. Alike(p6, n, SERVER_CAPABILITY)
      BY <1>6, <1>7 DEF Alike
    <3> QED
      BY <2>7, <3>1, CountOthers
  <2>9. /\ IsSeq(p7) /\ Count(p7, c) = (IF SERVER_NAME = c THEN Len(r.serverNames) ELSE 0)
        /\ SERVER_NAME = c => Having(p7, c) = p7
    BY <1>2, CountListed, HavingListed
  <2> QED
    BY <2>2, <2>3, <2>4, <2>5, <2>6, <2>8, <2>9
<1>10. ASSUME NEW c \in {SERVER_NAME, ResultCode}
       PROVE  IsSeq(p3) /\ Having(p3, c) = IF result.code = c THEN <<result>> ELSE <<>>
  <2> DEFINE one == <<diaAvp_encodeVendorSpecificAppId>>
             two == <<result>>
             three == <<Avp(AUTH_SESSION_STATE, 1)>>
  <2>1. p3 = one \o two \o three
    BY <1>8
  <2>2. c = 602 \/ c = 268
    BY DEF SERVER_NAME, ResultCode
  <2>3. IsSeq(one) /\ Count(one, c) = 0
    BY <2>2, CountSingle DEF diaAvp_encodeVendorSpecificAppId, Avp, VendorSpecificAppId
  <2>4. IsSeq(three) /\ Count(three, c) = 0
    BY <2>2, CountSingle DEF Avp, AUTH_SESSION_STATE
  <2>5. IsSeq(two) /\ Having(two, c) = IF result.code = c THEN <<result>> ELSE <<>>
    BY CountSingle, HavingSingle
  <2> HIDE DEF one, two, three
  <2>6. IsSeq(one \o two) /\ Having(one \o two, c) = Having(two, c)
    BY <2>3, <2>5, HavingEither
  <2>7. IsSeq(one \o two \o three) /\ Having(one \o two \o three, c) = Having(one \o two, c)
    BY <2>4, <2>6, HavingEither
  <2> QED
    BY <2>1, <2>5, <2>6, <2>7
<1> HIDE DEF p1, p4, p5, p7
<1>11. ASSUME NEW c \in {SERVER_NAME, ResultCode}
       PROVE  /\ Count(p7, c) = 0 => Having(s, c) = Having(p3, c)
              /\ Count(p3, c) = 0 => Having(s, c) = Having(p7, c)
  <2> DEFINE q == p1 \o p2 \o p3 \o p4 \o p5 \o p6
  <2>1. IsSeq(p1 \o p2) /\ Count(p1 \o p2, c) = 0
    BY <1>1, <1>5, <1>9, CountConcat
  <2>2. IsSeq(p1 \o p2 \o p3) /\ Having(p1 \o p2 \o p3, c) = Having(p3, c)
    BY <1>10, <2>1, HavingEither
  <2>3. IsSeq(p1 \o p2 \o p3 \o p4) /\ Having(p1 \o p2 \o p3 \o p4, c) = Having(p3, c)
    BY <1>9, <2>2, HavingEither
  <2>4. IsSeq(p1 \o p2 \o p3 \o p4 \o p5) /\ Having(p1 \o p2 \o p3 \o p4 \o p5, c) = Having(p3, c)
    BY <1>9, <2>3, HavingEither
  <2>5. IsSeq(q) /\ Having(q, c) = Having(p3, c)
    BY <1>9, <2>4, HavingEither
  <2> HIDE DEF q
  <2>6. s = q \o p7
    BY DEF q
  <2> HIDE DEF s
  <2>7. Count(q, c) = Count(p3, c)
    BY <2>5 DEF Count
  <2> QED
    BY <1>9, <2>5, <2>6, <2>7, HavingEither
<1>12. Begins(s, Avp(SESSION_ID, r.sessionId))
  <2>1. Begins(p1 \o p2 \o p3, Avp(SESSION_ID, r.sessionId))
    BY <1>1, <1>5, <1>10, BeginsOn
  <2> QED
    BY <1>9, <2>1, BeginsOn
<1> HIDE DEF s
<1>13. SERVER_NAME # ResultCode /\ result.code # SERVER_NAME
       /\ (result.code = ResultCode <=> r.isResultCode)
  BY <1>4 DEF Avp, SERVER_NAME, ResultCode, EXPERIMENTAL_RESULT
<1>14. Having(s, SERVER_NAME) = p7
  <2>1. Having(p3, SERVER_NAME) = <<>>
    BY <1>10, <1>13
  <2>2. Count(p3, SERVER_NAME) = 0
    BY <2>1, EmptySeq DEF Count
  <2> QED
    BY <1>9, <1>11, <2>2
<1>15. Having(s, ResultCode) = IF r.isResultCode THEN <<Avp(ResultCode, r.result)>> ELSE <<>>
  <2>1. Having(s, ResultCode) = Having(p3, ResultCode)
    BY <1>9, <1>11, <1>13
  <2> QED
    BY <1>4, <1>10, <1>13, <2>1
<1> QED
  BY <1>3, <1>12, <1>14, <1>15 DEF Says, p7, r

(***************************************************************************)
(* The behaviours: a message of these modules passes the codec             *)
(***************************************************************************)
LEMMA CapStep == [CapNext]_<<codecVars, capVars>> => [Next]_codecVars
BY DEF CapNext, diaConnProcessCea, Finished, codecVars, capVars

\* What is judged of a CEA adds nothing to the codec: every behaviour is one of its.
THEOREM PassesTheCodec == CapSpec => Spec
BY CapStep, PTL DEF CapSpec, CapInit, Spec

Hearing == IInv /\ RoundTrip /\ RefusedForCause /\ (stage = "done" => Sent)
THEOREM HearingAlways == CapSpec => []Hearing
<1>1. IInv /\ Wired /\ RefusedForCause => Hearing
  BY DEF Hearing, Wired
<1> QED
  BY <1>1, PassesTheCodec, Invariance, WiredAlways, RefusedRightly, PTL

(***************************************************************************)
(* The messages of the Cx application                                      *)
(***************************************************************************)
\* A Cx message arrives with each AVP that its grammar requires, once unless a pointer
\* that was never assigned adds another, and a request as a request, whatever is in the
\* application's list (diaBuildUar and its like).
THEOREM GrammarAlways == CapSpec => []GrammarKept
<1>1. ASSUME Hearing, Arrived, msg.kind # "PeerUaa" PROVE GrammarKept
  <2>1. /\ msg \in Messages /\ "cx" \in DOMAIN msg /\ msg.cmd \in Cmds /\ msg.avps \in Seq(Avps)
        /\ decoded[1] = AllHeard(msg.cmd, msg.avps) /\ \A code : Times(code) = Count(msg.avps, code)
    BY <1>1, Received DEF Hearing, Arrived, IsCx
  <2>2. msg.kind \in Kinds /\ msg.isReq = SentAsRequest[msg.kind]
    BY <1>1, <2>1, CxMessage
  <2>3. \A code \in Always \cup InBraces[msg.kind] :
          Times(code) >= 1 /\ (Assigned(msg) => Times(code) = 1)
    BY <2>1, <2>2, CxCount
  <2>4. decoded[1][1].code = SESSION_ID
    <3>1. Leads(msg.avps, SESSION_ID)
      BY <2>1, <2>2, CxCount
    <3>2. 1 \in 1..Len(msg.avps) /\ msg.avps[1].code = SESSION_ID
      BY <2>1, <3>1, LenProperties DEF Leads
    <3> QED
      BY <2>1, <3>2, AllHeardList, HeardData
  <2>5. msg.kind = "UAA" => Times(ResultCode) + Times(EXPERIMENTAL_RESULT) = 1
    BY <2>1, UaaAnswers DEF Answers
  <2>6. msg.kind # "UAA" => RequestFlag
    <3>1. RequestFlag <=> msg.isReq
      BY <1>1 DEF Hearing, Arrived, Sent
    <3> QED
      BY <2>2, <3>1 DEF Kinds, SentAsRequest
  <2> QED
    BY <2>3, <2>4, <2>5, <2>6 DEF GrammarKept
<1>2. Hearing => GrammarKept
  BY <1>1 DEF GrammarKept
<1> QED
  BY <1>2, HearingAlways, PTL

\* The data of a list of AVPs of one code arrives as it was given.
LEMMA DataHeard ==
  ASSUME NEW cmd, NEW list, IsSeq(list), NEW own,
         diaGetAvpInfo(cmd, own).type \in {"octets", "uint32", "uint64"}
  PROVE  /\ DataOf(AllHeard(cmd, AvpsOf(own, list))) = list
         /\ IsSeq(AllHeard(cmd, AvpsOf(own, list)))
         /\ Len(AllHeard(cmd, AvpsOf(own, list))) = Len(list) /\ Len(list) \in Nat
         /\ \A i \in 1..Len(list) : AllHeard(cmd, AvpsOf(own, list))[i].data = list[i]
<1> DEFINE n == Len(list)
           s == AvpsOf(own, list)
           t == AllHeard(cmd, s)
           d == DataOf(t)
<1>1. n \in Nat /\ DOMAIN list = 1..n /\ IsList(list, n)
  <2>1. n \in Nat /\ DOMAIN list = 1..n
    BY IsSeqLen
  <2>2. PICK S : list \in Seq(S)
    BY DEF IsSeq
  <2>3. list = [i \in DOMAIN list |-> list[i]]
    BY <2>2, LenProperties
  <2> QED
    BY <2>1, <2>3 DEF IsList
<1>2. IsSeq(s) /\ Len(s) = n /\ \A i \in 1..n : s[i] = Avp(own, list[i])
  BY <1>1, HavingListed DEF AvpsOf
<1> HIDE DEF s
<1>3. IsSeq(t) /\ Len(t) = n /\ DOMAIN t = 1..n /\ \A i \in 1..n : t[i] = Heard(cmd, s[i])
  BY <1>2, AllHeardList DEF IsSeq
<1> HIDE DEF t
<1>4. ASSUME NEW i \in 1..n PROVE t[i].data = list[i]
  <2>1. s[i] = Avp(own, list[i])
    BY <1>2
  <2>2. s[i].code = own /\ s[i].data = list[i]
    BY <2>1 DEF Avp
  <2> QED
    BY <1>3, <2>2, HeardData DEF TypeOf
<1>5. IsList(d, n) /\ \A i \in 1..n : d[i] = t[i].data
  BY <1>3 DEF DataOf, IsList
<1> HIDE DEF d, n
<1>6. d = list
  BY <1>1, <1>4, <1>5, ListsAlike
<1> QED
  BY <1>1, <1>3, <1>4, <1>6 DEF d, t, s, n

\* One AVP is heard alone.
LEMMA OneHeard ==
  ASSUME NEW cmd, NEW a
  PROVE  AllHeard(cmd, <<a>>) # <<>> /\ AllHeard(cmd, <<a>>)[1] = Heard(cmd, a)
         /\ Len(AllHeard(cmd, <<a>>)) = 1
<1> DEFINE s == <<a>>
<1>1. s \in Seq({a}) /\ Len(s) = 1 /\ s[1] = a
  OBVIOUS
<1> HIDE DEF s
<1>2. Len(AllHeard(cmd, s)) = 1 /\ AllHeard(cmd, s)[1] = Heard(cmd, a)
  BY <1>1, AllHeardList
<1> QED
  BY <1>2, EmptySeq DEF s

\* The capabilities of a server are in a group that has them in their order.
LEMMA CapabilityHeard ==
  ASSUME NEW cmd \in Cmds, cmd \in CxCmds, NEW cap,
         cap.msc \in [1..DIA_CX_MAX_SERVER_CAPABILITY_ITEM -> Nat], ServerCapability(cap) \in Avps
  PROVE  DataOf(Having(Heard(cmd, ServerCapability(cap)).data, MANDATORY_CAPABILITY)) = cap.msc
<1> DEFINE n == DIA_CX_MAX_SERVER_CAPABILITY_ITEM
           list == cap.msc
           given == [i \in 1..n |-> list[i]]
           s == AvpsOf(MANDATORY_CAPABILITY, list)
           a == ServerCapability(cap)
<1>1. n \in Nat /\ given = list
  BY CxAssumption
<1>2. list \in Seq(Nat) /\ Len(list) = n
  BY <1>1, ListType DEF IsList
<1>3. a.code = SERVER_CAPABILITY /\ a.data = s
  BY <1>1 DEF ServerCapability, Avp
<1> HIDE DEF a, given, n, list
<1>4. TypeOf(cmd, a) = "grouped"
  BY <1>3, CxAvpTypes DEF TypeOf
<1>5. s \in Seq(Avps) /\ Heard(cmd, a).data = Expected(cmd)[s]
  BY <1>3, <1>4, DataTypes, HeardData DEF a
<1>6. IsSeq(list)
  BY <1>2 DEF IsSeq
<1>7. \A i \in 1..Len(s) : TypeOf(cmd, s[i]) # "unknown"
  <2>1. Len(s) = Len(list) /\ DOMAIN list = 1..Len(list)
    BY <1>6, HavingListed, IsSeqLen
  <2>2. \A i \in 1..Len(s) : s[i].code = MANDATORY_CAPABILITY
    BY <2>1 DEF AvpsOf, Avp
  <2> QED
    BY <2>2, CxAvpTypes DEF TypeOf
<1>8. Heard(cmd, a).data = AllHeard(cmd, s)
  BY <1>5, <1>7, ExpectedKnown
<1>9. Having(s, MANDATORY_CAPABILITY) = s
  BY <1>6, HavingListed
<1>10. Having(AllHeard(cmd, s), MANDATORY_CAPABILITY) = AllHeard(cmd, s)
  BY <1>5, <1>9, HeardHaving
<1>11. DataOf(AllHeard(cmd, s)) = list
  <2>1. diaGetAvpInfo(cmd, MANDATORY_CAPABILITY).type \in {"octets", "uint32", "uint64"}
    BY CxAvpTypes
  <2> QED
    BY <1>6, <2>1, DataHeard
<1> QED
  BY <1>8, <1>10, <1>11 DEF a, list

\* A UAA tells the capabilities that the application gave.
LEMMA CapabilitiesArrive ==
  ASSUME Hearing, Arrived, msg.kind = "UAA", NEW i \in DOMAIN msg.cx.cap
  PROVE  DataOf(Having(Told(SERVER_CAPABILITY)[1], MANDATORY_CAPABILITY)) = msg.cx.cap[i].msc
<1> DEFINE r == msg.cx
           cmd == msg.cmd
           got == decoded[1]
<1>1. /\ msg \in Messages /\ "cx" \in DOMAIN msg /\ cmd \in Cmds /\ msg.avps \in Seq(Avps)
      /\ got = AllHeard(cmd, msg.avps)
      /\ \A code : Having(got, code) = AllHeard(cmd, Having(msg.avps, code))
  BY Received DEF Hearing, Arrived, IsCx
<1>2. /\ r \in RequestType /\ cmd \in CxCmds /\ Len(r.cap) <= 1
      /\ Having(msg.avps, SERVER_CAPABILITY) = Capability(r)
  BY <1>1, CxMessage, UaaAnswers DEF Answers
<1>3. IsSeq(r.cap) /\ i \in DOMAIN r.cap
  BY <1>2, RequestTypes
<1> HIDE DEF got, cmd, r
<1> DEFINE cap == r.cap[1]
           a == ServerCapability(cap)
           h == Having(msg.avps, SERVER_CAPABILITY)
<1>4. i = 1 /\ Len(r.cap) = 1 /\ DOMAIN r.cap = 1..1
  <2> DEFINE k == Len(r.cap)
  <2>1. k \in Nat /\ DOMAIN r.cap = 1..k
    BY <1>3, IsSeqLen
  <2>2. k <= 1 /\ i \in 1..k
    BY <1>2, <1>3, <2>1
  <2> HIDE DEF k
  <2>3. k = 1 /\ i = 1
    BY <2>1, <2>2
  <2> QED
    BY <2>1, <2>3 DEF k
<1>5. h = Capability(r) /\ h \in Seq(Avps)
  BY <1>1, <1>2, HavingType
<1>6. h[1] = a /\ IsList(h, 1)
  BY <1>4, <1>5 DEF Capability, IsList
<1>7. cap.msc \in [1..DIA_CX_MAX_SERVER_CAPABILITY_ITEM -> Nat]
  <2>1. r.cap \in Seq([msc : [1..DIA_CX_MAX_SERVER_CAPABILITY_ITEM -> Nat],
                       mscNum : 0..DIA_CX_MAX_SERVER_CAPABILITY_ITEM])
    BY <1>2 DEF RequestType
  <2>2. r.cap[1] \in [msc : [1..DIA_CX_MAX_SERVER_CAPABILITY_ITEM -> Nat],
                      mscNum : 0..DIA_CX_MAX_SERVER_CAPABILITY_ITEM]
    <3>1. 1 \in 1..Len(r.cap)
      BY <1>4
    <3> QED
      BY <2>1, <3>1, ElementOfSeq
  <2> QED
    BY <2>2
<1> HIDE DEF h, a, cap
<1>8. Len(h) = 1 /\ a \in Avps
  <2>3. Len(h) = 1
    BY <1>6, ListType
  <2>1. Len(h) = 1 /\ 1 \in 1..Len(h)
    BY <2>3
  <2>2. h[1] \in Avps
    BY <1>5, <2>1, ElementOfSeq
  <2> QED
    BY <1>6, <2>1, <2>2
<1>9. Having(got, SERVER_CAPABILITY) = AllHeard(cmd, h)
  BY <1>1 DEF h
<1>10. AllHeard(cmd, h)[1] = Heard(cmd, a) /\ DOMAIN AllHeard(cmd, h) = 1..1
  BY <1>5, <1>6, <1>8, AllHeardList
<1>11. Told(SERVER_CAPABILITY)[1] = Heard(cmd, a).data
  BY <1>9, <1>10 DEF Told, got
<1>12. DataOf(Having(Heard(cmd, a).data, MANDATORY_CAPABILITY)) = cap.msc
  BY <1>1, <1>2, <1>7, <1>8, CapabilityHeard DEF a
<1> QED
  BY <1>4, <1>11, <1>12 DEF cap, r

\* Of the list that the application gives with a request nothing is lost, and nothing is
\* sent twice unless a pointer that was never assigned adds it (diaMsg_avpAddList and the
\* loops of the builders); a UAA carries the mandatory capabilities in their order.
THEOREM OptionsAlways == CapSpec => []OptionsKept
<1>1. ASSUME Hearing, Arrived, msg.kind \notin {"UAA", "PeerUaa"}, NEW a \in ToSet(msg.cx.extra)
      PROVE  LET given == Len(Having(msg.cx.extra, a.code))
             IN  Times(a.code) >= given /\ (Assigned(msg) => Times(a.code) = given)
  <2> DEFINE code == a.code
             extra == msg.cx.extra
  <2>1. /\ msg \in Messages /\ "cx" \in DOMAIN msg /\ Times(code) = Count(msg.avps, code)
    BY <1>1, Received DEF Hearing, Arrived, IsCx
  <2>2. /\ msg.kind \in Kinds /\ HandedOn(msg) = extra
        /\ IsSeq(extra) /\ \A c \in Parameters : Count(extra, c) = 0
    BY <1>1, <2>1, CxMessage DEF HandedOn
  <2>3. PICK i \in 1..Len(extra) : a = extra[i]
    BY <2>2, IsSeqLen DEF ToSet
  <2>4. Count(extra, code) \in Nat /\ Count(extra, code) > 0
    BY <2>2, <2>3, CountType
  <2>5. code \notin Parameters
    BY <2>2, <2>4
  <2> QED
    BY <2>1, <2>2, <2>5, CxCount DEF Count
<1>2. ASSUME Hearing, Arrived, msg.kind = "UAA", NEW i \in DOMAIN msg.cx.cap
      PROVE  LET cap  == msg.cx.cap[i]
                 told == DataOf(Having(Told(SERVER_CAPABILITY)[1], MANDATORY_CAPABILITY))
             IN  SubSeq(told, 1, cap.mscNum) = SubSeq(cap.msc, 1, cap.mscNum)
  BY <1>2, CapabilitiesArrive
<1>3. Hearing => OptionsKept
  BY <1>1, <1>2 DEF OptionsKept
<1> QED
  BY <1>3, HearingAlways, PTL

\* The session, the result and the server that the sender of a UAA gave are what its AVPs
\* say to the functions that read them (diaMsg_getSessId, dia_GetResultCode,
\* diaCxUar_getServerName), an HSS of this code or of another make, and whatever flag the
\* UAA has.
THEOREM AnswersRead ==
  CapSpec => [](Arrived /\ msg.kind \in {"UAA", "PeerUaa"} => AnswerRead)
<1>1. ASSUME Hearing, Arrived, msg.kind \in {"UAA", "PeerUaa"} PROVE AnswerRead
  <2> DEFINE r == msg.cx
             cmd == msg.cmd
             got == decoded[1]
  <2>1. /\ msg \in Messages /\ "cx" \in DOMAIN msg /\ cmd \in Cmds /\ msg.avps \in Seq(Avps)
        /\ got = AllHeard(cmd, msg.avps)
        /\ \A code : Having(got, code) = AllHeard(cmd, Having(msg.avps, code))
    BY <1>1, Received DEF Hearing, Arrived, IsCx
  <2>2. /\ r \in RequestType /\ cmd \in CxCmds
        /\ Len(r.serverNames) <= 1
    BY <2>1, CxMessage
  <2>3. /\ Begins(msg.avps, Avp(SESSION_ID, r.sessionId))
        /\ Having(msg.avps, SERVER_NAME) = AvpsOf(SERVER_NAME, r.serverNames)
        /\ Having(msg.avps, ResultCode)
             = IF r.isResultCode THEN <<Avp(ResultCode, r.result)>> ELSE <<>>
    BY <1>1, <2>1, UaaAnswers, PeerAnswers DEF Answers, Says
  <2>4. IsSeq(got) /\ Len(got) = Len(msg.avps)
        /\ \A i \in 1..Len(msg.avps) : got[i] = Heard(cmd, msg.avps[i])
    BY <2>1, AllHeardList
  <2>5. IsSeq(r.serverNames) /\ r.isResultCode \in BOOLEAN
    BY <2>2, RequestTypes
  <2> HIDE DEF got, cmd, r
  <2>6. diaMsg_getSessId(got) = <<r.sessionId>>
    <3>1. 1 \in 1..Len(msg.avps) /\ msg.avps[1] = Avp(SESSION_ID, r.sessionId)
      BY <2>1, <2>3, LenProperties DEF Begins
    <3>2. msg.avps[1].code = SESSION_ID /\ msg.avps[1].data = r.sessionId
      BY <3>1 DEF Avp
    <3>3. TypeOf(cmd, msg.avps[1]) = "octets"
      BY <2>2, <3>2, CxAvpTypes DEF TypeOf
    <3>4. got[1].code = SESSION_ID /\ got[1].type = "octets" /\ got[1].data = r.sessionId
      BY <2>4, <3>1, <3>2, <3>3, HeardData
    <3>5. got # <<>> /\ Head(got) = got[1]
      <4>1. PICK S : got \in Seq(S)
        BY <2>4 DEF IsSeq
      <4> QED
        BY <2>4, <3>1, <4>1
    <3> QED
      BY <3>4, <3>5 DEF diaMsg_getSessId
  <2>7. dia_GetResultCode(got) = IF r.isResultCode THEN r.result ELSE NoResult
    <3>1. CASE r.isResultCode
      <4> DEFINE a == Avp(ResultCode, r.result)
      <4>1. Having(got, ResultCode) = AllHeard(cmd, <<a>>)
        BY <2>1, <2>3, <3>1
      <4>2. a.code = ResultCode /\ a.data = r.result
        BY DEF Avp
      <4> HIDE DEF a
      <4>3. Heard(cmd, a).data = r.result
        BY <2>2, <4>2, CxAvpTypes, HeardData DEF TypeOf
      <4> QED
        BY <3>1, <4>1, <4>3, OneHeard DEF dia_GetResultCode
    <3>2. CASE ~r.isResultCode
      <4>1. Having(got, ResultCode) = <<>>
        <5>1. AllHeard(cmd, <<>>) = <<>>
          BY EmptySeq DEF AllHeard
        <5> QED
          BY <2>1, <2>3, <3>2, <5>1
      <4> QED
        BY <3>2, <4>1 DEF dia_GetResultCode
    <3> QED
      BY <2>5, <3>1, <3>2
  <2>8. diaCxUar_getServerName(got) = r.serverNames
    <3> DEFINE h == AllHeard(cmd, AvpsOf(SERVER_NAME, r.serverNames))
    <3>1. Having(got, SERVER_NAME) = h
      BY <2>1, <2>3
    <3>2. DataOf(h) = r.serverNames /\ IsSeq(h) /\ Len(h) = Len(r.serverNames) /\ Len(h) \in Nat
      BY <2>2, <2>5, CxAvpTypes, DataHeard
    <3>3. FindFirst(got, SERVER_NAME) = h
      <4>1. PICK S : got \in Seq(S)
        BY <2>4 DEF IsSeq
      <4>2. FindFirst(got, SERVER_NAME) = IF h = <<>> THEN <<>> ELSE <<h[1]>>
        BY <3>1, <4>1, FindFirstIs
      <4>3. CASE Len(h) = 0
        BY <3>2, <4>2, <4>3, IsSeqLen
      <4>4. CASE Len(h) = 1
        BY <3>1, <3>2, <2>4, <4>4, FindFirstFound DEF Count
      <4> HIDE DEF h
      <4>5. \A k \in Nat : k <= 1 => k = 0 \/ k = 1
        OBVIOUS
      <4>6. Len(h) \in Nat /\ Len(h) <= 1
        BY <2>2, <3>2, Zenon
      <4> QED
        BY <4>3, <4>4, <4>5, <4>6, Zenon
    <3> QED
      BY <3>2, <3>3 DEF diaCxUar_getServerName
  <2> QED
    BY <2>6, <2>7, <2>8 DEF AnswerRead, got, r
<1>2. Hearing => (Arrived /\ msg.kind \in {"UAA", "PeerUaa"} => AnswerRead)
  BY <1>1
<1> QED
  BY <1>2, HearingAlways, PTL

\* A UAA that its receiver takes for an answer is read as it was meant, whatever its
\* parameters.
THEOREM AnswersAlways == CapSpec => []AnswersAreHeard
<1>1. (Arrived /\ msg.kind \in {"UAA", "PeerUaa"} => AnswerRead) => AnswersAreHeard
  BY DEF AnswersAreHeard
<1> QED
  BY <1>1, AnswersRead, PTL

(***************************************************************************)
(* The messages of the capability exchange                                 *)
(***************************************************************************)
LEMMA ConfigTypes ==
  ASSUME NEW cfg \in ConfigType
  PROVE  /\ IsSeq(cfg.ips) /\ IsSeq(cfg.vendors) /\ IsSeq(cfg.auth) /\ IsSeq(cfg.acct)
         /\ IsSeq(cfg.apps)
<1>1. /\ cfg.ips \in Seq(Seq(Nat)) /\ cfg.vendors \in Seq(Nat) /\ cfg.auth \in Seq(Nat)
      /\ cfg.acct \in Seq(Nat) /\ cfg.apps \in Seq(Nat)
  BY DEF ConfigType
<1> QED
  BY <1>1, Zenon DEF IsSeq

\* What a message carries of a list that is too long.
Cut(list) ==
  SubSeq(list, 1, IF Len(list) < DIA_MAX_SAME_AVP_NUM THEN Len(list) ELSE DIA_MAX_SAME_AVP_NUM)

LEMMA CutFits ==
  ASSUME NEW list, IsSeq(list)
  PROVE  /\ IsSeq(Cut(list)) /\ Fits(list) = 1..Len(Cut(list))
         /\ Fits(list) \subseteq 1..Len(list)
         /\ \A i \in Fits(list) : Cut(list)[i] = list[i]
         /\ Cut(list) = [i \in Fits(list) |-> list[i]]
<1> DEFINE n == Len(list)
           k == IF n < DIA_MAX_SAME_AVP_NUM THEN n ELSE DIA_MAX_SAME_AVP_NUM
           c == Cut(list)
<1>1. PICK S : list \in Seq(S)
  BY DEF IsSeq
<1>2. n \in Nat /\ DOMAIN list = 1..n /\ \A i \in 1..n : list[i] \in S
  BY <1>1, LenProperties, ElementOfSeq
<1> HIDE DEF n
<1>3. k \in Nat /\ k <= n /\ \A i \in 1..n : i <= DIA_MAX_SAME_AVP_NUM <=> i <= k
  BY <1>2, CapExAssumption
<1>4. c = SubSeq(list, 1, k)
  BY DEF Cut, n
<1> HIDE DEF k, c
<1>5. 1 \in Int /\ k \in Int /\ (\A i \in 1..k : list[i] \in S) /\ k - 1 + 1 = k
      /\ (k < 1 => k = 0)
  BY <1>2, <1>3
<1>6. c \in Seq(S) /\ Len(c) = k /\ \A i \in 1..k : c[i] = list[i]
  <2>1. /\ c \in Seq(S) /\ Len(c) = IF 1 <= k THEN k - 1 + 1 ELSE 0
        /\ \A i \in 1..(k - 1 + 1) : c[i] = list[1 + i - 1]
    BY <1>4, <1>5, SubSeqProperties
  <2>2. Len(c) = k
    BY <1>3, <1>5, <2>1
  <2>3. \A i \in 1..k : c[i] = list[i]
    BY <1>5, <2>1
  <2> QED
    BY <2>1, <2>2, <2>3
<1>7. Fits(list) = 1..k /\ 1..k \subseteq 1..n
  BY <1>2, <1>3 DEF Fits
<1>8. c = [i \in 1..k |-> list[i]]
  <2>1. c = [i \in DOMAIN c |-> c[i]] /\ DOMAIN c = 1..k
    BY <1>6, LenProperties
  <2> QED
    BY <1>6, <2>1
<1> QED
  BY <1>6, <1>7, <1>8 DEF IsSeq, c, n

\* Where two lists do not both have a code.
LEMMA HavingTwo ==
  ASSUME NEW s, NEW t, IsSeq(s), IsSeq(t), NEW code,
         Having(s, code) = <<>> \/ Having(t, code) = <<>>
  PROVE  /\ IsSeq(s \o t)
         /\ Having(s \o t, code) = IF Having(s, code) = <<>> THEN Having(t, code)
                                   ELSE Having(s, code)
BY CountType, HavingEither

\* A part of the options that is of one code.
OfCode(s, own, code) == IsSeq(s) /\ Having(s, code) = IF own = code THEN s ELSE <<>>

LEMMA PartAlone == ASSUME NEW a, NEW code PROVE OfCode(<<a>>, a.code, code)
BY HavingSingle DEF OfCode

LEMMA PartListed ==
  ASSUME NEW list, IsSeq(list), NEW own, NEW code PROVE OfCode(AvpsOf(own, list), own, code)
BY HavingListed DEF OfCode

LEMMA PartEmpty == ASSUME NEW own, NEW code PROVE OfCode(<<>>, own, code)
BY HavingNothing, CountNothing DEF OfCode

\* The options of a capability exchange are of six codes.
LEMMA SixParts ==
  ASSUME NEW p1, NEW p2, NEW p3, NEW p4, NEW p5, NEW p6, NEW code,
         OfCode(p1, OrigStateId, code), OfCode(p2, SupportedVendorId, code),
         OfCode(p3, AuthAppId, code), OfCode(p4, AcctAppId, code),
         OfCode(p5, VendorSpecificAppId, code), OfCode(p6, FirmwareRev, code)
  PROVE  /\ IsSeq(p1 \o p2 \o p3 \o p4 \o p5 \o p6)
         /\ Having(p1 \o p2 \o p3 \o p4 \o p5 \o p6, code)
              = CASE code = OrigStateId         -> p1
                  [] code = SupportedVendorId   -> p2
                  [] code = AuthAppId           -> p3
                  [] code = AcctAppId           -> p4
                  [] code = VendorSpecificAppId -> p5
                  [] code = FirmwareRev         -> p6
                  [] OTHER                      -> <<>>
<1> DEFINE q2 == p1 \o p2
           q3 == q2 \o p3
           q4 == q3 \o p4
           q5 == q4 \o p5
           q6 == q5 \o p6
<1>1. /\ OrigStateId = 278 /\ SupportedVendorId = 265 /\ AuthAppId = 258 /\ AcctAppId = 259
      /\ VendorSpecificAppId = 260 /\ FirmwareRev = 267
  BY DEF OrigStateId, SupportedVendorId, AuthAppId, AcctAppId, VendorSpecificAppId, FirmwareRev
<1>2. /\ IsSeq(p1) /\ Having(p1, code) = IF code = OrigStateId THEN p1 ELSE <<>>
      /\ IsSeq(p2) /\ Having(p2, code) = IF code = SupportedVendorId THEN p2 ELSE <<>>
      /\ IsSeq(p3) /\ Having(p3, code) = IF code = AuthAppId THEN p3 ELSE <<>>
      /\ IsSeq(p4) /\ Having(p4, code) = IF code = AcctAppId THEN p4 ELSE <<>>
      /\ IsSeq(p5) /\ Having(p5, code) = IF code = VendorSpecificAppId THEN p5 ELSE <<>>
      /\ IsSeq(p6) /\ Having(p6, code) = IF code = FirmwareRev THEN p6 ELSE <<>>
  BY DEF OfCode
<1>3. /\ IsSeq(q2) /\ Having(q2, code) = IF code = OrigStateId THEN p1
                                         ELSE IF code = SupportedVendorId THEN p2 ELSE <<>>
  BY <1>1, <1>2, HavingTwo
<1> HIDE DEF q2
<1>4. /\ IsSeq(q3)
      /\ Having(q3, code) = IF code = AuthAppId THEN p3 ELSE Having(q2, code)
      /\ code \notin {OrigStateId, SupportedVendorId, AuthAppId} => Having(q3, code) = <<>>
  BY <1>1, <1>2, <1>3, HavingTwo
<1> HIDE DEF q3
<1>5. /\ IsSeq(q4)
      /\ Having(q4, code) = IF code = AcctAppId THEN p4 ELSE Having(q3, code)
      /\ code \notin {OrigStateId, SupportedVendorId, AuthAppId, AcctAppId}
           => Having(q4, code) = <<>>
  BY <1>1, <1>2, <1>4, HavingTwo
<1> HIDE DEF q4
<1>6. /\ IsSeq(q5)
      /\ Having(q5, code) = IF code = VendorSpecificAppId THEN p5 ELSE Having(q4, code)
      /\ code \notin {OrigStateId, SupportedVendorId, AuthAppId, AcctAppId, VendorSpecificAppId}
           => Having(q5, code) = <<>>
  BY <1>1, <1>2, <1>5, HavingTwo
<1> HIDE DEF q5
<1>7. /\ IsSeq(q6)
      /\ Having(q6, code) = IF code = FirmwareRev THEN p6 ELSE Having(q5, code)
  BY <1>1, <1>2, <1>6, HavingTwo
<1> HIDE DEF q6
<1>8. Having(q6, code) = CASE code = OrigStateId         -> p1
                           [] code = SupportedVendorId   -> p2
                           [] code = AuthAppId           -> p3
                           [] code = AcctAppId           -> p4
                           [] code = VendorSpecificAppId -> p5
                           [] code = FirmwareRev         -> p6
                           [] OTHER                      -> <<>>
  BY <1>1, <1>3, <1>4, <1>5, <1>6, <1>7
<1> QED
  BY <1>7, <1>8 DEF q6, q5, q4, q3, q2

\* The options of a configuration with the groups of its applications.
LEMMA OptionsHaving ==
  ASSUME NEW cfg \in ConfigType, NEW list, IsSeq(list), NEW code
  PROVE  LET o == Options(cfg, AvpsOf(VendorSpecificAppId, list)) IN
         /\ IsSeq(o)
         /\ code = SupportedVendorId => Having(o, code) = AvpsOf(code, Cut(cfg.vendors))
         /\ code = AuthAppId => Having(o, code) = AvpsOf(code, Cut(cfg.auth))
         /\ code = VendorSpecificAppId => Having(o, code) = AvpsOf(code, list)
<1> DEFINE p1 == <<Avp(OrigStateId, 7)>>
           p2 == diaAvpAddList(SupportedVendorId, cfg.vendors)
           p3 == diaAvpAddList(AuthAppId, cfg.auth)
           p4 == diaAvpAddList(AcctAppId, cfg.acct)
           p5 == AvpsOf(VendorSpecificAppId, list)
           p6 == IF cfg.firmware THEN <<Avp(FirmwareRev, 1)>> ELSE <<>>
           o == Options(cfg, p5)
<1>1. o = p1 \o p2 \o p3 \o p4 \o p5 \o p6
  BY DEF Options
<1>2. IsSeq(cfg.vendors) /\ IsSeq(cfg.auth) /\ IsSeq(cfg.acct)
  BY ConfigTypes
<1>3. /\ p2 = AvpsOf(SupportedVendorId, Cut(cfg.vendors)) /\ p3 = AvpsOf(AuthAppId, Cut(cfg.auth))
      /\ p4 = AvpsOf(AcctAppId, Cut(cfg.acct))
  BY DEF diaAvpAddList, Cut
<1>4. /\ OfCode(p2, SupportedVendorId, code) /\ OfCode(p3, AuthAppId, code) /\ OfCode(p4, AcctAppId, code)
  BY <1>2, <1>3, CutFits, PartListed
<1>5. OfCode(p1, OrigStateId, code)
  <2> DEFINE a == Avp(OrigStateId, 7)
  <2>1. a.code = OrigStateId
    BY DEF Avp
  <2> HIDE DEF a
  <2>2. OfCode(<<a>>, OrigStateId, code)
    BY <2>1, PartAlone
  <2> QED
    BY <2>2 DEF a
<1>6. OfCode(p6, FirmwareRev, code)
  <2> DEFINE a == Avp(FirmwareRev, 1)
  <2>1. a.code = FirmwareRev
    BY DEF Avp
  <2> HIDE DEF a
  <2>2. OfCode(<<a>>, FirmwareRev, code) /\ OfCode(<<>>, FirmwareRev, code)
    BY <2>1, PartAlone, PartEmpty
  <2>3. p6 = <<a>> \/ p6 = <<>>
    BY DEF a
  <2> QED
    BY <2>2, <2>3
<1>7. OfCode(p5, VendorSpecificAppId, code)
  BY PartListed
<1> HIDE DEF p1, p2, p3, p4, p5, p6, o
<1>8. /\ IsSeq(o)
      /\ Having(o, code) = CASE code = OrigStateId         -> p1
                             [] code = SupportedVendorId   -> p2
                             [] code = AuthAppId           -> p3
                             [] code = AcctAppId           -> p4
                             [] code = VendorSpecificAppId -> p5
                             [] code = FirmwareRev         -> p6
                             [] OTHER                      -> <<>>
  BY <1>1, <1>4, <1>5, <1>6, <1>7, SixParts
<1>9. /\ OrigStateId = 278 /\ SupportedVendorId = 265 /\ AuthAppId = 258 /\ AcctAppId = 259
      /\ VendorSpecificAppId = 260 /\ FirmwareRev = 267
  BY DEF OrigStateId, SupportedVendorId, AuthAppId, AcctAppId, VendorSpecificAppId, FirmwareRev
<1>10. code = SupportedVendorId => Having(o, code) = p2
  BY <1>8, <1>9
<1>11. code = AuthAppId => Having(o, code) = p3
  BY <1>8, <1>9
<1>12. code = VendorSpecificAppId => Having(o, code) = p5
  BY <1>8, <1>9
<1> QED
  BY <1>3, <1>8, <1>10, <1>11, <1>12 DEF o, p5

\* Taking the options out one by one does not lose one of a list.
LEMMA SortedHaving ==
  ASSUME NEW o, IsSeq(o), NEW code
  PROVE  /\ IsSeq(Sorted(o))
         /\ code \in {SupportedVendorId, AuthAppId, VendorSpecificAppId}
              => Having(Sorted(o), code) = Having(o, code)
         /\ code \notin {OrigStateId, SupportedVendorId, AuthAppId, AcctAppId, VendorSpecificAppId,
                         FirmwareRev} => Having(Sorted(o), code) = <<>>
<1>1. ASSUME NEW own PROVE OfCode(FindFirst(o, own), own, code) /\ OfCode(Having(o, own), own, code)
  <2>1. OfCode(FindFirst(o, own), own, code)
    BY FindFirstFound DEF OfCode
  <2>2. PICK S : o \in Seq(S)
    BY DEF IsSeq
  <2>3. Having(Having(o, own), code) = (IF own = code THEN Having(o, own) ELSE <<>>)
        /\ IsSeq(Having(o, own))
    BY <2>2, HavingTwice, HavingType DEF IsSeq
  <2> QED
    BY <2>1, <2>3 DEF OfCode
<1> DEFINE p1 == FindFirst(o, OrigStateId)
           p2 == Having(o, SupportedVendorId)
           p3 == Having(o, AuthAppId)
           p4 == Having(o, AcctAppId)
           p5 == Having(o, VendorSpecificAppId)
           p6 == FindFirst(o, FirmwareRev)
           s == Sorted(o)
<1>2. s = p1 \o p2 \o p3 \o p4 \o p5 \o p6
  BY DEF Sorted
<1>3. /\ OfCode(p1, OrigStateId, code) /\ OfCode(p2, SupportedVendorId, code)
      /\ OfCode(p3, AuthAppId, code) /\ OfCode(p4, AcctAppId, code)
      /\ OfCode(p5, VendorSpecificAppId, code) /\ OfCode(p6, FirmwareRev, code)
  BY <1>1
<1>4. /\ code = SupportedVendorId => p2 = Having(o, code)
      /\ code = AuthAppId => p3 = Having(o, code)
      /\ code = VendorSpecificAppId => p5 = Having(o, code)
  OBVIOUS
<1> HIDE DEF p1, p2, p3, p4, p5, p6, s
<1>5. /\ IsSeq(s)
      /\ Having(s, code) = CASE code = OrigStateId         -> p1
                             [] code = SupportedVendorId   -> p2
                             [] code = AuthAppId           -> p3
                             [] code = AcctAppId           -> p4
                             [] code = VendorSpecificAppId -> p5
                             [] code = FirmwareRev         -> p6
                             [] OTHER                      -> <<>>
  BY <1>2, <1>3, SixParts
<1>6. /\ OrigStateId = 278 /\ SupportedVendorId = 265 /\ AuthAppId = 258 /\ AcctAppId = 259
      /\ VendorSpecificAppId = 260 /\ FirmwareRev = 267
  BY DEF OrigStateId, SupportedVendorId, AuthAppId, AcctAppId, VendorSpecificAppId, FirmwareRev
<1>7. code \in {SupportedVendorId, AuthAppId, VendorSpecificAppId} => Having(s, code) = Having(o, code)
  BY <1>4, <1>5, <1>6
<1>8. code \notin {OrigStateId, SupportedVendorId, AuthAppId, AcctAppId, VendorSpecificAppId,
                   FirmwareRev} => Having(s, code) = <<>>
  BY <1>5
<1> QED
  BY <1>5, <1>7, <1>8 DEF s

\* What follows the identity in a CER or a CEA.
Behind(cfg, list) ==
  diaAvpAddList(HostIp, cfg.ips)
    \o <<Avp(VendorIdCode, 0), Avp(ProductName, cfg.product)>>
    \o Sorted(Options(cfg, AvpsOf(VendorSpecificAppId, list)))

LEMMA BehindHaving ==
  ASSUME NEW cfg \in ConfigType, NEW list, IsSeq(list)
  PROVE  /\ IsSeq(Behind(cfg, list))
         /\ Capabilities(cfg, Options(cfg, AvpsOf(VendorSpecificAppId, list)))
              = Identity(cfg) \o Behind(cfg, list)
         /\ \A code \in {ResultCode, ExpResultCode, OrigHost, OrigRealm} :
              Having(Behind(cfg, list), code) = <<>>
         /\ Having(Behind(cfg, list), HostIp) = AvpsOf(HostIp, Cut(cfg.ips))
         /\ Having(Behind(cfg, list), SupportedVendorId) = AvpsOf(SupportedVendorId, Cut(cfg.vendors))
         /\ Having(Behind(cfg, list), AuthAppId) = AvpsOf(AuthAppId, Cut(cfg.auth))
         /\ Having(Behind(cfg, list), VendorSpecificAppId) = AvpsOf(VendorSpecificAppId, list)
<1> DEFINE p1 == diaAvpAddList(HostIp, cfg.ips)
           p2 == <<Avp(VendorIdCode, 0), Avp(ProductName, cfg.product)>>
           o == Options(cfg, AvpsOf(VendorSpecificAppId, list))
           p3 == Sorted(o)
           id == Identity(cfg)
           b == Behind(cfg, list)
<1>1. b = (p1 \o p2) \o p3 /\ Capabilities(cfg, o) = ((id \o p1) \o p2) \o p3
  BY DEF Behind, Capabilities
<1>2. p1 = AvpsOf(HostIp, Cut(cfg.ips)) /\ IsSeq(Cut(cfg.ips))
  BY ConfigTypes, CutFits DEF diaAvpAddList, Cut
<1>3. ASSUME NEW code PROVE OfCode(p1, HostIp, code)
  BY <1>2, PartListed
<1>4. ASSUME NEW code
      PROVE  IsSeq(p2) /\ (code \notin {VendorIdCode, ProductName} => Having(p2, code) = <<>>)
  <2>1. IsSeq(p2) /\ Count(p2, code) = One(VendorIdCode, code) + One(ProductName, code)
    BY TwoAvps DEF Avp
  <2> QED
    BY <2>1, CountType DEF One
<1>5. IsSeq(o) /\ IsSeq(p3)
  BY OptionsHaving, SortedHaving
<1>6. IsSeq(id)
  <2>1. IsSeq(<<Avp(OrigHost, cfg.host), Avp(OrigRealm, cfg.realm)>>)
    BY TwoAvps
  <2> QED
    BY <2>1 DEF Identity
<1>7. /\ OrigStateId = 278 /\ SupportedVendorId = 265 /\ AuthAppId = 258 /\ AcctAppId = 259
      /\ VendorSpecificAppId = 260 /\ FirmwareRev = 267 /\ HostIp = 257 /\ VendorIdCode = 266
      /\ ProductName = 269 /\ ResultCode = 268 /\ ExpResultCode = 298 /\ OrigHost = 264
      /\ OrigRealm = 296
  BY DEF OrigStateId, SupportedVendorId, AuthAppId, AcctAppId, VendorSpecificAppId, FirmwareRev,
         HostIp, VendorIdCode, ProductName, ResultCode, ExpResultCode, OrigHost, OrigRealm
<1>8. ASSUME NEW code
      PROVE /\ code \in {SupportedVendorId, AuthAppId, VendorSpecificAppId}
                 => Having(p3, code) = Having(o, code)
            /\ code \in {ResultCode, ExpResultCode, OrigHost, OrigRealm, HostIp}
                 => Having(p3, code) = <<>>
  BY <1>5, <1>7, SortedHaving
<1>9. /\ Having(o, SupportedVendorId) = AvpsOf(SupportedVendorId, Cut(cfg.vendors))
      /\ Having(o, AuthAppId) = AvpsOf(AuthAppId, Cut(cfg.auth))
      /\ Having(o, VendorSpecificAppId) = AvpsOf(VendorSpecificAppId, list)
  BY OptionsHaving
<1> HIDE DEF p1, p2, p3, o, id, b
<1>10. ASSUME NEW code, code \notin {VendorIdCode, ProductName}
       PROVE  /\ IsSeq(p1 \o p2)
              /\ Having(p1 \o p2, code) = IF code = HostIp THEN p1 ELSE <<>>
  BY <1>3, <1>4, <1>10, HavingTwo DEF OfCode
<1>11. ASSUME NEW code, code \notin {VendorIdCode, ProductName},
              code = HostIp => Having(p3, code) = <<>>
       PROVE  IsSeq(b) /\ Having(b, code) = IF code = HostIp THEN p1 ELSE Having(p3, code)
  <2> DEFINE q == p1 \o p2
  <2>1. IsSeq(q) /\ Having(q, code) = IF code = HostIp THEN p1 ELSE <<>>
    BY <1>10, <1>11
  <2>2. b = q \o p3
    BY <1>1
  <2> HIDE DEF q
  <2>3. CASE code = HostIp
    BY <1>5, <1>11, <2>1, <2>2, <2>3, HavingTwo
  <2>4. CASE code # HostIp
    BY <1>5, <2>1, <2>2, <2>4, HavingTwo
  <2> QED
    BY <2>3, <2>4
<1>12. Capabilities(cfg, o) = id \o b
  <2>1. PICK S : id \in Seq(S) /\ p1 \in Seq(S) /\ p2 \in Seq(S) /\ p3 \in Seq(S)
    <3>1. PICK S1, S2, S3, S4 : id \in Seq(S1) /\ p1 \in Seq(S2) /\ p2 \in Seq(S3) /\ p3 \in Seq(S4)
      BY <1>3, <1>4, <1>5, <1>6, Zenon DEF IsSeq, OfCode
    <3> DEFINE S == S1 \cup S2 \cup S3 \cup S4
    <3>2. S1 \subseteq S /\ S2 \subseteq S /\ S3 \subseteq S /\ S4 \subseteq S
      OBVIOUS
    <3> HIDE DEF S
    <3>3. id \in Seq(S) /\ p1 \in Seq(S) /\ p2 \in Seq(S) /\ p3 \in Seq(S)
      BY <3>1, <3>2, SeqOfMore
    <3> QED
      BY <3>3
  <2>2. p1 \o p2 \in Seq(S) /\ id \o p1 \in Seq(S)
    BY <2>1, ConcatProperties
  <2>3. (id \o p1) \o p2 = id \o (p1 \o p2)
    BY <2>1, ConcatAssociative, SMTT(30)
  <2>4. (id \o (p1 \o p2)) \o p3 = id \o ((p1 \o p2) \o p3)
    <3> DEFINE m == p1 \o p2
    <3>1. id \in Seq(S) /\ m \in Seq(S) /\ p3 \in Seq(S)
      BY <2>1, <2>2
    <3> HIDE DEF m
    <3>2. (id \o m) \o p3 = id \o (m \o p3)
      BY <3>1, ConcatAssociative
    <3> QED
      BY <3>2 DEF m
  <2> QED
    BY <1>1, <2>3, <2>4
<1>13. IsSeq(b)
  BY <1>7, <1>8, <1>11
<1>14. \A code \in {ResultCode, ExpResultCode, OrigHost, OrigRealm} : Having(b, code) = <<>>
  BY <1>7, <1>8, <1>11
<1>15. Having(b, HostIp) = AvpsOf(HostIp, Cut(cfg.ips))
  BY <1>2, <1>7, <1>8, <1>11
<1>16. ASSUME NEW code \in {SupportedVendorId, AuthAppId, VendorSpecificAppId}
       PROVE  Having(b, code) = Having(o, code)
  BY <1>7, <1>8, <1>11
<1> QED
  BY <1>9, <1>12, <1>13, <1>14, <1>15, <1>16 DEF b, o, id

\* What a message of the exchange begins with: the identity, and in a CEA the result,
\* which another make of peer puts in between.
Host(cfg) == Avp(OrigHost, cfg.host)
Realm(cfg) == Avp(OrigRealm, cfg.realm)
Result(n) == Avp(ResultCode, n)
Opens(cfg, n, first) ==
  first \in {<<Host(cfg), Realm(cfg)>>, <<Result(n), Host(cfg), Realm(cfg)>>,
             <<Host(cfg), Result(n), Realm(cfg)>>}

LEMMA TwoHaving ==
  ASSUME NEW a, NEW b, a.code # b.code, NEW code
  PROVE  /\ IsSeq(<<a, b>>)
         /\ Having(<<a, b>>, code) = IF a.code = code THEN <<a>>
                                     ELSE IF b.code = code THEN <<b>> ELSE <<>>
<1> DEFINE s == <<a>>
           t == <<b>>
<1>1. <<a, b>> = s \o t
  <2>1. <<a, b>> = Append(s, b)
    OBVIOUS
  <2>2. s \in Seq({a, b}) /\ b \in {a, b}
    OBVIOUS
  <2>3. Append(s, b) = s \o <<b>>
    BY <2>2, AppendIsConcat
  <2> QED
    BY <2>1, <2>3
<1>2. IsSeq(s) /\ Having(s, code) = (IF a.code = code THEN s ELSE <<>>) /\ s # <<>>
  BY HavingSingle
<1>3. IsSeq(t) /\ Having(t, code) = (IF b.code = code THEN t ELSE <<>>)
  BY HavingSingle
<1> HIDE DEF s, t
<1>4. /\ IsSeq(s \o t)
      /\ Having(s \o t, code) = IF a.code = code THEN s ELSE IF b.code = code THEN t ELSE <<>>
  BY <1>2, <1>3, HavingTwo
<1> QED
  BY <1>1, <1>4, Zenon DEF s, t

LEMMA ThreeHaving ==
  ASSUME NEW a, NEW b, NEW c, a.code # b.code, a.code # c.code, b.code # c.code, NEW code
  PROVE  /\ IsSeq(<<a, b, c>>)
         /\ Having(<<a, b, c>>, code) = IF a.code = code THEN <<a>>
                                        ELSE IF b.code = code THEN <<b>>
                                        ELSE IF c.code = code THEN <<c>> ELSE <<>>
<1> DEFINE s == <<a, b>>
           t == <<c>>
           u == <<a>>
           v == <<b>>
<1>1. <<a, b, c>> = s \o t
  OBVIOUS
<1>2. IsSeq(s) /\ Having(s, code) = (IF a.code = code THEN u ELSE IF b.code = code THEN v ELSE <<>>)
  BY TwoHaving
<1>3. IsSeq(t) /\ Having(t, code) = (IF c.code = code THEN t ELSE <<>>) /\ u # <<>> /\ v # <<>>
  BY HavingSingle
<1> HIDE DEF s, t, u, v
<1>4. /\ IsSeq(s \o t)
      /\ Having(s \o t, code) = IF a.code = code THEN u ELSE IF b.code = code THEN v
                                ELSE IF c.code = code THEN t ELSE <<>>
  BY <1>2, <1>3, HavingTwo
<1> QED
  BY <1>1, <1>4, Zenon DEF s, t, u, v

LEMMA OpensHaving ==
  ASSUME NEW cfg, NEW n, NEW first, Opens(cfg, n, first)
  PROVE  /\ IsSeq(first)
         /\ Having(first, OrigHost) = <<Host(cfg)>> /\ Having(first, OrigRealm) = <<Realm(cfg)>>
         /\ \A code : code \notin {ResultCode, OrigHost, OrigRealm} => Having(first, code) = <<>>
         /\ Having(first, ResultCode) = <<>> => first = <<Host(cfg), Realm(cfg)>>
         /\ first = <<Host(cfg), Realm(cfg)>> => Having(first, ResultCode) = <<>>
<1>1. Host(cfg).code = 264 /\ Realm(cfg).code = 296 /\ Result(n).code = 268
      /\ OrigHost = 264 /\ OrigRealm = 296 /\ ResultCode = 268
  BY DEF Host, Realm, Result, Avp, OrigHost, OrigRealm, ResultCode
<1> DEFINE h == Host(cfg)
           m == Realm(cfg)
           r == Result(n)
           no == <<h, m>>
           own == <<r, h, m>>
           late == <<h, r, m>>
           oneH == <<h>>
           oneM == <<m>>
           oneR == <<r>>
<1>2. first = no \/ first = own \/ first = late
  BY DEF Opens
<1>3. oneR # <<>> /\ no # own /\ no # late
  <2>1. Len(no) = 2 /\ Len(own) = 3 /\ Len(late) = 3 /\ Len(oneR) = 1 /\ Len(<<>>) = 0
    BY EmptySeq
  <2> HIDE DEF no, own, late, oneR
  <2> QED
    BY <2>1
<1>4. ASSUME NEW code
      PROVE  /\ IsSeq(no)
             /\ Having(no, code) = IF code = 264 THEN oneH ELSE IF code = 296 THEN oneM ELSE <<>>
             /\ IsSeq(own)
             /\ Having(own, code) = IF code = 268 THEN oneR ELSE IF code = 264 THEN oneH
                                    ELSE IF code = 296 THEN oneM ELSE <<>>
             /\ IsSeq(late)
             /\ Having(late, code) = IF code = 264 THEN oneH ELSE IF code = 268 THEN oneR
                                     ELSE IF code = 296 THEN oneM ELSE <<>>
  <2> HIDE DEF h, m, r
  <2>1. h.code = 264 /\ m.code = 296 /\ r.code = 268
    BY <1>1 DEF h, m, r
  <2>2. /\ IsSeq(no)
        /\ Having(no, code) = IF h.code = code THEN oneH ELSE IF m.code = code THEN oneM ELSE <<>>
    BY <2>1, TwoHaving
  <2>3. /\ IsSeq(own)
        /\ Having(own, code) = IF r.code = code THEN oneR ELSE IF h.code = code THEN oneH
                               ELSE IF m.code = code THEN oneM ELSE <<>>
    BY <2>1, ThreeHaving
  <2>4. /\ IsSeq(late)
        /\ Having(late, code) = IF h.code = code THEN oneH ELSE IF r.code = code THEN oneR
                                ELSE IF m.code = code THEN oneM ELSE <<>>
    BY <2>1, ThreeHaving
  <2> HIDE DEF no, own, late, oneH, oneM, oneR
  <2> QED
    BY <2>1, <2>2, <2>3, <2>4
<1> HIDE DEF no, own, late, oneH, oneM, oneR
<1>5. IsSeq(first) /\ Having(first, 264) = oneH /\ Having(first, 296) = oneM
  BY <1>2, <1>4
<1>6. ASSUME NEW code, code \notin {268, 264, 296} PROVE Having(first, code) = <<>>
  BY <1>2, <1>4, <1>6
<1>7. Having(first, 268) = <<>> <=> first = no
  BY <1>2, <1>3, <1>4
<1> QED
  BY <1>1, <1>5, <1>6, <1>7 DEF no, oneH, oneM

Joint(u, s, m, t, n) == \A i \in 1..(m + n) : u[i] = IF i <= m THEN s[i] ELSE t[i - m]

LEMMA Joins ==
  ASSUME NEW S, NEW s \in Seq(S), NEW t \in Seq(S)
  PROVE  /\ s \o t \in Seq(S) /\ Len(s \o t) = Len(s) + Len(t)
         /\ Joint(s \o t, s, Len(s), t, Len(t))
BY ConcatProperties, Zenon DEF Joint

\* A peer of another make swaps the first two AVPs (Late).
Swapped(given, turned) == \E x, y, z : given = <<x, y, z>> /\ turned = <<y, x, z>>

LEMMA LateIs ==
  ASSUME NEW b, IsSeq(b), NEW given, NEW turned, Swapped(given, turned)
  PROVE  Late(given \o b) = turned \o b
<1>0. PICK x, y, z : given = <<x, y, z>> /\ turned = <<y, x, z>>
  BY DEF Swapped
<1>1. PICK S : b \in Seq(S)
  BY DEF IsSeq
<1> DEFINE T == S \cup {x, y, z}
           first == <<x, y, z>>
           two == <<y, x>>
           n == Len(b)
           s == first \o b
           t == turned \o b
           u == SubSeq(s, 3, Len(s))
           v == two \o u
<1>2. b \in Seq(T) /\ n \in Nat /\ Len(b) = n
  <2>1. S \subseteq T
    OBVIOUS
  <2> HIDE DEF T
  <2> QED
    BY <1>1, <2>1, SeqOfMore, LenProperties
<1>3. /\ first \in Seq(T) /\ Len(first) = 3 /\ first[1] = x /\ first[2] = y /\ first[3] = z
      /\ turned \in Seq(T) /\ Len(turned) = 3 /\ turned[1] = y /\ turned[2] = x /\ turned[3] = z
      /\ two \in Seq(T) /\ Len(two) = 2 /\ two[1] = y /\ two[2] = x
  BY <1>0
<1>4. s[1] = x /\ s[2] = y => Late(s) = v
  <2> HIDE DEF s, u
  <2> QED
    BY DEF Late, u
<1> HIDE DEF first, two, T, n
<1>5. /\ s \in Seq(T) /\ Len(s) = 3 + n /\ s[1] = x /\ s[2] = y /\ s[3] = z
      /\ \A i \in 1..n : s[i + 3] = b[i]
  <2>1. /\ s \in Seq(T) /\ Len(s) = 3 + n
        /\ \A i \in 1..(3 + n) : s[i] = IF i <= 3 THEN first[i] ELSE b[i - 3]
    <3>1. s \in Seq(T) /\ Len(s) = 3 + n /\ Joint(s, first, 3, b, n)
      <4>1. first \in Seq(T) /\ b \in Seq(T) /\ Len(first) = 3 /\ Len(b) = n
        BY <1>2, <1>3
      <4>2. s \in Seq(T) /\ Len(s) = Len(first) + Len(b) /\ Joint(s, first, Len(first), b, Len(b))
        BY <4>1, Joins, Zenon
      <4> QED
        BY <4>1, <4>2
    <3> QED
      BY <3>1, Zenon DEF Joint
  <2> HIDE DEF s
  <2>2. s[1] = x /\ s[2] = y /\ s[3] = z
    BY <1>2, <1>3, <2>1
  <2>3. ASSUME NEW i \in 1..n PROVE s[i + 3] = b[i]
    <3>1. i + 3 \in 1..(3 + n) /\ ~(i + 3 <= 3) /\ (i + 3) - 3 = i
      BY <1>2
    <3> QED
      BY <2>1, <3>1
  <2> QED
    BY <2>1, <2>2, <2>3
<1>6. /\ t \in Seq(T) /\ Len(t) = 3 + n
      /\ \A i \in 1..(3 + n) : t[i] = IF i <= 3 THEN turned[i] ELSE b[i - 3]
  <2>1. t \in Seq(T) /\ Len(t) = 3 + n /\ Joint(t, turned, 3, b, n)
    <3>1. turned \in Seq(T) /\ b \in Seq(T) /\ Len(turned) = 3 /\ Len(b) = n
      BY <1>2, <1>3
    <3>2. t \in Seq(T) /\ Len(t) = Len(turned) + Len(b) /\ Joint(t, turned, Len(turned), b, Len(b))
      BY <3>1, Joins, Zenon
    <3> QED
      BY <3>1, <3>2
  <2> QED
    BY <2>1, Zenon DEF Joint
<1> HIDE DEF s, t
<1>7. /\ u \in Seq(T) /\ Len(u) = n + 1 /\ \A i \in 1..(n + 1) : u[i] = s[i + 2]
  <2>1. 3 \in Int /\ 3 + n \in Int /\ \A i \in 3..(3 + n) : s[i] \in T
    BY <1>2, <1>5, ElementOfSeq
  <2>2. /\ u \in Seq(T) /\ Len(u) = IF 3 <= 3 + n THEN (3 + n) - 3 + 1 ELSE 0
        /\ \A i \in 1..((3 + n) - 3 + 1) : u[i] = s[3 + i - 1]
    BY <1>5, <2>1, SubSeqProperties
  <2>3. Len(u) = n + 1 /\ (3 + n) - 3 + 1 = n + 1
    BY <1>2, <2>2
  <2>4. \A i \in 1..(n + 1) : 3 + i - 1 = i + 2
    BY <1>2
  <2> QED
    BY <2>2, <2>3, <2>4
<1> HIDE DEF u
<1>8. /\ v \in Seq(T) /\ Len(v) = 2 + (n + 1)
      /\ \A i \in 1..(2 + (n + 1)) : v[i] = IF i <= 2 THEN two[i] ELSE u[i - 2]
  <2>1. v \in Seq(T) /\ Len(v) = 2 + (n + 1) /\ Joint(v, two, 2, u, n + 1)
    <3>1. two \in Seq(T) /\ u \in Seq(T) /\ Len(two) = 2 /\ Len(u) = n + 1
      BY <1>3, <1>7
    <3>2. v \in Seq(T) /\ Len(v) = Len(two) + Len(u) /\ Joint(v, two, Len(two), u, Len(u))
      BY <3>1, Joins, Zenon
    <3> QED
      BY <3>1, <3>2
  <2> QED
    BY <2>1, Zenon DEF Joint
<1> HIDE DEF v
<1>9. 2 + (n + 1) = 3 + n
  BY <1>2
<1>10. ASSUME NEW i \in 1..(3 + n) PROVE v[i] = t[i]
  <2>1. CASE i = 1
    BY <1>3, <1>6, <1>8, <1>9, <2>1
  <2>2. CASE i = 2
    BY <1>3, <1>6, <1>8, <1>9, <2>2
  <2>3. CASE i = 3
    <3>1. v[3] = u[1] /\ t[3] = z
      BY <1>2, <1>3, <1>6, <1>8, <1>9, <2>3
    <3>2. u[1] = s[3]
      BY <1>2, <1>7
    <3> QED
      BY <1>5, <2>3, <3>1, <3>2
  <2>4. CASE i > 3
    <3>1. i - 2 \in 1..(n + 1) /\ i - 3 \in 1..n /\ (i - 2) + 2 = (i - 3) + 3 /\ ~(i <= 2) /\ ~(i <= 3)
      BY <1>2, <2>4
    <3>2. v[i] = u[i - 2] /\ t[i] = b[i - 3]
      BY <1>6, <1>8, <1>9, <3>1
    <3>3. u[i - 2] = s[(i - 2) + 2] /\ s[(i - 3) + 3] = b[i - 3]
      BY <1>5, <1>7, <3>1
    <3> QED
      BY <3>1, <3>2, <3>3
  <2> QED
    BY <2>1, <2>2, <2>3, <2>4
<1>11. v = t
  <2>1. IsList(v, 3 + n) /\ IsList(t, 3 + n)
    <3>1. DOMAIN v = 1..(3 + n) /\ v = [i \in DOMAIN v |-> v[i]]
      BY <1>8, <1>9, LenProperties
    <3>2. DOMAIN t = 1..(3 + n) /\ t = [i \in DOMAIN t |-> t[i]]
      BY <1>6, LenProperties
    <3> QED
      BY <3>1, <3>2 DEF IsList
  <2> QED
    BY <1>10, <2>1, ListsAlike
<1> QED
  BY <1>0, <1>4, <1>5, <1>11 DEF s, t, first

\* The groups of a CER are those of all applications, and of a CEA the ones that fit.
AppGroups(cfg, list) ==
  /\ IsSeq(list)
  /\ \A i \in Fits(cfg.apps) : i \in 1..Len(list) /\ list[i] = getVendorSpecificAppId(cfg.apps[i])

LEMMA VendorAppsGroups ==
  ASSUME NEW cfg \in ConfigType
  PROVE  AppGroups(cfg, VendorApps(cfg)) /\ AppGroups(cfg, Cut(VendorApps(cfg)))
<1> DEFINE n == Len(cfg.apps)
           all == VendorApps(cfg)
           cut == Cut(all)
<1>1. IsSeq(cfg.apps) /\ n \in Nat /\ DOMAIN cfg.apps = 1..n
  BY ConfigTypes, IsSeqLen
<1>2. IsList(all, n) /\ \A i \in 1..n : all[i] = getVendorSpecificAppId(cfg.apps[i])
  BY <1>1 DEF VendorApps, IsList
<1> HIDE DEF all
<1>3. IsSeq(all) /\ Len(all) = n
  <2> DEFINE S == {all[i] : i \in 1..n}
  <2>1. \A i \in 1..n : all[i] \in S
    OBVIOUS
  <2> HIDE DEF S
  <2>2. all \in Seq(S) /\ Len(all) = n
    BY <1>1, <1>2, <2>1, ListType
  <2> QED
    BY <2>2 DEF IsSeq
<1>4. Fits(cfg.apps) \subseteq 1..n
  BY <1>1 DEF Fits
<1>5. AppGroups(cfg, all)
  BY <1>2, <1>3, <1>4 DEF AppGroups
<1>6. DOMAIN all = 1..n
  BY <1>3, IsSeqLen
<1>7. Fits(all) = Fits(cfg.apps)
  BY <1>1, <1>6 DEF Fits
<1>8. IsSeq(cut) /\ Fits(all) = 1..Len(cut) /\ \A i \in Fits(all) : cut[i] = all[i]
  BY <1>3, CutFits
<1> HIDE DEF cut
<1>9. AppGroups(cfg, cut)
  BY <1>2, <1>4, <1>7, <1>8 DEF AppGroups
<1> QED
  BY <1>5, <1>9 DEF all, cut

LEMMA OneAndTwo == ASSUME NEW a, NEW b, NEW c PROVE <<a>> \o <<b, c>> = <<a, b, c>>
<1> DEFINE s == <<a>>
           t == <<b, c>>
           u == <<a, b, c>>
<1>1. IsList(u, 3) /\ u[1] = a /\ u[2] = b /\ u[3] = c
  BY DEF IsList
<1>2. /\ s \in Seq({a, b, c}) /\ Len(s) = 1 /\ s[1] = a
      /\ t \in Seq({a, b, c}) /\ Len(t) = 2 /\ t[1] = b /\ t[2] = c
  OBVIOUS
<1> HIDE DEF s, t, u
<1> DEFINE v == s \o t
<1>3. v \in Seq({a, b, c}) /\ Len(v) = 3 /\ Joint(v, s, 1, t, 2)
  <2>1. v \in Seq({a, b, c}) /\ Len(v) = Len(s) + Len(t) /\ Joint(v, s, Len(s), t, Len(t))
    BY <1>2, Joins, Zenon
  <2> QED
    BY <1>2, <2>1
<1>4. v[1] = a /\ v[2] = b /\ v[3] = c
  BY <1>2, <1>3 DEF Joint
<1>5. IsList(v, 3)
  <2>1. DOMAIN v = 1..3 /\ v = [i \in DOMAIN v |-> v[i]]
    BY <1>3, LenProperties
  <2> QED
    BY <2>1 DEF IsList
<1> HIDE DEF v
<1>6. \A i \in 1..3 : i = 1 \/ i = 2 \/ i = 3
  OBVIOUS
<1>7. v = u
  BY <1>1, <1>4, <1>5, <1>6, ListsAlike
<1> QED
  BY <1>7 DEF v, s, t, u

\* A CEA is its result before or in the identity, and the lists behind it.
IsCeaOf(cfg, n, avps) == avps = diaBuildCea(cfg, n) \/ avps = Late(diaBuildCea(cfg, n))
CeaParts(cfg, n, avps, list, first) ==
  /\ AppGroups(cfg, list)
  /\ first \in {<<Result(n), Host(cfg), Realm(cfg)>>, <<Host(cfg), Result(n), Realm(cfg)>>}
  /\ avps = first \o Behind(cfg, list)

LEMMA CeaShape ==
  ASSUME NEW cfg \in ConfigType, NEW n, NEW avps, IsCeaOf(cfg, n, avps)
  PROVE  \E list, first : CeaParts(cfg, n, avps, list, first)
<1> DEFINE own == <<Host(cfg), Realm(cfg)>>
           list == Cut(VendorApps(cfg))
           b == Behind(cfg, list)
           one == <<Result(n)>>
           begin == <<Result(n), Host(cfg), Realm(cfg)>>
           turned == <<Host(cfg), Result(n), Realm(cfg)>>
<1>1. diaBuildCea(cfg, n)
        = one \o Capabilities(cfg, Options(cfg, AvpsOf(VendorSpecificAppId, list)))
  BY DEF diaBuildCea, diaAvpAddList, Cut, Result
<1>11. Identity(cfg) = own
  BY DEF Identity, Host, Realm
<1>2. AppGroups(cfg, list) /\ IsSeq(list)
  BY VendorAppsGroups DEF AppGroups
<1> HIDE DEF list
<1>3. diaBuildCea(cfg, n) = one \o (own \o b) /\ IsSeq(b)
  BY <1>1, <1>2, <1>11, BehindHaving
<1>4. one \o own = begin
  BY OneAndTwo, Zenon
<1> HIDE DEF b
<1>5. one \o (own \o b) = (one \o own) \o b
  <2>1. PICK S : b \in Seq(S)
    BY <1>3 DEF IsSeq
  <2> DEFINE T == S \cup {Result(n), Host(cfg), Realm(cfg)}
  <2>2. one \in Seq(T) /\ own \in Seq(T) /\ S \subseteq T
    OBVIOUS
  <2> HIDE DEF T, one, own
  <2>3. b \in Seq(T)
    BY <2>1, <2>2, SeqOfMore
  <2> QED
    BY <2>2, <2>3, ConcatAssociative, SMTT(30)
<1>6. diaBuildCea(cfg, n) = begin \o b
  BY <1>3, <1>4, <1>5
<1>8. Swapped(begin, turned)
  BY DEF Swapped
<1>7. \A first : first \in {<<Result(n), Host(cfg), Realm(cfg)>>, <<Host(cfg), Result(n), Realm(cfg)>>}
                <=> first = begin \/ first = turned
  OBVIOUS
<1> HIDE DEF begin, turned
<1>9. Late(begin \o b) = turned \o b
  BY <1>3, <1>8, LateIs
<1>10. avps = begin \o b \/ avps = turned \o b
  BY <1>6, <1>9 DEF IsCeaOf
<1> QED
  BY <1>2, <1>7, <1>10, Zenon DEF b, CeaParts

\* Every message of the exchange is the identity, with the result of a CEA before or in
\* it, and the lists of the configuration behind it.
LEMMA ExchangeShape ==
  ASSUME NEW m \in Messages, m.cmd = CER
  PROVE  /\ m.cfg \in ConfigType
         /\ \E list, n, first : /\ AppGroups(m.cfg, list) /\ Opens(m.cfg, n, first)
                                /\ m.avps = first \o Behind(m.cfg, list)
<1> DEFINE cfg == m.cfg
           own == <<Host(cfg), Realm(cfg)>>
<1>1. /\ cfg \in ConfigType
      /\ \/ m.avps = diaBuildCer(cfg)
         \/ \E n : m.avps = diaBuildCea(cfg, n) \/ m.avps = Late(diaBuildCea(cfg, n))
  <2>1. m.avps = diaBuildCer(cfg)
          \/ \E a \in {b \in Avps : b.code = ResultCode} :
               m.avps \in {diaBuildCea(cfg, a.data), Late(diaBuildCea(cfg, a.data))}
    BY ExchangeAssumption, Zenon
  <2>2. cfg \in ConfigType
    BY ExchangeAssumption, Zenon
  <2> HIDE DEF cfg
  <2> QED
    BY <2>1, <2>2, Zenon
<1> HIDE DEF cfg
<1>2. AppGroups(cfg, VendorApps(cfg)) /\ AppGroups(cfg, Cut(VendorApps(cfg)))
  BY <1>1, VendorAppsGroups
<1>3. Identity(cfg) = own
  BY DEF Identity, Host, Realm
<1>4. CASE m.avps = diaBuildCer(cfg)
  <2> DEFINE list == VendorApps(cfg)
  <2>1. diaBuildCer(cfg) = Capabilities(cfg, Options(cfg, AvpsOf(VendorSpecificAppId, list)))
    BY DEF diaBuildCer
  <2> HIDE DEF list
  <2>2. AppGroups(cfg, list) /\ IsSeq(list)
    BY <1>2 DEF list, AppGroups
  <2>3. m.avps = own \o Behind(cfg, list)
    BY <1>1, <1>3, <1>4, <2>1, <2>2, BehindHaving
  <2>4. \A n : Opens(cfg, n, own)
    BY DEF Opens
  <2> QED
    BY <1>1, <2>2, <2>3, <2>4, Zenon DEF cfg
<1>5. ASSUME NEW n, m.avps = diaBuildCea(cfg, n) \/ m.avps = Late(diaBuildCea(cfg, n))
      PROVE  \E list, first : /\ AppGroups(cfg, list) /\ Opens(cfg, n, first)
                              /\ m.avps = first \o Behind(cfg, list)
  <2>1. IsCeaOf(cfg, n, m.avps)
    BY <1>5 DEF IsCeaOf
  <2>2. PICK list, first : CeaParts(cfg, n, m.avps, list, first)
    BY <1>1, <2>1, CeaShape
  <2>3. Opens(cfg, n, first)
    BY <2>2 DEF Opens, CeaParts
  <2> QED
    BY <2>2, <2>3, Zenon DEF CeaParts
<1> QED
  BY <1>1, <1>4, <1>5, Zenon DEF cfg

\* How often and in what order the exchange names what it is about.
LEMMA ExchangeHaving ==
  ASSUME NEW m \in Messages, m.cmd = CER
  PROVE  /\ m.cfg \in ConfigType
         /\ Having(m.avps, OrigHost) = <<Host(m.cfg)>>
         /\ Having(m.avps, OrigRealm) = <<Realm(m.cfg)>>
         /\ Having(m.avps, HostIp) = AvpsOf(HostIp, Cut(m.cfg.ips))
         /\ Having(m.avps, SupportedVendorId) = AvpsOf(SupportedVendorId, Cut(m.cfg.vendors))
         /\ Having(m.avps, AuthAppId) = AvpsOf(AuthAppId, Cut(m.cfg.auth))
         /\ \E list : /\ AppGroups(m.cfg, list)
                      /\ Having(m.avps, VendorSpecificAppId) = AvpsOf(VendorSpecificAppId, list)
<1>1. m.cfg \in ConfigType
  BY ExchangeShape
<1>2. PICK list, n, first : /\ AppGroups(m.cfg, list) /\ Opens(m.cfg, n, first)
                            /\ m.avps = first \o Behind(m.cfg, list)
  BY ExchangeShape
<1> DEFINE b == Behind(m.cfg, list)
<1>3. IsSeq(list)
  BY <1>2 DEF AppGroups
<1>4. /\ IsSeq(b) /\ Having(b, OrigHost) = <<>> /\ Having(b, OrigRealm) = <<>>
      /\ Having(b, HostIp) = AvpsOf(HostIp, Cut(m.cfg.ips))
      /\ Having(b, SupportedVendorId) = AvpsOf(SupportedVendorId, Cut(m.cfg.vendors))
      /\ Having(b, AuthAppId) = AvpsOf(AuthAppId, Cut(m.cfg.auth))
      /\ Having(b, VendorSpecificAppId) = AvpsOf(VendorSpecificAppId, list)
  BY <1>1, <1>3, BehindHaving
<1> HIDE DEF b
<1>5. /\ IsSeq(first)
      /\ Having(first, OrigHost) = <<Host(m.cfg)>> /\ Having(first, OrigRealm) = <<Realm(m.cfg)>>
      /\ \A code : code \notin {ResultCode, OrigHost, OrigRealm} => Having(first, code) = <<>>
  BY <1>2, OpensHaving
<1>6. m.avps = first \o b
  BY <1>2 DEF b
<1>7. Having(m.avps, OrigHost) = Having(first, OrigHost)
      /\ Having(m.avps, OrigRealm) = Having(first, OrigRealm)
  <2>1. Count(b, OrigHost) = 0 /\ Count(b, OrigRealm) = 0
    BY <1>4, CountType
  <2> QED
    BY <1>4, <1>5, <1>6, <2>1, HavingEither
<1>8. ASSUME NEW code, code \notin {ResultCode, OrigHost, OrigRealm}
      PROVE  Having(m.avps, code) = Having(b, code)
  <2>1. Having(first, code) = <<>>
    BY <1>5, <1>8
  <2>2. Count(first, code) = 0
    BY <1>5, <2>1, CountType
  <2> QED
    BY <1>4, <1>5, <1>6, <2>2, HavingEither
<1>9. {HostIp, SupportedVendorId, AuthAppId, VendorSpecificAppId}
        \cap {ResultCode, OrigHost, OrigRealm} = {}
  BY DEF HostIp, SupportedVendorId, AuthAppId, VendorSpecificAppId, ResultCode, OrigHost, OrigRealm
<1>10. \A code \in {HostIp, SupportedVendorId, AuthAppId, VendorSpecificAppId} :
         Having(m.avps, code) = Having(b, code)
  BY <1>8, <1>9
<1> QED
  BY <1>1, <1>2, <1>4, <1>5, <1>7, <1>10

LEMMA AvpsOfOne == ASSUME NEW own, NEW d PROVE AvpsOf(own, <<d>>) = <<Avp(own, d)>> /\ IsSeq(<<d>>)
<1> DEFINE s == <<d>>
           t == AvpsOf(own, s)
           u == <<Avp(own, d)>>
<1>1. s \in Seq({d}) /\ DOMAIN s = 1..1 /\ s[1] = d
  OBVIOUS
<1>2. IsList(u, 1) /\ u[1] = Avp(own, d)
  BY DEF IsList
<1> HIDE DEF s, u
<1>3. IsList(t, 1) /\ t[1] = Avp(own, d)
  BY <1>1 DEF AvpsOf, IsList
<1> HIDE DEF t
<1>4. \A i \in 1..1 : t[i] = u[i]
  BY <1>2, <1>3
<1>5. t = u
  BY <1>2, <1>3, <1>4, ListsAlike
<1> QED
  BY <1>1, <1>5 DEF IsSeq, s, t, u

LEMMA AppendToOne == ASSUME NEW a, NEW b PROVE Append(<<a>>, b) = <<a, b>> /\ Len(<<a>>) = 1
<1>1. <<a, b>> = Append(<<a>>, b)
  OBVIOUS
<1>2. Len(<<a>>) = 1
  OBVIOUS
<1> QED
  BY <1>1, <1>2

\* There is room for both members of the group.
LEMMA GroupMembers ==
  ASSUME NEW id
  PROVE  getVendorSpecificAppId(id) = <<Avp(VendorIdCode, 10415), Avp(AuthAppId, id)>>
<1> DEFINE x == Avp(VendorIdCode, 10415)
           y == Avp(AuthAppId, id)
           one == <<x>>
<1>1. Len(<<>>) = 0 /\ Append(<<>>, x) = one /\ Len(one) = 1 /\ Append(one, y) = <<x, y>>
  <2> HIDE DEF x, y
  <2>1. Len(<<>>) = 0
    BY EmptySeq
  <2>2. Append(<<>>, x) = one
    OBVIOUS
  <2>3. Len(one) = 1 /\ Append(one, y) = <<x, y>>
    BY AppendToOne, Zenon
  <2> QED
    BY <2>1, <2>2, <2>3
<1> HIDE DEF x, y, one
<1>2. 0 < MaxInGroup - 1 /\ 1 < MaxInGroup - 1
  BY CapExAssumption
<1>3. diaAvpGrp_addAvp(<<>>, x) = one
  BY <1>1, <1>2 DEF diaAvpGrp_addAvp
<1>4. diaAvpGrp_addAvp(one, y) = <<x, y>>
  BY <1>1, <1>2 DEF diaAvpGrp_addAvp
<1> QED
  BY <1>3, <1>4 DEF getVendorSpecificAppId, x, y

\* An application arrives as a group that names its vendor and itself.
LEMMA GroupHeard ==
  ASSUME CER \in Cmds, NEW id, NEW a \in Avps, a.code = VendorSpecificAppId,
         a.data = getVendorSpecificAppId(id)
  PROVE  /\ Having(Heard(CER, a).data, AuthAppId)[1].data = id
         /\ Having(Heard(CER, a).data, VendorIdCode)[1].data = 10415
<1> DEFINE x == Avp(VendorIdCode, 10415)
           y == Avp(AuthAppId, id)
           g == <<x, y>>
<1>1. a.data = g
  BY GroupMembers
<1>2. x.code = VendorIdCode /\ x.data = 10415 /\ y.code = AuthAppId /\ y.data = id
      /\ VendorIdCode # AuthAppId
  BY DEF Avp, VendorIdCode, AuthAppId
<1> HIDE DEF x, y
<1>3. Len(g) = 2 /\ g[1] = x /\ g[2] = y
  OBVIOUS
<1>4. Having(g, VendorIdCode) = <<x>> /\ Having(g, AuthAppId) = <<y>>
  <2> DEFINE one == <<x>>
             two == <<y>>
  <2>1. ASSUME NEW code
        PROVE  Having(g, code) = IF x.code = code THEN one ELSE IF y.code = code THEN two ELSE <<>>
    BY <1>2, TwoHaving
  <2> HIDE DEF one, two, g
  <2>2. Having(g, VendorIdCode) = one /\ Having(g, AuthAppId) = two
    BY <1>2, <2>1
  <2> QED
    BY <2>2 DEF one, two
<1> HIDE DEF g
<1>5. TypeOf(CER, a) = "grouped"
  BY BaseAvpTypes DEF TypeOf
<1>6. g \in Seq(Avps) /\ Heard(CER, a).data = Expected(CER)[g]
  BY <1>1, <1>5, DataTypes, HeardData
<1>7. TypeOf(CER, x) = "uint32" /\ TypeOf(CER, y) = "uint32"
  BY <1>2, BaseAvpTypes DEF TypeOf
<1>8. \A i \in 1..Len(g) : TypeOf(CER, g[i]) # "unknown"
  <2>1. \A i \in 1..Len(g) : i = 1 \/ i = 2
    BY <1>3
  <2> QED
    BY <1>3, <1>7, <2>1
<1>9. Heard(CER, a).data = AllHeard(CER, g)
  BY <1>6, <1>8, ExpectedKnown
<1>10. Having(AllHeard(CER, g), AuthAppId) = AllHeard(CER, <<y>>)
  BY <1>4, <1>6, HeardHaving
<1>11. Having(AllHeard(CER, g), VendorIdCode) = AllHeard(CER, <<x>>)
  BY <1>4, <1>6, HeardHaving
<1>12. Heard(CER, y).data = id /\ Heard(CER, x).data = 10415
  BY <1>2, <1>7, HeardData
<1> QED
  BY <1>9, <1>10, <1>11, <1>12, OneHeard

\* The peer learns of each list of the configuration as many values as a message may
\* carry (diaBuildCer, diaBuildCea and the encoders of diaBaseCer.c).
THEOREM PeerLearnsAlways == CapSpec => []PeerLearnsCapabilities
<1>1. ASSUME Hearing, stage = "done", msg.cmd = CER PROVE PeerLearnsCapabilities
  <2> DEFINE cfg == msg.cfg
  <2>1. /\ msg \in Messages /\ CER \in Cmds /\ msg.avps \in Seq(Avps)
        /\ \A code : Having(decoded[1], code) = AllHeard(CER, Having(msg.avps, code))
    BY <1>1, Received DEF Hearing
  <2>2. /\ cfg \in ConfigType
        /\ Having(msg.avps, OrigHost) = <<Host(cfg)>>
        /\ Having(msg.avps, OrigRealm) = <<Realm(cfg)>>
        /\ Having(msg.avps, HostIp) = AvpsOf(HostIp, Cut(cfg.ips))
        /\ Having(msg.avps, SupportedVendorId) = AvpsOf(SupportedVendorId, Cut(cfg.vendors))
        /\ Having(msg.avps, AuthAppId) = AvpsOf(AuthAppId, Cut(cfg.auth))
        /\ \E list : /\ AppGroups(cfg, list)
                     /\ Having(msg.avps, VendorSpecificAppId) = AvpsOf(VendorSpecificAppId, list)
    BY <1>1, <2>1, ExchangeHaving
  <2> HIDE DEF cfg
  <2>3. ASSUME NEW code PROVE Told(code) = DataOf(AllHeard(CER, Having(msg.avps, code)))
    BY <2>1 DEF Told, DataOf
  <2>4. ASSUME NEW own, diaGetAvpInfo(CER, own).type \in {"octets", "uint32"}, NEW list, IsSeq(list),
               Having(msg.avps, own) = AvpsOf(own, list)
        PROVE  Told(own) = list
    <3>1. diaGetAvpInfo(CER, own).type \in {"octets", "uint32", "uint64"}
      BY <2>4
    <3> QED
      BY <2>3, <2>4, <3>1, DataHeard
  <2>5. Told(OrigHost) = <<cfg.host>> /\ Told(OrigRealm) = <<cfg.realm>>
    <3> DEFINE h == <<cfg.host>>
               m == <<cfg.realm>>
    <3>1. IsSeq(h) /\ IsSeq(m) /\ Having(msg.avps, OrigHost) = AvpsOf(OrigHost, h)
          /\ Having(msg.avps, OrigRealm) = AvpsOf(OrigRealm, m)
      BY <2>2, AvpsOfOne DEF Host, Realm
    <3> HIDE DEF h, m
    <3>2. Told(OrigHost) = h /\ Told(OrigRealm) = m
      BY <2>4, <3>1, BaseAvpTypes
    <3> QED
      BY <3>2 DEF h, m
  <2>6. /\ Learns(HostIp, cfg.ips) /\ Learns(SupportedVendorId, cfg.vendors)
        /\ Learns(AuthAppId, cfg.auth)
    <3>1. IsSeq(cfg.ips) /\ IsSeq(cfg.vendors) /\ IsSeq(cfg.auth)
      BY <2>2, ConfigTypes
    <3>2. ASSUME NEW own, diaGetAvpInfo(CER, own).type \in {"octets", "uint32"}, NEW list,
                 IsSeq(list), Having(msg.avps, own) = AvpsOf(own, Cut(list))
          PROVE  Learns(own, list)
      <4>1. IsSeq(Cut(list)) /\ Cut(list) = [i \in Fits(list) |-> list[i]]
        BY <3>2, CutFits
      <4>2. Told(own) = Cut(list)
        BY <2>4, <3>2, <4>1
      <4> QED
        BY <4>1, <4>2 DEF Learns
    <3> QED
      BY <2>2, <3>1, <3>2, BaseAvpTypes
  <2>7. ASSUME NEW i \in Fits(cfg.apps)
        PROVE  /\ Having(Told(VendorSpecificAppId)[i], AuthAppId)[1].data = cfg.apps[i]
               /\ Having(Told(VendorSpecificAppId)[i], VendorIdCode)[1].data = 10415
    <3>1. PICK list : /\ AppGroups(cfg, list)
                      /\ Having(msg.avps, VendorSpecificAppId) = AvpsOf(VendorSpecificAppId, list)
      BY <2>2
    <3> DEFINE s == AvpsOf(VendorSpecificAppId, list)
               a == Avp(VendorSpecificAppId, list[i])
    <3>2. IsSeq(list) /\ i \in 1..Len(list) /\ list[i] = getVendorSpecificAppId(cfg.apps[i])
      BY <2>7, <3>1 DEF AppGroups
    <3>3. DOMAIN list = 1..Len(list)
      BY <3>2, IsSeqLen
    <3>4. Len(s) = Len(list)
      BY <3>2, HavingListed
    <3>5. s[i] = a
      BY <3>2, <3>3 DEF AvpsOf
    <3>6. a.code = VendorSpecificAppId /\ a.data = getVendorSpecificAppId(cfg.apps[i])
      BY <3>2 DEF Avp
    <3>7. Having(msg.avps, VendorSpecificAppId) = s
      BY <3>1
    <3> HIDE DEF s, a
    <3>8. s \in Seq(Avps)
      BY <2>1, <3>7, HavingType
    <3>9. i \in 1..Len(s)
      BY <3>2, <3>4
    <3>10. a \in Avps
      BY <3>5, <3>8, <3>9, ElementOfSeq
    <3>11. DOMAIN AllHeard(CER, s) = 1..Len(s) /\ AllHeard(CER, s)[i] = Heard(CER, a)
      BY <3>5, <3>8, <3>9, AllHeardList
    <3>12. Told(VendorSpecificAppId)[i] = Heard(CER, a).data
      BY <2>3, <3>7, <3>9, <3>11 DEF DataOf
    <3> QED
      BY <2>1, <3>6, <3>10, <3>12, GroupHeard
  <2> QED
    BY <2>5, <2>6, <2>7 DEF PeerLearnsCapabilities, cfg
<1>2. Hearing => PeerLearnsCapabilities
  BY <1>1 DEF PeerLearnsCapabilities
<1> QED
  BY <1>2, HearingAlways, PTL

(***************************************************************************)
(* What is made of a CEA                                                   *)
(***************************************************************************)
LEMMA MaxOne == ASSUME NEW x \in Int PROVE Max({x}) = x
BY DEF Max

LEMMA MessageStays == ASSUME Next PROVE msg' = msg
BY DEF Next, Encode, Decode, encodeStr, encodeInt32, encodeInt64, encodeUnknown, encodeGrouped,
       encodeGroupedEnd, encodeFails, encodeHdr, decodeHdr, decodeAvp, decodeGrouped,
       decodeGroupEnd, decodeEnd, Returned, WriteAvp, Encodes

\* An answer of the exchange has a result.
LEMMA CeaResult ==
  ASSUME NEW m \in Messages, m.cmd = CER, ~m.isReq
  PROVE  Having(m.avps, ResultCode) # <<>>
<1> DEFINE cfg == m.cfg
<1>1. cfg \in ConfigType
  BY ExchangeAssumption, Zenon
<1>2. PICK n : IsCeaOf(cfg, n, m.avps)
  <2>1. \E a \in {b \in Avps : b.code = ResultCode} :
          m.avps \in {diaBuildCea(cfg, a.data), Late(diaBuildCea(cfg, a.data))}
    BY ExchangeAssumption, Zenon
  <2> HIDE DEF cfg
  <2> QED
    BY <2>1, Zenon DEF IsCeaOf
<1> HIDE DEF cfg
<1>6. PICK list, first : CeaParts(cfg, n, m.avps, list, first)
  BY <1>1, <1>2, CeaShape
<1>3. IsSeq(list) /\ m.avps = first \o Behind(cfg, list)
  BY <1>6 DEF AppGroups, CeaParts
<1>4. IsSeq(first) /\ Having(first, ResultCode) # <<>>
  <2>1. Opens(cfg, n, first)
    BY <1>6 DEF Opens, CeaParts
  <2>2. first # <<Host(cfg), Realm(cfg)>>
    <3>1. Len(first) = 3
      BY <1>6 DEF CeaParts
    <3>2. Len(<<Host(cfg), Realm(cfg)>>) = 2
      OBVIOUS
    <3> QED
      BY <3>1, <3>2
  <2> QED
    BY <2>1, <2>2, OpensHaving
<1>5. IsSeq(Behind(cfg, list)) /\ Having(Behind(cfg, list), ResultCode) = <<>>
  BY <1>1, <1>3, BehindHaving
<1> QED
  BY <1>3, <1>4, <1>5, HavingTwo

\* A CEA begins with its result and the identity, which no later AVP repeats.
LEMMA CeaPositions ==
  ASSUME NEW m \in Messages, m.cmd = CER, Having(m.avps, ResultCode) # <<>>
  PROVE  /\ m.avps[3] = Realm(m.cfg) /\ Len(m.avps) >= 3
         /\ \E k : \/ m.avps[1] = Result(k) /\ m.avps[2] = Host(m.cfg)
                   \/ m.avps[1] = Host(m.cfg) /\ m.avps[2] = Result(k)
         /\ \A i \in 4..Len(m.avps) :
              m.avps[i].code \notin {ResultCode, ExpResultCode, OrigHost, OrigRealm}
<1>1. PICK list, k, first : /\ AppGroups(m.cfg, list) /\ Opens(m.cfg, k, first)
                            /\ m.avps = first \o Behind(m.cfg, list)
  BY ExchangeShape
<1> DEFINE b == Behind(m.cfg, list)
           n == Len(b)
<1>2. IsSeq(b)
      /\ \A code \in {ResultCode, ExpResultCode, OrigHost, OrigRealm} : Having(b, code) = <<>>
  BY <1>1, ExchangeShape, BehindHaving DEF AppGroups
<1> HIDE DEF b
<1>3. m.avps = first \o b /\ IsSeq(first)
  BY <1>1, OpensHaving DEF b
<1>4. ASSUME NEW code \in {ResultCode, ExpResultCode, OrigHost, OrigRealm}, NEW i \in 1..n
      PROVE  b[i].code # code
  <2>1. Count(b, code) = 0
    BY <1>2, CountType
  <2> QED
    BY <1>2, <2>1, CountType DEF n
<1>5. first # <<Host(m.cfg), Realm(m.cfg)>>
  <2>1. SUFFICES ASSUME first = <<Host(m.cfg), Realm(m.cfg)>> PROVE FALSE
    OBVIOUS
  <2>2. Having(first, ResultCode) = <<>>
    BY <1>1, <2>1, OpensHaving
  <2>3. Having(first \o b, ResultCode) = <<>>
    BY <1>2, <1>3, <2>2, HavingTwo
  <2> QED
    BY <1>3, <2>3
<1>6. /\ Len(first) = 3 /\ first[3] = Realm(m.cfg)
      /\ \/ first[1] = Result(k) /\ first[2] = Host(m.cfg)
         \/ first[1] = Host(m.cfg) /\ first[2] = Result(k)
  <2>1. CASE first = <<Result(k), Host(m.cfg), Realm(m.cfg)>>
    BY <2>1
  <2>2. CASE first = <<Host(m.cfg), Result(k), Realm(m.cfg)>>
    BY <2>2
  <2> QED
    BY <1>1, <1>5, <2>1, <2>2 DEF Opens
<1>7. Len(m.avps) = 3 + n /\ Joint(m.avps, first, 3, b, n) /\ n \in Nat
  <2>1. PICK S : first \in Seq(S) /\ b \in Seq(S)
    BY <1>2, <1>3, SeqPair
  <2>2. /\ Len(first \o b) = Len(first) + Len(b)
        /\ Joint(first \o b, first, Len(first), b, Len(b)) /\ Len(b) \in Nat
    BY <2>1, Joins, LenProperties
  <2> QED
    BY <1>3, <1>6, <2>2 DEF n
<1> HIDE DEF n
<1> DEFINE s == m.avps
<1>8. s[1] = first[1] /\ s[2] = first[2] /\ s[3] = first[3]
  <2> HIDE DEF s
  <2> QED
    BY <1>7 DEF Joint, s
<1>9. ASSUME NEW i \in 4..(3 + n) PROVE s[i] = b[i - 3] /\ i - 3 \in 1..n
  <2> HIDE DEF s
  <2>1. i \in 1..(3 + n) /\ ~(i <= 3) /\ i - 3 \in 1..n
    BY <1>7
  <2> QED
    BY <1>7, <2>1 DEF Joint, s
<1>10. \A i \in 4..(3 + n) :
         s[i].code \notin {ResultCode, ExpResultCode, OrigHost, OrigRealm}
  BY <1>4, <1>9
<1>11. 3 + n >= 3
  BY <1>7
<1> QED
  BY <1>6, <1>7, <1>8, <1>10, <1>11

\* A CEA that a peer has decoded, position by position.
LEMMA CeaHeard ==
  ASSUME Hearing, stage = "done", IsCea
  PROVE  /\ msg.avps \in Seq(Avps) /\ Len(msg.avps) \in Nat /\ Len(msg.avps) >= 3
         /\ Heads = 2..Len(msg.avps)
         /\ \A i \in 1..Len(msg.avps) :
              /\ Failing(i) <=> msg.avps[i].code = ResultCode /\ msg.avps[i].data \notin Success
              /\ decoded[1][i].code = msg.avps[i].code
         /\ \A i \in 2..Len(msg.avps) :
              /\ msg.avps[i].code = OrigRealm <=> i = 3
              /\ msg.avps[i].code = OrigHost
                   => i = 2 /\ decoded[1][i].data = msg.cfg.host
         /\ decoded[1][3].data = msg.cfg.realm
<1> DEFINE s == msg.avps
           n == Len(s)
           d == decoded[1]
           cfg == msg.cfg
<1>1. /\ msg \in Messages /\ msg.cmd = CER /\ s \in Seq(Avps) /\ Having(s, ResultCode) # <<>>
      /\ d = AllHeard(CER, s)
  <2>1. /\ msg \in Messages /\ msg.cmd = CER /\ s \in Seq(Avps) /\ d = AllHeard(CER, s)
        /\ ~msg.isReq
    BY Received DEF Hearing, IsCea, Sent
  <2>2. Having(s, ResultCode) # <<>>
    BY <2>1, CeaResult
  <2> QED
    BY <2>1, <2>2
<1>2. /\ n \in Nat /\ DOMAIN d = 1..n /\ \A i \in 1..n : d[i] = Heard(CER, s[i])
  BY <1>1, AllHeardList
<1>3. /\ s[3] = Realm(cfg) /\ n >= 3
      /\ \A i \in 4..n : s[i].code \notin {ResultCode, ExpResultCode, OrigHost, OrigRealm}
  BY <1>1, CeaPositions
<1>4. PICK k : \/ s[1] = Result(k) /\ s[2] = Host(cfg)
               \/ s[1] = Host(cfg) /\ s[2] = Result(k)
  BY <1>1, CeaPositions
<1> HIDE DEF n, s, d, cfg
<1>5. /\ Realm(cfg).code = OrigRealm /\ Realm(cfg).data = cfg.realm
      /\ Host(cfg).code = OrigHost /\ Host(cfg).data = cfg.host
      /\ Result(k).code = ResultCode
  BY DEF Realm, Host, Result, Avp
<1>6. OrigRealm = 296 /\ OrigHost = 264 /\ ResultCode = 268 /\ ExpResultCode = 298
  BY DEF OrigRealm, OrigHost, ResultCode, ExpResultCode
<1>7. ASSUME NEW i \in 1..n
      PROVE  /\ d[i].code = s[i].code
             /\ s[i].code \in {ResultCode, OrigHost, OrigRealm} => d[i].data = s[i].data
  <2>1. s[i].code \in {ResultCode, OrigHost, OrigRealm} => TypeOf(CER, s[i]) \in {"octets", "uint32"}
    BY BaseAvpTypes DEF TypeOf
  <2> QED
    BY <1>2, <2>1, HeardData
<1>8. \A i \in 1..n : i = 1 \/ i = 2 \/ i = 3 \/ i \in 4..n
  BY <1>2
<1>9. \A i \in 1..n : s[i].code # ExpResultCode
  BY <1>3, <1>4, <1>5, <1>6, <1>8
<1>10. Heads = 2..n
  BY <1>2 DEF Heads, d
<1>11. \A i \in 1..n :
         Failing(i) <=> s[i].code = ResultCode /\ s[i].data \notin Success
  <2>1. \A i \in 1..n : d[i].code = s[i].code /\ s[i].code # ExpResultCode
                        /\ (s[i].code = ResultCode => d[i].data = s[i].data)
    BY <1>7, <1>9
  <2> QED
    BY <2>1 DEF Failing, d
<1>12. s[3].code = OrigRealm /\ d[3].data = cfg.realm /\ 3 \in 1..n
  BY <1>2, <1>3, <1>5, <1>7
<1>13. \A i \in 2..n : i \in 1..n /\ (i = 2 \/ i = 3 \/ i \in 4..n)
  BY <1>2
<1>14. ASSUME NEW i \in 2..n
       PROVE  /\ s[i].code = OrigRealm <=> i = 3
              /\ s[i].code = OrigHost => i = 2 /\ d[i].data = cfg.host
  BY <1>3, <1>4, <1>5, <1>6, <1>7, <1>12, <1>13
<1> QED
  BY <1>1, <1>2, <1>3, <1>7, <1>10, <1>11, <1>12, <1>14 DEF s, n, d, cfg

LEMMA CeaJudged ==
  ASSUME Hearing, diaConnProcessCea
  PROVE  CeaIsHeard'
<1> DEFINE s == msg.avps
           n == Len(s)
           behind == Tail(s)
           d == decoded[1]
<1>1. stage = "done" /\ IsCea /\ msg' = msg
  BY DEF diaConnProcessCea, codecVars
<1>2. /\ s \in Seq(Avps) /\ n \in Nat /\ n >= 3 /\ Heads = 2..n
      /\ \A i \in 1..n : /\ Failing(i) <=> s[i].code = ResultCode /\ s[i].data \notin Success
                         /\ d[i].code = s[i].code
      /\ \A i \in 2..n : /\ s[i].code = OrigRealm <=> i = 3
                         /\ s[i].code = OrigHost => i = 2 /\ d[i].data = msg.cfg.host
      /\ d[3].data = msg.cfg.realm
  BY <1>1, CeaHeard
<1>3. /\ behind \in Seq(Avps) /\ Len(behind) = n - 1 /\ DOMAIN behind = 1..(n - 1)
      /\ \A j \in 1..(n - 1) : behind[j] = s[j + 1]
  <2>1. s # <<>>
    BY <1>2, EmptySeq
  <2>2. behind \in Seq(Avps) /\ Len(behind) = n - 1
        /\ \A j \in 1..Len(behind) : behind[j] = s[j + 1]
    BY <1>2, <2>1, HeadTailProperties
  <2> QED
    BY <2>2, LenProperties
<1> HIDE DEF s, n, behind, d
<1>4. (\A j \in 1..(n - 1) : j + 1 \in 2..n) /\ (\A i \in 2..n : i - 1 \in 1..(n - 1) /\ (i - 1) + 1 = i)
      /\ (\A i \in 2..n : i \in 1..n)
  BY <1>2
<1>5. (\E i \in Heads : Failing(i))
        <=> \E j \in DOMAIN behind : behind[j].code = ResultCode /\ behind[j].data \notin Success
  <2>1. ASSUME NEW i \in Heads, Failing(i)
        PROVE  \E j \in DOMAIN behind : behind[j].code = ResultCode /\ behind[j].data \notin Success
    <3>1. i - 1 \in DOMAIN behind /\ behind[i - 1] = s[i]
      BY <1>2, <1>3, <1>4
    <3> QED
      BY <1>2, <1>4, <2>1, <3>1
  <2>2. ASSUME NEW j \in DOMAIN behind, behind[j].code = ResultCode, behind[j].data \notin Success
        PROVE  \E i \in Heads : Failing(i)
    <3>1. j + 1 \in Heads /\ behind[j] = s[j + 1]
      BY <1>2, <1>3, <1>4
    <3> QED
      BY <1>2, <1>4, <2>2, <3>1
  <2> QED
    BY <2>1, <2>2
<1>6. verdict' = IF \E i \in Heads : Failing(i) THEN "rejected" ELSE "accepted"
  BY DEF diaConnProcessCea
<1>7. ASSUME verdict' = "accepted"
      PROVE  /\ Having(behind, OrigHost) # <<>> => peerHost' = msg.cfg.host
             /\ peerRealm' = msg.cfg.realm
  <2>1. ~\E i \in Heads : Failing(i)
    BY <1>6, <1>7
  <2>2. Looked = Heads
    BY <2>1 DEF Looked
  <2>3. /\ peerHost' = LastSeen(OrigHost, Heads, peerHost)
        /\ peerRealm' = LastSeen(OrigRealm, Heads, peerRealm)
    BY <2>2 DEF diaConnProcessCea
  <2>4. peerRealm' = msg.cfg.realm
    <3>1. {i \in Heads : d[i].code = OrigRealm} = {3}
      BY <1>2, <1>4
    <3>2. LastSeen(OrigRealm, Heads, peerRealm) = d[Max({3})].data
      BY <3>1 DEF LastSeen, d
    <3> QED
      BY <1>2, <2>3, <3>2, MaxOne
  <2>5. ASSUME Having(behind, OrigHost) # <<>> PROVE peerHost' = msg.cfg.host
    <3>1. PICK j \in 1..(n - 1) : behind[j].code = OrigHost
      BY <1>3, <2>5, HavingNone
    <3>2. j + 1 \in 2..n /\ s[j + 1].code = OrigHost
      BY <1>3, <1>4, <3>1
    <3>3. j + 1 = 2 /\ d[2].data = msg.cfg.host
      BY <1>2, <3>2
    <3>4. s[2].code = OrigHost /\ 2 \in 2..n
      BY <3>2, <3>3
    <3>5. {i \in Heads : d[i].code = OrigHost} = {2}
      BY <1>2, <1>4, <3>4
    <3>6. LastSeen(OrigHost, Heads, peerHost) = d[Max({2})].data
      BY <3>5 DEF LastSeen, d
    <3> QED
      BY <2>3, <3>3, <3>6, MaxOne
  <2> QED
    BY <2>4, <2>5
<1>8. verdict' = "rejected"
        <=> \E j \in DOMAIN behind : behind[j].code = ResultCode /\ behind[j].data \notin Success
  BY <1>5, <1>6
<1> QED
  BY <1>1, <1>7, <1>8 DEF CeaIsHeard, behind, s

\* Of what stands behind the first AVP of a CEA a failing result ends the exchange, and
\* without one the connection knows the peer (diaConnProcessCea).
THEOREM CeaIsHeardAlways == CapSpec => []CeaIsHeard
<1>1. CapInit => CeaIsHeard
  BY DEF CapInit, CeaIsHeard
<1>2. Hearing /\ CeaIsHeard /\ [CapNext]_<<codecVars, capVars>> => CeaIsHeard'
  <2>1. CASE diaConnProcessCea
    BY <2>1, CeaJudged
  <2>2. ASSUME CeaIsHeard, msg' = msg, UNCHANGED capVars PROVE CeaIsHeard'
    BY <2>2 DEF CeaIsHeard, capVars
  <2>3. CASE Next /\ UNCHANGED capVars
    BY <2>2, <2>3, MessageStays
  <2>4. CASE Finished \/ UNCHANGED <<codecVars, capVars>>
    BY <2>2, <2>4 DEF Finished, codecVars
  <2> QED
    BY <2>1, <2>3, <2>4 DEF CapNext
<1> QED
  BY <1>1, <1>2, HearingAlways, PTL DEF CapSpec
=============================================================================
