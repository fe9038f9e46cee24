---------------------------- MODULE DiaWireProofs ----------------------------
(***************************************************************************)
(* Theorems about DiaCodec: where every AVP stands in the buffer, for every *)
(* message and every nesting of groups, and with that what the decoder of  *)
(* the peer makes of it.                                                   *)
(***************************************************************************)
EXTENDS DiaCodecProofs

Words == {w \in Seq(Nat) : Len(w) % 4 = 0}
Cmds == {m.cmd : m \in Messages}
TypeOf(cmd, a) == diaGetAvpInfo(cmd, a.code).type

(***************************************************************************)
(* The octets of a message: what stands on the wire for an AVP and for a   *)
(* list of AVPs. None of this is in the code, which only knows positions.  *)
(***************************************************************************)
\* What is in the first n cells, one behind the other.
Joined(f, cells, n) ==
  f = [i \in 0..n |-> IF i = 0 THEN <<>> ELSE f[i - 1] \o cells[i]]
Upto(cells, n) == (CHOOSE f : Joined(f, cells, Len(cells)))[n]

\* An AVP, the members of a group being given: its data with the padding, the length of
\* the data without it, and the header.
DataOctets(cmd, a, members) ==
  CASE TypeOf(cmd, a) = "octets"  -> a.data \o [i \in 1..Padding(Len(a.data)) |-> 0]
    [] TypeOf(cmd, a) = "uint64"  -> U64(a.data)
    [] TypeOf(cmd, a) = "grouped" -> members
    [] OTHER                      -> U32(a.data)
DataLength(cmd, a, members) ==
  IF TypeOf(cmd, a) = "octets" THEN Len(a.data) ELSE Len(DataOctets(cmd, a, members))
Hdr(cmd, a) == AvpHdrLen(diaGetAvpInfo(cmd, a.code).vendor)
HdrOctets(cmd, a, members) ==
  AvpHdr(diaGetAvpInfo(cmd, a.code), a.code, Hdr(cmd, a) + DataLength(cmd, a, members))
AvpOctets(cmd, a, members) == HdrOctets(cmd, a, members) \o DataOctets(cmd, a, members)

\* A list of AVPs of the dictionary, f holding what stands for the lists in it.
Cells(cmd, f, list) == [i \in DOMAIN list |-> AvpOctets(cmd, list[i], f[list[i].data])]
ListOctets(cmd, f, list) ==
  Upto(Cells(cmd, f, Known(cmd, list)), Len(Known(cmd, list)))

\* f holds what stands for each of the lists.
IsWire(cmd, f, lists) ==
  f \in [lists -> Words] /\ f = [list \in lists |-> ListOctets(cmd, f, list)]
Wire(cmd) == CHOOSE f : IsWire(cmd, f, Seq(Avps))

\* An AVP of a message, and the first n AVPs of a list.
Cell(cmd, a) == AvpOctets(cmd, a, Wire(cmd)[a.data])
Part(cmd, list, n) == Upto(Cells(cmd, Wire(cmd), list), n)

\* These octets stand in the buffer behind the position.
Holds(b, p, octets) == \A i \in DOMAIN octets : p + i \in DOMAIN b /\ b[p + i] = octets[i]

(***************************************************************************)
(* Cells one behind the other                                              *)
(***************************************************************************)
LEMMA JoinedSteps ==
  ASSUME NEW f, NEW cells, NEW n \in Nat, Joined(f, cells, n)
  PROVE  /\ f[0] = <<>>
         /\ \A i \in 1..n : f[i] = f[i - 1] \o cells[i]
<1> DEFINE rhs == [i \in 0..n |-> IF i = 0 THEN <<>> ELSE f[i - 1] \o cells[i]]
<1>1. f = rhs
  BY DEF Joined
<1>2. rhs[0] = <<>>
  OBVIOUS
<1>3. ASSUME NEW i \in 1..n PROVE rhs[i] = f[i - 1] \o cells[i]
  <2>1. i \in 0..n /\ i # 0
    OBVIOUS
  <2>2. rhs[i] = IF i = 0 THEN <<>> ELSE f[i - 1] \o cells[i]
    BY <2>1, Zenon
  <2> QED
    BY <2>1, <2>2, Zenon
<1> HIDE DEF rhs
<1> QED
  BY <1>1, <1>2, <1>3, Zenon

LEMMA JoinedExists ==
  ASSUME NEW cells, NEW n \in Nat
  PROVE  \E f : Joined(f, cells, n)
<1> DEFINE T == {k \in Nat : \E f : Joined(f, cells, k)}
<1>1. 0 \in T
  <2>1. Joined([i \in 0..0 |-> <<>>], cells, 0)
    BY DEF Joined
  <2> QED
    BY <2>1
<1>2. ASSUME NEW k \in Nat, k \in T PROVE k + 1 \in T
  <2>1. PICK f : Joined(f, cells, k)
    BY <1>2
  <2> DEFINE g == [i \in 0..(k + 1) |-> IF i <= k THEN f[i] ELSE f[i - 1] \o cells[i]]
  <2>2. f[0] = <<>>
    BY <2>1, JoinedSteps
  <2>3. \A i \in 1..k : f[i] = f[i - 1] \o cells[i]
    BY <2>1, JoinedSteps, ZenonT(60)
  <2>4. ASSUME NEW i \in 0..(k + 1)
        PROVE  g[i] = IF i = 0 THEN <<>> ELSE g[i - 1] \o cells[i]
    <3>1. CASE i = 0
      BY <2>2, <3>1
    <3>2. CASE i # 0
      <4>1. i - 1 \in 0..k /\ i - 1 \in 0..(k + 1) /\ i - 1 <= k
        BY <3>2
      <4>2. g[i] = IF i <= k THEN f[i] ELSE f[i - 1] \o cells[i]
        BY Zenon
      <4>3. g[i - 1] = IF i - 1 <= k THEN f[i - 1] ELSE f[(i - 1) - 1] \o cells[i - 1]
        BY <4>1, Zenon
      <4>4. i <= k => f[i] = f[i - 1] \o cells[i]
        <5>1. i <= k => i \in 1..k
          BY <3>2
        <5> QED
          BY <2>3, <5>1, Zenon
      <4> HIDE DEF g
      <4> QED
        BY <3>2, <4>1, <4>2, <4>3, <4>4, Zenon
    <3> QED
      BY <3>1, <3>2
  <2>5. g = [i \in 0..(k + 1) |-> g[i]]
    OBVIOUS
  <2> HIDE DEF g
  <2>6. g = [i \in 0..(k + 1) |-> IF i = 0 THEN <<>> ELSE g[i - 1] \o cells[i]]
    BY <2>4, <2>5
  <2>7. Joined(g, cells, k + 1)
    BY <2>6 DEF Joined
  <2> QED
    BY <2>7
<1> HIDE DEF T
<1>3. Nat \subseteq T
  BY <1>1, <1>2, Induction
<1> QED
  BY <1>3 DEF T

LEMMA UptoSteps ==
  ASSUME NEW cells \in Seq(Words)
  PROVE  /\ Upto(cells, 0) = <<>>
         /\ \A n \in 1..Len(cells) : Upto(cells, n) = Upto(cells, n - 1) \o cells[n]
<1> DEFINE f == CHOOSE f : Joined(f, cells, Len(cells))
<1>1. Len(cells) \in Nat
  BY LenProperties
<1>2. Joined(f, cells, Len(cells))
  BY <1>1, JoinedExists
<1>3. \A n : Upto(cells, n) = f[n]
  BY DEF Upto
<1> HIDE DEF f
<1>4. f[0] = <<>>
  BY <1>1, <1>2, JoinedSteps
<1>5. \A n \in 1..Len(cells) : f[n] = f[n - 1] \o cells[n]
  BY <1>1, <1>2, JoinedSteps
<1> QED
  BY <1>3, <1>4, <1>5, Zenon

\* Words behind words are words.
LEMMA WordsJoin ==
  ASSUME NEW v \in Words, NEW w \in Words
  PROVE  v \o w \in Words /\ Len(v \o w) = Len(v) + Len(w)
<1>1. v \in Seq(Nat) /\ w \in Seq(Nat) /\ Len(v) \in Nat /\ Len(w) \in Nat
      /\ Len(v) % 4 = 0 /\ Len(w) % 4 = 0
  BY LenProperties DEF Words
<1>2. v \o w \in Seq(Nat) /\ Len(v \o w) = Len(v) + Len(w)
  BY <1>1, ConcatProperties
<1>3. (Len(v) + Len(w)) % 4 = 0
  BY <1>1, WordsAligned
<1> QED
  BY <1>2, <1>3 DEF Words

LEMMA NoWords == <<>> \in Words /\ Len(<<>>) = 0
<1>1. <<>> \in Seq(Nat) /\ Len(<<>>) = 0
  BY EmptySeq
<1> QED
  BY <1>1 DEF Words

LEMMA UptoType ==
  ASSUME NEW cells \in Seq(Words), NEW n \in 0..Len(cells)
  PROVE  Upto(cells, n) \in Words
<1> DEFINE T == {k \in Nat : k <= Len(cells) => Upto(cells, k) \in Words}
<1>1. Len(cells) \in Nat
  BY LenProperties
<1>2. 0 \in T
  BY UptoSteps, NoWords
<1>3. ASSUME NEW k \in Nat, k \in T PROVE k + 1 \in T
  <2>1. SUFFICES ASSUME k + 1 <= Len(cells) PROVE Upto(cells, k + 1) \in Words
    OBVIOUS
  <2>2. Upto(cells, k) \in Words /\ k + 1 \in 1..Len(cells) /\ (k + 1) - 1 = k
    BY <1>1, <1>3, <2>1
  <2>3. Upto(cells, k + 1) = Upto(cells, k) \o cells[k + 1]
    BY <2>2, UptoSteps
  <2>4. cells[k + 1] \in Words
    BY <2>2, ElementOfSeq
  <2> QED
    BY <2>2, <2>3, <2>4, WordsJoin
<1> HIDE DEF T
<1>4. Nat \subseteq T
  BY <1>2, <1>3, Induction
<1> QED
  BY <1>1, <1>4 DEF T

\* Every cell has a header, so that each starts behind the one before.
LEMMA UptoGrows ==
  ASSUME NEW cells \in Seq(Words), \A i \in 1..Len(cells) : Len(cells[i]) >= 8,
         NEW m \in 0..Len(cells), NEW n \in 0..Len(cells), m < n
  PROVE  Len(Upto(cells, m)) < Len(Upto(cells, n))
<1> DEFINE T == {k \in Nat : k > m /\ k <= Len(cells)
                               => Len(Upto(cells, m)) < Len(Upto(cells, k))}
<1>1. Len(cells) \in Nat
  BY LenProperties
<1>2. 0 \in T
  OBVIOUS
<1>3. ASSUME NEW k \in Nat, k \in T PROVE k + 1 \in T
  <2>1. SUFFICES ASSUME k + 1 > m, k + 1 <= Len(cells)
                 PROVE  Len(Upto(cells, m)) < Len(Upto(cells, k + 1))
    OBVIOUS
  <2>2. k + 1 \in 1..Len(cells) /\ (k + 1) - 1 = k /\ k \in 0..Len(cells)
    BY <1>1, <2>1
  <2>3. Upto(cells, k + 1) = Upto(cells, k) \o cells[k + 1]
    BY <2>2, UptoSteps
  <2>4. cells[k + 1] \in Words /\ Upto(cells, k) \in Words /\ Upto(cells, m) \in Words
    BY <2>2, ElementOfSeq, UptoType
  <2>5. Len(Upto(cells, k + 1)) = Len(Upto(cells, k)) + Len(cells[k + 1])
    BY <2>3, <2>4, WordsJoin
  <2>6. Len(cells[k + 1]) >= 8 /\ Len(cells[k + 1]) \in Nat
    BY <2>2, <2>4, LenProperties DEF Words
  <2>7. Len(Upto(cells, k)) \in Nat /\ Len(Upto(cells, m)) \in Nat
    BY <2>4, LenProperties DEF Words
  <2>8. m = k \/ Len(Upto(cells, m)) < Len(Upto(cells, k))
    BY <1>1, <1>3, <2>1
  <2> QED
    BY <2>5, <2>6, <2>7, <2>8
<1> HIDE DEF T
<1>4. Nat \subseteq T
  BY <1>2, <1>3, Induction
<1> QED
  BY <1>1, <1>4 DEF T

(***************************************************************************)
(* What stands in the buffer                                               *)
(***************************************************************************)
LEMMA HoldsJoin ==
  ASSUME NEW b, NEW p \in Nat, NEW v \in Seq(Nat), NEW w \in Seq(Nat)
  PROVE  Holds(b, p, v \o w) <=> Holds(b, p, v) /\ Holds(b, p + Len(v), w)
<1>1. /\ Len(v) \in Nat /\ Len(w) \in Nat /\ DOMAIN v = 1..Len(v) /\ DOMAIN w = 1..Len(w)
      /\ DOMAIN (v \o w) = 1..(Len(v) + Len(w))
      /\ \A i \in 1..Len(v) : (v \o w)[i] = v[i]
      /\ \A i \in 1..Len(w) : (v \o w)[Len(v) + i] = w[i]
  <2>1. v \o w \in Seq(Nat) /\ Len(v \o w) = Len(v) + Len(w) /\ Len(v) \in Nat /\ Len(w) \in Nat
        /\ \A i \in 1..(Len(v) + Len(w)) : (v \o w)[i] = IF i <= Len(v) THEN v[i] ELSE w[i - Len(v)]
    BY ConcatProperties, LenProperties
  <2>2. \A i \in 1..Len(w) : Len(v) + i \in 1..(Len(v) + Len(w)) /\ (Len(v) + i) - Len(v) = i
                             /\ ~(Len(v) + i <= Len(v))
    BY <2>1
  <2> QED
    BY <2>1, <2>2, LenProperties
<1> DEFINE s == v \o w
<1> HIDE DEF s
<1>2. ASSUME Holds(b, p, s) PROVE Holds(b, p, v) /\ Holds(b, p + Len(v), w)
  <2>1. \A i \in 1..(Len(v) + Len(w)) : p + i \in DOMAIN b /\ b[p + i] = s[i]
    BY <1>1, <1>2 DEF Holds, s
  <2>2. \A i \in 1..Len(v) : p + i \in DOMAIN b /\ b[p + i] = v[i]
    BY <1>1, <2>1 DEF s
  <2>3. ASSUME NEW i \in 1..Len(w)
        PROVE  (p + Len(v)) + i \in DOMAIN b /\ b[(p + Len(v)) + i] = w[i]
    <3>1. Len(v) + i \in 1..(Len(v) + Len(w)) /\ p + (Len(v) + i) = (p + Len(v)) + i
      BY <1>1
    <3> QED
      BY <1>1, <2>1, <3>1 DEF s
  <2> QED
    BY <1>1, <2>2, <2>3 DEF Holds
<1>3. ASSUME Holds(b, p, v), Holds(b, p + Len(v), w) PROVE Holds(b, p, s)
  <2>1. ASSUME NEW i \in 1..(Len(v) + Len(w)) PROVE p + i \in DOMAIN b /\ b[p + i] = s[i]
    <3>1. CASE i <= Len(v)
      <4>1. i \in DOMAIN v /\ s[i] = v[i]
        BY <1>1, <3>1 DEF s
      <4> QED
        BY <1>3, <4>1 DEF Holds
    <3>2. CASE i > Len(v)
      <4>1. /\ i - Len(v) \in 1..Len(w) /\ Len(v) + (i - Len(v)) = i
            /\ (p + Len(v)) + (i - Len(v)) = p + i
        BY <1>1, <3>2
      <4> QED
        BY <1>1, <1>3, <4>1, ZenonT(60) DEF Holds, s
    <3> QED
      BY <1>1, <3>1, <3>2
  <2> QED
    BY <1>1, <2>1 DEF Holds, s
<1> QED
  BY <1>2, <1>3 DEF s

\* What is written stands where it was written, and what stands before or behind it
\* stays there; the buffer grows as far as it is written.
LEMMA PutHolds ==
  ASSUME NEW b \in Seq(Nat), NEW at \in Nat, NEW octets \in Seq(Nat)
  PROVE  /\ Holds(Put(b, at, octets), at, octets)
         /\ \A p \in Nat, w \in Seq(Nat) :
              Holds(b, p, w) /\ (p + Len(w) <= at \/ at + Len(octets) <= p)
                => Holds(Put(b, at, octets), p, w)
         /\ Len(Put(b, at, octets)) = IF at + Len(octets) > Len(b) THEN at + Len(octets) ELSE Len(b)
<1> DEFINE n == IF at + Len(octets) > Len(b) THEN at + Len(octets) ELSE Len(b)
           new == Put(b, at, octets)
<1>1. /\ Len(b) \in Nat /\ Len(octets) \in Nat /\ DOMAIN b = 1..Len(b)
      /\ DOMAIN octets = 1..Len(octets) /\ n \in Nat
  BY LenProperties
<1>2. /\ DOMAIN new = 1..n
      /\ \A i \in 1..n : new[i] = IF i - at \in DOMAIN octets THEN octets[i - at]
                                  ELSE IF i \in DOMAIN b THEN b[i] ELSE 0
  BY DEF Put
<1>3. Len(new) = n
  BY <1>1, <1>2, PutType, LenProperties
<1>4. n >= at + Len(octets) /\ n >= Len(b)
  BY <1>1
<1> HIDE DEF n, new
<1>5. Holds(new, at, octets)
  <2>1. ASSUME NEW i \in DOMAIN octets PROVE at + i \in DOMAIN new /\ new[at + i] = octets[i]
    <3>1. at + i \in 1..n /\ (at + i) - at = i
      BY <1>1, <1>4
    <3> QED
      BY <1>2, <3>1
  <2> QED
    BY <2>1 DEF Holds
<1>6. ASSUME NEW p \in Nat, NEW w \in Seq(Nat), Holds(b, p, w),
             p + Len(w) <= at \/ at + Len(octets) <= p
      PROVE  Holds(new, p, w)
  <2>1. Len(w) \in Nat /\ DOMAIN w = 1..Len(w)
    BY LenProperties
  <2>2. ASSUME NEW i \in DOMAIN w PROVE p + i \in DOMAIN new /\ new[p + i] = w[i]
    <3>1. p + i \in DOMAIN b /\ b[p + i] = w[i]
      BY <1>6 DEF Holds
    <3>2. p + i \in 1..n
      BY <1>1, <1>4, <3>1
    <3>3. ~((p + i) - at \in 1..Len(octets))
      BY <1>1, <1>6, <2>1
    <3> QED
      BY <1>1, <1>2, <3>1, <3>2, <3>3
  <2> QED
    BY <2>2 DEF Holds
<1> QED
  BY <1>3, <1>5, <1>6 DEF n, new

\* Where every cell stands that stands in a row of cells.
LEMMA UptoHolds ==
  ASSUME NEW b, NEW p \in Nat, NEW cells \in Seq(Words), NEW m \in 0..Len(cells),
         Holds(b, p, Upto(cells, m)), NEW n \in Nat, n < m
  PROVE  Holds(b, p + Len(Upto(cells, n)), cells[n + 1])
<1> DEFINE T == {k \in Nat : n < k /\ k <= Len(cells) /\ Holds(b, p, Upto(cells, k))
                               => Holds(b, p + Len(Upto(cells, n)), cells[n + 1])}
<1>1. Len(cells) \in Nat
  BY LenProperties
<1>2. 0 \in T
  OBVIOUS
<1>3. ASSUME NEW k \in Nat, k \in T PROVE k + 1 \in T
  <2>1. SUFFICES ASSUME n < k + 1, k + 1 <= Len(cells), Holds(b, p, Upto(cells, k + 1))
                 PROVE  Holds(b, p + Len(Upto(cells, n)), cells[n + 1])
    OBVIOUS
  <2>2. k + 1 \in 1..Len(cells) /\ (k + 1) - 1 = k /\ k \in 0..Len(cells)
    BY <1>1, <2>1
  <2>3. Upto(cells, k + 1) = Upto(cells, k) \o cells[k + 1]
    BY <2>2, UptoSteps
  <2>4. cells[k + 1] \in Seq(Nat) /\ Upto(cells, k) \in Seq(Nat)
    BY <2>2, ElementOfSeq, UptoType DEF Words
  <2>5. Holds(b, p, Upto(cells, k)) /\ Holds(b, p + Len(Upto(cells, k)), cells[k + 1])
    <3> DEFINE v == Upto(cells, k)
               w == cells[k + 1]
    <3>1. v \in Seq(Nat) /\ w \in Seq(Nat) /\ Holds(b, p, v \o w)
      BY <2>1, <2>3, <2>4
    <3> HIDE DEF v, w
    <3>2. Holds(b, p, v) /\ Holds(b, p + Len(v), w)
      BY <3>1, HoldsJoin
    <3> QED
      BY <3>2 DEF v, w
  <2>6. n = k \/ n < k
    BY <2>1
  <2> QED
    BY <1>1, <1>3, <2>1, <2>5, <2>6
<1> HIDE DEF T
<1>4. Nat \subseteq T
  BY <1>2, <1>3, Induction
<1> QED
  BY <1>1, <1>4 DEF T

(***************************************************************************)
(* The lists of known AVPs                                                 *)
(***************************************************************************)
KnownLists(cmd) == {list \in Seq(Avps) : \A i \in DOMAIN list : TypeOf(cmd, list[i]) # "unknown"}

\* What is known of a list are AVPs of it that are known.
LEMMA KnownType ==
  ASSUME NEW cmd, NEW S \in SUBSET Avps, NEW list \in Seq(S)
  PROVE  Known(cmd, list) \in Seq({a \in S : TypeOf(cmd, a) # "unknown"})
<1> DEFINE U == {a \in S : TypeOf(cmd, a) # "unknown"}
           at(l) == {i \in DOMAIN l : diaGetAvpInfo(cmd, l[i].code).type # "unknown"}
           T == {l \in Seq(S) : Those(l, at(l)) \in Seq(U)}
<1>1. <<>> \in T
  BY ThoseEmpty, EmptySeq
<1>2. ASSUME NEW l \in Seq(S), NEW x \in S, l \in T PROVE Append(l, x) \in T
  <2> DEFINE m == Append(l, x)
  <2>1. /\ m \in Seq(S) /\ Len(m) = Len(l) + 1 /\ m[Len(l) + 1] = x /\ Len(l) \in Nat
        /\ \A i \in 1..Len(l) : m[i] = l[i]
    BY AppendProperties, LenProperties
  <2>2. DOMAIN m = 1..(Len(l) + 1) /\ DOMAIN l = 1..Len(l)
    BY <2>1, LenProperties
  <2>3. Those(m, at(m)) = IF Len(l) + 1 \in at(m) THEN Append(Those(l, at(m)), x)
                                                 ELSE Those(l, at(m))
    BY ThoseAppend, ZenonT(60)
  <2>4. Those(l, at(m)) = Those(l, at(l))
    <3>1. \A i \in 1..Len(l) : i \in at(m) <=> i \in at(l)
      BY <2>1, <2>2
    <3> HIDE DEF at, m
    <3> QED
      BY <3>1, ThoseSame
  <2>5. Len(l) + 1 \in at(m) => x \in U
    BY <2>1 DEF TypeOf
  <2>6. Those(l, at(l)) \in Seq(U)
    BY <1>2
  <2> HIDE DEF at, U, m
  <2>7. Those(m, at(m)) \in Seq(U)
    BY <2>3, <2>4, <2>5, <2>6, AppendProperties
  <2> QED
    BY <2>1, <2>7 DEF m
<1> HIDE DEF T
<1>3. Seq(S) \subseteq T
  BY <1>1, <1>2, SeqInduction
<1> QED
  BY <1>3 DEF T, Known

LEMMA KnownIsKnown ==
  ASSUME NEW cmd, NEW list \in Seq(Avps)
  PROVE  Known(cmd, list) \in KnownLists(cmd)
<1> DEFINE U == {a \in Avps : TypeOf(cmd, a) # "unknown"}
<1>1. Known(cmd, list) \in Seq(U)
  BY KnownType
<1>2. \A i \in DOMAIN Known(cmd, list) : Known(cmd, list)[i] \in U
  BY <1>1, ElementOfSeq, LenProperties
<1>3. Known(cmd, list) \in Seq(Avps)
  BY ThoseType DEF Known
<1> QED
  BY <1>2, <1>3 DEF KnownLists

\* The first AVP of a list is known or not.
LEMMA KnownFirst ==
  ASSUME NEW cmd, NEW list \in Seq(Avps), list # <<>>
  PROVE  Known(cmd, list) = IF TypeOf(cmd, Head(list)) # "unknown"
                              THEN <<Head(list)>> \o Known(cmd, Tail(list))
                              ELSE Known(cmd, Tail(list))
<1> DEFINE head == <<Head(list)>>
           tail == Tail(list)
           at(l) == {i \in DOMAIN l : diaGetAvpInfo(cmd, l[i].code).type # "unknown"}
<1>1. /\ Head(list) \in Avps /\ tail \in Seq(Avps) /\ head \in Seq(Avps)
      /\ Len(tail) = Len(list) - 1 /\ \A i \in 1..Len(tail) : tail[i] = list[i + 1]
      /\ DOMAIN list = 1..Len(list) /\ DOMAIN tail = 1..Len(tail) /\ Len(list) \in Nat
      /\ Len(list) >= 1 /\ list[1] = Head(list) /\ Len(head) = 1
  <2>1. Len(list) # 0
    BY EmptySeq
  <2> QED
    BY <2>1, HeadTailProperties, LenProperties
<1>2. list = head \o tail
  <2>1. list = SubSeq(list, 1, Len(list))
    BY SubSeqFull
  <2> QED
    BY <1>1, HeadTailAppend, ConcatProperties
<1>3. \A i \in 1..Len(tail) : i \in at(tail) <=> 1 + i \in at(list)
  BY <1>1
<1>4. 1 \in at(list) <=> TypeOf(cmd, Head(list)) # "unknown"
  BY <1>1 DEF TypeOf
<1> HIDE DEF at, head, tail
<1>5. Those(head, at(list)) = IF 1 \in at(list) THEN head ELSE <<>>
  <2>1. CASE 1 \in at(list)
    <3>1. \A i \in 1..Len(head) : i \in at(list)
      BY <1>1, <2>1
    <3> QED
      BY <1>1, <2>1, <3>1, ThoseAll, Zenon
  <2>2. CASE 1 \notin at(list)
    <3>1. \A i \in 1..Len(head) : i \notin at(list)
      BY <1>1, <2>2
    <3> QED
      BY <1>1, <2>2, <3>1, ThoseNone, Zenon
  <2> QED
    BY <2>1, <2>2
<1>6. Those(head \o tail, at(list)) = Those(head, at(list)) \o Those(tail, at(tail))
  <2> DEFINE here == at(list)
             behind == at(tail)
  <2>1. \A i \in 1..Len(tail) : i \in behind <=> Len(head) + i \in here
    BY <1>1, <1>3
  <2>2. head \in Seq(Avps) /\ tail \in Seq(Avps)
    BY <1>1
  <2> HIDE DEF here, behind
  <2>3. Those(head \o tail, here) = Those(head, here) \o Those(tail, behind)
    BY <2>1, <2>2, ThoseConcat
  <2> QED
    BY <2>3 DEF here, behind
<1>7. Those(tail, at(tail)) \in Seq(Avps)
  BY <1>1, ThoseType
<1>8. <<>> \o Those(tail, at(tail)) = Those(tail, at(tail))
  BY <1>7, ConcatEmptySeq
<1> QED
  BY <1>2, <1>4, <1>5, <1>6, <1>8 DEF Known, at, head, tail

(***************************************************************************)
(* The octets of an AVP                                                    *)
(***************************************************************************)
LEMMA InfoTypes ==
  ASSUME NEW cmd, NEW code
  PROVE  diaGetAvpInfo(cmd, code).type
           \in {"uint32", "uint64", "enum", "octets", "grouped", "unknown"}
<1>1. /\ DOMAIN BaseTypes = {"uint32", "uint64", "octets", "grouped"}
      /\ DOMAIN CxTypes = {"uint32", "enum", "octets", "grouped"}
      /\ DOMAIN CxReusedTypes = {"octets", "enum", "grouped"}
  BY DEF BaseTypes, CxTypes, CxReusedTypes
<1>2. ASSUME NEW table PROVE TypeIn(table, code) \in DOMAIN table \cup {"unknown"}
  BY DEF TypeIn
<1> HIDE DEF BaseTypes, CxTypes, CxReusedTypes, TypeIn
<1>3. /\ TypeIn(BaseTypes, code) \in {"uint32", "uint64", "octets", "grouped", "unknown"}
      /\ TypeIn(CxTypes, code) \in {"uint32", "enum", "octets", "grouped", "unknown"}
      /\ TypeIn(CxReusedTypes, code) \in {"octets", "enum", "grouped", "unknown"}
  BY <1>1, <1>2
<1>4. \/ diaGetAvpInfo(cmd, code).type = TypeIn(BaseTypes, code)
      \/ diaGetAvpInfo(cmd, code).type = TypeIn(CxTypes, code)
      \/ diaGetAvpInfo(cmd, code).type = TypeIn(CxReusedTypes, code)
  BY DEF diaGetAvpInfo
<1> QED
  BY <1>3, <1>4

\* The data of an AVP is of its type (CodecAssumption).
LEMMA DataTypes ==
  ASSUME NEW cmd \in Cmds, NEW a \in Avps
  PROVE  /\ a.code \in Nat
         /\ TypeOf(cmd, a) = "octets" => a.data \in Seq(Nat)
         /\ TypeOf(cmd, a) \in {"uint32", "uint64", "enum"} => a.data \in Nat
         /\ TypeOf(cmd, a) = "grouped" =>
              a.data \in Seq(Avps) /\ \A i \in DOMAIN a.data : Depth[a.data[i]] < Depth[a]
BY CodecAssumption DEF Cmds, TypeOf

\* Whole words with a header that is written as long as they are.
LEMMA DataShape ==
  ASSUME NEW cmd \in Cmds, NEW a \in Avps, TypeOf(cmd, a) # "unknown", NEW members,
         TypeOf(cmd, a) = "grouped" => members \in Words
  PROVE  /\ DataOctets(cmd, a, members) \in Words
         /\ DataLength(cmd, a, members) \in Nat
         /\ DataLength(cmd, a, members) + Padding(DataLength(cmd, a, members))
              = Len(DataOctets(cmd, a, members))
<1> DEFINE data == DataOctets(cmd, a, members)
           len == DataLength(cmd, a, members)
<1>1. CASE TypeOf(cmd, a) = "octets"
  <2> DEFINE str == a.data
             n == Padding(Len(str))
             zeros == [i \in 1..n |-> 0]
  <2>1. str \in Seq(Nat) /\ Len(str) \in Nat
    BY <1>1, DataTypes, LenProperties
  <2>2. n \in 0..3 /\ (Len(str) + n) % 4 = 0
    BY <2>1, PaddingAligns, Zenon
  <2>3. data = str \o zeros /\ len = Len(str)
    BY <1>1, Zenon DEF DataOctets, DataLength
  <2>4. zeros \in Seq(Nat) /\ Len(zeros) = n
    <3> HIDE DEF n
    <3>1. n \in Nat
      BY <2>2
    <3>2. zeros \in [1..n -> Nat] /\ DOMAIN zeros = 1..n
      OBVIOUS
    <3>3. zeros \in Seq(Nat)
      BY <3>1, <3>2, SeqDef, Zenon
    <3> QED
      BY <3>1, <3>2, <3>3
  <2> HIDE DEF str, n, zeros, data, len
  <2>5. data \in Seq(Nat) /\ Len(data) = Len(str) + n
    BY <2>1, <2>3, <2>4, ConcatProperties
  <2>6. Padding(len) = n
    BY <2>3 DEF n
  <2> QED
    BY <2>1, <2>2, <2>3, <2>5, <2>6 DEF Words, data, len
<1>2. CASE TypeOf(cmd, a) # "octets"
  <2>1. data \in Words
    <3>1. CASE TypeOf(cmd, a) = "uint64"
      <4>1. data = U64(a.data) /\ a.data \in Nat
        BY <3>1, DataTypes DEF DataOctets
      <4> HIDE DEF data
      <4>2. data \in Seq(Nat) /\ Len(data) = 8
        BY <4>1, WordTypes, Zenon
      <4>3. Len(data) % 4 = 0
        BY <4>2
      <4> QED
        BY <4>2, <4>3, Zenon DEF Words
    <3>2. CASE TypeOf(cmd, a) = "grouped"
      BY <3>2 DEF DataOctets
    <3>3. CASE TypeOf(cmd, a) \in {"uint32", "enum"}
      <4>1. data = U32(a.data) /\ a.data \in Nat
        BY <3>3, DataTypes DEF DataOctets
      <4> HIDE DEF data
      <4>2. data \in Seq(Nat) /\ Len(data) = 4
        BY <4>1, WordTypes, Zenon
      <4>3. Len(data) % 4 = 0
        BY <4>2
      <4> QED
        BY <4>2, <4>3, Zenon DEF Words
    <3> QED
      BY <1>2, <3>1, <3>2, <3>3, InfoTypes DEF TypeOf
  <2>2. len = Len(data)
    BY <1>2 DEF DataLength
  <2> HIDE DEF len, data
  <2>3. Len(data) \in Nat /\ Len(data) % 4 = 0
    BY <2>1, LenProperties DEF Words
  <2>4. Padding(len) = 0
    BY <2>2, <2>3 DEF Padding
  <2> QED
    BY <2>1, <2>2, <2>3, <2>4 DEF data, len
<1> QED
  BY <1>1, <1>2

LEMMA AvpShape ==
  ASSUME NEW cmd \in Cmds, NEW a \in Avps, TypeOf(cmd, a) # "unknown", NEW members,
         TypeOf(cmd, a) = "grouped" => members \in Words
  PROVE  /\ Hdr(cmd, a) \in {8, 12}
         /\ HdrOctets(cmd, a, members) \in Words
         /\ Len(HdrOctets(cmd, a, members)) = Hdr(cmd, a)
         /\ AvpOctets(cmd, a, members) \in Words
         /\ Len(AvpOctets(cmd, a, members)) = Hdr(cmd, a) + Len(DataOctets(cmd, a, members))
         /\ Len(AvpOctets(cmd, a, members)) >= 8
         /\ LET len == Hdr(cmd, a) + DataLength(cmd, a, members)
            IN  len + Padding(len) = Len(AvpOctets(cmd, a, members))
<1> DEFINE hdr == Hdr(cmd, a)
           l == DataLength(cmd, a, members)
           head == HdrOctets(cmd, a, members)
           data == DataOctets(cmd, a, members)
<1>1. hdr \in {8, 12}
  BY InfoType, HdrLenAligned DEF Hdr
<1>2. data \in Words /\ l \in Nat /\ l + Padding(l) = Len(data)
  BY DataShape
<1>3. head \in Words /\ Len(head) = hdr
  <2>1. a.code \in Nat /\ hdr + l \in Nat
    BY <1>1, <1>2, DataTypes
  <2> HIDE DEF l
  <2>2. head \in Seq(Nat) /\ Len(head) = hdr
    BY <2>1, HdrType DEF HdrOctets, Hdr, l
  <2> QED
    BY <1>1, <2>2 DEF Words
<1>4. AvpOctets(cmd, a, members) = head \o data
  BY DEF AvpOctets
<1> HIDE DEF hdr, l, head, data
<1>5. head \o data \in Words /\ Len(head \o data) = hdr + Len(data)
  BY <1>2, <1>3, WordsJoin
<1>6. Len(data) \in Nat
  BY <1>2, LenProperties DEF Words
<1>7. Padding(hdr + l) = Padding(l)
  <2>1. (hdr + l) % 4 = l % 4
    BY <1>1, <1>2
  <2> QED
    BY <2>1 DEF Padding
<1>8. hdr + Len(data) >= 8 /\ (hdr + l) + Padding(hdr + l) = hdr + Len(data)
  <2> DEFINE n == Padding(l)
  <2> HIDE DEF n
  <2>1. n \in 0..3 /\ l + n = Len(data) /\ Padding(hdr + l) = n
    BY <1>2, <1>7, PaddingAligns, Zenon DEF n
  <2> QED
    BY <1>1, <1>2, <1>6, <2>1
<1> QED
  BY <1>1, <1>3, <1>4, <1>5, <1>8, Zenon DEF hdr, l, head, data

(***************************************************************************)
(* The octets of every list, and what the decoder is to give for it: both  *)
(* are recursions over groups inside groups, which end because no AVP is   *)
(* inside itself. They are shown to exist for the lists nested less deep   *)
(* than n, for every n.                                                    *)
(***************************************************************************)
LEMMA CellsType ==
  ASSUME NEW cmd \in Cmds, NEW list \in KnownLists(cmd), NEW f,
         \A i \in DOMAIN list : TypeOf(cmd, list[i]) = "grouped" => f[list[i].data] \in Words
  PROVE  /\ Cells(cmd, f, list) \in Seq(Words)
         /\ Len(Cells(cmd, f, list)) = Len(list) /\ Len(list) \in Nat
         /\ \A i \in 1..Len(list) :
              /\ Cells(cmd, f, list)[i] = AvpOctets(cmd, list[i], f[list[i].data])
              /\ Len(Cells(cmd, f, list)[i]) >= 8
<1> DEFINE cells == Cells(cmd, f, list)
<1>1. list \in Seq(Avps) /\ Len(list) \in Nat /\ DOMAIN list = 1..Len(list)
  BY LenProperties DEF KnownLists
<1>2. DOMAIN cells = 1..Len(list)
      /\ \A i \in 1..Len(list) : cells[i] = AvpOctets(cmd, list[i], f[list[i].data])
  BY <1>1 DEF Cells
<1>3. ASSUME NEW i \in 1..Len(list) PROVE cells[i] \in Words /\ Len(cells[i]) >= 8
  <2>1. list[i] \in Avps /\ TypeOf(cmd, list[i]) # "unknown"
    BY <1>1, ElementOfSeq DEF KnownLists
  <2>2. TypeOf(cmd, list[i]) = "grouped" => f[list[i].data] \in Words
    BY <1>1
  <2> HIDE DEF cells
  <2> QED
    BY <1>2, <2>1, <2>2, AvpShape
<1>4. cells = [i \in 1..Len(list) |-> cells[i]]
  BY <1>1 DEF Cells
<1> HIDE DEF cells
<1>5. cells \in [1..Len(list) -> Words]
  BY <1>3, <1>4
<1>6. cells \in Seq(Words)
  BY <1>1, <1>5, SeqDef
<1>7. Len(cells) = Len(list)
  BY <1>1, <1>2, <1>6, LenProperties
<1> QED
  BY <1>1, <1>2, <1>3, <1>6, <1>7 DEF cells

\* The octets of a list depend on the groups in it only.
LEMMA CellsAlike ==
  ASSUME NEW cmd, NEW list, NEW f, NEW g,
         \A i \in DOMAIN list :
           TypeOf(cmd, list[i]) = "grouped" => f[list[i].data] = g[list[i].data]
  PROVE  Cells(cmd, f, list) = Cells(cmd, g, list)
<1>1. ASSUME NEW i \in DOMAIN list
      PROVE  AvpOctets(cmd, list[i], f[list[i].data]) = AvpOctets(cmd, list[i], g[list[i].data])
  <2> DEFINE a == list[i]
             v == f[a.data]
             w == g[a.data]
  <2>1. TypeOf(cmd, a) = "grouped" => v = w
    OBVIOUS
  <2> HIDE DEF a, v, w
  <2>2. DataOctets(cmd, a, v) = DataOctets(cmd, a, w)
    BY <2>1 DEF DataOctets
  <2> QED
    BY <2>2 DEF AvpOctets, HdrOctets, DataLength, a, v, w
<1> QED
  BY <1>1 DEF Cells

\* The lists nested less deep than n.
Shallow(n) == {list \in Seq(Avps) : \A i \in DOMAIN list : Depth[list[i]] < n}

LEMMA ShallowGroups ==
  ASSUME NEW cmd \in Cmds, NEW n \in Nat, NEW list \in Shallow(n + 1),
         NEW i \in DOMAIN Known(cmd, list), TypeOf(cmd, Known(cmd, list)[i]) = "grouped"
  PROVE  Known(cmd, list)[i].data \in Shallow(n)
<1> DEFINE S == {a \in Avps : Depth[a] < n + 1}
           a == Known(cmd, list)[i]
<1>1. list \in Seq(Avps) /\ Len(list) \in Nat /\ DOMAIN list = 1..Len(list)
      /\ \A j \in DOMAIN list : Depth[list[j]] < n + 1
  BY LenProperties DEF Shallow
<1>2. list \in Seq(S)
  <2>1. \A j \in 1..Len(list) : list[j] \in S
    BY <1>1, ElementOfSeq
  <2>2. list = [j \in 1..Len(list) |-> list[j]]
    BY <1>1, LenProperties
  <2> HIDE DEF S
  <2>3. list \in [1..Len(list) -> S]
    BY <2>1, <2>2
  <2> QED
    BY <1>1, <2>3, SeqDef
<1>3. Known(cmd, list) \in Seq({b \in S : TypeOf(cmd, b) # "unknown"})
  BY <1>2, KnownType
<1>4. a \in S
  BY <1>3, ElementOfSeq, LenProperties
<1>5. a.data \in Seq(Avps) /\ \A j \in DOMAIN a.data : Depth[a.data[j]] < Depth[a]
  BY <1>4, DataTypes
<1>6. Depth[a] \in Nat
  BY <1>4, CodecAssumption
<1>7. ASSUME NEW j \in DOMAIN a.data PROVE Depth[a.data[j]] < n
  <2>1. a.data[j] \in Avps
    BY <1>5, ElementOfSeq, LenProperties
  <2>2. Depth[a.data[j]] \in Nat
    BY <2>1, CodecAssumption
  <2> QED
    BY <1>4, <1>5, <1>6, <2>2
<1> HIDE DEF a
<1>8. a.data \in Shallow(n)
  BY <1>5, <1>7 DEF Shallow
<1> QED
  BY <1>8 DEF a

LEMMA ShallowEnds ==
  /\ \A list \in Shallow(0) : list = <<>>
  /\ Shallow(MaxDepth + 1) = Seq(Avps)
<1>1. \A a \in Avps : Depth[a] \in Nat /\ Depth[a] < MaxDepth + 1
  BY CodecAssumption
<1>2. \A list \in Seq(Avps) : \A i \in DOMAIN list : list[i] \in Avps
  BY ElementOfSeq, LenProperties
<1>3. ASSUME NEW list \in Shallow(0) PROVE list = <<>>
  <2>1. list \in Seq(Avps) /\ DOMAIN list = {}
    BY <1>1, <1>2 DEF Shallow
  <2>2. Len(list) = 0
    BY <2>1, LenProperties
  <2> QED
    BY <2>1, <2>2, EmptySeq
<1> QED
  BY <1>1, <1>2, <1>3 DEF Shallow

LEMMA KnownNothing == ASSUME NEW cmd PROVE Known(cmd, <<>>) = <<>>
BY ThoseEmpty DEF Known

LEMMA OctetsType ==
  ASSUME NEW cmd \in Cmds, NEW list \in Seq(Avps), NEW f,
         \A i \in DOMAIN Known(cmd, list) :
           TypeOf(cmd, Known(cmd, list)[i]) = "grouped"
             => f[Known(cmd, list)[i].data] \in Words
  PROVE  ListOctets(cmd, f, list) \in Words
<1> DEFINE known == Known(cmd, list)
<1>1. known \in KnownLists(cmd)
  BY KnownIsKnown
<1> HIDE DEF known
<1>2. Cells(cmd, f, known) \in Seq(Words) /\ Len(Cells(cmd, f, known)) = Len(known)
      /\ Len(known) \in Nat
  BY <1>1, CellsType DEF known
<1>3. Upto(Cells(cmd, f, known), Len(known)) \in Words
  BY <1>2, UptoType
<1> QED
  BY <1>3 DEF ListOctets, known

LEMMA WireExists ==
  ASSUME NEW cmd \in Cmds
  PROVE  \E f : IsWire(cmd, f, Seq(Avps))
<1> DEFINE T == {n \in Nat : \E f : IsWire(cmd, f, Shallow(n))}
<1>1. ASSUME NEW lists \in SUBSET Seq(Avps), NEW f, NEW shallower,
             \A list \in lists : \A i \in DOMAIN Known(cmd, list) :
               TypeOf(cmd, Known(cmd, list)[i]) = "grouped"
                 => Known(cmd, list)[i].data \in shallower \cap lists,
             IsWire(cmd, f, shallower)
      PROVE  \E g : IsWire(cmd, g, lists)
  <2> DEFINE g == [list \in lists |-> ListOctets(cmd, f, list)]
  <2>1. ASSUME NEW l \in shallower PROVE f[l] \in Words /\ f[l] = ListOctets(cmd, f, l)
    BY <1>1, <2>1 DEF IsWire
  <2>2. ASSUME NEW list \in lists
        PROVE  ListOctets(cmd, f, list) \in Words /\ ListOctets(cmd, f, list) = ListOctets(cmd, g, list)
    <3> DEFINE known == Known(cmd, list)
    <3>1. \A i \in DOMAIN known :
            TypeOf(cmd, known[i]) = "grouped" =>
              f[known[i].data] \in Words /\ f[known[i].data] = g[known[i].data]
      BY <1>1, <2>1
    <3>2. ListOctets(cmd, f, list) \in Words
      BY <3>1, OctetsType
    <3> HIDE DEF known, g
    <3>3. Cells(cmd, f, known) = Cells(cmd, g, known)
      BY <3>1, CellsAlike
    <3> QED
      BY <3>2, <3>3 DEF ListOctets, known
  <2>3. g \in [lists -> Words] /\ g = [list \in lists |-> ListOctets(cmd, g, list)]
    <3>1. g \in [lists -> Words]
      BY <2>2
    <3>2. \A list \in lists : g[list] = ListOctets(cmd, g, list)
      BY <2>2
    <3> HIDE DEF g
    <3> QED
      BY <3>1, <3>2
  <2> HIDE DEF g
  <2> QED
    BY <2>3 DEF IsWire
<1>2. 0 \in T
  <2>1. IsWire(cmd, [l \in {} |-> <<>>], {})
    BY DEF IsWire
  <2>2. \A list \in Shallow(0) : DOMAIN Known(cmd, list) = {}
    BY ShallowEnds, KnownNothing
  <2>3. Shallow(0) \in SUBSET Seq(Avps)
    BY DEF Shallow
  <2>4. \E g : IsWire(cmd, g, Shallow(0))
    BY <1>1, <2>1, <2>2, <2>3
  <2> QED
    BY <2>4
<1>3. ASSUME NEW n \in Nat, n \in T PROVE n + 1 \in T
  <2>1. PICK f : IsWire(cmd, f, Shallow(n))
    BY <1>3
  <2>2. Shallow(n + 1) \in SUBSET Seq(Avps) /\ Shallow(n) \subseteq Shallow(n + 1)
    <3>1. \A list \in Seq(Avps) : \A i \in DOMAIN list : Depth[list[i]] \in Nat
      BY CodecAssumption, ElementOfSeq, LenProperties
    <3> QED
      BY <3>1 DEF Shallow
  <2>3. \A list \in Shallow(n + 1) : \A i \in DOMAIN Known(cmd, list) :
          TypeOf(cmd, Known(cmd, list)[i]) = "grouped"
            => Known(cmd, list)[i].data \in Shallow(n) \cap Shallow(n + 1)
    BY <2>2, ShallowGroups
  <2>4. \E g : IsWire(cmd, g, Shallow(n + 1))
    BY <1>1, <2>1, <2>2, <2>3
  <2> QED
    BY <2>4
<1> HIDE DEF T
<1>4. MaxDepth + 1 \in T
  <2>1. Nat \subseteq T
    BY <1>2, <1>3, Induction
  <2> QED
    BY <2>1, CodecAssumption
<1> QED
  BY <1>4, ShallowEnds DEF T

LEMMA WireWorks ==
  ASSUME NEW cmd \in Cmds, NEW list \in Seq(Avps)
  PROVE  Wire(cmd)[list] \in Words /\ Wire(cmd)[list] = ListOctets(cmd, Wire(cmd), list)
<1> DEFINE f == Wire(cmd)
<1>1. IsWire(cmd, f, Seq(Avps))
  BY WireExists DEF Wire
<1> HIDE DEF f
<1>2. f[list] \in Words /\ f[list] = ListOctets(cmd, f, list)
  BY <1>1 DEF IsWire
<1> QED
  BY <1>2 DEF f

\* The decoder's list for a list, f holding its lists for the groups in it.
HeardOf(cmd, f, list) ==
  [i \in DOMAIN Known(cmd, list) |->
     LET a == Known(cmd, list)[i] IN Meant(cmd, a, f[a.data])]
IsHeard(cmd, f, lists) == f = [list \in lists |-> HeardOf(cmd, f, list)]

\* What the decoder is to give for an AVP.
Heard(cmd, a) == Meant(cmd, a, Expected(cmd)[a.data])

LEMMA HeardExists ==
  ASSUME NEW cmd \in Cmds
  PROVE  \E f : IsHeard(cmd, f, Seq(Avps))
<1> DEFINE T == {n \in Nat : \E f : IsHeard(cmd, f, Shallow(n))}
<1>1. ASSUME NEW lists \in SUBSET Seq(Avps), NEW f, NEW shallower,
             \A list \in lists : \A i \in DOMAIN Known(cmd, list) :
               TypeOf(cmd, Known(cmd, list)[i]) = "grouped"
                 => Known(cmd, list)[i].data \in shallower \cap lists,
             IsHeard(cmd, f, shallower)
      PROVE  \E g : IsHeard(cmd, g, lists)
  <2> DEFINE g == [list \in lists |-> HeardOf(cmd, f, list)]
  <2>1. ASSUME NEW l \in shallower PROVE f[l] = HeardOf(cmd, f, l)
    <3> DEFINE h == [list \in shallower |-> HeardOf(cmd, f, list)]
    <3>1. f = h /\ h[l] = HeardOf(cmd, f, l)
      BY <1>1, <2>1, Zenon DEF IsHeard
    <3> HIDE DEF h
    <3> QED
      BY <3>1, Zenon
  <2>2. ASSUME NEW list \in lists PROVE HeardOf(cmd, f, list) = HeardOf(cmd, g, list)
    <3> DEFINE known == Known(cmd, list)
    <3>1. ASSUME NEW i \in DOMAIN known
          PROVE  Meant(cmd, known[i], f[known[i].data]) = Meant(cmd, known[i], g[known[i].data])
      <4> DEFINE a == known[i]
                 v == f[a.data]
                 w == g[a.data]
      <4>1. TypeOf(cmd, a) = "grouped" => v = w
        BY <1>1, <2>1
      <4> HIDE DEF a, v, w
      <4>2. Meant(cmd, a, v) = Meant(cmd, a, w)
        BY <4>1 DEF Meant, TypeOf
      <4> QED
        BY <4>2 DEF a, v, w
    <3> HIDE DEF g
    <3> QED
      BY <3>1 DEF HeardOf
  <2>3. g = [list \in lists |-> HeardOf(cmd, g, list)]
    <3> HIDE DEF g
    <3>1. g = [list \in lists |-> HeardOf(cmd, f, list)]
      BY DEF g
    <3> QED
      BY <2>2, <3>1
  <2> HIDE DEF g
  <2> QED
    BY <2>3 DEF IsHeard
<1>2. 0 \in T
  <2>1. IsHeard(cmd, [l \in {} |-> <<>>], {})
    BY DEF IsHeard
  <2>2. \A list \in Shallow(0) : DOMAIN Known(cmd, list) = {}
    BY ShallowEnds, KnownNothing
  <2>3. Shallow(0) \in SUBSET Seq(Avps)
    BY DEF Shallow
  <2>4. \E g : IsHeard(cmd, g, Shallow(0))
    BY <1>1, <2>1, <2>2, <2>3
  <2> QED
    BY <2>4
<1>3. ASSUME NEW n \in Nat, n \in T PROVE n + 1 \in T
  <2>1. PICK f : IsHeard(cmd, f, Shallow(n))
    BY <1>3
  <2>2. Shallow(n + 1) \in SUBSET Seq(Avps) /\ Shallow(n) \subseteq Shallow(n + 1)
    <3>1. \A list \in Seq(Avps) : \A i \in DOMAIN list : Depth[list[i]] \in Nat
      BY CodecAssumption, ElementOfSeq, LenProperties
    <3> QED
      BY <3>1 DEF Shallow
  <2>3. \A list \in Shallow(n + 1) : \A i \in DOMAIN Known(cmd, list) :
          TypeOf(cmd, Known(cmd, list)[i]) = "grouped"
            => Known(cmd, list)[i].data \in Shallow(n) \cap Shallow(n + 1)
    BY <2>2, ShallowGroups
  <2>4. \E g : IsHeard(cmd, g, Shallow(n + 1))
    BY <1>1, <2>1, <2>2, <2>3
  <2> QED
    BY <2>4
<1> HIDE DEF T
<1>4. MaxDepth + 1 \in T
  <2>1. Nat \subseteq T
    BY <1>2, <1>3, Induction
  <2> QED
    BY <2>1, CodecAssumption
<1> QED
  BY <1>4, ShallowEnds DEF T

\* One entry for each known AVP, in their order.
LEMMA ExpectedWorks ==
  ASSUME NEW cmd \in Cmds, NEW list \in Seq(Avps)
  PROVE  Expected(cmd)[list] = [i \in DOMAIN Known(cmd, list) |-> Heard(cmd, Known(cmd, list)[i])]
<1> DEFINE f == Expected(cmd)
<1>1. Expected(cmd) = CHOOSE g : IsHeard(cmd, g, Seq(Avps))
  BY DEF Expected, IsHeard, HeardOf
<1>2. IsHeard(cmd, f, Seq(Avps))
  BY <1>1, HeardExists
<1> HIDE DEF f
<1>3. f[list] = HeardOf(cmd, f, list)
  <2> DEFINE h == [l \in Seq(Avps) |-> HeardOf(cmd, f, l)]
  <2>1. f = h /\ h[list] = HeardOf(cmd, f, list)
    BY <1>2, Zenon DEF IsHeard
  <2> HIDE DEF h
  <2> QED
    BY <2>1, Zenon
<1> QED
  BY <1>3, Zenon DEF HeardOf, Heard, f

LEMMA CellShape ==
  ASSUME NEW cmd \in Cmds, NEW a \in Avps, TypeOf(cmd, a) # "unknown"
  PROVE  /\ Hdr(cmd, a) \in {8, 12}
         /\ TypeOf(cmd, a) = "grouped" => Wire(cmd)[a.data] \in Words
         /\ Cell(cmd, a) \in Words /\ Len(Cell(cmd, a)) \in Nat /\ Len(Cell(cmd, a)) >= 8
<1>1. TypeOf(cmd, a) = "grouped" => Wire(cmd)[a.data] \in Words
  BY DataTypes, WireWorks
<1>2. Cell(cmd, a) \in Words /\ Len(Cell(cmd, a)) >= 8 /\ Hdr(cmd, a) \in {8, 12}
  BY <1>1, AvpShape DEF Cell
<1> QED
  BY <1>1, <1>2, LenProperties DEF Words

\* The octets of a list of known AVPs, one AVP after the other.
LEMMA PartSteps ==
  ASSUME NEW cmd \in Cmds, NEW list \in KnownLists(cmd)
  PROVE  /\ Len(list) \in Nat /\ \A n \in 1..Len(list) : list[n] \in Avps /\ TypeOf(cmd, list[n]) # "unknown"
         /\ Part(cmd, list, 0) = <<>>
         /\ \A n \in 0..Len(list) : Part(cmd, list, n) \in Words /\ Len(Part(cmd, list, n)) \in Nat
         /\ \A n \in 1..Len(list) :
              /\ Part(cmd, list, n) = Part(cmd, list, n - 1) \o Cell(cmd, list[n])
              /\ Len(Part(cmd, list, n)) = Len(Part(cmd, list, n - 1)) + Len(Cell(cmd, list[n]))
         /\ \A m, n \in 0..Len(list) : m < n => Len(Part(cmd, list, m)) < Len(Part(cmd, list, n))
<1> DEFINE cells == Cells(cmd, Wire(cmd), list)
<1>1. list \in Seq(Avps) /\ Len(list) \in Nat /\ DOMAIN list = 1..Len(list)
  BY LenProperties DEF KnownLists
<1>2. \A n \in 1..Len(list) : list[n] \in Avps /\ TypeOf(cmd, list[n]) # "unknown"
  BY <1>1, ElementOfSeq DEF KnownLists
<1>3. \A n \in DOMAIN list : TypeOf(cmd, list[n]) = "grouped" => Wire(cmd)[list[n].data] \in Words
  BY <1>1, <1>2, CellShape
<1>4. /\ cells \in Seq(Words) /\ Len(cells) = Len(list)
      /\ \A n \in 1..Len(list) : cells[n] = Cell(cmd, list[n]) /\ Len(cells[n]) >= 8
  BY <1>3, CellsType DEF Cell
<1>5. \A n : Part(cmd, list, n) = Upto(cells, n)
  BY DEF Part
<1> HIDE DEF cells
<1>6. \A n \in 0..Len(list) : Part(cmd, list, n) \in Words /\ Len(Part(cmd, list, n)) \in Nat
  BY <1>4, <1>5, UptoType, LenProperties DEF Words
<1>7. Part(cmd, list, 0) = <<>>
  BY <1>4, <1>5, UptoSteps
<1>8. ASSUME NEW n \in 1..Len(list)
      PROVE  /\ Part(cmd, list, n) = Part(cmd, list, n - 1) \o Cell(cmd, list[n])
             /\ Len(Part(cmd, list, n)) = Len(Part(cmd, list, n - 1)) + Len(Cell(cmd, list[n]))
  <2>1. Part(cmd, list, n) = Part(cmd, list, n - 1) \o Cell(cmd, list[n])
    BY <1>4, <1>5, UptoSteps
  <2>2. Part(cmd, list, n - 1) \in Words /\ Cell(cmd, list[n]) \in Words
    BY <1>1, <1>2, <1>6, CellShape
  <2> QED
    BY <2>1, <2>2, WordsJoin
<1>9. \A m, n \in 0..Len(list) : m < n => Len(Part(cmd, list, m)) < Len(Part(cmd, list, n))
  BY <1>4, <1>5, UptoGrows
<1> QED
  BY <1>1, <1>2, <1>6, <1>7, <1>8, <1>9

\* Where an AVP stands in a list that stands in the buffer.
LEMMA PartHolds ==
  ASSUME NEW cmd \in Cmds, NEW list \in KnownLists(cmd), NEW b, NEW p \in Nat,
         Holds(b, p, Part(cmd, list, Len(list))), NEW n \in Nat, n < Len(list)
  PROVE  Holds(b, p + Len(Part(cmd, list, n)), Cell(cmd, list[n + 1]))
<1> DEFINE cells == Cells(cmd, Wire(cmd), list)
<1>1. Len(list) \in Nat /\ DOMAIN list = 1..Len(list)
      /\ \A i \in 1..Len(list) : list[i] \in Avps /\ TypeOf(cmd, list[i]) # "unknown"
  BY PartSteps, LenProperties DEF KnownLists
<1>2. \A i \in DOMAIN list : TypeOf(cmd, list[i]) = "grouped" => Wire(cmd)[list[i].data] \in Words
  BY <1>1, CellShape
<1>3. /\ cells \in Seq(Words) /\ Len(cells) = Len(list)
      /\ \A i \in 1..Len(list) : cells[i] = Cell(cmd, list[i])
  BY <1>2, CellsType DEF Cell
<1>4. \A i : Part(cmd, list, i) = Upto(cells, i)
  BY DEF Part
<1> HIDE DEF cells
<1>5. Holds(b, p + Len(Upto(cells, n)), cells[n + 1])
  <2>1. Holds(b, p, Upto(cells, Len(list))) /\ Len(list) \in 0..Len(cells)
    BY <1>1, <1>3, <1>4
  <2> QED
    BY <1>3, <2>1, UptoHolds
<1>6. n + 1 \in 1..Len(list)
  BY <1>1
<1> QED
  BY <1>3, <1>4, <1>5, <1>6

\* A group is its header and what stands for the list in it.
LEMMA GroupCell ==
  ASSUME NEW cmd \in Cmds, NEW a \in Avps, TypeOf(cmd, a) = "grouped"
  PROVE  LET list == Known(cmd, a.data)
         IN  /\ a.data \in Seq(Avps) /\ list \in KnownLists(cmd)
             /\ DataOctets(cmd, a, Wire(cmd)[a.data]) = Part(cmd, list, Len(list))
             /\ DataLength(cmd, a, Wire(cmd)[a.data]) = Len(Part(cmd, list, Len(list)))
             /\ Len(Cell(cmd, a)) = Hdr(cmd, a) + Len(Part(cmd, list, Len(list)))
<1> DEFINE list == Known(cmd, a.data)
           members == Wire(cmd)[a.data]
<1>1. a.data \in Seq(Avps) /\ list \in KnownLists(cmd)
  BY DataTypes, KnownIsKnown
<1>2. members = Part(cmd, list, Len(list)) /\ members \in Words
  BY <1>1, WireWorks DEF ListOctets, Part
<1>3. DataOctets(cmd, a, members) = members /\ DataLength(cmd, a, members) = Len(members)
  BY Zenon DEF DataOctets, DataLength
<1>4. Len(Cell(cmd, a)) = Hdr(cmd, a) + Len(DataOctets(cmd, a, members))
  BY <1>2, AvpShape DEF Cell
<1> HIDE DEF members, list
<1> QED
  BY <1>1, <1>2, <1>3, <1>4 DEF members, list

(***************************************************************************)
(* The lists in progress, of the encoder or the decoder: the known AVPs of *)
(* the message, of the group of it that is in progress, of the group in    *)
(* that, and so on n deep.                                                 *)
(*   lists  : these lists                                                  *)
(*   done   : how many AVPs of each are finished                           *)
(*   starts : the position of the first AVP of each                        *)
(* What the functions hold behind n does not matter.                       *)
(***************************************************************************)
\* The position that is reached in one of the lists.
Reached(cmd, lists, done, starts, i) == starts[i] + Len(Part(cmd, lists[i], done[i]))

\* The group whose members are the next list.
Entered(lists, done, i) == lists[i][done[i] + 1]

\* The function with another value at i.
With(f, i, v) == [f EXCEPT ![i] = v]

Path(cmd, top, n, lists, done, starts) ==
  /\ lists \in [Nat -> Seq(Avps)] /\ done \in [Nat -> Nat] /\ starts \in [Nat -> Nat]
  /\ lists[1] = Known(cmd, top) /\ starts[1] = HdrLen
  /\ \A i \in 1..n : lists[i] \in KnownLists(cmd) /\ done[i] <= Len(lists[i])
  /\ \A i \in 1..(n - 1) :
       /\ done[i] < Len(lists[i]) /\ TypeOf(cmd, Entered(lists, done, i)) = "grouped"
       /\ lists[i + 1] = Known(cmd, Entered(lists, done, i).data)
       /\ starts[i + 1] = Reached(cmd, lists, done, starts, i) + Hdr(cmd, Entered(lists, done, i))

\* The innermost list: its next AVP.
LEMMA PathTypes ==
  ASSUME NEW cmd \in Cmds, NEW top, NEW n \in Nat, n >= 1, NEW lists, NEW done, NEW starts,
         Path(cmd, top, n, lists, done, starts)
  PROVE  /\ \A i \in 1..n :
              /\ Part(cmd, lists[i], done[i]) \in Words
              /\ Len(Part(cmd, lists[i], done[i])) \in Nat
              /\ Reached(cmd, lists, done, starts, i) \in Nat
              /\ done[i] \in Nat /\ starts[i] \in Nat /\ Len(lists[i]) \in Nat
              /\ done[i] < Len(lists[i]) =>
                   /\ Entered(lists, done, i) \in Avps
                   /\ TypeOf(cmd, Entered(lists, done, i)) # "unknown"
<1> SUFFICES ASSUME NEW i \in 1..n
             PROVE  /\ Part(cmd, lists[i], done[i]) \in Words
                    /\ Len(Part(cmd, lists[i], done[i])) \in Nat
                    /\ Reached(cmd, lists, done, starts, i) \in Nat
                    /\ done[i] \in Nat /\ starts[i] \in Nat /\ Len(lists[i]) \in Nat
                    /\ done[i] < Len(lists[i]) =>
                         /\ Entered(lists, done, i) \in Avps
                         /\ TypeOf(cmd, Entered(lists, done, i)) # "unknown"
  OBVIOUS
<1>1. lists[i] \in KnownLists(cmd) /\ done[i] <= Len(lists[i]) /\ done[i] \in Nat /\ starts[i] \in Nat
  <2>1. i \in Nat
    OBVIOUS
  <2>2. done \in [Nat -> Nat] /\ starts \in [Nat -> Nat]
    BY DEF Path
  <2>3. lists[i] \in KnownLists(cmd) /\ done[i] <= Len(lists[i])
    BY DEF Path
  <2> QED
    BY <2>1, <2>2, <2>3
<1>2. Len(lists[i]) \in Nat
  BY <1>1, PartSteps
<1>3. done[i] \in 0..Len(lists[i])
  BY <1>1, <1>2
<1>4. Part(cmd, lists[i], done[i]) \in Words /\ Len(Part(cmd, lists[i], done[i])) \in Nat
  BY <1>1, <1>3, PartSteps
<1>5. done[i] < Len(lists[i]) =>
        Entered(lists, done, i) \in Avps /\ TypeOf(cmd, Entered(lists, done, i)) # "unknown"
  <2>1. done[i] < Len(lists[i]) => done[i] + 1 \in 1..Len(lists[i])
    BY <1>1, <1>2
  <2> QED
    BY <1>1, <2>1, PartSteps DEF Entered
<1> QED
  BY <1>1, <1>2, <1>4, <1>5 DEF Reached

LEMMA OneMore ==
  ASSUME NEW d \in Nat, NEW l \in Nat, d < l
  PROVE  d + 1 \in Nat /\ d + 1 <= l /\ d + 1 \in 1..l /\ (d + 1) - 1 = d
OBVIOUS

\* The next AVP of the innermost list is finished.
Advanced(cmd, top, n, lists, done, starts, a, more) ==
  /\ Path(cmd, top, n, lists, more, starts)
  /\ more[n] = done[n] + 1 /\ \A i \in 1..(n - 1) : more[i] = done[i]
  /\ Part(cmd, lists[n], more[n]) = Part(cmd, lists[n], done[n]) \o Cell(cmd, a)
  /\ Reached(cmd, lists, more, starts, n)
       = Reached(cmd, lists, done, starts, n) + Len(Cell(cmd, a))

LEMMA PathAdvances ==
  ASSUME NEW cmd \in Cmds, NEW top, NEW n \in Nat, n >= 1, NEW lists, NEW done, NEW starts,
         Path(cmd, top, n, lists, done, starts), done[n] < Len(lists[n]),
         NEW a, a = Entered(lists, done, n), NEW more, more = With(done, n, done[n] + 1)
  PROVE  Advanced(cmd, top, n, lists, done, starts, a, more)
<1>0. done[n] < Len(lists[n]) /\ n \in Nat /\ n >= 1
  OBVIOUS
<1>1. done \in [Nat -> Nat] /\ starts[n] \in Nat /\ lists[n] \in KnownLists(cmd)
      /\ Len(lists[n]) \in Nat /\ done[n] \in Nat
  <2>1. n \in 1..n
    OBVIOUS
  <2>2. done \in [Nat -> Nat] /\ starts \in [Nat -> Nat]
    BY DEF Path
  <2>3. lists[n] \in KnownLists(cmd)
    BY <2>1 DEF Path
  <2> QED
    BY <2>2, <2>3, PartSteps
<1>11. Len(lists[n]) \in Nat /\ done[n] \in Nat
  BY <1>1
<1>12. /\ done[n] + 1 \in Nat /\ done[n] + 1 <= Len(lists[n])
       /\ done[n] + 1 \in 1..Len(lists[n]) /\ (done[n] + 1) - 1 = done[n]
  BY <1>0, <1>11, OneMore, Zenon
<1>2. /\ more \in [Nat -> Nat] /\ more[n] = done[n] + 1
      /\ \A i \in 1..(n - 1) : more[i] = done[i]
  <2> DEFINE v == done[n] + 1
  <2>1. more = With(done, n, v) /\ v \in Nat
    BY <1>12
  <2>2. \A i \in 1..(n - 1) : i \in Nat /\ i # n
    OBVIOUS
  <2> HIDE DEF v
  <2>3. /\ With(done, n, v) \in [Nat -> Nat] /\ With(done, n, v)[n] = v
        /\ \A i \in Nat : i # n => With(done, n, v)[i] = done[i]
    BY <1>1, <2>1 DEF With
  <2>4. more \in [Nat -> Nat] /\ more[n] = v /\ \A i \in 1..(n - 1) : more[i] = done[i]
    BY <2>1, <2>2, <2>3
  <2> QED
    BY <2>4 DEF v
<1>3. Path(cmd, top, n, lists, more, starts)
  <2>1. \A i \in 1..n : lists[i] \in KnownLists(cmd) /\ more[i] <= Len(lists[i])
    <3>1. \A i \in 1..n : lists[i] \in KnownLists(cmd) /\ done[i] <= Len(lists[i])
      BY DEF Path
    <3>2. done[n] + 1 <= Len(lists[n])
      BY <1>12
    <3>3. ASSUME NEW i \in 1..n PROVE i = n \/ i \in 1..(n - 1)
      OBVIOUS
    <3> QED
      BY <1>2, <3>1, <3>2, <3>3
  <2>2. \A i \in 1..(n - 1) :
          /\ Entered(lists, more, i) = Entered(lists, done, i)
          /\ Reached(cmd, lists, more, starts, i) = Reached(cmd, lists, done, starts, i)
    BY <1>2 DEF Entered, Reached
  <2> QED
    BY <1>2, <2>1, <2>2 DEF Path
<1>4. n \in 1..n /\ done[n] + 1 \in 1..Len(lists[n]) /\ (done[n] + 1) - 1 = done[n]
  <2>1. n \in 1..n
    OBVIOUS
  <2>2. done[n] + 1 \in 1..Len(lists[n]) /\ (done[n] + 1) - 1 = done[n]
    BY <1>12
  <2> QED
    BY <2>1, <2>2
<1>5. /\ Part(cmd, lists[n], done[n] + 1) = Part(cmd, lists[n], done[n]) \o Cell(cmd, a)
      /\ Len(Part(cmd, lists[n], done[n] + 1))
           = Len(Part(cmd, lists[n], done[n])) + Len(Cell(cmd, a))
  BY <1>1, <1>4, PartSteps DEF Entered
<1>6. Len(Part(cmd, lists[n], done[n])) \in Nat /\ Len(Cell(cmd, a)) \in Nat
  BY <1>0, <1>4, PathTypes, CellShape
<1>7. Reached(cmd, lists, more, starts, n)
        = Reached(cmd, lists, done, starts, n) + Len(Cell(cmd, a))
  <2>1. Reached(cmd, lists, more, starts, n) = starts[n] + Len(Part(cmd, lists[n], done[n] + 1))
    BY <1>2 DEF Reached
  <2>2. Reached(cmd, lists, done, starts, n) = starts[n] + Len(Part(cmd, lists[n], done[n]))
    BY DEF Reached
  <2>3. starts[n] \in Nat
    BY <1>1
  <2> DEFINE len == Len(Part(cmd, lists[n], done[n]))
             cell == Len(Cell(cmd, a))
  <2>4. Reached(cmd, lists, more, starts, n) = starts[n] + (len + cell)
    BY <1>5, <2>1
  <2>5. len \in Nat /\ cell \in Nat
    BY <1>6
  <2> HIDE DEF len, cell
  <2>6. starts[n] + (len + cell) = (starts[n] + len) + cell
    BY <2>3, <2>5
  <2> QED
    BY <2>2, <2>4, <2>6 DEF len, cell
<1> QED
  BY <1>2, <1>3, <1>5, <1>7 DEF Advanced

\* The next AVP of the innermost list is a group, and is entered.
Opened(cmd, top, n, lists, done, starts, a, inner, more, from) ==
  /\ Path(cmd, top, n + 1, inner, more, from)
  /\ \A i \in 1..n : inner[i] = lists[i] /\ more[i] = done[i] /\ from[i] = starts[i]
  /\ inner[n + 1] = Known(cmd, a.data) /\ more[n + 1] = 0
  /\ from[n + 1] = Reached(cmd, lists, done, starts, n) + Hdr(cmd, a)
  /\ Part(cmd, inner[n + 1], 0) = <<>>

LEMMA PathOpens ==
  ASSUME NEW cmd \in Cmds, NEW top, NEW n \in Nat, n >= 1, NEW lists, NEW done, NEW starts,
         Path(cmd, top, n, lists, done, starts), done[n] < Len(lists[n]),
         NEW a, a = Entered(lists, done, n), TypeOf(cmd, a) = "grouped"
  PROVE  Opened(cmd, top, n, lists, done, starts, a, With(lists, n + 1, Known(cmd, a.data)),
                With(done, n + 1, 0),
                With(starts, n + 1, Reached(cmd, lists, done, starts, n) + Hdr(cmd, a)))
<1> DEFINE members == Known(cmd, a.data)
           at == Reached(cmd, lists, done, starts, n) + Hdr(cmd, a)
           inner == With(lists, n + 1, members)
           more == With(done, n + 1, 0)
           from == With(starts, n + 1, at)
<1>1. lists \in [Nat -> Seq(Avps)] /\ done \in [Nat -> Nat] /\ starts \in [Nat -> Nat]
  BY DEF Path
<1>2. a \in Avps /\ Reached(cmd, lists, done, starts, n) \in Nat
  <2>1. n \in 1..n
    OBVIOUS
  <2> QED
    BY <2>1, PathTypes
<1>3. members \in KnownLists(cmd) /\ members \in Seq(Avps) /\ Len(members) \in Nat
  BY <1>2, GroupCell, LenProperties DEF KnownLists
<1>4. at \in Nat
  BY <1>2, CellShape
<1> HIDE DEF members, at
<1>5. /\ inner \in [Nat -> Seq(Avps)] /\ more \in [Nat -> Nat] /\ from \in [Nat -> Nat]
      /\ inner[n + 1] = members /\ more[n + 1] = 0 /\ from[n + 1] = at
      /\ \A i \in 1..n : inner[i] = lists[i] /\ more[i] = done[i] /\ from[i] = starts[i]
  <2>1. n + 1 \in Nat /\ \A i \in 1..n : i \in Nat /\ i # n + 1
    OBVIOUS
  <2>2. /\ With(lists, n + 1, members) \in [Nat -> Seq(Avps)]
        /\ With(lists, n + 1, members)[n + 1] = members
        /\ \A i \in Nat : i # n + 1 => With(lists, n + 1, members)[i] = lists[i]
    BY <1>1, <1>3, <2>1, Zenon DEF With
  <2>3. /\ With(done, n + 1, 0) \in [Nat -> Nat] /\ With(done, n + 1, 0)[n + 1] = 0
        /\ \A i \in Nat : i # n + 1 => With(done, n + 1, 0)[i] = done[i]
    BY <1>1, <2>1 DEF With
  <2>4. /\ With(starts, n + 1, at) \in [Nat -> Nat] /\ With(starts, n + 1, at)[n + 1] = at
        /\ \A i \in Nat : i # n + 1 => With(starts, n + 1, at)[i] = starts[i]
    BY <1>1, <1>4, <2>1 DEF With
  <2>5. inner \in [Nat -> Seq(Avps)] /\ inner[n + 1] = members /\ \A i \in 1..n : inner[i] = lists[i]
    BY <2>1, <2>2
  <2>6. more \in [Nat -> Nat] /\ more[n + 1] = 0 /\ \A i \in 1..n : more[i] = done[i]
    BY <2>1, <2>3
  <2>7. from \in [Nat -> Nat] /\ from[n + 1] = at /\ \A i \in 1..n : from[i] = starts[i]
    BY <2>1, <2>4
  <2> HIDE DEF inner, more, from
  <2> QED
    BY <2>5, <2>6, <2>7
<1> HIDE DEF inner, more, from
<1>6. \A i \in 1..(n + 1) : inner[i] \in KnownLists(cmd) /\ more[i] <= Len(inner[i])
  <2>1. \A i \in 1..n : lists[i] \in KnownLists(cmd) /\ done[i] <= Len(lists[i])
    BY DEF Path
  <2>2. \A i \in 1..(n + 1) : i \in 1..n \/ i = n + 1
    OBVIOUS
  <2>3. \A i \in 1..n : inner[i] \in KnownLists(cmd) /\ more[i] <= Len(inner[i])
    BY <1>5, <2>1
  <2>4. inner[n + 1] \in KnownLists(cmd) /\ more[n + 1] <= Len(inner[n + 1])
    BY <1>3, <1>5
  <2> QED
    BY <2>2, <2>3, <2>4, Zenon
<1>7. ASSUME NEW i \in 1..n
      PROVE  /\ more[i] < Len(inner[i]) /\ TypeOf(cmd, Entered(inner, more, i)) = "grouped"
             /\ inner[i + 1] = Known(cmd, Entered(inner, more, i).data)
             /\ from[i + 1] = Reached(cmd, inner, more, from, i) + Hdr(cmd, Entered(inner, more, i))
  <2>1. /\ Entered(inner, more, i) = Entered(lists, done, i)
        /\ Reached(cmd, inner, more, from, i) = Reached(cmd, lists, done, starts, i)
    BY <1>5 DEF Entered, Reached
  <2>2. CASE i = n
    BY <1>5, <2>1, <2>2 DEF members, at
  <2>3. CASE i # n
    <3>1. i \in 1..(n - 1) /\ i + 1 \in 1..n
      BY <2>3
    <3>2. /\ done[i] < Len(lists[i]) /\ TypeOf(cmd, Entered(lists, done, i)) = "grouped"
          /\ lists[i + 1] = Known(cmd, Entered(lists, done, i).data)
          /\ starts[i + 1] = Reached(cmd, lists, done, starts, i) + Hdr(cmd, Entered(lists, done, i))
      BY <3>1 DEF Path
    <3> QED
      BY <1>5, <2>1, <3>1, <3>2
  <2> QED
    BY <2>2, <2>3
<1>8. inner[1] = Known(cmd, top) /\ from[1] = HdrLen
  <2>1. 1 \in 1..n
    OBVIOUS
  <2> QED
    BY <1>5, <2>1 DEF Path
<1>9. Path(cmd, top, n + 1, inner, more, from)
  <2>1. (n + 1) - 1 = n
    OBVIOUS
  <2> QED
    BY <1>5, <1>6, <1>7, <1>8, <2>1 DEF Path
<1>10. Part(cmd, members, 0) = <<>>
  BY <1>3, PartSteps
<1> QED
  BY <1>5, <1>9, <1>10, Zenon DEF Opened, members, at, inner, more, from

\* The innermost list is finished, and with it the group it stands for.
Closed(cmd, top, n, lists, done, starts, a, more) ==
  /\ Path(cmd, top, n - 1, lists, more, starts)
  /\ a \in Avps /\ TypeOf(cmd, a) = "grouped"
  /\ Part(cmd, lists[n], done[n]) = DataOctets(cmd, a, Wire(cmd)[a.data])
  /\ Len(Part(cmd, lists[n], done[n])) = DataLength(cmd, a, Wire(cmd)[a.data])
  /\ more[n - 1] = done[n - 1] + 1 /\ \A i \in 1..(n - 2) : more[i] = done[i]
  /\ Part(cmd, lists[n - 1], more[n - 1])
       = Part(cmd, lists[n - 1], done[n - 1]) \o Cell(cmd, a)
  /\ Reached(cmd, lists, more, starts, n - 1) = Reached(cmd, lists, done, starts, n)
  /\ Reached(cmd, lists, more, starts, n - 1)
       = Reached(cmd, lists, done, starts, n - 1) + Len(Cell(cmd, a))
  /\ starts[n] = Reached(cmd, lists, done, starts, n - 1) + Hdr(cmd, a)
  /\ lists[n] = Known(cmd, a.data) /\ done[n - 1] < Len(lists[n - 1])

LEMMA PathCloses ==
  ASSUME NEW cmd \in Cmds, NEW top, NEW n \in Nat, n > 1, NEW lists, NEW done, NEW starts,
         Path(cmd, top, n, lists, done, starts), done[n] = Len(lists[n])
  PROVE  Closed(cmd, top, n, lists, done, starts, Entered(lists, done, n - 1),
                With(done, n - 1, done[n - 1] + 1))
<1> DEFINE k == n - 1
           a == Entered(lists, done, k)
<1>1. k \in Nat /\ k >= 1 /\ k + 1 = n /\ k \in 1..(n - 1) /\ k \in 1..n /\ n \in 1..n /\ k - 1 = n - 2
  OBVIOUS
<1>2. Path(cmd, top, k, lists, done, starts)
  <2>1. 1..k \subseteq 1..n /\ 1..(k - 1) \subseteq 1..(n - 1)
    BY <1>1
  <2> QED
    BY <2>1 DEF Path
<1>3. /\ done[k] < Len(lists[k]) /\ TypeOf(cmd, a) = "grouped"
      /\ lists[n] = Known(cmd, a.data)
      /\ starts[n] = Reached(cmd, lists, done, starts, k) + Hdr(cmd, a)
  BY <1>1 DEF Path
<1>4. a \in Avps /\ Reached(cmd, lists, done, starts, k) \in Nat
      /\ Len(Part(cmd, lists[n], done[n])) \in Nat
  BY <1>1, <1>3, PathTypes
<1>5. /\ DataOctets(cmd, a, Wire(cmd)[a.data]) = Part(cmd, lists[n], done[n])
      /\ DataLength(cmd, a, Wire(cmd)[a.data]) = Len(Part(cmd, lists[n], done[n]))
      /\ Len(Cell(cmd, a)) = Hdr(cmd, a) + Len(Part(cmd, lists[n], done[n]))
  BY <1>3, <1>4, GroupCell
<1> HIDE DEF k
<1> DEFINE more == With(done, k, done[k] + 1)
<1>11. more = With(done, k, done[k] + 1) /\ a = Entered(lists, done, k)
  OBVIOUS
<1> HIDE DEF more, a
<1>6. /\ Path(cmd, top, k, lists, more, starts)
      /\ more[k] = done[k] + 1 /\ \A i \in 1..(k - 1) : more[i] = done[i]
      /\ Part(cmd, lists[k], more[k]) = Part(cmd, lists[k], done[k]) \o Cell(cmd, a)
      /\ Reached(cmd, lists, more, starts, k)
           = Reached(cmd, lists, done, starts, k) + Len(Cell(cmd, a))
  <2>1. k \in Nat /\ k >= 1
    BY <1>1
  <2>2. done[k] < Len(lists[k])
    BY <1>3
  <2>3. Path(cmd, top, k, lists, done, starts)
    BY <1>2
  <2>4. Advanced(cmd, top, k, lists, done, starts, a, more)
    BY <2>1, <2>2, <2>3, <1>11, PathAdvances
  <2> QED
    BY <2>4, Zenon DEF Advanced
<1>7. Hdr(cmd, a) \in {8, 12}
  BY <1>3, <1>4, CellShape
<1>8. Reached(cmd, lists, done, starts, k) + Len(Cell(cmd, a)) = Reached(cmd, lists, done, starts, n)
  <2> DEFINE at == Reached(cmd, lists, done, starts, k)
             len == Len(Part(cmd, lists[n], done[n]))
  <2>1. at \in Nat /\ len \in Nat /\ starts[n] = at + Hdr(cmd, a)
        /\ Len(Cell(cmd, a)) = Hdr(cmd, a) + len
        /\ Reached(cmd, lists, done, starts, n) = starts[n] + len
    BY <1>3, <1>4, <1>5 DEF Reached
  <2> HIDE DEF at, len
  <2>2. at + Len(Cell(cmd, a)) = Reached(cmd, lists, done, starts, n)
    BY <1>7, <2>1
  <2> QED
    BY <2>2 DEF at
<1> QED
  <2>1. /\ Path(cmd, top, k, lists, more, starts) /\ a \in Avps /\ TypeOf(cmd, a) = "grouped"
        /\ \A i \in 1..(n - 2) : more[i] = done[i]
        /\ lists[n] = Known(cmd, a.data) /\ done[k] < Len(lists[k])
    BY <1>1, <1>3, <1>4, <1>6
  <2>2. /\ Reached(cmd, lists, more, starts, k) = Reached(cmd, lists, done, starts, n)
        /\ Reached(cmd, lists, more, starts, k)
             = Reached(cmd, lists, done, starts, k) + Len(Cell(cmd, a))
    BY <1>6, <1>8, Zenon
  <2> QED
    BY <1>3, <1>5, <1>6, <2>1, <2>2, Zenon DEF Closed, k, more, a

\* The lists of a path stand one in the other.
LEMMA PathOrder ==
  ASSUME NEW cmd \in Cmds, NEW top, NEW n \in Nat, n >= 1, NEW lists, NEW done, NEW starts,
         Path(cmd, top, n, lists, done, starts), NEW i \in 1..n, NEW j \in i..n
  PROVE  Reached(cmd, lists, done, starts, i) <= Reached(cmd, lists, done, starts, j)
<1> DEFINE r(k) == Reached(cmd, lists, done, starts, k)
           T == {k \in Nat : i + k <= n => r(i) <= r(i + k)}
<1>1. \A k \in 1..n : r(k) \in Nat
  BY PathTypes
<1>2. ASSUME NEW k \in 1..(n - 1) PROVE r(k) <= r(k + 1)
  <2> DEFINE a == Entered(lists, done, k)
             len == Len(Part(cmd, lists[k + 1], done[k + 1]))
  <2>1. k \in 1..n /\ k + 1 \in 1..n
    OBVIOUS
  <2>2. starts[k + 1] = r(k) + Hdr(cmd, a) /\ done[k] < Len(lists[k])
    BY DEF Path
  <2>3. len \in Nat /\ r(k) \in Nat
    BY <2>1, PathTypes
  <2>4. Hdr(cmd, a) \in {8, 12}
    BY <2>1, <2>2, PathTypes, CellShape
  <2>5. r(k + 1) = starts[k + 1] + len
    BY DEF Reached
  <2> HIDE DEF a, len, r
  <2> QED
    BY <2>2, <2>3, <2>4, <2>5
<1> HIDE DEF r
<1>3. 0 \in T
  BY <1>1
<1>4. ASSUME NEW k \in Nat, k \in T PROVE k + 1 \in T
  <2>1. SUFFICES ASSUME i + (k + 1) <= n PROVE r(i) <= r(i + (k + 1))
    OBVIOUS
  <2>2. i + k \in 1..(n - 1) /\ i + k \in 1..n /\ (i + k) + 1 = i + (k + 1) /\ i + (k + 1) \in 1..n
    BY <2>1
  <2>3. r(i) <= r(i + k)
    BY <1>4, <2>2
  <2>4. r(i + k) <= r(i + (k + 1))
    BY <1>2, <2>2
  <2>5. r(i) \in Nat /\ r(i + k) \in Nat /\ r(i + (k + 1)) \in Nat
    BY <1>1, <2>2
  <2> QED
    BY <2>3, <2>4, <2>5
<1> HIDE DEF T
<1>5. Nat \subseteq T
  BY <1>3, <1>4, Induction
<1>6. j - i \in Nat /\ i + (j - i) = j /\ j <= n
  OBVIOUS
<1> QED
  BY <1>5, <1>6 DEF T, r

(***************************************************************************)
(* The encoder: what it has written when it is at p of the buffer b, and   *)
(* what is left to do for its calls (frames).                              *)
(***************************************************************************)
Laid(cmd, n, lists, done, starts, b, p) ==
  /\ p = Reached(cmd, lists, done, starts, n) /\ Len(b) <= p
  /\ \A i \in 1..n : Holds(b, starts[i], Part(cmd, lists[i], done[i]))

Calls(cmd, n, lists, done, starts, frames) ==
  /\ Left(Known(cmd, frames[n].rest), lists[n], done[n])
  /\ \A i \in 1..(n - 1) :
       /\ Left(Known(cmd, frames[i].rest), lists[i], done[i] + 1)
       /\ frames[i + 1].start = Reached(cmd, lists, done, starts, i)
       /\ frames[i + 1].code = Entered(lists, done, i).code

LEMMA LaidAvp ==
  ASSUME NEW cmd \in Cmds, NEW top, NEW n \in Nat, n >= 1, NEW lists, NEW done, NEW starts,
         Path(cmd, top, n, lists, done, starts), done[n] < Len(lists[n]),
         NEW a, a = Entered(lists, done, n), NEW more, more = With(done, n, done[n] + 1),
         NEW b \in Seq(Nat), NEW p \in Nat, Laid(cmd, n, lists, done, starts, b, p)
  PROVE  Laid(cmd, n, lists, more, starts, Put(b, p, Cell(cmd, a)), p + Len(Cell(cmd, a)))
<1> DEFINE cell == Cell(cmd, a)
           new == Put(b, p, cell)
<1>1. Advanced(cmd, top, n, lists, done, starts, a, more)
  BY PathAdvances
<1>2. n \in 1..n /\ a \in Avps /\ TypeOf(cmd, a) # "unknown"
  <2>1. n \in 1..n
    OBVIOUS
  <2> QED
    BY <2>1, PathTypes
<1>3. cell \in Seq(Nat) /\ Len(cell) \in Nat
  BY <1>2, CellShape DEF Words
<1>4. p = Reached(cmd, lists, done, starts, n) /\ Len(b) <= p
  BY DEF Laid
<1>5. /\ Part(cmd, lists[n], more[n]) = Part(cmd, lists[n], done[n]) \o cell
      /\ \A i \in 1..(n - 1) : more[i] = done[i]
      /\ Reached(cmd, lists, more, starts, n) = Reached(cmd, lists, done, starts, n) + Len(cell)
  BY <1>1, Zenon DEF Advanced
<1> HIDE DEF cell, new
<1>6. /\ Holds(new, p, cell) /\ Len(new) = IF p + Len(cell) > Len(b) THEN p + Len(cell) ELSE Len(b)
      /\ \A q \in Nat, w \in Seq(Nat) :
           Holds(b, q, w) /\ (q + Len(w) <= p \/ p + Len(cell) <= q) => Holds(new, q, w)
  BY <1>3, PutHolds DEF new
<1>7. Len(new) <= p + Len(cell)
  <2>1. Len(b) \in Nat
    BY LenProperties
  <2> QED
    BY <1>3, <1>4, <1>6, <2>1
<1>8. ASSUME NEW i \in 1..n PROVE Holds(new, starts[i], Part(cmd, lists[i], done[i]))
  <2> DEFINE w == Part(cmd, lists[i], done[i])
  <2>1. w \in Seq(Nat) /\ starts[i] \in Nat
    BY PathTypes DEF Words
  <2>2. Holds(b, starts[i], w)
    BY DEF Laid
  <2>3. starts[i] + Len(w) <= p
    <3>1. n \in i..n
      OBVIOUS
    <3>2. Reached(cmd, lists, done, starts, i) <= Reached(cmd, lists, done, starts, n)
      BY <3>1, PathOrder
    <3> QED
      BY <1>4, <3>2 DEF Reached
  <2> HIDE DEF w
  <2>4. Holds(new, starts[i], w)
    BY <1>6, <2>1, <2>2, <2>3
  <2> QED
    BY <2>4 DEF w
<1>9. Holds(new, starts[n], Part(cmd, lists[n], more[n]))
  <2> DEFINE w == Part(cmd, lists[n], done[n])
             from == starts[n]
  <2>1. w \in Seq(Nat) /\ from \in Nat
    BY <1>2, PathTypes DEF Words
  <2>2. Holds(new, from, w)
    BY <1>2, <1>8
  <2>3. p = from + Len(w)
    BY <1>4 DEF Reached
  <2> HIDE DEF w, from
  <2>4. Holds(new, from + Len(w), cell)
    BY <1>6, <2>3
  <2>5. Holds(new, from, w \o cell)
    BY <1>3, <2>1, <2>2, <2>4, HoldsJoin
  <2> QED
    BY <1>5, <2>5 DEF w, from
<1>10. \A i \in 1..n : Holds(new, starts[i], Part(cmd, lists[i], more[i]))
  <2>1. \A i \in 1..n : i = n \/ i \in 1..(n - 1)
    OBVIOUS
  <2> QED
    BY <1>5, <1>8, <1>9, <2>1
<1>11. p + Len(cell) = Reached(cmd, lists, more, starts, n)
  BY <1>4, <1>5, Zenon
<1> QED
  BY <1>7, <1>10, <1>11 DEF Laid, new, cell

LEMMA LaidGroup ==
  ASSUME NEW cmd \in Cmds, NEW top, NEW n \in Nat, n >= 1, NEW lists, NEW done, NEW starts,
         Path(cmd, top, n, lists, done, starts), done[n] < Len(lists[n]),
         NEW a, a = Entered(lists, done, n), TypeOf(cmd, a) = "grouped",
         NEW inner, NEW more, NEW from,
         Opened(cmd, top, n, lists, done, starts, a, inner, more, from),
         NEW b \in Seq(Nat), NEW p \in Nat, Laid(cmd, n, lists, done, starts, b, p)
  PROVE  Laid(cmd, n + 1, inner, more, from, b, p + Hdr(cmd, a))
<1>1. n \in 1..n /\ a \in Avps
  <2>1. n \in 1..n
    OBVIOUS
  <2> QED
    BY <2>1, PathTypes
<1>2. Hdr(cmd, a) \in {8, 12}
  BY <1>1, CellShape
<1>3. p = Reached(cmd, lists, done, starts, n) /\ Len(b) <= p /\ Len(b) \in Nat
  BY LenProperties DEF Laid
<1>4. /\ Part(cmd, inner[n + 1], more[n + 1]) = <<>>
      /\ from[n + 1] = Reached(cmd, lists, done, starts, n) + Hdr(cmd, a)
      /\ \A i \in 1..n : inner[i] = lists[i] /\ more[i] = done[i] /\ from[i] = starts[i]
  BY Zenon DEF Opened
<1>5. p + Hdr(cmd, a) = from[n + 1] /\ from[n + 1] \in Nat /\ Len(b) <= p + Hdr(cmd, a)
  <2> DEFINE h == Hdr(cmd, a)
  <2>1. p + h = from[n + 1]
    BY <1>3, <1>4, Zenon
  <2>2. h \in {8, 12}
    BY <1>2
  <2> HIDE DEF h
  <2>3. p + h \in Nat /\ Len(b) <= p + h
    BY <1>3, <2>2
  <2> QED
    BY <2>1, <2>3 DEF h
<1>6. Reached(cmd, inner, more, from, n + 1) = from[n + 1]
  <2>1. Len(Part(cmd, inner[n + 1], more[n + 1])) = 0
    BY <1>4, EmptySeq
  <2>2. Reached(cmd, inner, more, from, n + 1) = from[n + 1] + 0
    BY <2>1 DEF Reached
  <2> QED
    BY <1>5, <2>2
<1>7. \A i \in 1..(n + 1) : Holds(b, from[i], Part(cmd, inner[i], more[i]))
  <2>1. Holds(b, from[n + 1], Part(cmd, inner[n + 1], more[n + 1]))
    BY <1>4 DEF Holds
  <2>2. \A i \in 1..n : Holds(b, starts[i], Part(cmd, lists[i], done[i]))
    BY DEF Laid
  <2>3. \A i \in 1..(n + 1) : i = n + 1 \/ i \in 1..n
    OBVIOUS
  <2> QED
    BY <1>4, <2>1, <2>2, <2>3, Zenon
<1> QED
  BY <1>5, <1>6, <1>7 DEF Laid

LEMMA LaidGroupEnd ==
  ASSUME NEW cmd \in Cmds, NEW top, NEW n \in Nat, n > 1, NEW lists, NEW done, NEW starts,
         Path(cmd, top, n, lists, done, starts), NEW a, NEW more,
         Closed(cmd, top, n, lists, done, starts, a, more),
         NEW b \in Seq(Nat), NEW p \in Nat, Laid(cmd, n, lists, done, starts, b, p),
         NEW at, at = Reached(cmd, lists, done, starts, n - 1)
  PROVE  /\ p - at = Hdr(cmd, a) + DataLength(cmd, a, Wire(cmd)[a.data])
         /\ Laid(cmd, n - 1, lists, more, starts,
                 Put(b, at, HdrOctets(cmd, a, Wire(cmd)[a.data])), p)
<1> DEFINE k == n - 1
           hdr == HdrOctets(cmd, a, Wire(cmd)[a.data])
           data == Part(cmd, lists[n], done[n])
           new == Put(b, at, hdr)
<1>1. /\ n >= 1 /\ k \in Nat /\ k >= 1 /\ k + 1 = n /\ k \in 1..n /\ n \in 1..n /\ k - 1 = n - 2
      /\ \A i \in 1..k : i \in 1..n /\ k \in i..n /\ (i = k \/ i \in 1..(k - 1))
  OBVIOUS
<1>2. /\ a \in Avps /\ TypeOf(cmd, a) = "grouped"
      /\ data = DataOctets(cmd, a, Wire(cmd)[a.data])
      /\ Len(data) = DataLength(cmd, a, Wire(cmd)[a.data])
      /\ \A i \in 1..(n - 2) : more[i] = done[i]
      /\ Part(cmd, lists[k], more[k]) = Part(cmd, lists[k], done[k]) \o Cell(cmd, a)
      /\ Reached(cmd, lists, more, starts, k) = Reached(cmd, lists, done, starts, n)
      /\ starts[n] = at + Hdr(cmd, a)
  BY Zenon DEF Closed
<1>3. Wire(cmd)[a.data] \in Words /\ Hdr(cmd, a) \in {8, 12}
  BY <1>2, CellShape
<1>4. hdr \in Seq(Nat) /\ Len(hdr) = Hdr(cmd, a) /\ Cell(cmd, a) = hdr \o data
  <2>1. hdr \in Words /\ Len(hdr) = Hdr(cmd, a)
    BY <1>2, <1>3, AvpShape
  <2>2. Cell(cmd, a) = hdr \o data
    BY <1>2 DEF Cell, AvpOctets
  <2> QED
    BY <2>1, <2>2 DEF Words
<1>5. data \in Seq(Nat) /\ Len(data) \in Nat /\ at \in Nat /\ starts[n] \in Nat /\ starts[k] \in Nat
  BY <1>1, PathTypes DEF Words
<1>6. p = starts[n] + Len(data) /\ Len(b) <= p /\ Len(b) \in Nat
  BY LenProperties DEF Laid, Reached
<1> HIDE DEF k, hdr, data, new
<1>7. p - at = Hdr(cmd, a) + Len(data) /\ at + Len(hdr) = starts[n] /\ at + Len(hdr) <= p
  <2> DEFINE h == Hdr(cmd, a)
             len == Len(data)
             from == starts[n]
  <2>1. h \in {8, 12} /\ from = at + h /\ at \in Nat /\ len \in Nat /\ p = from + len
        /\ Len(hdr) = h
    BY <1>2, <1>3, <1>4, <1>5, <1>6
  <2> HIDE DEF h, len, from
  <2>2. p - at = h + len /\ at + h = from /\ at + h <= p
    BY <2>1
  <2> QED
    BY <2>1, <2>2 DEF h, len, from
<1>8. /\ Holds(new, at, hdr)
      /\ Len(new) = IF at + Len(hdr) > Len(b) THEN at + Len(hdr) ELSE Len(b)
      /\ \A q \in Nat, w \in Seq(Nat) :
           Holds(b, q, w) /\ (q + Len(w) <= at \/ at + Len(hdr) <= q) => Holds(new, q, w)
  BY <1>4, <1>5, PutHolds DEF new
<1>9. Len(new) <= p
  BY <1>6, <1>7, <1>8
<1>10. Holds(new, starts[n], data)
  <2>1. Holds(b, starts[n], data)
    BY <1>1 DEF Laid, data
  <2>2. at + Len(hdr) <= starts[n]
    BY <1>5, <1>7
  <2> QED
    BY <1>5, <1>8, <2>1, <2>2
<1>11. ASSUME NEW i \in 1..k PROVE Holds(new, starts[i], Part(cmd, lists[i], done[i]))
  <2> DEFINE w == Part(cmd, lists[i], done[i])
  <2>1. w \in Seq(Nat) /\ starts[i] \in Nat
    BY <1>1, PathTypes DEF Words
  <2>2. Holds(b, starts[i], w)
    BY <1>1 DEF Laid
  <2>3. starts[i] + Len(w) <= at
    <3>1. Reached(cmd, lists, done, starts, i) <= Reached(cmd, lists, done, starts, k)
      BY <1>1, PathOrder
    <3> QED
      BY <3>1 DEF Reached, k
  <2> HIDE DEF w
  <2>4. Holds(new, starts[i], w)
    BY <1>8, <2>1, <2>2, <2>3
  <2> QED
    BY <2>4 DEF w
<1>12. Holds(new, starts[k], Part(cmd, lists[k], more[k]))
  <2> DEFINE w == Part(cmd, lists[k], done[k])
             from == starts[k]
  <2>1. w \in Seq(Nat) /\ from \in Nat
    BY <1>1, PathTypes DEF Words
  <2>2. Holds(new, from, w)
    BY <1>1, <1>11
  <2>3. at = from + Len(w)
    BY DEF Reached, k
  <2>4. Holds(new, at, hdr \o data)
    <3>1. Holds(new, at + Len(hdr), data)
      BY <1>7, <1>10
    <3> QED
      BY <1>4, <1>5, <1>8, <3>1, HoldsJoin
  <2> HIDE DEF w, from
  <2> DEFINE cell == hdr \o data
  <2>5. cell \in Seq(Nat) /\ Holds(new, from + Len(w), cell)
    BY <1>4, <1>5, <2>3, <2>4, ConcatProperties
  <2> HIDE DEF cell
  <2>6. Holds(new, from, w \o cell)
    BY <2>1, <2>2, <2>5, HoldsJoin
  <2> QED
    BY <1>2, <1>4, <2>6 DEF w, from, cell
<1>13. \A i \in 1..k : Holds(new, starts[i], Part(cmd, lists[i], more[i]))
  BY <1>1, <1>2, <1>11, <1>12
<1>14. p = Reached(cmd, lists, more, starts, k)
  BY <1>2 DEF Laid
<1>15. Laid(cmd, k, lists, more, starts, new, p)
  BY <1>9, <1>13, <1>14 DEF Laid
<1> QED
  BY <1>2, <1>7, <1>15 DEF k, new, hdr

\* Taking an AVP off a list takes it off what is known of the list, when it is known.
LEMMA KnownTakes ==
  ASSUME NEW cmd, NEW list \in Seq(Avps), list # <<>>
  PROVE  /\ TypeOf(cmd, Head(list)) = "unknown" => Known(cmd, Tail(list)) = Known(cmd, list)
         /\ TypeOf(cmd, Head(list)) # "unknown" =>
              /\ Known(cmd, list) # <<>> /\ Head(Known(cmd, list)) = Head(list)
              /\ Tail(Known(cmd, list)) = Known(cmd, Tail(list))
<1> DEFINE a == Head(list)
           tail == Known(cmd, Tail(list))
           whole == <<a>> \o tail
<1>1. a \in Avps /\ Tail(list) \in Seq(Avps)
  BY HeadTailProperties
<1>2. tail \in Seq(Avps)
  BY <1>1, KnownIsKnown DEF KnownLists
<1>3. Known(cmd, list) = IF TypeOf(cmd, a) # "unknown" THEN whole ELSE tail
  BY KnownFirst
<1> HIDE DEF a, tail
<1>4. whole # <<>> /\ Head(whole) = a /\ Tail(whole) = tail
  <2>1. /\ <<a>> \in Seq(Avps) /\ Len(<<a>>) = 1 /\ <<a>>[1] = a
        /\ Len(tail) \in Nat
    BY <1>1, <1>2, LenProperties
  <2> DEFINE one == <<a>>
  <2> HIDE DEF one
  <2>2. /\ one \in Seq(Avps) /\ Len(one) = 1 /\ one[1] = a
    BY <2>1 DEF one
  <2>3. /\ one \o tail \in Seq(Avps) /\ Len(one \o tail) = 1 + Len(tail)
        /\ \A i \in 1..(1 + Len(tail)) :
             (one \o tail)[i] = IF i <= 1 THEN one[i] ELSE tail[i - 1]
    <3>1. /\ one \o tail \in Seq(Avps) /\ Len(one \o tail) = Len(one) + Len(tail)
          /\ \A i \in 1..(Len(one) + Len(tail)) :
               (one \o tail)[i] = IF i <= Len(one) THEN one[i] ELSE tail[i - Len(one)]
      BY <1>2, <2>2, ConcatProperties
    <3> DEFINE both == one \o tail
               n == Len(one)
    <3>2. n = 1
      BY <2>2
    <3> HIDE DEF n, both
    <3>3. /\ both \in Seq(Avps) /\ Len(both) = n + Len(tail)
          /\ \A i \in 1..(n + Len(tail)) :
               both[i] = IF i <= n THEN one[i] ELSE tail[i - n]
      BY <3>1, Zenon DEF n, both
    <3> QED
      BY <3>2, <3>3 DEF both
  <2> DEFINE both == one \o tail
  <2> HIDE DEF both
  <2>4. /\ both \in Seq(Avps) /\ Len(both) = 1 + Len(tail) /\ both[1] = a
        /\ \A i \in 1..Len(tail) : both[i + 1] = tail[i]
    <3>1. both[1] = one[1]
      BY <2>1, <2>3 DEF both
    <3>2. \A i \in 1..Len(tail) : i + 1 \in 1..(1 + Len(tail)) /\ ~(i + 1 <= 1) /\ (i + 1) - 1 = i
      BY <2>1
    <3> QED
      BY <2>2, <2>3, <3>1, <3>2 DEF both
  <2>5. both # <<>>
    BY <2>1, <2>4, EmptySeq
  <2>6. /\ Head(both) = a /\ Tail(both) \in Seq(Avps) /\ Len(Tail(both)) = Len(tail)
        /\ \A i \in 1..Len(tail) : Tail(both)[i] = tail[i]
    <3>1. /\ Head(both) = both[1] /\ Tail(both) \in Seq(Avps) /\ Len(Tail(both)) = Len(both) - 1
          /\ \A i \in 1..Len(Tail(both)) : Tail(both)[i] = both[i + 1]
      BY <2>4, <2>5, HeadTailProperties
    <3> QED
      BY <2>1, <2>4, <3>1
  <2>7. Tail(both) = tail
    BY <1>2, <2>6, SeqEqual
  <2> QED
    BY <2>5, <2>6, <2>7 DEF both, one
<1> HIDE DEF whole
<1> QED
  BY <1>3, <1>4 DEF a, tail

\* The innermost call takes a known AVP.
LEMMA CallsAvp ==
  ASSUME NEW cmd \in Cmds, NEW top, NEW n \in Nat, n >= 1, NEW lists, NEW done, NEW starts,
         Path(cmd, top, n, lists, done, starts), NEW frames,
         Calls(cmd, n, lists, done, starts, frames),
         frames[n].rest \in Seq(Avps), frames[n].rest # <<>>,
         TypeOf(cmd, Head(frames[n].rest)) # "unknown"
  PROVE  /\ done[n] < Len(lists[n]) /\ Head(frames[n].rest) = Entered(lists, done, n)
         /\ Left(Known(cmd, Tail(frames[n].rest)), lists[n], done[n] + 1)
<1> DEFINE list == lists[n]
           d == done[n]
           rest == Known(cmd, frames[n].rest)
<1>1. list \in Seq(Avps) /\ d \in Nat /\ Len(list) \in Nat
  <2>1. n \in 1..n
    OBVIOUS
  <2> QED
    BY <2>1, PathTypes DEF Path, KnownLists
<1>2. rest # <<>> /\ Head(rest) = Head(frames[n].rest)
      /\ Tail(rest) = Known(cmd, Tail(frames[n].rest))
  BY KnownTakes
<1>3. Left(rest, list, d)
  BY DEF Calls
<1> HIDE DEF list, d, rest
<1>4. d + 1 \in 1..Len(list) /\ Head(rest) = list[d + 1] /\ Left(Tail(rest), list, d + 1)
  BY <1>1, <1>2, <1>3, LeftSteps
<1>5. d < Len(list)
  BY <1>1, <1>4
<1> QED
  BY <1>2, <1>4, <1>5, Zenon DEF Entered, list, d

LEMMA CallsEnd ==
  ASSUME NEW cmd \in Cmds, NEW top, NEW n \in Nat, n >= 1, NEW lists, NEW done, NEW starts,
         Path(cmd, top, n, lists, done, starts), NEW frames,
         Calls(cmd, n, lists, done, starts, frames), frames[n].rest = <<>>
  PROVE  done[n] = Len(lists[n])
<1> DEFINE list == lists[n]
           d == done[n]
<1>1. list \in Seq(Avps)
  <2>1. n \in 1..n
    OBVIOUS
  <2> QED
    BY <2>1 DEF Path, KnownLists
<1>2. Left(<<>>, list, d)
  BY KnownNothing DEF Calls
<1> HIDE DEF list, d
<1>3. d = Len(list)
  BY <1>1, <1>2, LeftSteps
<1> QED
  BY <1>3 DEF list, d

Encoded == \E lists, done, starts :
  /\ Path(msg.cmd, msg.avps, Len(building), lists, done, starts)
  /\ Laid(msg.cmd, Len(building), lists, done, starts, buf, pos)
  /\ Calls(msg.cmd, Len(building), lists, done, starts, building)

\* The state as the lemmas about paths need it.
LEMMA EncoderTypes ==
  ASSUME IInv, stage = "encode"
  PROVE  /\ msg.cmd \in Cmds /\ msg.avps \in Seq(Avps) /\ buf \in Seq(Nat) /\ pos \in Nat
         /\ Len(building) \in Nat /\ Len(building) >= 1 /\ building \in Seq(Frames)
         /\ \A i \in 1..Len(building) : building[i] \in Frames /\ building[i].rest \in Seq(Avps)
         /\ Call = building[Len(building)]
<1>1. msg.cmd \in Cmds /\ msg.avps \in Seq(Avps) /\ buf \in Seq(Nat) /\ pos \in Nat
  BY MessageTypes DEF IInv, TypeOK, Cmds
<1>2. building \in Seq(Frames) /\ building # <<>>
  BY DEF IInv, Ahead
<1>3. Len(building) \in Nat /\ Len(building) >= 1
  BY <1>2, EmptySeq, LenProperties
<1>4. \A i \in 1..Len(building) : building[i] \in Frames /\ building[i].rest \in Seq(Avps)
  <2>1. \A i \in 1..Len(building) : building[i] \in Frames
    BY <1>2, ElementOfSeq
  <2> QED
    BY <2>1 DEF Frames
<1> QED
  BY <1>1, <1>2, <1>3, <1>4 DEF Call, Last

\* Nothing is written and nothing taken at first.
LEMMA EncodedInit == Init => Encoded
<1> SUFFICES ASSUME Init PROVE Encoded
  OBVIOUS
<1> DEFINE top == Known(msg.cmd, msg.avps)
           lists == [i \in Nat |-> top]
           done == [i \in Nat |-> 0]
           starts == [i \in Nat |-> HdrLen]
<1>1. msg.cmd \in Cmds /\ msg.avps \in Seq(Avps)
  BY CodecAssumption DEF Init, Cmds
<1>2. Len(building) = 1 /\ building[1].rest = msg.avps /\ buf = <<>> /\ pos = HdrLen /\ HdrLen \in Nat
  BY DEF Init, HdrLen
<1>3. top \in KnownLists(msg.cmd) /\ top \in Seq(Avps) /\ Len(top) \in Nat
  BY <1>1, KnownIsKnown, LenProperties DEF KnownLists
<1>4. Part(msg.cmd, top, 0) = <<>>
  BY <1>1, <1>3, PartSteps
<1> HIDE DEF top
<1>5. /\ lists \in [Nat -> Seq(Avps)] /\ done \in [Nat -> Nat] /\ starts \in [Nat -> Nat]
      /\ lists[1] = top /\ done[1] = 0 /\ starts[1] = HdrLen
  BY <1>2, <1>3
<1> HIDE DEF lists, done, starts
<1>6. Path(msg.cmd, msg.avps, 1, lists, done, starts)
  <2>1. \A i \in 1..1 : i = 1
    OBVIOUS
  <2>2. 1..(1 - 1) = {}
    OBVIOUS
  <2>3. 0 <= Len(top)
    BY <1>3
  <2> QED
    BY <1>3, <1>5, <2>1, <2>2, <2>3, Zenon DEF Path, top
<1>7. Laid(msg.cmd, 1, lists, done, starts, buf, pos)
  <2>1. Reached(msg.cmd, lists, done, starts, 1) = HdrLen
    <3>1. Len(Part(msg.cmd, lists[1], done[1])) = 0
      BY <1>4, <1>5, EmptySeq
    <3>2. Reached(msg.cmd, lists, done, starts, 1) = HdrLen + 0
      BY <1>5, <3>1, Zenon DEF Reached
    <3> QED
      BY <1>2, <3>2
  <2>2. \A i \in 1..1 : Holds(buf, starts[i], Part(msg.cmd, lists[i], done[i]))
    BY <1>4, <1>5 DEF Holds
  <2> QED
    BY <1>2, <2>1, <2>2, EmptySeq DEF Laid
<1>8. Calls(msg.cmd, 1, lists, done, starts, building)
  <2>1. SubSeq(top, 1, Len(top)) = top
    BY <1>3, SubSeqFull
  <2>2. Left(top, top, 0)
    BY <1>3, <2>1 DEF Left
  <2>3. 1..(1 - 1) = {}
    OBVIOUS
  <2> QED
    BY <1>2, <1>5, <2>2, <2>3 DEF Calls, top
<1> QED
  BY <1>2, <1>6, <1>7, <1>8 DEF Encoded

\* The next AVP, which is not a group, is written.
LEMMA EncodedAvp ==
  ASSUME IInv, Encoded, NEW types, Encodes(types), "unknown" \notin types, Returned("OK"),
         buf' = Put(buf, pos, Cell(msg.cmd, Head(Call.rest))),
         pos' = pos + Len(Cell(msg.cmd, Head(Call.rest)))
  PROVE  Encoded'
<1> DEFINE cmd == msg.cmd
           n == Len(building)
           a == Head(Call.rest)
<1>1. /\ cmd \in Cmds /\ buf \in Seq(Nat) /\ pos \in Nat /\ n \in Nat /\ n >= 1
      /\ Call = building[n] /\ building[n].rest \in Seq(Avps) /\ building[n].rest # <<>>
  BY EncoderTypes DEF Encodes
<1>2. TypeOf(cmd, a) # "unknown"
  BY DEF Encodes, Info, TypeOf
<1>3. /\ Len(building') = n /\ building'[n].rest = Tail(building[n].rest)
      /\ building'[n].code = building[n].code /\ building'[n].start = building[n].start
      /\ \A i \in 1..(n - 1) : building'[i] = building[i]
  BY <1>1, CallsAfter DEF Returned
<1>4. PICK lists, done, starts :
        /\ Path(cmd, msg.avps, n, lists, done, starts)
        /\ Laid(cmd, n, lists, done, starts, buf, pos)
        /\ Calls(cmd, n, lists, done, starts, building)
  BY DEF Encoded
<1> DEFINE more == With(done, n, done[n] + 1)
<1>5. more = With(done, n, done[n] + 1)
  OBVIOUS
<1> HIDE DEF cmd, n, a, more
<1>6. /\ done[n] < Len(lists[n]) /\ Head(building[n].rest) = Entered(lists, done, n)
      /\ Left(Known(cmd, Tail(building[n].rest)), lists[n], done[n] + 1)
  BY <1>1, <1>2, <1>4, CallsAvp DEF a
<1>7. a = Entered(lists, done, n)
  BY <1>1, <1>6 DEF a
<1>8. Advanced(cmd, msg.avps, n, lists, done, starts, a, more)
  BY <1>1, <1>4, <1>5, <1>6, <1>7, PathAdvances
<1>9. Path(cmd, msg.avps, n, lists, more, starts) /\ more[n] = done[n] + 1
      /\ \A i \in 1..(n - 1) : more[i] = done[i]
  BY <1>8, Zenon DEF Advanced
<1>10. Laid(cmd, n, lists, more, starts, buf', pos')
  <2>1. Laid(cmd, n, lists, more, starts, Put(buf, pos, Cell(cmd, a)), pos + Len(Cell(cmd, a)))
    BY <1>1, <1>4, <1>5, <1>6, <1>7, LaidAvp
  <2> QED
    BY <2>1, Zenon DEF cmd, a
<1>11. Calls(cmd, n, lists, more, starts, building')
  <2>1. Left(Known(cmd, building'[n].rest), lists[n], more[n])
    BY <1>3, <1>6, <1>9, Zenon
  <2>2. ASSUME NEW i \in 1..(n - 1)
        PROVE  /\ Left(Known(cmd, building'[i].rest), lists[i], more[i] + 1)
               /\ building'[i + 1].start = Reached(cmd, lists, more, starts, i)
               /\ building'[i + 1].code = Entered(lists, more, i).code
    <3>1. /\ Left(Known(cmd, building[i].rest), lists[i], done[i] + 1)
          /\ building[i + 1].start = Reached(cmd, lists, done, starts, i)
          /\ building[i + 1].code = Entered(lists, done, i).code
      BY <1>4, Zenon DEF Calls
    <3>2. more[i] = done[i] /\ building'[i] = building[i]
      BY <1>3, <1>9
    <3>3. i + 1 = n \/ i + 1 \in 1..(n - 1)
      BY <1>1
    <3>4. building'[i + 1].start = building[i + 1].start /\ building'[i + 1].code = building[i + 1].code
      BY <1>3, <3>3
    <3> QED
      BY <3>1, <3>2, <3>4, Zenon DEF Reached, Entered
  <2> QED
    BY <2>1, <2>2, Zenon DEF Calls
<1>12. msg' = msg
  BY DEF Returned
<1> QED
  BY <1>3, <1>9, <1>10, <1>11, <1>12 DEF Encoded, cmd

\* A group is entered: nothing is written yet.
LEMMA EncodedGroup ==
  ASSUME IInv, Encoded, encodeGrouped
  PROVE  Encoded'
<1> DEFINE cmd == msg.cmd
           n == Len(building)
           a == Head(Call.rest)
           calls == [building EXCEPT ![Len(building)].rest = Tail(@)]
           frame == [code |-> a.code, start |-> pos, rest |-> a.data]
<1>1. Encodes({"grouped"}) /\ building' = Append(calls, frame) /\ buf' = buf /\ msg' = msg
      /\ pos' = pos + AvpHdrLen(Info(a.code).vendor)
  BY DEF encodeGrouped
<1>2. /\ cmd \in Cmds /\ buf \in Seq(Nat) /\ pos \in Nat /\ n \in Nat /\ n >= 1
      /\ Call = building[n] /\ building[n].rest \in Seq(Avps) /\ building[n].rest # <<>>
  BY <1>1, EncoderTypes DEF Encodes
<1>3. TypeOf(cmd, a) = "grouped" /\ pos' = pos + Hdr(cmd, a)
  BY <1>1 DEF Encodes, Info, TypeOf, Hdr
<1>4. /\ Len(calls) = n /\ calls \in Seq(Frames) /\ calls[n].rest = Tail(building[n].rest)
      /\ calls[n].code = building[n].code /\ calls[n].start = building[n].start
      /\ \A i \in 1..(n - 1) : calls[i] = building[i]
  BY <1>1, <1>2, CallsAfter, CallAdvances
<1>5. frame \in Frames /\ frame.rest = a.data /\ frame.code = a.code /\ frame.start = pos
  BY <1>1, <1>2, NextToEncode, NextIsTyped DEF Frames
<1> HIDE DEF calls, frame
<1>6. /\ Len(building') = n + 1 /\ building'[n + 1] = frame
      /\ building'[n].rest = Tail(building[n].rest)
      /\ building'[n].code = building[n].code /\ building'[n].start = building[n].start
      /\ \A i \in 1..(n - 1) : building'[i] = building[i]
  <2>1. /\ Len(Append(calls, frame)) = Len(calls) + 1 /\ Append(calls, frame)[Len(calls) + 1] = frame
        /\ \A i \in 1..Len(calls) : Append(calls, frame)[i] = calls[i]
    BY <1>4, <1>5, AppendProperties
  <2>2. n \in 1..n /\ \A i \in 1..(n - 1) : i \in 1..n
    BY <1>2
  <2> HIDE DEF n
  <2> QED
    BY <1>1, <1>4, <2>1, <2>2
<1>7. PICK lists, done, starts :
        /\ Path(cmd, msg.avps, n, lists, done, starts)
        /\ Laid(cmd, n, lists, done, starts, buf, pos)
        /\ Calls(cmd, n, lists, done, starts, building)
  BY DEF Encoded
<1> DEFINE members == Known(cmd, a.data)
           inner == With(lists, n + 1, Known(cmd, a.data))
           more == With(done, n + 1, 0)
           from == With(starts, n + 1, Reached(cmd, lists, done, starts, n) + Hdr(cmd, a))
<1> HIDE DEF cmd, n, a
<1>8. /\ done[n] < Len(lists[n]) /\ Head(building[n].rest) = Entered(lists, done, n)
      /\ Left(Known(cmd, Tail(building[n].rest)), lists[n], done[n] + 1)
  <2>1. TypeOf(cmd, Head(building[n].rest)) # "unknown"
    BY <1>2, <1>3 DEF a
  <2> QED
    BY <1>2, <1>7, <2>1, CallsAvp
<1>9. a = Entered(lists, done, n)
  BY <1>2, <1>8 DEF a
<1>10. Opened(cmd, msg.avps, n, lists, done, starts, a, inner, more, from)
  BY <1>2, <1>3, <1>7, <1>8, <1>9, PathOpens
<1> HIDE DEF inner, more, from
<1>11. /\ Path(cmd, msg.avps, n + 1, inner, more, from)
       /\ \A i \in 1..n : inner[i] = lists[i] /\ more[i] = done[i] /\ from[i] = starts[i]
       /\ inner[n + 1] = members /\ more[n + 1] = 0
  BY <1>10, Zenon DEF Opened, members
<1>12. Laid(cmd, n + 1, inner, more, from, buf', pos')
  <2>1. Laid(cmd, n + 1, inner, more, from, buf, pos + Hdr(cmd, a))
    BY <1>2, <1>3, <1>7, <1>8, <1>9, <1>10, LaidGroup
  <2> QED
    BY <1>1, <1>3, <2>1, Zenon
<1>13. Calls(cmd, n + 1, inner, more, from, building')
  <2>1. Left(Known(cmd, building'[n + 1].rest), inner[n + 1], more[n + 1])
    <3>1. a \in Avps
      BY <1>1, NextToEncode DEF a
    <3>2. members \in Seq(Avps) /\ Len(members) \in Nat
      BY <1>2, <1>3, <3>1, GroupCell, LenProperties DEF KnownLists
    <3>3. Left(members, members, 0)
      BY <3>2, SubSeqFull DEF Left
    <3> QED
      BY <1>5, <1>6, <1>11, <3>3 DEF members
  <2>2. ASSUME NEW i \in 1..n
        PROVE  /\ Left(Known(cmd, building'[i].rest), inner[i], more[i] + 1)
               /\ building'[i + 1].start = Reached(cmd, inner, more, from, i)
               /\ building'[i + 1].code = Entered(inner, more, i).code
    <3>1. /\ Reached(cmd, inner, more, from, i) = Reached(cmd, lists, done, starts, i)
          /\ Entered(inner, more, i) = Entered(lists, done, i)
          /\ inner[i] = lists[i] /\ more[i] = done[i]
      BY <1>11, Zenon DEF Reached, Entered
    <3>2. CASE i = n
      <4>1. Left(Known(cmd, building'[i].rest), inner[i], more[i] + 1)
        BY <1>6, <1>8, <3>1, <3>2, Zenon
      <4>2. building'[i + 1].start = pos /\ building'[i + 1].code = a.code
        BY <1>5, <1>6, <3>2, Zenon
      <4>3. pos = Reached(cmd, lists, done, starts, i)
        BY <1>7, <3>2, Zenon DEF Laid
      <4> QED
        BY <1>9, <3>1, <3>2, <4>1, <4>2, <4>3, Zenon
    <3>3. CASE i # n
      <4>1. i \in 1..(n - 1)
        BY <1>2, <3>3
      <4>2. i + 1 = n \/ i + 1 \in 1..(n - 1)
        BY <1>2, <4>1
      <4>3. /\ Left(Known(cmd, building[i].rest), lists[i], done[i] + 1)
            /\ building[i + 1].start = Reached(cmd, lists, done, starts, i)
            /\ building[i + 1].code = Entered(lists, done, i).code
        BY <1>7, <4>1, Zenon DEF Calls
      <4>4. building'[i] = building[i] /\ building'[i + 1].start = building[i + 1].start
            /\ building'[i + 1].code = building[i + 1].code
        BY <1>6, <4>1, <4>2, Zenon
      <4> QED
        BY <3>1, <4>3, <4>4, Zenon
    <3> QED
      BY <3>2, <3>3
  <2>3. (n + 1) - 1 = n
    BY <1>2
  <2> QED
    BY <2>1, <2>2, <2>3, Zenon DEF Calls
<1> QED
  BY <1>1, <1>6, <1>11, <1>12, <1>13 DEF Encoded, cmd

\* The innermost call is finished, and the header of its group is written.
LEMMA EncodedGroupEnd ==
  ASSUME IInv, Encoded, encodeGroupedEnd
  PROVE  Encoded'
<1> DEFINE cmd == msg.cmd
           n == Len(building)
           top == msg.avps
<1>1. /\ stage = "encode" /\ n > 1 /\ Call.rest = <<>> /\ building' = Front(building)
      /\ buf' = Put(buf, Call.start, AvpHdr(Info(Call.code), Call.code, pos - Call.start))
      /\ msg' = msg /\ pos' = pos
  BY DEF encodeGroupedEnd
<1>2. /\ cmd \in Cmds /\ buf \in Seq(Nat) /\ pos \in Nat /\ n \in Nat /\ n >= 1
      /\ Call = building[n] /\ building \in Seq(Frames)
  BY <1>1, EncoderTypes
<1>3. Len(building') = n - 1 /\ \A i \in 1..(n - 1) : building'[i] = building[i]
  <2>1. \A i \in 1..(n - 1) : building[i] \in Frames
    BY <1>2, ElementOfSeq
  <2>2. /\ Len(SubSeq(building, 1, n - 1)) = n - 1
        /\ \A i \in 1..(n - 1) : SubSeq(building, 1, n - 1)[i] = building[i]
    BY <1>1, <1>2, <2>1, SubSeqProperties
  <2> QED
    BY <1>1, <2>2 DEF Front
<1>4. PICK lists, done, starts :
        /\ Path(cmd, top, n, lists, done, starts)
        /\ Laid(cmd, n, lists, done, starts, buf, pos)
        /\ Calls(cmd, n, lists, done, starts, building)
  BY DEF Encoded
<1> DEFINE a == Entered(lists, done, n - 1)
           more == With(done, n - 1, done[n - 1] + 1)
           members == Wire(cmd)[a.data]
           at == Reached(cmd, lists, done, starts, n - 1)
<1> HIDE DEF cmd, n, top
<1>5. done[n] = Len(lists[n])
  <2>1. building[n].rest = <<>>
    BY <1>1, <1>2
  <2> QED
    BY <1>2, <1>4, <2>1, CallsEnd
<1>6. Closed(cmd, top, n, lists, done, starts, a, more)
  BY <1>1, <1>2, <1>4, <1>5, PathCloses
<1> HIDE DEF a, more, at, members
<1>7. /\ Path(cmd, top, n - 1, lists, more, starts) /\ more[n - 1] = done[n - 1] + 1
      /\ \A i \in 1..(n - 2) : more[i] = done[i]
  BY <1>6, Zenon DEF Closed
<1>8. at = Reached(cmd, lists, done, starts, n - 1)
  BY DEF at
<1>9. /\ pos - at = Hdr(cmd, a) + DataLength(cmd, a, members)
      /\ Laid(cmd, n - 1, lists, more, starts, Put(buf, at, HdrOctets(cmd, a, members)), pos)
  BY <1>1, <1>2, <1>4, <1>6, <1>8, LaidGroupEnd DEF members
<1>10. Call.start = at /\ Call.code = a.code
  <2>1. n - 1 \in 1..(n - 1) /\ (n - 1) + 1 = n
    BY <1>1, <1>2
  <2> QED
    BY <1>2, <1>4, <2>1, Zenon DEF Calls, a, at
<1>11. buf' = Put(buf, at, HdrOctets(cmd, a, members))
  BY <1>1, <1>9, <1>10, Zenon DEF HdrOctets, Info, cmd
<1>12. Laid(cmd, n - 1, lists, more, starts, buf', pos')
  BY <1>1, <1>9, <1>11, Zenon
<1>13. Calls(cmd, n - 1, lists, more, starts, building')
  <2>1. \A i \in 1..(n - 1) :
          /\ Left(Known(cmd, building[i].rest), lists[i], done[i] + 1)
          /\ building[i + 1].start = Reached(cmd, lists, done, starts, i)
          /\ building[i + 1].code = Entered(lists, done, i).code
    BY <1>4, Zenon DEF Calls
  <2>2. n - 1 \in 1..(n - 1) /\ (n - 1) - 1 = n - 2
        /\ \A i \in 1..(n - 2) : i \in 1..(n - 1) /\ i + 1 \in 1..(n - 1)
    BY <1>1, <1>2
  <2>3. Left(Known(cmd, building'[n - 1].rest), lists[n - 1], more[n - 1])
    BY <1>3, <1>7, <2>1, <2>2, Zenon
  <2>4. ASSUME NEW i \in 1..(n - 2)
        PROVE  /\ Left(Known(cmd, building'[i].rest), lists[i], more[i] + 1)
               /\ building'[i + 1].start = Reached(cmd, lists, more, starts, i)
               /\ building'[i + 1].code = Entered(lists, more, i).code
    BY <1>3, <1>7, <2>1, <2>2, Zenon DEF Reached, Entered
  <2> QED
    BY <2>2, <2>3, <2>4, Zenon DEF Calls
<1> QED
  BY <1>1, <1>3, <1>7, <1>12, <1>13 DEF Encoded, cmd, top

LEMMA EncodedSimple ==
  ASSUME IInv, Encoded, encodeStr \/ encodeInt32 \/ encodeInt64
  PROVE  Encoded'
<1> DEFINE cmd == msg.cmd
           a == Head(Call.rest)
           members == Wire(cmd)[a.data]
<1>1. stage = "encode"
  BY DEF encodeStr, encodeInt32, encodeInt64, Encodes
<1>2. cmd \in Cmds
  BY <1>1, EncoderTypes
<1>3. \A len, data : WriteAvp(len, data) =>
        LET octets == AvpHdr(diaGetAvpInfo(cmd, a.code), a.code, Hdr(cmd, a) + len) \o data
        IN  buf' = Put(buf, pos, octets) /\ pos' = pos + Len(octets)
  BY DEF WriteAvp, Info, Hdr
<1>4. Cell(cmd, a) = AvpHdr(diaGetAvpInfo(cmd, a.code), a.code,
                            Hdr(cmd, a) + DataLength(cmd, a, members))
                       \o DataOctets(cmd, a, members)
  BY DEF Cell, AvpOctets, HdrOctets
<1>5. CASE encodeStr
  <2>1. /\ Encodes({"octets"}) /\ Returned("OK")
        /\ WriteAvp(Len(a.data), a.data \o [i \in 1..Padding(Len(a.data)) |-> 0])
    BY <1>5 DEF encodeStr
  <2>2. TypeOf(cmd, a) = "octets"
    BY <2>1 DEF Encodes, Info, TypeOf
  <2>3. /\ DataLength(cmd, a, members) = Len(a.data)
        /\ DataOctets(cmd, a, members) = a.data \o [i \in 1..Padding(Len(a.data)) |-> 0]
    BY <2>2, Zenon DEF DataLength, DataOctets
  <2> HIDE DEF cmd, a, members
  <2>4. buf' = Put(buf, pos, Cell(cmd, a)) /\ pos' = pos + Len(Cell(cmd, a))
    BY <1>3, <1>4, <2>1, <2>3, Zenon
  <2>5. "unknown" \notin {"octets"}
    OBVIOUS
  <2> QED
    BY <2>1, <2>4, <2>5, EncodedAvp DEF cmd, a
<1>6. CASE encodeInt32
  <2>1. Encodes({"uint32", "enum"}) /\ Returned("OK") /\ WriteAvp(4, U32(a.data))
    BY <1>6 DEF encodeInt32
  <2>2. TypeOf(cmd, a) \in {"uint32", "enum"} /\ a \in Avps
    BY <2>1, NextToEncode DEF Encodes, Info, TypeOf
  <2>3. Len(U32(a.data)) = 4
    <3>1. a.data \in Nat
      BY <1>2, <2>2, DataTypes
    <3> QED
      BY <3>1, WordTypes
  <2>4. DataOctets(cmd, a, members) = U32(a.data) /\ DataLength(cmd, a, members) = 4
    <3>1. DataOctets(cmd, a, members) = U32(a.data)
      BY <2>2 DEF DataOctets
    <3>2. TypeOf(cmd, a) # "octets"
      BY <2>2
    <3> QED
      BY <2>3, <3>1, <3>2, Zenon DEF DataLength
  <2> HIDE DEF cmd, a, members
  <2>5. buf' = Put(buf, pos, Cell(cmd, a)) /\ pos' = pos + Len(Cell(cmd, a))
    BY <1>3, <1>4, <2>1, <2>4, Zenon
  <2>6. "unknown" \notin {"uint32", "enum"}
    OBVIOUS
  <2> QED
    BY <2>1, <2>5, <2>6, EncodedAvp DEF cmd, a
<1>7. CASE encodeInt64
  <2>1. Encodes({"uint64"}) /\ Returned("OK") /\ WriteAvp(8, U64(a.data))
    BY <1>7 DEF encodeInt64
  <2>2. TypeOf(cmd, a) = "uint64" /\ a \in Avps
    BY <2>1, NextToEncode DEF Encodes, Info, TypeOf
  <2>3. Len(U64(a.data)) = 8
    <3>1. a.data \in Nat
      BY <1>2, <2>2, DataTypes
    <3> QED
      BY <3>1, WordTypes
  <2>4. DataOctets(cmd, a, members) = U64(a.data) /\ DataLength(cmd, a, members) = 8
    <3>1. DataOctets(cmd, a, members) = U64(a.data)
      BY <2>2 DEF DataOctets
    <3>2. TypeOf(cmd, a) # "octets"
      BY <2>2
    <3> QED
      BY <2>3, <3>1, <3>2, Zenon DEF DataLength
  <2> HIDE DEF cmd, a, members
  <2>5. buf' = Put(buf, pos, Cell(cmd, a)) /\ pos' = pos + Len(Cell(cmd, a))
    BY <1>3, <1>4, <2>1, <2>4, Zenon
  <2>6. "unknown" \notin {"uint64"}
    OBVIOUS
  <2> QED
    BY <2>1, <2>5, <2>6, EncodedAvp DEF cmd, a
<1> QED
  BY <1>5, <1>6, <1>7

\* An AVP that is not in the dictionary is passed over.
LEMMA EncodedUnknown ==
  ASSUME IInv, Encoded, encodeUnknown
  PROVE  Encoded'
<1> DEFINE cmd == msg.cmd
           n == Len(building)
           a == Head(Call.rest)
<1>1. Encodes({"unknown"}) /\ Returned("INVALID_VALUE") /\ buf' = buf /\ pos' = pos
  BY DEF encodeUnknown
<1>2. /\ cmd \in Cmds /\ n \in Nat /\ n >= 1 /\ Call = building[n]
      /\ building[n].rest \in Seq(Avps) /\ building[n].rest # <<>>
  BY <1>1, EncoderTypes DEF Encodes
<1>3. TypeOf(cmd, a) = "unknown" /\ msg' = msg
  BY <1>1 DEF Encodes, Info, TypeOf, Returned
<1>4. /\ Len(building') = n /\ building'[n].rest = Tail(building[n].rest)
      /\ building'[n].code = building[n].code /\ building'[n].start = building[n].start
      /\ \A i \in 1..(n - 1) : building'[i] = building[i]
  BY <1>1, <1>2, CallsAfter DEF Returned
<1>5. PICK lists, done, starts :
        /\ Path(cmd, msg.avps, n, lists, done, starts)
        /\ Laid(cmd, n, lists, done, starts, buf, pos)
        /\ Calls(cmd, n, lists, done, starts, building)
  BY DEF Encoded
<1>6. Known(cmd, building'[n].rest) = Known(cmd, building[n].rest)
  BY <1>2, <1>3, <1>4, KnownTakes
<1> HIDE DEF cmd, n, a
<1>7. Calls(cmd, n, lists, done, starts, building')
  <2>1. ASSUME NEW i \in 1..(n - 1)
        PROVE  /\ Left(Known(cmd, building'[i].rest), lists[i], done[i] + 1)
               /\ building'[i + 1].start = Reached(cmd, lists, done, starts, i)
               /\ building'[i + 1].code = Entered(lists, done, i).code
    <3>1. /\ Left(Known(cmd, building[i].rest), lists[i], done[i] + 1)
          /\ building[i + 1].start = Reached(cmd, lists, done, starts, i)
          /\ building[i + 1].code = Entered(lists, done, i).code
      BY <1>5, Zenon DEF Calls
    <3>2. i + 1 = n \/ i + 1 \in 1..(n - 1)
      BY <1>2
    <3> QED
      BY <1>4, <3>1, <3>2, Zenon
  <2> QED
    BY <1>5, <1>6, <2>1, Zenon DEF Calls
<1> QED
  BY <1>1, <1>3, <1>4, <1>5, <1>7, Zenon DEF Encoded, cmd

(***************************************************************************)
(* What is sent: flag and command, and behind the header every known AVP.  *)
(***************************************************************************)
Whole(cmd, list) == Part(cmd, list, Len(list))

Sent ==
  /\ At(5) = msg.cmd /\ (RequestFlag <=> msg.isReq)
  /\ Holds(buf, HdrLen, Whole(msg.cmd, Known(msg.cmd, msg.avps)))
  /\ Len(buf) = HdrLen + Len(Whole(msg.cmd, Known(msg.cmd, msg.avps)))

LEMMA AtHolds ==
  ASSUME NEW p \in Nat, NEW octets \in Seq(Nat), Holds(buf, p, octets), NEW i \in 1..Len(octets)
  PROVE  At(p + i - 1) = octets[i]
<1>1. i \in DOMAIN octets /\ Len(octets) \in Nat
  BY LenProperties
<1>2. p + i \in DOMAIN buf /\ buf[p + i] = octets[i]
  BY <1>1 DEF Holds
<1>3. (p + i - 1) + 1 = p + i
  BY <1>1
<1> QED
  BY <1>2, <1>3 DEF At

LEMMA EncodedEnd ==
  ASSUME IInv, Encoded, encodeHdr
  PROVE  Sent'
<1> DEFINE cmd == msg.cmd
           top == Known(cmd, msg.avps)
           octets == Whole(cmd, top)
           R == IF msg.isReq THEN 1 ELSE 0
           word == <<1, pos, 0, 0, R, cmd, 0, 0>>
           hdr == (word \o U32(0)) \o U64(0)
<1>1. /\ stage = "encode" /\ Len(building) = 1 /\ Call.rest = <<>> /\ msg' = msg
      /\ buf' = Put(buf, 0, hdr)
  BY DEF encodeHdr
<1>2. cmd \in Cmds /\ cmd \in Nat /\ msg.avps \in Seq(Avps) /\ buf \in Seq(Nat) /\ pos \in Nat
      /\ Call = building[1]
  BY <1>1, EncoderTypes, CodecAssumption DEF IInv, TypeOK
<1>3. PICK lists, done, starts :
        /\ Path(cmd, msg.avps, 1, lists, done, starts)
        /\ Laid(cmd, 1, lists, done, starts, buf, pos)
        /\ Calls(cmd, 1, lists, done, starts, building)
  BY <1>1 DEF Encoded
<1>4. done[1] = Len(lists[1])
  <2>1. building[1].rest = <<>> /\ 1 \in Nat /\ 1 >= 1
    BY <1>1, <1>2
  <2> HIDE DEF cmd
  <2> QED
    BY <1>2, <1>3, <2>1, CallsEnd
<1>5. lists[1] = top /\ starts[1] = HdrLen
  BY <1>3 DEF Path
<1>6. Holds(buf, HdrLen, octets) /\ pos = HdrLen + Len(octets) /\ Len(buf) <= pos
  <2>1. 1 \in 1..1
    OBVIOUS
  <2>2. Holds(buf, starts[1], Part(cmd, lists[1], done[1]))
        /\ pos = starts[1] + Len(Part(cmd, lists[1], done[1])) /\ Len(buf) <= pos
    BY <1>3, <2>1, Zenon DEF Laid, Reached
  <2> QED
    BY <1>4, <1>5, <2>2, Zenon DEF Whole
<1>7. octets \in Seq(Nat) /\ Len(octets) \in Nat
  <2>1. top \in KnownLists(cmd)
    BY <1>2, KnownIsKnown
  <2> HIDE DEF top, cmd
  <2>2. Len(top) \in 0..Len(top) /\ Len(top) \in Nat
    BY <1>2, <2>1, PartSteps
  <2> QED
    BY <1>2, <2>1, <2>2, PartSteps DEF Words, Whole
<1>8. word \in Seq(Nat) /\ Len(word) = 8 /\ word[6] = cmd /\ word[5] = R
  <2>1. R \in Nat
    OBVIOUS
  <2> QED
    BY <1>2, <2>1
<1>9. U32(0) \in Seq(Nat) /\ Len(U32(0)) = 4 /\ U64(0) \in Seq(Nat) /\ Len(U64(0)) = 8
  BY WordTypes
<1> HIDE DEF word, octets, cmd, top
<1>10. word \o U32(0) \in Seq(Nat) /\ Len(word \o U32(0)) = 12
  <2>1. word \o U32(0) \in Seq(Nat) /\ Len(word \o U32(0)) = Len(word) + Len(U32(0))
    BY <1>8, <1>9, ConcatProperties, Zenon
  <2> DEFINE m == Len(word)
             n == Len(U32(0))
  <2>2. m = 8 /\ n = 4
    BY <1>8, <1>9
  <2> HIDE DEF m, n
  <2>3. m + n = 12
    BY <2>2
  <2> QED
    BY <2>1, <2>3, Zenon DEF m, n
<1>11. hdr \in Seq(Nat) /\ Len(hdr) = 20
  <2> DEFINE front == word \o U32(0)
  <2>1. front \in Seq(Nat) /\ Len(front) = 12
    BY <1>10
  <2> HIDE DEF front
  <2>2. front \o U64(0) \in Seq(Nat) /\ Len(front \o U64(0)) = Len(front) + Len(U64(0))
    BY <1>9, <2>1, ConcatProperties, Zenon
  <2> DEFINE m == Len(front)
             n == Len(U64(0))
  <2>4. m = 12 /\ n = 8
    BY <1>9, <2>1
  <2> HIDE DEF m, n
  <2>5. m + n = 20
    BY <2>4
  <2>3. Len(front \o U64(0)) = 20
    BY <2>2, <2>5, Zenon DEF m, n
  <2> QED
    BY <2>2, <2>3 DEF front
<1> HIDE DEF hdr
<1>12. /\ Holds(buf', 0, hdr)
       /\ Len(buf') = IF 0 + Len(hdr) > Len(buf) THEN 0 + Len(hdr) ELSE Len(buf)
       /\ \A q \in Nat, w \in Seq(Nat) :
            Holds(buf, q, w) /\ (q + Len(w) <= 0 \/ 0 + Len(hdr) <= q) => Holds(buf', q, w)
  BY <1>1, <1>2, <1>11, PutHolds
<1>13. Holds(buf', HdrLen, octets)
  <2>1. HdrLen \in Nat /\ 0 + Len(hdr) <= HdrLen
    BY <1>11 DEF HdrLen
  <2> QED
    BY <1>6, <1>7, <1>12, <2>1
<1>14. Len(buf') = HdrLen + Len(octets)
  <2>1. Len(octets) = 0 \/ Len(buf) >= HdrLen + Len(octets)
    <3>1. SUFFICES ASSUME Len(octets) # 0 PROVE Len(buf) >= HdrLen + Len(octets)
      OBVIOUS
    <3>2. Len(octets) \in DOMAIN octets
      BY <1>7, <3>1, LenProperties
    <3>3. HdrLen + Len(octets) \in DOMAIN buf
      BY <1>6, <3>2 DEF Holds
    <3> QED
      BY <1>2, <3>3, LenProperties
  <2>2. Len(buf) \in Nat
    BY <1>2, LenProperties
  <2> QED
    BY <1>6, <1>7, <1>11, <1>12, <2>1, <2>2 DEF HdrLen
<1>15. At(5)' = cmd /\ At(4)' = R
  <2>1. Holds(buf', 0, word)
    <3> DEFINE front == word \o U32(0)
    <3>1. front \in Seq(Nat) /\ hdr = front \o U64(0) /\ 0 \in Nat
      BY <1>10 DEF hdr
    <3> HIDE DEF front
    <3>2. Holds(buf', 0, front)
      BY <1>9, <1>12, <3>1, HoldsJoin
    <3>3. Holds(buf', 0, word \o U32(0))
      BY <3>2 DEF front
    <3> QED
      BY <1>8, <1>9, <3>1, <3>3, HoldsJoin
  <2>2. 6 \in DOMAIN word /\ 5 \in DOMAIN word
    BY <1>8, LenProperties
  <2>3. /\ 0 + 6 \in DOMAIN buf' /\ buf'[0 + 6] = word[6]
        /\ 0 + 5 \in DOMAIN buf' /\ buf'[0 + 5] = word[5]
    BY <2>1, <2>2 DEF Holds
  <2>4. 0 + 6 = 5 + 1 /\ 0 + 5 = 4 + 1
    OBVIOUS
  <2> QED
    BY <1>8, <2>3, <2>4 DEF At
<1>16. RequestFlag' <=> msg'.isReq
  BY <1>1, <1>15 DEF RequestFlag, R
<1> QED
  BY <1>1, <1>13, <1>14, <1>15, <1>16 DEF Sent, octets, top, cmd

(***************************************************************************)
(* Lists the prover knows nothing of but their elements                    *)
(***************************************************************************)
IsList(s, n) == s = [i \in 1..n |-> s[i]]

LEMMA ListType ==
  ASSUME NEW n \in Nat, NEW s, IsList(s, n)
  PROVE  /\ Len(s) = n /\ DOMAIN s = 1..n
         /\ \A S : (\A i \in 1..n : s[i] \in S) => s \in Seq(S)
<1>1. ASSUME NEW S, \A i \in 1..n : s[i] \in S PROVE s \in Seq(S) /\ Len(s) = n
  <2>1. s \in [1..n -> S]
    BY <1>1 DEF IsList
  <2> QED
    BY <2>1, SeqDef, LenProperties
<1>2. Len(s) = n
  <2>1. \A i \in 1..n : s[i] \in {s[j] : j \in 1..n}
    OBVIOUS
  <2> QED
    BY <1>1, <2>1
<1>3. DOMAIN s = 1..n
  BY DEF IsList
<1> QED
  BY <1>1, <1>2, <1>3

LEMMA ListsAlike ==
  ASSUME NEW n, NEW s, NEW t, IsList(s, n), IsList(t, n), \A i \in 1..n : s[i] = t[i]
  PROVE  s = t
BY DEF IsList

Grown(s, n, x, t) ==
  IsList(t, n + 1) /\ t[n + 1] = x /\ \A i \in 1..n : t[i] = s[i]

LEMMA ListAppend ==
  ASSUME NEW n \in Nat, NEW s, IsList(s, n), NEW x
  PROVE  Grown(s, n, x, Append(s, x))
<1> DEFINE S == {s[i] : i \in 1..n} \cup {x}
           t == Append(s, x)
<1>1. s \in Seq(S) /\ Len(s) = n /\ x \in S
  <2>1. \A i \in 1..n : s[i] \in S
    OBVIOUS
  <2> HIDE DEF S
  <2>2. s \in Seq(S) /\ Len(s) = n
    BY <2>1, ListType
  <2> QED
    BY <2>2 DEF S
<1> HIDE DEF S
<1>2. t \in Seq(S) /\ Len(t) = n + 1 /\ t[n + 1] = x /\ \A i \in 1..n : t[i] = s[i]
  BY <1>1, AppendProperties
<1> HIDE DEF t
<1>3. IsList(t, n + 1)
  BY <1>2, LenProperties DEF IsList
<1> QED
  BY <1>2, <1>3 DEF t, Grown

Shrunk(s, n, t) == IsList(t, n - 1) /\ \A i \in 1..(n - 1) : t[i] = s[i]

LEMMA ListFront ==
  ASSUME NEW n \in Nat, n >= 1, NEW s, IsList(s, n)
  PROVE  Shrunk(s, n, Front(s)) /\ Last(s) = s[n]
<1> DEFINE S == {s[i] : i \in 1..n}
           t == SubSeq(s, 1, n - 1)
<1>1. s \in Seq(S) /\ Len(s) = n
  <2>1. \A i \in 1..n : s[i] \in S
    OBVIOUS
  <2> HIDE DEF S
  <2> QED
    BY <2>1, ListType
<1>2. t \in Seq(S) /\ Len(t) = n - 1 /\ \A i \in 1..(n - 1) : t[i] = s[i]
  <2>1. \A i \in 1..(n - 1) : s[i] \in S
    OBVIOUS
  <2> HIDE DEF S
  <2> QED
    BY <1>1, <2>1, SubSeqProperties
<1>3. Front(s) = t /\ Last(s) = s[n]
  BY <1>1 DEF Front, Last
<1> HIDE DEF S, t
<1>4. IsList(t, n - 1)
  BY <1>2, LenProperties DEF IsList
<1> QED
  BY <1>2, <1>3, <1>4 DEF Shrunk

LEMMA ListExcept ==
  ASSUME NEW n \in Nat, NEW s, IsList(s, n), NEW i \in 1..n, NEW x
  PROVE  /\ IsList(With(s, i, x), n) /\ With(s, i, x)[i] = x
         /\ \A j \in 1..n : j # i => With(s, i, x)[j] = s[j]
<1> DEFINE t == With(s, i, x)
<1>1. DOMAIN s = 1..n
  BY ListType
<1>2. t = [j \in 1..n |-> IF j = i THEN x ELSE s[j]]
  BY <1>1 DEF With
<1> HIDE DEF t
<1>3. t[i] = x /\ \A j \in 1..n : j # i => t[j] = s[j]
  BY <1>2
<1>4. IsList(t, n)
  BY <1>2 DEF IsList
<1> QED
  BY <1>3, <1>4 DEF t

(***************************************************************************)
(* What the decoder reads at an AVP                                        *)
(***************************************************************************)
LEMMA HeaderRead ==
  ASSUME NEW cmd, NEW a, a.code \in Nat, NEW len \in Nat, pos \in Nat,
         Holds(buf, pos, AvpHdr(diaGetAvpInfo(cmd, a.code), a.code, len)),
         At(5) = cmd
  PROVE  /\ avpCode = a.code /\ avpLen = len /\ DataType = TypeOf(cmd, a)
         /\ HasVendor = diaGetAvpInfo(cmd, a.code).vendor
         /\ VendorId = IF diaGetAvpInfo(cmd, a.code).vendor THEN diaGetAvpInfo(cmd, a.code).id
                                                            ELSE NoVendor
<1> DEFINE info == diaGetAvpInfo(cmd, a.code)
           code == U32(a.code)
           flags == <<IF info.vendor THEN 1 ELSE 0, len, 0, 0>>
           id == IF info.vendor THEN U32(info.id) ELSE <<>>
<1>1. info.vendor \in BOOLEAN /\ info.id \in Nat
  BY InfoType
<1>2. code \in Seq(Nat) /\ Len(code) = 4 /\ code[1] = a.code
  <2>1. code[1] = a.code
    BY DEF U32
  <2> QED
    BY <2>1, WordTypes
<1>3. /\ flags \in Seq(Nat) /\ Len(flags) = 4
      /\ flags[1] = (IF info.vendor THEN 1 ELSE 0) /\ flags[2] = len
  <2>1. (IF info.vendor THEN 1 ELSE 0) \in Nat
    OBVIOUS
  <2> QED
    BY <2>1
<1>4. id \in Seq(Nat) /\ (info.vendor => Len(id) = 4 /\ id[1] = info.id)
  <2>1. CASE info.vendor
    <3>1. id = U32(info.id)
      BY <2>1
    <3>2. U32(info.id)[1] = info.id
      BY DEF U32
    <3> HIDE DEF id
    <3> QED
      BY <1>1, <3>1, <3>2, WordTypes
  <2>2. CASE ~info.vendor
    BY <2>2, EmptySeq
  <2> QED
    BY <2>1, <2>2
<1>5. AvpHdr(info, a.code, len) = (code \o flags) \o id
  BY DEF AvpHdr
<1> DEFINE front == code \o flags
<1> HIDE DEF code, flags, id, info
<1>6. front \in Seq(Nat) /\ Len(front) = 8
  <2>1. front \in Seq(Nat) /\ Len(front) = Len(code) + Len(flags)
    BY <1>2, <1>3, ConcatProperties, Zenon
  <2> DEFINE m == Len(code)
             n == Len(flags)
  <2>2. m = 4 /\ n = 4
    BY <1>2, <1>3
  <2> HIDE DEF m, n
  <2>3. m + n = 8
    BY <2>2
  <2> QED
    BY <2>1, <2>3, Zenon DEF m, n
<1>7. Holds(buf, pos, front \o id)
  BY <1>5 DEF info
<1>8. Holds(buf, pos, code) /\ Holds(buf, pos + 4, flags)
  <2>1. Holds(buf, pos, front)
    <3> HIDE DEF front
    <3> QED
      BY <1>4, <1>6, <1>7, HoldsJoin
  <2>2. Holds(buf, pos, code) /\ Holds(buf, pos + Len(code), flags)
    BY <1>2, <1>3, <2>1, HoldsJoin
  <2> QED
    BY <1>2, <2>2
<1>9. Holds(buf, pos + 8, id)
  <2> HIDE DEF front
  <2>1. Holds(buf, pos + Len(front), id)
    BY <1>4, <1>6, <1>7, HoldsJoin
  <2> QED
    BY <1>6, <2>1
<1>10. pos + 4 \in Nat /\ pos + 8 \in Nat
  OBVIOUS
<1>11. At(pos) = a.code
  <2>1. 1 \in 1..Len(code) /\ pos + 1 - 1 = pos
    BY <1>2
  <2>2. At(pos + 1 - 1) = code[1]
    BY <1>2, <1>8, <2>1, AtHolds
  <2> QED
    BY <1>2, <2>1, <2>2
<1>12. At(pos + 4) = IF info.vendor THEN 1 ELSE 0
  <2>1. 1 \in 1..Len(flags) /\ (pos + 4) + 1 - 1 = pos + 4
    BY <1>3
  <2>2. At((pos + 4) + 1 - 1) = flags[1]
    BY <1>3, <1>8, <1>10, <2>1, AtHolds
  <2> QED
    BY <1>3, <2>1, <2>2
<1>13. At(pos + 5) = len
  <2>1. 2 \in 1..Len(flags) /\ (pos + 4) + 2 - 1 = pos + 5
    BY <1>3
  <2>2. At((pos + 4) + 2 - 1) = flags[2]
    BY <1>3, <1>8, <1>10, <2>1, AtHolds
  <2> QED
    BY <1>3, <2>1, <2>2
<1>14. info.vendor => At(pos + 8) = info.id
  <2>1. SUFFICES ASSUME info.vendor PROVE At(pos + 8) = info.id
    OBVIOUS
  <2>2. 1 \in 1..Len(id) /\ (pos + 8) + 1 - 1 = pos + 8
    <3>1. Len(id) = 4
      BY <1>4, <2>1
    <3>2. (pos + 8) + 1 - 1 = pos + 8
      OBVIOUS
    <3> QED
      BY <3>1, <3>2
  <2>3. At((pos + 8) + 1 - 1) = id[1]
    BY <1>4, <1>9, <1>10, <2>2, AtHolds
  <2> QED
    BY <1>4, <2>1, <2>2, <2>3
<1>15. HasVendor = info.vendor
  BY <1>1, <1>12 DEF HasVendor
<1>16. VendorId = IF info.vendor THEN info.id ELSE NoVendor
  BY <1>14, <1>15 DEF VendorId
<1>17. avpCode = a.code /\ avpLen = len /\ DataType = TypeOf(cmd, a)
  BY <1>11, <1>13 DEF avpCode, avpLen, DataType, TypeOf
<1> QED
  BY <1>15, <1>16, <1>17 DEF info

LEMMA CellRead ==
  ASSUME IInv, NEW cmd \in Cmds, NEW a \in Avps, TypeOf(cmd, a) # "unknown",
         Holds(buf, pos, Cell(cmd, a)), At(5) = cmd
  PROVE  /\ avpCode = a.code /\ DataType = TypeOf(cmd, a) /\ VendorId = Heard(cmd, a).vendorId
         /\ DataPos = pos + Hdr(cmd, a)
         /\ DataLen = DataLength(cmd, a, Wire(cmd)[a.data])
         /\ NextAvp = pos + Len(Cell(cmd, a))
         /\ Holds(buf, DataPos, DataOctets(cmd, a, Wire(cmd)[a.data]))
         /\ TypeOf(cmd, a) # "grouped" => avpData = Heard(cmd, a).data
<1> DEFINE info == diaGetAvpInfo(cmd, a.code)
           members == Wire(cmd)[a.data]
           head == HdrOctets(cmd, a, members)
           data == DataOctets(cmd, a, members)
           hdr == Hdr(cmd, a)
           l == DataLength(cmd, a, members)
<1>1. pos \in Nat /\ a.code \in Nat
  BY DataTypes DEF IInv, TypeOK
<1>2. /\ hdr \in {8, 12} /\ (TypeOf(cmd, a) = "grouped" => members \in Words)
      /\ info.vendor \in BOOLEAN
  BY CellShape, InfoType
<1>3. head \in Words /\ Len(head) = hdr /\ Cell(cmd, a) = head \o data
      /\ (hdr + l) + Padding(hdr + l) = Len(Cell(cmd, a))
  <2> HIDE DEF members
  <2> QED
    BY <1>2, AvpShape DEF Cell, AvpOctets, members
<1>4. data \in Words /\ l \in Nat
  <2> HIDE DEF members
  <2> QED
    BY <1>2, DataShape
<1>5. Holds(buf, pos, head) /\ Holds(buf, pos + hdr, data)
  <2> HIDE DEF head, data, hdr
  <2>1. head \in Seq(Nat) /\ data \in Seq(Nat) /\ Holds(buf, pos, head \o data)
    BY <1>3, <1>4 DEF Words
  <2>2. Holds(buf, pos, head) /\ Holds(buf, pos + Len(head), data)
    BY <1>1, <2>1, HoldsJoin
  <2> QED
    BY <1>3, <2>2
<1>6. /\ avpCode = a.code /\ avpLen = hdr + l /\ DataType = TypeOf(cmd, a)
      /\ HasVendor = info.vendor
      /\ VendorId = IF info.vendor THEN info.id ELSE NoVendor
  <2>1. Holds(buf, pos, AvpHdr(info, a.code, hdr + l))
    BY <1>5 DEF HdrOctets
  <2>2. hdr + l \in Nat
    BY <1>2, <1>4
  <2> HIDE DEF hdr, l
  <2> QED
    BY <1>1, <2>1, <2>2, HeaderRead
<1>7. AvpHdrLen(HasVendor) = hdr
  BY <1>6 DEF Hdr
<1>8. DataPos = pos + hdr /\ DataPos \in Nat
  BY <1>1, <1>2, <1>7 DEF DataPos
<1>9. DataLen = l
  <2> HIDE DEF hdr, l
  <2> QED
    BY <1>2, <1>4, <1>6, <1>7 DEF DataLen
<1>10. NextAvp = pos + Len(Cell(cmd, a))
  <2> DEFINE len == hdr + l
             padding == Padding(len)
  <2>1. len \in Nat
    BY <1>2, <1>4
  <2>2. NextAvp = pos + len + padding
    BY <1>6 DEF NextAvp
  <2>3. len + padding = Len(Cell(cmd, a))
    BY <1>3
  <2> HIDE DEF len
  <2>4. padding \in 0..3
    BY <2>1, PaddingAligns, Zenon
  <2> HIDE DEF padding
  <2>5. pos + len + padding = pos + (len + padding)
    BY <1>1, <2>1, <2>4
  <2> QED
    BY <2>2, <2>3, <2>5
<1>11. VendorId = Heard(cmd, a).vendorId
  BY <1>6 DEF Heard, Meant
<1>12. ASSUME TypeOf(cmd, a) # "grouped" PROVE avpData = Heard(cmd, a).data
  <2>1. Heard(cmd, a).data = IF TypeOf(cmd, a) = "enum" THEN 0 ELSE a.data
    BY <1>12 DEF Heard, Meant, TypeOf
  <2>2. CASE TypeOf(cmd, a) = "octets"
    <3> DEFINE zeros == [i \in 1..Padding(Len(a.data)) |-> 0]
    <3>1. data = a.data \o zeros /\ l = Len(a.data)
      BY <2>2, Zenon DEF DataOctets, DataLength
    <3>2. a.data \in Seq(Nat)
      BY <2>2, DataTypes
    <3>3. zeros \in Seq(Nat)
      <4> DEFINE n == Padding(Len(a.data))
      <4>1. n \in Nat
        <5>1. Len(a.data) \in Nat
          BY <3>2, LenProperties
        <5>2. n \in 0..3
          BY <5>1, PaddingAligns, Zenon
        <5> HIDE DEF n
        <5> QED
          BY <5>2
      <4>2. zeros \in [1..n -> Nat]
        OBVIOUS
      <4> HIDE DEF n, zeros
      <4> QED
        BY <4>1, <4>2, SeqDef, Zenon
    <3>4. Holds(buf, DataPos, a.data \o zeros)
      BY <1>5, <1>8, <3>1
    <3> HIDE DEF zeros, data, l
    <3>5. Holds(buf, DataPos, a.data)
      BY <1>8, <3>2, <3>3, <3>4, HoldsJoin
    <3>6. \A i \in 1..Len(a.data) : At(DataPos + i - 1) = a.data[i]
      BY <1>8, <3>2, <3>5, AtHolds
    <3>7. a.data = [i \in 1..Len(a.data) |-> a.data[i]]
      BY <3>2, LenProperties
    <3>8. avpData = [i \in 1..DataLen |-> At(DataPos + i - 1)]
      BY <1>6, <2>2, Zenon DEF avpData
    <3>9. avpData = [i \in 1..Len(a.data) |-> At(DataPos + i - 1)]
      BY <1>9, <3>1, <3>8
    <3>10. [i \in 1..Len(a.data) |-> At(DataPos + i - 1)] = [i \in 1..Len(a.data) |-> a.data[i]]
      BY <3>6, Zenon
    <3> QED
      BY <2>1, <2>2, <3>7, <3>9, <3>10, Zenon
  <2>3. CASE TypeOf(cmd, a) \in {"uint32", "uint64"}
    <3>1. a.data \in Nat
      BY <2>3, DataTypes
    <3>2. /\ U32(a.data) \in Seq(Nat) /\ Len(U32(a.data)) = 4 /\ U32(a.data)[1] = a.data
      <4>1. U32(a.data)[1] = a.data
        BY DEF U32
      <4> QED
        BY <3>1, <4>1, WordTypes
    <3>3. Holds(buf, DataPos, U32(a.data))
      <4>1. CASE TypeOf(cmd, a) = "uint32"
        <5>1. data = U32(a.data)
          BY <4>1 DEF DataOctets
        <5> QED
          BY <1>5, <1>8, <5>1
      <4>2. CASE TypeOf(cmd, a) = "uint64"
        <5>1. data = U32(a.data) \o U32(0)
          BY <4>2 DEF DataOctets, U64
        <5>2. U32(0) \in Seq(Nat)
          BY WordTypes
        <5>3. Holds(buf, DataPos, U32(a.data) \o U32(0))
          BY <1>5, <1>8, <5>1
        <5> QED
          BY <1>8, <3>2, <5>2, <5>3, HoldsJoin
      <4> QED
        BY <2>3, <4>1, <4>2
    <3>4. At(DataPos) = a.data
      <4>1. 1 \in 1..Len(U32(a.data)) /\ DataPos + 1 - 1 = DataPos
        BY <1>8, <3>2
      <4>2. At(DataPos + 1 - 1) = U32(a.data)[1]
        BY <1>8, <3>2, <3>3, <4>1, AtHolds
      <4> QED
        BY <3>2, <4>1, <4>2
    <3> QED
      BY <1>6, <2>1, <2>3, <3>4 DEF avpData
  <2>4. CASE TypeOf(cmd, a) = "enum"
    BY <1>6, <2>1, <2>4 DEF avpData
  <2> QED
    BY <1>12, <2>2, <2>3, <2>4, InfoTypes DEF TypeOf
<1> QED
  BY <1>5, <1>6, <1>8, <1>9, <1>10, <1>11, <1>12

(***************************************************************************)
(* The decoder: what it has read when it is at p of the buffer b, its      *)
(* calls (frames) and the lists of AVPs it has so far.                     *)
(***************************************************************************)
Entries(cmd, list, n) == [j \in 1..n |-> Heard(cmd, list[j])]

Scanned(cmd, n, lists, done, starts, b, p, frames, heard) ==
  /\ p = Reached(cmd, lists, done, starts, n)
  /\ IsList(heard, n)
  /\ \A i \in 1..n :
       /\ frames[i].end = starts[i] + Len(Whole(cmd, lists[i]))
       /\ Holds(b, starts[i], Whole(cmd, lists[i]))
       /\ heard[i] = Entries(cmd, lists[i], done[i])
  /\ \A i \in 1..(n - 1) :
       /\ frames[i + 1].next = Reached(cmd, lists, done, starts, i)
                                 + Len(Cell(cmd, Entered(lists, done, i)))
       /\ frames[i + 1].code = Entered(lists, done, i).code
       /\ frames[i + 1].vendorId = Heard(cmd, Entered(lists, done, i)).vendorId

Decoding == \E lists, done, starts :
  /\ Len(reading) >= 1
  /\ Path(msg.cmd, msg.avps, Len(reading), lists, done, starts)
  /\ Scanned(msg.cmd, Len(reading), lists, done, starts, buf, pos, reading, decoded)

\* The state as the lemmas about paths need it.
DecoderOK == msg.cmd \in Cmds /\ msg.avps \in Seq(Avps) /\ Len(reading) \in Nat
             /\ reading \in Seq(Groups) /\ pos \in Nat /\ buf \in Seq(Nat)

LEMMA DecoderTypes ==
  ASSUME IInv
  PROVE  DecoderOK
<1>1. msg.cmd \in Cmds /\ msg.avps \in Seq(Avps) /\ buf \in Seq(Nat) /\ pos \in Nat
  BY MessageTypes DEF IInv, TypeOK, Cmds
<1>2. reading \in Seq(Groups)
  BY DEF IInv, TypeOK, Groups
<1> QED
  BY <1>1, <1>2, LenProperties DEF DecoderOK

LEMMA WholeType ==
  ASSUME NEW cmd \in Cmds, NEW list \in KnownLists(cmd)
  PROVE  Whole(cmd, list) \in Seq(Nat) /\ Len(Whole(cmd, list)) \in Nat
<1>1. Len(list) \in Nat /\ Len(list) \in 0..Len(list)
  BY PartSteps
<1> QED
  BY <1>1, PartSteps DEF Whole, Words

\* The decoder is before the end of a list just when AVPs of it are left.
LEMMA ListEnds ==
  ASSUME NEW cmd \in Cmds, NEW top, NEW n \in Nat, n >= 1, NEW lists, NEW done, NEW starts,
         Path(cmd, top, n, lists, done, starts), NEW i \in 1..n
  PROVE  /\ Reached(cmd, lists, done, starts, i) <= starts[i] + Len(Whole(cmd, lists[i]))
         /\ Reached(cmd, lists, done, starts, i) < starts[i] + Len(Whole(cmd, lists[i]))
              <=> done[i] < Len(lists[i])
         /\ done[i] < Len(lists[i]) \/ done[i] = Len(lists[i])
         /\ done[i] < Len(lists[i]) =>
              Reached(cmd, lists, done, starts, i) + Len(Cell(cmd, Entered(lists, done, i)))
                <= starts[i] + Len(Whole(cmd, lists[i]))
<1> DEFINE list == lists[i]
           d == done[i]
           l == Len(list)
           from == starts[i]
           a == Entered(lists, done, i)
           part == Len(Part(cmd, list, d))
           whole == Len(Whole(cmd, list))
<1>1. list \in KnownLists(cmd) /\ d <= l
  BY DEF Path
<1>2. d \in Nat /\ l \in Nat /\ from \in Nat /\ part \in Nat
  BY PathTypes
<1>3. whole \in Nat /\ Whole(cmd, list) = Part(cmd, list, l)
  BY <1>1, WholeType DEF Whole
<1>4. Reached(cmd, lists, done, starts, i) = from + part
  BY DEF Reached
<1>5. a = list[d + 1]
  BY DEF Entered
<1> HIDE DEF list, d, l, from, a, part, whole
<1>6. d < l => part < whole
  <2>1. d \in 0..l /\ l \in 0..l
    BY <1>1, <1>2
  <2> QED
    BY <1>1, <1>3, <2>1, PartSteps DEF part, whole, l
<1>7. d = l => part = whole
  BY <1>3 DEF part, whole
<1>8. d < l \/ d = l
  BY <1>1, <1>2
<1>9. ASSUME d < l PROVE part + Len(Cell(cmd, a)) <= whole
  <2> DEFINE next == Len(Part(cmd, list, d + 1))
  <2>1. d + 1 \in 1..l /\ d + 1 \in 0..l /\ l \in 0..l /\ (d + 1) - 1 = d
    BY <1>2, <1>9
  <2>2. next = part + Len(Cell(cmd, a))
    BY <1>1, <1>5, <2>1, PartSteps DEF part, l
  <2>3. d + 1 < l => next < whole
    BY <1>1, <1>3, <2>1, PartSteps DEF whole, l
  <2>4. d + 1 = l => next = whole
    BY <1>3 DEF whole
  <2>5. next \in Nat
    BY <1>1, <2>1, PartSteps DEF l
  <2>6. d + 1 < l \/ d + 1 = l
    BY <1>2, <1>9
  <2> HIDE DEF next
  <2>7. next <= whole
    BY <1>3, <2>3, <2>4, <2>5, <2>6
  <2> QED
    BY <2>2, <2>7
<1>10. d < l => Len(Cell(cmd, a)) \in Nat
  BY PathTypes, CellShape DEF d, l, list, a
<1> DEFINE cell == Len(Cell(cmd, a))
           r == Reached(cmd, lists, done, starts, i)
<1>11. r = from + part /\ (d < l => cell \in Nat /\ part + cell <= whole)
  BY <1>4, <1>9, <1>10
<1> HIDE DEF cell, r
<1>12. /\ r <= from + whole /\ (r < from + whole <=> d < l) /\ (d < l \/ d = l)
       /\ d < l => r + cell <= from + whole
  BY <1>2, <1>3, <1>6, <1>7, <1>8, <1>11
<1> QED
  BY <1>12, Zenon DEF list, d, l, from, a, whole, cell, r

LEMMA DecodedStart ==
  ASSUME IInv, Sent, decodeHdr
  PROVE  Decoding'
<1> DEFINE cmd == msg.cmd
           top == Known(cmd, msg.avps)
           whole == Whole(cmd, top)
           lists == [i \in Nat |-> top]
           done == [i \in Nat |-> 0]
           starts == [i \in Nat |-> HdrLen]
           frame == [code |-> 0, vendorId |-> NoVendor, end |-> Len(buf), next |-> 0]
<1>1. /\ reading' = <<frame>> /\ decoded' = <<<<>>>> /\ pos' = HdrLen /\ msg' = msg /\ buf' = buf
  BY DEF decodeHdr
<1>2. cmd \in Cmds /\ msg.avps \in Seq(Avps) /\ HdrLen \in Nat
  BY DecoderTypes DEF DecoderOK, HdrLen
<1>3. frame.end = Len(buf)
  OBVIOUS
<1>4. Holds(buf, HdrLen, whole) /\ Len(buf) = HdrLen + Len(whole)
  BY DEF Sent
<1> HIDE DEF cmd, top, whole, frame
<1>5. top \in KnownLists(cmd) /\ top \in Seq(Avps) /\ Len(top) \in Nat
  BY <1>2, KnownIsKnown, LenProperties DEF KnownLists, top
<1>6. Part(cmd, top, 0) = <<>>
  BY <1>2, <1>5, PartSteps
<1>7. /\ lists \in [Nat -> Seq(Avps)] /\ done \in [Nat -> Nat] /\ starts \in [Nat -> Nat]
      /\ lists[1] = top /\ done[1] = 0 /\ starts[1] = HdrLen
  BY <1>2, <1>5
<1> HIDE DEF lists, done, starts
<1>8. Len(reading') = 1 /\ reading'[1] = frame
  BY <1>1
<1>9. Path(cmd, msg.avps, 1, lists, done, starts)
  <2>1. \A i \in 1..1 : i = 1
    OBVIOUS
  <2>2. 1..(1 - 1) = {}
    OBVIOUS
  <2>3. 0 <= Len(top)
    BY <1>5
  <2> QED
    BY <1>5, <1>7, <2>1, <2>2, <2>3, Zenon DEF Path, top
<1>10. Scanned(cmd, 1, lists, done, starts, buf, HdrLen, reading', decoded')
  <2>1. Reached(cmd, lists, done, starts, 1) = HdrLen
    <3>1. Len(Part(cmd, lists[1], done[1])) = 0
      BY <1>6, <1>7, EmptySeq
    <3>2. Reached(cmd, lists, done, starts, 1) = HdrLen + 0
      BY <1>7, <3>1, Zenon DEF Reached
    <3> QED
      BY <1>2, <3>2
  <2>2. IsList(decoded', 1) /\ decoded'[1] = <<>>
    BY <1>1 DEF IsList
  <2>3. Entries(cmd, lists[1], done[1]) = <<>>
    BY <1>7 DEF Entries
  <2>4. reading'[1].end = starts[1] + Len(Whole(cmd, lists[1]))
    BY <1>3, <1>4, <1>7, <1>8, Zenon DEF whole
  <2>5. Holds(buf, starts[1], Whole(cmd, lists[1]))
    BY <1>4, <1>7, Zenon DEF whole
  <2>6. \A i \in 1..1 : i = 1
    OBVIOUS
  <2>7. 1..(1 - 1) = {}
    OBVIOUS
  <2> QED
    BY <2>1, <2>2, <2>3, <2>4, <2>5, <2>6, <2>7, Zenon DEF Scanned
<1>11. 1 >= 1
  OBVIOUS
<1> QED
  BY <1>1, <1>8, <1>9, <1>10, <1>11, Zenon DEF Decoding, cmd

\* The innermost call of the decoder, and the AVP it is at.
LEMMA AtAvp ==
  ASSUME IInv, Sent, NEW n, n = Len(reading), n >= 1, NEW lists, NEW done, NEW starts,
         Path(msg.cmd, msg.avps, n, lists, done, starts),
         Scanned(msg.cmd, n, lists, done, starts, buf, pos, reading, decoded),
         pos < Scan.end, NEW a, a = Entered(lists, done, n)
  PROVE  /\ done[n] < Len(lists[n]) /\ a \in Avps /\ TypeOf(msg.cmd, a) # "unknown"
         /\ Holds(buf, pos, Cell(msg.cmd, a)) /\ At(5) = msg.cmd
<1> DEFINE cmd == msg.cmd
<1>1. cmd \in Cmds /\ n \in Nat /\ n \in 1..n
  BY DecoderTypes DEF DecoderOK
<1>2. Scan = reading[n]
  BY DEF Scan, Last
<1>3. At(5) = cmd
  BY DEF Sent
<1> HIDE DEF cmd
<1>4. /\ pos = Reached(cmd, lists, done, starts, n)
      /\ reading[n].end = starts[n] + Len(Whole(cmd, lists[n]))
      /\ Holds(buf, starts[n], Whole(cmd, lists[n]))
  BY <1>1, Zenon DEF Scanned, cmd
<1>5. Path(cmd, msg.avps, n, lists, done, starts)
  BY DEF cmd
<1>6. Reached(cmd, lists, done, starts, n) < starts[n] + Len(Whole(cmd, lists[n]))
  BY <1>2, <1>4
<1>7. done[n] < Len(lists[n])
  BY <1>1, <1>5, <1>6, ListEnds, Zenon
<1>8. a \in Avps /\ TypeOf(cmd, a) # "unknown" /\ done[n] \in Nat /\ starts[n] \in Nat
  BY <1>1, <1>5, <1>7, PathTypes
<1>9. Holds(buf, pos, Cell(cmd, a))
  <2> DEFINE list == lists[n]
             d == done[n]
             from == starts[n]
  <2>1. list \in KnownLists(cmd)
    BY <1>1, <1>5 DEF Path
  <2>2. Holds(buf, from, Part(cmd, list, Len(list)))
    BY <1>4 DEF Whole
  <2>3. pos = from + Len(Part(cmd, list, d))
    BY <1>4 DEF Reached
  <2>4. a = list[d + 1]
    BY DEF Entered
  <2> HIDE DEF list, d, from
  <2>5. Holds(buf, from + Len(Part(cmd, list, d)), Cell(cmd, list[d + 1]))
    BY <1>1, <1>7, <1>8, <2>1, <2>2, PartHolds DEF list, d, from
  <2> QED
    BY <2>3, <2>4, <2>5
<1> QED
  BY <1>3, <1>7, <1>8, <1>9 DEF cmd

\* One more entry, and what an entry is made of.
LEMMA EntriesGrow ==
  ASSUME NEW cmd, NEW list, NEW d \in Nat
  PROVE  /\ IsList(Entries(cmd, list, d), d)
         /\ Append(Entries(cmd, list, d), Heard(cmd, list[d + 1])) = Entries(cmd, list, d + 1)
<1> DEFINE s == Entries(cmd, list, d)
           t == Entries(cmd, list, d + 1)
           x == Heard(cmd, list[d + 1])
<1>1. IsList(s, d) /\ \A i \in 1..d : s[i] = Heard(cmd, list[i])
  BY DEF Entries, IsList
<1>2. IsList(t, d + 1) /\ \A i \in 1..(d + 1) : t[i] = Heard(cmd, list[i])
  BY DEF Entries, IsList
<1>3. x = Heard(cmd, list[d + 1])
  OBVIOUS
<1> HIDE DEF s, t, x
<1>4. /\ IsList(Append(s, x), d + 1) /\ Append(s, x)[d + 1] = x
      /\ \A i \in 1..d : Append(s, x)[i] = s[i]
  <2>1. Grown(s, d, x, Append(s, x))
    BY <1>1, ListAppend
  <2> QED
    BY <2>1, Zenon DEF Grown
<1>5. \A i \in 1..(d + 1) : i = d + 1 \/ i \in 1..d
  OBVIOUS
<1>6. \A i \in 1..(d + 1) : Append(s, x)[i] = t[i]
  BY <1>1, <1>2, <1>3, <1>4, <1>5
<1>7. Append(s, x) = t
  BY <1>2, <1>4, <1>6, ListsAlike
<1> QED
  BY <1>1, <1>7 DEF s, t, x

LEMMA HeardFields ==
  ASSUME NEW cmd, NEW a
  PROVE  /\ Heard(cmd, a) = [code |-> a.code, vendorId |-> Heard(cmd, a).vendorId,
                             type |-> TypeOf(cmd, a), data |-> Heard(cmd, a).data]
         /\ TypeOf(cmd, a) = "grouped" => Heard(cmd, a).data = Expected(cmd)[a.data]
BY DEF Heard, Meant, TypeOf

\* The next AVP, which is not a group, is read.
LEMMA DecodedAvp ==
  ASSUME IInv, Sent, Decoding, decodeAvp
  PROVE  stage' = "decode" /\ Decoding'
<1> DEFINE cmd == msg.cmd
           n == Len(reading)
<1>1. /\ cmd \in Cmds /\ n \in Nat /\ n >= 1 /\ pos \in Nat /\ n \in 1..n
  BY DecoderTypes DEF DecoderOK, Decoding
<1>2. PICK lists, done, starts :
        /\ Path(cmd, msg.avps, n, lists, done, starts)
        /\ Scanned(cmd, n, lists, done, starts, buf, pos, reading, decoded)
  BY DEF Decoding
<1> DEFINE a == Entered(lists, done, n)
           list == lists[n]
           d == done[n]
           more == With(done, n, done[n] + 1)
           new == Append(decoded[n], Heard(cmd, a))
<1>3. more = With(done, n, done[n] + 1) /\ a = list[d + 1] /\ a = Entered(lists, done, n)
  BY DEF Entered
<1>4. stage = "decode" /\ pos % 4 = 0 /\ pos < Scan.end /\ DataType # "grouped"
  BY DEF decodeAvp, IInv, WordAligned
<1>5. /\ d < Len(list) /\ a \in Avps /\ TypeOf(cmd, a) # "unknown"
      /\ Holds(buf, pos, Cell(cmd, a)) /\ At(5) = cmd
  <2> HIDE DEF a
  <2> QED
    BY <1>1, <1>2, <1>3, <1>4, AtAvp
<1> HIDE DEF a
<1>6. /\ avpCode = a.code /\ DataType = TypeOf(cmd, a) /\ VendorId = Heard(cmd, a).vendorId
      /\ NextAvp = pos + Len(Cell(cmd, a))
      /\ TypeOf(cmd, a) # "grouped" => avpData = Heard(cmd, a).data
  <2> HIDE DEF cmd
  <2> QED
    BY <1>1, <1>5, CellRead
<1>7. [code |-> avpCode, vendorId |-> VendorId, type |-> DataType, data |-> avpData] = Heard(cmd, a)
  BY <1>4, <1>6, HeardFields, Zenon
<1>8. IsList(decoded, n) /\ Len(decoded) = n
  BY <1>1, <1>2, ListType DEF Scanned
<1>9. /\ decoded' = [decoded EXCEPT ![n] = new]
      /\ pos' = pos + Len(Cell(cmd, a)) /\ stage' = "decode"
      /\ reading' = reading /\ buf' = buf /\ msg' = msg
  <2>1. decoded' = [decoded EXCEPT ![n] = Listed(@, avpCode, VendorId, DataType, avpData)]
    BY <1>4, <1>8 DEF decodeAvp
  <2>2. decoded' = [decoded EXCEPT ![n] = Listed(decoded[n], avpCode, VendorId, DataType, avpData)]
    BY <2>1
  <2>3. Listed(decoded[n], avpCode, VendorId, DataType, avpData) = new
    BY <1>7, Zenon DEF Listed
  <2> HIDE DEF new, n
  <2>4. decoded' = [decoded EXCEPT ![n] = new]
    BY <2>2, <2>3, Zenon
  <2> QED
    BY <1>4, <1>6, <2>4 DEF decodeAvp
<1> HIDE DEF cmd, n, more
<1>10. Advanced(cmd, msg.avps, n, lists, done, starts, a, more)
  BY <1>1, <1>2, <1>3, <1>5, PathAdvances
<1>11. /\ Path(cmd, msg.avps, n, lists, more, starts)
       /\ more[n] = done[n] + 1 /\ \A i \in 1..(n - 1) : more[i] = done[i]
       /\ Reached(cmd, lists, more, starts, n)
            = Reached(cmd, lists, done, starts, n) + Len(Cell(cmd, a))
  BY <1>10, Zenon DEF Advanced
<1>12. /\ IsList(decoded', n) /\ decoded'[n] = new
       /\ \A j \in 1..n : j # n => decoded'[j] = decoded[j]
  <2> HIDE DEF new
  <2>1. decoded' = With(decoded, n, new)
    BY <1>9, Zenon DEF With
  <2> QED
    BY <1>1, <1>8, <2>1, ListExcept
<1>13. new = Entries(cmd, lists[n], more[n])
  <2>1. decoded[n] = Entries(cmd, list, d)
    BY <1>1, <1>2, Zenon DEF Scanned
  <2>2. d \in Nat
    BY <1>1, <1>2, PathTypes
  <2>3. Append(Entries(cmd, list, d), Heard(cmd, list[d + 1])) = Entries(cmd, list, d + 1)
    <3> HIDE DEF list, d
    <3> QED
      BY <2>2, EntriesGrow
  <2> QED
    BY <1>3, <1>11, <2>1, <2>3, Zenon
<1>14. Scanned(cmd, n, lists, more, starts, buf, pos', reading, decoded')
  <2>1. pos' = Reached(cmd, lists, more, starts, n)
    BY <1>2, <1>9, <1>11, Zenon DEF Scanned
  <2>2. ASSUME NEW i \in 1..n
        PROVE  /\ reading[i].end = starts[i] + Len(Whole(cmd, lists[i]))
               /\ Holds(buf, starts[i], Whole(cmd, lists[i]))
               /\ decoded'[i] = Entries(cmd, lists[i], more[i])
    <3>1. /\ reading[i].end = starts[i] + Len(Whole(cmd, lists[i]))
          /\ Holds(buf, starts[i], Whole(cmd, lists[i]))
          /\ decoded[i] = Entries(cmd, lists[i], done[i])
      BY <1>2, Zenon DEF Scanned
    <3>2. i = n \/ (i \in 1..(n - 1) /\ i # n)
      BY <1>1
    <3> QED
      BY <1>11, <1>12, <1>13, <3>1, <3>2, Zenon
  <2>3. ASSUME NEW i \in 1..(n - 1)
        PROVE  /\ reading[i + 1].next = Reached(cmd, lists, more, starts, i)
                                          + Len(Cell(cmd, Entered(lists, more, i)))
               /\ reading[i + 1].code = Entered(lists, more, i).code
               /\ reading[i + 1].vendorId = Heard(cmd, Entered(lists, more, i)).vendorId
    <3>1. /\ Reached(cmd, lists, more, starts, i) = Reached(cmd, lists, done, starts, i)
          /\ Entered(lists, more, i) = Entered(lists, done, i)
      BY <1>11, Zenon DEF Reached, Entered
    <3> QED
      BY <1>2, <3>1, Zenon DEF Scanned
  <2> QED
    BY <1>12, <2>1, <2>2, <2>3, Zenon DEF Scanned
<1>15. Decoding'
  BY <1>1, <1>9, <1>11, <1>14, Zenon DEF Decoding, cmd, n
<1> QED
  BY <1>9, <1>15

\* A group is entered.
LEMMA DecodedGroup ==
  ASSUME IInv, Sent, Decoding, decodeGrouped
  PROVE  stage' = "decode" /\ Decoding'
<1> DEFINE cmd == msg.cmd
           n == Len(reading)
           frame == [code |-> avpCode, vendorId |-> VendorId,
                     end |-> DataPos + DataLen, next |-> NextAvp]
<1>1. /\ cmd \in Cmds /\ n \in Nat /\ n >= 1 /\ pos \in Nat /\ n \in 1..n
      /\ IsList(reading, n)
  BY DecoderTypes, LenProperties DEF DecoderOK, Decoding, IsList
<1>2. PICK lists, done, starts :
        /\ Path(cmd, msg.avps, n, lists, done, starts)
        /\ Scanned(cmd, n, lists, done, starts, buf, pos, reading, decoded)
  BY DEF Decoding
<1> DEFINE a == Entered(lists, done, n)
           inner == With(lists, n + 1, Known(cmd, a.data))
           more == With(done, n + 1, 0)
           from == With(starts, n + 1, Reached(cmd, lists, done, starts, n) + Hdr(cmd, a))
<1>3. a = Entered(lists, done, n)
  OBVIOUS
<1>4. /\ stage = "decode" /\ pos < Scan.end /\ DataType = "grouped"
      /\ reading' = Append(reading, frame) /\ decoded' = Append(decoded, <<>>)
      /\ pos' = DataPos /\ buf' = buf /\ msg' = msg /\ stage' = stage
  BY DEF decodeGrouped
<1>5. /\ done[n] < Len(lists[n]) /\ a \in Avps /\ TypeOf(cmd, a) # "unknown"
      /\ Holds(buf, pos, Cell(cmd, a)) /\ At(5) = cmd
  <2> HIDE DEF a
  <2> QED
    BY <1>1, <1>2, <1>3, <1>4, AtAvp
<1> HIDE DEF a, cmd, n
<1>6. /\ avpCode = a.code /\ DataType = TypeOf(cmd, a) /\ VendorId = Heard(cmd, a).vendorId
      /\ DataPos = pos + Hdr(cmd, a)
      /\ DataLen = DataLength(cmd, a, Wire(cmd)[a.data])
      /\ NextAvp = pos + Len(Cell(cmd, a))
      /\ Holds(buf, DataPos, DataOctets(cmd, a, Wire(cmd)[a.data]))
  BY <1>1, <1>5, CellRead
<1>7. TypeOf(cmd, a) = "grouped"
  BY <1>4, <1>6
<1>8. /\ DataLen = Len(Whole(cmd, Known(cmd, a.data)))
      /\ Holds(buf, DataPos, Whole(cmd, Known(cmd, a.data)))
  BY <1>1, <1>5, <1>6, <1>7, GroupCell DEF Whole
<1>9. pos = Reached(cmd, lists, done, starts, n) /\ IsList(decoded, n)
  BY <1>2, Zenon DEF Scanned
<1>10. Opened(cmd, msg.avps, n, lists, done, starts, a, inner, more, from)
  BY <1>1, <1>2, <1>3, <1>5, <1>7, PathOpens
<1> HIDE DEF inner, more, from, frame
<1>11. /\ Path(cmd, msg.avps, n + 1, inner, more, from)
       /\ \A i \in 1..n : inner[i] = lists[i] /\ more[i] = done[i] /\ from[i] = starts[i]
       /\ inner[n + 1] = Known(cmd, a.data) /\ more[n + 1] = 0
       /\ from[n + 1] = Reached(cmd, lists, done, starts, n) + Hdr(cmd, a)
       /\ Part(cmd, inner[n + 1], 0) = <<>>
  BY <1>10, Zenon DEF Opened
<1>12. from[n + 1] = DataPos
  BY <1>6, <1>9, <1>11, Zenon
<1>13. Grown(reading, n, frame, reading') /\ Grown(decoded, n, <<>>, decoded')
  BY <1>1, <1>4, <1>9, ListAppend
<1>14. /\ reading'[n + 1] = frame /\ IsList(reading', n + 1)
       /\ \A i \in 1..n : reading'[i] = reading[i]
       /\ decoded'[n + 1] = <<>> /\ IsList(decoded', n + 1)
       /\ \A i \in 1..n : decoded'[i] = decoded[i]
  BY <1>13, Zenon DEF Grown
<1>15. frame.code = a.code /\ frame.vendorId = Heard(cmd, a).vendorId
       /\ frame.end = DataPos + DataLen /\ frame.next = pos + Len(Cell(cmd, a))
  BY <1>6 DEF frame
<1>16. Scanned(cmd, n + 1, inner, more, from, buf, pos', reading', decoded')
  <2>1. pos' = Reached(cmd, inner, more, from, n + 1)
    <3>1. Len(Part(cmd, inner[n + 1], more[n + 1])) = 0
      BY <1>11, EmptySeq
    <3>2. Reached(cmd, inner, more, from, n + 1) = DataPos + 0
      BY <1>12, <3>1, Zenon DEF Reached
    <3>3. Hdr(cmd, a) \in {8, 12}
      BY <1>1, <1>5, CellShape
    <3>4. DataPos + 0 = DataPos
      BY <1>1, <1>6, <3>3
    <3> QED
      BY <1>4, <3>2, <3>4, Zenon
  <2>2. ASSUME NEW i \in 1..(n + 1)
        PROVE  /\ reading'[i].end = from[i] + Len(Whole(cmd, inner[i]))
               /\ Holds(buf, from[i], Whole(cmd, inner[i]))
               /\ decoded'[i] = Entries(cmd, inner[i], more[i])
    <3>1. CASE i = n + 1
      <4>1. Entries(cmd, inner[i], 0) = <<>>
        BY DEF Entries
      <4> QED
        BY <1>8, <1>11, <1>12, <1>14, <1>15, <3>1, <4>1, Zenon
    <3>2. CASE i # n + 1
      <4>1. i \in 1..n
        BY <1>1, <3>2
      <4>2. /\ reading[i].end = starts[i] + Len(Whole(cmd, lists[i]))
            /\ Holds(buf, starts[i], Whole(cmd, lists[i]))
            /\ decoded[i] = Entries(cmd, lists[i], done[i])
        BY <1>2, <4>1, Zenon DEF Scanned
      <4> QED
        BY <1>11, <1>14, <4>1, <4>2, Zenon
    <3> QED
      BY <3>1, <3>2
  <2>3. ASSUME NEW i \in 1..n
        PROVE  /\ reading'[i + 1].next = Reached(cmd, inner, more, from, i)
                                          + Len(Cell(cmd, Entered(inner, more, i)))
               /\ reading'[i + 1].code = Entered(inner, more, i).code
               /\ reading'[i + 1].vendorId = Heard(cmd, Entered(inner, more, i)).vendorId
    <3>1. /\ Reached(cmd, inner, more, from, i) = Reached(cmd, lists, done, starts, i)
          /\ Entered(inner, more, i) = Entered(lists, done, i)
      BY <1>11, Zenon DEF Reached, Entered
    <3>2. CASE i = n
      BY <1>3, <1>9, <1>14, <1>15, <3>1, <3>2, Zenon
    <3>3. CASE i # n
      <4>1. i \in 1..(n - 1) /\ i + 1 \in 1..n
        BY <1>1, <3>3
      <4> QED
        BY <1>2, <1>14, <3>1, <4>1, Zenon DEF Scanned
    <3> QED
      BY <3>2, <3>3
  <2>4. (n + 1) - 1 = n
    BY <1>1
  <2> QED
    BY <1>14, <2>1, <2>2, <2>3, <2>4, Zenon DEF Scanned
<1>17. Len(reading') = n + 1 /\ n + 1 >= 1
  BY <1>1, <1>14, ListType
<1>18. Decoding'
  BY <1>4, <1>11, <1>16, <1>17, Zenon DEF Decoding, cmd
<1> QED
  BY <1>4, <1>18

LEMMA EntriesWhole ==
  ASSUME NEW cmd \in Cmds, NEW list \in Seq(Avps)
  PROVE  Entries(cmd, Known(cmd, list), Len(Known(cmd, list))) = Expected(cmd)[list]
<1> DEFINE known == Known(cmd, list)
<1>1. known \in Seq(Avps)
  BY KnownIsKnown DEF KnownLists
<1>2. DOMAIN known = 1..Len(known)
  BY <1>1, LenProperties
<1>3. Expected(cmd)[list] = [i \in DOMAIN known |-> Heard(cmd, known[i])]
  BY ExpectedWorks
<1> HIDE DEF known
<1> QED
  BY <1>2, <1>3 DEF Entries, known

\* A group is finished: what was read of it is the data of its entry.
LEMMA DecodedGroupEnd ==
  ASSUME IInv, Sent, Decoding, decodeGroupEnd
  PROVE  stage' = "decode" /\ Decoding'
<1> DEFINE cmd == msg.cmd
           n == Len(reading)
           k == n - 1
           top == msg.avps
<1>1. /\ stage = "decode" /\ pos >= Scan.end /\ n > 1 /\ reading' = Front(reading)
      /\ decoded' = [Front(decoded) EXCEPT ![Len(decoded) - 1] =
                       Listed(@, Scan.code, Scan.vendorId, "grouped", Last(decoded))]
      /\ pos' = Scan.next /\ msg' = msg /\ stage' = stage /\ buf' = buf
  BY DEF decodeGroupEnd
<1>2. cmd \in Cmds /\ n \in Nat /\ pos \in Nat /\ IsList(reading, n) /\ Scan = reading[n]
  BY DecoderTypes, LenProperties DEF DecoderOK, IsList, Scan, Last
<1>3. /\ n >= 1 /\ n \in 1..n /\ k \in Nat /\ k >= 1 /\ k + 1 = n /\ k \in 1..k
      /\ k \in 1..(n - 1) /\ k \in 1..n /\ k - 1 = n - 2 /\ n - 1 = k
  BY <1>1, <1>2
<1>4. PICK lists, done, starts :
        /\ Path(cmd, top, n, lists, done, starts)
        /\ Scanned(cmd, n, lists, done, starts, buf, pos, reading, decoded)
  BY DEF Decoding
<1> DEFINE a == Entered(lists, done, k)
           more == With(done, k, done[k] + 1)
           new == Append(decoded[k], Heard(cmd, a))
<1>5. IsList(decoded, n) /\ Len(decoded) = n
  BY <1>2, <1>4, ListType DEF Scanned
<1>6. a = lists[k][done[k] + 1]
  BY DEF Entered
<1> HIDE DEF cmd, top, n, k
<1>7. done[n] = Len(lists[n])
  <2>1. /\ pos = Reached(cmd, lists, done, starts, n)
        /\ reading[n].end = starts[n] + Len(Whole(cmd, lists[n]))
    BY <1>3, <1>4, Zenon DEF Scanned
  <2>2. \/ done[n] = Len(lists[n])
        \/ Reached(cmd, lists, done, starts, n) < starts[n] + Len(Whole(cmd, lists[n]))
    BY <1>2, <1>3, <1>4, ListEnds, Zenon
  <2> DEFINE end == starts[n] + Len(Whole(cmd, lists[n]))
  <2>3. end \in Nat
    <3>1. lists[n] \in KnownLists(cmd)
      BY <1>3, <1>4 DEF Path
    <3>2. starts[n] \in Nat /\ Len(Whole(cmd, lists[n])) \in Nat
      BY <1>2, <1>3, <1>4, <3>1, PathTypes, WholeType
    <3> QED
      BY <3>2
  <2>4. pos >= end
    BY <1>1, <1>2, <2>1
  <2> HIDE DEF end
  <2>5. ~(pos < end)
    BY <1>2, <2>3, <2>4
  <2> QED
    BY <2>1, <2>2, <2>5, Zenon DEF end
<1>8. Closed(cmd, top, n, lists, done, starts, a, more)
  <2>1. Closed(cmd, top, n, lists, done, starts, Entered(lists, done, n - 1),
               With(done, n - 1, done[n - 1] + 1))
    BY <1>1, <1>2, <1>4, <1>7, PathCloses
  <2> QED
    BY <1>3, <2>1, Zenon
<1> HIDE DEF a, more, new
<1>9. /\ Path(cmd, top, k, lists, more, starts) /\ more[k] = done[k] + 1
      /\ \A i \in 1..(k - 1) : more[i] = done[i]
      /\ a \in Avps /\ TypeOf(cmd, a) = "grouped" /\ lists[n] = Known(cmd, a.data)
      /\ Reached(cmd, lists, more, starts, k)
           = Reached(cmd, lists, done, starts, k) + Len(Cell(cmd, a))
  BY <1>3, <1>8, Zenon DEF Closed
<1>10. /\ reading[n].code = a.code /\ reading[n].vendorId = Heard(cmd, a).vendorId
       /\ reading[n].next = Reached(cmd, lists, done, starts, k) + Len(Cell(cmd, a))
  <2>1. a = Entered(lists, done, k)
    BY DEF a
  <2>2. /\ reading[k + 1].next = Reached(cmd, lists, done, starts, k)
                                   + Len(Cell(cmd, Entered(lists, done, k)))
        /\ reading[k + 1].code = Entered(lists, done, k).code
        /\ reading[k + 1].vendorId = Heard(cmd, Entered(lists, done, k)).vendorId
    BY <1>3, <1>4, Zenon DEF Scanned
  <2> QED
    BY <1>3, <2>1, <2>2, Zenon
<1>11. /\ Shrunk(reading, n, reading') /\ Shrunk(decoded, n, Front(decoded)) /\ Last(decoded) = decoded[n]
  BY <1>1, <1>2, <1>3, <1>5, ListFront
<1>12. /\ IsList(reading', k) /\ \A i \in 1..k : reading'[i] = reading[i]
       /\ IsList(Front(decoded), k) /\ \A i \in 1..k : Front(decoded)[i] = decoded[i]
  BY <1>3, <1>11, Zenon DEF Shrunk
<1>13. Last(decoded) = Expected(cmd)[a.data]
  <2>1. decoded[n] = Entries(cmd, lists[n], done[n])
    BY <1>3, <1>4, Zenon DEF Scanned
  <2>2. a.data \in Seq(Avps)
    BY <1>2, <1>9, DataTypes
  <2>3. Entries(cmd, Known(cmd, a.data), Len(Known(cmd, a.data))) = Expected(cmd)[a.data]
    BY <1>2, <2>2, EntriesWhole
  <2> QED
    BY <1>7, <1>9, <1>11, <2>1, <2>3, Zenon
<1>14. [code |-> Scan.code, vendorId |-> Scan.vendorId, type |-> "grouped", data |-> Last(decoded)]
         = Heard(cmd, a)
  <2>1. Heard(cmd, a).data = Expected(cmd)[a.data]
    BY <1>9, HeardFields
  <2>2. Heard(cmd, a) = [code |-> a.code, vendorId |-> Heard(cmd, a).vendorId,
                         type |-> "grouped", data |-> Expected(cmd)[a.data]]
    <3>1. Heard(cmd, a) = [code |-> a.code, vendorId |-> Heard(cmd, a).vendorId,
                           type |-> TypeOf(cmd, a), data |-> Heard(cmd, a).data]
      BY HeardFields, Zenon
    <3> QED
      BY <1>9, <2>1, <3>1, Zenon
  <2>3. Scan.code = a.code /\ Scan.vendorId = Heard(cmd, a).vendorId
    BY <1>2, <1>10, Zenon
  <2> QED
    BY <1>13, <2>2, <2>3, Zenon
<1>15. decoded' = With(Front(decoded), k, new)
  <2>1. decoded' = [Front(decoded) EXCEPT ![k] =
                      Listed(Front(decoded)[k], Scan.code, Scan.vendorId, "grouped", Last(decoded))]
    BY <1>1, <1>3, <1>5
  <2>2. Listed(Front(decoded)[k], Scan.code, Scan.vendorId, "grouped", Last(decoded)) = new
    BY <1>3, <1>12, <1>14, Zenon DEF Listed, new
  <2> QED
    BY <2>1, <2>2, Zenon DEF With
<1>16. /\ IsList(decoded', k) /\ decoded'[k] = new
       /\ \A j \in 1..k : j # k => decoded'[j] = decoded[j]
  <2>1. /\ IsList(decoded', k) /\ decoded'[k] = new
        /\ \A j \in 1..k : j # k => decoded'[j] = Front(decoded)[j]
    BY <1>3, <1>12, <1>15, ListExcept
  <2> QED
    BY <1>12, <2>1, Zenon
<1>17. new = Entries(cmd, lists[k], more[k])
  <2>1. decoded[k] = Entries(cmd, lists[k], done[k])
    BY <1>3, <1>4, Zenon DEF Scanned
  <2>2. done[k] \in Nat
    BY <1>2, <1>3, <1>4, PathTypes
  <2> DEFINE list == lists[k]
             d == done[k]
  <2>3. Append(Entries(cmd, list, d), Heard(cmd, list[d + 1])) = Entries(cmd, list, d + 1)
    <3> HIDE DEF list, d
    <3> QED
      BY <2>2, EntriesGrow DEF d
  <2> QED
    BY <1>6, <1>9, <2>1, <2>3, Zenon DEF new
<1>18. Scanned(cmd, k, lists, more, starts, buf, pos', reading', decoded')
  <2>1. pos' = Reached(cmd, lists, more, starts, k)
    BY <1>1, <1>2, <1>9, <1>10, Zenon
  <2>2. ASSUME NEW i \in 1..k
        PROVE  /\ reading'[i].end = starts[i] + Len(Whole(cmd, lists[i]))
               /\ Holds(buf, starts[i], Whole(cmd, lists[i]))
               /\ decoded'[i] = Entries(cmd, lists[i], more[i])
    <3>1. i \in 1..n /\ (i = k \/ (i \in 1..(k - 1) /\ i # k))
      BY <1>3
    <3>2. /\ reading[i].end = starts[i] + Len(Whole(cmd, lists[i]))
          /\ Holds(buf, starts[i], Whole(cmd, lists[i]))
          /\ decoded[i] = Entries(cmd, lists[i], done[i])
      BY <1>4, <3>1, Zenon DEF Scanned
    <3> QED
      BY <1>9, <1>12, <1>16, <1>17, <3>1, <3>2, Zenon
  <2>3. ASSUME NEW i \in 1..(k - 1)
        PROVE  /\ reading'[i + 1].next = Reached(cmd, lists, more, starts, i)
                                          + Len(Cell(cmd, Entered(lists, more, i)))
               /\ reading'[i + 1].code = Entered(lists, more, i).code
               /\ reading'[i + 1].vendorId = Heard(cmd, Entered(lists, more, i)).vendorId
    <3>1. /\ Reached(cmd, lists, more, starts, i) = Reached(cmd, lists, done, starts, i)
          /\ Entered(lists, more, i) = Entered(lists, done, i)
      BY <1>9, Zenon DEF Reached, Entered
    <3>2. i \in 1..(n - 1) /\ i + 1 \in 1..k
      BY <1>3
    <3> QED
      BY <1>4, <1>12, <3>1, <3>2, Zenon DEF Scanned
  <2> QED
    BY <1>16, <2>1, <2>2, <2>3, Zenon DEF Scanned
<1>19. Len(reading') = k
  BY <1>3, <1>12, ListType
<1>20. Decoding'
  BY <1>1, <1>3, <1>9, <1>18, <1>19, Zenon DEF Decoding, cmd, top
<1> QED
  BY <1>1, <1>20

\* The message is read.
LEMMA DecodedEnd ==
  ASSUME IInv, Sent, Decoding, decodeEnd
  PROVE  stage' = "done" /\ decoded'[1] = Expected(msg.cmd)[msg.avps]
<1> DEFINE cmd == msg.cmd
           top == msg.avps
<1>1. /\ pos >= Scan.end /\ Len(reading) = 1 /\ stage' = "done" /\ decoded' = decoded
  BY DEF decodeEnd
<1>2. cmd \in Cmds /\ top \in Seq(Avps) /\ pos \in Nat /\ Scan = reading[1]
  BY <1>1, DecoderTypes DEF DecoderOK, Scan, Last
<1>3. PICK lists, done, starts :
        /\ Path(cmd, top, 1, lists, done, starts)
        /\ Scanned(cmd, 1, lists, done, starts, buf, pos, reading, decoded)
  BY <1>1 DEF Decoding
<1>4. 1 \in Nat /\ 1 >= 1 /\ 1 \in 1..1
  OBVIOUS
<1> HIDE DEF cmd, top
<1>5. /\ pos = Reached(cmd, lists, done, starts, 1)
      /\ reading[1].end = starts[1] + Len(Whole(cmd, lists[1]))
      /\ decoded[1] = Entries(cmd, lists[1], done[1])
      /\ lists[1] = Known(cmd, top)
  BY <1>3, <1>4, Zenon DEF Scanned, Path
<1>6. done[1] = Len(lists[1])
  <2>1. \/ done[1] = Len(lists[1])
        \/ Reached(cmd, lists, done, starts, 1) < starts[1] + Len(Whole(cmd, lists[1]))
    BY <1>2, <1>3, <1>4, ListEnds, Zenon
  <2> DEFINE end == starts[1] + Len(Whole(cmd, lists[1]))
  <2>2. end \in Nat
    <3>1. lists[1] \in KnownLists(cmd)
      BY <1>3, <1>4 DEF Path
    <3>2. starts[1] \in Nat /\ Len(Whole(cmd, lists[1])) \in Nat
      BY <1>2, <1>3, <1>4, <3>1, PathTypes, WholeType
    <3> QED
      BY <3>2
  <2>3. pos >= end
    BY <1>1, <1>2, <1>5
  <2> HIDE DEF end
  <2>4. ~(pos < end)
    BY <1>2, <2>2, <2>3
  <2> QED
    BY <1>5, <2>1, <2>4, Zenon DEF end
<1>7. Entries(cmd, Known(cmd, top), Len(Known(cmd, top))) = Expected(cmd)[top]
  BY <1>2, EntriesWhole
<1> QED
  BY <1>1, <1>5, <1>6, <1>7, Zenon DEF cmd, top

\* No group ends behind the list it stands in.
LEMMA DecodingInside == IInv /\ Decoding => StaysInside
<1> SUFFICES ASSUME IInv, Decoding PROVE StaysInside
  OBVIOUS
<1> DEFINE cmd == msg.cmd
           n == Len(reading)
<1>1. cmd \in Cmds /\ n \in Nat /\ n >= 1 /\ n \in 1..n /\ Scan = reading[n]
  BY DecoderTypes DEF DecoderOK, Decoding, Scan, Last
<1>2. PICK lists, done, starts :
        /\ Path(cmd, msg.avps, n, lists, done, starts)
        /\ Scanned(cmd, n, lists, done, starts, buf, pos, reading, decoded)
  BY DEF Decoding
<1> HIDE DEF cmd, n
<1>3. \A i \in 1..n : reading[i].end = starts[i] + Len(Whole(cmd, lists[i]))
  BY <1>2, Zenon DEF Scanned
<1>4. pos <= Scan.end
  <2>1. pos = Reached(cmd, lists, done, starts, n)
    BY <1>2, Zenon DEF Scanned
  <2>2. Reached(cmd, lists, done, starts, n) <= starts[n] + Len(Whole(cmd, lists[n]))
    BY <1>1, <1>2, ListEnds, Zenon
  <2> QED
    BY <1>1, <1>3, <2>1, <2>2, Zenon
<1>5. ASSUME NEW i \in 2..n
      PROVE  reading[i].next <= reading[i - 1].end /\ reading[i].end <= reading[i].next
  <2> DEFINE k == i - 1
             a == Entered(lists, done, k)
             at == Reached(cmd, lists, done, starts, k)
  <2>1. k \in 1..n /\ k \in 1..(n - 1) /\ k + 1 = i /\ i \in 1..n
    BY <1>1
  <2>2. a = Entered(lists, done, k) /\ at = Reached(cmd, lists, done, starts, k)
    OBVIOUS
  <2> HIDE DEF k, a, at
  <2>3. /\ done[k] < Len(lists[k]) /\ TypeOf(cmd, a) = "grouped"
        /\ lists[i] = Known(cmd, a.data) /\ starts[i] = at + Hdr(cmd, a)
    BY <1>2, <2>1, <2>2 DEF Path
  <2>4. reading[i].next = at + Len(Cell(cmd, a))
    <3>1. reading[k + 1].next = Reached(cmd, lists, done, starts, k)
                                  + Len(Cell(cmd, Entered(lists, done, k)))
      BY <1>2, <2>1, Zenon DEF Scanned
    <3> QED
      BY <2>1, <2>2, <3>1, Zenon
  <2>5. at + Len(Cell(cmd, a)) <= reading[k].end
    <3>1. Reached(cmd, lists, done, starts, k) + Len(Cell(cmd, Entered(lists, done, k)))
            <= starts[k] + Len(Whole(cmd, lists[k]))
      BY <1>1, <1>2, <2>1, <2>3, ListEnds, Zenon
    <3> QED
      BY <1>3, <2>1, <2>2, <3>1, Zenon
  <2>6. a \in Avps /\ at \in Nat
    BY <1>1, <1>2, <2>1, <2>2, <2>3, PathTypes
  <2>7. Len(Cell(cmd, a)) = Hdr(cmd, a) + Len(Whole(cmd, lists[i]))
    BY <1>1, <2>3, <2>6, GroupCell DEF Whole
  <2>8. Hdr(cmd, a) \in {8, 12} /\ Len(Whole(cmd, lists[i])) \in Nat
    <3>1. lists[i] \in KnownLists(cmd)
      BY <1>2, <2>1 DEF Path
    <3> QED
      BY <1>1, <2>3, <2>6, <3>1, WholeType, CellShape
  <2>9. reading[i].end = reading[i].next
    <3> DEFINE whole == Len(Whole(cmd, lists[i]))
               hdr == Hdr(cmd, a)
    <3>1. reading[i].end = (at + hdr) + whole /\ reading[i].next = at + (hdr + whole)
      BY <1>3, <2>1, <2>3, <2>4, <2>7
    <3>2. hdr \in Nat /\ whole \in Nat
      BY <2>8
    <3> HIDE DEF hdr, whole
    <3> QED
      BY <2>6, <3>1, <3>2
  <2>10. reading[i].next \in Nat
    BY <2>4, <2>6, <2>7, <2>8
  <2>11. reading[i].next <= reading[k].end
    BY <2>4, <2>5, Zenon
  <2> QED
    BY <2>9, <2>10, <2>11 DEF k
<1> QED
  BY <1>4, <1>5 DEF StaysInside, n

(***************************************************************************)
(* The theorems                                                            *)
(***************************************************************************)
\* What the buffer and the lists hold at each stage.
Wired ==
  /\ stage = "encode" => Encoded
  /\ stage \in {"sent", "decode", "done"} => Sent
  /\ stage = "decode" => Decoding
  /\ RoundTrip

LEMMA WiredInit == Init => Wired
<1> SUFFICES ASSUME Init PROVE Wired
  OBVIOUS
<1>1. stage = "encode"
  BY DEF Init
<1> QED
  BY <1>1, EncodedInit DEF Wired, RoundTrip

LEMMA SentStays ==
  ASSUME Sent, UNCHANGED <<msg, buf>>
  PROVE  Sent'
BY DEF Sent, At, RequestFlag

LEMMA WiredStep == IInv /\ Wired /\ [Next]_codecVars => Wired'
<1> SUFFICES ASSUME IInv, Wired, [Next]_codecVars PROVE Wired'
  OBVIOUS
<1>1. CASE encodeStr \/ encodeInt32 \/ encodeInt64
  <2>1. stage = "encode" /\ stage' = "encode"
    BY <1>1 DEF encodeStr, encodeInt32, encodeInt64, Encodes, Returned
  <2> QED
    BY <1>1, <2>1, EncodedSimple DEF Wired, RoundTrip
<1>2. CASE encodeUnknown
  <2>1. stage = "encode" /\ stage' = "encode"
    BY <1>2 DEF encodeUnknown, Encodes, Returned
  <2> QED
    BY <1>2, <2>1, EncodedUnknown DEF Wired, RoundTrip
<1>3. CASE encodeGrouped
  <2>1. stage = "encode" /\ stage' = "encode"
    BY <1>3 DEF encodeGrouped, Encodes
  <2> QED
    BY <1>3, <2>1, EncodedGroup DEF Wired, RoundTrip
<1>4. CASE encodeGroupedEnd
  <2>1. stage = "encode" /\ stage' = "encode"
    BY <1>4 DEF encodeGroupedEnd
  <2> QED
    BY <1>4, <2>1, EncodedGroupEnd DEF Wired, RoundTrip
<1>5. CASE encodeFails
  <2>1. stage' = "refused"
    BY <1>5 DEF encodeFails
  <2> QED
    BY <2>1 DEF Wired, RoundTrip
<1>6. CASE encodeHdr
  <2>1. stage = "encode" /\ stage' = "sent"
    BY <1>6 DEF encodeHdr
  <2> QED
    BY <1>6, <2>1, EncodedEnd DEF Wired, RoundTrip
<1>7. CASE decodeHdr
  <2>1. stage = "sent" /\ stage' = "decode" /\ UNCHANGED <<msg, buf>>
    BY <1>7 DEF decodeHdr
  <2>2. Sent /\ Sent'
    BY <2>1, SentStays DEF Wired
  <2> QED
    BY <1>7, <2>1, <2>2, DecodedStart DEF Wired, RoundTrip
<1>8. CASE decodeAvp \/ decodeGrouped \/ decodeGroupEnd
  <2>1. stage = "decode" /\ UNCHANGED <<msg, buf>>
    BY <1>8 DEF decodeAvp, decodeGrouped, decodeGroupEnd
  <2>2. Sent /\ Sent' /\ Decoding
    BY <2>1, SentStays DEF Wired
  <2>3. stage' = "decode" /\ Decoding'
    BY <1>8, <2>2, DecodedAvp, DecodedGroup, DecodedGroupEnd
  <2> QED
    BY <2>2, <2>3 DEF Wired, RoundTrip
<1>9. CASE decodeEnd
  <2>1. stage = "decode" /\ UNCHANGED <<msg, buf>>
    BY <1>9 DEF decodeEnd
  <2>2. Sent /\ Sent' /\ Decoding
    BY <2>1, SentStays DEF Wired
  <2>3. stage' = "done" /\ decoded'[1] = Expected(msg.cmd)[msg.avps]
    BY <1>9, <2>2, DecodedEnd
  <2> QED
    BY <2>1, <2>2, <2>3 DEF Wired, RoundTrip
<1>10. CASE UNCHANGED codecVars
  <2>1. UNCHANGED <<msg, stage, building, status, reading, decoded, buf, pos>>
    BY <1>10 DEF codecVars
  <2> QED
    BY <2>1 DEF Wired, RoundTrip, Encoded, Decoding, Sent, At, RequestFlag
<1> QED
  BY <1>1, <1>2, <1>3, <1>4, <1>5, <1>6, <1>7, <1>8, <1>9, <1>10 DEF Next, Encode, Decode

THEOREM WiredAlways == Spec => []Wired
<1>1. IInv /\ [Next]_codecVars /\ Wired => Wired'
  BY WiredStep
<1> QED
  BY <1>1, WiredInit, Invariance, PTL DEF Spec

\* What the peer has decoded in the end is what was encoded: one entry for each AVP
\* of a dictionary, with its type, vendor and data, in their order, whatever the message
\* and however its groups are nested (diaMsg_encode, diaMsg_decode, diaAvp.c).
THEOREM DecodesWhatWasEncoded == Spec => []RoundTrip
<1>1. Wired => RoundTrip
  BY DEF Wired
<1> QED
  BY <1>1, WiredAlways, PTL

\* The decoder never reads behind the message, nor behind the group it is in, and a
\* group ends where the decoder goes on (diaMsg_decode, diaAvp_decodeGroup).
THEOREM NeverOutside == Spec => []StaysInside
<1>1. IInv /\ Wired => StaysInside
  BY DecodingInside DEF Wired, StaysInside
<1> QED
  BY <1>1, Invariance, WiredAlways, PTL
=============================================================================
