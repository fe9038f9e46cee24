------------------------------ MODULE DiaCodec ------------------------------
(***************************************************************************)
(* Encoding and decoding of messages (common/src/diaMsg.c, diaAvp.c) with  *)
(* the AVP dictionaries of diaAvpHelper.c and diaCx.c. A message is a list *)
(* of AVPs, an AVP a number, a string or a group of AVPs; the encoder      *)
(* writes it at a position of a buffer, and the decoder of the peer reads  *)
(* it from there. One action is one call of an encoding or decoding        *)
(* function; a call inside another is a frame of the stacks below.         *)
(*                                                                         *)
(* The buffer holds numbers at byte positions. A 32-bit word stands at its *)
(* first byte, except the word of flags and length, which is two numbers.  *)
(* Of the flags only R of the message and V of the AVP are kept.           *)
(***************************************************************************)
EXTENDS Integers, SequencesExt

CONSTANTS
  Messages,   \* [cmd |-> a command code, isReq |-> flag R, avps |-> the AVPs to send, ...]
  Avps,       \* the AVPs of the messages and of their groups: [code |-> , data |-> ]
  Depth,      \* how deep the groups inside each of these AVPs are nested
  MaxDepth    \* bound: how deep they are nested at most

VARIABLES
  msg,       \* the message that is sent
  stage,     \* "encode", "sent", "decode", "done", or "refused"
  building,  \* the calls of diaMsg_encode and diaAvp_encodeGrouped in progress
  status,    \* what the last diaAvp_encode returned
  reading,   \* the calls of diaMsg_decode and diaAvp_decodeGroup in progress
  decoded,   \* the list of AVPs each of these calls has so far
  buf,       \* pDiaBuf->buf, up to pDiaBuf->end
  pos        \* pDiaBuf->pos

codecVars == <<msg, stage, building, status, reading, decoded, buf, pos>>

HdrLen == 20        \* DIA_MSG_AVP_START
NoVendor == -1      \* 0xffffffff

\* The elements of a list at some of its positions, in their order. (This is how
\* every list is searched here: the proof system does not know SelectSeq.)
Those(list, at) ==
  LET f[n \in 0..Len(list)] ==
        IF n = 0 THEN <<>>
        ELSE IF n \in at THEN Append(f[n - 1], list[n]) ELSE f[n - 1]
  IN  f[Len(list)]

(***************************************************************************)
(* The dictionaries: the codes of each data type. Strings, addresses,      *)
(* identities and times are octets, signed and unsigned alike.             *)
(***************************************************************************)
BaseTypes ==
  [uint32  |-> {27, 85, 258, 259, 261, 262, 265, 266, 267, 268, 270, 271, 272, 273, 274,
                276, 277, 278, 285, 291, 295, 298, 299, 480, 483, 485},
   uint64  |-> {287},
   octets  |-> {1, 25, 33, 44, 50, 55, 257, 263, 264, 269, 280, 281, 282, 283, 292, 293,
                294, 296, 1263},
   grouped |-> {260, 279, 284, 297}]

CxTypes ==
  [uint32  |-> {604, 605, 607, 613, 629, 630, 637, 653, 654, 655, 659},
   enum    |-> {614, 616, 623, 624, 633, 638, 648, 650, 652, 706, 714},
   octets  |-> {600, 601, 602, 606, 608, 609, 610, 611, 617, 619, 620, 621, 622, 625, 626,
                634, 640, 641, 643, 644, 645, 646, 657, 658, 661},
   grouped |-> {603, 612, 615, 618, 628, 631, 632, 635, 639, 642, 647, 649, 651, 656, 660,
                720}]

\* Three of these codes are in the Cx table too, which is asked first.
CxReusedTypes ==
  [octets |-> {8, 97, 104, 110, 111, 121}, enum |-> {301}, grouped |-> {621, 623, 650}]

CxCmds == {300, 301, 302, 303, 304, 305}

TypeIn(table, code) ==
  IF \E t \in DOMAIN table : code \in table[t]
    THEN CHOOSE t \in DOMAIN table : code \in table[t]
    ELSE "unknown"

diaGetAvpInfo(cmd, code) ==
  LET isCx   == cmd \in CxCmds
      inCx   == isCx /\ TypeIn(CxTypes, code) # "unknown"
      reused == isCx /\ ~inCx /\ TypeIn(CxReusedTypes, code) # "unknown"
  IN  [type   |-> TypeIn(IF inCx THEN CxTypes ELSE IF reused THEN CxReusedTypes
                         ELSE BaseTypes, code),
       vendor |-> inCx \/ (~reused /\ code = 1263),
       id     |-> IF isCx THEN 10415 ELSE 0]

\* The data of an AVP is what the union diaEncodeAvpData_u holds for its type. A group
\* is built from AVPs that exist already, so that no AVP is inside itself.
ASSUME CodecAssumption ==
  /\ MaxDepth \in Nat /\ Depth \in [Avps -> 0..MaxDepth]
  /\ \A m \in Messages : m.cmd \in Nat /\ m.isReq \in BOOLEAN /\ m.avps \in Seq(Avps)
  /\ \A cmd \in {m.cmd : m \in Messages}, a \in Avps :
       LET type == diaGetAvpInfo(cmd, a.code).type
       IN  /\ a.code \in Nat
           /\ type = "octets" => a.data \in Seq(Nat)
           /\ type \in {"uint32", "uint64", "enum"} => a.data \in Nat
           /\ type = "grouped" =>
                a.data \in Seq(Avps) /\ \A i \in DOMAIN a.data : Depth[a.data[i]] < Depth[a]

(***************************************************************************)
(* The buffer (osMBuf), as the code relies on it.                          *)
(***************************************************************************)
\* Writing at a position behind the end leaves a gap that is filled later.
Put(b, at, bytes) ==
  [i \in 1..(IF at + Len(bytes) > Len(b) THEN at + Len(bytes) ELSE Len(b)) |->
     IF i - at \in DOMAIN bytes THEN bytes[i - at]
     ELSE IF i \in DOMAIN b THEN b[i] ELSE 0]

\* What stands at a position; the memory behind the message reads as 0.
At(p) == IF p + 1 \in DOMAIN buf THEN buf[p + 1] ELSE 0

U32(v) == <<v, 0, 0, 0>>
U64(v) == U32(v) \o U32(0)

\* What is missing to the next 4-byte boundary.
Padding(len) == IF len % 4 = 0 THEN 0 ELSE 4 - (len % 4)

AvpHdrLen(vendor) == IF vendor THEN 12 ELSE 8
AvpHdr(info, code, len) ==
  U32(code) \o <<IF info.vendor THEN 1 ELSE 0, len, 0, 0>>
            \o (IF info.vendor THEN U32(info.id) ELSE <<>>)

-----------------------------------------------------------------------------
(***************************************************************************)
(* diaMsg_encode and diaAvp_encode                                         *)
(***************************************************************************)
Call == Last(building)
Info(code) == diaGetAvpInfo(msg.cmd, code)

\* diaAvp_encode is called for the next AVP of the innermost call, and the AVP is
\* of one of these types. The AVPs of a group go on whatever the last one returned.
Encodes(types) ==
  /\ stage = "encode" /\ Call.rest # <<>>
  /\ Len(building) = 1 => status = "OK"
  /\ Info(Head(Call.rest).code).type \in types

Returned(result) ==
  /\ building' = [building EXCEPT ![Len(building)].rest = Tail(@)]
  /\ status' = result
  /\ UNCHANGED <<msg, stage, reading, decoded>>

\* The AVP Length counts the header and the data, not the padding.
WriteAvp(len, data) ==
  LET code  == Head(Call.rest).code
      bytes == AvpHdr(Info(code), code, AvpHdrLen(Info(code).vendor) + len) \o data
  IN  buf' = Put(buf, pos, bytes) /\ pos' = pos + Len(bytes)

encodeStr_Unpadded ==
  /\ Encodes({"octets"})
  /\ LET str == Head(Call.rest).data IN WriteAvp(Len(str), str)
  /\ Returned("OK")

encodeStr_PaddingCounts ==
  /\ Encodes({"octets"})
  /\ LET str == Head(Call.rest).data
         l   == Len(str) + Padding(Len(str))
     IN  WriteAvp(l, str \o [i \in 1..Padding(Len(str)) |-> 0])
  /\ Returned("OK")

encodeStr ==
  /\ Encodes({"octets"})
  /\ LET str == Head(Call.rest).data
     IN  WriteAvp(Len(str), str \o [i \in 1..Padding(Len(str)) |-> 0])
  /\ Returned("OK")

encodeInt32 ==
  /\ Encodes({"uint32", "enum"})
  /\ WriteAvp(4, U32(Head(Call.rest).data))
  /\ Returned("OK")

encodeInt64 ==
  /\ Encodes({"uint64"})
  /\ WriteAvp(8, U64(Head(Call.rest).data))
  /\ Returned("OK")

encodeUnknown_Passes ==
  /\ Encodes({"unknown"})
  /\ Returned("OK")
  /\ UNCHANGED <<buf, pos>>

encodeUnknown ==
  /\ Encodes({"unknown"})
  /\ Returned("INVALID_VALUE")
  /\ UNCHANGED <<buf, pos>>

\* Room is left for the header, which is written when the length is known.
encodeGrouped ==
  /\ Encodes({"grouped"})
  /\ LET avp == Head(Call.rest) IN
       /\ building' = Append([building EXCEPT ![Len(building)].rest = Tail(@)],
                             [code |-> avp.code, start |-> pos, rest |-> avp.data])
       /\ pos' = pos + AvpHdrLen(Info(avp.code).vendor)
  /\ status' = "OK"
  /\ UNCHANGED <<msg, stage, reading, decoded, buf>>

encodeGroupedEnd_DataOnly ==
  /\ stage = "encode" /\ Len(building) > 1 /\ Call.rest = <<>>
  /\ LET info == Info(Call.code)
     IN  buf' = Put(buf, Call.start,
                    AvpHdr(info, Call.code, pos - Call.start - AvpHdrLen(info.vendor)))
  /\ building' = Front(building)
  /\ UNCHANGED <<msg, stage, reading, decoded, status, pos>>

encodeGroupedEnd_Reversed ==
  /\ stage = "encode" /\ Len(building) > 1 /\ Call.rest = <<>>
  /\ buf' = Put(buf, Call.start, AvpHdr(Info(Call.code), Call.code, Call.start - pos))
  /\ building' = Front(building)
  /\ UNCHANGED <<msg, stage, reading, decoded, status, pos>>

\* What the last AVP of the group returned is what the group returns.
encodeGroupedEnd ==
  /\ stage = "encode" /\ Len(building) > 1 /\ Call.rest = <<>>
  /\ buf' = Put(buf, Call.start, AvpHdr(Info(Call.code), Call.code, pos - Call.start))
  /\ building' = Front(building)
  /\ UNCHANGED <<msg, stage, reading, decoded, status, pos>>

\* An AVP of the message itself that fails ends the message.
encodeFails ==
  /\ stage = "encode" /\ Len(building) = 1 /\ status # "OK"
  /\ stage' = "refused"
  /\ buf' = <<>>
  /\ UNCHANGED <<msg, building, status, reading, decoded, pos>>

encodeHdr ==
  /\ stage = "encode" /\ Len(building) = 1 /\ status = "OK" /\ Call.rest = <<>>
  /\ LET R == IF msg.isReq THEN 1 ELSE 0
     IN  buf' = Put(buf, 0, <<1, pos, 0, 0, R, msg.cmd, 0, 0>> \o U32(0) \o U64(0))
  /\ stage' = "sent"
  /\ UNCHANGED <<msg, building, status, reading, decoded, pos>>

-----------------------------------------------------------------------------
(***************************************************************************)
(* diaMsg_decode and diaAvp_decode, of the peer                            *)
(***************************************************************************)
Scan == Last(reading)

decodeHdr ==
  /\ stage = "sent"
  /\ stage' = "decode"
  /\ reading' = <<[code |-> 0, vendorId |-> NoVendor, end |-> Len(buf), next |-> 0]>>
  /\ decoded' = <<<<>>>>
  /\ pos' = HdrLen
  /\ UNCHANGED <<msg, building, status, buf>>

\* What the receiver tells a request from an answer by.
RequestFlag == At(4) = 1

\* The AVP at pos: its header, and its data type by the command of the message.
avpCode == At(pos)
avpLen == At(pos + 5)
HasVendor == At(pos + 4) = 1
DataPos == pos + AvpHdrLen(HasVendor)
DataLen == avpLen - AvpHdrLen(HasVendor)
VendorId == IF HasVendor THEN At(pos + 8) ELSE NoVendor
DataType == diaGetAvpInfo(At(5), avpCode).type
NextAvp == pos + avpLen + Padding(avpLen)

\* There is no case for an enumeration: its data stays 0, as for unknown codes.
avpData ==
  CASE DataType = "octets"             -> [i \in 1..DataLen |-> At(DataPos + i - 1)]
    [] DataType \in {"uint32", "uint64"} -> At(DataPos)
    [] OTHER                           -> 0

Listed(list, code, vendorId, type, data) ==
  Append(list, [code |-> code, vendorId |-> vendorId, type |-> type, data |-> data])

\* A position off the 4-byte boundary is an error, which ends the message but not
\* a group.
decodeAvp ==
  /\ stage = "decode" /\ pos < Scan.end
  /\ DataType # "grouped" \/ pos % 4 # 0
  /\ IF pos % 4 = 0
       THEN /\ decoded' = [decoded EXCEPT ![Len(decoded)] =
                             Listed(@, avpCode, VendorId, DataType, avpData)]
            /\ pos' = NextAvp
            /\ UNCHANGED stage
       ELSE /\ stage' = IF Len(reading) = 1 THEN "refused" ELSE stage
            /\ UNCHANGED <<decoded, pos>>
  /\ UNCHANGED <<msg, building, status, reading, buf>>

decodeGrouped ==
  /\ stage = "decode" /\ pos < Scan.end
  /\ DataType = "grouped" /\ pos % 4 = 0
  /\ reading' = Append(reading, [code |-> avpCode, vendorId |-> VendorId,
                                 end |-> DataPos + DataLen, next |-> NextAvp])
  /\ decoded' = Append(decoded, <<>>)
  /\ pos' = DataPos
  /\ UNCHANGED <<msg, stage, building, status, buf>>

\* The second decoding of a group inside a group finds its buffer at the end.
decodeGroupEnd ==
  /\ stage = "decode" /\ pos >= Scan.end /\ Len(reading) > 1
  /\ reading' = Front(reading)
  /\ decoded' = [Front(decoded) EXCEPT ![Len(decoded) - 1] =
                   Listed(@, Scan.code, Scan.vendorId, "grouped", Last(decoded))]
  /\ pos' = Scan.next
  /\ UNCHANGED <<msg, stage, building, status, buf>>

decodeEnd ==
  /\ stage = "decode" /\ pos >= Scan.end /\ Len(reading) = 1
  /\ stage' = "done"
  /\ UNCHANGED <<msg, building, status, reading, decoded, buf, pos>>

-----------------------------------------------------------------------------
Init ==
  /\ msg \in Messages
  /\ stage = "encode"
  /\ building = <<[code |-> 0, start |-> 0, rest |-> msg.avps]>>
  /\ status = "OK"
  /\ reading = <<>>
  /\ decoded = <<>>
  /\ buf = <<>>
  /\ pos = HdrLen

Encode ==
  \/ encodeStr \/ encodeInt32 \/ encodeInt64 \/ encodeUnknown
  \/ encodeGrouped \/ encodeGroupedEnd \/ encodeFails \/ encodeHdr
Decode == decodeHdr \/ decodeAvp \/ decodeGrouped \/ decodeGroupEnd \/ decodeEnd
Next == Encode \/ Decode

Spec == Init /\ [][Next]_codecVars

-----------------------------------------------------------------------------
\* What the decoded lists hold is for RoundTrip to say.
TypeOK ==
  /\ msg \in Messages
  /\ stage \in {"encode", "sent", "decode", "done", "refused"}
  /\ \A i \in DOMAIN building : building[i].code \in Nat /\ building[i].start \in Nat
  /\ status \in {"OK", "INVALID_VALUE"}
  /\ reading \in Seq([code : Nat, vendorId : Nat \cup {NoVendor}, end : Int, next : Nat])
  /\ buf \in Seq(Nat)
  /\ pos \in Nat

\* Every AVP is written and looked for at a 4-byte boundary, so that the only
\* error of the decoder, whose path frees the buffer twice (diaMsg_decode and then
\* diaMgr_onMsg), is never met.
WordAligned == pos % 4 = 0

\* The decoder stays inside the message, and inside every group of it.
StaysInside ==
  stage = "decode" =>
    /\ pos <= Scan.end
    /\ \A i \in 2..Len(reading) :
         reading[i].next <= reading[i - 1].end /\ reading[i].end <= reading[i].next

\* What the decoder is to give for a list of AVPs: each with its type, vendor and
\* data, without those of a group that cannot be encoded, and without the value of
\* an enumeration.
Known(cmd, list) ==
  Those(list, {i \in DOMAIN list : diaGetAvpInfo(cmd, list[i].code).type # "unknown"})
Meant(cmd, a, group) ==
  LET info == diaGetAvpInfo(cmd, a.code)
  IN  [code |-> a.code,
       vendorId |-> IF info.vendor THEN info.id ELSE NoVendor,
       type |-> info.type,
       data |-> CASE info.type = "grouped" -> group
                  [] info.type = "enum"    -> 0
                  [] OTHER                 -> a.data]
Expected(cmd) ==
  LET list[avps \in Seq(Avps)] ==
        [i \in DOMAIN Known(cmd, avps) |->
           LET a == Known(cmd, avps)[i] IN Meant(cmd, a, list[a.data])]
  IN  list

\* The peer decodes what was encoded, at any nesting of groups and any padding.
RoundTrip == stage = "done" => decoded[1] = Expected(msg.cmd)[msg.avps]

\* A message is never sent without one of its own AVPs. It is refused only when one of
\* them is unknown, or is a group whose last member is unknown or a group itself: the
\* last member alone decides, and a group among them counts here whatever it holds.
Unknown(avp) == Info(avp.code).type = "unknown"
RefusedForCause ==
  /\ (\E i \in DOMAIN msg.avps : Unknown(msg.avps[i])) => stage \in {"encode", "refused"}
  /\ stage = "refused" =>
       \E i \in DOMAIN msg.avps :
         \/ Unknown(msg.avps[i])
         \/ /\ Info(msg.avps[i].code).type = "grouped" /\ msg.avps[i].data # <<>>
            /\ LET m == Last(msg.avps[i].data) IN
                 Unknown(m) \/ Info(m.code).type = "grouped"
=============================================================================
