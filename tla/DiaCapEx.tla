------------------------------ MODULE DiaCapEx ------------------------------
(***************************************************************************)
(* The capability exchange and the watchdog messages: how                  *)
(* diaBase/src/diaBaseCer.c and diaBaseDwr.c build a CER, CEA, DWR or DWA  *)
(* from the configuration, DiaCodec taking it to the peer, and what        *)
(* diaConnProcessCea makes of a CEA. Messages of applications pass the     *)
(* codec as well.                                                          *)
(***************************************************************************)
EXTENDS DiaCodec

CONSTANTS
  DIA_MAX_SAME_AVP_NUM,  \* how many AVPs of one code a base message may have
  MaxInGroup             \* DIA_CONFIG_MAX_AVP_INSIDE_GRP_AVP

ASSUME CapExAssumption ==
  /\ DIA_MAX_SAME_AVP_NUM \in Nat /\ DIA_MAX_SAME_AVP_NUM > 1
  /\ MaxInGroup \in Nat /\ MaxInGroup > 2

VARIABLES
  verdict,    \* what diaConnProcessCea returned: "none" yet, "accepted", "rejected"
  peerHost,   \* pDcb->peerHost, <<>> until it is known
  peerRealm   \* pDcb->peerRealm

capVars == <<verdict, peerHost, peerRealm>>

CER == 257      DWR == 280      UAR == 300
ResultCode == 268
ExpResultCode == 298
OrigHost == 264
OrigRealm == 296
HostIp == 257
VendorIdCode == 266
ProductName == 269
OrigStateId == 278
SupportedVendorId == 265
AuthAppId == 258
AcctAppId == 259
VendorSpecificAppId == 260
FirmwareRev == 267
ErrorMessage == 281
FailedAvp == 279

Avp(code, data) == [code |-> code, data |-> data]
AvpsOf(code, list) == [i \in DOMAIN list |-> Avp(code, list[i])]
Having(list, code) == Those(list, {i \in DOMAIN list : list[i].code = code})

(***************************************************************************)
(* Lists of AVPs                                                           *)
(***************************************************************************)
\* diaAvpAddList, and the loops like it in diaBaseCer.c: the list is cut off.
diaAvpAddList_OneLess(code, list) ==
  AvpsOf(code, SubSeq(list, 1, IF Len(list) < DIA_MAX_SAME_AVP_NUM - 1 THEN Len(list)
                               ELSE DIA_MAX_SAME_AVP_NUM - 1))

diaAvpAddList(code, list) ==
  AvpsOf(code, SubSeq(list, 1, IF Len(list) < DIA_MAX_SAME_AVP_NUM THEN Len(list)
                               ELSE DIA_MAX_SAME_AVP_NUM))

\* A group AVP has one place less than there is memory for.
diaAvpGrp_addAvp(group, avp) ==
  IF Len(group) < MaxInGroup - 1 THEN Append(group, avp) ELSE group

getVendorSpecificAppId(id) ==
  diaAvpGrp_addAvp(diaAvpGrp_addAvp(<<>>, Avp(VendorIdCode, 10415)), Avp(AuthAppId, id))

\* diaOptListFindAndRemoveAvp takes the first AVP of a code out of the options; the
\* encoders call it once for some codes and until there are none for the others.
FirstOf(list, code) ==
  {i \in DOMAIN list : list[i].code = code /\ \A j \in 1..(i - 1) : list[j].code # code}
FindFirst(options, code) == Those(options, FirstOf(options, code))

Sorted(options) ==
  FindFirst(options, OrigStateId)
    \o Having(options, SupportedVendorId)
    \o Having(options, AuthAppId)
    \o Having(options, AcctAppId)
    \o Having(options, VendorSpecificAppId)
    \o FindFirst(options, FirmwareRev)

(***************************************************************************)
(* The messages                                                            *)
(***************************************************************************)
\* diaBuildCer and diaBuildCea make the options of the configuration.
Options(cfg, apps) ==
  <<Avp(OrigStateId, 7)>>
    \o diaAvpAddList(SupportedVendorId, cfg.vendors)
    \o diaAvpAddList(AuthAppId, cfg.auth)
    \o diaAvpAddList(AcctAppId, cfg.acct)
    \o apps
    \o (IF cfg.firmware THEN <<Avp(FirmwareRev, 1)>> ELSE <<>>)

Identity(cfg) == <<Avp(OrigHost, cfg.host), Avp(OrigRealm, cfg.realm)>>
Capabilities(cfg, options) ==
  Identity(cfg)
    \o diaAvpAddList(HostIp, cfg.ips)
    \o <<Avp(VendorIdCode, 0), Avp(ProductName, cfg.product)>>
    \o Sorted(options)

\* The vendor specific applications are not cut off in a CER.
VendorApps(cfg) == [i \in DOMAIN cfg.apps |-> getVendorSpecificAppId(cfg.apps[i])]
diaBuildCer(cfg) ==
  Capabilities(cfg, Options(cfg, AvpsOf(VendorSpecificAppId, VendorApps(cfg))))

diaBuildCea(cfg, result) ==
  <<Avp(ResultCode, result)>>
    \o Capabilities(cfg, Options(cfg, diaAvpAddList(VendorSpecificAppId, VendorApps(cfg))))

diaBuildDwr(cfg) == Identity(cfg)

diaBuildDwa(cfg, result, errorMsg, failedAvp) ==
  <<Avp(ResultCode, result)>>
    \o Identity(cfg)
    \o AvpsOf(ErrorMessage, errorMsg)
    \o AvpsOf(FailedAvp, failedAvp)

(***************************************************************************)
(* diaConnProcessCea: it starts from the second AVP, as if the first were  *)
(* a Session-Id.                                                           *)
(***************************************************************************)
Success == 2000..2999
Heads == {i \in DOMAIN decoded[1] : i > 1}

Failing(i) ==
  decoded[1][i].code \in {ResultCode, ExpResultCode} /\ decoded[1][i].data \notin Success
Looked == {i \in Heads : \A j \in Heads : Failing(j) => i < j}

LastSeen(code, seen, default) ==
  LET at == {i \in seen : decoded[1][i].code = code}
  IN  IF at = {} THEN default ELSE decoded[1][Max(at)].data

IsCea == msg.cmd = CER /\ ~RequestFlag

diaConnProcessCea_GoesOn ==
  /\ stage = "done" /\ IsCea /\ verdict = "none"
  /\ verdict' = "accepted"
  /\ peerHost' = LastSeen(OrigHost, Heads, peerHost)
  /\ peerRealm' = LastSeen(OrigRealm, Heads, peerRealm)
  /\ UNCHANGED codecVars

diaConnProcessCea ==
  /\ stage = "done" /\ IsCea /\ verdict = "none"
  /\ verdict' = IF \E i \in Heads : Failing(i) THEN "rejected" ELSE "accepted"
  /\ peerHost' = LastSeen(OrigHost, Looked, peerHost)
  /\ peerRealm' = LastSeen(OrigRealm, Looked, peerRealm)
  /\ UNCHANGED codecVars

-----------------------------------------------------------------------------
(***************************************************************************)
(* What is sent in the runs.                                               *)
(***************************************************************************)
\* diaConfig.c gives one address, two vendors and one application; the builders take
\* lists, which here are as short as they may be or one longer than fits. The
\* strings have every length modulo 4.
UpTo(n) == [i \in 1..n |-> i]
Lengths == 0..(DIA_MAX_SAME_AVP_NUM + 1)
Configs ==
  {[host |-> UpTo(5), realm |-> UpTo(4), product |-> UpTo(2),
    ips |-> [i \in 1..ips |-> UpTo(i)], vendors |-> UpTo(vendors), auth |-> UpTo(1),
    acct |-> <<>>, apps |-> UpTo(apps), firmware |-> firmware] :
     ips \in Lengths \ {0}, vendors \in Lengths, apps \in Lengths, firmware \in BOOLEAN}

Results == {2001, 3010}

\* A peer of another make may put the Result-Code of a CEA behind its identity.
Late(cea) == <<cea[2], cea[1]>> \o SubSeq(cea, 3, Len(cea))

\* A message with the code of the capability exchange is one that a builder made of a
\* configuration, or the CEA of another make. What diaConfig.c may hold:
ConfigType ==
  [host : Seq(Nat), realm : Seq(Nat), product : Seq(Nat), ips : Seq(Seq(Nat)),
   vendors : Seq(Nat), auth : Seq(Nat), acct : Seq(Nat), apps : Seq(Nat),
   firmware : BOOLEAN]
ASSUME ExchangeAssumption ==
  \A m \in Messages : m.cmd = CER =>
    /\ m.cfg \in ConfigType
    /\ \/ m.isReq /\ m.avps = diaBuildCer(m.cfg)
       \/ ~m.isReq /\ \E a \in {b \in Avps : b.code = ResultCode} :
            m.avps \in {diaBuildCea(m.cfg, a.data), Late(diaBuildCea(m.cfg, a.data))}

BaseMessages ==
  UNION {
    {[cmd |-> CER, isReq |-> TRUE, cfg |-> cfg, avps |-> diaBuildCer(cfg)],
     [cmd |-> DWR, isReq |-> TRUE, cfg |-> cfg, avps |-> diaBuildDwr(cfg)]}
    \cup UNION {
      {[cmd |-> CER, isReq |-> FALSE, cfg |-> cfg, avps |-> diaBuildCea(cfg, result)],
       [cmd |-> CER, isReq |-> FALSE, cfg |-> cfg, avps |-> Late(diaBuildCea(cfg, result))],
       [cmd |-> DWR, isReq |-> FALSE, cfg |-> cfg,
        avps |-> diaBuildDwa(cfg, result, <<UpTo(3)>>, <<<<Avp(HostIp, UpTo(1))>>>>)]} :
      result \in Results} :
    cfg \in Configs}

\* What an application may hand to the codec: a Session-Id, an enumeration, a 64-bit
\* number, groups of them, and a code that is in no dictionary.
Simple == {Avp(263, UpTo(1)), Avp(601, <<>>), Avp(623, 1), Avp(287, 3), Avp(999, 1)}
Group(list) == Avp(603, list)
AppAvps ==
  Simple \cup {Group(<<>>)} \cup {Group(<<a>>) : a \in Simple}
         \cup {Group(<<a, b>>) : a, b \in Simple}
         \cup {Group(<<Group(<<a>>), b>>) : a, b \in Simple}
AppMessages ==
  {[cmd |-> UAR, isReq |-> TRUE, cfg |-> <<>>, avps |-> <<a, b>>] : a \in Simple, b \in AppAvps}

SentMessages == BaseMessages \cup AppMessages

Grouped == {VendorSpecificAppId, FailedAvp, 603}
GroupsIn(avps, codes) == {a \in avps : a.code \in codes}
MembersOf(avps, codes) == UNION {ToSet(a.data) : a \in GroupsIn(avps, codes)}
SentAvps ==
  LET whole == UNION {ToSet(m.avps) : m \in SentMessages}
      once  == whole \cup MembersOf(whole, Grouped)
  IN  once \cup MembersOf(once, Grouped)

\* A group is one deeper than the deepest AVP in it.
Nesting(avps, codes) ==
  LET deep[a \in avps] ==
        IF a.code \in codes THEN 1 + Max({0} \cup {deep[b] : b \in ToSet(a.data)}) ELSE 0
  IN  deep
SentDepth == Nesting(SentAvps, Grouped)

CapInit == Init /\ verdict = "none" /\ peerHost = <<>> /\ peerRealm = <<>>

\* The message is refused, or decoded and, if a CEA, judged: anywhere else a message
\* that is stuck is a deadlock.
Finished ==
  /\ stage = "refused" \/ (stage = "done" /\ (IsCea => verdict # "none"))
  /\ UNCHANGED <<codecVars, capVars>>

CapNext == (Next /\ UNCHANGED capVars) \/ diaConnProcessCea \/ Finished
CapSpec == CapInit /\ [][CapNext]_<<codecVars, capVars>>

-----------------------------------------------------------------------------
\* The peer of a capability exchange learns the configuration: of each list as many
\* values as a message may carry, in their order.
Told(code) == LET told == Having(decoded[1], code) IN [i \in DOMAIN told |-> told[i].data]
Fits(list) == {i \in DOMAIN list : i <= DIA_MAX_SAME_AVP_NUM}
Learns(code, list) == Told(code) = [i \in Fits(list) |-> list[i]]
PeerLearnsCapabilities ==
  stage = "done" /\ msg.cmd = CER =>
    /\ Told(OrigHost) = <<msg.cfg.host>> /\ Told(OrigRealm) = <<msg.cfg.realm>>
    /\ Learns(HostIp, msg.cfg.ips)
    /\ Learns(SupportedVendorId, msg.cfg.vendors)
    /\ Learns(AuthAppId, msg.cfg.auth)
    /\ \A i \in Fits(msg.cfg.apps) :
         LET app == Told(VendorSpecificAppId)[i]
         IN  /\ Having(app, AuthAppId)[1].data = msg.cfg.apps[i]
             /\ Having(app, VendorIdCode)[1].data = 10415

\* Of what stands behind the first AVP of a CEA, a failing Result-Code ends the
\* exchange, and without one the identity of the peer is known.
CeaIsHeard ==
  verdict # "none" =>
    LET behind == Tail(msg.avps) IN
    /\ verdict = "rejected" <=>
         \E i \in DOMAIN behind :
           behind[i].code = ResultCode /\ behind[i].data \notin Success
    /\ verdict = "accepted" =>
         /\ Having(behind, OrigHost) # <<>> => peerHost = msg.cfg.host
         /\ peerRealm = msg.cfg.realm

\* diaConnProcessCea is written to fail the exchange on a CEA whose Result-Code is
\* not a success, but skips the first AVP "after sessionId"; a CEA has no Session-Id
\* and begins with its Result-Code.
RefusalIsHeard ==
  verdict = "accepted" => Having(msg.avps, ResultCode)[1].data \in Success
=============================================================================
