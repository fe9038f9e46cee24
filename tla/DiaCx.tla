-------------------------------- MODULE DiaCx --------------------------------
(***************************************************************************)
(* The messages of the Cx application: how diaCx/src/diaCxUar.c, diaCxLir.c, *)
(* diaCxSar.c and diaCxMar.c lay out UAR, UAA, LIR, SAR and MAR from what   *)
(* the application gives, with the AVP encoders of diaCommonAvpEncode.c,   *)
(* and what the application reads of the answers it gets. The messages pass *)
(* the codec (DiaCodec) and stand beside those of DiaCapEx.                *)
(*                                                                         *)
(* A pointer that may be NULL is a sequence of at most one value. A builder *)
(* takes AVPs out of two lists: "opt", which it fills itself, and "extra",  *)
(* which is the application's.                                             *)
(***************************************************************************)
EXTENDS DiaCapEx

CONSTANT DIA_CX_MAX_SERVER_CAPABILITY_ITEM   \* how many items of each kind a UAA names

ASSUME CxAssumption == DIA_CX_MAX_SERVER_CAPABILITY_ITEM \in Nat \ {0}

SAR == 301      LIR == 302      MAR == 303

SESSION_ID == 263
AUTH_SESSION_STATE == 277
DEST_HOST == 293
DEST_REALM == 283
USER_NAME == 1
PROXY_INFO == 284
ROUTE_RECORD == 282
ACCESS_NW_INFO == 1263
EXPERIMENTAL_RESULT == 297

VISITED_NW_ID == 600
PUBLIC_ID == 601
SERVER_NAME == 602
SERVER_CAPABILITY == 603
MANDATORY_CAPABILITY == 604
SIP_NUM_AUTH_ITEMS == 607
SIP_AUTH_SCHEME == 608
SIP_AUTHENTICATE == 609
SIP_AUTHORIZATION == 610
SIP_AUTH_DATA_ITEM == 612
SIP_ITEM_NUM == 613
SERVER_ASSIGNMENT_TYPE == 614
OC_SUPPORTED_FEATURES == 621
USER_AUTH_TYPE == 623
USER_DATA_ALREADY_AVAILABLE == 624
CONFIDENTIALITY_KEY == 625
INTEGRITY_KEY == 626
SUPPORTED_FEATURE == 628
FEATURE_LIST_ID == 629
FEATURE_LIST == 630
UAR_FLAGS == 637
MULTI_REG_INDICATION == 648

(***************************************************************************)
(* Lists of AVPs                                                           *)
(***************************************************************************)
\* What diaOptListFindAndRemoveAvp leaves of a list when it is called for each of these
\* codes; it returns FindFirst.
Drop(list, codes) ==
  Those(list, {i \in DOMAIN list : \A code \in codes : i \notin FirstOf(list, code)})

\* Of the options no list is left, nor any Supported-Features, which are taken until
\* there are none.
Rest(opt, codes) ==
  LET left == Drop(opt, codes)
  IN  Those(left, {i \in DOMAIN left : left[i].code # SUPPORTED_FEATURE})

\* The end of every message. The two pointers are not initialized: when the list has
\* no such AVP, the address the stack holds is taken for one. It is NULL, or that of an
\* AVP, or of neither, and then the process ends and there is no message.
Pointed(left, code, wild) ==
  IF Having(left, code) = <<>> THEN wild ELSE FindFirst(left, code)

Trailer_NotRemoved(left, wild) ==
  IF left = <<>> THEN <<>>
  ELSE left \o Pointed(left, PROXY_INFO, wild[1]) \o Pointed(left, ROUTE_RECORD, wild[2])

Trailer(left, wild) ==
  IF left = <<>> THEN <<>>
  ELSE Drop(left, {PROXY_INFO, ROUTE_RECORD})
         \o Pointed(left, PROXY_INFO, wild[1]) \o Pointed(left, ROUTE_RECORD, wild[2])

(***************************************************************************)
(* AVPs with an encoding function of their own                             *)
(***************************************************************************)
diaAvp_encodeVendorSpecificAppId ==
  Avp(VendorSpecificAppId, <<Avp(AuthAppId, 16777216), Avp(VendorIdCode, 10415)>>)

\* One group for each feature list.
diaAvp_encodeSupportedFeature(featureLists) ==
  [i \in DOMAIN featureLists |->
     Avp(SUPPORTED_FEATURE, <<Avp(VendorIdCode, 10415), Avp(FEATURE_LIST_ID, i),
                              Avp(FEATURE_LIST, featureLists[i])>>)]

\* A scheme it does not support is no error: the AVP is left out.
diaCxMar_encodeAuthData(auth) ==
  LET Item(scheme, more) ==
        <<Avp(SIP_AUTH_DATA_ITEM, <<Avp(SIP_AUTH_SCHEME, UpTo(scheme))>> \o more)>>
  IN  CASE auth.isReq /\ auth.scheme = "Unknown"    -> Item(7, <<>>)
        [] auth.isReq /\ auth.scheme = "AKA"        -> Item(16, AvpsOf(SIP_AUTHORIZATION, auth.authorization))
        [] auth.isReq /\ auth.scheme = "SIP Digest" -> Item(10, <<>>)
        [] auth.isReq /\ auth.scheme = "Early IMS"  -> Item(18, <<>>)
        [] ~auth.isReq /\ auth.scheme = "AKA" ->
             Item(16, <<Avp(SIP_ITEM_NUM, 1), Avp(SIP_AUTHENTICATE, UpTo(2)),
                        Avp(SIP_AUTHORIZATION, UpTo(1)),
                        Avp(CONFIDENTIALITY_KEY, UpTo(4)), Avp(INTEGRITY_KEY, UpTo(4))>>)
        [] ~auth.isReq /\ auth.scheme = "SIP Digest" ->
             Item(10, <<Avp(104, UpTo(2)), Avp(110, UpTo(4)), Avp(121, UpTo(3))>>)
        [] ~auth.isReq /\ auth.scheme = "Early IMS" ->
             Item(18, <<Avp(IF auth.isIPv4 THEN 8 ELSE 97, UpTo(4))>>)
        [] OTHER -> <<>>

(***************************************************************************)
(* The messages. A request names the application's parameters; wild is what *)
(* the uninitialized pointers hold.                                        *)
(***************************************************************************)
\* diaConfig_getHostRealm gives the origin; it knows no destination.
Origin(r) == <<Avp(OrigHost, r.host), Avp(OrigRealm, r.realm)>>
Opening(r) ==
  <<Avp(SESSION_ID, r.sessionId), diaAvp_encodeVendorSpecificAppId,
    Avp(AUTH_SESSION_STATE, 1)>> \o Origin(r)

DestRealmNotConfigured == <<>>

diaCxUar_encode(r, opt, wild) ==
  Opening(r)
    \o FindFirst(opt, DEST_HOST)
    \o <<Avp(DEST_REALM, r.destRealm[1]), Avp(USER_NAME, r.userName[1])>>
    \o FindFirst(r.extra, OC_SUPPORTED_FEATURES)
    \o Having(opt, SUPPORTED_FEATURE)
    \o <<Avp(PUBLIC_ID, r.pubId), Avp(VISITED_NW_ID, r.realm)>>
    \o FindFirst(opt, USER_AUTH_TYPE)
    \o FindFirst(r.extra, UAR_FLAGS)
    \o FindFirst(opt, ACCESS_NW_INFO)
    \o Rest(opt, {DEST_HOST, USER_AUTH_TYPE, ACCESS_NW_INFO})
    \o Trailer(Drop(r.extra, {OC_SUPPORTED_FEATURES, UAR_FLAGS}), wild)

diaBuildUar(r, wild) ==
  diaCxUar_encode(r,
    AvpsOf(DEST_HOST, r.destHost)
      \o diaAvp_encodeSupportedFeature(r.featureLists)
      \o AvpsOf(USER_AUTH_TYPE, r.authType), wild)

\* diaBuildLir, diaBuildSar and diaBuildMar fill the options alike.
Destination(r) ==
  AvpsOf(DEST_HOST, r.destHost) \o AvpsOf(DEST_REALM, r.destRealm)
    \o diaAvp_encodeSupportedFeature(r.featureLists)

diaCxLir_encode_RealmLeft(r, opt, wild) ==
  Opening(r)
    \o FindFirst(opt, DEST_HOST) \o FindFirst(opt, DEST_REALM)
    \o FindFirst(r.extra, OC_SUPPORTED_FEATURES)
    \o Having(opt, SUPPORTED_FEATURE)
    \o <<Avp(PUBLIC_ID, r.pubId)>>
    \o Rest(opt, {DEST_HOST})
    \o Trailer(Drop(r.extra, {OC_SUPPORTED_FEATURES}), wild)

\* The User-Authorization-Type is sent only when it asks for the capabilities.
diaCxLir_encode(r, opt, wild) ==
  Opening(r)
    \o FindFirst(opt, DEST_HOST) \o FindFirst(opt, DEST_REALM)
    \o FindFirst(r.extra, OC_SUPPORTED_FEATURES)
    \o Having(opt, SUPPORTED_FEATURE)
    \o <<Avp(PUBLIC_ID, r.pubId)>>
    \o Rest(opt, {DEST_HOST, DEST_REALM})
    \o AvpsOf(USER_AUTH_TYPE, Those(r.authType, {i \in DOMAIN r.authType : r.authType[i] = 2}))
    \o Trailer(Drop(r.extra, {OC_SUPPORTED_FEATURES}), wild)

diaBuildLir(r, wild) == diaCxLir_encode(r, Destination(r), wild)

\* The restoration information is not sent, but the Multiple-Registration-Indication
\* is sent only when the application gives it.
diaCxSar_encode(r, opt, wild) ==
  Opening(r)
    \o FindFirst(opt, DEST_HOST) \o FindFirst(opt, DEST_REALM)
    \o AvpsOf(USER_NAME, r.userName)
    \o FindFirst(r.extra, OC_SUPPORTED_FEATURES)
    \o Having(opt, SUPPORTED_FEATURE)
    \o <<Avp(PUBLIC_ID, r.pubId), Avp(SERVER_NAME, r.serverName)>>
    \o Rest(opt, {DEST_HOST, DEST_REALM})
    \o <<Avp(SERVER_ASSIGNMENT_TYPE, r.assignment), Avp(USER_DATA_ALREADY_AVAILABLE, 0)>>
    \o AvpsOf(MULTI_REG_INDICATION, IF r.restorationInfo THEN r.multiRegInd ELSE <<>>)
    \o Trailer(Drop(r.extra, {OC_SUPPORTED_FEATURES}), wild)

diaBuildSar(r, wild) == diaCxSar_encode(r, Destination(r), wild)

diaCxMar_encode(r, opt, wild) ==
  Opening(r)
    \o FindFirst(opt, DEST_HOST)
    \o <<Avp(DEST_REALM, DestRealmNotConfigured), Avp(USER_NAME, r.userName[1])>>
    \o FindFirst(r.extra, OC_SUPPORTED_FEATURES)
    \o Having(opt, SUPPORTED_FEATURE)
    \o <<Avp(PUBLIC_ID, r.pubId)>>
    \o diaCxMar_encodeAuthData(r.auth)
    \o <<Avp(SIP_NUM_AUTH_ITEMS, IF r.auth.scheme = "AKA" THEN r.auth.authItem ELSE 1),
         Avp(SERVER_NAME, r.serverName)>>
    \o Rest(opt, {DEST_HOST})
    \o Trailer(Drop(r.extra, {OC_SUPPORTED_FEATURES}), wild)

diaBuildMar(r, wild) == diaCxMar_encode(r, Destination(r), wild)

\* An answer has the Session-Id of the request it was received in.
UaaResult(r) ==
  IF r.isResultCode THEN Avp(ResultCode, r.result)
  ELSE Avp(EXPERIMENTAL_RESULT, <<Avp(ExpResultCode, r.result)>>)

diaCxUaa_encode(r, opt, wild) ==
  <<Avp(SESSION_ID, r.sessionId), diaAvp_encodeVendorSpecificAppId, UaaResult(r),
    Avp(AUTH_SESSION_STATE, 1)>>
    \o Origin(r)
    \o FindFirst(r.extra, OC_SUPPORTED_FEATURES)
    \o Having(opt, SUPPORTED_FEATURE)
    \o FindFirst(opt, SERVER_NAME) \o FindFirst(opt, SERVER_CAPABILITY)
    \o Rest(opt, {SERVER_NAME, SERVER_CAPABILITY})
    \o Trailer(Drop(r.extra, {OC_SUPPORTED_FEATURES}), wild)

\* The loop over each kind of item ends when the group is full and never before (the
\* number of items is the left side of a comma): the first kind fills it.
ServerCapability(cap) ==
  Avp(SERVER_CAPABILITY,
      AvpsOf(MANDATORY_CAPABILITY,
             [i \in 1..DIA_CX_MAX_SERVER_CAPABILITY_ITEM |-> cap.msc[i]]))

\* The application's list is not handed on: a UAA has nothing of it. (The group of the
\* capabilities is out of its scope when the encoder reads it, which is harmless as the
\* Makefile builds it, without optimization.)
diaBuildUaa(r, wild) ==
  diaCxUaa_encode([r EXCEPT !.extra = <<>>],
    diaAvp_encodeSupportedFeature(r.featureLists)
      \o AvpsOf(SERVER_NAME, r.serverNames)
      \o [i \in DOMAIN r.cap |-> ServerCapability(r.cap[i])], wild)

\* The UAA of an HSS of another make. Only the Session-Id has its place, and a name
\* among the capabilities is not that of the server.
PeerUaa(r) ==
  <<Avp(SESSION_ID, r.sessionId)>>
    \o r.extra
    \o <<diaAvp_encodeVendorSpecificAppId, UaaResult(r), Avp(AUTH_SESSION_STATE, 1)>>
    \o Origin(r)
    \o diaAvp_encodeSupportedFeature(r.featureLists)
    \o [i \in DOMAIN r.cap |->
          Avp(SERVER_CAPABILITY,
              AvpsOf(MANDATORY_CAPABILITY, SubSeq(r.cap[i].msc, 1, r.cap[i].mscNum))
                \o <<Avp(SERVER_NAME, r.host)>>)]
    \o AvpsOf(SERVER_NAME, r.serverNames)

\* The flags an encoder gives to diaMsg_encode are 0xc0, R and P, that of the UAA too.
SentAsRequest ==
  [UAR |-> TRUE, UAA |-> TRUE, LIR |-> TRUE, SAR |-> TRUE, MAR |-> TRUE, PeerUaa |-> FALSE]

(***************************************************************************)
(* What the application reads of a message                                 *)
(***************************************************************************)
NoResult == 0
diaMsg_getSessId(list) ==
  IF list # <<>> /\ Head(list).code = SESSION_ID /\ Head(list).type = "octets"
    THEN <<Head(list).data>> ELSE <<>>
DataOf(list) == [i \in DOMAIN list |-> list[i].data]
dia_GetResultCode(list) ==
  IF Having(list, ResultCode) = <<>> THEN NoResult ELSE Having(list, ResultCode)[1].data
diaCxUar_getServerName_UserName(list) == DataOf(FindFirst(list, USER_NAME))
diaCxUar_getServerName(list) == DataOf(FindFirst(list, SERVER_NAME))

-----------------------------------------------------------------------------
(***************************************************************************)
(* What is sent in the run.                                                *)
(***************************************************************************)
Request ==
  [host |-> UpTo(5), realm |-> UpTo(4), sessionId |-> UpTo(7), destHost |-> <<UpTo(3)>>,
   destRealm |-> <<UpTo(2)>>, userName |-> <<UpTo(6)>>, pubId |-> UpTo(1),
   serverName |-> UpTo(3), featureLists |-> <<4>>, authType |-> <<0>>, assignment |-> 1,
   restorationInfo |-> FALSE, multiRegInd |-> <<1>>, extra |-> <<>>,
   auth |-> [isReq |-> TRUE, scheme |-> "SIP Digest", authorization |-> <<>>,
             isIPv4 |-> TRUE, authItem |-> 3],
   isResultCode |-> TRUE, result |-> 2001, serverNames |-> <<UpTo(2)>>, cap |-> <<>>]

Proxy(n) == Avp(PROXY_INFO, <<Avp(280, UpTo(n)), Avp(33, UpTo(2))>>)
Route == Avp(ROUTE_RECORD, UpTo(2))
Oc == Avp(OC_SUPPORTED_FEATURES, UpTo(3))
Flags == Avp(UAR_FLAGS, 1)
Other == Avp(650, 1)

\* What the two pointers may hold: NULL, no AVP of the dictionaries, an AVP of an earlier
\* message, such an AVP or one that the message has already.
WildPairs ==
  {<<p, q>> : p \in {<<>>, <<Avp(999, 1)>>, <<Proxy(6)>>, <<Avp(USER_NAME, UpTo(6))>>},
              q \in {<<>>, <<Avp(ROUTE_RECORD, UpTo(5))>>, <<Avp(PUBLIC_ID, UpTo(1))>>}}

Extras ==
  {<<>>, <<Oc>>, <<Route>>, <<Proxy(1), Other>>, <<Other, Route, Proxy(1)>>,
   <<Proxy(1), Route, Proxy(2)>>, <<Flags, Proxy(1), Route, Oc>>}

WithOptions ==
  {[Request EXCEPT !.extra = e] : e \in Extras}
    \cup {[Request EXCEPT !.destHost = h, !.featureLists = f, !.authType = t] :
            h \in {<<>>, <<UpTo(3)>>}, f \in {<<>>, <<4, 2>>}, t \in {<<>>, <<2>>}}

Auths ==
  {[isReq |-> isReq, scheme |-> scheme, authorization |-> authorization,
    isIPv4 |-> isIPv4, authItem |-> 3] :
     isReq \in BOOLEAN, scheme \in {"Unknown", "AKA", "SIP Digest", "NASS", "Early IMS"},
     authorization \in {<<>>, <<UpTo(2)>>}, isIPv4 \in BOOLEAN}

Caps ==
  {[msc |-> [i \in 1..DIA_CX_MAX_SERVER_CAPABILITY_ITEM |-> IF i <= n THEN i ELSE 0],
    mscNum |-> n] : n \in 0..DIA_CX_MAX_SERVER_CAPABILITY_ITEM}

Requests(kind) ==
  WithOptions \cup
  CASE kind = "SAR" -> {[Request EXCEPT !.userName = u, !.restorationInfo = i, !.multiRegInd = m] :
                          u \in {<<>>, <<UpTo(6)>>}, i \in BOOLEAN, m \in {<<>>, <<1>>}}
    [] kind = "MAR" -> {[Request EXCEPT !.auth = a] : a \in Auths}
    [] kind \in {"UAA", "PeerUaa"} ->
                         {[Request EXCEPT !.isResultCode = i, !.result = c, !.serverNames = s, !.cap = cap] :
                          i \in BOOLEAN, c \in {2001, 5001}, s \in {<<>>, <<UpTo(2)>>},
                          cap \in {<<>>} \cup {<<cap>> : cap \in Caps}}
    [] OTHER        -> {}

CmdOf ==
  [UAR |-> UAR, UAA |-> UAR, LIR |-> LIR, SAR |-> SAR, MAR |-> MAR, PeerUaa |-> UAR]
Build(kind, r, wild) ==
  CASE kind = "UAR" -> diaBuildUar(r, wild) [] kind = "UAA" -> diaBuildUaa(r, wild)
    [] kind = "LIR" -> diaBuildLir(r, wild) [] kind = "SAR" -> diaBuildSar(r, wild)
    [] kind = "MAR" -> diaBuildMar(r, wild) [] kind = "PeerUaa" -> PeerUaa(r)

\* A message of the application is one that a builder made of the application's
\* parameters: what diaCxUarAppInput_t and its like may hold, with one
\* Destination-Realm, since the configuration has none.
RequestType ==
  [host : Seq(Nat), realm : Seq(Nat), sessionId : Seq(Nat), destHost : Seq(Seq(Nat)),
   destRealm : Seq(Seq(Nat)), userName : Seq(Seq(Nat)), pubId : Seq(Nat),
   serverName : Seq(Nat), featureLists : Seq(Nat), authType : Seq(Nat), assignment : Nat,
   restorationInfo : BOOLEAN, multiRegInd : Seq(Nat), extra : Seq(Avps),
   auth : [isReq : BOOLEAN, scheme : STRING, authorization : Seq(Seq(Nat)),
           isIPv4 : BOOLEAN, authItem : Nat],
   isResultCode : BOOLEAN, result : Nat, serverNames : Seq(Seq(Nat)),
   cap : Seq([msc : [1..DIA_CX_MAX_SERVER_CAPABILITY_ITEM -> Nat],
              mscNum : 0..DIA_CX_MAX_SERVER_CAPABILITY_ITEM])]

\* Of these the application gives a parameter, and none in its list of AVPs.
Parameters ==
  {SESSION_ID, VendorSpecificAppId, AUTH_SESSION_STATE, OrigHost, OrigRealm, DEST_HOST,
   DEST_REALM, USER_NAME, SUPPORTED_FEATURE, PUBLIC_ID, VISITED_NW_ID, USER_AUTH_TYPE,
   SERVER_NAME, SERVER_ASSIGNMENT_TYPE, USER_DATA_ALREADY_AVAILABLE,
   MULTI_REG_INDICATION, SIP_NUM_AUTH_ITEMS, SIP_AUTH_DATA_ITEM, ResultCode,
   EXPERIMENTAL_RESULT, SERVER_CAPABILITY}

\* An uninitialized pointer that the process survives: NULL, or any AVP.
Wild == {<<>>} \cup {<<a>> : a \in Avps}

ASSUME ApplicationAssumption ==
  \A m \in Messages : "cx" \in DOMAIN m =>
    /\ m.kind \in DOMAIN CmdOf /\ m.cmd = CmdOf[m.kind] /\ m.isReq = SentAsRequest[m.kind]
    /\ m.cx \in RequestType
    /\ Len(m.cx.destRealm) = 1 /\ Len(m.cx.serverNames) <= 1 /\ Len(m.cx.cap) <= 1
    /\ \A i \in DOMAIN m.cx.extra : m.cx.extra[i].code \notin Parameters
    /\ m.wild \in Wild \X Wild /\ m.avps = Build(m.kind, m.cx, m.wild)

Message(kind, r, wild) ==
  [cmd |-> CmdOf[kind], isReq |-> SentAsRequest[kind], cfg |-> <<>>,
   avps |-> Build(kind, r, wild), kind |-> kind, cx |-> r, wild |-> wild]
CxMessages ==
  UNION {
    {Message(kind, r, <<<<>>, <<>>>>) : r \in Requests(kind)}
    \cup {Message(kind, [Request EXCEPT !.extra = e], wild) : e \in Extras, wild \in WildPairs} :
    kind \in DOMAIN CmdOf}

CxSentMessages == SentMessages \cup CxMessages
CxGrouped ==
  Grouped \cup {SUPPORTED_FEATURE, PROXY_INFO, SIP_AUTH_DATA_ITEM, EXPERIMENTAL_RESULT}
CxSentAvps ==
  LET whole == UNION {ToSet(m.avps \o m.wild[1] \o m.wild[2]) : m \in CxMessages}
  IN  SentAvps \cup whole \cup MembersOf(whole, CxGrouped)
CxSentDepth == Nesting(CxSentAvps, CxGrouped)

-----------------------------------------------------------------------------
IsCx == "cx" \in DOMAIN msg
Arrived == stage = "done" /\ IsCx
Times(code) == Len(Having(decoded[1], code))

\* What the grammar above each builder puts in braces.
Always == {SESSION_ID, VendorSpecificAppId, AUTH_SESSION_STATE, OrigHost, OrigRealm}
InBraces ==
  [UAR |-> {DEST_REALM, USER_NAME, PUBLIC_ID, VISITED_NW_ID},
   UAA |-> {},
   LIR |-> {DEST_REALM, PUBLIC_ID},
   SAR |-> {DEST_REALM, SERVER_NAME, SERVER_ASSIGNMENT_TYPE, USER_DATA_ALREADY_AVAILABLE},
   MAR |-> {USER_NAME, PUBLIC_ID, SIP_NUM_AUTH_ITEMS, SERVER_NAME}]

\* Of the application's list, what its builder hands on; and whether with it the
\* pointers of Trailer, if that is reached, are both assigned.
HandedOn(m) == IF m.kind = "UAA" THEN <<>> ELSE m.cx.extra
Assigned(m) ==
  \/ HandedOn(m) = <<>>
  \/ Having(HandedOn(m), PROXY_INFO) # <<>> /\ Having(HandedOn(m), ROUTE_RECORD) # <<>>

\* Every AVP that the grammar in front of a builder requires (diaCxUar.c:75-97 and
\* its like) arrives and the Session-Id first, whatever options are taken out of the
\* lists on the way; and exactly once, unless an uninitialized pointer is taken for an
\* AVP. A request is taken for one. Not promised: the Destination-Realm of a MAR, which
\* it has twice, its SIP-Auth-Data-Item, which an unsupported scheme leaves out, and
\* the flags of a UAA (UaaIsAnswer).
GrammarKept ==
  Arrived /\ msg.kind # "PeerUaa" =>
    /\ \A code \in Always \cup InBraces[msg.kind] :
         Times(code) >= 1 /\ (Assigned(msg) => Times(code) = 1)
    /\ decoded[1][1].code = SESSION_ID
    /\ msg.kind = "UAA" => Times(ResultCode) + Times(EXPERIMENTAL_RESULT) = 1
    /\ msg.kind # "UAA" => RequestFlag

\* Every AVP of the list that the application gives with a request arrives, and as
\* often as it was given, though five loops take AVPs out of that list and put them at
\* two places. A UAA carries the mandatory capabilities in their order. Not promised:
\* the list given with a UAA, which is lost.
OptionsKept ==
  Arrived =>
    /\ msg.kind \notin {"UAA", "PeerUaa"} =>
         \A a \in ToSet(msg.cx.extra) :
           LET given == Len(Having(msg.cx.extra, a.code))
           IN  Times(a.code) >= given /\ (Assigned(msg) => Times(a.code) = given)
    /\ msg.kind = "UAA" =>
         \A i \in DOMAIN msg.cx.cap :
           LET cap  == msg.cx.cap[i]
               told == DataOf(Having(Told(SERVER_CAPABILITY)[1], MANDATORY_CAPABILITY))
           IN  SubSeq(told, 1, cap.mscNum) = SubSeq(cap.msc, 1, cap.mscNum)

\* What the application reads of an answer is what was given to its builder.
AnswerRead ==
  LET r == msg.cx IN
  /\ diaMsg_getSessId(decoded[1]) = <<r.sessionId>>
  /\ dia_GetResultCode(decoded[1]) = IF r.isResultCode THEN r.result ELSE NoResult
  /\ diaCxUar_getServerName(decoded[1]) = r.serverNames

\* A UAA that its receiver takes for an answer (diaMgr.c:101) tells the application the
\* session it belongs to, its result and the server, wherever they stand in it.
AnswersAreHeard ==
  Arrived /\ msg.kind \in {"UAA", "PeerUaa"} /\ ~RequestFlag => AnswerRead

\* The grammar of a UAA, "< Diameter Header: 300, PXY, 16777216 >" (diaCxUar.c:392), has
\* no REQ: its receiver takes it for an answer. The encoder sets the flag of a request.
UaaIsAnswer == Arrived /\ msg.kind = "UAA" => ~RequestFlag
=============================================================================
