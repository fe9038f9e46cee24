# A verification project for the diameter stack

The repository is a Diameter base protocol stack in C (RFC 6733) with the Cx
application of an IMS core on top. This directory holds TLA+ models of its
stateful parts, of its codec and of the messages it builds, the TLC runs that check
them, and TLAPS proofs about all of them: every safety property
that a passing run checks is the statement of a theorem. `PROJECT.json` lists the runs, the source lines every
definition stands for, the hazards, the findings and the theorems.

    tlc -config ClientAny.cfg DiaConnState.tla      # any run of the table below
    tlapm DiaConnStateProofs.tla                    # any Proofs module

## The system

| part | source | state | operations |
|---|---|---|---|
| peer connection state machine | `common/src/diaConnState.c` | a dcb: `connState`, `isWaitDwa`, `numDwa`, four timer ids, the transport fd | one handler per state; messages are user commands, transport reports, CER/CEA/DWR/DWA/DPR/DPA, traffic, expiries |
| connection manager | `common/src/diaConnMgr.c` | per interface a priority and a standby group, each with an active and a waiting list and `pNextPeer`; `intfState` | provision a peer, failover, failback, pick a peer for a request, find the dcb of a message |
| request manager | `common/src/diaMgr.c` | `diaHash` of pending requests by Session-Id, a timer each | send a request, take its answer, time out; send the base messages |
| AVP codec | `common/src/diaAvp.c`, `diaAvpHelper.c` | none (a buffer and a position in it) | encode and decode AVPs, groups; build AVP lists; dictionary |
| messages | `common/src/diaMsg.c`, `diaCommonAvpEncode.c` | the hop-by-hop counter, the Session-Id counter (each under a mutex) | header, message, Session-Id |
| base messages | `diaBase/src/diaBaseCer.c`, `diaBaseDwr.c` | none | build CER, CEA, DWR, DWA; judge a CEA |
| Cx application | `diaCx/src/*.c` | none | build UAR, LIR, MAR, SAR; take answers apart |
| configuration | `common/src/diaConfig.c` | values read once from XML | getters |

The transport, the timers (`osTimer`), lists, hash and buffers come from a
library outside the repository. What the code relies on is modelled and marked
external in the map.

**How the parts interact.** The transport hands reports and messages to
`diaMgr_onMsg`. An application's answer goes to the hash entry of its request,
everything else to `diaConnMgr_onMsg`, which classifies it, and on to
`diaConnState_onMsg`. A Cx sender takes a turn of the peer groups to name a
destination, builds the message with the encoders of `diaCommonAvpEncode.c` and the
ids of `diaMsg.c`, and passes it to `diaSendAppMsg`. Entering OPEN, and failing in OPEN, call
`diaconnMgr_notifyFailback` and `diaconnMgr_notifyFailover`, which move the
peer's list element. `diaSendAppMsg` asks the groups for a peer unless its caller
gave one, sends, adds the request to the hash and starts its timer. All timers call back by id: a handler
compares the id with the fields of its dcb.

**What is hard.** Expiries, reports and messages come in any order, and the
handlers hand the duty to act on from one timer slot to another; a stopped timer
may have expired already. Peers fail and return while requests walk the list they
leave, and a UAR takes two turns of it. An application may send from its own threads
while answers arrive, and the ids of two requests then come from counters that the
threads share. Encoder and decoder must agree on padding and lengths at any nesting.
Builders take options out of two lists one by one and put each at a place of its
own.

**What makes the parts correct.** A healthy peer is never failed over and a silent
one always is; no state waits without a timer; a client never stops dialling; the
lists agree with the states; priority peers are preferred, and the peers of the ring
in use take turns evenly; a request is reported exactly once; what is encoded is what
is decoded; a peer learns what was configured; and a request carries what the
application gave.

## The modules

| module | models | uses |
|---|---|---|
| `DiaPeerLife` | abstract: the phases of a peer and when its element may move between lists | |
| `DiaConnState` | one dcb, its timers, its list, transport and peer | refines `DiaPeerLife` |
| `DiaConnStateProofs` | theorems about `DiaConnState` | extends it |
| `DiaConnMgr` | the two groups of an interface and the choice of a peer | every peer refines `DiaPeerLife` |
| `DiaConnMgrProofs` | theorems about `DiaConnMgr` | extends it |
| `DiaSend` | the turns that UAR, LIR and SAR take in the groups, and where they are sent | extends and refines `DiaConnMgr` |
| `DiaSendProofs` | theorems about `DiaSend` | extends it and `DiaConnMgrProofs` |
| `DiaReqMgr` | pending requests, their answers, timeouts, threads | |
| `DiaReqMgrProofs` | theorems about `DiaReqMgr` | extends it |
| `DiaIds` | the Session-Id and the hop-by-hop id of those requests | extends `DiaReqMgr` and, with one thread, refines it |
| `DiaIdsProofs` | theorems about `DiaIds` | extends it and `DiaReqMgrProofs` |
| `DiaCodec` | encoder and decoder of messages and AVPs | |
| `DiaCodecProofs` | theorems about `DiaCodec`: positions and refusals | extends it |
| `DiaWireProofs` | theorems about `DiaCodec`: what stands in the buffer and what is read of it | extends `DiaCodecProofs` |
| `DiaCapEx` | base messages from a configuration, what a CEA is taken for | extends `DiaCodec` |
| `DiaCx` | the Cx requests and the UAA from the application's parameters, what is read of a UAA | extends `DiaCapEx` |
| `DiaMessageProofs` | theorems about `DiaCapEx` and `DiaCx` | extends `DiaCx` and `DiaWireProofs` |

`DiaConnState` and `DiaConnMgr` meet in `DiaPeerLife`: the state machine is shown
to live it, and the groups are built from peers that live it.

### DiaConnState

An action is one call of a state's handler with one message: handlers run to
completion. It is named for both (`SuspectHeard`, `OpenTimeout`). Messages a
state ignores are left out unless they change the environment (`ReadyIgnored`,
`DownIgnored`, `IgnoreExpiry`).

- `timer[slot]` is `none` (the field is 0), `running`, or `stale` (the field still
  holds the id of a timer that has expired). The third value matters: several
  branches test the field for 0, and one branch assigns it instead of comparing.
- `stray` says that an expiry may come that no slot names: its timer was stopped
  too late (`LateExpiry`) or its slot was overwritten.
- `listed` is the peer list that holds the element, moved in the actions that
  call failover or failback.
- `tp` is what the transport has reported. `closing` is a connection the stack has
  closed whose end has not been reported.
- `dwrOut` is not in the code: it counts the DWRs of this connection the peer has
  not answered, for the properties to speak of evidence.
- `connState = "CRASHED"`: sending a DPR builds no message and reads through the
  null buffer (`diaMgr.c:247-252`). An ordinary build dies there. The read is
  undefined, so that the handler goes on to CLOSING is kept beside it. No finding
  rests on that branch.
- `isServer` is `FALSE`, because the field is never assigned; `IsServer` is the
  role the peer is provisioned in. See the findings.

### DiaConnMgr

A peer's list element is named by the peer. `notifyFailback`, `notifyFailover`,
`diaConnProv`, `diaConnGetActiveDcb` and `getDcb` follow the functions of those
names. `Drifts` are the steps of a life that move no element. `turns` is not in
the code: it counts how often a peer was picked since its lists last moved.
`osList_getNextElement` is taken to wrap around; a stack with a single peer would
otherwise send one request only.

### DiaReqMgr

A request is `new`, `building`, `sent` and then passes the two steps of
`diaSendAppMsg` after `transport_send`: `addUserData` and `startTimer`. `threaded`
is chosen at the start: without it a send that has begun (`Midway`) goes to its end
before anything else, with it answers, expiries and other sends come between. `coming`
holds the answers on their way; they may be late, lost or duplicated, up to `MaxAnswers`.

The hash data of a request is freed with its entry, and a timer or a sender may still
have its address. `waitRespTimerId[r]` is the timer id in the hash data of `r`;
`pDiaHashData[r]` is the request whose hash data stands where that of `r` was put. A
timer that is stopped too late is in `late`. `addUserData` may put the new data where
freed data was that somebody has the address of (`Freed`), with the id that still stands
in it; `startTimer` starts a timer and writes its id through the address, whether the
data is its own, freed, or by now another request's. Expiries and answers go by what
stands there. Bounds: hash data and hash element are reused together, and harm to memory
that is no hash data ends the process (`crashed`) where it is done or not at all.

### DiaIds

The `building` step of `DiaReqMgr` in the three pieces that a thread can be
interrupted between: `optionalValue` is raised under its mutex, printed into the
Session-Id after the mutex is released, and the hop-by-hop id is taken under its own
mutex. What `diaMgr_getInitH2hId` returns is any id (it has no return statement), and
it is asked again whenever the last id was 0. `encodeHdr_own` is the stack taking an
id for a CER or a DWR. Session-Ids key the hash: when two requests print the same
number, the answer to either may end the other (`onMsg_same`).

### DiaSend

A Cx sender asks `diaConnGetActiveDcb` for the host and realm it names (`buildFor`).
`diaCx_sendLIR` and `diaCx_sendSAR` pass that peer on; `diaCx_sendUAR` passes none,
so `diaSendAppMsg` takes a second turn (`sendAppMsg`). Between the two any step of
the groups may come, and any turn of another request. A turn is one step.

### DiaCodec and DiaCapEx

An action is a call of an encoding or decoding function; a call inside another is
a frame on `building` or `reading`, the lists made so far are in `decoded`. `Avps`
are the AVPs that may occur at any depth; that their data fits their type is the
assumption `CodecAssumption`, which the union of `diaEncodeAvp_t` stands for in the
code. The same assumption gives every AVP a `Depth` that its members stay under: a
group is built from AVPs that exist already. `Those` are the elements of a list at
given positions; what the code finds in a list, takes out of it or leaves is said
with it. The buffer holds one number per byte
position, a 32-bit word at its first byte, so positions, lengths and padding are
those of the code. The dictionaries are the code's tables. Of the flags V and REQUEST
are kept; the others, ids and the application id are left out. A group is written when its members are done,
over the room left for its header, as in the code. An AVP inside a group overwrites
the status of the one before, as in the code.

`DiaCapEx` builds the messages as `diaBuildCer`, `diaBuildCea`, `diaBuildDwr` and
`diaBuildDwa` do, with the cut at `DIA_MAX_SAME_AVP_NUM` and the limit of a group,
and `diaConnProcessCea` judges what the decoder gives. No caller passes extra
options; they are left out.

### DiaCx

One operator per builder (`diaBuildUar` and its like) and per encoder under it. A
pointer that may be null is a sequence of at most one value. `opt` is the list a
builder fills, `extra` the application's; `FindFirst` is what
`diaOptListFindAndRemoveAvp` returns and `Drop` what it leaves. `wild` is what the two
pointers to Proxy-Info and Route-Record hold before anything is assigned to them: null,
or any AVP, of the same message or an earlier one, known or not. An address that is
neither ends the process, and there is no message. `SentAsRequest` is the REQUEST flag an
encoder gives; that of a UAA gives it too. `diaBuildUaa` never assigns the application's
list to the parameters, so a UAA has nothing of it. Its group of capabilities is out of
scope when the encoder reads it, which is harmless as the Makefile builds it, without
optimization. `PeerUaa` is the UAA of an HSS of another make, with the AVPs after the
Session-Id in an order of its own. The AVPs are encoded and decoded by `DiaCodec`, so
that what the properties speak of is what arrives.

## The runs

| run | question | bounds |
|---|---|---|
| `client_any` | Does any order of events break a client's dcb? | one dcb, all inputs allowed, late expiries, failing restarts; `MaxDwr` 2 |
| `server_any` | Does any handler lose a running timer? | as above, provisioned as server, with exact timers, so that a stray can only be a lost one |
| `client_steady` | Is a silent peer noticed, does a client go on for ever? Deadlock checked | protocol-abiding peer, `MaxDwr` 3 |
| `sending` | Do lists, turns and the choice of a peer stay right while requests are sent, and do requests keep to active peers? | 2 priority peers and a standby peer, one UAR and one LIR; turns counted to 2 |
| `requests` | Is every accepted request reported, once, under its own ids, whatever is written into freed hash data? | 2 requests, one without a callback, 2 answers each, one thread or several; 3 hop-by-hop ids |
| `messages` | Does the peer decode what was encoded and learn what was configured and given? Deadlock checked | 96 configurations and two results; messages with nested groups; the Cx messages of every choice of options, and a UAA of another make; `DIA_MAX_SAME_AVP_NUM` 2, groups of 3 |
| `server_role`, `reopen_watchdog`, `retry_stranded`, `standby_takeover`, `refused_cea`, `uaa_flags` | the findings below, each refuted by its run | |

**Why the bounds are enough.** A dcb has no data but its own fields, which are
finite once unanswered DWRs are capped; the cap is above every number the code
compares with. Two peers in a group give a list a head that is not its tail, and
let one fail while the other serves; a peer in the second group adds the switch. A
UAR and a LIR are the two ways to send, and a sender needs another one to take a turn
between its own. Requests meet in pairs: in the environment, and when two share an
id; so two suffice. Two answers are a duplicate. Three hop-by-hop ids are more than
there are requests, so an id comes back only by a wrap, and the wrap is reached. The list cap is one more than the shortest list worth
cutting, and lists run from the shortest allowed to one past the cap; strings have
every length modulo 4; groups nest two deep, with an AVP that cannot be encoded
in every place. The application's lists have each option alone, twice, in front of
and behind the others, and none at all.

**What the properties say.** `ListsFollowState`, `ActiveMeansOpen`: the list agrees
with the state. `WaitsAreTimed`, `OpenIsSupervised`, `NeverStranded`: someone will
act. `NoTimerLost`, `TimersFollowState`: no expiry reaches a state that would take
it for another. `TransportFollowsState`: no state outlives its connection.
`FailoverOnEvidence`: a peer leaves the active list only if it owes an answer or
its connection ended. `LifeOfPeer`, `LivesOfPeers`: the refinements. `OneListEach`,
`AvailableIfActive` (a peer is named, not that it is active), `PriorityPreferred`,
`EvenTurns` (within the ring that holds the next peer), `HeadIsFound` (the first of each
list): the groups. `SendsStayActive`: requests that go to active peers do so until the
very peer whose turn it is fails over, and until then a UAR leaves on the connection of
an active peer, whatever fails over between its turns. What comes after that failover is
`standby_takeover`. `AtMostOnce`, `PendingIsTimed`, `TimedIsPending`,
`LateExpiryIsRefused`: requests. `SessionIdsDiffer`, `H2hIdsDiffer`: their ids.
`WordAligned`, `StaysInside`, `RefusedForCause`, `RoundTrip`: the codec, against
`Expected`, a recursive function that knows nothing of bytes.
`PeerLearnsCapabilities`, `CeaIsHeard`: the exchange. `GrammarKept`, `OptionsKept`,
`AnswersAreHeard`: the Cx messages. That encoder and decoder never stop halfway is
the deadlock check of `messages`. `SilentPeerDetected`, `NeverGivesUp`, `AlwaysNotified`, `HashIsEmptied` are
liveness.

**Conditions some of them carry.** `ActiveMeansOpen`, `OpenIsSupervised` and part
of `TransportFollowsState` hold without orderly disconnects, user stops or
unsolicited DWAs only; `client_any` shows what remains when those happen. OPEN to
CLOSING moves no list element, and an unsolicited DWA can bring a REOPEN dcb whose
watchdog has expired back to OPEN unsupervised. `NeverStranded` holds when the
transport answers a connect request with connecting or failure, and without orderly
disconnects: after a user's stop or a peer's DPR the closed client has no timer and
waits for the user to start it again. `retry_stranded` shows the third answer. `DOWN` is timed unless restarting an expired timer can
fail; `client_any` lets it fail, so that part of `WaitsAreTimed` rests on the theorem.
`AtMostOnce`, `TimedIsPending` and `SessionIdsDiffer` need one thread: with several, two
requests can have one Session-Id, and a timer can be started for a request that its
answer has ended already. `PendingIsTimed`, `AlwaysNotified` and `HashIsEmptied` speak of
requests somebody listens to; one sent without a callback stays in the hash when it times
out. `H2hIdsDiffer` ends when the id wraps to 0, where it starts again from an undefined
value. `RoundTrip` compares with what the code means to send: enumerations lose their
value and a group its unknown members, as they do in the code. `GrammarKept` and
`OptionsKept` say exactly once where both pointers of the message's end are assigned, and
at least once where one is not and any AVP may be taken for it. `GrammarKept` leaves out
the Destination-Realm of a MAR, which is there twice, the SIP-Auth-Data-Item of a scheme
the stack does not support, which is silently not sent, and the flag of a UAA
(`uaa_flags`); `OptionsKept` leaves out the list given with a UAA, which is lost.
`AnswersAreHeard` speaks of a UAA that its receiver takes for an answer, which one of
this code is not; `AnswersRead` is proved of both.

### Fairness

- `DiaConnState`: timers fire (`WF` of each slot's expiry) because `osTimer` calls
  back; the transport reports the end of an attempt or of a close (`WF` of
  `Reports`), which the code relies on ("expect transport to send a seperate
  notify message", `diaMgr.c:259`); and it does not refuse every connect request
  for ever (`SF` of `Accepts`). Without the last nobody could ask `NeverGivesUp`.
  The peer owes nothing.
- `DiaReqMgr` and `DiaIds`: a send that has begun ends (`WF` of its steps, which are
  straight-line code of one thread), and timers fire. Answers owe nothing, and the
  application need not send.
- `DiaSend`, `DiaCodec` and what extends it need none: their properties are safety.

`client_steady` allows late expiries but no failing restart.

## What is proved

`DiaConnStateProofs`, for every value of the constants that satisfies
`ConnStateAssumption` (the flags are Booleans, `StartStatus` is any subset of the
three answers, `MaxDwr` any positive number):

| theorem | shows |
|---|---|
| `TypeCorrect` | `TypeOK` |
| `ListsCorrect` | `ListsFollowState`, `ActiveMeansOpen` |
| `TimersCorrect` | `WaitsAreTimed`, `TimersFollowState`, `OpenIsSupervised` |
| `TimersKept` | `NoTimerLost` |
| `NeverStrandedByFailures` | `NeverStranded`, under `OnlyFailures`: no orderly disconnects and no third answer to a connect request |
| `TransportCorrect` | `TransportFollowsState` |
| `FailoverJustified` | `FailoverOnEvidence`, a property of steps |
| `ImplementsLife` | every behaviour is one of `DiaPeerLife` |

The inductive invariant `IInv` is the conjunction of the safety invariants and
`Strengthening`. They lean on one another. That a watchdog expiry in OPEN fails a
peer over only with an answer owing needs `isWaitDwa` to imply an unanswered DWR
while the watchdog runs; that OPEN is supervised after REOPEN needs the field of
the watchdog to name a timer there, and, without unsolicited DWAs, that REOPEN
cannot collect its second DWA (`numDwa + dwrOut <= 1`), since the branch that would
ask for it is never taken; that no timer is lost needs to know in which states
`twt` runs; that a client is not stranded needs a retry timer that has expired to be started
again before CLIENT_CLOSED goes on (`RetryAhead`). Each conjunct has a lemma that goes through the actions one by one;
`Invariance` joins them. `FailoverJustified` and `ImplementsLife` follow from
`IInv` and one lemma about steps each.

`DiaConnMgrProofs`, for any disjoint sets of peers in the two groups:

| theorem | shows |
|---|---|
| `TypeCorrect` | `TypeOK` |
| `ListsCorrect` | `OneListEach` |
| `ChoiceCorrect` | `AvailableIfActive`, `PriorityPreferred` |
| `TurnsCorrect` | `EvenTurns`, for rings of any length |
| `HeadsFound` | `HeadIsFound` |
| `ImplementsLives` | every peer of every group lives a life of `DiaPeerLife` |

The lemmas about lists (`Unlinked`, `Appended`) say what moving an element does to
the sets of elements; `FailbackMoves`, `FailoverMoves` and `ProvisionMoves` say it
of the two groups, and the steps reason about sets from there. The invariant adds
to the checked ones that an open peer is in its active list (`OpenIsActive`,
without which a failover could unlink an element that is not there) and that a
group with an active peer, or one that takes requests, has a next peer that is
provisioned (`NextPeerStands`). `EvenTurns` says nothing of where in the ring the
next peer is, and is not inductive: `TurnsAround` adds that the peers which have had
a turn more than the others are the ones just behind it, as many as turns were taken
since the counts were last even (`Around`). `OneTurn` is the arithmetic of one turn;
every step that moves an element starts the counts of its group afresh.

`DiaSendProofs`, for any peers and any requests:

| theorem | shows |
|---|---|
| `SendsImplementMgr` | `DiaSend` implements `DiaConnMgr`, so all theorems above hold while requests are sent |
| `SendsStay` | `SendsStayActive`, a property of steps |

The invariant is that of the groups and `StandbyFirst`: the standby group takes requests
only as long as no priority peer ever was active. So the switch of groups comes when the
priority group gets its first active peer, which is its next peer, and no other step
moves the next peer out of an active list but the failover of that very peer.

`DiaReqMgrProofs`, for any set of requests, listened to or not, any number of
answers, with and without a thread of the application:

| theorem | shows |
|---|---|
| `TypeCorrect` | `TypeOK` |
| `HeardOnce` | `AtMostOnce` |
| `LateExpiriesRefused` | `LateExpiryIsRefused`, in any threads |
| `PendingAreTimed` | `PendingIsTimed`, in any threads |
| `TimersMatchHash` | `TimedIsPending` |

`AtMostOnce` alone is not inductive: a request reported once could still be in the
hash. The invariant adds that with one thread nothing leaves the hash while it is being
sent, and that what has been reported is out of it for good (`Settled`). With several
`Settled` is lost, and a request can be reported twice. What is left then is where hash
data stands and whose timer ids are in it: data of a request in the hash stands in its
own place (`Placed`), an id stands only in data whose place its timer has the address of
(`Written`), and what is in the hash was added (`Begun`). From these a timer whose id was
overwritten still leads to the request whose data stands there, which is why
`PendingIsTimed` survives the write.

`DiaIdsProofs`, for any set of requests and any number of ids, in any threads:

| theorem | shows |
|---|---|
| `IdsDiffer` | `SessionIdsDiffer`, `H2hIdsDiffer` |
| `RequestsHold` | `AtMostOnce`, `LateExpiryIsRefused`, `PendingIsTimed`, `TimedIsPending`, also where an answer ends another request |
| `ImplementsReqMgr` | with one thread, `DiaIds` implements `DiaReqMgr` |

The invariant adds that no number printed is above the counter, that with one thread
only one request is between taking and printing it, and that until the wrap no
hop-by-hop id is above the last one.

`DiaCodecProofs`, for any messages that satisfy `CodecAssumption`, at any nesting:

| theorem | shows |
|---|---|
| `TypeCorrect` | `TypeOK` |
| `AlwaysAligned` | `WordAligned` |
| `RefusedRightly` | `RefusedForCause` |

The invariant adds that no group in progress starts behind the position, so that
the length written into its header is a natural number, and that the decoder
leaves a group to a boundary (`ReturnsAligned`). The alignment of the decoder rests
on nothing but the padding it adds to what it reads, that of the encoder on the
padding of strings.

`RefusedForCause` has an invariant of its own, `Refusal`: what each call has left to
encode ends a list of the message or of one of its groups, and a status that is not OK
has its cause in the AVPs that are done.

`DiaWireProofs`, about the same messages:

| theorem | shows |
|---|---|
| `DecodesWhatWasEncoded` | `RoundTrip` |
| `NeverOutside` | `StaysInside` |

Positions alone do not show that a message is read back: the invariant `Wired` says
which octets stand where. `Wire` gives the octets of every list of AVPs, that of a
group being in them; it exists by induction over `Depth` (`WireExists`), which is
what the assumption about groups is for. A `Path` names for each call the list it
works at, how many AVPs of it are done and where it began, so that what a call holds
on the stack (`Calls`), what is written (`Laid`) and what is read (`Scanned`) are
said of the same lists. `Encoded` is the first two, `Decoding` the third, and `Sent`,
a buffer that holds the octets of the whole message, stands between them. A cell that
was written is not touched by the next (`LaidAvp`), with one exception, the header of
a group, whose place is known to be free. The lists of a path are found by `\E`
over functions of unbounded range, which TLC cannot evaluate: of `Wired` it checks
what the theorems conclude, `RoundTrip` and `StaysInside`.

`DiaMessageProofs`, for any configurations and any parameters of the application:

| theorem | shows |
|---|---|
| `PassesTheCodec` | every behaviour of `DiaCapEx` and `DiaCx` is one of `DiaCodec`, so all theorems above hold of their messages |
| `PeerLearnsAlways` | `PeerLearnsCapabilities` |
| `CeaIsHeardAlways` | `CeaIsHeard` |
| `GrammarAlways` | `GrammarKept` |
| `OptionsAlways` | `OptionsKept` |
| `AnswersRead` | what `AnswersAreHeard` says, whatever flag a UAA has |
| `AnswersAlways` | `AnswersAreHeard` |

A message that arrived was not refused, so nothing of its own was left out, and what
the peer has is, AVP by AVP, what the builder laid out (`Received`). What is left is
about the builders, and no induction over steps. `UarLayout` and its like go through
one builder each and count, for any AVP code, how often it stands in front, what the
options taken out of the application's list add, and what is left of that list for
the end (`LaidOut`); `GrammarKept` and `OptionsKept` are sums of these counts.
`AnswersRead` needs the order as well (`Answers`). For a CER and a CEA
`PeerLearnsCapabilities` follows list by list from what stands under each code, with
the groups of vendor specific applications one level down, and `CeaIsHeard` from where
the Result-Code stands in a CEA of either make.

The assumptions about messages say where they come from, no more:

- `CodecAssumption`: the data of an AVP fits the type the dictionary gives its code,
  and no group is inside itself.
- `ExchangeAssumption`: what has the command code of a CER was made by `diaBuildCer` or
  `diaBuildCea` of a configuration with any values, any number of each and any result,
  or is the CEA of a peer that puts the Result-Code behind its identity.
- `ApplicationAssumption`: a Cx message was made by its builder, or is the UAA of an HSS
  of another make (`PeerUaa`), of a request of `RequestType`, with any values and any list of AVPs in which the application does
  not repeat what it gives as a parameter; the senders give one Destination-Realm, and
  a UAA has at most one server name and one Server-Capabilities, which are pointers in
  the code. What the uninitialized pointers to Proxy-Info and Route-Record hold is
  `Wild`: null, or any AVP. The flag of a message is the one its encoder gives.

TLC evaluates all of them for the messages of its runs. Lists and groups of any length
are reached by the theorem about induction over the natural numbers, stated over sets
of numbers, since the provers cannot take a predicate as a parameter; recursion is in
functions, and no operator of the models is declared recursive.

**Only model-checked**: `SilentPeerDetected`, `NeverGivesUp`, `AlwaysNotified` and
`HashIsEmptied`, which are liveness under fairness and need `ENABLED`, out of the
prover's reach; that encoder and decoder never stop halfway, which is the deadlock
check of `messages`, for the same reason; and the findings, which are refuted by
their runs.

## Findings

1. `server_role`: `pDcb->isServer` is never assigned, so wherever the handlers ask for
   the role they take the client's branch: a server's dcb whose connection has ended
   dials its peer from DOWN. A CER, a report and an expiry lead there, no DPR.
2. `reopen_watchdog`: in REOPEN the expired id is compared with `isWaitDwa`, so
   the branch that counts missing DWAs and asks for the next one is dead.
3. `retry_stranded`: a connect request answered with another status than
   connecting or failure leaves the expired id in `timerId_tpRetryConn`; the
   failure report then starts no retry.
4. `standby_takeover`: `notifyFailover` does not move `pNextPeer` off the element
   it unlinks, so the standby group never takes over once a priority peer has been
   active.
5. `refused_cea`: `diaConnProcessCea` skips the first AVP of a CEA, which is its
   Result-Code: a refused capability exchange opens the connection.
6. `uaa_flags`: a UAA is encoded with the flags of a request, 0xc0 (`diaCxUar.c:549`),
   so its receiver takes it for one (`diaMgr.c:101`) and drops it.

Met on the way, and listed as hazards: a MAR has two Destination-Realms, an empty one
from a configuration that has none, and the one that `diaBuildMar` puts into the options
(`diaCxMar.c:92`, 137); the list an application gives with a UAA is lost; REOPEN needs an unsolicited DWA to get to
OPEN; `diaCx_sendUAR` picks two peers for one request, so a UAR may name one peer and
be sent to another; the Session-Id is printed
from the shared counter after the lock is released; `diaMgr_getInitH2hId` returns
nothing; DWAs carry the ids of the stack's own last request; closing a dcb that has
never been connected closes fd 0; enumerations are not decoded; nothing in the
repository sends the command that stops a connection; `diaNotifyApp` is never set.

## What is not modelled

- Several interfaces, and addresses: one interface is modelled and a peer is a name.
- fd numbers: a peer has one connection at a time. What closing a number does that
  belongs to another connection by now is up to the transport library, which is not
  in the repository.
- End-to-end ids, and the hop-by-hop ids of DWA and CEA: nothing in the code reads
  them. The functions that change one flag of a header are not called.
- Two threads inside one turn of a peer group: `pNextPeer` is read and written without
  a lock; a turn is one step here.
- The receiving side of a late answer: without a hash entry it leaves
  `diaMgr_onMsg` before the state machine sees it, as if it had not come.
- In Cx: `diaCxUar_getServerCap`, which tests the code of the group for those of its
  members and collects nothing; the restoration information of a SAR, whose encoder
  is empty; the items that lie behind the given ones in a Server-Capabilities group
  and the types after the first, which the full group leaves no room for; that the
  builder empties the application's list of options, so that a second try has none.
- `avpFWRev` of `diaBuildCea`, whose address outlives its block: its value is kept.
- Requests from a peer: they go to an application that cannot register.
- Memory: allocation failures, and cleanup except where freed memory is used.
- Reading the XML file, logging, statistics, sample messages of `diaCxTest.c`.

## The plan

The order was: the state machine and the abstract life, the groups, the requests, the
codec, the capability exchange; then the identifiers, the senders and the Cx
messages. What could follow:

- A client's and a server's dcb that exchange CER, CEA, DWR and DWA over one
  connection, with the outcome of `DiaCapEx` in place of the choice `DiaConnState`
  makes. Each side alone already takes every input the other could send.
- A transport with numbered descriptors, once its source is at hand.
- A theorem about which states of the codec have a next step, in place of the deadlock
  check of `messages`.
