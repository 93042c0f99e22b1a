-------------------------- MODULE DiscoveryProofs ---------------------------
(***************************************************************************)
(* Proofs about Discovery, for any processes, topics, nodes and bounds.    *)
(***************************************************************************)
EXTENDS Discovery, TLAPS

(***************************************************************************)
(* The network.                                                            *)
(***************************************************************************)
\* Sending adds datagrams and nothing else.
LEMMA PutSubset ==
    ASSUME NEW inFlight, NEW sent
    PROVE  Put(inFlight, sent) \subseteq inFlight \union sent
BY DEF Put

LEMMA PutType ==
    ASSUME NEW inFlight \in SUBSET Message, NEW sent \in SUBSET Message
    PROVE  Put(inFlight, sent) \in SUBSET Message
BY PutSubset

LEMMA MsgsType ==
    ASSUME NEW p \in Proc
    PROVE  /\ \A type \in PubType, pub \in Publisher :
                 PubMsgs(p, type, pub) \in SUBSET Message
           /\ \A topic \in Topic : SubscribeMsgs(p, topic) \in SUBSET Message
           /\ \A type \in BareType : BareMsgs(p, type) \in SUBSET Message
BY DEF PubMsgs, SubscribeMsgs, BareMsgs, Message, Peers

\* The operators on sets of publishers return sets of publishers.
LEMMA PublishersType ==
    ASSUME NEW pubs \in SUBSET Publisher
    PROVE  /\ \A pub \in Publisher :
                 AddPublisher(pubs, pub) \in SUBSET Publisher
           /\ \A t, p, n :
                 DelPublisherByNode(pubs, t, p, n) \in SUBSET Publisher
           /\ \A p : DelPublishersByProc(pubs, p) \in SUBSET Publisher
           /\ \A p : PublishersByProc(pubs, p) \in SUBSET Publisher
           /\ \A t : PublishersOf(pubs, t) \in SUBSET Publisher
BY DEF AddPublisher, DelPublisherByNode, DelPublishersByProc,
       PublishersByProc, PublishersOf

(***************************************************************************)
(* Type correctness.                                                       *)
(***************************************************************************)
LEMMA InitType == Init => TypeOK
BY BoundsAssumption
   DEF Init, TypeOK, RecvState, CallState, Poll, Idle

LEMMA LifeType ==
    ASSUME TypeOK, NEW p \in Proc, Life(p)
    PROVE  TypeOK'
<1> USE DEF TypeOK
<1>1. CASE Start(p)
  BY <1>1 DEF Start, discVars
<1>2. CASE Destroy(p)
  BY <1>2 DEF Destroy, discVars
<1>3. CASE JoinReception(p)
  BY <1>3 DEF JoinReception, discVars
<1>4. ASSUME NEW sent \in SUBSET Message, Vanish(p, sent)
      PROVE  TypeOK'
  <2>1. net' \in SUBSET Message
    BY <1>4, PutType DEF Vanish
  <2>2. recv' \in [Proc -> RecvState] /\ call' \in [Proc -> CallState]
    BY <1>4 DEF Vanish, RecvState, CallState, Poll, Idle
  <2>3. beats' \in [Proc -> 0..InitBeats]
    BY <1>4, BoundsAssumption DEF Vanish
  <2> QED
    BY <1>4, <2>1, <2>2, <2>3 DEF Vanish
<1>5. CASE SendBye(p)
  BY <1>4, <1>5, MsgsType DEF SendBye, BareType
<1>6. CASE Crash(p)
  BY <1>4, <1>6 DEF Crash
<1> QED
  BY <1>1, <1>2, <1>3, <1>5, <1>6 DEF Life

LEMMA UserCallType ==
    ASSUME TypeOK, NEW p \in Proc, UserCall(p)
    PROVE  TypeOK'
<1> USE DEF TypeOK
<1>1. ASSUME NEW pub \in Publisher, Advertise(p, pub)
      PROVE  TypeOK'
  <2>1. info' \in [Proc -> SUBSET Publisher]
    BY <1>1, PublishersType DEF Advertise
  <2>2. call' \in [Proc -> CallState]
    BY <1>1 DEF Advertise, CallState
  <2> QED
    BY <1>1, <2>1, <2>2 DEF Advertise
<1>2. ASSUME NEW pub \in Publisher, Unadvertise(p, pub)
      PROVE  TypeOK'
  <2>1. info' \in [Proc -> SUBSET Publisher]
    BY <1>2, PublishersType DEF Unadvertise
  <2>2. call' \in [Proc -> CallState]
    BY <1>2 DEF Unadvertise, CallState
  <2> QED
    BY <1>2, <2>1, <2>2 DEF Unadvertise
<1>3. ASSUME NEW sub \in Publisher, Discover(p, sub)
      PROVE  TypeOK'
  <2>1. sub.topic \in Topic
    BY DEF Publisher
  <2>2. net' \in SUBSET Message
    BY <1>3, <2>1, MsgsType, PutType DEF Discover
  <2>3. call' \in [Proc -> CallState]
    BY <1>3, <2>1 DEF Discover, CallState
  <2> QED
    BY <1>3, <2>2, <2>3 DEF Discover, discVars
<1>4. ASSUME NEW sub \in Publisher, Unsubscribe(p, sub)
      PROVE  TypeOK'
  <2>1. call' \in [Proc -> CallState]
    BY <1>4 DEF Unsubscribe, CallState
  <2> QED
    BY <1>4, <2>1 DEF Unsubscribe, discVars
<1>5. ASSUME NEW sub \in Publisher, Register(p, sub)
      PROVE  TypeOK'
  <2>1. net' \in SUBSET Message
    BY <1>5, MsgsType, PutType DEF Register, PubType
  <2> QED
    BY <1>5, <2>1 DEF Register, discVars
<1>6. CASE TopicList(p)
  <2>1. net' \in SUBSET Message
    BY <1>6, MsgsType, PutType DEF TopicList, BareType
  <2>2. call' \in [Proc -> CallState]
    BY <1>6 DEF TopicList, CallState
  <2> QED
    BY <1>6, <2>1, <2>2 DEF TopicList, discVars
<1> QED
  BY <1>1, <1>2, <1>3, <1>4, <1>5, <1>6, UsersAssumption DEF UserCall

LEMMA CallStepType ==
    ASSUME TypeOK, NEW p \in Proc, CallStep(p)
    PROVE  TypeOK'
<1> USE DEF TypeOK
<1>0. call[p] \in CallState
  OBVIOUS
<1>1. CASE CallSend(p)
  <2>1. /\ call[p].pub \in Publisher
        /\ CallMsgType[call[p].op] \in PubType
    BY <1>0, <1>1 DEF CallSend, CallState, Idle, CallMsgType, PubType
  <2>2. net' \in SUBSET Message
    BY <1>1, <2>1, MsgsType, PutType DEF CallSend
  <2>3. call' \in [Proc -> CallState]
    BY <1>1 DEF CallSend, CallState
  <2> QED
    BY <1>1, <2>2, <2>3 DEF CallSend, discVars
<1>2. CASE DiscoverLookup(p)
  <2>1. call' \in [Proc -> CallState]
    BY <1>2, PublishersType DEF DiscoverLookup, CallState
  <2> QED
    BY <1>2, <2>1 DEF DiscoverLookup, discVars
<1>3. CASE DiscoverTell(p)
  <2>1. call[p].pubs \in SUBSET Publisher
    BY <1>0, <1>3 DEF DiscoverTell, CallState, Idle
  <2>2. call' \in [Proc -> CallState]
    BY <1>3 DEF DiscoverTell, CallState
  <2>3. told' \in [Proc -> SUBSET Publisher]
    BY <1>3, <2>1 DEF DiscoverTell
  <2> QED
    BY <1>3, <2>2, <2>3 DEF DiscoverTell, discVars
<1>4. CASE WaitForInit(p)
  <2>1. call' \in [Proc -> CallState]
    BY <1>4 DEF WaitForInit, CallState
  <2> QED
    BY <1>4, <2>1 DEF WaitForInit, discVars
<1> QED
  BY <1>1, <1>2, <1>3, <1>4 DEF CallStep

LEMMA TimerType ==
    ASSUME TypeOK, NEW p \in Proc,
           Heartbeat(p) \/ \E procs \in SUBSET Proc : Expire(p, procs)
    PROVE  TypeOK'
<1> USE DEF TypeOK
<1>1. CASE Heartbeat(p)
  <2>1. net' \in SUBSET Message
    BY <1>1, MsgsType, PutType DEF Heartbeat, BareType
  <2>2. recv' \in [Proc -> RecvState]
    BY <1>1, PublishersType DEF Heartbeat, RecvState
  <2> QED
    BY <1>1, <2>1, <2>2 DEF Heartbeat, discVars
<1>2. ASSUME NEW procs \in SUBSET Proc, Expire(p, procs)
      PROVE  TypeOK'
  <2>1. recv' \in [Proc -> RecvState]
    BY <1>2 DEF Expire, RecvState
  <2>2. /\ info' \in [Proc -> SUBSET Publisher]
        /\ remoteSubscribers' \in [Proc -> SUBSET Publisher]
        /\ activity' \in [Proc -> SUBSET Proc]
    BY <1>2 DEF Expire
  <2> QED
    BY <1>2, <2>1, <2>2 DEF Expire
<1> QED
  BY <1>1, <1>2

LEMMA RecvStepType ==
    ASSUME TypeOK, NEW p \in Proc, RecvStep(p)
    PROVE  TypeOK'
<1> USE DEF TypeOK
<1>0. recv[p] \in RecvState
  OBVIOUS
<1>1. CASE HeartbeatDone(p)
  <2>1. recv' \in [Proc -> RecvState]
    BY <1>1 DEF HeartbeatDone, RecvState
  <2>2. beats' \in [Proc -> 0..InitBeats]
    BY <1>1, BoundsAssumption DEF HeartbeatDone
  <2> QED
    BY <1>1, <2>1, <2>2 DEF HeartbeatDone
<1>2. ASSUME NEW pub \in Publisher, HeartbeatSend(p, pub)
      PROVE  TypeOK'
  <2>1. recv[p] \in [op : {"beat"}, pubs : SUBSET Publisher]
    BY <1>0, <1>2 DEF HeartbeatSend, RecvState, Poll
  <2>2. [recv[p] EXCEPT !.pubs = @ \ {pub}] \in RecvState
    BY <2>1 DEF RecvState
  <2>3. recv' \in [Proc -> RecvState]
    BY <1>2, <2>2 DEF HeartbeatSend
  <2>4. net' \in SUBSET Message
    BY <1>2, MsgsType, PutType DEF HeartbeatSend, PubType
  <2> QED
    BY <1>2, <2>3, <2>4 DEF HeartbeatSend, discVars
<1>3. ASSUME NEW pub \in Publisher, RecvSend(p, pub)
      PROVE  TypeOK'
  <2>1. recv[p] \in [op : {"send"}, type : PubType, pubs : SUBSET Publisher]
    BY <1>0, <1>3 DEF RecvSend, RecvState, Poll
  <2>2. [op |-> "send", type |-> recv[p].type, pubs |-> recv[p].pubs \ {pub}]
            \in RecvState
    BY <2>1 DEF RecvState
  <2>3. recv' \in [Proc -> RecvState]
    BY <1>3, <2>2 DEF RecvSend, RecvState
  <2>4. net' \in SUBSET Message
    BY <1>3, <2>1, MsgsType, PutType DEF RecvSend
  <2> QED
    BY <1>3, <2>3, <2>4 DEF RecvSend, discVars
<1>4. CASE ExpireTell(p)
  <2>1. recv' \in [Proc -> RecvState]
    BY <1>4 DEF ExpireTell, RecvState
  <2> QED
    BY <1>4, <2>1 DEF ExpireTell, discVars
<1>5. CASE ConnectTell(p)
  <2>1. recv[p].pub \in Publisher
    BY <1>0, <1>5 DEF ConnectTell, RecvState, Poll
  <2>2. recv' \in [Proc -> RecvState]
    BY <1>5 DEF ConnectTell, RecvState
  <2>3. told' \in [Proc -> SUBSET Publisher]
    BY <1>5, <2>1, PublishersType DEF ConnectTell
  <2> QED
    BY <1>5, <2>2, <2>3 DEF ConnectTell, discVars
<1>6. CASE Remove(p)
  <2>1. recv' \in [Proc -> RecvState]
    BY <1>6 DEF Remove, RecvState
  <2>2. info' \in [Proc -> SUBSET Publisher]
    BY <1>6, PublishersType DEF Remove
  <2> QED
    BY <1>6, <2>1, <2>2 DEF Remove
<1>7. CASE RemoveProc(p)
  <2>1. recv' \in [Proc -> RecvState]
    BY <1>7 DEF RemoveProc, RecvState
  <2>2. /\ info' \in [Proc -> SUBSET Publisher]
        /\ remoteSubscribers' \in [Proc -> SUBSET Publisher]
    BY <1>7, PublishersType DEF RemoveProc
  <2> QED
    BY <1>7, <2>1, <2>2 DEF RemoveProc
<1> QED
  BY <1>1, <1>2, <1>3, <1>4, <1>5, <1>6, <1>7 DEF RecvStep

LEMMA ReceiveType ==
    ASSUME TypeOK, NEW p \in Proc, NEW m \in net, Receive(p, m)
    PROVE  TypeOK'
<1> USE DEF TypeOK
<1>0. m \in Message
  OBVIOUS
<1>1. ASSUME Take(p, m)
      PROVE  /\ net' \in SUBSET Message
             /\ faults' \in 0..MaxFaults
  BY <1>1, BoundsAssumption DEF Take
<1>2. ASSUME Seen(p, m)
      PROVE  activity' \in [Proc -> SUBSET Proc]
  BY <1>0, <1>2 DEF Seen, Message
<1>3. ASSUME m.type \in PubType
      PROVE  m.pub \in Publisher
  BY <1>0, <1>3 DEF Message, PubType, BareType
<1>4. CASE RecvAdvertise(p, m)
  <2>1. m.pub \in Publisher
    BY <1>3, <1>4 DEF RecvAdvertise, PubType
  <2>2. info' \in [Proc -> SUBSET Publisher]
    <3>1. AddPublisher(info[p], m.pub) \in SUBSET Publisher
      BY <2>1, PublishersType
    <3> QED
      BY <1>4, <3>1 DEF RecvAdvertise
  <2>3. recv' \in [Proc -> RecvState]
    BY <1>4, <2>1 DEF RecvAdvertise, RecvState
  <2> QED
    BY <1>1, <1>2, <1>4, <2>2, <2>3 DEF RecvAdvertise
<1>5. CASE RecvSubscribe(p, m)
  <2>1. recv' \in [Proc -> RecvState]
    BY <1>5, PublishersType DEF RecvSubscribe, RecvState, PubType
  <2> QED
    BY <1>1, <1>2, <1>5, <2>1 DEF RecvSubscribe
<1>6. CASE RecvSubscribersReq(p, m)
  <2>1. recv' \in [Proc -> RecvState]
    BY <1>6 DEF RecvSubscribersReq, RecvState, PubType
  <2> QED
    BY <1>1, <1>2, <1>6, <2>1 DEF RecvSubscribersReq
<1>7. CASE RecvSubscribersRep(p, m)
  <2>1. m.pub \in Publisher
    BY <1>3, <1>7 DEF RecvSubscribersRep, PubType
  <2>2. remoteSubscribers' \in [Proc -> SUBSET Publisher]
    BY <1>7, <2>1, PublishersType DEF RecvSubscribersRep
  <2> QED
    BY <1>1, <1>2, <1>7, <2>2 DEF RecvSubscribersRep
<1>8. CASE RecvEndConnection(p, m)
  <2>1. remoteSubscribers' \in [Proc -> SUBSET Publisher]
    BY <1>8, PublishersType DEF RecvEndConnection
  <2> QED
    BY <1>1, <1>2, <1>8, <2>1 DEF RecvEndConnection
<1>9. CASE RecvAlive(p, m)
  BY <1>1, <1>2, <1>9 DEF RecvAlive
<1>10. CASE RecvUnadvertise(p, m)
  <2>1. m.pub \in Publisher
    BY <1>3, <1>10 DEF RecvUnadvertise, PubType
  <2>2. told' \in [Proc -> SUBSET Publisher]
    <3>1. DelPublisherByNode(told[p], m.pub.topic, m.pub.pUuid, m.pub.nUuid)
              \in SUBSET Publisher
      BY PublishersType
    <3> QED
      BY <1>10, <3>1 DEF RecvUnadvertise
  <2>3. recv' \in [Proc -> RecvState]
    BY <1>10, <2>1 DEF RecvUnadvertise, RecvState
  <2> QED
    BY <1>1, <1>2, <1>10, <2>2, <2>3 DEF RecvUnadvertise
<1>11. CASE RecvBye(p, m)
  <2>1. m.from \in Proc
    BY <1>0 DEF Message
  <2>2. told' \in [Proc -> SUBSET Publisher]
    BY <1>11, PublishersType DEF RecvBye
  <2>3. recv' \in [Proc -> RecvState]
    BY <1>11, <2>1 DEF RecvBye, RecvState
  <2>4. activity' \in [Proc -> SUBSET Proc]
    BY <1>11 DEF RecvBye
  <2> QED
    BY <1>1, <1>11, <2>2, <2>3, <2>4 DEF RecvBye
<1> QED
  BY <1>4, <1>5, <1>6, <1>7, <1>8, <1>9, <1>10, <1>11 DEF Receive

LEMMA LoseType ==
    ASSUME TypeOK, NEW m \in net, Lose(m)
    PROVE  TypeOK'
BY BoundsAssumption DEF TypeOK, Lose, discVars

LEMMA NextType ==
    ASSUME TypeOK, [Next]_vars
    PROVE  TypeOK'
<1>1. CASE Next
  BY <1>1, LifeType, UserCallType, CallStepType, TimerType, RecvStepType,
     ReceiveType, LoseType DEF Next
<1>2. CASE UNCHANGED vars
  BY <1>2 DEF TypeOK, vars, discVars
<1> QED
  BY <1>1, <1>2

\* Every variable keeps its type, whatever the threads, the users and the
\* network do: in particular the heartbeat counter of UpdateHeartbeat stops
\* at InitBeats and a reception thread never leaves its states.
THEOREM TypeCorrect == Spec => []TypeOK
<1> QED
  BY InitType, NextType, PTL DEF Spec

(***************************************************************************)
(* Whom a process speaks for.                                              *)
(***************************************************************************)
Speaks(inFlight) ==
    \A m \in inFlight : m.type \in PubType => m.pub.pUuid = m.from

LEMMA InitSpeaks == Init => SpeaksForItself
BY DEF Init, SpeaksForItself, CallMsgType, Poll, Idle

\* A send keeps the network honest if it names a publisher of the sender, or
\* none.
LEMMA MsgsSpeak ==
    ASSUME NEW p
    PROVE  /\ \A type, pub : pub.pUuid = p => Speaks(PubMsgs(p, type, pub))
           /\ \A topic : Speaks(SubscribeMsgs(p, topic))
           /\ \A type \in BareType : Speaks(BareMsgs(p, type))
BY DEF Speaks, PubMsgs, SubscribeMsgs, BareMsgs, PubType, BareType

LEMMA PutSpeaks ==
    ASSUME NEW inFlight, NEW sent, Speaks(inFlight), Speaks(sent)
    PROVE  /\ Speaks(Put(inFlight, sent))
           /\ \A kept \in SUBSET inFlight : Speaks(Put(kept, sent))
BY PutSubset DEF Speaks

LEMMA SpeaksStep ==
    ASSUME TypeOK, SpeaksForItself, [Next]_vars
    PROVE  SpeaksForItself'
<1> USE DEF SpeaksForItself, TypeOK
<1>0. Speaks(net)
  BY DEF Speaks
<1>1. ASSUME NEW p \in Proc, Life(p)
      PROVE  SpeaksForItself'
  <2>1. CASE Start(p) \/ Destroy(p) \/ JoinReception(p)
    BY <2>1 DEF Start, Destroy, JoinReception
  <2>2. ASSUME NEW sent, Vanish(p, sent), Speaks(sent)
        PROVE  SpeaksForItself'
    <3>1. Speaks(net')
      BY <1>0, <2>2, PutSpeaks DEF Vanish
    <3> QED
      BY <2>2, <3>1 DEF Vanish, Poll, Idle, CallMsgType, Speaks
  <2>3. CASE SendBye(p)
    BY <2>2, <2>3, MsgsSpeak DEF SendBye, BareType
  <2>4. CASE Crash(p)
    BY <2>2, <2>4 DEF Crash, Speaks
  <2> QED
    BY <1>1, <2>1, <2>3, <2>4 DEF Life
<1>2. ASSUME NEW p \in Proc, UserCall(p)
      PROVE  SpeaksForItself'
  <2>1. ASSUME NEW pub, Advertise(p, pub) \/ Unadvertise(p, pub)
        PROVE  SpeaksForItself'
    BY <2>1 DEF Advertise, Unadvertise, CallMsgType, Idle
  <2>2. ASSUME NEW sub, Discover(p, sub)
        PROVE  SpeaksForItself'
    <3>1. Speaks(net')
      BY <1>0, <2>2, MsgsSpeak, PutSpeaks DEF Discover
    <3> QED
      BY <2>2, <3>1 DEF Discover, CallMsgType, Speaks
  <2>3. ASSUME NEW sub, Unsubscribe(p, sub)
        PROVE  SpeaksForItself'
    BY <2>3 DEF Unsubscribe, CallMsgType
  <2>4. ASSUME NEW sub, Register(p, sub)
        PROVE  SpeaksForItself'
    <3>1. Speaks(net')
      BY <1>0, <2>4, MsgsSpeak, PutSpeaks DEF Register
    <3> QED
      BY <2>4, <3>1 DEF Register, Speaks
  <2>5. CASE TopicList(p)
    <3>1. Speaks(net')
      BY <1>0, <2>5, MsgsSpeak, PutSpeaks DEF TopicList, BareType
    <3> QED
      BY <2>5, <3>1 DEF TopicList, CallMsgType, Speaks
  <2> QED
    BY <1>2, <2>1, <2>2, <2>3, <2>4, <2>5 DEF UserCall
<1>3. ASSUME NEW p \in Proc, CallStep(p)
      PROVE  SpeaksForItself'
  <2>1. CASE CallSend(p)
    <3>1. Speaks(net')
      BY <1>0, <2>1, MsgsSpeak, PutSpeaks DEF CallSend
    <3> QED
      BY <2>1, <3>1 DEF CallSend, CallMsgType, Idle, Speaks
  <2>2. CASE DiscoverLookup(p) \/ DiscoverTell(p) \/ WaitForInit(p)
    BY <2>2 DEF DiscoverLookup, DiscoverTell, WaitForInit, CallMsgType, Idle
  <2> QED
    BY <1>3, <2>1, <2>2 DEF CallStep
<1>4. ASSUME NEW p \in Proc, Heartbeat(p)
      PROVE  SpeaksForItself'
  <2>1. Speaks(net')
    BY <1>0, <1>4, MsgsSpeak, PutSpeaks DEF Heartbeat, BareType
  <2> QED
    BY <1>4, <2>1 DEF Heartbeat, PublishersByProc, Speaks
<1>5. ASSUME NEW p \in Proc, NEW procs, Expire(p, procs)
      PROVE  SpeaksForItself'
  BY <1>5 DEF Expire
<1>6. ASSUME NEW p \in Proc, RecvStep(p)
      PROVE  SpeaksForItself'
  <2>1. ASSUME NEW pub, HeartbeatSend(p, pub)
        PROVE  SpeaksForItself'
    <3>1. Speaks(net')
      BY <1>0, <2>1, MsgsSpeak, PutSpeaks DEF HeartbeatSend
    <3> QED
      BY <2>1, <3>1 DEF HeartbeatSend, Speaks
  <2>2. ASSUME NEW pub, RecvSend(p, pub)
        PROVE  SpeaksForItself'
    <3>1. Speaks(net')
      BY <1>0, <2>2, MsgsSpeak, PutSpeaks DEF RecvSend
    <3> QED
      BY <2>2, <3>1 DEF RecvSend, Poll, Speaks
  <2>3. CASE \/ HeartbeatDone(p) \/ ExpireTell(p) \/ ConnectTell(p)
             \/ Remove(p) \/ RemoveProc(p)
    BY <2>3 DEF HeartbeatDone, ExpireTell, ConnectTell, Remove, RemoveProc,
                Poll
  <2> QED
    BY <1>6, <2>1, <2>2, <2>3 DEF RecvStep
<1>7. ASSUME NEW p \in Proc, NEW m \in net, Receive(p, m)
      PROVE  SpeaksForItself'
  <2>1. ASSUME Take(p, m)
        PROVE  Speaks(net')
    BY <1>0, <2>1 DEF Take, Speaks
  <2>2. CASE RecvAdvertise(p, m)
    BY <2>1, <2>2 DEF RecvAdvertise, Speaks
  <2>3. CASE RecvSubscribe(p, m)
    BY <2>1, <2>3 DEF RecvSubscribe, PublishersByProc, Poll, Speaks
  <2>4. CASE RecvSubscribersReq(p, m)
    BY <2>1, <2>4 DEF RecvSubscribersReq, Poll, Speaks
  <2>5. CASE \/ RecvSubscribersRep(p, m) \/ RecvEndConnection(p, m)
             \/ RecvAlive(p, m)
    BY <2>1, <2>5 DEF RecvSubscribersRep, RecvEndConnection, RecvAlive, Speaks
  <2>6. CASE RecvUnadvertise(p, m)
    BY <2>1, <2>6 DEF RecvUnadvertise, Speaks
  <2>7. CASE RecvBye(p, m)
    BY <2>1, <2>7 DEF RecvBye, Speaks
  <2> QED
    BY <1>7, <2>2, <2>3, <2>4, <2>5, <2>6, <2>7 DEF Receive
<1>8. ASSUME NEW m \in net, Lose(m)
      PROVE  SpeaksForItself'
  BY <1>8 DEF Lose
<1>9. CASE UNCHANGED vars
  BY <1>9 DEF vars
<1> QED
  BY <1>1, <1>2, <1>3, <1>4, <1>5, <1>6, <1>7, <1>8, <1>9 DEF Next

\* A process only ever sends publishers and subscriptions of its own.
THEOREM SpeaksCorrect == Spec => []SpeaksForItself
<1> QED
  BY InitType, NextType, InitSpeaks, SpeaksStep, PTL DEF Spec

(***************************************************************************)
(* What a process knows of the others.                                     *)
(***************************************************************************)
\* The only way a process comes to know a publisher of another one.
Heard(p, r) ==
    \E m \in net : /\ m.type = "ADVERTISE"
                   /\ m.pub = r
                   /\ InScope(p, m.from, r)
                   /\ recv'[p] = [op |-> "connect", pub |-> r]
                   /\ m.from \in activity'[p]

LEMMA InfoStep ==
    ASSUME TypeOK, [Next]_vars, NEW p \in Proc, NEW r \in Remote(p, info'[p])
    PROVE  r \in info[p] \/ Heard(p, r)
<1> USE DEF TypeOK, Remote
<1>1. ASSUME NEW q \in Proc, Life(q)
      PROVE  r \in info[p]
  BY <1>1 DEF Life, Start, Destroy, JoinReception, SendBye, Crash, Vanish,
              discVars
<1>2. ASSUME NEW q \in Proc, UserCall(q)
      PROVE  r \in info[p]
  <2>1. ASSUME NEW pub, Advertise(q, pub)
        PROVE  r \in info[p]
    BY <2>1 DEF Advertise, AddPublisher
  <2>2. ASSUME NEW pub, Unadvertise(q, pub)
        PROVE  r \in info[p]
    BY <2>2 DEF Unadvertise, DelPublisherByNode
  <2>3. ASSUME NEW sub, \/ Discover(q, sub) \/ Unsubscribe(q, sub)
                        \/ Register(q, sub) \/ TopicList(q)
        PROVE  r \in info[p]
    BY <2>3 DEF Discover, Unsubscribe, Register, TopicList, discVars
  <2> QED
    BY <1>2, <2>1, <2>2, <2>3 DEF UserCall
<1>3. ASSUME NEW q \in Proc, CallStep(q) \/ Heartbeat(q)
      PROVE  r \in info[p]
  BY <1>3 DEF CallStep, CallSend, DiscoverLookup, DiscoverTell, WaitForInit,
              Heartbeat, discVars
<1>4. ASSUME NEW q \in Proc, NEW procs, Expire(q, procs)
      PROVE  r \in info[p]
  BY <1>4 DEF Expire
<1>5. ASSUME NEW q \in Proc, RecvStep(q)
      PROVE  r \in info[p]
  <2>1. ASSUME NEW pub, HeartbeatSend(q, pub) \/ RecvSend(q, pub)
        PROVE  r \in info[p]
    BY <2>1 DEF HeartbeatSend, RecvSend, discVars
  <2>2. CASE HeartbeatDone(q) \/ ExpireTell(q) \/ ConnectTell(q)
    BY <2>2 DEF HeartbeatDone, ExpireTell, ConnectTell, discVars
  <2>3. CASE Remove(q) \/ RemoveProc(q)
    BY <2>3 DEF Remove, RemoveProc, DelPublisherByNode, DelPublishersByProc
  <2> QED
    BY <1>5, <2>1, <2>2, <2>3 DEF RecvStep
<1>6. ASSUME NEW q \in Proc, NEW m \in net, Receive(q, m)
      PROVE  r \in info[p] \/ Heard(p, r)
  <2>1. CASE RecvAdvertise(q, m)
    <3>1. CASE r \notin info[p]
      <4>1. /\ q = p
            /\ m.pub = r
            /\ InScope(p, m.from, m.pub)
            /\ recv' = [recv EXCEPT ![p] = [op |-> "connect", pub |-> m.pub]]
        BY <2>1, <3>1 DEF RecvAdvertise, AddPublisher
      <4>2. m.from \in activity'[p]
        BY <2>1, <4>1 DEF RecvAdvertise, Seen
      <4> QED
        BY <2>1, <4>1, <4>2 DEF RecvAdvertise, Heard
    <3> QED
      BY <3>1
  <2>2. CASE ~ RecvAdvertise(q, m)
    BY <1>6, <2>2 DEF Receive, RecvSubscribe, RecvSubscribersReq,
                      RecvSubscribersRep, RecvEndConnection, RecvAlive,
                      RecvUnadvertise, RecvBye
  <2> QED
    BY <2>1, <2>2
<1>7. ASSUME NEW m \in net, Lose(m)
      PROVE  r \in info[p]
  BY <1>7 DEF Lose, discVars
<1>8. CASE UNCHANGED vars
  BY <1>8 DEF vars, discVars
<1> QED
  BY <1>1, <1>2, <1>3, <1>4, <1>5, <1>6, <1>7, <1>8 DEF Next

LEMMA InitScope == Init => ScopeRespected
BY DEF Init, ScopeRespected, Remote

LEMMA ScopeStep ==
    ASSUME TypeOK, SpeaksForItself, ScopeRespected, [Next]_vars
    PROVE  ScopeRespected'
<1> SUFFICES ASSUME NEW p \in Proc, NEW r \in Remote(p, info'[p])
             PROVE  /\ r.scope # "PROCESS"
                    /\ r.scope = "HOST" => HostOf[r.pUuid] = HostOf[p]
  BY DEF ScopeRespected, Remote
<1>1. CASE r \in info[p]
  BY <1>1 DEF ScopeRespected, Remote
<1>2. CASE Heard(p, r)
  BY <1>2 DEF Heard, InScope, SpeaksForItself, PubType
<1> QED
  BY <1>1, <1>2, InfoStep

\* No process knows a publisher out of the scope its owner chose, in any
\* network of any size: ADVERTISE carries the sender's own publishers, and the
\* receiver compares the sender's machine with its own.
THEOREM ScopeCorrect == Spec => []ScopeRespected
<1> QED
  BY InitType, NextType, InitSpeaks, SpeaksStep, InitScope, ScopeStep, PTL
     DEF Spec

(***************************************************************************)
(* One record per publisher.                                               *)
(***************************************************************************)
LEMMA StaysOnce ==
    ASSUME NEW pubs, OneRecordPerPublisher(pubs)
    PROVE  /\ \A pub : OneRecordPerPublisher(AddPublisher(pubs, pub))
           /\ \A some \in SUBSET pubs : OneRecordPerPublisher(some)
<1>1. ASSUME NEW pub
      PROVE  OneRecordPerPublisher(AddPublisher(pubs, pub))
  BY DEF OneRecordPerPublisher, AddPublisher, Holds, SamePublisher
<1>2. ASSUME NEW some \in SUBSET pubs
      PROVE  OneRecordPerPublisher(some)
  BY DEF OneRecordPerPublisher
<1> QED
  BY <1>1, <1>2

\* The inductive form of KnownOnce: the copy a Discover is about to present
\* has one record of each publisher too.
Once ==
    /\ KnownOnce
    /\ \A p \in Proc :
           call[p].op = "tell" => OneRecordPerPublisher(call[p].pubs)

LEMMA InitOnce == Init => Once
BY DEF Init, Once, KnownOnce, OneRecordPerPublisher, Idle

LEMMA OnceStep ==
    ASSUME TypeOK, Once, [Next]_vars
    PROVE  Once'
<1> USE DEF TypeOK, Once, KnownOnce
<1>1. ASSUME NEW p \in Proc, Life(p)
      PROVE  Once'
  <2>1. CASE Start(p) \/ Destroy(p) \/ JoinReception(p)
    BY <2>1 DEF Start, Destroy, JoinReception, discVars
  <2>2. ASSUME NEW sent, Vanish(p, sent)
        PROVE  Once'
    BY <2>2, StaysOnce DEF Vanish, Idle
  <2> QED
    BY <1>1, <2>1, <2>2 DEF Life, SendBye, Crash
<1>2. ASSUME NEW p \in Proc, UserCall(p)
      PROVE  Once'
  <2>1. ASSUME NEW pub, Advertise(p, pub)
        PROVE  Once'
    BY <2>1, StaysOnce DEF Advertise, Idle
  <2>2. ASSUME NEW pub, Unadvertise(p, pub)
        PROVE  Once'
    BY <2>2, StaysOnce DEF Unadvertise, DelPublisherByNode, Idle
  <2>3. ASSUME NEW sub, \/ Discover(p, sub) \/ Unsubscribe(p, sub)
                        \/ Register(p, sub) \/ TopicList(p)
        PROVE  Once'
    BY <2>3 DEF Discover, Unsubscribe, Register, TopicList, discVars
  <2> QED
    BY <1>2, <2>1, <2>2, <2>3 DEF UserCall
<1>3. ASSUME NEW p \in Proc, CallStep(p)
      PROVE  Once'
  <2>1. CASE CallSend(p) \/ WaitForInit(p)
    BY <2>1 DEF CallSend, WaitForInit, Idle, discVars
  <2>2. CASE DiscoverLookup(p)
    BY <2>2, StaysOnce DEF DiscoverLookup, PublishersOf, discVars
  <2>3. CASE DiscoverTell(p)
    <3>1. OneRecordPerPublisher(told'[p])
      BY <2>3 DEF DiscoverTell, OneRecordPerPublisher, Holds, SamePublisher
    <3> QED
      BY <2>3, <3>1 DEF DiscoverTell, Idle, discVars
  <2> QED
    BY <1>3, <2>1, <2>2, <2>3 DEF CallStep
<1>4. ASSUME NEW p \in Proc, Heartbeat(p)
      PROVE  Once'
  BY <1>4 DEF Heartbeat, discVars
<1>5. ASSUME NEW p \in Proc, NEW procs, Expire(p, procs)
      PROVE  Once'
  BY <1>5, StaysOnce DEF Expire
<1>6. ASSUME NEW p \in Proc, RecvStep(p)
      PROVE  Once'
  <2>1. ASSUME NEW pub, HeartbeatSend(p, pub) \/ RecvSend(p, pub)
        PROVE  Once'
    BY <2>1 DEF HeartbeatSend, RecvSend, discVars
  <2>2. CASE HeartbeatDone(p)
    BY <2>2 DEF HeartbeatDone
  <2>3. CASE ExpireTell(p)
    BY <2>3, StaysOnce DEF ExpireTell, discVars
  <2>4. CASE ConnectTell(p)
    BY <2>4, StaysOnce DEF ConnectTell, discVars
  <2>5. CASE Remove(p) \/ RemoveProc(p)
    BY <2>5, StaysOnce DEF Remove, RemoveProc, DelPublisherByNode,
                           DelPublishersByProc
  <2> QED
    BY <1>6, <2>1, <2>2, <2>3, <2>4, <2>5 DEF RecvStep
<1>7. ASSUME NEW p \in Proc, NEW m \in net, Receive(p, m)
      PROVE  Once'
  <2>1. CASE RecvAdvertise(p, m)
    BY <2>1, StaysOnce DEF RecvAdvertise
  <2>2. CASE RecvUnadvertise(p, m)
    BY <2>2, StaysOnce DEF RecvUnadvertise, DelPublisherByNode
  <2>3. CASE RecvBye(p, m)
    BY <2>3, StaysOnce DEF RecvBye, DelPublishersByProc
  <2>4. CASE \/ RecvSubscribe(p, m) \/ RecvSubscribersReq(p, m)
             \/ RecvSubscribersRep(p, m) \/ RecvEndConnection(p, m)
             \/ RecvAlive(p, m)
    BY <2>4 DEF RecvSubscribe, RecvSubscribersReq, RecvSubscribersRep,
                RecvEndConnection, RecvAlive
  <2> QED
    BY <1>7, <2>1, <2>2, <2>3, <2>4 DEF Receive
<1>8. ASSUME NEW m \in net, Lose(m)
      PROVE  Once'
  BY <1>8 DEF Lose, discVars
<1>9. CASE UNCHANGED vars
  BY <1>9 DEF vars, discVars
<1> QED
  BY <1>1, <1>2, <1>3, <1>4, <1>5, <1>6, <1>7, <1>8, <1>9 DEF Next

\* However often an advertisement is repeated, duplicated or presented, a
\* process holds one record of each publisher.
THEOREM OnceCorrect == Spec => []KnownOnce
<1>1. Once => KnownOnce
  BY DEF Once
<1> QED
  BY <1>1, InitType, NextType, InitOnce, OnceStep, PTL DEF Spec

(***************************************************************************)
(* What is known can expire.                                               *)
(***************************************************************************)
LEMMA InitExpire == Init => CanExpire
BY DEF Init, CanExpire, Remote

LEMMA ExpireStep ==
    ASSUME TypeOK, SpeaksForItself, CanExpire, [Next]_vars
    PROVE  CanExpire'
<1> USE DEF TypeOK, CanExpire, Remote
<1>1. ASSUME NEW p \in Proc, Life(p)
      PROVE  CanExpire'
  <2>1. CASE Start(p) \/ Destroy(p) \/ JoinReception(p)
    BY <2>1 DEF Start, Destroy, JoinReception, discVars
  <2>2. ASSUME NEW sent, Vanish(p, sent)
        PROVE  CanExpire'
    BY <2>2 DEF Vanish
  <2> QED
    BY <1>1, <2>1, <2>2 DEF Life, SendBye, Crash
<1>2. ASSUME NEW p \in Proc, UserCall(p)
      PROVE  CanExpire'
  <2>1. ASSUME NEW pub, Advertise(p, pub)
        PROVE  CanExpire'
    BY <2>1 DEF Advertise, AddPublisher
  <2>2. ASSUME NEW pub, Unadvertise(p, pub)
        PROVE  CanExpire'
    BY <2>2 DEF Unadvertise, DelPublisherByNode
  <2>3. ASSUME NEW sub, \/ Discover(p, sub) \/ Unsubscribe(p, sub)
                        \/ Register(p, sub) \/ TopicList(p)
        PROVE  CanExpire'
    BY <2>3 DEF Discover, Unsubscribe, Register, TopicList, discVars
  <2> QED
    BY <1>2, <2>1, <2>2, <2>3 DEF UserCall
<1>3. ASSUME NEW p \in Proc, CallStep(p)
      PROVE  CanExpire'
  BY <1>3 DEF CallStep, CallSend, DiscoverLookup, DiscoverTell, WaitForInit,
              discVars
<1>4. ASSUME NEW p \in Proc, Heartbeat(p)
      PROVE  CanExpire'
  BY <1>4 DEF Heartbeat, Poll, discVars
<1>5. ASSUME NEW p \in Proc, NEW procs, Expire(p, procs)
      PROVE  CanExpire'
  BY <1>5 DEF Expire, Poll
<1>6. ASSUME NEW p \in Proc, RecvStep(p)
      PROVE  CanExpire'
  <2>1. ASSUME NEW pub, HeartbeatSend(p, pub) \/ RecvSend(p, pub)
        PROVE  CanExpire'
    BY <2>1 DEF HeartbeatSend, RecvSend, discVars
  <2>2. CASE HeartbeatDone(p) \/ ExpireTell(p) \/ ConnectTell(p)
    BY <2>2 DEF HeartbeatDone, ExpireTell, ConnectTell, discVars
  <2>3. CASE Remove(p)
    BY <2>3 DEF Remove, DelPublisherByNode
  <2>4. CASE RemoveProc(p)
    BY <2>4 DEF RemoveProc, DelPublishersByProc
  <2> QED
    BY <1>6, <2>1, <2>2, <2>3, <2>4 DEF RecvStep
<1>7. ASSUME NEW p \in Proc, NEW m \in net, Receive(p, m)
      PROVE  CanExpire'
  <2>1. ASSUME Seen(p, m)
        PROVE  /\ activity' = [activity EXCEPT ![p] = @ \union {m.from}]
               /\ m.from \in activity'[p]
    BY <2>1 DEF Seen
  <2>2. CASE RecvAdvertise(p, m)
    <3>1. m.pub.pUuid = m.from
      BY <2>2 DEF RecvAdvertise, SpeaksForItself, PubType
    <3> QED
      BY <2>1, <2>2, <3>1 DEF RecvAdvertise, Take, Poll, AddPublisher
  <2>3. CASE RecvSubscribersRep(p, m)
    <3>1. m.pub.pUuid = m.from
      BY <2>3 DEF RecvSubscribersRep, SpeaksForItself, PubType
    <3> QED
      BY <2>1, <2>3, <3>1 DEF RecvSubscribersRep, Take, Poll, AddPublisher
  <2>4. CASE RecvEndConnection(p, m)
    BY <2>1, <2>4 DEF RecvEndConnection, DelPublisherByNode
  <2>5. CASE RecvSubscribe(p, m) \/ RecvSubscribersReq(p, m)
    BY <2>1, <2>5 DEF RecvSubscribe, RecvSubscribersReq, Take, Poll
  <2>6. CASE RecvAlive(p, m) \/ RecvUnadvertise(p, m)
    BY <2>1, <2>6 DEF RecvAlive, RecvUnadvertise, Take, Poll
  <2>7. CASE RecvBye(p, m)
    BY <2>7 DEF RecvBye, Take, Poll
  <2> QED
    BY <1>7, <2>2, <2>3, <2>4, <2>5, <2>6, <2>7 DEF Receive
<1>8. ASSUME NEW m \in net, Lose(m)
      PROVE  CanExpire'
  BY <1>8 DEF Lose, discVars
<1>9. CASE UNCHANGED vars
  BY <1>9 DEF vars, discVars
<1> QED
  BY <1>1, <1>2, <1>3, <1>4, <1>5, <1>6, <1>7, <1>8, <1>9 DEF Next

\* No process remembers a publisher or subscriber of a process it no longer
\* watches: without its entry in Discovery::activity it would stay for ever.
THEOREM ExpireCorrect == Spec => []CanExpire
<1> QED
  BY InitType, NextType, InitSpeaks, SpeaksStep, InitExpire, ExpireStep, PTL
     DEF Spec

(***************************************************************************)
(* The client is told.                                                     *)
(***************************************************************************)
\* The inductive form of ClientTold: what an expiry is about to report is
\* forgotten already.
Told ==
    /\ ClientTold
    /\ \A p \in Proc : recv[p].op = "expired" =>
           \A r \in Remote(p, info[p]) : r.pUuid \notin recv[p].procs

LEMMA InitTold == Init => Told
BY DEF Init, Told, ClientTold, Remote, Poll

\* A publisher that stays known stays told of, or in transit: the step is
\* looked at for one publisher r of another process.
LEMMA ToldStep ==
    ASSUME TypeOK, Told, [Next]_vars
    PROVE  Told'
<1> SUFFICES ASSUME NEW p \in Proc, NEW r \in Remote(p, info'[p])
             PROVE  /\ Holds(told'[p], r) \/ InTransit(p, r)'
                    /\ recv'[p].op = "expired" =>
                           r.pUuid \notin recv'[p].procs
  BY DEF Told, ClientTold, Remote
<1> DEFINE Good == /\ Holds(told'[p], r) \/ InTransit(p, r)'
                   /\ recv'[p].op = "expired" => r.pUuid \notin recv'[p].procs
<1>1. ASSUME Heard(p, r)
      PROVE  Good
  BY <1>1 DEF Heard, InTransit, SamePublisher
<1>2. SUFFICES ASSUME r \in info[p]
               PROVE  Good
  BY <1>1, InfoStep
<1>3. /\ Holds(told[p], r) \/ InTransit(p, r)
      /\ recv[p].op = "expired" => r.pUuid \notin recv[p].procs
  BY <1>2 DEF Told, ClientTold, Remote
<1>4. ASSUME told'[p] = told[p], recv'[p] = recv[p]
      PROVE  Good
  BY <1>3, <1>4 DEF InTransit
<1>5. ASSUME NEW q \in Proc, Life(q)
      PROVE  Good
  <2>1. CASE Start(q) \/ Destroy(q) \/ JoinReception(q)
    BY <1>4, <2>1 DEF Start, Destroy, JoinReception
  <2>2. ASSUME NEW sent, Vanish(q, sent)
        PROVE  Good
    <3>1. q # p
      BY <2>2 DEF Vanish, TypeOK, Remote
    <3> QED
      BY <1>4, <2>2, <3>1 DEF Vanish, TypeOK
  <2> QED
    BY <1>5, <2>1, <2>2 DEF Life, SendBye, Crash
<1>6. ASSUME NEW q \in Proc, UserCall(q)
      PROVE  Good
  BY <1>4, <1>6 DEF UserCall, Advertise, Unadvertise, Discover, Unsubscribe,
                    Register, TopicList
<1>7. ASSUME NEW q \in Proc, CallStep(q)
      PROVE  Good
  <2>1. CASE CallSend(q) \/ DiscoverLookup(q) \/ WaitForInit(q)
    BY <1>4, <2>1 DEF CallSend, DiscoverLookup, WaitForInit
  <2>2. CASE DiscoverTell(q)
    <3>1. told[p] \subseteq told'[p] /\ recv'[p] = recv[p]
      BY <2>2 DEF DiscoverTell, TypeOK
    <3> QED
      BY <1>3, <3>1 DEF Holds, InTransit
  <2> QED
    BY <1>7, <2>1, <2>2 DEF CallStep
<1>8. ASSUME NEW q \in Proc, Heartbeat(q)
      PROVE  Good
  <2>1. told' = told /\ (recv'[p] = recv[p] \/ recv'[p].op = "beat")
    BY <1>8 DEF Heartbeat, TypeOK
  <2>2. recv'[p] # recv[p] => recv[p] = Poll
    BY <1>8 DEF Heartbeat, TypeOK
  <2> QED
    BY <1>3, <1>4, <2>1, <2>2 DEF InTransit, Poll
<1>9. ASSUME NEW q \in Proc, NEW procs, Expire(q, procs)
      PROVE  Good
  <2>1. CASE q = p
    <3>1. r.pUuid \notin procs /\ recv[p] = Poll /\ told' = told
      BY <1>9, <2>1 DEF Expire, TypeOK, Remote
    <3>2. recv'[p] = [op |-> "expired", procs |-> procs]
      BY <1>9, <2>1 DEF Expire, TypeOK
    <3> QED
      BY <1>3, <3>1, <3>2 DEF InTransit, Poll
  <2>2. CASE q # p
    BY <1>4, <1>9, <2>2 DEF Expire, TypeOK
  <2> QED
    BY <2>1, <2>2
<1>10. ASSUME NEW q \in Proc, RecvStep(q)
       PROVE  Good
  <2>1. CASE q # p
    BY <1>4, <1>10, <2>1
       DEF RecvStep, HeartbeatDone, HeartbeatSend, RecvSend, ExpireTell,
           ConnectTell, Remove, RemoveProc, TypeOK
  <2>2. ASSUME NEW pub, HeartbeatSend(p, pub) \/ RecvSend(p, pub)
        PROVE  Good
    <3>1. /\ told' = told
          /\ recv[p].op \in {"beat", "send"}
          /\ recv'[p].op \in {"beat", "send", "poll"}
      <4>1. recv[p] \in RecvState
        BY DEF TypeOK
      <4>2. CASE HeartbeatSend(p, pub)
        <5>1. recv[p] \in [op : {"beat"}, pubs : SUBSET Publisher]
          BY <4>1, <4>2 DEF HeartbeatSend, RecvState, Poll
        <5> QED
          BY <4>2, <5>1 DEF HeartbeatSend, TypeOK
      <4>3. CASE RecvSend(p, pub)
        BY <4>3 DEF RecvSend, TypeOK, Poll
      <4> QED
        BY <2>2, <4>2, <4>3
    <3> QED
      BY <1>3, <3>1 DEF InTransit
  <2>3. CASE HeartbeatDone(p)
    BY <1>3, <2>3 DEF HeartbeatDone, TypeOK, Poll, InTransit
  <2>4. CASE ExpireTell(p)
    <3>1. /\ told'[p] = {x \in told[p] : x.pUuid \notin recv[p].procs}
          /\ recv[p].op = "expired"
          /\ recv'[p] = Poll
      BY <2>4 DEF ExpireTell, TypeOK
    <3>2. Holds(told[p], r)
      BY <1>3, <3>1 DEF InTransit
    <3> QED
      BY <1>3, <3>1, <3>2 DEF Holds, SamePublisher, Poll
  <2>5. CASE ConnectTell(p)
    <3>1. /\ told'[p] = AddPublisher(told[p], recv[p].pub)
          /\ recv[p].op = "connect"
          /\ recv'[p] = Poll
      BY <2>5 DEF ConnectTell, TypeOK
    <3>2. CASE Holds(told[p], r)
      BY <3>1, <3>2 DEF AddPublisher, Holds, Poll
    <3>3. CASE SamePublisher(recv[p].pub, r)
      <4>1. Holds(told'[p], recv[p].pub)
        BY <3>1 DEF AddPublisher, Holds, SamePublisher
      <4> QED
        BY <3>1, <3>3, <4>1 DEF Holds, SamePublisher, Poll
    <3> QED
      BY <1>3, <3>1, <3>2, <3>3 DEF InTransit
  <2>6. CASE Remove(p)
    <3>1. /\ told' = told
          /\ recv[p].op = "remove"
          /\ recv'[p] = Poll
      BY <2>6 DEF Remove, TypeOK
    <3>2. r \in DelPublisherByNode(info[p], recv[p].pub.topic,
                                   recv[p].pub.pUuid, recv[p].pub.nUuid)
      BY <2>6 DEF Remove, TypeOK, Remote
    <3>3. Holds(told[p], r)
      BY <1>3, <3>1, <3>2 DEF InTransit, DelPublisherByNode
    <3> QED
      BY <3>1, <3>3 DEF Poll
  <2>7. CASE RemoveProc(p)
    <3>1. /\ told' = told
          /\ recv[p].op = "removeProc"
          /\ recv'[p] = Poll
      BY <2>7 DEF RemoveProc, TypeOK
    <3>2. r.pUuid # recv[p].proc
      BY <2>7 DEF RemoveProc, TypeOK, Remote, DelPublishersByProc
    <3> QED
      BY <1>3, <3>1, <3>2 DEF InTransit, Poll
  <2> QED
    BY <1>10, <2>1, <2>2, <2>3, <2>4, <2>5, <2>6, <2>7 DEF RecvStep
<1>11. ASSUME NEW q \in Proc, NEW m \in net, Receive(q, m)
       PROVE  Good
  <2>1. CASE q # p
    BY <1>4, <1>11, <2>1
       DEF Receive, RecvAdvertise, RecvSubscribe, RecvSubscribersReq,
           RecvSubscribersRep, RecvEndConnection, RecvAlive, RecvUnadvertise,
           RecvBye, TypeOK
  <2>2. ASSUME Take(p, m)
        PROVE  Holds(told[p], r) /\ recv[p] = Poll
    BY <1>3, <2>2 DEF Take, InTransit, Poll
  <2>3. CASE RecvAdvertise(p, m) \/ RecvSubscribe(p, m)
    BY <2>2, <2>3 DEF RecvAdvertise, RecvSubscribe, TypeOK, Poll
  <2>4. CASE \/ RecvSubscribersReq(p, m) \/ RecvSubscribersRep(p, m)
             \/ RecvEndConnection(p, m) \/ RecvAlive(p, m)
    BY <2>2, <2>4 DEF RecvSubscribersReq, RecvSubscribersRep,
                      RecvEndConnection, RecvAlive, TypeOK, Poll
  <2>5. CASE RecvUnadvertise(p, m)
    <3>1. CASE ~ InScope(p, m.from, m.pub)
      BY <1>4, <2>5, <3>1 DEF RecvUnadvertise
    <3>2. CASE InScope(p, m.from, m.pub)
      <4>1. /\ told'[p] = DelPublisherByNode(told[p], m.pub.topic,
                                             m.pub.pUuid, m.pub.nUuid)
            /\ recv'[p] = [op |-> "remove", pub |-> m.pub]
        BY <2>5, <3>2 DEF RecvUnadvertise, TypeOK
      <4>2. Holds(told[p], r)
        BY <2>2, <2>5 DEF RecvUnadvertise
      <4> QED
        BY <4>1, <4>2 DEF Holds, SamePublisher, DelPublisherByNode, InTransit
    <3> QED
      BY <3>1, <3>2
  <2>6. CASE RecvBye(p, m)
    <3>1. /\ told'[p] = DelPublishersByProc(told[p], m.from)
          /\ recv'[p] = [op |-> "removeProc", proc |-> m.from]
      BY <2>6 DEF RecvBye, TypeOK
    <3>2. Holds(told[p], r)
      BY <2>2, <2>6 DEF RecvBye
    <3> QED
      BY <3>1, <3>2 DEF Holds, SamePublisher, DelPublishersByProc, InTransit
  <2> QED
    BY <1>11, <2>1, <2>3, <2>4, <2>5, <2>6 DEF Receive
<1>12. ASSUME NEW m \in net, Lose(m)
       PROVE  Good
  BY <1>4, <1>12 DEF Lose
<1>13. CASE UNCHANGED vars
  BY <1>4, <1>13 DEF vars
<1> QED
  BY <1>5, <1>6, <1>7, <1>8, <1>9, <1>10, <1>11, <1>12, <1>13 DEF Next

\* Every publisher of others that a process knows was reported to its client
\* or is about to be, or is being withdrawn.
THEOREM ToldCorrect == Spec => []ClientTold
<1>1. Told => ClientTold
  BY DEF Told
<1> QED
  BY <1>1, InitType, NextType, InitTold, ToldStep, PTL DEF Spec

(***************************************************************************)
(* What comes from outside, and from whom.                                 *)
(***************************************************************************)
\* What the reception thread of a process works on is of other processes: it
\* never sees, expires or forgets its own, whose records have its address.
Foreign(p) ==
    /\ p \notin activity[p]
    /\ recv[p].op = "remove" => recv[p].pub.pUuid # p
    /\ recv[p].op = "removeProc" => recv[p].proc # p
    /\ \A r \in PublishersByProc(info[p], p) : r.addr = p

\* A process receives nothing of its own, and a BYE in flight is of a process
\* that is gone.
Outside ==
    /\ \A m \in net : m.to # m.from
    /\ \A m \in net : m.type = "BYE" => status[m.from] = "gone"
    /\ \A p \in Proc : Foreign(p)

\* Who may send what.
MaySend(m) ==
    /\ m.from \in Proc
    /\ m.to # m.from
    /\ \/ Listening(m.from) /\ m.type # "BYE"
       \/ status[m.from] = "joined" /\ status'[m.from] = "gone"

LEMMA MsgsOf ==
    ASSUME NEW p \in Proc
    PROVE  /\ \A type, pub : \A m \in PubMsgs(p, type, pub) :
                 m.from = p /\ m.to # p /\ m.type = type
           /\ \A topic : \A m \in SubscribeMsgs(p, topic) :
                 m.from = p /\ m.to # p /\ m.type = "SUBSCRIBE"
           /\ \A type : \A m \in BareMsgs(p, type) :
                 m.from = p /\ m.to # p /\ m.type = type
BY DEF PubMsgs, SubscribeMsgs, BareMsgs, Peers

LEMMA SentStep ==
    ASSUME TypeOK, [Next]_vars, NEW m \in net', m \notin net
    PROVE  MaySend(m)
<1> USE DEF TypeOK, Listening, Running
<1>1. ASSUME NEW p \in Proc, Life(p)
      PROVE  MaySend(m)
  <2>1. SendBye(p)
    BY <1>1, PutSubset
       DEF Life, Start, Destroy, JoinReception, Crash, Vanish
  <2>2. m \in BareMsgs(p, "BYE")
    BY <2>1, PutSubset DEF SendBye, Vanish
  <2> QED
    BY <2>1, <2>2, MsgsOf DEF SendBye, Vanish, MaySend
<1>2. ASSUME NEW p \in Proc, UserCall(p)
      PROVE  MaySend(m)
  <2>1. ASSUME NEW sub, Discover(p, sub) \/ Register(p, sub)
        PROVE  MaySend(m)
    <3>1. \/ m \in SubscribeMsgs(p, sub.topic)
          \/ m \in PubMsgs(p, "NEW_CONNECTION", sub)
      BY <2>1, PutSubset DEF Discover, Register
    <3> QED
      BY <2>1, <3>1, MsgsOf DEF MaySend, Discover, Register
  <2>2. CASE TopicList(p)
    <3>1. m \in BareMsgs(p, "SUBSCRIBERS_REQ")
      BY <2>2, PutSubset DEF TopicList
    <3> QED
      BY <2>2, <3>1, MsgsOf DEF MaySend, TopicList
  <2> QED
    BY <1>2, <2>1, <2>2 DEF UserCall, Advertise, Unadvertise, Unsubscribe
<1>3. ASSUME NEW p \in Proc, CallStep(p)
      PROVE  MaySend(m)
  <2>1. CallSend(p)
    BY <1>3 DEF CallStep, DiscoverLookup, DiscoverTell, WaitForInit
  <2>2. m \in PubMsgs(p, CallMsgType[call[p].op], call[p].pub)
    BY <2>1, PutSubset DEF CallSend
  <2> QED
    BY <2>1, <2>2, MsgsOf DEF MaySend, CallSend, CallMsgType
<1>4. ASSUME NEW p \in Proc, Heartbeat(p)
      PROVE  MaySend(m)
  <2>1. m \in BareMsgs(p, "HEARTBEAT")
    BY <1>4, PutSubset DEF Heartbeat
  <2> QED
    BY <1>4, <2>1, MsgsOf DEF MaySend, Heartbeat
<1>5. ASSUME NEW p \in Proc, RecvStep(p)
      PROVE  MaySend(m)
  <2>1. PICK pub \in Publisher : HeartbeatSend(p, pub) \/ RecvSend(p, pub)
    BY <1>5 DEF RecvStep, HeartbeatDone, ExpireTell, ConnectTell, Remove,
                RemoveProc
  <2>2. CASE HeartbeatSend(p, pub)
    <3>1. m \in PubMsgs(p, "ADVERTISE", pub)
      BY <2>2, PutSubset DEF HeartbeatSend
    <3> QED
      BY <2>2, <3>1, MsgsOf DEF MaySend, HeartbeatSend
  <2>3. CASE RecvSend(p, pub)
    <3>1. m \in PubMsgs(p, recv[p].type, pub)
      BY <2>3, PutSubset DEF RecvSend
    <3>2. recv[p].type \in PubType
      BY <2>3 DEF RecvSend, RecvState, Poll
    <3> QED
      BY <2>3, <3>1, <3>2, MsgsOf DEF MaySend, RecvSend, PubType
  <2> QED
    BY <2>1, <2>2, <2>3
<1>6. ASSUME \/ \E p \in Proc, procs \in SUBSET Proc : Expire(p, procs)
             \/ \E p \in Proc, k \in net : Receive(p, k)
             \/ \E k \in net : Lose(k)
             \/ UNCHANGED vars
      PROVE  FALSE
  BY <1>6 DEF Expire, Lose, vars, Receive, RecvAdvertise, RecvSubscribe,
     RecvSubscribersReq, RecvSubscribersRep, RecvEndConnection, RecvAlive,
     RecvUnadvertise, RecvBye, Take
<1> QED
  BY <1>1, <1>2, <1>3, <1>4, <1>5, <1>6 DEF Next

\* A process that is gone stays gone.
LEMMA GoneStays ==
    ASSUME TypeOK, [Next]_vars, NEW p \in Proc, status[p] = "gone"
    PROVE  status'[p] = "gone"
<1> USE DEF TypeOK
<1>1. ASSUME NEW q \in Proc, Life(q)
      PROVE  status'[p] = "gone"
  BY <1>1 DEF Life, Start, Destroy, JoinReception, SendBye, Crash, Vanish
<1>2. ASSUME NEW q \in Proc,
             UserCall(q) \/ CallStep(q) \/ Heartbeat(q) \/ RecvStep(q)
      PROVE  status' = status
  BY <1>2 DEF UserCall, Advertise, Unadvertise, Discover, Unsubscribe,
     Register, TopicList, CallStep, CallSend, DiscoverLookup, DiscoverTell,
     WaitForInit, Heartbeat, RecvStep, HeartbeatDone, HeartbeatSend, RecvSend,
     ExpireTell, ConnectTell, Remove, RemoveProc
<1>3. ASSUME \/ \E q \in Proc, procs \in SUBSET Proc : Expire(q, procs)
             \/ \E q \in Proc, k \in net : Receive(q, k)
             \/ \E k \in net : Lose(k)
             \/ UNCHANGED vars
      PROVE  status' = status
  BY <1>3 DEF Expire, Lose, vars, Receive, RecvAdvertise, RecvSubscribe,
     RecvSubscribersReq, RecvSubscribersRep, RecvEndConnection, RecvAlive,
     RecvUnadvertise, RecvBye
<1> QED
  BY <1>1, <1>2, <1>3 DEF Next

LEMMA InitOutside == Init => Outside
BY DEF Init, Outside, Foreign, Poll, PublishersByProc

LEMMA ForeignStep ==
    ASSUME TypeOK, SpeaksForItself, Outside, [Next]_vars, NEW p \in Proc
    PROVE  Foreign(p)'
<1> USE DEF TypeOK, Foreign, PublishersByProc
<1>0. Foreign(p)
  BY DEF Outside
<1>1. ASSUME NEW q \in Proc, Life(q)
      PROVE  Foreign(p)'
  BY <1>0, <1>1 DEF Life, Start, Destroy, JoinReception, SendBye, Crash,
                    Vanish, Poll, discVars
<1>2. ASSUME NEW q \in Proc, UserCall(q)
      PROVE  Foreign(p)'
  <2>1. ASSUME NEW pub, Advertise(q, pub) \/ Unadvertise(q, pub)
        PROVE  Foreign(p)'
    BY <1>0, <2>1
       DEF Advertise, Unadvertise, AddPublisher, DelPublisherByNode
  <2>2. ASSUME NEW sub, \/ Discover(q, sub) \/ Unsubscribe(q, sub)
                        \/ Register(q, sub)
        PROVE  Foreign(p)'
    BY <1>0, <2>2 DEF Discover, Unsubscribe, Register, discVars
  <2>3. CASE TopicList(q)
    BY <1>0, <2>3 DEF TopicList, discVars
  <2> QED
    BY <1>2, <2>1, <2>2, <2>3 DEF UserCall
<1>3. ASSUME NEW q \in Proc, CallStep(q) \/ Heartbeat(q)
      PROVE  Foreign(p)'
  BY <1>0, <1>3 DEF CallStep, CallSend, DiscoverLookup, DiscoverTell,
                    WaitForInit, Heartbeat, discVars
<1>4. ASSUME NEW q \in Proc, NEW procs, Expire(q, procs)
      PROVE  Foreign(p)'
  BY <1>0, <1>4 DEF Expire
<1>5. ASSUME NEW q \in Proc, RecvStep(q)
      PROVE  Foreign(p)'
  <2>1. ASSUME NEW pub, HeartbeatSend(q, pub)
        PROVE  Foreign(p)'
    <3>1. recv[q] \in [op : {"beat"}, pubs : SUBSET Publisher]
      BY <2>1 DEF HeartbeatSend, RecvState, Poll
    <3>2. recv'[q].op = "beat" /\ (q # p => recv'[p] = recv[p])
      BY <2>1, <3>1 DEF HeartbeatSend
    <3> QED
      BY <1>0, <2>1, <3>2 DEF HeartbeatSend, discVars
  <2>4. ASSUME NEW pub, RecvSend(q, pub)
        PROVE  Foreign(p)'
    BY <1>0, <2>4 DEF RecvSend, discVars, Poll
  <2>2. CASE HeartbeatDone(q) \/ ExpireTell(q) \/ ConnectTell(q)
    BY <1>0, <2>2 DEF HeartbeatDone, ExpireTell, ConnectTell, discVars, Poll
  <2>3. CASE Remove(q) \/ RemoveProc(q)
    BY <1>0, <2>3
       DEF Remove, RemoveProc, Poll, DelPublisherByNode, DelPublishersByProc
  <2> QED
    BY <1>5, <2>1, <2>2, <2>3, <2>4 DEF RecvStep
<1>6. ASSUME NEW q \in Proc, NEW m \in net, Receive(q, m)
      PROVE  Foreign(p)'
  <2>1. m.to = q /\ m.from # q
    BY <1>6 DEF Receive, RecvAdvertise, RecvSubscribe, RecvSubscribersReq,
       RecvSubscribersRep, RecvEndConnection, RecvAlive, RecvUnadvertise,
       RecvBye, Take, Outside
  <2>2. m.type \in PubType => m.pub.pUuid # q
    BY <2>1 DEF SpeaksForItself
  <2>3. CASE RecvAdvertise(q, m)
    BY <1>0, <2>1, <2>2, <2>3 DEF RecvAdvertise, Seen, AddPublisher, PubType
  <2>4. CASE RecvUnadvertise(q, m)
    BY <1>0, <2>1, <2>2, <2>4 DEF RecvUnadvertise, Seen, PubType
  <2>5. CASE RecvBye(q, m)
    BY <1>0, <2>1, <2>5 DEF RecvBye
  <2>6. CASE RecvSubscribe(q, m) \/ RecvSubscribersReq(q, m)
    BY <1>0, <2>1, <2>6 DEF RecvSubscribe, RecvSubscribersReq, Seen, Poll
  <2>7. CASE \/ RecvSubscribersRep(q, m) \/ RecvEndConnection(q, m)
             \/ RecvAlive(q, m)
    BY <1>0, <2>1, <2>7
       DEF RecvSubscribersRep, RecvEndConnection, RecvAlive, Seen
  <2> QED
    BY <1>6, <2>3, <2>4, <2>5, <2>6, <2>7 DEF Receive
<1>7. ASSUME NEW m \in net, Lose(m)
      PROVE  Foreign(p)'
  BY <1>0, <1>7 DEF Lose, discVars
<1>8. CASE UNCHANGED vars
  BY <1>0, <1>8 DEF vars, discVars
<1> QED
  BY <1>1, <1>2, <1>3, <1>4, <1>5, <1>6, <1>7, <1>8 DEF Next

LEMMA OutsideStep ==
    ASSUME TypeOK, SpeaksForItself, Outside, [Next]_vars
    PROVE  Outside'
<1>1. ASSUME NEW m \in net'
      PROVE  m.to # m.from /\ (m.type = "BYE" => status'[m.from] = "gone")
  <2>1. CASE m \in net
    <3>1. m.from \in Proc
      BY <2>1 DEF TypeOK, Message
    <3> QED
      BY <2>1, <3>1, GoneStays DEF Outside
  <2>2. CASE m \notin net
    BY <2>2, SentStep DEF MaySend
  <2> QED
    BY <2>1, <2>2
<1> QED
  BY <1>1, ForeignStep DEF Outside

\* BYE is the last thing a process says, whatever the network still holds of
\* it: the destructor joins the reception thread before it sends it, and a
\* process that is gone has no thread left to send with.
THEOREM ByeLast == Spec => ByeIsLast
<1>1. TypeOK /\ Outside /\ [Next]_vars
      => [\A m \in net' \ net : \A b \in net :
             b.type = "BYE" /\ b.from = m.from => m.type = "BYE"]_vars
  BY SentStep DEF Outside, MaySend, Listening, Running
<1> QED
  BY <1>1, InitType, NextType, InitSpeaks, SpeaksStep, InitOutside,
     OutsideStep, PTL DEF Spec, ByeIsLast

(***************************************************************************)
(* Discovery implements the Directory.                                     *)
(***************************************************************************)
Live == {p \in Proc : status[p] \in Running \union {"joined"}}
Offers == [p \in Proc |-> PublishersByProc(info[p], p)]
Known == [p \in Proc |-> Remote(p, info[p])]

\* Where the rumours of a network n, calls c and reception threads v are.
RumourOf(n, c, v, r) ==
    \/ \E m \in n : m.type = "ADVERTISE" /\ m.pub = r
    \/ \E p \in Proc : c[p].op = "advertise" /\ c[p].pub = r
    \/ \E p \in Proc : /\ \/ v[p].op = "beat"
                          \/ v[p].op = "send" /\ v[p].type = "ADVERTISE"
                       /\ r \in v[p].pubs

LEMMA RumoursAre ==
    ASSUME NEW r
    PROVE  /\ r \in Rumours <=> RumourOf(net, call, recv, r)
           /\ r \in Rumours' <=> RumourOf(net', call', recv', r)
BY DEF Rumours, RumourOf

\* The rumours a step may add, when its sends, its call and its reception
\* thread add none but those of "more".
LEMMA RumoursGrow ==
    ASSUME NEW more,
           \A m \in net' : m.type = "ADVERTISE" =>
               m \in net \/ m.pub \in Rumours \union more,
           \A p \in Proc : call'[p].op = "advertise" =>
               call'[p] = call[p] \/ call'[p].pub \in Rumours \union more,
           \A p \in Proc : \A r \in recv'[p].pubs :
               \/ recv'[p].op = "beat"
               \/ recv'[p].op = "send" /\ recv'[p].type = "ADVERTISE"
               => recv'[p] = recv[p] \/ r \in Rumours \union more
    PROVE  Rumours' \in SUBSET (Rumours \union more)
<1> SUFFICES ASSUME NEW r \in Rumours'
             PROVE  r \in Rumours \union more
  OBVIOUS
<1>0. RumourOf(net', call', recv', r)
  BY RumoursAre
<1>1. CASE \E m \in net' : m.type = "ADVERTISE" /\ m.pub = r
  BY <1>1, RumoursAre DEF RumourOf
<1>2. CASE \E p \in Proc : call'[p].op = "advertise" /\ call'[p].pub = r
  BY <1>2, RumoursAre DEF RumourOf
<1>3. ASSUME NEW p \in Proc,
             \/ recv'[p].op = "beat"
             \/ recv'[p].op = "send" /\ recv'[p].type = "ADVERTISE",
             r \in recv'[p].pubs
      PROVE  r \in Rumours \union more
  BY <1>3, RumoursAre DEF RumourOf
<1> QED
  BY <1>0, <1>1, <1>2, <1>3 DEF RumourOf

\* A step that tells nobody anything is a lapse of rumours.
LEMMA Lapses ==
    ASSUME info' = info,
           \A p \in Proc : status'[p] \in Running \union {"joined"}
                               <=> status[p] \in Running \union {"joined"},
           Rumours' \in SUBSET Rumours
    PROVE  Promise!Next
<1>1. Live' = Live
  BY DEF Live, Running
<1> QED
  BY <1>1 DEF Promise!Next, Promise!Lapse, Live

LEMMA SameAdd ==
    ASSUME NEW pubs, NEW pub
    PROVE  Promise!AddPublisher(pubs, pub) = AddPublisher(pubs, pub)
BY DEF Promise!AddPublisher, AddPublisher, Promise!Holds, Holds,
       Promise!SamePublisher, SamePublisher

LEMMA InitMaps == Init => Promise!Init
BY DEF Init, Promise!Init, PublishersByProc, Remote, Rumours, Poll, Idle,
       Running

LEMMA LifeMaps ==
    ASSUME TypeOK, NEW p \in Proc, Life(p)
    PROVE  Promise!Next
<1> USE DEF TypeOK
<1>1. CASE Start(p)
  <2>1. Rumours' = Rumours
    BY <1>1 DEF Start, Rumours
  <2>2. p \notin Live /\ Live' = Live \union {p}
    BY <1>1 DEF Start, Live, Running
  <2>3. Offers' = Offers /\ Known' = Known
    BY <1>1 DEF Start, discVars, Offers, Known
  <2> QED
    BY <2>1, <2>2, <2>3
       DEF Promise!Next, Promise!Join, Live, Offers, Known
<1>2. CASE Destroy(p) \/ JoinReception(p)
  <2>1. Rumours' = Rumours /\ info' = info
    BY <1>2 DEF Destroy, JoinReception, Rumours, discVars
  <2>2. \A q \in Proc : status'[q] \in Running \union {"joined"}
                            <=> status[q] \in Running \union {"joined"}
    BY <1>2 DEF Destroy, JoinReception, Running
  <2> QED
    BY <2>1, <2>2, Lapses
<1>3. ASSUME NEW sent, Vanish(p, sent), p \in Live,
             \A m \in sent : m.type # "ADVERTISE"
      PROVE  Promise!Next
  <2>1. Rumours' \in SUBSET Rumours
    <3>1. \A m \in net' : m.type = "ADVERTISE" => m \in net
      BY <1>3, PutSubset DEF Vanish
    <3>2. \A q \in Proc : /\ call'[q] = call[q] \/ call'[q].op # "advertise"
                          /\ \/ recv'[q] = recv[q]
                             \/ recv'[q].op \notin {"beat", "send"}
      BY <1>3 DEF Vanish, Poll, Idle
    <3> QED
      BY <3>1, <3>2, RumoursGrow
  <2>2. Live' = Live \ {p}
    BY <1>3 DEF Vanish, Live, Running
  <2>3. /\ Offers' = [Offers EXCEPT ![p] = {}]
        /\ Known' = [Known EXCEPT ![p] = {}]
    BY <1>3 DEF Vanish, Offers, Known, PublishersByProc, Remote
  <2> QED
    BY <1>3, <2>1, <2>2, <2>3
       DEF Promise!Next, Promise!Leave, Live, Offers, Known
<1>4. CASE SendBye(p)
  BY <1>3, <1>4, MsgsOf DEF SendBye, Live, Running
<1>5. CASE Crash(p)
  BY <1>3, <1>5 DEF Crash, Live, Listening
<1> QED
  BY <1>1, <1>2, <1>4, <1>5 DEF Life

LEMMA UserCallMaps ==
    ASSUME TypeOK, KnownOnce, Outside, NEW p \in Proc, UserCall(p)
    PROVE  Promise!Next
<1> USE DEF TypeOK
<1>0. Live' = Live
  BY DEF UserCall, Advertise, Unadvertise, Discover, Unsubscribe, Register,
         TopicList, Live
<1>1. ASSUME NEW pub \in Publisher, Advertise(p, pub)
      PROVE  Promise!Next
  <2>1. Rumours' \in SUBSET (Rumours \union {pub})
    <3>1. \A q \in Proc : call'[q].op = "advertise" =>
              call'[q] = call[q] \/ call'[q].pub = pub
      BY <1>1 DEF Advertise, Idle
    <3> QED
      BY <1>1, <3>1, RumoursGrow DEF Advertise
  <2>2. Offers' = [Offers EXCEPT ![p] = AddPublisher(@, pub)]
    <3>1. PublishersByProc(AddPublisher(info[p], pub), p)
              = AddPublisher(PublishersByProc(info[p], p), pub)
      BY <1>1 DEF Advertise, AddPublisher, Holds, PublishersByProc,
                  SamePublisher
    <3> QED
      BY <1>1, <3>1 DEF Advertise, Offers
  <2>3. Known' = Known
    BY <1>1 DEF Advertise, Known, Remote, AddPublisher
  <2>4. p \in Live
    BY <1>1 DEF Advertise, Live, Running
  <2>5. Promise!Offer(p, pub)
    BY <1>0, <1>1, <2>1, <2>2, <2>3, <2>4, SameAdd
       DEF Promise!Offer, Live, Offers, Known, Advertise
  <2> QED
    BY <2>5 DEF Promise!Next
<1>2. ASSUME NEW pub \in Publisher, Unadvertise(p, pub)
      PROVE  Promise!Next
  <2>1. Rumours' = Rumours
    <3>1. \A q \in Proc :
              \/ call'[q] = call[q]
              \/ call'[q].op # "advertise" /\ call[q].op # "advertise"
      BY <1>2 DEF Unadvertise, Idle
    <3>2. ASSUME NEW r
          PROVE  RumourOf(net', call', recv', r) <=> RumourOf(net, call, recv, r)
      BY <1>2, <3>1 DEF Unadvertise, RumourOf
    <3> QED
      BY <3>2, RumoursAre
  <2>2. Offers' = [Offers EXCEPT ![p] = @ \ {pub}]
    <3>1. ASSUME NEW r \in info[p], r.pUuid = p, r.topic = pub.topic,
                 r.nUuid = pub.nUuid
          PROVE  r = pub
      <4>1. r.addr = p /\ pub.addr = p /\ pub \in info[p] /\ pub.pUuid = p
        BY <1>2, <3>1 DEF Unadvertise, Outside, Foreign, PublishersByProc
      <4> QED
        BY <3>1, <4>1 DEF KnownOnce, OneRecordPerPublisher, SamePublisher
    <3>2. PublishersByProc(
              DelPublisherByNode(info[p], pub.topic, p, pub.nUuid), p)
              = PublishersByProc(info[p], p) \ {pub}
      BY <1>2, <3>1 DEF Unadvertise, PublishersByProc, DelPublisherByNode
    <3> QED
      BY <1>2, <3>2 DEF Unadvertise, Offers
  <2>3. Known' = Known
    BY <1>2 DEF Unadvertise, Known, Remote, DelPublisherByNode
  <2>4. p \in Live
    BY <1>2 DEF Unadvertise, Live, Running
  <2>5. Promise!Withdraw(p, pub)
    BY <1>0, <2>1, <2>2, <2>3, <2>4
       DEF Promise!Withdraw, Live, Offers, Known
  <2> QED
    BY <2>5 DEF Promise!Next
<1>3. ASSUME NEW sub, \/ Discover(p, sub) \/ Unsubscribe(p, sub)
                      \/ Register(p, sub)
      PROVE  Promise!Next
  <2>1. \A m \in net' : m.type = "ADVERTISE" => m \in net
    BY <1>3, PutSubset, MsgsOf DEF Discover, Unsubscribe, Register
  <2>2. \A q \in Proc : call'[q] = call[q] \/ call'[q].op # "advertise"
    BY <1>3 DEF Discover, Unsubscribe, Register
  <2>3. Rumours' \in SUBSET Rumours
    BY <1>3, <2>1, <2>2, RumoursGrow DEF Discover, Unsubscribe, Register
  <2> QED
    BY <1>3, <2>3, Lapses DEF Discover, Unsubscribe, Register, discVars
<1>4. CASE TopicList(p)
  <2>1. \A m \in net' : m.type = "ADVERTISE" => m \in net
    BY <1>4, PutSubset, MsgsOf DEF TopicList
  <2>2. \A q \in Proc : call'[q] = call[q] \/ call'[q].op # "advertise"
    BY <1>4 DEF TopicList
  <2>3. Rumours' \in SUBSET Rumours
    BY <1>4, <2>1, <2>2, RumoursGrow DEF TopicList
  <2> QED
    BY <1>4, <2>3, Lapses DEF TopicList, discVars
<1> QED
  BY <1>1, <1>2, <1>3, <1>4, UsersAssumption DEF UserCall

LEMMA CallStepMaps ==
    ASSUME TypeOK, NEW p \in Proc, CallStep(p)
    PROVE  Promise!Next
<1> USE DEF TypeOK
<1>1. info' = info /\ status' = status /\ recv' = recv
  BY DEF CallStep, CallSend, DiscoverLookup, DiscoverTell, WaitForInit,
         discVars
<1>2. \A q \in Proc : call'[q] = call[q] \/ call'[q].op # "advertise"
  BY DEF CallStep, CallSend, DiscoverLookup, DiscoverTell, WaitForInit, Idle
<1>3. \A m \in net' : m.type = "ADVERTISE" => m \in net \/ m.pub \in Rumours
  <2>1. CASE CallSend(p)
    <3>1. SUFFICES ASSUME NEW m \in net', m.type = "ADVERTISE", m \notin net
                   PROVE  m.pub \in Rumours
      OBVIOUS
    <3>2. m \in PubMsgs(p, CallMsgType[call[p].op], call[p].pub)
      BY <2>1, <3>1, PutSubset DEF CallSend
    <3>3. call[p].op = "advertise" /\ m.pub = call[p].pub
      BY <2>1, <3>1, <3>2 DEF PubMsgs, CallSend, CallMsgType
    <3> QED
      BY <3>3, RumoursAre DEF RumourOf
  <2>2. CASE ~ CallSend(p)
    BY <2>2 DEF CallStep, DiscoverLookup, DiscoverTell, WaitForInit
  <2> QED
    BY <2>1, <2>2
<1>4. Rumours' \in SUBSET Rumours
  BY <1>1, <1>2, <1>3, RumoursGrow
<1> QED
  BY <1>1, <1>4, Lapses

LEMMA TimerMaps ==
    ASSUME TypeOK, Outside, NEW p \in Proc,
           Heartbeat(p) \/ \E procs \in SUBSET Proc : Expire(p, procs)
    PROVE  Promise!Next
<1> USE DEF TypeOK
<1>1. CASE Heartbeat(p)
  <2>1. \A m \in net' : m.type = "ADVERTISE" => m \in net
    BY <1>1, PutSubset, MsgsOf DEF Heartbeat
  <2>2. \A q \in Proc : \/ recv'[q] = recv[q]
                         \/ recv'[q].pubs \subseteq Offers[p]
    BY <1>1 DEF Heartbeat, Offers
  <2>3. Rumours' \in SUBSET (Rumours \union Offers[p])
    BY <1>1, <2>1, <2>2, RumoursGrow DEF Heartbeat
  <2>4. p \in Live /\ Live' = Live
    BY <1>1 DEF Heartbeat, Live, Listening
  <2>5. Promise!Announce(p)
    BY <1>1, <2>3, <2>4
       DEF Heartbeat, Promise!Announce, Offers, Live, discVars
  <2> QED
    BY <2>5 DEF Promise!Next
<1>2. ASSUME NEW procs \in SUBSET Proc, Expire(p, procs)
      PROVE  Promise!Next
  <2>1. \A q \in Proc : \/ recv'[q] = recv[q]
                         \/ recv'[q].op \notin {"beat", "send"}
    BY <1>2 DEF Expire
  <2>2. Rumours' \in SUBSET Rumours
    BY <1>2, <2>1, RumoursGrow DEF Expire
  <2>3. p \in Live /\ Live' = Live
    BY <1>2 DEF Expire, Live, Listening
  <2>4. p \notin procs
    BY <1>2 DEF Expire, Outside, Foreign
  <2>5. Offers' = Offers
    BY <1>2, <2>4 DEF Expire, Offers, PublishersByProc
  <2>6. /\ \A q \in Proc : q # p => Known'[q] = Known[q]
        /\ Known'[p] \subseteq Known[p]
    BY <1>2 DEF Expire, Known, Remote
  <2>7. Known' = [Known EXCEPT ![p] = Known'[p]]
    BY <2>6 DEF Known
  <2>8. Promise!Forget(p)
    BY <2>2, <2>3, <2>5, <2>6, <2>7 DEF Promise!Forget, Live, Offers, Known
  <2> QED
    BY <2>8 DEF Promise!Next
<1> QED
  BY <1>1, <1>2

LEMMA RecvStepMaps ==
    ASSUME TypeOK, Outside, NEW p \in Proc, RecvStep(p)
    PROVE  Promise!Next
<1> USE DEF TypeOK
<1>1. ASSUME NEW pub \in Publisher, HeartbeatSend(p, pub)
      PROVE  Promise!Next
  <2>1. recv[p] \in [op : {"beat"}, pubs : SUBSET Publisher]
    BY <1>1 DEF HeartbeatSend, RecvState, Poll
  <2>2. /\ recv'[p].op = "beat"
        /\ \A q \in Proc \ {p} : recv'[q] = recv[q]
    BY <1>1, <2>1 DEF HeartbeatSend
  <2>3. recv'[p].pubs \subseteq recv[p].pubs /\ recv[p].pubs \subseteq Rumours
    BY <1>1, <2>1, RumoursAre DEF HeartbeatSend, RumourOf
  <2>4. pub \in Rumours
    BY <1>1, <2>3 DEF HeartbeatSend
  <2>5. \A m \in net' : m \in net \/ m.pub = pub
    BY <1>1, PutSubset DEF HeartbeatSend, PubMsgs
  <2>6. Rumours' \in SUBSET Rumours
    BY <1>1, <2>2, <2>3, <2>4, <2>5, RumoursGrow DEF HeartbeatSend
  <2> QED
    BY <1>1, <2>6, Lapses DEF HeartbeatSend, discVars
<1>2. ASSUME NEW pub \in Publisher, RecvSend(p, pub)
      PROVE  Promise!Next
  <2>1. recv[p] \in [op : {"send"}, type : PubType, pubs : SUBSET Publisher]
    BY <1>2 DEF RecvSend, RecvState, Poll
  <2>2. recv[p].type = "ADVERTISE" => recv[p].pubs \subseteq Rumours
    BY <1>2, <2>1, RumoursAre DEF RecvSend, RumourOf
  <2>3. \A m \in net' : m.type = "ADVERTISE" => m \in net \/ m.pub \in Rumours
    <3>1. \A m \in net' : m \in net \/ (m.type = recv[p].type /\ m.pub = pub)
      BY <1>2, PutSubset DEF RecvSend, PubMsgs
    <3> QED
      BY <1>2, <2>2, <3>1 DEF RecvSend
  <2>4. \A q \in Proc : \A r \in recv'[q].pubs :
            \/ recv'[q].op = "beat"
            \/ recv'[q].op = "send" /\ recv'[q].type = "ADVERTISE"
            => recv'[q] = recv[q] \/ r \in Rumours
    BY <1>2, <2>2 DEF RecvSend, Poll
  <2>5. Rumours' \in SUBSET Rumours
    BY <1>2, <2>3, <2>4, RumoursGrow DEF RecvSend
  <2> QED
    BY <1>2, <2>5, Lapses DEF RecvSend, discVars
<1>3. CASE \/ HeartbeatDone(p) \/ ExpireTell(p) \/ ConnectTell(p)
           \/ Remove(p) \/ RemoveProc(p)
  <2>1. /\ \A q \in Proc : recv'[q] = recv[q] \/ recv'[q] = Poll
        /\ call' = call /\ net' = net /\ status' = status
        /\ p \in Live
    BY <1>3 DEF HeartbeatDone, ExpireTell, ConnectTell, Remove, RemoveProc,
                Listening, Live
  <2>2. Rumours' \in SUBSET Rumours
    BY <2>1, RumoursGrow DEF Poll
  <2>3. CASE HeartbeatDone(p) \/ ExpireTell(p) \/ ConnectTell(p)
    BY <2>1, <2>2, <2>3, Lapses
       DEF HeartbeatDone, ExpireTell, ConnectTell, discVars
  <2>4. CASE Remove(p) \/ RemoveProc(p)
    <3>1. Offers' = Offers
      BY <2>4 DEF Remove, RemoveProc, Offers, Outside, Foreign, PublishersByProc,
                  DelPublisherByNode, DelPublishersByProc
    <3>2. /\ \A q \in Proc : q # p => Known'[q] = Known[q]
          /\ Known'[p] \subseteq Known[p]
      BY <2>4 DEF Remove, RemoveProc, Known, Remote,
                  DelPublisherByNode, DelPublishersByProc
    <3>3. Known' = [Known EXCEPT ![p] = Known'[p]]
      BY <3>2 DEF Known
    <3>4. Live' = Live
      BY <2>1 DEF Live
    <3>5. Promise!Forget(p)
      BY <2>1, <2>2, <3>1, <3>2, <3>3, <3>4
         DEF Promise!Forget, Live, Offers, Known
    <3> QED
      BY <3>5 DEF Promise!Next
  <2> QED
    BY <1>3, <2>3, <2>4
<1> QED
  BY <1>1, <1>2, <1>3 DEF RecvStep

LEMMA ReceiveMaps ==
    ASSUME TypeOK, SpeaksForItself, Outside, NEW p \in Proc, NEW m \in net,
           Receive(p, m)
    PROVE  Promise!Next
<1> USE DEF TypeOK
<1>1. /\ status' = status /\ call' = call /\ net' \in SUBSET net
      /\ p \in Live /\ Live' = Live
      /\ m.to = p /\ m.from # p
  BY DEF Receive, RecvAdvertise, RecvSubscribe, RecvSubscribersReq,
         RecvSubscribersRep, RecvEndConnection, RecvAlive, RecvUnadvertise,
         RecvBye, Take, Live, Listening, Outside
<1>2. CASE RecvAdvertise(p, m)
  <2>1. \A q \in Proc : recv'[q] = recv[q] \/ recv'[q].op = "connect"
    BY <1>2 DEF RecvAdvertise
  <2>2. Rumours' \in SUBSET Rumours
    BY <1>1, <2>1, RumoursGrow
  <2>3. CASE InScope(p, m.from, m.pub) /\ ~ Holds(info[p], m.pub)
    <3>1. m.pub \in Publisher /\ m.pub.pUuid = m.from /\ m.pub \in Rumours
      BY <1>2, RumoursAre
         DEF RecvAdvertise, Message, BareType, PubType, SpeaksForItself,
             RumourOf
    <3>2. info' = [info EXCEPT ![p] = @ \union {m.pub}]
      BY <1>2, <2>3 DEF RecvAdvertise, AddPublisher
    <3>3. Offers' = Offers
      BY <1>1, <3>1, <3>2 DEF Offers, PublishersByProc
    <3>4. Remote(p, info'[p]) = AddPublisher(Remote(p, info[p]), m.pub)
      BY <1>1, <2>3, <3>1, <3>2
         DEF Remote, AddPublisher, Holds
    <3>5. Known' = [Known EXCEPT ![p] = AddPublisher(@, m.pub)]
      BY <3>2, <3>4 DEF Known
    <3>6. Visible(p, m.pub)
      BY <1>1, <2>3, <3>1 DEF Visible
    <3>7. Promise!Learn(p, m.pub)
      BY <1>1, <2>2, <3>1, <3>3, <3>5, <3>6, SameAdd
         DEF Promise!Learn, Live, Offers, Known
    <3> QED
      BY <3>1, <3>7 DEF Promise!Next
  <2>4. CASE ~ (InScope(p, m.from, m.pub) /\ ~ Holds(info[p], m.pub))
    BY <1>1, <1>2, <2>2, <2>4, Lapses DEF RecvAdvertise
  <2> QED
    BY <2>3, <2>4
<1>3. CASE RecvSubscribe(p, m)
  <2>1. \A q \in Proc : \/ recv'[q] = recv[q]
                         \/ recv'[q] = Poll
                         \/ recv'[q].pubs \subseteq Offers[p]
    BY <1>3 DEF RecvSubscribe, Offers
  <2>2. Rumours' \in SUBSET (Rumours \union Offers[p])
    BY <1>1, <2>1, RumoursGrow DEF Poll
  <2>3. Promise!Announce(p)
    BY <1>1, <1>3, <2>2
       DEF RecvSubscribe, Promise!Announce, Offers, Live
  <2> QED
    BY <2>3 DEF Promise!Next
<1>4. CASE RecvSubscribersReq(p, m)
  <2>1. \A q \in Proc :
            \/ recv'[q] = recv[q]
            \/ recv'[q] = Poll
            \/ recv'[q].op = "send" /\ recv'[q].type = "SUBSCRIBERS_REP"
    BY <1>4 DEF RecvSubscribersReq
  <2>2. Rumours' \in SUBSET Rumours
    BY <1>1, <2>1, RumoursGrow DEF Poll
  <2> QED
    BY <1>1, <1>4, <2>2, Lapses DEF RecvSubscribersReq
<1>5. CASE \/ RecvSubscribersRep(p, m) \/ RecvEndConnection(p, m)
           \/ RecvAlive(p, m) \/ RecvUnadvertise(p, m) \/ RecvBye(p, m)
  <2>1. \A q \in Proc : \/ recv'[q] = recv[q]
                         \/ recv'[q].op \in {"remove", "removeProc"}
    BY <1>5 DEF RecvSubscribersRep, RecvEndConnection, RecvAlive,
                RecvUnadvertise, RecvBye
  <2>2. Rumours' \in SUBSET Rumours
    BY <1>1, <2>1, RumoursGrow
  <2> QED
    BY <1>1, <1>5, <2>2, Lapses
       DEF RecvSubscribersRep, RecvEndConnection, RecvAlive, RecvUnadvertise,
           RecvBye
<1> QED
  BY <1>2, <1>3, <1>4, <1>5 DEF Receive

LEMMA LoseMaps ==
    ASSUME NEW m \in net, Lose(m)
    PROVE  Promise!Next
<1>1. Rumours' \in SUBSET Rumours
  BY RumoursGrow DEF Lose
<1> QED
  BY <1>1, Lapses DEF Lose, discVars

LEMMA NextMaps ==
    ASSUME TypeOK, SpeaksForItself, KnownOnce, Outside, [Next]_vars
    PROVE  [Promise!Next]_(Promise!vars)
<1>1. CASE Next
  BY <1>1, LifeMaps, UserCallMaps, CallStepMaps, TimerMaps, RecvStepMaps,
     ReceiveMaps, LoseMaps DEF Next
<1>2. CASE UNCHANGED vars
  BY <1>2 DEF vars, discVars, Promise!vars, Rumours
<1> QED
  BY <1>1, <1>2

\* Whatever the threads, the users and the network do, discovery is the
\* Directory: a process only learns what its owner offered, from a rumour an
\* offer made, within the scope of the offer.  The advertisements, answers
\* and heartbeats of DispatchDiscoveryMsg and UpdateHeartbeat copy current
\* offers only, and expiry, UNADVERTISE and BYE only forget.
THEOREM DirectoryImplemented == Spec => ImplementsDirectory
<1>1. Once => KnownOnce
  BY DEF Once
<1> QED
  BY <1>1, InitType, NextType, InitSpeaks, SpeaksStep, InitOnce, OnceStep,
     InitOutside, OutsideStep, InitMaps, NextMaps, PTL
     DEF Spec, ImplementsDirectory, Promise!Spec
=============================================================================
