------------------------- MODULE ServiceCallProofs --------------------------
(***************************************************************************)
(* Proofs about ServiceCall, for any processes, responders, requests,      *)
(* types, scopes and bounds, and then about Tools, what is built on        *)
(* services and topics: the parameters, `gz service` and `gz topic`.       *)
(***************************************************************************)
EXTENDS ServiceCall, Tools, FiniteSetTheorems, TLAPS

(***************************************************************************)
(* Types.  The directory's variables have none in ServiceCall.             *)
(***************************************************************************)
DirectoryOK ==
    /\ live \subseteq Proc
    /\ offered \in [Proc -> SUBSET Publisher]
    /\ rumours \subseteq Publisher
    /\ known \in [Proc -> SUBSET Publisher]

Types == TypeOK /\ DirectoryOK

RecvState ==
    {Idle} \union [op : {"serve", "remove"}, req : Request]
           \union [op : {"reply", "notify"}, req : Request, result : BOOLEAN]

LEMMA InitTypes == Init => Types
BY UsersAssumption
   DEF Init, Dir!Init, Types, TypeOK, DirectoryOK

\* The operators on sets of responders return sets of responders.
LEMMA DirAdd ==
    ASSUME NEW pubs \in SUBSET Publisher, NEW pub \in Publisher
    PROVE  Dir!AddPublisher(pubs, pub) \in SUBSET Publisher
BY DEF Dir!AddPublisher

LEMMA Offers ==
    ASSUME NEW pub \in Offerable
    PROVE  pub \in Publisher /\ pub.pUuid \in Proc /\ pub.addr \in Address
BY UsersAssumption DEF Publisher

\* The steps of the directory keep its variables well typed.
LEMMA DirectoryTypes ==
    ASSUME DirectoryOK, NEW p \in Proc
    PROVE  /\ Dir!Join(p) => DirectoryOK'
           /\ Dir!Leave(p) => DirectoryOK'
           /\ Dir!Announce(p) => DirectoryOK'
           /\ \A pub \in Publisher :
                 /\ Dir!Offer(p, pub) => DirectoryOK'
                 /\ Dir!Withdraw(p, pub) => DirectoryOK'
                 /\ Dir!Learn(p, pub) => DirectoryOK'
           /\ Dir!Forget(p) => DirectoryOK'
<1> USE DEF DirectoryOK
<1>1. Dir!Join(p) => DirectoryOK'
  BY DEF Dir!Join
<1>2. Dir!Leave(p) => DirectoryOK'
  BY DEF Dir!Leave
<1>3. Dir!Announce(p) => DirectoryOK'
  BY DEF Dir!Announce
<1>4. ASSUME NEW pub \in Publisher, Dir!Offer(p, pub)
      PROVE  DirectoryOK'
  BY <1>4, DirAdd DEF Dir!Offer
<1>5. ASSUME NEW pub \in Publisher, Dir!Withdraw(p, pub)
      PROVE  DirectoryOK'
  BY <1>5 DEF Dir!Withdraw
<1>6. ASSUME NEW pub \in Publisher, Dir!Learn(p, pub)
      PROVE  DirectoryOK'
  BY <1>6, DirAdd DEF Dir!Learn
<1>7. Dir!Forget(p) => DirectoryOK'
  BY DEF Dir!Forget
<1> QED
  BY <1>1, <1>2, <1>3, <1>4, <1>5, <1>6, <1>7

LEMMA RespondersTypes ==
    ASSUME Types, NEW p \in Proc, Responders(p)
    PROVE  Types'
<1> USE DEF Types, TypeOK
<1>1. CASE Start(p)
  BY <1>1, DirectoryTypes DEF Start, tables
<1>2. CASE Crash(p)
  <2>1. DirectoryOK' /\ events' \in 0..MaxEvents
    BY <1>2, DirectoryTypes, UsersAssumption DEF Crash, Event
  <2>2. lost' \subseteq Request
    <3>1. \A m \in net : m.req \in Request
      BY DEF Message
    <3>2. recv[p].op \in {"serve", "reply"} => recv[p].req \in Request
      BY DEF Idle
    <3> QED
      BY <1>2, <3>1, <3>2 DEF Crash
  <2>3. /\ srvQueue' \in [Proc -> Seq(Publisher)]
        /\ recv' \in [Proc -> RecvState]
        /\ disc' \in [Proc -> {Idle} \union
                         [op : {"connect", "remove"}, pub : Publisher]]
        /\ srv' \in [Proc -> {Idle} \union [op : {"send"}, pub : Publisher]]
    BY <1>2 DEF Crash, RecvState
  <2> QED
    BY <1>2, <2>1, <2>2, <2>3 DEF Crash, RecvState
<1>3. CASE Announce(p)
  BY <1>3, DirectoryTypes DEF Announce, tables
<1>4. ASSUME NEW pub \in Offerable, Advertise(p, pub)
      PROVE  Types'
  <2>1. DirectoryOK' /\ events' \in 0..MaxEvents
    BY <1>4, DirectoryTypes, Offers, UsersAssumption DEF Advertise, Event
  <2> QED
    BY <1>4, <2>1, Offers DEF Advertise
<1>5. ASSUME NEW pub \in Offerable, UnadvertiseSrv(p, pub)
      PROVE  Types'
  <2>1. DirectoryOK' /\ events' \in 0..MaxEvents
    BY <1>5, DirectoryTypes, Offers, UsersAssumption DEF UnadvertiseSrv, Event
  <2> QED
    BY <1>5, <2>1 DEF UnadvertiseSrv, DelPublisherByNode
<1>6. ASSUME NEW pub \in Offerable, Learn(p, pub)
      PROVE  Types'
  <2>1. DirectoryOK'
    BY <1>6, DirectoryTypes, Offers DEF Learn
  <2> QED
    BY <1>6, <2>1, Offers DEF Learn, tables
<1>7. ASSUME NEW pub \in Offerable, OnNewSrvDisconnection(p, pub)
      PROVE  Types'
  <2>1. events' \in 0..MaxEvents
    BY <1>7, UsersAssumption DEF OnNewSrvDisconnection, Event
  <2> QED
    BY <1>7, <2>1, Offers DEF OnNewSrvDisconnection, directory, DirectoryOK
<1>8. ASSUME NEW proc \in Proc, Expire(p, proc)
      PROVE  Types'
  <2>1. DirectoryOK' /\ events' \in 0..MaxEvents
    BY <1>8, DirectoryTypes, UsersAssumption DEF Expire, Event
  <2> QED
    BY <1>8, <2>1 DEF Expire, tables
<1> QED
  BY <1>1, <1>2, <1>3, <1>4, <1>5, <1>6, <1>7, <1>8 DEF Responders

LEMMA DiscStepTypes ==
    ASSUME Types, NEW p \in Proc, DiscStep(p)
    PROVE  Types'
<1> USE DEF Types, TypeOK
<1>1. CASE OnNewSrvConnection(p)
  <2>1. disc[p].pub \in Publisher /\ disc[p].pub.addr \in Address
    BY <1>1 DEF OnNewSrvConnection, Idle, Publisher
  <2>2. srvConnections' \in [Proc -> SUBSET Address]
    BY <1>1, <2>1 DEF OnNewSrvConnection, Connected
  <2>3. srvQueue' \in [Proc -> Seq(Publisher)]
    BY <1>1, <2>1 DEF OnNewSrvConnection
  <2> QED
    BY <1>1, <2>2, <2>3 DEF OnNewSrvConnection, directory, DirectoryOK
<1>2. CASE Remove(p)
  <2>1. DirectoryOK'
    BY <1>2, DirectoryTypes DEF Remove
  <2> QED
    BY <1>2, <2>1 DEF Remove, tables
<1> QED
  BY <1>1, <1>2 DEF DiscStep

\* What SendPendingRemoteReqs changes keeps its type.
LEMMA SendTypes ==
    ASSUME Types, NEW p \in Proc, NEW pub \in Publisher,
           NEW reqs \in SUBSET Request, SendPendingRemoteReqs(p, pub, reqs)
    PROVE  /\ srvConnections' \in [Proc -> SUBSET Address]
           /\ requested' \subseteq Request /\ stored' \subseteq Request
           /\ net' \subseteq Message /\ lost' \subseteq Request
<1> USE DEF Types, TypeOK
<1>1. pub.addr \in Address /\ pub.pUuid \in Proc
  BY DEF Publisher
<1>2. Pending(p, pub, reqs) \subseteq Request
  BY DEF Pending
<1>3. srvConnections' \in [Proc -> SUBSET Address]
  BY <1>1 DEF SendPendingRemoteReqs, Connected
<1>4. net' \subseteq Message /\ lost' \subseteq Request
  BY <1>1, <1>2 DEF SendPendingRemoteReqs, Message
<1> QED
  BY <1>2, <1>3, <1>4 DEF SendPendingRemoteReqs

\* What discovery knows are responders.
LEMMA InfoTypes ==
    ASSUME Types, NEW p \in Proc
    PROVE  Info(p) \in SUBSET Publisher
BY DEF Types, DirectoryOK, Info

LEMMA SrvStepTypes ==
    ASSUME Types, NEW p \in Proc, SrvStep(p)
    PROVE  Types'
<1>1. CASE SrvTake(p)
  <2>1. srvQueue' \in [Proc -> Seq(Publisher)]
    BY <1>1 DEF SrvTake, Types, TypeOK
  <2>2. srv' \in [Proc -> {Idle} \union [op : {"send"}, pub : Publisher]]
    <3>1. CASE UNCHANGED srv
      BY <3>1 DEF Types, TypeOK
    <3>2. ASSUME NEW pub \in Info(p),
                 srv' = [srv EXCEPT ![p] = [op |-> "send", pub |-> pub]]
          PROVE  srv' \in [Proc -> {Idle} \union [op : {"send"}, pub : Publisher]]
      <4>1. pub \in Publisher
        BY InfoTypes
      <4> QED
        BY <3>2, <4>1 DEF Types, TypeOK
    <3> QED
      BY <1>1, <3>1, <3>2 DEF SrvTake
  <2>3. UNCHANGED <<directory, repliers, srvConnections, stored, requested,
                    disc, recv, call, net, served, answers, lost, events>>
    BY <1>1 DEF SrvTake
  <2> QED
    BY <2>1, <2>2, <2>3 DEF Types, TypeOK, directory, DirectoryOK
<1>2. CASE SrvSend(p)
  <2>1. srv[p].pub \in Publisher /\ stored \in SUBSET Request
    BY <1>2 DEF SrvSend, Types, TypeOK, Idle
  <2>2. srv' \in [Proc -> {Idle} \union [op : {"send"}, pub : Publisher]]
    BY <1>2 DEF SrvSend, Types, TypeOK
  <2> QED
    BY <1>2, <2>1, <2>2, SendTypes
       DEF SrvSend, Types, TypeOK, directory, DirectoryOK
<1> QED
  BY <1>1, <1>2 DEF SrvStep

LEMMA RecvStepTypes ==
    ASSUME Types, NEW p \in Proc, RecvStep(p)
    PROVE  Types'
<1> USE DEF Types, TypeOK
<1>0. recv[p] \in RecvState
  BY DEF RecvState
<1>1. ASSUME NEW m \in net, RecvSrvRequest(p, m)
      PROVE  Types'
  <2>1. m.req \in Request
    BY DEF Message
  <2>2. recv' \in [Proc -> RecvState]
    <3>1. [op |-> "serve", req |-> m.req] \in RecvState
      BY <2>1 DEF RecvState
    <3>2. recv \in [Proc -> RecvState]
      BY DEF RecvState
    <3>3. \/ recv' = recv
          \/ recv' = [recv EXCEPT ![p] = [op |-> "serve", req |-> m.req]]
      BY <1>1 DEF RecvSrvRequest
    <3> QED
      BY <3>1, <3>2, <3>3
  <2>3. net' \subseteq Message /\ lost' \subseteq Request
    <3>1. lost' \in {lost, lost \union {m.req}}
      BY <1>1 DEF RecvSrvRequest
    <3> QED
      BY <1>1, <2>1, <3>1 DEF RecvSrvRequest
  <2>4. UNCHANGED <<directory, tables, disc, srv, call, served, answers, events>>
    BY <1>1 DEF RecvSrvRequest
  <2> QED
    BY <2>2, <2>3, <2>4 DEF RecvState, directory, DirectoryOK, tables
<1>2. ASSUME NEW m \in net, RecvSrvResponse(p, m)
      PROVE  Types'
  <2>1. m.req \in Request /\ m.result \in BOOLEAN
    BY <1>2 DEF Message, RecvSrvResponse
  <2>2. recv' \in [Proc -> RecvState]
    BY <1>2, <2>1 DEF RecvSrvResponse, RecvState
  <2> QED
    BY <1>2, <2>2 DEF RecvSrvResponse, RecvState, directory, DirectoryOK, tables
<1>3. ASSUME NEW result \in BOOLEAN, RunCallback(p, result)
      PROVE  Types'
  <2>1. recv[p].req \in Request
    BY <1>0, <1>3 DEF RunCallback, RecvState, Idle
  <2>2. recv' \in [Proc -> RecvState]
    BY <1>3, <2>1 DEF RunCallback, RecvState
  <2>3. served' \in [Request -> Seq(BOOLEAN)]
    BY <1>3, <2>1 DEF RunCallback
  <2> QED
    BY <1>3, <2>2, <2>3
       DEF RunCallback, RecvState, directory, DirectoryOK, tables
<1>4. CASE SendReply(p)
  <2>1. /\ recv[p].req \in Request /\ recv[p].result \in BOOLEAN
        /\ recv[p].req.pUuid \in Proc
    BY <1>0, <1>4, UsersAssumption DEF SendReply, RecvState, Idle
  <2>2. srvConnections' \in [Proc -> SUBSET Address]
    BY <1>4, <2>1 DEF SendReply, Connected, Address
  <2>3. net' \subseteq Message /\ lost' \subseteq Request
    BY <1>4, <2>1 DEF SendReply, Message
  <2>4. recv' \in [Proc -> RecvState]
    BY <1>4 DEF SendReply, RecvState
  <2> QED
    BY <1>4, <2>2, <2>3, <2>4 DEF SendReply, RecvState, directory, DirectoryOK
<1>5. CASE NotifyResult(p)
  <2>1. recv[p].req \in Request /\ recv[p].result \in BOOLEAN
    BY <1>0, <1>5 DEF NotifyResult, RecvState, Idle
  <2>2. recv' \in [Proc -> RecvState]
    BY <1>5, <2>1 DEF NotifyResult, RecvState
  <2>3. answers' \in [Request -> Seq(BOOLEAN)]
    BY <1>5, <2>1 DEF NotifyResult
  <2> QED
    BY <1>5, <2>2, <2>3
       DEF NotifyResult, RecvState, directory, DirectoryOK, tables
<1>6. CASE RemoveRequest(p)
  BY <1>6 DEF RemoveRequest, directory, DirectoryOK
<1> QED
  BY <1>1, <1>2, <1>3, <1>4, <1>5, <1>6 DEF RecvStep

LEMMA CallerTypes ==
    ASSUME Types, NEW r \in Request, AskRequest(r) \/ CallStep(r) \/ Return(r)
    PROVE  Types'
<1> USE DEF Types, TypeOK
<1>1. CASE AskRequest(r)
  BY <1>1 DEF AskRequest, directory, DirectoryOK, tables
<1>2. ASSUME NEW result \in BOOLEAN, RunLocalCallback(r, result)
      PROVE  Types'
  <2>1. /\ served' \in [Request -> Seq(BOOLEAN)]
        /\ answers' \in [Request -> Seq(BOOLEAN)]
    BY <1>2 DEF RunLocalCallback
  <2> QED
    BY <1>2, <2>1 DEF RunLocalCallback, directory, DirectoryOK, tables
<1>3. CASE StoreRequest(r)
  <2>1. /\ srvConnections' \in [Proc -> SUBSET Address]
        /\ requested' \subseteq Request /\ stored' \subseteq Request
        /\ net' \subseteq Message /\ lost' \subseteq Request
    <3>1. r.pUuid \in Proc /\ stored \union {r} \in SUBSET Request
      BY UsersAssumption
    <3>2. CASE \E pub \in Info(r.pUuid) :
                  SendPendingRemoteReqs(r.pUuid, pub, stored \union {r})
      <4> HIDE DEF Types, TypeOK
      <4> QED
        BY <3>1, <3>2, InfoTypes, SendTypes
    <3>3. CASE /\ stored' = stored \union {r}
               /\ UNCHANGED <<srvConnections, requested, net, lost>>
      BY <3>3
    <3> QED
      BY <1>3, <3>2, <3>3 DEF StoreRequest
  <2> QED
    BY <1>3, <2>1 DEF StoreRequest, directory, DirectoryOK
<1>4. CASE Return(r)
  BY <1>4 DEF Return, Without, directory, DirectoryOK
<1> QED
  BY <1>1, <1>2, <1>3, <1>4 DEF CallStep

LEMMA NextTypes ==
    ASSUME Types, [Next]_vars
    PROVE  Types'
<1>1. CASE Next
  BY <1>1, RespondersTypes, DiscStepTypes, SrvStepTypes, RecvStepTypes,
     CallerTypes DEF Next
<1>2. CASE UNCHANGED vars
  BY <1>2 DEF vars, directory, tables, Types, TypeOK, DirectoryOK
<1> QED
  BY <1>1, <1>2

\* Every variable keeps its type: the threads only ever hold requests that
\* were made and responders that users advertised.
THEOREM TypeCorrect == Spec => []TypeOK
<1>1. Types => TypeOK
  BY DEF Types
<1> QED
  BY <1>1, InitTypes, NextTypes, PTL DEF Spec

(***************************************************************************)
(* The fate of a request.  It is borne by one message or one reception     *)
(* thread at a time, from the moment it is sent until its caller is        *)
(* answered, and by none before and after.                                 *)
(***************************************************************************)
InHand == {"serve", "reply", "notify"}

OneBearer ==
    /\ \A m, n \in net : m.req = n.req => m = n
    /\ \A m \in net, p \in Proc : recv[p].op \in InHand => recv[p].req # m.req
    /\ \A p, q \in Proc :
          /\ recv[p].op \in InHand /\ recv[q].op \in InHand
          /\ recv[p].req = recv[q].req
          => p = q

\* A request on its way is not served yet, a result on its way is that of its
\* request, which has no answer yet.
Unserved(r) == r \in requested /\ served[r] = <<>>
Due(r, result) ==
    r \in requested /\ served[r] = <<result>> /\ answers[r] = <<>>

Bearing ==
    /\ \A m \in net : /\ m.kind = "req" => Unserved(m.req)
                      /\ m.kind = "rep" => Due(m.req, m.result)
    /\ \A p \in Proc :
          /\ recv[p].op = "serve" => Unserved(recv[p].req)
          /\ recv[p].op \in {"reply", "notify"} =>
                 Due(recv[p].req, recv[p].result)
          /\ recv[p].op \in {"notify", "remove"} => recv[p].req.pUuid = p

\* Only a call within the process is served without being sent.
Fates ==
    \A r \in Request :
        /\ answers[r] \in {<<>>, served[r]}
        /\ r \in requested => call[r] \notin {"new", "local", "remote"}
        /\ r \notin requested /\ call[r] # "answered" => served[r] = <<>>

Fate == OneBearer /\ Bearing /\ Fates /\ NoneLeft

borne == <<net, recv, requested, stored, served, answers, call>>

LEMMA InitFate == Init => Fate
BY DEF Init, Fate, OneBearer, Bearing, Fates, NoneLeft, InHand, Idle

\* What responders, discovery and the service thread's look-up do does not
\* concern requests, but for a crash.
LEMMA Untouched ==
    ASSUME NEW p \in Proc,
           \/ Responders(p) /\ ~ Crash(p)
           \/ DiscStep(p) \/ SrvTake(p)
    PROVE  UNCHANGED borne
<1>1. CASE \/ Start(p) \/ Announce(p) \/ OnNewSrvConnection(p) \/ Remove(p)
           \/ SrvTake(p)
  BY <1>1 DEF Start, Announce, OnNewSrvConnection, Remove, SrvTake, borne,
              tables
<1>2. ASSUME NEW pub, \/ Advertise(p, pub) \/ UnadvertiseSrv(p, pub)
                      \/ Learn(p, pub) \/ OnNewSrvDisconnection(p, pub)
      PROVE  UNCHANGED borne
  BY <1>2 DEF Advertise, UnadvertiseSrv, Learn, OnNewSrvDisconnection, borne,
              tables
<1>3. ASSUME NEW proc, Expire(p, proc)
      PROVE  UNCHANGED borne
  BY <1>3 DEF Expire, borne, tables
<1> QED
  BY <1>1, <1>2, <1>3 DEF Responders, DiscStep

LEMMA CrashFate ==
    ASSUME Types, Fate, NEW p \in Proc, Crash(p)
    PROVE  Fate'
<1> USE DEF Types, TypeOK, Fate
<1>1. /\ net' \subseteq net /\ recv' = [recv EXCEPT ![p] = Idle]
      /\ stored' = {r \in stored : r.pUuid # p}
      /\ UNCHANGED <<requested, call, served, answers>>
  BY DEF Crash
<1>2. \A q \in Proc : recv'[q] = recv[q] \/ recv'[q].op = "idle"
  BY <1>1 DEF Idle
<1>3. OneBearer'
  BY <1>1, <1>2 DEF OneBearer, InHand
<1>4. Bearing'
  BY <1>1, <1>2 DEF Bearing, Unserved, Due
<1>5. Fates'
  BY <1>1 DEF Fates
<1>6. NoneLeft'
  <2>1. \A r \in stored' : /\ r \in stored /\ r.pUuid \in Proc
                           /\ recv'[r.pUuid] = recv[r.pUuid]
    BY <1>1, UsersAssumption
  <2> QED
    BY <1>1, <2>1 DEF NoneLeft
<1> QED
  BY <1>3, <1>4, <1>5, <1>6

\* Sending what is pending: requests marked for the first time set out, and
\* none that was already under way.
LEMMA SendFate ==
    ASSUME Types, OneBearer, Bearing, NEW p \in Proc, NEW pub \in Publisher,
           NEW reqs \in SUBSET Request, SendPendingRemoteReqs(p, pub, reqs),
           \A r \in reqs \ requested : served[r] = <<>>,
           UNCHANGED <<recv, served, answers>>
    PROVE  /\ OneBearer' /\ Bearing'
           /\ stored' \subseteq reqs
           /\ requested \subseteq requested'
           /\ requested' \subseteq requested \union reqs
<1>1. PICK these \in SUBSET Pending(p, pub, reqs) :
          net' = net \union {[kind |-> "req", req |-> r, to |-> pub.pUuid] :
                                r \in these}
  BY DEF SendPendingRemoteReqs
<1>2. /\ requested' = requested \union Pending(p, pub, reqs)
      /\ stored' \subseteq reqs
  BY DEF SendPendingRemoteReqs
<1>3. Pending(p, pub, reqs) \subseteq reqs \ requested
  BY DEF Pending
<1>4. \A m \in net' : \/ m \in net
                      \/ /\ m.req \in these
                         /\ m = [kind |-> "req", req |-> m.req,
                                 to |-> pub.pUuid]
  BY <1>1
<1>5. /\ \A m \in net : m.req \in requested
      /\ \A q \in Proc : recv[q].op \in InHand => recv[q].req \in requested
  BY DEF Types, TypeOK, Message, Bearing, Unserved, Due, InHand
<1>6. OneBearer'
  BY <1>3, <1>4, <1>5 DEF OneBearer
<1>7. Bearing'
  <2>1. ASSUME NEW m \in net'
        PROVE  /\ m.kind = "req" => Unserved(m.req)'
               /\ m.kind = "rep" => Due(m.req, m.result)'
    BY <1>2, <1>3, <1>4 DEF Bearing, Unserved, Due
  <2>2. \A q \in Proc :
          /\ recv'[q].op = "serve" => Unserved(recv[q].req)'
          /\ recv'[q].op \in {"reply", "notify"} =>
                 Due(recv[q].req, recv[q].result)'
          /\ recv'[q].op \in {"notify", "remove"} => recv'[q].req.pUuid = q
    BY <1>2 DEF Bearing, Unserved, Due
  <2> QED
    BY <2>1, <2>2 DEF Bearing
<1> QED
  BY <1>2, <1>3, <1>6, <1>7

\* The bearers of requests are tables' requests.
LEMMA Bearers ==
    ASSUME Types
    PROVE  /\ \A m \in net : m.req \in Request
           /\ \A p \in Proc : recv[p].op # "idle" => recv[p].req \in Request
           /\ \A r \in Request : r.pUuid \in Proc
<1>1. \A m \in net : m.req \in Request
  BY DEF Types, TypeOK, Message
<1>2. \A p \in Proc : recv[p].op # "idle" => recv[p].req \in Request
  BY DEF Types, TypeOK, Idle
<1> QED
  BY <1>1, <1>2, UsersAssumption

LEMMA SrvSendFate ==
    ASSUME Types, Fate, NEW p \in Proc, SrvSend(p)
    PROVE  Fate'
<1>1. /\ srv[p].pub \in Publisher /\ stored \in SUBSET Request
      /\ SendPendingRemoteReqs(p, srv[p].pub, stored)
      /\ UNCHANGED <<recv, call, served, answers>>
  BY DEF SrvSend, Types, TypeOK, Idle
<1>2. \A r \in stored : served[r] = <<>> \/ r \in requested
  BY <1>1 DEF Fate, NoneLeft, Fates
<1>3. /\ OneBearer' /\ Bearing' /\ stored' \subseteq stored
      /\ requested \subseteq requested'
      /\ requested' \subseteq requested \union stored
  BY <1>1, <1>2, SendFate DEF Fate
<1>4. Fates'
  BY <1>1, <1>3 DEF Fate, Fates, NoneLeft
<1>5. NoneLeft'
  BY <1>1, <1>3 DEF Fate, NoneLeft
<1> QED
  BY <1>3, <1>4, <1>5 DEF Fate

\* The table is right as long as no thread about to remove a request leaves it.
LEMMA StaysRight ==
    ASSUME Types, NoneLeft, stored' \subseteq stored,
           UNCHANGED <<call, answers>>,
           \A q \in Proc : recv[q].op = "remove" => recv'[q] = recv[q]
    PROVE  NoneLeft'
<1>1. ASSUME NEW r \in stored', answers[r] # <<>>
      PROVE  recv'[r.pUuid] = [op |-> "remove", req |-> r]
  <2>1. recv[r.pUuid] = [op |-> "remove", req |-> r] /\ r.pUuid \in Proc
    BY <1>1, Bearers DEF NoneLeft, Types, TypeOK
  <2> QED
    BY <2>1
<1> QED
  BY <1>1 DEF NoneLeft

LEMMA RecvFate ==
    ASSUME Types, Fate, NEW p \in Proc, RecvStep(p)
    PROVE  Fate'
<1> USE DEF Fate
<1>0. recv \in [Proc -> RecvState]
  BY DEF Types, TypeOK, RecvState
<1>1. ASSUME NEW m \in net, RecvSrvRequest(p, m)
      PROVE  Fate'
  <2>1. /\ net' = net \ {m} /\ m.kind = "req" /\ recv[p] = Idle
        /\ \A q \in Proc :
              \/ recv'[q] = recv[q]
              \/ q = p /\ recv'[q] = [op |-> "serve", req |-> m.req]
        /\ UNCHANGED <<requested, stored, served, answers, call>>
    BY <1>0, <1>1 DEF RecvSrvRequest, tables
  <2>2. OneBearer'
    BY <2>1 DEF OneBearer, InHand, Idle
  <2>3. Bearing'
    <3>1. Unserved(m.req)
      BY <2>1 DEF Bearing
    <3>2. \A s, result : Unserved(s)' = Unserved(s) /\ Due(s, result)' = Due(s, result)
      BY <2>1 DEF Unserved, Due
    <3> QED
      BY <2>1, <3>1, <3>2 DEF Bearing
  <2>4. Fates'
    BY <2>1 DEF Fates
  <2>5. NoneLeft'
    BY <2>1, StaysRight DEF Idle
  <2> QED
    BY <2>2, <2>3, <2>4, <2>5
<1>2. ASSUME NEW m \in net, RecvSrvResponse(p, m)
      PROVE  Fate'
  <2>1. /\ net' = net \ {m} /\ m.kind = "rep" /\ m.req.pUuid = p
        /\ recv[p] = Idle
        /\ \A q \in Proc :
              \/ recv'[q] = recv[q]
              \/ q = p /\ recv'[q] = [op |-> "notify", req |-> m.req,
                                      result |-> m.result]
        /\ UNCHANGED <<requested, stored, served, answers, call>>
    BY <1>0, <1>2 DEF RecvSrvResponse, tables
  <2>2. OneBearer'
    BY <2>1 DEF OneBearer, InHand, Idle
  <2>3. Bearing'
    <3>1. Due(m.req, m.result)
      BY <2>1 DEF Bearing
    <3>2. \A s, result : Unserved(s)' = Unserved(s) /\ Due(s, result)' = Due(s, result)
      BY <2>1 DEF Unserved, Due
    <3> QED
      BY <2>1, <3>1, <3>2 DEF Bearing
  <2>4. Fates'
    BY <2>1 DEF Fates
  <2>5. NoneLeft'
    BY <2>1, StaysRight DEF Idle
  <2> QED
    BY <2>2, <2>3, <2>4, <2>5
<1>3. ASSUME NEW result \in BOOLEAN, RunCallback(p, result)
      PROVE  Fate'
  <2> DEFINE r == recv[p].req
  <2>1. /\ recv[p].op = "serve" /\ r \in Request
        /\ r \in requested /\ served[r] = <<>> /\ answers[r] = <<>>
    BY <1>3, Bearers
       DEF RunCallback, Bearing, Unserved, Fates
  <2>2. /\ served' = [served EXCEPT ![r] = <<result>>]
        /\ \A q \in Proc \ {p} : recv'[q] = recv[q]
        /\ \/ recv'[p] = Idle
           \/ recv'[p] = [op |-> "reply", req |-> r, result |-> result]
        /\ UNCHANGED <<net, requested, stored, answers, call>>
    BY <1>0, <1>3, <2>1 DEF RunCallback, tables
  <2>3. OneBearer'
    BY <2>1, <2>2 DEF OneBearer, InHand, Idle
  <2>4. Bearing'
    <3>1. served'[r] = <<result>>
      BY <2>1, <2>2 DEF Types, TypeOK
    <3>2. \A s \in Request \ {r} : served'[s] = served[s]
      BY <2>2 DEF Types, TypeOK
    <3>3. ASSUME NEW m \in net'
          PROVE  /\ m.kind = "req" => Unserved(m.req)'
                 /\ m.kind = "rep" => Due(m.req, m.result)'
      <4>1. m \in net /\ m.req \in Request /\ m.req # r
        BY <2>1, <2>2, Bearers DEF OneBearer, InHand
      <4> QED
        BY <2>2, <3>2, <4>1 DEF Bearing, Unserved, Due
    <3>4. ASSUME NEW q \in Proc \ {p}
          PROVE  /\ recv[q].op = "serve" => Unserved(recv[q].req)'
                 /\ recv[q].op \in {"reply", "notify"} =>
                        Due(recv[q].req, recv[q].result)'
      <4>1. recv[q].op \in InHand => recv[q].req \in Request \ {r}
        BY <2>1, Bearers DEF OneBearer, InHand
      <4>2. recv'[q] = recv[q]
        BY <2>2
      <4> QED
        BY <2>2, <3>2, <4>1, <4>2 DEF Bearing, Unserved, Due, InHand
    <3>5. r \in requested' /\ served'[r] = <<result>> /\ answers'[r] = <<>>
      BY <2>1, <2>2, <3>1
    <3>6. ASSUME NEW q \in Proc
          PROVE  recv'[q].op \in {"notify", "remove"} => recv'[q].req.pUuid = q
      BY <2>2 DEF Bearing, Idle
    <3>7. ASSUME NEW q \in Proc
          PROVE  /\ (recv[q].op = "serve" => Unserved(recv[q].req))'
                 /\ (recv[q].op \in {"reply", "notify"} =>
                        Due(recv[q].req, recv[q].result))'
      <4>1. CASE q = p
        BY <2>2, <3>5, <4>1 DEF Idle, Due
      <4>2. CASE q # p
        <5>1. recv'[q] = recv[q]
          BY <2>2, <4>2
        <5> QED
          BY <3>4, <4>2, <5>1
      <4> QED
        BY <4>1, <4>2
    <3> QED
      BY <3>3, <3>6, <3>7 DEF Bearing
  <2>5. Fates'
    BY <2>1, <2>2 DEF Fates, Types, TypeOK
  <2>6. NoneLeft'
    BY <2>1, <2>2, StaysRight
  <2> QED
    BY <2>3, <2>4, <2>5, <2>6
<1>4. CASE SendReply(p)
  <2> DEFINE r == recv[p].req
             rep == [kind |-> "rep", req |-> r, result |-> recv[p].result]
  <2>1. /\ recv[p].op = "reply" /\ r \in Request
        /\ Due(r, recv[p].result)
    BY <1>4, Bearers DEF SendReply, Bearing
  <2>2. /\ net' \subseteq net \union {rep}
        /\ \A q \in Proc \ {p} : recv'[q] = recv[q]
        /\ recv'[p] = Idle
        /\ UNCHANGED <<requested, stored, served, answers, call>>
    BY <1>0, <1>4 DEF SendReply
  <2>3. OneBearer'
    <3>1. \A m \in net' : m \in net \/ (m = rep /\ m.req = r)
      BY <2>2
    <3>2. \A m \in net : m.req # r
      BY <2>1 DEF OneBearer, InHand
    <3>3. \A q \in Proc \ {p} : recv[q].op \in InHand => recv[q].req # r
      BY <2>1 DEF OneBearer, InHand
    <3> QED
      BY <2>2, <3>1, <3>2, <3>3 DEF OneBearer, InHand, Idle
  <2>4. Bearing'
    BY <2>1, <2>2 DEF Bearing, Unserved, Due, Idle
  <2>5. Fates'
    BY <2>2 DEF Fates
  <2>6. NoneLeft'
    BY <2>1, <2>2, StaysRight
  <2> QED
    BY <2>3, <2>4, <2>5, <2>6
<1>5. CASE NotifyResult(p)
  <2> DEFINE r == recv[p].req
  <2>1. /\ recv[p].op = "notify" /\ r \in Request /\ r.pUuid = p
        /\ Due(r, recv[p].result)
    BY <1>5, Bearers DEF NotifyResult, Bearing
  <2>2. /\ answers' = [answers EXCEPT ![r] = Append(@, recv[p].result)]
        /\ \A q \in Proc \ {p} : recv'[q] = recv[q]
        /\ recv'[p] = [op |-> "remove", req |-> r]
        /\ UNCHANGED <<net, requested, stored, served, call>>
    BY <1>0, <1>5 DEF NotifyResult, tables
  <2>3. answers' = [answers EXCEPT ![r] = <<recv[p].result>>]
    BY <2>1, <2>2 DEF Due
  <2>4. OneBearer'
    BY <2>2 DEF OneBearer, InHand
  <2>5. Bearing'
    <3>1. \A s \in Request \ {r} : answers'[s] = answers[s]
      BY <2>3 DEF Types, TypeOK
    <3>2. ASSUME NEW m \in net'
          PROVE  /\ m.kind = "req" => Unserved(m.req)'
                 /\ m.kind = "rep" => Due(m.req, m.result)'
      <4>1. m \in net /\ m.req \in Request /\ m.req # r
        BY <2>1, <2>2, Bearers DEF OneBearer, InHand
      <4> QED
        BY <2>2, <3>1, <4>1 DEF Bearing, Unserved, Due
    <3>3. ASSUME NEW q \in Proc \ {p}
          PROVE  /\ recv[q].op = "serve" => Unserved(recv[q].req)'
                 /\ recv[q].op \in {"reply", "notify"} =>
                        Due(recv[q].req, recv[q].result)'
      <4>1. recv[q].op \in InHand => recv[q].req \in Request \ {r}
        BY <2>1, Bearers DEF OneBearer, InHand
      <4>2. recv'[q] = recv[q]
        BY <2>2
      <4> QED
        BY <2>2, <3>1, <4>1, <4>2 DEF Bearing, Unserved, Due, InHand
    <3> QED
      BY <2>1, <2>2, <3>2, <3>3 DEF Bearing
  <2>6. Fates'
    BY <2>1, <2>2, <2>3 DEF Fates, Due, Types, TypeOK
  <2>7. NoneLeft'
    <3>1. ASSUME NEW s \in stored
          PROVE  answers'[s] # <<>> =>
                     recv'[s.pUuid] = [op |-> "remove", req |-> s]
      <4>1. CASE s = r
        BY <2>1, <2>2, <4>1
      <4>2. CASE s # r
        <5>1. s \in Request /\ s.pUuid \in Proc /\ answers'[s] = answers[s]
          BY <2>3, <4>2, Bearers DEF Types, TypeOK
        <5> QED
          BY <2>1, <2>2, <5>1 DEF NoneLeft
      <4> QED
        BY <4>1, <4>2
    <3> QED
      BY <2>2, <3>1 DEF NoneLeft
  <2> QED
    BY <2>4, <2>5, <2>6, <2>7
<1>6. CASE RemoveRequest(p)
  <2>1. /\ recv[p].op = "remove"
        /\ stored' = stored \ {recv[p].req}
        /\ \A q \in Proc \ {p} : recv'[q] = recv[q]
        /\ recv'[p] = Idle
        /\ UNCHANGED <<net, requested, served, answers, call>>
    BY <1>0, <1>6 DEF RemoveRequest
  <2>2. OneBearer'
    BY <2>1 DEF OneBearer, InHand, Idle
  <2>3. Bearing'
    BY <2>1 DEF Bearing, Unserved, Due, Idle
  <2>4. Fates'
    BY <2>1 DEF Fates
  <2>5. NoneLeft'
    <3>1. ASSUME NEW s \in stored', answers[s] # <<>>
          PROVE  recv'[s.pUuid] = [op |-> "remove", req |-> s]
      <4>1. /\ s.pUuid \in Proc /\ s # recv[p].req
            /\ recv[s.pUuid] = [op |-> "remove", req |-> s]
        BY <2>1, <3>1, Bearers DEF NoneLeft, Types, TypeOK
      <4> QED
        BY <2>1, <4>1
    <3> QED
      BY <2>1, <3>1 DEF NoneLeft
  <2> QED
    BY <2>2, <2>3, <2>4, <2>5
<1> QED
  BY <1>1, <1>2, <1>3, <1>4, <1>5, <1>6 DEF RecvStep

LEMMA CallerFate ==
    ASSUME Types, Fate, NEW r \in Request,
           AskRequest(r) \/ CallStep(r) \/ Return(r)
    PROVE  Fate'
<1> USE DEF Fate
<1>1. CASE AskRequest(r)
  <2>1. /\ call[r] = "new"
        /\ call' = [call EXCEPT ![r] = call'[r]]
        /\ call'[r] \in {"local", "remote"}
        /\ UNCHANGED <<net, recv, requested, stored, served, answers>>
    BY <1>1 DEF AskRequest, tables, Types, TypeOK
  <2>2. OneBearer' /\ Bearing'
    BY <2>1 DEF OneBearer, Bearing, Unserved, Due
  <2>3. Fates' /\ NoneLeft'
    BY <2>1 DEF Fates, NoneLeft, Types, TypeOK
  <2> QED
    BY <2>2, <2>3
<1>2. ASSUME NEW result \in BOOLEAN, RunLocalCallback(r, result)
      PROVE  Fate'
  <2>1. /\ call[r] = "local" /\ r \notin requested /\ r \notin stored
        /\ served[r] = <<>> /\ answers[r] = <<>>
    BY <1>2 DEF RunLocalCallback, Fates, NoneLeft
  <2>2. /\ served' = [served EXCEPT ![r] = <<result>>]
        /\ answers' = [answers EXCEPT ![r] = <<result>>]
        /\ call' = [call EXCEPT ![r] = "answered"]
        /\ UNCHANGED <<net, recv, requested, stored>>
    BY <1>2, <2>1 DEF RunLocalCallback, tables
  <2>3. \A s \in Request \ {r} : /\ served'[s] = served[s]
                                /\ answers'[s] = answers[s]
                                /\ call'[s] = call[s]
    BY <2>2 DEF Types, TypeOK
  <2>4. OneBearer'
    BY <2>2 DEF OneBearer
  <2>5. Bearing'
    <3>1. /\ \A s \in Request : Unserved(s) => Unserved(s)'
          /\ \A s \in Request : \A result2 :
                Due(s, result2) => Due(s, result2)'
      BY <2>1, <2>2, <2>3 DEF Unserved, Due
    <3> QED
      BY <2>2, <3>1, Bearers DEF Bearing
  <2>6. Fates'
    BY <2>1, <2>2, <2>3 DEF Fates, Types, TypeOK
  <2>7. NoneLeft'
    BY <2>1, <2>2, <2>3 DEF NoneLeft, Types, TypeOK
  <2> QED
    BY <2>4, <2>5, <2>6, <2>7
<1>3. CASE StoreRequest(r)
  <2>1. /\ call[r] = "remote" /\ r.pUuid \in Proc
        /\ call' = [call EXCEPT ![r] = call'[r]]
        /\ call'[r] \in {"waiting", "asked"}
        /\ UNCHANGED <<recv, served, answers>>
    BY <1>3, Bearers DEF StoreRequest, Types, TypeOK
  <2>2. /\ r \notin requested /\ served[r] = <<>> /\ answers[r] = <<>>
        /\ \A s \in (stored \union {r}) \ requested : served[s] = <<>>
        /\ stored \union {r} \in SUBSET Request
    BY <2>1 DEF Fates, NoneLeft, Types, TypeOK
  <2>3. /\ OneBearer' /\ Bearing'
        /\ stored' \subseteq stored \union {r}
        /\ requested \subseteq requested'
        /\ requested' \subseteq requested \union stored \union {r}
    <3>1. ASSUME NEW pub \in Info(r.pUuid),
                 SendPendingRemoteReqs(r.pUuid, pub, stored \union {r})
          PROVE  /\ OneBearer' /\ Bearing'
                 /\ stored' \subseteq stored \union {r}
                 /\ requested \subseteq requested'
                 /\ requested' \subseteq requested \union stored \union {r}
      BY <2>1, <2>2, <3>1, InfoTypes, SendFate
    <3>2. CASE /\ stored' = stored \union {r}
               /\ UNCHANGED <<srvConnections, requested, net, lost>>
      BY <2>1, <3>2 DEF OneBearer, Bearing, Unserved, Due
    <3> QED
      BY <1>3, <3>1, <3>2 DEF StoreRequest
  <2>4. Fates'
    <3>1. SUFFICES ASSUME NEW s \in Request
                   PROVE  /\ answers'[s] \in {<<>>, served'[s]}
                          /\ s \in requested' =>
                                call'[s] \notin {"new", "local", "remote"}
                          /\ s \notin requested' /\ call'[s] # "answered" =>
                                served'[s] = <<>>
      BY DEF Fates
    <3>2. DOMAIN call = Request
      BY DEF Types, TypeOK
    <3>3. s \in stored => call[s] \notin {"new", "local", "remote"}
      BY DEF NoneLeft
    <3> QED
      BY <2>1, <2>2, <2>3, <3>2, <3>3 DEF Fates
  <2>5. NoneLeft'
    <3>1. SUFFICES ASSUME NEW s \in stored'
                   PROVE  /\ call'[s] \in {"waiting", "asked"}
                          /\ answers[s] # <<>> =>
                                 recv[s.pUuid] = [op |-> "remove", req |-> s]
      BY <2>1 DEF NoneLeft
    <3>2. CASE s = r
      BY <2>1, <2>2, <3>2 DEF Types, TypeOK
    <3>3. CASE s # r
      <4>1. s \in stored
        BY <2>3, <3>1, <3>3
      <4>2. s \in Request /\ call'[s] = call[s]
        BY <2>1, <3>3, <4>1 DEF Types, TypeOK
      <4> QED
        BY <4>1, <4>2 DEF NoneLeft
    <3> QED
      BY <3>2, <3>3
  <2> QED
    BY <2>3, <2>4, <2>5
<1>4. CASE Return(r)
  <2>1. /\ call[r] = "waiting"
        /\ call' = [call EXCEPT ![r] = call'[r]]
        /\ call'[r] \in {"failed", "answered"}
        /\ stored' = stored \ {r}
        /\ UNCHANGED <<net, recv, requested, served, answers>>
    BY <1>4 DEF Return, Without, Types, TypeOK
  <2>2. OneBearer' /\ Bearing'
    BY <2>1 DEF OneBearer, Bearing, Unserved, Due
  <2>3. Fates' /\ NoneLeft'
    BY <2>1 DEF Fates, NoneLeft, Types, TypeOK
  <2> QED
    BY <2>2, <2>3
<1> QED
  BY <1>1, <1>2, <1>3, <1>4 DEF CallStep

LEMMA NextFate ==
    ASSUME Types, Fate, [Next]_vars
    PROVE  Fate'
<1>1. ASSUME UNCHANGED borne
      PROVE  Fate'
  BY <1>1 DEF borne, Fate, OneBearer, Bearing, Unserved, Due, Fates, NoneLeft
<1>2. ASSUME NEW p \in Proc,
             Responders(p) \/ DiscStep(p) \/ SrvStep(p) \/ RecvStep(p)
      PROVE  Fate'
  BY <1>1, <1>2, Untouched, CrashFate, SrvSendFate, RecvFate DEF SrvStep
<1>3. CASE UNCHANGED vars
  BY <1>1, <1>3 DEF vars, tables, borne
<1> QED
  BY <1>2, <1>3, CallerFate DEF Next

\* The table of requests holds only calls in progress: an answer is about to
\* take its request out, and a caller that gives up has done so.
THEOREM NoneLeftBehind == Spec => []NoneLeft
<1>1. Fate => NoneLeft
  BY DEF Fate
<1> QED
  BY <1>1, InitTypes, NextTypes, InitFate, NextFate, PTL DEF Spec

(***************************************************************************)
(* ServiceCall implements Calls.                                           *)
(***************************************************************************)
LEMMA InitCalls == Init => Promise!Init
BY DEF Init, Promise!Init, Status

\* Steps that neither serve nor answer, nor begin nor end a call.
LEMMA Stutters ==
    ASSUME UNCHANGED <<served, answers>>,
           \A r \in Request : \/ call'[r] = call[r]
                             \/ /\ call[r] = "remote"
                                /\ call'[r] \in {"waiting", "asked"}
    PROVE  UNCHANGED Promise!vars
BY DEF Promise!vars, Status

LEMMA RecvCalls ==
    ASSUME Types, Fate, NEW p \in Proc, RecvStep(p)
    PROVE  [Promise!Next]_(Promise!vars)
<1>1. ASSUME NEW result \in BOOLEAN, RunCallback(p, result)
      PROVE  Promise!Next
  <2>1. PICK r \in Request : r = recv[p].req
    BY <1>1, Bearers DEF RunCallback
  <2>2. r \in requested /\ served[r] = <<>>
    BY <1>1, <2>1 DEF RunCallback, Fate, Bearing, Unserved
  <2>3. /\ served' = [served EXCEPT ![r] = <<result>>]
        /\ UNCHANGED <<answers, call>>
    BY <1>1, <2>1, <2>2 DEF RunCallback
  <2>4. Status[r] # "new" /\ Status' = Status
    BY <2>2, <2>3 DEF Status, Fate, Fates
  <2>5. Promise!Serve(r, result)
    BY <2>2, <2>3, <2>4 DEF Promise!Serve
  <2> QED
    BY <2>5 DEF Promise!Next
<1>2. CASE NotifyResult(p)
  <2>1. PICK r \in Request : r = recv[p].req
    BY <1>2, Bearers DEF NotifyResult
  <2>2. served[r] = <<recv[p].result>> /\ answers[r] = <<>>
    BY <1>2, <2>1 DEF NotifyResult, Fate, Bearing, Due
  <2>3. /\ answers' = [answers EXCEPT ![r] = served[r]]
        /\ UNCHANGED <<served, call>>
    BY <1>2, <2>1, <2>2 DEF NotifyResult
  <2>4. Promise!Answer(r)
    BY <2>2, <2>3 DEF Promise!Answer, Status
  <2> QED
    BY <2>4 DEF Promise!Next
<1>3. ASSUME \/ \E m \in net : RecvSrvRequest(p, m) \/ RecvSrvResponse(p, m)
             \/ SendReply(p) \/ RemoveRequest(p)
      PROVE  UNCHANGED Promise!vars
  BY <1>3, Stutters
     DEF RecvSrvRequest, RecvSrvResponse, SendReply, RemoveRequest
<1> QED
  BY <1>1, <1>2, <1>3 DEF RecvStep

LEMMA CallerCalls ==
    ASSUME Types, Fate, NEW r \in Request,
           AskRequest(r) \/ CallStep(r) \/ Return(r)
    PROVE  [Promise!Next]_(Promise!vars)
<1>1. CASE AskRequest(r)
  <2>1. Status[r] = "new" /\ Status' = [Status EXCEPT ![r] = "open"]
    BY <1>1 DEF AskRequest, Status, Types, TypeOK
  <2>2. Promise!Ask(r)
    BY <1>1, <2>1 DEF AskRequest, Promise!Ask
  <2> QED
    BY <2>2 DEF Promise!Next
<1>2. ASSUME NEW result \in BOOLEAN, RunLocalCallback(r, result)
      PROVE  Promise!Next
  <2>1. served[r] = <<>> /\ answers[r] = <<>>
    BY <1>2 DEF RunLocalCallback, Fate, Fates
  <2>2. /\ served' = [served EXCEPT ![r] = <<result>>]
        /\ answers' = [answers EXCEPT ![r] = <<result>>]
    BY <1>2, <2>1 DEF RunLocalCallback
  <2>3. Status[r] = "open" /\ Status' = [Status EXCEPT ![r] = "answered"]
    BY <1>2 DEF RunLocalCallback, Status, Types, TypeOK
  <2>4. Promise!ServeLocally(r, result)
    BY <2>1, <2>2, <2>3 DEF Promise!ServeLocally
  <2> QED
    BY <2>4 DEF Promise!Next
<1>3. CASE StoreRequest(r)
  <2>1. /\ UNCHANGED <<served, answers>>
        /\ call[r] = "remote"
        /\ call' = [call EXCEPT ![r] = call'[r]]
        /\ call'[r] \in {"waiting", "asked"}
    BY <1>3 DEF StoreRequest, Types, TypeOK
  <2> QED
    BY <2>1, Stutters DEF Types, TypeOK
<1>4. CASE Return(r)
  <2>1. /\ Status[r] = "open"
        /\ Status' = [Status EXCEPT ![r] = IF answers[r] = <<>> THEN "failed"
                                          ELSE "answered"]
    BY <1>4 DEF Return, Status, Types, TypeOK
  <2>2. Promise!Return(r)
    BY <1>4, <2>1 DEF Return, Promise!Return
  <2> QED
    BY <2>2 DEF Promise!Next
<1> QED
  BY <1>1, <1>2, <1>3, <1>4 DEF CallStep

LEMMA NextCalls ==
    ASSUME Types, Fate, [Next]_vars
    PROVE  [Promise!Next]_(Promise!vars)
<1>1. ASSUME UNCHANGED borne
      PROVE  UNCHANGED Promise!vars
  BY <1>1, Stutters DEF borne
<1>2. ASSUME NEW p \in Proc, Crash(p) \/ SrvSend(p)
      PROVE  UNCHANGED Promise!vars
  BY <1>2, Stutters DEF Crash, SrvSend
<1>3. ASSUME NEW p \in Proc, Responders(p) \/ DiscStep(p) \/ SrvStep(p)
      PROVE  UNCHANGED Promise!vars
  BY <1>1, <1>2, <1>3, Untouched DEF SrvStep
<1>4. CASE UNCHANGED vars
  BY <1>4, Stutters DEF vars
<1> QED
  BY <1>3, <1>4, RecvCalls, CallerCalls DEF Next

\* The discovery of responders, the service thread and the reception thread
\* together serve a request at most once and give its caller the result of
\* that one execution, whatever crashes, is lost or gives up meanwhile:
\* SendPendingRemoteReqs marks what it sends (Requested), and each answer
\* finds its request once.
THEOREM CallsImplemented == Spec => ImplementsCalls
<1> QED
  BY InitTypes, NextTypes, InitFate, NextFate, InitCalls, NextCalls, PTL
     DEF Spec, ImplementsCalls, Promise!Spec

-----------------------------------------------------------------------------
(***************************************************************************)
(* Parameters: what the registry replies, writes and tells.                *)
(***************************************************************************)
\* What a reply says of the map m that its callback worked on.
RightReply(c, r, m) ==
    LET here == c.param \in DOMAIN m
        fits == m[c.param].type = c.value.type
        made == c.value.type \in Known IN
    /\ c.op = "get" => IF r.value = Nothing THEN ~here
                       ELSE here /\ m[c.param] = r.value
    /\ c.op = "set" => /\ r.ok
                       /\ \/ r.error = "SUCCESS" /\ here /\ fits
                          \/ r.error = "NOT_DECLARED" /\ ~here
                          \/ r.error = "INVALID_TYPE" /\ here /\ ~fits
    /\ c.op = "declare" => /\ r.ok
                           /\ \/ r.error = "SUCCESS" /\ made /\ ~here
                              \/ r.error = "ALREADY_DECLARED" /\ made /\ here
                              \/ r.error = "INVALID_TYPE" /\ ~made
    /\ c.op = "list" => r.ok /\ r.decls = Declarations(m)

\* Whatever is declared is a message.
Valued(m) == \A p \in DOMAIN m : m[p] # Nothing

\* What one call may make of the map m.
Writes(c, m, n) ==
    /\ c.op \in {"declare", "set"}
    /\ DOMAIN m \subseteq DOMAIN n
    /\ \A p \in DOMAIN m : n[p].type = m[p].type
    /\ \A p \in DOMAIN n :
           \/ p \in DOMAIN m /\ n[p] = m[p]
           \/ p = c.param /\ n[p] = c.value

Done(r) == r.ok /\ r.error = "SUCCESS"

\* Emplacing a value.
LEMMA Emplacing ==
    ASSUME NEW p, NEW value
    PROVE  LET n == Emplaced(p, value) IN
           /\ DOMAIN n = DOMAIN parametersMap \union {p}
           /\ \A q \in DOMAIN parametersMap : n[q] = parametersMap[q]
           /\ p \notin DOMAIN parametersMap => n[p] = value
BY DEF Emplaced, Declared

LEMMA EmplacedWrites ==
    ASSUME NEW c \in Call, c.op \in {"declare", "set"}
    PROVE  Writes(c, parametersMap, Emplaced(c.param, c.value))
<1> DEFINE n == Emplaced(c.param, c.value)
<1>1. /\ DOMAIN n = DOMAIN parametersMap \union {c.param}
      /\ \A q \in DOMAIN parametersMap : n[q] = parametersMap[q]
      /\ c.param \notin DOMAIN parametersMap => n[c.param] = c.value
  BY Emplacing
<1> HIDE DEF n
<1>2. Writes(c, parametersMap, n)
  BY <1>1 DEF Writes
<1> QED
  BY <1>2 DEF n

LEMMA SetWrites ==
    ASSUME NEW c \in Call, c.op = "set", Declared(c.param),
           parametersMap[c.param].type = c.value.type
    PROVE  Writes(c, parametersMap,
                  [parametersMap EXCEPT ![c.param] = c.value])
BY DEF Writes, Declared

\* The callbacks reply what is true of the map, and write what they say.
LEMMA SrvReplies ==
    ASSUME NEW c \in Call, Valued(parametersMap)
    PROVE  RightReply(c, SrvCallback(c).reply, parametersMap)
<1>1. CASE c.op = "get"
  BY <1>1 DEF SrvCallback, GetParameterSrv, RightReply, Reply, Declared, Valued
<1>2. CASE c.op = "list"
  BY <1>2 DEF SrvCallback, ListParametersSrv, RightReply, Reply
<1>3. CASE c.op = "set"
  BY <1>3 DEF SrvCallback, SetParameterSrv, RightReply, Reply, Declared
<1>4. CASE c.op = "declare"
  BY <1>4 DEF SrvCallback, DeclareParameterSrv, RightReply, Reply, Declared
<1> QED
  BY <1>1, <1>2, <1>3, <1>4, CallAssumption

LEMMA SrvWrites ==
    ASSUME NEW c \in Call
    PROVE  \/ SrvCallback(c).map = parametersMap
           \/ /\ Writes(c, parametersMap, SrvCallback(c).map)
              /\ Done(SrvCallback(c).reply)
<1>1. CASE c.op = "get"
  BY <1>1 DEF SrvCallback, GetParameterSrv
<1>2. CASE c.op = "list"
  BY <1>2 DEF SrvCallback, ListParametersSrv
<1>3. CASE c.op = "set"
  <2>1. CASE Declared(c.param) /\ parametersMap[c.param].type = c.value.type
    <3>1. SrvCallback(c) =
            [reply |-> Reply(TRUE, "SUCCESS"),
             map |-> [parametersMap EXCEPT ![c.param] = c.value]]
      BY <1>3, <2>1 DEF SrvCallback, SetParameterSrv
    <3>2. Done(SrvCallback(c).reply)
      BY <3>1 DEF Done, Reply
    <3>3. Writes(c, parametersMap,
                 [parametersMap EXCEPT ![c.param] = c.value])
      BY <1>3, <2>1, SetWrites
    <3>4. SrvCallback(c).map = [parametersMap EXCEPT ![c.param] = c.value]
      BY <3>1
    <3> QED
      BY <3>2, <3>3, <3>4
  <2>2. CASE ~(Declared(c.param)
                  /\ parametersMap[c.param].type = c.value.type)
    BY <1>3, <2>2 DEF SrvCallback, SetParameterSrv
  <2> QED
    BY <2>1, <2>2
<1>4. CASE c.op = "declare"
  <2>1. CASE c.value.type \in Known /\ ~Declared(c.param)
    <3>1. SrvCallback(c) = [reply |-> Reply(TRUE, "SUCCESS"),
                            map |-> Emplaced(c.param, c.value)]
      BY <1>4, <2>1 DEF SrvCallback, DeclareParameterSrv
    <3>2. Done(SrvCallback(c).reply)
      BY <3>1 DEF Done, Reply
    <3>3. Writes(c, parametersMap, Emplaced(c.param, c.value))
      BY <1>4, EmplacedWrites
    <3>4. SrvCallback(c).map = Emplaced(c.param, c.value)
      BY <3>1
    <3> QED
      BY <3>2, <3>3, <3>4
  <2>2. CASE ~(c.value.type \in Known /\ ~Declared(c.param))
    BY <1>4, <2>2 DEF SrvCallback, DeclareParameterSrv
  <2> QED
    BY <2>1, <2>2
<1> QED
  BY <1>1, <1>2, <1>3, <1>4, CallAssumption

\* A callback that declares finds no value before, and leaves its own.
LEMMA SrvDeclares ==
    ASSUME NEW c \in Call, c.op = "declare", Done(SrvCallback(c).reply)
    PROVE  /\ ~Declared(c.param)
           /\ SrvCallback(c).map = Emplaced(c.param, c.value)
BY DEF SrvCallback, DeclareParameterSrv, Done, Reply

\* The same of the registry's own calls.
LEMMA LocalWrites ==
    ASSUME NEW c \in Call
    PROVE  \/ Locally(c).map = parametersMap
           \/ /\ Writes(c, parametersMap, Locally(c).map)
              /\ Locally(c).told.type = "Success"
<1>1. CASE c.op = "get"
  BY <1>1 DEF Locally, GetLocally
<1>2. CASE c.op = "list"
  BY <1>2 DEF Locally, ListLocally
<1>3. CASE c.op = "set"
  <2>1. CASE Declared(c.param) /\ parametersMap[c.param].type = c.value.type
    <3>1. Locally(c) =
            [told |-> Told("Success"),
             map |-> [parametersMap EXCEPT ![c.param] = c.value]]
      BY <1>3, <2>1 DEF Locally, SetLocally
    <3>2. Locally(c).told.type = "Success"
      BY <3>1 DEF Told
    <3>3. Writes(c, parametersMap,
                 [parametersMap EXCEPT ![c.param] = c.value])
      BY <1>3, <2>1, SetWrites
    <3> QED
      BY <3>1, <3>2, <3>3
  <2>2. CASE ~(Declared(c.param)
                  /\ parametersMap[c.param].type = c.value.type)
    BY <1>3, <2>2 DEF Locally, SetLocally
  <2> QED
    BY <2>1, <2>2
<1>4. CASE c.op = "declare"
  <2>1. CASE Locally(c) = [told |-> Told("Success"),
                           map |-> Emplaced(c.param, c.value)]
    <3>1. Locally(c).told.type = "Success"
      BY <2>1 DEF Told
    <3> QED
      BY <1>4, <2>1, <3>1, EmplacedWrites
  <2>2. CASE Locally(c).map = parametersMap
    BY <2>2
  <2> QED
    BY <1>4, <2>1, <2>2 DEF Locally, DeclareLocally
<1> QED
  BY <1>1, <1>2, <1>3, <1>4, CallAssumption

\* Every value that is written is a message.
LEMMA WrittenValued ==
    ASSUME NEW c \in Call, Valued(parametersMap)
    PROVE  Valued(Locally(c).map) /\ Valued(SrvCallback(c).map)
<1>1. ASSUME NEW n, Writes(c, parametersMap, n)
      PROVE  Valued(n)
  BY <1>1, CallAssumption DEF Writes, Valued
<1> QED
  BY <1>1, LocalWrites, SrvWrites

LEMMA LocalDeclares ==
    ASSUME NEW c \in Call, c.op = "declare", c.pointer,
           Locally(c).told.type = "Success"
    PROVE  /\ ~Declared(c.param)
           /\ Locally(c).map = Emplaced(c.param, c.value)
BY DEF Locally, DeclareLocally, Told

-----------------------------------------------------------------------------
\* What the registry tells its own process is true of the map.
LEMMA LocalTrue ==
    ASSUME NEW c \in Call, ~c.client
    PROVE  TrueOf(c, Locally(c).told, parametersMap)
<1>1. CASE c.op = "get"
  BY <1>1 DEF Locally, GetLocally, TrueOf, GetTold, Told, Declared
<1>2. CASE c.op = "list"
  BY <1>2 DEF Locally, ListLocally, TrueOf, ListTold, Told
<1>3. CASE c.op = "set"
  BY <1>3 DEF Locally, SetLocally, TrueOf, SetTold, Told, Declared
<1>4. CASE c.op = "declare"
  BY <1>4 DEF Locally, DeclareLocally, TrueOf, DeclareTold, Told, Declared
<1> QED
  BY <1>1, <1>2, <1>3, <1>4, CallAssumption

\* What the errors of the services become.
LEMMA SetErrors ==
    ASSUME NEW c \in Call
    PROVE  /\ Executed(c) /\ Done(Response(c)) =>
                 ClientSet(c).type = "Success"
           /\ Executed(c) /\ Response(c).ok
                 /\ Response(c).error = "NOT_DECLARED" =>
                     ClientSet(c).type = "NotDeclared"
           /\ Executed(c) /\ Response(c).ok
                 /\ Response(c).error = "INVALID_TYPE" =>
                     ClientSet(c).type = "InvalidType"
           /\ ~Executed(c) => ClientSet(c).type = "ClientTimeout"
<1> DEFINE errors == [SUCCESS |-> "Success", NOT_DECLARED |-> "NotDeclared",
                      INVALID_TYPE |-> "InvalidType"]
<1>1. ClientSet(c).type = ErrorOf(c, errors)
  BY DEF ClientSet, Told
<1>2. /\ DOMAIN errors = {"SUCCESS", "NOT_DECLARED", "INVALID_TYPE"}
      /\ errors["SUCCESS"] = "Success"
      /\ errors["NOT_DECLARED"] = "NotDeclared"
      /\ errors["INVALID_TYPE"] = "InvalidType"
  OBVIOUS
<1> HIDE DEF errors
<1> QED
  BY <1>1, <1>2 DEF ErrorOf, Done

LEMMA DeclareErrors ==
    ASSUME NEW c \in Call
    PROVE  /\ ClientDeclare(c).type = "Success" =>
                 Executed(c) /\ Done(Response(c))
           /\ Executed(c) /\ Done(Response(c)) =>
                 ClientDeclare(c).type = "Success"
           /\ Executed(c) /\ Response(c).ok
                 /\ Response(c).error = "ALREADY_DECLARED" =>
                     ClientDeclare(c).type = "AlreadyDeclared"
           /\ Executed(c) /\ Response(c).ok
                 /\ Response(c).error = "INVALID_TYPE" =>
                     ClientDeclare(c).type = "InvalidType"
           /\ ~Executed(c) => ClientDeclare(c).type = "ClientTimeout"
<1> DEFINE errors == [SUCCESS |-> "Success", INVALID_TYPE |-> "InvalidType",
                      ALREADY_DECLARED |-> "AlreadyDeclared"]
<1>1. ClientDeclare(c).type = ErrorOf(c, errors)
  BY DEF ClientDeclare, Told
<1>2. /\ DOMAIN errors = {"SUCCESS", "INVALID_TYPE", "ALREADY_DECLARED"}
      /\ errors["SUCCESS"] = "Success"
      /\ errors["INVALID_TYPE"] = "InvalidType"
      /\ errors["ALREADY_DECLARED"] = "AlreadyDeclared"
  OBVIOUS
<1> HIDE DEF errors
<1> QED
  BY <1>1, <1>2 DEF ErrorOf, Done

\* What a client makes of a true reply is true of the same map.
LEMMA ClientTrue ==
    ASSUME NEW c \in Call, c.client, NEW m,
           Executed(c) => RightReply(c, Response(c), m)
    PROVE  TrueOf(c, ToClient(c), m)
<1> DEFINE r == Response(c)
           p == c.param
<1>1. CASE c.op = "get"
  <2>1. ToClient(c) = ClientGet(c)
    BY <1>1 DEF ToClient
  <2>2. GetTold(c, ClientGet(c), m)
    <3>1. CASE r.value = Nothing
      <4>1. ClientGet(c).type = "Unexpected"
        BY <3>1 DEF ClientGet, Told
      <4>2. ~Executed(c) \/ p \notin DOMAIN m
        BY <1>1, <3>1 DEF RightReply
      <4> QED
        BY <4>1, <4>2 DEF GetTold
    <3>2. CASE r.value # Nothing
      <4>1. Executed(c)
        BY <3>2 DEF Response, Reply
      <4>2. p \in DOMAIN m /\ m[p] = r.value
        BY <1>1, <3>2, <4>1 DEF RightReply
      <4>3. CASE ~c.pointer /\ m[p].type # c.value.type
        BY <3>2, <4>2, <4>3 DEF ClientGet, Told, GetTold
      <4>4. CASE c.pointer /\ m[p].type \notin Known
        BY <3>2, <4>2, <4>4 DEF ClientGet, Told, GetTold
      <4>5. CASE IF c.pointer THEN m[p].type \in Known
                 ELSE m[p].type = c.value.type
        <5>1. ClientGet(c).type = "Success" /\ ClientGet(c).value = r.value
          BY <3>2, <4>2, <4>5 DEF ClientGet, Told
        <5> QED
          BY <4>2, <4>5, <5>1 DEF GetTold
      <4> QED
        BY <4>3, <4>4, <4>5
    <3> QED
      BY <3>1, <3>2
  <2> QED
    BY <1>1, <2>1, <2>2 DEF TrueOf
<1>2. CASE c.op = "list"
  <2>1. ToClient(c) = ClientList(c)
    BY <1>2 DEF ToClient
  <2>2. CASE Executed(c)
    <3>1. r.ok /\ r.decls = Declarations(m)
      BY <1>2, <2>2 DEF RightReply
    <3>2. ClientList(c).type = "Success" /\ ClientList(c).decls = r.decls
      BY <2>2, <3>1 DEF ClientList, Told
    <3> QED
      BY <1>2, <2>1, <3>1, <3>2 DEF TrueOf, ListTold
  <2>3. CASE ~Executed(c)
    <3>1. ClientList(c).type = "threw"
      BY <2>3 DEF ClientList, Told
    <3> QED
      BY <1>2, <2>1, <2>3, <3>1 DEF TrueOf, ListTold
  <2> QED
    BY <2>2, <2>3
<1>3. CASE c.op = "set"
  <2>1. ToClient(c) = ClientSet(c)
    BY <1>3 DEF ToClient
  <2> QED
    BY <1>3, <2>1, SetErrors DEF TrueOf, SetTold, RightReply, Done
<1>4. CASE c.op = "declare"
  <2>1. ToClient(c) = ClientDeclare(c)
    BY <1>4 DEF ToClient
  <2> QED
    BY <1>4, <2>1, DeclareErrors DEF TrueOf, DeclareTold, RightReply, Done
<1> QED
  BY <1>1, <1>2, <1>3, <1>4, CallAssumption

-----------------------------------------------------------------------------
\* The course of a call, and what its caller is told.
RegistryTypes ==
    /\ pStatus \in [Call -> {"new", "open", "answered", "failed"}]
    /\ DOMAIN pServed = Call /\ DOMAIN pAnswers = Call
    /\ DOMAIN told = Call /\ DOMAIN seen = Call
    /\ Valued(parametersMap)

CallFate(c) ==
    /\ pStatus[c] = "new" => pServed[c] = <<>> /\ pAnswers[c] = <<>>
    /\ pAnswers[c] # <<>> => pAnswers[c] = pServed[c]
    /\ pStatus[c] \in {"new", "open"} => told[c] = NotYet
    /\ ~c.client => pStatus[c] \in {"new", "answered"}
    /\ c.client /\ pStatus[c] \in {"answered", "failed"} =>
           told[c] = ToClient(c)
    /\ pStatus[c] = "open" => parametersMap \in seen[c]
    /\ pStatus[c] = "open" /\ pServed[c] # <<>> =>
           \E m \in seen[c] : RightReply(c, pServed[c][1], m)
    /\ told[c] # NotYet => \E m \in seen[c] : TrueOf(c, told[c], m)

CallFates == \A c \in Call : CallFate(c)

\* What is true of a map stays so while no answer comes.
LEMMA TrueKept ==
    ASSUME NEW c \in Call, NEW m, pAnswers'[c] = pAnswers[c],
           TrueOf(c, told'[c], m)
    PROVE  TrueOf(c, told[c], m)'
<1>1. CASE c.op = "get"
  BY <1>1 DEF TrueOf, GetTold, Executed
<1>2. CASE c.op = "set"
  BY <1>2 DEF TrueOf, SetTold, Executed
<1>3. CASE c.op = "declare"
  BY <1>3 DEF TrueOf, DeclareTold, Executed
<1>4. CASE c.op = "list"
  BY <1>4 DEF TrueOf, ListTold, Executed
<1> QED
  BY <1>1, <1>2, <1>3, <1>4, CallAssumption

LEMMA OthersFate ==
    ASSUME NEW d \in Call, CallFate(d),
           pStatus'[d] = pStatus[d], pServed'[d] = pServed[d],
           pAnswers'[d] = pAnswers[d], told'[d] = told[d],
           seen[d] \subseteq seen'[d],
           pStatus[d] = "open" => parametersMap' \in seen'[d]
    PROVE  CallFate(d)'
<1>1. ToClient(d)' = ToClient(d)
  BY DEF ToClient, ClientGet, ClientList, ClientSet, ClientDeclare, ErrorOf,
         Executed, Response
<1>2. told'[d] # NotYet => \E m \in seen'[d] : TrueOf(d, told[d], m)'
  <2>1. ASSUME NEW m, TrueOf(d, told[d], m)
        PROVE  TrueOf(d, told[d], m)'
    BY <2>1, TrueKept
  <2> QED
    BY <2>1 DEF CallFate
<1> QED
  BY <1>1, <1>2 DEF CallFate

LEMMA WatchSeen ==
    ASSUME Watch, NEW d \in Call
    PROVE  /\ DOMAIN seen' = Call
           /\ seen[d] \subseteq seen'[d]
           /\ pStatus[d] = "open" \/ pStatus'[d] = "open" =>
                 parametersMap \in seen'[d] /\ parametersMap' \in seen'[d]
BY DEF Watch

LEMMA LocalFate ==
    ASSUME RegistryTypes, CallFates, NEW c \in Call, CallLocally(c)
    PROVE  RegistryTypes' /\ CallFates'
<1> USE DEF RegistryTypes
<1>1. RegistryTypes'
  BY WrittenValued DEF CallLocally
<1>2. ASSUME NEW d \in Call, d # c
      PROVE  CallFate(d)'
  BY <1>2, OthersFate DEF CallLocally, CallFates
<1>3. CallFate(c)'
  <2>1. /\ pStatus'[c] = "answered" /\ seen'[c] = {parametersMap}
        /\ told'[c] = Locally(c).told
        /\ ~c.client /\ pAnswers'[c] = <<>>
    BY DEF CallLocally, CallFates, CallFate
  <2>2. TrueOf(c, told'[c], parametersMap) /\ UNCHANGED pAnswers
    BY <2>1, LocalTrue DEF CallLocally
  <2>3. ASSUME NEW m, m = parametersMap
        PROVE  TrueOf(c, told[c], m)'
    BY <2>2, <2>3, TrueKept
  <2> QED
    BY <2>1, <2>3 DEF CallFate
<1> QED
  BY <1>1, <1>2, <1>3 DEF CallFates

LEMMA AskFate ==
    ASSUME RegistryTypes, CallFates, NEW c \in Call, Ask(c)
    PROVE  RegistryTypes' /\ CallFates'
<1> USE DEF RegistryTypes
<1>1. /\ c.client /\ pStatus[c] = "new"
      /\ pStatus' = [pStatus EXCEPT ![c] = "open"]
      /\ UNCHANGED <<pServed, pAnswers, parametersMap, told>>
      /\ Watch
  BY DEF Ask, Service!Ask
<1>2. RegistryTypes'
  BY <1>1, WatchSeen
<1>3. ASSUME NEW d \in Call, d # c
      PROVE  CallFate(d)'
  BY <1>1, <1>3, OthersFate, WatchSeen DEF CallFates
<1>4. CallFate(c)'
  <2>1. /\ pStatus'[c] = "open" /\ parametersMap' \in seen'[c]
        /\ pServed'[c] = <<>> /\ pAnswers'[c] = <<>> /\ told'[c] = NotYet
    BY <1>1, WatchSeen DEF CallFates, CallFate
  <2> QED
    BY <1>1, <2>1 DEF CallFate, NotYet
<1> QED
  BY <1>2, <1>3, <1>4 DEF CallFates

LEMMA ServeFate ==
    ASSUME RegistryTypes, CallFates, NEW c \in Call, Serve(c)
    PROVE  RegistryTypes' /\ CallFates'
<1> USE DEF RegistryTypes
<1>1. /\ c.client /\ pStatus[c] # "new" /\ pServed[c] = <<>>
      /\ pServed' = [pServed EXCEPT ![c] = <<SrvCallback(c).reply>>]
      /\ parametersMap' = SrvCallback(c).map
      /\ UNCHANGED <<pStatus, pAnswers, told>>
      /\ Watch
  BY DEF Serve, Service!Serve
<1>2. RegistryTypes'
  BY <1>1, WatchSeen, WrittenValued
<1>3. ASSUME NEW d \in Call, d # c
      PROVE  CallFate(d)'
  BY <1>1, <1>3, OthersFate, WatchSeen DEF CallFates
<1>4. CallFate(c)'
  <2>1. /\ pServed'[c] # <<>> /\ pServed'[c][1] = SrvCallback(c).reply
        /\ pAnswers'[c] = <<>> /\ pStatus'[c] = pStatus[c]
        /\ told'[c] = told[c]
    BY <1>1 DEF CallFates, CallFate
  <2>2. RightReply(c, pServed'[c][1], parametersMap)
    BY <2>1, SrvReplies
  <2>3. /\ seen[c] \subseteq seen'[c]
        /\ pStatus[c] = "open" => parametersMap \in seen'[c]
                                  /\ parametersMap' \in seen'[c]
    BY <1>1, WatchSeen
  <2>4. ToClient(c)' = ToClient(c)
    BY <1>1 DEF ToClient, ClientGet, ClientList, ClientSet, ClientDeclare,
                ErrorOf, Executed, Response
  <2>5. CallFate(c)
    BY DEF CallFates
  <2>6. ASSUME NEW m, TrueOf(c, told[c], m)
        PROVE  TrueOf(c, told[c], m)'
    BY <1>1, <2>6, TrueKept
  <2> QED
    BY <1>1, <2>1, <2>2, <2>3, <2>4, <2>5, <2>6 DEF CallFate
<1> QED
  BY <1>2, <1>3, <1>4 DEF CallFates

LEMMA AnswerFate ==
    ASSUME RegistryTypes, CallFates, NEW c \in Call, Answer(c)
    PROVE  RegistryTypes' /\ CallFates'
<1> USE DEF RegistryTypes
<1>1. /\ pStatus[c] = "open" /\ pServed[c] # <<>>
      /\ pAnswers' = [pAnswers EXCEPT ![c] = pServed[c]]
      /\ UNCHANGED <<pStatus, pServed, parametersMap, told, seen>>
  BY DEF Answer, Service!Answer
<1>2. RegistryTypes'
  BY <1>1
<1>3. ASSUME NEW d \in Call, d # c
      PROVE  CallFate(d)'
  <2>1. pStatus[d] = "open" => parametersMap' \in seen'[d]
    BY <1>1 DEF CallFates, CallFate
  <2> QED
    BY <1>1, <1>3, <2>1, OthersFate DEF CallFates
<1>4. CallFate(c)'
  <2>1. pAnswers'[c] = pServed'[c] /\ pStatus'[c] = "open"
    BY <1>1
  <2>2. CallFate(c)
    BY DEF CallFates
  <2> QED
    BY <1>1, <2>1, <2>2 DEF CallFate
<1> QED
  BY <1>2, <1>3, <1>4 DEF CallFates

LEMMA ReturnFate ==
    ASSUME RegistryTypes, CallFates, NEW c \in Call, ParamsReturn(c)
    PROVE  RegistryTypes' /\ CallFates'
<1> USE DEF RegistryTypes
<1>1. /\ pStatus[c] = "open"
      /\ pStatus' = [pStatus EXCEPT ![c] = pStatus'[c]]
      /\ pStatus'[c] \in {"answered", "failed"}
      /\ told' = [told EXCEPT ![c] = ToClient(c)]
      /\ UNCHANGED <<pServed, pAnswers, parametersMap, seen>>
  BY DEF ParamsReturn, Service!Return
<1>2. RegistryTypes'
  BY <1>1
<1>3. ASSUME NEW d \in Call, d # c
      PROVE  CallFate(d)'
  <2>1. pStatus[d] = "open" => parametersMap' \in seen'[d]
    BY <1>1 DEF CallFates, CallFate
  <2> QED
    BY <1>1, <1>3, <2>1, OthersFate DEF CallFates
<1>4. CallFate(c)'
  <2>1. CallFate(c)
    BY DEF CallFates
  <2>2. ToClient(c)' = ToClient(c) /\ told'[c] = ToClient(c)
    BY <1>1 DEF ToClient, ClientGet, ClientList, ClientSet, ClientDeclare,
                ErrorOf, Executed, Response
  <2>3. PICK m \in seen[c] : Executed(c) => RightReply(c, Response(c), m)
    <3>1. CASE Executed(c)
      <4>1. pServed[c] # <<>> /\ Response(c) = pServed[c][1]
        BY <2>1, <3>1 DEF CallFate, Executed, Response
      <4> QED
        BY <1>1, <2>1, <4>1 DEF CallFate
    <3>2. CASE ~Executed(c)
      BY <1>1, <2>1, <3>2 DEF CallFate
    <3> QED
      BY <3>1, <3>2
  <2>4. c.client
    BY <1>1, <2>1 DEF CallFate
  <2>5. TrueOf(c, told'[c], m)
    BY <2>2, <2>3, <2>4, ClientTrue
  <2>6. TrueOf(c, told[c], m)'
    BY <1>1, <2>5, TrueKept
  <2> QED
    BY <1>1, <2>1, <2>2, <2>3, <2>4, <2>6 DEF CallFate
<1> QED
  BY <1>2, <1>3, <1>4 DEF CallFates

LEMMA InitCallFates == ParamsInit => RegistryTypes /\ CallFates
BY DEF ParamsInit, Service!Init, RegistryTypes, CallFates, CallFate, Valued

LEMMA NextCallFates ==
    RegistryTypes /\ CallFates /\ [ParamsNext]_registry
        => RegistryTypes' /\ CallFates'
<1> SUFFICES ASSUME RegistryTypes, CallFates, [ParamsNext]_registry
             PROVE  RegistryTypes' /\ CallFates'
  OBVIOUS
<1>1. CASE UNCHANGED registry
  <2>1. RegistryTypes'
    BY <1>1 DEF registry, RegistryTypes
  <2>2. ASSUME NEW d \in Call
        PROVE  CallFate(d)'
    <3>1. pStatus[d] = "open" => parametersMap' \in seen'[d]
      BY <1>1 DEF registry, CallFates, CallFate
    <3> QED
      BY <1>1, <3>1, OthersFate DEF registry, CallFates
  <2> QED
    BY <2>1, <2>2 DEF CallFates
<1> QED
  BY <1>1, LocalFate, AskFate, ServeFate, AnswerFate, ReturnFate
     DEF ParamsNext

-----------------------------------------------------------------------------
\* The map.  Who declared a parameter, and whose value it has, by what the
\* registry did, whatever its client has been told since.
Did(c) == IF c.client THEN pServed[c] # <<>> /\ Done(pServed[c][1])
          ELSE told[c].type = "Success"
WonBy(c) == c.op = "declare" /\ (c.client \/ c.pointer) /\ Did(c)
WroteBy(c) == c.op \in {"declare", "set"} /\ Did(c)

MapKept ==
    /\ \A c \in Call : WonBy(c) =>
           Declared(c.param) /\ parametersMap[c.param].type = c.value.type
    /\ \A c, d \in Call : WonBy(c) /\ WonBy(d) /\ c.param = d.param => c = d
    /\ \A p \in DOMAIN parametersMap : \E c \in Call :
           WroteBy(c) /\ c.param = p /\ c.value = parametersMap[p]

\* What a step of the call c may do to the map and to who did what.
Effect(c) ==
    /\ \A d \in Call : d # c => (Did(d)' <=> Did(d))
    /\ Did(c) => Did(c)'
    /\ WonBy(c)' => \/ WonBy(c)
                    \/ /\ ~Declared(c.param)
                       /\ parametersMap' = Emplaced(c.param, c.value)
    /\ \/ parametersMap' = parametersMap
       \/ Writes(c, parametersMap, parametersMap') /\ Did(c)'

LEMMA NotYetTold == NotYet.type = ""
BY DEF NotYet, Told

LEMMA EffectKeeps ==
    ASSUME MapKept, NEW c \in Call, Effect(c)
    PROVE  MapKept'
<1>1. \A d \in Call : WonBy(d)' =>
          \/ WonBy(d)
          \/ d = c /\ ~Declared(c.param)
             /\ parametersMap' = Emplaced(c.param, c.value)
  BY DEF Effect, WonBy
<1>2. \A d \in Call : WroteBy(d) => WroteBy(d)'
  BY DEF Effect, WroteBy
<1>3. /\ DOMAIN parametersMap \subseteq DOMAIN parametersMap'
      /\ \A p \in DOMAIN parametersMap :
             parametersMap'[p].type = parametersMap[p].type
  BY DEF Effect, Writes
<1>4. ASSUME NEW d \in Call, WonBy(d)'
      PROVE  /\ d.param \in DOMAIN parametersMap'
             /\ parametersMap'[d.param].type = d.value.type
  <2>1. CASE WonBy(d)
    BY <1>3, <2>1 DEF MapKept, Declared
  <2>2. CASE ~WonBy(d)
    <3>1. /\ d = c /\ c.param \notin DOMAIN parametersMap
          /\ parametersMap' = Emplaced(c.param, c.value)
      BY <1>1, <1>4, <2>2 DEF Declared
    <3>2. /\ c.param \in DOMAIN parametersMap'
          /\ parametersMap'[c.param] = c.value
      BY <3>1, Emplacing
    <3> QED
      BY <3>1, <3>2
  <2> QED
    BY <2>1, <2>2
<1>5. ASSUME NEW a \in Call, NEW b \in Call, WonBy(a)', WonBy(b)',
             a.param = b.param
      PROVE  a = b
  <2>1. CASE WonBy(a) /\ WonBy(b)
    BY <1>5, <2>1 DEF MapKept
  <2>2. CASE ~(WonBy(a) /\ WonBy(b))
    BY <1>1, <1>5, <2>2 DEF MapKept
  <2> QED
    BY <2>1, <2>2
<1>6. ASSUME NEW p \in DOMAIN parametersMap'
      PROVE  \E d \in Call : WroteBy(d)' /\ d.param = p
                             /\ d.value = parametersMap'[p]
  <2>1. CASE p \in DOMAIN parametersMap /\ parametersMap'[p] = parametersMap[p]
    BY <1>2, <2>1 DEF MapKept
  <2>2. CASE ~(p \in DOMAIN parametersMap
                  /\ parametersMap'[p] = parametersMap[p])
    <3>1. /\ p = c.param /\ parametersMap'[p] = c.value
          /\ c.op \in {"declare", "set"} /\ Did(c)'
      BY <1>6, <2>2 DEF Effect, Writes
    <3>2. WroteBy(c)'
      BY <3>1 DEF WroteBy
    <3> QED
      BY <3>1, <3>2
  <2> QED
    BY <2>1, <2>2
<1>7. \A d \in Call : WonBy(d)' =>
          Declared(d.param)' /\ parametersMap'[d.param].type = d.value.type
  BY <1>4 DEF Declared
<1> QED
  BY <1>5, <1>6, <1>7 DEF MapKept

LEMMA LocalEffect ==
    ASSUME RegistryTypes, CallFates, NEW c \in Call, CallLocally(c)
    PROVE  Effect(c)
<1>1. /\ ~c.client /\ pStatus[c] = "new" /\ pServed' = pServed
      /\ parametersMap' = Locally(c).map
      /\ told' = [told EXCEPT ![c] = Locally(c).told]
      /\ c \in DOMAIN told
  BY DEF CallLocally, RegistryTypes
<1>2. told[c] = NotYet
  BY <1>1 DEF CallFates, CallFate
<1>3. told'[c] = Locally(c).told
  BY <1>1
<1>4. ~Did(c)
  BY <1>1, <1>2, NotYetTold DEF Did
<1>5. Did(c)' <=> Locally(c).told.type = "Success"
  BY <1>1, <1>3 DEF Did
<1>6. \A d \in Call : d # c => (Did(d)' <=> Did(d))
  BY <1>1 DEF Did
<1>7. WonBy(c)' => /\ ~Declared(c.param)
                   /\ parametersMap' = Emplaced(c.param, c.value)
  BY <1>1, <1>5, LocalDeclares DEF WonBy
<1>8. \/ parametersMap' = parametersMap
      \/ Writes(c, parametersMap, parametersMap') /\ Did(c)'
  BY <1>1, <1>5, LocalWrites
<1> QED
  BY <1>4, <1>6, <1>7, <1>8 DEF Effect

LEMMA ServeEffect ==
    ASSUME RegistryTypes, NEW c \in Call, Serve(c)
    PROVE  Effect(c)
<1>1. /\ c.client /\ pServed[c] = <<>> /\ told' = told
      /\ parametersMap' = SrvCallback(c).map
      /\ pServed' = [pServed EXCEPT ![c] = <<SrvCallback(c).reply>>]
      /\ c \in DOMAIN pServed
  BY DEF Serve, Service!Serve, RegistryTypes
<1>2. pServed'[c] # <<>> /\ pServed'[c][1] = SrvCallback(c).reply
  BY <1>1
<1>3. ~Did(c)
  BY <1>1 DEF Did
<1>4. Did(c)' <=> Done(SrvCallback(c).reply)
  BY <1>1, <1>2 DEF Did
<1>5. \A d \in Call : d # c => (Did(d)' <=> Did(d))
  BY <1>1 DEF Did
<1>6. WonBy(c)' => /\ ~Declared(c.param)
                   /\ parametersMap' = Emplaced(c.param, c.value)
  BY <1>1, <1>4, SrvDeclares DEF WonBy
<1>7. \/ parametersMap' = parametersMap
      \/ Writes(c, parametersMap, parametersMap') /\ Did(c)'
  BY <1>1, <1>4, SrvWrites
<1> QED
  BY <1>3, <1>5, <1>6, <1>7 DEF Effect

\* The steps in which the registry does nothing.
LEMMA OtherEffects ==
    ASSUME RegistryTypes, CallFates, NEW c \in Call,
           Ask(c) \/ Answer(c) \/ ParamsReturn(c)
    PROVE  Effect(c)
<1>1. parametersMap' = parametersMap /\ pServed' = pServed
  BY DEF Ask, Answer, ParamsReturn, Service!Ask, Service!Answer,
         Service!Return
<1>2. \/ told' = told
      \/ c.client /\ told' = [told EXCEPT ![c] = ToClient(c)]
  <2>1. ASSUME Service!Return(c)
        PROVE  c.client
    BY <2>1 DEF Service!Return, CallFates, CallFate
  <2> QED
    BY <2>1 DEF Ask, Answer, ParamsReturn
<1>3. \A d \in Call : Did(d)' <=> Did(d)
  BY <1>1, <1>2 DEF Did, RegistryTypes
<1>4. WonBy(c)' => WonBy(c)
  BY <1>3 DEF WonBy
<1> QED
  BY <1>1, <1>3, <1>4 DEF Effect

LEMMA InitMap == ParamsInit => MapKept
<1> SUFFICES ASSUME ParamsInit
             PROVE  MapKept
  OBVIOUS
<1>1. \A c \in Call : ~Did(c)
  BY NotYetTold DEF ParamsInit, Service!Init, Did
<1>2. \A p \in DOMAIN parametersMap : FALSE
  BY DEF ParamsInit
<1> QED
  BY <1>1, <1>2 DEF MapKept, WonBy

LEMMA NextMap ==
    RegistryTypes /\ CallFates /\ MapKept /\ [ParamsNext]_registry => MapKept'
<1> SUFFICES ASSUME RegistryTypes, CallFates, MapKept, [ParamsNext]_registry
             PROVE  MapKept'
  OBVIOUS
<1>1. CASE UNCHANGED registry
  BY <1>1 DEF registry, MapKept, WonBy, WroteBy, Did, Declared
<1>2. ASSUME NEW c \in Call,
             CallLocally(c) \/ Ask(c) \/ Serve(c) \/ Answer(c)
                 \/ ParamsReturn(c)
      PROVE  MapKept'
  <2>1. Effect(c)
    BY <1>2, LocalEffect, ServeEffect, OtherEffects
  <2> QED
    BY <2>1, EffectKeeps
<1> QED
  BY <1>1, <1>2 DEF ParamsNext

\* What clients and the registry's process are told.
LEMMA ToldByFate ==
    ASSUME CallFates, MapKept, RegistryTypes
    PROVE  ParamsTold
<1>1. ASSUME NEW c \in Call, ToldItDeclared(c)
      PROVE  WonBy(c)
  <2>1. CallFate(c) /\ pStatus[c] \in {"new", "open", "answered", "failed"}
    BY DEF CallFates, RegistryTypes
  <2>2. CASE c.client
    <3>1. told[c] # NotYet
      BY <1>1, NotYetTold DEF ToldItDeclared
    <3>2. told[c] = ClientDeclare(c)
      BY <1>1, <2>1, <2>2, <3>1 DEF CallFate, ToClient, ToldItDeclared
    <3>3. Executed(c) /\ Done(Response(c))
      BY <1>1, <3>2, DeclareErrors DEF ToldItDeclared
    <3>4. pServed[c] # <<>> /\ Response(c) = pServed[c][1]
      BY <2>1, <3>3 DEF CallFate, Executed, Response
    <3> QED
      BY <1>1, <2>2, <3>3, <3>4 DEF ToldItDeclared, WonBy, Did
  <2>3. CASE ~c.client
    BY <1>1, <2>3 DEF ToldItDeclared, WonBy, Did
  <2> QED
    BY <2>2, <2>3
<1>2. ASSUME NEW c \in Call, WroteBy(c)
      PROVE  told[c].type \in {"", "Success", "ClientTimeout"}
  <2>1. CallFate(c) /\ pStatus[c] \in {"new", "open", "answered", "failed"}
    BY DEF CallFates, RegistryTypes
  <2>2. CASE ~c.client
    BY <1>2, <2>2 DEF WroteBy, Did
  <2>3. CASE c.client /\ told[c] = NotYet
    BY <2>3, NotYetTold
  <2>4. CASE c.client /\ told[c] # NotYet
    <3>1. told[c] = ToClient(c)
      BY <2>1, <2>4 DEF CallFate
    <3>2. told[c] \in {ClientSet(c), ClientDeclare(c)}
      BY <1>2, <3>1 DEF WroteBy, ToClient
    <3>3. Executed(c) => Done(Response(c))
      BY <1>2, <2>1, <2>4 DEF WroteBy, Did, CallFate, Executed, Response
    <3> QED
      BY <3>2, <3>3, SetErrors, DeclareErrors
  <2> QED
    BY <2>2, <2>3, <2>4
<1>3. \A c \in Call : told[c] # NotYet =>
          \E m \in seen[c] : TrueOf(c, told[c], m)
  BY DEF CallFates, CallFate
<1>4. \A c \in Call : ToldItDeclared(c) =>
          /\ Declared(c.param)
          /\ parametersMap[c.param].type = c.value.type
          /\ \A d \in Call : ToldItDeclared(d) /\ d.param = c.param => d = c
  BY <1>1 DEF MapKept
<1>5. \A p \in DOMAIN parametersMap : \E c \in Call :
          /\ c.op \in {"declare", "set"}
          /\ c.param = p /\ c.value = parametersMap[p]
          /\ told[c].type \in {"", "Success", "ClientTimeout"}
  BY <1>2 DEF MapKept, WroteBy
<1> QED
  BY <1>3, <1>4, <1>5 DEF ParamsTold

\* Every answer that clients of a registry and its own process are given, the
\* errors with the others, was true at some time during their call, of what the
\* code means by that answer; of the calls that look whether the parameter is
\* declared, one at most is told that it declared it: the map only grows and
\* keeps its types, and the reply of a callback outlives later calls
\* (Registry.cc:120-359, Client.cc:71-252).
THEOREM ParamsCorrect == ParamsSpec => []ParamsTold
<1> QED
  BY InitCallFates, InitMap, NextCallFates, NextMap, ToldByFate, PTL
     DEF ParamsSpec

-----------------------------------------------------------------------------
(***************************************************************************)
(* ServiceCommand: what `gz service` tells its user.                       *)
(***************************************************************************)
\* The types of a request.  Names of types, and the types they stand for.
LEMMA Spellings ==
    /\ \A n : CanonicalType(n) = "" <=> n = ""
    /\ \A n : CanonicalType(CanonicalType(n)) = CanonicalType(n)
    /\ \A n : Means(n, CanonicalType(n))
    /\ \A n, t : Canonical(t) => (Means(n, t) <=>
                                      n = "" \/ t = CanonicalType(n))
BY CommandAssumption DEF CanonicalType, Canonical, Means

\* The types a step has left keep to what the user wrote.
Keeps(name, t) == name = "" \/ t = CanonicalType(name)

TwoFit ==
    \E m \in moments : \E o, p \in m :
        AskedFor(o) /\ AskedFor(p) /\ Pair(o) # Pair(p)

Course ==
    /\ pc # "start" => args \in Arguments /\ offers \in moments
    /\ types = [req |-> types.req, rep |-> types.rep]
    /\ pc = "wait" => args.op \in {"command", "wait"}
    /\ pc \in {"wait", "list"} /\ args.op = "command" =>
           /\ types.req = CanonicalType(args.req)
           /\ types.rep = CanonicalType(args.rep)
    /\ pc = "create" => /\ Keeps(args.req, CanonicalType(types.req))
                        /\ Keeps(args.rep, CanonicalType(types.rep))
    /\ pc = "called" => /\ Keeps(args.req, types.req)
                        /\ Keeps(args.rep, types.rep)
    /\ pc = "list" => TwoFit

\* The parts of Truthful.
Resolved ==
    pc = "create" /\ args.op = "command" /\ "" \in {args.req, args.rep} =>
        \E m \in moments :
            /\ \E o \in m : AskedFor(o) /\ Pair(o) = types
            /\ \A o \in m : AskedFor(o) => Pair(o) = types

NobodyFits == ~\E o \in Throughout : AskedFor(o)
OneFits == \E m \in moments : \E o \in m : AskedFor(o) /\ Pair(o) = types

OutcomeTrue ==
    /\ outcome \in {"none", "incompatible", "notfound"} => NobodyFits
    /\ outcome = "none" => {} \in moments
    /\ outcome = "incompatible" => moments # {{}}
    /\ outcome = "ambiguous" => TwoFit
    /\ outcome \in {"done", "failed"} => OneFits

LEMMA TruthfulParts == Truthful <=> CommandTypeOK /\ OutcomeTrue /\ Resolved
BY DEF Truthful, OutcomeTrue, Resolved, NobodyFits, OneFits, TwoFit

CommandInv == CommandTypeOK /\ OutcomeTrue /\ Resolved /\ Course

\* A command that is not over has told nothing.
LEMMA NothingTold ==
    ASSUME outcome = ""
    PROVE  OutcomeTrue
BY DEF OutcomeTrue

\* What fits is what the user asked for.
LEMMA Fitting ==
    ASSUME CommandTypeOK, Course, pc = "wait", NEW o \in offers
    PROVE  /\ o \in Found <=> AskedFor(o)
           /\ args.op = "command" => (Compatible(o) <=> AskedFor(o))
<1>1. Canonical(o.req) /\ Canonical(o.rep)
  BY CommandAssumption DEF CommandTypeOK
<1>2. args.op \in {"command", "wait"}
  BY DEF Course
<1>3. ASSUME args.op = "command"
      PROVE  Compatible(o) <=> AskedFor(o)
  <2>1. types.req = CanonicalType(args.req)
        /\ types.rep = CanonicalType(args.rep)
    BY <1>3 DEF Course
  <2>2. Means(args.req, o.req) <=> InferReq \/ o.req = types.req
    BY <1>1, <2>1, Spellings DEF InferReq
  <2>3. Means(args.rep, o.rep) <=> InferRep \/ o.rep = types.rep
    BY <1>1, <2>1, Spellings DEF InferRep
  <2> QED
    BY <1>3, <2>2, <2>3 DEF Compatible, AskedFor
<1> QED
  BY <1>2, <1>3 DEF Found, AskedFor

LEMMA StartKeeps ==
    ASSUME CommandInv, NEW a \in Arguments, StartCommand(a)
    PROVE  CommandInv'
<1> USE DEF CommandInv
<1>1. /\ pc = "start" /\ outcome = "" /\ args' = a /\ moments' = {offers}
      /\ types' = [req |-> types'.req, rep |-> types'.rep]
      /\ types'.req \in {a.req, CanonicalType(a.req)}
      /\ types'.rep \in {a.rep, CanonicalType(a.rep)}
      /\ a.op = "command" => types'.req = CanonicalType(a.req)
                             /\ types'.rep = CanonicalType(a.rep)
      /\ left' = WaitTime(a)
      /\ UNCHANGED <<offers, listed, changes>>
  BY DEF StartCommand, CommandTypeOK
<1>2. \/ pc' = "wait" /\ outcome' = "" /\ a.op \in {"command", "wait"}
      \/ pc' = "end" /\ outcome' = "invalid"
      \/ /\ pc' = "create" /\ outcome' = ""
         /\ a.op = "raw" \/ "" \notin {a.req, a.rep}
  BY <1>1 DEF StartCommand, Tell
<1>3. WaitTime(a) \in Nat
  <2>1. a.timeout \in Int
    BY CommandAssumption
  <2> QED
    BY <2>1 DEF WaitTime
<1>4. CommandTypeOK'
  <2>1. DOMAIN types' = {"req", "rep"}
    BY <1>1
  <2> QED
    BY <1>1, <1>2, <1>3, <2>1 DEF CommandTypeOK, Outcomes
<1>5. OutcomeTrue'
  BY <1>2 DEF OutcomeTrue
<1>6. Resolved'
  BY <1>1, <1>2 DEF Resolved
<1>7. Course'
  <2>1. /\ Keeps(a.req, CanonicalType(types'.req))
        /\ Keeps(a.rep, CanonicalType(types'.rep))
    BY <1>1, Spellings DEF Keeps
  <2> QED
    BY <1>1, <1>2, <2>1 DEF Course
<1> QED
  BY <1>4, <1>5, <1>6, <1>7

LEMMA SleepKeeps ==
    ASSUME CommandInv, CommandSleep
    PROVE  CommandInv'
<1> USE DEF CommandInv
<1>1. /\ UNCHANGED <<args, types, pc, offers, listed, outcome, moments,
                     changes>>
      /\ left' \in Nat
  <2>1. left \in Nat /\ left' \in 0..(left - 1)
    BY DEF CommandSleep, CommandTypeOK
  <2>2. left' \in Nat
    BY <2>1
  <2> QED
    BY <2>2 DEF CommandSleep
<1>2. CommandTypeOK'
  BY <1>1 DEF CommandTypeOK
<1>3. \A o : AskedFor(o)' <=> AskedFor(o)
  BY <1>1 DEF AskedFor
<1>4. OutcomeTrue' /\ Resolved'
  BY <1>1, <1>3 DEF OutcomeTrue, Resolved, NobodyFits, OneFits, TwoFit,
                    Throughout
<1>5. Course'
  BY <1>1, <1>3 DEF Course, TwoFit
<1> QED
  BY <1>2, <1>4, <1>5

\* The steps that end a command leave what was known.
Ends == pc \notin {"start", "end"} /\ pc' = "end"
        /\ UNCHANGED <<args, types, left, offers, moments, changes>>

LEMMA EndsKeep ==
    ASSUME CommandInv, Ends, outcome' \in Outcomes \ {""}, OutcomeTrue'
    PROVE  CommandInv'
BY DEF CommandInv, Ends, CommandTypeOK, Resolved, Course

LEMMA GiveUpKeeps ==
    ASSUME CommandInv, GiveUp
    PROVE  CommandInv'
<1> USE DEF CommandInv
<1>1. Ends
  BY DEF GiveUp, Tell, Ends
<1>2. /\ outcome' \in {"none", "incompatible", "notfound"}
      /\ outcome' = "none" => offers = {}
      /\ outcome' = "incompatible" => offers # {}
      /\ Found = {} /\ pc = "wait"
  BY DEF GiveUp, Tell
<1>3. offers \in moments
  BY <1>2 DEF Course
<1>4. \A o \in Throughout : ~AskedFor(o)
  BY <1>2, <1>3, Fitting DEF Throughout
<1>5. OutcomeTrue'
  <2>1. \A o : AskedFor(o)' <=> AskedFor(o)
    BY <1>1 DEF Ends, AskedFor
  <2>2. Throughout' = Throughout
    BY <1>1 DEF Ends, Throughout
  <2>3. NobodyFits'
    BY <1>4, <2>1, <2>2 DEF NobodyFits
  <2> QED
    BY <1>1, <1>2, <1>3, <2>3 DEF OutcomeTrue, Ends
<1> QED
  BY <1>1, <1>2, <1>5, EndsKeep DEF Outcomes

LEMMA WaitForKeeps ==
    ASSUME CommandInv, WaitFor
    PROVE  CommandInv'
<1>1. Ends /\ outcome' = "found"
  BY DEF WaitFor, Tell, Ends
<1>2. OutcomeTrue'
  BY <1>1 DEF OutcomeTrue
<1> QED
  BY <1>1, <1>2, EndsKeep DEF Outcomes

LEMMA ResolveKeeps ==
    ASSUME CommandInv, ResolveServiceTypes
    PROVE  CommandInv'
<1> USE DEF CommandInv
<1>1. /\ pc = "wait" /\ args.op = "command" /\ Found # {} /\ outcome = ""
      /\ UNCHANGED <<args, left, offers, listed, outcome, moments, changes>>
  BY DEF ResolveServiceTypes, CommandTypeOK
<1>2. /\ types.req = CanonicalType(args.req)
      /\ types.rep = CanonicalType(args.rep)
      /\ offers \in moments /\ args \in Arguments
  BY <1>1 DEF Course
<1>3. /\ Found = {o \in offers : AskedFor(o)}
      /\ \A o \in Found : Compatible(o)
  BY <1>1, Fitting DEF Found
<1>4. \A o : AskedFor(o)' <=> AskedFor(o)
  BY <1>1 DEF AskedFor
<1>5. OutcomeTrue'
  BY <1>1, NothingTold DEF OutcomeTrue
<1>6. CASE Ambiguous(Found)
  <2>1. pc' = "list" /\ types' = types
    BY <1>6 DEF ResolveServiceTypes
  <2>2. CommandTypeOK' /\ Resolved'
    BY <1>1, <2>1 DEF CommandTypeOK, Resolved
  <2>3. PICK o \in Found, p \in Found : Pair(o) # Pair(p)
    <3>1. PICK o \in Found, p \in Found : o.req # p.req \/ o.rep # p.rep
      BY <1>6 DEF Ambiguous
    <3> QED
      BY <3>1 DEF Pair
  <2>4. TwoFit'
    BY <1>1, <1>2, <1>3, <1>4, <2>3 DEF TwoFit
  <2>5. Course'
    BY <1>1, <1>2, <2>1, <2>4 DEF Course
  <2> QED
    BY <1>5, <2>2, <2>5
<1>7. CASE ~Ambiguous(Found)
  <2>1. PICK o \in Found :
            types' = [req |-> IF InferReq THEN o.req ELSE types.req,
                      rep |-> IF InferRep THEN o.rep ELSE types.rep]
    BY <1>7 DEF ResolveServiceTypes
  <2>2. pc' = "create"
    BY <1>7 DEF ResolveServiceTypes
  <2>3. ASSUME NEW p \in Found
        PROVE  Pair(p) = types'
    <3>1. InferReq => o.req = p.req
      BY <1>7, <2>3 DEF Ambiguous
    <3>2. InferRep => o.rep = p.rep
      BY <1>7, <2>3 DEF Ambiguous
    <3>3. /\ InferReq \/ p.req = types.req
          /\ InferRep \/ p.rep = types.rep
      BY <1>3 DEF Compatible
    <3>4. p.req = IF InferReq THEN o.req ELSE types.req
      BY <3>1, <3>3
    <3>5. p.rep = IF InferRep THEN o.rep ELSE types.rep
      BY <3>2, <3>3
    <3> QED
      BY <2>1, <3>4, <3>5 DEF Pair
  <2>4. CommandTypeOK'
    <3>1. DOMAIN types' = {"req", "rep"}
      BY <2>1
    <3> QED
      BY <1>1, <2>2, <3>1 DEF CommandTypeOK
  <2>5. Resolved'
    BY <1>1, <1>2, <1>3, <1>4, <2>3 DEF Resolved
  <2>6. Course'
    <3>1. /\ types' = [req |-> types'.req, rep |-> types'.rep]
          /\ types'.req = IF InferReq THEN o.req ELSE types.req
          /\ types'.rep = IF InferRep THEN o.rep ELSE types.rep
      BY <2>1
    <3>2. Keeps(args.req, CanonicalType(types'.req))
      BY <1>2, <3>1, Spellings DEF Keeps, InferReq
    <3>3. Keeps(args.rep, CanonicalType(types'.rep))
      BY <1>2, <3>1, Spellings DEF Keeps, InferRep
    <3> QED
      BY <1>1, <1>2, <2>2, <3>1, <3>2, <3>3 DEF Course
  <2> QED
    BY <1>5, <2>4, <2>5, <2>6
<1> QED
  BY <1>6, <1>7

LEMMA ListKeeps ==
    ASSUME CommandInv, ListTypes
    PROVE  CommandInv'
<1>1. Ends /\ outcome' = "ambiguous" /\ TwoFit
  BY DEF ListTypes, Tell, Ends, CommandInv, Course
<1>2. \A o : AskedFor(o)' <=> AskedFor(o)
  BY <1>1 DEF Ends, AskedFor
<1>3. TwoFit'
  BY <1>1, <1>2 DEF Ends, TwoFit
<1>4. OutcomeTrue'
  BY <1>1, <1>3 DEF OutcomeTrue
<1> QED
  BY <1>1, <1>4, EndsKeep DEF Outcomes

LEMMA CreateKeeps ==
    ASSUME CommandInv, Create
    PROVE  CommandInv'
<1> USE DEF CommandInv
<1>1. /\ pc = "create" /\ outcome = ""
      /\ types' = [req |-> CanonicalType(types.req),
                   rep |-> CanonicalType(types.rep)]
      /\ UNCHANGED <<args, left, offers, listed, changes>>
      /\ \/ pc' = "end" /\ outcome' = "uncreated" /\ moments' = moments
         \/ pc' = "called" /\ outcome' = "" /\ moments' = {offers}
  BY DEF Create, Tell, CommandTypeOK
<1>2. /\ types' = [req |-> types'.req, rep |-> types'.rep]
      /\ types'.req = CanonicalType(types.req)
      /\ types'.rep = CanonicalType(types.rep)
      /\ DOMAIN types' = {"req", "rep"}
  BY <1>1
<1>3. CommandTypeOK'
  BY <1>1, <1>2 DEF CommandTypeOK, Outcomes
<1>4. OutcomeTrue' /\ Resolved'
  BY <1>1 DEF OutcomeTrue, Resolved
<1>5. Course'
  BY <1>1, <1>2 DEF Course
<1> QED
  BY <1>3, <1>4, <1>5

LEMMA ReplyKeeps ==
    ASSUME CommandInv, GetReply
    PROVE  CommandInv'
<1> USE DEF CommandInv
<1>1. Ends /\ outcome' \in {"done", "failed"}
  BY DEF GetReply, Tell, Ends
<1>2. PICK o \in offers : o.req = types.req /\ o.rep = types.rep
  BY DEF GetReply
<1>3. /\ types = [req |-> types.req, rep |-> types.rep]
      /\ Keeps(args.req, types.req) /\ Keeps(args.rep, types.rep)
      /\ offers \in moments
  BY DEF GetReply, Course
<1>4. Pair(o) = types
  BY <1>2, <1>3 DEF Pair
<1>5. AskedFor(o)
  <2>1. Means(args.req, o.req)
    BY <1>2, <1>3, Spellings DEF Keeps, Means
  <2>2. Means(args.rep, o.rep)
    BY <1>2, <1>3, Spellings DEF Keeps, Means
  <2> QED
    BY <2>1, <2>2 DEF AskedFor
<1>6. AskedFor(o)' <=> AskedFor(o)
  BY <1>1 DEF Ends, AskedFor
<1>7. OneFits'
  BY <1>1, <1>3, <1>4, <1>5, <1>6 DEF Ends, OneFits
<1>8. OutcomeTrue'
  BY <1>1, <1>7 DEF OutcomeTrue
<1> QED
  BY <1>1, <1>8, EndsKeep DEF Outcomes

LEMMA TimeOutKeeps ==
    ASSUME CommandInv, TimeOut
    PROVE  CommandInv'
<1>1. Ends /\ outcome' \in {"sent", "timedout"}
  BY DEF TimeOut, Tell, Ends, Unanswered
<1>2. OutcomeTrue'
  BY <1>1 DEF OutcomeTrue
<1> QED
  BY <1>1, <1>2, EndsKeep DEF Outcomes

LEMMA ChangeKeeps ==
    ASSUME CommandInv, NEW o \in Providers, Change(o)
    PROVE  CommandInv'
<1> USE DEF CommandInv
<1>1. /\ pc \notin {"start", "end"} /\ outcome = ""
      /\ offers' \subseteq Providers /\ moments' = moments \union {offers'}
      /\ changes < MaxChanges /\ changes' = changes + 1
      /\ UNCHANGED <<args, types, pc, left, listed, outcome>>
  BY DEF Change, CommandTypeOK
<1>2. changes' \in 0..MaxChanges
  <2>1. changes \in 0..MaxChanges /\ MaxChanges \in Nat
    BY CommandAssumption DEF CommandTypeOK
  <2>2. changes < MaxChanges /\ changes' = changes + 1
    BY <1>1
  <2> QED
    BY <2>1, <2>2
<1>3. CommandTypeOK'
  BY <1>1, <1>2 DEF CommandTypeOK
<1>4. \A p : AskedFor(p)' <=> AskedFor(p)
  BY <1>1 DEF AskedFor
<1>5. OutcomeTrue'
  BY <1>1 DEF OutcomeTrue
<1>6. Resolved'
  BY <1>1, <1>4 DEF Resolved
<1>7. TwoFit => TwoFit'
  BY <1>1, <1>4 DEF TwoFit
<1>8. Course'
  BY <1>1, <1>7 DEF Course
<1> QED
  BY <1>3, <1>5, <1>6, <1>8

LEMMA InitCommandInv == CommandInit => CommandInv
<1> SUFFICES ASSUME CommandInit
             PROVE  CommandInv
  OBVIOUS
<1>1. CommandTypeOK
  <2>1. changes \in 0..MaxChanges
    <3>1. MaxChanges \in Nat /\ changes = 0
      BY CommandAssumption DEF CommandInit
    <3> QED
      BY <3>1
  <2>2. DOMAIN types = {"req", "rep"}
    BY DEF CommandInit
  <2> QED
    BY <2>1, <2>2 DEF CommandInit, CommandTypeOK, Outcomes
<1>2. OutcomeTrue /\ Resolved /\ Course
  BY DEF CommandInit, OutcomeTrue, Resolved, Course
<1> QED
  BY <1>1, <1>2 DEF CommandInv

LEMMA NextCommandInv == CommandInv /\ [CommandNext]_commandVars => CommandInv'
<1> SUFFICES ASSUME CommandInv, [CommandNext]_commandVars
             PROVE  CommandInv'
  OBVIOUS
<1>1. CASE UNCHANGED commandVars
  <2>1. \A o : AskedFor(o)' <=> AskedFor(o)
    BY <1>1 DEF commandVars, AskedFor
  <2>2. CommandTypeOK'
    BY <1>1 DEF commandVars, CommandInv, CommandTypeOK
  <2>3. OutcomeTrue' /\ Resolved'
    BY <1>1, <2>1 DEF commandVars, CommandInv, OutcomeTrue, Resolved,
                      NobodyFits, OneFits, TwoFit, Throughout
  <2>4. Course'
    BY <1>1, <2>1 DEF commandVars, CommandInv, Course, TwoFit
  <2> QED
    BY <2>2, <2>3, <2>4 DEF CommandInv
<1> QED
  BY <1>1, StartKeeps, SleepKeeps, GiveUpKeeps, WaitForKeeps, ResolveKeeps,
     ListKeeps, CreateKeeps, ReplyKeeps, TimeOutKeeps, ChangeKeeps
     DEF CommandNext

\* What `gz service` tells its user agrees with one moment of its wait,
\* however providers come and go between the looks at discovery: each decision
\* is taken from one look (Node.cc:1211-1281, gz.cc:247-394).
THEOREM CommandCorrect == CommandSpec => []Truthful
<1>1. CommandInv => Truthful
  BY TruthfulParts DEF CommandInv
<1> QED
  BY <1>1, InitCommandInv, NextCommandInv, PTL DEF CommandSpec

-----------------------------------------------------------------------------
(***************************************************************************)
(* TopicCommands: `gz topic -p`, `-e` and `-f`.                            *)
(***************************************************************************)
\* The commands on topics.  Bounds and types.
TopicTypes ==
    /\ TopicTypeOK
    /\ tEvents \in 0..MaxTopicEvents /\ pipe <= tEvents
    /\ printed <= sent
    /\ caught \in Nat /\ count \in Nat
    /\ tPc = "start" => cmd = NoCommand
    /\ tPc # "start" => cmd \in Command

\* Nothing has happened before a command starts.
Fresh ==
    /\ connected = {}
    /\ sent = 0 /\ printed = 0 /\ count = 0 /\ timeV = <<>> /\ reports = {}
    /\ handlers = {} /\ pipe = -1 /\ caught = 0

BeforeStart == tPc = "start" => Fresh

TopicPcs == {"start", "wait", "publish", "flush", "running", "pipe",
             "install", "read", "leave", "end"}

LEMMA StartPc ==
    ASSUME NEW c \in Command, StartTopic(c)
    PROVE  tPc' \in {"wait", "running", "pipe", "end"}
<1>1. c.op \in {"pub", "echo", "hz"}
  BY TopicAssumption
<1> QED
  BY <1>1 DEF StartTopic

\* What the types are, step by step: the steps of the main thread, which
\* touch neither the messages nor the events.
Bounded ==
    /\ sent \in 0..MaxMessages /\ printed \in Nat /\ printed <= sent
    /\ count \in Nat /\ caught \in Nat
    /\ tEvents \in 0..MaxTopicEvents
    /\ pipe \in Int /\ -1 <= pipe /\ pipe <= tEvents
    /\ tLeft \in 0..Patience

Placed ==
    /\ tPc \in TopicPcs
    /\ tPc = "start" => cmd = NoCommand
    /\ tPc # "start" => cmd \in Command
    /\ connected \subseteq Peer /\ always \subseteq connected
    /\ handlers \subseteq Signal

LEMMA TypesAre == TopicTypes <=> Bounded /\ Placed
<1>1. MaxMessages \in Nat /\ MaxTopicEvents \in Nat
  BY TopicAssumption
<1>2. ASSUME TopicTypes
      PROVE  Bounded
  BY <1>1, <1>2 DEF TopicTypes, TopicTypeOK, Bounded
<1>3. ASSUME TopicTypes
      PROVE  Placed
  BY <1>3 DEF TopicTypes, TopicTypeOK, Placed, TopicPcs
<1>4. ASSUME Bounded, Placed
      PROVE  TopicTypes
  <2>1. printed \in 0..MaxMessages /\ pipe \in -1..MaxTopicEvents
    BY <1>1, <1>4 DEF Bounded
  <2> QED
    BY <1>4, <2>1 DEF TopicTypes, TopicTypeOK, Bounded, Placed, TopicPcs
<1> QED
  BY <1>2, <1>3, <1>4

LEMMA PlacedStep ==
    ASSUME Placed, TopicNext
    PROVE  Placed'
<1> USE DEF Placed, TopicPcs
<1>1. ASSUME NEW c \in Command, StartTopic(c)
      PROVE  Placed'
  <2>1. UNCHANGED <<connected, always, handlers>> /\ cmd' = c
    BY <1>1 DEF StartTopic, peerVars, signalVars
  <2> QED
    BY <1>1, <2>1, StartPc
<1>2. CASE TopicSleep \/ StopWaiting \/ Publish
  BY <1>2 DEF TopicSleep, StopWaiting, Publish, peerVars, signalVars
<1>3. ASSUME NEW p \in Peer, Connect(p)
      PROVE  Placed'
  BY <1>3 DEF Connect, signalVars
<1>4. CASE Callback
  BY <1>4 DEF Callback, peerVars, signalVars
<1>5. CASE Enough \/ MakePipe \/ Read \/ Leave
  BY <1>5 DEF Enough, MakePipe, Read, Leave, peerVars, signalVars
<1>6. ASSUME NEW s \in Signal, Install(s)
      PROVE  Placed'
  BY <1>6 DEF Install, peerVars
<1>7. ASSUME NEW s \in Signal, Signalled(s)
      PROVE  Placed'
  BY <1>7 DEF Signalled
<1> QED
  BY <1>1, <1>2, <1>3, <1>4, <1>5, <1>6, <1>7 DEF TopicNext

LEMMA BoundedStep ==
    ASSUME Bounded, TopicNext
    PROVE  Bounded'
<1>1. MaxMessages \in Nat /\ MaxTopicEvents \in Nat /\ Samples \in Nat
      /\ Patience \in Nat
  BY TopicAssumption
<1> USE DEF Bounded
<1>2. ASSUME UNCHANGED <<callbackVars, tEvents, pipe, caught, tLeft>>
      PROVE  Bounded'
  BY <1>2 DEF callbackVars
<1>3. ASSUME NEW c \in Command, StartTopic(c)
      PROVE  Bounded'
  BY <1>2, <1>3 DEF StartTopic, peerVars, signalVars
<1>4. CASE TopicSleep
  <2>1. /\ UNCHANGED <<sent, printed, count, tEvents, pipe, caught>>
        /\ tLeft' \in 0..(tLeft - 1)
    BY <1>4 DEF TopicSleep, peerVars, signalVars, callbackVars
  <2> QED
    BY <1>1, <2>1
<1>5. CASE StopWaiting \/ Publish \/ Enough \/ Leave
  BY <1>2, <1>5 DEF StopWaiting, Publish, Enough, Leave, peerVars, signalVars
<1>6. ASSUME NEW p \in Peer, Connect(p)
      PROVE  Bounded'
  <2>1. /\ UNCHANGED <<sent, printed, count, pipe, caught, tLeft>>
        /\ tEvents < MaxTopicEvents /\ tEvents' = tEvents + 1
    BY <1>6 DEF Connect, signalVars, callbackVars
  <2> QED
    BY <1>1, <2>1
<1>7. CASE Callback
  <2>1. /\ UNCHANGED <<tEvents, pipe, caught, tLeft>>
        /\ sent < MaxMessages /\ sent' = sent + 1
    BY <1>7 DEF Callback, peerVars, signalVars
  <2>2. /\ printed' \in {printed, printed + 1}
        /\ count' \in Nat
    BY <1>7 DEF Callback, Echo, Frequency
  <2> QED
    BY <1>1, <2>1, <2>2
<1>8. CASE MakePipe \/ Read
  <2>1. /\ UNCHANGED <<sent, printed, count, tEvents, caught, tLeft>>
        /\ \/ pipe' \in {0, pipe}
           \/ pipe > 0 /\ pipe' = pipe - 1
    BY <1>8 DEF MakePipe, Read, callbackVars, peerVars
  <2> QED
    BY <1>1, <2>1
<1>9. ASSUME NEW s \in Signal, Install(s)
      PROVE  Bounded'
  BY <1>2, <1>9 DEF Install, peerVars
<1>10. ASSUME NEW s \in Signal, Signalled(s)
       PROVE  Bounded'
  <2>1. /\ UNCHANGED <<sent, printed, count, tLeft>>
        /\ tEvents < MaxTopicEvents /\ tEvents' = tEvents + 1
        /\ pipe' \in {pipe, pipe + 1}
        /\ caught' \in {caught, caught + 1}
    BY <1>10 DEF Signalled, callbackVars
  <2> QED
    BY <1>1, <2>1
<1> QED
  BY <1>3, <1>4, <1>5, <1>6, <1>7, <1>8, <1>9, <1>10 DEF TopicNext

LEMMA BeforeStartStep ==
    ASSUME TopicNext
    PROVE  tPc' # "start"
<1>1. ASSUME NEW c \in Command, StartTopic(c)
      PROVE  tPc' # "start"
  BY <1>1, StartPc
<1> QED
  BY <1>1 DEF TopicNext, TopicSleep, StopWaiting, Publish, Connect, Callback,
     Subscribed, Enough, MakePipe, Read, Leave, Install, Signalled

LEMMA BeforeStartNext == BeforeStart /\ TopicNext => BeforeStart'
BY BeforeStartStep DEF BeforeStart

-----------------------------------------------------------------------------
\* Publishing: whom the publisher has been told of.
Heard ==
    /\ connected # {} => tEvents >= 1
    /\ tPc = "publish" => tLeft = 0 \/ connected # {} \/ tEvents > 1
    /\ tPc = "flush" => always \subseteq heard
    /\ tPc = "flush" /\ heard = {} => tLeft = 0 \/ tEvents > 1

LEMMA HeardStep ==
    ASSUME Bounded, Placed, Heard, TopicNext
    PROVE  Heard'
<1> USE DEF Heard
<1>1. ASSUME NEW c \in Command, StartTopic(c)
      PROVE  Heard'
  <2>1. tPc' \in {"wait", "running", "pipe", "end"}
    BY <1>1, StartPc
  <2>2. UNCHANGED <<connected, tEvents>>
    BY <1>1 DEF StartTopic, peerVars
  <2> QED
    BY <2>1, <2>2
<1>2. CASE TopicSleep
  BY <1>2 DEF TopicSleep, peerVars
<1>3. CASE StopWaiting
  BY <1>3 DEF StopWaiting, peerVars
<1>4. CASE Publish
  BY <1>4 DEF Publish, Placed
<1>5. ASSUME NEW p \in Peer, Connect(p)
      PROVE  Heard'
  <2>1. /\ tPc' = tPc /\ tLeft' = tLeft /\ heard' = heard
        /\ tEvents' = tEvents + 1 /\ tEvents \in Nat
        /\ tPc = "flush" => always' \subseteq always
    BY <1>5 DEF Connect, Bounded
  <2>2. tEvents' >= 1 /\ (tEvents > 1 => tEvents' > 1)
    BY <2>1
  <2>3. connected' = {} => tEvents' > 1
    <3>1. connected' = {} => connected # {}
      BY <1>5 DEF Connect
    <3>2. connected' = {} => tEvents >= 1
      BY <3>1
    <3> QED
      BY <2>1, <3>2
  <2> QED
    BY <2>1, <2>2, <2>3
<1>6. CASE Callback \/ Enough \/ MakePipe \/ Read \/ Leave
  <2>1. /\ UNCHANGED <<connected, always, heard, tEvents, tLeft>>
        /\ tPc' \in {tPc, "install", "leave", "end"}
    BY <1>6 DEF Callback, Enough, MakePipe, Read, Leave, peerVars
  <2> QED
    BY <2>1
<1>7. ASSUME NEW s \in Signal, Install(s)
      PROVE  Heard'
  BY <1>7 DEF Install, peerVars
<1>8. ASSUME NEW s \in Signal, Signalled(s)
      PROVE  Heard'
  <2>1. /\ UNCHANGED <<connected, always, heard, tLeft>>
        /\ tEvents' = tEvents + 1 /\ tEvents \in Nat
        /\ tPc' \in {tPc, "end"}
    BY <1>8 DEF Signalled, Bounded
  <2>2. /\ tEvents >= 1 => tEvents' >= 1
        /\ tEvents > 1 => tEvents' > 1
    BY <2>1
  <2> QED
    BY <2>1, <2>2
<1> QED
  BY <1>1, <1>2, <1>3, <1>4, <1>5, <1>6, <1>7, <1>8 DEF TopicNext

-----------------------------------------------------------------------------
\* Echo.  A command with a number of messages waits for them.
Counting ==
    cmd.op = "echo" /\ cmd.valid /\ ~cmd.duration /\ cmd.count > 0

Echoed ==
    /\ cmd.op = "echo" => count = printed
    /\ Counting => tPc \in {"running", "leave", "end"}
    /\ Counting /\ tPc \in {"leave", "end"} /\ ~killed => printed >= cmd.count

LEMMA EchoedStep ==
    ASSUME Bounded, Placed, BeforeStart, Echoed, TopicNext
    PROVE  Echoed'
<1> USE DEF Echoed
<1>1. ASSUME NEW c \in Command, StartTopic(c)
      PROVE  Echoed'
  <2>1. cmd' = c /\ UNCHANGED <<count, printed>> /\ count = 0 /\ printed = 0
    BY <1>1 DEF StartTopic, callbackVars, BeforeStart, Fresh
  <2>2. Counting' => tPc' = "running"
    BY <1>1, <2>1 DEF StartTopic, Counting
  <2> QED
    BY <2>1, <2>2
<1>2. ASSUME UNCHANGED <<cmd, count, printed, killed>>,
             \/ tPc' = tPc
             \/ tPc \notin {"running", "leave", "end"}
             \/ tPc = "leave" /\ tPc' = "end"
      PROVE  Echoed'
  <2>1. Counting' <=> Counting
    BY <1>2 DEF Counting
  <2> QED
    BY <1>2, <2>1
<1>3. CASE TopicSleep \/ StopWaiting \/ Publish
  <2>1. /\ UNCHANGED <<cmd, count, printed, killed>>
        /\ tPc \in {"wait", "publish"}
    BY <1>3 DEF TopicSleep, StopWaiting, Publish, callbackVars, signalVars
  <2> QED
    BY <1>2, <2>1
<1>4. ASSUME NEW p \in Peer, Connect(p)
      PROVE  Echoed'
  <2>1. UNCHANGED <<cmd, count, printed, killed>> /\ tPc' = tPc
    BY <1>4 DEF Connect, callbackVars, signalVars
  <2> QED
    BY <1>2, <2>1
<1>5. CASE Callback
  <2>1. UNCHANGED <<cmd, tPc, killed>>
    BY <1>5 DEF Callback, signalVars
  <2>2. CASE cmd.op = "echo"
    <3>1. printed' = printed + 1 /\ count' = count + 1
      BY <1>5, <2>2 DEF Callback, Echo, Frequency
    <3>2. printed \in Int /\ count \in Int
      BY DEF Bounded
    <3>3. Counting' <=> Counting
      BY <2>1 DEF Counting
    <3>4. Counting => cmd.count \in Int
      <4>1. Counting => tPc # "start"
        OBVIOUS
      <4>2. Counting => cmd \in Command
        BY <4>1 DEF Placed
      <4> QED
        BY <4>2, TopicAssumption
    <3>5. count' = printed'
      BY <2>2, <3>1, <3>2
    <3>6. Counting /\ tPc \in {"leave", "end"} /\ ~killed =>
              printed' >= cmd.count
      BY <3>1, <3>2, <3>4
    <3> QED
      BY <2>1, <3>3, <3>5, <3>6
  <2>3. CASE cmd.op # "echo"
    BY <2>1, <2>3 DEF Counting
  <2> QED
    BY <2>2, <2>3
<1>6. CASE Enough
  BY <1>6 DEF Enough, Counting, callbackVars, signalVars
<1>7. CASE MakePipe \/ Read \/ Leave
  <2>1. UNCHANGED <<cmd, count, printed, killed>>
    BY <1>7 DEF MakePipe, Read, Leave, callbackVars, signalVars
  <2>2. \/ tPc \in {"pipe", "read", "flush"}
        \/ tPc = "leave" /\ tPc' = "end"
    BY <1>7 DEF MakePipe, Read, Leave
  <2> QED
    BY <1>2, <2>1, <2>2
<1>8. ASSUME NEW s \in Signal, Install(s)
      PROVE  Echoed'
  <2>1. UNCHANGED <<cmd, count, printed, killed>> /\ tPc = "install"
    BY <1>8 DEF Install, callbackVars
  <2> QED
    BY <1>2, <2>1
<1>9. ASSUME NEW s \in Signal, Signalled(s)
      PROVE  Echoed'
  <2>1. UNCHANGED <<cmd, count, printed>>
    BY <1>9 DEF Signalled, callbackVars
  <2>2. \/ tPc' = tPc /\ killed' = killed
        \/ killed' = TRUE /\ tPc' = "end"
    BY <1>9 DEF Signalled
  <2>3. Counting' <=> Counting
    BY <2>1 DEF Counting
  <2> QED
    BY <2>1, <2>2, <2>3
<1> QED
  BY <1>1, <1>3, <1>4, <1>5, <1>6, <1>7, <1>8, <1>9 DEF TopicNext

-----------------------------------------------------------------------------
\* Signals: each one that was caught left a byte in the pipe.
Caught ==
    /\ tPc \notin {"install", "read", "leave", "end"} =>
           handlers = {} /\ caught = 0
    /\ tPc \in {"install", "read"} => pipe >= caught /\ pipe >= 0

LEMMA CaughtStep ==
    ASSUME Bounded, BeforeStart, Caught, TopicNext
    PROVE  Caught'
<1> USE DEF Caught
<1>1. ASSUME UNCHANGED <<handlers, caught, pipe>>,
             \/ tPc' = tPc
             \/ tPc' \in {"leave", "end"}
             \/ tPc \notin {"install", "read", "leave", "end"}
                  /\ tPc' \notin {"install", "read"}
             \/ {tPc, tPc'} \subseteq {"install", "read"}
      PROVE  Caught'
  BY <1>1
<1>2. ASSUME NEW c \in Command, StartTopic(c)
      PROVE  Caught'
  <2>1. /\ UNCHANGED <<handlers, caught, pipe>> /\ tPc = "start"
        /\ tPc' \in {"wait", "running", "pipe", "end"}
    BY <1>2, StartPc DEF StartTopic, signalVars
  <2> QED
    BY <1>1, <2>1
<1>3. CASE TopicSleep \/ StopWaiting \/ Publish
  BY <1>1, <1>3 DEF TopicSleep, StopWaiting, Publish, signalVars
<1>4. ASSUME NEW p \in Peer, Connect(p)
      PROVE  Caught'
  BY <1>1, <1>4 DEF Connect, signalVars
<1>5. CASE Callback \/ Enough \/ Leave
  BY <1>1, <1>5 DEF Callback, Enough, Leave, signalVars
<1>6. CASE MakePipe
  BY <1>6 DEF MakePipe
<1>7. CASE Read
  BY <1>7 DEF Read
<1>8. ASSUME NEW s \in Signal, Install(s)
      PROVE  Caught'
  <2>1. /\ UNCHANGED <<caught, pipe>> /\ tPc = "install"
        /\ tPc' \in {"install", "read"}
    BY <1>8 DEF Install
  <2> QED
    BY <2>1
<1>9. ASSUME NEW s \in Signal, Signalled(s)
      PROVE  Caught'
  <2>1. CASE s \in handlers
    <3>1. /\ tPc' = tPc /\ handlers' = handlers /\ caught' = caught + 1
          /\ pipe' = IF pipe < 0 THEN pipe ELSE pipe + 1
      BY <1>9, <2>1 DEF Signalled
    <3>2. tPc \in {"install", "read", "leave", "end"}
      BY <2>1
    <3>3. pipe \in Int /\ caught \in Nat
      BY DEF Bounded
    <3>4. tPc \in {"install", "read"} => pipe' >= caught' /\ pipe' >= 0
      BY <3>1, <3>3
    <3> QED
      BY <3>1, <3>2, <3>4
  <2>2. CASE s \notin handlers
    BY <1>9, <2>2 DEF Signalled
  <2> QED
    BY <2>1, <2>2
<1> QED
  BY <1>2, <1>3, <1>4, <1>5, <1>6, <1>7, <1>8, <1>9 DEF TopicNext

-----------------------------------------------------------------------------
\* Measuring: the messages of the window that is open, and the windows.
Open == IF count <= Samples THEN count ELSE 0

Stamped ==
    /\ timeV \in Seq(Int) /\ Len(timeV) = count
    /\ \A i \in 1..count : timeV[i] = sent - count + i

Window(r) ==
    /\ r \in Seq(Int) /\ Len(r) = Samples
    /\ \A i \in 1..Samples : r[i] <= sent - Open
    /\ \A i \in 1..(Samples - 1) : r[i + 1] = r[i] + 1

Apart(r, q) == \A i, j \in 1..Samples : r[i] # q[j]

Windows ==
    /\ count \in 0..(Samples + 1)
    /\ count <= Samples => Stamped
    /\ IsFiniteSet(reports)
    /\ sent = (Samples + 1) * Cardinality(reports) + Open
    /\ \A r \in reports : Window(r)
    /\ \A r, q \in reports : r # q => Apart(r, q)

Measured ==
    /\ cmd.op # "hz" => reports = {}
    /\ cmd.op = "hz" => Windows

\* A message that is no full window's.
LEMMA StampKeeps ==
    ASSUME Bounded, Windows, count # Samples, Frequency, sent' = sent + 1
    PROVE  Windows'
<1>1. Samples \in Nat \ {0} /\ count \in 0..(Samples + 1) /\ sent \in Nat
  BY TopicAssumption DEF Bounded, Windows
<1>2. PICK n \in 0..(Samples - 1) :
          /\ n = Open /\ count' = n + 1
          /\ timeV' = Append(IF n = 0 THEN <<>> ELSE timeV, sent + 1)
          /\ reports' = reports
  <2>1. CASE count > Samples \/ count = 0
    <3>1. /\ timeV' = Append(<<>>, sent + 1) /\ count' = 1
          /\ reports' = reports
      <4>1. /\ timeV' = IF 0 < Samples THEN Append(<<>>, sent + 1) ELSE <<>>
            /\ reports' = IF 0 = Samples THEN reports \union {<<>>}
                                         ELSE reports
            /\ count' = 0 + 1
        BY <2>1 DEF Frequency
      <4>2. 0 < Samples /\ 0 # Samples /\ 0 + 1 = 1
        BY <1>1
      <4> QED
        BY <4>1, <4>2
    <3>2. Open = 0
      BY <1>1, <2>1 DEF Open
    <3> QED
      BY <1>1, <3>1, <3>2
  <2>2. CASE ~(count > Samples \/ count = 0)
    <3>1. count \in 1..(Samples - 1) /\ Open = count
      BY <1>1, <2>2 DEF Open
    <3>2. /\ timeV' = Append(timeV, sent + 1) /\ count' = count + 1
          /\ reports' = reports
      BY <1>1, <2>2, <3>1 DEF Frequency
    <3> QED
      BY <1>1, <3>1, <3>2
  <2> QED
    BY <2>1, <2>2
<1>3. Open' = Open + 1 /\ sent' - Open' = sent - Open
  BY <1>1, <1>2 DEF Open
<1>4. Stamped'
  <2>1. CASE n = 0
    BY <1>1, <1>2, <2>1 DEF Stamped
  <2>2. CASE n # 0
    <3>1. n = count /\ Stamped
      BY <1>1, <1>2, <2>2 DEF Windows, Open
    <3>2. timeV' = Append(timeV, sent + 1) /\ count' = count + 1
      BY <1>2, <2>2, <3>1
    <3>3. /\ timeV' \in Seq(Int) /\ Len(timeV') = count + 1
          /\ \A i \in 1..count : timeV'[i] = timeV[i]
          /\ timeV'[count + 1] = sent + 1
      BY <1>1, <3>1, <3>2 DEF Stamped
    <3>4. ASSUME NEW i \in 1..(count + 1)
          PROVE  timeV'[i] = sent' - (count + 1) + i
      <4>1. CASE i = count + 1
        BY <1>1, <3>3, <4>1
      <4>2. CASE i # count + 1
        <5>1. i \in 1..count
          BY <1>1, <4>2
        <5>2. timeV'[i] = sent - count + i
          BY <3>1, <3>3, <5>1 DEF Stamped
        <5> QED
          BY <1>1, <5>1, <5>2
      <4> QED
        BY <4>1, <4>2
    <3> QED
      BY <3>2, <3>3, <3>4 DEF Stamped
  <2> QED
    BY <2>1, <2>2
<1>5. \A r : Window(r) => Window(r)'
  BY <1>3 DEF Window
<1>6. sent' = (Samples + 1) * Cardinality(reports) + Open'
  <2>1. /\ sent = (Samples + 1) * Cardinality(reports) + Open
        /\ Cardinality(reports) \in Nat
    BY FS_CardinalityType DEF Windows
  <2>2. Open \in Nat
    BY <1>2
  <2> QED
    BY <1>1, <1>3, <2>1, <2>2
<1>7. count' \in 0..(Samples + 1)
  BY <1>1, <1>2
<1> QED
  BY <1>2, <1>4, <1>5, <1>6, <1>7 DEF Windows, Apart

\* The message after a full window.
LEMMA ReportKeeps ==
    ASSUME Bounded, Windows, count = Samples, Frequency, sent' = sent + 1
    PROVE  Windows'
<1>1. Samples \in Nat \ {0} /\ sent \in Nat
  BY TopicAssumption DEF Bounded
<1>2. /\ reports' = reports \union {timeV}
      /\ count' = Samples + 1
  BY <1>1 DEF Frequency
<1>3. Open = Samples /\ Open' = 0
  BY <1>1, <1>2 DEF Open
<1>4. /\ timeV \in Seq(Int) /\ Len(timeV) = Samples
      /\ \A i \in 1..Samples : timeV[i] = sent - Samples + i
  BY <1>1 DEF Windows, Stamped
<1>5. ASSUME NEW r \in reports
      PROVE  /\ Window(r)'
             /\ Apart(r, timeV)
  <2>1. /\ r \in Seq(Int) /\ Len(r) = Samples
        /\ \A i \in 1..Samples : r[i] <= sent - Samples
        /\ \A i \in 1..(Samples - 1) : r[i + 1] = r[i] + 1
    BY <1>3 DEF Windows, Window
  <2>2. \A i \in 1..Samples : r[i] \in Int
    BY <1>1, <2>1
  <2>3. \A i \in 1..Samples : r[i] <= sent' - Open'
    BY <1>1, <1>3, <2>1, <2>2
  <2>4. Window(r)'
    BY <2>1, <2>3 DEF Window
  <2>5. Apart(r, timeV)
    BY <1>1, <1>4, <2>1, <2>2 DEF Apart
  <2> QED
    BY <2>4, <2>5
<1>6. \A r : r = timeV => Window(r)'
  <2>1. \A i \in 1..Samples : timeV[i] <= sent' - Open'
    BY <1>1, <1>3, <1>4
  <2>2. \A i \in 1..(Samples - 1) : timeV[i + 1] = timeV[i] + 1
    BY <1>1, <1>4
  <2> QED
    BY <1>4, <2>1, <2>2 DEF Window
<1>7. timeV \notin reports
  <2>1. ~Apart(timeV, timeV)
    BY <1>1 DEF Apart
  <2> QED
    BY <1>5, <2>1
<1>8. /\ IsFiniteSet(reports')
      /\ Cardinality(reports') = Cardinality(reports) + 1
  BY <1>2, <1>7, FS_AddElement DEF Windows
<1>9. sent' = (Samples + 1) * Cardinality(reports') + Open'
  <2>1. /\ sent = (Samples + 1) * Cardinality(reports) + Samples
        /\ Cardinality(reports) \in Nat
    BY <1>3, FS_CardinalityType DEF Windows
  <2> QED
    BY <1>1, <1>3, <1>8, <2>1
<1>10. \A r, q \in reports' : r # q => Apart(r, q)
  <2>1. \A r \in reports : Apart(r, timeV) /\ Apart(timeV, r)
    BY <1>5 DEF Apart
  <2> QED
    BY <1>2, <2>1 DEF Windows
<1> QED
  BY <1>1, <1>2, <1>5, <1>6, <1>8, <1>9, <1>10 DEF Windows, Apart

LEMMA MeasuredStep ==
    ASSUME Bounded, Placed, BeforeStart, Measured, TopicNext
    PROVE  Measured'
<1>1. ASSUME UNCHANGED <<cmd, callbackVars>>
      PROVE  Measured'
  BY <1>1 DEF Measured, callbackVars, Windows, Stamped, Open, Window, Apart
<1>2. ASSUME NEW c \in Command, StartTopic(c)
      PROVE  Measured'
  <2>1. /\ sent = 0 /\ count = 0 /\ timeV = <<>> /\ reports = {}
        /\ UNCHANGED <<sent, count, timeV, reports>>
    BY <1>2 DEF StartTopic, callbackVars, BeforeStart, Fresh
  <2>2. Samples \in Nat \ {0}
    BY TopicAssumption
  <2>3. IsFiniteSet(reports) /\ Cardinality(reports) = 0
    BY <2>1, FS_EmptySet
  <2>4. Open = 0
    BY <2>1, <2>2 DEF Open
  <2>5. sent = (Samples + 1) * Cardinality(reports) + Open
    BY <2>1, <2>2, <2>3, <2>4
  <2>6. Stamped
    BY <2>1 DEF Stamped
  <2>7. Windows
    BY <2>1, <2>2, <2>3, <2>5, <2>6 DEF Windows
  <2>8. Windows'
    BY <2>1, <2>7 DEF Windows, Stamped, Open, Window, Apart
  <2> QED
    BY <2>1, <2>8 DEF Measured
<1>3. CASE Callback
  <2>1. cmd' = cmd /\ sent' = sent + 1
    BY <1>3 DEF Callback
  <2>2. CASE cmd.op = "hz"
    <3>1. Frequency
      BY <1>3, <2>2 DEF Callback, Echo
    <3> QED
      BY <2>1, <2>2, <3>1, StampKeeps, ReportKeeps DEF Measured
  <2>3. CASE cmd.op # "hz"
    <3>1. reports' = reports
      BY <1>3, <2>3 DEF Callback, Echo, Frequency
    <3> QED
      BY <2>1, <2>3, <3>1 DEF Measured
  <2> QED
    BY <2>2, <2>3
<1>4. CASE TopicSleep \/ StopWaiting \/ Publish
  BY <1>1, <1>4 DEF TopicSleep, StopWaiting, Publish
<1>5. ASSUME NEW p \in Peer, Connect(p)
      PROVE  Measured'
  BY <1>1, <1>5 DEF Connect
<1>6. CASE Enough \/ MakePipe \/ Read \/ Leave
  BY <1>1, <1>6 DEF Enough, MakePipe, Read, Leave
<1>7. ASSUME NEW s \in Signal, Install(s) \/ Signalled(s)
      PROVE  Measured'
  BY <1>1, <1>7 DEF Install, Signalled
<1> QED
  BY <1>2, <1>3, <1>4, <1>5, <1>6, <1>7 DEF TopicNext

-----------------------------------------------------------------------------
TopicInv ==
    /\ Bounded /\ Placed /\ BeforeStart
    /\ Heard /\ Echoed /\ Caught /\ Measured

LEMMA InitTopicInv == TopicInit => TopicInv
<1> SUFFICES ASSUME TopicInit
             PROVE  TopicInv
  OBVIOUS
<1>1. Bounded
  <2>1. MaxMessages \in Nat /\ MaxTopicEvents \in Nat /\ Patience \in Nat
    BY TopicAssumption
  <2> QED
    BY <2>1 DEF TopicInit, Bounded
<1>2. Placed
  BY DEF TopicInit, Placed, TopicPcs
<1>3. BeforeStart /\ Heard
  BY DEF TopicInit, BeforeStart, Fresh, Heard
<1>4. Echoed /\ Caught
  BY DEF TopicInit, Echoed, Caught, Counting, NoCommand
<1>5. Measured
  BY DEF TopicInit, Measured, NoCommand
<1> QED
  BY <1>1, <1>2, <1>3, <1>4, <1>5 DEF TopicInv

LEMMA NextTopicInv == TopicInv /\ [TopicNext]_topicVars => TopicInv'
<1> SUFFICES ASSUME TopicInv, [TopicNext]_topicVars
             PROVE  TopicInv'
  OBVIOUS
<1>1. CASE UNCHANGED topicVars
  <2>1. Bounded' /\ Placed'
    BY <1>1 DEF topicVars, TopicInv, Bounded, Placed
  <2>2. BeforeStart' /\ Heard'
    BY <1>1 DEF topicVars, TopicInv, BeforeStart, Fresh, Heard
  <2>3. Echoed' /\ Caught'
    BY <1>1 DEF topicVars, TopicInv, Echoed, Caught, Counting
  <2>4. Measured'
    BY <1>1 DEF topicVars, TopicInv, Measured, Windows, Stamped, Open,
                Window, Apart
  <2> QED
    BY <2>1, <2>2, <2>3, <2>4 DEF TopicInv
<1>2. CASE TopicNext
  BY <1>2, BoundedStep, PlacedStep, BeforeStartNext, HeardStep, EchoedStep,
     CaughtStep, MeasuredStep DEF TopicInv
<1> QED
  BY <1>1, <1>2

LEMMA Division ==
    ASSUME NEW k \in Nat \ {0}, NEW q \in Nat, NEW r \in 0..(k - 1)
    PROVE  (k * q + r) \div k = q
BY SMTT(60)

LEMMA Served == TopicInv => CommandsServe
<1> SUFFICES ASSUME TopicInv
             PROVE  CommandsServe
  OBVIOUS
<1>1. TopicTypeOK
  BY TypesAre DEF TopicInv, TopicTypes
<1>2. /\ tPc = "flush" => always \subseteq heard
      /\ tPc = "flush" /\ heard = {} => tLeft = 0 \/ tEvents > 1
  BY DEF TopicInv, Heard
<1>3. tPc \in {"leave", "end"} /\ cmd.op = "echo" /\ cmd.valid
          /\ ~cmd.duration /\ cmd.count > 0 /\ ~killed =>
              printed >= cmd.count
  BY DEF TopicInv, Echoed, Counting
<1>4. reports # {} => Windows
  BY DEF TopicInv, Measured
<1>5. Samples \in Nat \ {0}
  BY TopicAssumption
<1>6. ASSUME NEW r \in reports
      PROVE  /\ Len(r) = Samples
             /\ \A i \in 1..(Len(r) - 1) : r[i + 1] = r[i] + 1
             /\ DOMAIN r = 1..Samples
  <2>1. r \in Seq(Int) /\ Len(r) = Samples
    BY <1>4 DEF Windows, Window
  <2>2. \A i \in 1..(Samples - 1) : r[i + 1] = r[i] + 1
    BY <1>4 DEF Windows, Window
  <2> QED
    BY <2>1, <2>2
<1>7. ASSUME NEW r \in reports, NEW q \in reports, r # q
      PROVE  {r[i] : i \in DOMAIN r} \intersect {q[i] : i \in DOMAIN q} = {}
  <2>1. Apart(r, q)
    BY <1>4, <1>7 DEF Windows
  <2>2. DOMAIN r = 1..Samples /\ DOMAIN q = 1..Samples
    BY <1>6
  <2> QED
    BY <2>1, <2>2 DEF Apart
<1>8. ASSUME cmd.op = "hz"
      PROVE  Cardinality(reports) = sent \div (Samples + 1)
  <2>1. Windows
    BY <1>8 DEF TopicInv, Measured
  <2>2. /\ sent = (Samples + 1) * Cardinality(reports) + Open
        /\ Cardinality(reports) \in Nat /\ count \in Nat
    BY <2>1, FS_CardinalityType DEF Windows, TopicInv, Bounded
  <2>3. Open \in 0..((Samples + 1) - 1) /\ Samples + 1 \in Nat \ {0}
    BY <1>5, <2>2 DEF Open
  <2> QED
    BY <2>2, <2>3, Division
<1>9. caught > 0 /\ tPc \in {"install", "read"} => pipe > 0
  <2>1. caught \in Nat /\ pipe \in Int
    BY DEF TopicInv, Bounded
  <2>2. tPc \in {"install", "read"} => pipe >= caught
    BY DEF TopicInv, Caught
  <2> QED
    BY <2>1, <2>2
<1> QED
  BY <1>1, <1>2, <1>3, <1>6, <1>7, <1>8, <1>9 DEF CommandsServe

\* The commands on topics publish to whoever ended the wait and stayed, echo
\* the number of messages asked for, report each full window of messages once
\* and end on a signal they caught, in any order of the main thread, the
\* callbacks and the signals (gz.cc:138-193, 402-551, WaitHelpers.cc:66-108).
THEOREM TopicsCorrect == TopicSpec => []CommandsServe
<1> QED
  BY InitTopicInv, NextTopicInv, Served, PTL DEF TopicSpec

-----------------------------------------------------------------------------
\* Users of the registry's services, of `gz service` and of `gz topic` are told
\* what was so, together: the three share no state, so what each of them keeps
\* holds whatever the others do (Client.cc:71-252, Registry.cc:120-359,
\* Node.cc:1211-1281, gz.cc:138-551).
THEOREM UsersToldRight == ToolsSpec => []ToldRight
<1> QED
  BY ParamsCorrect, CommandCorrect, TopicsCorrect, PTL
     DEF ToolsSpec, ToldRight
=============================================================================
