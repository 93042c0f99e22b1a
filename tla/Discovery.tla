------------------------------ MODULE Discovery ------------------------------
(***************************************************************************)
(* Discovery<Pub> (src/src/Discovery.hh): how processes learn over UDP     *)
(* multicast which publishers the other processes have.                    *)
(*                                                                         *)
(* Every process runs one reception thread (RecvMessages) and its users    *)
(* call Advertise, Unadvertise, Discover, TopicList and the destructor.    *)
(* The class never sends a message nor runs a callback while it holds its  *)
(* mutex, so each operation is cut where the mutex is released: the part   *)
(* under the lock is one action, the sends or the callback that follow are *)
(* later ones, and everything else may happen in between.                  *)
(*                                                                         *)
(* The network is a set of datagrams, one per receiver: it reorders them,  *)
(* a full socket buffer drops them, and at most MaxFaults times one is     *)
(* lost or delivered twice.  Time is abstracted: a heartbeat may be due,   *)
(* and a process found silent, at any iteration of the loop.               *)
(***************************************************************************)
EXTENDS Publishers, Naturals, FiniteSets

CONSTANTS
    Proc,          \* processes; a process that restarts has a new UUID
    Host,          \* machines
    HostOf,        \* the machine of each process
    Topic,
    Node,          \* node UUIDs
    Advertisable,  \* what users may advertise (bound of the instance)
    Subscribable,  \* what users may subscribe to (bound of the instance)
    Listers,       \* processes whose users call TopicList (same)
    SocketBuffer,  \* datagrams a socket holds; more are dropped by the kernel
    InitBeats,     \* heartbeats WaitForInit waits for, 3 in the code
    MaxFaults      \* bound on other lost and on duplicated datagrams

Scope == {"PROCESS", "HOST", "ALL"}

\* A process has one endpoint, so its address is named by the process.
Publisher ==
    [topic : Topic, addr : Proc, pUuid : Proc, nUuid : Node, scope : Scope]

ASSUME HostOfAssumption == HostOf \in [Proc -> Host]

ASSUME UsersAssumption ==
    /\ Advertisable \subseteq Publisher
    /\ Subscribable \subseteq Publisher
    /\ Listers \subseteq Proc

ASSUME BoundsAssumption ==
    /\ MaxFaults \in Nat
    /\ SocketBuffer \in Nat
    /\ InitBeats \in Nat

VARIABLES
    status,             \* life of each process
    info,               \* Discovery::info
    remoteSubscribers,  \* Discovery::remoteSubscribers
    activity,           \* keys of Discovery::activity
    beats,              \* Discovery::numHeartbeatsUninitialized
    recv,               \* where the reception thread is
    call,               \* where the user's thread is
    told,               \* publishers the callbacks presented as connected
    subs,               \* local subscriptions of the client, NodeShared
    net,                \* datagrams in flight
    faults              \* datagrams lost or duplicated so far

discVars == <<info, remoteSubscribers, activity, beats>>
vars == <<status, discVars, recv, call, told, subs, net, faults>>

(***************************************************************************)
(* Datagrams.  process_uuid is the field "from"; a process discards its    *)
(* own datagrams, so none is addressed to its sender.                      *)
(***************************************************************************)
PubType == {"ADVERTISE", "UNADVERTISE", "NEW_CONNECTION", "END_CONNECTION",
            "SUBSCRIBERS_REP"}
BareType == {"HEARTBEAT", "BYE", "SUBSCRIBERS_REQ"}

Message ==
    [to : Proc, from : Proc, type : PubType, pub : Publisher]
        \union [to : Proc, from : Proc, type : {"SUBSCRIBE"}, topic : Topic]
        \union [to : Proc, from : Proc, type : BareType]

Running == {"up", "exiting"}
Listening(p) == status[p] \in Running

\* Multicast reaches the processes that have joined the group.
Peers(p) == {q \in Proc \ {p} : Listening(q)}

\* A datagram sent to a full socket is dropped.
Put(inFlight, sent) ==
    inFlight \union
        {m \in sent : Cardinality({x \in inFlight : x.to = m.to}) < SocketBuffer}

PubMsgs(p, type, pub) ==
    {[to |-> q, from |-> p, type |-> type, pub |-> pub] : q \in Peers(p)}
SubscribeMsgs(p, topic) ==
    {[to |-> q, from |-> p, type |-> "SUBSCRIBE", topic |-> topic] :
        q \in Peers(p)}
BareMsgs(p, type) ==
    {[to |-> q, from |-> p, type |-> type] : q \in Peers(p)}

\* Mutant: the machine of the sender is not compared.
InScopeAnyMachine(q, from, pub) == pub.scope # "PROCESS"

\* The receiver's scope check: PROCESS never, HOST only from its own machine.
InScope(q, from, pub) ==
    /\ pub.scope # "PROCESS"
    /\ pub.scope = "HOST" => HostOf[from] = HostOf[q]

(***************************************************************************)
(* Program counters of the two threads of a process.                       *)
(***************************************************************************)
Poll == [op |-> "poll"]
RecvState ==
    {Poll}
        \union [op : {"beat"}, pubs : SUBSET Publisher]
        \union [op : {"send"}, type : PubType, pubs : SUBSET Publisher]
        \union [op : {"connect", "remove"}, pub : Publisher]
        \union [op : {"removeProc"}, proc : Proc]
        \union [op : {"expired"}, procs : SUBSET Proc]

Idle == [op |-> "idle"]
CallState ==
    {Idle, [op |-> "waitInit"]}
        \union [op : {"advertise", "unadvertise", "unsubscribe"},
                pub : Publisher]
        \union [op : {"lookup"}, topic : Topic]
        \union [op : {"tell"}, pubs : SUBSET Publisher]

\* Discovery::initialized
Initialized(p) == beats[p] = InitBeats

TypeOK ==
    /\ status \in [Proc -> {"off", "up", "exiting", "joined", "gone"}]
    /\ info \in [Proc -> SUBSET Publisher]
    /\ remoteSubscribers \in [Proc -> SUBSET Publisher]
    /\ activity \in [Proc -> SUBSET Proc]
    /\ beats \in [Proc -> 0..InitBeats]
    /\ recv \in [Proc -> RecvState]
    /\ call \in [Proc -> CallState]
    /\ told \in [Proc -> SUBSET Publisher]
    /\ subs \in [Proc -> SUBSET Publisher]
    /\ net \in SUBSET Message
    /\ faults \in 0..MaxFaults

Init ==
    /\ status = [p \in Proc |-> "off"]
    /\ info = [p \in Proc |-> {}]
    /\ remoteSubscribers = [p \in Proc |-> {}]
    /\ activity = [p \in Proc |-> {}]
    /\ beats = [p \in Proc |-> 0]
    /\ recv = [p \in Proc |-> Poll]
    /\ call = [p \in Proc |-> Idle]
    /\ told = [p \in Proc |-> {}]
    /\ subs = [p \in Proc |-> {}]
    /\ net = {}
    /\ faults = 0

(***************************************************************************)
(* Life of a process.                                                      *)
(***************************************************************************)
Start(p) ==
    /\ status[p] = "off"
    /\ status' = [status EXCEPT ![p] = "up"]
    /\ UNCHANGED <<discVars, recv, call, told, subs, net, faults>>

\* Mutant: the destructor says BYE before it joins the thread.
DestroyByeFirst(p) ==
    /\ status[p] = "up"
    /\ call[p] = Idle
    /\ status' = [status EXCEPT ![p] = "exiting"]
    /\ net' = Put(net, BareMsgs(p, "BYE"))
    /\ UNCHANGED <<discVars, recv, call, told, subs, faults>>

\* The destructor asks the reception thread to exit, ...
Destroy(p) ==
    /\ status[p] = "up"
    /\ call[p] = Idle
    /\ status' = [status EXCEPT ![p] = "exiting"]
    /\ UNCHANGED <<discVars, recv, call, told, subs, net, faults>>

\* ... joins it at the end of one of its iterations, ...
JoinReception(p) ==
    /\ status[p] = "exiting"
    /\ recv[p] = Poll
    /\ status' = [status EXCEPT ![p] = "joined"]
    /\ UNCHANGED <<discVars, recv, call, told, subs, net, faults>>

\* What is left of a process that has ended: nothing.
Vanish(p, sent) ==
    /\ status' = [status EXCEPT ![p] = "gone"]
    /\ info' = [info EXCEPT ![p] = {}]
    /\ remoteSubscribers' = [remoteSubscribers EXCEPT ![p] = {}]
    /\ activity' = [activity EXCEPT ![p] = {}]
    /\ beats' = [beats EXCEPT ![p] = 0]
    /\ recv' = [recv EXCEPT ![p] = Poll]
    /\ call' = [call EXCEPT ![p] = Idle]
    /\ told' = [told EXCEPT ![p] = {}]
    /\ subs' = [subs EXCEPT ![p] = {}]
    /\ net' = Put({m \in net : m.to # p}, sent)
    /\ UNCHANGED faults

\* ... and only then says BYE and closes its sockets.
SendBye(p) ==
    /\ status[p] = "joined"
    /\ Vanish(p, BareMsgs(p, "BYE"))

\* A process that ends without running the destructor says nothing.
Crash(p) ==
    /\ Listening(p)
    /\ Vanish(p, {})

(***************************************************************************)
(* The users' calls.  Node serializes them on NodeShared's mutex, so each  *)
(* process has one in progress at a time.                                  *)
(***************************************************************************)
Advertise(p, pub) ==
    /\ status[p] = "up"
    /\ call[p] = Idle
    /\ pub.pUuid = p /\ pub.addr = p
    /\ ~ Holds(info[p], pub)
    /\ info' = [info EXCEPT ![p] = AddPublisher(@, pub)]
    /\ call' = [call EXCEPT ![p] =
                   IF pub.scope = "PROCESS" THEN Idle
                   ELSE [op |-> "advertise", pub |-> pub]]
    /\ UNCHANGED <<status, remoteSubscribers, activity, beats, recv, told,
                   subs, net, faults>>

Unadvertise(p, pub) ==
    /\ status[p] = "up"
    /\ call[p] = Idle
    /\ pub \in info[p] /\ pub.pUuid = p
    /\ info' = [info EXCEPT ![p] =
                   DelPublisherByNode(@, pub.topic, p, pub.nUuid)]
    /\ call' = [call EXCEPT ![p] =
                   IF pub.scope = "PROCESS" THEN Idle
                   ELSE [op |-> "unadvertise", pub |-> pub]]
    /\ UNCHANGED <<status, remoteSubscribers, activity, beats, recv, told,
                   subs, net, faults>>

\* The send that ends Advertise, Unadvertise or Unsubscribe.
CallMsgType ==
    [advertise |-> "ADVERTISE", unadvertise |-> "UNADVERTISE",
     unsubscribe |-> "END_CONNECTION"]

CallSend(p) ==
    /\ status[p] = "up"
    /\ call[p].op \in DOMAIN CallMsgType
    /\ net' = Put(net, PubMsgs(p, CallMsgType[call[p].op], call[p].pub))
    /\ call' = [call EXCEPT ![p] = Idle]
    /\ UNCHANGED <<status, discVars, recv, told, subs, faults>>

\* A client subscribes: NodeShared keeps the subscription and calls Discover,
\* which asks the network first ...
Discover(p, sub) ==
    /\ status[p] = "up"
    /\ call[p] = Idle
    /\ sub.pUuid = p /\ sub.addr = p
    /\ subs' = [subs EXCEPT ![p] = @ \union {sub}]
    /\ net' = Put(net, SubscribeMsgs(p, sub.topic))
    /\ call' = [call EXCEPT ![p] = [op |-> "lookup", topic |-> sub.topic]]
    /\ UNCHANGED <<status, discVars, recv, told, faults>>

\* ... then copies what it knows under the lock ...
DiscoverLookup(p) ==
    /\ status[p] = "up"
    /\ call[p].op = "lookup"
    /\ call' = [call EXCEPT ![p] =
                   [op |-> "tell",
                    pubs |-> PublishersOf(info[p], call[p].topic)]]
    /\ UNCHANGED <<status, discVars, recv, told, subs, net, faults>>

\* ... and presents the copy to the callback, which ignores its own process.
DiscoverTell(p) ==
    /\ status[p] = "up"
    /\ call[p].op = "tell"
    /\ told' = [told EXCEPT ![p] = @ \union
                   {r \in call[p].pubs : r.pUuid # p /\ ~ Holds(@, r)}]
    /\ call' = [call EXCEPT ![p] = Idle]
    /\ UNCHANGED <<status, discVars, recv, subs, net, faults>>

\* The client drops a subscription, then sends END_CONNECTION (CallSend).
Unsubscribe(p, sub) ==
    /\ status[p] = "up"
    /\ call[p] = Idle
    /\ sub \in subs[p]
    /\ subs' = [subs EXCEPT ![p] = @ \ {sub}]
    /\ call' = [call EXCEPT ![p] = [op |-> "unsubscribe", pub |-> sub]]
    /\ UNCHANGED <<status, discVars, recv, told, net, faults>>

\* The client tells a publisher it connected to it.
Register(p, sub) ==
    /\ status[p] = "up"
    /\ sub \in subs[p]
    /\ net' = Put(net, PubMsgs(p, "NEW_CONNECTION", sub))
    /\ UNCHANGED <<status, discVars, recv, call, told, subs, faults>>

\* TopicList asks for the subscribers, then blocks until initialized.
TopicList(p) ==
    /\ status[p] = "up"
    /\ call[p] = Idle
    /\ net' = Put(net, BareMsgs(p, "SUBSCRIBERS_REQ"))
    /\ call' = [call EXCEPT ![p] = [op |-> "waitInit"]]
    /\ UNCHANGED <<status, discVars, recv, told, subs, faults>>

WaitForInit(p) ==
    /\ status[p] = "up"
    /\ call[p].op = "waitInit"
    /\ Initialized(p)
    /\ call' = [call EXCEPT ![p] = Idle]
    /\ UNCHANGED <<status, discVars, recv, told, subs, net, faults>>

(***************************************************************************)
(* The reception thread: heartbeats and expiry.                            *)
(***************************************************************************)
\* Mutant: every publisher the process knows of is advertised again.
HeartbeatAll(p) ==
    /\ Listening(p)
    /\ recv[p] = Poll
    /\ net' = Put(net, BareMsgs(p, "HEARTBEAT"))
    /\ recv' = [recv EXCEPT ![p] = [op |-> "beat", pubs |-> info[p]]]
    /\ UNCHANGED <<status, discVars, call, told, subs, faults>>

\* Mutant: nothing is advertised again.
HeartbeatAlone(p) ==
    /\ Listening(p)
    /\ recv[p] = Poll
    /\ net' = Put(net, BareMsgs(p, "HEARTBEAT"))
    /\ recv' = [recv EXCEPT ![p] = [op |-> "beat", pubs |-> {}]]
    /\ UNCHANGED <<status, discVars, call, told, subs, faults>>

\* UpdateHeartbeat says it is alive and copies its publishers, of every
\* scope, under the lock; the copies are sent afterwards.
Heartbeat(p) ==
    /\ Listening(p)
    /\ recv[p] = Poll
    /\ net' = Put(net, BareMsgs(p, "HEARTBEAT"))
    /\ recv' = [recv EXCEPT ![p] =
                   [op |-> "beat", pubs |-> PublishersByProc(info[p], p)]]
    /\ UNCHANGED <<status, discVars, call, told, subs, faults>>

HeartbeatSend(p, pub) ==
    /\ Listening(p)
    /\ recv[p].op = "beat"
    /\ pub \in recv[p].pubs
    /\ net' = Put(net, PubMsgs(p, "ADVERTISE", pub))
    /\ recv' = [recv EXCEPT ![p].pubs = @ \ {pub}]
    /\ UNCHANGED <<status, discVars, call, told, subs, faults>>

\* Mutant: the counter goes on after the initialization.
HeartbeatDoneUncapped(p) ==
    /\ Listening(p)
    /\ recv[p].op = "beat"
    /\ recv[p].pubs = {}
    /\ beats' = [beats EXCEPT ![p] = @ + 1]
    /\ recv' = [recv EXCEPT ![p] = Poll]
    /\ UNCHANGED <<status, info, remoteSubscribers, activity, call, told, subs,
                   net, faults>>

HeartbeatDone(p) ==
    /\ Listening(p)
    /\ recv[p].op = "beat"
    /\ recv[p].pubs = {}
    /\ beats' = [beats EXCEPT ![p] = IF @ < InitBeats THEN @ + 1 ELSE @]
    /\ recv' = [recv EXCEPT ![p] = Poll]
    /\ UNCHANGED <<status, info, remoteSubscribers, activity, call, told, subs,
                   net, faults>>

\* Mutant: the publishers of a silent process are kept.
ExpireActivityOnly(p, procs) ==
    /\ Listening(p)
    /\ recv[p] = Poll
    /\ procs # {} /\ procs \subseteq activity[p]
    /\ activity' = [activity EXCEPT ![p] = @ \ procs]
    /\ recv' = [recv EXCEPT ![p] = [op |-> "expired", procs |-> procs]]
    /\ UNCHANGED <<status, info, remoteSubscribers, beats, call, told, subs,
                   net, faults>>

\* UpdateActivity forgets, under the lock, the processes found silent ...
Expire(p, procs) ==
    /\ Listening(p)
    /\ recv[p] = Poll
    /\ procs # {} /\ procs \subseteq activity[p]
    /\ info' = [info EXCEPT ![p] = {r \in @ : r.pUuid \notin procs}]
    /\ remoteSubscribers' = [remoteSubscribers EXCEPT ![p] =
                                {r \in @ : r.pUuid \notin procs}]
    /\ activity' = [activity EXCEPT ![p] = @ \ procs]
    /\ recv' = [recv EXCEPT ![p] = [op |-> "expired", procs |-> procs]]
    /\ UNCHANGED <<status, beats, call, told, subs, net, faults>>

\* ... and reports each of them once the lock is released.
ExpireTell(p) ==
    /\ Listening(p)
    /\ recv[p].op = "expired"
    /\ told' = [told EXCEPT ![p] =
                   {r \in @ : r.pUuid \notin recv[p].procs}]
    /\ recv' = [recv EXCEPT ![p] = Poll]
    /\ UNCHANGED <<status, discVars, call, subs, net, faults>>

(***************************************************************************)
(* The reception thread: DispatchDiscoveryMsg.                             *)
(***************************************************************************)
\* A datagram is taken off the network, or delivered and left in it.
Take(p, m) ==
    /\ Listening(p)
    /\ recv[p] = Poll
    /\ m \in net
    /\ m.to = p
    /\ \/ net' = net \ {m} /\ UNCHANGED faults
       \/ faults < MaxFaults /\ faults' = faults + 1 /\ UNCHANGED net

\* Mutant: only heartbeats count as activity.
SeenHeartbeat(p, m) ==
    activity' = [activity EXCEPT ![p] =
                    IF m.type = "HEARTBEAT" THEN @ \union {m.from} ELSE @]

Seen(p, m) == activity' = [activity EXCEPT ![p] = @ \union {m.from}]

RecvAdvertise(p, m) ==
    /\ Take(p, m)
    /\ m.type = "ADVERTISE"
    /\ Seen(p, m)
    /\ IF InScope(p, m.from, m.pub) /\ ~ Holds(info[p], m.pub)
       THEN /\ info' = [info EXCEPT ![p] = AddPublisher(@, m.pub)]
            /\ recv' = [recv EXCEPT ![p] =
                           [op |-> "connect", pub |-> m.pub]]
       ELSE UNCHANGED <<info, recv>>
    /\ UNCHANGED <<status, remoteSubscribers, beats, call, told, subs>>

\* The connection callback of a publisher just added.
ConnectTell(p) ==
    /\ Listening(p)
    /\ recv[p].op = "connect"
    /\ told' = [told EXCEPT ![p] = AddPublisher(@, recv[p].pub)]
    /\ recv' = [recv EXCEPT ![p] = Poll]
    /\ UNCHANGED <<status, discVars, call, subs, net, faults>>

\* A SUBSCRIBE is answered with the process's own publishers of the topic
\* that the asker may see: copied under the lock, sent afterwards.
RecvSubscribe(p, m) ==
    /\ Take(p, m)
    /\ m.type = "SUBSCRIBE"
    /\ Seen(p, m)
    /\ LET answer == {r \in PublishersByProc(info[p], p) :
                         r.topic = m.topic /\ InScope(m.from, p, r)}
       IN  recv' = [recv EXCEPT ![p] =
                       IF answer = {} THEN Poll
                       ELSE [op |-> "send", type |-> "ADVERTISE",
                             pubs |-> answer]]
    /\ UNCHANGED <<status, info, remoteSubscribers, beats, call, told, subs>>

\* SUBSCRIBERS_REQ is answered with the client's subscriptions, copied under
\* NodeShared's mutex and sent afterwards.
RecvSubscribersReq(p, m) ==
    /\ Take(p, m)
    /\ m.type = "SUBSCRIBERS_REQ"
    /\ Seen(p, m)
    /\ recv' = [recv EXCEPT ![p] =
                   IF subs[p] = {} THEN Poll
                   ELSE [op |-> "send", type |-> "SUBSCRIBERS_REP",
                         pubs |-> subs[p]]]
    /\ UNCHANGED <<status, info, remoteSubscribers, beats, call, told, subs>>

RecvSend(p, pub) ==
    /\ Listening(p)
    /\ recv[p].op = "send"
    /\ pub \in recv[p].pubs
    /\ net' = Put(net, PubMsgs(p, recv[p].type, pub))
    /\ LET rest == recv[p].pubs \ {pub}
       IN  recv' = [recv EXCEPT ![p] =
                       IF rest = {} THEN Poll
                       ELSE [op |-> "send", type |-> recv[p].type,
                             pubs |-> rest]]
    /\ UNCHANGED <<status, discVars, call, told, subs, faults>>

RecvSubscribersRep(p, m) ==
    /\ Take(p, m)
    /\ m.type = "SUBSCRIBERS_REP"
    /\ Seen(p, m)
    /\ remoteSubscribers' =
           [remoteSubscribers EXCEPT ![p] = AddPublisher(@, m.pub)]
    /\ UNCHANGED <<status, info, beats, recv, call, told, subs>>

RecvEndConnection(p, m) ==
    /\ Take(p, m)
    /\ m.type = "END_CONNECTION"
    /\ Seen(p, m)
    /\ remoteSubscribers' = [remoteSubscribers EXCEPT ![p] =
           DelPublisherByNode(@, m.pub.topic, m.pub.pUuid, m.pub.nUuid)]
    /\ UNCHANGED <<status, info, beats, recv, call, told, subs>>

\* HEARTBEAT changes the activity only, and so does NEW_CONNECTION here: its
\* callback belongs to the client.
RecvAlive(p, m) ==
    /\ Take(p, m)
    /\ m.type \in {"HEARTBEAT", "NEW_CONNECTION"}
    /\ Seen(p, m)
    /\ UNCHANGED <<status, info, remoteSubscribers, beats, recv, call, told,
                   subs>>

\* UNADVERTISE runs the callback first and forgets the publisher afterwards.
RecvUnadvertise(p, m) ==
    /\ Take(p, m)
    /\ m.type = "UNADVERTISE"
    /\ Seen(p, m)
    /\ IF InScope(p, m.from, m.pub)
       THEN /\ told' = [told EXCEPT ![p] = DelPublisherByNode(@,
                           m.pub.topic, m.pub.pUuid, m.pub.nUuid)]
            /\ recv' = [recv EXCEPT ![p] = [op |-> "remove", pub |-> m.pub]]
       ELSE UNCHANGED <<told, recv>>
    /\ UNCHANGED <<status, info, remoteSubscribers, beats, call, subs>>

Remove(p) ==
    /\ Listening(p)
    /\ recv[p].op = "remove"
    /\ LET pub == recv[p].pub
       IN  info' = [info EXCEPT ![p] =
               DelPublisherByNode(@, pub.topic, pub.pUuid, pub.nUuid)]
    /\ recv' = [recv EXCEPT ![p] = Poll]
    /\ UNCHANGED <<status, remoteSubscribers, activity, beats, call, told,
                   subs, net, faults>>

\* BYE drops the activity entry, runs the callback, then forgets the process.
RecvBye(p, m) ==
    /\ Take(p, m)
    /\ m.type = "BYE"
    /\ activity' = [activity EXCEPT ![p] = @ \ {m.from}]
    /\ told' = [told EXCEPT ![p] = DelPublishersByProc(@, m.from)]
    /\ recv' = [recv EXCEPT ![p] = [op |-> "removeProc", proc |-> m.from]]
    /\ UNCHANGED <<status, info, remoteSubscribers, beats, call, subs>>

RemoveProc(p) ==
    /\ Listening(p)
    /\ recv[p].op = "removeProc"
    /\ info' = [info EXCEPT ![p] = DelPublishersByProc(@, recv[p].proc)]
    /\ remoteSubscribers' = [remoteSubscribers EXCEPT ![p] =
           DelPublishersByProc(@, recv[p].proc)]
    /\ recv' = [recv EXCEPT ![p] = Poll]
    /\ UNCHANGED <<status, activity, beats, call, told, subs, net, faults>>

Receive(p, m) ==
    \/ RecvAdvertise(p, m)
    \/ RecvSubscribe(p, m)
    \/ RecvSubscribersReq(p, m)
    \/ RecvSubscribersRep(p, m)
    \/ RecvEndConnection(p, m)
    \/ RecvAlive(p, m)
    \/ RecvUnadvertise(p, m)
    \/ RecvBye(p, m)

\* The network drops a datagram.
Lose(m) ==
    /\ faults < MaxFaults
    /\ m \in net
    /\ net' = net \ {m}
    /\ faults' = faults + 1
    /\ UNCHANGED <<status, discVars, recv, call, told, subs>>

(***************************************************************************)
(* The specification.                                                      *)
(***************************************************************************)
Life(p) == Start(p) \/ Destroy(p) \/ JoinReception(p) \/ SendBye(p) \/ Crash(p)

\* Steps that go on with a call already begun.
CallStep(p) ==
    CallSend(p) \/ DiscoverLookup(p) \/ DiscoverTell(p) \/ WaitForInit(p)

UserCall(p) ==
    \/ \E pub \in Advertisable : Advertise(p, pub) \/ Unadvertise(p, pub)
    \/ \E sub \in Subscribable :
          Discover(p, sub) \/ Unsubscribe(p, sub) \/ Register(p, sub)
    \/ p \in Listers /\ TopicList(p)

\* Steps that go on with an iteration of the reception loop.
RecvStep(p) ==
    \/ HeartbeatDone(p)
    \/ \E pub \in Publisher : HeartbeatSend(p, pub) \/ RecvSend(p, pub)
    \/ ExpireTell(p)
    \/ ConnectTell(p)
    \/ Remove(p)
    \/ RemoveProc(p)

Next ==
    \/ \E p \in Proc :
          \/ Life(p)
          \/ UserCall(p)
          \/ CallStep(p)
          \/ Heartbeat(p)
          \/ \E procs \in SUBSET Proc : Expire(p, procs)
          \/ RecvStep(p)
          \/ \E m \in net : Receive(p, m)
    \/ \E m \in net : Lose(m)

Spec == Init /\ [][Next]_vars

(***************************************************************************)
(* Fairness.  A thread that has begun something goes on (WF).  The loop    *)
(* checks its timers at every iteration, so a heartbeat or an expiry that  *)
(* stays due happens although other iterations come in between (SF); a     *)
(* datagram that stays in the socket is read (SF).                         *)
(***************************************************************************)
ReceivePub(p, pub) ==
    \E m \in net : /\ m.type = "ADVERTISE"
                   /\ m.pub = pub
                   /\ RecvAdvertise(p, m)

Silent(p, q) == status[q] = "gone" /\ Expire(p, {q})

Fairness ==
    \A p \in Proc :
        /\ WF_vars(RecvStep(p))
        /\ WF_vars(CallStep(p))
        /\ WF_vars(SendBye(p))
        /\ SF_vars(JoinReception(p))
        /\ SF_vars(Heartbeat(p))
        /\ \A q \in Proc \ {p} : SF_vars(Silent(p, q))
        /\ \A pub \in Advertisable : SF_vars(ReceivePub(p, pub))

FairSpec == Spec /\ Fairness

(***************************************************************************)
(* Safety.                                                                 *)
(***************************************************************************)
Remote(p, pubs) == {r \in pubs : r.pUuid # p}

\* A process speaks for itself: all it sends, or is about to send, are
\* publishers and subscriptions of its own, so that process_uuid tells whose
\* they are (PublishersByProc in heartbeats and answers).
SpeaksForItself ==
    /\ \A m \in net : m.type \in PubType => m.pub.pUuid = m.from
    /\ \A p \in Proc :
          /\ call[p].op \in DOMAIN CallMsgType => call[p].pub.pUuid = p
          /\ recv[p].op \in {"beat", "send"} =>
                 \A r \in recv[p].pubs : r.pUuid = p
          /\ \A r \in subs[p] : r.pUuid = p

\* What a process knows of others stays within the scope the publisher chose,
\* although heartbeats broadcast the publishers of every scope
\* (UpdateHeartbeat sends what PublishersByProc returns).
ScopeRespected ==
    \A p \in Proc : \A r \in Remote(p, info[p]) :
        /\ r.scope # "PROCESS"
        /\ r.scope = "HOST" => HostOf[r.pUuid] = HostOf[p]

\* Advertisements repeated by heartbeats, answers and duplicated datagrams
\* never make a second record of a publisher (AddPublisher's check), so one
\* UNADVERTISE or one expiry takes away all that is known of it.
KnownOnce ==
    \A p \in Proc : /\ OneRecordPerPublisher(info[p])
                    /\ OneRecordPerPublisher(told[p])

\* Whatever a process remembers of another one can expire: its activity entry
\* is there, or the reception thread is about to forget it (the BYE case
\* erases the activity first and the publishers last).
CanExpire ==
    \A p \in Proc :
        \A r \in Remote(p, info[p]) \union remoteSubscribers[p] :
            \/ r.pUuid \in activity[p]
            \/ recv[p] = [op |-> "removeProc", proc |-> r.pUuid]

\* The reception thread is between running a callback and changing info.
InTransit(p, r) ==
    \/ recv[p].op = "connect" /\ SamePublisher(recv[p].pub, r)
    \/ /\ recv[p].op = "remove"
       /\ DelPublisherByNode({r}, recv[p].pub.topic, recv[p].pub.pUuid,
                             recv[p].pub.nUuid) = {}
    \/ recv[p].op = "removeProc" /\ recv[p].proc = r.pUuid

\* No publisher is known that the connection callback was not told of: the
\* callback is called only for a publisher that was added, and a later call
\* is lost for good if this one was skipped.
ClientTold ==
    \A p \in Proc : \A r \in Remote(p, info[p]) :
        Holds(told[p], r) \/ InTransit(p, r)

\* BYE is the last thing a process sends: its destructor joins the reception
\* thread first, so no heartbeat or answer of that thread follows it and
\* brings the process back.
ByeIsLast ==
    [][\A m \in net' \ net : \A b \in net :
          b.type = "BYE" /\ b.from = m.from => m.type = "BYE"]_vars

\* Once the UNADVERTISE of a publisher is sent, its process does not
\* advertise it again (the comment of Unadvertise: the message "will cancel
\* all the discovery information").  The code does not ensure it: a heartbeat
\* or an answer copied before the call is sent after it.
NoAdvertiseAfterUnadvertise ==
    [][\A m \in net' \ net :
          m.type = "ADVERTISE" =>
              \/ m.pub \in info'[m.from]
              \/ call'[m.from] = [op |-> "unadvertise", pub |-> m.pub]]_vars

(***************************************************************************)
(* Discovery implements the abstract Directory.                            *)
(***************************************************************************)
Visible(p, pub) == pub.pUuid # p /\ InScope(p, pub.pUuid, pub)

\* Advertisements in flight, or copied by a thread that has yet to send them.
Rumours ==
    {m.pub : m \in {x \in net : x.type = "ADVERTISE"}}
        \union {call[p].pub : p \in {q \in Proc : call[q].op = "advertise"}}
        \union UNION {recv[p].pubs : p \in {q \in Proc :
                         \/ recv[q].op = "beat"
                         \/ recv[q].op = "send" /\ recv[q].type = "ADVERTISE"}}

Promise == INSTANCE Directory WITH
    live <- {p \in Proc : status[p] \in Running \union {"joined"}},
    offered <- [p \in Proc |-> PublishersByProc(info[p], p)],
    rumours <- Rumours,
    known <- [p \in Proc |-> Remote(p, info[p])]

\* Every step of the threads, the users and the network is a step of the
\* Directory: nobody learns a publisher its process did not offer, nor one
\* out of its scope, and only current offers feed the rumours.
ImplementsDirectory == Promise!Spec

(***************************************************************************)
(* Liveness, under FairSpec.                                               *)
(***************************************************************************)
Offered(p, pub) ==
    /\ status[p] = "up" /\ status[pub.pUuid] = "up"
    /\ pub \in info[pub.pUuid]
    /\ Visible(p, pub)

\* A publisher that stays advertised becomes known again to every process in
\* its scope, whatever was lost, reordered or expired meanwhile.
Rediscovered ==
    \A p \in Proc, pub \in Advertisable :
        Offered(p, pub) ~> Holds(info[p], pub) \/ ~ Offered(p, pub)

\* A process that ended, with or without a BYE, is forgotten for good.
DeadForgotten ==
    \A p, q \in Proc :
        status[q] = "gone" ~> [](PublishersByProc(info[p], q) = {})
=============================================================================
