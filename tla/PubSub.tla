------------------------------- MODULE PubSub -------------------------------
(***************************************************************************)
(* How NodeShared (src/src/NodeShared.cc) keeps publishers and their       *)
(* remote subscribers connected, with ZeroMQ.                              *)
(*                                                                         *)
(* A process that learns of a publisher on a topic it subscribes to        *)
(* connects its SUB socket to the publisher's address, sets the topic as   *)
(* a filter, and tells the publisher's process with NEW_CONNECTION.  The   *)
(* publisher's process only sends data when it has a remote subscriber.    *)
(* END_CONNECTION and UNADVERTISE undo this.                               *)
(*                                                                         *)
(* Which publishers are known is left to Directory, which Discovery        *)
(* implements: its steps are conjuncts of the actions below.  Each process *)
(* has two threads that call NodeShared, the user's and discovery's.  A    *)
(* callback releases NodeShared's mutex before it sends anything, and so   *)
(* does Unsubscribe; the actions are cut there.  Subscribe, which takes    *)
(* the recursive mutex first of all, holds it to the end.                  *)
(***************************************************************************)
EXTENDS Publishers, Naturals, Sequences

CONSTANTS
    Proc, Topic, Node, Handler,
    Anyone,         \* the empty Ctrl field: every process
    NoTopic,        \* the empty topic of a callback about a whole process
    Visible(_, _),  \* whether the scope of a publisher lets a process see it
    Advertisable,   \* what users may advertise (bound of the instance)
    Subscribable,   \* handlers users may subscribe with (same)
    MaxEvents,      \* bound on users' calls and processes taken for dead
    MaxLost         \* bound on lost datagrams

Publisher == [topic : Topic, addr : Proc, pUuid : Proc, nUuid : Node]
SubHandler == [pUuid : Proc, topic : Topic, nUuid : Node, hUuid : Handler]

ASSUME NamesAssumption ==
    /\ Anyone \notin Proc
    /\ NoTopic \notin Topic

ASSUME UsersAssumption ==
    /\ Advertisable \subseteq {r \in Publisher : r.addr = r.pUuid}
    /\ Subscribable \subseteq SubHandler
    /\ MaxEvents \in Nat /\ MaxLost \in Nat

VARIABLES
    live, offered, rumours, known,  \* see Directory
    gone,               \* processes that crashed; restarted, they are others
    localSubscribers,   \* NodeShared::localSubscribers: the handlers
    connections,        \* NodeShared::connections
    remoteSubscribers,  \* NodeShared::remoteSubscribers
    sockets,            \* addresses the SUB socket is connected to
    filters,            \* topics the SUB socket lets through
    thread,             \* where each thread of each process is
    net,                \* net[q][p]: datagrams from q on the way to p
    events, lost        \* how many there were; datagrams lost

Dir == INSTANCE Directory

directory == <<live, offered, rumours, known>>
links == <<connections, sockets, filters>>
vars == <<directory, gone, localSubscribers, links, remoteSubscribers, thread,
          net, events, lost>>

Threads == {"user", "recv"}

\* A registration names the subscriber's process and node, under the
\* publisher's address, and in "ctrl" the process it is meant for.
Message ==
    [type : {"NEW_CONNECTION", "END_CONNECTION"}, sub : Publisher,
     ctrl : Proc \union {Anyone}]
        \union [type : {"UNADVERTISE"}, sub : Publisher, ctrl : {Anyone}]

Idle == [op |-> "idle"]
ThreadState ==
    {Idle}
        \union [op : {"discover"}, topic : Topic]
        \union [op : {"tell"}, pubs : SUBSET Publisher, regs : SUBSET Message]
        \union [op : {"lookup"}, sub : Publisher]
        \union [op : {"end"}, sub : Publisher,
                dsts : SUBSET (Proc \union {Anyone})]
        \union [op : {"remove"}, pub : Publisher]
        \union [op : {"lost"}, proc : Proc]

TypeOK ==
    /\ live \subseteq Proc /\ gone \subseteq Proc
    /\ offered \in [Proc -> SUBSET Publisher]
    /\ rumours \subseteq Publisher
    /\ known \in [Proc -> SUBSET Publisher]
    /\ localSubscribers \subseteq SubHandler
    /\ connections \in [Proc -> SUBSET Publisher]
    /\ remoteSubscribers \in [Proc -> SUBSET Publisher]
    /\ sockets \in [Proc -> SUBSET Proc]
    /\ filters \in [Proc -> SUBSET Topic]
    /\ thread \in [Proc -> [Threads -> ThreadState]]
    /\ net \in [Proc -> [Proc -> Seq(Message)]]
    /\ events \in 0..MaxEvents
    /\ lost \in 0..MaxLost

Init ==
    /\ Dir!Init
    /\ gone = {}
    /\ localSubscribers = {}
    /\ connections = [p \in Proc |-> {}]
    /\ remoteSubscribers = [p \in Proc |-> {}]
    /\ sockets = [p \in Proc |-> {}]
    /\ filters = [p \in Proc |-> {}]
    /\ thread = [p \in Proc |-> [t \in Threads |-> Idle]]
    /\ net = [p \in Proc |-> [q \in Proc |-> <<>>]]
    /\ events = 0
    /\ lost = 0

\* Discovery multicasts; datagrams from one process stay in order.
Multicast(p, m) ==
    net' = [net EXCEPT ![p] =
               [q \in Proc |-> IF q \in live \ {p} THEN Append(net[p][q], m)
                               ELSE net[p][q]]]

HandlersOf(p, topic) ==
    {h \in localSubscribers : h.pUuid = p /\ h.topic = topic}
HasSubscriber(p, topic) == HandlersOf(p, topic) # {}

Goto(p, t, state) == thread' = [thread EXCEPT ![p][t] = state]

Call(p) ==
    /\ p \in live
    /\ thread[p]["user"] = Idle
    /\ events < MaxEvents
    /\ events' = events + 1

\* The user's thread is inside Subscribe, with NodeShared's mutex.
Held(p) == thread[p]["user"].op \in {"discover", "tell"}

(***************************************************************************)
(* Publishers and processes.                                               *)
(***************************************************************************)
Start(p) ==
    /\ p \notin gone
    /\ Dir!Join(p)
    /\ UNCHANGED <<gone, localSubscribers, links, remoteSubscribers, thread,
                   net, events, lost>>

\* A process ends without a word, and its state with it.
Crash(p) ==
    /\ Dir!Leave(p)
    /\ gone' = gone \union {p}
    /\ localSubscribers' = {h \in localSubscribers : h.pUuid # p}
    /\ connections' = [connections EXCEPT ![p] = {}]
    /\ remoteSubscribers' = [remoteSubscribers EXCEPT ![p] = {}]
    /\ sockets' = [sockets EXCEPT ![p] = {}]
    /\ filters' = [filters EXCEPT ![p] = {}]
    /\ thread' = [thread EXCEPT ![p] = [t \in Threads |-> Idle]]
    /\ net' = [q \in Proc |-> [net[q] EXCEPT ![p] = <<>>]]
    /\ UNCHANGED <<events, lost>>

Advertise(p, pub) ==
    /\ Call(p)
    /\ pub \notin offered[p]
    /\ Dir!Offer(p, pub)
    /\ UNCHANGED <<gone, localSubscribers, links, remoteSubscribers, thread,
                   net, lost>>

\* The destructor of a Publisher.
Unadvertise(p, pub) ==
    /\ Call(p)
    /\ pub \in offered[p]
    /\ Dir!Withdraw(p, pub)
    /\ Multicast(p, [type |-> "UNADVERTISE", sub |-> pub, ctrl |-> Anyone])
    /\ UNCHANGED <<gone, localSubscribers, links, remoteSubscribers, thread,
                   lost>>

\* Heartbeats, answers, and what becomes of them.
Announce(p) ==
    /\ Dir!Announce(p)
    /\ UNCHANGED <<gone, localSubscribers, links, remoteSubscribers, thread,
                   net, events, lost>>

(***************************************************************************)
(* Subscribe and Unsubscribe.                                              *)
(***************************************************************************)
\* With the mutex, the handler is stored; SubscribeHelper goes on to
\* Discover ...
Subscribe(h) ==
    /\ Call(h.pUuid)
    /\ h \notin localSubscribers
    /\ localSubscribers' = localSubscribers \union {h}
    /\ Goto(h.pUuid, "user", [op |-> "discover", topic |-> h.topic])
    /\ UNCHANGED <<directory, gone, links, remoteSubscribers, net, lost>>

\* ... which copies what is known of the topic, its own publishers included,
\* for the connection callback.
Discover(p) ==
    /\ thread[p]["user"].op = "discover"
    /\ LET topic == thread[p]["user"].topic
       IN  Goto(p, "user",
               [op |-> "tell", regs |-> {},
                pubs |-> PublishersOf(offered[p] \union known[p], topic)])
    /\ UNCHANGED <<directory, gone, localSubscribers, links,
                   remoteSubscribers, net, events, lost>>

\* Mutant: END_CONNECTION is sent although the node has another handler.
NeverSubscribed(p, topic, nUuid, hs) == FALSE

\* The node still has a handler: nobody needs to know.
StillSubscribed(p, topic, nUuid, hs) ==
    \E h \in HandlersOf(p, topic) \ hs : h.nUuid = nUuid

\* Mutant: address and node are swapped.
SubRecordSwapped(p, addr, topic, nUuid) ==
    [topic |-> topic, addr |-> nUuid, pUuid |-> p, nUuid |-> addr]

\* The subscriber as Unsubscribe and OnNewConnection describe it.
SubRecord(p, addr, topic, nUuid) ==
    [topic |-> topic, addr |-> addr, pUuid |-> p, nUuid |-> nUuid]

\* A Subscriber drops its handler, a Node all it has on the topic.  The last
\* handler of the process takes a filter with it: the socket counts filters,
\* and may have the topic more than once.
Unsubscribe(p, topic, nUuid, hs) ==
    /\ Call(p)
    /\ localSubscribers' = localSubscribers \ hs
    /\ IF StillSubscribed(p, topic, nUuid, hs)
       THEN UNCHANGED <<filters, thread>>
       ELSE /\ IF HandlersOf(p, topic) \subseteq hs
               THEN \/ filters' = [filters EXCEPT ![p] = @ \ {topic}]
                    \/ UNCHANGED filters
               ELSE UNCHANGED filters
            /\ Goto(p, "user", [op |-> "lookup",
                                sub |-> SubRecord(p, p, topic, nUuid)])
    /\ UNCHANGED <<directory, gone, connections, sockets, remoteSubscribers,
                   net, lost>>

\* The destinations: each process known to publish, then everybody.
UnsubscribeLookup(p) ==
    /\ thread[p]["user"].op = "lookup"
    /\ LET sub == thread[p]["user"].sub
           pubs == PublishersOf(offered[p] \union known[p], sub.topic)
       IN  Goto(p, "user", [op |-> "end", sub |-> sub,
                            dsts |-> {r.pUuid : r \in pubs} \union {Anyone}])
    /\ UNCHANGED <<directory, gone, localSubscribers, links,
                   remoteSubscribers, net, events, lost>>

Unregister(p, dst) ==
    /\ thread[p]["user"].op = "end"
    /\ LET sub == thread[p]["user"].sub
           rest == thread[p]["user"].dsts \ {dst}
       IN  /\ dst \in thread[p]["user"].dsts
           /\ dst = Anyone => rest = {}
           /\ Multicast(p, [type |-> "END_CONNECTION", sub |-> sub,
                            ctrl |-> dst])
           /\ Goto(p, "user", IF rest = {} THEN Idle
                              ELSE [op |-> "end", sub |-> sub, dsts |-> rest])
    /\ UNCHANGED <<directory, gone, localSubscribers, links,
                   remoteSubscribers, events, lost>>

(***************************************************************************)
(* The connection callback, on either thread.                              *)
(***************************************************************************)
Interested(p, pub) == pub.pUuid # p /\ HasSubscriber(p, pub.topic)

\* Mutant: a process already connected to is not told again.
RegistrationsOnce(p, pub) ==
    IF pub.addr \in sockets[p] THEN {}
    ELSE {[type |-> "NEW_CONNECTION", ctrl |-> pub.pUuid,
           sub |-> SubRecord(p, pub.addr, pub.topic, h.nUuid)] :
             h \in HandlersOf(p, pub.topic)}

\* What the callback will send: each node with a handler, to the publisher.
Registrations(p, pub) ==
    {[type |-> "NEW_CONNECTION", ctrl |-> pub.pUuid,
      sub |-> SubRecord(p, pub.addr, pub.topic, h.nUuid)] :
        h \in HandlersOf(p, pub.topic)}

\* Mutant: the filter is only set for an address that is new.
FilterOnConnect(p, pub) ==
    IF pub.addr \in sockets[p] THEN filters[p]
    ELSE filters[p] \union {pub.topic}

\* Every callback sets the filter, connected or not.
FilterSet(p, pub) == filters[p] \union {pub.topic}

\* The part under NodeShared's mutex, which Subscribe has already.
OnNewConnection(p, t, pub) ==
    LET rest == thread[p][t].pubs \ {pub}
    IN  /\ t = "recv" => ~ Held(p)
        /\ thread[p][t].op = "tell"
        /\ thread[p][t].regs = {}
        /\ pub \in thread[p][t].pubs
        /\ IF Interested(p, pub)
           THEN /\ sockets' = [sockets EXCEPT ![p] = @ \union {pub.addr}]
                /\ filters' = [filters EXCEPT ![p] = FilterSet(p, pub)]
                /\ connections' =
                       [connections EXCEPT ![p] = AddPublisher(@, pub)]
                /\ Goto(p, t, [op |-> "tell", pubs |-> rest,
                               regs |-> Registrations(p, pub)])
           ELSE /\ UNCHANGED links
                /\ Goto(p, t, [op |-> "tell", pubs |-> rest, regs |-> {}])
        /\ UNCHANGED <<directory, gone, localSubscribers, remoteSubscribers,
                       net, events, lost>>

\* The registrations are sent with the callback's lock released.
Register(p, t, m) ==
    /\ thread[p][t].op = "tell"
    /\ m \in thread[p][t].regs
    /\ Multicast(p, m)
    /\ Goto(p, t, [op |-> "tell", pubs |-> thread[p][t].pubs,
                   regs |-> thread[p][t].regs \ {m}])
    /\ UNCHANGED <<directory, gone, localSubscribers, links,
                   remoteSubscribers, events, lost>>

TellDone(p, t) ==
    /\ thread[p][t].op = "tell"
    /\ thread[p][t].pubs = {} /\ thread[p][t].regs = {}
    /\ Goto(p, t, Idle)
    /\ UNCHANGED <<directory, gone, localSubscribers, links,
                   remoteSubscribers, net, events, lost>>

(***************************************************************************)
(* Discovery's thread.                                                     *)
(***************************************************************************)
\* A publisher is learned when it is new: the callback follows.
Learn(p, pub) ==
    /\ thread[p]["recv"] = Idle
    /\ Dir!Learn(p, pub)
    /\ ~ Holds(known[p], pub)
    /\ Goto(p, "recv", [op |-> "tell", pubs |-> {pub}, regs |-> {}])
    /\ UNCHANGED <<gone, localSubscribers, links, remoteSubscribers, net,
                   events, lost>>

\* A silent process is forgotten, and the callback told of it, with no topic.
\* For a process without publishers nothing would change.
Expire(p, proc) ==
    /\ thread[p]["recv"] = Idle
    /\ PublishersByProc(known[p], proc) # {}
    /\ events < MaxEvents
    /\ events' = events + 1
    /\ Dir!Forget(p)
    /\ known' = [known EXCEPT ![p] = DelPublishersByProc(@, proc)]
    /\ Goto(p, "recv", [op |-> "lost", proc |-> proc])
    /\ UNCHANGED <<gone, localSubscribers, links, remoteSubscribers, net,
                   lost>>

\* OnNewDisconnection for a whole process.  It looks for connections of the
\* topic it is given, which is empty.
OnProcessLost(p) ==
    /\ ~ Held(p)
    /\ thread[p]["recv"].op = "lost"
    /\ connections' =
           [connections EXCEPT ![p] =
               IF PublishersOf(@, NoTopic) = {} THEN @
               ELSE DelPublishersByProc(@, thread[p]["recv"].proc)]
    /\ Goto(p, "recv", Idle)
    /\ UNCHANGED <<directory, gone, localSubscribers, sockets, filters,
                   remoteSubscribers, net, events, lost>>

\* The next datagram of q is for p's discovery thread.
Take(p, q, type) ==
    /\ p \in live
    /\ thread[p]["recv"] = Idle
    /\ net[q][p] # <<>>
    /\ Head(net[q][p]).type = type
    /\ net' = [net EXCEPT ![q][p] = Tail(@)]

\* Mutant: the destination is not compared.
ForAnyone(p, m) == TRUE

\* A registration is for the process its Ctrl field names.
ForMe(p, m) == m.ctrl = p

OnNewRegistration(p, q) ==
    /\ Take(p, q, "NEW_CONNECTION")
    /\ LET m == Head(net[q][p])
       IN  /\ ForMe(p, m) => ~ Held(p)
           /\ remoteSubscribers' = [remoteSubscribers EXCEPT ![p] =
                  IF ForMe(p, m) THEN AddPublisher(@, m.sub) ELSE @]
    /\ UNCHANGED <<directory, gone, localSubscribers, links, thread, events,
                   lost>>

OnEndRegistration(p, q) ==
    /\ Take(p, q, "END_CONNECTION")
    /\ LET m == Head(net[q][p])
           Mine == m.ctrl \in {Anyone, p}
       IN  /\ Mine => ~ Held(p)
           /\ remoteSubscribers' = [remoteSubscribers EXCEPT ![p] =
                  IF Mine
                  THEN DelPublisherByNode(@, m.sub.topic, m.sub.pUuid,
                                          m.sub.nUuid)
                  ELSE @]
    /\ UNCHANGED <<directory, gone, localSubscribers, links, thread, events,
                   lost>>

\* OnNewDisconnection for a publisher: the process and node of the publisher
\* are no longer a remote subscriber, nor connected.
OnUnadvertise(p, q) ==
    /\ Take(p, q, "UNADVERTISE")
    /\ LET pub == Head(net[q][p]).sub
           Without(pubs) ==
               DelPublisherByNode(pubs, pub.topic, pub.pUuid, pub.nUuid)
       IN  IF Visible(p, pub)
           THEN /\ ~ Held(p)
                /\ remoteSubscribers' =
                       [remoteSubscribers EXCEPT ![p] = Without(@)]
                /\ connections' = [connections EXCEPT ![p] = Without(@)]
                /\ Goto(p, "recv", [op |-> "remove", pub |-> pub])
           ELSE UNCHANGED <<remoteSubscribers, connections, thread>>
    /\ UNCHANGED <<directory, gone, localSubscribers, sockets, filters,
                   events, lost>>

\* Discovery forgets the publisher after the callback.
Removes(p) ==
    /\ thread[p]["recv"].op = "remove"
    /\ LET pub == thread[p]["recv"].pub
       IN  known' = [known EXCEPT ![p] =
               DelPublisherByNode(@, pub.topic, pub.pUuid, pub.nUuid)]
    /\ Dir!Forget(p)
    /\ Goto(p, "recv", Idle)
    /\ UNCHANGED <<gone, localSubscribers, links, remoteSubscribers, net,
                   events, lost>>

\* The network drops a datagram.
Lose(p, q) ==
    /\ lost < MaxLost
    /\ net[q][p] # <<>>
    /\ net' = [net EXCEPT ![q][p] = Tail(@)]
    /\ lost' = lost + 1
    /\ UNCHANGED <<directory, gone, localSubscribers, links,
                   remoteSubscribers, thread, events>>

(***************************************************************************)
(* The specification.                                                      *)
(***************************************************************************)
UserCall ==
    \/ \E pub \in Advertisable :
          Advertise(pub.pUuid, pub) \/ Unadvertise(pub.pUuid, pub)
    \/ \E h \in Subscribable :
          \/ Subscribe(h)
          \/ \E hs \in {{h}, {g \in HandlersOf(h.pUuid, h.topic) :
                               g.nUuid = h.nUuid}} :
                Unsubscribe(h.pUuid, h.topic, h.nUuid, hs)

Registering(p, t) ==
    IF thread[p][t].op = "tell" THEN thread[p][t].regs ELSE {}

ThreadStep(p, t) ==
    \/ \E pub \in Publisher : OnNewConnection(p, t, pub)
    \/ \E m \in Registering(p, t) : Register(p, t, m)
    \/ TellDone(p, t)

UserStep(p) ==
    \/ Discover(p)
    \/ UnsubscribeLookup(p)
    \/ \E dst \in Proc \union {Anyone} : Unregister(p, dst)
    \/ ThreadStep(p, "user")

RecvStep(p) ==
    \/ OnProcessLost(p)
    \/ Removes(p)
    \/ ThreadStep(p, "recv")
    \/ \E q \in Proc :
          \/ OnNewRegistration(p, q)
          \/ OnEndRegistration(p, q)
          \/ OnUnadvertise(p, q)

Next ==
    \/ UserCall
    \/ \E p \in Proc :
          \/ Start(p) \/ Crash(p)
          \/ Announce(p)
          \/ UserStep(p)
          \/ RecvStep(p)
          \/ \E pub \in Publisher : Learn(p, pub)
          \/ \E q \in Proc : Expire(p, q) \/ Lose(p, q)

Spec == Init /\ [][Next]_vars

(***************************************************************************)
(* Fairness.  A thread inside an operation goes on, and discovery's thread *)
(* reads the datagrams that wait for it (WF).  What a process offers is    *)
(* announced, and a process learns again and again what it does not know:  *)
(* Discovery's liveness.  SF, as the thread has other things to do.        *)
(***************************************************************************)
Fairness ==
    \A p \in Proc :
        /\ WF_vars(UserStep(p))
        /\ WF_vars(RecvStep(p))
        /\ WF_vars(Announce(p) /\ rumours' = rumours \union offered[p])
        /\ SF_vars(\E pub \in Advertisable : Learn(p, pub))

FairSpec == Spec /\ Fairness

(***************************************************************************)
(* Properties.                                                             *)
(***************************************************************************)
\* Nothing q has begun is unfinished, and nothing it sent p is in flight.
Quiet(q, p) ==
    /\ thread[q]["user"] = Idle
    /\ thread[q]["recv"] = Idle
    /\ net[q][p] = <<>>

\* The publishers of other processes a handler should hear.
Heard(h) ==
    {pub \in known[h.pUuid] : /\ pub.topic = h.topic
                             /\ pub.pUuid # h.pUuid
                             /\ pub.pUuid \in live}

IsRegistered(h, p) ==
    \E r \in remoteSubscribers[p] :
        r.topic = h.topic /\ r.pUuid = h.pUuid /\ r.nUuid = h.nUuid

\* Whoever is registered as a remote subscriber has connected its socket to
\* the publishing process first, so that the data sent to it is not lost; a
\* NEW_CONNECTION is multicast, but only the process it is meant for may act
\* on it.
SocketConnected ==
    \A p \in Proc : \A r \in remoteSubscribers[p] :
        r.pUuid \in gone \/ p \in sockets[r.pUuid]

\* With both threads of a process registering and unregistering the same
\* nodes, and the mutex released in between, the publishing process knows
\* every node that has a handler once all is quiet, if no datagram was lost.
Registered ==
    lost = 0 =>
        \A h \in localSubscribers : \A pub \in Heard(h) :
            Quiet(h.pUuid, pub.pUuid) => IsRegistered(h, pub.pUuid)

\* A process with a handler hears the publishers it knows: its socket is
\* connected and lets the topic through, however often handlers came and
\* went, and even if datagrams were lost.
Hears ==
    \A h \in localSubscribers : \A pub \in Heard(h) :
        (thread[h.pUuid]["user"] = Idle /\ thread[h.pUuid]["recv"] = Idle)
            => /\ pub.addr \in sockets[h.pUuid]
               /\ h.topic \in filters[h.pUuid]

\* Data published by p gets to the handler h.
Reaches(p, h) ==
    /\ IsRegistered(h, p)
    /\ p \in sockets[h.pUuid]
    /\ h.topic \in filters[h.pUuid]

\* If no datagram is lost, a handler that stays is reached by the data of
\* every publisher that stays, for good.
Connected ==
    \A h \in Subscribable, pub \in Advertisable :
        (/\ h.pUuid # pub.pUuid /\ h.topic = pub.topic
         /\ Visible(h.pUuid, pub)
         /\ [](lost = 0)
         /\ <>[](h \in localSubscribers /\ pub \in offered[pub.pUuid]))
            => <>[]Reaches(pub.pUuid, h)

\* Node::Publisher::HasConnections, of which Node.hh says that it returns
\* true if this publisher has subscribers.
HasConnections(p, topic) ==
    \/ HasSubscriber(p, topic)
    \/ PublishersOf(remoteSubscribers[p], topic) # {}

\* As long as nothing is lost, and the threads are idle, a publisher that a
\* handler hears says that it has subscribers. (Node.hh:200,
\* NodeShared.cc:1139-1162)
SubscribersCounted ==
    lost = 0 =>
        \A h \in localSubscribers : \A pub \in Heard(h) :
            Quiet(h.pUuid, pub.pUuid) =>
                HasConnections(pub.pUuid, pub.topic)
=============================================================================
