---------------------------- MODULE PubSubProofs ----------------------------
(***************************************************************************)
(* Proofs about PubSub, for any processes, topics, nodes, handlers, scopes *)
(* and bounds.                                                             *)
(***************************************************************************)
EXTENDS PubSub, TLAPS

(***************************************************************************)
(* Helpers.                                                                *)
(***************************************************************************)
\* Moving a thread on changes that thread only.
LEMMA GotoType ==
    ASSUME TypeOK, NEW p \in Proc, NEW t \in Threads,
           NEW state \in ThreadState, Goto(p, t, state)
    PROVE  /\ thread' \in [Proc -> [Threads -> ThreadState]]
           /\ thread'[p][t] = state
           /\ \A q \in Proc, u \in Threads :
                 <<q, u>> # <<p, t>> => thread'[q][u] = thread[q][u]
BY DEF TypeOK, Goto

\* A multicast appends the datagram to some channels.
LEMMA MulticastType ==
    ASSUME TypeOK, NEW p \in Proc, NEW m \in Message, Multicast(p, m)
    PROVE  /\ net' \in [Proc -> [Proc -> Seq(Message)]]
           /\ \A q, r \in Proc :
                 \/ net'[q][r] = net[q][r]
                 \/ net'[q][r] = Append(net[q][r], m)
<1> DEFINE Row == [q \in Proc |-> IF q \in live \ {p} THEN Append(net[p][q], m)
                                  ELSE net[p][q]]
<1>1. /\ Row \in [Proc -> Seq(Message)]
      /\ \A r \in Proc : Row[r] \in {net[p][r], Append(net[p][r], m)}
  BY DEF TypeOK
<1>2. net' = [net EXCEPT ![p] = Row]
  BY DEF Multicast
<1> HIDE DEF Row
<1> QED
  BY <1>1, <1>2 DEF TypeOK

\* The operators on sets of publishers return sets of publishers.
LEMMA PublishersType ==
    ASSUME NEW pubs \in SUBSET Publisher
    PROVE  /\ \A pub \in Publisher :
                 /\ AddPublisher(pubs, pub) \in SUBSET Publisher
                 /\ Dir!AddPublisher(pubs, pub) \in SUBSET Publisher
           /\ \A t, p, n :
                 DelPublisherByNode(pubs, t, p, n) \in SUBSET Publisher
           /\ \A p : DelPublishersByProc(pubs, p) \in SUBSET Publisher
           /\ \A t : PublishersOf(pubs, t) \in SUBSET Publisher
BY DEF AddPublisher, Dir!AddPublisher, DelPublisherByNode,
       DelPublishersByProc, PublishersOf

\* What the callback sends are registrations of the process's own nodes.
LEMMA RegistrationsType ==
    ASSUME TypeOK, NEW p \in Proc, NEW pub \in Publisher
    PROVE  \A m \in Registrations(p, pub) :
               /\ m \in Message
               /\ m.ctrl = pub.pUuid
               /\ m.sub.pUuid = p
<1> SUFFICES ASSUME NEW h \in HandlersOf(p, pub.topic)
             PROVE  LET m == [type |-> "NEW_CONNECTION", ctrl |-> pub.pUuid,
                              sub |-> SubRecord(p, pub.addr, pub.topic,
                                                h.nUuid)]
                    IN  m \in Message /\ m.ctrl = pub.pUuid /\ m.sub.pUuid = p
  BY DEF Registrations
<1>1. h.nUuid \in Node
  BY DEF HandlersOf, TypeOK, SubHandler
<1>2. SubRecord(p, pub.addr, pub.topic, h.nUuid) \in Publisher
  BY <1>1 DEF SubRecord, Publisher
<1> QED
  BY <1>2 DEF Message, SubRecord, Publisher

\* The datagram taken, and the channels without it.
LEMMA TakeType ==
    ASSUME TypeOK, NEW p \in Proc, NEW q \in Proc,
           net[q][p] # <<>>, net' = [net EXCEPT ![q][p] = Tail(@)]
    PROVE  /\ Head(net[q][p]) \in Message
           /\ Head(net[q][p]) = net[q][p][1] /\ 1 \in DOMAIN net[q][p]
           /\ net' \in [Proc -> [Proc -> Seq(Message)]]
           /\ \A r, s \in Proc : \A i \in DOMAIN net'[r][s] :
                 \E j \in DOMAIN net[r][s] : net'[r][s][i] = net[r][s][j]
<1>1. net[q][p] \in Seq(Message)
  BY DEF TypeOK
<1>2. /\ Head(net[q][p]) \in Message
      /\ Head(net[q][p]) = net[q][p][1] /\ 1 \in DOMAIN net[q][p]
      /\ Tail(net[q][p]) \in Seq(Message)
      /\ \A i \in DOMAIN Tail(net[q][p]) :
            /\ i + 1 \in DOMAIN net[q][p]
            /\ Tail(net[q][p])[i] = net[q][p][i + 1]
  BY <1>1
<1>3. net' \in [Proc -> [Proc -> Seq(Message)]]
  BY <1>2 DEF TypeOK
<1>4. ASSUME NEW r \in Proc, NEW s \in Proc, NEW i \in DOMAIN net'[r][s]
      PROVE  \E j \in DOMAIN net[r][s] : net'[r][s][i] = net[r][s][j]
  <2>1. CASE r = q /\ s = p
    BY <1>2, <2>1 DEF TypeOK
  <2>2. CASE ~ (r = q /\ s = p)
    BY <2>2 DEF TypeOK
  <2> QED
    BY <2>1, <2>2
<1> QED
  BY <1>2, <1>3, <1>4

\* The records threads carry are thread states.
LEMMA States ==
    /\ Idle \in ThreadState
    /\ \A topic \in Topic :
          [op |-> "discover", topic |-> topic] \in ThreadState
    /\ \A pubs \in SUBSET Publisher, regs \in SUBSET Message :
          [op |-> "tell", pubs |-> pubs, regs |-> regs] \in ThreadState
    /\ \A sub \in Publisher : [op |-> "lookup", sub |-> sub] \in ThreadState
    /\ \A sub \in Publisher, dsts \in SUBSET (Proc \union {Anyone}) :
          [op |-> "end", sub |-> sub, dsts |-> dsts] \in ThreadState
    /\ \A pub \in Publisher : [op |-> "remove", pub |-> pub] \in ThreadState
    /\ \A q \in Proc : [op |-> "lost", proc |-> q] \in ThreadState
BY DEF ThreadState

\* What a thread carries in each of its states.
LEMMA Carried ==
    ASSUME TypeOK, NEW p \in Proc, NEW t \in Threads
    PROVE  LET s == thread[p][t]
           IN  /\ s.op = "discover" => s.topic \in Topic
               /\ s.op = "tell" => s.pubs \in SUBSET Publisher
               /\ s.op = "tell" => s.regs \in SUBSET Message
               /\ s.op = "lookup" => s.sub \in Publisher
               /\ s.op = "end" => s.sub \in Publisher
               /\ s.op = "end" => s.dsts \in SUBSET (Proc \union {Anyone})
               /\ s.op = "remove" => s.pub \in Publisher
               /\ s.op = "lost" => s.proc \in Proc
<1>1. thread[p][t] \in ThreadState
  BY DEF TypeOK
<1> QED
  BY <1>1 DEF ThreadState, Idle

(***************************************************************************)
(* The type invariant: one lemma for each part of Next.                    *)
(***************************************************************************)
\* Starting, crashing and announcing.
LEMMA TypeProcess ==
    ASSUME TypeOK, NEW p \in Proc, Start(p) \/ Crash(p) \/ Announce(p)
    PROVE  TypeOK'
<1>1. CASE Start(p)
  BY <1>1 DEF TypeOK, Start, Dir!Join, links
<1>2. CASE Crash(p)
  <2>1. thread' \in [Proc -> [Threads -> ThreadState]]
    BY <1>2, States DEF Crash, TypeOK
  <2>2. net' \in [Proc -> [Proc -> Seq(Message)]]
    BY <1>2 DEF Crash, TypeOK
  <2> QED
    BY <1>2, <2>1, <2>2 DEF TypeOK, Crash, Dir!Leave
<1>3. CASE Announce(p)
  BY <1>3 DEF TypeOK, Announce, Dir!Announce, links
<1> QED
  BY <1>1, <1>2, <1>3

\* The calls of users.
LEMMA TypeUserCall ==
    ASSUME TypeOK, UserCall
    PROVE  TypeOK'
<1>1. ASSUME NEW pub \in Advertisable, Advertise(pub.pUuid, pub)
      PROVE  TypeOK'
  <2>1. pub \in Publisher
    BY UsersAssumption
  <2>2. /\ pub.pUuid \in Proc
        /\ Dir!AddPublisher(offered[pub.pUuid], pub) \in SUBSET Publisher
    BY <2>1, PublishersType DEF TypeOK, Publisher
  <2> QED
    BY <1>1, <2>1, <2>2, UsersAssumption
    DEF TypeOK, Advertise, Call, Dir!Offer, links
<1>2. ASSUME NEW pub \in Advertisable, Unadvertise(pub.pUuid, pub)
      PROVE  TypeOK'
  <2> DEFINE m == [type |-> "UNADVERTISE", sub |-> pub, ctrl |-> Anyone]
  <2>1. pub \in Publisher /\ pub.pUuid \in Proc
    BY UsersAssumption DEF Publisher
  <2>2. m \in Message
    BY <2>1 DEF Message
  <2>3. Multicast(pub.pUuid, m)
    BY <1>2 DEF Unadvertise
  <2> HIDE DEF m
  <2>4. net' \in [Proc -> [Proc -> Seq(Message)]]
    BY <2>1, <2>2, <2>3, MulticastType
  <2>5. offered' \in [Proc -> SUBSET Publisher]
    BY <1>2, <2>1 DEF Unadvertise, Dir!Withdraw, TypeOK
  <2>6. UNCHANGED <<live, rumours, known>>
    BY <1>2 DEF Unadvertise, Dir!Withdraw
  <2>7. events' \in 0..MaxEvents
    BY <1>2, UsersAssumption DEF Unadvertise, Call, TypeOK
  <2> QED
    BY <1>2, <2>4, <2>5, <2>6, <2>7 DEF TypeOK, Unadvertise, links
<1>3. ASSUME NEW h \in Subscribable, Subscribe(h)
      PROVE  TypeOK'
  <2>1. h \in SubHandler /\ h.pUuid \in Proc /\ h.topic \in Topic
    BY UsersAssumption DEF SubHandler
  <2>2. [op |-> "discover", topic |-> h.topic] \in ThreadState
    BY <2>1, States
  <2>3. thread' \in [Proc -> [Threads -> ThreadState]]
    BY <1>3, <2>1, <2>2, GotoType DEF Subscribe, Threads
  <2> QED
    BY <1>3, <2>1, <2>3, UsersAssumption
    DEF TypeOK, Subscribe, Call, directory, links
<1>4. ASSUME NEW h \in Subscribable, NEW hs,
             Unsubscribe(h.pUuid, h.topic, h.nUuid, hs)
      PROVE  TypeOK'
  <2> DEFINE sub == SubRecord(h.pUuid, h.pUuid, h.topic, h.nUuid)
  <2>1. /\ h.pUuid \in Proc /\ h.topic \in Topic
        /\ sub \in Publisher
    BY UsersAssumption DEF SubHandler, SubRecord, Publisher
  <2>2. [op |-> "lookup", sub |-> sub] \in ThreadState
    BY <2>1, States
  <2>3. \/ UNCHANGED thread
        \/ Goto(h.pUuid, "user", [op |-> "lookup", sub |-> sub])
    BY <1>4 DEF Unsubscribe
  <2> HIDE DEF sub
  <2>4. thread' \in [Proc -> [Threads -> ThreadState]]
    BY <2>1, <2>2, <2>3, GotoType DEF Threads, TypeOK
  <2>5. \/ filters' = filters
        \/ filters' = [filters EXCEPT ![h.pUuid] = @ \ {h.topic}]
    BY <1>4 DEF Unsubscribe
  <2>6. filters' \in [Proc -> SUBSET Topic]
    BY <2>1, <2>5 DEF TypeOK
  <2> QED
    BY <1>4, <2>1, <2>4, <2>6, UsersAssumption
    DEF TypeOK, Unsubscribe, Call, directory
<1> QED
  BY <1>1, <1>2, <1>3, <1>4 DEF UserCall

\* The rest of Unsubscribe, on the user's thread, and Subscribe's Discover.
LEMMA TypeUserStep ==
    ASSUME TypeOK, NEW p \in Proc,
           \/ Discover(p) \/ UnsubscribeLookup(p)
           \/ \E dst \in Proc \union {Anyone} : Unregister(p, dst)
    PROVE  TypeOK'
<1> DEFINE s == thread[p]["user"]
           pubs(topic) == PublishersOf(offered[p] \union known[p], topic)
<1>1. /\ s.op = "discover" => s.topic \in Topic
      /\ s.op = "lookup" => s.sub \in Publisher
      /\ s.op = "end" => s.sub \in Publisher
      /\ s.op = "end" => s.dsts \in SUBSET (Proc \union {Anyone})
  BY Carried DEF Threads
<1>2. \A topic : pubs(topic) \in SUBSET Publisher
  BY PublishersType DEF TypeOK
<1>3. CASE Discover(p)
  <2>1. [op |-> "tell", regs |-> {}, pubs |-> pubs(s.topic)] \in ThreadState
    BY <1>2, States
  <2>2. thread' \in [Proc -> [Threads -> ThreadState]]
    BY <1>3, <2>1, GotoType DEF Discover, Threads
  <2> QED
    BY <1>3, <2>2 DEF TypeOK, Discover, directory, links
<1>4. CASE UnsubscribeLookup(p)
  <2> DEFINE dsts == {r.pUuid : r \in pubs(s.sub.topic)} \union {Anyone}
  <2>1. dsts \in SUBSET (Proc \union {Anyone})
    BY <1>2 DEF Publisher
  <2>2. s.sub \in Publisher
    BY <1>1, <1>4 DEF UnsubscribeLookup
  <2>3. [op |-> "end", sub |-> s.sub, dsts |-> dsts] \in ThreadState
    BY <2>1, <2>2, States
  <2>4. Goto(p, "user", [op |-> "end", sub |-> s.sub, dsts |-> dsts])
    BY <1>4 DEF UnsubscribeLookup
  <2> HIDE DEF dsts
  <2>5. thread' \in [Proc -> [Threads -> ThreadState]]
    BY <2>3, <2>4, GotoType DEF Threads
  <2> QED
    BY <1>4, <2>5 DEF TypeOK, UnsubscribeLookup, directory, links
<1>5. ASSUME NEW dst \in Proc \union {Anyone}, Unregister(p, dst)
      PROVE  TypeOK'
  <2> DEFINE m == [type |-> "END_CONNECTION", sub |-> s.sub, ctrl |-> dst]
             next == IF s.dsts \ {dst} = {} THEN Idle
                     ELSE [op |-> "end", sub |-> s.sub,
                           dsts |-> s.dsts \ {dst}]
  <2>1. /\ s.sub \in Publisher
        /\ s.dsts \in SUBSET (Proc \union {Anyone})
    BY <1>1, <1>5 DEF Unregister
  <2>2. m \in Message
    BY <2>1 DEF Message
  <2>3. next \in ThreadState
    BY <2>1, States
  <2>4. Multicast(p, m) /\ Goto(p, "user", next)
    BY <1>5 DEF Unregister
  <2> HIDE DEF m, next
  <2>5. /\ net' \in [Proc -> [Proc -> Seq(Message)]]
        /\ thread' \in [Proc -> [Threads -> ThreadState]]
    BY <2>2, <2>3, <2>4, MulticastType, GotoType DEF Threads
  <2> QED
    BY <1>5, <2>5 DEF TypeOK, Unregister, directory, links
<1> QED
  BY <1>3, <1>4, <1>5

\* The connection callback, on either thread.
LEMMA TypeThreadStep ==
    ASSUME TypeOK, NEW p \in Proc, NEW t \in Threads, ThreadStep(p, t)
    PROVE  TypeOK'
<1> DEFINE s == thread[p][t]
<1>1. s.op = "tell" => s.pubs \in SUBSET Publisher /\ s.regs \in SUBSET Message
  BY Carried
<1>2. ASSUME NEW pub \in Publisher, OnNewConnection(p, t, pub)
      PROVE  TypeOK'
  <2> DEFINE next(regs) == [op |-> "tell", pubs |-> s.pubs \ {pub},
                            regs |-> regs]
  <2>1. /\ s.pubs \ {pub} \in SUBSET Publisher
        /\ Registrations(p, pub) \in SUBSET Message
    BY <1>1, <1>2, RegistrationsType DEF OnNewConnection
  <2>2. next({}) \in ThreadState /\ next(Registrations(p, pub)) \in ThreadState
    BY <2>1, States
  <2>3. \/ Goto(p, t, next({})) /\ UNCHANGED links
        \/ /\ Goto(p, t, next(Registrations(p, pub)))
           /\ sockets' = [sockets EXCEPT ![p] = @ \union {pub.addr}]
           /\ filters' = [filters EXCEPT ![p] = FilterSet(p, pub)]
           /\ connections' = [connections EXCEPT ![p] = AddPublisher(@, pub)]
    BY <1>2 DEF OnNewConnection
  <2> HIDE DEF next
  <2>4. thread' \in [Proc -> [Threads -> ThreadState]]
    BY <2>2, <2>3, GotoType
  <2>5. /\ pub.addr \in Proc
        /\ FilterSet(p, pub) \in SUBSET Topic
        /\ AddPublisher(connections[p], pub) \in SUBSET Publisher
    BY PublishersType DEF Publisher, FilterSet, TypeOK
  <2>6. sockets' \in [Proc -> SUBSET Proc]
    <3>1. \/ sockets' = sockets
          \/ sockets' = [sockets EXCEPT ![p] = @ \union {pub.addr}]
      BY <2>3 DEF links
    <3>2. sockets \in [Proc -> SUBSET Proc]
      BY DEF TypeOK
    <3>3. sockets[p] \union {pub.addr} \in SUBSET Proc
      BY <2>5, <3>2
    <3> QED
      BY <3>1, <3>2, <3>3
  <2>7. filters' \in [Proc -> SUBSET Topic]
    BY <2>3, <2>5 DEF links, TypeOK
  <2>8. connections' \in [Proc -> SUBSET Publisher]
    BY <2>3, <2>5 DEF links, TypeOK
  <2> QED
    BY <1>2, <2>4, <2>6, <2>7, <2>8 DEF TypeOK, OnNewConnection, directory
<1>3. ASSUME NEW m, m \in Registering(p, t), Register(p, t, m)
      PROVE  TypeOK'
  <2> DEFINE next == [op |-> "tell", pubs |-> s.pubs, regs |-> s.regs \ {m}]
  <2>1. /\ m \in Message
        /\ s.pubs \in SUBSET Publisher
        /\ s.regs \ {m} \in SUBSET Message
    BY <1>1, <1>3 DEF Register
  <2>2. next \in ThreadState
    BY <2>1, States
  <2>3. Multicast(p, m) /\ Goto(p, t, next)
    BY <1>3 DEF Register
  <2> HIDE DEF next
  <2>4. /\ net' \in [Proc -> [Proc -> Seq(Message)]]
        /\ thread' \in [Proc -> [Threads -> ThreadState]]
    BY <2>1, <2>2, <2>3, MulticastType, GotoType
  <2> QED
    BY <1>3, <2>4 DEF TypeOK, Register, directory, links
<1>4. CASE TellDone(p, t)
  <2>1. thread' \in [Proc -> [Threads -> ThreadState]]
    BY <1>4, States, GotoType DEF TellDone
  <2> QED
    BY <1>4, <2>1 DEF TypeOK, TellDone, directory, links
<1> QED
  BY <1>2, <1>3, <1>4 DEF ThreadStep

\* What discovery's thread learns, and what it is told.
LEMMA TypeDiscovery ==
    ASSUME TypeOK, NEW p \in Proc,
           \/ \E pub \in Publisher : Learn(p, pub)
           \/ \E q \in Proc : Expire(p, q)
           \/ OnProcessLost(p) \/ Removes(p)
    PROVE  TypeOK'
<1> DEFINE s == thread[p]["recv"]
<1>1. /\ s.op = "remove" => s.pub \in Publisher
      /\ s.op = "lost" => s.proc \in Proc
  BY Carried DEF Threads
<1>2. ASSUME NEW pub \in Publisher, Learn(p, pub)
      PROVE  TypeOK'
  <2>1. [op |-> "tell", pubs |-> {pub}, regs |-> {}] \in ThreadState
    BY States
  <2>2. thread' \in [Proc -> [Threads -> ThreadState]]
    BY <1>2, <2>1, GotoType DEF Learn, Threads
  <2>3. known' \in [Proc -> SUBSET Publisher]
    BY <1>2, PublishersType DEF Learn, Dir!Learn, TypeOK
  <2> QED
    BY <1>2, <2>2, <2>3 DEF TypeOK, Learn, Dir!Learn, links
<1>3. ASSUME NEW q \in Proc, Expire(p, q)
      PROVE  TypeOK'
  <2>1. [op |-> "lost", proc |-> q] \in ThreadState
    BY States
  <2>2. thread' \in [Proc -> [Threads -> ThreadState]]
    BY <1>3, <2>1, GotoType DEF Expire, Threads
  <2>3. known' \in [Proc -> SUBSET Publisher]
    BY <1>3, PublishersType DEF Expire, TypeOK
  <2>4. events' \in 0..MaxEvents
    BY <1>3, UsersAssumption DEF Expire, TypeOK
  <2> QED
    BY <1>3, <2>2, <2>3, <2>4 DEF TypeOK, Expire, Dir!Forget, links
<1>4. CASE OnProcessLost(p)
  <2>1. thread' \in [Proc -> [Threads -> ThreadState]]
    BY <1>4, States, GotoType DEF OnProcessLost, Threads
  <2>2. connections' \in [Proc -> SUBSET Publisher]
    BY <1>4, PublishersType DEF OnProcessLost, TypeOK
  <2> QED
    BY <1>4, <2>1, <2>2 DEF TypeOK, OnProcessLost, directory
<1>5. CASE Removes(p)
  <2>1. thread' \in [Proc -> [Threads -> ThreadState]]
    BY <1>5, States, GotoType DEF Removes, Threads
  <2>2. known' \in [Proc -> SUBSET Publisher]
    BY <1>5, PublishersType DEF Removes, TypeOK
  <2> QED
    BY <1>5, <2>1, <2>2 DEF TypeOK, Removes, Dir!Forget, links
<1> QED
  BY <1>2, <1>3, <1>4, <1>5

\* The datagrams that arrive, and the one that does not.
LEMMA TypeReceive ==
    ASSUME TypeOK, NEW p \in Proc, NEW q \in Proc,
           \/ OnNewRegistration(p, q) \/ OnEndRegistration(p, q)
           \/ OnUnadvertise(p, q) \/ Lose(p, q)
    PROVE  TypeOK'
<1> DEFINE m == Head(net[q][p])
<1>1. net[q][p] # <<>> /\ net' = [net EXCEPT ![q][p] = Tail(@)]
  BY DEF OnNewRegistration, OnEndRegistration, OnUnadvertise, Take, Lose
<1>2. m \in Message /\ net' \in [Proc -> [Proc -> Seq(Message)]]
  BY <1>1, TakeType
<1>3. m.sub \in Publisher
  BY <1>2 DEF Message
<1> HIDE DEF m
<1>4. CASE OnNewRegistration(p, q)
  <2>1. remoteSubscribers' = [remoteSubscribers EXCEPT ![p] =
            IF ForMe(p, m) THEN AddPublisher(@, m.sub) ELSE @]
    BY <1>4 DEF OnNewRegistration, m
  <2>2. remoteSubscribers' \in [Proc -> SUBSET Publisher]
    BY <1>3, <2>1, PublishersType DEF TypeOK
  <2> QED
    BY <1>2, <1>4, <2>2 DEF TypeOK, OnNewRegistration, directory, links
<1>5. CASE OnEndRegistration(p, q)
  <2>1. remoteSubscribers' = [remoteSubscribers EXCEPT ![p] =
            IF m.ctrl \in {Anyone, p}
            THEN DelPublisherByNode(@, m.sub.topic, m.sub.pUuid, m.sub.nUuid)
            ELSE @]
    BY <1>5 DEF OnEndRegistration, m
  <2>2. remoteSubscribers' \in [Proc -> SUBSET Publisher]
    BY <2>1, PublishersType DEF TypeOK
  <2> QED
    BY <1>2, <1>5, <2>2 DEF TypeOK, OnEndRegistration, directory, links
<1>6. CASE OnUnadvertise(p, q)
  <2> DEFINE Without(pubs) ==
                 DelPublisherByNode(pubs, m.sub.topic, m.sub.pUuid,
                                    m.sub.nUuid)
  <2>1. \/ UNCHANGED <<remoteSubscribers, connections, thread>>
        \/ /\ remoteSubscribers' =
                  [remoteSubscribers EXCEPT ![p] = Without(@)]
           /\ connections' = [connections EXCEPT ![p] = Without(@)]
           /\ Goto(p, "recv", [op |-> "remove", pub |-> m.sub])
    BY <1>6 DEF OnUnadvertise, m
  <2>2. [op |-> "remove", pub |-> m.sub] \in ThreadState
    BY <1>3, States
  <2>3. /\ Without(remoteSubscribers[p]) \in SUBSET Publisher
        /\ Without(connections[p]) \in SUBSET Publisher
    BY PublishersType DEF TypeOK
  <2> HIDE DEF Without
  <2>4. thread' \in [Proc -> [Threads -> ThreadState]]
    BY <2>1, <2>2, GotoType DEF TypeOK, Threads
  <2>5. /\ remoteSubscribers' \in [Proc -> SUBSET Publisher]
        /\ connections' \in [Proc -> SUBSET Publisher]
    <3>1. CASE UNCHANGED <<remoteSubscribers, connections, thread>>
      BY <3>1 DEF TypeOK
    <3>2. CASE ~ UNCHANGED <<remoteSubscribers, connections, thread>>
      <4>1. /\ remoteSubscribers' =
                  [remoteSubscribers EXCEPT ![p] = Without(@)]
            /\ connections' = [connections EXCEPT ![p] = Without(@)]
        BY <2>1, <3>2
      <4> QED
        BY <2>3, <4>1 DEF TypeOK
    <3> QED
      BY <3>1, <3>2
  <2> QED
    BY <1>2, <1>6, <2>4, <2>5 DEF TypeOK, OnUnadvertise, directory
<1>7. CASE Lose(p, q)
  <2>1. lost' \in 0..MaxLost
    BY <1>7, UsersAssumption DEF Lose, TypeOK
  <2> QED
    BY <1>2, <1>7, <2>1 DEF TypeOK, Lose, directory, links
<1> QED
  BY <1>4, <1>5, <1>6, <1>7

\* Every variable of every process stays of its type: registrations name
\* processes and nodes, and threads carry what their next step needs.
THEOREM TypeCorrect == Spec => []TypeOK
<1>1. Init => TypeOK
  BY UsersAssumption DEF Init, Dir!Init, TypeOK, ThreadState, Idle
<1>2. TypeOK /\ [Next]_vars => TypeOK'
  <2> SUFFICES ASSUME TypeOK, [Next]_vars
               PROVE  TypeOK'
    OBVIOUS
  <2>1. CASE UserCall
    BY <2>1, TypeUserCall
  <2>2. ASSUME NEW p \in Proc, Start(p) \/ Crash(p) \/ Announce(p)
        PROVE  TypeOK'
    BY <2>2, TypeProcess
  <2>3. ASSUME NEW p \in Proc, UserStep(p)
        PROVE  TypeOK'
    BY <2>3, TypeUserStep, TypeThreadStep DEF UserStep, Threads
  <2>4. ASSUME NEW p \in Proc, RecvStep(p)
        PROVE  TypeOK'
    BY <2>4, TypeDiscovery, TypeThreadStep, TypeReceive
    DEF RecvStep, Threads
  <2>5. ASSUME NEW p \in Proc,
               \/ \E pub \in Publisher : Learn(p, pub)
               \/ \E q \in Proc : Expire(p, q) \/ Lose(p, q)
        PROVE  TypeOK'
    BY <2>5, TypeDiscovery, TypeReceive
  <2>6. CASE UNCHANGED vars
    BY <2>6 DEF TypeOK, vars, directory, links
  <2> QED
    BY <2>1, <2>2, <2>3, <2>4, <2>5, <2>6 DEF Next
<1> QED
  BY <1>1, <1>2, PTL DEF Spec

(***************************************************************************)
(* SocketConnected.  A registration stands for a connected socket from the *)
(* moment the callback prepares it, and while it waits in the thread, and  *)
(* travels.  Sockets are only lost with their process.  For the socket to  *)
(* be connected to the process the registration names, publishers must     *)
(* carry the address of their own process, wherever they are known.        *)
(***************************************************************************)
Own(pubs) == \A pub \in pubs : pub.addr = pub.pUuid

OwnAddress ==
    /\ Own(rumours)
    /\ \A p \in Proc : Own(offered[p]) /\ Own(known[p])
    /\ \A p \in Proc, t \in Threads :
          thread[p][t].op = "tell" => Own(thread[p][t].pubs)

\* With these dead processes and these sockets, the subscriber that the
\* datagram registers is connected.
Backed(m, dead, socks) ==
    m.sub.pUuid \in dead \/ m.ctrl \in socks[m.sub.pUuid]

RegistrationsBacked ==
    \A p \in Proc, t \in Threads :
        thread[p][t].op = "tell" =>
            \A m \in thread[p][t].regs : Backed(m, gone, sockets)

DatagramsBacked ==
    \A q, p \in Proc : \A i \in DOMAIN net[q][p] :
        net[q][p][i].type = "NEW_CONNECTION" =>
            Backed(net[q][p][i], gone, sockets)

SocketInv ==
    /\ OwnAddress
    /\ RegistrationsBacked
    /\ DatagramsBacked
    /\ SocketConnected

(***************************************************************************)
(* What a step does to addresses.                                          *)
(***************************************************************************)
ThreadsOwn ==
    \A p \in Proc, t \in Threads :
        thread[p][t].op = "tell" => Own(thread[p][t].pubs)

\* A thread moves on: only the publishers it is about to tell of matter.
LEMMA GotoOwn ==
    ASSUME TypeOK, ThreadsOwn, NEW p \in Proc, NEW t \in Threads, NEW state,
           Goto(p, t, state), state.op = "tell" => Own(state.pubs)
    PROVE  ThreadsOwn'
<1> SUFFICES ASSUME NEW q \in Proc, NEW u \in Threads,
                    thread'[q][u].op = "tell"
             PROVE  Own(thread'[q][u].pubs)
  BY DEF ThreadsOwn, Own
<1>1. thread'[q][u] = IF q = p /\ u = t THEN state ELSE thread[q][u]
  BY DEF Goto, TypeOK
<1> QED
  BY <1>1 DEF ThreadsOwn

\* What is added to, or left of, a set of publishers.
LEMMA OwnSets ==
    ASSUME NEW pubs, Own(pubs)
    PROVE  /\ \A less \in SUBSET pubs : Own(less)
           /\ \A pub : pub.addr = pub.pUuid =>
                 /\ Own(AddPublisher(pubs, pub))
                 /\ Own(Dir!AddPublisher(pubs, pub))
                 /\ Own({pub})
           /\ \A t, p, n : Own(DelPublisherByNode(pubs, t, p, n))
           /\ \A p : Own(DelPublishersByProc(pubs, p))
           /\ \A t : Own(PublishersOf(pubs, t))
BY DEF Own, AddPublisher, Dir!AddPublisher, DelPublisherByNode,
       DelPublishersByProc, PublishersOf

\* Publishers and their addresses, as processes come, go, offer and announce.
LEMMA OwnDirectory ==
    ASSUME TypeOK, OwnAddress, NEW p \in Proc,
           \/ Start(p) \/ Crash(p) \/ Announce(p)
           \/ \E pub \in Advertisable :
                 p = pub.pUuid /\ (Advertise(p, pub) \/ Unadvertise(p, pub))
    PROVE  OwnAddress'
<1>1. CASE Start(p)
  BY <1>1 DEF Start, Dir!Join, OwnAddress, Own
<1>2. CASE Crash(p)
  <2>1. \A q \in Proc, t \in Threads :
           thread'[q][t] = IF q = p THEN Idle ELSE thread[q][t]
    BY <1>2 DEF Crash, TypeOK
  <2>2. ThreadsOwn'
    BY <2>1 DEF OwnAddress, ThreadsOwn, Own, Idle
  <2>3. Own(rumours') /\ \A q \in Proc : Own(offered'[q]) /\ Own(known'[q])
    BY <1>2 DEF Crash, Dir!Leave, OwnAddress, Own, TypeOK
  <2> QED
    BY <2>2, <2>3 DEF OwnAddress, ThreadsOwn, Own
<1>3. CASE Announce(p)
  <2>1. Own(rumours')
    BY <1>3 DEF Announce, Dir!Announce, OwnAddress, Own
  <2> QED
    BY <1>3, <2>1 DEF Announce, Dir!Announce, OwnAddress, Own
<1>4. ASSUME NEW pub \in Advertisable, Advertise(p, pub)
      PROVE  OwnAddress'
  <2>1. pub.addr = pub.pUuid
    BY UsersAssumption
  <2>2. Own(rumours')
    BY <1>4, <2>1 DEF Advertise, Dir!Offer, OwnAddress, Own
  <2>3. \A q \in Proc : Own(offered'[q])
    BY <1>4, <2>1, OwnSets DEF Advertise, Dir!Offer, OwnAddress, TypeOK
  <2> QED
    BY <1>4, <2>2, <2>3 DEF Advertise, Dir!Offer, OwnAddress, Own
<1>5. ASSUME NEW pub \in Advertisable, Unadvertise(p, pub)
      PROVE  OwnAddress'
  <2>1. \A q \in Proc : Own(offered'[q])
    BY <1>5, OwnSets DEF Unadvertise, Dir!Withdraw, OwnAddress, TypeOK
  <2> QED
    BY <1>5, <2>1 DEF Unadvertise, Dir!Withdraw, OwnAddress, Own
<1> QED
  BY <1>1, <1>2, <1>3, <1>4, <1>5

\* Publishers and their addresses, as they are learned and forgotten.
LEMMA OwnKnown ==
    ASSUME TypeOK, OwnAddress, NEW p \in Proc,
           \/ \E pub \in Publisher : Learn(p, pub)
           \/ \E q \in Proc : Expire(p, q)
           \/ Removes(p)
    PROVE  OwnAddress'
<1>1. ThreadsOwn
  BY DEF OwnAddress, ThreadsOwn
<1>2. ASSUME NEW pub \in Publisher, Learn(p, pub)
      PROVE  OwnAddress'
  <2>1. pub.addr = pub.pUuid /\ Own(rumours')
    BY <1>2 DEF Learn, Dir!Learn, OwnAddress, Own
  <2>2. \A q \in Proc : Own(known'[q])
    BY <1>2, <2>1, OwnSets DEF Learn, Dir!Learn, OwnAddress, TypeOK
  <2>3. Own([op |-> "tell", pubs |-> {pub}, regs |-> {}].pubs)
    BY <2>1 DEF Own
  <2>4. ThreadsOwn'
    BY <1>1, <1>2, <2>3, GotoOwn DEF Learn, Threads
  <2> QED
    BY <1>2, <2>1, <2>2, <2>4
    DEF Learn, Dir!Learn, OwnAddress, ThreadsOwn, Own
<1>3. ASSUME NEW q \in Proc, Expire(p, q)
      PROVE  OwnAddress'
  <2>1. Own(rumours')
    BY <1>3 DEF Expire, Dir!Forget, OwnAddress, Own
  <2>2. \A r \in Proc : Own(known'[r])
    BY <1>3, OwnSets DEF Expire, OwnAddress, TypeOK
  <2>3. ThreadsOwn'
    BY <1>1, <1>3, GotoOwn DEF Expire, Threads
  <2> QED
    BY <1>3, <2>1, <2>2, <2>3
    DEF Expire, Dir!Forget, OwnAddress, ThreadsOwn, Own
<1>4. CASE Removes(p)
  <2>1. Own(rumours')
    BY <1>4 DEF Removes, Dir!Forget, OwnAddress, Own
  <2>2. \A r \in Proc : Own(known'[r])
    BY <1>4, OwnSets DEF Removes, OwnAddress, TypeOK
  <2>3. ThreadsOwn'
    BY <1>1, <1>4, GotoOwn DEF Removes, Threads, Idle
  <2> QED
    BY <1>4, <2>1, <2>2, <2>3
    DEF Removes, Dir!Forget, OwnAddress, ThreadsOwn, Own
<1> QED
  BY <1>2, <1>3, <1>4

\* The steps that leave the directory alone.
LEMMA OwnThreads ==
    ASSUME TypeOK, OwnAddress, UNCHANGED directory,
           NEW p \in Proc, NEW t \in Threads,
           \/ UNCHANGED thread
           \/ \E state : /\ Goto(p, t, state)
                         /\ state.op = "tell" => Own(state.pubs)
    PROVE  OwnAddress'
<1>1. ThreadsOwn'
  BY GotoOwn DEF OwnAddress, ThreadsOwn, Own
<1> QED
  BY <1>1 DEF directory, OwnAddress, ThreadsOwn, Own

\* Subscribing and unsubscribing, to the end.
LEMMA OwnSubscriber ==
    ASSUME TypeOK, OwnAddress, NEW p \in Proc,
           \/ \E h \in Subscribable : p = h.pUuid /\ Subscribe(h)
           \/ \E topic, nUuid, hs : Unsubscribe(p, topic, nUuid, hs)
           \/ Discover(p) \/ UnsubscribeLookup(p)
           \/ \E dst \in Proc \union {Anyone} : Unregister(p, dst)
    PROVE  OwnAddress'
<1> DEFINE s == thread[p]["user"]
           Moved == \E state : /\ Goto(p, "user", state)
                               /\ state.op = "tell" => Own(state.pubs)
<1>1. UNCHANGED directory
  BY DEF Subscribe, Unsubscribe, Discover, UnsubscribeLookup, Unregister
<1>2. ASSUME NEW h \in Subscribable, p = h.pUuid, Subscribe(h)
      PROVE  Moved
  BY <1>2 DEF Subscribe
<1>3. ASSUME NEW topic, NEW nUuid, NEW hs, Unsubscribe(p, topic, nUuid, hs)
      PROVE  UNCHANGED thread \/ Moved
  BY <1>3 DEF Unsubscribe
<1>4. CASE Discover(p)
  <2> DEFINE pubs == PublishersOf(offered[p] \union known[p], s.topic)
             next == [op |-> "tell", regs |-> {}, pubs |-> pubs]
  <2>1. Own(pubs)
    BY DEF OwnAddress, Own, PublishersOf
  <2>2. Own(next.pubs)
    BY <2>1
  <2>3. Goto(p, "user", next)
    BY <1>4 DEF Discover
  <2> HIDE DEF next
  <2>4. Moved
    BY <2>2, <2>3
  <2> QED
    BY <1>1, <2>4, OwnThreads DEF Threads
<1>5. ASSUME NEW dsts, Goto(p, "user", [op |-> "end", sub |-> s.sub,
                                        dsts |-> dsts])
      PROVE  Moved
  BY <1>5
<1>6. CASE UnsubscribeLookup(p)
  <2>1. \E dsts : Goto(p, "user", [op |-> "end", sub |-> s.sub,
                                  dsts |-> dsts])
    BY <1>6 DEF UnsubscribeLookup
  <2>2. Moved => OwnAddress'
    BY <1>1, OwnThreads DEF Threads
  <2> HIDE DEF Moved
  <2> QED
    BY <1>5, <2>1, <2>2
<1>7. ASSUME NEW dst, Unregister(p, dst)
      PROVE  Moved
  <2>1. \/ Goto(p, "user", Idle)
        \/ \E dsts : Goto(p, "user", [op |-> "end", sub |-> s.sub,
                                     dsts |-> dsts])
    BY <1>7 DEF Unregister
  <2>2. CASE Goto(p, "user", Idle)
    BY <2>2 DEF Idle
  <2> HIDE DEF Moved
  <2> QED
    BY <1>5, <2>1, <2>2
<1>8. UNCHANGED thread \/ Moved => OwnAddress'
  BY <1>1, OwnThreads DEF Threads
<1> HIDE DEF Moved
<1> QED
  BY <1>2, <1>3, <1>4, <1>6, <1>7, <1>8

\* The connection callback.
LEMMA OwnCallback ==
    ASSUME TypeOK, OwnAddress, NEW p \in Proc, NEW t \in Threads,
           ThreadStep(p, t)
    PROVE  OwnAddress'
<1> DEFINE s == thread[p][t]
<1>1. UNCHANGED directory
  BY DEF ThreadStep, OnNewConnection, Register, TellDone
<1>2. s.op = "tell" /\ Own(s.pubs)
  BY DEF ThreadStep, OnNewConnection, Register, TellDone, OwnAddress
<1>3. ASSUME NEW pub \in Publisher, OnNewConnection(p, t, pub)
      PROVE  \E regs : Goto(p, t, [op |-> "tell", pubs |-> s.pubs \ {pub},
                                  regs |-> regs])
  BY <1>3 DEF OnNewConnection
<1>4. ASSUME NEW m, Register(p, t, m)
      PROVE  \E regs : Goto(p, t, [op |-> "tell", pubs |-> s.pubs,
                                  regs |-> regs])
  BY <1>4 DEF Register
<1>5. CASE TellDone(p, t)
  BY <1>1, <1>5, OwnThreads DEF TellDone, Idle
<1>6. ASSUME NEW pubs, NEW regs, Own(pubs),
             Goto(p, t, [op |-> "tell", pubs |-> pubs, regs |-> regs])
      PROVE  OwnAddress'
  BY <1>1, <1>6, OwnThreads
<1>7. \A pub : Own(s.pubs \ {pub})
  BY <1>2 DEF Own
<1> QED
  BY <1>2, <1>3, <1>4, <1>5, <1>6, <1>7 DEF ThreadStep

\* What discovery's thread is told.
LEMMA OwnReceive ==
    ASSUME TypeOK, OwnAddress, NEW p \in Proc, NEW q \in Proc,
           \/ OnProcessLost(p) \/ Lose(p, q)
           \/ OnNewRegistration(p, q) \/ OnEndRegistration(p, q)
           \/ OnUnadvertise(p, q)
    PROVE  OwnAddress'
<1>1. UNCHANGED directory
  BY DEF OnProcessLost, Lose, OnNewRegistration, OnEndRegistration,
         OnUnadvertise
<1>2. \/ UNCHANGED thread
      \/ Goto(p, "recv", Idle)
      \/ \E pub : Goto(p, "recv", [op |-> "remove", pub |-> pub])
  BY DEF OnProcessLost, Lose, OnNewRegistration, OnEndRegistration,
         OnUnadvertise
<1>3. \/ UNCHANGED thread
      \/ \E state : /\ Goto(p, "recv", state)
                    /\ state.op = "tell" => Own(state.pubs)
  <2>1. Idle.op # "tell"
    BY DEF Idle
  <2>2. ASSUME NEW pub, Goto(p, "recv", [op |-> "remove", pub |-> pub])
        PROVE  \E state : /\ Goto(p, "recv", state)
                          /\ state.op = "tell" => Own(state.pubs)
    BY <2>2
  <2> QED
    BY <1>2, <2>1, <2>2
<1> QED
  BY <1>1, <1>3, OwnThreads DEF Threads

\* Publishers carry the address of the process they are of, wherever they
\* are known.
LEMMA OwnAddressStep ==
    ASSUME TypeOK, OwnAddress, [Next]_vars
    PROVE  OwnAddress'
<1>1. CASE UserCall
  <2>1. \A pub \in Advertisable : pub.pUuid \in Proc
    BY UsersAssumption DEF Publisher
  <2>2. \A h \in Subscribable : h.pUuid \in Proc
    BY UsersAssumption DEF SubHandler
  <2> QED
    BY <1>1, <2>1, <2>2, OwnDirectory, OwnSubscriber DEF UserCall
<1>2. ASSUME NEW p \in Proc, UserStep(p)
      PROVE  OwnAddress'
  BY <1>2, OwnSubscriber, OwnCallback DEF UserStep, Threads
<1>3. ASSUME NEW p \in Proc, RecvStep(p)
      PROVE  OwnAddress'
  BY <1>3, OwnReceive, OwnKnown, OwnCallback DEF RecvStep, Threads
<1>4. CASE UNCHANGED vars
  BY <1>4 DEF vars, directory, OwnAddress, Own
<1> QED
  BY <1>1, <1>2, <1>3, <1>4, OwnDirectory, OwnKnown, OwnReceive DEF Next

(***************************************************************************)
(* What a step does to sockets, registrations and datagrams.               *)
(***************************************************************************)
\* A socket is only lost with its process.
SocketsGrow ==
    /\ gone \subseteq gone'
    /\ \A p \in Proc : p \in gone' \/ sockets[p] \subseteq sockets'[p]

\* A registration that waits in a thread waited there before, or is new and
\* stands for a connected socket; and likewise for datagrams and subscribers.
RegistrationsFrom ==
    \A p \in Proc, t \in Threads :
        thread'[p][t].op = "tell" =>
            \A m \in thread'[p][t].regs :
                \/ thread[p][t].op = "tell" /\ m \in thread[p][t].regs
                \/ Backed(m, gone', sockets')

DatagramsFrom ==
    \A q, p \in Proc : \A i \in DOMAIN net'[q][p] :
        \/ \E j \in DOMAIN net[q][p] : net'[q][p][i] = net[q][p][j]
        \/ net'[q][p][i].type = "NEW_CONNECTION" =>
               Backed(net'[q][p][i], gone', sockets')

SubscribersFrom ==
    \A p \in Proc : \A r \in remoteSubscribers'[p] :
        \/ r \in remoteSubscribers[p]
        \/ r.pUuid \in gone' \/ p \in sockets'[r.pUuid]

\* These four are all the invariant needs of a step.
LEMMA SocketPreserved ==
    ASSUME TypeOK, TypeOK', SocketInv, OwnAddress',
           SocketsGrow, RegistrationsFrom, DatagramsFrom, SubscribersFrom
    PROVE  SocketInv'
<1>1. ASSUME NEW p \in Proc, NEW t \in Threads, thread'[p][t].op = "tell",
             NEW m \in thread'[p][t].regs
      PROVE  Backed(m, gone', sockets')
  <2>1. m \in Message /\ m.sub.pUuid \in Proc
    <3>1. thread'[p][t].op = "tell" => thread'[p][t].regs \in SUBSET Message
      <4>1. thread'[p][t] \in ThreadState
        BY DEF TypeOK
      <4> QED
        BY <4>1 DEF ThreadState, Idle
    <3> QED
      BY <1>1, <3>1 DEF Message, Publisher
  <2>2. Backed(m, gone, sockets) \/ Backed(m, gone', sockets')
    BY <1>1 DEF RegistrationsFrom, SocketInv, RegistrationsBacked
  <2> QED
    BY <2>1, <2>2 DEF SocketsGrow, Backed
<1>2. ASSUME NEW q \in Proc, NEW p \in Proc, NEW i \in DOMAIN net'[q][p],
             net'[q][p][i].type = "NEW_CONNECTION"
      PROVE  Backed(net'[q][p][i], gone', sockets')
  <2>1. net'[q][p][i].sub.pUuid \in Proc
    <3>1. net'[q][p] \in Seq(Message)
      BY DEF TypeOK
    <3>2. net'[q][p][i] \in Message
      BY <3>1
    <3> QED
      BY <3>2 DEF Message, Publisher
  <2>2. \/ Backed(net'[q][p][i], gone, sockets)
        \/ Backed(net'[q][p][i], gone', sockets')
    BY <1>2 DEF DatagramsFrom, SocketInv, DatagramsBacked
  <2> QED
    BY <2>1, <2>2 DEF SocketsGrow, Backed
<1>3. ASSUME NEW p \in Proc, NEW r \in remoteSubscribers'[p]
      PROVE  r.pUuid \in gone' \/ p \in sockets'[r.pUuid]
  <2>1. r.pUuid \in Proc
    BY DEF TypeOK, Publisher
  <2>2. \/ r.pUuid \in gone \/ p \in sockets[r.pUuid]
        \/ r.pUuid \in gone' \/ p \in sockets'[r.pUuid]
    BY DEF SubscribersFrom, SocketInv, SocketConnected
  <2> QED
    BY <2>1, <2>2 DEF SocketsGrow
<1> QED
  BY <1>1, <1>2, <1>3
  DEF SocketInv, RegistrationsBacked, DatagramsBacked, SocketConnected

\* What stays the same.
LEMMA SameSockets ==
    ASSUME UNCHANGED <<gone, sockets>>
    PROVE  SocketsGrow
BY DEF SocketsGrow

LEMMA SameThreads ==
    ASSUME UNCHANGED thread
    PROVE  RegistrationsFrom
BY DEF RegistrationsFrom

LEMMA SameNet ==
    ASSUME UNCHANGED net
    PROVE  DatagramsFrom
BY DEF DatagramsFrom

LEMMA SameSubscribers ==
    ASSUME UNCHANGED remoteSubscribers
    PROVE  SubscribersFrom
BY DEF SubscribersFrom

\* A thread that moves on with no registrations but those it had.
LEMMA GotoFrom ==
    ASSUME TypeOK, NEW p \in Proc, NEW t \in Threads, NEW state,
           Goto(p, t, state),
           state.op = "tell" =>
               \A m \in state.regs :
                   \/ thread[p][t].op = "tell" /\ m \in thread[p][t].regs
                   \/ Backed(m, gone', sockets')
    PROVE  RegistrationsFrom
<1> SUFFICES ASSUME NEW q \in Proc, NEW u \in Threads,
                    thread'[q][u].op = "tell", NEW m \in thread'[q][u].regs
             PROVE  \/ thread[q][u].op = "tell" /\ m \in thread[q][u].regs
                    \/ Backed(m, gone', sockets')
  BY DEF RegistrationsFrom
<1>1. thread'[q][u] = IF q = p /\ u = t THEN state ELSE thread[q][u]
  BY DEF Goto, TypeOK
<1> QED
  BY <1>1

\* A multicast puts nothing else in flight.
LEMMA MulticastFrom ==
    ASSUME TypeOK, NEW p \in Proc, NEW m \in Message, Multicast(p, m),
           m.type = "NEW_CONNECTION" => Backed(m, gone', sockets')
    PROVE  DatagramsFrom
<1> SUFFICES ASSUME NEW q \in Proc, NEW r \in Proc, NEW i \in DOMAIN net'[q][r]
             PROVE  \/ \E j \in DOMAIN net[q][r] : net'[q][r][i] = net[q][r][j]
                    \/ net'[q][r][i] = m
  BY DEF DatagramsFrom
<1>1. net[q][r] \in Seq(Message)
  BY DEF TypeOK
<1>2. net'[q][r] = net[q][r] \/ net'[q][r] = Append(net[q][r], m)
  BY MulticastType
<1>3. CASE net'[q][r] = Append(net[q][r], m)
  <2>1. i = Len(net[q][r]) + 1 \/ i \in DOMAIN net[q][r]
    BY <1>1, <1>3
  <2>2. CASE i = Len(net[q][r]) + 1
    BY <1>1, <1>3, <2>2
  <2>3. CASE i \in DOMAIN net[q][r]
    BY <1>1, <1>3, <2>3
  <2> QED
    BY <2>1, <2>2, <2>3
<1> QED
  BY <1>2, <1>3

SocketStep ==
    SocketsGrow /\ RegistrationsFrom /\ DatagramsFrom /\ SubscribersFrom

\* Processes that start, crash and announce, and what discovery knows.
LEMMA SocketProcess ==
    ASSUME TypeOK, NEW p \in Proc,
           \/ Start(p) \/ Crash(p) \/ Announce(p)
           \/ \E pub \in Publisher : Learn(p, pub)
           \/ \E q \in Proc : Expire(p, q)
           \/ OnProcessLost(p) \/ Removes(p)
    PROVE  SocketStep
<1>1. CASE Crash(p)
  <2>1. SocketsGrow
    BY <1>1 DEF Crash, SocketsGrow, TypeOK
  <2>2. RegistrationsFrom
    <3>1. \A q \in Proc, t \in Threads :
             thread'[q][t] = IF q = p THEN Idle ELSE thread[q][t]
      BY <1>1 DEF Crash, TypeOK
    <3> QED
      BY <3>1 DEF RegistrationsFrom, Idle
  <2>3. DatagramsFrom
    <3>1. \A q, r \in Proc :
             net'[q][r] = IF r = p THEN <<>> ELSE net[q][r]
      BY <1>1 DEF Crash, TypeOK
    <3>2. DOMAIN <<>> = {}
      OBVIOUS
    <3> QED
      BY <3>1, <3>2 DEF DatagramsFrom
  <2>4. SubscribersFrom
    BY <1>1 DEF Crash, SubscribersFrom, TypeOK
  <2> QED
    BY <2>1, <2>2, <2>3, <2>4 DEF SocketStep
<1>2. CASE ~ Crash(p)
  <2>1. UNCHANGED <<gone, sockets, remoteSubscribers, net>>
    BY <1>2 DEF Start, Announce, Learn, Expire, OnProcessLost, Removes, links
  <2>2. \/ UNCHANGED thread
        \/ Goto(p, "recv", Idle)
        \/ \E q : Goto(p, "recv", [op |-> "lost", proc |-> q])
        \/ \E pub : Goto(p, "recv", [op |-> "tell", pubs |-> {pub},
                                    regs |-> {}])
    BY <1>2 DEF Start, Announce, Learn, Expire, OnProcessLost, Removes
  <2>3. RegistrationsFrom
    <3>1. CASE UNCHANGED thread
      BY <3>1, SameThreads
    <3>2. CASE Goto(p, "recv", Idle)
      BY <3>2, GotoFrom DEF Idle, Threads
    <3>3. ASSUME NEW q, Goto(p, "recv", [op |-> "lost", proc |-> q])
          PROVE  RegistrationsFrom
      BY <3>3, GotoFrom DEF Threads
    <3>4. ASSUME NEW pub, Goto(p, "recv", [op |-> "tell", pubs |-> {pub},
                                           regs |-> {}])
          PROVE  RegistrationsFrom
      BY <3>4, GotoFrom DEF Threads
    <3> QED
      BY <2>2, <3>1, <3>2, <3>3, <3>4
  <2> QED
    BY <2>1, <2>3, SameSockets, SameNet, SameSubscribers DEF SocketStep
<1> QED
  BY <1>1, <1>2

\* The user's calls, and what the user's thread does outside the callback.
LEMMA SocketUser ==
    ASSUME TypeOK, NEW p \in Proc,
           \/ \E pub \in Advertisable :
                 p = pub.pUuid /\ (Advertise(p, pub) \/ Unadvertise(p, pub))
           \/ \E h \in Subscribable : p = h.pUuid /\ Subscribe(h)
           \/ \E topic, nUuid, hs : Unsubscribe(p, topic, nUuid, hs)
           \/ Discover(p) \/ UnsubscribeLookup(p)
           \/ \E dst \in Proc \union {Anyone} : Unregister(p, dst)
    PROVE  SocketStep
<1> DEFINE s == thread[p]["user"]
           sends(m) == Multicast(p, m) /\ m.type # "NEW_CONNECTION"
           moves(state) ==
               Goto(p, "user", state) /\ (state.op = "tell" => state.regs = {})
<1>1. UNCHANGED <<gone, sockets, remoteSubscribers>>
  BY DEF Advertise, Unadvertise, Subscribe, Unsubscribe, Discover,
         UnsubscribeLookup, Unregister, links
<1>2. UNCHANGED net \/ \E m \in Message : sends(m)
  <2>1. ASSUME NEW pub \in Advertisable, Unadvertise(p, pub)
        PROVE  \E m \in Message : sends(m)
    <3> DEFINE m == [type |-> "UNADVERTISE", sub |-> pub, ctrl |-> Anyone]
    <3>1. m \in Message /\ sends(m)
      BY <2>1, UsersAssumption DEF Unadvertise, Message
    <3> QED
      BY <3>1
  <2>2. ASSUME NEW dst \in Proc \union {Anyone}, Unregister(p, dst)
        PROVE  \E m \in Message : sends(m)
    <3> DEFINE m == [type |-> "END_CONNECTION", sub |-> s.sub, ctrl |-> dst]
    <3>1. s.sub \in Publisher
      BY <2>2, Carried DEF Unregister, Threads
    <3>2. m \in Message /\ sends(m)
      BY <2>2, <3>1 DEF Unregister, Message
    <3> QED
      BY <3>2
  <2>3. CASE ~ \E m \in Message : sends(m)
    BY <2>1, <2>2, <2>3 DEF Advertise, Subscribe, Unsubscribe, Discover,
       UnsubscribeLookup
  <2> QED
    BY <2>3
<1>3. DatagramsFrom
  BY <1>2, SameNet, MulticastFrom
<1>4. ASSUME NEW state, moves(state)
      PROVE  RegistrationsFrom
  BY <1>4, GotoFrom DEF Threads
<1>5. RegistrationsFrom
  <2>1. ASSUME NEW h \in Subscribable, p = h.pUuid, Subscribe(h)
        PROVE  moves([op |-> "discover", topic |-> h.topic])
    BY <2>1 DEF Subscribe
  <2>2. ASSUME NEW topic, NEW nUuid, NEW hs, Unsubscribe(p, topic, nUuid, hs)
        PROVE  \/ UNCHANGED thread
               \/ moves([op |-> "lookup",
                         sub |-> SubRecord(p, p, topic, nUuid)])
    BY <2>2 DEF Unsubscribe
  <2>3. CASE Discover(p)
    <3> DEFINE pubs == PublishersOf(offered[p] \union known[p], s.topic)
    <3>1. moves([op |-> "tell", regs |-> {}, pubs |-> pubs])
      BY <2>3 DEF Discover
    <3> QED
      BY <1>4, <3>1
  <2>4. ASSUME NEW dsts, Goto(p, "user", [op |-> "end", sub |-> s.sub,
                                          dsts |-> dsts])
        PROVE  RegistrationsFrom
    BY <1>4, <2>4
  <2>5. CASE UnsubscribeLookup(p)
    <3>1. \E dsts : Goto(p, "user", [op |-> "end", sub |-> s.sub,
                                    dsts |-> dsts])
      BY <2>5 DEF UnsubscribeLookup
    <3> QED
      BY <2>4, <3>1
  <2>6. ASSUME NEW dst, Unregister(p, dst)
        PROVE  RegistrationsFrom
    <3>1. \/ Goto(p, "user", Idle)
          \/ \E dsts : Goto(p, "user", [op |-> "end", sub |-> s.sub,
                                       dsts |-> dsts])
      BY <2>6 DEF Unregister
    <3>2. CASE Goto(p, "user", Idle)
      BY <1>4, <3>2 DEF Idle
    <3> QED
      BY <2>4, <3>1, <3>2
  <2>7. ASSUME NEW pub, Advertise(p, pub) \/ Unadvertise(p, pub)
        PROVE  UNCHANGED thread
    BY <2>7 DEF Advertise, Unadvertise
  <2> HIDE DEF moves
  <2> QED
    BY <1>4, <2>1, <2>2, <2>3, <2>5, <2>6, <2>7, SameThreads
<1> QED
  BY <1>1, <1>3, <1>5, SameSockets, SameSubscribers DEF SocketStep

\* The connection callback.  It connects the socket before it prepares the
\* registrations, and to the process they are meant for.
LEMMA SocketCallback ==
    ASSUME TypeOK, SocketInv, NEW p \in Proc, NEW t \in Threads,
           ThreadStep(p, t)
    PROVE  SocketStep
<1> DEFINE s == thread[p][t]
           next(pubs, regs) == [op |-> "tell", pubs |-> pubs, regs |-> regs]
<1>1. UNCHANGED <<gone, remoteSubscribers>>
  BY DEF ThreadStep, OnNewConnection, Register, TellDone
<1>2. ASSUME NEW pubs, NEW regs, Goto(p, t, next(pubs, regs)),
             \A m \in regs : \/ s.op = "tell" /\ m \in s.regs
                             \/ Backed(m, gone', sockets')
      PROVE  RegistrationsFrom
  BY <1>2, GotoFrom
<1>3. ASSUME NEW pub \in Publisher, OnNewConnection(p, t, pub)
      PROVE  SocketStep
  <2>1. DatagramsFrom /\ SubscribersFrom
    BY <1>1, <1>3, SameNet, SameSubscribers DEF OnNewConnection
  <2>2. pub.addr = pub.pUuid
    BY <1>3 DEF OnNewConnection, SocketInv, OwnAddress, Own
  <2>3. CASE Interested(p, pub)
    <3>1. /\ sockets' = [sockets EXCEPT ![p] = @ \union {pub.addr}]
          /\ Goto(p, t, next(s.pubs \ {pub}, Registrations(p, pub)))
      BY <1>3, <2>3 DEF OnNewConnection
    <3>2. SocketsGrow /\ pub.addr \in sockets'[p]
      BY <1>1, <3>1 DEF SocketsGrow, TypeOK
    <3>3. \A m \in Registrations(p, pub) : Backed(m, gone', sockets')
      BY <2>2, <3>2, RegistrationsType DEF Backed
    <3>4. RegistrationsFrom
      BY <1>2, <3>1, <3>3
    <3> QED
      BY <2>1, <3>2, <3>4 DEF SocketStep
  <2>4. CASE ~ Interested(p, pub)
    <3>1. UNCHANGED links /\ Goto(p, t, next(s.pubs \ {pub}, {}))
      BY <1>3, <2>4 DEF OnNewConnection
    <3>2. RegistrationsFrom
      BY <1>2, <3>1
    <3> QED
      BY <1>1, <2>1, <3>1, <3>2, SameSockets DEF SocketStep, links
  <2> QED
    BY <2>3, <2>4
<1>4. ASSUME NEW m, m \in Registering(p, t), Register(p, t, m)
      PROVE  SocketStep
  <2>1. m \in s.regs /\ s.op = "tell" /\ UNCHANGED sockets
    BY <1>4 DEF Register, links
  <2>2. m \in Message
    BY <2>1, Carried
  <2>3. Backed(m, gone, sockets)
    BY <2>1 DEF SocketInv, RegistrationsBacked
  <2>4. DatagramsFrom
    BY <1>1, <1>4, <2>1, <2>2, <2>3, MulticastFrom DEF Register
  <2>5. Goto(p, t, next(s.pubs, s.regs \ {m}))
    BY <1>4 DEF Register
  <2>6. RegistrationsFrom
    BY <1>2, <2>1, <2>5
  <2> QED
    BY <1>1, <2>1, <2>4, <2>6, SameSockets, SameSubscribers DEF SocketStep
<1>5. CASE TellDone(p, t)
  <2>1. RegistrationsFrom
    BY <1>5, GotoFrom DEF TellDone, Idle
  <2> QED
    BY <1>1, <1>5, <2>1, SameSockets, SameNet, SameSubscribers
    DEF TellDone, SocketStep, links
<1> QED
  BY <1>3, <1>4, <1>5 DEF ThreadStep

\* Datagrams.  Only a registration that is meant for the process is acted on,
\* and it stands for a connected socket.
LEMMA SocketReceive ==
    ASSUME TypeOK, SocketInv, NEW p \in Proc, NEW q \in Proc,
           \/ OnNewRegistration(p, q) \/ OnEndRegistration(p, q)
           \/ OnUnadvertise(p, q) \/ Lose(p, q)
    PROVE  SocketStep
<1> DEFINE m == Head(net[q][p])
<1>1. net[q][p] # <<>> /\ net' = [net EXCEPT ![q][p] = Tail(@)]
  BY DEF OnNewRegistration, OnEndRegistration, OnUnadvertise, Take, Lose
<1>2. m = net[q][p][1] /\ 1 \in DOMAIN net[q][p]
  BY <1>1, TakeType
<1>6. DatagramsFrom
  <2>1. \A r, s \in Proc : \A i \in DOMAIN net'[r][s] :
           \E j \in DOMAIN net[r][s] : net'[r][s][i] = net[r][s][j]
    BY <1>1, TakeType
  <2> QED
    BY <2>1 DEF DatagramsFrom
<1>3. SocketsGrow
  BY SameSockets DEF OnNewRegistration, OnEndRegistration, OnUnadvertise,
                     Lose, links
<1>4. RegistrationsFrom
  <2>1. \/ UNCHANGED thread
        \/ \E pub : Goto(p, "recv", [op |-> "remove", pub |-> pub])
    BY DEF OnNewRegistration, OnEndRegistration, OnUnadvertise, Lose
  <2>2. ASSUME NEW pub, Goto(p, "recv", [op |-> "remove", pub |-> pub])
        PROVE  RegistrationsFrom
    BY <2>2, GotoFrom DEF Threads
  <2> QED
    BY <2>1, <2>2, SameThreads
<1>5. SubscribersFrom
  <2>1. CASE OnNewRegistration(p, q)
    <3>1. /\ UNCHANGED <<gone, sockets>>
          /\ m.type = "NEW_CONNECTION"
          /\ remoteSubscribers' = [remoteSubscribers EXCEPT ![p] =
                 IF m.ctrl = p THEN AddPublisher(@, m.sub) ELSE @]
      BY <2>1 DEF OnNewRegistration, Take, ForMe, links
    <3>2. Backed(m, gone, sockets)
      BY <1>2, <3>1 DEF SocketInv, DatagramsBacked
    <3> HIDE DEF m
    <3> QED
      BY <3>1, <3>2 DEF SubscribersFrom, Backed, AddPublisher, TypeOK
  <2>2. CASE OnEndRegistration(p, q)
    <3>1. remoteSubscribers' = [remoteSubscribers EXCEPT ![p] =
              IF m.ctrl \in {Anyone, p}
              THEN DelPublisherByNode(@, m.sub.topic, m.sub.pUuid,
                                      m.sub.nUuid)
              ELSE @]
      BY <2>2 DEF OnEndRegistration
    <3> HIDE DEF m
    <3> QED
      BY <3>1 DEF SubscribersFrom, DelPublisherByNode, TypeOK
  <2>3. CASE OnUnadvertise(p, q)
    <3>1. \/ UNCHANGED remoteSubscribers
          \/ remoteSubscribers' = [remoteSubscribers EXCEPT ![p] =
                 DelPublisherByNode(@, m.sub.topic, m.sub.pUuid,
                                    m.sub.nUuid)]
      BY <2>3 DEF OnUnadvertise
    <3> HIDE DEF m
    <3>2. CASE UNCHANGED remoteSubscribers
      BY <3>2, SameSubscribers
    <3>3. CASE ~ UNCHANGED remoteSubscribers
      <4>1. remoteSubscribers' = [remoteSubscribers EXCEPT ![p] =
                DelPublisherByNode(@, m.sub.topic, m.sub.pUuid, m.sub.nUuid)]
        BY <3>1, <3>3
      <4> QED
        BY <4>1 DEF SubscribersFrom, DelPublisherByNode, TypeOK
    <3> QED
      BY <3>2, <3>3
  <2>4. CASE Lose(p, q)
    BY <2>4, SameSubscribers DEF Lose
  <2> QED
    BY <2>1, <2>2, <2>3, <2>4
<1> QED
  BY <1>3, <1>4, <1>5, <1>6 DEF SocketStep

\* The invariant, for every step.
LEMMA SocketInvStep ==
    ASSUME TypeOK, TypeOK', SocketInv, [Next]_vars
    PROVE  SocketInv'
<1>1. OwnAddress'
  BY OwnAddressStep DEF SocketInv
<1>2. SocketStep
  <2>1. CASE UserCall
    <3>1. \A pub \in Advertisable : pub.pUuid \in Proc
      BY UsersAssumption DEF Publisher
    <3>2. \A h \in Subscribable : h.pUuid \in Proc
      BY UsersAssumption DEF SubHandler
    <3> QED
      BY <2>1, <3>1, <3>2, SocketUser DEF UserCall
  <2>2. ASSUME NEW p \in Proc, UserStep(p)
        PROVE  SocketStep
    BY <2>2, SocketUser, SocketCallback DEF UserStep, Threads
  <2>3. ASSUME NEW p \in Proc, RecvStep(p)
        PROVE  SocketStep
    BY <2>3, SocketProcess, SocketReceive, SocketCallback
    DEF RecvStep, Threads
  <2>4. CASE UNCHANGED vars
    BY <2>4, SameSockets, SameThreads, SameNet, SameSubscribers
    DEF vars, links, SocketStep
  <2> QED
    BY <2>1, <2>2, <2>3, <2>4, SocketProcess, SocketReceive DEF Next
<1> QED
  BY <1>1, <1>2, SocketPreserved DEF SocketStep

\* A registered subscriber has connected its socket to the process it is
\* registered with, unless it crashed: whatever the order in which the two
\* threads of each process run the callback, whatever is lost, however often
\* handlers and publishers come and go.
THEOREM SubscribersConnected == Spec => []SocketConnected
<1>1. Init => SocketInv
  BY DEF Init, Dir!Init, SocketInv, OwnAddress, RegistrationsBacked,
         DatagramsBacked, SocketConnected, Own, Idle
<1>2. TypeOK /\ TypeOK' /\ SocketInv /\ [Next]_vars => SocketInv'
  BY SocketInvStep
<1>3. SocketInv => SocketConnected
  BY DEF SocketInv
<1> QED
  BY <1>1, <1>2, <1>3, TypeCorrect, PTL DEF Spec

(***************************************************************************)
(* What Reaches of PubSub is made of: a handler's process hears the        *)
(* publishers it knows, and they know of its nodes.                        *)
(***************************************************************************)
\* Moving a thread on, thread by thread.
LEMMA GotoSame ==
    ASSUME TypeOK, NEW p \in Proc, NEW t \in Threads, NEW state,
           Goto(p, t, state)
    PROVE  \A q \in Proc, u \in Threads :
               thread'[q][u] = IF q = p /\ u = t THEN state ELSE thread[q][u]
BY DEF Goto, TypeOK

(***************************************************************************)
(* Hears.  Between the moment a publisher is learned, or a handler stored, *)
(* and the moment the callback connects the socket and sets the filter,    *)
(* the publisher waits in a thread: among those it is about to tell of, or *)
(* to be looked up by Subscribe.  A filter is only lost with the last      *)
(* handler of its topic, and the next one sets it again.                   *)
(***************************************************************************)
HeardOrTold(p, pub) ==
    \/ pub.addr \in sockets[p] /\ pub.topic \in filters[p]
    \/ /\ thread[p]["user"].op = "discover"
       /\ thread[p]["user"].topic = pub.topic
    \/ \E t \in Threads :
          thread[p][t].op = "tell" /\ pub \in thread[p][t].pubs

HearsInv ==
    \A h \in localSubscribers : \A pub \in known[h.pUuid] :
        pub.topic = h.topic /\ pub.pUuid # h.pUuid =>
            HeardOrTold(h.pUuid, pub)

\* What a step does: a known publisher of a topic that still has handlers
\* stays heard or told of, and a new handler and a new publisher are.
HeardKept ==
    \A p \in Proc, pub \in Publisher :
        (/\ pub \in known[p]
         /\ pub.pUuid # p
         /\ \E h \in localSubscribers' : h.pUuid = p /\ h.topic = pub.topic
         /\ HeardOrTold(p, pub))
            => HeardOrTold(p, pub)'

HandlersTold ==
    \A h \in localSubscribers' \ localSubscribers :
        \A pub \in known'[h.pUuid] :
            pub.topic = h.topic => HeardOrTold(h.pUuid, pub)'

KnownTold ==
    \A p \in Proc : \A pub \in known'[p] \ known[p] : HeardOrTold(p, pub)'

HearsStep == HeardKept /\ HandlersTold /\ KnownTold

LEMMA HearsPreserved ==
    ASSUME TypeOK, TypeOK', HearsInv, HearsStep
    PROVE  HearsInv'
<1> SUFFICES ASSUME NEW h \in localSubscribers', NEW pub \in known'[h.pUuid],
                    pub.topic = h.topic, pub.pUuid # h.pUuid
             PROVE  HeardOrTold(h.pUuid, pub)'
  BY DEF HearsInv, HeardOrTold
<1>1. h.pUuid \in Proc /\ pub \in Publisher
  BY DEF TypeOK, SubHandler
<1>2. CASE h \in localSubscribers /\ pub \in known[h.pUuid]
  <2>1. HeardOrTold(h.pUuid, pub)
    BY <1>2 DEF HearsInv
  <2> QED
    BY <1>1, <1>2, <2>1 DEF HearsStep, HeardKept
<1>3. CASE h \notin localSubscribers
  BY <1>3 DEF HearsStep, HandlersTold
<1>4. CASE pub \notin known[h.pUuid]
  BY <1>1, <1>4 DEF HearsStep, KnownTold
<1> QED
  BY <1>2, <1>3, <1>4

\* Steps that store no handler, learn no publisher, keep the sockets, and
\* take no thread away from what it has to tell.
LEMMA HearsSame ==
    ASSUME localSubscribers' \subseteq localSubscribers,
           \A p \in Proc : known'[p] \subseteq known[p],
           UNCHANGED <<sockets, filters>>,
           \A p \in Proc, t \in Threads :
               \/ thread'[p][t] = thread[p][t]
               \/ thread[p][t].op \notin {"discover", "tell"}
               \/ /\ thread[p][t].op = "tell" /\ thread'[p][t].op = "tell"
                  /\ thread[p][t].pubs \subseteq thread'[p][t].pubs
               \/ thread[p][t].op = "tell" /\ thread[p][t].pubs = {}
    PROVE  HearsStep
BY DEF HearsStep, HeardKept, HandlersTold, KnownTold, HeardOrTold, Threads

\* Processes and the directory.
LEMMA HearsProcess ==
    ASSUME TypeOK, NEW p \in Proc,
           \/ Start(p) \/ Crash(p) \/ Announce(p)
           \/ \E pub \in Advertisable :
                 p = pub.pUuid /\ (Advertise(p, pub) \/ Unadvertise(p, pub))
    PROVE  HearsStep
<1>1. CASE Crash(p)
  <2>1. /\ localSubscribers' = {h \in localSubscribers : h.pUuid # p}
        /\ \A q \in Proc :
              IF q = p THEN known'[q] = {}
              ELSE /\ known'[q] = known[q]
                   /\ sockets'[q] = sockets[q] /\ filters'[q] = filters[q]
                   /\ thread'[q] = thread[q]
    BY <1>1 DEF Crash, Dir!Leave, TypeOK
  <2> QED
    BY <2>1 DEF HearsStep, HeardKept, HandlersTold, KnownTold, HeardOrTold
<1>2. CASE ~ Crash(p)
  <2>1. UNCHANGED <<localSubscribers, known, sockets, filters, thread>>
    BY <1>2 DEF Start, Dir!Join, Announce, Dir!Announce, Advertise, Dir!Offer,
                Unadvertise, Dir!Withdraw, links
  <2> QED
    BY <2>1, HearsSame
<1> QED
  BY <1>1, <1>2

\* Subscribe and Unsubscribe, to the end.
LEMMA HearsSubscriber ==
    ASSUME TypeOK, NEW p \in Proc,
           \/ \E h \in Subscribable : p = h.pUuid /\ Subscribe(h)
           \/ \E topic \in Topic : \E nUuid, hs :
                 Unsubscribe(p, topic, nUuid, hs)
           \/ Discover(p) \/ UnsubscribeLookup(p)
           \/ \E dst \in Proc \union {Anyone} : Unregister(p, dst)
    PROVE  HearsStep
<1> DEFINE s == thread[p]["user"]
<1>1. ASSUME NEW h \in Subscribable, p = h.pUuid, Subscribe(h)
      PROVE  HearsStep
  <2> DEFINE next == [op |-> "discover", topic |-> h.topic]
  <2>1. /\ Goto(p, "user", next) /\ s = Idle
        /\ localSubscribers' = localSubscribers \union {h}
        /\ UNCHANGED <<known, sockets, filters>>
    BY <1>1 DEF Subscribe, Call, directory, links
  <2>2. \A q \in Proc, u \in Threads :
           thread'[q][u] = IF q = p /\ u = "user" THEN next ELSE thread[q][u]
    BY <2>1, GotoSame DEF Threads
  <2> QED
    BY <1>1, <2>1, <2>2
    DEF HearsStep, HeardKept, HandlersTold, KnownTold, HeardOrTold, Threads,
        Idle
<1>2. ASSUME NEW topic \in Topic, NEW nUuid, NEW hs,
             Unsubscribe(p, topic, nUuid, hs)
      PROVE  HearsStep
  <2>1. /\ s = Idle
        /\ localSubscribers' = localSubscribers \ hs
        /\ UNCHANGED <<known, sockets>>
        /\ \/ UNCHANGED thread
           \/ \E state : Goto(p, "user", state)
        /\ \/ UNCHANGED filters
           \/ /\ HandlersOf(p, topic) \subseteq hs
              /\ filters' = [filters EXCEPT ![p] = @ \ {topic}]
    BY <1>2 DEF Unsubscribe, Call, directory
  <2>2. \A q \in Proc, u \in Threads :
           thread'[q][u] = thread[q][u] \/ (q = p /\ u = "user")
    BY <2>1, GotoSame DEF Threads
  <2>3. ASSUME NEW q \in Proc, NEW pub \in Publisher,
               NEW h \in localSubscribers', h.pUuid = q, h.topic = pub.topic,
               pub.topic \in filters[q]
        PROVE  pub.topic \in filters'[q]
    <3>1. h \in localSubscribers \ hs
      BY <2>1
    <3>2. CASE q = p /\ pub.topic = topic
      <4>1. h \in HandlersOf(p, topic)
        BY <2>3, <3>1, <3>2 DEF HandlersOf
      <4> QED
        BY <2>1, <2>3, <3>1, <4>1
    <3>3. CASE ~ (q = p /\ pub.topic = topic)
      BY <2>1, <2>3, <3>3 DEF TypeOK
    <3> QED
      BY <3>2, <3>3
  <2>4. \A q \in Proc, u \in Threads :
           thread'[q][u] = thread[q][u] \/ thread[q][u].op = "idle"
    BY <2>1, <2>2 DEF Idle
  <2> QED
    BY <2>1, <2>3, <2>4
    DEF HearsStep, HeardKept, HandlersTold, KnownTold, HeardOrTold, Threads
<1>3. CASE Discover(p)
  <2> DEFINE pubs == PublishersOf(offered[p] \union known[p], s.topic)
             next == [op |-> "tell", regs |-> {}, pubs |-> pubs]
  <2>1. /\ Goto(p, "user", next)
        /\ s.op = "discover"
        /\ UNCHANGED <<localSubscribers, known, sockets, filters>>
    BY <1>3 DEF Discover, directory, links
  <2>2. \A q \in Proc, u \in Threads :
           thread'[q][u] = IF q = p /\ u = "user" THEN next ELSE thread[q][u]
    BY <2>1, GotoSame DEF Threads
  <2>3. \A pub \in known[p] : pub.topic = s.topic => pub \in pubs
    BY DEF PublishersOf
  <2>4. next.op = "tell" /\ next.pubs = pubs
    OBVIOUS
  <2> HIDE DEF next, pubs
  <2>5. ASSUME NEW q \in Proc, NEW pub \in known[q], HeardOrTold(q, pub)
        PROVE  HeardOrTold(q, pub)'
    BY <2>1, <2>2, <2>3, <2>4, <2>5 DEF HeardOrTold, Threads
  <2> QED
    BY <2>1, <2>5 DEF HearsStep, HeardKept, HandlersTold, KnownTold
<1>4. CASE \/ UnsubscribeLookup(p)
           \/ \E dst \in Proc \union {Anyone} : Unregister(p, dst)
  <2>1. /\ s.op \in {"lookup", "end"}
        /\ \E state : Goto(p, "user", state)
        /\ UNCHANGED <<localSubscribers, known, sockets, filters>>
    BY <1>4 DEF UnsubscribeLookup, Unregister, directory, links
  <2>2. \A q \in Proc, u \in Threads :
           \/ thread'[q][u] = thread[q][u]
           \/ thread[q][u].op \notin {"discover", "tell"}
    BY <2>1, GotoSame DEF Threads
  <2> QED
    BY <2>1, <2>2, HearsSame
<1> QED
  BY <1>1, <1>2, <1>3, <1>4

\* The connection callback.  What a thread is done with is heard, if there
\* is a handler for it.
LEMMA HearsCallback ==
    ASSUME TypeOK, NEW p \in Proc, NEW t \in Threads, ThreadStep(p, t)
    PROVE  HearsStep
<1> DEFINE s == thread[p][t]
           next(pubs, regs) == [op |-> "tell", pubs |-> pubs, regs |-> regs]
<1>1. UNCHANGED <<localSubscribers, known>>
  BY DEF ThreadStep, OnNewConnection, Register, TellDone, directory
<1>2. ASSUME NEW pub \in Publisher, OnNewConnection(p, t, pub)
      PROVE  HearsStep
  <2>1. PICK regs : /\ s.op = "tell"
                    /\ Goto(p, t, next(s.pubs \ {pub}, regs))
    BY <1>2 DEF OnNewConnection
  <2>2. \A q \in Proc, u \in Threads :
           IF q = p /\ u = t
           THEN thread'[q][u] = next(s.pubs \ {pub}, regs)
           ELSE thread'[q][u] = thread[q][u]
    BY <2>1, GotoSame
  <2>3. /\ \A q \in Proc : sockets[q] \subseteq sockets'[q]
        /\ \A q \in Proc : filters[q] \subseteq filters'[q]
        /\ Interested(p, pub) => /\ pub.addr \in sockets'[p]
                                 /\ pub.topic \in filters'[p]
    <3>1. CASE Interested(p, pub)
      <4>1. /\ sockets' = [sockets EXCEPT ![p] = @ \union {pub.addr}]
            /\ filters' =
                   [filters EXCEPT ![p] = filters[p] \union {pub.topic}]
        BY <1>2, <3>1 DEF OnNewConnection, FilterSet
      <4>2. /\ sockets \in [Proc -> SUBSET Proc]
            /\ filters \in [Proc -> SUBSET Topic]
        BY DEF TypeOK
      <4> QED
        BY <4>1, <4>2
    <3>2. CASE ~ Interested(p, pub)
      BY <1>2, <3>2 DEF OnNewConnection, links
    <3> QED
      BY <3>1, <3>2
  <2>4. ASSUME NEW q \in Proc, NEW r \in Publisher, r.pUuid # q,
               NEW h \in localSubscribers, h.pUuid = q, h.topic = r.topic,
               HeardOrTold(q, r)
        PROVE  HeardOrTold(q, r)'
    <3>1. CASE q = p /\ r = pub
      <4>1. Interested(p, pub)
        BY <2>4, <3>1 DEF Interested, HasSubscriber, HandlersOf
      <4> QED
        BY <2>3, <3>1, <4>1 DEF HeardOrTold
    <3>2. CASE ~ (q = p /\ r = pub)
      <4>1. CASE r.addr \in sockets[q] /\ r.topic \in filters[q]
        BY <2>3, <4>1 DEF HeardOrTold
      <4>2. CASE /\ thread[q]["user"].op = "discover"
                 /\ thread[q]["user"].topic = r.topic
        BY <2>1, <2>2, <4>2 DEF HeardOrTold, Threads
      <4>3. ASSUME NEW u \in Threads, thread[q][u].op = "tell",
                   r \in thread[q][u].pubs
            PROVE  HeardOrTold(q, r)'
        BY <2>2, <3>2, <4>3 DEF HeardOrTold
      <4> QED
        BY <2>4, <4>1, <4>2, <4>3 DEF HeardOrTold
    <3> QED
      BY <3>1, <3>2
  <2> QED
    BY <1>1, <2>4 DEF HearsStep, HeardKept, HandlersTold, KnownTold
<1>3. ASSUME NEW m, Register(p, t, m)
      PROVE  HearsStep
  <2>1. /\ s.op = "tell" /\ Goto(p, t, next(s.pubs, s.regs \ {m}))
        /\ UNCHANGED <<sockets, filters>>
    BY <1>3 DEF Register, links
  <2>2. \A q \in Proc, u \in Threads :
           \/ thread'[q][u] = thread[q][u]
           \/ /\ thread[q][u].op = "tell" /\ thread'[q][u].op = "tell"
              /\ thread[q][u].pubs \subseteq thread'[q][u].pubs
    BY <2>1, GotoSame
  <2> QED
    BY <1>1, <2>1, <2>2, HearsSame
<1>4. CASE TellDone(p, t)
  <2>1. /\ s.op = "tell" /\ s.pubs = {} /\ Goto(p, t, Idle)
        /\ UNCHANGED <<sockets, filters>>
    BY <1>4 DEF TellDone, links
  <2>2. \A q \in Proc, u \in Threads :
           \/ thread'[q][u] = thread[q][u]
           \/ thread[q][u].op = "tell" /\ thread[q][u].pubs = {}
    BY <2>1, GotoSame
  <2> QED
    BY <1>1, <2>1, <2>2, HearsSame
<1> QED
  BY <1>2, <1>3, <1>4 DEF ThreadStep

\* Discovery's thread.
LEMMA HearsDiscovery ==
    ASSUME TypeOK, NEW p \in Proc,
           \/ \E pub \in Publisher : Learn(p, pub)
           \/ OnProcessLost(p) \/ Removes(p)
           \/ \E q \in Proc :
                 \/ Expire(p, q) \/ Lose(p, q)
                 \/ OnNewRegistration(p, q) \/ OnEndRegistration(p, q)
                 \/ OnUnadvertise(p, q)
    PROVE  HearsStep
<1> DEFINE s == thread[p]["recv"]
<1>1. UNCHANGED <<localSubscribers, sockets, filters>>
  BY DEF Learn, OnProcessLost, Removes, Expire, Lose, OnNewRegistration,
         OnEndRegistration, OnUnadvertise, links
<1>2. ASSUME NEW pub \in Publisher, Learn(p, pub)
      PROVE  HearsStep
  <2> DEFINE next == [op |-> "tell", pubs |-> {pub}, regs |-> {}]
  <2>1. /\ s = Idle /\ Goto(p, "recv", next)
        /\ known' = [known EXCEPT ![p] = Dir!AddPublisher(@, pub)]
    BY <1>2 DEF Learn, Dir!Learn
  <2>2. \A q \in Proc, u \in Threads :
           thread'[q][u] = IF q = p /\ u = "recv" THEN next ELSE thread[q][u]
    BY <2>1, GotoSame DEF Threads
  <2>3. \A q \in Proc : \A r \in known'[q] \ known[q] : q = p /\ r = pub
    BY <2>1 DEF Dir!AddPublisher, TypeOK
  <2>4. next.op = "tell" /\ next.pubs = {pub}
    OBVIOUS
  <2> HIDE DEF next
  <2>5. KnownTold
    BY <2>2, <2>3, <2>4 DEF KnownTold, HeardOrTold, Threads
  <2>6. HeardKept
    BY <1>1, <2>1, <2>2 DEF HeardKept, HeardOrTold, Threads, Idle
  <2> QED
    BY <1>1, <2>5, <2>6 DEF HearsStep, HandlersTold
<1>3. CASE ~ \E pub \in Publisher : Learn(p, pub)
  <2>1. \/ UNCHANGED thread
        \/ /\ s.op \in {"idle", "lost", "remove"}
           /\ \E state : Goto(p, "recv", state)
    <3>1. CASE OnProcessLost(p)
      BY <3>1 DEF OnProcessLost
    <3>2. CASE Removes(p)
      BY <3>2 DEF Removes
    <3>3. ASSUME NEW q \in Proc, Expire(p, q)
          PROVE  s.op = "idle" /\ \E state : Goto(p, "recv", state)
      BY <3>3 DEF Expire, Idle
    <3>4. ASSUME NEW q \in Proc, OnUnadvertise(p, q)
          PROVE  \/ UNCHANGED thread
                 \/ s.op = "idle" /\ \E state : Goto(p, "recv", state)
      BY <3>4 DEF OnUnadvertise, Take, Idle
    <3>5. ASSUME NEW q \in Proc,
                 \/ Lose(p, q)
                 \/ OnNewRegistration(p, q) \/ OnEndRegistration(p, q)
          PROVE  UNCHANGED thread
      BY <3>5 DEF Lose, OnNewRegistration, OnEndRegistration
    <3> QED
      BY <1>3, <3>1, <3>2, <3>3, <3>4, <3>5
  <2>2. \A q \in Proc, u \in Threads :
           \/ thread'[q][u] = thread[q][u]
           \/ thread[q][u].op \notin {"discover", "tell"}
    BY <2>1, GotoSame DEF Threads
  <2>3. \A q \in Proc : known'[q] \subseteq known[q]
    BY <1>3 DEF OnProcessLost, Removes, Expire, Lose, OnNewRegistration,
       OnEndRegistration, OnUnadvertise, directory, DelPublisherByNode,
       DelPublishersByProc, TypeOK
  <2> QED
    BY <1>1, <2>2, <2>3, HearsSame
<1> QED
  BY <1>2, <1>3

LEMMA HearsInvStep ==
    ASSUME TypeOK, TypeOK', HearsInv, [Next]_vars
    PROVE  HearsInv'
<1>1. CASE UserCall
  <2>1. \A pub \in Advertisable : pub.pUuid \in Proc
    BY UsersAssumption DEF Publisher
  <2>2. \A h \in Subscribable : h.pUuid \in Proc /\ h.topic \in Topic
    BY UsersAssumption DEF SubHandler
  <2>3. HearsStep
    BY <1>1, <2>1, <2>2, HearsProcess, HearsSubscriber DEF UserCall
  <2> QED
    BY <2>3, HearsPreserved
<1>2. ASSUME NEW p \in Proc, UserStep(p)
      PROVE  HearsStep
  BY <1>2, HearsSubscriber, HearsCallback DEF UserStep, Threads
<1>3. ASSUME NEW p \in Proc, RecvStep(p)
      PROVE  HearsStep
  BY <1>3, HearsDiscovery, HearsCallback DEF RecvStep, Threads
<1>4. CASE UNCHANGED vars
  BY <1>4 DEF vars, directory, links, HearsInv, HeardOrTold
<1> QED
  BY <1>1, <1>2, <1>3, <1>4, HearsProcess, HearsDiscovery, HearsPreserved
  DEF Next

\* A process with a handler on a topic is connected to the publishers of it
\* that it knows, and lets the topic through, whenever neither of its threads
\* is in the middle of something: whatever is lost, and however often
\* handlers and publishers come and go.
THEOREM HandlersHear == Spec => []Hears
<1>1. Init => HearsInv
  BY DEF Init, HearsInv
<1>2. TypeOK /\ TypeOK' /\ HearsInv /\ [Next]_vars => HearsInv'
  BY HearsInvStep
<1>3. TypeOK /\ HearsInv => Hears
  BY DEF HearsInv, HeardOrTold, Hears, Heard, Threads, Idle
<1> QED
  BY <1>1, <1>2, <1>3, TypeCorrect, PTL DEF Spec

(***************************************************************************)
(* Registered.  A node that publishes and subscribes on one topic loses    *)
(* its registrations as a subscriber when its publisher goes, because      *)
(* OnNewDisconnection removes the node the publisher is of from the        *)
(* remote subscribers (NodeShared.cc:1139-1156).  Of such nodes Registered *)
(* is false; of all others it is proved here.                              *)
(***************************************************************************)
Apart ==
    \A pub \in Advertisable, h \in Subscribable :
        ~ (/\ pub.topic = h.topic
           /\ pub.pUuid = h.pUuid
           /\ pub.nUuid = h.nUuid)

\* The subscriber that a datagram, or a thread, is about.
Names(m, h) ==
    /\ m.sub.topic = h.topic
    /\ m.sub.pUuid = h.pUuid
    /\ m.sub.nUuid = h.nUuid

IsNew(m, h, q) == m.type = "NEW_CONNECTION" /\ m.ctrl = q /\ Names(m, h)
IsEnd(m, h) == m.type = "END_CONNECTION" /\ Names(m, h)

\* Nothing in the channel ends the registration of h; or one that makes it
\* is in the channel, with nothing behind it that ends it.
Endless(s, h) == \A i \in DOMAIN s : ~ IsEnd(s[i], h)
Coming(s, h, q) ==
    \E i \in DOMAIN s :
        /\ IsNew(s[i], h, q)
        /\ \A j \in DOMAIN s : j > i => ~ IsEnd(s[j], h)

\* A registration of h with the process of pub: still to be found, prepared
\* or sent by a thread; or sent, and arrived or on its way.
ToTell(h, pub) ==
    \/ /\ thread[h.pUuid]["user"].op = "discover"
       /\ thread[h.pUuid]["user"].topic = h.topic
    \/ \E t \in Threads :
          /\ thread[h.pUuid][t].op = "tell"
          /\ \/ pub \in thread[h.pUuid][t].pubs
             \/ \E m \in thread[h.pUuid][t].regs : IsNew(m, h, pub.pUuid)
Told(h, q) ==
    \/ Coming(net[h.pUuid][q], h, q)
    \/ IsRegistered(h, q) /\ Endless(net[h.pUuid][q], h)
ToldOrToTell(h, pub) == ToTell(h, pub) \/ Told(h, pub.pUuid)

AllTold ==
    lost = 0 =>
        \A h \in localSubscribers : \A pub \in Heard(h) : ToldOrToTell(h, pub)

\* What the registrations rest on: users only subscribe with what they may;
\* a node is only unregistered, by its own process, while it has no handler;
\* only a process itself says that its subscribers and publishers go; the
\* callback prepares nothing but registrations; and a publisher is known only
\* of processes that have started.
Listed == localSubscribers \subseteq Subscribable

Ending ==
    \A p \in Proc :
        thread[p]["user"].op \in {"lookup", "end"} =>
            /\ thread[p]["user"].sub.pUuid = p
            /\ \A h \in localSubscribers : ~ Names(thread[p]["user"], h)

SentBy(m, p) ==
    /\ m.type = "END_CONNECTION" => m.sub.pUuid = p
    /\ m.type = "UNADVERTISE" => m.sub \in Advertisable
Senders ==
    \A p, q \in Proc : \A i \in DOMAIN net[p][q] : SentBy(net[p][q][i], p)

Prepared ==
    \A p \in Proc, t \in Threads :
        thread[p][t].op = "tell" =>
            \A m \in thread[p][t].regs : m.type = "NEW_CONNECTION"

Started(pubs) == \A pub \in pubs : pub.pUuid \in live \union gone
AllStarted ==
    /\ Started(rumours)
    /\ \A p \in Proc : Started(known[p]) /\ Started(offered[p])

RegisteredInv ==
    Listed /\ Ending /\ Prepared /\ Senders /\ AllStarted /\ AllTold

(***************************************************************************)
(* Channels.                                                               *)
(***************************************************************************)
LEMMA ChannelAppend ==
    ASSUME NEW s \in Seq(Message), NEW m \in Message, NEW h, NEW q
    PROVE  /\ Endless(s, h) /\ ~ IsEnd(m, h) => Endless(Append(s, m), h)
           /\ Coming(s, h, q) /\ ~ IsEnd(m, h) => Coming(Append(s, m), h, q)
           /\ IsNew(m, h, q) => Coming(Append(s, m), h, q)
<1> DEFINE n == Len(s) + 1
<1>1. /\ DOMAIN Append(s, m) = 1..n /\ DOMAIN s = 1..Len(s)
      /\ Len(s) \in Nat
      /\ Append(s, m)[n] = m
      /\ \A i \in DOMAIN s : Append(s, m)[i] = s[i]
  OBVIOUS
<1>2. \A i \in DOMAIN Append(s, m) : i \in DOMAIN s \/ i = n
  BY <1>1
<1>3. ASSUME Endless(s, h), ~ IsEnd(m, h)
      PROVE  Endless(Append(s, m), h)
  BY <1>1, <1>2, <1>3 DEF Endless
<1>4. ASSUME Coming(s, h, q), ~ IsEnd(m, h)
      PROVE  Coming(Append(s, m), h, q)
  <2>1. PICK i \in DOMAIN s : /\ IsNew(s[i], h, q)
                              /\ \A j \in DOMAIN s : j > i => ~ IsEnd(s[j], h)
    BY <1>4 DEF Coming
  <2>2. i \in DOMAIN Append(s, m) /\ IsNew(Append(s, m)[i], h, q)
    BY <1>1, <2>1
  <2>3. \A j \in DOMAIN Append(s, m) : j > i => ~ IsEnd(Append(s, m)[j], h)
    BY <1>1, <1>2, <1>4, <2>1
  <2> QED
    BY <2>2, <2>3 DEF Coming
<1>5. ASSUME IsNew(m, h, q)
      PROVE  Coming(Append(s, m), h, q)
  <2>1. n \in DOMAIN Append(s, m) /\ \A j \in DOMAIN Append(s, m) : ~ j > n
    BY <1>1
  <2> QED
    BY <1>1, <1>5, <2>1 DEF Coming
<1> QED
  BY <1>3, <1>4, <1>5

LEMMA ChannelTail ==
    ASSUME NEW s \in Seq(Message), s # <<>>, NEW h, NEW q
    PROVE  /\ Endless(s, h) => Endless(Tail(s), h) /\ ~ IsEnd(Head(s), h)
           /\ Coming(s, h, q) =>
                 \/ Coming(Tail(s), h, q)
                 \/ IsNew(Head(s), h, q) /\ Endless(Tail(s), h)
<1>1. /\ DOMAIN Tail(s) = 1..(Len(s) - 1) /\ DOMAIN s = 1..Len(s)
      /\ Len(s) \in Nat /\ Len(s) # 0
      /\ Head(s) = s[1]
      /\ \A i \in DOMAIN Tail(s) : Tail(s)[i] = s[i + 1]
  OBVIOUS
<1>2. 1 \in DOMAIN s /\ \A i \in DOMAIN Tail(s) : i + 1 \in DOMAIN s
  BY <1>1
<1>3. ASSUME Endless(s, h)
      PROVE  Endless(Tail(s), h) /\ ~ IsEnd(Head(s), h)
  BY <1>1, <1>2, <1>3 DEF Endless
<1>4. ASSUME Coming(s, h, q)
      PROVE  \/ Coming(Tail(s), h, q)
             \/ IsNew(Head(s), h, q) /\ Endless(Tail(s), h)
  <2>1. PICK i \in DOMAIN s : /\ IsNew(s[i], h, q)
                              /\ \A j \in DOMAIN s : j > i => ~ IsEnd(s[j], h)
    BY <1>4 DEF Coming
  <2>2. CASE i = 1
    <3>1. \A j \in DOMAIN Tail(s) : j + 1 > i
      BY <1>1, <2>2
    <3>2. Endless(Tail(s), h)
      BY <1>1, <1>2, <2>1, <3>1 DEF Endless
    <3> QED
      BY <1>1, <2>1, <2>2, <3>2
  <2>3. CASE i # 1
    <3> DEFINE k == i - 1
    <3>1. k \in DOMAIN Tail(s) /\ k + 1 = i
      BY <1>1, <2>3
    <3>2. \A j \in DOMAIN Tail(s) : j > k => j + 1 > i
      BY <1>1, <3>1
    <3> HIDE DEF k
    <3>3. IsNew(Tail(s)[k], h, q)
      BY <1>1, <2>1, <3>1
    <3>4. \A j \in DOMAIN Tail(s) : j > k => ~ IsEnd(Tail(s)[j], h)
      BY <1>1, <1>2, <2>1, <3>2
    <3> QED
      BY <3>1, <3>3, <3>4 DEF Coming
  <2> QED
    BY <2>2, <2>3
<1> QED
  BY <1>3, <1>4

\* A multicast appends to the channels from its sender to the live processes.
LEMMA MulticastRows ==
    ASSUME TypeOK, NEW p \in Proc, NEW m, Multicast(p, m)
    PROVE  \A q, r \in Proc :
               /\ q = p /\ r \in live \ {p} =>
                     net'[q][r] = Append(net[q][r], m)
               /\ ~ (q = p /\ r \in live \ {p}) => net'[q][r] = net[q][r]
<1> DEFINE Row == [q \in Proc |-> IF q \in live \ {p} THEN Append(net[p][q], m)
                                  ELSE net[p][q]]
<1>1. net' = [net EXCEPT ![p] = Row]
  BY DEF Multicast
<1>2. \A r \in Proc :
         Row[r] = IF r \in live \ {p} THEN Append(net[p][r], m) ELSE net[p][r]
  OBVIOUS
<1> HIDE DEF Row
<1> QED
  BY <1>1, <1>2 DEF TypeOK

(***************************************************************************)
(* What the registrations rest on.                                         *)
(***************************************************************************)
LEMMA ListedStep ==
    ASSUME Listed, [Next]_vars
    PROVE  Listed'
<1>1. \/ localSubscribers' \subseteq localSubscribers
      \/ \E h \in Subscribable :
            localSubscribers' = localSubscribers \union {h}
  <2>1. CASE UserCall
    BY <2>1 DEF UserCall, Advertise, Unadvertise, Subscribe, Unsubscribe
  <2>2. ASSUME NEW p \in Proc, Crash(p)
        PROVE  localSubscribers' \subseteq localSubscribers
    BY <2>2 DEF Crash
  <2>3. ASSUME NEW p \in Proc, UserStep(p) \/ RecvStep(p)
        PROVE  localSubscribers' = localSubscribers
    BY <2>3 DEF UserStep, RecvStep, ThreadStep, Discover, UnsubscribeLookup,
       Unregister, OnNewConnection, Register, TellDone, OnProcessLost, Removes,
       OnNewRegistration, OnEndRegistration, OnUnadvertise
  <2>4. ASSUME NEW p \in Proc,
               \/ Start(p) \/ Announce(p)
               \/ \E pub \in Publisher : Learn(p, pub)
               \/ \E q \in Proc : Expire(p, q) \/ Lose(p, q)
        PROVE  localSubscribers' = localSubscribers
    BY <2>4 DEF Start, Announce, Learn, Expire, Lose
  <2>5. CASE UNCHANGED vars
    BY <2>5 DEF vars
  <2> QED
    BY <2>1, <2>2, <2>3, <2>4, <2>5 DEF Next
<1> QED
  BY <1>1 DEF Listed

\* Publishers come from processes that have started, and start once.
LEMMA StartedStep ==
    ASSUME TypeOK, AllStarted, [Next]_vars
    PROVE  AllStarted'
<1> DEFINE Fine(pubs) == \A pub \in pubs : pub.pUuid \in live' \union gone'
<1>1. ASSUME live \union gone \subseteq live' \union gone',
             Fine(rumours' \ rumours),
             \A p \in Proc : /\ Fine(known'[p] \ known[p])
                             /\ Fine(offered'[p] \ offered[p])
      PROVE  AllStarted'
  BY <1>1 DEF AllStarted, Started
<1>2. CASE UNCHANGED directory /\ UNCHANGED gone
  BY <1>1, <1>2 DEF directory
<1>3. ASSUME NEW p \in Proc, Start(p)
      PROVE  AllStarted'
  BY <1>1, <1>3 DEF Start, Dir!Join
<1>4. ASSUME NEW p \in Proc, Crash(p)
      PROVE  AllStarted'
  <2>1. /\ live' = live \ {p} /\ gone' = gone \union {p}
        /\ rumours' \subseteq rumours
        /\ \A q \in Proc : /\ known'[q] \subseteq known[q]
                           /\ offered'[q] \subseteq offered[q]
    BY <1>4 DEF Crash, Dir!Leave, TypeOK
  <2> QED
    BY <1>1, <2>1
<1>5. ASSUME NEW p \in Proc, Announce(p)
      PROVE  AllStarted'
  BY <1>1, <1>5 DEF Announce, Dir!Announce, AllStarted, Started
<1>6. ASSUME NEW pub \in Advertisable, Advertise(pub.pUuid, pub)
      PROVE  AllStarted'
  <2>1. /\ pub.pUuid \in live
        /\ rumours' \in SUBSET (rumours \union {pub})
        /\ UNCHANGED <<live, gone, known>>
        /\ \A q \in Proc : offered'[q] \subseteq offered[q] \union {pub}
    BY <1>6 DEF Advertise, Dir!Offer, Dir!AddPublisher, TypeOK
  <2> QED
    BY <1>1, <2>1
<1>7. ASSUME NEW pub \in Advertisable, Unadvertise(pub.pUuid, pub)
      PROVE  AllStarted'
  BY <1>1, <1>7 DEF Unadvertise, Dir!Withdraw, TypeOK
<1>8. ASSUME NEW p \in Proc, NEW pub \in Publisher, Learn(p, pub)
      PROVE  AllStarted'
  <2>1. /\ pub \in rumours /\ rumours' \subseteq rumours
        /\ UNCHANGED <<live, gone, offered>>
        /\ \A q \in Proc : known'[q] \subseteq known[q] \union {pub}
    BY <1>8 DEF Learn, Dir!Learn, Dir!AddPublisher, TypeOK
  <2>2. pub.pUuid \in live' \union gone'
    BY <2>1 DEF AllStarted, Started
  <2> QED
    BY <1>1, <2>1, <2>2
<1>9. ASSUME NEW p \in Proc, NEW q \in Proc, Expire(p, q)
      PROVE  AllStarted'
  BY <1>1, <1>9 DEF Expire, Dir!Forget, DelPublishersByProc, TypeOK
<1>10. ASSUME NEW p \in Proc, Removes(p)
       PROVE  AllStarted'
  BY <1>1, <1>10 DEF Removes, Dir!Forget, DelPublisherByNode, TypeOK
<1>11. CASE UserCall
  <2>1. ASSUME NEW h \in Subscribable,
               \/ Subscribe(h)
               \/ \E hs : Unsubscribe(h.pUuid, h.topic, h.nUuid, hs)
        PROVE  UNCHANGED directory /\ UNCHANGED gone
    BY <2>1 DEF Subscribe, Unsubscribe
  <2> QED
    BY <1>2, <1>6, <1>7, <1>11, <2>1 DEF UserCall
<1>12. ASSUME NEW p \in Proc, NEW t \in Threads, ThreadStep(p, t)
       PROVE  UNCHANGED directory /\ UNCHANGED gone
  BY <1>12 DEF ThreadStep, OnNewConnection, Register, TellDone
<1>13. ASSUME NEW p \in Proc, UserStep(p)
       PROVE  UNCHANGED directory /\ UNCHANGED gone
  BY <1>12, <1>13 DEF UserStep, Discover, UnsubscribeLookup, Unregister,
     Threads
<1>14. ASSUME NEW p \in Proc, RecvStep(p), ~ Removes(p)
       PROVE  UNCHANGED directory /\ UNCHANGED gone
  BY <1>12, <1>14 DEF RecvStep, OnProcessLost, OnNewRegistration,
     OnEndRegistration, OnUnadvertise, Threads
<1>15. ASSUME NEW p \in Proc, NEW q \in Proc, Lose(p, q)
       PROVE  UNCHANGED directory /\ UNCHANGED gone
  BY <1>15 DEF Lose
<1>16. CASE UNCHANGED vars
  BY <1>2, <1>16 DEF vars
<1> QED
  BY <1>2, <1>3, <1>4, <1>5, <1>8, <1>9, <1>10, <1>11, <1>13, <1>14, <1>15,
     <1>16 DEF Next

\* A node is unregistered when its last handler goes, and a new handler
\* needs the thread that unregisters it.
LEMMA EndingStep ==
    ASSUME TypeOK, Ending, [Next]_vars
    PROVE  Ending'
<1> DEFINE Over(s, p) == s.op \in {"lookup", "end"} =>
               /\ s.sub.pUuid = p
               /\ \A h \in localSubscribers' : ~ Names(s, h)
<1>1. ASSUME \A p \in Proc : Over(thread'[p]["user"], p)
      PROVE  Ending'
  BY <1>1 DEF Ending, Names
<1> HIDE DEF Over
<1>2. ASSUME localSubscribers' \subseteq localSubscribers,
             \A p \in Proc : \/ thread'[p]["user"] = thread[p]["user"]
                             \/ Over(thread'[p]["user"], p)
      PROVE  Ending'
  <2>1. \A p \in Proc : Over(thread[p]["user"], p)
    BY <1>2 DEF Ending, Over
  <2> QED
    BY <1>1, <1>2, <2>1
<1>3. ASSUME NEW state, state.op \notin {"lookup", "end"}
      PROVE  \A p : Over(state, p)
  BY <1>3 DEF Over
<1>4. Idle.op = "idle"
  BY DEF Idle
<1>5. ASSUME NEW h \in Subscribable, Subscribe(h)
      PROVE  Ending'
  <2> DEFINE next == [op |-> "discover", topic |-> h.topic]
  <2>1. h.pUuid \in Proc /\ Goto(h.pUuid, "user", next)
    BY <1>5, UsersAssumption DEF Subscribe, SubHandler
  <2>2. \A q \in Proc, u \in Threads :
           thread'[q][u] = IF q = h.pUuid /\ u = "user" THEN next
                           ELSE thread[q][u]
    BY <2>1, GotoSame DEF Threads
  <2>3. next.op = "discover"
    OBVIOUS
  <2> HIDE DEF next
  <2>4. ASSUME NEW p \in Proc
        PROVE  Over(thread'[p]["user"], p)
    <3>1. CASE p = h.pUuid
      BY <1>3, <2>2, <2>3, <3>1 DEF Threads
    <3>2. CASE p # h.pUuid
      BY <1>5, <2>2, <3>2 DEF Ending, Over, Names, Subscribe, Threads
    <3> QED
      BY <3>1, <3>2
  <2> QED
    BY <1>1, <2>4
<1>6. ASSUME NEW h \in Subscribable, NEW hs,
             Unsubscribe(h.pUuid, h.topic, h.nUuid, hs)
      PROVE  Ending'
  <2> DEFINE p == h.pUuid
             next == [op |-> "lookup",
                      sub |-> SubRecord(p, p, h.topic, h.nUuid)]
  <2>1. /\ p \in Proc
        /\ localSubscribers' = localSubscribers \ hs
        /\ \/ UNCHANGED thread
           \/ /\ ~ StillSubscribed(p, h.topic, h.nUuid, hs)
              /\ Goto(p, "user", next)
    BY <1>6, UsersAssumption DEF Unsubscribe, SubHandler
  <2>2. CASE UNCHANGED thread
    BY <1>2, <2>1, <2>2
  <2>3. CASE /\ ~ StillSubscribed(p, h.topic, h.nUuid, hs)
             /\ Goto(p, "user", next)
    <3>1. Over(next, p)
      BY <2>1, <2>3 DEF Over, Names, SubRecord, StillSubscribed, HandlersOf
    <3> HIDE DEF next
    <3>2. \A q \in Proc :
             IF q = p THEN thread'[q]["user"] = next
                      ELSE thread'[q]["user"] = thread[q]["user"]
      BY <2>1, <2>3, GotoSame DEF Threads
    <3>3. ASSUME NEW q \in Proc
          PROVE  \/ thread'[q]["user"] = thread[q]["user"]
                 \/ Over(thread'[q]["user"], q)
      BY <3>1, <3>2
    <3> QED
      BY <1>2, <2>1, <3>3
  <2> QED
    BY <2>1, <2>2, <2>3
<1>7. ASSUME NEW p \in Proc, NEW t \in Threads, NEW state,
             Goto(p, t, state),
             t = "user" => Over(state, p),
             UNCHANGED localSubscribers
      PROVE  Ending'
  <2>1. \A q \in Proc :
           IF q = p /\ t = "user" THEN thread'[q]["user"] = state
                                  ELSE thread'[q]["user"] = thread[q]["user"]
    BY <1>7, GotoSame DEF Threads
  <2> QED
    BY <1>2, <1>7, <2>1
<1>8. ASSUME NEW p \in Proc, Discover(p)
      PROVE  Ending'
  <2>1. \E pubs : Goto(p, "user", [op |-> "tell", regs |-> {}, pubs |-> pubs])
    BY <1>8 DEF Discover
  <2>2. UNCHANGED localSubscribers
    BY <1>8 DEF Discover
  <2>3. \A pubs : Over([op |-> "tell", regs |-> {}, pubs |-> pubs], p)
    BY <1>3
  <2> QED
    BY <1>7, <2>1, <2>2, <2>3 DEF Threads
<1>9. ASSUME NEW p \in Proc, thread[p]["user"].op \in {"lookup", "end"},
             UNCHANGED localSubscribers,
             NEW dsts, Goto(p, "user", [op |-> "end", dsts |-> dsts,
                                        sub |-> thread[p]["user"].sub])
      PROVE  Ending'
  <2>1. Over([op |-> "end", dsts |-> dsts, sub |-> thread[p]["user"].sub], p)
    BY <1>9 DEF Ending, Over, Names
  <2> QED
    BY <1>7, <1>9, <2>1 DEF Threads
<1>10. ASSUME NEW p \in Proc, UnsubscribeLookup(p)
       PROVE  Ending'
  <2>1. /\ thread[p]["user"].op \in {"lookup", "end"}
        /\ UNCHANGED localSubscribers
        /\ \E dsts : Goto(p, "user", [op |-> "end", dsts |-> dsts,
                                     sub |-> thread[p]["user"].sub])
    BY <1>10 DEF UnsubscribeLookup
  <2> QED
    BY <1>9, <2>1
<1>11. ASSUME NEW p \in Proc, NEW dst, Unregister(p, dst)
       PROVE  Ending'
  <2>1. /\ thread[p]["user"].op \in {"lookup", "end"}
        /\ UNCHANGED localSubscribers
        /\ \/ Goto(p, "user", Idle)
           \/ \E dsts : Goto(p, "user", [op |-> "end", dsts |-> dsts,
                                        sub |-> thread[p]["user"].sub])
    BY <1>11 DEF Unregister
  <2> QED
    BY <1>3, <1>4, <1>7, <1>9, <2>1 DEF Threads
<1>12. ASSUME NEW p \in Proc, NEW t \in Threads, ThreadStep(p, t)
       PROVE  Ending'
  <2>1. /\ UNCHANGED localSubscribers
        /\ \/ Goto(p, t, Idle)
           \/ \E pubs, regs :
                 Goto(p, t, [op |-> "tell", pubs |-> pubs, regs |-> regs])
    BY <1>12 DEF ThreadStep, OnNewConnection, Register, TellDone
  <2>2. \A pubs, regs : Over([op |-> "tell", pubs |-> pubs, regs |-> regs], p)
    BY <1>3
  <2>3. Over(Idle, p)
    BY <1>3, <1>4
  <2> QED
    BY <1>7, <2>1, <2>2, <2>3
<1>13. ASSUME UNCHANGED localSubscribers,
              \/ UNCHANGED thread
              \/ \E p \in Proc : \E state : Goto(p, "recv", state)
       PROVE  Ending'
  BY <1>2, <1>7, <1>13 DEF Threads
<1>14. ASSUME NEW p \in Proc, Crash(p)
       PROVE  Ending'
  <2>1. \A q \in Proc : IF q = p THEN thread'[q]["user"] = Idle
                        ELSE thread'[q]["user"] = thread[q]["user"]
    BY <1>14 DEF Crash, TypeOK, Threads
  <2>2. Over(Idle, p)
    BY <1>3, <1>4
  <2> QED
    BY <1>2, <1>14, <2>1, <2>2 DEF Crash
<1>15. CASE UserCall
  <2>1. ASSUME NEW pub \in Advertisable,
               Advertise(pub.pUuid, pub) \/ Unadvertise(pub.pUuid, pub)
        PROVE  Ending'
    BY <1>13, <2>1 DEF Advertise, Unadvertise
  <2> QED
    BY <1>5, <1>6, <1>15, <2>1 DEF UserCall
<1>16. ASSUME NEW p \in Proc,
              \/ Start(p) \/ Announce(p)
              \/ \E pub \in Publisher : Learn(p, pub)
              \/ OnProcessLost(p) \/ Removes(p)
              \/ \E q \in Proc :
                    \/ Expire(p, q) \/ Lose(p, q)
                    \/ OnNewRegistration(p, q) \/ OnEndRegistration(p, q)
                    \/ OnUnadvertise(p, q)
       PROVE  Ending'
  <2>1. UNCHANGED localSubscribers
    BY <1>16 DEF Start, Announce, Learn, OnProcessLost, Removes, Expire, Lose,
       OnNewRegistration, OnEndRegistration, OnUnadvertise
  <2>2. \/ UNCHANGED thread
        \/ \E state : Goto(p, "recv", state)
    BY <1>16 DEF Start, Announce, Learn, OnProcessLost, Removes, Expire, Lose,
       OnNewRegistration, OnEndRegistration, OnUnadvertise
  <2> QED
    BY <1>13, <2>1, <2>2
<1>17. CASE UNCHANGED vars
  BY <1>13, <1>17 DEF vars
<1>18. ASSUME NEW p \in Proc, UserStep(p)
       PROVE  Ending'
  BY <1>8, <1>10, <1>11, <1>12, <1>18 DEF UserStep, Threads
<1>19. ASSUME NEW p \in Proc, RecvStep(p)
       PROVE  Ending'
  BY <1>12, <1>16, <1>19 DEF RecvStep, Threads
<1> QED
  BY <1>14, <1>15, <1>16, <1>17, <1>18, <1>19 DEF Next

\* What waits in a thread was prepared by the callback.
LEMMA PreparedStep ==
    ASSUME TypeOK, Prepared, [Next]_vars
    PROVE  Prepared'
<1> DEFINE Fine(s) == s.op = "tell" =>
               \A m \in s.regs : m.type = "NEW_CONNECTION"
<1>1. ASSUME \A p \in Proc, t \in Threads :
                 thread'[p][t] = thread[p][t] \/ Fine(thread'[p][t])
      PROVE  Prepared'
  BY <1>1 DEF Prepared
<1> HIDE DEF Fine
<1>2. ASSUME NEW p \in Proc, NEW t \in Threads, NEW state,
             Goto(p, t, state), Fine(state)
      PROVE  Prepared'
  <2>1. \A q \in Proc, u \in Threads :
           thread'[q][u] = thread[q][u] \/ thread'[q][u] = state
    BY <1>2, GotoSame
  <2> QED
    BY <1>1, <1>2, <2>1
<1>3. ASSUME NEW state, state.op # "tell"
      PROVE  Fine(state)
  BY <1>3 DEF Fine
<1>4. CASE UNCHANGED thread
  BY <1>1, <1>4
<1>5. ASSUME NEW p \in Proc, NEW t \in Threads, NEW state,
             Goto(p, t, state), state.op # "tell"
      PROVE  Prepared'
  BY <1>2, <1>3, <1>5
<1>6. Idle.op # "tell"
  BY DEF Idle
<1>7. ASSUME NEW p \in Proc, NEW t \in Threads, ThreadStep(p, t)
      PROVE  Prepared'
  <2> DEFINE next(pubs, regs) == [op |-> "tell", pubs |-> pubs, regs |-> regs]
  <2>1. ASSUME NEW pub \in Publisher, OnNewConnection(p, t, pub)
        PROVE  Prepared'
    <3>1. Fine(next(thread[p][t].pubs \ {pub}, {}))
      BY DEF Fine
    <3>2. Fine(next(thread[p][t].pubs \ {pub}, Registrations(p, pub)))
      BY DEF Fine, Registrations
    <3>3. \/ Goto(p, t, next(thread[p][t].pubs \ {pub}, {}))
          \/ Goto(p, t, next(thread[p][t].pubs \ {pub}, Registrations(p, pub)))
      BY <2>1 DEF OnNewConnection
    <3> HIDE DEF next
    <3> QED
      BY <1>2, <3>1, <3>2, <3>3
  <2>2. ASSUME NEW m, Register(p, t, m)
        PROVE  Prepared'
    <3>1. Fine(next(thread[p][t].pubs, thread[p][t].regs \ {m}))
      BY <2>2 DEF Register, Prepared, Fine
    <3>2. Goto(p, t, next(thread[p][t].pubs, thread[p][t].regs \ {m}))
      BY <2>2 DEF Register
    <3> HIDE DEF next
    <3> QED
      BY <1>2, <3>1, <3>2
  <2>3. CASE TellDone(p, t)
    BY <1>5, <1>6, <2>3 DEF TellDone
  <2> QED
    BY <1>7, <2>1, <2>2, <2>3 DEF ThreadStep
<1>8. ASSUME NEW p \in Proc, NEW pubs,
             \E t \in Threads : Goto(p, t, [op |-> "tell", pubs |-> pubs,
                                            regs |-> {}])
      PROVE  Prepared'
  <2>1. Fine([op |-> "tell", pubs |-> pubs, regs |-> {}])
    BY DEF Fine
  <2> QED
    BY <1>2, <1>8, <2>1
<1>9. ASSUME NEW p \in Proc, NEW pub \in Publisher, Learn(p, pub)
      PROVE  Prepared'
  BY <1>8, <1>9 DEF Learn, Threads
<1>10. ASSUME NEW p \in Proc, Discover(p)
       PROVE  Prepared'
  <2>1. \E pubs : Goto(p, "user", [op |-> "tell", pubs |-> pubs,
                                  regs |-> {}])
    BY <1>10 DEF Discover
  <2> QED
    BY <1>8, <2>1 DEF Threads
<1>11. ASSUME NEW p \in Proc, Crash(p)
       PROVE  Prepared'
  <2>1. \A q \in Proc, t \in Threads :
           thread'[q][t] = thread[q][t] \/ thread'[q][t] = Idle
    BY <1>11 DEF Crash, TypeOK
  <2> QED
    BY <1>1, <1>3, <1>6, <2>1
<1>12. ASSUME NEW h \in Subscribable,
              \/ Subscribe(h)
              \/ \E hs : Unsubscribe(h.pUuid, h.topic, h.nUuid, hs)
       PROVE  Prepared'
  <2>1. h.pUuid \in Proc
    BY UsersAssumption DEF SubHandler
  <2>2. \/ UNCHANGED thread
        \/ Goto(h.pUuid, "user", [op |-> "discover", topic |-> h.topic])
        \/ \E sub : Goto(h.pUuid, "user", [op |-> "lookup", sub |-> sub])
    BY <1>12 DEF Subscribe, Unsubscribe
  <2>3. ASSUME NEW sub, Goto(h.pUuid, "user", [op |-> "lookup", sub |-> sub])
        PROVE  Prepared'
    BY <1>5, <2>1, <2>3 DEF Threads
  <2>4. ASSUME NEW topic,
               Goto(h.pUuid, "user", [op |-> "discover", topic |-> topic])
        PROVE  Prepared'
    BY <1>5, <2>1, <2>4 DEF Threads
  <2> QED
    BY <1>4, <2>2, <2>3, <2>4
<1>13. ASSUME NEW p \in Proc,
              \/ UnsubscribeLookup(p)
              \/ \E dst \in Proc \union {Anyone} : Unregister(p, dst)
       PROVE  Prepared'
  <2>1. \/ Goto(p, "user", Idle)
        \/ \E sub, dsts : Goto(p, "user", [op |-> "end", sub |-> sub,
                                          dsts |-> dsts])
    BY <1>13 DEF UnsubscribeLookup, Unregister
  <2>2. ASSUME NEW sub, NEW dsts,
               Goto(p, "user", [op |-> "end", sub |-> sub, dsts |-> dsts])
        PROVE  Prepared'
    BY <1>5, <2>2 DEF Threads
  <2> QED
    BY <1>5, <1>6, <2>1, <2>2 DEF Threads
<1>14. ASSUME NEW p \in Proc,
              \/ Start(p) \/ Announce(p)
              \/ OnProcessLost(p) \/ Removes(p)
              \/ \E q \in Proc :
                    \/ Expire(p, q) \/ Lose(p, q)
                    \/ OnNewRegistration(p, q) \/ OnEndRegistration(p, q)
                    \/ OnUnadvertise(p, q)
       PROVE  Prepared'
  <2>1. \/ UNCHANGED thread
        \/ Goto(p, "recv", Idle)
        \/ \E q : Goto(p, "recv", [op |-> "lost", proc |-> q])
        \/ \E pub : Goto(p, "recv", [op |-> "remove", pub |-> pub])
    BY <1>14 DEF Start, Announce, OnProcessLost, Removes, Expire, Lose,
       OnNewRegistration, OnEndRegistration, OnUnadvertise
  <2>2. ASSUME NEW q, Goto(p, "recv", [op |-> "lost", proc |-> q])
        PROVE  Prepared'
    BY <1>5, <2>2 DEF Threads
  <2>3. ASSUME NEW pub, Goto(p, "recv", [op |-> "remove", pub |-> pub])
        PROVE  Prepared'
    BY <1>5, <2>3 DEF Threads
  <2> QED
    BY <1>4, <1>5, <1>6, <2>1, <2>2, <2>3 DEF Threads
<1>15. CASE UserCall
  BY <1>4, <1>12, <1>15 DEF UserCall, Advertise, Unadvertise
<1>16. ASSUME NEW p \in Proc, UserStep(p)
       PROVE  Prepared'
  BY <1>7, <1>10, <1>13, <1>16 DEF UserStep, Threads
<1>17. ASSUME NEW p \in Proc, RecvStep(p)
       PROVE  Prepared'
  BY <1>7, <1>14, <1>17 DEF RecvStep, Threads
<1>18. CASE UNCHANGED vars
  BY <1>4, <1>18 DEF vars
<1> QED
  BY <1>9, <1>11, <1>14, <1>15, <1>16, <1>17, <1>18 DEF Next

\* A datagram in a channel was sent by the channel's process.
LEMMA SendersStep ==
    ASSUME TypeOK, Ending, Prepared, Senders, [Next]_vars
    PROVE  Senders'
<1>1. ASSUME \A p, q \in Proc : \A i \in DOMAIN net'[p][q] :
                 \E j \in DOMAIN net[p][q] : net'[p][q][i] = net[p][q][j]
      PROVE  Senders'
  <2>1. \A p, q \in Proc : \A i \in DOMAIN net'[p][q] :
           SentBy(net'[p][q][i], p)
    BY <1>1 DEF Senders
  <2> QED
    BY <2>1 DEF Senders, SentBy
<1>2. ASSUME NEW p \in Proc, NEW m, Multicast(p, m), SentBy(m, p)
      PROVE  Senders'
  <2>1. ASSUME NEW q \in Proc, NEW r \in Proc, NEW i \in DOMAIN net'[q][r]
        PROVE  SentBy(net'[q][r][i], q)
    <3>1. net[q][r] \in Seq(Message)
      BY DEF TypeOK
    <3>2. CASE net'[q][r] = net[q][r]
      BY <3>2 DEF Senders
    <3>3. CASE q = p /\ net'[q][r] = Append(net[q][r], m)
      <4>1. i = Len(net[q][r]) + 1 \/ i \in DOMAIN net[q][r]
        BY <3>1, <3>3
      <4>2. CASE i = Len(net[q][r]) + 1
        BY <1>2, <3>1, <3>3, <4>2
      <4>3. CASE i \in DOMAIN net[q][r]
        <5>1. net'[q][r][i] = net[q][r][i]
          BY <3>1, <3>3, <4>3
        <5> QED
          BY <4>3, <5>1 DEF Senders
      <4> QED
        BY <4>1, <4>2, <4>3
    <3> QED
      BY <1>2, <3>2, <3>3, MulticastRows
  <2> QED
    BY <2>1 DEF Senders, SentBy
<1>3. CASE UNCHANGED net
  BY <1>1, <1>3
<1>4. ASSUME NEW p \in Proc, NEW q \in Proc,
             net[q][p] # <<>>, net' = [net EXCEPT ![q][p] = Tail(@)]
      PROVE  Senders'
  BY <1>1, <1>4, TakeType
<1>5. ASSUME NEW p \in Proc, Crash(p)
      PROVE  Senders'
  <2>1. \A q, r \in Proc : net'[q][r] = net[q][r] \/ net'[q][r] = <<>>
    BY <1>5 DEF Crash, TypeOK
  <2>2. DOMAIN <<>> = {}
    OBVIOUS
  <2> QED
    BY <1>1, <2>1, <2>2
<1>6. CASE UserCall
  <2>1. ASSUME NEW pub \in Advertisable, Unadvertise(pub.pUuid, pub)
        PROVE  Senders'
    <3> DEFINE m == [type |-> "UNADVERTISE", sub |-> pub, ctrl |-> Anyone]
    <3>1. pub.pUuid \in Proc /\ Multicast(pub.pUuid, m)
      BY <2>1, UsersAssumption DEF Unadvertise, Publisher
    <3>2. SentBy(m, pub.pUuid)
      BY DEF SentBy
    <3> QED
      BY <1>2, <3>1, <3>2
  <2> QED
    BY <1>3, <1>6, <2>1 DEF UserCall, Advertise, Subscribe, Unsubscribe
<1>7. ASSUME NEW p \in Proc, NEW dst, Unregister(p, dst)
      PROVE  Senders'
  <2> DEFINE m == [type |-> "END_CONNECTION", sub |-> thread[p]["user"].sub,
                   ctrl |-> dst]
  <2>1. Multicast(p, m) /\ SentBy(m, p)
    BY <1>7 DEF Unregister, Ending, SentBy
  <2> QED
    BY <1>2, <2>1
<1>8. ASSUME NEW p \in Proc, NEW t \in Threads, ThreadStep(p, t)
      PROVE  Senders'
  <2>1. ASSUME NEW m, m \in Registering(p, t), Register(p, t, m)
        PROVE  Senders'
    <3>1. Multicast(p, m) /\ SentBy(m, p)
      BY <2>1 DEF Register, Prepared, SentBy
    <3> QED
      BY <1>2, <3>1
  <2>2. ~ (\E m \in Registering(p, t) : Register(p, t, m)) => UNCHANGED net
    BY <1>8 DEF ThreadStep, OnNewConnection, TellDone
  <2> QED
    BY <1>3, <2>1, <2>2
<1>9. ASSUME NEW p \in Proc, NEW q \in Proc,
             \/ OnNewRegistration(p, q) \/ OnEndRegistration(p, q)
             \/ OnUnadvertise(p, q) \/ Lose(p, q)
      PROVE  Senders'
  BY <1>4, <1>9 DEF OnNewRegistration, OnEndRegistration, OnUnadvertise,
     Take, Lose
<1>10. ASSUME NEW p \in Proc,
              \/ Start(p) \/ Announce(p)
              \/ \E pub \in Publisher : Learn(p, pub)
              \/ \E q \in Proc : Expire(p, q)
              \/ OnProcessLost(p) \/ Removes(p)
              \/ Discover(p) \/ UnsubscribeLookup(p)
       PROVE  Senders'
  BY <1>3, <1>10 DEF Start, Announce, Learn, Expire, OnProcessLost, Removes,
     Discover, UnsubscribeLookup
<1>11. ASSUME NEW p \in Proc, UserStep(p)
       PROVE  Senders'
  BY <1>7, <1>8, <1>10, <1>11 DEF UserStep, Threads
<1>12. ASSUME NEW p \in Proc, RecvStep(p)
       PROVE  Senders'
  BY <1>8, <1>9, <1>10, <1>12 DEF RecvStep, Threads
<1>13. CASE UNCHANGED vars
  BY <1>3, <1>13 DEF vars
<1> QED
  BY <1>5, <1>6, <1>9, <1>10, <1>11, <1>12, <1>13 DEF Next

(***************************************************************************)
(* AllTold.  What a step does: a registration that was told, or is to be   *)
(* told, still is; new handlers and new publishers are to be told; and no  *)
(* process comes to life again.                                            *)
(***************************************************************************)
RegistrationKept ==
    \A h \in localSubscribers \intersect localSubscribers' :
        \A pub \in Publisher :
            (/\ pub \in known[h.pUuid]
             /\ pub.topic = h.topic
             /\ pub.pUuid # h.pUuid
             /\ pub.pUuid \in live /\ pub.pUuid \in live'
             /\ ToldOrToTell(h, pub))
                => ToldOrToTell(h, pub)'

HandlersToTell ==
    \A h \in localSubscribers' \ localSubscribers :
        \A pub \in known'[h.pUuid] : ToTell(h, pub)'

KnownToTell ==
    \A h \in localSubscribers' :
        \A pub \in known'[h.pUuid] \ known[h.pUuid] : ToTell(h, pub)'

RegistrationStep ==
    /\ RegistrationKept
    /\ HandlersToTell
    /\ KnownToTell
    /\ gone \intersect live' \subseteq live

LEMMA RegistrationPreserved ==
    ASSUME TypeOK, TypeOK', AllStarted, AllTold, RegistrationStep,
           lost' = 0 => lost = 0
    PROVE  AllTold'
<1> SUFFICES ASSUME lost' = 0, NEW h \in localSubscribers',
                    NEW pub \in known'[h.pUuid],
                    pub.topic = h.topic, pub.pUuid # h.pUuid,
                    pub.pUuid \in live'
             PROVE  ToldOrToTell(h, pub)'
  BY DEF AllTold, Heard
<1>1. h.pUuid \in Proc /\ pub \in Publisher
  BY DEF TypeOK, SubHandler
<1>2. CASE h \in localSubscribers /\ pub \in known[h.pUuid]
  <2>1. pub.pUuid \in live
    BY <1>1, <1>2 DEF AllStarted, Started, RegistrationStep
  <2>2. ToldOrToTell(h, pub)
    BY <1>2, <2>1 DEF AllTold, Heard
  <2> QED
    BY <1>1, <1>2, <2>1, <2>2 DEF RegistrationStep, RegistrationKept
<1>3. CASE h \notin localSubscribers
  BY <1>3 DEF RegistrationStep, HandlersToTell, ToldOrToTell
<1>4. CASE pub \notin known[h.pUuid]
  BY <1>4 DEF RegistrationStep, KnownToTell, ToldOrToTell
<1> QED
  BY <1>2, <1>3, <1>4

\* Nothing a thread has to tell is dropped.
ThreadsKeep ==
    \A p \in Proc, t \in Threads :
        \/ thread'[p][t] = thread[p][t]
        \/ thread[p][t].op \notin {"discover", "tell"}
        \/ /\ thread[p][t].op = "tell"
           /\ thread[p][t].pubs = {} /\ thread[p][t].regs = {}

LEMMA ToTellSame ==
    ASSUME ThreadsKeep, NEW h \in SubHandler, NEW pub, ToTell(h, pub)
    PROVE  ToTell(h, pub)'
<1>1. h.pUuid \in Proc
  BY DEF SubHandler
<1> QED
  BY <1>1 DEF ThreadsKeep, ToTell, Threads

\* A registration is not undone by what else is sent.
LEMMA ToldSame ==
    ASSUME TypeOK, NEW h \in SubHandler, NEW q \in Proc, Told(h, q),
           remoteSubscribers'[q] = remoteSubscribers[q],
           \/ net'[h.pUuid][q] = net[h.pUuid][q]
           \/ \E m \in Message :
                 /\ ~ IsEnd(m, h)
                 /\ net'[h.pUuid][q] = Append(net[h.pUuid][q], m)
    PROVE  Told(h, q)'
<1>1. h.pUuid \in Proc
  BY DEF SubHandler
<1>2. net[h.pUuid][q] \in Seq(Message)
  BY <1>1 DEF TypeOK
<1>3. /\ Coming(net[h.pUuid][q], h, q) => Coming(net'[h.pUuid][q], h, q)
      /\ Endless(net[h.pUuid][q], h) => Endless(net'[h.pUuid][q], h)
  BY <1>2, ChannelAppend
<1>4. IsRegistered(h, q) => IsRegistered(h, q)'
  BY DEF IsRegistered
<1> QED
  BY <1>3, <1>4 DEF Told

\* Steps that touch neither channels nor remote subscribers.
LEMMA RegistrationSame ==
    ASSUME TypeOK, ThreadsKeep, UNCHANGED <<net, remoteSubscribers>>
    PROVE  RegistrationKept
<1> SUFFICES ASSUME NEW h \in localSubscribers, NEW pub \in Publisher,
                    ToldOrToTell(h, pub)
             PROVE  ToldOrToTell(h, pub)'
  BY DEF RegistrationKept
<1>1. h \in SubHandler /\ pub.pUuid \in Proc
  BY DEF TypeOK, Publisher
<1> QED
  BY <1>1, ToTellSame, ToldSame DEF ToldOrToTell

\* Steps with no new handler and no new publisher.
NothingNew ==
    /\ localSubscribers' \subseteq localSubscribers
    /\ \A p \in Proc : known'[p] \subseteq known[p]
    /\ gone \intersect live' \subseteq live

LEMMA NothingToTell ==
    ASSUME TypeOK, NothingNew, RegistrationKept
    PROVE  RegistrationStep
<1>1. \A h \in localSubscribers : h.pUuid \in Proc
  BY DEF TypeOK, SubHandler
<1> QED
  BY <1>1 DEF NothingNew, RegistrationStep, HandlersToTell, KnownToTell

\* A multicast of anything but the end of a node with a handler.
LEMMA RegistrationMulticast ==
    ASSUME TypeOK, NEW p \in Proc, NEW m \in Message, Multicast(p, m),
           UNCHANGED remoteSubscribers, ThreadsKeep,
           \A h \in localSubscribers : h.pUuid = p => ~ IsEnd(m, h)
    PROVE  RegistrationKept
<1> SUFFICES ASSUME NEW h \in localSubscribers, NEW pub \in Publisher,
                    ToldOrToTell(h, pub)
             PROVE  ToldOrToTell(h, pub)'
  BY DEF RegistrationKept
<1>1. h \in SubHandler /\ h.pUuid \in Proc /\ pub.pUuid \in Proc
  BY DEF TypeOK, Publisher, SubHandler
<1>2. \/ net'[h.pUuid][pub.pUuid] = net[h.pUuid][pub.pUuid]
      \/ /\ h.pUuid = p
         /\ net'[h.pUuid][pub.pUuid] = Append(net[h.pUuid][pub.pUuid], m)
  BY <1>1, MulticastRows
<1> QED
  BY <1>1, <1>2, ToTellSame, ToldSame DEF ToldOrToTell

\* Processes and the directory.
LEMMA RegistrationProcess ==
    ASSUME TypeOK, NEW p \in Proc,
           \/ Start(p) \/ Crash(p) \/ Announce(p)
           \/ \E pub \in Advertisable :
                 p = pub.pUuid /\ (Advertise(p, pub) \/ Unadvertise(p, pub))
    PROVE  RegistrationStep
<1>1. CASE Crash(p)
  <2>1. /\ localSubscribers' = {h \in localSubscribers : h.pUuid # p}
        /\ live' = live \ {p}
        /\ \A q \in Proc : q # p =>
              /\ known'[q] = known[q]
              /\ thread'[q] = thread[q]
              /\ remoteSubscribers'[q] = remoteSubscribers[q]
        /\ known'[p] = {}
        /\ \A q, r \in Proc : r # p => net'[q][r] = net[q][r]
    BY <1>1 DEF Crash, Dir!Leave, TypeOK
  <2>2. NothingNew
    BY <2>1 DEF NothingNew
  <2>3. ASSUME NEW h \in localSubscribers, NEW pub \in Publisher,
               h.pUuid # p, pub.pUuid # p, ToldOrToTell(h, pub)
        PROVE  ToldOrToTell(h, pub)'
    <3>1. h \in SubHandler /\ h.pUuid \in Proc /\ pub.pUuid \in Proc
      BY DEF TypeOK, Publisher, SubHandler
    <3>2. ToTell(h, pub) => ToTell(h, pub)'
      BY <2>1, <2>3, <3>1 DEF ToTell
    <3>3. Told(h, pub.pUuid) => Told(h, pub.pUuid)'
      BY <2>1, <2>3, <3>1, ToldSame
    <3> QED
      BY <2>3, <3>2, <3>3 DEF ToldOrToTell
  <2>4. RegistrationKept
    BY <2>1, <2>3 DEF RegistrationKept
  <2> QED
    BY <2>2, <2>4, NothingToTell
<1>2. ASSUME NEW pub \in Advertisable, p = pub.pUuid, Unadvertise(p, pub)
      PROVE  RegistrationStep
  <2> DEFINE m == [type |-> "UNADVERTISE", sub |-> pub, ctrl |-> Anyone]
  <2>1. m \in Message /\ \A h : ~ IsEnd(m, h)
    BY UsersAssumption DEF Message, IsEnd
  <2>2. Multicast(p, m)
    BY <1>2 DEF Unadvertise
  <2>3. UNCHANGED <<localSubscribers, live, known, thread, remoteSubscribers>>
    BY <1>2 DEF Unadvertise, Dir!Withdraw
  <2> HIDE DEF m
  <2>4. RegistrationKept
    BY <2>1, <2>2, <2>3, RegistrationMulticast DEF ThreadsKeep
  <2> QED
    BY <2>3, <2>4, NothingToTell DEF NothingNew
<1>3. CASE \/ Start(p) \/ Announce(p)
           \/ \E pub \in Advertisable : p = pub.pUuid /\ Advertise(p, pub)
  <2>1. /\ UNCHANGED <<localSubscribers, known, thread, net,
                       remoteSubscribers>>
        /\ gone \intersect live' \subseteq live
    BY <1>3 DEF Start, Dir!Join, Announce, Dir!Announce, Advertise, Dir!Offer
  <2>2. RegistrationKept
    BY <2>1, RegistrationSame DEF ThreadsKeep
  <2> QED
    BY <2>1, <2>2, NothingToTell DEF NothingNew
<1> QED
  BY <1>1, <1>2, <1>3

\* Subscribe and Unsubscribe, to the end.
LEMMA RegistrationSubscriber ==
    ASSUME TypeOK, Ending, NEW p \in Proc,
           \/ \E h \in Subscribable : p = h.pUuid /\ Subscribe(h)
           \/ \E topic, nUuid, hs : Unsubscribe(p, topic, nUuid, hs)
           \/ Discover(p) \/ UnsubscribeLookup(p)
           \/ \E dst \in Proc \union {Anyone} : Unregister(p, dst)
    PROVE  RegistrationStep
<1> DEFINE s == thread[p]["user"]
<1>1. UNCHANGED <<live, known, remoteSubscribers>>
  BY DEF Subscribe, Unsubscribe, Discover, UnsubscribeLookup, Unregister,
         directory
<1>2. ASSUME NEW h \in Subscribable, p = h.pUuid, Subscribe(h)
      PROVE  RegistrationStep
  <2> DEFINE next == [op |-> "discover", topic |-> h.topic]
  <2>1. /\ Goto(p, "user", next) /\ s = Idle
        /\ localSubscribers' = localSubscribers \union {h}
        /\ UNCHANGED net
    BY <1>2 DEF Subscribe, Call
  <2>2. \A q \in Proc, u \in Threads :
           thread'[q][u] = IF q = p /\ u = "user" THEN next ELSE thread[q][u]
    BY <2>1, GotoSame DEF Threads
  <2>3. RegistrationKept
    BY <1>1, <2>1, <2>2, RegistrationSame DEF ThreadsKeep, Idle
  <2>4. HandlersToTell
    BY <1>2, <2>1, <2>2 DEF HandlersToTell, ToTell, Threads
  <2> QED
    BY <1>1, <2>3, <2>4 DEF RegistrationStep, KnownToTell
<1>3. ASSUME NEW topic, NEW nUuid, NEW hs, Unsubscribe(p, topic, nUuid, hs)
      PROVE  RegistrationStep
  <2>1. /\ s = Idle
        /\ localSubscribers' \subseteq localSubscribers
        /\ UNCHANGED net
        /\ \/ UNCHANGED thread
           \/ \E state : Goto(p, "user", state)
    BY <1>3 DEF Unsubscribe, Call
  <2>2. ThreadsKeep
    BY <2>1, GotoSame DEF ThreadsKeep, Threads, Idle
  <2>3. RegistrationKept
    BY <1>1, <2>1, <2>2, RegistrationSame
  <2> QED
    BY <1>1, <2>1, <2>3, NothingToTell DEF NothingNew
<1>4. CASE Discover(p)
  <2> DEFINE pubs == PublishersOf(offered[p] \union known[p], s.topic)
             next == [op |-> "tell", regs |-> {}, pubs |-> pubs]
  <2>1. /\ Goto(p, "user", next)
        /\ s.op = "discover"
        /\ UNCHANGED <<localSubscribers, net>>
    BY <1>4 DEF Discover
  <2>2. \A q \in Proc, u \in Threads :
           thread'[q][u] = IF q = p /\ u = "user" THEN next ELSE thread[q][u]
    BY <2>1, GotoSame DEF Threads
  <2>3. \A pub \in known[p] : pub.topic = s.topic => pub \in pubs
    BY DEF PublishersOf
  <2>4. next.op = "tell" /\ next.pubs = pubs
    OBVIOUS
  <2> HIDE DEF next, pubs
  <2>5. ASSUME NEW h \in localSubscribers, NEW pub \in known[h.pUuid],
               pub.topic = h.topic, ToldOrToTell(h, pub),
               pub \in Publisher
        PROVE  ToldOrToTell(h, pub)'
    <3>1. h \in SubHandler /\ h.pUuid \in Proc /\ pub.pUuid \in Proc
      BY <2>5 DEF TypeOK, SubHandler, Publisher
    <3>2. Told(h, pub.pUuid) => Told(h, pub.pUuid)'
      BY <1>1, <2>1, <3>1, ToldSame
    <3>3. ToTell(h, pub) => ToTell(h, pub)'
      BY <2>1, <2>2, <2>3, <2>4, <2>5, <3>1 DEF ToTell, Threads
    <3> QED
      BY <2>5, <3>2, <3>3 DEF ToldOrToTell
  <2>6. RegistrationKept
    BY <2>5 DEF RegistrationKept
  <2> QED
    BY <1>1, <2>1, <2>6, NothingToTell DEF NothingNew
<1>5. CASE UnsubscribeLookup(p)
  <2>1. /\ s.op = "lookup"
        /\ \E state : Goto(p, "user", state)
        /\ UNCHANGED <<localSubscribers, net>>
    BY <1>5 DEF UnsubscribeLookup
  <2>2. ThreadsKeep
    BY <2>1, GotoSame DEF ThreadsKeep, Threads
  <2>3. RegistrationKept
    BY <1>1, <2>1, <2>2, RegistrationSame
  <2> QED
    BY <1>1, <2>1, <2>3, NothingToTell DEF NothingNew
<1>6. ASSUME NEW dst \in Proc \union {Anyone}, Unregister(p, dst)
      PROVE  RegistrationStep
  <2> DEFINE m == [type |-> "END_CONNECTION", sub |-> s.sub, ctrl |-> dst]
  <2>1. /\ s.op = "end"
        /\ \E state : Goto(p, "user", state)
        /\ Multicast(p, m)
        /\ UNCHANGED localSubscribers
    BY <1>6 DEF Unregister
  <2>2. m \in Message
    BY <2>1, Carried DEF Message, Threads
  <2>3. \A h \in localSubscribers : ~ IsEnd(m, h)
    BY <2>1 DEF Ending, IsEnd, Names
  <2>4. ThreadsKeep
    BY <2>1, GotoSame DEF ThreadsKeep, Threads
  <2> HIDE DEF m
  <2>5. RegistrationKept
    BY <1>1, <2>1, <2>2, <2>3, <2>4, RegistrationMulticast
  <2> QED
    BY <1>1, <2>1, <2>5, NothingToTell DEF NothingNew
<1> QED
  BY <1>2, <1>3, <1>4, <1>5, <1>6

\* The connection callback: it prepares a registration of every node with a
\* handler, and sends it behind whatever ended an earlier one.
LEMMA RegistrationCallback ==
    ASSUME TypeOK, Prepared, NEW p \in Proc, NEW t \in Threads,
           ThreadStep(p, t)
    PROVE  RegistrationStep
<1> DEFINE s == thread[p][t]
           next(pubs, regs) == [op |-> "tell", pubs |-> pubs, regs |-> regs]
<1>1. UNCHANGED <<live, known, localSubscribers, remoteSubscribers>>
  BY DEF ThreadStep, OnNewConnection, Register, TellDone, directory
<1>2. RegistrationKept => RegistrationStep
  BY <1>1, NothingToTell DEF NothingNew
<1>3. ASSUME NEW pub \in Publisher, OnNewConnection(p, t, pub)
      PROVE  RegistrationStep
  <2>1. /\ s.op = "tell" /\ s.regs = {} /\ UNCHANGED net
    BY <1>3 DEF OnNewConnection
  <2>2. PICK regs :
           /\ Goto(p, t, next(s.pubs \ {pub}, regs))
           /\ Interested(p, pub) => regs = Registrations(p, pub)
    BY <1>3 DEF OnNewConnection
  <2>3. \A q \in Proc, u \in Threads :
           IF q = p /\ u = t
           THEN thread'[q][u] = next(s.pubs \ {pub}, regs)
           ELSE thread'[q][u] = thread[q][u]
    BY <2>2, GotoSame
  <2>4. ASSUME NEW h \in localSubscribers, NEW r \in Publisher,
               r.topic = h.topic, r.pUuid # h.pUuid, ToldOrToTell(h, r)
        PROVE  ToldOrToTell(h, r)'
    <3>1. h \in SubHandler /\ h.pUuid \in Proc /\ r.pUuid \in Proc
      BY DEF TypeOK, SubHandler, Publisher
    <3>2. Told(h, r.pUuid) => Told(h, r.pUuid)'
      BY <1>1, <2>1, <3>1, ToldSame
    <3>3. CASE h.pUuid = p /\ r = pub
      <4> DEFINE m == [type |-> "NEW_CONNECTION", ctrl |-> pub.pUuid,
                       sub |-> SubRecord(p, pub.addr, pub.topic, h.nUuid)]
      <4>1. Interested(p, pub) /\ h \in HandlersOf(p, pub.topic)
        BY <2>4, <3>3 DEF Interested, HasSubscriber, HandlersOf
      <4>2. m \in regs
        BY <2>2, <4>1 DEF Registrations
      <4>3. IsNew(m, h, r.pUuid)
        BY <2>4, <3>3 DEF IsNew, Names, SubRecord
      <4>4. thread'[p][t].op = "tell" /\ m \in thread'[p][t].regs
        BY <2>3, <4>2
      <4> QED
        BY <3>3, <4>3, <4>4 DEF ToldOrToTell, ToTell
    <3>4. CASE ~ (h.pUuid = p /\ r = pub)
      <4>1. CASE /\ thread[h.pUuid]["user"].op = "discover"
                 /\ thread[h.pUuid]["user"].topic = h.topic
        BY <2>1, <2>3, <3>1, <4>1 DEF ToldOrToTell, ToTell, Threads
      <4>2. ASSUME NEW u \in Threads, thread[h.pUuid][u].op = "tell",
                   \/ r \in thread[h.pUuid][u].pubs
                   \/ \E m \in thread[h.pUuid][u].regs : IsNew(m, h, r.pUuid)
            PROVE  ToTell(h, r)'
        <5>1. CASE h.pUuid = p /\ u = t
          BY <2>1, <2>3, <3>4, <4>2, <5>1 DEF ToTell
        <5>2. CASE ~ (h.pUuid = p /\ u = t)
          BY <2>3, <3>1, <4>2, <5>2 DEF ToTell
        <5> QED
          BY <5>1, <5>2
      <4> QED
        BY <2>4, <3>2, <4>1, <4>2 DEF ToldOrToTell, ToTell
    <3> QED
      BY <3>3, <3>4
  <2>5. RegistrationKept
    BY <2>4 DEF RegistrationKept
  <2> QED
    BY <1>2, <2>5
<1>4. ASSUME NEW m, Register(p, t, m)
      PROVE  RegistrationStep
  <2>1. /\ s.op = "tell" /\ m \in s.regs
        /\ Multicast(p, m)
        /\ Goto(p, t, next(s.pubs, s.regs \ {m}))
    BY <1>4 DEF Register
  <2>2. m \in Message /\ m.type = "NEW_CONNECTION"
    BY <2>1, Carried DEF Prepared
  <2>3. \A q \in Proc, u \in Threads :
           IF q = p /\ u = t
           THEN thread'[q][u] = next(s.pubs, s.regs \ {m})
           ELSE thread'[q][u] = thread[q][u]
    BY <2>1, GotoSame
  <2>4. ASSUME NEW h \in localSubscribers, NEW r \in Publisher,
               r.pUuid # h.pUuid, r.pUuid \in live, ToldOrToTell(h, r)
        PROVE  ToldOrToTell(h, r)'
    <3>1. h \in SubHandler /\ h.pUuid \in Proc /\ r.pUuid \in Proc
      BY DEF TypeOK, SubHandler, Publisher
    <3>2. \/ net'[h.pUuid][r.pUuid] = net[h.pUuid][r.pUuid]
          \/ net'[h.pUuid][r.pUuid] = Append(net[h.pUuid][r.pUuid], m)
      BY <2>1, <3>1, MulticastRows
    <3>3. Told(h, r.pUuid) => Told(h, r.pUuid)'
      BY <1>1, <2>2, <3>1, <3>2, ToldSame DEF IsEnd
    <3>4. CASE h.pUuid = p /\ IsNew(m, h, r.pUuid)
      <4>1. /\ net'[p][r.pUuid] = Append(net[p][r.pUuid], m)
            /\ net[p][r.pUuid] \in Seq(Message)
        <5>1. r.pUuid \in live \ {p}
          BY <2>4, <3>4
        <5>2. net'[p][r.pUuid] = Append(net[p][r.pUuid], m)
          BY <2>1, <3>1, <5>1, MulticastRows
        <5> QED
          BY <3>1, <5>2 DEF TypeOK
      <4>2. Coming(net'[p][r.pUuid], h, r.pUuid)
        BY <2>2, <3>4, <4>1, ChannelAppend
      <4> QED
        BY <3>4, <4>2 DEF ToldOrToTell, Told
    <3>5. CASE ~ (h.pUuid = p /\ IsNew(m, h, r.pUuid))
      <4>1. ToTell(h, r) => ToTell(h, r)'
        <5>1. CASE /\ thread[h.pUuid]["user"].op = "discover"
                   /\ thread[h.pUuid]["user"].topic = h.topic
          BY <2>1, <2>3, <3>1, <5>1 DEF ToTell, Threads
        <5>2. ASSUME NEW u \in Threads, thread[h.pUuid][u].op = "tell",
                     r \in thread[h.pUuid][u].pubs
              PROVE  ToTell(h, r)'
          BY <2>3, <3>1, <5>2 DEF ToTell
        <5>3. ASSUME NEW u \in Threads, thread[h.pUuid][u].op = "tell",
                     NEW n \in thread[h.pUuid][u].regs, IsNew(n, h, r.pUuid)
              PROVE  ToTell(h, r)'
          <6>1. /\ thread'[h.pUuid][u].op = "tell"
                /\ n \in thread'[h.pUuid][u].regs
            BY <2>3, <3>1, <3>5, <5>3
          <6> QED
            BY <5>3, <6>1 DEF ToTell
        <5> QED
          BY <5>1, <5>2, <5>3 DEF ToTell
      <4> QED
        BY <2>4, <3>3, <4>1 DEF ToldOrToTell
    <3> QED
      BY <3>4, <3>5
  <2>5. RegistrationKept
    BY <2>4 DEF RegistrationKept
  <2> QED
    BY <1>2, <2>5
<1>5. CASE TellDone(p, t)
  <2>1. /\ s.op = "tell" /\ s.pubs = {} /\ s.regs = {}
        /\ Goto(p, t, Idle) /\ UNCHANGED net
    BY <1>5 DEF TellDone
  <2>2. ThreadsKeep
    BY <2>1, GotoSame DEF ThreadsKeep
  <2> QED
    BY <1>1, <1>2, <2>1, <2>2, RegistrationSame
<1> QED
  BY <1>3, <1>4, <1>5 DEF ThreadStep

\* What discovery's thread learns, and forgets.
LEMMA RegistrationDiscovery ==
    ASSUME TypeOK, NEW p \in Proc,
           \/ \E pub \in Publisher : Learn(p, pub)
           \/ \E q \in Proc : Expire(p, q)
           \/ OnProcessLost(p) \/ Removes(p)
    PROVE  RegistrationStep
<1> DEFINE s == thread[p]["recv"]
<1>1. UNCHANGED <<live, localSubscribers, net, remoteSubscribers>>
  BY DEF Learn, Dir!Learn, Expire, Dir!Forget, OnProcessLost, Removes,
         directory
<1>2. ASSUME NEW pub \in Publisher, Learn(p, pub)
      PROVE  RegistrationStep
  <2> DEFINE next == [op |-> "tell", pubs |-> {pub}, regs |-> {}]
  <2>1. /\ s = Idle /\ Goto(p, "recv", next)
        /\ known' = [known EXCEPT ![p] = Dir!AddPublisher(@, pub)]
    BY <1>2 DEF Learn, Dir!Learn
  <2>2. \A q \in Proc, u \in Threads :
           thread'[q][u] = IF q = p /\ u = "recv" THEN next ELSE thread[q][u]
    BY <2>1, GotoSame DEF Threads
  <2>3. \A q \in Proc : \A r \in known'[q] \ known[q] : q = p /\ r = pub
    BY <2>1 DEF Dir!AddPublisher, TypeOK
  <2>4. next.op = "tell" /\ next.pubs = {pub}
    OBVIOUS
  <2> HIDE DEF next
  <2>5. \A h \in localSubscribers : h.pUuid \in Proc
    BY DEF TypeOK, SubHandler
  <2>6. KnownToTell
    BY <1>1, <2>2, <2>3, <2>4, <2>5 DEF KnownToTell, ToTell, Threads
  <2>7. RegistrationKept
    BY <1>1, <2>1, <2>2, RegistrationSame DEF ThreadsKeep, Idle
  <2> QED
    BY <1>1, <2>6, <2>7 DEF RegistrationStep, HandlersToTell
<1>3. CASE OnProcessLost(p) \/ Removes(p) \/ \E q \in Proc : Expire(p, q)
  <2>1. /\ s.op \in {"idle", "lost", "remove"}
        /\ \E state : Goto(p, "recv", state)
    <3>1. CASE OnProcessLost(p)
      BY <3>1 DEF OnProcessLost
    <3>2. CASE Removes(p)
      BY <3>2 DEF Removes
    <3>3. ASSUME NEW q \in Proc, Expire(p, q)
          PROVE  s.op = "idle" /\ \E state : Goto(p, "recv", state)
      BY <3>3 DEF Expire, Idle
    <3> QED
      BY <1>3, <3>1, <3>2, <3>3
  <2>2. ThreadsKeep
    BY <2>1, GotoSame DEF ThreadsKeep, Threads
  <2>3. \A q \in Proc : known'[q] \subseteq known[q]
    BY <1>3 DEF OnProcessLost, Removes, Expire, directory, DelPublisherByNode,
       DelPublishersByProc, TypeOK
  <2>4. RegistrationKept
    BY <1>1, <2>2, RegistrationSame
  <2> QED
    BY <1>1, <2>3, <2>4, NothingToTell DEF NothingNew
<1> QED
  BY <1>2, <1>3

\* The channel a datagram is taken from, and the others.
LEMMA TakeRows ==
    ASSUME TypeOK, NEW p \in Proc, NEW q \in Proc, net[q][p] # <<>>,
           net' = [net EXCEPT ![q][p] = Tail(@)]
    PROVE  \A r, s \in Proc :
               /\ r = q /\ s = p => net'[r][s] = Tail(net[q][p])
               /\ ~ (r = q /\ s = p) => net'[r][s] = net[r][s]
BY DEF TypeOK

\* The datagrams that arrive.  The registration of a node with a handler is
\* made, and undone by nothing: no datagram that ends it is behind it, those
\* that end others are of others, and it has no publisher that could go.
LEMMA RegistrationReceive ==
    ASSUME Apart, TypeOK, Listed, Senders, NEW p \in Proc, NEW q \in Proc,
           \/ OnNewRegistration(p, q) \/ OnEndRegistration(p, q)
           \/ OnUnadvertise(p, q)
    PROVE  RegistrationStep
<1> DEFINE m == Head(net[q][p])
<1>1. /\ net[q][p] # <<>> /\ net' = [net EXCEPT ![q][p] = Tail(@)]
      /\ thread[p]["recv"] = Idle
  BY DEF OnNewRegistration, OnEndRegistration, OnUnadvertise, Take
<1>2. /\ m \in Message /\ net[q][p] \in Seq(Message)
      /\ SentBy(m, q)
  <2>1. m = net[q][p][1] /\ 1 \in DOMAIN net[q][p] /\ m \in Message
    BY <1>1, TakeType
  <2> QED
    BY <2>1 DEF Senders, TypeOK
<1>3. /\ UNCHANGED <<live, known, localSubscribers>>
      /\ \A r \in Proc : r # p => remoteSubscribers'[r] = remoteSubscribers[r]
  BY DEF OnNewRegistration, OnEndRegistration, OnUnadvertise, directory, TypeOK
<1>4. ThreadsKeep
  <2>1. \/ UNCHANGED thread
        \/ \E state : Goto(p, "recv", state)
    BY DEF OnNewRegistration, OnEndRegistration, OnUnadvertise
  <2> QED
    BY <1>1, <2>1, GotoSame DEF ThreadsKeep, Threads, Idle
<1>5. remoteSubscribers[p] \in SUBSET Publisher
  BY DEF TypeOK
\* What becomes of a registered node: it is registered still, unless the
\* datagram ends it.
<1>6. ASSUME NEW h \in localSubscribers, h.pUuid # p, IsRegistered(h, p),
             h.pUuid = q => ~ IsEnd(m, h)
      PROVE  IsRegistered(h, p)'
  <2>1. PICK r \in remoteSubscribers[p] :
            r.topic = h.topic /\ r.pUuid = h.pUuid /\ r.nUuid = h.nUuid
    BY <1>6 DEF IsRegistered
  <2>2. r \in remoteSubscribers'[p]
    <3>1. CASE OnNewRegistration(p, q)
      <4>1. remoteSubscribers' = [remoteSubscribers EXCEPT ![p] =
                IF ForMe(p, m) THEN AddPublisher(@, m.sub) ELSE @]
        BY <3>1 DEF OnNewRegistration
      <4> HIDE DEF m
      <4> QED
        BY <2>1, <4>1 DEF AddPublisher, TypeOK
    <3>2. CASE OnEndRegistration(p, q)
      <4>1. /\ m.type = "END_CONNECTION"
            /\ remoteSubscribers' = [remoteSubscribers EXCEPT ![p] =
                   IF m.ctrl \in {Anyone, p}
                   THEN DelPublisherByNode(@, m.sub.topic, m.sub.pUuid,
                                           m.sub.nUuid)
                   ELSE @]
        BY <3>2 DEF OnEndRegistration, Take
      <4>2. m.sub.pUuid = q
        BY <1>2, <4>1 DEF SentBy
      <4>3. ~ (/\ r.topic = m.sub.topic
               /\ r.pUuid = m.sub.pUuid
               /\ r.nUuid = m.sub.nUuid)
        BY <1>6, <2>1, <4>1, <4>2 DEF IsEnd, Names
      <4> HIDE DEF m
      <4> QED
        BY <2>1, <4>1, <4>3 DEF DelPublisherByNode, TypeOK
    <3>3. CASE OnUnadvertise(p, q)
      <4>1. /\ m.type = "UNADVERTISE"
            /\ \/ UNCHANGED remoteSubscribers
               \/ remoteSubscribers' = [remoteSubscribers EXCEPT ![p] =
                      DelPublisherByNode(@, m.sub.topic, m.sub.pUuid,
                                         m.sub.nUuid)]
        BY <3>3 DEF OnUnadvertise, Take
      <4>2. m.sub \in Advertisable /\ h \in Subscribable
        BY <1>2, <4>1 DEF SentBy, Listed
      <4>3. ~ (/\ r.topic = m.sub.topic
               /\ r.pUuid = m.sub.pUuid
               /\ r.nUuid = m.sub.nUuid)
        BY <2>1, <4>2 DEF Apart
      <4>4. CASE UNCHANGED remoteSubscribers
        BY <2>1, <4>4
      <4>5. CASE remoteSubscribers' = [remoteSubscribers EXCEPT ![p] =
                     DelPublisherByNode(@, m.sub.topic, m.sub.pUuid,
                                        m.sub.nUuid)]
        <5> HIDE DEF m
        <5> QED
          BY <2>1, <4>3, <4>5 DEF DelPublisherByNode, TypeOK
      <4> QED
        BY <4>1, <4>4, <4>5
    <3> QED
      BY <3>1, <3>2, <3>3
  <2> QED
    BY <2>1, <2>2 DEF IsRegistered
\* And of one whose registration is taken from the channel.
<1>7. ASSUME NEW h \in localSubscribers, IsNew(m, h, p)
      PROVE  IsRegistered(h, p)'
  <2>1. OnNewRegistration(p, q)
    BY <1>7 DEF IsNew, OnNewRegistration, OnEndRegistration, OnUnadvertise,
       Take
  <2>2. remoteSubscribers'[p] = AddPublisher(remoteSubscribers[p], m.sub)
    BY <1>7, <2>1 DEF OnNewRegistration, ForMe, IsNew, TypeOK
  <2>3. \E r \in remoteSubscribers'[p] :
           r.topic = m.sub.topic /\ r.pUuid = m.sub.pUuid
              /\ r.nUuid = m.sub.nUuid
    BY <2>2 DEF AddPublisher, Holds, SamePublisher
  <2> QED
    BY <1>7, <2>3 DEF IsNew, Names, IsRegistered
<1>8. ASSUME NEW h \in localSubscribers, NEW pub \in Publisher,
             pub.pUuid # h.pUuid, Told(h, pub.pUuid)
      PROVE  Told(h, pub.pUuid)'
  <2>1. h \in SubHandler /\ h.pUuid \in Proc /\ pub.pUuid \in Proc
    BY DEF TypeOK, SubHandler, Publisher
  <2>2. CASE pub.pUuid # p
    <3>1. net'[h.pUuid][pub.pUuid] = net[h.pUuid][pub.pUuid]
      BY <1>1, <2>1, <2>2, TakeRows
    <3> QED
      BY <1>3, <1>8, <2>1, <2>2, <3>1, ToldSame
  <2>3. CASE pub.pUuid = p /\ h.pUuid # q
    <3>1. net'[h.pUuid][p] = net[h.pUuid][p]
      BY <1>1, <2>1, <2>3, TakeRows
    <3>2. IsRegistered(h, p) => IsRegistered(h, p)'
      BY <1>6, <1>8, <2>3
    <3> QED
      BY <1>8, <2>3, <3>1, <3>2 DEF Told
  <2>4. CASE pub.pUuid = p /\ h.pUuid = q
    <3>1. net'[q][p] = Tail(net[q][p])
      BY <1>1, TakeRows
    <3>2. CASE Coming(net[q][p], h, p)
      <4>1. \/ Coming(Tail(net[q][p]), h, p)
            \/ IsNew(m, h, p) /\ Endless(Tail(net[q][p]), h)
        BY <1>1, <1>2, <3>2, ChannelTail
      <4> QED
        BY <1>7, <2>4, <3>1, <4>1 DEF Told
    <3>3. CASE IsRegistered(h, p) /\ Endless(net[q][p], h)
      <4>1. Endless(Tail(net[q][p]), h) /\ ~ IsEnd(m, h)
        BY <1>1, <1>2, <3>3, ChannelTail
      <4>2. IsRegistered(h, p)'
        BY <1>6, <1>8, <2>4, <3>3, <4>1
      <4> QED
        BY <2>4, <3>1, <4>1, <4>2 DEF Told
    <3> QED
      BY <1>8, <2>4, <3>2, <3>3 DEF Told
  <2> QED
    BY <2>2, <2>3, <2>4
<1>9. ASSUME NEW h \in localSubscribers, NEW pub \in Publisher,
             pub.pUuid # h.pUuid, ToldOrToTell(h, pub)
      PROVE  ToldOrToTell(h, pub)'
  <2>1. h \in SubHandler
    BY DEF TypeOK
  <2> QED
    BY <1>4, <1>8, <1>9, <2>1, ToTellSame DEF ToldOrToTell
<1>10. RegistrationKept
  BY <1>9 DEF RegistrationKept
<1> QED
  BY <1>3, <1>10, NothingToTell DEF NothingNew

LEMMA AllToldStep ==
    ASSUME Apart, TypeOK, TypeOK', RegisteredInv, [Next]_vars
    PROVE  AllTold'
<1> USE DEF RegisteredInv
<1>1. lost' = lost \/ lost' # 0
  <2>1. ASSUME NEW p \in Proc, NEW q \in Proc, Lose(p, q)
        PROVE  lost' # 0
    BY <2>1 DEF Lose, TypeOK
  <2>2. CASE UserCall
    BY <2>2 DEF UserCall, Advertise, Unadvertise, Subscribe, Unsubscribe
  <2>3. ASSUME NEW p \in Proc, UserStep(p) \/ RecvStep(p)
        PROVE  lost' = lost
    BY <2>3 DEF UserStep, RecvStep, ThreadStep, Discover, UnsubscribeLookup,
       Unregister, OnNewConnection, Register, TellDone, OnProcessLost, Removes,
       OnNewRegistration, OnEndRegistration, OnUnadvertise
  <2>4. ASSUME NEW p \in Proc,
               \/ Start(p) \/ Crash(p) \/ Announce(p)
               \/ \E pub \in Publisher : Learn(p, pub)
               \/ \E q \in Proc : Expire(p, q)
        PROVE  lost' = lost
    BY <2>4 DEF Start, Crash, Announce, Learn, Expire
  <2>5. CASE UNCHANGED vars
    BY <2>5 DEF vars
  <2> QED
    BY <2>1, <2>2, <2>3, <2>4, <2>5 DEF Next
<1>2. RegistrationStep => AllTold'
  BY <1>1, RegistrationPreserved
<1>3. CASE UserCall
  <2>1. \A pub \in Advertisable : pub.pUuid \in Proc
    BY UsersAssumption DEF Publisher
  <2>2. \A h \in Subscribable : h.pUuid \in Proc
    BY UsersAssumption DEF SubHandler
  <2>3. RegistrationStep
    BY <1>3, <2>1, <2>2, RegistrationProcess, RegistrationSubscriber
    DEF UserCall
  <2> QED
    BY <1>2, <2>3
<1>4. ASSUME NEW p \in Proc, UserStep(p)
      PROVE  RegistrationStep
  BY <1>4, RegistrationSubscriber, RegistrationCallback DEF UserStep, Threads
<1>5. ASSUME NEW p \in Proc, RecvStep(p)
      PROVE  RegistrationStep
  BY <1>5, RegistrationDiscovery, RegistrationReceive, RegistrationCallback
  DEF RecvStep, Threads
<1>6. ASSUME NEW p \in Proc, NEW q \in Proc, Lose(p, q)
      PROVE  lost' # 0
  BY <1>6 DEF Lose, TypeOK
<1>7. CASE UNCHANGED vars
  <2>1. ThreadsKeep /\ NothingNew /\ UNCHANGED <<net, remoteSubscribers>>
    BY <1>7 DEF vars, directory, ThreadsKeep, NothingNew
  <2> QED
    BY <1>2, <2>1, RegistrationSame, NothingToTell
<1>8. lost' # 0 => AllTold'
  BY DEF AllTold
<1> QED
  BY <1>2, <1>3, <1>4, <1>5, <1>6, <1>7, <1>8, RegistrationProcess,
     RegistrationDiscovery DEF Next

\* If no node both publishes and subscribes on a topic, the invariant of
\* registrations holds throughout.
LEMMA RegistrationsInvariant == Apart => (Spec => []RegisteredInv)
<1> SUFFICES ASSUME Apart
             PROVE  Spec => []RegisteredInv
  OBVIOUS
<1>1. Init => RegisteredInv
  <2>1. DOMAIN <<>> = {}
    OBVIOUS
  <2> QED
    BY <2>1 DEF Init, Dir!Init, RegisteredInv, Listed, Ending, Prepared,
       Senders, AllStarted, Started, AllTold, Idle, Threads
<1>2. TypeOK /\ TypeOK' /\ RegisteredInv /\ [Next]_vars => RegisteredInv'
  <2> SUFFICES ASSUME TypeOK, TypeOK', RegisteredInv, [Next]_vars
               PROVE  RegisteredInv'
    OBVIOUS
  <2>1. AllTold'
    BY AllToldStep
  <2>2. Listed' /\ Ending' /\ Prepared' /\ Senders' /\ AllStarted'
    BY ListedStep, EndingStep, PreparedStep, SendersStep, StartedStep
    DEF RegisteredInv
  <2> QED
    BY <2>1, <2>2 DEF RegisteredInv
<1> QED
  BY <1>1, <1>2, TypeCorrect, PTL DEF Spec

\* When a subscriber's process has nothing left to do or to send, everything
\* it was to be told of was told.
LEMMA QuietRegistered ==
    ASSUME TypeOK, AllTold
    PROVE  Registered
<1> SUFFICES ASSUME lost = 0, NEW h \in localSubscribers, NEW pub \in Heard(h),
                    Quiet(h.pUuid, pub.pUuid)
             PROVE  IsRegistered(h, pub.pUuid)
  BY DEF Registered
<1>1. ToldOrToTell(h, pub)
  BY DEF AllTold
<1>2. ~ ToTell(h, pub)
  BY DEF Quiet, ToTell, Threads, Idle
<1>3. ~ Coming(net[h.pUuid][pub.pUuid], h, pub.pUuid)
  <2>1. DOMAIN <<>> = {}
    OBVIOUS
  <2> QED
    BY <2>1 DEF Quiet, Coming
<1> QED
  BY <1>1, <1>2, <1>3 DEF ToldOrToTell, Told

\* The publishing process knows every node that has a handler, once the
\* subscriber's process has finished what it began and no datagram was lost,
\* whatever the order in which its two threads registered and unregistered
\* the same nodes.  The hypothesis is needed: it excludes the nodes of which
\* OnNewDisconnection takes the subscriber for the publisher.
THEOREM NodesRegistered == Apart => (Spec => []Registered)
<1> SUFFICES ASSUME Apart
             PROVE  Spec => []Registered
  OBVIOUS
<1>1. TypeOK /\ RegisteredInv => Registered
  BY QuietRegistered DEF RegisteredInv
<1> QED
  BY <1>1, RegistrationsInvariant, TypeCorrect, PTL

\* A publisher that a handler hears says that it has subscribers
\* (Node::Publisher::HasConnections, NodeShared.cc:1139-1162), under the same
\* hypothesis; without it, it may not, as TLC shows.
THEOREM CountedUnlessBoth == Apart => (Spec => []SubscribersCounted)
<1> SUFFICES ASSUME Apart
             PROVE  Spec => []SubscribersCounted
  OBVIOUS
<1>1. Registered => SubscribersCounted
  BY DEF Registered, SubscribersCounted, Heard, IsRegistered, HasConnections,
         PublishersOf
<1> QED
  BY <1>1, NodesRegistered, PTL

\* Wherever a publisher is known, its address is that of its process.
LEMMA AddressesOwn == Spec => []OwnAddress
<1>1. Init => OwnAddress
  BY DEF Init, Dir!Init, OwnAddress, Own, Idle
<1>2. TypeOK /\ OwnAddress /\ [Next]_vars => OwnAddress'
  BY OwnAddressStep
<1> QED
  BY <1>1, <1>2, TypeCorrect, PTL DEF Spec

AllReached ==
    lost = 0 =>
        \A h \in localSubscribers : \A pub \in Heard(h) :
            Quiet(h.pUuid, pub.pUuid) => Reaches(pub.pUuid, h)

\* The data of a publisher gets to every handler that hears it, whenever the
\* handler's process is idle, what it sent has arrived and no datagram was
\* lost: it is registered, its socket is connected, and the filter set.
THEOREM HandlersReached == Apart => (Spec => []AllReached)
<1> SUFFICES ASSUME Apart
             PROVE  Spec => []AllReached
  OBVIOUS
<1>1. TypeOK /\ OwnAddress /\ Hears /\ Registered => AllReached
  <2> SUFFICES ASSUME TypeOK, OwnAddress, Hears, Registered, lost = 0,
                      NEW h \in localSubscribers, NEW pub \in Heard(h),
                      Quiet(h.pUuid, pub.pUuid)
               PROVE  Reaches(pub.pUuid, h)
    BY DEF AllReached
  <2>1. IsRegistered(h, pub.pUuid)
    BY DEF Registered
  <2>2. pub.addr \in sockets[h.pUuid] /\ h.topic \in filters[h.pUuid]
    BY DEF Hears, Quiet
  <2>3. pub.addr = pub.pUuid
    BY DEF TypeOK, SubHandler, Heard, OwnAddress, Own
  <2> QED
    BY <2>1, <2>2, <2>3 DEF Reaches
<1> QED
  BY <1>1, HandlersHear, NodesRegistered, AddressesOwn, TypeCorrect, PTL
=============================================================================
