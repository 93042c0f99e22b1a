------------------------------- MODULE Nodes --------------------------------
(***************************************************************************)
(* The nodes of a process (src/src/Node.cc, detail/Node.hh), and the       *)
(* tables they share: handlers, responders, and what discovery holds of    *)
(* the process.  Users keep Publisher and Subscriber objects, which unlike *)
(* nodes are copied, moved and assigned to.                                *)
(*                                                                         *)
(* Every call takes NodeShared's mutex, and is one action.  The end of a   *)
(* node is a sequence of such calls, which other nodes' calls, and the end *)
(* of its own Publishers and Subscribers, may come between.  Queue and     *)
(* messages are in LocalPublish, what other processes see in PubSub.       *)
(***************************************************************************)
EXTENDS TopicNames, HandlerStorage, FiniteSets

CONSTANTS
    Node,
    Options,            \* NodeOptions: partition, ns and topicsRemap of each
    Name, Service,      \* topics and services as users write them
    StatsTopic,         \* where nodes publish statistics
    PubVar, SubVar,     \* variables of users
    MaxMade             \* bound on the handlers and publishers ever made

VARIABLES
    normal, raw,        \* NodeShared::localSubscribers
    topicsSubscribed,   \* NodeSharedPrivate::topicsSubscribed
    msgInfo,            \* msgDiscovery's publishers of this process
    repliers,           \* NodeShared::repliers
    srvsAdvertised,     \* NodePrivate::srvsAdvertised
    srvInfo,            \* srvDiscovery's publishers of this process
    statistics,         \* NodeSharedPrivate::enabledTopicStatistics
    publishers,         \* the PublisherPrivate each Publisher points to
    subscribers,        \* what each Subscriber stands for
    stage,              \* of each node: "alive", or how far its end is
    todo,               \* names the end of the node has yet to give up
    made                \* objects made, which also makes identifiers

tables == <<normal, raw, topicsSubscribed, msgInfo, repliers, srvsAdvertised,
            srvInfo, statistics>>
nodevars == <<tables, publishers, subscribers, stage, todo, made>>

NoPublisher == [topic |-> NoName]
NoSubscriber == [hUuid |-> 0]

\* NodePrivate::statPub is a Publisher, too.
Holder == PubVar \union Node

NodesInit ==
    /\ normal = Empty /\ raw = Empty
    /\ topicsSubscribed = [n \in Node |-> {}]
    /\ msgInfo = {}
    /\ repliers = Empty
    /\ srvsAdvertised = [n \in Node |-> {}]
    /\ srvInfo = {}
    /\ statistics = Empty
    /\ publishers = [v \in Holder |-> NoPublisher]
    /\ subscribers = [v \in SubVar |-> NoSubscriber]
    /\ stage = [n \in Node |-> "alive"]
    /\ todo = [n \in Node |-> {}]
    /\ made = 0

TopicRemap(n, name) ==
    IF name \in DOMAIN Options[n].topicsRemap
    THEN Options[n].topicsRemap[name] ELSE name

FullName(n, name) ==
    FullyQualifiedName(Options[n].partition, Options[n].ns, name)

Alive(n) == stage[n] = "alive"

Makes == made < MaxMade /\ made' = made + 1

(***************************************************************************)
(* Publishers.  PublisherPrivate is shared by the copies of a Publisher,   *)
(* and unadvertises its topic when the last one goes.                      *)
(***************************************************************************)
Record(topic, n) == [topic |-> topic, nUuid |-> n]

\* Mutant: each copy unadvertises when it goes.
UnadvertisedByCopy(before, after) ==
    {Record(before[v].topic, before[v].nUuid) :
        v \in {w \in Holder : before[w] # NoPublisher
                                  /\ after[w] # before[w]}}

Unadvertised(before, after) ==
    {Record(d.topic, d.nUuid) :
        d \in (Range(before) \ Range(after)) \ {NoPublisher}}

\* The publishers are now those of a new assignment.
Hold(holds, added) ==
    /\ publishers' = holds
    /\ msgInfo' = (msgInfo \union added) \ Unadvertised(publishers, holds)

AdvertisedTopics(n) ==
    {WithoutPartition(r.topic) : r \in {s \in msgInfo : s.nUuid = n}}

\* The Publisher that Advertise returns: refused if the name is not valid, or
\* if the node advertises the topic already.
Advertised(n, name) ==
    LET topic == FullName(n, TopicRemap(n, name))
    IN  IF topic = Failed \/ WithoutPartition(topic) \in AdvertisedTopics(n)
        THEN NoPublisher
        ELSE [topic |-> topic, nUuid |-> n, id |-> made + 1]

New(pub) == IF pub = NoPublisher THEN {} ELSE {Record(pub.topic, pub.nUuid)}

\* The result is assigned to a variable; what was there may go.
Advertise(n, name, v) ==
    LET pub == Advertised(n, name)
    IN  /\ Alive(n)
        /\ Makes
        /\ Hold([publishers EXCEPT ![v] = pub], New(pub))
        /\ UNCHANGED <<normal, raw, topicsSubscribed, repliers, srvsAdvertised,
                       srvInfo, statistics, subscribers, stage, todo>>

AssignPublisher(v, w) ==
    /\ publishers[v] # publishers[w]
    /\ Hold([publishers EXCEPT ![v] = publishers[w]], {})
    /\ UNCHANGED <<normal, raw, topicsSubscribed, repliers, srvsAdvertised,
                   srvInfo, statistics, subscribers, stage, todo, made>>

EndPublisher(v) ==
    /\ publishers[v] # NoPublisher
    /\ Hold([publishers EXCEPT ![v] = NoPublisher], {})
    /\ UNCHANGED <<normal, raw, topicsSubscribed, repliers, srvsAdvertised,
                   srvInfo, statistics, subscribers, stage, todo, made>>

\* The publisher of the statistics is assigned whether statistics are turned
\* on or off; a callback that is there already is kept.
EnableStats(n, name, enable) ==
    LET pub == Advertised(n, StatsTopic)
        topic == FullName(n, TopicRemap(n, name))
    IN  /\ Alive(n)
        /\ topic # Failed
        /\ Makes
        /\ Hold([publishers EXCEPT ![n] = pub], New(pub))
        /\ statistics' = IF enable THEN statistics @@ topic :> n
                         ELSE Without(statistics, topic)
        /\ UNCHANGED <<normal, raw, topicsSubscribed, repliers, srvsAdvertised,
                       srvInfo, subscribers, stage, todo>>

(***************************************************************************)
(* Subscribing.                                                            *)
(***************************************************************************)
NewHandler(n) == [nUuid |-> n, hUuid |-> made + 1]

Subscribed(n, topic) ==
    topicsSubscribed' = [topicsSubscribed EXCEPT ![n] = @ \union {topic}]

SubscribeImpl(n, name) ==
    LET topic == FullName(n, TopicRemap(n, name))
    IN  /\ Alive(n)
        /\ topic # Failed
        /\ Makes
        /\ normal' = AddHandler(normal, topic, n, NewHandler(n))
        /\ Subscribed(n, topic)
        /\ UNCHANGED <<raw, msgInfo, repliers, srvsAdvertised, srvInfo,
                       statistics, publishers, stage, todo>>

Subscribe(n, name) == SubscribeImpl(n, name) /\ UNCHANGED subscribers

SubscribeRaw(n, name) ==
    LET topic == FullName(n, TopicRemap(n, name))
    IN  /\ Alive(n)
        /\ topic # Failed
        /\ Makes
        /\ raw' = AddHandler(raw, topic, n, NewHandler(n))
        /\ Subscribed(n, topic)
        /\ UNCHANGED <<normal, msgInfo, repliers, srvsAdvertised, srvInfo,
                       statistics, publishers, subscribers, stage, todo>>

\* The Subscriber is moved to a variable: what that stood for is overwritten,
\* and its handler stays.
CreateSubscriber(n, name, v) ==
    /\ SubscribeImpl(n, name)
    /\ subscribers' = [subscribers EXCEPT
           ![v] = [name |-> name, nUuid |-> n, hUuid |-> made + 1]]

MoveSubscriber(v, w) ==
    /\ subscribers[w] # NoSubscriber
    /\ subscribers' = [subscribers EXCEPT ![v] = subscribers[w],
                                          ![w] = NoSubscriber]
    /\ UNCHANGED <<tables, publishers, stage, todo, made>>

HasSubscriberForNode(subs, raws, topic, n) ==
    HasHandlersForNode(subs, topic, n) \/ HasHandlersForNode(raws, topic, n)

\* The node is told apart from others, and gives the topic up with its last
\* handler.
RemoveSubscribedTopic(topic, n) ==
    topicsSubscribed' =
        IF HasSubscriberForNode(normal', raw', topic, n) THEN topicsSubscribed
        ELSE [topicsSubscribed EXCEPT ![n] = @ \ {topic}]

\* NodeShared::Unsubscribe, under the mutex: of all the handlers of the node,
\* or of the one that is given.  The name is qualified as it was written.
UnsubscribeAll(n, name) ==
    LET topic == FullName(n, name)
    IN  /\ normal' = RemoveHandlersForNode(normal, topic, n)
        /\ raw' = RemoveHandlersForNode(raw, topic, n)
        /\ RemoveSubscribedTopic(topic, n)

UnsubscribeOne(n, name, hUuid) ==
    LET topic == FullName(n, name)
        removed == RemoveHandler(normal, topic, n, hUuid)
    IN  /\ normal' = removed
        /\ raw' = IF removed # normal THEN raw
                  ELSE RemoveHandler(raw, topic, n, hUuid)
        /\ RemoveSubscribedTopic(topic, n)

Unsubscribe(n, name) ==
    /\ Alive(n)
    /\ FullName(n, name) # Failed
    /\ UnsubscribeAll(n, name)
    /\ UNCHANGED <<msgInfo, repliers, srvsAdvertised, srvInfo, statistics,
                   publishers, subscribers, stage, todo, made>>

\* A Subscriber unsubscribes when it is asked to or goes, with the options of
\* its node, which may be gone.
EndSubscriber(v) ==
    /\ subscribers[v] # NoSubscriber
    /\ UnsubscribeOne(subscribers[v].nUuid, subscribers[v].name,
                      subscribers[v].hUuid)
    /\ subscribers' = [subscribers EXCEPT ![v] = NoSubscriber]
    /\ UNCHANGED <<msgInfo, repliers, srvsAdvertised, srvInfo, statistics,
                   publishers, stage, todo, made>>

(***************************************************************************)
(* Services.  Discovery keeps one publisher of a service and node: a       *)
(* second Advertise of it returns FALSE, but its responder stays.          *)
(***************************************************************************)
AdvertiseSrv(n, name) ==
    LET service == FullName(n, TopicRemap(n, name))
    IN  /\ Alive(n)
        /\ service # Failed
        /\ Makes
        /\ srvsAdvertised' = [srvsAdvertised EXCEPT ![n] = @ \union {service}]
        /\ repliers' = AddHandler(repliers, service, n, NewHandler(n))
        /\ srvInfo' = srvInfo \union {Record(service, n)}
        /\ UNCHANGED <<normal, raw, topicsSubscribed, msgInfo, statistics,
                       publishers, subscribers, stage, todo>>

\* The name is qualified as it was written, too.
UnadvertiseSrvTables(n, name) ==
    LET service == FullName(n, name)
    IN  /\ srvsAdvertised' = [srvsAdvertised EXCEPT ![n] = @ \ {service}]
        /\ repliers' = RemoveHandlersForNode(repliers, service, n)
        /\ srvInfo' = srvInfo \ {Record(service, n)}

UnadvertiseSrv(n, name) ==
    /\ Alive(n)
    /\ FullName(n, name) # Failed
    /\ UnadvertiseSrvTables(n, name)
    /\ UNCHANGED <<normal, raw, topicsSubscribed, msgInfo, statistics,
                   publishers, subscribers, stage, todo, made>>

(***************************************************************************)
(* The end of a node.                                                      *)
(***************************************************************************)
SubscribedTopics(n) == {WithoutPartition(t) : t \in topicsSubscribed[n]}
AdvertisedServices(n) == {WithoutPartition(s) : s \in srvsAdvertised[n]}

Destroy(n) ==
    /\ Alive(n)
    /\ stage' = [stage EXCEPT ![n] = "topics"]
    /\ todo' = [todo EXCEPT ![n] = SubscribedTopics(n)]
    /\ UNCHANGED <<tables, publishers, subscribers, made>>

DestroyUnsubscribe(n, name) ==
    /\ stage[n] = "topics" /\ name \in todo[n]
    /\ UnsubscribeAll(n, name)
    /\ todo' = [todo EXCEPT ![n] = @ \ {name}]
    /\ UNCHANGED <<msgInfo, repliers, srvsAdvertised, srvInfo, statistics,
                   publishers, subscribers, stage, made>>

DestroyServices(n) ==
    /\ stage[n] = "topics" /\ todo[n] = {}
    /\ stage' = [stage EXCEPT ![n] = "services"]
    /\ todo' = [todo EXCEPT ![n] = AdvertisedServices(n)]
    /\ UNCHANGED <<tables, publishers, subscribers, made>>

DestroyUnadvertise(n, name) ==
    /\ stage[n] = "services" /\ name \in todo[n]
    /\ UnadvertiseSrvTables(n, name)
    /\ todo' = [todo EXCEPT ![n] = @ \ {name}]
    /\ UNCHANGED <<normal, raw, topicsSubscribed, msgInfo, statistics,
                   publishers, subscribers, stage, made>>

\* With the node goes the publisher of its statistics.
DestroyEnd(n) ==
    /\ stage[n] = "services" /\ todo[n] = {}
    /\ stage' = [stage EXCEPT ![n] = "gone"]
    /\ Hold([publishers EXCEPT ![n] = NoPublisher], {})
    /\ UNCHANGED <<normal, raw, topicsSubscribed, repliers, srvsAdvertised,
                   srvInfo, statistics, subscribers, todo, made>>

NodeCall(n) ==
    \/ \E name \in Name :
          \/ Subscribe(n, name) \/ SubscribeRaw(n, name)
          \/ Unsubscribe(n, name)
          \/ \E v \in PubVar : Advertise(n, name, v)
          \/ \E v \in SubVar : CreateSubscriber(n, name, v)
          \/ \E enable \in BOOLEAN : EnableStats(n, name, enable)
    \/ \E name \in Service : AdvertiseSrv(n, name) \/ UnadvertiseSrv(n, name)
    \/ Destroy(n)

Destroying(n) ==
    \/ \E name \in todo[n] :
          DestroyUnsubscribe(n, name) \/ DestroyUnadvertise(n, name)
    \/ DestroyServices(n) \/ DestroyEnd(n)

NodesNext ==
    \/ \E n \in Node : NodeCall(n) \/ Destroying(n)
    \/ \E v, w \in PubVar : AssignPublisher(v, w)
    \/ \E v \in PubVar : EndPublisher(v)
    \/ \E v, w \in SubVar : MoveSubscriber(v, w)
    \/ \E v \in SubVar : EndSubscriber(v)

(***************************************************************************)
(* What a node says of the tables.                                         *)
(***************************************************************************)
\* Node::TopicList: what is advertised or subscribed to in its partition.
TopicList(n) ==
    LET all == {r.topic : r \in msgInfo} \union DOMAIN normal \union DOMAIN raw
    IN  {WithoutPartition(t) :
            t \in {s \in all : Lists(Options[n].partition, s)}}

ServiceList(n) ==
    {WithoutPartition(r.topic) :
        r \in {s \in srvInfo : Lists(Options[n].partition, s.topic)}}

\* Publishers and subscribers of a topic, and who offers a service, by node.
TopicInfo(n, name) ==
    LET topic == FullName(n, name)
    IN  [publishers |-> {r \in msgInfo : r.topic = topic},
         subscribers |-> {Record(topic, h.nUuid) :
             h \in Handlers(normal, topic) \union Handlers(raw, topic)}]

AllTopicInfo(n) == [name \in TopicList(n) |-> TopicInfo(n, name)]

ServiceInfo(n, name) == {r \in srvInfo : r.topic = FullName(n, name)}

(***************************************************************************)
(* Properties.                                                             *)
(***************************************************************************)
\* No map of the storages has an empty entry.
NodesTypeOK ==
    /\ \A data \in {normal, raw, repliers} : \A t \in DOMAIN data :
          /\ data[t] # Empty
          /\ \A n \in DOMAIN data[t] : n \in Node /\ data[t][n] # Empty
    /\ msgInfo \subseteq [topic : {r.topic : r \in msgInfo}, nUuid : Node]
    /\ stage \in [Node -> {"alive", "topics", "services", "gone"}]
    /\ made \in 0..MaxMade

\* "The list of subscribed topics should be empty", "The list of advertised
\* services should be empty" (the assertions of ~Node): nothing of a node is
\* left behind when it is gone, whatever was remapped or in a namespace, and
\* whichever of its Publishers and Subscribers outlive it.
NodeClean ==
    \A n \in Node :
        stage[n] = "gone" =>
            /\ topicsSubscribed[n] = {} /\ srvsAdvertised[n] = {}
            /\ \A h \in All(normal) \union All(raw) \union All(repliers) :
                  h.nUuid # n
            /\ \A r \in srvInfo : r.nUuid # n

\* A node is subscribed to the topics it has handlers of, and advertises the
\* services it has responders of; discovery knows the publishers that some
\* Publisher stands for, copied, assigned or outliving its node, and no
\* others; and what nodes list of their partition has all of it, each name
\* with somebody who publishes, subscribes or serves.
TablesAgree ==
    /\ msgInfo = {Record(d.topic, d.nUuid) :
                     d \in Range(publishers) \ {NoPublisher}}
    /\ \A n \in Node :
          /\ topicsSubscribed[n] =
                {t \in DOMAIN normal \union DOMAIN raw :
                    HasSubscriberForNode(normal, raw, t, n)}
          /\ srvsAdvertised[n] =
                {t \in DOMAIN repliers : HasHandlersForNode(repliers, t, n)}
          /\ srvsAdvertised[n] =
                {r.topic : r \in {s \in srvInfo : s.nUuid = n}}
          /\ Bare(Options[n].partition) =>
                /\ SubscribedTopics(n) \union AdvertisedTopics(n)
                       \subseteq TopicList(n)
                /\ AdvertisedServices(n) \subseteq ServiceList(n)
          /\ \A info \in Range(AllTopicInfo(n)) :
                info.publishers \union info.subscribers # {}
          /\ \A name \in ServiceList(n) : ServiceInfo(n, name) # {}

\* "Turn topic statistics on or off" (Node.hh): while a node has turned the
\* statistics of a topic on, it has a publisher for them.
StatsPublished ==
    \A topic \in DOMAIN statistics :
        Alive(statistics[topic]) =>
            publishers[statistics[topic]] # NoPublisher
=============================================================================
