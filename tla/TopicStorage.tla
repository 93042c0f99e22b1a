---------------------------- MODULE TopicStorage ----------------------------
(***************************************************************************)
(* TopicStorage<T> (src/include/gz/transport/TopicStorage.hh): publishers  *)
(* in a map from topics to maps from processes to vectors.  Discovery and  *)
(* NodeShared rely on it as a set of publishers (PublisherSet): on what    *)
(* add and delete report, and on a topic being a key of the map exactly    *)
(* while somebody publishes it.                                            *)
(***************************************************************************)
EXTENDS Naturals, Sequences, FiniteSets, Functions, TLC

CONSTANTS
    Topic, Proc, Node,
    Address,
    Type,        \* message types, "generic" among them
    MaxStored    \* bound of the instance: publishers stored

\* kGenericMessageType
Generic == "generic"

Publisher == [topic : Topic, addr : Address, pUuid : Proc, nUuid : Node,
              type : Type]

VARIABLES
    data,  \* TopicStorage::data
    last   \* the last call that changes it, with its result

vars == <<data, last>>

Empty == <<>>

Init == data = Empty /\ last = [call |-> "none"]

Procs(topic) == IF topic \in DOMAIN data THEN data[topic] ELSE Empty
Stored(topic, pUuid) ==
    IF pUuid \in DOMAIN Procs(topic) THEN data[topic][pUuid] ELSE <<>>

Without(map, key) == Restrict(map, DOMAIN map \ {key})

(***************************************************************************)
(* Calls that change the storage.                                          *)
(***************************************************************************)
\* Mutant: a node has one publisher of a topic, whatever its address.
AddPublisherByNode(pub) ==
    LET stored == Stored(pub.topic, pub.pUuid)
        known == \E r \in Range(stored) : r.nUuid = pub.nUuid
    IN  /\ data' = IF known THEN data
                   ELSE pub.topic :> (pub.pUuid :> Append(stored, pub)
                                        @@ Procs(pub.topic)) @@ data
        /\ last' = [call |-> "add", pub |-> pub, result |-> ~ known]

AddPublisher(pub) ==
    LET stored == Stored(pub.topic, pub.pUuid)
        known == \E r \in Range(stored) :
                    r.addr = pub.addr /\ r.nUuid = pub.nUuid
    IN  /\ data' = IF known THEN data
                   ELSE pub.topic :> (pub.pUuid :> Append(stored, pub)
                                        @@ Procs(pub.topic)) @@ data
        /\ last' = [call |-> "add", pub |-> pub, result |-> ~ known]

\* Mutant: the entries of a process and of a topic stay when they are empty.
DelPublisherByNodeOnly(topic, pUuid, nUuid) ==
    LET stored == Stored(topic, pUuid)
        kept == SelectSeq(stored, LAMBDA r : r.nUuid # nUuid)
    IN  /\ data' = IF stored = <<>> THEN data
                   ELSE [data EXCEPT ![topic][pUuid] = kept]
        /\ last' = [call |-> "delByNode", topic |-> topic, pUuid |-> pUuid,
                    nUuid |-> nUuid, result |-> Len(kept) < Len(stored)]

DelPublisherByNode(topic, pUuid, nUuid) ==
    LET stored == Stored(topic, pUuid)
        kept == SelectSeq(stored, LAMBDA r : r.nUuid # nUuid)
        procs == IF kept = <<>> THEN Without(Procs(topic), pUuid)
                 ELSE pUuid :> kept @@ Procs(topic)
    IN  /\ data' = CASE pUuid \notin DOMAIN Procs(topic) -> data
                     [] procs = Empty -> Without(data, topic)
                     [] OTHER -> topic :> procs @@ data
        /\ last' = [call |-> "delByNode", topic |-> topic, pUuid |-> pUuid,
                    nUuid |-> nUuid, result |-> Len(kept) < Len(stored)]

\* Mutant: a topic nobody publishes any more stays.
DelPublishersByProcOnly(pUuid) ==
    /\ data' = [t \in DOMAIN data |-> Without(data[t], pUuid)]
    /\ last' = [call |-> "delByProc", pUuid |-> pUuid,
                result |-> \E t \in DOMAIN data : pUuid \in DOMAIN data[t]]

DelPublishersByProc(pUuid) ==
    LET kept == {t \in DOMAIN data : Without(data[t], pUuid) # Empty}
    IN  /\ data' = [t \in kept |-> Without(data[t], pUuid)]
        /\ last' = [call |-> "delByProc", pUuid |-> pUuid,
                    result |-> \E t \in DOMAIN data : pUuid \in DOMAIN data[t]]

Clear == data' = Empty /\ last' = [call |-> "clear"]

Size == Cardinality(UNION {{<<t, p, i>> : i \in DOMAIN data[t][p]} :
            <<t, p>> \in {<<t, p>> \in Topic \X Proc : p \in DOMAIN Procs(t)}})

Next ==
    \/ Size < MaxStored /\ \E pub \in Publisher : AddPublisher(pub)
    \/ \E p \in Proc :
          \/ \E t \in Topic, n \in Node : DelPublisherByNode(t, p, n)
          \/ DelPublishersByProc(p)
    \/ Clear

Spec == Init /\ [][Next]_vars

(***************************************************************************)
(* Queries.                                                                *)
(***************************************************************************)
HasTopic(topic) == topic \in DOMAIN data

HasTopicOfType(topic, type) ==
    /\ HasTopic(topic)
    /\ \E p \in DOMAIN data[topic] : \E r \in Range(data[topic][p]) :
          r.type \in {type, Generic}

HasAnyPublishers(topic, pUuid) ==
    HasTopic(topic) /\ pUuid \in DOMAIN data[topic]

HasPublisher(addr) ==
    \E t \in DOMAIN data : \E p \in DOMAIN data[t] :
        \E r \in Range(data[t][p]) : r.addr = addr

\* The publishers Publisher may find: it returns the first of them.
FoundBy(topic, pUuid, nUuid) ==
    SelectSeq(Stored(topic, pUuid), LAMBDA r : r.nUuid = nUuid)

\* PublishersByProc groups the publishers of a process by node.
ByNode(pUuid) ==
    [n \in {r.nUuid : r \in UNION {Range(Stored(t, pUuid)) : t \in Topic}} |->
        UNION {Range(FoundBy(t, pUuid, n)) : t \in DOMAIN data}]

TopicList == DOMAIN data

(***************************************************************************)
(* Properties.                                                             *)
(***************************************************************************)
\* The storage, as a set.
Pubs == UNION {UNION {Range(data[t][p]) : p \in DOMAIN data[t]} :
               t \in DOMAIN data}

\* No key has no publishers: HasTopic and HasAnyPublishers look at the keys
\* only, and TopicList returns them.  Every deletion has to prune both maps.
TypeOK ==
    /\ DOMAIN data \subseteq Topic
    /\ \A t \in DOMAIN data :
          /\ DOMAIN data[t] \in SUBSET Proc \ {{}}
          /\ \A p \in DOMAIN data[t] : data[t][p] \in Seq(Publisher) \ {<<>>}

\* Whatever was added and deleted, in whatever order, the queries answer as
\* on the set of the publishers stored.
QueriesAgree ==
    /\ TopicList = {r.topic : r \in Pubs}
    /\ \A t \in Topic :
          /\ HasTopic(t) <=> \E r \in Pubs : r.topic = t
          /\ \A y \in Type : HasTopicOfType(t, y) <=>
                \E r \in Pubs : r.topic = t /\ r.type \in {y, Generic}
          /\ \A p \in Proc :
                /\ HasAnyPublishers(t, p) <=>
                      \E r \in Pubs : r.topic = t /\ r.pUuid = p
                /\ \A n \in Node : Range(FoundBy(t, p, n)) =
                      {r \in Pubs : r.topic = t /\ r.pUuid = p /\ r.nUuid = n}
    /\ \A a \in Address : HasPublisher(a) <=> \E r \in Pubs : r.addr = a
    /\ \A p \in Proc :
          UNION Range(ByNode(p)) = {r \in Pubs : r.pUuid = p}

Set == INSTANCE PublisherSet WITH pubs <- Pubs

\* The nested maps implement the set Discovery is modelled with, results of
\* the calls included: Advertise and the ADVERTISE handler call the client
\* back only if AddPublisher returned true.
ImplementsPublisherSet == Set!Spec
=============================================================================
