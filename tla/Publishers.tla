----------------------------- MODULE Publishers -----------------------------
(***************************************************************************)
(* What a TopicStorage of src/include/gz/transport/TopicStorage.hh holds,  *)
(* seen as a set of publisher records.  Each record has at least the       *)
(* fields topic, addr, pUuid and nUuid; the storage compares nothing else. *)
(* The nested maps of the class are modelled in module TopicStorage, which *)
(* is checked to implement these operators.                                *)
(***************************************************************************)

\* Two records the storage takes for the same publisher.
SamePublisher(a, b) ==
    /\ a.topic = b.topic
    /\ a.pUuid = b.pUuid
    /\ a.addr = b.addr
    /\ a.nUuid = b.nUuid

\* Mutant: records that differ in any field are different publishers.
HoldsExactly(pubs, pub) == pub \in pubs

Holds(pubs, pub) == \E r \in pubs : SamePublisher(r, pub)

\* AddPublisher keeps the record it already has, whatever the other fields say.
AddPublisher(pubs, pub) ==
    IF Holds(pubs, pub) THEN pubs ELSE pubs \union {pub}

DelPublisherByNode(pubs, topic, pUuid, nUuid) ==
    {r \in pubs : ~ (r.topic = topic /\ r.pUuid = pUuid /\ r.nUuid = nUuid)}

DelPublishersByProc(pubs, pUuid) == {r \in pubs : r.pUuid # pUuid}

PublishersByProc(pubs, pUuid) == {r \in pubs : r.pUuid = pUuid}

PublishersOf(pubs, topic) == {r \in pubs : r.topic = topic}

\* No two records of the storage stand for the same publisher.
OneRecordPerPublisher(pubs) ==
    \A a, b \in pubs : SamePublisher(a, b) => a = b
=============================================================================
