---------------------------- MODULE PublisherSet ----------------------------
(***************************************************************************)
(* What the users of a TopicStorage rely on: a set of publishers, and a    *)
(* result that says whether the call changed it.  "last" is the last call  *)
(* that changes the storage, with its arguments and its result.            *)
(***************************************************************************)
EXTENDS Publishers

CONSTANTS Publisher, Topic, Proc, Node

VARIABLES pubs, last

NoCall == [call |-> "none"]

Init == pubs = {} /\ last = NoCall

Add(pub) ==
    /\ pubs' = AddPublisher(pubs, pub)
    /\ last' = [call |-> "add", pub |-> pub, result |-> ~ Holds(pubs, pub)]

DelByNode(topic, pUuid, nUuid) ==
    /\ pubs' = DelPublisherByNode(pubs, topic, pUuid, nUuid)
    /\ last' = [call |-> "delByNode", topic |-> topic, pUuid |-> pUuid,
                nUuid |-> nUuid, result |-> pubs' # pubs]

DelByProc(pUuid) ==
    /\ pubs' = DelPublishersByProc(pubs, pUuid)
    /\ last' = [call |-> "delByProc", pUuid |-> pUuid, result |-> pubs' # pubs]

Clear ==
    /\ pubs' = {}
    /\ last' = [call |-> "clear"]

Next ==
    \/ \E pub \in Publisher : Add(pub)
    \/ \E p \in Proc :
          \/ \E t \in Topic, n \in Node : DelByNode(t, p, n)
          \/ DelByProc(p)
    \/ Clear

Spec == Init /\ [][Next]_<<pubs, last>>
=============================================================================
