--------------------------- MODULE HandlerStorage ---------------------------
(***************************************************************************)
(* HandlerStorage<T> (src/include/gz/transport/HandlerStorage.hh): the     *)
(* subscription handlers, responders and requests of a process, in a map   *)
(* from topics to maps from nodes to maps from handler UUIDs.  Each        *)
(* operator takes the nested map and returns it, or an answer from it.     *)
(***************************************************************************)
EXTENDS Functions, TLC

Empty == <<>>

Nodes(data, topic) == IF topic \in DOMAIN data THEN data[topic] ELSE Empty
Stored(data, topic, nUuid) ==
    IF nUuid \in DOMAIN Nodes(data, topic) THEN data[topic][nUuid] ELSE Empty

Without(map, key) == Restrict(map, DOMAIN map \ {key})

\* A map that lost the entries of a topic, or of a node, loses the key.
Pruned(map, key, entries) ==
    IF entries = Empty THEN Without(map, key) ELSE key :> entries @@ map

Handlers(data, topic) ==
    UNION {Range(data[topic][n]) : n \in DOMAIN Nodes(data, topic)}

\* The handlers FirstHandler may find: it returns the first of them.
HandlersOfTypes(data, topic, reqType, repType) ==
    {h \in Handlers(data, topic) : h.reqType = reqType /\ h.repType = repType}

HandlersOfType(data, topic, type, generic) ==
    {h \in Handlers(data, topic) : h.type \in {type, generic}}

Handler(data, topic, nUuid, hUuid) ==
    {h \in Range(Stored(data, topic, nUuid)) : h.hUuid = hUuid}

\* insert: a handler that has the UUID already stays.
AddHandler(data, topic, nUuid, h) ==
    topic :> (nUuid :> (Stored(data, topic, nUuid) @@ h.hUuid :> h)
                @@ Nodes(data, topic))
        @@ data

HasHandlersForTopic(data, topic) == topic \in DOMAIN data

HasHandlersForNode(data, topic, nUuid) == nUuid \in DOMAIN Nodes(data, topic)

\* Mutant: the entry of the node stays when its last handler goes.
RemoveHandlerOnly(data, topic, nUuid, hUuid) ==
    IF ~ HasHandlersForNode(data, topic, nUuid) THEN data
    ELSE [data EXCEPT ![topic][nUuid] = Without(@, hUuid)]

RemoveHandler(data, topic, nUuid, hUuid) ==
    IF ~ HasHandlersForNode(data, topic, nUuid) THEN data
    ELSE Pruned(data, topic,
             Pruned(data[topic], nUuid, Without(data[topic][nUuid], hUuid)))

RemoveHandlersForNode(data, topic, nUuid) ==
    IF ~ HasHandlersForTopic(data, topic) THEN data
    ELSE Pruned(data, topic, Without(data[topic], nUuid))

\* The storage, as a set.
All(data) == UNION {Handlers(data, topic) : topic \in DOMAIN data}
=============================================================================
