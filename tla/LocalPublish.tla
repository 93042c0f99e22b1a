---------------------------- MODULE LocalPublish ----------------------------
(***************************************************************************)
(* How a process delivers messages to its own subscription handlers        *)
(* (src/src/Node.cc, src/src/NodeShared.cc).                               *)
(*                                                                         *)
(* Publish copies the handlers of the topic under NodeShared's mutex, and  *)
(* queues them with the message under pubThreadMutex; the publish thread   *)
(* takes messages from that queue and runs the callbacks.  PublishRaw, and *)
(* the reception thread for data of other processes, run the callbacks     *)
(* themselves.  Unsubscribe removes handlers from the queue, and then from *)
(* the storage.  Each action is one critical section, or one callback.     *)
(*                                                                         *)
(* Users give a topic a name of theirs.  A node may remap it, and turns it *)
(* into a fully qualified one, which messages carry without the partition. *)
(***************************************************************************)
EXTENDS Naturals, Sequences

CONSTANTS
    User,           \* threads that publish, subscribe and unsubscribe
    Reception,      \* NodeShared's reception thread
    Node, HandlerId,
    Name, Topic,    \* topics as users write them; fully qualified ones
    Remap,          \* of each node: TopicRemap, a name it leaves to itself
    FullyQualified, \* of each node: FullyQualifiedName
    Carried,        \* what a message carries of a fully qualified name
    Publishes,      \* what each thread publishes: topic, and node
    Subscription,   \* subscriptions users may make (bound of the instance)
    MaxSent         \* bound on the messages of each thread

Threads == User \union {Reception}

ASSUME NamesAssumption ==
    /\ Reception \notin User
    /\ Remap \in [Node -> [Name -> Name]]
    /\ FullyQualified \in [Node -> [Name -> Topic]]
    /\ Carried \in [Topic -> Name]

\* A message carries an absolute name: the node that wrote it qualifies that to
\* the same topic again.
ASSUME CarriedAssumption ==
    \A n \in Node : \A name \in Name :
        FullyQualified[n][Carried[FullyQualified[n][name]]] =
            FullyQualified[n][name]

ASSUME UsersAssumption ==
    /\ Publishes \in [Threads -> [topic : Topic, nUuid : Node]]
    /\ Subscription \subseteq [name : Name, nUuid : Node, hUuid : HandlerId,
                               raw : BOOLEAN, ignoreLocal : BOOLEAN]
    /\ MaxSent \in Nat

VARIABLES
    localSubscribers,   \* NodeShared::localSubscribers: handlers by topic
    pubQueue,           \* NodeSharedPrivate::pubQueue
    pubThread,          \* what the publish thread has in hand
    call,               \* where each other thread is
    sent,               \* number of messages of each thread
    made, left,         \* subscriptions made, and asked to end
    raced,              \* subscriptions ended while a message was sent to them
    due, ran            \* messages sent to each handler, and its callbacks

vars == <<localSubscribers, pubQueue, pubThread, call, sent, made, left,
          raced, due, ran>>

Message == [topic : Topic, nUuid : Node, from : Threads, n : 1..MaxSent,
            op : {"push", "trigger"}]
Delivery == [msg : Message, handlers : SUBSET Subscription]

Idle == [op |-> "idle"]
Nothing == [op |-> "nothing"]

CallState ==
    {Idle}
        \union [op : {"push", "trigger"}, delivery : Delivery]
        \union [op : {"remove"}, topic : Topic, who : SUBSET Subscription]

TypeOK ==
    /\ localSubscribers \in [Topic -> SUBSET Subscription]
    /\ pubQueue \in Seq(Delivery)
    /\ pubThread \in Delivery \union {Nothing}
    /\ call \in [Threads -> CallState]
    /\ sent \in [Threads -> 0..MaxSent]
    /\ left \subseteq made /\ made \subseteq Subscription
    /\ raced \subseteq left
    /\ due \in [Subscription -> SUBSET Message]
    /\ ran \in [Subscription -> Seq(Message)]

Init ==
    /\ localSubscribers = [topic \in Topic |-> {}]
    /\ pubQueue = <<>>
    /\ pubThread = Nothing
    /\ call = [t \in Threads |-> Idle]
    /\ sent = [t \in Threads |-> 0]
    /\ made = {} /\ left = {} /\ raced = {}
    /\ due = [h \in Subscription |-> {}]
    /\ ran = [h \in Subscription |-> <<>>]

Goto(t, state) == call' = [call EXCEPT ![t] = state]

\* The topic a subscription is stored under.
TopicOf(h) == FullyQualified[h.nUuid][Remap[h.nUuid][h.name]]

\* A node may choose not to hear itself.  Only the publish thread looks, and
\* only for handlers that are not raw.
Ignores(h, msg) == h.ignoreLocal /\ ~ h.raw /\ h.nUuid = msg.nUuid

RunCallback(h, msg) == ran' = [ran EXCEPT ![h] = Append(@, msg)]

(***************************************************************************)
(* Subscribing.                                                            *)
(***************************************************************************)
Subscribe(t, h) ==
    /\ call[t] = Idle
    /\ h \notin made
    /\ made' = made \union {h}
    /\ localSubscribers' =
           [localSubscribers EXCEPT ![TopicOf(h)] = @ \union {h}]
    /\ UNCHANGED <<pubQueue, pubThread, call, sent, left, raced, due, ran>>

Purged(handlers, who) == handlers \ who

\* Mutant: messages are looked up by the fully qualified name.
SameTopicQualified(topic, node, name) == topic = name

\* Messages of the queue are looked up by the name they carry, the user's is
\* remapped but not qualified.
SameTopic(topic, node, name) == Carried[topic] = Remap[node][name]

\* The handlers that go: that of a Subscriber, or all those of a node.
Who(node, hs) == {h \in hs : h.nUuid = node}

Leaving(t) == IF call[t].op = "remove" THEN call[t].who ELSE {}
Sending(t) == IF call[t].op \in {"push", "trigger"}
              THEN call[t].delivery.handlers ELSE {}

\* The queue is purged first ...
Unsubscribe(t, node, name, hs) ==
    LET who == Who(node, hs)
        leaving == {h \in made \intersect who :
                       TopicOf(h) = FullyQualified[node][Remap[node][name]]}
    IN  /\ call[t] = Idle
        /\ leaving # {}
        /\ pubQueue' = [i \in DOMAIN pubQueue |->
               IF SameTopic(pubQueue[i].msg.topic, node, name)
               THEN [pubQueue[i] EXCEPT !.handlers = Purged(@, who)]
               ELSE pubQueue[i]]
        /\ left' = left \union leaving
        /\ raced' = raced \union
               {h \in leaving : \E u \in Threads : h \in Sending(u)}
        /\ Goto(t, [op |-> "remove", topic |-> FullyQualified[node][name],
                    who |-> who])
        /\ UNCHANGED <<localSubscribers, pubThread, sent, made, due, ran>>

\* ... then the storage.
RemoveHandlers(t) ==
    /\ call[t].op = "remove"
    /\ localSubscribers' =
           [localSubscribers EXCEPT ![call[t].topic] = @ \ call[t].who]
    /\ Goto(t, Idle)
    /\ UNCHANGED <<pubQueue, pubThread, sent, made, left, raced, due, ran>>

(***************************************************************************)
(* Publishing.                                                             *)
(***************************************************************************)
\* CheckSubscriberInfo, or CheckHandlerInfo for data received: the handlers
\* are copied under the mutex.
Publish(t, op) ==
    LET msg == [topic |-> Publishes[t].topic, nUuid |-> Publishes[t].nUuid,
                from |-> t, n |-> sent[t] + 1, op |-> op]
        handlers == localSubscribers[msg.topic]
    IN  /\ call[t] = Idle
        /\ sent[t] < MaxSent
        /\ sent' = [sent EXCEPT ![t] = @ + 1]
        /\ Goto(t, IF handlers = {} THEN Idle
                   ELSE [op |-> op, delivery |->
                            [msg |-> msg, handlers |-> handlers]])
        /\ due' = [h \in Subscription |->
               IF h \in handlers /\ ~ (op = "push" /\ Ignores(h, msg))
               THEN due[h] \union {msg} ELSE due[h]]
        /\ raced' = raced \union
               {h \in handlers \intersect left :
                   \E u \in Threads : h \in Leaving(u)}
        /\ UNCHANGED <<localSubscribers, pubQueue, pubThread, made, left, ran>>

\* Mutant: the message goes to the front of the queue.
PushedFront(q, delivery) == <<delivery>> \o q

Pushed(q, delivery) == Append(q, delivery)

Push(t) ==
    /\ call[t].op = "push"
    /\ pubQueue' = Pushed(pubQueue, call[t].delivery)
    /\ Goto(t, Idle)
    /\ UNCHANGED <<localSubscribers, pubThread, sent, made, left, raced, due,
                   ran>>

\* PublishRaw and RecvMsgUpdate call the handlers in turn: by node and handler
\* in the code, in any order here.
TriggerCallback(t, h) ==
    /\ call[t].op = "trigger"
    /\ h \in call[t].delivery.handlers
    /\ RunCallback(h, call[t].delivery.msg)
    /\ LET rest == call[t].delivery.handlers \ {h}
       IN  Goto(t, IF rest = {} THEN Idle
                   ELSE [call[t] EXCEPT !.delivery.handlers = rest])
    /\ UNCHANGED <<localSubscribers, pubQueue, pubThread, sent, made, left,
                   raced, due>>

(***************************************************************************)
(* The publish thread.  Its wait has a time-out, so that a notification it *)
(* misses does not matter.                                                 *)
(***************************************************************************)
Take ==
    /\ pubThread = Nothing
    /\ pubQueue # <<>>
    /\ pubThread' = Head(pubQueue)
    /\ pubQueue' = Tail(pubQueue)
    /\ UNCHANGED <<localSubscribers, call, sent, made, left, raced, due, ran>>

\* Mutant: a handler that ignores its node ends the delivery.
RestIgnored(delivery, h) ==
    IF Ignores(h, delivery.msg) THEN {} ELSE delivery.handlers \ {h}

Rest(delivery, h) == delivery.handlers \ {h}

PublishThreadCallback(h) ==
    /\ pubThread # Nothing
    /\ h \in pubThread.handlers
    /\ IF Ignores(h, pubThread.msg) THEN UNCHANGED ran
       ELSE RunCallback(h, pubThread.msg)
    /\ pubThread' = [pubThread EXCEPT !.handlers = Rest(pubThread, h)]
    /\ UNCHANGED <<localSubscribers, pubQueue, call, sent, made, left, raced,
                   due>>

Delivered ==
    /\ pubThread # Nothing
    /\ pubThread.handlers = {}
    /\ pubThread' = Nothing
    /\ UNCHANGED <<localSubscribers, pubQueue, call, sent, made, left, raced,
                   due, ran>>

(***************************************************************************)
(* The specification.                                                      *)
(***************************************************************************)
UserCall(t) ==
    \/ Publish(t, "push")
    \/ Publish(t, "trigger")
    \/ \E h \in Subscription :
          \/ Subscribe(t, h)
          \/ \E hs \in {{h}, Subscription} :
                Unsubscribe(t, h.nUuid, h.name, hs)

Continue(t) ==
    \/ Push(t)
    \/ \E h \in Sending(t) : TriggerCallback(t, h)
    \/ RemoveHandlers(t)

PublishThread ==
    \/ Take
    \/ \E h \in Subscription : PublishThreadCallback(h)
    \/ Delivered

Next ==
    \/ \E t \in User : UserCall(t)
    \/ Publish(Reception, "trigger")
    \/ \E t \in Threads : Continue(t)
    \/ PublishThread

\* Threads inside a call go on, and so does the publish thread: callbacks are
\* assumed to return.
Fairness ==
    /\ \A t \in Threads : WF_vars(Continue(t))
    /\ WF_vars(PublishThread)

Spec == Init /\ [][Next]_vars /\ Fairness

(***************************************************************************)
(* Properties.                                                             *)
(***************************************************************************)
\* Handlers get the messages of a thread once each and in order, as long as
\* it does not mix Publish and PublishRaw: the latter overtakes the queue.
InOrder ==
    \A h \in Subscription : \A i, j \in DOMAIN ran[h] :
        (i < j /\ ran[h][i].from = ran[h][j].from
               /\ ran[h][i].op = ran[h][j].op)
            => ran[h][i].n < ran[h][j].n

HasRun(h, msg) == \E i \in DOMAIN ran[h] : ran[h][i] = msg

\* Some thread, or the queue, still has the message for the handler.
Pending(h, msg) ==
    \/ \E t \in Threads : h \in Sending(t) /\ call[t].delivery.msg = msg
    \/ \E i \in DOMAIN pubQueue :
          h \in pubQueue[i].handlers /\ pubQueue[i].msg = msg
    \/ pubThread # Nothing /\ h \in pubThread.handlers /\ pubThread.msg = msg

\* No subscription loses a message because another one ends, or ignores it:
\* what was published for a handler reaches it, or will, or the handler was
\* asked to go.
NoneLost ==
    \A h \in Subscription \ left : \A msg \in due[h] :
        HasRun(h, msg) \/ Pending(h, msg)

\* A message published in the process reaches a handler once and in order,
\* unless the handler is asked to go (Node.cc:399-559,
\* NodeShared.cc:1733-1826).
AllInOrder == TypeOK /\ InOrder /\ NoneLost

\* Users write the topics of the node as messages carry them.
AsCarried(node) ==
    \A h \in Subscription :
        h.nUuid = node =>
            Remap[node][h.name] = h.name /\ Carried[TopicOf(h)] = h.name

\* Unsubscribe leaves no message for the handler in the queue, unless it was
\* published while Unsubscribe ran: purging the queue before the storage is
\* enough, if users write topics as messages carry them.
Silenced ==
    \A h \in left \ raced :
        AsCarried(h.nUuid) =>
            \A i \in DOMAIN pubQueue : h \notin pubQueue[i].handlers

\* What was published for a handler reaches it in the end, unless it is asked
\* to go: once users publish no more (they reach MaxSent, or stop before),
\* nothing that was due is left behind.
Reaches ==
    \A h \in Subscription :
        []<>(h \in left \/ \A msg \in due[h] : HasRun(h, msg))

\* A handler whose Unsubscribe has returned is not called for messages
\* published later: it is not stored any more.
Unsubscribed ==
    \A h \in left :
        (\A t \in Threads : h \notin Leaving(t))
            => h \notin localSubscribers[TopicOf(h)]
=============================================================================
