------------------------- MODULE LocalPublishProofs -------------------------
(***************************************************************************)
(* Proofs about LocalPublish, for any threads, nodes, names, subscriptions *)
(* and number of messages.                                                 *)
(***************************************************************************)
EXTENDS LocalPublish, TLAPS

(***************************************************************************)
(* Types.                                                                  *)
(***************************************************************************)
LEMMA Subscriptions ==
    ASSUME NEW h \in Subscription
    PROVE  /\ h.nUuid \in Node /\ h.name \in Name
           /\ TopicOf(h) \in Topic
BY NamesAssumption, UsersAssumption DEF TopicOf

LEMMA Deliveries ==
    ASSUME NEW delivery \in Delivery
    PROVE  /\ delivery # Nothing
           /\ delivery.msg \in Message
           /\ delivery.handlers \in SUBSET Subscription
           /\ \A hs \in SUBSET Subscription :
                 LET less == [delivery EXCEPT !.handlers = hs]
                 IN  /\ less \in Delivery
                     /\ less.msg = delivery.msg
                     /\ less.handlers = hs
<1>1. delivery = [msg |-> delivery.msg, handlers |-> delivery.handlers]
  BY DEF Delivery
<1>2. DOMAIN delivery # DOMAIN Nothing
  <2>1. "msg" \in DOMAIN delivery
    BY <1>1
  <2>2. "msg" \notin DOMAIN Nothing
    BY DEF Nothing
  <2> QED
    BY <2>1, <2>2
<1> QED
  BY <1>1, <1>2 DEF Delivery

LEMMA CallTypes ==
    ASSUME NEW state \in CallState
    PROVE  /\ state.op \in {"push", "trigger"}
                 => /\ state.delivery \in Delivery
                    /\ state = [op |-> state.op, delivery |-> state.delivery]
           /\ state.op = "remove"
                 => state.topic \in Topic /\ state.who \in SUBSET Subscription
BY DEF CallState, Idle

LEMMA CallMade ==
    /\ Idle \in CallState
    /\ \A op \in {"push", "trigger"} : \A delivery \in Delivery :
          [op |-> op, delivery |-> delivery] \in CallState
    /\ \A topic \in Topic : \A who \in SUBSET Subscription :
          [op |-> "remove", topic |-> topic, who |-> who] \in CallState
BY DEF CallState

LEMMA InitTypes == Init => TypeOK
BY UsersAssumption DEF Init, TypeOK, CallState

LEMMA SendingTypes ==
    ASSUME TypeOK, NEW t \in Threads
    PROVE  Sending(t) \in SUBSET Subscription
BY CallTypes, Deliveries DEF Sending, TypeOK

\* The steps there are.
LEMMA Steps ==
    ASSUME TypeOK, [Next]_vars
    PROVE  \/ \E t \in Threads : \E h \in Subscription : Subscribe(t, h)
           \/ \E t \in Threads : \E h \in Subscription :
              \E hs \in SUBSET Subscription :
                 Unsubscribe(t, h.nUuid, h.name, hs)
           \/ \E t \in Threads : RemoveHandlers(t)
           \/ \E t \in Threads : \E op \in {"push", "trigger"} : Publish(t, op)
           \/ \E t \in Threads : Push(t)
           \/ \E t \in Threads : \E h \in Subscription : TriggerCallback(t, h)
           \/ Take
           \/ \E h \in Subscription : PublishThreadCallback(h)
           \/ Delivered
           \/ UNCHANGED vars
BY SendingTypes DEF Next, UserCall, Continue, PublishThread, Threads

\* What a step of a thread that ran a callback leaves of its call.
LEMMA RestOfCall ==
    ASSUME NEW state \in CallState, state.op = "trigger",
           NEW rest \in SUBSET Subscription
    PROVE  LET less == [state EXCEPT !.delivery.handlers = rest]
           IN  /\ less \in CallState
               /\ less.op = "trigger"
               /\ less.delivery \in Delivery
               /\ less.delivery.msg = state.delivery.msg
               /\ less.delivery.handlers = rest
<1>1. /\ state = [op |-> "trigger", delivery |-> state.delivery]
      /\ state.delivery \in Delivery
  BY CallTypes
<1>2. [state EXCEPT !.delivery.handlers = rest] =
          [op |-> "trigger",
           delivery |-> [state.delivery EXCEPT !.handlers = rest]]
  BY <1>1
<1> DEFINE less == [state.delivery EXCEPT !.handlers = rest]
<1>3. /\ less \in Delivery
      /\ less.msg = state.delivery.msg /\ less.handlers = rest
  BY <1>1, Deliveries
<1> HIDE DEF less
<1>4. [op |-> "trigger", delivery |-> less] \in CallState
  BY <1>3, CallMade
<1> QED
  BY <1>2, <1>3, <1>4 DEF less

\* What Unsubscribe leaves in the queue: the same messages, to fewer handlers.
LEMMA PurgedQueue ==
    ASSUME TypeOK, NEW t, NEW node, NEW name, NEW hs,
           Unsubscribe(t, node, name, hs)
    PROVE  /\ pubQueue' \in Seq(Delivery)
           /\ DOMAIN pubQueue' = DOMAIN pubQueue
           /\ \A i \in DOMAIN pubQueue :
                 /\ pubQueue'[i].msg = pubQueue[i].msg
                 /\ pubQueue'[i].handlers \subseteq pubQueue[i].handlers
                 /\ SameTopic(pubQueue[i].msg.topic, node, name)
                       => pubQueue'[i].handlers =
                             pubQueue[i].handlers \ Who(node, hs)
                 /\ ~ SameTopic(pubQueue[i].msg.topic, node, name)
                       => pubQueue'[i].handlers = pubQueue[i].handlers
<1>1. /\ DOMAIN pubQueue = 1..Len(pubQueue)
      /\ Len(pubQueue) \in Nat
      /\ \A i \in DOMAIN pubQueue : pubQueue[i] \in Delivery
  BY DEF TypeOK
<1>2. pubQueue' = [i \in DOMAIN pubQueue |->
          IF SameTopic(pubQueue[i].msg.topic, node, name)
          THEN [pubQueue[i] EXCEPT !.handlers = @ \ Who(node, hs)]
          ELSE pubQueue[i]]
  BY DEF Unsubscribe, Purged
<1>3. ASSUME NEW i \in DOMAIN pubQueue
      PROVE  /\ pubQueue'[i] \in Delivery
             /\ pubQueue'[i].msg = pubQueue[i].msg
             /\ pubQueue'[i].handlers \subseteq pubQueue[i].handlers
             /\ SameTopic(pubQueue[i].msg.topic, node, name)
                   => pubQueue'[i].handlers =
                         pubQueue[i].handlers \ Who(node, hs)
             /\ ~ SameTopic(pubQueue[i].msg.topic, node, name)
                   => pubQueue'[i].handlers = pubQueue[i].handlers
  <2>1. /\ pubQueue[i] \in Delivery
        /\ pubQueue[i].handlers \ Who(node, hs) \in SUBSET Subscription
    BY <1>1, Deliveries
  <2>2. CASE SameTopic(pubQueue[i].msg.topic, node, name)
    <3>1. pubQueue'[i] = [pubQueue[i] EXCEPT !.handlers =
                             pubQueue[i].handlers \ Who(node, hs)]
      BY <1>2, <2>2
    <3> QED
      BY <2>1, <2>2, <3>1, Deliveries
  <2>3. CASE ~ SameTopic(pubQueue[i].msg.topic, node, name)
    <3>1. pubQueue'[i] = pubQueue[i]
      BY <1>2, <2>3
    <3> QED
      BY <2>1, <2>3, <3>1
  <2> QED
    BY <2>2, <2>3
<1>4. pubQueue' \in [1..Len(pubQueue) -> Delivery]
  BY <1>1, <1>2, <1>3
<1>5. pubQueue' \in Seq(Delivery)
  BY <1>1, <1>4
<1> QED
  BY <1>2, <1>3, <1>5

LEMMA StepTypes ==
    ASSUME TypeOK, [Next]_vars
    PROVE  TypeOK'
<1> USE DEF Goto, RunCallback
<1>0. ASSUME NEW t \in Threads, NEW h \in Subscription,
             NEW hs \in SUBSET Subscription,
             Unsubscribe(t, h.nUuid, h.name, hs)
      PROVE  pubQueue' \in Seq(Delivery)
  BY <1>0, PurgedQueue
<1> USE DEF TypeOK
<1>1. ASSUME NEW t \in Threads, NEW h \in Subscription, Subscribe(t, h)
      PROVE  TypeOK'
  BY <1>1, Subscriptions DEF Subscribe
<1>2. ASSUME NEW t \in Threads, NEW h \in Subscription,
             NEW hs \in SUBSET Subscription,
             Unsubscribe(t, h.nUuid, h.name, hs)
      PROVE  TypeOK'
  <2>1. pubQueue' \in Seq(Delivery)
    BY <1>2, <1>0
  <2>2. call' \in [Threads -> CallState]
    <3>1. /\ FullyQualified[h.nUuid][h.name] \in Topic
          /\ Who(h.nUuid, hs) \in SUBSET Subscription
      BY Subscriptions, NamesAssumption DEF Who
    <3> QED
      BY <1>2, <3>1, CallMade DEF Unsubscribe
  <2> QED
    BY <1>2, <2>1, <2>2 DEF Unsubscribe
<1>3. ASSUME NEW t \in Threads, RemoveHandlers(t)
      PROVE  TypeOK'
  BY <1>3, CallTypes, CallMade DEF RemoveHandlers
<1>4. ASSUME NEW t \in Threads, NEW op \in {"push", "trigger"},
             Publish(t, op)
      PROVE  TypeOK'
  <2> DEFINE msg == [topic |-> Publishes[t].topic,
                     nUuid |-> Publishes[t].nUuid, from |-> t,
                     n |-> sent[t] + 1, op |-> op]
             hs == localSubscribers[msg.topic]
  <2>1. /\ msg \in Message
        /\ sent' \in [Threads -> 0..MaxSent]
        /\ hs \in SUBSET Subscription
    <3>1. sent[t] + 1 \in 1..MaxSent /\ sent' = [sent EXCEPT ![t] = @ + 1]
      BY <1>4, UsersAssumption DEF Publish
    <3>2. msg \in Message
      BY <3>1, UsersAssumption DEF Message
    <3>3. hs \in SUBSET Subscription
      BY UsersAssumption
    <3>4. sent' \in [Threads -> 0..MaxSent]
      BY <3>1, UsersAssumption
    <3> QED
      BY <3>2, <3>3, <3>4
  <2>2. call' \in [Threads -> CallState]
    <3>1. [msg |-> msg, handlers |-> hs] \in Delivery
      BY <2>1 DEF Delivery
    <3> HIDE DEF msg, hs
    <3>2. call' = [call EXCEPT ![t] =
              IF hs = {} THEN Idle
              ELSE [op |-> op, delivery |-> [msg |-> msg, handlers |-> hs]]]
      BY <1>4 DEF Publish, msg, hs
    <3> QED
      BY <3>1, <3>2, CallMade
  <2>3. due' \in [Subscription -> SUBSET Message]
    <3> HIDE DEF msg
    <3>1. due' = [h \in Subscription |->
              IF h \in hs /\ ~ (op = "push" /\ Ignores(h, msg))
              THEN due[h] \union {msg} ELSE due[h]]
      BY <1>4 DEF Publish, msg
    <3> QED
      BY <2>1, <3>1
  <2>4. raced' \subseteq left
    BY <1>4 DEF Publish
  <2> QED
    BY <1>4, <2>1, <2>2, <2>3, <2>4 DEF Publish
<1>5. ASSUME NEW t \in Threads, Push(t)
      PROVE  TypeOK'
  BY <1>5, CallTypes, CallMade DEF Push, Pushed
<1>6. ASSUME NEW t \in Threads, NEW h \in Subscription, TriggerCallback(t, h)
      PROVE  TypeOK'
  <2>1. /\ call[t].op = "trigger" /\ call[t] \in CallState
        /\ call[t].delivery \in Delivery
        /\ call[t].delivery.msg \in Message
        /\ call[t].delivery.handlers \ {h} \in SUBSET Subscription
    BY <1>6, CallTypes, Deliveries DEF TriggerCallback
  <2>2. call' \in [Threads -> CallState]
    BY <1>6, <2>1, RestOfCall, CallMade DEF TriggerCallback
  <2>3. ran' \in [Subscription -> Seq(Message)]
    BY <1>6, <2>1 DEF TriggerCallback
  <2> QED
    BY <1>6, <2>2, <2>3 DEF TriggerCallback
<1>7. CASE Take
  BY <1>7 DEF Take
<1>8. ASSUME NEW h \in Subscription, PublishThreadCallback(h)
      PROVE  TypeOK'
  <2>1. /\ pubThread \in Delivery
        /\ pubThread.msg \in Message
        /\ pubThread.handlers \ {h} \in SUBSET Subscription
    BY <1>8, Deliveries DEF PublishThreadCallback
  <2>2. pubThread' \in Delivery
    BY <1>8, <2>1, Deliveries DEF PublishThreadCallback, Rest
  <2>3. ran' \in [Subscription -> Seq(Message)]
    <3>1. CASE Ignores(h, pubThread.msg)
      BY <1>8, <3>1 DEF PublishThreadCallback
    <3>2. CASE ~ Ignores(h, pubThread.msg)
      <4>1. Append(ran[h], pubThread.msg) \in Seq(Message)
        BY <2>1
      <4>2. ran' = [ran EXCEPT ![h] = Append(@, pubThread.msg)]
        BY <1>8, <3>2 DEF PublishThreadCallback
      <4> HIDE DEF TypeOK
      <4> QED
        BY <4>1, <4>2 DEF TypeOK
    <3> QED
      BY <3>1, <3>2
  <2> QED
    BY <1>8, <2>2, <2>3 DEF PublishThreadCallback
<1>9. CASE Delivered
  BY <1>9 DEF Delivered
<1>10. CASE UNCHANGED vars
  BY <1>10 DEF vars
<1> QED
  BY <1>1, <1>2, <1>3, <1>4, <1>5, <1>6, <1>7, <1>8, <1>9, <1>10, Steps

\* Variables keep their types (the state of Node.cc, NodeShared.cc and
\* NodeSharedPrivate.hh).
THEOREM TypeCorrect == Spec => []TypeOK
<1>1. TypeOK /\ [Next]_vars => TypeOK'
  BY StepTypes
<1> QED
  BY InitTypes, <1>1, PTL DEF Spec

(***************************************************************************)
(* What the steps do, in terms of messages and handlers.                   *)
(***************************************************************************)
LEMMA QueueTypes ==
    ASSUME TypeOK
    PROVE  /\ Len(pubQueue) \in Nat
           /\ DOMAIN pubQueue = 1..Len(pubQueue)
           /\ \A i \in DOMAIN pubQueue :
                 /\ pubQueue[i] \in Delivery
                 /\ pubQueue[i].msg \in Message
                 /\ pubQueue[i].handlers \in SUBSET Subscription
BY Deliveries DEF TypeOK

\* What Publish does with the message it makes.
Sends(t, op, msg) ==
    LET hs == localSubscribers[msg.topic]
    IN  /\ msg.from = t /\ msg.n = sent[t] + 1 /\ msg.op = op
        /\ msg.topic = Publishes[t].topic /\ msg.topic \in Topic
        /\ call[t] = Idle
        /\ sent'[t] = sent[t] + 1
        /\ \A u \in Threads : u # t => sent'[u] = sent[u]
        /\ \A u \in Threads : u # t => call'[u] = call[u]
        /\ hs = {} => call'[t] = Idle
        /\ hs # {} => /\ call'[t].op = op
                      /\ call'[t].delivery.msg = msg
                      /\ call'[t].delivery.handlers = hs
        /\ \A h \in Subscription : due'[h] =
              IF h \in hs /\ ~ (op = "push" /\ Ignores(h, msg))
              THEN due[h] \union {msg} ELSE due[h]

LEMMA PublishStep ==
    ASSUME TypeOK, NEW t \in Threads, NEW op \in {"push", "trigger"},
           Publish(t, op)
    PROVE  \E msg \in Message : Sends(t, op, msg)
<1> DEFINE msg == [topic |-> Publishes[t].topic, nUuid |-> Publishes[t].nUuid,
                   from |-> t, n |-> sent[t] + 1, op |-> op]
           hs == localSubscribers[msg.topic]
<1>1. sent[t] + 1 \in 1..MaxSent /\ sent' = [sent EXCEPT ![t] = @ + 1]
  BY UsersAssumption DEF Publish, TypeOK
<1>2. msg \in Message /\ msg.topic \in Topic
  BY <1>1, UsersAssumption DEF Message
<1>3. /\ msg.topic = Publishes[t].topic
      /\ msg.from = t /\ msg.n = sent[t] + 1 /\ msg.op = op
  OBVIOUS
<1>4. /\ call[t] = Idle
      /\ call' = [call EXCEPT ![t] = IF hs = {} THEN Idle
             ELSE [op |-> op, delivery |-> [msg |-> msg, handlers |-> hs]]]
      /\ due' = [h \in Subscription |->
             IF h \in hs /\ ~ (op = "push" /\ Ignores(h, msg))
             THEN due[h] \union {msg} ELSE due[h]]
  BY DEF Publish, Goto
<1> HIDE DEF msg
<1>5. /\ sent'[t] = sent[t] + 1
      /\ \A u \in Threads : u # t => sent'[u] = sent[u]
  BY <1>1 DEF TypeOK
<1>6. \A h \in Subscription : due'[h] =
          IF h \in hs /\ ~ (op = "push" /\ Ignores(h, msg))
          THEN due[h] \union {msg} ELSE due[h]
  BY <1>4
<1>7. /\ \A u \in Threads : u # t => call'[u] = call[u]
      /\ hs = {} => call'[t] = Idle
      /\ hs # {} => /\ call'[t].op = op
                    /\ call'[t].delivery.msg = msg
                    /\ call'[t].delivery.handlers = hs
  BY <1>4 DEF TypeOK
<1> QED
  BY <1>2, <1>3, <1>4, <1>5, <1>6, <1>7 DEF Sends

LEMMA PushStep ==
    ASSUME TypeOK, NEW t \in Threads, Push(t)
    PROVE  /\ call[t].op = "push" /\ call[t].delivery \in Delivery
           /\ \A u \in Threads : u # t => call'[u] = call[u]
           /\ call'[t] = Idle
           /\ DOMAIN pubQueue' = 1..(Len(pubQueue) + 1)
           /\ \A i \in DOMAIN pubQueue : pubQueue'[i] = pubQueue[i]
           /\ pubQueue'[Len(pubQueue) + 1] = call[t].delivery
<1>1. call[t].op = "push" /\ call[t].delivery \in Delivery
  BY CallTypes DEF Push, TypeOK
<1>2. /\ \A u \in Threads : u # t => call'[u] = call[u]
      /\ call'[t] = Idle
  BY DEF Push, Goto, TypeOK
<1>3. /\ pubQueue \in Seq(Delivery)
      /\ pubQueue' = Append(pubQueue, call[t].delivery)
  BY DEF Push, Pushed, TypeOK
<1> QED
  BY <1>1, <1>2, <1>3

LEMMA CallbackStep ==
    ASSUME TypeOK, NEW t \in Threads, NEW h, TriggerCallback(t, h)
    PROVE  /\ call[t].op = "trigger" /\ call[t].delivery \in Delivery
           /\ h \in call[t].delivery.handlers
           /\ h \in Subscription
           /\ \A u \in Threads : u # t => call'[u] = call[u]
           /\ \/ call'[t] = Idle /\ call[t].delivery.handlers = {h}
              \/ /\ call'[t].op = "trigger"
                 /\ call'[t].delivery.msg = call[t].delivery.msg
                 /\ call'[t].delivery.handlers =
                       call[t].delivery.handlers \ {h}
           /\ ran' = [ran EXCEPT ![h] = Append(@, call[t].delivery.msg)]
<1>1. /\ call[t] \in CallState /\ call[t].op = "trigger"
      /\ call[t].delivery \in Delivery
      /\ h \in call[t].delivery.handlers
  BY CallTypes DEF TriggerCallback, TypeOK
<1>2. call[t].delivery.handlers \in SUBSET Subscription
  BY <1>1, Deliveries
<1> DEFINE rest == call[t].delivery.handlers \ {h}
           less == [call[t] EXCEPT !.delivery.handlers = rest]
<1>3. call' = [call EXCEPT ![t] = IF rest = {} THEN Idle ELSE less]
  BY DEF TriggerCallback, Goto
<1>4. /\ less.op = "trigger"
      /\ less.delivery.msg = call[t].delivery.msg
      /\ less.delivery.handlers = rest
  BY <1>1, <1>2, RestOfCall
<1> HIDE DEF less
<1>5. /\ \A u \in Threads : u # t => call'[u] = call[u]
      /\ call'[t] = IF rest = {} THEN Idle ELSE less
  BY <1>3 DEF TypeOK
<1>6. ran' = [ran EXCEPT ![h] = Append(@, call[t].delivery.msg)]
  BY DEF TriggerCallback, RunCallback
<1> QED
  BY <1>1, <1>2, <1>4, <1>5, <1>6

LEMMA TakeStep ==
    ASSUME TypeOK, Take
    PROVE  /\ Len(pubQueue) > 0
           /\ pubThread = Nothing
           /\ pubThread' = pubQueue[1]
           /\ pubThread' # Nothing
           /\ DOMAIN pubQueue' = 1..(Len(pubQueue) - 1)
           /\ \A i \in DOMAIN pubQueue' : pubQueue'[i] = pubQueue[i + 1]
<1>1. pubQueue \in Seq(Delivery) /\ pubQueue # <<>>
  BY DEF Take, TypeOK
<1>2. pubThread' = Head(pubQueue) /\ pubQueue' = Tail(pubQueue)
  BY DEF Take
<1>3. /\ Len(pubQueue) > 0 /\ pubThread' = pubQueue[1]
      /\ pubQueue[1] \in Delivery
  BY <1>1, <1>2
<1> QED
  BY <1>1, <1>2, <1>3, Deliveries DEF Take

LEMMA PublishThreadStep ==
    ASSUME TypeOK, NEW h, PublishThreadCallback(h)
    PROVE  /\ pubThread # Nothing /\ pubThread' # Nothing
           /\ pubThread.msg \in Message
           /\ h \in pubThread.handlers
           /\ h \in Subscription
           /\ pubThread'.msg = pubThread.msg
           /\ pubThread'.handlers = pubThread.handlers \ {h}
           /\ Ignores(h, pubThread.msg) => ran' = ran
           /\ ~ Ignores(h, pubThread.msg) =>
                 ran' = [ran EXCEPT ![h] = Append(@, pubThread.msg)]
<1>1. /\ pubThread \in Delivery /\ h \in pubThread.handlers
      /\ pubThread' = [pubThread EXCEPT !.handlers = pubThread.handlers \ {h}]
  BY DEF PublishThreadCallback, TypeOK, Rest
<1>2. pubThread.handlers \ {h} \in SUBSET Subscription
  BY <1>1, Deliveries
<1>3. /\ Ignores(h, pubThread.msg) => ran' = ran
      /\ ~ Ignores(h, pubThread.msg) =>
            ran' = [ran EXCEPT ![h] = Append(@, pubThread.msg)]
  BY DEF PublishThreadCallback, RunCallback
<1> QED
  BY <1>1, <1>2, <1>3, Deliveries

\* A callback adds its message behind those the handler has run for.
LEMMA RanStep ==
    ASSUME TypeOK, NEW h \in Subscription, NEW msg \in Message,
           ran' = [ran EXCEPT ![h] = Append(@, msg)]
    PROVE  /\ \A g \in Subscription : g # h => ran'[g] = ran[g]
           /\ Len(ran[h]) \in Nat
           /\ DOMAIN ran[h] = 1..Len(ran[h])
           /\ DOMAIN ran'[h] = 1..(Len(ran[h]) + 1)
           /\ \A i \in DOMAIN ran[h] : ran'[h][i] = ran[h][i]
           /\ ran'[h][Len(ran[h]) + 1] = msg
<1>1. ran[h] \in Seq(Message)
  BY DEF TypeOK
<1>2. /\ \A g \in Subscription : g # h => ran'[g] = ran[g]
      /\ ran'[h] = Append(ran[h], msg)
  BY DEF TypeOK
<1> QED
  BY <1>1, <1>2

(***************************************************************************)
(* Whose a message is.  A handler that is stored, or that a message is for *)
(* on its way, is a subscription to the topic of the message.              *)
(***************************************************************************)
Held(delivery) ==
    \A h \in delivery.handlers : h \in made /\ TopicOf(h) = delivery.msg.topic

Stored ==
    \A topic \in Topic : \A h \in localSubscribers[topic] :
        h \in made /\ TopicOf(h) = topic

SendsHeld ==
    \A t \in Threads :
        call[t].op \in {"push", "trigger"} =>
            /\ Held(call[t].delivery)
            /\ call[t].delivery.msg.op = call[t].op
            /\ call[t].delivery.msg.from = t
            /\ call[t].delivery.msg.n = sent[t]

QueueHeld ==
    \A i \in DOMAIN pubQueue :
        Held(pubQueue[i]) /\ pubQueue[i].msg.op = "push"

HandHeld ==
    pubThread # Nothing => Held(pubThread) /\ pubThread.msg.op = "push"

Placed == Stored /\ SendsHeld /\ QueueHeld /\ HandHeld

LEMMA InitPlaced == Init => Placed
BY DEF Init, Placed, Stored, SendsHeld, QueueHeld, HandHeld, Idle

LEMMA PlacedKept ==
    ASSUME TypeOK, Placed, [Next]_vars
    PROVE  Placed'
<1> USE DEF Placed, Stored, SendsHeld, QueueHeld, HandHeld, Held
<1>1. ASSUME NEW t \in Threads, NEW h \in Subscription, Subscribe(t, h)
      PROVE  Placed'
  <2>1. /\ localSubscribers' = [localSubscribers EXCEPT ![TopicOf(h)] =
               @ \union {h}]
        /\ made' = made \union {h}
        /\ UNCHANGED <<pubQueue, pubThread, call, sent>>
    BY <1>1 DEF Subscribe
  <2>2. Stored'
    BY <2>1 DEF TypeOK
  <2> QED
    BY <2>1, <2>2
<1>2. ASSUME NEW t \in Threads, NEW h \in Subscription,
             NEW hs \in SUBSET Subscription,
             Unsubscribe(t, h.nUuid, h.name, hs)
      PROVE  Placed'
  <2>1. /\ \A u \in Threads : u # t => call'[u] = call[u]
        /\ call'[t].op = "remove"
        /\ UNCHANGED <<localSubscribers, pubThread, sent, made>>
    BY <1>2 DEF Unsubscribe, Goto, TypeOK
  <2>2. QueueHeld'
    <3>1. \A i \in DOMAIN pubQueue :
              /\ pubQueue'[i].msg = pubQueue[i].msg
              /\ pubQueue'[i].handlers \subseteq pubQueue[i].handlers
      BY <1>2, PurgedQueue
    <3>2. DOMAIN pubQueue' = DOMAIN pubQueue
      BY <1>2, PurgedQueue
    <3> QED
      BY <2>1, <3>1, <3>2
  <2> QED
    BY <2>1, <2>2
<1>3. ASSUME NEW t \in Threads, RemoveHandlers(t)
      PROVE  Placed'
  <2>1. /\ \A u \in Threads : u # t => call'[u] = call[u]
        /\ call'[t] = Idle
        /\ \A topic \in Topic :
              localSubscribers'[topic] \subseteq localSubscribers[topic]
        /\ UNCHANGED <<pubQueue, pubThread, sent, made>>
    BY <1>3 DEF RemoveHandlers, Goto, TypeOK
  <2> QED
    BY <2>1 DEF Idle
<1>4. ASSUME NEW t \in Threads, NEW op \in {"push", "trigger"},
             Publish(t, op)
      PROVE  Placed'
  <2>1. UNCHANGED <<localSubscribers, pubQueue, pubThread, made>>
    BY <1>4 DEF Publish
  <2>2. PICK msg \in Message : Sends(t, op, msg)
    BY <1>4, PublishStep
  <2>3. SendsHeld'
    BY <2>1, <2>2 DEF Idle, Sends
  <2> QED
    BY <2>1, <2>3
<1>5. ASSUME NEW t \in Threads, Push(t)
      PROVE  Placed'
  <2>1. UNCHANGED <<localSubscribers, pubThread, sent, made>>
    BY <1>5 DEF Push
  <2>2. QueueHeld'
    <3> SUFFICES ASSUME NEW i \in DOMAIN pubQueue'
                 PROVE  /\ Held(pubQueue[i])'
                        /\ pubQueue'[i].msg.op = "push"
      OBVIOUS
    <3>1. i \in DOMAIN pubQueue \/ i = Len(pubQueue) + 1
      BY <1>5, PushStep, QueueTypes
    <3> QED
      BY <1>5, <2>1, <3>1, PushStep
  <2> QED
    BY <1>5, <2>1, <2>2, PushStep DEF Idle
<1>6. ASSUME NEW t \in Threads, NEW h \in Subscription,
             TriggerCallback(t, h)
      PROVE  Placed'
  <2>1. UNCHANGED <<localSubscribers, pubQueue, pubThread, sent, made>>
    BY <1>6 DEF TriggerCallback
  <2>2. SendsHeld'
    BY <1>6, <2>1, CallbackStep DEF Idle
  <2> QED
    BY <2>1, <2>2
<1>7. CASE Take
  <2>1. UNCHANGED <<localSubscribers, call, sent, made>>
    BY <1>7 DEF Take
  <2>2. 1 \in DOMAIN pubQueue
    BY <1>7, TakeStep, QueueTypes
  <2>3. QueueHeld'
    <3> SUFFICES ASSUME NEW i \in DOMAIN pubQueue'
                 PROVE  /\ Held(pubQueue[i])'
                        /\ pubQueue'[i].msg.op = "push"
      OBVIOUS
    <3>1. i + 1 \in DOMAIN pubQueue /\ pubQueue'[i] = pubQueue[i + 1]
      BY <1>7, TakeStep, QueueTypes
    <3> QED
      BY <2>1, <3>1
  <2> QED
    BY <1>7, <2>1, <2>2, <2>3, TakeStep
<1>8. ASSUME NEW h \in Subscription, PublishThreadCallback(h)
      PROVE  Placed'
  <2>1. UNCHANGED <<localSubscribers, pubQueue, call, sent, made>>
    BY <1>8 DEF PublishThreadCallback
  <2> QED
    BY <1>8, <2>1, PublishThreadStep
<1>9. CASE Delivered
  BY <1>9 DEF Delivered
<1>10. CASE UNCHANGED vars
  BY <1>10 DEF vars
<1> HIDE DEF Placed, Stored, SendsHeld, QueueHeld, HandHeld, Held
<1> QED
  BY <1>1, <1>2, <1>3, <1>4, <1>5, <1>6, <1>7, <1>8, <1>9, <1>10, Steps

(***************************************************************************)
(* Order.  What a thread published comes in that order in the queue, in    *)
(* the hands of the publish thread and in the callbacks that have run.     *)
(***************************************************************************)
Before(earlier, later) == earlier.from = later.from => earlier.n < later.n

\* Its thread no longer holds the message, or one that was published before.
Spent(msg) ==
    /\ msg.n <= sent[msg.from]
    /\ call[msg.from].op = "push" => msg.n < sent[msg.from]

QueueOrder ==
    \A i \in DOMAIN pubQueue :
        /\ Spent(pubQueue[i].msg)
        /\ \A j \in DOMAIN pubQueue :
              i < j => Before(pubQueue[i].msg, pubQueue[j].msg)

HandOrder ==
    pubThread # Nothing =>
        /\ Spent(pubThread.msg)
        /\ \A i \in DOMAIN pubQueue : Before(pubThread.msg, pubQueue[i].msg)

\* What is on its way to a handler of the messages of a thread, sent with the
\* same call, comes after those the handler has run for.
HeardOf(h, msg) ==
    /\ msg.n <= sent[msg.from]
    /\ call[msg.from].op = msg.op /\ h \in Sending(msg.from)
           => msg.n < sent[msg.from]
    /\ msg.op = "push" =>
          /\ \A i \in DOMAIN pubQueue :
                h \in pubQueue[i].handlers => Before(msg, pubQueue[i].msg)
          /\ pubThread # Nothing /\ h \in pubThread.handlers
                 => Before(msg, pubThread.msg)

RanOrder ==
    \A h \in Subscription : \A i \in DOMAIN ran[h] : HeardOf(h, ran[h][i])

Ordered == QueueOrder /\ HandOrder /\ RanOrder /\ InOrder

LEMMA InitOrdered == Init => Ordered
BY DEF Init, Ordered, QueueOrder, HandOrder, RanOrder, InOrder

LEMMA Messages ==
    ASSUME NEW msg \in Message
    PROVE  /\ msg.from \in Threads /\ msg.n \in Nat
           /\ msg.op \in {"push", "trigger"}
BY UsersAssumption DEF Message

LEMMA RanTypes ==
    ASSUME TypeOK, NEW h \in Subscription
    PROVE  /\ Len(ran[h]) \in Nat
           /\ DOMAIN ran[h] = 1..Len(ran[h])
           /\ \A i \in DOMAIN ran[h] : ran[h][i] \in Message
BY DEF TypeOK

LEMMA SentTypes ==
    ASSUME TypeOK, NEW t \in Threads
    PROVE  sent[t] \in Nat
BY UsersAssumption DEF TypeOK

\* A callback for a message that comes after what its handler has run for.
LEMMA RanInOrder ==
    ASSUME TypeOK, InOrder, NEW h \in Subscription, NEW msg \in Message,
           ran' = [ran EXCEPT ![h] = Append(@, msg)],
           \A i \in DOMAIN ran[h] :
               ran[h][i].from = msg.from /\ ran[h][i].op = msg.op
                   => ran[h][i].n < msg.n
    PROVE  InOrder'
<1> SUFFICES ASSUME NEW g \in Subscription,
                    NEW i \in DOMAIN ran'[g], NEW j \in DOMAIN ran'[g],
                    i < j, ran'[g][i].from = ran'[g][j].from,
                    ran'[g][i].op = ran'[g][j].op
             PROVE  ran'[g][i].n < ran'[g][j].n
  BY DEF InOrder
<1>1. CASE g # h
  BY <1>1, RanStep DEF InOrder
<1>2. CASE g = h /\ j \in DOMAIN ran[h]
  <2>1. i \in DOMAIN ran[h]
    BY <1>2, RanStep
  <2> QED
    BY <1>2, <2>1, RanStep DEF InOrder
<1>3. CASE g = h /\ j \notin DOMAIN ran[h]
  <2>1. i \in DOMAIN ran[h] /\ j = Len(ran[h]) + 1
    BY <1>3, RanStep
  <2> QED
    BY <1>3, <2>1, RanStep
<1> QED
  BY <1>1, <1>2, <1>3

\* Steps that run no callback, and take nothing to a handler.
LEMMA OrderedStays ==
    ASSUME TypeOK, Ordered, sent' = sent, ran' = ran,
           pubThread' \in {pubThread, Nothing},
           \A u \in Threads :
               call'[u] = call[u] \/ call'[u].op \in {"idle", "remove"},
           DOMAIN pubQueue' = DOMAIN pubQueue,
           \A i \in DOMAIN pubQueue :
               /\ pubQueue'[i].msg = pubQueue[i].msg
               /\ pubQueue'[i].handlers \subseteq pubQueue[i].handlers
    PROVE  Ordered'
<1>1. \A msg \in Message : Spent(msg) => Spent(msg)'
  <2> SUFFICES ASSUME NEW msg \in Message, Spent(msg)
               PROVE  Spent(msg)'
    OBVIOUS
  <2>1. msg.from \in Threads
    BY Messages
  <2> QED
    BY <2>1 DEF Spent
<1>2. QueueOrder'
  BY <1>1, QueueTypes DEF Ordered, QueueOrder, Before
<1>3. HandOrder'
  <2> SUFFICES ASSUME pubThread' # Nothing
               PROVE  HandOrder'
    BY DEF HandOrder
  <2>1. pubThread' = pubThread /\ pubThread.msg \in Message
    BY Deliveries DEF TypeOK
  <2> QED
    BY <1>1, <2>1 DEF Ordered, HandOrder, Before
<1>4. RanOrder'
  <2> SUFFICES ASSUME NEW h \in Subscription, NEW i \in DOMAIN ran[h]
               PROVE  HeardOf(h, ran[h][i])'
    BY DEF RanOrder
  <2>1. ran[h][i] \in Message /\ ran[h][i].from \in Threads
        /\ ran[h][i].op \in {"push", "trigger"}
    BY RanTypes, Messages
  <2>2. HeardOf(h, ran[h][i])
    BY DEF Ordered, RanOrder
  <2> QED
    BY <2>1, <2>2 DEF HeardOf, Before, Sending
<1>5. InOrder'
  BY DEF Ordered, InOrder
<1> QED
  BY <1>2, <1>3, <1>4, <1>5 DEF Ordered

LEMMA PublishOrdered ==
    ASSUME TypeOK, Ordered, NEW t \in Threads, NEW op \in {"push", "trigger"},
           Publish(t, op)
    PROVE  Ordered'
<1>1. UNCHANGED <<pubQueue, pubThread, ran>>
  BY DEF Publish
<1>2. PICK sentMsg \in Message : Sends(t, op, sentMsg)
  BY PublishStep
<1>3. sent[t] \in Nat /\ sent'[t] = sent[t] + 1
  BY <1>2, SentTypes DEF Sends
<1>4. \A u \in Threads : u # t => sent'[u] = sent[u] /\ call'[u] = call[u]
  BY <1>2 DEF Sends
<1>5. \A msg \in Message : Spent(msg) => Spent(msg)'
  <2> SUFFICES ASSUME NEW msg \in Message, Spent(msg)
               PROVE  Spent(msg)'
    OBVIOUS
  <2>1. msg.from \in Threads /\ msg.n \in Nat
    BY Messages
  <2> QED
    BY <1>3, <1>4, <2>1 DEF Spent
<1>6. QueueOrder'
  BY <1>1, <1>5, QueueTypes DEF Ordered, QueueOrder
<1>7. HandOrder'
  <2> SUFFICES ASSUME pubThread # Nothing
               PROVE  HandOrder'
    BY <1>1 DEF HandOrder
  <2>1. pubThread.msg \in Message
    BY Deliveries DEF TypeOK
  <2> QED
    BY <1>1, <1>5, <2>1 DEF Ordered, HandOrder
<1>8. RanOrder'
  <2> SUFFICES ASSUME NEW h \in Subscription, NEW i \in DOMAIN ran[h]
               PROVE  HeardOf(h, ran[h][i])'
    BY <1>1 DEF RanOrder
  <2> DEFINE msg == ran[h][i]
  <2>1. msg \in Message /\ msg.from \in Threads /\ msg.n \in Nat
    BY RanTypes, Messages
  <2>2. HeardOf(h, msg)
    BY DEF Ordered, RanOrder
  <2>3. msg.n <= sent'[msg.from]
    BY <1>3, <1>4, <2>1, <2>2 DEF HeardOf
  <2>4. CASE msg.from = t
    BY <1>1, <1>3, <2>1, <2>2, <2>3, <2>4 DEF HeardOf
  <2>5. CASE msg.from # t
    BY <1>1, <1>4, <2>1, <2>2, <2>3, <2>5 DEF HeardOf, Sending
  <2> QED
    BY <2>4, <2>5
<1>9. InOrder'
  BY <1>1 DEF Ordered, InOrder
<1> QED
  BY <1>6, <1>7, <1>8, <1>9 DEF Ordered

LEMMA PushOrdered ==
    ASSUME TypeOK, Placed, Ordered, NEW t \in Threads, Push(t)
    PROVE  Ordered'
<1>1. UNCHANGED <<pubThread, sent, ran>>
  BY DEF Push
<1> DEFINE last == Len(pubQueue) + 1
<1>2. PICK pushed \in Message :
          /\ pushed = call[t].delivery.msg
          /\ pushed.from = t /\ pushed.n = sent[t] /\ pushed.op = "push"
  BY PushStep, Deliveries DEF Placed, SendsHeld
<1>3. /\ call[t].op = "push" /\ call'[t].op = "idle"
      /\ \A u \in Threads : u # t => call'[u] = call[u]
  BY PushStep DEF Idle
<1>4. /\ last \notin DOMAIN pubQueue
      /\ last \in DOMAIN pubQueue' /\ pubQueue'[last].msg = pushed
      /\ pubQueue'[last].handlers = Sending(t)
      /\ \A i \in DOMAIN pubQueue' :
            \/ i = last
            \/ i \in DOMAIN pubQueue /\ i < last /\ pubQueue'[i] = pubQueue[i]
  BY <1>2, PushStep, QueueTypes DEF Sending
<1> HIDE DEF last
<1>5. \A msg \in Message : Spent(msg) => Spent(msg)' /\ Before(msg, pushed)
  <2> SUFFICES ASSUME NEW msg \in Message, Spent(msg)
               PROVE  Spent(msg)' /\ Before(msg, pushed)
    OBVIOUS
  <2>1. msg.from \in Threads
    BY Messages
  <2> QED
    BY <1>1, <1>2, <1>3, <2>1 DEF Spent, Before
<1>6. Spent(pushed)'
  BY <1>1, <1>2, <1>3, SentTypes DEF Spent
<1>7. QueueOrder'
  <2> SUFFICES ASSUME NEW i \in DOMAIN pubQueue'
               PROVE  /\ Spent(pubQueue[i].msg)'
                      /\ \A j \in DOMAIN pubQueue' :
                            i < j => Before(pubQueue'[i].msg, pubQueue'[j].msg)
    BY DEF QueueOrder, Before
  <2>1. CASE i = last
    <3>1. \A j \in DOMAIN pubQueue' : ~ i < j
      BY <1>4, <2>1, PushStep, QueueTypes DEF last
    <3> QED
      BY <1>4, <1>6, <2>1, <3>1
  <2>2. CASE i \in DOMAIN pubQueue
    <3>1. /\ pubQueue'[i] = pubQueue[i] /\ pubQueue[i].msg \in Message
          /\ Spent(pubQueue[i].msg)
      BY <1>4, <2>2, QueueTypes DEF Ordered, QueueOrder
    <3>2. ASSUME NEW j \in DOMAIN pubQueue', i < j
          PROVE  Before(pubQueue'[i].msg, pubQueue'[j].msg)
      BY <1>4, <1>5, <2>2, <3>1, <3>2 DEF Ordered, QueueOrder
    <3> QED
      BY <1>5, <3>1, <3>2
  <2> QED
    BY <1>4, <2>1, <2>2
<1>8. HandOrder'
  <2> SUFFICES ASSUME pubThread # Nothing
               PROVE  HandOrder'
    BY <1>1 DEF HandOrder
  <2>1. pubThread.msg \in Message /\ Spent(pubThread.msg)
    BY Deliveries DEF TypeOK, Ordered, HandOrder
  <2> QED
    BY <1>1, <1>4, <1>5, <2>1 DEF Ordered, HandOrder, Before
<1>9. RanOrder'
  <2> SUFFICES ASSUME NEW h \in Subscription, NEW i \in DOMAIN ran[h]
               PROVE  HeardOf(h, ran[h][i])'
    BY <1>1 DEF RanOrder
  <2>0. PICK msg \in Message : msg = ran[h][i]
    BY RanTypes
  <2>1. msg.from \in Threads /\ msg.op \in {"push", "trigger"}
    BY Messages
  <2>2. HeardOf(h, msg)
    BY <2>0 DEF Ordered, RanOrder
  <2>3. h \in Sending(t) /\ msg.op = "push" => Before(msg, pushed)
    BY <1>2, <1>3, <2>1, <2>2 DEF HeardOf, Before
  <2>4. msg.n <= sent'[msg.from] /\ (call'[msg.from].op = msg.op
            /\ h \in Sending(msg.from)' => msg.n < sent'[msg.from])
    BY <1>1, <1>3, <2>1, <2>2 DEF HeardOf, Sending
  <2>5. ASSUME msg.op = "push"
        PROVE  /\ \A j \in DOMAIN pubQueue' :
                     h \in pubQueue'[j].handlers
                         => Before(msg, pubQueue'[j].msg)
               /\ pubThread # Nothing /\ h \in pubThread.handlers
                     => Before(msg, pubThread.msg)
    BY <1>4, <2>2, <2>3, <2>5 DEF HeardOf
  <2>6. HeardOf(h, msg)'
    BY <1>1, <2>4, <2>5 DEF HeardOf, Before
  <2> QED
    BY <1>1, <2>0, <2>6
<1>10. InOrder'
  BY <1>1 DEF Ordered, InOrder
<1> QED
  BY <1>7, <1>8, <1>9, <1>10 DEF Ordered

LEMMA CallbackOrdered ==
    ASSUME TypeOK, Placed, Ordered, NEW t \in Threads, NEW h \in Subscription,
           TriggerCallback(t, h)
    PROVE  Ordered'
<1>1. UNCHANGED <<pubQueue, pubThread, sent>>
  BY DEF TriggerCallback
<1>2. PICK msg \in Message :
          /\ msg = call[t].delivery.msg
          /\ msg.from = t /\ msg.n = sent[t] /\ msg.op = "trigger"
  BY CallbackStep, Deliveries DEF Placed, SendsHeld
<1>3. /\ call[t].op = "trigger" /\ call'[t].op \in {"idle", "trigger"}
      /\ h \in Sending(t)
      /\ \A g : g \in Sending(t)' => g \in Sending(t) /\ g # h
      /\ \A u \in Threads : u # t => call'[u] = call[u]
  BY CallbackStep DEF Idle, Sending
<1>4. ran' = [ran EXCEPT ![h] = Append(@, msg)]
  BY <1>2, CallbackStep
<1>5. \A m \in Message : Spent(m) => Spent(m)'
  <2> SUFFICES ASSUME NEW m \in Message, Spent(m)
               PROVE  Spent(m)'
    OBVIOUS
  <2>1. m.from \in Threads
    BY Messages
  <2> QED
    BY <1>1, <1>3, <2>1 DEF Spent
<1>6. QueueOrder'
  BY <1>1, <1>5, QueueTypes DEF Ordered, QueueOrder
<1>7. HandOrder'
  <2> SUFFICES ASSUME pubThread # Nothing
               PROVE  HandOrder'
    BY <1>1 DEF HandOrder
  <2>1. pubThread.msg \in Message
    BY Deliveries DEF TypeOK
  <2> QED
    BY <1>1, <1>5, <2>1 DEF Ordered, HandOrder
<1>8. ASSUME NEW g \in Subscription, NEW m \in Message, HeardOf(g, m)
      PROVE  HeardOf(g, m)'
  <2>1. m.from \in Threads /\ m.op \in {"push", "trigger"}
    BY Messages
  <2>2. call'[m.from].op = m.op /\ g \in Sending(m.from)'
            => call[m.from].op = m.op /\ g \in Sending(m.from)
    BY <1>3, <2>1 DEF Sending
  <2> QED
    BY <1>1, <1>8, <2>2 DEF HeardOf
<1>9. HeardOf(h, msg)'
  BY <1>1, <1>2, <1>3, SentTypes DEF HeardOf
<1>10. RanOrder'
  <2> SUFFICES ASSUME NEW g \in Subscription, NEW i \in DOMAIN ran'[g]
               PROVE  HeardOf(g, ran[g][i])'
    BY DEF RanOrder
  <2>1. CASE g = h /\ i = Len(ran[h]) + 1
    <3>1. g = h /\ ran'[h][i] = msg
      BY <1>4, <2>1, RanStep
    <3> QED
      BY <1>9, <3>1
  <2>2. CASE ~ (g = h /\ i = Len(ran[h]) + 1)
    <3>1. i \in DOMAIN ran[g] /\ ran'[g][i] = ran[g][i]
      BY <1>4, <2>2, RanStep
    <3>2. PICK m \in Message : m = ran[g][i]
      BY <3>1, RanTypes
    <3>3. HeardOf(g, m)
      BY <3>1, <3>2 DEF Ordered, RanOrder
    <3> QED
      BY <1>8, <3>1, <3>2, <3>3
  <2> QED
    BY <2>1, <2>2
<1>11. \A i \in DOMAIN ran[h] :
           ran[h][i].from = msg.from /\ ran[h][i].op = msg.op
               => ran[h][i].n < msg.n
  BY <1>2, <1>3 DEF Ordered, RanOrder, HeardOf
<1>12. InOrder'
  BY <1>4, <1>11, RanInOrder DEF Ordered
<1> QED
  BY <1>6, <1>7, <1>10, <1>12 DEF Ordered

LEMMA TakeOrdered ==
    ASSUME TypeOK, Placed, Ordered, Take
    PROVE  Ordered'
<1>1. UNCHANGED <<call, sent, ran>>
  BY DEF Take
<1>2. /\ 1 \in DOMAIN pubQueue
      /\ pubThread' = pubQueue[1]
      /\ \A i \in DOMAIN pubQueue' :
            /\ i \in Nat /\ 1 < i + 1
            /\ i + 1 \in DOMAIN pubQueue
            /\ pubQueue'[i] = pubQueue[i + 1]
  BY TakeStep, QueueTypes
<1>3. QueueOrder'
  <2> SUFFICES ASSUME NEW i \in DOMAIN pubQueue'
               PROVE  /\ Spent(pubQueue[i].msg)'
                      /\ \A j \in DOMAIN pubQueue' :
                            i < j => Before(pubQueue'[i].msg, pubQueue'[j].msg)
    BY DEF QueueOrder, Before
  <2>1. Spent(pubQueue[i].msg)'
    BY <1>1, <1>2 DEF Ordered, QueueOrder, Spent
  <2>2. ASSUME NEW j \in DOMAIN pubQueue', i < j
        PROVE  Before(pubQueue'[i].msg, pubQueue'[j].msg)
    <3>1. i + 1 < j + 1
      BY <1>2, <2>2
    <3> QED
      BY <1>2, <3>1 DEF Ordered, QueueOrder
  <2> QED
    BY <2>1, <2>2
<1>4. HandOrder'
  <2>1. Spent(pubThread.msg)'
    BY <1>1, <1>2 DEF Ordered, QueueOrder, Spent
  <2>2. \A i \in DOMAIN pubQueue' : Before(pubThread'.msg, pubQueue'[i].msg)
    BY <1>2 DEF Ordered, QueueOrder
  <2> QED
    BY <2>1, <2>2 DEF HandOrder, Before
<1>5. RanOrder'
  <2> SUFFICES ASSUME NEW h \in Subscription, NEW i \in DOMAIN ran[h]
               PROVE  HeardOf(h, ran[h][i])'
    BY <1>1 DEF RanOrder
  <2>1. PICK msg \in Message : msg = ran[h][i]
    BY RanTypes
  <2>2. HeardOf(h, msg)
    BY <2>1 DEF Ordered, RanOrder
  <2>3. HeardOf(h, msg)'
    BY <1>1, <1>2, <2>2 DEF HeardOf, Before, Sending
  <2> QED
    BY <1>1, <2>1, <2>3
<1>6. InOrder'
  BY <1>1 DEF Ordered, InOrder
<1> QED
  BY <1>3, <1>4, <1>5, <1>6 DEF Ordered

LEMMA PublishThreadOrdered ==
    ASSUME TypeOK, Placed, Ordered, NEW h \in Subscription,
           PublishThreadCallback(h)
    PROVE  Ordered'
<1>1. UNCHANGED <<pubQueue, call, sent>>
  BY DEF PublishThreadCallback
<1>2. PICK msg \in Message : msg = pubThread.msg /\ msg.op = "push"
  BY PublishThreadStep DEF Placed, HandHeld
<1>3. /\ pubThread # Nothing /\ pubThread' # Nothing
      /\ pubThread'.msg = msg
      /\ h \in pubThread.handlers
      /\ pubThread'.handlers = pubThread.handlers \ {h}
      /\ \/ ran' = ran
         \/ ran' = [ran EXCEPT ![h] = Append(@, msg)]
  BY <1>2, PublishThreadStep
<1>4. QueueOrder'
  BY <1>1 DEF Ordered, QueueOrder, Spent
<1>5. HandOrder'
  BY <1>1, <1>2, <1>3 DEF Ordered, HandOrder, Spent, Before
<1>6. ASSUME NEW g \in Subscription, NEW m \in Message, HeardOf(g, m)
      PROVE  HeardOf(g, m)'
  BY <1>1, <1>2, <1>3, <1>6 DEF HeardOf, Before, Sending
<1>7. HeardOf(h, msg)'
  <2>1. /\ msg.n <= sent[msg.from]
        /\ call[msg.from].op = msg.op => msg.n < sent[msg.from]
        /\ \A i \in DOMAIN pubQueue : Before(msg, pubQueue[i].msg)
    BY <1>2, <1>3 DEF Ordered, HandOrder, Spent
  <2> QED
    BY <1>1, <1>3, <2>1 DEF HeardOf, Before
<1>8. CASE ran' = ran
  <2>1. RanOrder'
    <3> SUFFICES ASSUME NEW g \in Subscription, NEW i \in DOMAIN ran[g]
                 PROVE  HeardOf(g, ran[g][i])'
      BY <1>8 DEF RanOrder
    <3>1. PICK m \in Message : m = ran[g][i]
      BY RanTypes
    <3>2. HeardOf(g, m)
      BY <3>1 DEF Ordered, RanOrder
    <3> QED
      BY <1>6, <1>8, <3>1, <3>2
  <2>2. InOrder'
    BY <1>8 DEF Ordered, InOrder
  <2> QED
    BY <1>4, <1>5, <2>1, <2>2 DEF Ordered
<1>9. CASE ran' = [ran EXCEPT ![h] = Append(@, msg)]
  <2>1. RanOrder'
    <3> SUFFICES ASSUME NEW g \in Subscription, NEW i \in DOMAIN ran'[g]
                 PROVE  HeardOf(g, ran[g][i])'
      BY DEF RanOrder
    <3>1. CASE g = h /\ i = Len(ran[h]) + 1
      <4>1. g = h /\ ran'[h][i] = msg
        BY <1>9, <3>1, RanStep
      <4> QED
        BY <1>7, <4>1
    <3>2. CASE ~ (g = h /\ i = Len(ran[h]) + 1)
      <4>1. i \in DOMAIN ran[g] /\ ran'[g][i] = ran[g][i]
        BY <1>9, <3>2, RanStep
      <4>2. PICK m \in Message : m = ran[g][i]
        BY <4>1, RanTypes
      <4>3. HeardOf(g, m)
        BY <4>1, <4>2 DEF Ordered, RanOrder
      <4> QED
        BY <1>6, <4>1, <4>2, <4>3
    <3> QED
      BY <3>1, <3>2
  <2>2. \A i \in DOMAIN ran[h] :
            ran[h][i].from = msg.from /\ ran[h][i].op = msg.op
                => ran[h][i].n < msg.n
    BY <1>2, <1>3 DEF Ordered, RanOrder, HeardOf, Before
  <2>3. InOrder'
    BY <1>9, <2>2, RanInOrder DEF Ordered
  <2> QED
    BY <1>4, <1>5, <2>1, <2>3 DEF Ordered
<1> QED
  BY <1>3, <1>8, <1>9

LEMMA OrderedKept ==
    ASSUME TypeOK, Placed, Ordered, [Next]_vars
    PROVE  Ordered'
<1>1. ASSUME NEW t \in Threads, NEW h \in Subscription, Subscribe(t, h)
      PROVE  Ordered'
  BY <1>1, OrderedStays DEF Subscribe
<1>2. ASSUME NEW t \in Threads, NEW h \in Subscription,
             NEW hs \in SUBSET Subscription,
             Unsubscribe(t, h.nUuid, h.name, hs)
      PROVE  Ordered'
  <2>1. /\ \A u \in Threads : call'[u] = call[u] \/ call'[u].op = "remove"
        /\ UNCHANGED <<pubThread, sent, ran>>
    BY <1>2 DEF Unsubscribe, Goto, TypeOK
  <2>2. /\ DOMAIN pubQueue' = DOMAIN pubQueue
        /\ \A i \in DOMAIN pubQueue :
              /\ pubQueue'[i].msg = pubQueue[i].msg
              /\ pubQueue'[i].handlers \subseteq pubQueue[i].handlers
    <3>1. DOMAIN pubQueue' = DOMAIN pubQueue
      BY <1>2, PurgedQueue
    <3>2. \A i \in DOMAIN pubQueue :
              /\ pubQueue'[i].msg = pubQueue[i].msg
              /\ pubQueue'[i].handlers \subseteq pubQueue[i].handlers
      BY <1>2, PurgedQueue
    <3> QED
      BY <3>1, <3>2
  <2> QED
    BY <2>1, <2>2, OrderedStays
<1>3. ASSUME NEW t \in Threads, RemoveHandlers(t)
      PROVE  Ordered'
  <2>1. /\ \A u \in Threads : call'[u] = call[u] \/ call'[u].op = "idle"
        /\ UNCHANGED <<pubQueue, pubThread, sent, ran>>
    BY <1>3 DEF RemoveHandlers, Goto, Idle, TypeOK
  <2> QED
    BY <2>1, OrderedStays
<1>4. CASE Delivered
  BY <1>4, OrderedStays DEF Delivered
<1>5. CASE UNCHANGED vars
  BY <1>5, OrderedStays DEF vars
<1> QED
  BY <1>1, <1>2, <1>3, <1>4, <1>5, Steps, PublishOrdered, PushOrdered,
     CallbackOrdered, TakeOrdered, PublishThreadOrdered

(***************************************************************************)
(* Nothing is lost.  A message that is due to a handler and has not run    *)
(* stays on its way until the handler is asked to go.                      *)
(***************************************************************************)
DueHeard ==
    \A h \in Subscription : \A msg \in due[h] :
        msg.op = "push" => ~ Ignores(h, msg)

LEMMA InitNoneLost == Init => DueHeard /\ NoneLost
BY DEF Init, DueHeard, NoneLost

LEMMA DueTypes ==
    ASSUME TypeOK, NEW h \in Subscription, NEW msg \in due[h]
    PROVE  msg \in Message
BY DEF TypeOK

LEMMA DueStep ==
    ASSUME TypeOK, NEW t \in Threads, NEW op \in {"push", "trigger"},
           Publish(t, op), NEW h \in Subscription, NEW msg \in due'[h]
    PROVE  \/ msg \in due[h]
           \/ /\ msg \in Message
              /\ msg.op = "push" => ~ Ignores(h, msg)
              /\ Pending(h, msg)'
<1>1. PICK new \in Message : Sends(t, op, new)
  BY PublishStep
<1>2. CASE msg \in due[h]
  BY <1>2
<1>3. CASE msg \notin due[h]
  <2>1. /\ msg = new /\ h \in localSubscribers[new.topic]
        /\ ~ (op = "push" /\ Ignores(h, new))
    <3>1. due'[h] = IF h \in localSubscribers[new.topic]
                          /\ ~ (op = "push" /\ Ignores(h, new))
                    THEN due[h] \union {new} ELSE due[h]
      BY <1>1 DEF Sends
    <3> QED
      BY <1>3, <3>1
  <2>2. /\ call'[t].op = op
        /\ call'[t].delivery.msg = new
        /\ h \in call'[t].delivery.handlers
    BY <1>1, <2>1 DEF Sends
  <2>3. Pending(h, msg)'
    BY <2>1, <2>2 DEF Pending, Sending
  <2> QED
    BY <1>1, <2>1, <2>3 DEF Sends
<1> QED
  BY <1>2, <1>3

LEMMA DueHeardKept ==
    ASSUME TypeOK, DueHeard, [Next]_vars
    PROVE  DueHeard'
<1>1. ASSUME NEW t \in Threads, NEW op \in {"push", "trigger"},
             Publish(t, op)
      PROVE  DueHeard'
  <2> SUFFICES ASSUME NEW h \in Subscription, NEW msg \in due'[h]
               PROVE  msg.op = "push" => ~ Ignores(h, msg)
    BY DEF DueHeard, Ignores
  <2> QED
    BY <1>1, DueStep DEF DueHeard
<1>2. CASE due' = due
  BY <1>2 DEF DueHeard, Ignores
<1> QED
  BY <1>1, <1>2, Steps
     DEF Subscribe, Unsubscribe, RemoveHandlers, Push, TriggerCallback, Take,
         PublishThreadCallback, Delivered, vars

\* What has run stays so.
LEMMA RunStays ==
    ASSUME TypeOK, [Next]_vars, NEW h \in Subscription, NEW msg \in Message,
           HasRun(h, msg)
    PROVE  HasRun(h, msg)'
<1>1. PICK i \in DOMAIN ran[h] : ran[h][i] = msg
  BY DEF HasRun
<1>2. ASSUME NEW g \in Subscription, NEW m \in Message,
             ran' = [ran EXCEPT ![g] = Append(@, m)]
      PROVE  HasRun(h, msg)'
  <2>1. i \in DOMAIN ran'[h] /\ ran'[h][i] = ran[h][i]
    BY <1>1, <1>2, RanStep
  <2> QED
    BY <1>1, <2>1 DEF HasRun
<1>3. CASE ran' = ran
  BY <1>3 DEF HasRun
<1>4. ASSUME NEW t \in Threads, NEW g \in Subscription, TriggerCallback(t, g)
      PROVE  HasRun(h, msg)'
  <2>1. /\ ran' = [ran EXCEPT ![g] = Append(@, call[t].delivery.msg)]
        /\ call[t].delivery.msg \in Message
    BY <1>4, CallbackStep, Deliveries
  <2> QED
    BY <1>2, <2>1
<1>5. ASSUME NEW g \in Subscription, PublishThreadCallback(g)
      PROVE  HasRun(h, msg)'
  <2>1. /\ \/ ran' = ran
           \/ ran' = [ran EXCEPT ![g] = Append(@, pubThread.msg)]
        /\ pubThread.msg \in Message
    BY <1>5, PublishThreadStep
  <2> QED
    BY <1>2, <1>3, <2>1
<1> QED
  BY <1>3, <1>4, <1>5, Steps
     DEF Subscribe, Unsubscribe, RemoveHandlers, Publish, Push, Take,
         Delivered, vars

\* A message just heard has run.
LEMMA JustRun ==
    ASSUME TypeOK, NEW h \in Subscription, NEW msg \in Message,
           ran' = [ran EXCEPT ![h] = Append(@, msg)]
    PROVE  HasRun(h, msg)'
<1>1. /\ Len(ran[h]) \in Nat
      /\ DOMAIN ran'[h] = 1..(Len(ran[h]) + 1)
      /\ ran'[h][Len(ran[h]) + 1] = msg
  BY RanStep
<1>2. Len(ran[h]) + 1 \in DOMAIN ran'[h]
  BY <1>1
<1> QED
  BY <1>1, <1>2 DEF HasRun

\* Unsubscribe takes from the queue only handlers that were asked to go.
LEMMA PurgeStep ==
    ASSUME TypeOK, Placed, NEW t \in Threads, NEW h \in Subscription,
           NEW hs \in SUBSET Subscription,
           Unsubscribe(t, h.nUuid, h.name, hs),
           NEW i \in DOMAIN pubQueue, NEW g \in pubQueue[i].handlers,
           g \notin left'
    PROVE  g \in pubQueue'[i].handlers
<1>1. ~ SameTopic(pubQueue[i].msg.topic, h.nUuid, h.name)
          => pubQueue'[i].handlers = pubQueue[i].handlers
  BY PurgedQueue
<1>2. SameTopic(pubQueue[i].msg.topic, h.nUuid, h.name)
          => pubQueue'[i].handlers =
                pubQueue[i].handlers \ Who(h.nUuid, hs)
  BY PurgedQueue
<1> DEFINE node == h.nUuid
           name == Remap[node][h.name]
<1>3. /\ node \in Node /\ name \in Name
      /\ FullyQualified[node][name] \in Topic
  BY Subscriptions, NamesAssumption
<1>4. /\ g \in Subscription /\ g \in made
      /\ TopicOf(g) = pubQueue[i].msg.topic
  BY QueueTypes DEF Placed, QueueHeld, Held
<1>5. g \in Who(node, hs) => TopicOf(g) # FullyQualified[node][name]
  BY <1>4 DEF Unsubscribe
<1>6. SUFFICES ASSUME g \in Who(node, hs), Carried[TopicOf(g)] = name
               PROVE  FALSE
  BY <1>4, <1>1, <1>2 DEF SameTopic
<1>7. g.nUuid = node
  BY <1>6 DEF Who
<1>8. PICK own \in Name : TopicOf(g) = FullyQualified[node][own]
  BY <1>4, <1>7, Subscriptions, NamesAssumption DEF TopicOf
<1>9. FullyQualified[node][Carried[FullyQualified[node][own]]] =
          FullyQualified[node][own]
  BY <1>3, CarriedAssumption
<1> QED
  BY <1>5, <1>6, <1>8, <1>9

\* What is on its way stays so, or runs.
LEMMA PendingKept ==
    ASSUME TypeOK, Placed, [Next]_vars,
           NEW h \in Subscription, h \notin left', NEW msg \in Message,
           msg.op = "push" => ~ Ignores(h, msg), Pending(h, msg)
    PROVE  HasRun(h, msg)' \/ Pending(h, msg)'
<1> DEFINE Kept == HasRun(h, msg)' \/ Pending(h, msg)'
<1>0. ASSUME pubQueue' = pubQueue, pubThread' = pubThread,
             \A u \in Threads : call'[u] = call[u] \/ Sending(u) = {}
      PROVE  Kept
  BY <1>0 DEF Pending, Sending
<1>1. ASSUME NEW t \in Threads, NEW g \in Subscription, Subscribe(t, g)
      PROVE  Kept
  BY <1>0, <1>1 DEF Subscribe
<1>2. ASSUME NEW t \in Threads, NEW g \in Subscription,
             NEW hs \in SUBSET Subscription,
             Unsubscribe(t, g.nUuid, g.name, hs)
      PROVE  Kept
  <2>1. /\ \A u \in Threads : call'[u] = call[u] \/ Sending(u) = {}
        /\ pubThread' = pubThread
    BY <1>2 DEF Unsubscribe, Goto, Sending, Idle, TypeOK
  <2>2. ASSUME NEW i \in DOMAIN pubQueue,
               h \in pubQueue[i].handlers, pubQueue[i].msg = msg
        PROVE  Kept
    <3>1. i \in DOMAIN pubQueue' /\ pubQueue'[i].msg = msg
      BY <1>2, <2>2, PurgedQueue
    <3>2. h \in pubQueue'[i].handlers
      BY <1>2, <2>2, PurgeStep
    <3> QED
      BY <3>1, <3>2 DEF Pending
  <2> QED
    BY <2>1, <2>2 DEF Pending, Sending
<1>3. ASSUME NEW t \in Threads, RemoveHandlers(t)
      PROVE  Kept
  <2>1. /\ \A u \in Threads : call'[u] = call[u] \/ Sending(u) = {}
        /\ pubThread' = pubThread /\ pubQueue' = pubQueue
    BY <1>3 DEF RemoveHandlers, Goto, Sending, TypeOK
  <2> QED
    BY <1>0, <2>1
<1>4. ASSUME NEW t \in Threads, NEW op \in {"push", "trigger"},
             Publish(t, op)
      PROVE  Kept
  <2>1. /\ \A u \in Threads : call'[u] = call[u] \/ Sending(u) = {}
        /\ pubThread' = pubThread /\ pubQueue' = pubQueue
    BY <1>4 DEF Publish, Goto, Sending, Idle, TypeOK
  <2> QED
    BY <1>0, <2>1
<1>5. ASSUME NEW t \in Threads, Push(t)
      PROVE  Kept
  <2>1. pubThread' = pubThread
    BY <1>5 DEF Push
  <2>2. ASSUME NEW u \in Threads, h \in Sending(u), call[u].delivery.msg = msg
        PROVE  Kept
    <3>1. CASE u = t
      <4>1. /\ Len(pubQueue) + 1 \in DOMAIN pubQueue'
            /\ pubQueue'[Len(pubQueue) + 1] = call[t].delivery
        BY <1>5, PushStep, QueueTypes
      <4> QED
        BY <2>2, <3>1, <4>1 DEF Pending, Sending
    <3>2. CASE u # t
      BY <1>5, <2>2, <3>2, PushStep DEF Pending, Sending
    <3> QED
      BY <3>1, <3>2
  <2>3. ASSUME NEW i \in DOMAIN pubQueue,
               h \in pubQueue[i].handlers, pubQueue[i].msg = msg
        PROVE  Kept
    <3>1. i \in DOMAIN pubQueue' /\ pubQueue'[i] = pubQueue[i]
      BY <1>5, PushStep, QueueTypes
    <3> QED
      BY <2>3, <3>1 DEF Pending
  <2> QED
    BY <2>1, <2>2, <2>3 DEF Pending
<1>6. ASSUME NEW t \in Threads, NEW g \in Subscription, TriggerCallback(t, g)
      PROVE  Kept
  <2>1. pubThread' = pubThread /\ pubQueue' = pubQueue
    BY <1>6 DEF TriggerCallback
  <2>2. ASSUME NEW u \in Threads, h \in Sending(u), call[u].delivery.msg = msg
        PROVE  Kept
    <3>1. CASE u = t /\ h = g
      <4>1. ran' = [ran EXCEPT ![h] = Append(@, msg)]
        BY <1>6, <2>2, <3>1, CallbackStep
      <4> QED
        BY <4>1, JustRun
    <3>2. CASE u = t /\ h # g
      <4>1. h \in call[t].delivery.handlers
        BY <1>6, <2>2, <3>2, CallbackStep DEF Sending
      <4>2. /\ call'[t].op = "trigger"
            /\ call'[t].delivery.msg = msg
            /\ h \in call'[t].delivery.handlers
        BY <1>6, <2>2, <3>2, <4>1, CallbackStep
      <4> QED
        BY <4>2 DEF Pending, Sending
    <3>3. CASE u # t
      BY <1>6, <2>2, <3>3, CallbackStep DEF Pending, Sending
    <3> QED
      BY <3>1, <3>2, <3>3
  <2> QED
    BY <2>1, <2>2 DEF Pending
<1>7. CASE Take
  <2>1. call' = call /\ pubThread = Nothing /\ pubThread' # Nothing
    BY <1>7, TakeStep DEF Take
  <2>2. ASSUME NEW i \in DOMAIN pubQueue,
               h \in pubQueue[i].handlers, pubQueue[i].msg = msg
        PROVE  Kept
    <3>1. CASE i = 1
      BY <1>7, <2>1, <2>2, <3>1, TakeStep DEF Pending
    <3>2. CASE i # 1
      <4>1. i - 1 \in DOMAIN pubQueue' /\ (i - 1) + 1 = i
        BY <1>7, <3>2, TakeStep, QueueTypes
      <4>2. pubQueue'[i - 1] = pubQueue[i]
        BY <1>7, <4>1, TakeStep
      <4> QED
        BY <2>2, <4>1, <4>2 DEF Pending
    <3> QED
      BY <3>1, <3>2
  <2> QED
    BY <2>1, <2>2 DEF Pending, Sending
<1>8. ASSUME NEW g \in Subscription, PublishThreadCallback(g)
      PROVE  Kept
  <2>1. pubQueue' = pubQueue /\ call' = call
    BY <1>8 DEF PublishThreadCallback
  <2>2. ASSUME h \in pubThread.handlers, pubThread.msg = msg
        PROVE  Kept
    <3>1. CASE h = g
      <4>1. ~ Ignores(h, msg)
        BY <1>8, <2>2, PublishThreadStep DEF Placed, HandHeld
      <4>2. ran' = [ran EXCEPT ![h] = Append(@, msg)]
        BY <1>8, <2>2, <3>1, <4>1, PublishThreadStep
      <4> QED
        BY <4>2, JustRun
    <3>2. CASE h # g
      BY <1>8, <2>2, <3>2, PublishThreadStep DEF Pending
    <3> QED
      BY <3>1, <3>2
  <2> QED
    BY <2>1, <2>2 DEF Pending, Sending
<1>9. CASE Delivered
  BY <1>9 DEF Delivered, Pending, Sending
<1>10. CASE UNCHANGED vars
  BY <1>0, <1>10 DEF vars
<1> QED
  BY <1>1, <1>2, <1>3, <1>4, <1>5, <1>6, <1>7, <1>8, <1>9, <1>10, Steps

LEMMA NoneLostKept ==
    ASSUME TypeOK, Placed, DueHeard, NoneLost, [Next]_vars
    PROVE  NoneLost'
<1>1. left \subseteq left'
  BY Steps
     DEF Subscribe, Unsubscribe, RemoveHandlers, Publish, Push,
         TriggerCallback, Take, PublishThreadCallback, Delivered, vars
<1>2. ASSUME NEW h \in Subscription, h \notin left', NEW msg \in due[h]
      PROVE  HasRun(h, msg)' \/ Pending(h, msg)'
  <2>1. msg \in Message /\ (msg.op = "push" => ~ Ignores(h, msg))
    BY DueTypes DEF DueHeard
  <2>2. HasRun(h, msg) \/ Pending(h, msg)
    BY <1>1, <1>2 DEF NoneLost
  <2> QED
    BY <1>2, <2>1, <2>2, RunStays, PendingKept
<1>3. ASSUME NEW h \in Subscription, h \notin left', NEW msg \in due'[h]
      PROVE  HasRun(h, msg)' \/ Pending(h, msg)'
  <2>1. ASSUME NEW t \in Threads, NEW op \in {"push", "trigger"},
               Publish(t, op)
        PROVE  HasRun(h, msg)' \/ Pending(h, msg)'
    BY <1>2, <1>3, <2>1, DueStep
  <2>2. CASE due' = due
    BY <1>2, <1>3, <2>2
  <2> QED
    BY <2>1, <2>2, Steps
       DEF Subscribe, Unsubscribe, RemoveHandlers, Push, TriggerCallback,
           Take, PublishThreadCallback, Delivered, vars
<1> QED
  BY <1>3 DEF NoneLost

(***************************************************************************)
(* Unsubscribing.  On a node whose topics are written as messages carry    *)
(* them, Unsubscribe takes a handler from the storage, and from the queue. *)
(***************************************************************************)
\* While a handler that was asked to go is stored, some thread is removing it.
Removed ==
    \A h \in left : AsCarried(h.nUuid) =>
        (h \in localSubscribers[TopicOf(h)] =>
            \E u \in Threads :
                /\ call[u].op = "remove"
                /\ call[u].topic = TopicOf(h)
                /\ h \in call[u].who)

\* No message for it is on its way to the queue, or there.
Quiet ==
    \A h \in left \ raced : AsCarried(h.nUuid) =>
        /\ \A u \in Threads : h \notin Sending(u)
        /\ \A i \in DOMAIN pubQueue : h \notin pubQueue[i].handlers

LEMMA InitQuiet == Init => Removed /\ Quiet
BY DEF Init, Removed, Quiet

\* The handlers that Unsubscribe asks to go, as users that write topics as
\* messages carry them see it: those of the topic.
LEMMA Leaves ==
    ASSUME TypeOK, NEW t \in Threads, NEW h \in Subscription,
           NEW hs \in SUBSET Subscription,
           Unsubscribe(t, h.nUuid, h.name, hs),
           NEW g \in left', g \notin left, AsCarried(g.nUuid)
    PROVE  /\ g \in made /\ g \in Who(h.nUuid, hs)
           /\ TopicOf(g) = FullyQualified[h.nUuid][h.name]
           /\ SameTopic(TopicOf(g), h.nUuid, h.name)
           /\ call'[t].op = "remove"
           /\ call'[t].topic = TopicOf(g)
           /\ g \in call'[t].who
           /\ g \notin raced' => \A u \in Threads : g \notin Sending(u)
<1>1. /\ g \in made /\ g \in Who(h.nUuid, hs)
      /\ TopicOf(g) = FullyQualified[h.nUuid][Remap[h.nUuid][h.name]]
      /\ g \notin raced' => \A u \in Threads : g \notin Sending(u)
  BY DEF Unsubscribe
<1>2. g.nUuid = h.nUuid
  BY <1>1 DEF Who
<1>3. /\ Remap[h.nUuid][h.name] = h.name
      /\ Carried[TopicOf(h)] = h.name
      /\ TopicOf(h) = FullyQualified[h.nUuid][h.name]
  BY <1>2 DEF AsCarried, TopicOf
<1>4. /\ call'[t] = [op |-> "remove",
                     topic |-> FullyQualified[h.nUuid][h.name],
                     who |-> Who(h.nUuid, hs)]
  BY DEF Unsubscribe, Goto, TypeOK
<1> QED
  BY <1>1, <1>3, <1>4 DEF SameTopic

LEMMA RemovedKept ==
    ASSUME TypeOK, Placed, Removed, [Next]_vars
    PROVE  Removed'
<1> SUFFICES ASSUME NEW h \in left', AsCarried(h.nUuid),
                    h \in localSubscribers'[TopicOf(h)]
             PROVE  \E u \in Threads : /\ call'[u].op = "remove"
                                       /\ call'[u].topic = TopicOf(h)
                                       /\ h \in call'[u].who
  BY DEF Removed, AsCarried, TopicOf
<1> DEFINE Going == \E u \in Threads : /\ call'[u].op = "remove"
                                       /\ call'[u].topic = TopicOf(h)
                                       /\ h \in call'[u].who
<1>0. h \in Subscription /\ TopicOf(h) \in Topic
  BY StepTypes, Subscriptions DEF TypeOK
<1>1. ASSUME h \in left, h \in localSubscribers[TopicOf(h)],
             \A u \in Threads :
                 call'[u] = call[u] \/ call[u].op # "remove"
      PROVE  Going
  BY <1>1 DEF Removed
<1>2. ASSUME NEW t \in Threads, NEW g \in Subscription, Subscribe(t, g)
      PROVE  Going
  <2>1. h \in left /\ h \in made /\ g # h /\ call' = call
    BY <1>2 DEF Subscribe, TypeOK
  <2>2. h \in localSubscribers[TopicOf(h)]
    BY <1>0, <1>2, <2>1 DEF Subscribe, TypeOK
  <2> QED
    BY <1>1, <2>1, <2>2
<1>3. ASSUME NEW t \in Threads, NEW g \in Subscription,
             NEW hs \in SUBSET Subscription,
             Unsubscribe(t, g.nUuid, g.name, hs)
      PROVE  Going
  <2>1. CASE h \in left
    <3>1. /\ localSubscribers' = localSubscribers
          /\ \A u \in Threads : call'[u] = call[u] \/ call[u].op # "remove"
      BY <1>3 DEF Unsubscribe, Goto, Idle, TypeOK
    <3> QED
      BY <1>1, <2>1, <3>1
  <2>2. CASE h \notin left
    BY <1>3, <2>2, Leaves
  <2> QED
    BY <2>1, <2>2
<1>4. ASSUME NEW t \in Threads, RemoveHandlers(t)
      PROVE  Going
  <2>1. /\ left' = left
        /\ call[t].op = "remove"
        /\ \A u \in Threads : u # t => call'[u] = call[u]
        /\ localSubscribers' =
               [localSubscribers EXCEPT ![call[t].topic] = @ \ call[t].who]
    BY <1>4 DEF RemoveHandlers, Goto, TypeOK
  <2>2. h \in localSubscribers[TopicOf(h)]
    BY <1>0, <2>1 DEF TypeOK
  <2>3. PICK u \in Threads : /\ call[u].op = "remove"
                             /\ call[u].topic = TopicOf(h)
                             /\ h \in call[u].who
    BY <2>1, <2>2 DEF Removed
  <2>4. u # t
    BY <1>0, <2>1, <2>3 DEF TypeOK
  <2> QED
    BY <2>1, <2>3, <2>4
<1>5. ASSUME NEW t \in Threads, NEW op \in {"push", "trigger"},
             Publish(t, op)
      PROVE  Going
  <2>1. /\ left' = left /\ localSubscribers' = localSubscribers
        /\ \A u \in Threads : call'[u] = call[u] \/ call[u].op # "remove"
    BY <1>5 DEF Publish, Goto, Idle, TypeOK
  <2> QED
    BY <1>1, <2>1
<1>6. ASSUME NEW t \in Threads, Push(t)
      PROVE  Going
  <2>1. /\ left' = left /\ localSubscribers' = localSubscribers
        /\ \A u \in Threads : call'[u] = call[u] \/ call[u].op # "remove"
    BY <1>6 DEF Push, Goto, TypeOK
  <2> QED
    BY <1>1, <2>1
<1>7. ASSUME NEW t \in Threads, NEW g \in Subscription, TriggerCallback(t, g)
      PROVE  Going
  <2>1. left' = left /\ localSubscribers' = localSubscribers
    BY <1>7 DEF TriggerCallback
  <2>2. \A u \in Threads : call'[u] = call[u] \/ call[u].op # "remove"
    BY <1>7, CallbackStep
  <2> QED
    BY <1>1, <2>1, <2>2
<1>8. CASE UNCHANGED <<localSubscribers, left, call>>
  BY <1>1, <1>8
<1> QED
  BY <1>2, <1>3, <1>4, <1>5, <1>6, <1>7, <1>8, Steps
     DEF Take, PublishThreadCallback, Delivered, vars

LEMMA QuietKept ==
    ASSUME TypeOK, Placed, Removed, Quiet, [Next]_vars
    PROVE  Quiet'
<1> SUFFICES ASSUME NEW h \in left', h \notin raced', AsCarried(h.nUuid)
             PROVE  /\ \A u \in Threads : h \notin Sending(u)'
                    /\ \A i \in DOMAIN pubQueue' :
                          h \notin pubQueue'[i].handlers
  BY DEF Quiet, AsCarried, TopicOf
<1> DEFINE Hushed == /\ \A u \in Threads : h \notin Sending(u)'
                     /\ \A i \in DOMAIN pubQueue' :
                           h \notin pubQueue'[i].handlers
<1>0. ASSUME h \in left, h \notin raced
      PROVE  /\ \A u \in Threads : h \notin Sending(u)
             /\ \A i \in DOMAIN pubQueue : h \notin pubQueue[i].handlers
  BY <1>0 DEF Quiet
<1>1. ASSUME NEW t \in Threads, NEW g \in Subscription, Subscribe(t, g)
      PROVE  Hushed
  BY <1>0, <1>1 DEF Subscribe, Sending
<1>2. ASSUME NEW t \in Threads, NEW g \in Subscription,
             NEW hs \in SUBSET Subscription,
             Unsubscribe(t, g.nUuid, g.name, hs)
      PROVE  Hushed
  <2>1. /\ \A u \in Threads : u # t => call'[u] = call[u]
        /\ call'[t].op = "remove"
        /\ h \notin raced
    BY <1>2 DEF Unsubscribe, Goto, TypeOK
  <2>2. DOMAIN pubQueue' = DOMAIN pubQueue
    BY <1>2, PurgedQueue
  <2>3. \A i \in DOMAIN pubQueue :
            pubQueue'[i].handlers \subseteq pubQueue[i].handlers
    BY <1>2, PurgedQueue
  <2>4. CASE h \in left
    BY <1>0, <2>1, <2>2, <2>3, <2>4 DEF Sending
  <2>5. CASE h \notin left
    <3>1. /\ h \in Who(g.nUuid, hs)
          /\ SameTopic(TopicOf(h), g.nUuid, g.name)
          /\ \A u \in Threads : h \notin Sending(u)
      BY <1>2, <2>5, Leaves
    <3>2. ASSUME NEW i \in DOMAIN pubQueue, h \in pubQueue'[i].handlers
          PROVE  FALSE
      <4>1. pubQueue[i].msg.topic = TopicOf(h)
        BY <2>3, <3>2 DEF Placed, QueueHeld, Held
      <4>2. SameTopic(pubQueue[i].msg.topic, g.nUuid, g.name)
        BY <3>1, <4>1
      <4>3. pubQueue'[i].handlers = pubQueue[i].handlers \ Who(g.nUuid, hs)
        BY <1>2, <4>2, PurgedQueue
      <4> QED
        BY <3>1, <3>2, <4>3
    <3> QED
      BY <2>1, <2>2, <3>1, <3>2 DEF Sending
  <2> QED
    BY <2>4, <2>5
<1>3. ASSUME NEW t \in Threads, RemoveHandlers(t)
      PROVE  Hushed
  <2>1. /\ \A u \in Threads : u # t => call'[u] = call[u]
        /\ call'[t].op = "idle"
        /\ UNCHANGED <<pubQueue, left, raced>>
    BY <1>3 DEF RemoveHandlers, Goto, Idle, TypeOK
  <2> QED
    BY <1>0, <2>1 DEF Sending
<1>4. ASSUME NEW t \in Threads, NEW op \in {"push", "trigger"},
             Publish(t, op)
      PROVE  Hushed
  <2>1. PICK msg \in Message : Sends(t, op, msg)
    BY <1>4, PublishStep
  <2>2. /\ left' = left /\ pubQueue' = pubQueue
        /\ raced' = raced \union
               {g \in localSubscribers[Publishes[t].topic] \intersect left :
                   \E u \in Threads : g \in Leaving(u)}
    BY <1>4 DEF Publish
  <2>3. ASSUME h \in localSubscribers[msg.topic]
        PROVE  FALSE
    <3>1. TopicOf(h) = msg.topic /\ msg.topic = Publishes[t].topic
      BY <2>1, <2>3 DEF Sends, Placed, Stored
    <3>2. PICK u \in Threads : h \in Leaving(u)
      BY <2>2, <2>3, <3>1 DEF Removed, Leaving
    <3>3. h \notin localSubscribers[Publishes[t].topic]
      BY <2>2, <3>2
    <3> QED
      BY <2>3, <3>1, <3>3
  <2>4. \A u \in Threads : u # t => call'[u] = call[u]
    BY <2>1 DEF Sends
  <2>5. h \notin Sending(t)'
    BY <2>1, <2>3 DEF Sends, Sending, Idle
  <2> QED
    BY <1>0, <2>2, <2>4, <2>5 DEF Sending
<1>5. ASSUME NEW t \in Threads, Push(t)
      PROVE  Hushed
  <2>1. /\ left' = left /\ raced' = raced
    BY <1>5 DEF Push
  <2>2. /\ \A u \in Threads : u # t => call'[u] = call[u]
        /\ call'[t].op = "idle"
        /\ Sending(t) = call[t].delivery.handlers
    BY <1>5, PushStep DEF Idle, Sending
  <2>3. \A i \in DOMAIN pubQueue' :
            \/ i \in DOMAIN pubQueue /\ pubQueue'[i] = pubQueue[i]
            \/ pubQueue'[i] = call[t].delivery
    BY <1>5, PushStep, QueueTypes
  <2> QED
    BY <1>0, <2>1, <2>2, <2>3 DEF Sending
<1>6. ASSUME NEW t \in Threads, NEW g \in Subscription, TriggerCallback(t, g)
      PROVE  Hushed
  <2>1. UNCHANGED <<pubQueue, left, raced>>
    BY <1>6 DEF TriggerCallback
  <2>2. \A u \in Threads : Sending(u)' \subseteq Sending(u)
    BY <1>6, CallbackStep DEF Sending, Idle
  <2> QED
    BY <1>0, <2>1, <2>2
<1>7. CASE Take
  <2>1. UNCHANGED <<call, left, raced>>
    BY <1>7 DEF Take
  <2>2. \A i \in DOMAIN pubQueue' :
            i + 1 \in DOMAIN pubQueue /\ pubQueue'[i] = pubQueue[i + 1]
    BY <1>7, TakeStep, QueueTypes
  <2> QED
    BY <1>0, <2>1, <2>2 DEF Sending
<1>8. CASE UNCHANGED <<pubQueue, call, left, raced>>
  BY <1>0, <1>8 DEF Sending
<1> QED
  BY <1>1, <1>2, <1>3, <1>4, <1>5, <1>6, <1>7, <1>8, Steps
     DEF PublishThreadCallback, Delivered, vars

(***************************************************************************)
(* The theorems.                                                           *)
(***************************************************************************)
IInv ==
    TypeOK /\ Placed /\ Ordered /\ DueHeard /\ NoneLost /\ Removed /\ Quiet

LEMMA Inductive == Spec => []IInv
<1>1. Init => IInv
  BY InitTypes, InitPlaced, InitOrdered, InitNoneLost, InitQuiet DEF IInv
<1>2. IInv /\ [Next]_vars => IInv'
  BY StepTypes, PlacedKept, OrderedKept, DueHeardKept, NoneLostKept,
     RemovedKept, QuietKept DEF IInv
<1> QED
  BY <1>1, <1>2, PTL DEF Spec

\* Whatever threads publish, subscribe and unsubscribe at the same time, a
\* handler runs once and in order for the messages that a thread sends it in
\* the same way, and loses none before it is asked to go (Node.cc:399-559,
\* NodeShared.cc:1733-1826).
THEOREM OnceInOrder == Spec => []AllInOrder
<1>1. IInv => AllInOrder
  BY DEF IInv, AllInOrder, Ordered
<1> QED
  BY <1>1, Inductive, PTL

\* Purging the queue before the storage is enough for Unsubscribe to leave no
\* message for the handler in the queue, on a node whose topics are written as
\* messages carry them, but for one that was published at the same time
\* (NodeShared.cc:2086-2131, 2244-2322).
THEOREM NoneAfter == Spec => []Silenced
<1>1. IInv => Silenced
  BY DEF IInv, Quiet, Silenced
<1> QED
  BY <1>1, Inductive, PTL

\* On such a node, a handler whose Unsubscribe has returned is stored no more:
\* what a node that remaps its topics cannot rely on (NodeShared.cc:2086-2131).
THEOREM UnsubscribedUnlessRemapped ==
    Spec => []((\A node \in Node : AsCarried(node)) => Unsubscribed)
<1>1. IInv => ((\A node \in Node : AsCarried(node)) => Unsubscribed)
  <2> SUFFICES ASSUME IInv, \A node \in Node : AsCarried(node),
                      NEW h \in left, \A t \in Threads : h \notin Leaving(t),
                      h \in localSubscribers[TopicOf(h)]
               PROVE  FALSE
    BY DEF Unsubscribed
  <2>1. h.nUuid \in Node
    BY Subscriptions DEF IInv, TypeOK
  <2> QED
    BY <2>1 DEF IInv, Removed, Leaving
<1> QED
  BY <1>1, Inductive, PTL
=============================================================================
