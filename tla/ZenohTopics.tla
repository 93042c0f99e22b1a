---------------------------- MODULE ZenohTopics -----------------------------
(***************************************************************************)
(* Messages over Zenoh (src/src/NodeShared.cc, Discovery.hh,               *)
(* SubscriptionHandler.cc): a topic, a process that subscribes and one     *)
(* that publishes.                                                         *)
(*                                                                         *)
(* Each handler of the subscribing process declares a liveliness token,    *)
(* which is how publishers hear of it.  All of them share one Zenoh        *)
(* subscriber, declared for the first handler and undeclared after the     *)
(* last one.  To undeclare a subscriber is to wait for the end of its      *)
(* callbacks, which take NodeShared's mutex, or may themselves be what     *)
(* unsubscribes; the code leaves it to a thread of its own.  Until that is *)
(* done, an old subscriber and a new one may get the same samples.         *)
(*                                                                         *)
(* Zenoh calls back from a thread of its own; a sample goes to the         *)
(* subscribers declared when it arrives, one after another.                *)
(***************************************************************************)
EXTENDS Naturals, Sequences, FiniteSets, SequencesExt

CONSTANTS
    ZHandler,            \* subscriptions users may make, each once
    NodeOf, TypeOf,     \* the node and the type of each
    User,               \* threads of users
    MaxPut              \* bound on the messages published

ASSUME PutAssumption == MaxPut \in Nat

ZenohThread == "zenoh"
Thread == User \union {ZenohThread}
Free == "free"
Nobody == "nobody"
Detached == "detached"

VARIABLES
    \* The subscribing process.
    made,           \* handlers ever made
    handlers,       \* NodeShared::localSubscribers
    tokens,         \* handlers whose token is declared
    doing,          \* what each thread has to finish: a call of a user
    mutex,          \* who holds NodeShared::mutex between two actions
    subscribers,    \* every ZenohTopicSubscription ever made
    current,        \* zenohSubscribers: the one of the topic, or 0
    jobs,           \* subscribers the sample that came has yet to go to
    step,           \* where the callback of the first of them is
    taken,          \* HandlerInfo: the handlers the callback holds
    pending,        \* those among them it has yet to run
    ran,            \* messages each handler was run with
    \* Under way.
    zNet,           \* messages
    news,           \* liveliness samples
    \* The publishing process.
    stage,          \* how far the constructor of NodeShared is
    remote,         \* msgDiscovery's remoteSubscribers: nodes
    put             \* messages published

zenohvars == <<made, handlers, tokens, doing, mutex, subscribers, current,
               jobs, step, taken, pending, ran, zNet, news, stage, remote,
               put>>
callbackvars == <<jobs, step, taken, pending, ran>>
publishervars == <<stage, remote, put>>

ZIdle == [op |-> "none", handlers |-> {}]

ZenohInit ==
    /\ made = {} /\ handlers = {} /\ tokens = {}
    /\ doing = [t \in Thread |-> ZIdle]
    /\ mutex = Free
    /\ subscribers = <<>> /\ current = 0
    /\ jobs = <<>> /\ step = "test" /\ taken = {} /\ pending = {}
    /\ ran = [h \in ZHandler |-> <<>>]
    /\ zNet = <<>> /\ news = <<>>
    /\ stage = "off" /\ remote = {} /\ put = 0

(***************************************************************************)
(* Liveliness tokens.  Handlers of the same node and type have the same    *)
(* token, which is there as long as one of them declares it.               *)
(***************************************************************************)
Token(h) == [node |-> NodeOf[h], type |-> TypeOf[h]]
Alive(hs) == {Token(h) : h \in hs}

Samples(kind, ts) ==
    SetToSeq({[kind |-> kind, token |-> token] : token \in ts})

\* The tokens become those of hs, which publishers are told.
Declare(hs) ==
    /\ tokens' = hs
    /\ news' = IF stage = "on"
               THEN news \o Samples("PUT", Alive(hs) \ Alive(tokens))
                         \o Samples("DELETE", Alive(tokens) \ Alive(hs))
               ELSE news

(***************************************************************************)
(* The subscribing process: calls of users.                                *)
(***************************************************************************)
\* The token is declared when the handler is made, before the mutex is taken.
MakeHandler(u, h) ==
    /\ doing[u] = ZIdle /\ h \notin made
    /\ made' = made \union {h}
    /\ doing' = [doing EXCEPT ![u] =
                    [op |-> "subscribe", handlers |-> {h}]]
    /\ Declare(tokens \union {h})
    /\ UNCHANGED <<handlers, mutex, subscribers, current, callbackvars, zNet,
                   publishervars>>

EnsureZenohSubscription ==
    IF current # 0 THEN UNCHANGED <<subscribers, current>>
    ELSE /\ subscribers' = Append(subscribers,
                [active |-> TRUE, state |-> "declared", resetter |-> Nobody])
         /\ current' = Len(subscribers')

ZSubscribe(u) ==
    /\ doing[u].op = "subscribe" /\ mutex = Free
    /\ handlers' = handlers \union doing[u].handlers
    /\ doing' = [doing EXCEPT ![u] = ZIdle]
    /\ EnsureZenohSubscription
    /\ UNCHANGED <<made, tokens, mutex, callbackvars, zNet, news,
                   publishervars>>

\* Mutant: the destructor runs where the entry is erased.
ResetterCaller(t) == t

\* The thread that destroys, and so undeclares, what t retires.
Resetter(t) == Detached

MaybeRemoveZenohSubscription(t) ==
    IF handlers' # {} \/ current = 0
    THEN UNCHANGED <<subscribers, current>>
    ELSE /\ subscribers' = [subscribers EXCEPT
                ![current].active = FALSE,
                ![current].resetter = Resetter(t)]
         /\ current' = 0

\* A callback may unsubscribe, too.
MayCall(t) ==
    /\ doing[t] = ZIdle
    /\ t = ZenohThread => jobs # <<>> /\ step = "run"

\* One handler, by a Subscriber, or all those of a node.
Unsubscribed == {{h} : h \in handlers}
                \union {{g \in handlers : NodeOf[g] = NodeOf[h]} :
                            h \in handlers}

\* A handler that a callback still holds keeps its token.
ZUnsubscribe(t, hs) ==
    /\ MayCall(t) /\ mutex = Free /\ hs \in Unsubscribed
    /\ mutex' = t
    /\ doing' = [doing EXCEPT ![t] =
                    [op |-> "unsubscribe", handlers |-> hs]]
    /\ handlers' = handlers \ hs
    /\ MaybeRemoveZenohSubscription(t)
    /\ Declare(tokens \ (hs \ taken))
    /\ UNCHANGED <<made, callbackvars, zNet, publishervars>>

Unlock(t) ==
    /\ doing[t].op = "unsubscribe"
    /\ \A s \in DOMAIN subscribers :
          subscribers[s].resetter = t => subscribers[s].state = "undeclared"
    /\ mutex' = Free
    /\ doing' = [doing EXCEPT ![t] = ZIdle]
    /\ UNCHANGED <<made, handlers, tokens, subscribers, current,
                   callbackvars, zNet, news, publishervars>>

(***************************************************************************)
(* Undeclaring a Zenoh subscriber: samples that arrive later do not go to  *)
(* it, and it is done when the callbacks that run are.                     *)
(***************************************************************************)
Move(s, from, to) ==
    /\ subscribers[s].state = from
    /\ subscribers' = [subscribers EXCEPT ![s].state = to]
    /\ UNCHANGED <<made, handlers, tokens, doing, mutex, current,
                   callbackvars, zNet, news, publishervars>>

Undeclare(s) ==
    /\ subscribers[s].resetter # Nobody
    /\ Move(s, "declared", "undeclaring")

Undeclared(s) ==
    /\ \A i \in DOMAIN jobs : jobs[i] # s
    /\ Move(s, "undeclaring", "undeclared")

Destroy(s) == Undeclare(s) \/ Undeclared(s)

(***************************************************************************)
(* The callbacks.                                                          *)
(***************************************************************************)
subscribing == <<made, handlers, doing, mutex, subscribers, current>>

Arrive ==
    /\ zNet # <<>> /\ jobs = <<>>
    /\ \E order \in SetToSeqs({s \in DOMAIN subscribers :
                                  subscribers[s].state = "declared"}) :
          jobs' = order
    /\ step' = "test"
    /\ zNet' = IF jobs' = <<>> THEN Tail(zNet) ELSE zNet
    /\ UNCHANGED <<subscribing, tokens, taken, pending, ran, news,
                   publishervars>>

\* The sample stays at the head of net while there are callbacks to run.
NextJob ==
    /\ jobs' = Tail(jobs)
    /\ zNet' = IF Len(jobs) = 1 THEN Tail(zNet) ELSE zNet
    /\ step' = "test" /\ taken' = {}

\* Mutant: what was retired dispatches until it is undeclared.
DispatchesAlways(s) == TRUE

Dispatches(s) == subscribers[s].active

TestActive ==
    /\ jobs # <<>> /\ step = "test"
    /\ IF Dispatches(Head(jobs))
       THEN step' = "take" /\ UNCHANGED <<jobs, zNet, taken>>
       ELSE NextJob
    /\ UNCHANGED <<subscribing, tokens, pending, ran, news, publishervars>>

\* CheckHandlerInfo takes the mutex; the callbacks run without it.
TakeHandlers ==
    /\ jobs # <<>> /\ step = "take" /\ mutex = Free
    /\ step' = "run" /\ taken' = handlers /\ pending' = handlers
    /\ UNCHANGED <<subscribing, tokens, jobs, ran, zNet, news, publishervars>>

RunCallback(h) ==
    /\ h \in pending /\ doing[ZenohThread] = ZIdle
    /\ pending' = pending \ {h}
    /\ ran' = [ran EXCEPT ![h] = Append(@, Head(zNet))]
    /\ UNCHANGED <<subscribing, tokens, jobs, step, taken, zNet, news,
                   publishervars>>

\* The last reference to a handler may go here, and with it the token.
EndCallback ==
    /\ jobs # <<>> /\ step = "run" /\ pending = {}
    /\ doing[ZenohThread] = ZIdle
    /\ NextJob
    /\ Declare(tokens \ (taken \ handlers))
    /\ UNCHANGED <<subscribing, pending, ran, publishervars>>

(***************************************************************************)
(* The publishing process.  When it starts it asks for the tokens there    *)
(* are, and then subscribes to the changes.                                *)
(***************************************************************************)
DrainTokens ==
    /\ stage = "off"
    /\ stage' = "drained"
    /\ remote' = {NodeOf[h] : h \in tokens}
    /\ UNCHANGED <<subscribing, tokens, callbackvars, zNet, news, put>>

\* opts.history: the tokens there are come first.
History == Samples("PUT", Alive(tokens))

StartLiveliness ==
    /\ stage = "drained"
    /\ stage' = "on"
    /\ news' = History
    /\ UNCHANGED <<subscribing, tokens, callbackvars, zNet, remote, put>>

\* DelPublisherByNode: whatever the type was.
LivelinessMsgDataHandler ==
    /\ news # <<>>
    /\ LET sample == Head(news) IN
          remote' = IF sample.kind = "PUT"
                    THEN remote \union {sample.token.node}
                    ELSE remote \ {sample.token.node}
    /\ news' = Tail(news)
    /\ UNCHANGED <<subscribing, tokens, callbackvars, zNet, stage, put>>

Publish ==
    /\ stage = "on" /\ remote # {} /\ put < MaxPut
    /\ put' = put + 1
    /\ zNet' = Append(zNet, put')
    /\ UNCHANGED <<subscribing, tokens, callbackvars, news, stage, remote>>

Callback ==
    \/ TestActive \/ TakeHandlers \/ EndCallback
    \/ \E h \in ZHandler : RunCallback(h)

\* What goes on by itself once it has begun.
Continue ==
    \/ \E u \in User : ZSubscribe(u)
    \/ \E t \in Thread : Unlock(t)
    \/ \E s \in DOMAIN subscribers : Destroy(s)
    \/ Callback

ZenohNext ==
    \/ \E u \in User, h \in ZHandler : MakeHandler(u, h)
    \/ \E t \in Thread, hs \in Unsubscribed : ZUnsubscribe(t, hs)
    \/ Continue \/ Arrive
    \/ DrainTokens \/ StartLiveliness \/ LivelinessMsgDataHandler \/ Publish

ZenohSpec == ZenohInit /\ [][ZenohNext]_zenohvars

(***************************************************************************)
(* Properties.                                                             *)
(***************************************************************************)
ZenohTypeOK ==
    /\ tokens \subseteq made /\ handlers \subseteq tokens
    /\ made \subseteq ZHandler
    /\ mutex \in Thread \union {Free}
    /\ current \in 0..Len(subscribers)
    /\ pending \subseteq taken /\ taken \subseteq tokens
    /\ stage \in {"off", "drained", "on"}
    /\ put \in 0..MaxPut

\* Whoever looks at the process with the mutex finds a Zenoh subscriber if,
\* and only if, there are handlers, and though an old subscriber and a new
\* one may get the same sample, a handler is run once with each message, in
\* the order in which they were published (EnsureZenohSubscription,
\* MaybeRemoveZenohSubscription: NodeShared.cc:1967-2045).
OneSubscription ==
    /\ mutex = Free => (current # 0 <=> handlers # {})
    /\ \A h \in ZHandler :
          \A i, j \in DOMAIN ran[h] : i < j => ran[h][i] < ran[h][j]

\* A publisher that has read the news knows the node of every handler,
\* however the start of its process fell between those of the handlers
\* (NodeShared.cc:308-352), unless the node has given up a handler of
\* another type: that token's end makes it forget the node.
NodesHeard ==
    stage = "on" /\ news = <<>> =>
        \A h \in handlers :
            \/ NodeOf[h] \in remote
            \/ \E g \in made \ tokens :
                  NodeOf[g] = NodeOf[h] /\ TypeOf[g] # TypeOf[h]

\* A node has one Zenoh subscription for each topic it listens to, and a
\* publisher knows the nodes that listen (NodeShared.cc:1967-2044,
\* Discovery.hh:308-503).
ZenohHears == ZenohTypeOK /\ OneSubscription /\ NodesHeard

\* In the end whoever unsubscribes has returned and let others at the mutex,
\* and what was retired is undeclared, though callbacks wait for the mutex,
\* or unsubscribe themselves (NodeShared.cc:2036-2044).
Retires ==
    <>[](/\ mutex = Free
         /\ \A s \in DOMAIN subscribers :
                s # current => subscribers[s].state = "undeclared")
=============================================================================
