--------------------------- MODULE ZenohServices ----------------------------
(***************************************************************************)
(* Service requests over Zenoh (src/src/NodeShared.cc, Discovery.hh,       *)
(* RepHandler.cc, ReqHandler.cc, detail/Node.hh): a service, a process     *)
(* that makes requests and one that has its responders, one at a time.     *)
(*                                                                         *)
(* A responder is a queryable and a liveliness token, which its handler's  *)
(* destructor leaves a thread of its own to undeclare.  The requesting     *)
(* process fires a query for every request that is pending when it knows   *)
(* of a responder.  Zenoh calls back with the reply, if there is one, and  *)
(* then once more when the query is over, answered or timed out.  Its      *)
(* threads do not take NodeShared's mutex to give a caller the reply.      *)
(***************************************************************************)
EXTENDS Naturals, Sequences, FiniteSets

CONSTANTS
    Request,        \* requests users may make, each once
    MaxOffers,      \* bound on the responders there ever are
    MaxFailures     \* bound on the queries that could not be fired

VARIABLES
    \* The responders' process.
    offers,         \* responders ever advertised
    srvOffered,        \* the one in repliers, or 0
    queryables,     \* those whose queryable and token are declared
    arrived,        \* queries that reached a queryable
    serving,        \* the responder that runs each, or 0
    served,         \* results of the executions of each request
    \* Under way.
    srvNews,        \* liveliness samples
    replies,        \* requests whose reply is
    \* The requesting process.
    srvKnown,       \* whether srvDiscovery knows a responder
    connecting,     \* whether it has yet to call OnNewSrvConnection
    srvQueue,       \* how much the service thread has to do
    srvMutex,       \* requests whose caller holds NodeShared's mutex
    stored,         \* NodeShared's requests
    requested,      \* IReqHandler::Requested
    query,          \* each query: "none", "open", "replied", "over"
    available,      \* IReqHandler::repAvailable
    call,           \* where each caller is
    answers,        \* results each request was given
    failures

offervars == <<offers, srvOffered, queryables>>
servervars == <<offervars, arrived, serving, served>>
discoveryvars == <<srvNews, srvKnown, connecting, srvQueue>>
callvars == <<srvMutex, available, call, answers>>
requestvars == <<stored, requested, query, failures>>
zsrvvars == <<servervars, replies, discoveryvars, callvars, requestvars>>

SrvFree == {}

ZenohSrvInit ==
    /\ offers = 0 /\ srvOffered = 0 /\ queryables = {}
    /\ arrived = {} /\ serving = [r \in Request |-> 0]
    /\ served = [r \in Request |-> <<>>]
    /\ srvNews = <<>> /\ replies = {}
    /\ srvKnown = FALSE /\ connecting = FALSE /\ srvQueue = 0
    /\ srvMutex = SrvFree /\ stored = {} /\ requested = {}
    /\ query = [r \in Request |-> "none"]
    /\ available = {} /\ failures = 0
    /\ call = [r \in Request |-> "new"]
    /\ answers = [r \in Request |-> <<>>]

(***************************************************************************)
(* Responders.  A node's tokens for the service are one and the same:      *)
(* others hear of the first and of the end of the last.                    *)
(***************************************************************************)
AdvertiseSrv ==
    /\ srvOffered = 0 /\ offers < MaxOffers
    /\ offers' = offers + 1 /\ srvOffered' = offers'
    /\ queryables' = queryables \union {offers'}
    /\ srvNews' = IF queryables = {} THEN Append(srvNews, "PUT") ELSE srvNews
    /\ UNCHANGED <<arrived, serving, served, replies, srvKnown, connecting,
                   srvQueue, callvars, requestvars>>

UnadvertiseSrv ==
    /\ srvOffered # 0
    /\ srvOffered' = 0
    /\ UNCHANGED <<offers, queryables, arrived, serving, served, replies,
                   discoveryvars, callvars, requestvars>>

HandlerAlive(n) == n = srvOffered \/ \E r \in Request : serving[r] = n

\* The thread that the destructor of IRepHandlerPrivate starts.
DestroyQueryable(n) ==
    /\ n \in queryables /\ ~ HandlerAlive(n)
    /\ queryables' = queryables \ {n}
    /\ srvNews' = IF queryables' # {} THEN srvNews
                  ELSE Append(srvNews, "DELETE")
    /\ UNCHANGED <<offers, srvOffered, arrived, serving, served, replies,
                   srvKnown, connecting, srvQueue, callvars, requestvars>>

(***************************************************************************)
(* CreateZenohQueriable: a query reaches one queryable.  There is no reply *)
(* when the handler is gone, nor when the service call fails.              *)
(***************************************************************************)
OnQuery(r, n) ==
    /\ query[r] = "open" /\ r \notin arrived /\ n \in queryables
    /\ arrived' = arrived \union {r}
    /\ serving' = IF HandlerAlive(n) THEN [serving EXCEPT ![r] = n]
                  ELSE serving
    /\ UNCHANGED <<offervars, served, replies, discoveryvars, callvars,
                   requestvars>>

RunSrvCallback(r, result) ==
    /\ serving[r] # 0
    /\ serving' = [serving EXCEPT ![r] = 0]
    /\ served' = [served EXCEPT ![r] = Append(@, result)]
    /\ replies' = IF result THEN replies \union {r} ELSE replies
    /\ UNCHANGED <<offervars, arrived, discoveryvars, callvars, requestvars>>

(***************************************************************************)
(* SendPendingRemoteReqs.  A query that could not be fired leaves its      *)
(* request pending, for the next responder.                                *)
(***************************************************************************)
SendPendingRemoteReqs(pending) ==
    LET unsent == pending \ requested IN
    \E failed \in SUBSET unsent :
        LET fired == unsent \ failed IN
        /\ failures' = failures + Cardinality(failed)
        /\ failures' <= MaxFailures
        /\ requested' = requested \union fired
        /\ query' = [r \in Request |->
                         IF r \in fired THEN "open" ELSE query[r]]
        /\ arrived' = arrived \ fired
        /\ stored' = pending \ {r \in unsent : r.oneWay}

(***************************************************************************)
(* Callers.  One that blocks holds the mutex until it sleeps.              *)
(***************************************************************************)
Ask(r) ==
    /\ call[r] = "new" /\ srvMutex = SrvFree
    /\ call' = [call EXCEPT ![r] = IF r.blocking THEN "test" ELSE "sent"]
    /\ srvMutex' = IF r.blocking THEN {r} ELSE SrvFree
    /\ IF srvKnown THEN SendPendingRemoteReqs(stored \union {r})
       ELSE /\ stored' = stored \union {r}
            /\ UNCHANGED <<requested, query, failures, arrived>>
    /\ UNCHANGED <<offervars, serving, served, replies, discoveryvars,
                   available, answers>>

Return(r) ==
    /\ call' = [call EXCEPT ![r] = IF r \in available THEN "answered"
                                  ELSE "failed"]
    /\ stored' = stored \ {r}
    /\ srvMutex' = SrvFree
    /\ UNCHANGED <<servervars, replies, discoveryvars, available, answers,
                   requested, query, failures>>

Step(r, to, holder) ==
    /\ call' = [call EXCEPT ![r] = to]
    /\ srvMutex' = holder
    /\ UNCHANGED <<servervars, replies, discoveryvars, available, answers,
                   requestvars>>

\* WaitUntil: the predicate, and then the sleep, which a notification that
\* comes in between does not end.
Test(r) ==
    /\ call[r] = "test"
    /\ IF r \in available THEN Return(r) ELSE Step(r, "tested", {r})

Sleep(r) == call[r] = "tested" /\ Step(r, "asleep", SrvFree)

Wake(r) == call[r] = "awake" /\ srvMutex = SrvFree /\ Return(r)

TimeOut(r) == call[r] = "asleep" /\ srvMutex = SrvFree /\ Return(r)

Caller(r) == Test(r) \/ Sleep(r) \/ Wake(r) \/ TimeOut(r)

(***************************************************************************)
(* The end of a query.  The reply finds the handler if it is stored, or if *)
(* the caller still waits.                                                 *)
(***************************************************************************)
Waits(r) == call[r] \in {"test", "tested", "asleep", "awake"}

OnReply(r) ==
    /\ query[r] = "open" /\ r \in replies
    /\ query' = [query EXCEPT ![r] = "replied"]
    /\ replies' = replies \ {r}
    /\ IF r \in stored \/ Waits(r)
       THEN /\ answers' = [answers EXCEPT ![r] = Append(@, TRUE)]
            /\ available' = available \union {r}
            /\ call' = IF call[r] = "asleep"
                       THEN [call EXCEPT ![r] = "awake"] ELSE call
       ELSE UNCHANGED <<answers, available, call>>
    /\ UNCHANGED <<servervars, discoveryvars, srvMutex, stored, requested,
                   failures>>

\* Once there will be no reply, or after Zenoh's timeout.
OnDone(r) ==
    /\ query[r] \in {"open", "replied"} /\ srvMutex = SrvFree
    /\ query' = [query EXCEPT ![r] = "over"]
    /\ stored' = stored \ {r}
    /\ UNCHANGED <<servervars, replies, discoveryvars, callvars, requested,
                   failures>>

(***************************************************************************)
(* Discovery, and the service thread.                                      *)
(***************************************************************************)
LivelinessSrvDataHandler ==
    /\ srvNews # <<>> /\ ~ connecting
    /\ srvNews' = Tail(srvNews)
    /\ srvKnown' = (Head(srvNews) = "PUT")
    /\ connecting' = (Head(srvNews) = "PUT" /\ ~ srvKnown)
    /\ UNCHANGED <<servervars, replies, srvQueue, callvars, requestvars>>

OnNewSrvConnection ==
    /\ connecting /\ srvMutex = SrvFree
    /\ connecting' = FALSE
    /\ srvQueue' = IF stored # {} THEN srvQueue + 1 ELSE srvQueue
    /\ UNCHANGED <<servervars, replies, srvNews, srvKnown, callvars,
                   requestvars>>

ServiceThread ==
    /\ srvQueue > 0 /\ srvMutex = SrvFree
    /\ srvQueue' = srvQueue - 1
    /\ IF srvKnown THEN SendPendingRemoteReqs(stored)
       ELSE UNCHANGED <<arrived, requestvars>>
    /\ UNCHANGED <<offervars, serving, served, replies, srvNews, srvKnown,
                   connecting, callvars>>

\* What goes on by itself once it has begun.
ContinueSrv ==
    \/ \E r \in Request : Caller(r) \/ OnDone(r)
    \/ LivelinessSrvDataHandler \/ OnNewSrvConnection \/ ServiceThread

ZenohSrvNext ==
    \/ AdvertiseSrv \/ UnadvertiseSrv
    \/ \E n \in queryables : DestroyQueryable(n)
    \/ \E r \in Request :
          \/ Ask(r) \/ OnReply(r)
          \/ \E n \in queryables : OnQuery(r, n)
          \/ \E result \in BOOLEAN : RunSrvCallback(r, result)
    \/ ContinueSrv

ZenohSrvSpec == ZenohSrvInit /\ [][ZenohSrvNext]_zsrvvars

(***************************************************************************)
(* Properties.                                                             *)
(***************************************************************************)
Status == [r \in Request |-> IF call[r] = "sent" \/ Waits(r) THEN "open"
                            ELSE call[r]]

\* Requests over Zenoh keep the promises of Calls: each is served at most
\* once, whoever fires it, the caller or the service thread, and however
\* often responders come back; an answer is that of the service
\* (SendPendingRemoteReqs, NodeShared.cc:1036-1066; ReqHandler.cc:95-187).
ServiceCalls == INSTANCE Calls WITH status <- Status

\* In the end callers that block have returned, requests that were fired
\* have left the storage, answered or not, and none waits there that a known
\* responder could serve, unless queries fail (NodeShared.cc:1039-1056,
\* 1182-1227).
Settled ==
    <>[](\A r \in Request :
            /\ ~ Waits(r)
            /\ r \in stored =>
                   r \notin requested /\ (~ srvKnown \/ failures > 0))
=============================================================================
