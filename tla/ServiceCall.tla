---------------------------- MODULE ServiceCall -----------------------------
(***************************************************************************)
(* Service requests between processes (src/src/NodeShared.cc,              *)
(* src/include/gz/transport/detail/Node.hh, ReqHandler.hh), with ZeroMQ.   *)
(*                                                                         *)
(* A request that finds a responder in its process runs it.  Any other one *)
(* is stored as pending, and sent by whoever first knows a responder of    *)
(* its types: the caller, or the service thread, which gets the responders *)
(* that discovery finds by way of a queue.  The reception thread serves    *)
(* the requests of others and takes the answers to those of its process;   *)
(* a caller that blocks gives up after a while.                            *)
(*                                                                         *)
(* NodeShared's mutex is held while the tables are read or changed and     *)
(* while data is sent, but not while responders and callbacks run.  The    *)
(* actions are cut there.  Which responders are known is left to           *)
(* Directory, whose steps are conjuncts of the actions below.              *)
(***************************************************************************)
EXTENDS Publishers, Naturals, Sequences, FiniteSets

CONSTANTS
    Proc, Topic, Node,
    Type,           \* types of request and response, as one
    OneWay,         \* types whose response is Empty: nobody waits for it
    Visible(_, _),  \* whether the scope of a responder lets a process see it
    Offerable,      \* responders users may advertise (bound of the instance)
    Request,        \* requests users may make, each once (same)
    MaxEvents,      \* bound on what happens to responders
    MaxLost         \* bound on messages that could not be sent

Address == [socket : {"replier", "requester"}, proc : Proc]
Publisher == [topic : Topic, addr : Address, pUuid : Proc, nUuid : Node,
              type : Type]

ASSUME TypesAssumption == OneWay \subseteq Type

ASSUME UsersAssumption ==
    /\ Offerable \subseteq {pub \in Publisher :
           pub.addr = [socket |-> "replier", proc |-> pub.pUuid]}
    /\ Request \subseteq [topic : Topic, type : Type, pUuid : Proc, id : Nat,
                          blocking : BOOLEAN]
    /\ \A r \in Request : r.type \in OneWay => ~ r.blocking
    /\ MaxEvents \in Nat /\ MaxLost \in Nat

VARIABLES
    live, offered, rumours, known,  \* see Directory
    gone,               \* processes that crashed; restarted, they are others
    repliers,           \* NodeShared's repliers: the responders' handlers
    srvConnections,     \* NodeShared::srvConnections
    stored,             \* NodeShared's requests, those of all processes
    requested,          \* IReqHandler::Requested
    srvQueue,           \* NodeSharedPrivate::srvQueue
    disc, srv, recv,    \* where the threads are: discovery's, the service
                        \* thread, the reception thread
    call,               \* where the caller of each request is
    net,                \* messages under way
    served,             \* results of the executions of each request
    answers,            \* results the caller of each request was given
    lost,               \* requests with a message that got nowhere
    events              \* how much happened to responders

Dir == INSTANCE Directory

directory == <<live, offered, rumours, known, gone>>
tables == <<repliers, srvConnections, stored, requested, srvQueue>>
vars == <<directory, tables, disc, srv, recv, call, net, served, answers,
          lost, events>>

Message ==
    [kind : {"req"}, req : Request, to : Proc]
        \union [kind : {"rep"}, req : Request, result : BOOLEAN]

Receiver(m) == IF m.kind = "req" THEN m.to ELSE m.req.pUuid

Idle == [op |-> "idle"]

TypeOK ==
    /\ gone \subseteq Proc
    /\ repliers \in [Proc -> SUBSET Publisher]
    /\ srvConnections \in [Proc -> SUBSET Address]
    /\ stored \subseteq Request /\ requested \subseteq Request
    /\ srvQueue \in [Proc -> Seq(Publisher)]
    /\ disc \in [Proc -> {Idle} \union
                         [op : {"connect", "remove"}, pub : Publisher]]
    /\ srv \in [Proc -> {Idle} \union [op : {"send"}, pub : Publisher]]
    /\ recv \in [Proc -> {Idle}
                    \union [op : {"serve", "remove"}, req : Request]
                    \union [op : {"reply", "notify"}, req : Request,
                            result : BOOLEAN]]
    /\ call \in [Request -> {"new", "local", "remote", "waiting", "asked",
                             "answered", "failed"}]
    /\ net \subseteq Message
    /\ served \in [Request -> Seq(BOOLEAN)]
    /\ answers \in [Request -> Seq(BOOLEAN)]
    /\ lost \subseteq Request
    /\ events \in 0..MaxEvents

Init ==
    /\ Dir!Init
    /\ gone = {}
    /\ repliers = [p \in Proc |-> {}]
    /\ srvConnections = [p \in Proc |-> {}]
    /\ stored = {} /\ requested = {}
    /\ srvQueue = [p \in Proc |-> <<>>]
    /\ disc = [p \in Proc |-> Idle]
    /\ srv = [p \in Proc |-> Idle]
    /\ recv = [p \in Proc |-> Idle]
    /\ call = [r \in Request |-> "new"]
    /\ net = {}
    /\ served = [r \in Request |-> <<>>]
    /\ answers = [r \in Request |-> <<>>]
    /\ lost = {}
    /\ events = 0

Matches(pub, r) == pub.topic = r.topic /\ pub.type = r.type

Event ==
    /\ events < MaxEvents
    /\ events' = events + 1

\* What discovery knows, the process's own responders included.
Info(p) == offered[p] \union known[p]

MayFail(reqs) == reqs = {} \/ Cardinality(lost \union reqs) <= MaxLost

\* Mutant: address and socket are swapped.
ConnectedSwapped(p, addr) ==
    [srvConnections EXCEPT ![p] =
        @ \union {[socket |-> addr.proc, proc |-> addr.socket]}]

Connected(p, addr) == [srvConnections EXCEPT ![p] = @ \union {addr}]

(***************************************************************************)
(* Responders, as users and discovery change them.                         *)
(***************************************************************************)
Start(p) ==
    /\ p \notin gone
    /\ Dir!Join(p)
    /\ UNCHANGED <<gone, tables, disc, srv, recv, call, net, served, answers,
                   lost, events>>

\* A process dies, with what it was about to serve or answer.
Crash(p) ==
    /\ Event
    /\ Dir!Leave(p)
    /\ gone' = gone \union {p}
    /\ repliers' = [repliers EXCEPT ![p] = {}]
    /\ srvConnections' = [srvConnections EXCEPT ![p] = {}]
    /\ stored' = {r \in stored : r.pUuid # p}
    /\ srvQueue' = [srvQueue EXCEPT ![p] = <<>>]
    /\ disc' = [disc EXCEPT ![p] = Idle]
    /\ srv' = [srv EXCEPT ![p] = Idle]
    /\ recv' = [recv EXCEPT ![p] = Idle]
    /\ net' = {m \in net : Receiver(m) # p}
    /\ lost' = lost \union {m.req : m \in net \ net'}
                   \union (IF recv[p].op \in {"serve", "reply"}
                           THEN {recv[p].req} ELSE {})
    /\ UNCHANGED <<requested, call, served, answers>>

\* The handler is stored, and discovery told, in one critical section.
Advertise(p, pub) ==
    /\ Event
    /\ pub \notin repliers[p]
    /\ Dir!Offer(p, pub)
    /\ repliers' = [repliers EXCEPT ![p] = @ \union {pub}]
    /\ UNCHANGED <<gone, srvConnections, stored, requested, srvQueue, disc,
                   srv, recv, call, net, served, answers, lost>>

\* The node's handlers of the service go, of all types.
UnadvertiseSrv(p, pub) ==
    /\ Event
    /\ pub \in offered[p]
    /\ Dir!Withdraw(p, pub)
    /\ repliers' = [repliers EXCEPT ![p] =
                       DelPublisherByNode(@, pub.topic, p, pub.nUuid)]
    /\ UNCHANGED <<gone, srvConnections, stored, requested, srvQueue, disc,
                   srv, recv, call, net, served, answers, lost>>

Announce(p) ==
    /\ Dir!Announce(p)
    /\ UNCHANGED <<gone, tables, disc, srv, recv, call, net, served, answers,
                   lost, events>>

\* Discovery stores a responder, releases its mutex, and calls back.
Learn(p, pub) ==
    /\ disc[p] = Idle
    /\ Dir!Learn(p, pub)
    /\ ~ Holds(known[p], pub)
    /\ disc' = [disc EXCEPT ![p] = [op |-> "connect", pub |-> pub]]
    /\ UNCHANGED <<gone, tables, srv, recv, call, net, served, answers, lost,
                   events>>

\* Mutant: the service thread is only woken for requests already sent.
WantedLate(p, pub) == \E r \in requested : r.pUuid = p /\ Matches(pub, r)

\* There is a request of these types, sent or not.
Wanted(p, pub) == \E r \in stored : r.pUuid = p /\ Matches(pub, r)

OnNewSrvConnection(p) ==
    /\ disc[p].op = "connect"
    /\ LET pub == disc[p].pub
       IN  /\ srvConnections' = Connected(p, pub.addr)
           /\ srvQueue' = IF Wanted(p, pub)
                          THEN [srvQueue EXCEPT ![p] = Append(@, pub)]
                          ELSE srvQueue
    /\ disc' = [disc EXCEPT ![p] = Idle]
    /\ UNCHANGED <<directory, repliers, stored, requested, srv, recv, call,
                   net, served, answers, lost, events>>

\* UNADVERTISE arrives, some time after the responder went: the callback runs
\* before discovery forgets it.
OnNewSrvDisconnection(p, pub) ==
    /\ Event
    /\ disc[p] = Idle
    /\ pub \in known[p]
    /\ pub \notin offered[pub.pUuid]
    /\ srvConnections' = [srvConnections EXCEPT ![p] = @ \ {pub.addr}]
    /\ disc' = [disc EXCEPT ![p] = [op |-> "remove", pub |-> pub]]
    /\ UNCHANGED <<directory, repliers, stored, requested, srvQueue, srv, recv,
                   call, net, served, answers, lost>>

Remove(p) ==
    /\ disc[p].op = "remove"
    /\ LET pub == disc[p].pub
       IN  /\ Dir!Forget(p)
           /\ known' = [known EXCEPT ![p] =
                  DelPublisherByNode(@, pub.topic, pub.pUuid, pub.nUuid)]
    /\ disc' = [disc EXCEPT ![p] = Idle]
    /\ UNCHANGED <<gone, tables, srv, recv, call, net, served, answers, lost,
                   events>>

\* A silent process is forgotten.  The callback gets no address: it removes
\* nothing.
Expire(p, proc) ==
    /\ Event
    /\ disc[p] = Idle
    /\ PublishersByProc(known[p], proc) # {}
    /\ Dir!Forget(p)
    /\ known' = [known EXCEPT ![p] = DelPublishersByProc(@, proc)]
    /\ UNCHANGED <<gone, tables, disc, srv, recv, call, net, served, answers,
                   lost>>

(***************************************************************************)
(* Sending the pending requests of a service and its types, with the       *)
(* mutex: "pending" is stored by then.  They are marked before they are    *)
(* sent, and a send that fails, for want of a connection, is not noticed.  *)
(***************************************************************************)
\* Mutant: requests already sent are sent again.
PendingAgain(p, pub, reqs) == {r \in reqs : r.pUuid = p /\ Matches(pub, r)}

Pending(p, pub, reqs) ==
    {r \in reqs \ requested : r.pUuid = p /\ Matches(pub, r)}

SendPendingRemoteReqs(p, pub, reqs) ==
    LET pending == Pending(p, pub, reqs)
    IN  /\ srvConnections' = Connected(p, pub.addr)
        /\ requested' = requested \union pending
        /\ stored' = IF pub.type \in OneWay THEN reqs \ pending ELSE reqs
        /\ \E failed \in SUBSET pending :
              /\ IF pub.pUuid \in live THEN MayFail(failed)
                 ELSE failed = pending
              /\ net' = net \union {[kind |-> "req", req |-> r,
                                     to |-> pub.pUuid] :
                                       r \in pending \ failed}
              /\ lost' = lost \union failed

(***************************************************************************)
(* The caller.                                                             *)
(***************************************************************************)
\* The process's own responders are looked up first ...
AskRequest(r) ==
    /\ r.pUuid \in live
    /\ call[r] = "new"
    /\ call' = [call EXCEPT ![r] =
           IF \E pub \in repliers[r.pUuid] : Matches(pub, r) THEN "local"
           ELSE "remote"]
    /\ UNCHANGED <<directory, tables, disc, srv, recv, net, served, answers,
                   lost, events>>

\* ... and run, without the mutex.
RunLocalCallback(r, result) ==
    /\ r.pUuid \in live
    /\ call[r] = "local"
    /\ served' = [served EXCEPT ![r] = Append(@, result)]
    /\ answers' = [answers EXCEPT ![r] = Append(@, result)]
    /\ call' = [call EXCEPT ![r] = "answered"]
    /\ UNCHANGED <<directory, tables, disc, srv, recv, net, lost, events>>

\* Otherwise the request is stored, and sent if a responder is known.  If none
\* is, discovery asks for one, which has no callback to run yet.
StoreRequest(r) ==
    LET p == r.pUuid
        pubs == {pub \in Info(p) : Matches(pub, r)}
    IN  /\ p \in live
        /\ call[r] = "remote"
        /\ call' = [call EXCEPT ![r] = IF r.blocking THEN "waiting"
                                       ELSE "asked"]
        /\ IF pubs # {}
           THEN \E pub \in pubs :
                   SendPendingRemoteReqs(p, pub, stored \union {r})
           ELSE /\ stored' = stored \union {r}
                /\ UNCHANGED <<srvConnections, requested, net, lost>>
        /\ UNCHANGED <<directory, repliers, srvQueue, disc, srv, recv, served,
                       answers, events>>

\* Mutant: a call that times out leaves its request behind.
WithoutAnswered(r) == IF answers[r] = <<>> THEN stored ELSE stored \ {r}

Without(r) == stored \ {r}

\* A caller that blocks wakes up with an answer, or without one at any time,
\* and removes its request.
Return(r) ==
    /\ r.pUuid \in live
    /\ call[r] = "waiting"
    /\ call' = [call EXCEPT ![r] = IF answers[r] = <<>> THEN "failed"
                                   ELSE "answered"]
    /\ stored' = Without(r)
    /\ UNCHANGED <<directory, repliers, srvConnections, requested, srvQueue,
                   disc, srv, recv, net, served, answers, lost, events>>

(***************************************************************************)
(* The service thread.  It looks for a responder without the mutex, and    *)
(* not for the one that woke it.                                           *)
(***************************************************************************)
SrvTake(p) ==
    /\ srv[p] = Idle
    /\ srvQueue[p] # <<>>
    /\ srvQueue' = [srvQueue EXCEPT ![p] = Tail(@)]
    /\ LET next == Head(srvQueue[p])
           pubs == {pub \in Info(p) : Matches(pub, next)}
       IN  IF pubs = {} THEN UNCHANGED srv
           ELSE \E pub \in pubs :
                   srv' = [srv EXCEPT ![p] = [op |-> "send", pub |-> pub]]
    /\ UNCHANGED <<directory, repliers, srvConnections, stored, requested,
                   disc, recv, call, net, served, answers, lost, events>>

SrvSend(p) ==
    /\ srv[p].op = "send"
    /\ SendPendingRemoteReqs(p, srv[p].pub, stored)
    /\ srv' = [srv EXCEPT ![p] = Idle]
    /\ UNCHANGED <<directory, repliers, srvQueue, disc, recv, call, served,
                   answers, events>>

(***************************************************************************)
(* The reception thread.                                                   *)
(***************************************************************************)
\* A request is taken with the mutex, and dropped if no responder is left ...
RecvSrvRequest(p, m) ==
    /\ recv[p] = Idle
    /\ m \in net /\ m.kind = "req" /\ m.to = p
    /\ net' = net \ {m}
    /\ IF \E pub \in repliers[p] : Matches(pub, m.req)
       THEN /\ recv' = [recv EXCEPT ![p] = [op |-> "serve", req |-> m.req]]
            /\ UNCHANGED lost
       ELSE /\ lost' = lost \union {m.req}
            /\ UNCHANGED recv
    /\ UNCHANGED <<directory, tables, disc, srv, call, served, answers,
                   events>>

\* ... served without it ...
RunCallback(p, result) ==
    /\ recv[p].op = "serve"
    /\ LET r == recv[p].req
       IN  /\ served' = [served EXCEPT ![r] = Append(@, result)]
           /\ recv' = [recv EXCEPT ![p] =
                  IF r.type \in OneWay THEN Idle
                  ELSE [op |-> "reply", req |-> r, result |-> result]]
    /\ UNCHANGED <<directory, tables, disc, srv, call, net, answers, lost,
                   events>>

\* ... and answered, which may fail.
SendReply(p) ==
    /\ recv[p].op = "reply"
    /\ LET r == recv[p].req
           rep == [kind |-> "rep", req |-> r, result |-> recv[p].result]
       IN  /\ srvConnections' =
                  Connected(p, [socket |-> "requester", proc |-> r.pUuid])
           /\ \/ /\ r.pUuid \in live
                 /\ net' = net \union {rep}
                 /\ UNCHANGED lost
              \/ /\ r.pUuid \in live => MayFail({r})
                 /\ lost' = lost \union {r}
                 /\ UNCHANGED net
    /\ recv' = [recv EXCEPT ![p] = Idle]
    /\ UNCHANGED <<directory, repliers, stored, requested, srvQueue, disc, srv,
                   call, served, answers, events>>

\* An answer is taken with the mutex, and dropped if nobody waits for it ...
RecvSrvResponse(p, m) ==
    /\ recv[p] = Idle
    /\ m \in net /\ m.kind = "rep" /\ m.req.pUuid = p
    /\ net' = net \ {m}
    /\ recv' = IF m.req \in stored
               THEN [recv EXCEPT ![p] = [op |-> "notify", req |-> m.req,
                                         result |-> m.result]]
               ELSE recv
    /\ UNCHANGED <<directory, tables, disc, srv, call, served, answers, lost,
                   events>>

\* ... given to the caller without it ...
NotifyResult(p) ==
    /\ recv[p].op = "notify"
    /\ LET r == recv[p].req
       IN  /\ answers' = [answers EXCEPT ![r] = Append(@, recv[p].result)]
           /\ recv' = [recv EXCEPT ![p] = [op |-> "remove", req |-> r]]
    /\ UNCHANGED <<directory, tables, disc, srv, call, net, served, lost,
                   events>>

\* ... and the request removed, if its caller has not done so.
RemoveRequest(p) ==
    /\ recv[p].op = "remove"
    /\ stored' = stored \ {recv[p].req}
    /\ recv' = [recv EXCEPT ![p] = Idle]
    /\ UNCHANGED <<directory, repliers, srvConnections, requested, srvQueue,
                   disc, srv, call, net, served, answers, lost, events>>

(***************************************************************************)
(* The specification.                                                      *)
(***************************************************************************)
Responders(p) ==
    \/ Start(p)
    \/ Crash(p)
    \/ Announce(p)
    \/ \E pub \in Offerable :
          \/ Advertise(p, pub) /\ pub.pUuid = p
          \/ UnadvertiseSrv(p, pub) /\ pub.pUuid = p
          \/ Learn(p, pub)
          \/ OnNewSrvDisconnection(p, pub)
    \/ \E proc \in Proc : Expire(p, proc)

DiscStep(p) == OnNewSrvConnection(p) \/ Remove(p)

SrvStep(p) == SrvTake(p) \/ SrvSend(p)

RecvStep(p) ==
    \/ \E m \in net : RecvSrvRequest(p, m) \/ RecvSrvResponse(p, m)
    \/ \E result \in BOOLEAN : RunCallback(p, result)
    \/ SendReply(p)
    \/ NotifyResult(p)
    \/ RemoveRequest(p)

CallStep(r) ==
    \/ \E result \in BOOLEAN : RunLocalCallback(r, result)
    \/ StoreRequest(r)

Next ==
    \/ \E p \in Proc :
          Responders(p) \/ DiscStep(p) \/ SrvStep(p) \/ RecvStep(p)
    \/ \E r \in Request : AskRequest(r) \/ CallStep(r) \/ Return(r)

\* Threads inside an operation go on: responders and callbacks are assumed to
\* return.  A caller may give up, or be late to.
Fairness ==
    /\ \A p \in Proc :
          WF_vars(DiscStep(p)) /\ WF_vars(SrvStep(p)) /\ WF_vars(RecvStep(p))
    /\ \A r \in Request : WF_vars(CallStep(r))

Spec == Init /\ [][Next]_vars /\ Fairness

(***************************************************************************)
(* Properties.                                                             *)
(***************************************************************************)
\* What the caller of a request sees of it.
Status == [r \in Request |->
               IF call[r] \in {"local", "remote", "waiting", "asked"}
               THEN "open" ELSE call[r]]

Promise == INSTANCE Calls WITH status <- Status

\* Although two threads of the caller send what is pending, responders come
\* and go, and a caller may have given up: a request is executed at most once,
\* and its caller gets the result of that execution, at most once.
ImplementsCalls == Promise!Spec

\* The table of requests does not grow: a request leaves it with its answer,
\* or when its caller gives up, whichever is first.
NoneLeft ==
    \A r \in stored :
        /\ call[r] \in {"waiting", "asked"}
        /\ answers[r] # <<>> =>
               recv[r.pUuid] = [op |-> "remove", req |-> r]

\* A request does not stay pending or unanswered while a responder of another
\* process is known, unless a message of it was lost.
Replied ==
    \A r \in Request :
        []<>(\/ r \notin stored
             \/ r \in lost
             \/ \A pub \in known[r.pUuid] : ~ Matches(pub, r))
=============================================================================
