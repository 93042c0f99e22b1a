------------------------------- MODULE MCNode -------------------------------
(***************************************************************************)
(* Instances for TLC of what the nodes of a process share.  A run joins    *)
(* scenarios, one module each:                                             *)
(*                                                                         *)
(* LocalPublish.  The nodes "a" and "b" write topics as messages carry     *)
(* them; "b" ignores what it publishes itself, and one handler of "a" is   *)
(* raw.  The node "r" remaps a topic it subscribes to.  Handlers are       *)
(* stored before any message is sent.                                      *)
(*   "order"  all threads publish, to a handler of each node;              *)
(*   "leave"  one user's thread publishes, the other one removes the       *)
(*            handlers of "a", together or one by one.                     *)
(* Nodes.  "n" is in a namespace and remaps a topic to one of "m".         *)
(*   "pubs"   publishers and statistics;                                   *)
(*   "subs"   subscriptions of "n";                                        *)
(*   "both"   subscriptions of both nodes, and their services.             *)
(* TopicStorage.                                                           *)
(*   "store"                                                               *)
(* TopicNames.  There is nothing but the inputs:                           *)
(*   "names"  of a partition, a namespace and a topic;                     *)
(*   "text"   of AsValidTopic.                                             *)
(* Throttling.  "rates"                                                    *)
(* SharedMemory.  "shm"                                                    *)
(* TopicStats.  "counts"                                                   *)
(* NetworkClock.  "clock"                                                  *)
(***************************************************************************)
EXTENDS LocalPublish, Traffic, TLC

CONSTANT Scenarios

VARIABLES
    plan,
    \* of Nodes
    normal, raw, topicsSubscribed, msgInfo, repliers, srvsAdvertised, srvInfo,
    statistics, publishers, subscribers, stage, todo, made_,
    \* of TopicStorage
    data, last,
    \* of TopicNames
    input

nodevars == <<normal, raw, topicsSubscribed, msgInfo, repliers,
              srvsAdvertised, srvInfo, statistics, publishers, subscribers,
              stage, todo, made_>>
storevars == <<data, last>>

(***************************************************************************)
(* LocalPublish.                                                           *)
(***************************************************************************)
A(h) == [name |-> "/t", nUuid |-> "a", hUuid |-> h, raw |-> h = 2,
         ignoreLocal |-> FALSE]
B == [name |-> "/t", nUuid |-> "b", hUuid |-> 3, raw |-> FALSE,
      ignoreLocal |-> TRUE]
R == [name |-> "/old", nUuid |-> "r", hUuid |-> 4, raw |-> FALSE,
      ignoreLocal |-> FALSE]

RemapNames ==
    [n \in Node |-> [name \in Name |->
        IF n = "r" /\ name = "/old" THEN "/t" ELSE name]]
Qualify ==
    [n \in Node |-> [name \in Name |->
        IF name = "/t" THEN "@p@/t" ELSE "@p@/old"]]
Carry == [topic \in Topic |-> IF topic = "@p@/t" THEN "/t" ELSE "/old"]

PublisherOf ==
    [t \in Threads |-> [topic |-> "@p@/t",
                        nUuid |-> IF t = "u2" THEN "b" ELSE "a"]]

Plain == {A(1), A(2), B}
Remapped == {R}

PlannedPublish ==
    /\ made' # made => \A t \in Threads : sent[t] = 0
    /\ CASE plan = "order" ->
                /\ left' = {} /\ A(2) \notin made'
                /\ sent'["u2"] <= 1 /\ sent'["reception"] <= 1
         [] plan = "leave" ->
                /\ sent' # sent => made = Subscription
                /\ sent'["u2"] = 0 /\ sent'["reception"] = 0
                /\ B \notin left'
                /\ left' # left => call'["u1"] = call["u1"]
         [] OTHER -> TRUE

(***************************************************************************)
(* The others.                                                             *)
(***************************************************************************)
T == <<"t">>
U == <<"/", "u">>
V == <<"v">>

Process == INSTANCE Nodes WITH
    Node <- {"n", "m"},
    Options <-
        "n" :> [partition |-> <<"p">>, ns |-> <<"s">>, topicsRemap |-> T :> U]
        @@ "m" :> [partition |-> <<"/", "p">>, ns |-> <<>>,
                   topicsRemap |-> <<>>],
    Name <- {T, U, V}, Service <- {T, V}, StatsTopic <- <<"/", "s">>,
    PubVar <- {"v", "w"}, SubVar <- {"v", "w"},
    MaxMade <- 3, MaxNameLength <- 20, made <- made_

PlannedNodes ==
    CASE plan = "pubs" ->
             /\ normal' = normal /\ raw' = raw /\ repliers' = repliers
      [] plan = "subs" ->
             /\ msgInfo' = msgInfo /\ srvsAdvertised' = srvsAdvertised
             /\ stage'["m"] = "alive" /\ topicsSubscribed'["m"] = {}
      [] plan = "both" ->
             /\ msgInfo' = msgInfo /\ subscribers' = subscribers
      [] OTHER -> TRUE

Store == INSTANCE TopicStorage WITH
    Topic <- {"t", "u"}, Proc <- {"a", "b"}, Node <- {"m", "n"},
    Address <- {"x", "y"}, Type <- {"int", "generic"}, MaxStored <- 3

\* The second topic has publishers of one address and type.
PlannedStore ==
    last'.call = "add" /\ last'.pub.topic = "u" =>
        last'.pub.addr = "x" /\ last'.pub.type = "int"

Names == INSTANCE TopicNames WITH MaxNameLength <- 9

Words(chars, n) == UNION {[1..k -> chars] : k \in 0..n}

NoInput == [partition |-> <<>>, ns |-> <<>>, topic |-> <<>>, text |-> <<>>]

NamesInputs ==
    [partition : Words({"a", "/", "@"}, 2), ns : Words({"a", "/"}, 2),
     topic : Words({"a", "/", "@", "%"}, 3), text : {<<>>}]
TextInputs ==
    {[NoInput EXCEPT !.text = text] :
        text \in Words({"a", " ", "@", ":", "=", "/"}, 4)}

\* Two threads of users share a publisher; the rate of another is 0; one that
\* is throttled has a handler that is; other processes send what may not
\* parse, to handlers in three orders.
Handled(type, isRaw, rate) ==
    [type |-> type, raw |-> isRaw, msgsPerSec |-> rate]
Setup(users, rate, handlers) ==
    [users |-> users, remote |-> users = {}, msgsPerSec |-> rate,
     handlers |-> handlers]
AllSetups ==
    {Setup({"u1", "u2"}, 1, <<>>), Setup({"u1"}, 0, <<>>),
     Setup({"u1"}, 1, <<Handled("T", FALSE, 1)>>)}
        \union {Setup({}, 9, handlers) : handlers \in
            {<<Handled("T", FALSE, 9), Handled("any", FALSE, 9),
               Handled("any", TRUE, 1)>>,
             <<Handled("any", FALSE, 9), Handled("T", FALSE, 1),
               Handled("T", FALSE, 9)>>,
             <<Handled("U", FALSE, 9), Handled("T", FALSE, 1),
               Handled("any", FALSE, 9)>>}}

\* Without handlers, what is published is raw.
PlannedRates ==
    setup.handlers = <<>> =>
        \A t \in setup.users :
            at'[t].op \in {"test", "push"} => at'[t].raw

SenderSkew == "a" :> 0 @@ "b" :> 2

\* "b" publishes less, and loses nothing; statistics stop once.
PlannedCounts ==
    /\ topicPubSeq'["b"] <= 2 /\ Len(net'["a"]) <= 2 /\ Len(net'["b"]) <= 1
    /\ \A i \in DOMAIN fate'["b"] : fate'["b"][i] # "lost"
    /\ enabled /\ ~ enabled' => Len(received) = 1
    /\ ~ enabled /\ enabled' => topicPubSeq["a"] # 1
    /\ clock' # clock => received # <<>> /\ net["a"] = <<>>

ClockBase == "x" :> "sim" @@ "y" :> "sim" @@ "z" :> "real"
ClockTimes == {-3, 1, 6}

(***************************************************************************)
(* The specification.                                                      *)
(***************************************************************************)
MCInit ==
    /\ plan \in Scenarios
    /\ Init /\ Process!NodesInit /\ Store!Init
    /\ ThrottleInit /\ ShmInit /\ StatsInit /\ ClockInit
    /\ plan # "rates" => setup = Setup({"u1"}, 0, <<>>)
    /\ input \in CASE plan = "names" -> NamesInputs
                   [] plan = "text" -> TextInputs
                   [] OTHER -> {NoInput}

othervars == <<throttlevars, shmvars, statsvars, clockvars>>

OthersNext ==
    \/ /\ plan = "rates" /\ ThrottleNext /\ PlannedRates
       /\ UNCHANGED <<shmvars, statsvars, clockvars>>
    \/ /\ plan = "shm" /\ ShmNext
       /\ UNCHANGED <<throttlevars, statsvars, clockvars>>
    \/ /\ plan = "counts" /\ StatsNext /\ PlannedCounts
       /\ UNCHANGED <<throttlevars, shmvars, clockvars>>
    \/ /\ plan = "clock" /\ ClockNext
       /\ UNCHANGED <<throttlevars, shmvars, statsvars>>

MCNext ==
    /\ UNCHANGED <<plan, input>>
    /\ \/ /\ plan \in {"order", "leave", "remap"} /\ Next /\ PlannedPublish
          /\ UNCHANGED <<nodevars, storevars, othervars>>
       \/ /\ plan \in {"pubs", "subs", "both", "stats"}
          /\ Process!NodesNext /\ PlannedNodes
          /\ UNCHANGED <<vars, storevars, othervars>>
       \/ /\ plan = "store" /\ Store!Next /\ PlannedStore
          /\ UNCHANGED <<vars, nodevars, othervars>>
       \/ OthersNext /\ UNCHANGED <<vars, nodevars, storevars>>

MCFairness ==
    /\ \A t \in Threads :
          WF_vars(plan \in {"order", "leave"} /\ Continue(t))
    /\ WF_vars(plan \in {"order", "leave"} /\ PublishThread)

MCSpec ==
    /\ MCInit
    /\ [][MCNext]_<<plan, input, vars, nodevars, storevars, othervars>>
    /\ MCFairness

(***************************************************************************)
(* Properties of the modules, under the names they have there or joined.   *)
(***************************************************************************)

\* What a node remembers to have advertised, what discovery and the storages
\* hold of it and the Publishers and Subscribers users keep agree, and nothing
\* of a node is left when it ends (Nodes; Node.cc:145-155, 701-846).
TablesAgree ==
    Process!NodesTypeOK /\ Process!NodeClean /\ Process!TablesAgree

\* A node that has statistics turned on can publish them (Nodes;
\* Node.cc:1001-1036).
StatsPublished == Process!StatsPublished

\* Each query of TopicStorage answers as the set of stored publishers says
\* (TopicStorage.hh:87-213).
QueriesAgree == Store!TypeOK /\ Store!QueriesAgree

\* TopicStorage adds, deletes and reports its changes like a set of
\* publishers (TopicStorage.hh:52-368).
ImplementsPublisherSet == Store!ImplementsPublisherSet

\* What a node takes a qualified name apart into makes that name again, in its
\* namespace; its token for Zenoh reads back as the name with "/" for each "%",
\* or not at all when that is not valid or the partition is empty; the lists of
\* nodes of its partition have it if and only if the partition was written
\* without a "/" at either end; and AsValidTopic makes a valid topic or none,
\* and leaves a valid one alone (TopicNames; TopicUtils.cc:40-561,
\* Node.cc:873-896).
NamesAgree ==
    LET name ==
            Names!FullyQualifiedName(input.partition, input.ns, input.topic)
    IN  /\ name # Names!Failed =>
              /\ Names!Requalifies(name, input.ns)
              /\ Names!TokenReads(name, FALSE) /\ Names!TokenReads(name, TRUE)
              /\ Names!Lists(input.partition, name)
                     <=> Names!Bare(input.partition)
        /\ Names!MakesTopic(input.text)
=============================================================================
