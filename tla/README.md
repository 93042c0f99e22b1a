# A TLA+ verification of gz-transport

This directory models the protocols and the concurrency of gz-transport: TLA+
modules translated from the C++ source, TLC configurations that check them on
small instances, and proofs that TLAPS checks for every instance. Source paths
below are relative to the repository; `PROJECT.json` maps each definition to
the lines it translates.

## 1. Inventory

gz-transport gives processes topics (publish/subscribe) and services
(request/reply). A `Node` is a handle; all nodes of a process share one
`NodeShared`, which owns two `Discovery` objects (messages and services), the
sockets, and the threads. Remote traffic uses ZeroMQ or Zenoh; local traffic
goes through a queue. Two side libraries record and play back topics (`log/`)
and share named parameters over services (`parameters/`).

| Component | State | Operations | Hard part | Status |
|---|---|---|---|---|
| `Discovery` (`src/Discovery.hh`) | `info`, `remoteSubscribers`, `activity`, timers, relays | Advertise, Unadvertise, Discover, Register, Unregister, TopicList, destructor; a thread for heartbeats, expiry and 9 datagram types; relays; Zenoh's liveliness handlers | UDP loses, duplicates and reorders; every send and callback happens after the mutex is released; processes crash | modelled but for timers' lengths and malformed datagrams; proved |
| `TopicStorage` | map topic -> process -> publishers | add, two deletions, queries | pruning of nested maps, what is a duplicate | modelled |
| `HandlerStorage` | topic -> node -> handler | add, two removals, look-ups | the same | modelled |
| `NodeShared`, pub/sub | `connections`, `remoteSubscribers`, local handlers, `pubQueue` | callbacks of discovery, Publish, Subscribe, Unsubscribe, publish thread | two mutexes, callbacks after Unsubscribe, lost NEW_CONNECTION | modelled but for the destructor and authentication; proved in part |
| `NodeShared`, services; `ReqHandler`, `RepHandler` | pending requests, responders | Request (blocking and not), SendPendingRemoteReqs, RecvSrvRequest, RecvSrvResponse | late answers, time-outs, requests marked before they are sent | modelled with ZeroMQ and Zenoh |
| `Node`, `Publisher`, `Subscriber` | a node's topics and services, statistics; shared handles | advertise, subscribe and their ends, lists, destructor | handles outlive nodes, several tables updated one by one, remapping | modelled; wrappers of callbacks are not |
| subscription handlers, publishers: throttling | last callback time, period | `UpdateThrottling` | test and set in two critical sections | modelled, proved |
| Zenoh, shared memory | subscribers, tokens, queryables, queriers, the pool | declare, retire, reply, borrow | callbacks during retirement, notification without the mutex, an exhausted pool | modelled as the code uses the library, proved |
| `TopicUtils`, remapping | none | names | names, partitions, tokens must convert back | modelled |
| `TopicStatistics` | counters, minima and maxima | update | several senders, gaps, unsigned differences | modelled but for averages, proved |
| `Clock` | time of a topic | set, receive | several clocks of a topic | modelled, proved |
| `WaitHelpers`, command-line tools | | wait for providers, publish, echo, rate, request | polling against changes; signals | waits and the commands that act; no option parsing |
| `log::Recorder` | queue, `bufferSize`, writer thread, topics and patterns | callbacks, Start, Stop, AddTopic | condition variable, flag outside the mutex, hand-over from writer to Stop | modelled; data path proved |
| `log::Playback` | playback thread, pause, step, seek; topics | Start, Stop, Pause, Resume, Step, Seek, AddTopic, RemoveTopic | flags and times without a lock, two condition variables | modelled |
| log files and queries | tables, transactions, caches, batches | Open, InsertMessage, QueryMessages, StartTime, EndTime | crashes, failed statements, stale caches | modelled; wrappers of SQLite are not; files proved |
| `parameters` | named values | declare, get, set, list, by the registry and by clients | calls that time out and are served late | modelled |
| C and Python interfaces, `NetUtils`, `Uuid`, `Helpers`, `MessageInfo` | | | wrappers, system calls, records | not modelled |

How they interact: a user's call runs in the user's thread, takes
`NodeShared::mutex` and calls `Discovery`, which takes its own mutex. Discovery's
thread calls back into `NodeShared` with its mutex released. Datagrams are the
only thing processes share. The recorder subscribes with callbacks that run on
NodeShared's threads and has a writer thread of its own, and hears of new topics
from a discovery of its own. Playback publishes with an ordinary node. The
registry and its clients are responders and requests of ordinary nodes.

What makes them correct: a publisher is known to those its scope lets see it,
once, and only while its process may still be alive; what is lost is repaired;
what is gone is forgotten; the client is told of all of it (Discovery). The
storages are sets. A message that was accepted is written once, in order, or
dropped because there is no room, and is in the file when the log is read
(Recorder, Log). It is played at the distance it was recorded at (Playback). No
callback after Unsubscribe; every request executed and answered at most once,
and sent when a responder is known (NodeShared). The tables of a node, its
process and discovery say the same (Node). `PROJECT.json` lists the hazards line
by line.

## 2. Modules

| Module | Models |
|---|---|
| `Publishers` | a set of publisher records with the storage's notion of "same publisher" |
| `PublisherSet` | abstract specification of a storage: a set, calls and their results |
| `TopicStorage` | the nested maps of the C++ class; implements `PublisherSet` |
| `Directory` | abstract specification of discovery: offers, rumours, knowledge |
| `Discovery` | the class, one instance per process, over a network of datagrams; implements `Directory` |
| `Relays` | how a discovery message travels: interfaces, multicast, unicast relays |
| `PubSub` | NodeShared's connections and remote subscribers between processes, over `Directory` |
| `ZenohTopics` | subscriptions and tokens of a topic over Zenoh |
| `LocalPublish` | the handlers, publish queue and publish thread of one process |
| `Throttling` | rates of publishers and handlers, and what a callback is given |
| `SharedMemory` | where Publish serializes a message, and the provider of chunks |
| `HandlerStorage` | the nested maps of handlers, as operators |
| `Nodes` | nodes, Publishers, Subscribers, responders and their tables; uses `HandlerStorage` and `TopicNames` |
| `TopicNames` | validity, qualification, decomposition and tokens of names |
| `TopicStats`, `NetworkClock` | statistics of a topic; clocks distributed over a topic |
| `Traffic` | the four aspects of a message's way together: `Throttling`, `SharedMemory`, `TopicStats`, `NetworkClock` |
| `Calls` | abstract specification of service calls: made, served, answered or failed |
| `ServiceCall` | responders, requests and the threads that send, serve and answer them, over `Directory`; implements `Calls` |
| `ZenohServices` | the same over Zenoh; implements `Calls` |
| `Parameters` | the registry of parameters and its clients, over what `Calls` promises |
| `ServiceCommand` | `gz service -r`, ResolveServiceTypes, RequestRaw, waitForService and waitForTopic |
| `TopicCommands` | `gz topic -p`, `-e`, `-f` and waitForShutdown |
| `Tools` | the three together: `Parameters`, `ServiceCommand`, `TopicCommands` |
| `Recorder`, `RecorderTopics` | the recorder's data path; its topics and patterns |
| `LogQuery`, `LogFile` | what a query selects; a log file with its transactions, caches and batches |
| `Playback`, `PlaybackTopics` | a playback handle and its thread; which topics a playback publishes |
| `MCDiscovery`, `MCPubSub`, `MCServiceCall`, `MCNode`, `MCLog` | scenarios and values for TLC |
| `DiscoveryProofs`, `PubSubProofs`, `LocalPublishProofs`, `RelaysProofs` | theorems about the module they are named for |
| `ServiceCallProofs` | theorems about `ServiceCall` and `Tools` |
| `ZenohProofs` | theorems about `ZenohTopics` and `ZenohServices` |
| `LogProofs` | theorems about `Recorder`, `LogFile` and `Playback` |
| `TrafficProofs` | theorems about `Traffic` and the modules it joins |

### Discovery

The code never sends and never runs a callback while it holds its mutex, so
every operation is cut where the mutex is released. `Advertise` is the part
under the lock; `call[p]` then says that the user's thread has an ADVERTISE to
send, and `CallSend` sends it. Likewise `recv[p]` says where the reception thread
is inside `UpdateHeartbeat` ("beat": copied publishers still to send),
`UpdateActivity` ("expired": callbacks still to run) or `DispatchDiscoveryMsg`
("connect", "remove", "removeProc", "send"). Between two of those actions
everything else may happen. `info`, `remoteSubscribers`, `activity` (its keys)
and `beats` are the members of the class; `subs` and `told` stand for what
NodeShared, the client, keeps: its subscriptions, and what the callbacks told
it.

The network is a set of datagrams, one per receiver, unordered. `Take` delivers
one and removes it, or leaves it to be delivered again; `Lose` drops one; both
faults are counted by `faults`. A datagram that would overfill the receiver's
socket buffer is dropped by the kernel and is not counted. A process is started
once: a restarted process has a new UUID and is another member of `Proc`. `Crash` ends it at
any action; `Destroy`, `JoinReception`, `SendBye` are the three parts of the
destructor, whose order matters.

Time is abstracted: a heartbeat may be due, and a process found silent, at any
iteration of the loop. This allows more than the real intervals do (a live
process may be expired by mistake, as a network stall would), so the safety
properties hold for all intervals.

`ImplementsDirectory` is the refinement: `offered` are a process's own
publishers in `info`, `known` the others', `rumours` the ADVERTISE messages in
flight plus the copies a thread has yet to send. The abstract specification lets
a withdrawn publisher be learned from rumours made before, and from nothing else.

`Discovery` puts a datagram at every receiver. `Relays` is the way there: each
process has a socket per interface and a list of relays, and a message goes to
every interface's group and, without the no-relay flag, to every relay; whoever
gets it by unicast with the relay flag sends it on to its own group, with the
no-relay flag. A send that fails ends the loop over what is left. When a process is
made, an interface may refuse its socket, or the group may not be joined there: then
the process still sends to that interface (`rSockets`) and hears nothing by it
(`rGroups`). A host gives a
unicast datagram to one of the sockets that share its port. Taking a datagram is
one step: what the code does after it sent it on (it remembers the relay,
`Discovery.hh:1213`) is done before anybody else hears it.

### TopicStorage and HandlerStorage

`data` is the map of maps of sequences; the calls edit it as the code does,
including the pruning of empty inner and outer entries, and `last` records the
last call with its result. `Clear` empties it. The queries are operators, and
`QueriesAgree` compares each with its meaning on the set of stored publishers.
`HandlerStorage` is a module of operators on the nested map, which `Nodes` uses
for handlers and responders.

### PubSub

A publisher's process sends data only if its `remoteSubscribers` has the topic,
and a subscriber's process receives it only if its SUB socket is connected to
the publisher (`sockets`, `connections`) and lets the topic through (`filters`).
The two sides agree by way of discovery callbacks and the datagrams
NEW_CONNECTION, END_CONNECTION and UNADVERTISE.

Which publishers a process knows is the business of `Directory`, the abstract
specification that `Discovery` implements: its steps are conjuncts of the actions
here. So `Learn` is "the directory lets p learn pub, and p runs OnNewConnection",
and a publisher may be expired, or its process taken for dead, at any time.
`Visible` stands for the scope test.

Each process has two threads that run NodeShared's code, the user's (one per
process) and discovery's, each with its place in `thread[p][t]`. The callbacks
take NodeShared's mutex, change the tables, release it and send: actions
`OnNewConnection`, then `Register` for each message. `Subscribe` takes the
recursive mutex before it stores the handler and keeps it until the callbacks
that Discover runs are done: `Held` blocks the other thread meanwhile.
`Unsubscribe` releases the mutex before it looks publishers up and before it
sends. Datagrams between two processes are a FIFO (`net[q][p]`), which may lose
its head; `UNADVERTISE` removes the publisher after the callback, as in
`Discovery`. The destructor's BYE runs the same callback as an expiry and is not
distinguished. ZeroMQ counts filters, so that removing one may leave another of
the same topic; the model removes it or not. One type of messages is modelled.

### ZenohTopics and ZenohServices

Over Zenoh, a handler declares a liveliness token, and publishers' processes
hear of subscribers by tokens that appear and end (`news`), which their
liveliness handlers read one by one. The token that a process finds with its
first look (liveliness_get) is one more item of news. The first handler of a
topic declares a Zenoh subscriber; after the last one a thread of its own
(`jobs`) undeclares it, which waits for its callbacks, which in turn may wait for
the mutex or be what unsubscribes. `doing` is where a user's call is, `step` and
`taken` where Zenoh's callback thread is.

For services, a responder is a queryable and a token, and a request is a query
(`query`), fired for every pending request when a responder is known. The reply
closure gives the reply to the waiting caller and takes the request out of the
storage; when a query ends without one, the request goes too. `call` is the
caller, `arrived`, `serving` and `replies` are on Zenoh's side. A query may fail,
up to `MaxFailures` times. Zenoh is external: the model has what the repository
relies on, that samples of one publisher keep their order and that a
closure is dropped once, after its last call.

### LocalPublish

Inside a process a message goes to handlers in two ways. `Publish` (the user's
thread) copies the handlers of the topic under `mutex` and, in a second critical
section (`Push`), appends message and handlers to `pubQueue`; the publish thread
takes it (`Take`) and runs one callback after the other. PublishRaw, and the
reception thread for data of other processes, copy the handlers and call them
in place (`TriggerCallback`). `Unsubscribe` purges the queue under
`pubThreadMutex`, then removes the handlers from the storage under `mutex`
(`RemoveHandlers`): between the two, and between `Publish` and `Push`, the other
threads go on. Names are modelled by what is done to them: a node remaps a
name (`Remap`) and qualifies it (`FullyQualified`); a message carries the
qualified name without its partition (`Carried`), which the node that wrote it
qualifies to the same topic again (`CarriedAssumption`: it begins with a slash, so
that the namespace is not put before it). Calls made from inside a
callback are not modelled. `made`, `left`, `raced`, `due` and `ran` are history
variables: `raced` are the subscriptions that ended while a thread was between
copying the handlers and queueing or calling them.

### Throttling, SharedMemory, TopicStats, NetworkClock

Four aspects of the same path, each with the state it needs; `Traffic` extends them and
states what they keep together. `Throttling` cuts `UpdateThrottling` at its critical
sections (`lastCbTimestamp` of the publisher, `handlerTimestamp` of each handler) and
has the loop over normal, generic and raw handlers, with messages that do not parse;
`passed`, `heard` and `leftOut` are the histories of what a rate let by and left out.
`SharedMemory` has the provider of chunks that the first thread creates
(`ZenohShm::state`, `provider`, `mutex`), the choice between chunk and heap, and the
subscribers that give chunks back. `TopicStats` numbers messages per sender, loses some,
and computes the counts of `TopicStatistics` in unsigned arithmetic modulo `Modulus`.
What the code calls drops are not losses: it adds one for each gap, however long, and
one for each sender after the first whose first message heard of is not its second
(`GapsCounted`).
`NetworkClock` has several clocks of one topic; a time is split into seconds, which an
`int` from `-HalfRange` to `HalfRange - 1` holds, and nanoseconds.

### Nodes and TopicNames

`Nodes` has the tables that calls of nodes change together: storages of handlers
and responders, `topicsSubscribed` and `srvsAdvertised` of each node, what the two
discoveries hold of this process, statistics, and the Publisher and Subscriber
objects of users, in variables of theirs (`PubVar`, `SubVar`) that are copied, moved
and assigned. Each call holds NodeShared's mutex and is one action. A node's end is
several (`stage`, `todo`), as its destructor is. Names go through the same operators
of `TopicNames` as in the code. There a name is a sequence of characters, because
separators are what may go wrong; the operators are not RECURSIVE.

### ServiceCall

A request that finds a responder in its own process runs it in the caller's thread
(`AskRequest`, `RunLocalCallback`). Any other one is put into the table of requests
(`stored`) and sent by the first of two threads that knows a responder of its types:
the caller, in the same critical section (`StoreRequest`), or the service thread.
`OnNewSrvConnection`, which runs on discovery's thread, hands the latter the new
responder by way of `srvQueue` when some request wants it; the service thread
looks responders up without NodeShared's mutex (`SrvTake`) and sends with it
(`SrvSend`). The reception thread takes a request, runs the responder and sends
the answer in three steps (`RecvSrvRequest`, `RunCallback`, `SendReply`), and
likewise gives an answer to its request (`RecvSrvResponse`, `NotifyResult`,
`RemoveRequest`). A caller that blocks returns with the answer, or at any time
without one (`Return`): the wait releases the mutex, so that the others' steps
fall in between.

As in `PubSub`, `Directory`'s steps are conjuncts of the actions. `UNADVERTISE` is
an event that may come at any time after a responder went, or never.
`SendPendingRemoteReqs` marks requests before it sends them. The
sockets are routers that refuse a message for a peer they have no connection to;
the code swallows the error and counts the request as sent. The model lets up to
`MaxLost` sends fail, lets all to a dead process fail, and
keeps in `lost`, a history variable, the requests that lost a message; requests
that a crash or a withdrawn responder swallows are in it too. `served` and
`answers` are the results of executions and those the callers got. A type stands
for the pair of request and response types; those in `OneWay` have the response
Empty and leave the table when sent. A request that cannot be serialized is like
one whose send fails. Calls made from inside a callback (which would keep the
reception thread waiting for itself) are not modelled.

`ImplementsCalls` is the refinement: a call is "open" from when it is made until its
caller has the answer, or, if it blocks, gives up; `served` and `answers` are
the same. `Calls` serves a request once, even after its caller gave up.

### Parameters, ServiceCommand, TopicCommands, Tools

What others build on calls and topics. `Parameters` relies on what `Calls` promises:
a client's request is served at most once, perhaps late, by a callback that holds
the registry's mutex; `told` is what the caller was told, `seen` which maps there
were meanwhile. `ServiceCommand` is the command's main thread against providers that
come and go: look up types, wait, look again, request, tell. `TopicCommands` has the
main thread, the callbacks' thread and signals; the handler of a signal writes one
byte to a pipe that the main thread reads. The three share no state; `Tools` puts them
side by side and states `ToldRight` of them.

### Recorder and RecorderTopics

`OnMessageReceived` is cut in two: it reads the atomic `dataWriterState` without
the mutex (`OnMessageReceived`), and queues under it (`Enqueue`). The writer's
loop is cut at the mutex and inside `condition_variable::wait`: `WriterDecide`
evaluates the predicate, `WriterSleep` releases the mutex and sleeps, and a
notification is heard only by a writer that sleeps. Stop is a sequence of
actions: clear the flag, notify, join, flush message by message, close. A
message is a stamp and a length. The log refuses an empty message, and any message
whose statement fails: it is gone with a warning (`refused`, `WriteToLogFile`).
`Recorder::Sync` (a change of clock) and a Start that fails to open its file change
nothing the model keeps. `written`, `dropped`, `refused` and `stopAt` are history
variables.

`topicMutex` is declared and never locked: `RecorderTopics` has one action per
access of `alreadySubscribed` and `patterns` by the user's AddTopic and by the
recorder's discovery. What the code may do with the containers themselves while
two threads change them is not modelled; only the order of accesses is.

### LogQuery and LogFile

`LogQuery` has the time ranges and the options as what they select: a statement is
the sequence of rows it yields, MsgIter walks through statements. `LogFile` has
the tables, the transaction in progress (`inTransaction`, `lastTransaction`), what is
committed (`durable`), and the caches of times and descriptor. A statement may fail
at any call, and a process may crash at any time; the next Log opens what was
committed. StartTime and EndTime store 0 before they look: when the statement fails
they return that 0, now and until the next insert, and of a corrupt log EndTime has
the time of some message (`unread` remembers which cache came about like this).
SQLite itself is external.

### Playback and PlaybackTopics

`Playback` is one handle: its thread (`player`) reads the batch, decides what to wait
for, sleeps on a condition variable, and publishes; the user's thread (`handle`) is in
one of the calls. What the code holds a mutex for is one action; flags and times are
read and written one by one. `waiter` is a thread in WaitUntilFinished.
`PlaybackTopics` has the calls that choose topics, before and after Start, and
the publishers each handle makes, of which a node refuses a second one per topic.

## 3. Runs

| Run | Question | Result |
|---|---|---|
| `discovery_safety` | do the safety properties and the refinement hold | 306 329 states |
| `discovery_live` | is what is lost repaired and what is dead forgotten | 15 964 states |
| `discovery_overtaken` | can an ADVERTISE follow the UNADVERTISE | counterexample |
| `pubsub` | do publishers and subscribers end up connected, by ZeroMQ and Zenoh | 149 253 states |
| `pubsub_counted` | does a publisher count its subscribers | counterexample |
| `node` | do messages, tables, names, rates and counts of a process agree | 238 588 states |
| `node_stats` | does a node that enabled statistics have a publisher for them | counterexample |
| `local_remapped` | is an unsubscribed handler removed | counterexample |
| `service_call` | is a request executed at most once, answered, and over in the end; are users told what is true | 254 984 states |
| `log` | is what is recorded written, found and played as it was | 307 865 states |
| `recorder_drops` | are messages dropped only for lack of room | counterexample |
| `recorder_stop` | does Stop return | counterexample |

A run joins scenarios. The variable `plan`, which never changes, says which
module takes steps and, in a `Planned...` operator, which of its behaviours. All
the other modules stay in their initial states.

Bounds of `discovery_*`. One topic and one node: the storage treats topics and
nodes independently, and scenario "store" of `node` checks two of each.
`discovery_safety` joins three
scenarios of two processes (`plan` in `MCDiscovery`), which between them have
all three scopes, both machines, a crash, an orderly exit, a lost or duplicated
datagram, a full socket buffer (2 datagrams), subscriptions and TopicList. Two
processes are enough because a handler reads its own process's state and one
datagram; a third process adds only datagrams that the pairs already exchange,
and the theorems cover any number. `InitBeats` is 0 in the runs (3 in the
code): it only delays TopicList, and the theorems hold for any value.
`discovery_live` has one publisher and one listener, a socket buffer that does
not fill up, and one fault that may strike at any time.

`pubsub`:
- "churn": one publisher's process and one subscriber's, with two handlers in one
  node that come and go and a publisher that may be taken for dead by mistake.
- "three": three processes with a handler that stays, a lost datagram, a crash.
  `MaxEvents` bounds users' calls and expiries to five (three with three
  processes): subscribe, unsubscribe and subscribe again overlap with an
  advertisement and an expiry. Rumours do not fade: they only make learning possible.
- "topic": two handlers of one node and two users over Zenoh, two samples; one
  handler takes any type. The last handler may go and come back while the
  old Zenoh subscriber still ends.
- "service": a blocking and a non-blocking call at once, or a one-way one alone, a
  responder that comes back once, one failed query.
- "relay": two hosts on networks of their own, one with two processes, one relay
  each, two messages, at most one of: a network or host that fails, an address that is
  refused or cannot join its group.

`node`:
- "order": three threads publish, by both ways, to a handler of each of two nodes;
  "leave": one thread publishes two messages while another removes the handlers
  of a node, together or one by one, next to a handler of another node. Two
  messages show order and two nodes show whose messages go.
- "pubs", "subs", "both": two nodes in one partition, written in two ways, one in a
  namespace with a remapping to the other's topic; three objects ever made.
- "store": up to three publishers among two topics, processes, nodes, addresses and
  types: enough for two publishers to share each level of the maps.
- "names", "text": partitions and namespaces of up to two characters, topics of up to
  three, text of up to four, of those characters the code tells apart. These have
  initial states only.
- "rates": two users of one publisher, or handlers of three kinds in three orders, a
  period of two ticks at a rate of 1, five ticks.
- "shm": two threads, one chunk, messages below and above the threshold.
- "counts": two senders whose clocks differ, one lossy; 4-bit differences. "clock":
  three clocks, two of one base; seconds in two bits, negative ones too.

`service_call`:
- "late": a blocking and a non-blocking request meet two responders' processes,
  that come, go and crash; "mixed": a one-way and an ordinary request meet a
  responder in the caller's process and one elsewhere. Three events let a responder
  appear, go and be replaced while a request is under way; one send may
  fail. Executions succeed in "late" and may fail in "mixed". Two requests suffice
  for the sending of what is pending by either thread; the second responder's process
  is where a request could be sent twice.
- "params": any three of thirteen calls on one parameter, by clients and the registry,
  with a type the factory does not know.
- "request": each kind of arguments with four providers (two alike, one one-way, one
  of other types), two of which may come or go during the command.
- "topic": each command with two subscribers and up to three events.

`log`:
- "record": two callback threads, four messages, empty or of one byte, a buffer of two
  bytes or infinite, any insert may fail: drops, refusals, restarts and late callbacks
  happen.
- "topics": two calls of AddTopic, a topic that two patterns match, one that only
  the wider does, one of another partition, one that is not valid.
- "choose": a topic with two types and one with one, two choices, two handles.
- "play": three messages, three calls of the user, or one beside WaitUntilFinished.
- "file": transactions, crashes, failures over four ticks; "failing": topics of two
  types, one query; "query": every query, nothing failing. Up to three rows.

Deadlock is off in the passing runs: scenarios end when their processes have
exited or the bounds are reached. That nobody waits for ever is what the liveness
properties say.

What the properties say:

- `SpeaksForItself`, `ScopeRespected`, `KnownOnce`: whose, to whom, how often.
- `CanExpire`: whatever is known of another process has an activity entry that
  will expire it. `BYE` erases the entry before the publishers; only the
  reception thread being in between makes that sound.
- `ClientTold`: no publisher is known without the client having been told, as
  the connection callback runs only when a publisher is new.
- `ByeIsLast`: nothing follows a BYE; needs the join before it.
- `Rediscovered`, `DeadForgotten`: the heartbeat repairs every loss; a dead process
  is forgotten for good although delayed datagrams may bring it back for a while.
- `RelaysCarry`: a message gets to all whom a multicast network and one relay can
  reach, travels three hops at most, and relays are mutual where nothing fails and each
  process has joined the groups it sends to.
- `QueriesAgree`, `ImplementsPublisherSet`: results and queries are those of a set.
- `SocketConnected`: who is registered as a remote subscriber has connected its
  socket first, so that no data is sent past it; `Registered` and `Hears`: without
  losses, each handler is registered with, connected to and lets through every
  publisher its process knows, whenever its threads are idle; `Connected`: for
  good in the end, if handler and publisher stay. A lost NEW_CONNECTION is never
  repeated, hence "without losses".
- `ZenohHears`: with the mutex free, a Zenoh subscriber is declared exactly if there
  are handlers; a handler gets each sample once, in order, although an old and a new
  subscriber overlap; publishers know the nodes that listen. `ZenohCalls`: calls
  implement `Calls`, retirements end, callers return and requests leave the storage.
- `AllInOrder`, `Silenced`: a handler gets what was published once, in order, and
  nothing is purged but its own messages when it leaves; after the purge none is
  left in the queue but those `raced`. `Reaches`: what was published reaches the
  handler in the end.
- `TablesAgree`: the tables of nodes, storages and discoveries say the same, lists and
  infos have all of it, and a node that ended left nothing behind.
- `NamesAgree`: a qualified name stays itself when qualified again; it is read from its
  token with a "/" for each "%", unless that is not valid or the partition is empty; it
  is listed in its partition if and only if that was written without a slash at either
  end; AsValidTopic makes a valid topic or none, and leaves a valid one alone.
- `PublishKept`: each thread of a throttled publisher, and a handler that one thread
  calls, passes one message in a period, and a rate leaves out only what comes less than
  a period after something it let by; every message leaves with its own contents, from
  a chunk or the heap, and no chunk leaks or has two owners.
- `CountsAgree`: the drops counted are gaps and newcomers, the periods those of the
  messages that came, for any mix of senders; clocks of one base agree on what was set
  last.
- `ImplementsCalls`: two threads that send the same pending requests, to responders
  of their choice, do not make one be executed twice; an answer is that of the
  execution and is given once, in time or late. `NoneLeft`: the table keeps no
  request that was answered or given up. `Replied`: a request does not stay pending
  or unanswered while a responder is known, unless a message of it was lost.
- `ToldRight`: each answer about parameters, errors included, was true during the call,
  in the sense the code gives it (`GetTold`, `SetTold`, `DeclareTold`, `ListTold`); the
  commands tell what one moment of their wait justifies, and publish, print and end as
  asked.
- `InOrder`, `NothingLost`, `StopDrains`, `Written`: the recorder's queue between three
  kinds of threads; what is not written was dropped for room or refused by the log.
  `LaterTopicsAdded`: a topic that appears once AddTopic has added its pattern is
  recorded; of one that appears meanwhile nothing is said, as the code may miss it.
- `LossBounded`: a crash loses one transaction, whose messages were inserted within
  a period of the oldest one. `LogAnswers`: batches show what was inserted, whatever
  failed in between, and so do times, but for what a failed statement or a corrupt log
  left in the cache until the next insert; a handle publishes the topics chosen.
- `Paced`, `PlaybackEnds`: messages are never closer than they were recorded, unless the
  user says so; Stop returns and a playback that is not left paused finishes. That
  WaitUntilFinished returns is not claimed: the thread notifies without its mutex
  (`Playback.cc:601-602`), and the waiter may miss it.

Each property has a mutant in `PROJECT.json`, a plausible bug of the code that
the run of that property detects. Mutants are the definitions commented "Mutant".

### Fairness

Discovery (`FairSpec`): a thread that is inside an operation goes on (WF), since
the operations do not block. The loop of the reception thread tests its timers
at every iteration, so a heartbeat that is due, or a process that stays silent,
is served although other datagrams keep coming: SF, because the action is
disabled during other iterations. Datagrams wait in a FIFO socket, hence SF for
receiving an ADVERTISE. Nothing is assumed of the users or of processes'
lifetimes, nor that a fault ever stops except by the bound on faults.

PubSub: `PubSub` states WF for each thread inside an operation and for discovery's
thread, which reads its socket in order; that offers are announced (WF) and learned
(SF) is what Discovery's liveness gives. `MCPubSub` assumes less, that some thread
that can go on does, which is enough. ZenohTopics, ZenohServices: WF for what goes on
by itself once it has begun (`Continue`, `ContinueSrv`): Zenoh's callbacks, detached
threads, waits that time out.

LocalPublish: WF for the publish thread and for a call in progress; user callbacks are
assumed to return. The publish thread's wait has a time-out of 500 ms and skips when the
queue is not empty, so that notifications need no model.

ServiceCall: WF for discovery's, the service and the reception threads and for a call
being made; responders are assumed to return. The service thread waits at most
500 ms and skips the wait when its queue is not empty. Nothing is assumed of the
callers' time-outs.

Log: WF for the writer, for a Stop in progress and for a callback that has begun
(Recorder; spurious wakeups may happen and are not relied on); for discovery's
reports and for each thread inside AddTopic (RecorderTopics); for the playback thread,
for a call in progress and for time (Playback).

### Disagreements between code and documentation

- `discovery_overtaken`: UpdateHeartbeat copies publishers under the mutex and
  sends them after; an Unadvertise in between is overtaken and receivers keep a
  publisher that no longer exists (`Discovery.hh:1007`).
- `pubsub_counted`: OnNewDisconnection takes the UNADVERTISE of a publisher for the
  end of a subscriber: a node that publishes and subscribes to a topic is
  dropped by all other publishers when its own publisher ends
  (`NodeShared.cc:1156`).
- `local_remapped`: Unsubscribe qualifies the name it was given instead of the
  remapped one, so the handler stays stored and is called on
  (`NodeShared.cc:2097`).
- `node_stats`: a second EnableStats of a node, of another topic or to turn one off,
  assigns the invalid publisher of a refused Advertise, and the first one's
  destructor ends the statistics (`Node.cc:1015`).
- `recorder_drops`: `bufferSize` is never decremented when a message is written,
  so that after the first `maxBufferSize` bytes each message drops an older one
  whenever the queue is not empty (`Recorder.cc:366`).
- `recorder_stop`: StopDataWriter notifies without the mutex; the writer can miss
  it and Stop never returns (`Recorder.cc:386`).

These six are counterexamples. In the following the code means less than a header or
tutorial says, in a way that is plain from its text; a property of a passing run states
exactly what the code keeps instead, so that the difference is on record and any further
one would be found. Each is quoted in `PROJECT.json`.

- `PublishKept` (`node`): threads that share a Publisher, or that run one handler, test
  the period and set the stamp in separate steps (`Node.cc:128`,
  `SubscriptionHandler.cc:145`), so that each may pass a message in one period; the
  headers promise a maximum rate (`AdvertiseOptions.hh:190`, `SubscribeOptions.hh:55`).
- `CountsAgree` (`node`): DroppedMsgCount counts gaps, not messages, and takes the first
  message of a second sender for a drop though nothing was lost
  (`TopicStatistics.cc:156`, against `TopicStatistics.hh:135`).
- `NamesAgree` (`node`): a token with the empty, valid partition is never read
  (`TopicUtils.cc:200`, against `TopicUtils.hh:49`); `DemangleName` turns every `%` into
  `/` (`TopicUtils.cc:502`, against `TopicUtils.hh:343`); the lists of topics
  show nothing of a partition written with a slash at an end (`Node.cc:886`,
  against `03_nodesAndTopics.md:83`).
- `ToldRight` (`service_call`): the registry's DeclareParameter with a message never
  answers AlreadyDeclared (`Registry.cc:248`, against `Interface.hh:50`), and a client's
  Parameter tells Unexpected instead of NotDeclared or a time-out
  (`Client.cc:103`, against `Interface.hh:63` and `79`).

Also seen, and left as the models have it: the loop of `gz topic -e -n` reads its counter
without the lock the callback takes; a negative time-out of `gz service` becomes a very
long wait; RequestRaw of a one-way service returns false; a topic recorded with two
types is played with one of them; an end of a token makes a Zenoh publisher forget a
node that still has a handler of another type (`NodesHeard` excepts it);
WaitUntilFinished may miss its notification; Discover may present a publisher that
was withdrawn since it was copied; a topic that appears while AddTopic runs may be
missed or subscribed twice; UnadvertiseSrv does not remap.

## 4. Proofs

`DiscoveryProofs` proves, from `HostOfAssumption`, `UsersAssumption` and
`BoundsAssumption` alone and hence for any processes, machines, topics, nodes
and bounds: `TypeOK`, `SpeaksForItself`, `ScopeRespected`, `KnownOnce`,
`CanExpire`, `ClientTold`, `ByeIsLast` and the refinement `ImplementsDirectory`.
Each is shown to hold initially and to be kept by
every action, one lemma or step per action. `SpeaksForItself` and `CanExpire` are
inductive given `TypeOK`. `ScopeRespected` needs `SpeaksForItself`: the receiver
tests the scope against the sender, which is the owner only because processes
speak for themselves. `KnownOnce` is strengthened by `Once`: the copy that
`Discover` is about to present to the client must have one record per publisher
too. `ClientTold` is strengthened by `Told`: what an expiry is about to report is
already forgotten, so that the report cannot take away a publisher learned since.

`ByeIsLast` and `ImplementsDirectory` need what may come from outside. `Outside`
says that no process receives its own datagrams (`Foreign`: so it never expires,
forgets or learns its own publishers), and that a BYE in flight is of a process
that is gone. A process that is gone has no thread left to send, because
the destructor joins the reception thread first: so nothing follows a BYE. The
step simulation maps each critical section, datagram and fault to a step of
`Directory` or a stutter; a copy that a thread has yet to send, or a datagram, is a rumour,
so that `rumours` grows only with what is in `info` at that moment (`RumoursGrow`).

`PubSubProofs` proves, from `NamesAssumption` and `UsersAssumption`, `TypeOK` and
`SocketConnected`. The inductive invariant `SocketInv` follows a registration from
the thread that prepares it through its datagram to the publisher's table: at
each stage the subscriber's socket is already connected
(`RegistrationsBacked`, `DatagramsBacked`). It also needs `OwnAddress`: a known
publisher's address is that of its process. Sockets are never disconnected;
they only end with their process.

It then follows the two halves of "the data gets there".

- `HandlersHear` (`Hears`, from the same assumptions): the subscriber's half. The
  inductive invariant `HearsInv` says that a publisher known to a process with
  a handler of its topic is heard, or waits in one of the process's threads: among
  those it is about to tell of, or for the look-up that `Subscribe` does
  while it holds the mutex.
- `NodesRegistered` (`Registered`), `CountedUnlessBoth`, `HandlersReached`: the
  publisher's half, under `Apart`, that no node both publishes and subscribes to a
  topic. Without it they are false: that is the disagreement `pubsub_counted`,
  and `CountedUnlessBoth` says that it takes such a node. `RegisteredInv` follows
  the news of a handler's node from the thread that prepares it, through the
  FIFO, into the table, and says that no end of that node comes behind it in the
  channel (`AllTold`). It rests on `Ending` (a process only announces the end of a node
  that has no handler left), `Senders` and `Prepared` (only the process itself says
  so), `Listed`, and `AllStarted` (nobody knows publishers of a process that is yet
  to start, so a new process meets no old registration).
  `HandlersReached` puts both halves together: without losses, and with
  the handler's process idle, `Reaches` holds of all that the handler hears. That
  it becomes so for good in the end is `Connected`, which TLC checks.

`LocalPublishProofs` proves, from the three assumptions of `LocalPublish`: `TypeOK`,
`AllInOrder`, `Silenced`, and that `Unsubscribed`, which `local_remapped` refutes,
holds when users write the topics of their nodes as messages carry them
(`AsCarried`: absolute, and not remapped). `Placed` says that handlers travel with
messages of their own topic only, and those of the queue were queued by `Push`.
`Ordered` relates the three places where a message can be (a thread between its two
critical sections, the queue, the publish thread's hand) with what the handler has
run: of each sending thread, what is behind is newer. `NoneLost` needs `DueHeard`
(what is due to a handler does not come from the node whose messages it ignores)
and, for the purge of the queue, that the handlers purged are among those asked to
go; this is where `CarriedAssumption` is used. `Removed` and `Quiet` carry
`Unsubscribe` through its steps: a handler that was asked to go and is still stored
is in the hands of the thread that removes it, and what reaches the queue for it
after the purge was published by a thread that raced with it.

`ServiceCallProofs` proves, from the assumptions of `ServiceCall`: `TypeOK`, `NoneLeft`
and the refinement `ImplementsCalls`. The inductive invariant `Fate` says that a
request is borne by one message or one reception thread at a time (`OneBearer`),
that what is on its way is not served yet, or carries the result of the execution
and has no answer yet (`Bearing`), and that an answer is the execution's
(`Fates`). With it each step is a step of `Calls` or a stutter. That a
request is marked as requested in the critical section that picks its responder is what
keeps two sending threads from giving it two bearers.

It also proves all of `ToldRight`, for `Tools`. Assumed are the operations there are,
that providers advertise types by the names the factory gives them (so that a spelling
names one type), and that a report has one time stamp at least.

- Of the registry (`ParamsCorrect`), for any calls: `CallFates` follows a call. The reply
  of a callback is true of the map it worked on (`RightReply`), which is among the maps of
  the call as long as the call is open; a callback that runs later answers nobody.
  What a client makes of a reply, or of none, is then true in its turn (`ClientTrue`); a
  get that succeeds needs that stored values have a type (`Valued`).
  `MapKept` says by what the registry did, not by what a client was told
  (`WonBy`, `WroteBy`), who declared a parameter and whose value it has: a client that
  timed out may have won. Each step has an `Effect` of one call on the map, which
  only grows and keeps its types.
- Of `gz service` (`CommandCorrect`), for any providers: `Course` says what `types` is at
  each place of the command, so that what is compatible is what the user asked for
  (`Fitting`), and that the offers known now are among the wait's moments.
- Of `gz topic` (`TopicsCorrect`), for any number of messages, signals and time stamps:
  `Heard`, `Echoed` and `Caught` relate the place of the main thread to
  what callbacks and signals did before and after it moved. `Windows` counts: the
  messages sent are the full windows, one message more each, and the window
  that is open, whose stamps are later than all reported ones.

`LogProofs` has three parts. Of the recorder it proves, from `SizesAssumption`:
`TypeOK` (with `Lifecycle`: who
may touch queue and file when), `NothingLost`, `InOrder` and `StopDrains`.
Every step but `Enqueue` leaves the sequence "written, in hand, queued" as it is
(`PipelineMoves`), which takes `Lifecycle`: the writer holds nothing while Stop
flushes, and the file is open whenever something is written; a message that the log
refuses leaves the sequence for `refused`. `Enqueue` appends
the next stamp and may remove the oldest queued one; `NothingLost` bounds the
stamps, so order is kept. `StopDrains` follows at the end of the flush, where the
pipeline is what was written.

Of a log file it proves `FileIntact`, `CommittedKept`, `RightTopic` and, for any
natural `Period`, `LossIsBounded`, for any topics, types and times. `Rows` says that
no topic has two rows and that messages refer to rows there are, committed messages
to committed rows, which a crash keeps. `Fresh` says that a cached descriptor is
that of the tables, and so is a cached time unless a statement failed or the log was
corrupt when it was read; it needs that every call that may change the tables,
even while it fails, marks them as stale. `LossBounded` is strengthened by `Past`
(no message was inserted after the present time, nor the transaction begun) and
`AtRisk`: outside a transaction nothing is at risk, and in one every message not yet
committed was inserted between `lastTransaction` and a period later, unless an END
failed.

Of a playback it proves, from `PlaybackAssumption` (the log has a message, and Seek is
given an offset that leaves one), `PlayTypeOK` and `Paced`, for any log and calls. The
thread decides how long to wait, sleeps and publishes without a lock while Pause, Step
and Seek change what it decided on. `Undisturbed` says what survives: as long as no
call interfered since the last message (`calm`), the target is the event's time plus
the distance to the next message, a pause moves both times of an event alike
(`DoPauseKeeps`), the thread is not between its decision and the publication while it
is paused, and it publishes no message before its target. That what Seek looks up
exists is `LeastExists`, by well-founded induction over finite sets.

`RelaysProofs` proves `RelaysCorrect`, all of `RelaysCarry`, for any processes, hosts,
networks, relays and failing sends. The assumption is that each host has a list of
interfaces that is not empty.

- `AllReached`: whoever is to hear a message has heard it, or something on the way will
  get it there (`Coming`): a multicast to him, a unicast to a relay's process that is his
  neighbour and not the origin, or the multicast to somebody who knows a relay that is.
  A unicast to the origin itself is ignored (`DiscardOwn`), which loses
  nothing only because the origin's neighbours are all served by its own multicast
  (`NearReached`). `SameReached` reduces a step to what becomes of the datagram it takes.
- `Sound`: flags bound the way (`Hops`: a multicast that may be forwarded was sent by the
  origin, one with the RELAY flag has gone one step or two), and a datagram that is
  not from the origin's host comes from one that has relays. Without failures, and where
  all have joined what they send to (`AllHear`), its sender, or
  who hears it, reaches the origin (`ReachesBack`); that rests on
  `FromRelay` remembering the sender of what it passes on, and on
  processes of a host having the same networks, one at least (`HostNets`).

`ZenohProofs` proves of the topics, for any handlers, nodes, types and users and with no
assumption but that `MaxPut` is a natural number, `HearsOverZenoh`, which is all of
`ZenohHears`, from `HandlersRunOnce`, `NodesAreHeard` and `TypesKept`.

- `Subs`: a subscriber is active exactly as long as it is the current one, and one is
  current exactly if there are handlers. Old subscribers stay declared for a while, so
  a sample may go to several (`jobs`), of which at most one is current (`Jobs`).
  That a retired one is no longer active when its callback tests it is what keeps a
  handler from running twice. `Ran` says that what a handler was run with is older
  than the sample at hand while the handler is yet to be run with that (`Unrun`), and
  older than all behind it. `Entering` says that a handler about to be stored is
  nobody else's and was never run.
- `Heard`: for each declared token, the news of its node is on the way with
  no end of that node behind it (`Ahead`), or the node is known and no end is on the way
  (`Known`), or the node gave up a handler of another type (`Excepted`). A node and type
  shared by several handlers begin and end once, which `DeclareHeard` takes apart.

Of the services it proves, without assumptions, that `ZenohServices` implements
`Calls` (`CallsImplemented`) and `NoneForgotten`. `Courses` follows each request:
fired once (marked in `requested` when it is), so it arrives once, is served once,
and its one reply carries that service's result; the caller's answer is what
`available` says, although Zenoh's thread gives it without the mutex. `Kept` is
about the storage: a fired request's query is not over, so that its end will remove
it, and a request that waits although a responder is known has discovery's callback
or the service thread before it, unless some query failed. The latter is what
`Settled` needs to be true in the end.

`TrafficProofs` proves `PublishKept` and `CountsAgree`, with an inductive invariant for
each of the four modules, for any options, handlers, threads, chunks, senders and
clocks. The assumptions are those the code's types give: rates are unsigned, the
threads of NodeShared are not the user's, time does not wrap within a run.

- `RateInv`. A publisher's thread reads the clock outside the mutex, tests in one
  critical section and stamps in another. `PublisherKept` follows each thread by itself:
  when it passed the test, a period was over since every message of its own before,
  because the stamp only grows (`StampOf` reads the clock again); what others stamp
  meanwhile may only be later. So the messages of one period have different threads,
  which maps them one to one to the users. `LeftOutForRate` needs that the
  publisher's stamp is that of the last message let by, and a handler's unset until it
  heard one (`StampsKept`). A handler has no lock, and its stamp may go
  back when two threads call it; `HandlersKept` therefore speaks of handlers that one
  thread calls. `MessagesKept` places each message in one thread's hand or in the
  queue (`Apart`), says what is left to do of it (`Halfway`: as long as it is
  not parsed, no handler that wants it parsed had it, and all of them are still to
  come), and from this that it went to all of them or none, with one and the same result
  of parsing (`AllOrNone`, `GivenSame`).
- `ShmInv`. Only the thread with the mutex is between "unknown" and the state's
  resolution (`Resolving`), so the provider is there before the state is "ready"
  and a refusal is asked for once. `Held` gives each chunk in use one holder, and
  `Given` relates what Zenoh and the raw handlers have to the calls of Publish.
- `StatsInv`. `SeqNumbered` aligns the messages on their way with the sequence numbers,
  and `LastKept` says that the number kept of a sender is that of its last message
  counted, so that the gaps are what `droppedMsgCount` adds up. `PeriodsKept`
  relates each minimum and maximum to the set of differences seen.
- `ClockInv`. `Latest` says that what is on its way from a clock ends with what was
  set on it last, `Shown` that with nothing on its way the others have it. Splitting
  into seconds and nanoseconds loses nothing while seconds fit an `int` (`StampReads`).

Only model-checked: the refinement `ImplementsPublisherSet` (the storage's deletions
are `SelectSeq`, recursive over vectors of any length), and everything of the
modules without proofs: `Nodes` (`TablesAgree`), `TopicStorage` (`QueriesAgree`),
`TopicNames` (`NamesAgree`), what batches of a log yield and which topics a playback
takes (`LogAnswers`).
`LogQuery` and `TopicNames` compute over sequences: what adds up or
takes apart data of any length is induction over data, which TLAPS's backends do not
do. Liveness and the temporal counterexamples are TLC's too, as is the use of
ENABLED in fairness.

## 5. Not modelled

- Authentication (user name, password) and the options of ZeroMQ sockets; the
  configuration of the Zenoh session, and `CallbackGate`.
- The end of NodeShared: its destructor waits for threads the models leave running.
- The lengths of discovery's timers; datagrams that are malformed or of another
  version.
- Several responders of one service in one process, and calls made from inside
  callbacks.
- Averages and deviations of statistics, which are floating point.
- `NetUtils`, `Uuid`, `Helpers`, `MessageInfo`: system calls and plain records; the C
  and Python interfaces, overloads that wrap callbacks, the parsing of options,
  printing, and the commands that only list.

## 6. Plan

Done: discovery and storages; publish and subscribe between and inside processes;
services; Zenoh; nodes and names; throttling, shared memory, statistics, clocks;
the log library; parameters and commands. Left, in this order:

1. Proofs: `TablesAgree` of `Nodes`.
2. A second user thread per process in `PubSub`, for END_CONNECTION sent after the
   mutex is released (`NodeShared.cc:2189`), and an abstract specification of who
   hears whom that `PubSub` and `ZenohTopics` both implement.
3. The end of NodeShared (`exit`, joins) in `LocalPublish` and `ServiceCall`.
4. Heartbeat, activity and silence intervals in ticks, with the wait for
   initialization.
