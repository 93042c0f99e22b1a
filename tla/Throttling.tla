----------------------------- MODULE Throttling -----------------------------
(***************************************************************************)
(* How often messages pass a publisher and a subscription handler that are *)
(* throttled, and what the callbacks of a message are given                *)
(* (src/src/Node.cc, src/src/SubscriptionHandler.cc, src/src/NodeShared.cc *)
(* and src/include/gz/transport/SubscriptionHandler.hh).                   *)
(*                                                                         *)
(* Threads of users share a Publisher.  It reads the clock, then takes its *)
(* mutex to compare the time with its time stamp, and takes it again to    *)
(* set the stamp.  Messages of Publish go to the publish thread, those of  *)
(* PublishRaw, and those other processes send, run the callbacks on the    *)
(* thread that brings them.  A handler reads the clock, compares and sets  *)
(* its stamp with no lock.  Time is in ticks of the steady clock.          *)
(***************************************************************************)
EXTENDS Integers, Sequences, FiniteSets

CONSTANTS
    ReceptionThread, PublishingThread,
    Second,                     \* ticks in a second
    kUnthrottled,
    kGenericMessageType, MsgType,
    Setups,     \* of a publisher and its handlers (bound of the instance)
    MaxTime, MaxBrought

\* A rate is unsigned, and there is a second.
ASSUME ThrottleAssumption ==
    /\ Second \in Nat \ {0}
    /\ ReceptionThread # PublishingThread
    /\ \A s \in Setups :
          /\ IsFiniteSet(s.users)
          /\ {ReceptionThread, PublishingThread} \intersect s.users = {}
          /\ s.msgsPerSec \in Nat
          /\ s.handlers \in Seq([type : STRING, raw : BOOLEAN,
                                 msgsPerSec : Nat])

VARIABLES
    setup,              \* the options, which never change
    now,
    lastCbTimestamp,    \* of the publisher
    handlerTimestamp,   \* lastCbTimestamp of each handler
    queue,              \* NodeSharedPrivate::pubQueue
    at,                 \* where each thread is
    count,              \* messages each thread brought
    passed,             \* of the publisher: whose messages, and when
    heard,              \* callbacks of each handler
    leftOut             \* history: what a rate left out, tested with which time

throttlevars == <<setup, now, lastCbTimestamp, handlerTimestamp, queue, at,
                  count, passed, heard, leftOut>>

RateThreads == setup.users \union {ReceptionThread, PublishingThread}
Handlers == DOMAIN setup.handlers
Resting == [op |-> "idle"]

ThrottleInit ==
    /\ setup \in Setups
    /\ now = Second
    /\ lastCbTimestamp = 0
    /\ handlerTimestamp = [h \in Handlers |-> 0]
    /\ queue = <<>>
    /\ at = [t \in RateThreads |-> Resting]
    /\ count = [t \in RateThreads |-> 0]
    /\ passed = <<>>
    /\ heard = [h \in Handlers |-> <<>>]
    /\ leftOut = {}

Becomes(t, state) == at' = [at EXCEPT ![t] = state]

Throttled(msgsPerSec) == msgsPerSec # kUnthrottled

\* The period is 1e9 / MsgsPerSec() nanoseconds, infinite for a rate of 0.
PeriodOver(elapsed, msgsPerSec) == elapsed * msgsPerSec >= Second

(***************************************************************************)
(* Publish and PublishRaw.                                                 *)
(***************************************************************************)
Brought(t, damaged) == [from |-> t, n |-> count[t] + 1, damaged |-> damaged]

CountMessage(t) ==
    /\ count[t] < MaxBrought
    /\ count' = [count EXCEPT ![t] = @ + 1]

PublishAtRate(t, raw) ==
    /\ at[t] = Resting
    /\ CountMessage(t)
    /\ Becomes(t, [op |-> IF Throttled(setup.msgsPerSec) THEN "test"
                          ELSE "push",
                   stamp |-> now, raw |-> raw, msg |-> Brought(t, FALSE)])
    /\ UNCHANGED <<setup, now, lastCbTimestamp, handlerTimestamp, queue,
                   passed, heard, leftOut>>

\* The publisher, where a number is a handler's.
Own == 0

LeavesOut(h, t) == leftOut' = leftOut \union {[of |-> h, stamp |-> at[t].stamp]}

\* ThrottledUpdateReady, with the time read before the mutex was there.
ThrottledUpdateReady(t) ==
    /\ at[t].op = "test"
    /\ IF PeriodOver(at[t].stamp - lastCbTimestamp, setup.msgsPerSec)
       THEN Becomes(t, [at[t] EXCEPT !.op = "stamp"]) /\ leftOut' = leftOut
       ELSE Becomes(t, Resting) /\ LeavesOut(Own, t)
    /\ UNCHANGED <<setup, now, lastCbTimestamp, handlerTimestamp, queue,
                   count, passed, heard>>

\* Mutant: the time that was tested is kept, as handlers do.
StampOfTest(t) == at[t].stamp

StampOf(t) == now

UpdateThrottling(t) ==
    /\ at[t].op = "stamp"
    /\ lastCbTimestamp' = StampOf(t)
    /\ passed' = Append(passed, [by |-> t, time |-> now])
    /\ Becomes(t, [at[t] EXCEPT !.op = "push"])
    /\ UNCHANGED <<setup, now, handlerTimestamp, queue, count, heard, leftOut>>

Suits(h) == setup.handlers[h].type \in {MsgType, kGenericMessageType}
Suitable == {h \in Handlers : Suits(h)}

\* Every callback of a message, and what its handlers share.
Run(todo, msg, parsed) ==
    IF todo = {} THEN Resting
    ELSE [op |-> "run", todo |-> todo, msg |-> msg, parsed |-> parsed]

\* TriggerCallbacks.
Triggered(msg) == Run(Suitable, msg, "none")

PublishTo(t) ==
    /\ at[t].op = "push"
    /\ IF at[t].raw
       THEN Becomes(t, Triggered(at[t].msg)) /\ queue' = queue
       ELSE Becomes(t, Resting) /\ queue' = Append(queue, at[t].msg)
    /\ UNCHANGED <<setup, now, lastCbTimestamp, handlerTimestamp, count,
                   passed, heard, leftOut>>

\* What another process sends is not throttled here, and may not parse.
Receive(damaged) ==
    /\ setup.remote /\ at[ReceptionThread] = Resting
    /\ CountMessage(ReceptionThread)
    /\ Becomes(ReceptionThread, Triggered(Brought(ReceptionThread, damaged)))
    /\ UNCHANGED <<setup, now, lastCbTimestamp, handlerTimestamp, queue,
                   passed, heard, leftOut>>

\* The publish thread has a copy of the message.
TakeMessage ==
    /\ at[PublishingThread] = Resting /\ queue # <<>>
    /\ queue' = Tail(queue)
    /\ Becomes(PublishingThread,
               Run(Suitable, Head(queue), "whole"))
    /\ UNCHANGED <<setup, now, lastCbTimestamp, handlerTimestamp, count,
                   passed, heard, leftOut>>

\* Handlers get a message in the order they are stored; raw ones get it first,
\* but from the publish thread last.
Place(t, h) ==
    IF setup.handlers[h].raw = (t # PublishingThread) THEN h
    ELSE h + Len(setup.handlers)

Current(t) ==
    CHOOSE h \in at[t].todo :
        \A g \in at[t].todo : Place(t, h) <= Place(t, g)

(***************************************************************************)
(* A message is parsed by the first handler that wants it parsed.  The     *)
(* factory of a type gives the message whatever became of the parsing, the *)
(* generic one does not.                                                   *)
(***************************************************************************)
FactoryOfType(msg) == IF msg.damaged THEN "partial" ELSE "whole"
FactoryOfAny(msg) == IF msg.damaged THEN "null" ELSE "whole"

CreateMsgFromBuffer(h, msg) ==
    IF setup.handlers[h].type = kGenericMessageType THEN FactoryOfAny(msg)
    ELSE FactoryOfType(msg)

Wants(t) == at[t].parsed = "none" /\ ~ setup.handlers[Current(t)].raw

ParseMessage(t) ==
    LET parsed == CreateMsgFromBuffer(Current(t), at[t].msg) IN
    /\ at[t].op = "run" /\ Wants(t)
    /\ Becomes(t, IF parsed = "null" THEN Resting
                  ELSE [at[t] EXCEPT !.parsed = parsed])
    /\ UNCHANGED <<setup, now, lastCbTimestamp, handlerTimestamp, queue, count,
                   passed, heard, leftOut>>

(***************************************************************************)
(* RunLocalCallback and RunRawCallback.                                    *)
(***************************************************************************)
NextHandler(t) ==
    Becomes(t, Run(at[t].todo \ {Current(t)}, at[t].msg, at[t].parsed))

Callback(t, h, time) ==
    /\ heard' = [heard EXCEPT ![h] = Append(@,
           [by |-> t, time |-> time, msg |-> at[t].msg,
            given |-> IF setup.handlers[h].raw THEN "data"
                      ELSE at[t].parsed])]
    /\ NextHandler(t)

RunHandler(t) ==
    LET h == Current(t) IN
    /\ at[t].op = "run" /\ ~ Wants(t)
    /\ IF Throttled(setup.handlers[h].msgsPerSec)
       THEN /\ Becomes(t, [op |-> "test handler", todo |-> at[t].todo,
                           msg |-> at[t].msg, parsed |-> at[t].parsed,
                           stamp |-> now])
            /\ heard' = heard
       ELSE Callback(t, h, now)
    /\ UNCHANGED <<setup, now, lastCbTimestamp, handlerTimestamp, queue, count,
                   passed, leftOut>>

TestHandler(t) ==
    LET h == Current(t) IN
    /\ at[t].op = "test handler"
    /\ IF PeriodOver(at[t].stamp - handlerTimestamp[h],
                     setup.handlers[h].msgsPerSec)
       THEN Becomes(t, [at[t] EXCEPT !.op = "stamp handler"])
            /\ leftOut' = leftOut
       ELSE NextHandler(t) /\ LeavesOut(h, t)
    /\ UNCHANGED <<setup, now, lastCbTimestamp, handlerTimestamp, queue,
                   count, passed, heard>>

StampHandler(t) ==
    LET h == Current(t) IN
    /\ at[t].op = "stamp handler"
    /\ handlerTimestamp' = [handlerTimestamp EXCEPT ![h] = at[t].stamp]
    /\ Callback(t, h, at[t].stamp)
    /\ UNCHANGED <<setup, now, lastCbTimestamp, queue, count, passed, leftOut>>

Tick ==
    /\ now < MaxTime
    /\ now' = now + 1
    /\ UNCHANGED <<setup, lastCbTimestamp, handlerTimestamp, queue, at, count,
                   passed, heard, leftOut>>

ThrottleNext ==
    \/ Tick
    \/ TakeMessage
    \/ \E damaged \in BOOLEAN : Receive(damaged)
    \/ \E t \in setup.users, raw \in BOOLEAN : PublishAtRate(t, raw)
    \/ \E t \in RateThreads :
          \/ ThrottledUpdateReady(t) \/ UpdateThrottling(t) \/ PublishTo(t)
          \/ ParseMessage(t)
          \/ RunHandler(t) \/ TestHandler(t) \/ StampHandler(t)

(***************************************************************************)
(* Properties.                                                             *)
(***************************************************************************)

\* No thread passes a throttled publisher twice in a period.  Several may do
\* so together, once each, since the test and the stamp are two critical
\* sections: what passes in a period is up to the number of threads.
PublishedAtRate ==
    Throttled(setup.msgsPerSec) =>
        \A i \in DOMAIN passed :
            Cardinality({j \in DOMAIN passed :
                /\ passed[j].time >= passed[i].time
                /\ ~ PeriodOver(passed[j].time - passed[i].time,
                                setup.msgsPerSec)})
                <= Cardinality(setup.users)

\* The callbacks of a throttled handler are a period apart, as long as one
\* thread runs them, and there is none for a rate of 0.  Of several threads
\* nothing is said: they test together, and one that stamps late sets the time
\* back.
HeardAtRate ==
    \A h \in Handlers :
        LET rate == setup.handlers[h].msgsPerSec
            callers == {heard[h][i].by : i \in DOMAIN heard[h]}
        IN  Throttled(rate) /\ Cardinality(callers) <= 1 =>
                \A i, j \in DOMAIN heard[h] :
                    i < j => PeriodOver(heard[h][j].time - heard[h][i].time,
                                        rate)

AtRate(h) ==
    IF h = Own THEN setup.msgsPerSec ELSE setup.handlers[h].msgsPerSec

LetBy(h) ==
    IF h = Own THEN {passed[i].time : i \in DOMAIN passed}
    ELSE {heard[h][i].time : i \in DOMAIN heard[h]}

\* A rate leaves out nothing that is a period later than all it let by: the
\* first message passes, and so does each one that comes late enough.
LeftOutForRate ==
    \A out \in leftOut :
        /\ Throttled(AtRate(out.of))
        /\ \/ AtRate(out.of) = 0
           \/ \E time \in LetBy(out.of) :
                 ~ PeriodOver(out.stamp - time, AtRate(out.of))

\* A message that was delivered went to all the handlers that want it parsed
\* or to none, whatever order they are stored in, and they were given the
\* same; throttled ones may leave it out.
SameForAll ==
    LET wanting == {h \in Handlers : Suits(h) /\ ~ setup.handlers[h].raw}
        always == {h \in wanting : ~ Throttled(setup.handlers[h].msgsPerSec)}
        gotten(h) == {heard[h][i].msg : i \in DOMAIN heard[h]}
        travelling ==
            {at[t].msg : t \in {u \in RateThreads : at[u] # Resting}}
                \union {queue[i] : i \in DOMAIN queue}
    IN  /\ \A h \in wanting :
              \A msg \in gotten(h) \ travelling :
                  \A g \in always : msg \in gotten(g)
        /\ \A g, h \in wanting :
              \A i \in DOMAIN heard[g], j \in DOMAIN heard[h] :
                  heard[g][i].msg = heard[h][j].msg
                      => heard[g][i].given = heard[h][j].given

ThrottleSpec == ThrottleInit /\ [][ThrottleNext]_throttlevars

RatesKept ==
    /\ PublishedAtRate /\ HeardAtRate
    /\ LeftOutForRate
    /\ SameForAll
=============================================================================
