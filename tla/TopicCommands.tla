---------------------------- MODULE TopicCommands ---------------------------
(***************************************************************************)
(* `gz topic -p`, `-e` and `-f`: publishing one message once somebody      *)
(* listens, echoing messages and measuring their rate, with the main       *)
(* thread, the thread that runs the callbacks and signals interleaved.     *)
(***************************************************************************)
EXTENDS Integers, Sequences, FiniteSets

CONSTANTS
    Peer,           \* processes that may subscribe to the topic
    Command,        \* [op, count, duration, created, valid]
    Samples,        \* 11 in the code: the time stamps of one report
    Signal,         \* SIGINT and SIGTERM
    Patience,       \* polls of the wait for connections
    MaxMessages, MaxTopicEvents

VARIABLES
    cmd, tPc, tLeft,
    connected,      \* the subscribers the publisher has been told of
    always,         \* ghost: those it has had since the wait began
    heard,          \* those the message was sent to
    sent,           \* messages the callback has been called with
    printed,        \* messages echoed
    count, timeV,   \* of the callback
    reports,        \* windows of time stamps reported so far
    handlers, pipe, \* signal handlers, bytes in the pipe to oneself (-1: none)
    caught, killed, tEvents

topicVars == <<cmd, tPc, tLeft, connected, always, heard, sent, printed, count,
               timeV, reports, handlers, pipe, caught, killed, tEvents>>
callbackVars == <<sent, printed, count, timeV, reports>>
signalVars == <<handlers, pipe, caught, killed>>
peerVars == <<connected, always, heard, tEvents>>

ASSUME TopicAssumption ==
    /\ Samples \in Nat \ {0}
    /\ Patience \in Nat /\ MaxMessages \in Nat /\ MaxTopicEvents \in Nat
    /\ \A c \in Command : c.op \in {"pub", "echo", "hz"}
    /\ \A c \in Command : c.count \in Int

NoCommand == [op |-> "none", count |-> 0, duration |-> FALSE,
              created |-> FALSE, valid |-> FALSE]

TopicTypeOK ==
    /\ cmd \in Command \union {NoCommand}
    /\ tPc \in {"start", "wait", "publish", "flush", "running", "pipe",
               "install", "read", "leave", "end"}
    /\ connected \subseteq Peer /\ always \subseteq connected
    /\ sent \in 0..MaxMessages /\ printed \in 0..MaxMessages
    /\ handlers \subseteq Signal /\ pipe \in -1..MaxTopicEvents
    /\ tLeft \in 0..Patience

TopicInit ==
    /\ cmd = NoCommand /\ tPc = "start" /\ tLeft = Patience
    /\ connected = {} /\ always = {} /\ heard = {}
    /\ sent = 0 /\ printed = 0 /\ count = 0 /\ timeV = <<>> /\ reports = {}
    /\ handlers = {} /\ pipe = -1 /\ caught = 0 /\ killed = FALSE
    /\ tEvents = 0

(***************************************************************************)
(* cmdTopicPub.  The message may not be made of its text, or the topic     *)
(* name be refused; either ends the command.                               *)
(***************************************************************************)
StartTopic(c) ==
    /\ tPc = "start"
    /\ cmd' = c
    /\ tPc' = CASE ~c.valid -> "end"
               [] c.op = "pub" -> IF c.created THEN "wait" ELSE "end"
               [] c.op = "hz" -> "pipe"
               [] c.op = "echo" -> IF c.duration \/ c.count > 0
                                   THEN "running" ELSE "pipe"
    /\ UNCHANGED <<tLeft, peerVars, callbackVars, signalVars>>

\* waitUntil: HasConnections is looked at until the deadline and once more.
TopicSleep ==
    /\ tPc = "wait" /\ connected = {} /\ tLeft > 0
    /\ tLeft' \in 0..(tLeft - 1)
    /\ UNCHANGED <<cmd, tPc, peerVars, callbackVars, signalVars>>

StopWaiting ==
    /\ tPc = "wait" /\ (connected # {} \/ tLeft = 0)
    /\ tPc' = "publish"
    /\ UNCHANGED <<cmd, tLeft, peerVars, callbackVars, signalVars>>

Publish ==
    /\ tPc = "publish"
    /\ heard' = connected
    /\ tPc' = "flush"
    /\ UNCHANGED <<cmd, tLeft, connected, always, tEvents, callbackVars,
                   signalVars>>

\* A subscriber registers, or leaves.
Connect(p) ==
    /\ tPc \in {"wait", "publish", "flush"} /\ tEvents < MaxTopicEvents
    /\ tEvents' = tEvents + 1
    /\ IF p \in connected
       THEN connected' = connected \ {p} /\ always' = always \ {p}
       ELSE /\ connected' = connected \union {p}
            /\ always' = IF tPc = "wait" /\ connected = {} THEN {p} ELSE always
    /\ UNCHANGED <<cmd, tPc, tLeft, heard, callbackVars, signalVars>>

(***************************************************************************)
(* cmdTopicEcho and cmdTopicFrequency: the callbacks.  They may run until  *)
(* the node is destroyed, so also after the main thread has seen enough.   *)
(***************************************************************************)
Subscribed == tPc \in {"running", "pipe", "install", "read", "leave"}

Echo ==
    /\ cmd.op = "echo"
    /\ printed' = printed + 1 /\ count' = count + 1
    /\ UNCHANGED <<timeV, reports>>

\* A message that starts a window, or is in it, leaves its time; the one
\* after a full window reports it and leaves none.
Frequency ==
    /\ cmd.op = "hz"
    /\ LET starts == count > Samples \/ count = 0
           n == IF starts THEN 0 ELSE count
           stamps == IF starts THEN <<>> ELSE timeV
       IN /\ timeV' = IF n < Samples THEN Append(stamps, sent + 1) ELSE stamps
          /\ reports' = IF n = Samples THEN reports \union {stamps}
                                       ELSE reports
          /\ count' = n + 1
    /\ UNCHANGED printed

Callback ==
    /\ Subscribed /\ sent < MaxMessages
    /\ Echo \/ Frequency
    /\ sent' = sent + 1
    /\ UNCHANGED <<cmd, tPc, tLeft, peerVars, signalVars>>

(***************************************************************************)
(* The main thread: the given time, the given number of messages, or a     *)
(* signal (waitForShutdown).                                               *)
(***************************************************************************)
Enough ==
    /\ tPc = "running" /\ (cmd.duration \/ count >= cmd.count)
    /\ tPc' = "leave"
    /\ UNCHANGED <<cmd, tLeft, peerVars, callbackVars, signalVars>>

MakePipe ==
    /\ tPc = "pipe"
    /\ \/ pipe' = 0 /\ tPc' = "install"
       \/ pipe' = pipe /\ tPc' = "leave"
    /\ UNCHANGED <<cmd, tLeft, peerVars, callbackVars, handlers, caught,
                   killed>>

Install(s) ==
    /\ tPc = "install" /\ s \notin handlers
    /\ handlers' = handlers \union {s}
    /\ tPc' = IF handlers' = Signal THEN "read" ELSE tPc
    /\ UNCHANGED <<cmd, tLeft, peerVars, callbackVars, pipe, caught, killed>>

Read ==
    /\ tPc = "read" /\ pipe > 0
    /\ pipe' = pipe - 1
    /\ tPc' = "leave"
    /\ UNCHANGED <<cmd, tLeft, peerVars, callbackVars, handlers, caught,
                   killed>>

\* A signal without a handler ends the process.
Signalled(s) ==
    /\ tPc \notin {"start", "end"} /\ tEvents < MaxTopicEvents
    /\ tEvents' = tEvents + 1
    /\ IF s \in handlers
       THEN /\ pipe' = IF pipe < 0 THEN pipe ELSE pipe + 1
            /\ caught' = caught + 1
            /\ UNCHANGED <<tPc, killed>>
       ELSE killed' = TRUE /\ tPc' = "end" /\ UNCHANGED <<pipe, caught>>
    /\ UNCHANGED <<cmd, tLeft, connected, always, heard, callbackVars,
                   handlers>>

\* The node goes: its subscriptions end, and what is still queued is lost.
Leave ==
    /\ tPc \in {"leave", "flush"}
    /\ tPc' = "end"
    /\ UNCHANGED <<cmd, tLeft, peerVars, callbackVars, signalVars>>

TopicNext ==
    \/ \E c \in Command : StartTopic(c)
    \/ TopicSleep \/ StopWaiting \/ Publish
    \/ \E p \in Peer : Connect(p)
    \/ Callback \/ Enough \/ MakePipe \/ Read \/ Leave
    \/ \E s \in Signal : Install(s) \/ Signalled(s)

TopicSpec == TopicInit /\ [][TopicNext]_topicVars

(***************************************************************************)
(* Properties.                                                             *)
(***************************************************************************)
\* A message is published to whoever ended the wait and stayed, and to nobody
\* only when the wait ran out or who ended it has gone; echo ends by itself
\* only when it has printed what it was asked for; the messages are reported
\* in windows of consecutive ones, no message in two of them, and none missed;
\* a signal that was caught ends the command, be it between the installation
\* of the handlers and the read.
\* (gz.cc:138-193, 402-551, WaitHelpers.cc:66-108)
CommandsServe ==
    /\ TopicTypeOK
    /\ tPc = "flush" => always \subseteq heard
    /\ tPc = "flush" /\ heard = {} => tLeft = 0 \/ tEvents > 1
    /\ tPc \in {"leave", "end"} /\ cmd.op = "echo" /\ cmd.valid
           /\ ~cmd.duration /\ cmd.count > 0 /\ ~killed => printed >= cmd.count
    /\ \A r \in reports :
           /\ Len(r) = Samples
           /\ \A i \in 1..(Len(r) - 1) : r[i + 1] = r[i] + 1
    /\ \A r, q \in reports :
           r # q => {r[i] : i \in DOMAIN r} \intersect {q[i] : i \in DOMAIN q}
                        = {}
    /\ cmd.op = "hz" => Cardinality(reports) = sent \div (Samples + 1)
    /\ caught > 0 /\ tPc \in {"install", "read"} => pipe > 0
=============================================================================
