------------------------------ MODULE Recorder ------------------------------
(***************************************************************************)
(* The data path of log::Recorder (log/src/Recorder.cc): callbacks queue   *)
(* the messages they are given, a writer thread moves them to the log      *)
(* file, and Stop ends the writer and writes what is left itself.          *)
(*                                                                         *)
(* dataQueueMutex guards the queue and bufferSize.  Only the writer keeps  *)
(* it from one action to the next, in the instant between evaluating the   *)
(* wait predicate and falling asleep.  dataWriterState is an atomic flag   *)
(* that is read and written without the mutex.                             *)
(***************************************************************************)
EXTENDS Integers, Sequences, SequencesExt

CONSTANTS
    Thread,             \* threads that run subscription callbacks
    Lengths,            \* sizes of messages
    BufferSizes,        \* arguments of SetBufferSize; 0 is "infinite"
    DefaultBufferSize,
    MaxMessages         \* bound of the instance: later no callback begins

ASSUME SizesAssumption ==
    /\ Lengths \subseteq Nat
    /\ BufferSizes \subseteq Nat
    /\ DefaultBufferSize \in BufferSizes
    /\ MaxMessages \in Nat

VARIABLES
    logFile,          \* whether Implementation::logFile is open
    dataQueue,        \* Implementation::dataQueue
    bufferSize,       \* Implementation::bufferSize
    maxBufferSize,    \* Implementation::maxBufferSize
    dataWriterState,  \* Implementation::dataWriterState
    writer,           \* where the writer thread is
    inHand,           \* the writer's logData
    user,             \* where the thread that calls Start and Stop is
    callback,         \* message each callback is about to queue
    clock,            \* Recorder::clock, a tick per message queued
    written,          \* history: messages inserted into log files, in order
    dropped,          \* history: stamps of the messages popped for room
    refused,          \* history: stamps of the messages the log did not take
    stopAt            \* history: the time of the last call of Stop

control == <<logFile, dataWriterState, user, stopAt>>
queue == <<dataQueue, bufferSize, clock, dropped>>
output == <<written, refused>>
vars == <<control, queue, maxBufferSize, writer, inHand, callback, output>>

LogData == [stamp : Nat, len : Lengths]

NoMessage == -1

\* The writer exists from Start to the join in Stop.
WriterState == {"none", "top", "lock", "decided", "asleep", "write", "done"}
UserState == {"idle", "notify", "join", "flush", "close"}

Stamps(msgs) == {msgs[i].stamp : i \in DOMAIN msgs}

Init ==
    /\ logFile = FALSE
    /\ dataQueue = <<>>
    /\ bufferSize = 0
    /\ maxBufferSize = DefaultBufferSize
    /\ dataWriterState = FALSE
    /\ writer = "none"
    /\ inHand = <<>>
    /\ user = "idle"
    /\ callback = [t \in Thread |-> NoMessage]
    /\ clock = 0
    /\ written = <<>>
    /\ dropped = {}
    /\ refused = {}
    /\ stopAt = 0

(***************************************************************************)
(* Callbacks.                                                              *)
(***************************************************************************)
\* A callback looks at the flag first, without the mutex; when the writer
\* does not run, the message is ignored.
OnMessageReceived(t, len) ==
    /\ callback[t] = NoMessage
    /\ dataWriterState
    /\ clock < MaxMessages
    /\ callback' = [callback EXCEPT ![t] = len]
    /\ UNCHANGED <<control, queue, maxBufferSize, writer, inHand, output>>

\* Mutant: the counter is reset when a message is dropped.
DecrementToZero(len) == 0

DecrementBufferSize(len) == IF bufferSize >= len THEN bufferSize - len ELSE 0

\* The oldest message gives way when the new one seems not to fit.
Overflows(len) ==
    /\ maxBufferSize > 0
    /\ bufferSize + len > maxBufferSize
    /\ dataQueue # <<>>

\* Mutant: the writer is not notified.
NotNotified == writer

\* notify_one: the writer, if it sleeps, goes on to take the mutex again.
Notified == IF writer = "asleep" THEN "lock" ELSE writer

\* The rest of the callback, under the mutex: the message is stamped, queued
\* and the writer notified.
Enqueue(t) ==
    LET len == callback[t]
        data == [stamp |-> clock + 1, len |-> len]
    IN  /\ len # NoMessage
        /\ writer # "decided"
        /\ IF Overflows(len)
           THEN /\ dataQueue' = Append(Tail(dataQueue), data)
                /\ bufferSize' =
                       DecrementBufferSize(Head(dataQueue).len) + len
                /\ dropped' = dropped \union {Head(dataQueue).stamp}
           ELSE /\ dataQueue' = Append(dataQueue, data)
                /\ bufferSize' = bufferSize + len
                /\ UNCHANGED dropped
        /\ clock' = clock + 1
        /\ writer' = Notified
        /\ callback' = [callback EXCEPT ![t] = NoMessage]
        /\ UNCHANGED <<control, maxBufferSize, inHand, output>>

(***************************************************************************)
(* The writer thread.                                                      *)
(***************************************************************************)
\* The condition of the loop.
WriterTop ==
    /\ writer = "top"
    /\ writer' = IF dataWriterState THEN "lock" ELSE "done"
    /\ UNCHANGED <<control, queue, maxBufferSize, inHand, callback, output>>

\* With the mutex, on entry or back from a wait: a message is popped and the
\* mutex released.  bufferSize is left as it is.
WriterPop ==
    /\ writer = "lock"
    /\ dataQueue # <<>>
    /\ inHand' = <<Head(dataQueue)>>
    /\ dataQueue' = Tail(dataQueue)
    /\ writer' = "write"
    /\ UNCHANGED <<control, bufferSize, clock, dropped, maxBufferSize,
                   callback, output>>

\* With the mutex and an empty queue, the wait predicate reads the flag.
WriterDecide ==
    /\ writer = "lock"
    /\ dataQueue = <<>>
    /\ writer' = IF dataWriterState THEN "decided" ELSE "top"
    /\ UNCHANGED <<control, queue, maxBufferSize, inHand, callback, output>>

\* wait releases the mutex and sleeps: only now can a notify be heard.
WriterSleep ==
    /\ writer = "decided"
    /\ writer' = "asleep"
    /\ UNCHANGED <<control, queue, maxBufferSize, inHand, callback, output>>

\* A condition variable may also wake up by itself.
SpuriousWake ==
    /\ writer = "asleep"
    /\ writer' = "lock"
    /\ UNCHANGED <<control, queue, maxBufferSize, inHand, callback, output>>

\* WriteToLogFile skips the message when no log file is open.  The log takes
\* no message that is empty, and none if a statement fails (LogFile): the
\* recorder warns, and goes on with the next message.
WriteToLogFile(data, fails) ==
    LET taken == data.len # 0 /\ ~ fails
    IN  /\ written' = IF logFile /\ taken THEN Append(written, data)
                      ELSE written
        /\ refused' = IF logFile /\ ~ taken THEN refused \union {data.stamp}
                      ELSE refused

WriterWrite(fails) ==
    /\ writer = "write"
    /\ WriteToLogFile(Head(inHand), fails)
    /\ inHand' = <<>>
    /\ writer' = "top"
    /\ UNCHANGED <<control, queue, maxBufferSize, callback>>

(***************************************************************************)
(* Start, Stop and SetBufferSize, called by one thread.                    *)
(***************************************************************************)
Start ==
    /\ user = "idle"
    /\ ~ logFile
    /\ logFile' = TRUE
    /\ dataWriterState' = TRUE
    /\ writer' = "top"
    /\ UNCHANGED <<queue, maxBufferSize, inHand, user, callback, output,
                   stopAt>>

\* Stop clears the flag without the mutex, ...
Stop ==
    /\ user = "idle"
    /\ logFile
    /\ dataWriterState' = FALSE
    /\ user' = "notify"
    /\ stopAt' = clock
    /\ UNCHANGED <<logFile, queue, maxBufferSize, writer, inHand, callback,
                   output>>

\* ... notifies the writer, ...
StopNotify ==
    /\ user = "notify"
    /\ writer' = Notified
    /\ user' = "join"
    /\ UNCHANGED <<logFile, dataWriterState, stopAt, queue, maxBufferSize,
                   inHand, callback, output>>

\* Mutant: Stop does not wait for the writer.
StopJoinEarly ==
    /\ user = "join"
    /\ user' = "flush"
    /\ UNCHANGED <<logFile, dataWriterState, stopAt, queue, maxBufferSize,
                   writer, inHand, callback, output>>

\* Mutant: the log file is closed before what is left is written.
StopJoinClosing ==
    /\ user = "join"
    /\ writer = "done"
    /\ writer' = "none"
    /\ logFile' = FALSE
    /\ user' = "flush"
    /\ UNCHANGED <<dataWriterState, stopAt, queue, maxBufferSize, inHand,
                   callback, output>>

\* ... joins it, ...
StopJoin ==
    /\ user = "join"
    /\ writer = "done"
    /\ writer' = "none"
    /\ user' = "flush"
    /\ UNCHANGED <<logFile, dataWriterState, stopAt, queue, maxBufferSize,
                   inHand, callback, output>>

\* ... writes what is left in the queue (FlushDataQueue), message by message, ...
FlushOne(fails) ==
    /\ user = "flush"
    /\ dataQueue # <<>>
    /\ dataQueue' = Tail(dataQueue)
    /\ WriteToLogFile(Head(dataQueue), fails)
    /\ UNCHANGED <<control, bufferSize, clock, dropped, maxBufferSize, writer,
                   inHand, callback>>

\* Mutant: what is left is not written.
FlushSkipped ==
    /\ user = "flush"
    /\ user' = "close"
    /\ UNCHANGED <<logFile, dataWriterState, stopAt, queue, maxBufferSize,
                   writer, inHand, callback, output>>

FlushDone ==
    /\ user = "flush"
    /\ dataQueue = <<>>
    /\ user' = "close"
    /\ UNCHANGED <<logFile, dataWriterState, stopAt, queue, maxBufferSize,
                   writer, inHand, callback, output>>

\* ... and closes the log file.
Close ==
    /\ user = "close"
    /\ logFile' = FALSE
    /\ user' = "idle"
    /\ UNCHANGED <<dataWriterState, stopAt, queue, maxBufferSize, writer,
                   inHand, callback, output>>

SetBufferSize(size) ==
    /\ user = "idle"
    /\ maxBufferSize' = size
    /\ UNCHANGED <<control, queue, writer, inHand, callback, output>>

(***************************************************************************)
(* The specification.                                                      *)
(***************************************************************************)
Writer ==
    \/ WriterTop \/ WriterPop \/ WriterDecide \/ WriterSleep
    \/ \E fails \in BOOLEAN : WriterWrite(fails)

\* The steps that end a call of Stop.
Stopping ==
    \/ StopNotify \/ StopJoin \/ FlushDone \/ Close
    \/ \E fails \in BOOLEAN : FlushOne(fails)

Next ==
    \/ \E t \in Thread :
          \/ \E len \in Lengths : OnMessageReceived(t, len)
          \/ Enqueue(t)
    \/ Writer
    \/ SpuriousWake
    \/ Start
    \/ Stop
    \/ Stopping
    \/ \E size \in BufferSizes : SetBufferSize(size)

Spec == Init /\ [][Next]_vars

\* The writer, a call of Stop and a callback that has begun go on when they
\* can.  No message need come, and a spurious wakeup is not to be relied on.
FairSpec ==
    /\ Spec
    /\ WF_vars(Writer)
    /\ WF_vars(Stopping)
    /\ \A t \in Thread : WF_vars(Enqueue(t))

(***************************************************************************)
(* Properties.                                                             *)
(***************************************************************************)
Types ==
    /\ logFile \in BOOLEAN
    /\ dataQueue \in Seq(LogData)
    /\ bufferSize \in Nat
    /\ maxBufferSize \in BufferSizes
    /\ dataWriterState \in BOOLEAN
    /\ writer \in WriterState
    /\ inHand \in Seq(LogData)
    /\ user \in UserState
    /\ callback \in [Thread -> Lengths \union {NoMessage}]
    /\ clock \in Nat
    /\ written \in Seq(LogData)
    /\ dropped \in SUBSET Nat
    /\ refused \in SUBSET Nat
    /\ stopAt \in 0..clock

\* The writer holds a message between a pop and a write only, and runs from
\* Start until Stop has joined it.
Lifecycle ==
    /\ IF writer = "write" THEN Len(inHand) = 1 ELSE inHand = <<>>
    /\ user # "idle" => logFile
    /\ dataWriterState <=> logFile /\ user = "idle"
    /\ writer = "none" <=> ~ logFile \/ user \in {"flush", "close"}
    /\ writer = "done" => ~ dataWriterState

\* The types, and which thread does what when: Stop's steps and the writer
\* hand the queue and the log file over to each other.
TypeOK == Types /\ Lifecycle

\* Messages on their way, oldest first.
Pipeline == written \o inHand \o dataQueue

\* Messages are written in the order of their stamps, although the writer and
\* Stop both take them off the queue and write them without its mutex.
InOrder ==
    \A i, j \in DOMAIN Pipeline :
        i < j => Pipeline[i].stamp < Pipeline[j].stamp

\* Every message queued is in a log file, on its way to it, was dropped for
\* room, or was refused by the log: none is written while no log file is open,
\* where WriteToLogFile would skip it.
NothingLost == 1..clock = Stamps(Pipeline) \union dropped \union refused

\* When Stop is about to close the log file, every message queued before it
\* was called is in it, was dropped or was refused ("This function will block
\* if there is any data in the internal buffer that has not yet been
\* written").
StopDrains ==
    user = "close" =>
        1..stopAt \subseteq Stamps(written) \union dropped \union refused

QueuedBytes == FoldSeq(LAMBDA data, sum : sum + data.len, 0, dataQueue)

\* bufferSize never says less than what the queue holds: the branch of
\* DecrementBufferSize that "shouldn't happen" does not.
NeverUndercounts == bufferSize >= QueuedBytes

\* While the recorder is not asked to stop, a message of the queue is given to
\* the log or dropped: no notification of a message is lost.
Written ==
    \A s \in 1..MaxMessages :
        s \in Stamps(dataQueue) /\ dataWriterState
            ~> \/ s \in Stamps(written) \union dropped \union refused
               \/ ~ dataWriterState

\* SetBufferSize: "when the buffer reaches this size, the recorder will start
\* dropping older messages to make room for new ones".  The code also drops
\* them when there is room: bufferSize counts what was written long ago.
DropsForRoomOnly ==
    [][dropped' # dropped =>
           QueuedBytes + dataQueue'[Len(dataQueue')].len > maxBufferSize]_vars

\* Stop returns.  The code does not ensure it: the flag is cleared and the
\* writer notified without the mutex, so a writer that has just read the flag
\* falls asleep after the only notification.
StopReturns == user = "join" ~> user = "idle"
=============================================================================
