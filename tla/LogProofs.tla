----------------------------- MODULE LogProofs ------------------------------
(***************************************************************************)
(* Theorems about the log library: Recorder, for any threads, message      *)
(* sizes, buffer sizes and number of messages; and LogFile, for any        *)
(* topics, times, sizes and period, and any sequence of failures and       *)
(* crashes.                                                                *)
(***************************************************************************)
EXTENDS Recorder, LogFile, Playback, SequenceTheorems, FiniteSetTheorems,
        TLAPS

(***************************************************************************)
(*                                                                         *)
(* Recorder.                                                               *)
(*                                                                         *)
(***************************************************************************)

(***************************************************************************)
(* Types.                                                                  *)
(***************************************************************************)
LEMMA InitType == Init => TypeOK
<1>1. ASSUME Init PROVE Types
  <2> USE <1>1 DEF Init
  <2>1. dataQueue \in Seq(LogData) /\ inHand \in Seq(LogData)
        /\ written \in Seq(LogData)
    OBVIOUS
  <2>2. maxBufferSize \in BufferSizes
    BY SizesAssumption
  <2>3. /\ dropped \in SUBSET Nat /\ refused \in SUBSET Nat
        /\ clock \in Nat /\ stopAt \in 0..clock
    OBVIOUS
  <2>4. callback \in [Thread -> Lengths \union {NoMessage}]
    OBVIOUS
  <2> QED BY <2>1, <2>2, <2>3, <2>4 DEF Types, WriterState, UserState
<1>2. Init => Lifecycle
    BY DEF Init, Lifecycle
<1> QED BY <1>1, <1>2 DEF TypeOK

LEMMA DecrementType ==
    ASSUME bufferSize \in Nat, NEW len \in Nat
    PROVE  DecrementBufferSize(len) \in Nat
BY DEF DecrementBufferSize

\* What Enqueue makes of the queue.
LEMMA QueuedType ==
    ASSUME NEW q \in Seq(LogData), NEW data \in LogData
    PROVE  /\ Append(q, data) \in Seq(LogData)
           /\ q # <<>> =>
                 /\ Head(q) \in LogData
                 /\ Tail(q) \in Seq(LogData)
                 /\ Append(Tail(q), data) \in Seq(LogData)
OBVIOUS

\* A message in hand.
LEMMA OneMessage ==
    ASSUME NEW S, NEW q \in Seq(S), Len(q) = 1
    PROVE  Head(q) \in S /\ q = <<Head(q)>>
<1>1. q[1] \in S /\ Head(q) = q[1]
  BY ElementOfSeq
<1>2. /\ <<Head(q)>> \in Seq(S) /\ Len(<<Head(q)>>) = 1
      /\ \A i \in 1..Len(q) : q[i] = <<Head(q)>>[i]
  BY <1>1
<1> QED
  BY <1>1, <1>2, SeqEqual

\* What the log is given, it has or refuses; and it takes one at most.
LEMMA GivenToLog ==
    ASSUME TypeOK, logFile, NEW data \in LogData, NEW fails \in BOOLEAN,
           WriteToLogFile(data, fails)
    PROVE  /\ written' \in Seq(LogData) /\ refused' \in SUBSET Nat
           /\ \/ written' = written \o <<data>> /\ refused' = refused
              \/ /\ written' = written
                 /\ refused' = refused \union {data.stamp}
<1>1. written \in Seq(LogData) /\ refused \in SUBSET Nat
  BY DEF TypeOK, Types
<1>2. data.stamp \in Nat
  BY DEF LogData
<1>3. /\ Append(written, data) \in Seq(LogData)
      /\ Append(written, data) = written \o <<data>>
  BY <1>1, AppendIsConcat
<1> QED
  BY <1>1, <1>2, <1>3 DEF WriteToLogFile

LEMMA OnMessageReceivedType ==
    ASSUME TypeOK, NEW t \in Thread, NEW len \in Lengths,
           OnMessageReceived(t, len)
    PROVE  TypeOK'
<1> USE DEF TypeOK, OnMessageReceived, control, queue, output
<1>1. Types'
    BY DEF Types
<1>2. Lifecycle'
    BY DEF Lifecycle
<1> QED BY <1>1, <1>2

LEMMA EnqueueType ==
    ASSUME TypeOK, NEW t \in Thread, Enqueue(t)
    PROVE  TypeOK'
<1> DEFINE len == callback[t]
           data == [stamp |-> clock + 1, len |-> len]
<1> USE DEF TypeOK, Types
<1>1. len \in Lengths /\ len \in Nat /\ data \in LogData
  <2>1. len \in Lengths \union {NoMessage} /\ len # NoMessage
    BY DEF Enqueue
  <2>2. len \in Lengths
    BY <2>1
  <2>3. len \in Nat
    BY <2>2, SizesAssumption
  <2> QED BY <2>2, <2>3 DEF LogData
<1>2. dataQueue' \in Seq(LogData)
  <2>1. dataQueue \in Seq(LogData) /\ data \in LogData
    BY <1>1
  <2> HIDE DEF data
  <2>2. /\ Append(dataQueue, data) \in Seq(LogData)
        /\ dataQueue # <<>> => Append(Tail(dataQueue), data) \in Seq(LogData)
    BY <2>1, QueuedType
  <2>3. \/ dataQueue # <<>> /\ dataQueue' = Append(Tail(dataQueue), data)
        \/ dataQueue' = Append(dataQueue, data)
    BY DEF Enqueue, Overflows, data
  <2> QED BY <2>2, <2>3
<1>3. bufferSize' \in Nat
  <2>1. CASE Overflows(len)
    <3>1. Head(dataQueue) \in LogData
        BY <2>1, QueuedType, <1>1 DEF Overflows, TypeOK, Types
    <3>2. Head(dataQueue).len \in Nat
        BY <3>1, SizesAssumption DEF LogData
    <3>3. DecrementBufferSize(Head(dataQueue).len) \in Nat
        BY <3>2, DecrementType
    <3>4. bufferSize' = DecrementBufferSize(Head(dataQueue).len) + len
        BY <2>1 DEF Enqueue
    <3> QED BY <3>3, <3>4, <1>1
  <2>2. CASE ~ Overflows(len)
    BY <2>2, <1>1 DEF Enqueue, TypeOK, Types
  <2> QED BY <2>1, <2>2
<1>4. dropped' \in SUBSET Nat
  <2>1. CASE Overflows(len)
    <3>1. Head(dataQueue) \in LogData
        BY <2>1, QueuedType, <1>1 DEF Overflows, TypeOK, Types
    <3> QED BY <2>1, <3>1 DEF Enqueue, TypeOK, Types, LogData
  <2>2. CASE ~ Overflows(len)
    BY <2>2 DEF Enqueue, TypeOK, Types
  <2> QED BY <2>1, <2>2
<1>5. writer' \in WriterState
    BY DEF Enqueue, Notified, TypeOK, Types, WriterState
<1>6. Types'
    BY <1>2, <1>3, <1>4, <1>5
    DEF Enqueue, TypeOK, Types, control, output
<1>7. Lifecycle'
    BY DEF Enqueue, Notified, TypeOK, Lifecycle, control, output
<1> QED BY <1>6, <1>7 DEF TypeOK

LEMMA WriterType ==
    ASSUME TypeOK, Writer \/ SpuriousWake
    PROVE  TypeOK'
<1> USE DEF TypeOK, control, queue, output
<1>1. CASE WriterTop
  <2>1. Types'
    BY <1>1 DEF WriterTop, Types, WriterState
  <2>2. Lifecycle'
    BY <1>1 DEF WriterTop, Types, Lifecycle
  <2> QED BY <2>1, <2>2
<1>2. CASE WriterPop
  <2>1. Head(dataQueue) \in LogData /\ Tail(dataQueue) \in Seq(LogData)
    BY <1>2 DEF WriterPop, Types
  <2>2. inHand' \in Seq(LogData)
    BY <1>2, <2>1 DEF WriterPop
  <2>3. Types'
    BY <1>2, <2>1, <2>2 DEF WriterPop, Types, WriterState
  <2>4. Lifecycle'
    BY <1>2 DEF WriterPop, Lifecycle
  <2> QED BY <2>3, <2>4
<1>3. CASE WriterDecide
  <2>1. Types'
    BY <1>3 DEF WriterDecide, Types, WriterState
  <2>2. Lifecycle'
    BY <1>3 DEF WriterDecide, Lifecycle
  <2> QED BY <2>1, <2>2
<1>4. CASE WriterSleep \/ SpuriousWake
  <2>1. Types'
    BY <1>4 DEF WriterSleep, SpuriousWake, Types, WriterState
  <2>2. Lifecycle'
    BY <1>4 DEF WriterSleep, SpuriousWake, Lifecycle
  <2> QED BY <2>1, <2>2
<1>5. ASSUME NEW fails \in BOOLEAN, WriterWrite(fails) PROVE TypeOK'
  <2>1. logFile /\ Head(inHand) \in LogData
    BY <1>5, OneMessage DEF WriterWrite, Types, Lifecycle
  <2>2. written' \in Seq(LogData) /\ refused' \in SUBSET Nat
    BY <1>5, <2>1, GivenToLog DEF WriterWrite
  <2>3. Types'
    BY <1>5, <2>2 DEF WriterWrite, Types, WriterState
  <2>4. Lifecycle'
    BY <1>5 DEF WriterWrite, Lifecycle
  <2> QED BY <2>3, <2>4
<1> QED BY <1>1, <1>2, <1>3, <1>4, <1>5 DEF Writer

LEMMA UserType ==
    ASSUME TypeOK,
           Start \/ Stop \/ Stopping
               \/ \E size \in BufferSizes : SetBufferSize(size)
    PROVE  TypeOK'
<1> USE DEF TypeOK, control, queue, output
<1>1. CASE Start
  <2>1. Types'
    BY <1>1 DEF Start, Types, WriterState
  <2>2. Lifecycle'
    BY <1>1 DEF Start, Lifecycle
  <2> QED BY <2>1, <2>2
<1>2. CASE Stop
  <2>1. stopAt' \in 0..clock'
    BY <1>2 DEF Stop, Types
  <2>2. user' \in UserState /\ dataWriterState' \in BOOLEAN
    BY <1>2 DEF Stop, UserState
  <2>3. Types'
    BY <1>2, <2>1, <2>2 DEF Stop, Types
  <2>4. Lifecycle'
    BY <1>2 DEF Stop, Lifecycle
  <2> QED BY <2>3, <2>4
<1>3. CASE StopNotify
  <2>1. Types'
    BY <1>3 DEF StopNotify, Notified, Types, UserState, WriterState
  <2>2. Lifecycle'
    BY <1>3 DEF StopNotify, Notified, Lifecycle
  <2> QED BY <2>1, <2>2
<1>4. CASE StopJoin
  <2>1. Types'
    BY <1>4 DEF StopJoin, Types, UserState, WriterState
  <2>2. Lifecycle'
    BY <1>4 DEF StopJoin, Lifecycle
  <2> QED BY <2>1, <2>2
<1>5. ASSUME NEW fails \in BOOLEAN, FlushOne(fails) PROVE TypeOK'
  <2>1. /\ Head(dataQueue) \in LogData /\ Tail(dataQueue) \in Seq(LogData)
        /\ logFile
    BY <1>5 DEF FlushOne, Types, Lifecycle
  <2>3. written' \in Seq(LogData) /\ refused' \in SUBSET Nat
    BY <1>5, <2>1, GivenToLog DEF FlushOne
  <2>4. Types'
    BY <1>5, <2>1, <2>3 DEF FlushOne, Types
  <2>5. Lifecycle'
    BY <1>5 DEF FlushOne, Lifecycle
  <2> QED BY <2>4, <2>5
<1>6. CASE FlushDone \/ Close
  <2>1. Types'
    BY <1>6 DEF FlushDone, Close, Types, UserState
  <2>2. Lifecycle'
    BY <1>6 DEF FlushDone, Close, Lifecycle
  <2> QED BY <2>1, <2>2
<1>7. CASE \E size \in BufferSizes : SetBufferSize(size)
  <2>1. Types'
    BY <1>7 DEF SetBufferSize, Types
  <2>2. Lifecycle'
    BY <1>7 DEF SetBufferSize, Lifecycle
  <2> QED BY <2>1, <2>2
<1> QED BY <1>1, <1>2, <1>3, <1>4, <1>5, <1>6, <1>7 DEF Stopping

LEMMA StepType == TypeOK /\ [Next]_vars => TypeOK'
<1> SUFFICES ASSUME TypeOK, [Next]_vars PROVE TypeOK'
    OBVIOUS
<1>1. CASE UNCHANGED vars
    BY <1>1 DEF vars, control, queue, output, TypeOK, Types, Lifecycle
<1>2. CASE Next
    BY <1>2, OnMessageReceivedType, EnqueueType, WriterType, UserType DEF Next
<1> QED BY <1>1, <1>2

\* The recorder's variables keep their types, and the writer thread and Stop
\* hand over to each other as Lifecycle says.
THEOREM TypeCorrect == Spec => []TypeOK
BY InitType, StepType, PTL DEF Spec

(***************************************************************************)
(* Stamps of sequences of messages.                                        *)
(***************************************************************************)
LEMMA StampsAt ==
    ASSUME NEW a \in Seq(LogData), NEW i \in 1..Len(a)
    PROVE  a[i].stamp \in Stamps(a)
BY DEF Stamps

LEMMA StampsConcat ==
    ASSUME NEW a \in Seq(LogData), NEW b \in Seq(LogData)
    PROVE  Stamps(a \o b) = Stamps(a) \union Stamps(b)
<1>1. /\ Len(a \o b) = Len(a) + Len(b)
      /\ \A i \in 1..Len(a) : (a \o b)[i] = a[i]
      /\ \A i \in 1..Len(b) : (a \o b)[Len(a) + i] = b[i]
    BY ConcatProperties
<1>2. ASSUME NEW i \in 1..(Len(a) + Len(b))
      PROVE  \/ i \in 1..Len(a)
             \/ i - Len(a) \in 1..Len(b) /\ i = Len(a) + (i - Len(a))
    OBVIOUS
<1>3. Stamps(a \o b) \subseteq Stamps(a) \union Stamps(b)
    BY <1>1, <1>2 DEF Stamps
<1>4. Stamps(a) \union Stamps(b) \subseteq Stamps(a \o b)
  <2>1. a \o b \in Seq(LogData)
    BY ConcatProperties
  <2>2. ASSUME NEW i \in 1..Len(a) PROVE a[i].stamp \in Stamps(a \o b)
    <3>1. i \in 1..Len(a \o b)
        BY <1>1
    <3> QED BY <3>1, <2>1, <1>1, StampsAt
  <2>3. ASSUME NEW i \in 1..Len(b) PROVE b[i].stamp \in Stamps(a \o b)
    <3>1. Len(a) + i \in 1..Len(a \o b)
        BY <1>1
    <3>2. (a \o b)[Len(a) + i].stamp \in Stamps(a \o b)
        BY <3>1, <2>1, StampsAt
    <3> QED BY <3>2, <1>1
  <2>4. /\ Stamps(a) = {a[i].stamp : i \in 1..Len(a)}
        /\ Stamps(b) = {b[i].stamp : i \in 1..Len(b)}
    BY DEF Stamps
  <2> HIDE DEF Stamps
  <2> QED BY <2>2, <2>3, <2>4
<1> QED BY <1>3, <1>4

LEMMA StampsAppend ==
    ASSUME NEW a \in Seq(LogData), NEW data \in LogData
    PROVE  Stamps(Append(a, data)) = Stamps(a) \union {data.stamp}
<1>1. /\ Len(Append(a, data)) = Len(a) + 1
      /\ \A i \in 1..Len(a) : Append(a, data)[i] = a[i]
      /\ Append(a, data)[Len(a) + 1] = data
    BY AppendProperties
<1> QED BY <1>1 DEF Stamps

LEMMA StampsHeadTail ==
    ASSUME NEW q \in Seq(LogData), q # <<>>
    PROVE  Stamps(q) = {Head(q).stamp} \union Stamps(Tail(q))
<1>1. /\ Head(q) = q[1]
      /\ Len(q) \in Nat \ {0}
      /\ Len(Tail(q)) = Len(q) - 1
      /\ \A i \in 1..Len(Tail(q)) : Tail(q)[i] = q[i + 1]
    BY HeadTailProperties
<1>2. Stamps(q) \subseteq {Head(q).stamp} \union Stamps(Tail(q))
  <2>1. SUFFICES ASSUME NEW i \in 1..Len(q), i # 1
                 PROVE  q[i].stamp \in Stamps(Tail(q))
    BY <1>1 DEF Stamps
  <2>2. i - 1 \in 1..Len(Tail(q)) /\ Tail(q)[i - 1] = q[i]
    BY <1>1, <2>1
  <2>3. Tail(q)[i - 1].stamp \in Stamps(Tail(q))
    BY <2>2, HeadTailProperties, StampsAt
  <2> QED BY <2>2, <2>3
<1>3. {Head(q).stamp} \union Stamps(Tail(q)) \subseteq Stamps(q)
    BY <1>1 DEF Stamps
<1> QED BY <1>2, <1>3

\* Moving the head of a queue to the end of what precedes it changes nothing.
LEMMA MoveHead ==
    ASSUME NEW a \in Seq(LogData), NEW q \in Seq(LogData), q # <<>>
    PROVE  (a \o <<Head(q)>>) \o Tail(q) = a \o q
<1>1. /\ Head(q) \in LogData /\ Tail(q) \in Seq(LogData)
      /\ <<Head(q)>> \in Seq(LogData)
    OBVIOUS
<1>2. <<Head(q)>> \o Tail(q) = q
    OBVIOUS
<1> QED BY <1>1, <1>2, ConcatAssociative

(***************************************************************************)
(* Nothing is lost.                                                        *)
(***************************************************************************)
LEMMA StampsConcatTwice ==
    ASSUME NEW a \in Seq(LogData), NEW b \in Seq(LogData),
           NEW c \in Seq(LogData)
    PROVE  Stamps(a \o b \o c) = Stamps(a) \union Stamps(b) \union Stamps(c)
<1>1. a \o b \in Seq(LogData)
    BY ConcatProperties
<1> QED BY <1>1, StampsConcat

\* Every step but Enqueue leaves the pipeline as it is, or takes out of it the
\* message that the log refuses.
Moves == Writer \/ SpuriousWake \/ Start \/ Stop \/ Stopping
             \/ \E size \in BufferSizes : SetBufferSize(size)

Refuses ==
    \E a, q \in Seq(LogData) :
        /\ q # <<>>
        /\ Pipeline = a \o q /\ Pipeline' = a \o Tail(q)
        /\ refused' = refused \union {Head(q).stamp}

LEMMA ConsSeq ==
    ASSUME NEW data \in LogData, NEW q \in Seq(LogData)
    PROVE  /\ <<data>> \o q \in Seq(LogData) /\ <<data>> \o q # <<>>
           /\ Head(<<data>> \o q) = data /\ Tail(<<data>> \o q) = q
OBVIOUS

LEMMA WriterWriteMoves ==
    ASSUME TypeOK, NEW fails \in BOOLEAN, WriterWrite(fails)
    PROVE  (Pipeline' = Pipeline /\ refused' = refused) \/ Refuses
<1>1. /\ written \in Seq(LogData) /\ inHand \in Seq(LogData)
      /\ dataQueue \in Seq(LogData)
    BY DEF TypeOK, Types
<1>2. logFile /\ Len(inHand) = 1
    BY DEF WriterWrite, TypeOK, Lifecycle
<1>3. Head(inHand) \in LogData /\ inHand = <<Head(inHand)>>
    BY <1>1, <1>2, OneMessage
<1>4. inHand' = <<>> /\ dataQueue' = dataQueue
    BY DEF WriterWrite, queue
<1>5. CASE written' = written \o inHand /\ refused' = refused
  <2>1. Pipeline' = ((written \o inHand) \o <<>>) \o dataQueue
    BY <1>4, <1>5 DEF Pipeline
  <2>2. written \o inHand \in Seq(LogData)
    BY <1>1, ConcatProperties
  <2> QED BY <1>5, <2>1, <2>2, ConcatEmptySeq DEF Pipeline
<1>6. CASE /\ written' = written
           /\ refused' = refused \union {Head(inHand).stamp}
  <2> DEFINE q == inHand \o dataQueue
  <2>1. /\ q \in Seq(LogData) /\ q # <<>>
        /\ Head(q) = Head(inHand) /\ Tail(q) = dataQueue
    <3>1. \A data \in LogData : inHand = <<data>> =>
              /\ q \in Seq(LogData) /\ q # <<>>
              /\ Head(q) = data /\ Tail(q) = dataQueue
        BY <1>1, ConsSeq
    <3> QED BY <1>3, <3>1
  <2>2. Pipeline = written \o q
    BY <1>1, ConcatAssociative DEF Pipeline
  <2>3. Pipeline' = written \o dataQueue
    BY <1>1, <1>4, <1>6, ConcatEmptySeq DEF Pipeline
  <2> HIDE DEF q
  <2> QED BY <1>1, <1>6, <2>1, <2>2, <2>3 DEF Refuses
<1> QED BY <1>2, <1>3, <1>5, <1>6, GivenToLog DEF WriterWrite

LEMMA FlushOneMoves ==
    ASSUME TypeOK, NEW fails \in BOOLEAN, FlushOne(fails)
    PROVE  (Pipeline' = Pipeline /\ refused' = refused) \/ Refuses
<1>1. /\ written \in Seq(LogData) /\ dataQueue \in Seq(LogData)
    BY DEF TypeOK, Types
<1>2. logFile /\ inHand = <<>> /\ dataQueue # <<>>
    BY DEF FlushOne, TypeOK, Lifecycle
<1>3. /\ Head(dataQueue) \in LogData /\ Tail(dataQueue) \in Seq(LogData)
      /\ inHand' = <<>> /\ dataQueue' = Tail(dataQueue)
    BY <1>1, <1>2 DEF FlushOne
<1>4. Pipeline = written \o dataQueue
    BY <1>1, <1>2, ConcatEmptySeq DEF Pipeline
<1>5. CASE /\ written' = written \o <<Head(dataQueue)>>
           /\ refused' = refused
  <2>1. Pipeline' =
            ((written \o <<Head(dataQueue)>>) \o <<>>) \o Tail(dataQueue)
    BY <1>3, <1>5 DEF Pipeline
  <2>2. written \o <<Head(dataQueue)>> \in Seq(LogData)
    BY <1>1, <1>3, ConcatProperties
  <2>3. Pipeline' = (written \o <<Head(dataQueue)>>) \o Tail(dataQueue)
    BY <2>1, <2>2, ConcatEmptySeq
  <2> QED BY <1>1, <1>2, <1>4, <1>5, <2>3, MoveHead
<1>6. CASE /\ written' = written
           /\ refused' = refused \union {Head(dataQueue).stamp}
  <2>1. Pipeline' = written \o Tail(dataQueue)
    BY <1>1, <1>3, <1>6, ConcatEmptySeq DEF Pipeline
  <2> QED BY <1>1, <1>2, <1>4, <1>6, <2>1 DEF Refuses
<1> QED BY <1>2, <1>3, <1>5, <1>6, GivenToLog DEF FlushOne

LEMMA PipelineMoves ==
    ASSUME TypeOK, Moves
    PROVE  /\ clock' = clock /\ dropped' = dropped
           /\ (Pipeline' = Pipeline /\ refused' = refused) \/ Refuses
<1> USE DEF control, queue, output
<1>1. /\ written \in Seq(LogData) /\ inHand \in Seq(LogData)
      /\ dataQueue \in Seq(LogData)
    BY DEF TypeOK, Types
<1>2. clock' = clock /\ dropped' = dropped
    BY DEF Moves, Writer, WriterTop, WriterPop, WriterDecide, WriterSleep,
           WriterWrite, SpuriousWake, Start, Stop, Stopping, StopNotify,
           StopJoin, FlushOne, FlushDone, Close, SetBufferSize
<1>3. CASE WriterPop
  <2>1. inHand = <<>> /\ dataQueue # <<>>
    BY <1>3 DEF WriterPop, TypeOK, Lifecycle
  <2>2. Pipeline' = (written \o <<Head(dataQueue)>>) \o Tail(dataQueue)
        /\ refused' = refused
    BY <1>3 DEF WriterPop, Pipeline
  <2>3. Pipeline = written \o dataQueue
    BY <2>1, <1>1, ConcatEmptySeq DEF Pipeline
  <2> QED BY <2>1, <2>2, <2>3, <1>1, <1>2, MoveHead
<1>4. CASE \E fails \in BOOLEAN : WriterWrite(fails) \/ FlushOne(fails)
    BY <1>2, <1>4, WriterWriteMoves, FlushOneMoves
<1>6. CASE ~ (\/ WriterPop
              \/ \E fails \in BOOLEAN : WriterWrite(fails) \/ FlushOne(fails))
  <2>1. /\ written' = written /\ inHand' = inHand /\ dataQueue' = dataQueue
        /\ refused' = refused
    BY <1>6
    DEF Moves, Writer, WriterTop, WriterDecide, WriterSleep, SpuriousWake,
        Start, Stop, Stopping, StopNotify, StopJoin, FlushDone, Close,
        SetBufferSize
  <2> QED BY <2>1, <1>2 DEF Pipeline
<1> QED BY <1>3, <1>4, <1>6

LEMMA LostStep ==
    ASSUME TypeOK, NothingLost, [Next]_vars
    PROVE  NothingLost'
<1>1. CASE UNCHANGED vars
    BY <1>1 DEF vars, queue, output, NothingLost, Pipeline, Stamps
<1>2. CASE Moves
  <2>1. clock' = clock /\ dropped' = dropped
    BY <1>2, PipelineMoves
  <2>2. CASE Pipeline' = Pipeline /\ refused' = refused
    BY <2>1, <2>2 DEF NothingLost, Stamps
  <2>3. CASE Refuses
    <3>1. PICK a \in Seq(LogData), q \in Seq(LogData) :
              /\ q # <<>>
              /\ Pipeline = a \o q /\ Pipeline' = a \o Tail(q)
              /\ refused' = refused \union {Head(q).stamp}
        BY <2>3 DEF Refuses
    <3>2. /\ Stamps(a \o q) = Stamps(a) \union Stamps(q)
          /\ Stamps(a \o Tail(q)) = Stamps(a) \union Stamps(Tail(q))
          /\ Stamps(q) = {Head(q).stamp} \union Stamps(Tail(q))
        BY <3>1, HeadTailProperties, StampsConcat, StampsHeadTail
    <3>3. Stamps(Pipeline') = Stamps(Pipeline)'
        BY DEF Stamps
    <3> QED BY <2>1, <3>1, <3>2, <3>3 DEF NothingLost
  <2> QED BY <1>2, <2>2, <2>3, PipelineMoves
<1>3. ASSUME NEW t \in Thread, NEW len \in Lengths, OnMessageReceived(t, len)
      PROVE  NothingLost'
    BY <1>3
    DEF OnMessageReceived, queue, output, NothingLost, Pipeline, Stamps
<1>4. ASSUME NEW t \in Thread, Enqueue(t)
      PROVE  NothingLost'
  <2> DEFINE data == [stamp |-> clock + 1, len |-> callback[t]]
  <2>1. dataQueue \in Seq(LogData) /\ clock \in Nat
    BY DEF TypeOK, Types
  <2>2. data \in LogData
    <3>1. callback[t] \in Lengths
        BY <1>4 DEF Enqueue, TypeOK, Types
    <3> QED BY <3>1, <2>1 DEF LogData
  <2>3. TypeOK'
    BY <1>4, EnqueueType
  <2>4. Stamps(dataQueue') \union dropped' =
            Stamps(dataQueue) \union {clock + 1} \union dropped
    <3>1. CASE Overflows(callback[t])
      <4>1. /\ dataQueue # <<>>
            /\ dataQueue' = Append(Tail(dataQueue), data)
            /\ dropped' = dropped \union {Head(dataQueue).stamp}
        BY <1>4, <3>1 DEF Enqueue, Overflows
      <4>2. Stamps(dataQueue') = Stamps(Tail(dataQueue)) \union {clock + 1}
        BY <4>1, <2>1, <2>2, HeadTailProperties, StampsAppend
      <4> QED BY <4>1, <4>2, <2>1, StampsHeadTail
    <3>2. CASE ~ Overflows(callback[t])
      <4>1. dataQueue' = Append(dataQueue, data) /\ dropped' = dropped
        BY <1>4, <3>2 DEF Enqueue
      <4> QED BY <4>1, <2>1, <2>2, StampsAppend
    <3> QED BY <3>1, <3>2
  <2>5. /\ Stamps(written') = Stamps(written)
        /\ Stamps(inHand') = Stamps(inHand)
        /\ clock' = clock + 1 /\ refused' = refused
    BY <1>4 DEF Enqueue, output
  <2>6. Stamps(Pipeline) =
            Stamps(written) \union Stamps(inHand) \union Stamps(dataQueue)
    BY StampsConcatTwice DEF Pipeline, TypeOK, Types
  <2>7. Stamps(Pipeline') =
            Stamps(written') \union Stamps(inHand') \union Stamps(dataQueue')
    BY <2>3, StampsConcatTwice DEF Pipeline, TypeOK, Types
  <2>8. Stamps(Pipeline') \union dropped' =
            Stamps(Pipeline) \union dropped \union {clock + 1}
    BY <2>4, <2>5, <2>6, <2>7
  <2>9. 1..clock' = (1..clock) \union {clock + 1}
    BY <2>1, <2>5
  <2>10. /\ Stamps(Pipeline') = Stamps(Pipeline)'
         /\ refused' = refused
    BY <2>5 DEF Stamps
  <2> QED BY <2>8, <2>9, <2>10 DEF NothingLost
<1> QED BY <1>1, <1>2, <1>3, <1>4 DEF Next, Moves

LEMMA InitLost == Init => NothingLost
BY DEF Init, NothingLost, Pipeline, Stamps

\* Every message queued is in a log file, on its way to it, was dropped for
\* room, or was refused by the log: empty, or a statement failed.
THEOREM LostCorrect == Spec => []NothingLost
BY InitType, StepType, InitLost, LostStep, PTL DEF Spec

(***************************************************************************)
(* Order.                                                                  *)
(***************************************************************************)
Sorted(s) == \A i, j \in DOMAIN s : i < j => s[i].stamp < s[j].stamp

LEMMA SortedAppend ==
    ASSUME NEW s \in Seq(LogData), NEW data \in LogData, Sorted(s),
           \A x \in Stamps(s) : x < data.stamp
    PROVE  Sorted(Append(s, data))
<1> DEFINE s1 == Append(s, data)
<1>1. /\ Len(s1) = Len(s) + 1
      /\ DOMAIN s1 = 1..Len(s1)
      /\ \A i \in 1..Len(s) : s1[i] = s[i]
      /\ s1[Len(s) + 1] = data
    BY AppendProperties
<1>2. SUFFICES ASSUME NEW i \in 1..(Len(s) + 1), NEW j \in 1..(Len(s) + 1),
                      i < j
               PROVE  s1[i].stamp < s1[j].stamp
    BY <1>1 DEF Sorted
<1>3. i \in 1..Len(s) /\ s1[i] = s[i] /\ s[i].stamp \in Stamps(s)
    BY <1>1, <1>2, StampsAt
<1>4. CASE j = Len(s) + 1
    BY <1>1, <1>3, <1>4
<1>5. CASE j \in 1..Len(s)
    BY <1>1, <1>2, <1>3, <1>5 DEF Sorted
<1> QED BY <1>4, <1>5

\* The sequence without the head of its second part is still in order.
LEMMA SortedRemove ==
    ASSUME NEW a \in Seq(LogData), NEW q \in Seq(LogData), q # <<>>,
           Sorted(a \o q)
    PROVE  Sorted(a \o Tail(q))
<1> DEFINE s == a \o q
           s1 == a \o Tail(q)
           Old(i) == IF i <= Len(a) THEN i ELSE i + 1
<1>1. /\ Tail(q) \in Seq(LogData)
      /\ Len(Tail(q)) = Len(q) - 1
      /\ \A i \in 1..Len(Tail(q)) : Tail(q)[i] = q[i + 1]
    BY HeadTailProperties
<1>2. /\ s \in Seq(LogData) /\ DOMAIN s = 1..(Len(a) + Len(q))
      /\ \A i \in 1..(Len(a) + Len(q)) :
            s[i] = IF i <= Len(a) THEN a[i] ELSE q[i - Len(a)]
    BY ConcatProperties
<1>3. /\ s1 \in Seq(LogData) /\ DOMAIN s1 = 1..(Len(a) + Len(q) - 1)
      /\ \A i \in 1..(Len(a) + Len(q) - 1) :
            s1[i] = IF i <= Len(a) THEN a[i] ELSE Tail(q)[i - Len(a)]
    BY <1>1, ConcatProperties
<1>4. ASSUME NEW i \in DOMAIN s1
      PROVE  Old(i) \in DOMAIN s /\ s1[i] = s[Old(i)]
  <2>1. i \in 1..(Len(a) + Len(q) - 1) /\ Len(a) \in Nat /\ Len(q) \in Nat
    BY <1>3
  <2>2. CASE i <= Len(a)
    BY <2>1, <2>2, <1>2, <1>3
  <2>3. CASE i > Len(a)
    <3>1. i - Len(a) \in 1..Len(Tail(q))
        BY <2>1, <2>3, <1>1
    <3>2. s1[i] = q[i - Len(a) + 1]
        BY <3>1, <2>1, <2>3, <1>1, <1>3
    <3>3. i + 1 \in 1..(Len(a) + Len(q)) /\ ~ (i + 1 <= Len(a))
        BY <2>1, <2>3
    <3>4. s[i + 1] = q[i - Len(a) + 1]
      <4>1. s[i + 1] = q[i + 1 - Len(a)]
        BY <3>3, <1>2
      <4> QED BY <4>1, <2>1
    <3> QED BY <3>2, <3>3, <3>4, <2>1, <2>3, <1>2
  <2> QED BY <2>1, <2>2, <2>3
<1>5. ASSUME NEW i \in DOMAIN s1, NEW j \in DOMAIN s1, i < j
      PROVE  Old(i) < Old(j)
    BY <1>3, <1>5
<1> HIDE DEF Old, s, s1
<1>6. Sorted(s)
    BY DEF s
<1>7. Sorted(s1)
    BY <1>4, <1>5, <1>6 DEF Sorted
<1> QED BY <1>7 DEF s1

LEMMA OrderStep ==
    ASSUME TypeOK, NothingLost, InOrder, [Next]_vars
    PROVE  InOrder'
<1>1. CASE UNCHANGED vars
    BY <1>1 DEF vars, queue, output, InOrder, Pipeline
<1>2. CASE Moves
  <2>1. CASE Pipeline' = Pipeline
    BY <2>1 DEF InOrder
  <2>2. CASE Refuses
    <3>1. PICK a \in Seq(LogData), q \in Seq(LogData) :
              q # <<>> /\ Pipeline = a \o q /\ Pipeline' = a \o Tail(q)
        BY <2>2 DEF Refuses
    <3>2. Sorted(a \o q)
        BY <3>1 DEF InOrder, Sorted
    <3>3. Sorted(a \o Tail(q))
        BY <3>1, <3>2, SortedRemove
    <3> QED BY <3>1, <3>3 DEF InOrder, Sorted
  <2> QED BY <1>2, <2>1, <2>2, PipelineMoves
<1>3. ASSUME NEW t \in Thread, NEW len \in Lengths, OnMessageReceived(t, len)
      PROVE  InOrder'
    BY <1>3 DEF OnMessageReceived, queue, output, InOrder, Pipeline
<1>4. ASSUME NEW t \in Thread, Enqueue(t)
      PROVE  InOrder'
  <2> DEFINE data == [stamp |-> clock + 1, len |-> callback[t]]
             before == written \o inHand
  <2>1. /\ written \in Seq(LogData) /\ inHand \in Seq(LogData)
        /\ dataQueue \in Seq(LogData) /\ clock \in Nat
        /\ before \in Seq(LogData)
    BY ConcatProperties DEF TypeOK, Types
  <2>2. data \in LogData
    <3>1. callback[t] \in Lengths
        BY <1>4 DEF Enqueue, TypeOK, Types
    <3> QED BY <3>1, <2>1 DEF LogData
  <2>3. written' = written /\ inHand' = inHand
    BY <1>4 DEF Enqueue, output
  <2>4. Sorted(before \o dataQueue)
    BY DEF InOrder, Pipeline, Sorted
  <2>5. \A x \in Stamps(before \o dataQueue) : x < clock + 1
    BY <2>1 DEF NothingLost, Pipeline
  <2>6. ASSUME NEW q \in Seq(LogData), dataQueue' = Append(q, data),
               Sorted(before \o q),
               Stamps(before \o q) \subseteq Stamps(before \o dataQueue)
        PROVE  InOrder'
    <3>1. before \o q \in Seq(LogData)
        BY <2>1, ConcatProperties
    <3>2. Sorted(Append(before \o q, data))
        BY <3>1, <2>2, <2>5, <2>6, SortedAppend
    <3>3. Append(before \o q, data) = (before \o q) \o <<data>>
        BY <3>1, <2>2, AppendIsConcat
    <3>4. Append(q, data) = q \o <<data>>
        BY <2>2, AppendIsConcat
    <3>5. (before \o q) \o <<data>> = before \o (q \o <<data>>)
        BY <2>1, <2>2, ConcatAssociative
    <3>6. Pipeline' = Append(before \o q, data)
        BY <2>3, <2>6, <3>3, <3>4, <3>5 DEF Pipeline
    <3> QED BY <3>2, <3>6 DEF InOrder, Sorted
  <2>7. CASE Overflows(callback[t])
    <3>1. dataQueue # <<>> /\ dataQueue' = Append(Tail(dataQueue), data)
        BY <1>4, <2>7 DEF Enqueue, Overflows
    <3>2. Tail(dataQueue) \in Seq(LogData)
        BY <3>1, <2>1, HeadTailProperties
    <3>3. Sorted(before \o Tail(dataQueue))
        BY <3>1, <2>1, <2>4, SortedRemove
    <3>4. /\ Stamps(before \o Tail(dataQueue)) =
                 Stamps(before) \union Stamps(Tail(dataQueue))
          /\ Stamps(before \o dataQueue) =
                 Stamps(before) \union Stamps(dataQueue)
        BY <2>1, <3>2, StampsConcat
    <3>5. Stamps(Tail(dataQueue)) \subseteq Stamps(dataQueue)
        BY <2>1, <3>1, StampsHeadTail
    <3> QED BY <3>1, <3>2, <3>3, <3>4, <3>5, <2>6
  <2>8. CASE ~ Overflows(callback[t])
    <3>1. dataQueue' = Append(dataQueue, data)
        BY <1>4, <2>8 DEF Enqueue
    <3> QED BY <3>1, <2>1, <2>4, <2>6
  <2> QED BY <2>7, <2>8
<1> QED BY <1>1, <1>2, <1>3, <1>4 DEF Next, Moves

LEMMA InitOrder == Init => InOrder
BY DEF Init, InOrder, Pipeline

\* Messages are written in the order of their stamps.
THEOREM OrderCorrect == Spec => []InOrder
BY InitType, StepType, InitLost, LostStep, InitOrder, OrderStep, PTL DEF Spec

(***************************************************************************)
(* Stop writes what came before it.                                        *)
(***************************************************************************)
LEMMA DrainsStep ==
    ASSUME TypeOK, NothingLost, StopDrains, [Next]_vars
    PROVE  StopDrains'
<1> USE DEF control, queue, output
<1>1. CASE UNCHANGED vars
    BY <1>1 DEF vars, StopDrains, Stamps
<1>2. CASE FlushDone
  <2>1. dataQueue = <<>> /\ inHand = <<>>
    BY <1>2 DEF FlushDone, TypeOK, Lifecycle
  <2>2. Pipeline = written
    BY <2>1, ConcatEmptySeq DEF Pipeline, TypeOK, Types
  <2>3. 1..clock = Stamps(written) \union dropped \union refused
    BY <2>2 DEF NothingLost
  <2>4. 1..stopAt \subseteq 1..clock
    BY DEF TypeOK, Types
  <2>5. /\ written' = written /\ dropped' = dropped
        /\ refused' = refused /\ stopAt' = stopAt
    BY <1>2 DEF FlushDone
  <2> QED BY <2>3, <2>4, <2>5 DEF StopDrains, Stamps
<1>3. ASSUME Next, ~ FlushDone, user' = "close"
      PROVE  /\ user = "close" /\ written' = written /\ stopAt' = stopAt
             /\ dropped \subseteq dropped' /\ refused' = refused
  <2>1. writer = "write" => user # "close"
    BY DEF TypeOK, Lifecycle
  <2> QED BY <1>3, <2>1
    DEF Next, Writer, WriterTop, WriterPop, WriterDecide, WriterSleep,
        WriterWrite, SpuriousWake, Start, Stop, Stopping, StopNotify,
        StopJoin, FlushOne, Close, SetBufferSize, OnMessageReceived, Enqueue
<1>4. CASE Next /\ ~ FlushDone
    BY <1>3, <1>4 DEF StopDrains, Stamps
<1> QED BY <1>1, <1>2, <1>4

LEMMA InitDrains == Init => StopDrains
BY DEF Init, StopDrains

\* When Stop closes the log file, what was queued before it is in the file,
\* was dropped for room or was refused by the log.
THEOREM DrainsCorrect == Spec => []StopDrains
BY InitType, StepType, InitLost, LostStep, InitDrains, DrainsStep, PTL DEF Spec

(***************************************************************************)
(*                                                                         *)
(* LogFile: what is committed stays, what is at risk is recent, each row   *)
(* is that of its topic, and the caches are those of the tables.           *)
(*                                                                         *)
(***************************************************************************)

FileTypes ==
    /\ mode \in {"new", "out", "in", "closed"}
    /\ topics \in Seq(Keys)
    /\ messages \in Seq([time : Times, topicId : Nat])
    /\ insertedAt \in Seq(Nat)
    /\ Len(insertedAt) = Len(messages)
    /\ durable \in [topics : Nat, messages : Nat]
    /\ durable.topics <= Len(topics)
    /\ durable.messages <= Len(messages)
    /\ inTransaction \in BOOLEAN /\ endFailed \in BOOLEAN
    /\ steady \in Nat /\ lastTransaction \in Nat
    /\ needNewDescriptor \in BOOLEAN

\* Each topic is in the table once; a message's topic is in the table, and
\* committed if the message is.
Rows ==
    /\ \A i, j \in DOMAIN topics : topics[i] = topics[j] => i = j
    /\ \A i \in DOMAIN messages : messages[i].topicId \in DOMAIN topics
    /\ \A i \in 1..durable.messages : messages[i].topicId <= durable.topics

\* What is cached is what the tables would yield, or what a statement that
\* failed left since the last insert.
Fresh ==
    /\ ~ needNewDescriptor => descriptor = TopicsInLog
    /\ TimesFresh

\* Only an open transaction has something to lose: what was inserted since it
\* began and, unless an END failed, within a period.
AtRisk ==
    /\ durable.messages < Len(messages) => inTransaction
    /\ \A i \in (durable.messages + 1)..Len(messages) :
          /\ lastTransaction <= insertedAt[i]
          /\ endFailed \/ insertedAt[i] <= lastTransaction + Period

FileInv == FileTypes /\ Rows /\ Fresh

\* Where the rows are.
LEMMA Spans ==
    ASSUME FileTypes
    PROVE  /\ Len(topics) \in Nat /\ DOMAIN topics = 1..Len(topics)
           /\ Len(messages) \in Nat /\ DOMAIN messages = 1..Len(messages)
           /\ DOMAIN insertedAt = 1..Len(messages)
           /\ durable.topics \in 0..Len(topics)
           /\ durable.messages \in 0..Len(messages)
           /\ \A i \in DOMAIN messages : messages[i].topicId \in Nat
<1>1. ASSUME NEW i \in DOMAIN messages
      PROVE  messages[i].topicId \in Nat
  <2> DEFINE Row == [time : Times, topicId : Nat]
  <2>1. messages \in Seq(Row)
    BY DEF FileTypes
  <2> HIDE DEF Row
  <2>2. messages[i] \in Row
    BY <2>1
  <2> QED
    BY <2>2 DEF Row
<1> QED
  BY <1>1 DEF FileTypes

(***************************************************************************)
(* The parts of the actions.                                               *)
(***************************************************************************)
LEMMA RollsBack ==
    ASSUME FileTypes, RollBack
    PROVE  /\ topics' \in Seq(Keys) /\ Len(topics') = durable.topics
           /\ \A i \in 1..durable.topics : topics'[i] = topics[i]
           /\ messages' \in Seq([time : Times, topicId : Nat])
           /\ Len(messages') = durable.messages
           /\ \A i \in 1..durable.messages : messages'[i] = messages[i]
           /\ insertedAt' \in Seq(Nat)
           /\ Len(insertedAt') = durable.messages
           /\ durable' = durable
<1>1. /\ durable.topics \in 0..Len(topics)
      /\ durable.messages \in 0..Len(messages)
      /\ durable.messages \in 0..Len(insertedAt)
  BY DEF FileTypes
<1>2. /\ topics' = SubSeq(topics, 1, durable.topics)
      /\ messages' = SubSeq(messages, 1, durable.messages)
      /\ insertedAt' = SubSeq(insertedAt, 1, durable.messages)
      /\ durable' = durable
  BY DEF RollBack
<1>3. /\ topics' \in Seq(Keys) /\ Len(topics') = durable.topics
      /\ \A i \in 1..durable.topics : topics'[i] = topics[i]
  BY <1>1, <1>2 DEF FileTypes
<1>4. /\ messages' \in Seq([time : Times, topicId : Nat])
      /\ Len(messages') = durable.messages
      /\ \A i \in 1..durable.messages : messages'[i] = messages[i]
  <2> DEFINE Row == [time : Times, topicId : Nat]
  <2>1. messages \in Seq(Row)
    BY DEF FileTypes
  <2> HIDE DEF Row
  <2>2. /\ messages' \in Seq(Row)
        /\ Len(messages') = durable.messages
        /\ \A i \in 1..durable.messages : messages'[i] = messages[i]
    BY <1>1, <1>2, <2>1
  <2> QED
    BY <2>2 DEF Row
<1>5. insertedAt' \in Seq(Nat) /\ Len(insertedAt') = durable.messages
  BY <1>1, <1>2 DEF FileTypes
<1> QED
  BY <1>2, <1>3, <1>4, <1>5

\* The topics of an up to date descriptor are those of the table, under the
\* identifiers they have there.
LEMMA Describes ==
    ASSUME FileTypes, Fresh
    PROVE  /\ Descriptor = TopicsInLog
           /\ \A key \in Keys :
                 /\ key \in DOMAIN Descriptor =>
                        /\ Descriptor[key] \in DOMAIN topics
                        /\ topics[Descriptor[key]] = key
                 /\ key \notin DOMAIN Descriptor =>
                        \A i \in DOMAIN topics : topics[i] # key
<1>1. Descriptor = TopicsInLog
  BY DEF Descriptor, Fresh, FileTypes
<1>2. ASSUME NEW key \in Keys
      PROVE  /\ key \in DOMAIN TopicsInLog =>
                    /\ TopicsInLog[key] \in DOMAIN topics
                    /\ topics[TopicsInLog[key]] = key
             /\ key \notin DOMAIN TopicsInLog =>
                    \A i \in DOMAIN topics : topics[i] # key
  <2>1. CASE \E i \in DOMAIN topics : topics[i] = key
    <3>1. key \in DOMAIN TopicsInLog
      BY <2>1 DEF TopicsInLog
    <3>2. TopicsInLog[key] = CHOOSE i \in DOMAIN topics : topics[i] = key
      BY <2>1 DEF TopicsInLog
    <3> QED
      BY <2>1, <3>1, <3>2
  <2>2. CASE \A i \in DOMAIN topics : topics[i] # key
    BY <2>2 DEF TopicsInLog
  <2> QED
    BY <2>1, <2>2
<1> QED
  BY <1>1, <1>2

\* What InsertMessage does to the tables: a new topic at their end, and the
\* message under the topic it is for.
Inserts(key) ==
    /\ \/ topics' = topics
       \/ /\ topics' = Append(topics, key)
          /\ \A i \in DOMAIN topics : topics[i] # key
    /\ \/ UNCHANGED <<messages, insertedAt>>
       \/ \E time \in Times, id \in DOMAIN topics' :
             /\ topics'[id] = key
             /\ messages' = Append(messages, [time |-> time, topicId |-> id])
             /\ insertedAt' = Append(insertedAt, steady)
             /\ startTime' = Unknown /\ endTime' = Unknown
    /\ durable' \in {durable, [topics |-> Len(topics'),
                               messages |-> Len(messages')]}

LEMMA InsertMessageInserts ==
    ASSUME FileInv, NEW time \in Times, NEW key \in Keys,
           NEW isEmpty \in BOOLEAN, NEW fails \in Failures,
           InsertMessage(time, key, isEmpty, fails)
    PROVE  Inserts(key)
<1> DEFINE known == key \in DOMAIN Descriptor
           id == IF known THEN Descriptor[key] ELSE Len(topics) + 1
           stored == fails \notin {"begin", "descriptor", "topic", "message"}
                         /\ ~ isEmpty
<1>1. /\ known => /\ Descriptor[key] \in DOMAIN topics
                  /\ topics[Descriptor[key]] = key
      /\ ~ known => \A i \in DOMAIN topics : topics[i] # key
  BY Describes DEF FileInv
<1>2. \/ topics' = topics
      \/ ~ known /\ topics' = Append(topics, key)
  BY DEF InsertMessage, InsertOrGetTopicId
<1>3. stored => /\ topics' = IF known THEN topics ELSE Append(topics, key)
                /\ startTime' = Unknown /\ endTime' = Unknown
                /\ messages' = Append(messages,
                                      [time |-> time, topicId |-> id])
                /\ insertedAt' = Append(insertedAt, steady)
  BY DEF InsertMessage, InsertOrGetTopicId, ResetTimes, StoreMessage
<1>4. ~ stored => UNCHANGED <<messages, insertedAt>>
  BY DEF InsertMessage
<1>5. stored => id \in DOMAIN topics' /\ topics'[id] = key
  BY <1>1, <1>3 DEF FileInv, FileTypes
<1>6. durable' \in {durable, [topics |-> Len(topics'),
                              messages |-> Len(messages')]}
  BY DEF InsertMessage, Commit
<1> HIDE DEF known, id, stored
<1> QED
  BY <1>1, <1>2, <1>3, <1>4, <1>5, <1>6 DEF Inserts

\* The caches of the times, and the identifiers that InsertMessage leaves.
LEMMA InsertMessageCaches ==
    ASSUME FileInv, NEW time \in Times, NEW key \in Keys,
           NEW isEmpty \in BOOLEAN, NEW fails \in Failures,
           InsertMessage(time, key, isEmpty, fails)
    PROVE  /\ needNewDescriptor' \in BOOLEAN
           /\ \/ UNCHANGED <<topics, descriptor, needNewDescriptor>>
              \/ needNewDescriptor'
              \/ topics' = topics /\ descriptor' = Descriptor
           /\ \/ UNCHANGED cachedTimes
              \/ startTime' = Unknown /\ endTime' = Unknown
BY DEF InsertMessage, InsertOrGetTopicId, ResetTimes, cachedTimes, FileInv,
       FileTypes

(***************************************************************************)
(* Each action keeps rows and caches right.                                *)
(***************************************************************************)
\* A Log that is closed forgets its caches.
LEMMA ForgetsFresh ==
    ASSUME Forget
    PROVE  Fresh' /\ needNewDescriptor' /\ inTransaction' = FALSE
                  /\ endFailed' = FALSE
BY DEF Forget, Fresh, TimesFresh

LEMMA ClosedInv ==
    ASSUME FileInv, mode' = "closed", steady' = steady, Forget,
           \/ RollBack
           \/ UNCHANGED <<topics, messages, insertedAt>> /\ Commit
    PROVE  FileInv'
<1>1. Fresh' /\ needNewDescriptor' \in BOOLEAN
      /\ inTransaction' \in BOOLEAN /\ endFailed' \in BOOLEAN
      /\ lastTransaction' = lastTransaction
  BY ForgetsFresh DEF Forget
<1>2. CASE RollBack
  <2>1. /\ topics' \in Seq(Keys) /\ Len(topics') = durable.topics
        /\ \A i \in 1..durable.topics : topics'[i] = topics[i]
        /\ messages' \in Seq([time : Times, topicId : Nat])
        /\ Len(messages') = durable.messages
        /\ \A i \in 1..durable.messages : messages'[i] = messages[i]
        /\ insertedAt' \in Seq(Nat)
        /\ Len(insertedAt') = durable.messages
        /\ durable' = durable
    BY <1>2, RollsBack DEF FileInv
  <2>2. FileTypes'
    BY <1>1, <2>1 DEF FileInv, FileTypes
  <2>3. DOMAIN topics' = 1..durable.topics
        /\ DOMAIN messages' = 1..durable.messages
        /\ durable.topics \in 0..Len(topics)
        /\ durable.messages \in 0..Len(messages)
    BY <2>1 DEF FileInv, FileTypes
  <2>4. \A i \in 1..durable.messages :
            /\ messages[i].topicId \in 1..durable.topics
            /\ messages'[i].topicId = messages[i].topicId
    <3> SUFFICES ASSUME NEW i \in 1..durable.messages
                 PROVE  messages[i].topicId \in 1..durable.topics
      BY <2>1
    <3>1. i \in DOMAIN messages
      BY <2>3, Spans DEF FileInv
    <3> QED
      BY <2>3, <3>1, Spans DEF FileInv, Rows
  <2>5. \A i, j \in 1..durable.topics : topics[i] = topics[j] => i = j
    BY <2>3 DEF FileInv, Rows, FileTypes
  <2>6. Rows'
    <3>1. \A i, j \in DOMAIN topics' : topics'[i] = topics'[j] => i = j
      BY <2>1, <2>3, <2>5
    <3>2. \A i \in DOMAIN messages' : messages'[i].topicId \in DOMAIN topics'
      BY <2>3, <2>4
    <3>3. \A i \in 1..durable'.messages :
              messages'[i].topicId <= durable'.topics
      BY <2>1, <2>3, <2>4
    <3> QED
      BY <3>1, <3>2, <3>3 DEF Rows
  <2> QED
    BY <1>1, <2>2, <2>6 DEF FileInv
<1>3. CASE UNCHANGED <<topics, messages, insertedAt>> /\ Commit
  <2>1. durable' = [topics |-> Len(topics), messages |-> Len(messages)]
    BY <1>3 DEF Commit
  <2>2. FileTypes'
    BY <1>1, <1>3, <2>1 DEF FileInv, FileTypes
  <2>3. \A i \in 1..Len(messages) : messages[i].topicId <= Len(topics)
    BY Spans DEF FileInv, Rows
  <2>4. Rows'
    BY <1>3, <2>1, <2>3 DEF FileInv, Rows
  <2> QED
    BY <1>1, <2>2, <2>4 DEF FileInv
<1> QED
  BY <1>2, <1>3

LEMMA InsertMessageInv ==
    ASSUME FileInv, NEW time \in Times, NEW key \in Keys,
           NEW isEmpty \in BOOLEAN, NEW fails \in Failures,
           InsertMessage(time, key, isEmpty, fails)
    PROVE  FileInv'
<1>1. Inserts(key)
  BY InsertMessageInserts
<1>2. /\ mode' = mode /\ steady' = steady
      /\ inTransaction' \in BOOLEAN /\ endFailed' \in BOOLEAN
      /\ lastTransaction' \in Nat
  BY DEF InsertMessage, BeginTransactionIfNotInOne, FileInv, FileTypes
<1>3. /\ topics' \in Seq(Keys) /\ Len(topics) <= Len(topics')
      /\ \A i, j \in DOMAIN topics' : topics'[i] = topics'[j] => i = j
      /\ \A i \in DOMAIN topics : i \in DOMAIN topics'
  <2>1. CASE topics' = topics
    BY <2>1 DEF FileInv, FileTypes, Rows
  <2>2. CASE topics' = Append(topics, key)
             /\ \A i \in DOMAIN topics : topics[i] # key
    BY <2>2 DEF FileInv, FileTypes, Rows
  <2> QED
    BY <1>1, <2>1, <2>2 DEF Inserts
<1> DEFINE RowsKept ==
        /\ messages' \in Seq([time : Times, topicId : Nat])
        /\ insertedAt' \in Seq(Nat) /\ Len(insertedAt') = Len(messages')
        /\ Len(messages) <= Len(messages')
        /\ \A i \in DOMAIN messages : messages'[i] = messages[i]
        /\ \A i \in DOMAIN messages' : messages'[i].topicId \in DOMAIN topics'
<1>4. RowsKept
  <2>1. CASE UNCHANGED <<messages, insertedAt>>
    BY <1>3, <2>1 DEF FileInv, FileTypes, Rows
  <2>2. ASSUME NEW tt \in Times, NEW id \in DOMAIN topics',
               messages' = Append(messages, [time |-> tt, topicId |-> id]),
               insertedAt' = Append(insertedAt, steady)
        PROVE  RowsKept
    <3> DEFINE Row == [time : Times, topicId : Nat]
               row == [time |-> tt, topicId |-> id]
    <3>1. row \in Row /\ row.topicId = id
      BY <1>3, <2>2
    <3>2. messages \in Seq(Row) /\ messages' = Append(messages, row)
      BY <2>2 DEF FileInv, FileTypes
    <3>3. /\ insertedAt' \in Seq(Nat)
          /\ Len(insertedAt') = Len(messages) + 1
      BY <2>2 DEF FileInv, FileTypes
    <3>4. \A i \in DOMAIN messages : messages[i].topicId \in DOMAIN topics'
      BY <1>3 DEF FileInv, Rows
    <3> HIDE DEF Row, row
    <3>5. /\ messages' \in Seq(Row)
          /\ Len(messages') = Len(messages) + 1
          /\ \A i \in DOMAIN messages : messages'[i] = messages[i]
          /\ \A i \in DOMAIN messages' :
                 messages'[i] = row \/ i \in DOMAIN messages
      BY <3>1, <3>2
    <3>6. Len(messages) \in Nat
      BY <3>2
    <3>7. \A i \in DOMAIN messages' : messages'[i].topicId \in DOMAIN topics'
      BY <3>1, <3>4, <3>5
    <3>8. messages' \in Seq([time : Times, topicId : Nat])
      BY <3>5 DEF Row
    <3> QED
      BY <3>3, <3>5, <3>6, <3>7, <3>8
  <2> QED
    BY <1>1, <2>1, <2>2 DEF Inserts
<1>5. FileTypes'
  BY <1>1, <1>2, <1>3, <1>4, InsertMessageCaches DEF FileInv, FileTypes, Inserts
<1>6. Rows'
  <2>1. \A i \in 1..durable'.messages :
            messages'[i].topicId <= durable'.topics
    <3>1. CASE durable' = durable
      <4>1. \A i \in 1..durable.messages :
                i \in DOMAIN messages /\ messages'[i] = messages[i]
        <5>1. \A i \in 1..durable.messages : i \in DOMAIN messages
          BY Spans DEF FileInv
        <5> QED
          BY <1>4, <5>1
      <4> QED
        BY <3>1, <4>1 DEF FileInv, Rows
    <3>2. CASE durable' = [topics |-> Len(topics'),
                           messages |-> Len(messages')]
      <4>1. DOMAIN messages' = 1..Len(messages')
            /\ DOMAIN topics' = 1..Len(topics') /\ Len(topics') \in Nat
        BY <1>3, <1>4
      <4>2. \A i \in DOMAIN messages' : messages'[i].topicId <= Len(topics')
        BY <1>4, <4>1
      <4>3. /\ durable'.topics = Len(topics')
            /\ durable'.messages = Len(messages')
        BY <3>2
      <4> QED
        BY <4>1, <4>2, <4>3
    <3> QED
      BY <1>1, <3>1, <3>2 DEF Inserts
  <2> QED
    BY <1>3, <1>4, <2>1 DEF Rows
<1>7. ~ needNewDescriptor' => descriptor' = TopicsInLog'
  <2>1. topics' = topics => TopicsInLog' = TopicsInLog
    BY DEF TopicsInLog
  <2> QED
    BY <2>1, InsertMessageCaches, Describes DEF FileInv, Fresh
<1>8. TimesFresh'
  <2>1. CASE startTime' = Unknown /\ endTime' = Unknown
    BY <2>1 DEF TimesFresh
  <2>2. CASE UNCHANGED cachedTimes /\ messages' = messages
    BY <2>2 DEF cachedTimes, TimesFresh, Earliest, Latest, TimesOf, FileInv, Fresh
  <2> QED
    BY <1>1, <2>1, <2>2, InsertMessageCaches DEF Inserts
<1> QED
  BY <1>5, <1>6, <1>7, <1>8 DEF FileInv, Fresh

\* Queries and the clock leave the tables alone, and cache what they yield.
LEMMA QueryInv ==
    ASSUME FileInv,
           \/ \E how \in {"out", "in"} : Open(how)
           \/ \E query \in Queries : QueryMessages(query)
           \/ \E fails \in BOOLEAN : StartTime(fails)
           \/ \E outcome \in {"read", "failed", "corrupt"} : EndTime(outcome)
           \/ Advance \/ Discard \/ Tick
           \/ UNCHANGED log
    PROVE  FileInv'
<1>1. /\ UNCHANGED <<topics, messages, durable, insertedAt>>
      /\ UNCHANGED <<inTransaction, lastTransaction, endFailed>>
  BY DEF Open, QueryMessages, Advance, Discard, StartTime, EndTime, Tick,
         tables, transaction, log
<1>2. /\ mode' \in {"new", "out", "in", "closed"} /\ steady' \in Nat
      /\ \/ UNCHANGED <<descriptor, needNewDescriptor>>
         \/ descriptor' = Descriptor /\ needNewDescriptor' = FALSE
  BY DEF Open, QueryMessages, Advance, Discard, StartTime, EndTime, Tick,
         Upkeep, caches, log, FileInv, FileTypes
<1>3. /\ TopicsInLog' = TopicsInLog
      /\ Earliest' = Earliest /\ Latest' = Latest
      /\ TimesOf(messages') = TimesOf(messages)
  BY <1>1 DEF TopicsInLog, Earliest, Latest, TimesOf
<1>7. TimesFresh'
  <2>1. CASE \E fails \in BOOLEAN : StartTime(fails)
    BY <2>1, <1>3 DEF StartTime, TimesFresh, FileInv, Fresh
  <2>2. CASE \E outcome \in {"read", "failed", "corrupt"} : EndTime(outcome)
    BY <2>2, <1>3 DEF EndTime, TimesFresh, FileInv, Fresh
  <2>3. CASE UNCHANGED cachedTimes
    BY <2>3, <1>3 DEF cachedTimes, TimesFresh, FileInv, Fresh
  <2> QED
    BY <2>1, <2>2, <2>3
       DEF Open, QueryMessages, Advance, Discard, Tick, caches, log
<1>4. FileTypes'
  BY <1>1, <1>2 DEF FileInv, FileTypes
<1>5. Rows'
  BY <1>1 DEF FileInv, Rows
<1>6. Fresh'
  BY <1>2, <1>3, <1>7, Describes DEF FileInv, Fresh
<1> QED
  BY <1>4, <1>5, <1>6 DEF FileInv

LEMMA FileInvStep ==
    ASSUME FileInv, [FileNext]_log
    PROVE  FileInv'
<1>1. ASSUME NEW fails \in BOOLEAN, CloseFile(fails)
      PROVE  FileInv'
  BY <1>1, ClosedInv DEF CloseFile
<1>2. CASE Crash
  BY <1>2, ClosedInv DEF Crash
<1>3. ASSUME NEW time \in Times, NEW key \in Keys, NEW isEmpty \in BOOLEAN,
             NEW fails \in Failures, InsertMessage(time, key, isEmpty, fails)
      PROVE  FileInv'
  BY <1>3, InsertMessageInv
<1> QED
  BY <1>1, <1>2, <1>3, QueryInv DEF FileNext

LEMMA InitFileInv == FileInit => FileInv
<1> SUFFICES ASSUME FileInit
             PROVE  FileInv
  OBVIOUS
<1>1. /\ topics = <<>> /\ messages = <<>> /\ insertedAt = <<>>
      /\ durable = [topics |-> 0, messages |-> 0]
  BY DEF FileInit
<1>2. FileTypes
  <2> DEFINE Row == [time : Times, topicId : Nat]
  <2>1. messages \in Seq(Row)
    <3> HIDE DEF Row
    <3> QED
      BY <1>1
  <2>2. /\ topics \in Seq(Keys) /\ insertedAt \in Seq(Nat)
        /\ Len(topics) = 0 /\ Len(messages) = 0 /\ Len(insertedAt) = 0
    BY <1>1
  <2>3. /\ durable \in [topics : Nat, messages : Nat]
        /\ durable.topics = 0 /\ durable.messages = 0
    BY <1>1
  <2>4. /\ mode \in {"new", "out", "in", "closed"}
        /\ inTransaction \in BOOLEAN /\ endFailed \in BOOLEAN
        /\ steady \in Nat /\ lastTransaction \in Nat
        /\ needNewDescriptor \in BOOLEAN
    BY DEF FileInit
  <2>5. /\ Len(insertedAt) = Len(messages)
        /\ durable.topics <= Len(topics)
        /\ durable.messages <= Len(messages)
    BY <2>2, <2>3
  <2> QED
    BY <2>1, <2>2, <2>3, <2>4, <2>5 DEF FileTypes
<1>3. Rows
  BY <1>1 DEF Rows
<1>4. Fresh
  BY DEF FileInit, Fresh, TimesFresh
<1> QED
  BY <1>2, <1>3, <1>4 DEF FileInv

\* Whatever fails, and however the file is closed: each topic has one row,
\* each message a topic that is there, and committed if the message is; and
\* the cached descriptor is that of the tables, as are the cached times unless
\* the statement that was to read one has failed since the last insert, which
\* leaves 0 or a time of a corrupt log (Log.cc:108-172, 226-330, 556-682).
THEOREM FileIntact == FileSpec => [](Rows /\ Fresh)
<1>1. FileInv => Rows /\ Fresh
  BY DEF FileInv
<1> QED
  BY <1>1, InitFileInv, FileInvStep, PTL DEF FileSpec

(***************************************************************************)
(* What is inserted, and what is committed.                                *)
(***************************************************************************)
CommittedStays ==
    /\ durable.messages <= durable'.messages
    /\ \A i \in 1..durable.messages :
          /\ messages'[i] = messages[i]
          /\ topics'[messages[i].topicId] = topics[messages[i].topicId]

\* A message that was committed is never lost or changed, nor the topic it
\* was inserted for: not by a crash, not by a failure, not by a later insert.
THEOREM CommittedKept == FileSpec => [][CommittedStays]_log
<1> DEFINE Kept == /\ durable.topics <= durable'.topics
                   /\ durable.messages <= durable'.messages
                   /\ \A i \in 1..durable.messages : messages'[i] = messages[i]
                   /\ \A i \in 1..durable.topics : topics'[i] = topics[i]
<1>1. ASSUME FileInv, Kept
      PROVE  CommittedStays
  <2>1. \A i \in 1..durable.messages :
            messages[i].topicId \in 1..durable.topics
    <3> SUFFICES ASSUME NEW i \in 1..durable.messages
                 PROVE  messages[i].topicId \in 1..durable.topics
      OBVIOUS
    <3>1. i \in DOMAIN messages
      BY <1>1, Spans DEF FileInv
    <3> QED
      BY <1>1, <3>1, Spans DEF FileInv, Rows
  <2> QED
    BY <1>1, <2>1 DEF CommittedStays
<1>2. ASSUME FileInv, RollBack
      PROVE  Kept
  BY <1>2, RollsBack, Spans DEF FileInv
<1>3. ASSUME FileInv, UNCHANGED <<topics, messages>>,
             durable' = durable \/ Commit
      PROVE  Kept
  BY <1>3, Spans DEF FileInv, Commit
<1>4. ASSUME FileInv, NEW time \in Times, NEW key \in Keys,
             NEW isEmpty \in BOOLEAN, NEW fails \in Failures,
             InsertMessage(time, key, isEmpty, fails)
      PROVE  Kept
  <2>1. Inserts(key)
    BY <1>4, InsertMessageInserts
  <2>2. /\ Len(topics) <= Len(topics') /\ Len(topics') \in Nat
        /\ \A i \in 1..Len(topics) : topics'[i] = topics[i]
    <3>1. topics \in Seq(Keys)
      BY <1>4 DEF FileInv, FileTypes
    <3>2. CASE topics' = topics
      BY <3>1, <3>2
    <3>3. CASE topics' = Append(topics, key)
      BY <3>1, <3>3
    <3> QED
      BY <2>1, <3>2, <3>3 DEF Inserts
  <2>3. /\ Len(messages) <= Len(messages') /\ Len(messages') \in Nat
        /\ \A i \in 1..Len(messages) : messages'[i] = messages[i]
    <3> DEFINE Row == [time : Times, topicId : Nat]
    <3>1. messages \in Seq(Row)
      BY <1>4 DEF FileInv, FileTypes
    <3>2. CASE messages' = messages
      BY <3>1, <3>2
    <3>3. ASSUME NEW row, messages' = Append(messages, row)
          PROVE  <2>3
      <4> HIDE DEF Row
      <4> QED
        BY <3>1, <3>3
    <3> QED
      BY <2>1, <3>2, <3>3 DEF Inserts
  <2>4. /\ durable.topics \in 0..Len(topics)
        /\ durable.messages \in 0..Len(messages)
        /\ Len(topics) \in Nat /\ Len(messages) \in Nat
    BY <1>4, Spans DEF FileInv
  <2>5. \/ durable' = durable
        \/ /\ durable'.topics = Len(topics')
           /\ durable'.messages = Len(messages')
    BY <2>1 DEF Inserts
  <2>6. /\ durable.topics <= durable'.topics
        /\ durable.messages <= durable'.messages
    BY <2>2, <2>3, <2>4, <2>5
  <2>7. /\ \A i \in 1..durable.messages : i \in 1..Len(messages)
        /\ \A i \in 1..durable.topics : i \in 1..Len(topics)
    BY <2>4
  <2> QED
    BY <2>2, <2>3, <2>6, <2>7
<1>5. FileInv /\ [FileNext]_log => CommittedStays \/ UNCHANGED log
  <2> SUFFICES ASSUME FileInv, FileNext
               PROVE  Kept
    BY <1>1
  <2>1. ASSUME NEW fails \in BOOLEAN, CloseFile(fails)
        PROVE  Kept
    BY <1>2, <1>3, <2>1 DEF CloseFile
  <2>2. CASE Crash
    BY <1>2, <2>2 DEF Crash
  <2>3. ASSUME NEW time \in Times, NEW key \in Keys, NEW isEmpty \in BOOLEAN,
               NEW fails \in Failures,
               InsertMessage(time, key, isEmpty, fails)
        PROVE  Kept
    BY <1>4, <2>3
  <2>4. CASE UNCHANGED tables
    BY <1>3, <2>4 DEF tables
  <2> HIDE DEF Kept
  <2> QED
    BY <2>1, <2>2, <2>3, <2>4
       DEF FileNext, Open, QueryMessages, Advance, Discard, StartTime, EndTime,
           Tick
<1>6. FileInv /\ [FileNext]_log => [CommittedStays]_log
  BY <1>5
<1> QED
  BY <1>6, InitFileInv, FileInvStep, PTL DEF FileSpec

\* InsertMessage stores a message under the topic and type it is given,
\* however the descriptor that names them came to be cached: topics inserted
\* before, inserts that failed in between, files opened again.
StoredForItsTopic ==
    \A time \in Times, key \in Keys, isEmpty \in BOOLEAN, fails \in Failures :
        InsertMessage(time, key, isEmpty, fails) /\ messages' # messages
            => topics'[messages'[Len(messages')].topicId] = key

THEOREM RightTopic == FileSpec => [][StoredForItsTopic]_log
<1>1. ASSUME FileInv
      PROVE  StoredForItsTopic
  <2> SUFFICES ASSUME NEW time \in Times, NEW key \in Keys,
                      NEW isEmpty \in BOOLEAN, NEW fails \in Failures,
                      InsertMessage(time, key, isEmpty, fails),
                      messages' # messages
               PROVE  topics'[messages'[Len(messages')].topicId] = key
    BY DEF StoredForItsTopic
  <2>0. Inserts(key)
    BY <1>1, InsertMessageInserts
  <2>1. PICK tt \in Times, id \in DOMAIN topics' :
            /\ topics'[id] = key
            /\ messages' = Append(messages, [time |-> tt, topicId |-> id])
    BY <2>0 DEF Inserts
  <2> DEFINE row == [time |-> tt, topicId |-> id]
             Row == [time : Times, topicId : Nat]
  <2>2. messages \in Seq(Row) /\ row.topicId = id
    BY <1>1 DEF FileInv, FileTypes
  <2>3. messages' = Append(messages, row)
    BY <2>1
  <2> HIDE DEF row, Row
  <2>4. messages'[Len(messages')] = row
    BY <2>2, <2>3
  <2> QED
    BY <2>1, <2>2, <2>4
<1>2. FileInv /\ [FileNext]_log => [StoredForItsTopic]_log
  BY <1>1
<1> QED
  BY <1>2, InitFileInv, FileInvStep, PTL DEF FileSpec

(***************************************************************************)
(* What a crash may lose.                                                  *)
(***************************************************************************)
\* Nothing was inserted, and no transaction begun, later than now.
Past ==
    /\ lastTransaction <= steady
    /\ \A i \in DOMAIN insertedAt : insertedAt[i] <= steady

\* A transaction ends with the first message that comes after its period,
\* unless the END fails: what an open one holds came within the period.
LEMMA InsertMessageAtRisk ==
    ASSUME Period \in Nat, FileInv, AtRisk,
           NEW time \in Times, NEW key \in Keys,
           NEW isEmpty \in BOOLEAN, NEW fails \in Failures,
           InsertMessage(time, key, isEmpty, fails), Past
    PROVE  AtRisk'
<1> DEFINE stored == fails \notin {"begin", "descriptor", "topic", "message"}
                         /\ ~ isEmpty
<1>1. /\ Len(messages) \in Nat /\ insertedAt \in Seq(Nat)
      /\ Len(insertedAt) = Len(messages)
      /\ durable.messages \in 0..Len(messages)
      /\ steady \in Nat /\ lastTransaction \in Nat
      /\ inTransaction \in BOOLEAN /\ endFailed \in BOOLEAN
  BY Spans DEF FileInv, FileTypes
<1>2. /\ ~ inTransaction => durable.messages = Len(messages)
      /\ \A i \in (durable.messages + 1)..Len(messages) :
            /\ lastTransaction <= insertedAt[i]
            /\ endFailed \/ insertedAt[i] <= lastTransaction + Period
  BY <1>1 DEF AtRisk
<1>3. CASE ~ inTransaction' /\ fails # "begin"
  <2>1. durable'.messages = Len(messages') /\ Len(messages') \in Nat
    BY <1>3, InsertMessageInv DEF InsertMessage, Commit, FileInv, FileTypes
  <2> QED
    BY <2>1 DEF AtRisk
<1>4. CASE fails = "begin"
  <2>1. /\ UNCHANGED <<messages, insertedAt, durable, inTransaction,
                       lastTransaction>>
        /\ endFailed' = endFailed
    BY <1>1, <1>4 DEF InsertMessage
  <2> QED
    BY <2>1 DEF AtRisk
<1>5. CASE inTransaction' /\ fails # "begin"
  <2>1. /\ durable' = durable
        /\ lastTransaction' = IF inTransaction THEN lastTransaction
                                               ELSE steady
    BY <1>5 DEF InsertMessage, BeginTransactionIfNotInOne
  <2>2. CASE stored
    <3>1. Len(messages') = Len(messages) + 1
      <4> DEFINE Row == [time : Times, topicId : Nat]
      <4>1. messages \in Seq(Row) /\ \E row : messages' = Append(messages, row)
        BY <2>2 DEF InsertMessage, StoreMessage, FileInv, FileTypes
      <4> HIDE DEF Row
      <4> QED
        BY <4>1
    <3>2. /\ insertedAt' = Append(insertedAt, steady)
          /\ endFailed' \/ steady - Period <= lastTransaction'
          /\ endFailed => endFailed'
      <4>1. inTransaction' = ~ (fails # "end" /\ TimeForNewTransaction)
        BY <1>5, <2>2 DEF InsertMessage
      <4>2. endFailed' = (endFailed \/ (fails = "end"
                                           /\ TimeForNewTransaction))
        BY <2>2 DEF InsertMessage
      <4>3. insertedAt' = Append(insertedAt, steady)
        BY <2>2 DEF InsertMessage, StoreMessage
      <4>4. lastTransaction' \in Nat
        BY <1>1, <2>1
      <4> QED
        BY <1>1, <1>5, <4>1, <4>2, <4>3, <4>4 DEF TimeForNewTransaction
    <3>3. /\ \A i \in 1..Len(messages) : insertedAt'[i] = insertedAt[i]
          /\ insertedAt'[Len(messages) + 1] = steady
      BY <1>1, <3>2
    <3>4. ASSUME NEW i \in (durable.messages + 1)..(Len(messages) + 1)
          PROVE  /\ lastTransaction' <= insertedAt'[i]
                 /\ endFailed' \/ insertedAt'[i] <= lastTransaction' + Period
      <4>1. CASE i = Len(messages) + 1
        BY <1>1, <2>1, <3>2, <3>3, <4>1 DEF Past
      <4>2. CASE i # Len(messages) + 1
        <5>1. i \in (durable.messages + 1)..Len(messages) /\ inTransaction
          BY <1>1, <1>2, <4>2
        <5>2. i \in 1..Len(messages)
          BY <1>1, <5>1
        <5>3. lastTransaction' = lastTransaction
          BY <2>1, <5>1
        <5> QED
          BY <1>2, <3>2, <3>3, <5>1, <5>2, <5>3
      <4> QED
        BY <4>1, <4>2
    <3> QED
      BY <1>5, <2>1, <3>1, <3>4 DEF AtRisk
  <2>3. CASE ~ stored
    <3>1. UNCHANGED <<messages, insertedAt>> /\ endFailed' = endFailed
      BY <1>1, <2>3 DEF InsertMessage
    <3>2. durable.messages < Len(messages) => inTransaction
      BY DEF AtRisk
    <3> QED
      BY <1>1, <1>2, <1>5, <2>1, <3>1, <3>2 DEF AtRisk
  <2> QED
    BY <2>2, <2>3
<1> QED
  BY <1>3, <1>4, <1>5

LossInv == FileInv /\ Past /\ AtRisk

LEMMA LossInvStep ==
    ASSUME Period \in Nat, LossInv, [FileNext]_log
    PROVE  LossInv'
<1> USE DEF LossInv
<1>0. FileInv'
  BY FileInvStep
<1>1. ASSUME steady' = steady, Forget,
             \/ RollBack
             \/ UNCHANGED <<messages, insertedAt>> /\ Commit
      PROVE  Past' /\ AtRisk'
  <2>1. CASE RollBack
    <3>1. /\ Len(messages') = durable.messages /\ durable' = durable
          /\ Len(insertedAt') = durable.messages /\ insertedAt' \in Seq(Nat)
          /\ durable.messages \in 0..Len(insertedAt)
          /\ insertedAt \in Seq(Nat)
      BY <2>1, RollsBack DEF FileInv, FileTypes
    <3>2. \A i \in 1..durable.messages : insertedAt'[i] = insertedAt[i]
      BY <2>1, <3>1 DEF RollBack
    <3>3. Past'
      <4>1. lastTransaction' = lastTransaction /\ steady' = steady
        BY <1>1 DEF Forget
      <4>2. DOMAIN insertedAt' = 1..durable.messages
        BY <3>1
      <4>3. \A i \in 1..durable.messages : i \in DOMAIN insertedAt
        BY <3>1
      <4>4. \A i \in DOMAIN insertedAt' : insertedAt'[i] <= steady'
        BY <3>2, <4>1, <4>2, <4>3 DEF Past
      <4> QED
        BY <4>1, <4>4 DEF Past
    <3>4. AtRisk'
      BY <3>1 DEF AtRisk
    <3> QED
      BY <3>3, <3>4
  <2>2. CASE Commit /\ UNCHANGED <<messages, insertedAt>>
    <3>1. durable'.messages = Len(messages') /\ Len(messages') \in Nat
      BY <2>2, Spans DEF Commit, FileInv
    <3> QED
      BY <1>1, <2>2, <3>1 DEF AtRisk, Past, Forget
  <2> QED
    BY <1>1, <2>1, <2>2
<1>2. ASSUME NEW time \in Times, NEW key \in Keys, NEW isEmpty \in BOOLEAN,
             NEW fails \in Failures, InsertMessage(time, key, isEmpty, fails)
      PROVE  Past' /\ AtRisk'
  <2>1. Inserts(key) /\ steady' = steady
    BY <1>2, InsertMessageInserts DEF InsertMessage
  <2>2. insertedAt \in Seq(Nat) /\ steady \in Nat
    BY DEF FileInv, FileTypes
  <2>3. Past'
    <3>0. lastTransaction' \in {lastTransaction, steady}
      BY <1>2 DEF InsertMessage, BeginTransactionIfNotInOne
    <3>1. CASE insertedAt' = insertedAt
      BY <2>1, <2>2, <3>0, <3>1 DEF Past
    <3>2. CASE insertedAt' = Append(insertedAt, steady)
      BY <2>1, <2>2, <3>0, <3>2 DEF Past
    <3> QED
      BY <2>1, <3>1, <3>2 DEF Inserts
  <2> QED
    BY <1>2, <2>3, InsertMessageAtRisk
<1>3. ASSUME UNCHANGED <<tables, transaction>>, steady' = steady \/ Tick
      PROVE  Past' /\ AtRisk'
  <2>1. steady <= steady' /\ steady' \in Nat
    BY <1>3 DEF Tick, FileInv, FileTypes
  <2>2. \A i \in DOMAIN insertedAt : insertedAt[i] \in Nat
    BY DEF FileInv, FileTypes
  <2>3. Past'
    BY <1>3, <2>1, <2>2 DEF Past, tables, transaction, FileInv, FileTypes
  <2> QED
    BY <1>3, <2>3 DEF AtRisk, tables, transaction
<1>4. ASSUME NEW fails \in BOOLEAN, CloseFile(fails)
      PROVE  Past' /\ AtRisk'
  BY <1>1, <1>4 DEF CloseFile
<1>5. ASSUME Crash
      PROVE  Past' /\ AtRisk'
  <2>1. steady' = steady /\ Forget /\ RollBack
    BY <1>5 DEF Crash
  <2> QED
    BY <1>1, <2>1
<1> QED
  BY <1>0, <1>2, <1>3, <1>4, <1>5
     DEF FileNext, Open, QueryMessages, Advance, Discard, StartTime, EndTime,
         Tick, log

\* A crash, or an END that fails when the file is closed, loses one
\* transaction: messages that were inserted in the first Period after the
\* oldest of them, unless an END failed before (Log.cc:175-226, 330-420).
THEOREM LossIsBounded == Period \in Nat => (FileSpec => []LossBounded)
<1> SUFFICES ASSUME Period \in Nat
             PROVE  FileSpec => []LossBounded
  OBVIOUS
<1>1. FileInit => LossInv
  <2> SUFFICES ASSUME FileInit
               PROVE  Past /\ AtRisk
    BY InitFileInv DEF LossInv
  <2>1. insertedAt = <<>> /\ Len(messages) = 0 /\ durable.messages = 0
    BY DEF FileInit
  <2> QED
    BY <2>1 DEF FileInit, Past, AtRisk
<1>2. LossInv /\ [FileNext]_log => LossInv'
  BY LossInvStep
<1>3. LossInv => LossBounded
  <2> SUFFICES ASSUME LossInv,
                      NEW i \in (durable.messages + 1)..Len(messages),
                      ~ endFailed
               PROVE  insertedAt[i] - insertedAt[durable.messages + 1]
                          <= Period
    BY DEF LossInv, AtRisk, LossBounded
  <2>1. /\ durable.messages \in Nat /\ Len(messages) \in Nat
        /\ DOMAIN insertedAt = 1..Len(messages)
        /\ durable.messages + 1 \in (durable.messages + 1)..Len(messages)
    BY Spans DEF LossInv, FileInv
  <2>2. /\ insertedAt[i] \in Nat
        /\ insertedAt[durable.messages + 1] \in Nat
        /\ lastTransaction \in Nat
    <3>1. insertedAt \in Seq(Nat)
      BY DEF LossInv, FileInv, FileTypes
    <3>2. /\ i \in DOMAIN insertedAt
          /\ durable.messages + 1 \in DOMAIN insertedAt
      BY <2>1
    <3> QED
      BY <3>1, <3>2 DEF LossInv, FileInv, FileTypes
  <2>3. /\ insertedAt[i] <= lastTransaction + Period
        /\ lastTransaction <= insertedAt[durable.messages + 1]
    BY <2>1 DEF LossInv, AtRisk
  <2> QED
    BY <2>2, <2>3
<1> QED
  BY <1>1, <1>2, <1>3, PTL DEF FileSpec

(***************************************************************************)
(*                                                                         *)
(* Playback: for any log, calls of the user and interleaving with the      *)
(* thread, the distance between two messages is kept.                      *)
(*                                                                         *)
(***************************************************************************)

\* A set of positions has a least one.
LEMMA LeastExists ==
    ASSUME NEW S \in SUBSET Int, IsFiniteSet(S), S # {}
    PROVE  \E x \in S : \A y \in S : x <= y
<1> DEFINE Least(x, T) == x \in T /\ \A y \in T : x <= y
           Bad == {T \in FiniteSubsetsOf(S) :
                       T # {} /\ ~ \E x \in S : Least(x, T)}
           R == StrictSubsetOrdering(S)
<1>1. SUFFICES ASSUME Bad # {} PROVE FALSE
  <2>1. S \in FiniteSubsetsOf(S)
    BY DEF FiniteSubsetsOf
  <2> QED BY <2>1
<1>2. PICK T \in Bad : \A U \in Bad : ~ (<<U, T>> \in R)
  <2>1. IsWellFoundedOn(R, FiniteSubsetsOf(S))
    BY FS_StrictSubsetOrderingWellFounded
  <2>2. Bad \subseteq FiniteSubsetsOf(S)
    OBVIOUS
  <2> HIDE DEF Bad, R
  <2> QED BY <1>1, <2>1, <2>2, WFMin
<1>3. PICK t \in T : TRUE
  OBVIOUS
<1> DEFINE U == T \ {t}
<1>4. U \in FiniteSubsetsOf(S) /\ <<U, T>> \in R
  BY <1>3, FS_RemoveElement DEF FiniteSubsetsOf, StrictSubsetOrdering
<1>5. T \subseteq Int
  BY DEF FiniteSubsetsOf
<1>6. CASE U = {}
  BY <1>3, <1>5, <1>6 DEF FiniteSubsetsOf
<1>7. CASE U # {}
  <2>1. PICK u \in S : Least(u, U)
    BY <1>2, <1>4, <1>7
  <2>2. Least(u, T) \/ Least(t, T)
    BY <1>3, <1>5, <2>1
  <2> QED BY <2>1, <2>2 DEF FiniteSubsetsOf
<1> QED BY <1>6, <1>7

\* Seek finds a message.
LEMMA SoughtType ==
    ASSUME NEW d \in Offsets
    PROVE  Sought(d) \in 1..LastPosition
<1> DEFINE S == {i \in 1..LastPosition : Received[i] >= Received[1] + d}
<1>1. S \in SUBSET Int /\ S # {}
  BY PlaybackAssumption DEF LastPosition
<1>2. IsFiniteSet(S)
  <2>1. LastPosition \in Nat
    BY PlaybackAssumption DEF LastPosition
  <2>2. IsFiniteSet(1..LastPosition)
    BY <2>1, FS_Interval
  <2> QED BY <2>2, FS_Subset
<1>3. \E x \in S : \A y \in S : x <= y
  <2> HIDE DEF S
  <2> QED BY <1>1, <1>2, LeastExists
<1>4. Min(S) \in S
  <2> HIDE DEF S
  <2> QED BY <1>3 DEF Min
<1> QED BY <1>4 DEF Sought

LEMMA TimeReceivedType ==
    ASSUME NEW i \in 1..(LastPosition + 1)
    PROVE  /\ TimeReceived(i) \in Int
           /\ i <= LastPosition => TimeReceived(i) = Received[i]
BY PlaybackAssumption DEF TimeReceived, LastPosition

\* What PlayTypeOK does not say of the thread: past the test it has a message
\* before it, and it publishes only what it waited for.
Between == {"check", "blocked", "decide", "wait", "falling", "asleep",
            "publish", "stepDone"}
Waiting == {"wait", "falling", "asleep", "publish"}

PlayFlags ==
    /\ stop \in BOOLEAN /\ paused \in BOOLEAN /\ finished \in BOOLEAN
    /\ stepping \in BOOLEAN /\ calm \in BOOLEAN

PlayTimes ==
    /\ boundaryTime \in Int /\ playbackTime \in Int /\ nextMessageTime \in Int
    /\ lastEventTime \in Int /\ targetTime \in Int /\ now \in Int
    /\ playedAt \in Int

PlayPlaces ==
    /\ messageIter \in 1..(LastPosition + 1)
    /\ player \in PlayerState
    /\ handle \in HandleState
    /\ waiter \in WaiterState
    /\ calls \in 0..MaxCalls
    /\ player \in Between => messageIter <= LastPosition

\* What was decided before a wait holds as long as nobody interferes, and
\* nobody has interfered with a thread that is calm: the user's calls that
\* would are over, or will be noticed first.
Undisturbed ==
    /\ lastEventTime <= now
    /\ player = "publish" => ~ stepping
    /\ handle \in {"notify", "unpause", "join", "gone"} => stop
    /\ handle \notin {"seek", "seekNext"} =>
           nextMessageTime = TimeReceived(messageIter)
    /\ calm =>
          /\ handle \notin Seeking
          /\ stop => player \in {"top", "exit", "notify", "ended"}
          /\ paused => player \notin {"decide", "stepDone"} \union Waiting
          /\ messageIter > 1
          /\ lastEventTime - playbackTime
                 >= playedAt - Received[messageIter - 1]
          /\ player \in Waiting /\ ~ stepping =>
                targetTime = lastEventTime + nextMessageTime - playbackTime
          /\ player = "publish" /\ MsgWaiting => targetTime <= now

PlayInv == PlayFlags /\ PlayTimes /\ PlayPlaces /\ Undisturbed

LEMMA PlayInvInit == PlayInit => PlayInv
<1> SUFFICES ASSUME PlayInit PROVE PlayInv
  OBVIOUS
<1> USE DEF PlayInit
<1>1. Len(Received) \in Nat /\ Len(Received) >= 1 /\ Received[1] \in Int
  BY PlaybackAssumption
<1>2. PlayFlags
  BY Zenon DEF PlayFlags
<1>5. PlayTimes
  BY <1>1 DEF PlayTimes, Forever
<1>3. PlayPlaces
  BY <1>1, PlaybackAssumption
  DEF PlayPlaces, PlayerState, HandleState, WaiterState, LastPosition, Between
<1>4. Undisturbed
  BY <1>1 DEF Undisturbed, TimeReceived, LastPosition
<1> QED BY <1>2, <1>3, <1>4, <1>5 DEF PlayInv

\* The steps of the thread but the publication and the end of a step.
LEMMA PlayerMoves ==
    ASSUME PlayInv,
           \/ Top \/ Check \/ Unblock \/ Decide \/ EnterWait \/ FallAsleep
           \/ TimeOut \/ Exit \/ NotifyFinished \/ PlayerWake
    PROVE  PlayInv'
<1> USE PlaybackAssumption DEF PlayInv, flags, times, wait, history, Goes
<1>1. PlayFlags'
  BY DEF PlayFlags, Top, Check, Unblock, Decide, EnterWait, FallAsleep,
         TimeOut, Exit, NotifyFinished, PlayerWake
<1>2. PlayTimes'
  BY DEF PlayTimes, Top, Check, Unblock, Decide, EnterWait, FallAsleep,
         TimeOut, Exit, NotifyFinished, PlayerWake
<1>3. PlayPlaces'
  BY DEF PlayPlaces, Between, PlayerState, HandleState, WaiterState, Returned,
         LastPosition, Top, Check, Unblock, Decide, EnterWait, FallAsleep,
         TimeOut, Exit, NotifyFinished, PlayerWake
<1>4. /\ messageIter \in Int
      /\ UNCHANGED <<messageIter, calm, handle, stop, playedAt, playbackTime,
                     nextMessageTime, now>>
  BY DEF PlayPlaces, Top, Check, Unblock, Decide, EnterWait, FallAsleep,
         TimeOut, Exit, NotifyFinished, PlayerWake
<1>5. UNCHANGED TimeReceived(messageIter)
  BY <1>4 DEF TimeReceived
<1>6. calm => Received[messageIter - 1] \in Int
  BY DEF PlayPlaces, Undisturbed, LastPosition
<1>7. CASE Top \/ Check \/ Exit \/ NotifyFinished \/ FallAsleep
  BY <1>1, <1>2, <1>3, <1>4, <1>5, <1>6, <1>7
  DEF Undisturbed, Waiting, Top, Check, Exit, NotifyFinished, FallAsleep
<1>8. CASE Unblock
  BY <1>1, <1>2, <1>3, <1>4, <1>5, <1>6, <1>8
  DEF Undisturbed, Waiting, PlayTimes, Unblock
<1>9. CASE Decide
  <2>1. /\ player' \in {"wait", "publish"} /\ player = "decide"
        /\ player' = "publish" => ~ stepping' /\ ~ MsgWaiting
        /\ UNCHANGED <<lastEventTime, paused>>
    BY <1>9 DEF Decide
  <2>2. ~ stepping' =>
            targetTime' = lastEventTime + nextMessageTime - playbackTime
    BY <1>9 DEF Decide
  <2>3. /\ lastEventTime' <= now'
        /\ player' = "publish" => ~ stepping'
        /\ handle' \in {"notify", "unpause", "join", "gone"} => stop'
        /\ handle' \notin {"seek", "seekNext"} =>
               nextMessageTime' = TimeReceived(messageIter)'
    BY <1>4, <1>5, <2>1 DEF Undisturbed
  <2>4. calm' => /\ handle' \notin Seeking
                 /\ stop' => player' \in {"top", "exit", "notify", "ended"}
                 /\ paused' => player' \notin {"decide", "stepDone"}
                                             \union Waiting
                 /\ player' = "publish" => ~ MsgWaiting
    BY <1>4, <2>1 DEF Undisturbed, Waiting
  <2>5. calm' => /\ messageIter' > 1
                 /\ lastEventTime' - playbackTime'
                        >= playedAt' - Received[messageIter' - 1]
    BY <1>4, <2>1 DEF Undisturbed
  <2>6. ~ stepping' =>
            targetTime' = lastEventTime' + nextMessageTime' - playbackTime'
    BY <1>4, <2>1, <2>2
  <2>7. Undisturbed'
    BY <2>3, <2>4, <2>5, <2>6 DEF Undisturbed
  <2> QED BY <1>1, <1>2, <1>3, <2>7
<1>10. CASE EnterWait \/ TimeOut \/ PlayerWake
  BY <1>1, <1>2, <1>3, <1>4, <1>5, <1>6, <1>10
  DEF Undisturbed, Waiting, PlayFlags, EnterWait, TimeOut, PlayerWake,
      FinishedWaiting, Returned
<1> QED BY <1>7, <1>8, <1>9, <1>10

LEMMA PublishInv == PlayInv /\ Publish => PlayInv'
<1> SUFFICES ASSUME PlayInv, Publish PROVE PlayInv'
  OBVIOUS
<1> USE DEF PlayInv, flags, wait, Goes, Publish
<1>1. messageIter \in 1..LastPosition /\ LastPosition \in Nat
  BY PlaybackAssumption DEF PlayPlaces, Between, LastPosition
<1>2. TimeReceived(messageIter + 1) \in Int
  BY <1>1, TimeReceivedType
<1>3. PlayFlags' /\ PlayTimes'
  BY <1>2 DEF PlayFlags, PlayTimes
<1>4. PlayPlaces'
  BY <1>1 DEF PlayPlaces, Between, PlayerState
<1>5. TimeReceived(messageIter)' = TimeReceived(messageIter + 1)
  BY DEF TimeReceived
<1>6. TimeReceived(messageIter) = Received[messageIter]
      /\ Received[messageIter] \in Int
  BY <1>1, PlaybackAssumption DEF TimeReceived, LastPosition
<1>7. messageIter' - 1 = messageIter /\ messageIter' > 1
  BY <1>1
<1>9. /\ lastEventTime' <= now'
      /\ lastEventTime' - playbackTime' = playedAt' - nextMessageTime
      /\ handle \notin {"seek", "seekNext"} =>
             nextMessageTime = Received[messageIter]
      /\ handle \in {"notify", "unpause", "join", "gone"} => stop
  BY <1>6 DEF Undisturbed, PlayTimes
<1>10. /\ player' = "top" /\ UNCHANGED <<handle, stop>>
       /\ nextMessageTime' = TimeReceived(messageIter + 1)
       /\ calm' <=> handle \notin Seeking
  OBVIOUS
<1>11. calm' => Received[messageIter' - 1] = nextMessageTime
  BY <1>7, <1>9, <1>10 DEF Seeking
<1>8. Undisturbed'
  <2>1. calm' => /\ handle' \notin Seeking
                 /\ messageIter' > 1
                 /\ lastEventTime' - playbackTime'
                        >= playedAt' - Received[messageIter' - 1]
    BY <1>3, <1>7, <1>9, <1>10, <1>11, <1>6 DEF PlayTimes, Seeking
  <2> QED
    BY <1>5, <1>9, <1>10, <2>1 DEF Undisturbed, Waiting
<1> QED BY <1>3, <1>4, <1>8

\* A pause moves the two times of an event alike.
LEMMA DoPauseKeeps ==
    ASSUME PlayInv, DoPause
    PROVE  /\ paused' \in BOOLEAN /\ boundaryTime' \in Int
           /\ playbackTime' \in Int /\ lastEventTime' \in Int
           /\ nextMessageTime' = nextMessageTime
           /\ lastEventTime' <= now
           /\ lastEventTime' - playbackTime' = lastEventTime - playbackTime
           /\ paused => UNCHANGED <<lastEventTime, playbackTime>>
<1>1. CASE paused
  <2>1. UNCHANGED <<paused, boundaryTime, playbackTime, nextMessageTime,
                    lastEventTime>>
    BY <1>1 DEF DoPause, times
  <2> QED
    BY <1>1, <2>1 DEF PlayInv, PlayFlags, PlayTimes, Undisturbed
<1>2. CASE ~ paused
  <2>1. /\ paused' = TRUE
        /\ playbackTime' = playbackTime + now - lastEventTime
        /\ lastEventTime' = now
        /\ boundaryTime' = Forever
        /\ nextMessageTime' = nextMessageTime
    BY <1>2 DEF DoPause
  <2> QED
    BY <1>2, <2>1 DEF PlayInv, PlayTimes, Forever
<1> QED BY <1>1, <1>2

LEMMA StepDoneInv == PlayInv /\ StepDone => PlayInv'
<1> SUFFICES ASSUME PlayInv, StepDone PROVE PlayInv'
  OBVIOUS
<1> USE DEF PlayInv, wait, history, Goes, StepDone
<1>1. PlayFlags' /\ PlayTimes'
  BY DoPauseKeeps DEF PlayFlags, PlayTimes
<1>2. PlayPlaces'
  BY DEF PlayPlaces, Between, PlayerState
<1>3. TimeReceived(messageIter)' = TimeReceived(messageIter)
  BY DEF TimeReceived
<1>4. Undisturbed'
  BY <1>1, <1>2, <1>3, DoPauseKeeps
  DEF Undisturbed, Waiting, PlayTimes
<1> QED BY <1>1, <1>2, <1>4

LEMMA PauseInv == PlayInv /\ Pause => PlayInv'
<1> SUFFICES ASSUME PlayInv, Pause PROVE PlayInv'
  OBVIOUS
<1> USE DEF PlayInv, wait, Calls, Pause
<1>1. PlayFlags' /\ PlayTimes'
  BY DoPauseKeeps DEF PlayFlags, PlayTimes
<1>2. PlayPlaces'
  BY PlaybackAssumption DEF PlayPlaces, HandleState
<1>3. TimeReceived(messageIter)' = TimeReceived(messageIter)
  BY DEF TimeReceived
<1>4. paused => paused'
  BY DEF DoPause
<1>5. Undisturbed'
  BY <1>1, <1>2, <1>3, <1>4, DoPauseKeeps
  DEF Undisturbed, Waiting, Seeking, PlayTimes, PlayFlags
<1> QED BY <1>1, <1>2, <1>5

\* The other calls of the user, who disturbs the thread or leaves the times
\* alone, and the steps that end them.
LEMMA CallsInv ==
    ASSUME PlayInv,
           \/ Resume \/ StepResume \/ HandleStop \/ HandleStopNotify
           \/ HandleStopUnpause \/ HandleStopJoin \/ PlayTick
           \/ WaitUntilFinished \/ WaitTest \/ WaitAsleep
           \/ \E d \in StepSizes : Step(d)
    PROVE  PlayInv'
<1> USE PlaybackAssumption DEF PlayInv, flags, times, wait, history, Calls
<1>1. PlayFlags'
  BY DEF PlayFlags, Resume, StepResume, HandleStop, HandleStopNotify,
         HandleStopUnpause, HandleStopJoin, PlayTick, WaitUntilFinished,
         WaitTest, WaitAsleep, Step
<1>2. PlayTimes'
  BY DEF PlayTimes, Resume, StepResume, HandleStop, HandleStopNotify,
         HandleStopUnpause, HandleStopJoin, PlayTick, WaitUntilFinished,
         WaitTest, WaitAsleep, Step
<1>3. PlayPlaces'
  BY DEF PlayPlaces, Between, PlayerState, HandleState, WaiterState, Returned,
         Resume, StepResume, HandleStop, HandleStopNotify,
         HandleStopUnpause, HandleStopJoin, PlayTick, WaitUntilFinished,
         WaitTest, WaitAsleep, Step
<1>4. UNCHANGED <<messageIter, playbackTime, nextMessageTime, lastEventTime,
                  targetTime, stepping, playedAt>>
      /\ now' \in Int /\ now <= now'
  BY DEF PlayTimes, Resume, StepResume, HandleStop, HandleStopNotify,
         HandleStopUnpause, HandleStopJoin, PlayTick, WaitUntilFinished,
         WaitTest, WaitAsleep, Step
<1>5. UNCHANGED TimeReceived(messageIter)
  BY <1>4 DEF TimeReceived
<1>6. calm => Received[messageIter - 1] \in Int
  BY DEF PlayPlaces, Undisturbed, LastPosition
<1>7. CASE HandleStop
  BY <1>1, <1>2, <1>3, <1>4, <1>5, <1>6, <1>7
  DEF Undisturbed, Waiting, Seeking, PlayTimes, HandleStop
<1>8. CASE HandleStopNotify
  BY <1>1, <1>2, <1>3, <1>4, <1>5, <1>6, <1>8
  DEF Undisturbed, Waiting, Seeking, PlayTimes, PlayFlags, Returned,
      HandleStopNotify
<1>9. CASE Resume \/ StepResume \/ HandleStopUnpause \/ HandleStopJoin
  BY <1>1, <1>2, <1>3, <1>4, <1>5, <1>6, <1>9
  DEF Undisturbed, Waiting, Seeking, PlayTimes, Resume, StepResume,
      HandleStopUnpause, HandleStopJoin
<1>10. CASE \/ PlayTick \/ WaitUntilFinished \/ WaitTest \/ WaitAsleep
            \/ \E d \in StepSizes : Step(d)
  BY <1>1, <1>2, <1>3, <1>4, <1>5, <1>6, <1>10
  DEF Undisturbed, Waiting, Seeking, PlayTimes, PlayTick, WaitUntilFinished,
      WaitTest, WaitAsleep, Step
<1> QED BY <1>7, <1>8, <1>9, <1>10

LEMMA SeekInv ==
    ASSUME PlayInv,
           \/ \E d \in Offsets : Seek(d)
           \/ SeekPlayback \/ SeekNext \/ SeekEvent
    PROVE  PlayInv'
<1> USE DEF PlayInv, flags, times, wait, Calls
<1>1. TimeReceived(messageIter) \in Int
  BY TimeReceivedType DEF PlayPlaces
<1>2. PlayFlags'
  BY DEF PlayFlags, Seek, SeekPlayback, SeekNext, SeekEvent
<1>5. PlayTimes'
  BY <1>1 DEF PlayTimes, Forever, Seek, SeekPlayback, SeekNext, SeekEvent
<1>3. PlayPlaces'
  BY PlaybackAssumption, SoughtType
  DEF PlayPlaces, HandleState, LastPosition, Seek, SeekPlayback, SeekNext,
      SeekEvent
<1>4. Undisturbed'
  <2>1. /\ ~ calm' /\ UNCHANGED <<player, stepping, stop, now>>
        /\ handle' \in {"seek", "seekNext", "seekEvent", "idle"}
    BY DEF Seek, SeekPlayback, SeekNext, SeekEvent
  <2>2. lastEventTime' <= now'
    BY DEF Undisturbed, PlayTimes, Seek, SeekPlayback, SeekNext, SeekEvent
  <2>3. handle' \notin {"seek", "seekNext"} =>
            nextMessageTime' = TimeReceived(messageIter)'
    BY DEF Undisturbed, TimeReceived, Seek, SeekPlayback, SeekNext, SeekEvent
  <2> QED
    BY <2>1, <2>2, <2>3 DEF Undisturbed
<1> QED BY <1>2, <1>3, <1>4, <1>5

LEMMA PlayInvStep == PlayInv /\ [PlayNext]_playback => PlayInv'
<1> SUFFICES ASSUME PlayInv, [PlayNext]_playback PROVE PlayInv'
  OBVIOUS
<1>1. CASE UNCHANGED playback
  <2>1. UNCHANGED <<stop, paused, finished, boundaryTime, playbackTime,
                    nextMessageTime, lastEventTime, messageIter, player,
                    stepping, targetTime, handle, waiter, now, calls,
                    playedAt, calm>>
    BY <1>1 DEF playback, flags, times, wait, history
  <2> QED
    BY <2>1 DEF PlayInv, PlayFlags, PlayTimes, PlayPlaces, Undisturbed,
                TimeReceived
<1>2. CASE Player \/ PlayerWake
  BY <1>2, PlayerMoves, PublishInv, StepDoneInv DEF Player
<1>3. CASE Returning
  BY <1>3, CallsInv, SeekInv DEF Returning
<1>4. CASE \/ PlayTick \/ Pause \/ Resume \/ HandleStop
           \/ WaitUntilFinished \/ WaitTest \/ WaitAsleep
           \/ \E d \in StepSizes : Step(d)
           \/ \E d \in Offsets : Seek(d)
  BY <1>4, CallsInv, SeekInv, PauseInv
<1> QED BY <1>1, <1>2, <1>3, <1>4 DEF PlayNext

\* The variables keep their types; the thread has a message before it between
\* its tests, though a seek may move the position while it waits.
\* (Playback.cc:552-646)
THEOREM PlaybackTyped == PlaySpec => []PlayTypeOK
<1>1. PlayInv => PlayTypeOK
  BY DEF PlayInv, PlayFlags, PlayTimes, PlayPlaces, PlayTypeOK
<1> QED
  BY <1>1, PlayInvInit, PlayInvStep, PTL DEF PlaySpec

\* However the user pauses, resumes, steps, seeks and stops, and wherever the
\* thread is meanwhile, two messages between which nobody paused, sought or
\* stopped are published at least as far apart as they were received.
\* (Playback.cc:552-646)
THEOREM PlaybackPaced == PlaySpec => Paced
<1> DEFINE Far ==
        player = "publish" /\ player' = "top" /\ calm /\ MsgWaiting =>
            now - playedAt >= Received[messageIter] - Received[messageIter - 1]
<1>1. PlayInv /\ [PlayNext]_playback => [Far]_playback
  <2> SUFFICES ASSUME PlayInv, player = "publish", calm, MsgWaiting
               PROVE  now - playedAt >=
                          Received[messageIter] - Received[messageIter - 1]
    OBVIOUS
  <2>1. messageIter \in 2..LastPosition /\ LastPosition \in Nat
    BY PlaybackAssumption
    DEF PlayInv, PlayPlaces, Between, Undisturbed, LastPosition
  <2>2. /\ Received[messageIter] \in Int /\ Received[messageIter - 1] \in Int
        /\ TimeReceived(messageIter) = Received[messageIter]
    BY <2>1, PlaybackAssumption DEF LastPosition, TimeReceived
  <2>3. /\ targetTime <= now
        /\ targetTime = lastEventTime + Received[messageIter] - playbackTime
        /\ lastEventTime - playbackTime
               >= playedAt - Received[messageIter - 1]
    BY <2>2 DEF PlayInv, Undisturbed, Waiting, Seeking
  <2> QED
    BY <2>2, <2>3 DEF PlayInv, PlayTimes
<1> QED
  BY <1>1, PlayInvInit, PlayInvStep, PTL DEF PlaySpec, Paced
=============================================================================
