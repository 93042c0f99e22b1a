----------------------------- MODULE TopicStats -----------------------------
(***************************************************************************)
(* What a process counts of the messages of a topic (NodeShared::Publish,  *)
(* RecvMsgUpdate, EnableStats, and src/src/TopicStatistics.cc).            *)
(*                                                                         *)
(* With GZ_TRANSPORT_TOPIC_STATISTICS set, as it is here in every process, *)
(* a message carries a number its process gives it, from 0, and the time   *)
(* on the clock of its host.  ZeroMQ keeps the order of each process and   *)
(* may drop messages.  Only the differences of times are kept: their least *)
(* and greatest, and their number; the average and the deviation are not   *)
(* modelled.  They are unsigned.                                           *)
(***************************************************************************)
EXTENDS Integers, Sequences, FiniteSets, FiniteSetsExt

CONSTANTS
    Sender,     \* addresses of the processes that publish
    Skew,       \* what the clock of each is ahead of the subscriber's
    Modulus,    \* 2^64: unsigned integers are below it
    MaxClock, MaxSeq

\* Clocks start long before the process, and do not reach the modulus.
ASSUME StatsAssumption ==
    /\ IsFiniteSet(Sender)
    /\ MaxClock \in Nat \ {0} /\ MaxSeq \in Nat /\ Modulus \in Nat
    /\ MaxClock < Modulus
    /\ \A s \in Sender : Skew[s] \in Nat /\ MaxClock + Skew[s] < Modulus

VARIABLES
    clock,          \* of the subscriber
    topicPubSeq,    \* of each process that publishes
    net,            \* messages on their way from each
    fate,           \* what became of each message: "sent", "lost", "missed"
                    \* with statistics disabled, or "counted"
    enabled,        \* enabledTopicStatistics has the topic
    topicStats,     \* TopicStatistics of the topic
    received        \* the messages counted: sender, stamp, time

statsvars == <<clock, topicPubSeq, net, fate, enabled, topicStats, received>>

Unsigned(n) == n % Modulus

(***************************************************************************)
(* Statistics.                                                             *)
(***************************************************************************)
NoSample == [count |-> 0, min |-> Unsigned(-1), max |-> 0]

Update(statistics, stat) ==
    [count |-> statistics.count + 1,
     min |-> Min({statistics.min, stat}), max |-> Max({statistics.max, stat})]

(***************************************************************************)
(* TopicStatistics.  A process not heard of yet has sent number 0.         *)
(***************************************************************************)
NoStatistics ==
    [seq |-> [s \in Sender |-> 0], publication |-> NoSample,
     reception |-> NoSample, age |-> NoSample, droppedMsgCount |-> 0,
     prevPublicationStamp |-> 0, prevReceptionStamp |-> 0]

\* Mutant: one number for all the processes.
FollowsAny(stats, sender, seq) ==
    \E s \in Sender : stats.seq[s] + 1 = seq

Follows(stats, sender, seq) == stats.seq[sender] + 1 = seq

UpdateTopic(stats, msg) ==
    LET first == stats.prevPublicationStamp = 0
        with(statistics, stat) ==
            IF first THEN statistics
            ELSE Update(statistics, Unsigned(stat))
    IN  [seq |-> [stats.seq EXCEPT ![msg.sender] = msg.seq],
         publication |-> with(stats.publication,
                              msg.stamp - stats.prevPublicationStamp),
         reception |-> with(stats.reception,
                            clock - stats.prevReceptionStamp),
         age |-> with(stats.age, clock - msg.stamp),
         droppedMsgCount |-> stats.droppedMsgCount +
             IF first \/ Follows(stats, msg.sender, msg.seq) THEN 0 ELSE 1,
         prevPublicationStamp |-> msg.stamp, prevReceptionStamp |-> clock]

(***************************************************************************)
(* The processes.                                                          *)
(***************************************************************************)
StatsInit ==
    /\ clock = 1
    /\ topicPubSeq = [s \in Sender |-> 0]
    /\ net = [s \in Sender |-> <<>>]
    /\ fate = [s \in Sender |-> <<>>]
    /\ enabled = FALSE
    /\ topicStats = NoStatistics
    /\ received = <<>>

PublishStamped(s) ==
    /\ topicPubSeq[s] < MaxSeq
    /\ topicPubSeq' = [topicPubSeq EXCEPT ![s] = @ + 1]
    /\ net' = [net EXCEPT ![s] = Append(@,
           [sender |-> s, seq |-> topicPubSeq[s], stamp |-> clock + Skew[s]])]
    /\ fate' = [fate EXCEPT ![s] = Append(@, "sent")]
    /\ UNCHANGED <<clock, enabled, topicStats, received>>

Leave(s, what) ==
    /\ net[s] # <<>>
    /\ net' = [net EXCEPT ![s] = Tail(@)]
    /\ fate' = [fate EXCEPT ![s][Head(net[s]).seq + 1] = what]

\* A queue of ZeroMQ is full.
LoseMessage(s) ==
    /\ Leave(s, "lost")
    /\ UNCHANGED <<clock, topicPubSeq, enabled, topicStats, received>>

RecvMsgUpdate(s) ==
    LET msg == Head(net[s]) IN
    /\ Leave(s, IF enabled THEN "counted" ELSE "missed")
    /\ IF enabled
       THEN /\ topicStats' = UpdateTopic(topicStats, msg)
            /\ received' = Append(received,
                   [sender |-> s, stamp |-> msg.stamp, time |-> clock])
       ELSE UNCHANGED <<topicStats, received>>
    /\ UNCHANGED <<clock, topicPubSeq, enabled>>

\* What was counted is kept.
EnableStats(enable) ==
    /\ enabled' = enable
    /\ UNCHANGED <<clock, topicPubSeq, net, fate, topicStats, received>>

ClockTick ==
    /\ clock < MaxClock
    /\ clock' = clock + 1
    /\ UNCHANGED <<topicPubSeq, net, fate, enabled, topicStats, received>>

StatsNext ==
    \/ ClockTick
    \/ \E enable \in BOOLEAN : EnableStats(enable)
    \/ \E s \in Sender :
          PublishStamped(s) \/ LoseMessage(s) \/ RecvMsgUpdate(s)

(***************************************************************************)
(* Properties.                                                             *)
(***************************************************************************)

\* Where the messages of s that are counted do not follow one another.
Gaps(s) ==
    {i \in DOMAIN fate[s] :
        /\ fate[s][i] = "counted"
        /\ i > 1 /\ fate[s][i - 1] # "counted"
        /\ \E j \in 1..(i - 1) : fate[s][j] = "counted"}

\* A process that is heard of later than another, and not from its second
\* message on: that is the one UpdateTopic takes to come next.
Newcomers ==
    {s \in {received[i].sender : i \in DOMAIN received}
              \ {received[1].sender} :
        Min({i \in DOMAIN fate[s] : fate[s][i] = "counted"}) # 2}

\* What DroppedMsgCount() comes to, which is not the number of messages lost:
\* one for each gap in the messages of a process, however many were lost in it
\* and whatever other processes' messages came between; and one for each
\* process but the first to be heard of, lost messages or not, unless the first
\* message heard of it is its second one.
GapsCounted ==
    topicStats.droppedMsgCount =
        IF received = <<>> THEN 0
        ELSE Cardinality({gap \in Sender \X (1..MaxSeq) : gap[2] \in Gaps(gap[1])})
             + Cardinality(Newcomers)

Agrees(statistics, samples) ==
    /\ statistics.count = Len(received) - 1
    /\ statistics.min = Min(samples) /\ statistics.max = Max(samples)

\* The periods and ages are those of the messages: reception for whatever was
\* counted, publication for one process, age for processes of this host.
PeriodsAgree ==
    LET later == 2..Len(received)
        senders == {received[i].sender : i \in DOMAIN received}
    IN  later # {} =>
            /\ Agrees(topicStats.reception,
                      {received[i].time - received[i - 1].time : i \in later})
            /\ Cardinality(senders) = 1 =>
                  Agrees(topicStats.publication,
                         {received[i].stamp - received[i - 1].stamp :
                             i \in later})
            /\ (\A s \in senders : Skew[s] = 0) =>
                  Agrees(topicStats.age,
                         {received[i].time - received[i].stamp : i \in later})

StatsSpec == StatsInit /\ [][StatsNext]_statsvars

\* However the messages of processes interleave and are lost, the drops
\* counted are gaps and newcomers, and the periods are those between the
\* messages received. (TopicStatistics.cc:140-168)
StatsAgree == GapsCounted /\ PeriodsAgree
=============================================================================
