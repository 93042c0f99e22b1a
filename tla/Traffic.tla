------------------------------ MODULE Traffic ------------------------------
(***************************************************************************)
(* What a message meets in the process that publishes it and in those that *)
(* receive it, apart from the handlers: the rates of Throttling, the       *)
(* buffers of SharedMemory, the counts of TopicStats, and the clocks of    *)
(* NetworkClock, which live on messages.  The four share no state.         *)
(***************************************************************************)
EXTENDS Throttling, SharedMemory, TopicStats, NetworkClock

TrafficSpec == ThrottleSpec /\ ShmSpec /\ StatsSpec /\ ClockSpec

\* Throttling lets each thread of a publisher pass once in a period, calls a
\* handler back once in a period while one thread does, and leaves out only
\* what comes within a period of what it let by; and what a call of Publish
\* gives to the network is what the user gave it, in shared memory or not
\* (Throttling, SharedMemory; Node.cc:104-135, SubscriptionHandler.cc:141-160,
\* ShmHelpers.hh:165-186).
PublishKept == RatesKept /\ ShmKept

\* The statistics measure the messages received, and count as dropped one for
\* each gap in those of a process and one for each process heard of late; a
\* clock that is ready shows the last time it received (TopicStats,
\* NetworkClock; TopicStatistics.cc:140-168, Clock.cc:99-184).
CountsAgree == StatsAgree /\ ClocksAgree
=============================================================================
