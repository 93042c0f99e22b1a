---------------------------- MODULE NetworkClock ----------------------------
(***************************************************************************)
(* Clocks distributed over a topic (src/src/Clock.cc).                     *)
(*                                                                         *)
(* SetTime publishes a message, and that is all: every clock of the topic, *)
(* the one that is set included, takes its time from the callback.  In the *)
(* process that publishes, the publish thread runs the callbacks; in the   *)
(* others, the reception thread.  "No clock arbitration is performed."     *)
(***************************************************************************)
EXTENDS Integers, Sequences, FiniteSetsExt

CONSTANTS
    Clock,          \* the clocks of a topic, one process each
    BaseOf,         \* TimeBase of each
    NanoPerSecond,
    HalfRange,      \* 2^31: what an int holds is -HalfRange..HalfRange-1
    Time,           \* times users set, in nanoseconds (bound)
    MaxSet

ASSUME ClockAssumption ==
    /\ NanoPerSecond \in Nat \ {0} /\ HalfRange \in Nat
    /\ NanoPerSecond <= HalfRange
    /\ Time \subseteq Int

VARIABLES
    clockTimeNS,    \* of each clock
    transit,        \* messages from each clock to each
    set             \* what users set, in order: clock and time

clockvars == <<clockTimeNS, transit, set>>

ClockInit ==
    /\ clockTimeNS = [c \in Clock |-> 0]
    /\ transit = [c \in Clock |-> [d \in Clock |-> <<>>]]
    /\ set = <<>>

\* duration_cast, towards zero, and what an int keeps of it.
Seconds(time) == IF time < 0 THEN -((-time) \div NanoPerSecond)
                 ELSE time \div NanoPerSecond
AsInt(n) == ((n + HalfRange) % (2 * HalfRange)) - HalfRange

\* The message carries a field for one base only.
Stamp(time) ==
    [sec |-> AsInt(Seconds(time)),
     nsec |-> AsInt(time - Seconds(time) * NanoPerSecond)]

SetTime(c, time) ==
    /\ Len(set) < MaxSet
    /\ set' = Append(set, [clock |-> c, time |-> time])
    /\ transit' = [transit EXCEPT ![c] =
           [d \in Clock |-> Append(@[d], [base |-> BaseOf[c],
                                          stamp |-> Stamp(time)])]]
    /\ UNCHANGED clockTimeNS

UpdateTimeFromMessage(stamp) == stamp.sec * NanoPerSecond + stamp.nsec

\* The message comes from c; d leaves those of another base.
OnClockMessageReceived(c, d) ==
    LET msg == Head(transit[c][d]) IN
    /\ transit[c][d] # <<>>
    /\ transit' = [transit EXCEPT ![c][d] = Tail(@)]
    /\ clockTimeNS' = IF msg.base = BaseOf[d]
                      THEN [clockTimeNS EXCEPT
                               ![d] = UpdateTimeFromMessage(msg.stamp)]
                      ELSE clockTimeNS
    /\ UNCHANGED set

ClockNext ==
    \/ \E c \in Clock, time \in Time : SetTime(c, time)
    \/ \E c, d \in Clock : OnClockMessageReceived(c, d)

IsReady(c) == clockTimeNS[c] # 0

ClockSpec == ClockInit /\ [][ClockNext]_clockvars

(***************************************************************************)
(* Properties.                                                             *)
(***************************************************************************)

\* Times of a base that were set on c, those of seconds an int holds.
SetOn(c, base) ==
    {i \in DOMAIN set : set[i].clock = c /\ BaseOf[c] = base}
Fits(time) == Seconds(time) = AsInt(Seconds(time))

\* When one clock of a base is set and its messages arrived, every clock of
\* the base shows the time set last, to the nanosecond, before 1970 too; the
\* others were never disturbed.  Clocks set in two processes may stay apart.
ClocksAgree ==
    \A d \in Clock :
        LET setters == {c \in Clock : SetOn(c, BaseOf[d]) # {}} IN
        /\ setters = {} => ~ IsReady(d)
        /\ \A c \in setters :
              LET last == set[Max(SetOn(c, BaseOf[d]))].time
              IN  setters = {c} /\ transit[c][d] = <<>> /\ Fits(last)
                      => clockTimeNS[d] = last
=============================================================================
