------------------------------ MODULE Playback ------------------------------
(***************************************************************************)
(* A PlaybackHandle (log/src/Playback.cc) of a log with messages: its      *)
(* thread publishes each when its time has come, while the user pauses,    *)
(* resumes, steps, seeks and stops.                                        *)
(*                                                                         *)
(* Pause, Resume and the paused wait hold pauseMutex, the publication of a *)
(* message and the query of Seek hold batchMutex; each is one action.      *)
(* Everything else is read and written without a lock: an action is one    *)
(* access or test, except that the thread decides what to wait for at      *)
(* once.  now is the steady clock.                                         *)
(***************************************************************************)
EXTENDS Integers, Sequences, FiniteSetsExt

CONSTANTS
    Received,           \* receive times of the messages of the log, in order
    StepSizes,          \* arguments of Step
    Offsets,            \* arguments of Seek that leave a message to play
    MsgWaiting,         \* whether messages wait for their time
    PlayMaxTime, MaxCalls   \* bounds of the instance

\* A log that is played has a message, and Seek is given an offset in it.
ASSUME PlaybackAssumption ==
    /\ Received \in Seq(Int) /\ Received # <<>>
    /\ StepSizes \subseteq Int
    /\ \A d \in Offsets :
          d \in Int /\ \E i \in DOMAIN Received : Received[i] >= Received[1] + d
    /\ MsgWaiting \in BOOLEAN
    /\ MaxCalls \in Nat

VARIABLES
    stop,             \* Implementation::stop
    paused,           \* Implementation::paused
    finished,         \* Implementation::finished
    boundaryTime,     \* Implementation::boundaryTime
    playbackTime,     \* Implementation::playbackTime
    nextMessageTime,  \* Implementation::nextMessageTime
    lastEventTime,    \* Implementation::lastEventTime
    messageIter,      \* Implementation::messageIter, a position of the log
    player,           \* where the playback thread is
    stepping,         \* whether the thread waits for the end of a step
    targetTime,       \* what the thread waits for
    handle,           \* where the user's thread is
    waiter,           \* where a thread that calls WaitUntilFinished is
    now,              \* the steady clock
    calls,            \* calls the user made
    playedAt,         \* history: when the last message was published
    calm              \* history: no Pause, Seek or Stop acted since then

times == <<boundaryTime, playbackTime, nextMessageTime, lastEventTime>>
wait == <<stepping, targetTime>>
history == <<playedAt, calm>>
flags == <<stop, paused, finished>>
playback == <<flags, times, messageIter, player, wait, handle, waiter, now,
              calls, history>>

LastPosition == Len(Received)
Forever == 1000

PlayerState == {"top", "check", "blocked", "decide", "wait", "falling",
                "asleep", "publish", "stepDone", "exit", "notify", "ended"}
HandleState == {"idle", "resume", "seek", "seekNext", "seekEvent", "notify",
                "unpause", "join", "gone"}
Seeking == {"seek", "seekNext", "seekEvent"}
WaiterState == {"outside", "test", "falling", "asleep", "returned"}

\* The constructor has called StartPlayback.
PlayInit ==
    /\ stop = FALSE /\ paused = FALSE /\ finished = FALSE
    /\ boundaryTime = Forever
    /\ playbackTime = Received[1]
    /\ nextMessageTime = Received[1]
    /\ lastEventTime = 0
    /\ messageIter = 1
    /\ player = "top"
    /\ stepping = FALSE
    /\ targetTime = 0
    /\ handle = "idle"
    /\ waiter = "outside"
    /\ now = 0
    /\ calls = 0
    /\ playedAt = 0
    /\ calm = FALSE

(***************************************************************************)
(* The playback thread.                                                    *)
(***************************************************************************)
Goes(from, to) == player = from /\ player' = to

Top ==
    /\ Goes("top", IF stop \/ messageIter > LastPosition THEN "exit" ELSE "check")
    /\ UNCHANGED <<flags, times, messageIter, wait, handle, waiter, now, calls,
                   history>>

Check ==
    /\ Goes("check", IF paused THEN "blocked" ELSE "decide")
    /\ UNCHANGED <<flags, times, messageIter, wait, handle, waiter, now, calls,
                   history>>

\* Mutant: time goes on while the playback is paused.
EventTimeKept ==
    /\ ~ paused
    /\ Goes("blocked", "top")
    /\ UNCHANGED <<flags, times, messageIter, wait, handle, waiter, now, calls,
                   history>>

\* The wait for pauseConditionVariable ends.  What clears the flag notifies
\* it under pauseMutex, so no notification is lost.
Unblock ==
    /\ ~ paused
    /\ Goes("blocked", "top")
    /\ lastEventTime' = now
    /\ UNCHANGED <<flags, boundaryTime, playbackTime, nextMessageTime,
                   messageIter, wait, handle, waiter, now, calls, history>>

\* Up to the next message, or to the end of the step that was asked for.
Decide ==
    LET reaches == nextMessageTime <= boundaryTime
        end == IF reaches THEN nextMessageTime ELSE boundaryTime
    IN  /\ Goes("decide",
                IF reaches /\ ~ MsgWaiting THEN "publish" ELSE "wait")
        /\ stepping' = ~ reaches
        /\ targetTime' = lastEventTime + end - playbackTime
        /\ UNCHANGED <<flags, times, messageIter, handle, waiter, now, calls,
                       history>>

\* WaitUntil returns TRUE whatever ended the wait: wait_for evaluates the
\* predicate, which a stop or a pause satisfies as well.
FinishedWaiting == targetTime <= now \/ stop \/ paused
Returned == IF stepping THEN "stepDone" ELSE "publish"

EnterWait ==
    /\ Goes("wait", IF FinishedWaiting THEN Returned ELSE "falling")
    /\ UNCHANGED <<flags, times, messageIter, wait, handle, waiter, now, calls,
                   history>>

FallAsleep ==
    /\ Goes("falling", "asleep")
    /\ UNCHANGED <<flags, times, messageIter, wait, handle, waiter, now, calls,
                   history>>

\* The time has come.
TimeOut ==
    /\ targetTime <= now
    /\ Goes("asleep", Returned)
    /\ UNCHANGED <<flags, times, messageIter, wait, handle, waiter, now, calls,
                   history>>

PlayerWake ==
    /\ FinishedWaiting
    /\ Goes("asleep", Returned)
    /\ UNCHANGED <<flags, times, messageIter, wait, handle, waiter, now, calls,
                   history>>

\* At the end of the batch the iterator still shows the last message.
TimeReceived(i) ==
    IF i > LastPosition THEN Received[LastPosition] ELSE Received[i]

\* Mutant: the delay of a message is made up for with the next one.
PublishAtTarget ==
    /\ Goes("publish", "top")
    /\ messageIter' = messageIter + 1
    /\ playbackTime' = nextMessageTime
    /\ lastEventTime' = targetTime
    /\ nextMessageTime' = TimeReceived(messageIter + 1)
    /\ playedAt' = now
    /\ calm' = (handle \notin Seeking)
    /\ UNCHANGED <<flags, boundaryTime, wait, handle, waiter, now, calls>>

Publish ==
    /\ Goes("publish", "top")
    /\ messageIter' = messageIter + 1
    /\ playbackTime' = nextMessageTime
    /\ lastEventTime' = now
    /\ nextMessageTime' = TimeReceived(messageIter + 1)
    /\ playedAt' = now
    /\ calm' = (handle \notin Seeking)
    /\ UNCHANGED <<flags, boundaryTime, wait, handle, waiter, now, calls>>

\* What Pause does, under pauseMutex.
DoPause ==
    IF paused
    THEN UNCHANGED <<paused, times>>
    ELSE /\ paused' = TRUE
         /\ playbackTime' = playbackTime + now - lastEventTime
         /\ lastEventTime' = now
         /\ boundaryTime' = Forever
         /\ UNCHANGED nextMessageTime

StepDone ==
    /\ Goes("stepDone", "top")
    /\ DoPause
    /\ UNCHANGED <<stop, finished, messageIter, wait, handle, waiter, now,
                   calls, history>>

Exit ==
    /\ Goes("exit", "notify")
    /\ finished' = TRUE
    /\ UNCHANGED <<stop, paused, times, messageIter, wait, handle, waiter, now,
                   calls, history>>

\* Notified without waitMutex: a waiter about to sleep misses it.
NotifyFinished ==
    /\ Goes("notify", "ended")
    /\ waiter' = IF waiter = "asleep" THEN "returned" ELSE waiter
    /\ UNCHANGED <<flags, times, messageIter, wait, handle, now, calls,
                   history>>

Player ==
    Top \/ Check \/ Unblock \/ Decide \/ EnterWait \/ FallAsleep \/ TimeOut
        \/ Publish \/ StepDone \/ Exit \/ NotifyFinished

(***************************************************************************)
(* The user's thread.                                                      *)
(***************************************************************************)
Calls(to) ==
    /\ handle = "idle" /\ handle' = to
    /\ calls < MaxCalls /\ calls' = calls + 1

Pause ==
    /\ Calls("idle")
    /\ DoPause
    /\ calm' = (calm /\ paused)
    /\ UNCHANGED <<stop, finished, messageIter, player, wait, waiter, now,
                   playedAt>>

Resume ==
    /\ Calls("idle")
    /\ paused' = FALSE
    /\ UNCHANGED <<stop, finished, times, messageIter, player, wait, waiter,
                   now, history>>

Step(d) ==
    /\ Calls("resume")
    /\ boundaryTime' = playbackTime + d
    /\ UNCHANGED <<flags, playbackTime, nextMessageTime, lastEventTime,
                   messageIter, player, wait, waiter, now, history>>

StepResume ==
    /\ handle = "resume" /\ handle' = "idle"
    /\ paused' = FALSE
    /\ UNCHANGED <<stop, finished, times, messageIter, player, wait, waiter,
                   now, calls, history>>

\* The first message at the offset or later.
Sought(d) == Min({i \in 1..LastPosition : Received[i] >= Received[1] + d})

Seek(d) ==
    /\ ~ stop
    /\ Calls("seek")
    /\ messageIter' = Sought(d)
    /\ calm' = FALSE
    /\ UNCHANGED <<flags, times, player, wait, waiter, now, playedAt>>

\* The rest of Seek holds no lock, and reads an iterator that the thread may
\* have advanced.
SeekPlayback ==
    /\ handle = "seek" /\ handle' = "seekNext"
    /\ playbackTime' = TimeReceived(messageIter)
    /\ calm' = FALSE
    /\ UNCHANGED <<flags, boundaryTime, nextMessageTime, lastEventTime,
                   messageIter, player, wait, waiter, now, calls, playedAt>>

SeekNext ==
    /\ handle = "seekNext" /\ handle' = "seekEvent"
    /\ nextMessageTime' = TimeReceived(messageIter)
    /\ boundaryTime' = Forever
    /\ calm' = FALSE
    /\ UNCHANGED <<flags, playbackTime, lastEventTime, messageIter, player,
                   wait, waiter, now, calls, playedAt>>

SeekEvent ==
    /\ handle = "seekEvent" /\ handle' = "idle"
    /\ lastEventTime' = now
    /\ calm' = FALSE
    /\ UNCHANGED <<flags, boundaryTime, playbackTime, nextMessageTime,
                   messageIter, player, wait, waiter, now, calls, playedAt>>

\* Of Stop, or of the destructor.
HandleStop ==
    /\ Calls("notify")
    /\ stop' = TRUE
    /\ calm' = FALSE
    /\ UNCHANGED <<paused, finished, times, messageIter, player, wait, waiter,
                   now, playedAt>>

HandleStopNotify ==
    /\ handle = "notify" /\ handle' = "unpause"
    /\ player' = IF player = "asleep" THEN Returned ELSE player
    /\ UNCHANGED <<flags, times, messageIter, wait, waiter, now, calls,
                   history>>

\* Mutant: a paused playback is not released.
HandleStopPaused ==
    /\ handle = "unpause" /\ handle' = "join"
    /\ UNCHANGED <<flags, times, messageIter, player, wait, waiter, now, calls,
                   history>>

HandleStopUnpause ==
    /\ handle = "unpause" /\ handle' = "join"
    /\ paused' = FALSE
    /\ UNCHANGED <<stop, finished, times, messageIter, player, wait, waiter,
                   now, calls, history>>

HandleStopJoin ==
    /\ handle = "join" /\ handle' = "gone"
    /\ player = "ended"
    /\ UNCHANGED <<flags, times, messageIter, player, wait, waiter, now, calls,
                   history>>

\* The steps that end a call.
Returning ==
    StepResume \/ SeekPlayback \/ SeekNext \/ SeekEvent \/ HandleStopNotify
        \/ HandleStopUnpause \/ HandleStopJoin

(***************************************************************************)
(* WaitUntilFinished, of another thread.                                   *)
(***************************************************************************)
WaitUntilFinished ==
    /\ waiter = "outside"
    /\ waiter' = IF stop THEN "returned" ELSE "test"
    /\ UNCHANGED <<flags, times, messageIter, player, wait, handle, now, calls,
                   history>>

WaitTest ==
    /\ waiter = "test"
    /\ waiter' = IF finished THEN "returned" ELSE "falling"
    /\ UNCHANGED <<flags, times, messageIter, player, wait, handle, now, calls,
                   history>>

WaitAsleep ==
    /\ waiter = "falling" /\ waiter' = "asleep"
    /\ UNCHANGED <<flags, times, messageIter, player, wait, handle, now, calls,
                   history>>

\* Time passes: up to the bound, and as long as the thread waits for it.
PlayTick ==
    /\ now < PlayMaxTime \/ (player = "asleep" /\ now < targetTime)
    /\ now' = now + 1
    /\ UNCHANGED <<flags, times, messageIter, player, wait, handle, waiter,
                   calls, history>>

PlayNext ==
    \/ Player \/ PlayerWake \/ Returning \/ PlayTick
    \/ Pause \/ Resume \/ HandleStop
    \/ \E d \in StepSizes : Step(d)
    \/ \E d \in Offsets : Seek(d)
    \/ WaitUntilFinished \/ WaitTest \/ WaitAsleep

PlaySpec == PlayInit /\ [][PlayNext]_playback

\* The thread runs, a call that began goes on, and time passes.  The user
\* need not call anything.
Fairness ==
    /\ WF_playback(Player)
    /\ WF_playback(Returning)
    /\ WF_playback(WaitTest \/ WaitAsleep)
    /\ WF_playback(PlayTick)

(***************************************************************************)
(* Properties.                                                             *)
(***************************************************************************)
PlayTypeOK ==
    /\ \A flag \in {stop, paused, finished, stepping, calm} : flag \in BOOLEAN
    /\ \A t \in {boundaryTime, playbackTime, nextMessageTime, lastEventTime,
                 targetTime, now, playedAt} : t \in Int
    /\ messageIter \in 1..(LastPosition + 1)
    /\ player \in PlayerState
    /\ handle \in HandleState
    /\ waiter \in WaiterState
    /\ calls \in 0..MaxCalls

\* Playback never runs ahead of the recording: unless the user paused, sought
\* or stopped in between, two messages are published at least as far apart as
\* they were received, whatever was stepped, resumed or interleaved.
Paced ==
    [][player = "publish" /\ player' = "top" /\ calm /\ MsgWaiting =>
           now - playedAt >= Received[messageIter] - Received[messageIter - 1]
      ]_playback

\* Stop, which joins the thread, returns: whether the thread sleeps between
\* two messages, is paused, ends a step or misses the notification.
HandleStopReturns == handle = "notify" ~> handle = "gone"

\* A playback that is not left paused ends.
PlaysOut == <>[] ~ paused => <> finished
=============================================================================
