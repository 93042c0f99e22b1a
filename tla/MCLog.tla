------------------------------- MODULE MCLog --------------------------------
(***************************************************************************)
(* Instances of the modules of the log library for TLC, one scenario each: *)
(*   "record"   Recorder;                                                  *)
(*   "topics"   RecorderTopics: two topics that patterns match, one of     *)
(*              another partition and one whose name is not valid;         *)
(*   "choose"   PlaybackTopics: a topic of two types and one of one, and   *)
(*              a name that is not in the log;                             *)
(*   "play"     Playback of three messages, with every call of the user;   *)
(*   "file"     LogFile over time: transactions, crashes, failures and the *)
(*              times, of messages of one topic;                           *)
(*   "failing"  LogFile with topics of two types and one kind of query;    *)
(*   "query"    LogFile with every query, nothing failing.                 *)
(***************************************************************************)
EXTENDS Recorder, LogFile, Playback, TLC

CONSTANT Scenarios

VARIABLES
    plan,
    \* of RecorderTopics
    advertised, listed, heard, alreadySubscribed, patterns, subscriptions, at,
    todo, current, adding, adds, awaited,
    \* of PlaybackTopics
    opened, threadsafe, topicNames, addTopicWasUsed, playing, lastHandle,
    choices

addvars == <<advertised, listed, heard, alreadySubscribed, patterns,
             subscriptions, at, todo, current, adding, adds, awaited>>
choosevars == <<opened, threadsafe, topicNames, addTopicWasUsed, playing,
                lastHandle, choices>>

Add == INSTANCE RecorderTopics WITH
    RecTopic <- {"t", "u", "o", "x"}, Refused <- {"x"}, Elsewhere <- {"o"},
    Pattern <- {{"t"}, {"t", "u", "o"}}, MaxAdds <- 2

Key(topic, type) == [topic |-> topic, type |-> type]

Logged == <<[topicId |-> 1, time |-> 2], [topicId |-> 2, time |-> 1],
            [topicId |-> 3, time |-> 2], [topicId |-> 1, time |-> 3]>>

Choose == INSTANCE PlaybackTopics WITH
    Ids <- Key("t", "A") :> 1 @@ Key("t", "B") :> 2 @@ Key("u", "A") :> 3,
    Asked <- {"t", "w"}, Matching <- {{"t", "u"}},
    Handle <- {"h1", "h2"}, MaxChoices <- 2

\* Of the log that is played, and of the one that is written.
ThreeTimes == <<2, 3, 5>>
ThreeKeys == {Key("t", "A"), Key("t", "B"), Key("u", "A")}

TypeA == {Key("t", "A")}
Topic_t == [option |-> "list", topics |-> {"t"}, range |-> AllTime]

PlannedFile ==
    CASE plan = "file" ->
             /\ wanted' = <<>>
             /\ Range(topics') \subseteq TypeA
             /\ \A i \in DOMAIN messages' : messages'[i].time = 1
      [] plan = "failing" ->
             /\ steady' = 0 /\ Len(messages') <= 2
             /\ wanted' \in {<<>>, <<Topic_t>>}
             /\ startTime' = -1
      [] plan = "query" ->
             /\ steady' = 0 /\ Len(messages') <= 2
             /\ mode' \in {"new", "out"}
             /\ startTime' = -1 /\ endTime' = -1
             /\ topics' # topics \/ inTransaction' # inTransaction
                    => messages' # messages

\* Empty messages come first, and the size changes before and after them.
PlannedRecord ==
    /\ \A t \in Thread : callback'[t] = 0 => callback[t] = 0 \/ clock = 0
    /\ maxBufferSize' # maxBufferSize => clock \in {0, 2}

\* One other topic at a time.
PlannedTopics ==
    /\ ~ {"u", "o"} \subseteq advertised'
    /\ "x" \in todo'["user"] => advertised' = {}

\* A second handle at once where the choice of topics makes no difference.
PlannedChoice ==
    threadsafe \/ Len(choices') = 2 => DOMAIN playing' \subseteq {"h1"}

\* WaitUntilFinished is called by itself, or with one call of the user.
PlannedPlay == waiter' # "outside" => calls' <= 1

MCInit ==
    /\ plan \in Scenarios
    /\ Init /\ Add!Init /\ Choose!Init /\ PlayInit /\ FileInit
    /\ plan # "choose" => ~opened /\ ~threadsafe

MCNext ==
    /\ UNCHANGED plan
    /\ \/ /\ plan = "record" /\ Next /\ PlannedRecord
          /\ UNCHANGED <<addvars, choosevars, playback, log>>
       \/ /\ plan = "topics" /\ Add!Next /\ PlannedTopics
          /\ UNCHANGED <<vars, choosevars, playback, log>>
       \/ /\ plan = "choose" /\ Choose!Next /\ PlannedChoice
          /\ UNCHANGED <<vars, addvars, playback, log>>
       \/ /\ plan = "play" /\ PlayNext /\ PlannedPlay
          /\ UNCHANGED <<vars, addvars, choosevars, log>>
       \/ /\ plan \in {"file", "failing", "query"} /\ FileNext /\ PlannedFile
          /\ UNCHANGED <<vars, addvars, choosevars, playback>>

mcvars == <<plan, vars, addvars, choosevars, playback, log>>

\* The fairness of each component, where a scenario runs it.
MCFairness ==
    /\ WF_vars(plan = "record" /\ Writer)
    /\ WF_vars(plan = "record" /\ Stopping)
    /\ \A t \in Thread : WF_vars(plan = "record" /\ Enqueue(t))
    /\ WF_addvars(plan = "topics" /\ Add!Hearing)
    /\ \A p \in Add!AddThread : WF_addvars(plan = "topics" /\ Add!Adding(p))
    /\ WF_playback(plan = "play" /\ Player)
    /\ WF_playback(plan = "play" /\ Returning)
    /\ WF_playback(plan = "play" /\ PlayTick)

MCSpec == MCInit /\ [][MCNext]_mcvars /\ MCFairness

(***************************************************************************)
(* Properties of the modules, under the names they have there; those of    *)
(* state have the types of the variables with them.                        *)
(***************************************************************************)

\* A topic that a pattern matches, advertised after it, is recorded in the
\* end (RecorderTopics; Recorder.cc:264-343).
LaterTopicsAdded == Add!LaterTopicsAdded

\* Stop returns, and what is played to its end finishes (Playback;
\* Playback.cc:601-604, 682-701).
PlaybackEnds == plan = "play" => HandleStopReturns /\ PlaysOut

\* Queries of a log give back what was inserted, by topic and time range
\* (LogFile), and playback publishes the chosen topics (PlaybackTopics);
\* Log.cc:108-172, 556-682, Playback.cc:275-421.
LogAnswers == /\ Add!TypeOK /\ PlayTypeOK /\ FileTypeOK
              /\ Choose!PlaysChosen /\ Answers
=============================================================================
