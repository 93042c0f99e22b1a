--------------------------- MODULE PlaybackTopics ---------------------------
(***************************************************************************)
(* What a log::Playback plays (log/src/Playback.cc): the user adds and     *)
(* removes topics, and starts handles that publish the messages of the     *)
(* topics chosen so far.  One thread uses the Playback; the thread of each *)
(* handle, whose timing is module Playback's, goes on beside it.           *)
(***************************************************************************)
EXTENDS LogQuery, FiniteSets, TLC

CONSTANTS
    Logged,             \* the messages of the log, in order
    Ids,                \* its descriptor: topics with types to identifiers
    Asked,              \* names the user gives, and patterns, as sets of them
    Matching,
    Handle,             \* handles the user may start
    MaxChoices          \* bound of the instance, on the user's calls

VARIABLES
    opened,             \* whether the log could be opened
    threadsafe,         \* kSqlite3Threadsafe
    topicNames,         \* Playback::Implementation::topicNames
    addTopicWasUsed,    \* Playback::Implementation::addTopicWasUsed
    playing,            \* the handles the user holds
    lastHandle,         \* Playback::Implementation::lastHandle
    choices             \* history: the calls that chose topics

selection == <<topicNames, addTopicWasUsed, choices>>
chosen == <<opened, threadsafe, selection, playing, lastHandle>>

NoHandle == "none"
AllTopics == {key.topic : key \in DOMAIN Ids}
TypesOf(topic) == {key.type : key \in {k \in DOMAIN Ids : k.topic = topic}}

Init ==
    /\ opened \in BOOLEAN /\ threadsafe \in BOOLEAN
    /\ topicNames = {} /\ addTopicWasUsed = FALSE
    /\ playing = <<>>
    /\ lastHandle = NoHandle
    /\ choices = <<>>

(***************************************************************************)
(* The choice of topics.                                                   *)
(***************************************************************************)
Chooses(call, names) ==
    /\ Len(choices) < MaxChoices
    /\ choices' = Append(choices, [call |-> call, names |-> names])
    /\ UNCHANGED <<opened, threadsafe, playing, lastHandle>>

\* Either AddTopic: of a name, or of what a pattern matches.
AddTopics(names) ==
    /\ Chooses("add", names)
    /\ addTopicWasUsed' = TRUE
    /\ topicNames' =
           IF opened THEN topicNames \union (names \cap AllTopics)
                     ELSE topicNames

DefaultToAllTopics == IF addTopicWasUsed THEN topicNames ELSE AllTopics

\* Either RemoveTopic.  The first call reads the descriptor, which a log that
\* was not opened has not.
RemoveTopics(names) ==
    /\ opened \/ addTopicWasUsed
    /\ Chooses("remove", names)
    /\ addTopicWasUsed' = TRUE
    /\ topicNames' = DefaultToAllTopics \ names

(***************************************************************************)
(* Start.  Each topic is advertised with each of its types, and the node   *)
(* refuses all but the first: publishers gives the type that is.           *)
(***************************************************************************)
LastUnfinished ==
    /\ lastHandle \in DOMAIN playing
    /\ ~ playing[lastHandle].finished

CreatePublishers(topics) ==
    {publishers \in [topics -> UNION {TypesOf(t) : t \in topics}] :
        \A t \in topics : publishers[t] \in TypesOf(t)}

NewHandle(topics, publishers) ==
    LET batch == ListStatements(Logged, Ids, topics, AllTime)[1]
    IN  [trackedTopics |-> topics, publishers |-> publishers,
         batch |-> batch, stop |-> batch = <<>>, finished |-> FALSE,
         sent |-> <<>>, choices |-> choices]

Start(h) ==
    /\ h \notin DOMAIN playing
    /\ opened /\ ~ (~ threadsafe /\ LastUnfinished)
    /\ \E publishers \in CreatePublishers(DefaultToAllTopics) :
           playing' =
               (h :> NewHandle(DefaultToAllTopics, publishers)) @@ playing
    /\ lastHandle' = IF threadsafe THEN lastHandle ELSE h
    /\ UNCHANGED <<opened, threadsafe, selection>>

(***************************************************************************)
(* A handle: its thread, and its end.                                      *)
(***************************************************************************)
Runs(h) ==
    /\ h \in DOMAIN playing
    /\ ~ playing[h].stop /\ ~ playing[h].finished

Published(handle, row) ==
    \E key \in DOMAIN Ids :
        /\ row.topicId = Ids[key]
        /\ handle.publishers[key.topic] = key.type

\* A message whose publisher is not valid is passed over.
PublishNext(h) ==
    /\ Runs(h) /\ playing[h].batch # <<>>
    /\ LET row == Head(playing[h].batch)
       IN  playing' = [playing EXCEPT
               ![h].batch = Tail(@),
               ![h].sent = IF Published(playing[h], row) THEN Append(@, row)
                                                         ELSE @]
    /\ UNCHANGED <<opened, threadsafe, selection, lastHandle>>

Finish(h) ==
    /\ Runs(h) /\ playing[h].batch = <<>>
    /\ playing' = [playing EXCEPT ![h].finished = TRUE]
    /\ UNCHANGED <<opened, threadsafe, selection, lastHandle>>

\* Stop waits for the thread, which a handle without messages has not.
StopHandle(h) ==
    /\ h \in DOMAIN playing /\ ~ playing[h].stop
    /\ playing' = [playing EXCEPT ![h].stop = TRUE, ![h].finished = TRUE]
    /\ UNCHANGED <<opened, threadsafe, selection, lastHandle>>

\* The destructor stops the handle first.
DropHandle(h) ==
    /\ h \in DOMAIN playing
    /\ playing' = [held \in DOMAIN playing \ {h} |-> playing[held]]
    /\ lastHandle' = IF lastHandle = h THEN NoHandle ELSE lastHandle
    /\ UNCHANGED <<opened, threadsafe, selection>>

Next ==
    \/ \E names \in {{name} : name \in Asked} \union Matching :
           AddTopics(names) \/ RemoveTopics(names)
    \/ \E h \in Handle :
           Start(h) \/ PublishNext(h) \/ Finish(h) \/ StopHandle(h)
               \/ DropHandle(h)

(***************************************************************************)
(* Properties.                                                             *)
(***************************************************************************)
\* What calls ask for: the last one that names a topic decides, and a topic
\* that none names is played unless the first call added some other.
Wanted(calls) ==
    LET Naming(t) == {i \in DOMAIN calls : t \in calls[i].names}
    IN  {t \in AllTopics :
            IF Naming(t) = {}
            THEN calls = <<>> \/ calls[1].call = "remove"
            ELSE \E i \in Naming(t) : /\ calls[i].call = "add"
                                      /\ \A j \in Naming(t) : j <= i}

SentIsChosen(handle) ==
    LET Due(row) == \E key \in DOMAIN Ids :
                        /\ row.topicId = Ids[key]
                        /\ key.topic \in Wanted(handle.choices)
                        /\ handle.publishers[key.topic] = key.type
        due == Ordered(SelectSeq(Logged, Due))
    IN  /\ IsPrefix(handle.sent, due)
        /\ handle.finished /\ ~ handle.stop => handle.sent = due

\* A handle that plays to its end publishes, of each topic the user had
\* asked for when it started, every message of one type, and nothing else;
\* unless sqlite is safe for threads, two handles never read the log at once.
PlaysChosen ==
    /\ \A h \in DOMAIN playing : SentIsChosen(playing[h])
    /\ threadsafe \/ Cardinality({h \in Handle : Runs(h)}) <= 1
=============================================================================
