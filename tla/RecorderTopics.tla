--------------------------- MODULE RecorderTopics ---------------------------
(***************************************************************************)
(* The topics of log::Recorder (log/src/Recorder.cc): the user adds topics *)
(* and patterns, and the recorder's own discovery tells it of every new    *)
(* publisher.  Both threads run AddTopic, and topicMutex is never locked:  *)
(* an action is one access to alreadySubscribed or patterns, or one call   *)
(* of the node.  A pattern is the set of the topics it matches.            *)
(***************************************************************************)
EXTENDS FiniteSets, Naturals

CONSTANTS
    RecTopic,           \* topics
    Refused,            \* topics SubscribeRaw refuses, their names invalid
    Elsewhere,          \* topics advertised in another partition
    Pattern,            \* regular expressions, as sets of topics
    MaxAdds             \* bound of the instance, on the user's calls

VARIABLES
    advertised,         \* topics with a publisher
    listed,             \* those of them Node::TopicList returns
    heard,              \* those the recorder's discovery has reported
    alreadySubscribed,  \* Implementation::alreadySubscribed
    patterns,           \* Implementation::patterns
    subscriptions,      \* how often the node is subscribed to a topic
    at,                 \* where each thread is
    todo,               \* topics each thread has yet to add
    current,            \* the topic it adds
    adding,             \* the pattern the user adds
    adds,               \* how often the user called
    awaited             \* history: topics advertised after a pattern for them

network == <<advertised, listed, heard, awaited>>
recorded == <<alreadySubscribed, patterns, subscriptions>>
threads == <<at, todo, current, adding, adds>>
recording == <<network, recorded, threads>>

AddThread == {"user", "discovery"}
NoPattern == {}

Init ==
    /\ advertised = {} /\ listed = {} /\ heard = {} /\ awaited = {}
    /\ alreadySubscribed = {} /\ patterns = {}
    /\ subscriptions = [t \in RecTopic |-> 0]
    /\ at = [p \in AddThread |-> "idle"]
    /\ todo = [p \in AddThread |-> {}]
    /\ current = [p \in AddThread |-> CHOOSE t \in RecTopic : TRUE]
    /\ adding = NoPattern
    /\ adds = 0

(***************************************************************************)
(* The network: a topic is advertised; the discovery of NodeShared, which  *)
(* TopicList asks, learns of it at a time of its own.                      *)
(***************************************************************************)
Advertise(t) ==
    /\ t \notin advertised \union Refused
    /\ advertised' = advertised \union {t}
    /\ awaited' = IF t \notin Elsewhere /\ \E p \in patterns : t \in p
                  THEN awaited \union {t} ELSE awaited
    /\ UNCHANGED <<listed, heard, recorded, threads>>

Learn(t) ==
    /\ t \in (advertised \ listed) \ Elsewhere
    /\ listed' = listed \union {t}
    /\ UNCHANGED <<advertised, heard, awaited, recorded, threads>>

(***************************************************************************)
(* OnAdvertisement, in the discovery thread.                               *)
(***************************************************************************)
OnAdvertisement(t) ==
    /\ at["discovery"] = "idle"
    /\ t \in advertised \ heard
    /\ heard' = heard \union {t}
    /\ IF t \in Elsewhere \union alreadySubscribed
       THEN UNCHANGED <<at, todo>>
       ELSE /\ at' = [at EXCEPT !["discovery"] = "match"]
            /\ todo' = [todo EXCEPT !["discovery"] = {t}]
    /\ UNCHANGED <<advertised, listed, awaited, recorded, current,
                   adding, adds>>

\* Mutant: the first pattern alone is looked at.
MatchFirst ==
    /\ at["discovery"] = "match"
    /\ LET t == CHOOSE t \in todo["discovery"] : TRUE
       IN  IF patterns # {} /\ t \in CHOOSE p \in patterns : TRUE
           THEN at' = [at EXCEPT !["discovery"] = "test"] /\ UNCHANGED todo
           ELSE /\ at' = [at EXCEPT !["discovery"] = "idle"]
                /\ todo' = [todo EXCEPT !["discovery"] = {}]
    /\ UNCHANGED <<network, recorded, current, adding, adds>>

\* Every pattern that matches adds the topic; the second time does nothing.
Match ==
    /\ at["discovery"] = "match"
    /\ IF \E p \in patterns : todo["discovery"] \subseteq p
       THEN at' = [at EXCEPT !["discovery"] = "test"] /\ UNCHANGED todo
       ELSE /\ at' = [at EXCEPT !["discovery"] = "idle"]
            /\ todo' = [todo EXCEPT !["discovery"] = {}]
    /\ UNCHANGED <<network, recorded, current, adding, adds>>

(***************************************************************************)
(* AddTopic of a name, of either thread, for each topic it has to add.     *)
(***************************************************************************)
AddTopicTest(p, t) ==
    /\ at[p] = "test" /\ t \in todo[p]
    /\ todo' = [todo EXCEPT ![p] = @ \ {t}]
    /\ IF t \in alreadySubscribed
       THEN UNCHANGED <<at, current>>
       ELSE /\ at' = [at EXCEPT ![p] = "subscribe"]
            /\ current' = [current EXCEPT ![p] = t]
    /\ UNCHANGED <<network, recorded, adding, adds>>

\* A refusal ends the call, and a pattern that is being added is not kept.
Subscribe(p) ==
    /\ at[p] = "subscribe"
    /\ IF current[p] \in Refused
       THEN /\ at' = [at EXCEPT ![p] = "idle"]
            /\ todo' = [todo EXCEPT ![p] = {}]
            /\ adding' = NoPattern
            /\ UNCHANGED subscriptions
       ELSE /\ subscriptions' = [subscriptions EXCEPT ![current[p]] = @ + 1]
            /\ at' = [at EXCEPT ![p] = "insert"]
            /\ UNCHANGED <<todo, adding>>
    /\ UNCHANGED <<network, alreadySubscribed, patterns, current, adds>>

Insert(p) ==
    /\ at[p] = "insert"
    /\ alreadySubscribed' = alreadySubscribed \union {current[p]}
    /\ at' = [at EXCEPT ![p] = "test"]
    /\ UNCHANGED <<network, patterns, subscriptions, current, todo,
                   adding, adds>>

\* The pattern is kept after the topics that were there are added.
AddTopicDone(p) ==
    /\ at[p] = "test" /\ todo[p] = {}
    /\ at' = [at EXCEPT ![p] = "idle"]
    /\ patterns' = IF p = "user" /\ adding # NoPattern
                   THEN patterns \union {adding} ELSE patterns
    /\ adding' = IF p = "user" THEN NoPattern ELSE adding
    /\ UNCHANGED <<network, alreadySubscribed, subscriptions, current,
                   todo, adds>>

(***************************************************************************)
(* The user's two AddTopics.                                               *)
(***************************************************************************)
AddTopic(t) ==
    /\ adds < MaxAdds /\ adds' = adds + 1
    /\ at["user"] = "idle"
    /\ at' = [at EXCEPT !["user"] = "test"]
    /\ todo' = [todo EXCEPT !["user"] = {t}]
    /\ UNCHANGED <<network, recorded, current, adding>>

AddPattern(pattern) ==
    /\ adds < MaxAdds /\ adds' = adds + 1
    /\ at["user"] = "idle"
    /\ pattern \notin patterns
    /\ at' = [at EXCEPT !["user"] = "test"]
    /\ todo' = [todo EXCEPT !["user"] = listed \intersect pattern]
    /\ adding' = pattern
    /\ UNCHANGED <<network, recorded, current>>

Adding(p) ==
    \/ \E t \in RecTopic : AddTopicTest(p, t)
    \/ Subscribe(p) \/ Insert(p) \/ AddTopicDone(p)

Hearing == Match \/ \E t \in RecTopic : OnAdvertisement(t)

Next ==
    \/ \E t \in RecTopic : Advertise(t) \/ Learn(t) \/ AddTopic(t)
    \/ \E pattern \in Pattern : AddPattern(pattern)
    \/ Hearing
    \/ \E p \in AddThread : Adding(p)

Spec == Init /\ [][Next]_recording

\* Discovery reports every publisher in the end; a call goes on.
Fairness ==
    /\ WF_recording(Hearing)
    /\ \A p \in AddThread : WF_recording(Adding(p))

(***************************************************************************)
(* Properties.                                                             *)
(***************************************************************************)
TypeOK ==
    /\ listed \subseteq advertised /\ heard \subseteq advertised
    /\ advertised \subseteq RecTopic \ Refused
    /\ alreadySubscribed \subseteq {t \in RecTopic : subscriptions[t] > 0}
    /\ patterns \subseteq Pattern
    /\ at \in [AddThread -> {"idle", "match", "test", "subscribe", "insert"}]
    /\ todo \in [AddThread -> SUBSET RecTopic]
    /\ current \in [AddThread -> RecTopic]
    /\ adds \in 0..MaxAdds

\* A topic that is advertised after the pattern it matches was added is
\* subscribed to, whatever the user adds meanwhile.
LaterTopicsAdded ==
    \A t \in RecTopic \ (Refused \union Elsewhere) :
        t \in awaited ~> t \in alreadySubscribed
=============================================================================
