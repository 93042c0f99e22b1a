----------------------------- MODULE TopicNames -----------------------------
(***************************************************************************)
(* Names of topics (src/src/TopicUtils.cc): which are valid, what a node   *)
(* makes of the name its user writes, how others take the result apart,    *)
(* and the tokens that stand for publishers in Zenoh.  A name is the       *)
(* sequence of its characters, so that what the separators do is seen.  An *)
(* operator that may fail returns Failed, or NoParts.                      *)
(***************************************************************************)
EXTENDS Naturals, Sequences, SequencesExt

CONSTANT MaxNameLength      \* TopicUtils::kMaxNameLength

NoName == <<>>
Failed == NoName
NoParts == [partition |-> NoName, topic |-> NoName]

Includes(name, c) == c \in Range(name)

\* Two characters in a row.
IncludesPair(name, c, d) ==
    \E i \in 1..(Len(name) - 1) : name[i] = c /\ name[i + 1] = d

IsValidNamespace(ns) ==
    /\ Len(ns) <= MaxNameLength
    /\ ns # <<"/">>
    /\ \A c \in {"~", " ", "@"} : ~ Includes(ns, c)
    /\ ~ IncludesPair(ns, "/", "/")
    /\ ~ IncludesPair(ns, ":", "=")

IsValidPartition(partition) == IsValidNamespace(partition)
IsValidTopic(topic) == IsValidNamespace(topic) /\ topic # NoName

(***************************************************************************)
(* Fully qualified names: @PARTITION@NAMESPACE/TOPIC.                      *)
(***************************************************************************)
Starts(name) == name # NoName /\ Head(name) = "/"
Ends(name) == name # NoName /\ Last(name) = "/"

Rooted(name) == IF Starts(name) THEN name ELSE <<"/">> \o name
Chopped(name) == IF Ends(name) THEN Front(name) ELSE name
Closed(name) == IF Ends(name) THEN name ELSE Append(name, "/")

\* Mutant: the trailing slash of a relative topic stays.
QualifiedOpen(partition, ns, topic) ==
    <<"@">> \o (IF partition = NoName THEN NoName
                ELSE Chopped(Rooted(partition)))
        \o <<"@">>
        \o (IF Starts(topic) THEN Chopped(topic)
            ELSE Rooted(Closed(ns)) \o topic)

Qualified(partition, ns, topic) ==
    <<"@">> \o (IF partition = NoName THEN NoName
                ELSE Chopped(Rooted(partition)))
        \o <<"@">>
        \o (IF Starts(topic) THEN Chopped(topic)
            ELSE Rooted(Closed(ns)) \o Chopped(topic))

FullyQualifiedName(partition, ns, topic) ==
    LET name == Qualified(partition, ns, topic)
    IN  IF /\ IsValidPartition(partition)
           /\ IsValidNamespace(ns)
           /\ IsValidTopic(topic)
           /\ Len(name) <= MaxNameLength
        THEN name ELSE Failed

\* Between the first "@" of the name and the last one, and what follows.
DecomposeFullyQualifiedTopic(name) ==
    LET lastAt == SelectLastInSeq(name, LAMBDA c : c = "@")
        partition == SubSeq(name, 2, lastAt - 1)
        topic == SubSeq(name, lastAt + 1, Len(name))
    IN  IF /\ name # NoName /\ Head(name) = "@"
           /\ lastAt \notin {1, Len(name)}
           /\ IsValidPartition(partition)
           /\ IsValidTopic(topic)
        THEN [partition |-> partition, topic |-> topic] ELSE NoParts

\* What nodes and messages make of a name: the part after the last "@".
WithoutPartition(name) ==
    SubSeq(name, SelectLastInSeq(name, LAMBDA c : c = "@") + 1, Len(name))

\* Whether a node of a partition lists a name: the "/" in front of the
\* partition of the name is taken away, the node's own is as it was written.
Lists(partition, name) ==
    LET parts == DecomposeFullyQualifiedTopic(name)
    IN  partition = IF parts.partition = NoName THEN NoName
                    ELSE Tail(parts.partition)

(***************************************************************************)
(* Liveliness tokens: the fields between slashes, those of the name with   *)
(* "%" in the place of their own.                                          *)
(***************************************************************************)
MangleName(name) == ReplaceAll(name, "/", "%")
DemangleName(name) == ReplaceAll(name, "%", "/")

\* MangleType and DemangleType.
MangleType(types) ==
    IF types = <<>> \/ \E i \in DOMAIN types :
           types[i] = NoName \/ Includes(types[i], "&")
    THEN Failed
    ELSE Tail(FoldLeft(LAMBDA all, type : all \o <<"&">> \o type, NoName,
                       types))

\* The parts of a string between separators.
Split(text, separator) ==
    FoldLeft(LAMBDA parts, c :
                 IF c = separator THEN Append(parts, NoName)
                 ELSE [parts EXCEPT ![Len(parts)] = Append(@, c)],
             <<NoName>>, text)

DemangleType(text) ==
    LET types == Split(text, "&")
    IN  IF NoName \in Range(types) THEN Failed ELSE types

Join(fields) ==
    Tail(FoldLeft(LAMBDA all, field : all \o <<"/">> \o field, NoName, fields))

Void == <<"%">>

\* Tokens of a message publisher, with one type, and of a service, with two.
CreateLivelinessToken(name, pUuid, nUuid, entityType, types) ==
    LET parts == DecomposeFullyQualifiedTopic(name)
        typeName == IF Len(types) = 1 THEN types[1] ELSE MangleType(types)
    IN  IF typeName = Failed THEN NoName
        ELSE Join((IF parts = NoParts THEN <<>>
                   ELSE << <<"@", "g", "z">>, MangleName(parts.partition),
                           pUuid, nUuid, nUuid, entityType, Void, Void, Void,
                           MangleName(parts.topic) >>)
                  \o << typeName, Void, Void >>)

\* Fields 2 to 10 and 12 must not be empty.
DecomposeLivelinessToken(token, services) ==
    LET fields == Split(token, "/")
        types == IF services THEN DemangleType(fields[11]) ELSE <<fields[11]>>
        parts == [partition |-> DemangleName(fields[2]),
                  topic |-> DemangleName(fields[10]),
                  pUuid |-> fields[3], nUuid |-> fields[4],
                  entityType |-> fields[6], types |-> types]
    IN  IF /\ Len(fields) = 13 /\ Head(token) = "@"
           /\ \A i \in 2..10 : fields[i] # NoName
           /\ fields[12] # NoName
           /\ types # Failed /\ (services => Len(types) = 2)
           /\ IsValidPartition(parts.partition)
           /\ IsValidTopic(parts.topic)
        THEN parts ELSE NoParts

(***************************************************************************)
(* AsValidTopic makes a topic of any text.  at is where the loop is: what  *)
(* it skips are "@", "~" and the pairs ":=" and "//".                      *)
(***************************************************************************)
Cleaned(text) ==
    LET SkipsPair(i) ==
            i < Len(text)
                /\ <<text[i], text[i + 1]>> \in {<<":", "=">>, <<"/", "/">>}
        from[i \in 1..(Len(text) + 2)] ==
            CASE i > Len(text) -> NoName
              [] i <= Len(text) /\ text[i] = " " -> <<"_">> \o from[i + 1]
              [] i <= Len(text) /\ text[i] \in {"@", "~"} -> from[i + 1]
              [] i <= Len(text) /\ SkipsPair(i) -> from[i + 2]
              [] OTHER -> <<text[i]>> \o from[i + 1]
    IN  from[1]

AsValidTopic(text) ==
    IF IsValidTopic(Cleaned(text)) THEN Cleaned(text) ELSE NoName

(***************************************************************************)
(* Properties.                                                             *)
(***************************************************************************)
\* What nodes take a name apart into leads back to the name, whatever
\* namespace it is qualified in again: the end of a node, which unsubscribes
\* from the names it took apart, finds its handlers.
Requalifies(name, ns) ==
    LET parts == DecomposeFullyQualifiedTopic(name)
    IN  /\ parts # NoParts
        /\ parts.topic = WithoutPartition(name)
        /\ FullyQualifiedName(parts.partition, ns, parts.topic) = name

\* A partition as its owner will find it listed again.
Bare(partition) == ~ Starts(partition) /\ ~ Ends(partition)

\* A token says what it was made of, with "/" in the place of each "%"; it is
\* not read when that makes a name invalid, nor ever for the empty partition,
\* whose field is empty: no process learns of such topics.
TokenReads(name, services) ==
    LET types == IF services THEN << <<"R">>, <<"S">> >> ELSE << <<"M">> >>
        token == CreateLivelinessToken(name, <<"p">>, <<"n">>, <<"e">>, types)
        parts == DecomposeFullyQualifiedTopic(name)
        partition == DemangleName(parts.partition)
        topic == DemangleName(parts.topic)
    IN  DecomposeLivelinessToken(token, services) =
            IF partition # NoName /\ IsValidPartition(partition)
               /\ IsValidTopic(topic)
            THEN [partition |-> partition, topic |-> topic,
                  pUuid |-> <<"p">>, nUuid |-> <<"n">>,
                  entityType |-> <<"e">>, types |-> types]
            ELSE NoParts

\* What is made of a text is a topic, or nothing; it is the text itself if
\* that is one.
MakesTopic(text) ==
    LET made == AsValidTopic(text)
    IN  /\ made = Failed \/ (IsValidTopic(made) /\ AsValidTopic(made) = made)
        /\ IsValidTopic(text) => made = text
=============================================================================
