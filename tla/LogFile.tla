------------------------------- MODULE LogFile -------------------------------
(***************************************************************************)
(* A log file (log/src/Log.cc, MsgIter.cc): one Log after another opens    *)
(* it, inserts messages in transactions that last for a while, answers     *)
(* queries from caches, and is closed or dies with its process.            *)
(*                                                                         *)
(* SQLite is external: what a statement does to the tables, that an END    *)
(* makes a transaction durable, and that a crash rolls back an open one.   *)
(* Each statement may fail; then the call returns and keeps the rest.      *)
(***************************************************************************)
EXTENDS LogQuery, FiniteSetsExt

CONSTANTS
    Keys,               \* records of a topic and a message type
    Times,              \* receive times
    Period,             \* Implementation::transactionPeriod
    MaxTime, MaxRows    \* bounds of the instance

VARIABLES
    mode,             \* how the file is open: "out", "in", "closed" or "new"
    topics,           \* table topics, a sequence of keys
    messages,         \* table messages, each with its time and topic
    durable,          \* how many topics and messages are committed
    inTransaction,    \* Implementation::inTransaction
    lastTransaction,  \* Implementation::lastTransaction
    steady,           \* the steady clock
    startTime,        \* Implementation::startTime, -1 if not known
    endTime,          \* Implementation::endTime
    needNewDescriptor, \* Implementation::needNewDescriptor
    descriptor,       \* Implementation::descriptor
    iterator,         \* a MsgIter of a batch
    unread,           \* history: which of the times a failed statement left
    wanted,           \* history: what the batch was asked for
    shown,            \* history: the messages the iterator showed
    insertedAt,       \* history: when each message was inserted
    endFailed         \* history: whether an END failed

tables == <<topics, messages, durable, insertedAt>>
transaction == <<inTransaction, lastTransaction, endFailed>>
cachedTimes == <<startTime, endTime, unread>>
caches == <<cachedTimes, needNewDescriptor, descriptor>>
reading == <<iterator, wanted, shown>>
log == <<mode, tables, transaction, steady, caches, reading>>

Unknown == -1
Empty == [x \in {} |-> 0]
Ended == [statements |-> <<>>, index |-> 1, message |-> NoRow,
          rest |-> NoStatement]

FileInit ==
    /\ mode = "new"
    /\ topics = <<>> /\ messages = <<>> /\ insertedAt = <<>>
    /\ durable = [topics |-> 0, messages |-> 0]
    /\ inTransaction = FALSE /\ lastTransaction = 0 /\ endFailed = FALSE
    /\ steady = 0
    /\ startTime = Unknown /\ endTime = Unknown /\ unread = {}
    /\ needNewDescriptor = TRUE /\ descriptor = Empty
    /\ iterator = Ended /\ wanted = <<>> /\ shown = <<>>

\* Mutant: a topic that has more than one type keeps one of them.
ResetByTopic ==
    [key \in {topics[i] : i \in {j \in DOMAIN topics :
                 \A k \in DOMAIN topics :
                     topics[k].topic = topics[j].topic => k <= j}} |->
        CHOOSE i \in DOMAIN topics : topics[i] = key]

\* The map from topics and types to identifiers that the table holds.
TopicsInLog ==
    [key \in {topics[i] : i \in DOMAIN topics} |->
        CHOOSE i \in DOMAIN topics : topics[i] = key]

\* The descriptor as Descriptor() returns it.
Descriptor == IF needNewDescriptor THEN TopicsInLog ELSE descriptor

\* A new Log object has no caches.
Forget ==
    /\ startTime' = Unknown /\ endTime' = Unknown /\ unread' = {}
    /\ needNewDescriptor' = TRUE /\ descriptor' = Empty
    /\ inTransaction' = FALSE /\ endFailed' = FALSE
    /\ iterator' = Ended /\ wanted' = <<>> /\ shown' = <<>>
    /\ UNCHANGED lastTransaction

(***************************************************************************)
(* Open and the end of a Log.  To write, Open creates the tables, which    *)
(* fails when the file has them.                                           *)
(***************************************************************************)
Open(how) ==
    /\ mode \in {"new", "closed"}
    /\ IF how = "out" THEN mode = "new" ELSE mode = "closed"
    /\ mode' = how
    /\ UNCHANGED <<tables, transaction, steady, caches, reading>>

Commit == durable' = [topics |-> Len(topics'), messages |-> Len(messages')]

\* What is not committed is gone.
RollBack ==
    /\ topics' = SubSeq(topics, 1, durable.topics)
    /\ messages' = SubSeq(messages, 1, durable.messages)
    /\ insertedAt' = SubSeq(insertedAt, 1, durable.messages)
    /\ UNCHANGED durable

\* The destructor ends an open transaction; when that fails, closing the
\* database rolls it back.
CloseFile(fails) ==
    /\ mode \in {"out", "in"}
    /\ mode' = "closed"
    /\ IF inTransaction /\ fails
       THEN RollBack
       ELSE UNCHANGED <<topics, messages, insertedAt>> /\ Commit
    /\ Forget
    /\ UNCHANGED steady

Crash ==
    /\ mode \in {"out", "in"}
    /\ mode' = "closed"
    /\ RollBack
    /\ Forget
    /\ UNCHANGED steady

(***************************************************************************)
(* InsertMessage, in parts: what each leaves when the next one fails.      *)
(***************************************************************************)
BeginTransactionIfNotInOne ==
    lastTransaction' = IF inTransaction THEN lastTransaction ELSE steady

\* Mutant: a topic is inserted and the descriptor kept.
KeepDescriptor(key, fails) ==
    LET known == key \in DOMAIN Descriptor
    IN  /\ descriptor' = Descriptor
        /\ needNewDescriptor' = FALSE
        /\ topics' = IF known \/ fails THEN topics ELSE Append(topics, key)

\* The descriptor is brought up to date, and becomes old with a new topic.
InsertOrGetTopicId(key, fails) ==
    LET known == key \in DOMAIN Descriptor
    IN  /\ descriptor' = Descriptor
        /\ needNewDescriptor' = ~ known
        /\ topics' = IF known \/ fails THEN topics ELSE Append(topics, key)

\* Either of the two inserts resets the times; an empty message is refused
\* before.
ResetTimes(resets) ==
    /\ startTime' = IF resets THEN Unknown ELSE startTime
    /\ endTime' = IF resets THEN Unknown ELSE endTime
    /\ unread' = IF resets THEN {} ELSE unread

\* Mutant: the period counts from the last message.
TimeSinceMessage == insertedAt # <<>> /\ steady - Period > Last(insertedAt)

TimeForNewTransaction == steady - Period > lastTransaction'

StoreMessage(time, id) ==
    /\ messages' = Append(messages, [time |-> time, topicId |-> id])
    /\ insertedAt' = Append(insertedAt, steady)

\* The times are reset when a statement for a new topic or for the message is
\* about to run.  A transaction stays open until its time has passed, or for
\* good when no message follows.
InsertMessage(time, key, isEmpty, fails) ==
    LET known == key \in DOMAIN Descriptor
        id == IF known THEN Descriptor[key] ELSE Len(topics) + 1
        toTopics == fails \notin {"begin", "descriptor"}
        stored == fails \notin {"begin", "descriptor", "topic", "message"}
                      /\ ~ isEmpty
    IN  /\ mode \in {"out", "in"}
        /\ iterator = Ended
        /\ Len(messages) < MaxRows
        /\ fails = "begin" => ~ inTransaction
        /\ fails = "topic" => ~ known
        /\ mode = "in" => fails = IF known THEN "message" ELSE "topic"
        /\ IF fails = "begin"
           THEN UNCHANGED <<inTransaction, lastTransaction>>
           ELSE /\ BeginTransactionIfNotInOne
                /\ inTransaction' =
                       ~ (stored /\ fails # "end" /\ TimeForNewTransaction)
        /\ IF toTopics
           THEN InsertOrGetTopicId(key, fails = "topic")
           ELSE UNCHANGED <<topics, descriptor, needNewDescriptor>>
        /\ ResetTimes(toTopics /\ (~ known \/ ~ isEmpty))
        /\ IF stored THEN StoreMessage(time, id)
           ELSE UNCHANGED <<messages, insertedAt>>
        /\ endFailed' = (endFailed \/ (stored /\ fails = "end"
                                           /\ TimeForNewTransaction))
        /\ IF inTransaction' \/ fails = "begin"
           THEN UNCHANGED durable ELSE Commit
        /\ UNCHANGED <<mode, steady, reading>>

(***************************************************************************)
(* Queries.  Messages are not inserted while a batch is read.              *)
(***************************************************************************)
Upkeep == descriptor' = Descriptor /\ needNewDescriptor' = FALSE

\* A query by a set of topics, by a pattern that these topics match, or of
\* all topics.
Statements(query) ==
    CASE query.option = "list" ->
             ListStatements(messages, Descriptor, query.topics, query.range)
      [] query.option = "pattern" ->
             PatternStatements(messages, Descriptor, query.topics, query.range)
      [] OTHER -> AllStatements(messages, query.range)

Shows(it) == IF AtEnd(it) THEN <<>> ELSE <<it.message>>

QueryMessages(query) ==
    /\ mode \in {"out", "in"}
    /\ iterator = Ended
    /\ iterator' = Begin(Statements(query))
    /\ wanted' = <<query>>
    /\ shown' = Shows(iterator')
    /\ Upkeep
    /\ UNCHANGED <<mode, tables, transaction, steady, cachedTimes>>

Advance ==
    /\ ~ AtEnd(iterator)
    /\ iterator' = StepStatement(iterator)
    /\ shown' = shown \o Shows(iterator')
    /\ UNCHANGED <<mode, tables, transaction, steady, caches, wanted>>

\* The reader is done with the batch.
Discard ==
    /\ wanted # <<>>
    /\ AtEnd(iterator)
    /\ iterator' = Ended /\ wanted' = <<>> /\ shown' = <<>>
    /\ UNCHANGED <<mode, tables, transaction, steady, caches>>

TimesOf(rows) == {rows[i].time : i \in DOMAIN rows}

\* SELECT MIN and MAX yield NULL, read as 0, of an empty table.
Earliest == IF messages = <<>> THEN 0 ELSE Min(TimesOf(messages))
Latest == IF messages = <<>> THEN 0 ELSE Max(TimesOf(messages))

\* The time is set to 0 before the statement is compiled and run: that is
\* what a failure, or a corrupt database, leaves for the calls to come.
StartTime(fails) ==
    /\ mode \in {"out", "in"}
    /\ startTime = Unknown
    /\ startTime' = IF fails THEN 0 ELSE Earliest
    /\ unread' = IF fails THEN unread \union {"start"} ELSE unread
    /\ UNCHANGED <<mode, tables, transaction, steady, endTime,
                   needNewDescriptor, descriptor, reading>>

\* Of a corrupt database, the time of the last row in front of the damage.
EndTime(outcome) ==
    /\ mode \in {"out", "in"}
    /\ endTime = Unknown
    /\ endTime' \in CASE outcome = "read" -> {Latest}
                      [] outcome = "failed" -> {0}
                      [] outcome = "corrupt" -> {0} \union TimesOf(messages)
    /\ unread' = IF outcome = "read" THEN unread ELSE unread \union {"end"}
    /\ UNCHANGED <<mode, tables, transaction, steady, startTime,
                   needNewDescriptor, descriptor, reading>>

Tick ==
    /\ steady < MaxTime
    /\ steady' = steady + 1
    /\ UNCHANGED <<mode, tables, transaction, caches, reading>>

Queries ==
    [option : {"list", "pattern", "all"},
     topics : SUBSET {key.topic : key \in Keys}, range : Ranges(Times)]

Failures == {"none", "begin", "descriptor", "topic", "message", "end"}

FileNext ==
    \/ \E how \in {"out", "in"} : Open(how)
    \/ \E fails \in BOOLEAN : CloseFile(fails)
    \/ Crash
    \/ \E time \in Times, key \in Keys, isEmpty \in BOOLEAN,
          fails \in Failures : InsertMessage(time, key, isEmpty, fails)
    \/ \E query \in Queries : QueryMessages(query)
    \/ \E fails \in BOOLEAN : StartTime(fails)
    \/ \E outcome \in {"read", "failed", "corrupt"} : EndTime(outcome)
    \/ Advance \/ Discard \/ Tick

FileSpec == FileInit /\ [][FileNext]_log

(***************************************************************************)
(* Properties.                                                             *)
(***************************************************************************)
FileTypeOK ==
    /\ mode \in {"new", "out", "in", "closed"}
    /\ topics \in Seq(Keys)
    /\ messages \in Seq([time : Times, topicId : DOMAIN topics])
    /\ Len(insertedAt) = Len(messages)
    /\ durable.topics \in 0..Len(topics)
    /\ durable.messages \in 0..Len(messages)
    /\ inTransaction \in BOOLEAN /\ endFailed \in BOOLEAN
    /\ lastTransaction \in 0..steady
    /\ startTime \in Times \union {Unknown, 0}
    /\ endTime \in Times \union {Unknown, 0}
    /\ unread \subseteq {"start", "end"}
    /\ DOMAIN descriptor \subseteq Keys

\* What a crash would lose was inserted in the first Period after the oldest
\* message lost ("Default to 2 transactions per second"), unless an END
\* failed; and nothing is at risk outside a transaction.
LossBounded ==
    /\ durable.messages < Len(messages) => inTransaction
    /\ \A i \in (durable.messages + 1)..Len(messages) :
           \/ endFailed
           \/ insertedAt[i] - insertedAt[durable.messages + 1] <= Period

\* A message of the log is in the answer of a query.
Selected(query, row) ==
    /\ query.option # "all" => topics[row.topicId].topic \in query.topics
    /\ query.range.start.determinate =>
           \/ row.time > query.range.start.time
           \/ query.range.start = QualifiedTime(row.time, "inclusive")
    /\ query.range.finish.determinate =>
           \/ row.time < query.range.finish.time
           \/ query.range.finish = QualifiedTime(row.time, "inclusive")

Occurrences(row, rows) == Cardinality({i \in DOMAIN rows : rows[i] = row})

\* What StartTime and EndTime have in store.
TimesFresh ==
    /\ \/ startTime \in {Unknown, Earliest}
       \/ "start" \in unread /\ startTime = 0
    /\ \/ endTime \in {Unknown, Latest}
       \/ "end" \in unread /\ endTime \in {0} \union TimesOf(messages)

\* However topics and messages came in, failed and were rolled back between
\* the calls that fill the caches: a batch read to its end showed what the
\* query selects of the log, each message once and in the order of time; and
\* the start and end time, where they are cached, are those of the messages,
\* or 0 ("if data retrieval failed") or that of a message of a corrupt log,
\* as long as no insert has come since the statement that failed.
Answers ==
    /\ wanted # <<>> /\ AtEnd(iterator) =>
          /\ \A row \in Range(messages) \union Range(shown) :
                Occurrences(row, shown) =
                    IF Selected(wanted[1], row)
                    THEN Occurrences(row, messages) ELSE 0
          /\ \A i, j \in DOMAIN shown : i < j => shown[i].time <= shown[j].time
          /\ ~ Valid(wanted[1].range) => shown = <<>>
    /\ TimesFresh
=============================================================================
