------------------------------ MODULE LogQuery ------------------------------
(***************************************************************************)
(* What a query of a log selects (log/src/QualifiedTime.cc,                *)
(* QueryOptions.cc): a condition on the time, one on the topic, and the    *)
(* order.  A statement of SQL is the rows it yields when it is run.        *)
(***************************************************************************)
EXTENDS Integers, Sequences, SequencesExt

(***************************************************************************)
(* QualifiedTime and QualifiedTimeRange.                                   *)
(***************************************************************************)
Indeterminate == [determinate |-> FALSE]
QualifiedTime(t, q) == [determinate |-> TRUE, time |-> t, qualifier |-> q]

QualifiedTimes(times) ==
    {Indeterminate}
        \union {QualifiedTime(t, q) :
                    t \in times, q \in {"inclusive", "exclusive"}}

\* Like NaN, an indeterminate time equals nothing.
SameTime(t1, t2) == t1.determinate /\ t2.determinate /\ t1 = t2

EndPointEqual(t1, t2) ==
    (~ t1.determinate /\ ~ t2.determinate) \/ SameTime(t1, t2)

TimeRange(begin, end) == [start |-> begin, finish |-> end]
From(begin) == TimeRange(begin, Indeterminate)
Until(end) == TimeRange(Indeterminate, end)
AllTime == TimeRange(Indeterminate, Indeterminate)

Ranges(times) ==
    [start : QualifiedTimes(times), finish : QualifiedTimes(times)]

SameRange(r1, r2) ==
    EndPointEqual(r1.start, r2.start) /\ EndPointEqual(r1.finish, r2.finish)

Valid(r) ==
    r.start.determinate /\ r.finish.determinate
        => r.start.time <= r.finish.time

(***************************************************************************)
(* Statements.                                                             *)
(***************************************************************************)
\* Mutant: the end of a range is always part of it.
TimeConditionsClosed(r, t) ==
    /\ r.start.determinate =>
           IF r.start.qualifier = "inclusive"
           THEN t >= r.start.time ELSE t > r.start.time
    /\ r.finish.determinate => t <= r.finish.time

GenerateTimeConditions(r, t) ==
    /\ r.start.determinate =>
           IF r.start.qualifier = "inclusive"
           THEN t >= r.start.time ELSE t > r.start.time
    /\ r.finish.determinate =>
           IF r.finish.qualifier = "inclusive"
           THEN t <= r.finish.time ELSE t < r.finish.time

\* A descriptor maps topics with their types to row identifiers.
TopicsToMsgTypesToId(descriptor) ==
    [name \in {key.topic : key \in DOMAIN descriptor} |->
        {descriptor[key] : key \in {k \in DOMAIN descriptor : k.topic = name}}]

\* The rows of a list of topics, and of the topics that match a pattern,
\* which is here the set of the names it matches.
TopicList(descriptor, topics) ==
    LET map == TopicsToMsgTypesToId(descriptor)
    IN  UNION {map[topic] : topic \in topics \intersect DOMAIN map}

TopicPattern(descriptor, pattern) ==
    LET map == TopicsToMsgTypesToId(descriptor)
    IN  UNION {map[topic] : topic \in {t \in DOMAIN map : t \in pattern}}

Ordered(rows) == SortSeq(rows, LAMBDA a, b : a.time < b.time)

\* The statements of the three options, run on the rows of the log.
ListStatements(rows, descriptor, topics, r) ==
    LET Chosen(row) == /\ row.topicId \in TopicList(descriptor, topics)
                       /\ GenerateTimeConditions(r, row.time)
    IN  <<Ordered(SelectSeq(rows, Chosen))>>

PatternStatements(rows, descriptor, pattern, r) ==
    LET Chosen(row) == /\ row.topicId \in TopicPattern(descriptor, pattern)
                       /\ GenerateTimeConditions(r, row.time)
    IN  <<Ordered(SelectSeq(rows, Chosen))>>

AllStatements(rows, r) ==
    LET Chosen(row) == GenerateTimeConditions(r, row.time)
    IN  <<Ordered(SelectSeq(rows, Chosen))>>

(***************************************************************************)
(* MsgIter: a position in a sequence of statements.  rest is what the      *)
(* prepared statement will still yield, or NoStatement.                    *)
(***************************************************************************)
NoStatement == "none"
NoRow == "none"

PrepareNextStatement(statements, index, message) ==
    [statements |-> statements, index |-> index, message |-> message,
     rest |-> IF index <= Len(statements)
              THEN <<statements[index]>> ELSE NoStatement]

\* A row, or what follows the last one: the next statement is prepared only,
\* and the message stays.
StepStatement(it) ==
    CASE it.rest = NoStatement -> it
      [] it.rest # NoStatement /\ it.rest[1] # <<>> ->
             [it EXCEPT !.message = Head(it.rest[1]),
                        !.rest = <<Tail(it.rest[1])>>]
      [] OTHER -> PrepareNextStatement(it.statements, it.index + 1, it.message)

Begin(statements) ==
    StepStatement(PrepareNextStatement(statements, 1, NoRow))

\* Equal to the iterator without a statement.
AtEnd(it) == it.rest = NoStatement
=============================================================================
