--------------------------- MODULE MCServiceCall ----------------------------
(***************************************************************************)
(* Small instances of ServiceCall for TLC: "a" makes requests, "b" and "c" *)
(* have responders, and "a" may have one too.  A run joins scenarios:      *)
(*   "late"   a call that blocks and one that does not, of one type, with  *)
(*            responders that come, go and crash, b's first, and succeed;  *)
(*   "mixed"  calls of two types, one of them one-way; a responder in the  *)
(*            caller's process and one elsewhere;                          *)
(*   "params" a registry of parameters and its clients (Parameters);       *)
(*   "request" a request from the command line (ServiceCommand);           *)
(*   "topic"  the commands on topics (TopicCommands).                      *)
(* Every offer is rumoured for good, and processes start before anything   *)
(* else happens.                                                           *)
(***************************************************************************)
EXTENDS ServiceCall, Tools, Functions

VARIABLE plan

Responder(p, t) ==
    [topic |-> "s", addr |-> [socket |-> "replier", proc |-> p],
     pUuid |-> p, nUuid |-> "n", type |-> t]
Req(n, t, b) ==
    [topic |-> "s", type |-> t, pUuid |-> "a", id |-> n, blocking |-> b]

VisibleToAll(p, pub) == p = "a"
Responders3 == {Responder("a", "T"), Responder("b", "T"), Responder("c", "T"),
                Responder("b", "E")}
Requests3 == {Req(1, "T", TRUE), Req(2, "T", FALSE), Req(3, "E", FALSE)}

Steady ==
    /\ rumours' = rumours \union UNION {offered'[p] : p \in Proc}
    /\ live' # live => events = 0 \/ gone' # gone
    /\ "c" \in live' => "b" \in live'
    /\ "b" \in live' => "a" \in live' \/ gone' # {}
    /\ "a" \notin gone'

Planned ==
    CASE plan = "late" ->
             /\ \A p \in Proc : offered'[p] \subseteq {Responder("b", "T"),
                                                    Responder("c", "T")}
             /\ Responder("b", "T") \in rumours' \/ rumours' = {}
             /\ \A r \in Request : FALSE \notin Range(served'[r])
             /\ call'[Req(3, "E", FALSE)] = "new"
      [] plan = "mixed" ->
             /\ "c" \notin live'
             /\ events' <= 2
             /\ Responder("b", "T") \notin offered'["b"]
             /\ call'[Req(1, "T", TRUE)] = "new"

\* Three calls on one parameter, by clients and by the registry, the first of
\* which declares it; the factory does not know the type X.
NoValue == [type |-> "", data |-> 0]
Value(t, d) == [type |-> t, data |-> d]
ParamCall(n, op, value, client, pointer) ==
    [id |-> n, op |-> op, param |-> "p", value |-> value,
     client |-> client, pointer |-> pointer]
ParamCalls == {
    ParamCall(1, "declare", Value("T", 1), TRUE, FALSE),
    ParamCall(2, "set", Value("T", 2), TRUE, FALSE),
    ParamCall(3, "get", Value("T", 0), TRUE, FALSE),
    ParamCall(4, "set", Value("U", 4), TRUE, FALSE),
    ParamCall(5, "declare", Value("X", 5), FALSE, TRUE),
    ParamCall(6, "declare", Value("U", 6), FALSE, FALSE),
    ParamCall(7, "declare", Value("X", 7), TRUE, FALSE),
    ParamCall(8, "set", Value("T", 8), FALSE, FALSE),
    ParamCall(9, "get", Value("T", 0), FALSE, FALSE),
    ParamCall(10, "get", NoValue, FALSE, TRUE),
    ParamCall(11, "get", NoValue, TRUE, TRUE),
    ParamCall(12, "list", NoValue, TRUE, TRUE),
    ParamCall(13, "list", NoValue, FALSE, TRUE)}

FactoryTypes == {"T", "U"}

ThreeCalls ==
    LET made == {c \in ParamCalls : pStatus'[c] # "new"} IN
    /\ Cardinality(made) <= 3
    /\ \E c \in made : c.op = "declare"
    /\ \A c, d \in made : c.op = "list" /\ d.op \in {"get", "list"} => c = d

\* Two providers offer the same service, a third an one-way service of that
\* name, and a fourth one of other types; "T_" is another spelling of T and X
\* a type the factory does not know.
Offering(n, q, p) == [id |-> n, req |-> q, rep |-> p]
Asks(ops, reqs, reps, data, timeouts, valid) ==
    [op : ops, req : reqs, rep : reps, data : data, timeout : timeouts,
     valid : valid]
FourOffers == {Offering(1, "T", "U"), Offering(2, "T", "U"),
               Offering(3, "T", "Empty"), Offering(4, "U", "U")}
TypesMade == {"T", "U", "Empty"}
Spelling == [t \in {"T_"} |-> "T"]
CommandArguments ==
    Asks({"command"}, {"", "T_"}, {"", "U", "Empty"}, {TRUE}, {-1, 2}, {TRUE})
    \union Asks({"command", "raw"}, {"T_", "X"}, {"U", "Empty"}, {TRUE}, {0},
                {TRUE})
    \union Asks({"command"}, {"", "T"}, {"U", "Empty"}, {TRUE, FALSE}, {1},
                {FALSE})
    \union Asks({"wait"}, {"T"}, {"U"}, {FALSE}, {0, 1}, {TRUE})

Commands(ops, counts, durations, created, valid) ==
    [op : ops, count : counts, duration : durations, created : created,
     valid : valid]
TopicUses ==
    Commands({"pub"}, {0}, {FALSE}, {TRUE, FALSE}, {TRUE})
    \union Commands({"echo"}, {0, 2}, {TRUE, FALSE}, {TRUE}, {TRUE})
    \union Commands({"hz"}, {0}, {FALSE}, {TRUE}, {TRUE, FALSE})

(***************************************************************************)
(* The specification.                                                      *)
(***************************************************************************)
MCInit ==
    /\ plan \in {"late", "mixed", "params", "request", "topic"}
    /\ Init /\ ParamsInit /\ CommandInit /\ TopicInit
    /\ plan # "request" => offers = {}
    /\ Cardinality(offers) < 2

MCNext ==
    /\ UNCHANGED plan
    /\ \/ /\ plan \in {"late", "mixed"} /\ Next /\ Steady /\ Planned
          /\ UNCHANGED <<registry, commandVars, topicVars>>
       \/ /\ plan = "params" /\ ParamsNext /\ ThreeCalls
          /\ UNCHANGED <<vars, commandVars, topicVars>>
       \/ /\ plan = "request" /\ CommandNext
          /\ UNCHANGED <<vars, registry, topicVars>>
       \/ /\ plan = "topic" /\ TopicNext
          /\ UNCHANGED <<vars, registry, commandVars>>

MCSpec ==
    /\ MCInit /\ [][MCNext]_<<vars, plan, registry, commandVars, topicVars>>
    /\ Fairness
=============================================================================
