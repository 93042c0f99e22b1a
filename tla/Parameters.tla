----------------------------- MODULE Parameters -----------------------------
(***************************************************************************)
(* A registry of parameters (src/parameters/src/Registry.cc), used by its  *)
(* own process, and by clients (Client.cc) through four services, which    *)
(* keep what Calls promises: a request is served at most once, perhaps     *)
(* after its caller gave up.  A value is a type of message and what is in  *)
(* it; packing a message that exists and unpacking it into one of the same *)
(* type do not fail.  Every access of the map holds parametersMapMutex: a  *)
(* call of the registry's process is one step, and so is a callback.       *)
(***************************************************************************)
EXTENDS Sequences

CONSTANTS
    Call,       \* [id, op, param, value, client, pointer]: op is "declare",
                \* "set", "get" or "list"; client tells clients from the
                \* registry; pointer tells the overloads with a unique_ptr
    Known       \* the types msgs::Factory can make

VARIABLES
    pStatus, pServed, pAnswers, \* of the requests of clients, as in Calls
    parametersMap,      \* the values of the declared parameters
    told,               \* what each call that is over was told
    seen                \* history: the maps there were during a call

registry == <<pStatus, pServed, pAnswers, parametersMap, told, seen>>

Service == INSTANCE Calls WITH
    Request <- Call, status <- pStatus, served <- pServed, answers <- pAnswers

Nothing == [type |-> "", data |-> 0]

\* A message has a type.
ASSUME CallAssumption ==
    \A c \in Call :
        /\ c.op \in {"declare", "set", "get", "list"}
        /\ c.op \in {"declare", "set"} => c.value # Nothing

\* What a call is told: a ParameterResultType, the value and the declarations
\* that it fills in.
Told(type) == [type |-> type, value |-> Nothing, decls |-> {}]
NotYet == Told("")

\* What a callback replies: its boolean, and the fields of the response.
Reply(ok, error) ==
    [ok |-> ok, error |-> error, value |-> Nothing, decls |-> {}]

ParamsInit ==
    /\ Service!Init
    /\ parametersMap = <<>>
    /\ told = [c \in Call |-> NotYet]
    /\ seen = [c \in Call |-> {}]

Declared(p) == p \in DOMAIN parametersMap

\* emplace keeps the value of a name that is there.
Emplaced(p, value) ==
    [q \in DOMAIN parametersMap \union {p} |->
        IF Declared(q) THEN parametersMap[q] ELSE value]

Declarations(m) == {[name |-> p, type |-> m[p].type] : p \in DOMAIN m}

-----------------------------------------------------------------------------
\* The callbacks of the services: the reply, and the map afterwards.
GetParameterSrv(c) ==
    [reply |-> IF Declared(c.param)
               THEN [Reply(TRUE, "SUCCESS") EXCEPT
                        !.value = parametersMap[c.param]]
               ELSE Reply(FALSE, "SUCCESS"),
     map |-> parametersMap]

ListParametersSrv(c) ==
    [reply |-> [Reply(TRUE, "SUCCESS") EXCEPT
                    !.decls = Declarations(parametersMap)],
     map |-> parametersMap]

\* Mutant: SetParameterSrv, which takes a value of any type.
SetParameterSrvUnchecked(c) ==
    IF Declared(c.param)
    THEN [reply |-> Reply(TRUE, "SUCCESS"),
          map |-> [parametersMap EXCEPT ![c.param] = c.value]]
    ELSE [reply |-> Reply(TRUE, "NOT_DECLARED"), map |-> parametersMap]

SetParameterSrv(c) ==
    CASE ~Declared(c.param) ->
             [reply |-> Reply(TRUE, "NOT_DECLARED"), map |-> parametersMap]
      [] Declared(c.param) /\ parametersMap[c.param].type # c.value.type ->
             [reply |-> Reply(TRUE, "INVALID_TYPE"), map |-> parametersMap]
      [] OTHER ->
             [reply |-> Reply(TRUE, "SUCCESS"),
              map |-> [parametersMap EXCEPT ![c.param] = c.value]]

DeclareParameterSrv(c) ==
    CASE c.value.type \notin Known ->
             [reply |-> Reply(TRUE, "INVALID_TYPE"), map |-> parametersMap]
      [] c.value.type \in Known /\ Declared(c.param) ->
             [reply |-> Reply(TRUE, "ALREADY_DECLARED"),
              map |-> parametersMap]
      [] OTHER ->
             [reply |-> Reply(TRUE, "SUCCESS"),
              map |-> Emplaced(c.param, c.value)]

SrvCallback(c) ==
    CASE c.op = "get" -> GetParameterSrv(c)
      [] c.op = "list" -> ListParametersSrv(c)
      [] c.op = "set" -> SetParameterSrv(c)
      [] c.op = "declare" -> DeclareParameterSrv(c)

-----------------------------------------------------------------------------
\* The registry's own calls: what they are told, and the map afterwards.  The
\* message overload of DeclareParameter drops the result of the other one.
DeclareLocally(c) ==
    CASE ~c.pointer /\ c.value.type \notin Known ->
             [told |-> Told("Unexpected"), map |-> parametersMap]
      [] c.pointer /\ Declared(c.param) ->
             [told |-> Told("AlreadyDeclared"), map |-> parametersMap]
      [] OTHER ->
             [told |-> Told("Success"), map |-> Emplaced(c.param, c.value)]

\* Parameter: the overload with a message compares its type, the other one
\* makes a message of the type.
GetLocally(c) ==
    LET value == parametersMap[c.param]
        fits == IF c.pointer THEN value.type \in Known
                ELSE value.type = c.value.type IN
    [map |-> parametersMap,
     told |-> CASE ~Declared(c.param) -> Told("NotDeclared")
                [] Declared(c.param) /\ ~fits -> Told("InvalidType")
                [] OTHER -> [Told("Success") EXCEPT !.value = value]]

SetLocally(c) ==
    CASE ~Declared(c.param) ->
             [told |-> Told("NotDeclared"), map |-> parametersMap]
      [] Declared(c.param) /\ parametersMap[c.param].type # c.value.type ->
             [told |-> Told("InvalidType"), map |-> parametersMap]
      [] OTHER ->
             [told |-> Told("Success"),
              map |-> [parametersMap EXCEPT ![c.param] = c.value]]

ListLocally(c) ==
    [told |-> [Told("Success") EXCEPT !.decls = Declarations(parametersMap)],
     map |-> parametersMap]

Locally(c) ==
    CASE c.op = "get" -> GetLocally(c)
      [] c.op = "list" -> ListLocally(c)
      [] c.op = "set" -> SetLocally(c)
      [] c.op = "declare" -> DeclareLocally(c)

-----------------------------------------------------------------------------
\* What Node::Request left a client with: nothing but its own default
\* response if it returned false.
Executed(c) == pAnswers[c] # <<>>
Response(c) == IF Executed(c) THEN pAnswers[c][1] ELSE Reply(FALSE, "SUCCESS")

\* getParameterCommon tells a timeout and a missing parameter apart, and both
\* overloads of Parameter drop what it says: no value means no type.
ClientGet(c) ==
    LET value == Response(c).value IN
    CASE value = Nothing -> Told("Unexpected")
      [] value # Nothing /\ ~c.pointer /\ value.type # c.value.type ->
             Told("InvalidType")
      [] value # Nothing /\ c.pointer /\ value.type \notin Known ->
             Told("Unexpected")
      [] OTHER -> [Told("Success") EXCEPT !.value = value]

ErrorOf(c, errors) ==
    IF ~Executed(c) THEN "ClientTimeout"
    ELSE IF Response(c).ok /\ Response(c).error \in DOMAIN errors
    THEN errors[Response(c).error] ELSE "Unexpected"

ClientSet(c) ==
    Told(ErrorOf(c, [SUCCESS |-> "Success", NOT_DECLARED |-> "NotDeclared",
                     INVALID_TYPE |-> "InvalidType"]))

ClientDeclare(c) ==
    Told(ErrorOf(c, [SUCCESS |-> "Success", INVALID_TYPE |-> "InvalidType",
                     ALREADY_DECLARED |-> "AlreadyDeclared"]))

\* ListParameters throws when the request failed.
ClientList(c) ==
    IF Executed(c) /\ Response(c).ok
    THEN [Told("Success") EXCEPT !.decls = Response(c).decls]
    ELSE Told("threw")

ToClient(c) ==
    CASE c.op = "get" -> ClientGet(c)
      [] c.op = "list" -> ClientList(c)
      [] c.op = "set" -> ClientSet(c)
      [] c.op = "declare" -> ClientDeclare(c)

-----------------------------------------------------------------------------
\* Calls that are open, or that open in this step, see the map it leaves.
Watch ==
    seen' = [c \in Call |->
                IF pStatus'[c] = "open" \/ pStatus[c] = "open"
                THEN seen[c] \union {parametersMap, parametersMap'}
                ELSE seen[c]]

CallLocally(c) ==
    /\ ~c.client
    /\ pStatus[c] = "new"
    /\ pStatus' = [pStatus EXCEPT ![c] = "answered"]
    /\ parametersMap' = Locally(c).map
    /\ told' = [told EXCEPT ![c] = Locally(c).told]
    /\ seen' = [d \in Call |->
                   IF d = c THEN {parametersMap}
                   ELSE IF pStatus[d] = "open"
                   THEN seen[d] \union {parametersMap'} ELSE seen[d]]
    /\ UNCHANGED <<pServed, pAnswers>>

\* A client's call in its four parts: Node::Request sends it, the registry's
\* process runs the callback, the answer arrives, the client looks at it.
Ask(c) ==
    /\ c.client
    /\ Service!Ask(c)
    /\ UNCHANGED <<parametersMap, told>>
    /\ Watch

Serve(c) ==
    /\ c.client
    /\ Service!Serve(c, SrvCallback(c).reply)
    /\ parametersMap' = SrvCallback(c).map
    /\ Watch
    /\ UNCHANGED told

Answer(c) ==
    /\ pStatus[c] = "open"
    /\ Service!Answer(c)
    /\ UNCHANGED <<parametersMap, told, seen>>

ParamsReturn(c) ==
    /\ Service!Return(c)
    /\ told' = [told EXCEPT ![c] = ToClient(c)]
    /\ UNCHANGED <<parametersMap, seen>>

ParamsNext ==
    \E c \in Call :
        CallLocally(c) \/ Ask(c) \/ Serve(c) \/ Answer(c) \/ ParamsReturn(c)

ParamsSpec == ParamsInit /\ [][ParamsNext]_registry

-----------------------------------------------------------------------------
\* Whether a call of each operation may be told this of a map that it saw.
\* A client's Parameter tells a parameter that is not declared, a type that it
\* cannot make and an answer that never came by the same Unexpected.
GetTold(c, what, m) ==
    LET here == c.param \in DOMAIN m
        fits == IF c.pointer THEN m[c.param].type \in Known
                ELSE m[c.param].type = c.value.type IN
    \/ what.type = "Success" /\ here /\ fits /\ what.value = m[c.param]
    \/ what.type = "NotDeclared" /\ ~c.client /\ ~here
    \/ what.type = "InvalidType" /\ ~(c.client /\ c.pointer) /\ here /\ ~fits
    \/ /\ what.type = "Unexpected" /\ c.client
       /\ ~Executed(c) \/ ~here \/ (c.pointer /\ ~fits)

SetTold(c, what, m) ==
    LET here == c.param \in DOMAIN m
        fits == m[c.param].type = c.value.type IN
    \/ what.type = "Success" /\ here /\ fits
    \/ what.type = "NotDeclared" /\ ~here
    \/ what.type = "InvalidType" /\ here /\ ~fits
    \/ what.type = "ClientTimeout" /\ c.client /\ ~Executed(c)

\* The registry's overload with a message looks at its type alone: it says
\* Success of a parameter that was declared before, too.
DeclareTold(c, what, m) ==
    LET here == c.param \in DOMAIN m
        known == c.value.type \in Known
        looks == c.client \/ c.pointer IN
    \/ /\ what.type = "Success" /\ (looks => ~here)
       /\ known \/ (c.pointer /\ ~c.client)
    \/ what.type = "AlreadyDeclared" /\ looks /\ here /\ (c.client => known)
    \/ what.type = "InvalidType" /\ c.client /\ ~known
    \/ what.type = "Unexpected" /\ ~looks /\ ~known
    \/ what.type = "ClientTimeout" /\ c.client /\ ~Executed(c)

ListTold(c, what, m) ==
    \/ what.type = "Success" /\ what.decls = Declarations(m)
    \/ what.type = "threw" /\ c.client /\ ~Executed(c)

TrueOf(c, what, m) ==
    CASE c.op = "get" -> GetTold(c, what, m)
      [] c.op = "set" -> SetTold(c, what, m)
      [] c.op = "declare" -> DeclareTold(c, what, m)
      [] c.op = "list" -> ListTold(c, what, m)

\* The registry's message overload tells every caller that it declared the
\* parameter; no other call is believed to have done so wrongly.
ToldItDeclared(c) ==
    c.op = "declare" /\ told[c].type = "Success" /\ (c.client \/ c.pointer)

\* Every answer a call is given, each error included, was true at some time
\* during the call, however late it was served and whatever others did
\* meanwhile, of what that answer means in this code (two answers mean less
\* than Interface.hh says: the registry's message overload of DeclareParameter
\* never answers AlreadyDeclared, a client's Parameter never NotDeclared); of
\* the others, one call at most is told that it declared a parameter, which
\* then keeps that call's type; and a parameter has a value that no one was
\* told was refused.
ParamsTold ==
    /\ \A c \in Call : told[c] # NotYet =>
           \E m \in seen[c] : TrueOf(c, told[c], m)
    /\ \A c \in Call : ToldItDeclared(c) =>
           /\ Declared(c.param)
           /\ parametersMap[c.param].type = c.value.type
           /\ \A d \in Call : ToldItDeclared(d) /\ d.param = c.param => d = c
    /\ \A p \in DOMAIN parametersMap : \E c \in Call :
           /\ c.op \in {"declare", "set"}
           /\ c.param = p /\ c.value = parametersMap[p]
           /\ told[c].type \in {"", "Success", "ClientTimeout"}
=============================================================================
