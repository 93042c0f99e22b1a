--------------------------- MODULE ServiceCommand ---------------------------
(***************************************************************************)
(* `gz service -r` and the calls under it: the types the user left out are *)
(* taken from the providers discovery knows (Node::ResolveServiceTypes,    *)
(* which polls), the request is made with them, and the user is told what  *)
(* came of it.  Providers come and go meanwhile.  The call itself is       *)
(* ServiceCall's: here a provider that is known may answer it, or nobody   *)
(* does.  Node::RequestRaw and waitForService/waitForTopic, which share    *)
(* those steps, are the other operations.                                  *)
(***************************************************************************)
EXTENDS Integers, FiniteSets

CONSTANTS
    Providers,      \* with what each of them offers: [id, req, rep]
    Creatable,      \* the types the message factory can create
    Spelled,        \* other spellings of them: name -> type
    Empty,          \* the reply type of one-way services
    Arguments,      \* [op, req, rep, data, timeout, valid]; "" is left out
    MaxChanges      \* how often providers may come or go

VARIABLES
    args,       \* the arguments of the command
    types,      \* reqType and repType
    pc, left,   \* what is left of the wait
    offers,     \* the offers discovery knows: ServiceInfo's answer
    listed,     \* the types listed for an ambiguous service
    outcome,    \* what the user or the caller is told
    moments,    \* ghost: what was known at each moment of the current wait
    changes

commandVars ==
    <<args, types, pc, left, offers, listed, outcome, moments, changes>>

Outcomes == {"", "invalid", "none", "incompatible", "ambiguous", "uncreated",
             "sent", "done", "failed", "timedout", "found", "notfound"}

\* Providers advertise types by the names the factory gives them.
Canonical(t) == t # "" /\ t \notin DOMAIN Spelled

ASSUME CommandAssumption ==
    /\ \A o \in Providers : Canonical(o.req) /\ Canonical(o.rep)
    /\ \A t \in DOMAIN Spelled : t # "" /\ Canonical(Spelled[t])
    /\ \A a \in Arguments : a.op \in {"command", "raw", "wait"}
    /\ \A a \in Arguments : a.timeout \in Int
    /\ MaxChanges \in Nat

NoArgs == [op |-> "none", req |-> "", rep |-> "", data |-> FALSE,
           timeout |-> 0, valid |-> FALSE]

CommandTypeOK ==
    /\ args \in Arguments \union {NoArgs}
    /\ pc \in {"start", "wait", "list", "create", "called", "end"}
    /\ left \in Nat /\ changes \in 0..MaxChanges
    /\ offers \subseteq Providers /\ moments \subseteq SUBSET Providers
    /\ outcome \in Outcomes /\ (outcome = "" <=> pc # "end")
    /\ DOMAIN types = {"req", "rep"}

CommandInit ==
    /\ args = NoArgs /\ types = [req |-> "", rep |-> ""]
    /\ pc = "start" /\ left = 0 /\ changes = 0
    /\ offers \in SUBSET Providers
    /\ listed = {} /\ outcome = "" /\ moments = {}

Tell(what) ==
    /\ outcome' = what /\ pc' = "end"

(***************************************************************************)
(* The names the user gave, as the factory spells them.                    *)
(***************************************************************************)
CanonicalType(t) == IF t \in DOMAIN Spelled THEN Spelled[t] ELSE t
InferReq == CanonicalType(args.req) = ""
InferRep == CanonicalType(args.rep) = ""

\* A negative timeout means one look at discovery, but it reaches the request
\* as a huge unsigned number.
WaitTime(a) == IF a.timeout > 0 THEN a.timeout ELSE 0

StartCommand(a) ==
    /\ pc = "start"
    /\ args' = a
    /\ types' = IF a.op = "command"
                THEN [req |-> CanonicalType(a.req),
                      rep |-> CanonicalType(a.rep)]
                ELSE [req |-> a.req, rep |-> a.rep]
    /\ moments' = {offers}
    /\ left' = WaitTime(a)
    /\ \/ /\ a.op = "wait"
          /\ pc' = "wait" /\ outcome' = outcome
       \/ /\ a.op = "command" /\ "" \in {a.req, a.rep}
          /\ IF a.valid THEN pc' = "wait" /\ outcome' = outcome
                        ELSE Tell("invalid")
       \/ /\ a.op \in {"command", "raw"}
          /\ a.op = "raw" \/ "" \notin {a.req, a.rep}
          /\ pc' = "create" /\ outcome' = outcome
    /\ UNCHANGED <<offers, listed, changes>>

(***************************************************************************)
(* waitUntil's polls: before the deadline, and once more after it.         *)
(***************************************************************************)
Compatible(o) ==
    /\ InferReq \/ o.req = types.req
    /\ InferRep \/ o.rep = types.rep

\* The predicates of ResolveServiceTypes and of waitForService/waitForTopic.
Found == {o \in offers : args.op = "wait" \/ Compatible(o)}

CommandSleep ==
    /\ pc = "wait" /\ Found = {} /\ left > 0
    /\ left' \in 0..(left - 1)
    /\ UNCHANGED <<args, types, pc, offers, listed, outcome, moments, changes>>

GiveUp ==
    /\ pc = "wait" /\ Found = {} /\ left = 0
    /\ Tell(CASE args.op = "wait" -> "notfound"
              [] offers = {} -> "none"
              [] OTHER -> "incompatible")
    /\ UNCHANGED <<args, types, left, offers, listed, moments, changes>>

WaitFor ==
    /\ pc = "wait" /\ args.op = "wait" /\ Found # {}
    /\ Tell("found")
    /\ UNCHANGED <<args, types, left, offers, listed, moments, changes>>

\* All that is inferred has to be the same for every compatible provider.
Ambiguous(found) ==
    \E o, p \in found : \/ InferReq /\ o.req # p.req
                        \/ InferRep /\ o.rep # p.rep

ResolveServiceTypes ==
    /\ pc = "wait" /\ args.op = "command" /\ Found # {}
    /\ IF Ambiguous(Found)
       THEN /\ pc' = "list"
            /\ types' = types
       ELSE /\ pc' = "create"
            /\ \E o \in Found :
                   types' = [req |-> IF InferReq THEN o.req ELSE types.req,
                             rep |-> IF InferRep THEN o.rep ELSE types.rep]
    /\ UNCHANGED <<args, left, offers, listed, outcome, moments, changes>>

\* The types are listed from a second look at discovery.
ListTypes ==
    /\ pc = "list"
    /\ listed' = {<<o.req, o.rep>> : o \in offers}
    /\ Tell("ambiguous")
    /\ UNCHANGED <<args, types, left, offers, moments, changes>>

(***************************************************************************)
(* The request.                                                            *)
(***************************************************************************)
Create ==
    /\ pc = "create"
    /\ LET a == CanonicalType(types.req)
           b == CanonicalType(types.rep)
       IN /\ types' = [req |-> a, rep |-> b]
          /\ IF ~args.data \/ ~({a, b} \subseteq Creatable)
             THEN Tell("uncreated") /\ moments' = moments
             ELSE pc' = "called" /\ outcome' = outcome /\ moments' = {offers}
    /\ UNCHANGED <<args, left, offers, listed, changes>>

\* The tool tells nothing of a one-way request; RequestRaw reports it as not
\* executed, which is what Node::Request returns when its wait ends.
IsOneWay == types.rep = Empty
Unanswered == IF IsOneWay /\ args.op = "command" THEN "sent" ELSE "timedout"

GetReply ==
    /\ pc = "called" /\ ~IsOneWay /\ args.valid
    /\ \E o \in offers : o.req = types.req /\ o.rep = types.rep
    /\ \E result \in BOOLEAN : Tell(IF result THEN "done" ELSE "failed")
    /\ UNCHANGED <<args, types, left, offers, listed, moments, changes>>

\* The request of an invalid name returns at once; a one-way request waits a
\* second whatever the timeout of the command.
TimeOut ==
    /\ pc = "called"
    /\ \/ ~args.valid
       \/ IsOneWay /\ args.op = "command"
       \/ args.timeout >= 0
    /\ Tell(Unanswered)
    /\ UNCHANGED <<args, types, left, offers, listed, moments, changes>>

(***************************************************************************)
(* Discovery hears of a provider, or that one has gone.                    *)
(***************************************************************************)
Change(o) ==
    /\ pc \notin {"start", "end"} /\ changes < MaxChanges
    /\ changes' = changes + 1
    /\ offers' = IF o \in offers THEN offers \ {o} ELSE offers \union {o}
    /\ moments' = moments \union {offers'}
    /\ UNCHANGED <<args, types, pc, left, listed, outcome>>

CommandNext ==
    \/ \E a \in Arguments : StartCommand(a)
    \/ CommandSleep \/ GiveUp \/ WaitFor \/ ResolveServiceTypes \/ ListTypes
    \/ Create \/ GetReply \/ TimeOut
    \/ \E o \in Providers : Change(o)

CommandSpec == CommandInit /\ [][CommandNext]_commandVars

(***************************************************************************)
(* Properties.                                                             *)
(***************************************************************************)
\* What the user wrote, read as a person would: a name left out is any type,
\* and each spelling of a type is that type.
Means(name, t) == \/ name \in {"", t}
                  \/ name \in DOMAIN Spelled /\ Spelled[name] = t
AskedFor(o) ==
    args.op # "wait" => Means(args.req, o.req) /\ Means(args.rep, o.rep)
Pair(o) == [req |-> o.req, rep |-> o.rep]
Throughout == {o \in Providers : \A m \in moments : o \in m}

\* What the command tells agrees with one moment of its wait, however
\* providers came and went: nobody, or nobody fit, is told only when no
\* provider that fits was known from the beginning to the end; a service is
\* ambiguous, or its types are resolved, by what was known at one moment; a
\* reply comes from a provider of the very types of the request.
\* (Node.cc:1211-1281, gz.cc:247-394)
Truthful ==
    /\ CommandTypeOK
    /\ outcome \in {"none", "incompatible", "notfound"} =>
           ~\E o \in Throughout : AskedFor(o)
    /\ outcome = "none" => {} \in moments
    /\ outcome = "incompatible" => moments # {{}}
    /\ outcome = "ambiguous" =>
           \E m \in moments : \E o, p \in m :
               AskedFor(o) /\ AskedFor(p) /\ Pair(o) # Pair(p)
    /\ pc = "create" /\ args.op = "command" /\ "" \in {args.req, args.rep} =>
           \E m \in moments :
               /\ \E o \in m : AskedFor(o) /\ Pair(o) = types
               /\ \A o \in m : AskedFor(o) => Pair(o) = types
    /\ outcome \in {"done", "failed"} =>
           \E m \in moments : \E o \in m : AskedFor(o) /\ Pair(o) = types
=============================================================================
