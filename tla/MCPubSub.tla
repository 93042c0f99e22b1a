----------------------------- MODULE MCPubSub ------------------------------
(***************************************************************************)
(* Small instances of PubSub for TLC: "a" and "c" publish, "b" subscribes. *)
(*                                                                         *)
(* A run joins scenarios, one per value of "plan", which never changes.    *)
(* With ZeroMQ:                                                            *)
(*   "churn"  a and b, with two handlers in one node, and no crash; a      *)
(*            known publisher may be taken for dead;                       *)
(*   "three"  a, b and c, with one handler that stays; a datagram may be   *)
(*            lost, and a crash.                                           *)
(* Rumours do not fade, and processes start before anybody calls.          *)
(* Over Zenoh:                                                             *)
(*   "topic"    two handlers of a node, of different types, and two users; *)
(*              see ZenohTopics;                                           *)
(*   "service"  calls of two kinds at once, or a one-way call alone, with  *)
(*              a responder that comes, goes and comes back; see           *)
(*              ZenohServices.                                             *)
(* Of discovery messages alone:                                            *)
(*   "relay"    two hosts, one with two processes, on networks of their    *)
(*              own; see Relays.                                           *)
(***************************************************************************)
EXTENDS PubSub, ZenohTopics, ZenohServices, Relays, TLC

VARIABLE plan

Record(p, n) == [topic |-> "t", addr |-> p, pUuid |-> p, nUuid |-> n]
AHandler(p, n, h) == [pUuid |-> p, topic |-> "t", nUuid |-> n, hUuid |-> h]

\* Only the subscriber's process needs to know publishers.
VisibleToB(p, pub) == p = "b"
VisibleToAll(p, pub) == TRUE

AOrC == {Record("a", "n"), Record("c", "n")}
TwoHandlers == {AHandler("b", "m", 1), AHandler("b", "m", 2)}

\* The node "m" of "b" publishes and subscribes.
AAndB == {Record("a", "n"), Record("b", "m")}
OneHandler == {AHandler("b", "m", 1)}

Steady ==
    /\ rumours \subseteq rumours'
    /\ live' # live => events = 0 \/ gone' # gone
    /\ "c" \in live' => "b" \in live'
    /\ "b" \in live' => "a" \in live' \/ gone' # {}

Planned ==
    CASE plan = "churn" ->
             "c" \notin live' /\ gone' = {} /\ lost' = 0
      [] plan = "three" ->
             /\ gone' \subseteq {"a"} /\ events' <= 3
             /\ lost' = 0 \/ gone' = {}
             /\ localSubscribers \subseteq localSubscribers'
             /\ \A h \in localSubscribers' : h.hUuid = 1
             /\ \/ gone' # gone
                \/ \A p \in Proc : offered[p] \subseteq offered'[p]

(***************************************************************************)
(* Over Zenoh.                                                             *)
(***************************************************************************)
TwoNodeOf == 1 :> "m" @@ 2 :> "m"
TwoTypeOf == 1 :> "T" @@ 2 :> "any"

\* One user only subscribes.
PlannedTopics == doing'["v"].op # "unsubscribe"

ZCall(n, blocking, oneWay) ==
    [id |-> n, blocking |-> blocking, oneWay |-> oneWay]
ZCalls == {ZCall(1, TRUE, FALSE), ZCall(2, FALSE, FALSE),
           ZCall(3, FALSE, TRUE)}

PlannedCalls ==
    \A r, s \in ZCalls :
        r.oneWay /\ ~ s.oneWay => "new" \in {call'[r], call'[s]}

(***************************************************************************)
(* Relays.                                                                 *)
(***************************************************************************)
AOnHosts == "a1" :> "A" @@ "a2" :> "A" @@ "b" :> "B"
OwnNets == "A" :> <<"n1">> @@ "B" :> <<"n2">>

\* Hosts whose address is refused, or cannot join.
Refused == {p \in {"a1", "b"} : rSockets[p] # OwnNets[HostOf[p]]}

\* The user's relays come first, none at "a2"; two messages, one after the
\* other or one of either host at once, where nothing fails.
PlannedRelays ==
    /\ relayAddrs' # relayAddrs /\ network' = network =>
           sent = <<>> /\ relayAddrs'["a2"] = <<>>
    /\ Len(sent') = 2 =>
           /\ Refused \union down = {}
           /\ sent'[2].origin = "b"

(***************************************************************************)
(* The specification.                                                      *)
(***************************************************************************)
ZeroMQ == {"churn", "three"}

OthersInit ==
    ZenohInit /\ ZenohSrvInit /\ RelaysInit

MCInit ==
    /\ Init /\ OthersInit
    /\ plan \in ZeroMQ \union {"topic", "service", "relay"}
    /\ IF plan = "relay" THEN Cardinality(Refused) + Cardinality(down) <= 1
                         ELSE Refused \union down = {}

MCNext ==
    /\ UNCHANGED plan
    /\ \/ /\ plan \in ZeroMQ /\ Next /\ Steady /\ Planned
          /\ UNCHANGED <<zenohvars, zsrvvars, relaying>>
       \/ /\ plan = "topic" /\ ZenohNext /\ PlannedTopics
          /\ UNCHANGED <<vars, zsrvvars, relaying>>
       \/ /\ plan = "service" /\ ZenohSrvNext /\ PlannedCalls
          /\ UNCHANGED <<vars, zenohvars, relaying>>
       \/ /\ plan = "relay" /\ RelaysNext /\ PlannedRelays
          /\ UNCHANGED <<vars, zenohvars, zsrvvars>>

mcvars == <<vars, plan, zenohvars, zsrvvars, relaying>>

\* Some thread that can go on does: less than PubSub's own fairness, which
\* has one such assumption for each thread, and enough here.
MCFairness ==
    /\ WF_vars(plan \in ZeroMQ /\ \E p \in Proc : UserStep(p) \/ RecvStep(p))
    /\ WF_zenohvars(plan = "topic" /\ Continue)
    /\ WF_zsrvvars(plan = "service" /\ ContinueSrv)
    /\ WF_vars(plan \in ZeroMQ
                  /\ \E p \in Proc : Announce(p)
                                    /\ rumours' = rumours \union offered[p])
    /\ SF_vars(plan \in ZeroMQ
                  /\ \E p \in Proc, pub \in Advertisable : Learn(p, pub))

MCSpec ==
    /\ MCInit /\ [][MCNext]_mcvars
    /\ MCFairness

\* The run about HasConnections has no scenario.
InitCounted ==
    Init /\ OthersInit /\ plan = "any" /\ Refused \union down = {}
NextCounted ==
    Next /\ Steady /\ UNCHANGED <<plan, zenohvars, zsrvvars, relaying>>
SpecCounted == InitCounted /\ [][NextCounted]_mcvars

(***************************************************************************)
(* A property of two of the modules.                                       *)
(***************************************************************************)

\* Calls by way of Zenoh are served and answered as Calls says, a callback
\* that was retired is not run again, and a call whose reply came does not
\* go on waiting (ZenohServices, ZenohTopics; ReqHandler.cc:97-187,
\* NodeShared.cc:2018-2044).
ZenohCalls ==
    ServiceCalls!Spec /\ Retires /\ Settled
=============================================================================
