---------------------------- MODULE MCDiscovery ----------------------------
(***************************************************************************)
(* Small instances of Discovery for TLC.  The process "a" publishes; "b"   *)
(* is on the same machine, "c" on another one.                             *)
(*                                                                         *)
(* A safety run joins three scenarios, one per value of "plan", which      *)
(* never changes:                                                          *)
(*   "publish"    a and b; a node of a advertises to all or to its machine *)
(*                while b stays, and one datagram may be lost or delivered *)
(*                twice;                                                   *)
(*   "subscribe"  a and c; c stays and subscribes once while a advertises  *)
(*                under any scope and may crash;                           *)
(*   "list"       a and b; b subscribes while a lists the subscribers.     *)
(***************************************************************************)
EXTENDS Discovery

VARIABLE plan

MCHostOf == [p \in Proc |-> IF p = "c" THEN "far" ELSE "near"]

Record(p, s) ==
    [topic |-> "t", addr |-> p, pUuid |-> p, nUuid |-> "n", scope |-> s]

AnyScope == {Record("a", s) : s \in Scope}
OneAll == {Record("a", "ALL")}
Listeners == {Record("b", "ALL"), Record("c", "ALL")}
Nobody == {}
ListA == {"a"}

\* What the users and the network do in each scenario.
Cast == [publish |-> {"a", "b"}, subscribe |-> {"a", "c"}, list |-> {"a", "b"}]
\* Nobody lists.
NobodyLists == \A p \in Proc : call'[p].op # "waitInit"

Planned ==
    /\ \A p \in Proc \ Cast[plan] : status'[p] = "off"
    /\ CASE plan = "publish" ->
               /\ status'["b"] \in {"off", "up"}
               /\ subs' = subs
               /\ NobodyLists
               /\ \A r \in info'["a"] : r.scope # "PROCESS"
         [] plan = "subscribe" ->
               /\ faults' = faults
               /\ status'["a"] # "exiting" /\ status'["c"] \in {"off", "up"}
               /\ \A m \in net' : m.type = "HEARTBEAT" => m.from = "a"
               /\ subs' = subs \/ subs["c"] = {}
               /\ call'["c"].op = "lookup" => call["c"].op = "lookup" \/ subs["c"] = {}
               /\ \A m \in net' : m.type # "NEW_CONNECTION"
               /\ NobodyLists
         [] plan = "list" -> faults' = faults /\ info' = info

MCInit == Init /\ plan \in DOMAIN Cast
MCNext == Next /\ Planned /\ UNCHANGED plan
MCSpec == MCInit /\ [][MCNext]_<<vars, plan>>

\* The liveness run has the first scenario only.
MCInitPublish == Init /\ plan = "publish"
MCFairSpec == MCInitPublish /\ [][MCNext]_<<vars, plan>> /\ Fairness
=============================================================================
