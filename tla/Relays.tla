------------------------------- MODULE Relays -------------------------------
(***************************************************************************)
(* How a discovery message travels (src/Discovery.hh): by multicast on the *)
(* network of each interface, and by unicast through relays, which may be  *)
(* hosts of other networks.  A host of many processes gives a unicast      *)
(* datagram to one of them.  What a message is about is left out; module   *)
(* Discovery models what receivers do with it.                             *)
(*                                                                         *)
(* Datagrams may overtake each other and none is lost, but a network or a  *)
(* host may refuse what is sent to it.                                     *)
(***************************************************************************)
EXTENDS Naturals, Sequences, FiniteSets, Bags, SequencesExt

CONSTANTS
    RProc,              \* processes
    HostOf,             \* the host of each
    NetIfaces,          \* the networks of each host, the main address first
    MaxRelays, MaxSent  \* bounds of the instance

VARIABLES
    rSockets,           \* Discovery::sockets, as the network of each
    rGroups,            \* where sockets[0] has joined the multicast group
    relayAddrs,         \* Discovery::relayAddrs
    down,               \* the networks and hosts to which sendto fails
    network,            \* datagrams on their way
    sent,               \* history: messages, with who should hear them
    heard               \* history: messages processed, with the sender's host

relaying == <<rSockets, rGroups, relayAddrs, down, network, sent, heard>>

Host == {HostOf[p] : p \in RProc}
Net == UNION {ToSet(NetIfaces[h]) : h \in Host}

ASSUME NetsAssumption ==
    \A h \in Host : NetIfaces[h] \in Seq(ToSet(NetIfaces[h])) \ {<<>>}

OnHost(h) == {p \in RProc : HostOf[p] = h}
Nets(p) == rGroups[p]

\* The network 127.0.0.1 of a host bears the host's name.
Loopback(h) == h

\* The constructor registers each address, and after the main one 127.0.0.1 if
\* that failed: a socket was refused, or it is kept and the group not joined.
Attempts(h) == InsertAt(NetIfaces[h], 2, Loopback(h))

RegisterNetIface(h, refused, unjoined) ==
    {i \in DOMAIN Attempts(h) :
        IF i = 2 THEN <<h, NetIfaces[h][1]>> \in refused \union unjoined
                 ELSE <<h, Attempts(h)[i]>> \notin refused}

Nth(positions, n) ==
    CHOOSE i \in positions : Cardinality({j \in positions : j <= i}) = n

RegisteredNets(h, refused, unjoined) ==
    LET kept == RegisterNetIface(h, refused, unjoined) IN
        [n \in 1..Cardinality(kept) |-> Attempts(h)[Nth(kept, n)]]

JoinedNets(h, refused, unjoined) ==
    {Attempts(h)[i] : i \in {j \in RegisterNetIface(h, refused, unjoined) :
        j = 2 \/ <<h, Attempts(h)[j]>> \notin unjoined}}

RelaysInit ==
    /\ \E refused, unjoined \in
           SUBSET UNION {{h} \X ToSet(NetIfaces[h]) : h \in Host} :
           /\ rSockets = [p \in RProc |->
                              RegisteredNets(HostOf[p], refused, unjoined)]
           /\ rGroups = [p \in RProc |->
                              JoinedNets(HostOf[p], refused, unjoined)]
    /\ relayAddrs = [p \in RProc |-> <<>>]
    /\ down \in SUBSET (Net \union Host)
    /\ network = EmptyBag
    /\ sent = <<>> /\ heard = EmptyBag

(***************************************************************************)
(* Sending.  Either loop ends with the first failure.                      *)
(***************************************************************************)
BeforeFailure(destinations) ==
    {destinations[i] : i \in {j \in DOMAIN destinations :
        \A k \in 1..j : destinations[k] \notin down}}

\* hops is a history of how often the message was sent on.
Datagram(p, q, net, m, relay, noRelay, hops) ==
    [from |-> HostOf[p], to |-> q, net |-> net, message |-> m,
     relay |-> relay, noRelay |-> noRelay, hops |-> hops]

SendMulticast(p, m, noRelay, hops) ==
    SetToBag(UNION {
        {Datagram(p, q, net, m, FALSE, noRelay, hops) :
            q \in {r \in RProc : net \in Nets(r)}} :
        net \in BeforeFailure(rSockets[p])})

\* With the RELAY flag; one process of each host receives.
Unicasts(p, m, hops) ==
    LET hosts == {h \in BeforeFailure(relayAddrs[p]) : OnHost(h) # {}}
    IN  {SetToBag({Datagram(p, receiver[h], Loopback(h), m, TRUE, FALSE,
                               hops) : h \in hosts}) :
         receiver \in {f \in [hosts -> RProc] :
                           \A h \in hosts : HostOf[f[h]] = h}}

AddRelayAddress(p, h) ==
    relayAddrs' = [relayAddrs EXCEPT
                       ![p] = IF h \in ToSet(@) THEN @ ELSE Append(@, h)]

(***************************************************************************)
(* Who hears what p sends, by the relays known when it does: the processes *)
(* that joined a network p sends to; each of them and p itself forwards it *)
(* to its relays, whose neighbours hear it too.                            *)
(***************************************************************************)
Neighbours(p) ==
    {q \in RProc : BeforeFailure(rSockets[p]) \cap Nets(q) # {}}

Forwarders(p) == {p} \union Neighbours(p)

Audience(p) ==
    Neighbours(p) \union
        UNION {Neighbours(r) : r \in UNION {OnHost(h) :
            h \in UNION {BeforeFailure(relayAddrs[f]) : f \in Forwarders(p)}}}

(***************************************************************************)
(* Actions.                                                                *)
(***************************************************************************)
\* A message of p, to multicast and to the relays.
SendMsg(p) ==
    /\ Len(sent) < MaxSent
    /\ sent' = Append(sent, [origin |-> p, audience |-> Audience(p) \ {p}])
    /\ \E unicasts \in Unicasts(p, Len(sent) + 1, 1) :
           network' = network (+) SendMulticast(p, Len(sent) + 1, FALSE, 1)
                              (+) unicasts
    /\ UNCHANGED <<rSockets, rGroups, relayAddrs, down, heard>>

AddGlobalRelay(p, h) ==
    /\ h \notin ToSet(relayAddrs[p]) /\ Len(relayAddrs[p]) < MaxRelays
    /\ AddRelayAddress(p, h)
    /\ UNCHANGED <<rSockets, rGroups, down, network, sent, heard>>

Taken(d) == network (-) SetToBag({d})

\* A process ignores its own messages.
DiscardOwn(d) ==
    /\ sent[d.message].origin = d.to
    /\ network' = Taken(d)
    /\ UNCHANGED <<rSockets, rGroups, relayAddrs, down, sent, heard>>

\* Mutant: NO_RELAY is not set.
FromRelayUnmarked(d) ==
    /\ sent[d.message].origin # d.to
    /\ d.relay
    /\ network' =
           Taken(d) (+) SendMulticast(d.to, d.message, FALSE, d.hops + 1)
    /\ AddRelayAddress(d.to, d.from)
    /\ UNCHANGED <<rSockets, rGroups, down, sent, heard>>

\* From a unicast peer, which is remembered, to the multicast group.
FromRelay(d) ==
    /\ sent[d.message].origin # d.to
    /\ d.relay
    /\ network' =
           Taken(d) (+) SendMulticast(d.to, d.message, TRUE, d.hops + 1)
    /\ AddRelayAddress(d.to, d.from)
    /\ UNCHANGED <<rSockets, rGroups, down, sent, heard>>

\* From the multicast group to the unicast peers, unless that was done; then
\* the message is processed.
FromGroup(d) ==
    /\ sent[d.message].origin # d.to
    /\ ~ d.relay
    /\ IF d.noRelay THEN network' = Taken(d)
       ELSE \E unicasts \in Unicasts(d.to, d.message, d.hops + 1) :
                network' = Taken(d) (+) unicasts
    /\ heard' = heard (+) SetToBag({[by |-> d.to, message |-> d.message,
                                     from |-> d.from]})
    /\ UNCHANGED <<rSockets, rGroups, relayAddrs, down, sent>>

Receives ==
    \E d \in BagToSet(network) : DiscardOwn(d) \/ FromRelay(d) \/ FromGroup(d)

RelaysNext ==
    \/ \E p \in RProc : SendMsg(p) \/ \E h \in Host : AddGlobalRelay(p, h)
    \/ Receives

RelaysSpec == RelaysInit /\ [][RelaysNext]_relaying

(***************************************************************************)
(* Properties.                                                             *)
(***************************************************************************)
RelaysTypeOK ==
    /\ \A p \in RProc : IsInjective(relayAddrs[p])
    /\ IsABag(network) /\ IsABag(heard)

Hearers(m) == {e.by : e \in {f \in BagToSet(heard) : f.message = m}}

\* Once nothing is on its way any more, everybody whom a message was to reach
\* has processed it, however often it was forwarded.
ReachesAudience ==
    network = EmptyBag =>
        \A m \in DOMAIN sent : sent[m].audience \subseteq Hearers(m)

\* No message circulates, whatever relays lead to each other: it travels to a
\* network, from there to a relay, and to the network of that.
NoStorm == \A d \in BagToSet(network) : d.hops <= 3

\* Nothing fails, and every process hears the networks it sends to.
AllHear == down = {} /\ \A p \in RProc : Nets(p) = ToSet(rSockets[p])

\* Relays work both ways: who heard a message is heard by its origin in turn.
HeardInTurn ==
    AllHear =>
        \A m \in DOMAIN sent : \A p \in Hearers(m) :
            sent[m].origin \in Audience(p)

\* A message that a receiver takes for one of its own host comes from there,
\* or through a relay of that host.
LocalOrRelayed ==
    \A e \in BagToSet(heard) :
        e.from = HostOf[e.by] =>
            \/ HostOf[sent[e.message].origin] = e.from
            \/ \E p \in OnHost(e.from) : relayAddrs[p] # <<>>

\* A message of discovery gets to all who should hear it, by multicast or by
\* one relay, and to none for ever (Discovery.hh:1192-1228, 1483-1621).
RelaysCarry ==
    /\ RelaysTypeOK /\ ReachesAudience /\ NoStorm /\ HeardInTurn
    /\ LocalOrRelayed
=============================================================================
