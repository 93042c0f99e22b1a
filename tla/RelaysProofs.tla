---------------------------- MODULE RelaysProofs ----------------------------
(***************************************************************************)
(* Proofs about the way of a discovery message, for any hosts, processes,  *)
(* networks, relays and failures: it gets to everybody who was to hear it, *)
(* and does not circulate.                                                 *)
(***************************************************************************)
EXTENDS Relays, FiniteSetTheorems, TLAPS

(***************************************************************************)
(* Bags.                                                                   *)
(***************************************************************************)
LEMMA BagOf ==
    ASSUME NEW S
    PROVE  IsABag(SetToBag(S)) /\ DOMAIN SetToBag(S) = S
BY DEF SetToBag, IsABag

LEMMA IsABagOf ==
    ASSUME NEW S, NEW f, f = [x \in S |-> f[x]],
           \A x \in S : f[x] \in {n \in Nat : n > 0}
    PROVE  IsABag(f) /\ DOMAIN f = S
<1>1. DOMAIN f = S /\ f \in [S -> {n \in Nat : n > 0}]
  OBVIOUS
<1> QED
  BY <1>1 DEF IsABag

LEMMA BagPlus ==
    ASSUME NEW A, NEW B, IsABag(A), IsABag(B)
    PROVE  IsABag(A (+) B) /\ DOMAIN (A (+) B) = DOMAIN A \union DOMAIN B
<1>1. DOMAIN (A (+) B) = DOMAIN A \union DOMAIN B
  BY DEF IsABag, (+)
<1>2. IsABag(A (+) B)
  BY DEF IsABag, (+)
<1> QED
  BY <1>1, <1>2

\* What is left of a bag without one copy of an element.
LEMMA BagWithout ==
    ASSUME NEW B, IsABag(B), NEW d
    PROVE  /\ IsABag(B (-) SetToBag({d}))
           /\ DOMAIN (B (-) SetToBag({d})) \subseteq DOMAIN B
           /\ DOMAIN B \ {d} \subseteq DOMAIN (B (-) SetToBag({d}))
<1> DEFINE D == SetToBag({d})
           C == [x \in DOMAIN B |-> IF x \in DOMAIN D THEN B[x] - D[x]
                                                      ELSE B[x]]
           S == {x \in DOMAIN C : C[x] > 0}
<1>1. DOMAIN D = {d} /\ D[d] = 1
  BY DEF SetToBag
<1>2. B (-) D = [x \in S |-> C[x]]
  BY DEF (-)
<1>3. DOMAIN C = DOMAIN B
  OBVIOUS
<1>4. \A x \in DOMAIN B : B[x] \in Nat /\ B[x] > 0
  BY DEF IsABag
<1>5. ASSUME NEW x \in DOMAIN B
      PROVE  C[x] \in Int /\ (x # d => C[x] = B[x])
  BY <1>1, <1>4
<1> HIDE DEF C, D
<1>6. S \subseteq DOMAIN B /\ DOMAIN B \ {d} \subseteq S
  BY <1>3, <1>4, <1>5
<1>7. \A x \in S : C[x] \in {n \in Nat : n > 0}
  BY <1>3, <1>5
<1> HIDE DEF S
<1>8. IsABag(B (-) D) /\ DOMAIN (B (-) D) = S
  BY <1>2, <1>7, IsABagOf
<1> QED
  BY <1>6, <1>8 DEF D

(***************************************************************************)
(* The networks a process is on, and the relays it knows.                  *)
(***************************************************************************)
\* Processes of a host send to the same networks and are on the same, one at
\* least.
HostNets ==
    /\ \A p, q \in RProc : HostOf[p] = HostOf[q] =>
           rSockets[p] = rSockets[q] /\ rGroups[p] = rGroups[q]
    /\ \A p \in RProc : Nets(p) # {}

RelayAddrs ==
    /\ relayAddrs \in [RProc -> Seq(Host)]
    /\ \A p \in RProc : IsInjective(relayAddrs[p])

LEMMA ToSetIs ==
    ASSUME NEW s, NEW x
    PROVE  x \in ToSet(s) <=> \E i \in DOMAIN s : s[i] = x
BY DEF ToSet

LEMMA HostsOf ==
    ASSUME NEW p \in RProc
    PROVE  HostOf[p] \in Host /\ p \in OnHost(HostOf[p])
BY DEF Host, OnHost

LEMMA InitHostNets == RelaysInit => HostNets
<1> SUFFICES ASSUME RelaysInit
             PROVE  HostNets
  OBVIOUS
<1>1. PICK refused, unjoined :
          /\ rSockets = [p \in RProc |->
                             RegisteredNets(HostOf[p], refused, unjoined)]
          /\ rGroups = [p \in RProc |->
                             JoinedNets(HostOf[p], refused, unjoined)]
  BY DEF RelaysInit
<1>2. ASSUME NEW p \in RProc
      PROVE  Nets(p) # {}
  <2> DEFINE h == HostOf[p]
             s == NetIfaces[h]
             kept == RegisterNetIface(h, refused, unjoined)
  <2>1. s \in Seq(ToSet(s)) /\ s # <<>>
    BY HostsOf, NetsAssumption
  <2>2. /\ DOMAIN Attempts(h) = 1..(Len(s) + 1) /\ Len(s) \in Nat /\ Len(s) > 0
        /\ Attempts(h)[1] = s[1]
    <3>1. ASSUME NEW S, NEW t \in Seq(S), t # <<>>, NEW e
          PROVE  LET u == InsertAt(t, 2, e)
                 IN  /\ DOMAIN u = 1..(Len(t) + 1) /\ Len(t) \in Nat
                     /\ Len(t) > 0 /\ u[1] = t[1]
      BY <3>1 DEF InsertAt
    <3> QED
      BY <2>1, <3>1 DEF Attempts
  <2>3. CASE <<h, s[1]>> \in refused \union unjoined
    <3>1. 2 \in kept
      BY <2>2, <2>3 DEF RegisterNetIface
    <3>2. Attempts(h)[2] \in JoinedNets(h, refused, unjoined)
      BY <3>1 DEF JoinedNets
    <3> QED
      BY <1>1, <3>2 DEF Nets
  <2>4. CASE <<h, s[1]>> \notin refused \union unjoined
    <3>1. 1 \in kept /\ <<h, Attempts(h)[1]>> \notin unjoined
      BY <2>2, <2>4 DEF RegisterNetIface
    <3>2. Attempts(h)[1] \in JoinedNets(h, refused, unjoined)
      BY <3>1 DEF JoinedNets
    <3> QED
      BY <1>1, <3>2 DEF Nets
  <2> QED
    BY <2>3, <2>4
<1> QED
  BY <1>1, <1>2 DEF HostNets

(***************************************************************************)
(* A relay that is added does not keep others from what they are sent.     *)
(***************************************************************************)
LEMMA BeforeFailureIn ==
    ASSUME NEW s, NEW x
    PROVE  x \in BeforeFailure(s) <=>
               \E i \in DOMAIN s : x = s[i] /\ \A k \in 1..i : s[k] \notin down
BY DEF BeforeFailure

\* Where nothing is down all is sent.
LEMMA NothingDown ==
    ASSUME NEW s, down = {}
    PROVE  BeforeFailure(s) = ToSet(s)
BY DEF BeforeFailure, ToSet

LEMMA BeforeFailureGrows ==
    ASSUME NEW s \in Seq(Host), NEW h \in Host, UNCHANGED down
    PROVE  /\ BeforeFailure(s) \subseteq BeforeFailure(Append(s, h))
           /\ BeforeFailure(s) \subseteq Host
           /\ ToSet(Append(s, h)) = ToSet(s) \union {h}
<1>1. DOMAIN s = 1..Len(s) /\ Len(s) \in Nat
  OBVIOUS
<1>2. DOMAIN Append(s, h) = 1..(Len(s) + 1)
  OBVIOUS
<1>3. \A i \in DOMAIN s : i \in DOMAIN Append(s, h) /\ Append(s, h)[i] = s[i]
  BY <1>1, <1>2
<1>4. Append(s, h)[Len(s) + 1] = h
  OBVIOUS
<1>5. ASSUME NEW i \in 1..Len(s), NEW k \in 1..i
      PROVE  k \in 1..Len(s)
  BY <1>1
<1>6. BeforeFailure(s) \subseteq BeforeFailure(Append(s, h))
  <2>1. \A i \in DOMAIN s : \A k \in 1..i : Append(s, h)[k] = s[k]
    BY <1>1, <1>3, <1>5
  <2> SUFFICES ASSUME NEW x \in BeforeFailure(s)
               PROVE  x \in BeforeFailure(Append(s, h))
    OBVIOUS
  <2>2. PICK i \in DOMAIN s : x = s[i] /\ \A k \in 1..i : s[k] \notin down
    BY BeforeFailureIn
  <2>3. /\ i \in DOMAIN Append(s, h) /\ x = Append(s, h)[i]
        /\ \A k \in 1..i : Append(s, h)[k] \notin down
    BY <1>3, <2>1, <2>2
  <2> QED
    BY <2>3, BeforeFailureIn
<1>7. BeforeFailure(s) \subseteq Host
  BY <1>1, BeforeFailureIn
<1>8. ToSet(Append(s, h)) = ToSet(s) \union {h}
  <2>1. \A i \in DOMAIN Append(s, h) : i \in DOMAIN s \/ i = Len(s) + 1
    BY <1>1, <1>2
  <2>2. Len(s) + 1 \in DOMAIN Append(s, h)
    BY <1>1, <1>2
  <2> QED
    BY <2>1, <2>2, <1>3, <1>4 DEF ToSet
<1> QED
  BY <1>6, <1>7, <1>8

(***************************************************************************)
(* What is sent.                                                           *)
(***************************************************************************)
LEMMA NeighbourIs ==
    ASSUME NEW p, NEW q
    PROVE  q \in Neighbours(p) <=>
               /\ q \in RProc
               /\ \E net \in BeforeFailure(rSockets[p]) : net \in Nets(q)
BY DEF Neighbours

\* A multicast goes to the neighbours.
IsMulticast(datagrams, p, m, noRelay, hops) ==
    /\ IsABag(datagrams)
    /\ \A d \in DOMAIN datagrams :
          /\ d.from = HostOf[p] /\ d.to \in Neighbours(p)
          /\ d.message = m /\ d.relay = FALSE
          /\ d.noRelay = noRelay /\ d.hops = hops
    /\ \A q \in Neighbours(p) : \E d \in DOMAIN datagrams : d.to = q

LEMMA MulticastIs ==
    ASSUME NEW p \in RProc, NEW m, NEW noRelay, NEW hops
    PROVE  IsMulticast(SendMulticast(p, m, noRelay, hops), p, m, noRelay, hops)
<1> DEFINE To(net) == {Datagram(p, q, net, m, FALSE, noRelay, hops) :
                           q \in {r \in RProc : net \in Nets(r)}}
           S == UNION {To(net) : net \in BeforeFailure(rSockets[p])}
<1>1. SendMulticast(p, m, noRelay, hops) = SetToBag(S)
  BY DEF SendMulticast
<1>2. /\ IsABag(SendMulticast(p, m, noRelay, hops))
      /\ DOMAIN SendMulticast(p, m, noRelay, hops) = S
  BY <1>1, BagOf
<1>3. ASSUME NEW d \in S
      PROVE  /\ d.from = HostOf[p] /\ d.to \in Neighbours(p)
             /\ d.message = m /\ d.relay = FALSE
             /\ d.noRelay = noRelay /\ d.hops = hops
  <2>1. PICK net \in BeforeFailure(rSockets[p]), q \in RProc :
            /\ net \in Nets(q)
            /\ d = Datagram(p, q, net, m, FALSE, noRelay, hops)
    OBVIOUS
  <2> QED
    BY <2>1, NeighbourIs DEF Datagram
<1>4. ASSUME NEW q \in Neighbours(p)
      PROVE  \E d \in S : d.to = q
  <2>1. PICK net \in BeforeFailure(rSockets[p]) :
            net \in Nets(q) /\ q \in RProc
    BY NeighbourIs
  <2>2. Datagram(p, q, net, m, FALSE, noRelay, hops) \in To(net)
    BY <2>1
  <2>3. Datagram(p, q, net, m, FALSE, noRelay, hops) \in S
    BY <2>2
  <2>4. Datagram(p, q, net, m, FALSE, noRelay, hops).to = q
    BY DEF Datagram
  <2> QED
    BY <2>3, <2>4
<1> HIDE DEF S
<1> QED
  BY <1>2, <1>3, <1>4 DEF IsMulticast

\* Unicasts go to one process of each host that is a relay.
AreUnicasts(datagrams, p, m, hops) ==
    /\ IsABag(datagrams)
    /\ \A d \in DOMAIN datagrams :
          /\ d.from = HostOf[p] /\ d.to \in RProc
          /\ d.message = m /\ d.relay = TRUE
          /\ d.noRelay = FALSE /\ d.hops = hops
    /\ \A h \in BeforeFailure(relayAddrs[p]) :
          OnHost(h) # {} => \E d \in DOMAIN datagrams : HostOf[d.to] = h

LEMMA UnicastsAre ==
    ASSUME NEW p \in RProc, NEW m, NEW hops,
           NEW unicasts \in Unicasts(p, m, hops)
    PROVE  AreUnicasts(unicasts, p, m, hops)
<1> DEFINE hosts == {h \in BeforeFailure(relayAddrs[p]) : OnHost(h) # {}}
           S(f) == {Datagram(p, f[h], Loopback(h), m, TRUE, FALSE, hops) :
                        h \in hosts}
<1>1. PICK f \in [hosts -> RProc] :
          /\ \A h \in hosts : HostOf[f[h]] = h
          /\ unicasts = SetToBag(S(f))
  BY DEF Unicasts
<1>2. IsABag(unicasts) /\ DOMAIN unicasts = S(f)
  BY <1>1, BagOf
<1>3. ASSUME NEW d \in S(f)
      PROVE  /\ d.from = HostOf[p] /\ d.to \in RProc
             /\ d.message = m /\ d.relay = TRUE
             /\ d.noRelay = FALSE /\ d.hops = hops
  <2>1. PICK h \in hosts :
            d = Datagram(p, f[h], Loopback(h), m, TRUE, FALSE, hops)
    OBVIOUS
  <2>2. f[h] \in RProc
    BY <1>1
  <2> QED
    BY <2>1, <2>2 DEF Datagram
<1>4. ASSUME NEW h \in hosts
      PROVE  \E d \in S(f) : HostOf[d.to] = h
  <2>1. Datagram(p, f[h], Loopback(h), m, TRUE, FALSE, hops) \in S(f)
    OBVIOUS
  <2>2. Datagram(p, f[h], Loopback(h), m, TRUE, FALSE, hops).to = f[h]
    BY DEF Datagram
  <2> QED
    BY <1>1, <2>1, <2>2
<1> HIDE DEF S
<1> QED
  BY <1>2, <1>3, <1>4 DEF AreUnicasts

(***************************************************************************)
(* What a step leaves as it was: nobody moves, messages remain messages    *)
(* and relays remain relays.                                               *)
(***************************************************************************)
Grown ==
    /\ UNCHANGED <<rSockets, rGroups, down>>
    /\ DOMAIN sent \subseteq DOMAIN sent'
    /\ \A m \in DOMAIN sent : sent'[m] = sent[m]
    /\ relayAddrs' \in [RProc -> Seq(Host)]
    /\ \A p \in RProc :
          /\ BeforeFailure(relayAddrs[p]) \subseteq BeforeFailure(relayAddrs[p])'
          /\ relayAddrs[p] # <<>> => relayAddrs'[p] # <<>>

LEMMA AllHearSame ==
    ASSUME UNCHANGED <<rSockets, rGroups, down>>
    PROVE  AllHear' <=> AllHear
BY DEF AllHear, Nets

LEMMA NeighboursSame ==
    ASSUME UNCHANGED <<rSockets, rGroups, down>>, NEW p
    PROVE  Neighbours(p)' = Neighbours(p)
BY DEF Neighbours, BeforeFailure, Nets

LEMMA AudienceIs ==
    ASSUME NEW p, NEW q
    PROVE  q \in Audience(p) <=>
               \/ q \in Neighbours(p)
               \/ \E f \in Forwarders(p) :
                     \E h \in BeforeFailure(relayAddrs[f]) :
                        \E r \in OnHost(h) : q \in Neighbours(r)
BY DEF Audience

LEMMA AudienceGrows ==
    ASSUME Grown, NEW p \in RProc
    PROVE  Audience(p) \subseteq Audience(p)'
<1>1. Forwarders(p)' = Forwarders(p)
  BY NeighboursSame DEF Grown, Forwarders
<1>2. ASSUME NEW f \in Forwarders(p)
      PROVE  BeforeFailure(relayAddrs[f]) \subseteq BeforeFailure(relayAddrs[f])'
  BY DEF Grown, Forwarders, Neighbours
<1>3. ASSUME NEW q \in Audience(p)
      PROVE  q \in Audience(p)'
  <2>1. CASE q \in Neighbours(p)
    BY <2>1, NeighboursSame DEF Grown, Audience
  <2>2. CASE \E f \in Forwarders(p) :
                \E h \in BeforeFailure(relayAddrs[f]) :
                   \E r \in OnHost(h) : q \in Neighbours(r)
    <3>1. PICK f \in Forwarders(p) :
              \E h \in BeforeFailure(relayAddrs[f]) :
                 \E r \in OnHost(h) : q \in Neighbours(r)
      BY <2>2
    <3>2. PICK h \in BeforeFailure(relayAddrs[f]) :
              \E r \in OnHost(h) : q \in Neighbours(r)
      BY <3>1
    <3>3. PICK r \in OnHost(h) : q \in Neighbours(r)
      BY <3>2
    <3>4. f \in Forwarders(p)' /\ h \in BeforeFailure(relayAddrs[f])'
      BY <1>1, <1>2, <3>1, <3>2
    <3>5. q \in Neighbours(r)'
      BY <3>3, NeighboursSame DEF Grown
    <3> QED
      BY <3>3, <3>4, <3>5 DEF Audience
  <2> QED
    BY <2>1, <2>2, AudienceIs
<1> QED
  BY <1>3

(***************************************************************************)
(* What is on the way is sound: it has a message, has not been sent on     *)
(* more often than it may, and comes from a host that has relays if it is  *)
(* not the origin's.  Where nothing is down, its sender, or who hears it,  *)
(* can reach the origin.                                                   *)
(***************************************************************************)
Origin(m) == sent[m].origin

HasRelays(h) == \E p \in OnHost(h) : relayAddrs[p] # <<>>

Sent ==
    /\ sent \in Seq([origin : RProc, audience : SUBSET RProc])
    /\ IsABag(network) /\ IsABag(heard)

Hops(d) ==
    /\ d.hops \in Nat /\ d.hops <= 3
    /\ d.relay => d.hops <= 2
    /\ ~ d.relay /\ ~ d.noRelay => d.hops <= 1

\* Who heard it, or whoever the sender's host shares a network with, reaches
\* the origin.
ReachesBack(d) ==
    IF d.relay
    THEN \E f \in OnHost(d.from) : Origin(d.message) \in Neighbours(f)
    ELSE /\ Origin(d.message) \in Audience(d.to)
         /\ ~ d.noRelay => Origin(d.message) \in Neighbours(d.to)

Sound(d) ==
    /\ d.from \in Host /\ d.to \in RProc /\ d.message \in DOMAIN sent
    /\ d.relay \in BOOLEAN /\ d.noRelay \in BOOLEAN
    /\ Hops(d)
    /\ ~ d.relay => HostOf[Origin(d.message)] = d.from \/ HasRelays(d.from)
    /\ AllHear => ReachesBack(d)

HeardSound(e) ==
    /\ e.by \in RProc /\ e.message \in DOMAIN sent
    /\ HostOf[Origin(e.message)] = e.from \/ HasRelays(e.from)
    /\ AllHear => Origin(e.message) \in Audience(e.by)

AllSound ==
    /\ \A d \in DOMAIN network : Sound(d)
    /\ \A e \in DOMAIN heard : HeardSound(e)

RelaysInv == HostNets /\ RelayAddrs /\ Sent /\ AllSound

LEMMA RelaysRemain ==
    ASSUME Grown, NEW h, HasRelays(h)
    PROVE  HasRelays(h)'
BY DEF Grown, HasRelays, OnHost

LEMMA SoundRemains ==
    ASSUME Grown, NEW d, Sound(d)
    PROVE  Sound(d)'
<1>1. d.message \in DOMAIN sent' /\ Origin(d.message)' = Origin(d.message)
  BY DEF Grown, Sound, Origin
<1>2. Neighbours(d.to)' = Neighbours(d.to)
  BY NeighboursSame DEF Grown
<1>3. Audience(d.to) \subseteq Audience(d.to)'
  BY AudienceGrows DEF Sound
<1>4. ASSUME NEW f, Origin(d.message) \in Neighbours(f)
      PROVE  Origin(d.message)' \in Neighbours(f)'
  BY <1>1, <1>4, NeighboursSame DEF Grown
<1>5. AllHear' => ReachesBack(d)'
  <2> SUFFICES ASSUME AllHear
               PROVE  ReachesBack(d)'
    BY AllHearSame DEF Grown
  <2>1. ReachesBack(d)
    BY DEF Sound
  <2>2. CASE d.relay
    BY <2>1, <2>2, <1>4 DEF ReachesBack, OnHost
  <2>3. CASE ~ d.relay
    BY <2>1, <2>3, <1>1, <1>2, <1>3 DEF ReachesBack
  <2> QED
    BY <2>2, <2>3
<1>6. ~ d.relay =>
          HostOf[Origin(d.message)'] = d.from \/ HasRelays(d.from)'
  BY <1>1, RelaysRemain DEF Sound
<1> QED
  BY <1>1, <1>5, <1>6 DEF Sound, Hops

LEMMA HeardSoundRemains ==
    ASSUME Grown, NEW e, HeardSound(e)
    PROVE  HeardSound(e)'
<1>1. e.message \in DOMAIN sent' /\ Origin(e.message)' = Origin(e.message)
  BY DEF Grown, HeardSound, Origin
<1>2. Audience(e.by) \subseteq Audience(e.by)'
  BY AudienceGrows DEF HeardSound
<1>3. HostOf[Origin(e.message)'] = e.from \/ HasRelays(e.from)'
  BY <1>1, RelaysRemain DEF HeardSound
<1> QED
  BY <1>1, <1>2, <1>3, AllHearSame DEF HeardSound, Grown

\* If nothing is down, to be a neighbour is mutual, also with oneself.
LEMMA NeighboursMutual ==
    ASSUME HostNets, AllHear, NEW p \in RProc, NEW q \in RProc
    PROVE  /\ p \in Neighbours(p)
           /\ q \in Neighbours(p) => p \in Neighbours(q)
<1>1. \A r \in RProc : BeforeFailure(rSockets[r]) = Nets(r)
  BY NothingDown DEF AllHear
<1>2. PICK net : net \in Nets(p)
  BY DEF HostNets
<1>3. p \in Neighbours(p)
  BY <1>1, <1>2, NeighbourIs
<1>4. ASSUME q \in Neighbours(p)
      PROVE  p \in Neighbours(q)
  BY <1>1, <1>4, NeighbourIs
<1> QED
  BY <1>3, <1>4

(***************************************************************************)
(* Every step keeps this.                                                  *)
(***************************************************************************)
LEMMA AddRelay ==
    ASSUME RelayAddrs, UNCHANGED down, NEW p \in RProc, NEW h \in Host,
           AddRelayAddress(p, h)
    PROVE  /\ RelayAddrs'
           /\ \A q \in RProc :
                 /\ BeforeFailure(relayAddrs[q])
                        \subseteq BeforeFailure(relayAddrs[q])'
                 /\ relayAddrs[q] # <<>> => relayAddrs'[q] # <<>>
           /\ h \in ToSet(relayAddrs'[p]) /\ relayAddrs'[p] # <<>>
<1>1. relayAddrs \in [RProc -> Seq(Host)] /\ IsInjective(relayAddrs[p])
  BY DEF RelayAddrs
<1>2. PICK s \in Seq(Host) : s = relayAddrs[p] /\ IsInjective(s)
  BY <1>1
<1>3. PICK t : t = IF h \in ToSet(s) THEN s ELSE Append(s, h)
  OBVIOUS
<1>4. t \in Seq(Host)
  BY <1>3
<1>5. relayAddrs' = [relayAddrs EXCEPT ![p] = t]
  BY <1>2, <1>3 DEF AddRelayAddress
<1>6. relayAddrs' \in [RProc -> Seq(Host)] /\ relayAddrs'[p] = t
  BY <1>1, <1>4, <1>5
<1>7. \A q \in RProc : q # p => relayAddrs'[q] = relayAddrs[q]
  BY <1>1, <1>5
<1>8. IsInjective(t)
  <2>1. CASE h \in ToSet(s)
    BY <1>2, <1>3, <2>1
  <2>2. CASE h \notin ToSet(s)
    <3>1. t = Append(s, h) /\ DOMAIN t = 1..(Len(s) + 1)
          /\ DOMAIN s = 1..Len(s) /\ Len(s) \in Nat /\ t[Len(s) + 1] = h
      BY <1>3, <2>2
    <3>2. \A i \in 1..Len(s) : t[i] = s[i] /\ s[i] # h
      BY <3>1, <2>2, ToSetIs
    <3>3. \A i, j \in 1..Len(s) : s[i] = s[j] => i = j
      BY <1>2, <3>1 DEF IsInjective
    <3>4. ASSUME NEW i \in DOMAIN t, NEW j \in DOMAIN t, t[i] = t[j]
          PROVE  i = j
      <4>1. /\ i \in 1..Len(s) \/ i = Len(s) + 1
            /\ j \in 1..Len(s) \/ j = Len(s) + 1
        BY <3>1
      <4> QED
        BY <3>1, <3>2, <3>3, <3>4, <4>1
    <3> QED
      BY <3>4 DEF IsInjective
  <2> QED
    BY <2>1, <2>2
<1>9. h \in ToSet(t) /\ BeforeFailure(s) \subseteq BeforeFailure(t)
  BY <1>3, BeforeFailureGrows
<1>10. t # <<>>
  <2>1. PICK i \in DOMAIN t : t[i] = h
    BY <1>9, ToSetIs
  <2> QED
    BY <2>1
<1>11. ASSUME NEW u
       PROVE  BeforeFailure(u)' = BeforeFailure(u)
  BY DEF BeforeFailure
<1>12. ASSUME NEW q \in RProc
       PROVE  /\ BeforeFailure(relayAddrs[q])
                        \subseteq BeforeFailure(relayAddrs[q])'
              /\ relayAddrs[q] # <<>> => relayAddrs'[q] # <<>>
              /\ IsInjective(relayAddrs'[q])
  <2>1. BeforeFailure(relayAddrs[q])' = BeforeFailure(relayAddrs'[q])
    BY DEF BeforeFailure
  <2>2. CASE q = p
    BY <2>1, <2>2, <1>2, <1>6, <1>8, <1>9, <1>10
  <2>3. CASE q # p
    BY <2>1, <2>3, <1>7 DEF RelayAddrs
  <2> QED
    BY <2>2, <2>3
<1> QED
  BY <1>6, <1>9, <1>10, <1>12 DEF RelayAddrs

LEMMA HostNetsKept ==
    ASSUME HostNets, UNCHANGED <<rSockets, rGroups>>
    PROVE  HostNets'
BY DEF HostNets, Nets

\* A step that sends nothing of a new message.
LEMMA SameMessages ==
    ASSUME RelayAddrs, Sent, UNCHANGED <<rSockets, rGroups, down, sent>>,
           \/ UNCHANGED relayAddrs
           \/ \E p \in RProc, h \in Host : AddRelayAddress(p, h)
    PROVE  Grown /\ RelayAddrs'
<1>1. CASE UNCHANGED relayAddrs
  <2>1. \A q : BeforeFailure(relayAddrs[q])' = BeforeFailure(relayAddrs[q])
    BY <1>1 DEF BeforeFailure
  <2> QED
    BY <1>1, <2>1 DEF Grown, RelayAddrs
<1>2. ASSUME NEW p \in RProc, NEW h \in Host, AddRelayAddress(p, h)
      PROVE  Grown /\ RelayAddrs'
  <2>1. RelayAddrs'
    BY <1>2, AddRelay
  <2>2. relayAddrs' \in [RProc -> Seq(Host)]
    BY <2>1 DEF RelayAddrs
  <2>3. \A q \in RProc :
           /\ BeforeFailure(relayAddrs[q])
                  \subseteq BeforeFailure(relayAddrs[q])'
           /\ relayAddrs[q] # <<>> => relayAddrs'[q] # <<>>
    BY <1>2, AddRelay
  <2> QED
    BY <2>1, <2>2, <2>3 DEF Grown
<1> QED
  BY <1>1, <1>2

LEMMA TakenIs ==
    ASSUME Sent, NEW d
    PROVE  /\ IsABag(Taken(d))
           /\ DOMAIN Taken(d) \subseteq DOMAIN network
           /\ DOMAIN network \ {d} \subseteq DOMAIN Taken(d)
BY BagWithout DEF Sent, Taken

\* What is on the way when one is taken and others are added.
LEMMA TakenPlus ==
    ASSUME Sent, NEW d, NEW B, IsABag(B), network' = Taken(d) (+) B
    PROVE  /\ IsABag(network')
           /\ \A x \in DOMAIN network' : x \in DOMAIN network \/ x \in DOMAIN B
           /\ DOMAIN network \ {d} \subseteq DOMAIN network'
           /\ DOMAIN B \subseteq DOMAIN network'
<1>1. PICK A : A = Taken(d)
  OBVIOUS
<1>2. /\ IsABag(A) /\ DOMAIN A \subseteq DOMAIN network
      /\ DOMAIN network \ {d} \subseteq DOMAIN A
  BY <1>1, TakenIs
<1>3. IsABag(A (+) B) /\ DOMAIN (A (+) B) = DOMAIN A \union DOMAIN B
  BY <1>2, BagPlus
<1>4. network' = A (+) B
  BY <1>1
<1>5. IsABag(network') /\ DOMAIN network' = DOMAIN A \union DOMAIN B
  BY <1>3, <1>4
<1> QED
  BY <1>2, <1>5

LEMMA DiscardOwnSound ==
    ASSUME RelaysInv, NEW d \in DOMAIN network, DiscardOwn(d)
    PROVE  Grown /\ RelaysInv'
<1>1. Grown /\ RelayAddrs' /\ HostNets'
  BY SameMessages, HostNetsKept DEF RelaysInv, DiscardOwn
<1>2. IsABag(network') /\ DOMAIN network' \subseteq DOMAIN network
  BY TakenIs DEF RelaysInv, DiscardOwn
<1>3. UNCHANGED <<sent, heard>>
  BY DEF DiscardOwn
<1>4. Sent'
  BY <1>2, <1>3 DEF RelaysInv, Sent
<1>5. \A x \in DOMAIN network' : Sound(x)'
  BY <1>1, <1>2, SoundRemains DEF RelaysInv, AllSound
<1>6. \A e \in DOMAIN heard' : HeardSound(e)'
  BY <1>1, <1>3, HeardSoundRemains DEF RelaysInv, AllSound
<1> QED
  BY <1>1, <1>4, <1>5, <1>6 DEF RelaysInv, AllSound

LEMMA AddGlobalRelaySound ==
    ASSUME RelaysInv, NEW p \in RProc, NEW h \in Host, AddGlobalRelay(p, h)
    PROVE  Grown /\ RelaysInv'
<1>1. Grown /\ RelayAddrs' /\ HostNets'
  BY SameMessages, HostNetsKept DEF RelaysInv, AddGlobalRelay
<1>2. UNCHANGED <<network, sent, heard>>
  BY DEF AddGlobalRelay
<1>3. Sent'
  BY <1>2 DEF RelaysInv, Sent
<1>4. \A x \in DOMAIN network' : Sound(x)'
  BY <1>1, <1>2, SoundRemains DEF RelaysInv, AllSound
<1>5. \A e \in DOMAIN heard' : HeardSound(e)'
  BY <1>1, <1>2, HeardSoundRemains DEF RelaysInv, AllSound
<1> QED
  BY <1>1, <1>3, <1>4, <1>5 DEF RelaysInv, AllSound

LEMMA FromRelaySound ==
    ASSUME RelaysInv, NEW d \in DOMAIN network, FromRelay(d)
    PROVE  Grown /\ RelaysInv'
<1> DEFINE r == d.to
           m == d.message
           M == SendMulticast(r, m, TRUE, d.hops + 1)
<1>1. Sound(d) /\ r \in RProc /\ d.from \in Host /\ d.relay
  BY DEF RelaysInv, AllSound, Sound, FromRelay
<1>2. /\ network' = Taken(d) (+) M
      /\ AddRelayAddress(r, d.from)
      /\ UNCHANGED <<rSockets, rGroups, down, sent, heard>>
  BY DEF FromRelay
<1>3. Grown /\ RelayAddrs' /\ HostNets'
  BY <1>1, <1>2, SameMessages, HostNetsKept DEF RelaysInv
<1>4. /\ IsABag(M)
      /\ \A x \in DOMAIN M :
            /\ x.from = HostOf[r] /\ x.to \in Neighbours(r) /\ x.message = m
            /\ x.relay = FALSE /\ x.noRelay = TRUE /\ x.hops = d.hops + 1
  <2>1. IsMulticast(M, r, m, TRUE, d.hops + 1)
    BY <1>1, MulticastIs
  <2> HIDE DEF M
  <2> QED
    BY <2>1 DEF IsMulticast
<1> HIDE DEF M
<1>5. /\ IsABag(network')
      /\ \A x \in DOMAIN network' : x \in DOMAIN network \/ x \in DOMAIN M
  BY <1>2, <1>4, TakenPlus DEF RelaysInv
<1>6. Sent'
  BY <1>2, <1>5 DEF RelaysInv, Sent
<1>7. d.from \in ToSet(relayAddrs'[r]) /\ relayAddrs'[r] # <<>>
  BY <1>1, <1>2, AddRelay DEF RelaysInv
<1>8. HasRelays(HostOf[r])'
  BY <1>1, <1>7, HostsOf DEF HasRelays
<1>9. Origin(m)' = Origin(m)
  BY <1>2 DEF Origin
<1>10. ASSUME NEW q \in Neighbours(r), AllHear
       PROVE  Origin(m) \in Audience(q)'
  <2>1. q \in RProc /\ r \in Neighbours(q)
    BY <1>1, <1>10, NeighboursMutual, NeighbourIs DEF RelaysInv
  <2>2. r \in Forwarders(q)'
    BY <2>1, <1>2, NeighboursSame DEF Forwarders
  <2>3. BeforeFailure(relayAddrs[r])' = ToSet(relayAddrs'[r])
    BY <1>2, <1>10 DEF AllHear, BeforeFailure, ToSet
  <2>4. PICK f \in OnHost(d.from) : Origin(m) \in Neighbours(f)
    BY <1>1, <1>10 DEF Sound, ReachesBack
  <2>5. Origin(m) \in Neighbours(f)'
    BY <2>4, <1>2, NeighboursSame
  <2>6. d.from \in BeforeFailure(relayAddrs[r])'
    BY <2>3, <1>7
  <2> QED
    BY <2>2, <2>4, <2>5, <2>6 DEF Audience
<1>11. ASSUME NEW x \in DOMAIN M
       PROVE  Sound(x)'
  <2>1. /\ x.from = HostOf[r] /\ x.to \in Neighbours(r) /\ x.message = m
        /\ x.relay = FALSE /\ x.noRelay = TRUE /\ x.hops = d.hops + 1
    BY <1>4
  <2>2. x.from \in Host /\ x.to \in RProc /\ x.message \in DOMAIN sent'
    BY <2>1, <1>1, <1>2, HostsOf, NeighbourIs DEF Sound
  <2>3. Hops(x)
    BY <2>1, <1>1 DEF Sound, Hops
  <2>4. HasRelays(x.from)'
    BY <2>1, <1>8
  <2>5. AllHear => ReachesBack(x)'
    BY <2>1, <1>9, <1>10 DEF ReachesBack
  <2> QED
    BY <2>1, <2>2, <2>3, <2>4, <2>5, <1>2, AllHearSame DEF Sound, Hops
<1>12. \A x \in DOMAIN network' : Sound(x)'
  BY <1>3, <1>5, <1>11, SoundRemains DEF RelaysInv, AllSound
<1>13. \A e \in DOMAIN heard' : HeardSound(e)'
  BY <1>2, <1>3, HeardSoundRemains DEF RelaysInv, AllSound
<1> QED
  BY <1>3, <1>6, <1>12, <1>13 DEF RelaysInv, AllSound

LEMMA FromGroupSound ==
    ASSUME RelaysInv, NEW d \in DOMAIN network, FromGroup(d)
    PROVE  Grown /\ RelaysInv'
<1> DEFINE q == d.to
           m == d.message
           e == [by |-> q, message |-> m, from |-> d.from]
<1>1. /\ Sound(d) /\ q \in RProc /\ d.from \in Host /\ ~ d.relay
      /\ m \in DOMAIN sent
  BY DEF RelaysInv, AllSound, Sound, FromGroup
<1>2. /\ UNCHANGED <<rSockets, rGroups, relayAddrs, down, sent>>
      /\ heard' = heard (+) SetToBag({e})
  BY DEF FromGroup
<1>3. Grown /\ RelayAddrs' /\ HostNets'
  BY <1>2, SameMessages, HostNetsKept DEF RelaysInv
<1>4. IsABag(heard') /\ DOMAIN heard' = DOMAIN heard \union {e}
  <2>1. PICK B : B = SetToBag({e})
    OBVIOUS
  <2>2. IsABag(B) /\ DOMAIN B = {e}
    BY <2>1, BagOf
  <2>3. IsABag(heard)
    BY DEF RelaysInv, Sent
  <2>4. IsABag(heard (+) B) /\ DOMAIN (heard (+) B) = DOMAIN heard \union {e}
    BY <2>2, <2>3, BagPlus
  <2> QED
    BY <1>2, <2>1, <2>4
<1>5. IsABag(network') /\ \A x \in DOMAIN network' : Sound(x)'
  <2>1. CASE d.noRelay
    <3>1. network' = Taken(d)
      BY <2>1 DEF FromGroup
    <3> QED
      BY <3>1, <1>3, TakenIs, SoundRemains DEF RelaysInv, AllSound
  <2>2. CASE ~ d.noRelay
    <3>1. PICK unicasts \in Unicasts(q, m, d.hops + 1) :
              network' = Taken(d) (+) unicasts
      BY <2>2 DEF FromGroup
    <3>2. /\ IsABag(unicasts)
          /\ \A x \in DOMAIN unicasts :
                /\ x.from = HostOf[q] /\ x.to \in RProc /\ x.message = m
                /\ x.relay = TRUE /\ x.noRelay = FALSE /\ x.hops = d.hops + 1
      <4>1. AreUnicasts(unicasts, q, m, d.hops + 1)
        BY <1>1, <3>1, UnicastsAre
      <4> QED
        BY <4>1 DEF AreUnicasts
    <3>3. /\ IsABag(network')
          /\ \A x \in DOMAIN network' :
                x \in DOMAIN network \/ x \in DOMAIN unicasts
      BY <3>1, <3>2, TakenPlus DEF RelaysInv
    <3>4. ASSUME NEW x \in DOMAIN unicasts
          PROVE  Sound(x)'
      <4>1. /\ x.from = HostOf[q] /\ x.to \in RProc /\ x.message = m
            /\ x.relay = TRUE /\ x.noRelay = FALSE /\ x.hops = d.hops + 1
        BY <3>2
      <4>2. x.from \in Host /\ x.message \in DOMAIN sent'
        BY <4>1, <1>1, <1>2, HostsOf
      <4>3. Hops(x)
        BY <4>1, <1>1, <2>2 DEF Sound, Hops
      <4>4. AllHear => ReachesBack(x)'
        <5> SUFFICES ASSUME AllHear
                     PROVE  ReachesBack(x)'
          OBVIOUS
        <5>1. Origin(m) \in Neighbours(q)
          BY <1>1, <2>2 DEF Sound, ReachesBack
        <5>2. Origin(m)' \in Neighbours(q)' /\ q \in OnHost(x.from)
          BY <5>1, <4>1, <1>1, <1>2, HostsOf, NeighboursSame DEF Origin
        <5> QED
          BY <4>1, <5>2 DEF ReachesBack
      <4> QED
        BY <4>1, <4>2, <4>3, <4>4, <1>2, AllHearSame DEF Sound, Hops
    <3> QED
      BY <3>3, <3>4, <1>3, SoundRemains DEF RelaysInv, AllSound
  <2> QED
    BY <2>1, <2>2
<1>6. HeardSound(e)
  BY <1>1 DEF Sound, ReachesBack, HeardSound
<1> HIDE DEF e
<1>7. \A x \in DOMAIN heard' : HeardSound(x)'
  BY <1>3, <1>4, <1>6, HeardSoundRemains DEF RelaysInv, AllSound
<1>8. Sent'
  BY <1>2, <1>4, <1>5 DEF RelaysInv, Sent
<1> QED
  BY <1>3, <1>5, <1>7, <1>8 DEF RelaysInv, AllSound

LEMMA SendMsgSound ==
    ASSUME RelaysInv, NEW p \in RProc, SendMsg(p)
    PROVE  Grown /\ RelaysInv'
<1> PICK m : m = Len(sent) + 1
  OBVIOUS
<1> PICK new : new = [origin |-> p, audience |-> Audience(p) \ {p}]
  OBVIOUS
<1> DEFINE M == SendMulticast(p, m, FALSE, 1)
<1>1. /\ sent' = Append(sent, new)
      /\ UNCHANGED <<rSockets, rGroups, relayAddrs, down, heard>>
  BY DEF SendMsg
<1>2. PICK unicasts \in Unicasts(p, m, 1) :
          network' = network (+) M (+) unicasts
  BY DEF SendMsg
<1>3. IsMulticast(M, p, m, FALSE, 1) /\ AreUnicasts(unicasts, p, m, 1)
  BY <1>2, MulticastIs, UnicastsAre
<1> HIDE DEF M
<1>4. /\ IsABag(network')
      /\ DOMAIN network' = DOMAIN network \union DOMAIN M
                               \union DOMAIN unicasts
  <2>1. IsABag(network) /\ IsABag(M) /\ IsABag(unicasts)
    BY <1>3 DEF RelaysInv, Sent, IsMulticast, AreUnicasts
  <2>2. PICK B : B = network (+) M
    OBVIOUS
  <2>3. IsABag(B) /\ DOMAIN B = DOMAIN network \union DOMAIN M
    BY <2>1, <2>2, BagPlus
  <2>4. IsABag(B (+) unicasts)
        /\ DOMAIN (B (+) unicasts) = DOMAIN B \union DOMAIN unicasts
    BY <2>1, <2>3, BagPlus
  <2> QED
    BY <1>2, <2>2, <2>3, <2>4
<1>5. Audience(p) \subseteq RProc
  BY DEF Audience, Neighbours
<1>6. new \in [origin : RProc, audience : SUBSET RProc]
  BY <1>5
<1>7. sent \in Seq([origin : RProc, audience : SUBSET RProc])
  BY DEF RelaysInv, Sent
<1>8. /\ sent' \in Seq([origin : RProc, audience : SUBSET RProc])
      /\ DOMAIN sent = 1..Len(sent) /\ DOMAIN sent' = 1..(Len(sent) + 1)
      /\ Len(sent) \in Nat
      /\ \A i \in 1..Len(sent) : sent'[i] = sent[i]
      /\ sent'[m] = new
  <2>1. sent' \in Seq([origin : RProc, audience : SUBSET RProc])
    BY <1>1, <1>6, <1>7
  <2> QED
    BY <1>1, <1>6, <1>7, <2>1
<1>9. Origin(m)' = p /\ m \in DOMAIN sent'
  BY <1>8 DEF Origin
<1>10. Grown
  <2>1. DOMAIN sent \subseteq DOMAIN sent'
    BY <1>8
  <2>2. \A i \in DOMAIN sent : sent'[i] = sent[i]
    BY <1>8
  <2>3. ASSUME NEW q
        PROVE  BeforeFailure(relayAddrs[q])' = BeforeFailure(relayAddrs[q])
    BY <1>1 DEF BeforeFailure
  <2>4. relayAddrs' \in [RProc -> Seq(Host)]
    BY <1>1 DEF RelaysInv, RelayAddrs
  <2> QED
    BY <1>1, <2>1, <2>2, <2>3, <2>4 DEF Grown
<1>11. HostNets' /\ RelayAddrs'
  BY <1>1, HostNetsKept DEF RelaysInv, RelayAddrs
<1>12. Sent'
  BY <1>1, <1>4, <1>8 DEF RelaysInv, Sent
<1>13. HostOf[p] \in Host /\ p \in OnHost(HostOf[p])
  BY HostsOf
<1>14. ASSUME NEW x \in DOMAIN M
       PROVE  Sound(x)'
  <2>1. /\ x.from = HostOf[p] /\ x.to \in Neighbours(p) /\ x.message = m
        /\ x.relay = FALSE /\ x.noRelay = FALSE /\ x.hops = 1
    BY <1>3 DEF IsMulticast
  <2>2. x.to \in RProc
    BY <2>1, NeighbourIs
  <2>3. Hops(x)
    BY <2>1 DEF Hops
  <2>4. ASSUME AllHear
        PROVE  p \in Neighbours(x.to)' /\ p \in Audience(x.to)'
    <3>1. p \in Neighbours(x.to)
      BY <2>1, <2>2, <2>4, NeighboursMutual DEF RelaysInv
    <3>2. p \in Neighbours(x.to)'
      BY <1>1, <3>1, NeighboursSame
    <3> QED
      BY <3>2 DEF Audience
  <2>5. AllHear => ReachesBack(x)'
    BY <2>1, <2>4, <1>9 DEF ReachesBack
  <2> QED
    BY <2>1, <2>2, <2>3, <2>5, <1>1, <1>9, <1>13, AllHearSame DEF Sound, Hops
<1>15. ASSUME NEW x \in DOMAIN unicasts
       PROVE  Sound(x)'
  <2>1. /\ x.from = HostOf[p] /\ x.to \in RProc /\ x.message = m
        /\ x.relay = TRUE /\ x.noRelay = FALSE /\ x.hops = 1
    BY <1>3 DEF AreUnicasts
  <2>2. Hops(x)
    BY <2>1 DEF Hops
  <2>3. ASSUME AllHear
        PROVE  p \in Neighbours(p)'
    BY <1>1, <2>3, NeighboursMutual, NeighboursSame DEF RelaysInv
  <2>4. AllHear => ReachesBack(x)'
    BY <2>1, <2>3, <1>9, <1>13 DEF ReachesBack, OnHost
  <2> QED
    BY <2>1, <2>2, <2>4, <1>1, <1>9, <1>13, AllHearSame DEF Sound, Hops
<1>16. \A x \in DOMAIN network' : Sound(x)'
  BY <1>4, <1>10, <1>14, <1>15, SoundRemains DEF RelaysInv, AllSound
<1>17. \A e \in DOMAIN heard' : HeardSound(e)'
  BY <1>1, <1>10, HeardSoundRemains DEF RelaysInv, AllSound
<1> QED
  BY <1>10, <1>11, <1>12, <1>16, <1>17 DEF RelaysInv, AllSound

LEMMA InitRelays == RelaysInit => RelaysInv
<1> SUFFICES ASSUME RelaysInit
             PROVE  RelaysInv
  OBVIOUS
<1>1. relayAddrs = [p \in RProc |-> <<>>] /\ sent = <<>>
  BY DEF RelaysInit
<1>2. RelayAddrs
  BY <1>1 DEF RelayAddrs, IsInjective
<1>3. network = EmptyBag /\ heard = EmptyBag
  BY DEF RelaysInit
<1>4. IsABag(EmptyBag) /\ DOMAIN EmptyBag = {}
  BY BagOf DEF EmptyBag
<1>5. Sent
  BY <1>1, <1>3, <1>4 DEF Sent
<1> QED
  BY <1>2, <1>3, <1>4, <1>5, InitHostNets DEF RelaysInv, AllSound

LEMMA StutterSound ==
    ASSUME RelaysInv, UNCHANGED relaying
    PROVE  Grown /\ RelaysInv'
<1>1. UNCHANGED <<rSockets, rGroups, relayAddrs, down, network, sent, heard>>
  BY DEF relaying
<1>2. Grown /\ RelayAddrs' /\ HostNets'
  BY <1>1, SameMessages, HostNetsKept DEF RelaysInv
<1>3. Sent'
  BY <1>1 DEF RelaysInv, Sent
<1>4. \A x \in DOMAIN network' : Sound(x)'
  BY <1>1, <1>2, SoundRemains DEF RelaysInv, AllSound
<1>5. \A e \in DOMAIN heard' : HeardSound(e)'
  BY <1>1, <1>2, HeardSoundRemains DEF RelaysInv, AllSound
<1> QED
  BY <1>2, <1>3, <1>4, <1>5 DEF RelaysInv, AllSound

LEMMA RelaysSound == RelaysInv /\ [RelaysNext]_relaying => Grown /\ RelaysInv'
<1> SUFFICES ASSUME RelaysInv, [RelaysNext]_relaying
             PROVE  Grown /\ RelaysInv'
  OBVIOUS
<1>1. ASSUME NEW p \in RProc, SendMsg(p)
      PROVE  Grown /\ RelaysInv'
  BY <1>1, SendMsgSound
<1>2. ASSUME NEW p \in RProc, NEW h \in Host, AddGlobalRelay(p, h)
      PROVE  Grown /\ RelaysInv'
  BY <1>2, AddGlobalRelaySound
<1>3. ASSUME NEW d \in DOMAIN network,
             DiscardOwn(d) \/ FromRelay(d) \/ FromGroup(d)
      PROVE  Grown /\ RelaysInv'
  BY <1>3, DiscardOwnSound, FromRelaySound, FromGroupSound
<1>4. CASE UNCHANGED relaying
  BY <1>4, StutterSound
<1> QED
  BY <1>1, <1>2, <1>3, <1>4 DEF RelaysNext, Receives, BagToSet

(***************************************************************************)
(* Who is to hear a message has heard it, or something is on the way that  *)
(* will get it there: a multicast to him, a unicast to a neighbour of his, *)
(* or the multicast to somebody who will send such a unicast.              *)
(***************************************************************************)
Direct(m, q) ==
    \/ q \in Hearers(m)
    \/ \E d \in DOMAIN network : d.message = m /\ ~ d.relay /\ d.to = q

ByRelay(m, q) ==
    \E d \in DOMAIN network :
        /\ d.message = m /\ d.relay /\ d.to # Origin(m)
        /\ q \in Neighbours(d.to)

Forwards(d, q) ==
    \E h \in BeforeFailure(relayAddrs[d.to]) :
        \E r \in OnHost(h) : q \in Neighbours(r)

ByForward(m, q) ==
    \E d \in DOMAIN network :
        /\ d.message = m /\ ~ d.relay /\ ~ d.noRelay /\ d.to # Origin(m)
        /\ Forwards(d, q)

Coming(m, q) == Direct(m, q) \/ ByRelay(m, q) \/ ByForward(m, q)

\* The origin's neighbours need no relay.
NearReached(m) ==
    \A q \in Neighbours(Origin(m)) \ {Origin(m)} : Direct(m, q)

AllReached ==
    \A m \in DOMAIN sent :
        /\ NearReached(m)
        /\ Origin(m) \notin sent[m].audience
        /\ \A q \in sent[m].audience : Coming(m, q)

LEMMA HearerIs ==
    ASSUME NEW m, NEW q
    PROVE  q \in Hearers(m) <=>
               \E e \in DOMAIN heard : e.message = m /\ e.by = q
BY DEF Hearers, BagToSet

\* What remains true of q if a datagram that does not matter to it is taken.
LEMMA DirectRemains ==
    ASSUME NEW m, NEW q, NEW d, Direct(m, q),
           DOMAIN heard \subseteq DOMAIN heard',
           DOMAIN network \ {d} \subseteq DOMAIN network',
           d.relay \/ d.message # m \/ d.to # q \/ q \in Hearers(m)'
    PROVE  Direct(m, q)'
<1>1. CASE q \in Hearers(m)
  BY <1>1, HearerIs DEF Direct, Hearers, BagToSet
<1>2. CASE \E x \in DOMAIN network : x.message = m /\ ~ x.relay /\ x.to = q
  BY <1>2 DEF Direct
<1> QED
  BY <1>1, <1>2 DEF Direct

LEMMA ForwardsRemains ==
    ASSUME Grown, NEW d, d.to \in RProc, NEW q, Forwards(d, q)
    PROVE  Forwards(d, q)'
<1>1. PICK h \in BeforeFailure(relayAddrs[d.to]) :
          \E r \in OnHost(h) : q \in Neighbours(r)
  BY DEF Forwards
<1>2. PICK r \in OnHost(h) : q \in Neighbours(r)
  BY <1>1
<1>3. h \in BeforeFailure(relayAddrs[d.to])'
  BY <1>1 DEF Grown
<1>4. q \in Neighbours(r)'
  BY <1>2, NeighboursSame DEF Grown
<1> QED
  BY <1>2, <1>3, <1>4 DEF Forwards

LEMMA ComingRemains ==
    ASSUME Grown, RelaysInv, NEW m \in DOMAIN sent, NEW q, Coming(m, q),
           DOMAIN heard \subseteq DOMAIN heard',
           NEW D, DOMAIN network \ D \subseteq DOMAIN network',
           \A d \in D : d.message = m /\ ~ d.relay /\ d.to = q
                            => Coming(m, q)',
           \A d \in D : (/\ d.message = m /\ d.relay /\ d.to # Origin(m)
                         /\ q \in Neighbours(d.to)) => Coming(m, q)',
           \A d \in D : (/\ d.message = m /\ ~ d.relay /\ ~ d.noRelay
                         /\ d.to # Origin(m) /\ Forwards(d, q))
                            => Coming(m, q)'
    PROVE  Coming(m, q)'
<1>1. Origin(m)' = Origin(m)
  BY DEF Grown, Origin
<1>2. CASE q \in Hearers(m)
  BY <1>2 DEF Coming, Direct, Hearers, BagToSet
<1>3. ASSUME NEW d \in DOMAIN network,
             d.message = m, ~ d.relay, d.to = q
      PROVE  Coming(m, q)'
  <2>1. CASE d \in D
    BY <1>3, <2>1
  <2>2. CASE d \in DOMAIN network'
    BY <1>3, <2>2 DEF Coming, Direct
  <2> QED
    BY <2>1, <2>2
<1>4. ASSUME NEW d \in DOMAIN network,
             d.message = m, d.relay, d.to # Origin(m), q \in Neighbours(d.to)
      PROVE  Coming(m, q)'
  <2>1. CASE d \in D
    BY <1>4, <2>1
  <2>2. CASE d \in DOMAIN network'
    <3>1. q \in Neighbours(d.to)'
      BY <1>4, NeighboursSame DEF Grown
    <3> QED
      BY <1>1, <1>4, <2>2, <3>1 DEF Coming, ByRelay
  <2> QED
    BY <2>1, <2>2
<1>5. ASSUME NEW d \in DOMAIN network, d.message = m, ~ d.relay,
             ~ d.noRelay, d.to # Origin(m), Forwards(d, q)
      PROVE  Coming(m, q)'
  <2>1. CASE d \in D
    BY <1>5, <2>1
  <2>2. CASE d \in DOMAIN network'
    <3>1. d.to \in RProc
      BY DEF RelaysInv, AllSound, Sound
    <3>2. Forwards(d, q)'
      BY <1>5, <3>1, ForwardsRemains
    <3> QED
      BY <1>1, <1>5, <2>2, <3>2 DEF Coming, ByForward
  <2> QED
    BY <2>1, <2>2
<1> QED
  BY <1>2, <1>3, <1>4, <1>5 DEF Coming, Direct, ByRelay, ByForward

\* For the neighbours of the origin.
LEMMA NearRemains ==
    ASSUME Grown, RelaysInv, NEW m \in DOMAIN sent, NearReached(m),
           DOMAIN heard \subseteq DOMAIN heard',
           NEW D, DOMAIN network \ D \subseteq DOMAIN network',
           \A d \in D, q \in RProc :
               d.message = m /\ ~ d.relay /\ d.to = q /\ q # Origin(m)
                   => Direct(m, q)'
    PROVE  NearReached(m)'
<1>1. Origin(m)' = Origin(m)
  BY DEF Grown, Origin
<1>2. Neighbours(Origin(m))' = Neighbours(Origin(m))
  BY <1>1, NeighboursSame DEF Grown, Neighbours, BeforeFailure, Nets
<1>3. ASSUME NEW q \in Neighbours(Origin(m)) \ {Origin(m)}
      PROVE  Direct(m, q)'
  <2>1. Direct(m, q) /\ q \in RProc
    BY NeighbourIs DEF NearReached
  <2>2. CASE q \in Hearers(m)
    BY <2>2 DEF Direct, Hearers, BagToSet
  <2>3. ASSUME NEW d \in DOMAIN network,
               d.message = m, ~ d.relay, d.to = q
        PROVE  Direct(m, q)'
    <3>1. CASE d \in D
      BY <2>1, <2>3, <3>1
    <3>2. CASE d \in DOMAIN network'
      BY <2>3, <3>2 DEF Direct
    <3> QED
      BY <3>1, <3>2
  <2> QED
    BY <2>1, <2>2, <2>3 DEF Direct
<1> QED
  BY <1>1, <1>2, <1>3 DEF NearReached

LEMMA SentIs ==
    ASSUME RelaysInv, NEW m \in DOMAIN sent
    PROVE  Origin(m) \in RProc /\ sent[m].audience \subseteq RProc
<1>1. PICK S : S = [origin : RProc, audience : SUBSET RProc]
  OBVIOUS
<1>2. sent \in Seq(S)
  BY <1>1 DEF RelaysInv, Sent
<1>3. sent[m] \in S
  BY <1>2
<1> QED
  BY <1>1, <1>3 DEF Origin

\* To take d loses nothing.
PassesOn(d) ==
    \A m \in DOMAIN sent, q \in RProc :
        d.message = m /\ q # Origin(m) =>
            /\ ~ d.relay /\ d.to = q => Direct(m, q)'
            /\ (d.relay /\ d.to # Origin(m) /\ q \in Neighbours(d.to))
                  => Direct(m, q)'
            /\ (/\ NearReached(m)' /\ ~ d.relay /\ ~ d.noRelay
                /\ d.to # Origin(m) /\ Forwards(d, q)) => Coming(m, q)'

\* A step that sends nothing of a new message keeps everybody reached, if it
\* passes on what it takes.
LEMMA SameReached ==
    ASSUME Grown, RelaysInv, AllReached, UNCHANGED sent,
           DOMAIN heard \subseteq DOMAIN heard',
           NEW D, DOMAIN network \ D \subseteq DOMAIN network',
           \A d \in D : PassesOn(d)
    PROVE  AllReached'
<1> SUFFICES ASSUME NEW m \in DOMAIN sent
             PROVE  /\ NearReached(m)'
                    /\ Origin(m)' \notin sent[m].audience
                    /\ \A q \in sent[m].audience : Coming(m, q)'
  BY DEF AllReached
<1>1. /\ NearReached(m) /\ Origin(m)' = Origin(m)
      /\ Origin(m) \notin sent[m].audience
      /\ \A q \in sent[m].audience : Coming(m, q)
  BY DEF AllReached, Origin
<1>2. NearReached(m)'
  <2>1. \A d \in D, q \in RProc :
            d.message = m /\ ~ d.relay /\ d.to = q /\ q # Origin(m)
                => Direct(m, q)'
    BY DEF PassesOn
  <2> QED
    BY <1>1, <2>1, NearRemains
<1>3. ASSUME NEW q \in sent[m].audience
      PROVE  Coming(m, q)'
  <2>1. q # Origin(m) /\ Coming(m, q) /\ q \in RProc
    BY <1>1, SentIs
  <2>2. \A d \in D : d.message = m /\ ~ d.relay /\ d.to = q => Coming(m, q)'
    BY <2>1 DEF PassesOn, Coming
  <2>3. ASSUME NEW d \in D, d.message = m, d.relay, d.to # Origin(m),
               q \in Neighbours(d.to)
        PROVE  Coming(m, q)'
    <3>1. PassesOn(d)
      OBVIOUS
    <3>2. Direct(m, q)'
      BY <2>1, <2>3, <3>1, Zenon DEF PassesOn
    <3> QED
      BY <3>2 DEF Coming
  <2>4. ASSUME NEW d \in D, d.message = m, ~ d.relay, ~ d.noRelay,
               d.to # Origin(m), Forwards(d, q)
        PROVE  Coming(m, q)'
    <3>1. PassesOn(d)
      OBVIOUS
    <3> QED
      BY <2>1, <2>4, <3>1, <1>2, Zenon DEF PassesOn
  <2> QED
    BY <2>1, <2>2, <2>3, <2>4, ComingRemains
<1> QED
  BY <1>1, <1>2, <1>3

LEMMA DiscardOwnReaches ==
    ASSUME RelaysInv, AllReached, NEW d \in DOMAIN network, DiscardOwn(d)
    PROVE  AllReached'
<1>1. Grown
  BY DiscardOwnSound
<1>2. /\ d.to = Origin(d.message) /\ network' = Taken(d)
      /\ UNCHANGED <<sent, heard>>
  BY DEF DiscardOwn, Origin
<1>3. DOMAIN network \ {d} \subseteq DOMAIN network'
  BY <1>2, TakenIs DEF RelaysInv
<1>4. d.message \in DOMAIN sent
  BY DEF RelaysInv, AllSound, Sound
<1>5. DOMAIN heard \subseteq DOMAIN heard'
  BY <1>2
<1>6. PICK D : D = {d}
  OBVIOUS
<1>7. PassesOn(d)
  BY <1>2, Zenon DEF PassesOn
<1> QED
  BY <1>1, <1>2, <1>3, <1>5, <1>6, <1>7, SameReached

LEMMA FromRelayReaches ==
    ASSUME RelaysInv, AllReached, NEW d \in DOMAIN network, FromRelay(d)
    PROVE  AllReached'
<1> DEFINE M == SendMulticast(d.to, d.message, TRUE, d.hops + 1)
<1>1. Grown
  BY FromRelaySound
<1>2. /\ network' = Taken(d) (+) M /\ UNCHANGED <<sent, heard>> /\ d.relay
  BY DEF FromRelay
<1>3. d.message \in DOMAIN sent /\ d.to \in RProc
  BY DEF RelaysInv, AllSound, Sound
<1>4. IsMulticast(M, d.to, d.message, TRUE, d.hops + 1)
  BY <1>3, MulticastIs
<1> HIDE DEF M
<1>5. /\ DOMAIN network \ {d} \subseteq DOMAIN network'
      /\ DOMAIN M \subseteq DOMAIN network'
  BY <1>2, <1>4, TakenPlus DEF RelaysInv, IsMulticast
<1>6. ASSUME NEW m, d.message = m, NEW q \in Neighbours(d.to)
      PROVE  Direct(m, q)'
  <2>1. PICK x \in DOMAIN M :
            x.to = q /\ x.message = m /\ x.relay = FALSE
    BY <1>4, <1>6 DEF IsMulticast
  <2> QED
    BY <2>1, <1>5 DEF Direct
<1>7. DOMAIN heard \subseteq DOMAIN heard'
  BY <1>2
<1>8. PICK D : D = {d}
  OBVIOUS
<1>9. PassesOn(d)
  BY <1>2, <1>6, Zenon DEF PassesOn
<1> QED
  BY <1>1, <1>2, <1>5, <1>7, <1>8, <1>9, SameReached

LEMMA FromGroupReaches ==
    ASSUME RelaysInv, AllReached, NEW d \in DOMAIN network, FromGroup(d)
    PROVE  AllReached'
<1> DEFINE e == [by |-> d.to, message |-> d.message, from |-> d.from]
<1>1. Grown
  BY FromGroupSound
<1>2. /\ ~ d.relay /\ d.to # Origin(d.message) /\ UNCHANGED sent
      /\ heard' = heard (+) SetToBag({e})
  BY DEF FromGroup, Origin
<1>3. d.message \in DOMAIN sent /\ d.to \in RProc
  BY DEF RelaysInv, AllSound, Sound
<1>4. DOMAIN heard' = DOMAIN heard \union {e}
  <2>1. PICK B : B = SetToBag({e})
    OBVIOUS
  <2>2. IsABag(B) /\ DOMAIN B = {e}
    BY <2>1, BagOf
  <2>3. IsABag(heard)
    BY DEF RelaysInv, Sent
  <2>4. DOMAIN (heard (+) B) = DOMAIN heard \union {e}
    BY <2>2, <2>3, BagPlus
  <2> QED
    BY <1>2, <2>1, <2>4
<1>5. e.message = d.message /\ e.by = d.to
  OBVIOUS
<1>6. ASSUME NEW m, d.message = m, NEW q, d.to = q
      PROVE  Direct(m, q)'
  BY <1>4, <1>5, <1>6 DEF Direct, Hearers, BagToSet
<1>7. /\ DOMAIN network \ {d} \subseteq DOMAIN network'
      /\ ~ d.noRelay =>
            \E unicasts \in Unicasts(d.to, d.message, d.hops + 1) :
                DOMAIN unicasts \subseteq DOMAIN network'
  <2>1. CASE d.noRelay
    BY <2>1, TakenIs DEF FromGroup, RelaysInv
  <2>2. CASE ~ d.noRelay
    <3>1. PICK unicasts \in Unicasts(d.to, d.message, d.hops + 1) :
              network' = Taken(d) (+) unicasts
      BY <2>2 DEF FromGroup
    <3>2. AreUnicasts(unicasts, d.to, d.message, d.hops + 1)
      BY <1>3, UnicastsAre
    <3>3. IsABag(unicasts)
      BY <3>2 DEF AreUnicasts
    <3>4. /\ DOMAIN network \ {d} \subseteq DOMAIN network'
          /\ DOMAIN unicasts \subseteq DOMAIN network'
      BY <3>1, <3>3, TakenPlus DEF RelaysInv
    <3> QED
      BY <3>4
  <2> QED
    BY <2>1, <2>2
<1>8. ASSUME NEW m \in DOMAIN sent, d.message = m, NEW q \in RProc,
             NearReached(m)', ~ d.noRelay, Forwards(d, q), q # Origin(m)
      PROVE  Coming(m, q)'
  <2>1. PICK unicasts \in Unicasts(d.to, d.message, d.hops + 1) :
            DOMAIN unicasts \subseteq DOMAIN network'
    BY <1>7, <1>8
  <2>2. AreUnicasts(unicasts, d.to, d.message, d.hops + 1)
    BY <1>3, UnicastsAre
  <2>3. PICK h \in BeforeFailure(relayAddrs[d.to]) :
            \E r \in OnHost(h) : q \in Neighbours(r)
    BY <1>8 DEF Forwards
  <2>4. PICK r \in OnHost(h) : q \in Neighbours(r)
    BY <2>3
  <2>5. PICK x \in DOMAIN unicasts : HostOf[x.to] = h
    BY <2>2, <2>4 DEF AreUnicasts
  <2>6. x.to \in RProc /\ x.message = m /\ x.relay = TRUE
    BY <2>2, <2>5, <1>8 DEF AreUnicasts
  <2>7. rSockets[x.to] = rSockets[r]
    BY <2>4, <2>5, <2>6 DEF RelaysInv, HostNets, OnHost
  <2>8. q \in Neighbours(x.to)
    BY <2>4, <2>7 DEF Neighbours
  <2>9. q \in Neighbours(x.to)' /\ Origin(m)' = Origin(m)
    BY <2>8, <1>1, <1>3, NeighboursSame DEF Grown, Origin
  <2>10. CASE x.to = Origin(m)
    <3>1. Direct(m, q)'
      BY <2>9, <2>10, <1>8 DEF NearReached
    <3> QED
      BY <3>1 DEF Coming
  <2>11. CASE x.to # Origin(m)
    BY <2>1, <2>5, <2>6, <2>9, <2>11 DEF Coming, ByRelay
  <2> QED
    BY <2>10, <2>11
<1>9. DOMAIN heard \subseteq DOMAIN heard'
  BY <1>4
<1>10. PICK D : D = {d}
  OBVIOUS
<1>11. PassesOn(d)
  BY <1>2, <1>6, <1>8, Zenon DEF PassesOn
<1> QED
  BY <1>1, <1>2, <1>7, <1>9, <1>10, <1>11, SameReached

\* Nothing but a relay is new.
LEMMA NothingTaken ==
    ASSUME Grown, RelaysInv, AllReached, UNCHANGED sent,
           DOMAIN heard \subseteq DOMAIN heard',
           DOMAIN network \subseteq DOMAIN network'
    PROVE  AllReached'
<1>1. PICK D : D = {}
  OBVIOUS
<1>2. DOMAIN network \ D \subseteq DOMAIN network' /\ \A d \in D : PassesOn(d)
  BY <1>1
<1> QED
  BY <1>2, SameReached

\* A new message is on its way to all of its audience.
LEMMA SendMsgReaches ==
    ASSUME RelaysInv, AllReached, NEW p \in RProc, SendMsg(p)
    PROVE  AllReached'
<1> PICK m : m = Len(sent) + 1
  OBVIOUS
<1> PICK new : new = [origin |-> p, audience |-> Audience(p) \ {p}]
  OBVIOUS
<1> DEFINE M == SendMulticast(p, m, FALSE, 1)
<1>1. Grown
  BY SendMsgSound
<1>2. /\ sent' = Append(sent, new)
      /\ UNCHANGED <<rSockets, rGroups, relayAddrs, down, heard>>
  BY DEF SendMsg
<1>3. PICK unicasts \in Unicasts(p, m, 1) :
          network' = network (+) M (+) unicasts
  BY DEF SendMsg
<1>4. IsMulticast(M, p, m, FALSE, 1) /\ AreUnicasts(unicasts, p, m, 1)
  BY <1>3, MulticastIs, UnicastsAre
<1> HIDE DEF M
<1>5. DOMAIN network' = DOMAIN network \union DOMAIN M
                            \union DOMAIN unicasts
  <2>1. IsABag(network) /\ IsABag(M) /\ IsABag(unicasts)
    BY <1>4 DEF RelaysInv, Sent, IsMulticast, AreUnicasts
  <2>2. PICK B : B = network (+) M
    OBVIOUS
  <2>3. IsABag(B) /\ DOMAIN B = DOMAIN network \union DOMAIN M
    BY <2>1, <2>2, BagPlus
  <2>4. DOMAIN (B (+) unicasts) = DOMAIN B \union DOMAIN unicasts
    BY <2>1, <2>3, BagPlus
  <2> QED
    BY <1>3, <2>2, <2>3, <2>4
<1>6. PICK S : S = [origin : RProc, audience : SUBSET RProc]
  OBVIOUS
<1>7. sent \in Seq(S) /\ new \in S
  <2>1. Audience(p) \subseteq RProc
    BY DEF Audience, Neighbours
  <2> QED
    BY <1>6, <2>1 DEF RelaysInv, Sent
<1>8. /\ DOMAIN sent' = DOMAIN sent \union {m}
      /\ \A i \in DOMAIN sent : sent'[i] = sent[i]
      /\ sent'[m] = new
  <2>1. DOMAIN sent = 1..Len(sent) /\ Len(sent) \in Nat
    BY <1>7
  <2>2. DOMAIN sent' = 1..(Len(sent) + 1)
    BY <1>2, <1>7
  <2> QED
    BY <1>2, <1>7, <2>1, <2>2
<1>9. Origin(m)' = p /\ sent'[m].audience = Audience(p) \ {p}
  BY <1>8 DEF Origin
<1>10. ASSUME NEW q \in Neighbours(p)
       PROVE  \E d \in DOMAIN network' :
                  /\ d.message = m /\ d.to = q
                  /\ d.relay = FALSE /\ d.noRelay = FALSE
  <2>1. PICK d \in DOMAIN M : d.to = q
    BY <1>4, <1>10 DEF IsMulticast
  <2>2. d.message = m /\ d.relay = FALSE /\ d.noRelay = FALSE
    BY <1>4, <2>1 DEF IsMulticast
  <2> QED
    BY <1>5, <2>1, <2>2
<1>11. ASSUME NEW q \in Neighbours(p)
       PROVE  Direct(m, q)'
  BY <1>10, <1>11 DEF Direct
<1>12. NearReached(m)'
  <2>1. Neighbours(Origin(m))' = Neighbours(p)
    BY <1>2, <1>9 DEF Neighbours, BeforeFailure, Nets
  <2> QED
    BY <1>9, <1>11, <2>1 DEF NearReached
<1>13. ASSUME NEW f \in Forwarders(p), NEW h \in BeforeFailure(relayAddrs[f]),
              NEW r \in OnHost(h), NEW q \in Neighbours(r)
       PROVE  Coming(m, q)'
  <2>1. CASE f = p
    <3>1. PICK x \in DOMAIN unicasts : HostOf[x.to] = h
      BY <1>4, <2>1 DEF AreUnicasts
    <3>2. x \in DOMAIN network'
      BY <1>5, <3>1
    <3>3. x.to \in RProc /\ x.message = m /\ x.relay = TRUE
      BY <1>4, <3>1 DEF AreUnicasts
    <3>4. rSockets[x.to] = rSockets[r]
      BY <3>1, <3>3 DEF RelaysInv, HostNets, OnHost
    <3>5. q \in Neighbours(x.to)
      BY <3>4 DEF Neighbours
    <3>6. q \in Neighbours(x.to)'
      BY <1>2, <3>5, NeighboursSame
    <3>7. CASE x.to = p
      BY <1>11, <3>5, <3>7 DEF Coming
    <3>8. CASE x.to # p
      <4>1. ByRelay(m, q)'
        BY <1>9, <3>2, <3>3, <3>6, <3>8 DEF ByRelay
      <4> QED
        BY <4>1 DEF Coming
    <3> QED
      BY <3>7, <3>8
  <2>2. CASE f # p
    <3>1. f \in Neighbours(p)
      BY <2>2 DEF Forwarders
    <3>2. PICK d \in DOMAIN network' :
              /\ d.message = m /\ d.to = f
              /\ d.relay = FALSE /\ d.noRelay = FALSE
      BY <1>10, <3>1
    <3>3. Forwards(d, q)
      BY <3>2 DEF Forwards
    <3>4. d.to \in RProc
      BY <3>1, <3>2, NeighbourIs
    <3>5. Forwards(d, q)'
      BY <1>1, <3>3, <3>4, ForwardsRemains
    <3>6. ByForward(m, q)'
      BY <1>9, <2>2, <3>2, <3>5 DEF ByForward
    <3> QED
      BY <3>6 DEF Coming
  <2> QED
    BY <2>1, <2>2
<1>14. ASSUME NEW q \in Audience(p)
       PROVE  Coming(m, q)'
  <2>1. CASE q \in Neighbours(p)
    BY <1>11, <2>1 DEF Coming
  <2>2. CASE q \notin Neighbours(p)
    <3>1. PICK f \in Forwarders(p) :
              \E h \in BeforeFailure(relayAddrs[f]) :
                 \E r \in OnHost(h) : q \in Neighbours(r)
      BY <2>2, AudienceIs
    <3>2. PICK h \in BeforeFailure(relayAddrs[f]) :
              \E r \in OnHost(h) : q \in Neighbours(r)
      BY <3>1
    <3>3. PICK r \in OnHost(h) : q \in Neighbours(r)
      BY <3>2
    <3> QED
      BY <1>13, <3>3
  <2> QED
    BY <2>1, <2>2
<1>15. ASSUME NEW i \in DOMAIN sent
       PROVE  /\ NearReached(i)'
              /\ Origin(i)' \notin sent'[i].audience
              /\ \A q \in sent'[i].audience : Coming(i, q)'
  <2>1. /\ NearReached(i) /\ Origin(i) \notin sent[i].audience
        /\ \A q \in sent[i].audience : Coming(i, q)
    BY DEF AllReached
  <2>2. sent'[i] = sent[i] /\ Origin(i)' = Origin(i)
    BY <1>8 DEF Origin
  <2>3. PICK D : D = {}
    OBVIOUS
  <2>4. /\ DOMAIN network \ D \subseteq DOMAIN network'
        /\ DOMAIN heard \subseteq DOMAIN heard'
    BY <1>2, <1>5
  <2>5. NearReached(i)'
    <3>1. \A d \in D, q \in RProc :
              d.message = i /\ ~ d.relay /\ d.to = q /\ q # Origin(i)
                  => Direct(i, q)'
      BY <2>3
    <3> QED
      BY <1>1, <2>1, <2>4, <3>1, NearRemains
  <2>6. ASSUME NEW q \in sent[i].audience
        PROVE  Coming(i, q)'
    <3>1. \A d \in D :
              d.message = i /\ ~ d.relay /\ d.to = q => Coming(i, q)'
      BY <2>3
    <3>2. \A d \in D : (/\ d.message = i /\ d.relay /\ d.to # Origin(i)
                        /\ q \in Neighbours(d.to)) => Coming(i, q)'
      BY <2>3
    <3>3. \A d \in D : (/\ d.message = i /\ ~ d.relay /\ ~ d.noRelay
                        /\ d.to # Origin(i) /\ Forwards(d, q))
                            => Coming(i, q)'
      BY <2>3
    <3> QED
      BY <1>1, <2>1, <2>4, <3>1, <3>2, <3>3, ComingRemains
  <2> QED
    BY <2>1, <2>2, <2>5, <2>6
<1> QED
  BY <1>8, <1>9, <1>12, <1>14, <1>15 DEF AllReached

LEMMA RelaysStep ==
    RelaysInv /\ AllReached /\ [RelaysNext]_relaying
        => (RelaysInv /\ AllReached)'
<1> SUFFICES ASSUME RelaysInv, AllReached, [RelaysNext]_relaying
             PROVE  RelaysInv' /\ AllReached'
  OBVIOUS
<1>1. Grown /\ RelaysInv'
  BY RelaysSound
<1>2. ASSUME NEW p \in RProc, SendMsg(p)
      PROVE  AllReached'
  BY <1>2, SendMsgReaches
<1>3. ASSUME NEW p \in RProc, NEW h \in Host, AddGlobalRelay(p, h)
      PROVE  AllReached'
  <2>1. UNCHANGED <<network, sent, heard>>
    BY <1>3 DEF AddGlobalRelay
  <2> QED
    BY <1>1, <2>1, NothingTaken
<1>4. ASSUME NEW d \in DOMAIN network,
             DiscardOwn(d) \/ FromRelay(d) \/ FromGroup(d)
      PROVE  AllReached'
  BY <1>4, DiscardOwnReaches, FromRelayReaches, FromGroupReaches
<1>5. CASE UNCHANGED relaying
  <2>1. UNCHANGED <<network, sent, heard>>
    BY <1>5 DEF relaying
  <2> QED
    BY <1>1, <2>1, NothingTaken
<1> QED
  BY <1>1, <1>2, <1>3, <1>4, <1>5 DEF RelaysNext, Receives, BagToSet

\* What the invariant says of a state with messages.
LEMMA RelaysHold ==
    ASSUME RelaysInv, AllReached
    PROVE  RelaysCarry
<1>1. RelaysTypeOK
  BY DEF RelaysInv, RelayAddrs, Sent, RelaysTypeOK
<1>2. ReachesAudience
  <2> SUFFICES ASSUME network = EmptyBag, NEW m \in DOMAIN sent,
                      NEW q \in sent[m].audience
               PROVE  q \in Hearers(m)
    BY DEF ReachesAudience
  <2>1. DOMAIN network = {}
    BY BagOf DEF EmptyBag
  <2>2. Coming(m, q)
    BY DEF AllReached
  <2> QED
    BY <2>1, <2>2 DEF Coming, Direct, ByRelay, ByForward
<1>3. NoStorm
  BY DEF RelaysInv, AllSound, Sound, Hops, NoStorm, BagToSet
<1>4. HeardInTurn
  <2> SUFFICES ASSUME AllHear, NEW m \in DOMAIN sent, NEW p \in Hearers(m)
               PROVE  sent[m].origin \in Audience(p)
    BY DEF HeardInTurn
  <2>1. PICK e \in DOMAIN heard : e.message = m /\ e.by = p
    BY HearerIs
  <2>2. HeardSound(e)
    BY DEF RelaysInv, AllSound
  <2> QED
    BY <2>1, <2>2 DEF HeardSound, Origin
<1>5. LocalOrRelayed
  <2> SUFFICES ASSUME NEW e \in DOMAIN heard, e.from = HostOf[e.by]
               PROVE  \/ HostOf[sent[e.message].origin] = e.from
                      \/ \E p \in OnHost(e.from) : relayAddrs[p] # <<>>
    BY DEF LocalOrRelayed, BagToSet
  <2>1. HeardSound(e)
    BY DEF RelaysInv, AllSound
  <2> QED
    BY <2>1 DEF HeardSound, Origin, HasRelays
<1> QED
  BY <1>1, <1>2, <1>3, <1>4, <1>5 DEF RelaysCarry

(***************************************************************************)
(* A discovery message is heard by all it was to reach once nothing is on  *)
(* the way, is sent on twice at most, and whoever hears it can answer      *)
(* (Discovery.hh:1192-1228, 1483-1621).                                    *)
(***************************************************************************)
THEOREM RelaysCorrect == RelaysSpec => []RelaysCarry
<1>1. RelaysInit => RelaysInv /\ AllReached
  <2>1. RelaysInit => DOMAIN sent = {}
    BY DEF RelaysInit
  <2> QED
    BY <2>1, InitRelays DEF AllReached
<1>2. RelaysInv /\ AllReached /\ [RelaysNext]_relaying
          => (RelaysInv /\ AllReached)'
  BY RelaysStep
<1>3. RelaysInv /\ AllReached => RelaysCarry
  BY RelaysHold
<1> QED
  BY <1>1, <1>2, <1>3, PTL DEF RelaysSpec
=============================================================================
