----------------------------- MODULE Directory ------------------------------
(***************************************************************************)
(* What discovery promises, without datagrams, threads or timers.          *)
(*                                                                         *)
(* Each process offers publishers.  An offer makes rumours, which may get  *)
(* lost or linger; a process only comes to know what is rumoured and what  *)
(* its scope lets it see, and may forget it at any time.  New rumours are  *)
(* made of current offers only: a publisher that is not offered any more   *)
(* survives in rumours already made, and nowhere else.                     *)
(***************************************************************************)
EXTENDS Publishers

CONSTANTS Proc, Publisher, Visible(_, _)

VARIABLES
    live,     \* processes that take part
    offered,  \* publishers of each process
    rumours,  \* advertisements somebody may still learn from
    known     \* publishers each process knows of the others

vars == <<live, offered, rumours, known>>

Init ==
    /\ live = {}
    /\ offered = [p \in Proc |-> {}]
    /\ rumours = {}
    /\ known = [p \in Proc |-> {}]

Join(p) ==
    /\ p \notin live
    /\ live' = live \union {p}
    /\ UNCHANGED <<offered, rumours, known>>

\* A process that leaves offers nothing more, but rumours of it may remain.
Leave(p) ==
    /\ p \in live
    /\ live' = live \ {p}
    /\ offered' = [offered EXCEPT ![p] = {}]
    /\ rumours' \in SUBSET rumours
    /\ known' = [known EXCEPT ![p] = {}]

Offer(p, pub) ==
    /\ p \in live
    /\ pub.pUuid = p
    /\ offered' = [offered EXCEPT ![p] = AddPublisher(@, pub)]
    /\ rumours' \in SUBSET (rumours \union {pub})
    /\ UNCHANGED <<live, known>>

Withdraw(p, pub) ==
    /\ p \in live
    /\ offered' = [offered EXCEPT ![p] = @ \ {pub}]
    /\ UNCHANGED <<live, rumours, known>>

\* A process announces again some of what it offers.
Announce(p) ==
    /\ p \in live
    /\ rumours' \in SUBSET (rumours \union offered[p])
    /\ UNCHANGED <<live, offered, known>>

Lapse ==
    /\ rumours' \in SUBSET rumours
    /\ UNCHANGED <<live, offered, known>>

Learn(p, pub) ==
    /\ p \in live
    /\ pub \in rumours
    /\ Visible(p, pub)
    /\ known' = [known EXCEPT ![p] = AddPublisher(@, pub)]
    /\ rumours' \in SUBSET rumours
    /\ UNCHANGED <<live, offered>>

Forget(p) ==
    /\ p \in live
    /\ \E pubs \in SUBSET known[p] : known' = [known EXCEPT ![p] = pubs]
    /\ rumours' \in SUBSET rumours
    /\ UNCHANGED <<live, offered>>

Next ==
    \/ \E p \in Proc :
          \/ Join(p)
          \/ Leave(p)
          \/ \E pub \in Publisher :
                Offer(p, pub) \/ Withdraw(p, pub) \/ Learn(p, pub)
          \/ Announce(p)
          \/ Forget(p)
    \/ Lapse

Spec == Init /\ [][Next]_vars
=============================================================================
