---------------------------- MODULE ZenohProofs -----------------------------
(***************************************************************************)
(* Proofs about Zenoh, for any handlers, nodes, types, users and numbers   *)
(* of messages, and for any requests, responders and failures.             *)
(*                                                                         *)
(* Of messages (ZenohTopics): a handler is run once with each message, in  *)
(* order, whatever subscribers come and go meanwhile, and publishers hear  *)
(* of its node.  Of services (ZenohServices): calls keep the promises of   *)
(* Calls, and no request is forgotten in the storage.                      *)
(***************************************************************************)
EXTENDS ZenohTopics, ZenohServices, FiniteSetTheorems, TLAPS

(***************************************************************************)
(* Samples of tokens.                                                      *)
(***************************************************************************)
LEMMA ImageFinite ==
    ASSUME NEW S, IsFiniteSet(S), NEW T, NEW f \in [S -> T],
           \A t \in T : \E s \in S : f[s] = t
    PROVE  IsFiniteSet(T)
<1>1. f \in Surjection(S, T)
  BY DEF Surjection
<1> QED
  BY <1>1, FS_Surjection

\* A sequence of a finite set has its elements.
LEMMA SetToSeqIs ==
    ASSUME NEW S, IsFiniteSet(S)
    PROVE  /\ SetToSeq(S) \in Seq(S)
           /\ \A x \in S : \E i \in DOMAIN SetToSeq(S) : SetToSeq(S)[i] = x
<1> DEFINE n == Cardinality(S)
           f == SetToSeq(S)
<1>1. n \in Nat /\ ExistsBijection(1..n, S)
  BY FS_CardinalityType
<1>2. f \in [1..n -> S] /\ IsInjective(f)
  <2>1. \E g \in [1..n -> S] : IsInjective(g)
    BY <1>1 DEF ExistsBijection, Bijection, Injection
  <2> QED
    BY <2>1 DEF SetToSeq
<1>3. f \in Injection(1..n, S)
  BY <1>2 DEF Injection
<1>4. IsFiniteSet(1..n) /\ Cardinality(1..n) = n
  BY <1>1, FS_Interval
<1>5. f \in Surjection(1..n, S)
  BY <1>3, <1>4, FS_Injection
<1> HIDE DEF f
<1>6. \A x \in S : \E i \in 1..n : f[i] = x
  BY <1>5 DEF Surjection
<1>7. f \in Seq(S) /\ DOMAIN f = 1..n
  BY <1>1, <1>2
<1> QED
  BY <1>6, <1>7 DEF f

Sample == [kind : {"PUT", "DELETE"}, token : {Token(h) : h \in ZHandler}]

LEMMA SamplesAre ==
    ASSUME NEW kind \in {"PUT", "DELETE"}, NEW hs \in SUBSET ZHandler,
           IsFiniteSet(hs), NEW ts \in SUBSET Alive(hs)
    PROVE  /\ Samples(kind, ts) \in Seq(Sample)
           /\ \A i \in DOMAIN Samples(kind, ts) :
                 /\ Samples(kind, ts)[i].kind = kind
                 /\ Samples(kind, ts)[i].token \in ts
           /\ \A token \in ts : \E i \in DOMAIN Samples(kind, ts) :
                 Samples(kind, ts)[i].token = token
<1> DEFINE S == {[kind |-> kind, token |-> token] : token \in ts}
           f == [h \in hs |-> Token(h)]
           g == [token \in ts |-> [kind |-> kind, token |-> token]]
<1>1. IsFiniteSet(Alive(hs))
  <2>1. f \in [hs -> Alive(hs)] /\ \A t \in Alive(hs) : \E h \in hs : f[h] = t
    BY DEF Alive
  <2> QED
    BY <2>1, ImageFinite
<1>2. IsFiniteSet(ts)
  BY <1>1, FS_Subset
<1>3. IsFiniteSet(S)
  <2>1. g \in [ts -> S] /\ \A s \in S : \E token \in ts : g[token] = s
    OBVIOUS
  <2> QED
    BY <1>2, <2>1, ImageFinite
<1>4. S \subseteq Sample
  BY DEF Alive, Sample
<1>5. \A s \in S : s.kind = kind /\ s.token \in ts
  OBVIOUS
<1>6. ASSUME NEW token \in ts
      PROVE  \E s \in S : s.token = token
  <2>1. [kind |-> kind, token |-> token] \in S
    OBVIOUS
  <2> QED
    BY <2>1
<1>7. Samples(kind, ts) = SetToSeq(S)
  BY DEF Samples
<1> HIDE DEF S
<1> DEFINE q == SetToSeq(S)
<1>8. q \in Seq(S) /\ \A x \in S : \E i \in DOMAIN q : q[i] = x
  BY <1>3, SetToSeqIs
<1> HIDE DEF q
<1>9. q \in Seq(Sample) /\ \A i \in DOMAIN q : q[i] \in S
  BY <1>4, <1>8
<1>10. Samples(kind, ts) = q
  BY <1>7 DEF q
<1> QED
  BY <1>5, <1>6, <1>8, <1>9, <1>10

(***************************************************************************)
(* Who holds what.  A handler that is about to be stored is nobody else's  *)
(* and was never run; what a callback holds keeps its token.               *)
(***************************************************************************)
Subscribing(t) == doing[t].op = "subscribe"

Held ==
    /\ made \in SUBSET ZHandler /\ IsFiniteSet(made)
    /\ tokens \subseteq made /\ handlers \subseteq tokens
    /\ taken \subseteq tokens /\ pending \subseteq taken
    /\ step \in {"test", "take", "run"}
    /\ step # "run" => taken = {}
    /\ step # "test" => jobs # <<>>
    /\ doing \in [Thread -> [op : {"none", "subscribe", "unsubscribe"},
                             handlers : SUBSET ZHandler]]
    /\ mutex \in Thread \union {Free}
    /\ stage \in {"off", "drained", "on"}

Entering ==
    /\ \A t \in Thread : Subscribing(t) =>
          /\ doing[t].handlers # {} /\ doing[t].handlers \subseteq tokens
          /\ doing[t].handlers \cap (handlers \union taken) = {}
    /\ \A t, u \in Thread : Subscribing(t) /\ Subscribing(u) /\ t # u =>
          doing[t].handlers \cap doing[u].handlers = {}

LEMMA InitHeld == ZenohInit => Held /\ Entering
BY FS_EmptySet DEF ZenohInit, Held, Entering, Subscribing, ZIdle

\* Of one who is not subscribing, no handler is about to be stored.
LEMMA EnteringKept ==
    ASSUME Held, Entering,
           \A t \in Thread : doing'[t] = doing[t] \/ ~ Subscribing(t)',
           \A t \in Thread : Subscribing(t)' =>
               /\ doing[t].handlers \subseteq tokens'
               /\ doing[t].handlers \cap (handlers' \union taken') = {}
    PROVE  Entering'
BY DEF Entering, Subscribing

LEMMA MakeHandlerHeld ==
    ASSUME Held, Entering, NEW u \in User, NEW h \in ZHandler, MakeHandler(u,
    h)
    PROVE  Held' /\ Entering'
<1>1. /\ h \notin made /\ made' = made \union {h}
      /\ tokens' = tokens \union {h}
      /\ u \in Thread /\ doing[u] = ZIdle
      /\ doing' = [doing EXCEPT ![u] = [op |-> "subscribe", handlers |-> {h}]]
      /\ UNCHANGED <<handlers, mutex, jobs, step, taken, pending, stage>>
  BY DEF MakeHandler, Declare, callbackvars, publishervars, Thread
<1>2. IsFiniteSet(made')
  BY <1>1, FS_AddElement DEF Held
<1>3. Held'
  BY <1>1, <1>2 DEF Held
<1>4. /\ doing'[u] = [op |-> "subscribe", handlers |-> {h}]
      /\ \A t \in Thread : t # u => doing'[t] = doing[t]
  BY <1>1 DEF Held
<1>5. Entering'
  BY <1>1, <1>4 DEF Entering, Subscribing, Held
<1> QED
  BY <1>3, <1>5

LEMMA SubscribeHeld ==
    ASSUME Held, Entering, NEW u \in User, ZSubscribe(u)
    PROVE  Held' /\ Entering'
<1>1. /\ u \in Thread /\ Subscribing(u)
      /\ handlers' = handlers \union doing[u].handlers
      /\ doing' = [doing EXCEPT ![u] = ZIdle]
      /\ UNCHANGED <<made, tokens, mutex, jobs, step, taken, pending, stage>>
  BY DEF ZSubscribe, callbackvars, publishervars, Thread, Subscribing
<1>2. doing[u].handlers \subseteq tokens
  BY <1>1 DEF Entering
<1>3. Held'
  BY <1>1, <1>2 DEF Held, ZIdle
<1>4. /\ doing'[u] = ZIdle
      /\ \A t \in Thread : t # u => doing'[t] = doing[t]
  BY <1>1 DEF Held
<1>5. Entering'
  BY <1>1, <1>4, EnteringKept DEF Entering, Subscribing, ZIdle
<1> QED
  BY <1>3, <1>5

LEMMA UnsubscribeHeld ==
    ASSUME Held, Entering, NEW t \in Thread, NEW hs \in Unsubscribed,
           ZUnsubscribe(t, hs)
    PROVE  Held' /\ Entering' /\ hs \subseteq handlers
<1>1. hs \subseteq handlers
  BY DEF Unsubscribed
<1>2. /\ handlers' = handlers \ hs
      /\ tokens' = tokens \ (hs \ taken)
      /\ mutex' = t
      /\ doing' = [doing EXCEPT ![t] =
                      [op |-> "unsubscribe", handlers |-> hs]]
      /\ UNCHANGED <<made, jobs, step, taken, pending, stage>>
  BY DEF ZUnsubscribe, Declare, callbackvars, publishervars
<1>3. Held'
  BY <1>1, <1>2 DEF Held
<1>4. /\ doing'[t] = [op |-> "unsubscribe", handlers |-> hs]
      /\ \A u \in Thread : u # t => doing'[u] = doing[u]
  BY <1>2 DEF Held
<1>5. Entering'
  BY <1>1, <1>2, <1>4, EnteringKept DEF Entering, Subscribing
<1> QED
  BY <1>1, <1>3, <1>5

LEMMA CallbackHeld ==
    ASSUME Held, Entering, Callback
    PROVE  Held' /\ Entering'
<1>1. UNCHANGED subscribing /\ stage' = stage
  BY DEF Callback, TestActive, TakeHandlers, RunCallback, EndCallback,
         publishervars
<1>2. ASSUME tokens' \in {tokens, tokens \ (taken \ handlers)},
             \/ taken' = {} \/ taken' = handlers
             \/ taken' = taken /\ tokens' = tokens
      PROVE  Entering'
  BY <1>1, <1>2, EnteringKept DEF Entering, subscribing, Subscribing
<1>3. CASE TestActive
  <2>1. /\ tokens' = tokens /\ pending' = pending
        /\ \/ step' = "take" /\ jobs' = jobs /\ taken' = taken
           \/ step' = "test" /\ taken' = {}
        /\ step = "test" /\ jobs # <<>>
    BY <1>3 DEF TestActive, NextJob
  <2> QED
    BY <1>1, <1>2, <2>1 DEF Held, subscribing
<1>4. CASE TakeHandlers
  BY <1>1, <1>2, <1>4 DEF TakeHandlers, Held, subscribing
<1>5. ASSUME NEW h \in ZHandler, RunCallback(h)
      PROVE  Held' /\ Entering'
  BY <1>1, <1>2, <1>5 DEF RunCallback, Held, subscribing
<1>6. CASE EndCallback
  <2>1. /\ tokens' = tokens \ (taken \ handlers) /\ taken' = {}
        /\ pending' = pending /\ pending = {} /\ step' = "test"
    BY <1>6 DEF EndCallback, NextJob, Declare
  <2> QED
    BY <1>1, <1>2, <2>1 DEF Held, subscribing
<1> QED
  BY <1>3, <1>4, <1>5, <1>6 DEF Callback

LEMMA HeldStep ==
    ASSUME Held, Entering, [ZenohNext]_zenohvars
    PROVE  Held' /\ Entering'
<1>1. ASSUME UNCHANGED <<made, handlers, tokens, taken, pending>>,
             \/ jobs' = jobs /\ step' = step
             \/ Arrive,
             \A t \in Thread : doing'[t] = doing[t] \/ doing'[t] = ZIdle,
             \/ doing' = doing
             \/ \E t \in Thread : doing' = [doing EXCEPT ![t] = ZIdle],
             mutex' \in {mutex, Free},
             stage' \in {stage, "drained", "on"}
      PROVE  Held' /\ Entering'
  <2>1. doing' \in [Thread -> [op : {"none", "subscribe", "unsubscribe"},
                               handlers : SUBSET ZHandler]]
    BY <1>1 DEF Held, ZIdle
  <2>2. /\ step' \in {"test", "take", "run"}
        /\ step' # "run" => taken = {}
        /\ step' # "test" => jobs' # <<>>
    <3>1. CASE Arrive
      BY <3>1 DEF Arrive, Held
    <3> QED
      BY <1>1, <3>1 DEF Held
  <2>3. Held'
    BY <1>1, <2>1, <2>2 DEF Held
  <2>4. Entering'
    BY <1>1, EnteringKept DEF Entering, Subscribing, ZIdle
  <2> QED
    BY <2>3, <2>4
<1>2. ASSUME NEW t \in Thread, Unlock(t)
      PROVE  Held' /\ Entering'
  <2>1. \A u \in Thread : doing'[u] = doing[u] \/ doing'[u] = ZIdle
    BY <1>2 DEF Unlock, Held
  <2> QED
    BY <1>1, <1>2, <2>1 DEF Unlock, callbackvars, publishervars
<1>3. CASE UNCHANGED zenohvars
  BY <1>1, <1>3 DEF zenohvars
<1>4. CASE Arrive
  BY <1>1, <1>4 DEF Arrive, subscribing, publishervars
<1>5. ASSUME NEW s \in DOMAIN subscribers, Destroy(s)
      PROVE  Held' /\ Entering'
  BY <1>1, <1>5 DEF Destroy, Undeclare, Undeclared, Move, callbackvars,
                    publishervars
<1>6. CASE \/ DrainTokens \/ StartLiveliness
           \/ LivelinessMsgDataHandler \/ Publish
  BY <1>1, <1>6
     DEF DrainTokens, StartLiveliness, LivelinessMsgDataHandler, Publish,
         subscribing, callbackvars
<1> QED
  BY <1>2, <1>3, <1>4, <1>5, <1>6, MakeHandlerHeld, SubscribeHeld,
     UnsubscribeHeld, CallbackHeld
     DEF ZenohNext, Continue

(***************************************************************************)
(* The Zenoh subscribers.  The one that is active is the current one, and  *)
(* there is one exactly as long as there are handlers.                     *)
(***************************************************************************)
Sub == [active : BOOLEAN, state : {"declared", "undeclaring", "undeclared"},
        resetter : Thread \union {Nobody, Detached}]

Subs ==
    /\ subscribers \in Seq(Sub)
    /\ current \in 0..Len(subscribers)
    /\ \A s \in DOMAIN subscribers : subscribers[s].active <=> s = current
    /\ current # 0 <=> handlers # {}

\* Subscribers are only added, and a new current one is the one added.
Grown ==
    /\ DOMAIN subscribers \subseteq DOMAIN subscribers'
    /\ current' \in {current, 0} \/ current' \notin DOMAIN subscribers

LEMMA SubsLen ==
    ASSUME Subs
    PROVE  /\ Len(subscribers) \in Nat
           /\ DOMAIN subscribers = 1..Len(subscribers)
           /\ \A s \in DOMAIN subscribers : subscribers[s] \in Sub
<1> HIDE DEF Sub
<1> QED
  BY DEF Subs

LEMMA SubscribeSubs ==
    ASSUME Held, Entering, Subs, NEW u \in User, ZSubscribe(u)
    PROVE  Subs' /\ Grown
<1> DEFINE new == [active |-> TRUE, state |-> "declared",
                   resetter |-> Nobody]
<1>1. handlers' # {}
  BY DEF ZSubscribe, Entering, Subscribing, Thread
<1>2. CASE current # 0
  BY <1>1, <1>2 DEF ZSubscribe, EnsureZenohSubscription, Subs, Grown
<1>3. CASE current = 0
  <2>1. /\ subscribers' = Append(subscribers, new)
        /\ current' = Len(subscribers')
    BY <1>3 DEF ZSubscribe, EnsureZenohSubscription
  <2>2. new \in Sub /\ new.active
    BY DEF Sub
  <2> HIDE DEF new
  <2>3. /\ subscribers' \in Seq(Sub)
        /\ Len(subscribers') = Len(subscribers) + 1
        /\ \A s \in DOMAIN subscribers : subscribers'[s] = subscribers[s]
        /\ subscribers'[Len(subscribers) + 1] = new
        /\ DOMAIN subscribers' = 1..(Len(subscribers) + 1)
    <3> HIDE DEF Sub
    <3> QED
      BY <2>1, <2>2, SubsLen DEF Subs
  <2>4. \A s \in DOMAIN subscribers' :
            subscribers'[s].active <=> s = current'
    <3> SUFFICES ASSUME NEW s \in DOMAIN subscribers'
                 PROVE  subscribers'[s].active <=> s = current'
      OBVIOUS
    <3>1. CASE s \in DOMAIN subscribers
      BY <1>3, <2>1, <2>3, <3>1, SubsLen DEF Subs
    <3>2. CASE s \notin DOMAIN subscribers
      BY <2>1, <2>2, <2>3, <3>2, SubsLen
    <3> QED
      BY <3>1, <3>2
  <2>5. current' \in 0..Len(subscribers') /\ current' # 0
    BY <2>1, <2>3, SubsLen
  <2>6. Subs'
    BY <1>1, <2>3, <2>4, <2>5 DEF Subs
  <2> QED
    BY <2>1, <2>3, <2>6, SubsLen DEF Grown
<1> QED
  BY <1>2, <1>3

LEMMA UnsubscribeSubs ==
    ASSUME Held, Subs, NEW t \in Thread, NEW hs \in Unsubscribed,
           ZUnsubscribe(t, hs)
    PROVE  Subs' /\ Grown
<1>1. handlers' \subseteq handlers
  BY DEF ZUnsubscribe
<1>2. CASE handlers' # {} \/ current = 0
  BY <1>1, <1>2
     DEF ZUnsubscribe, MaybeRemoveZenohSubscription, Subs, Grown
<1>3. CASE handlers' = {} /\ current # 0
  <2>1. /\ subscribers' = [subscribers EXCEPT
               ![current].active = FALSE, ![current].resetter = Detached]
        /\ current' = 0
    BY <1>3 DEF ZUnsubscribe, MaybeRemoveZenohSubscription, Resetter
  <2>2. current \in DOMAIN subscribers
    BY <1>3, SubsLen DEF Subs
  <2>3. PICK sub :
            /\ sub = [subscribers[current] EXCEPT !.active = FALSE,
                                                  !.resetter = Detached]
            /\ subscribers' = [subscribers EXCEPT ![current] = sub]
    BY <2>1
  <2>4. sub \in Sub /\ sub.active = FALSE
    BY <2>2, <2>3, SubsLen DEF Sub
  <2>5. /\ subscribers' \in Seq(Sub)
        /\ Len(subscribers') = Len(subscribers)
        /\ DOMAIN subscribers' = DOMAIN subscribers
        /\ subscribers'[current] = sub
        /\ \A s \in DOMAIN subscribers :
               s # current => subscribers'[s] = subscribers[s]
    <3> HIDE DEF Sub
    <3> QED
      BY <2>2, <2>3, <2>4 DEF Subs
  <2>6. Subs'
    <3>1. ASSUME NEW s \in DOMAIN subscribers
          PROVE  ~ subscribers'[s].active /\ s # current'
      <4>1. subscribers[s].active <=> s = current
        BY DEF Subs
      <4>2. s # current'
        BY <2>1, SubsLen
      <4> QED
        BY <2>4, <2>5, <4>1, <4>2
    <3>2. current' \in 0..Len(subscribers')
      BY <2>1, <2>5, SubsLen
    <3> QED
      BY <1>3, <2>1, <2>5, <3>1, <3>2 DEF Subs
  <2> QED
    BY <2>1, <2>5, <2>6 DEF Grown
<1> QED
  BY <1>2, <1>3

LEMMA SubsStep ==
    ASSUME Held, Entering, Subs, [ZenohNext]_zenohvars
    PROVE  Subs' /\ Grown
<1>1. ASSUME UNCHANGED <<subscribers, current, handlers>>
      PROVE  Subs' /\ Grown
  BY <1>1 DEF Subs, Grown
<1>2. ASSUME NEW s \in DOMAIN subscribers, Destroy(s)
      PROVE  Subs' /\ Grown
  <2>1. PICK to \in {"undeclaring", "undeclared"} :
            subscribers' = [subscribers EXCEPT ![s].state = to]
    BY <1>2 DEF Destroy, Undeclare, Undeclared, Move
  <2>2. handlers' = handlers /\ current' = current
    BY <1>2 DEF Destroy, Undeclare, Undeclared, Move
  <2>3. PICK sub : /\ sub = [subscribers[s] EXCEPT !.state = to]
                   /\ subscribers' = [subscribers EXCEPT ![s] = sub]
    BY <2>1
  <2>4. sub \in Sub /\ sub.active = subscribers[s].active
    BY <1>2, <2>3, SubsLen DEF Sub
  <2>5. /\ subscribers' \in Seq(Sub)
        /\ Len(subscribers') = Len(subscribers)
        /\ DOMAIN subscribers' = DOMAIN subscribers
        /\ \A r \in DOMAIN subscribers :
               subscribers'[r].active = subscribers[r].active
    <3> HIDE DEF Sub
    <3> QED
      BY <1>2, <2>3, <2>4 DEF Subs
  <2> QED
    BY <2>2, <2>5 DEF Subs, Grown
<1>3. ASSUME NEW u \in User, NEW h \in ZHandler, MakeHandler(u, h)
      PROVE  Subs' /\ Grown
  BY <1>1, <1>3 DEF MakeHandler
<1>4. ASSUME NEW t \in Thread, Unlock(t)
      PROVE  Subs' /\ Grown
  BY <1>1, <1>4 DEF Unlock
<1>5. CASE Callback
  BY <1>1, <1>5 DEF Callback, TestActive, TakeHandlers, RunCallback,
                    EndCallback, subscribing
<1>6. CASE \/ Arrive \/ DrainTokens \/ StartLiveliness
           \/ LivelinessMsgDataHandler \/ Publish \/ UNCHANGED zenohvars
  BY <1>1, <1>6
     DEF Arrive, DrainTokens, StartLiveliness, LivelinessMsgDataHandler,
         Publish, subscribing, zenohvars
<1> QED
  BY <1>2, <1>3, <1>4, <1>5, <1>6, SubscribeSubs, UnsubscribeSubs
     DEF ZenohNext, Continue

(***************************************************************************)
(* Order.  The message at the head of net goes to the subscribers that     *)
(* were declared when it arrived; one of them at most is active when its   *)
(* callback tests it, and those after it never are again: whatever is      *)
(* declared meanwhile is not among them.                                   *)
(***************************************************************************)
Jobs ==
    /\ jobs \in Seq(DOMAIN subscribers)
    /\ \A i, j \in DOMAIN jobs : jobs[i] = jobs[j] => i = j
    /\ jobs # <<>> => zNet # <<>>
    /\ step # "test" => \A i \in DOMAIN jobs : i > 1 => jobs[i] # current

\* The handler may yet be run with the message at the head of net.
Unrun(h) ==
    \/ jobs = <<>>
    \/ step = "test" /\ \E i \in DOMAIN jobs : jobs[i] = current
    \/ step = "take"
    \/ h \in pending

InNet ==
    /\ put \in Nat
    /\ zNet \in Seq(Nat)
    /\ \A i \in DOMAIN zNet : zNet[i] <= put
    /\ \A i, j \in DOMAIN zNet : i < j => zNet[i] < zNet[j]

Older(n, h) ==
    /\ n <= put
    /\ \A j \in DOMAIN zNet : j > 1 \/ Unrun(h) => n < zNet[j]

Ran ==
    /\ ran \in [ZHandler -> Seq(Nat)]
    /\ \A h \in ZHandler : \A i \in DOMAIN ran[h] : Older(ran[h][i], h)
    /\ \A h \in ZHandler :
           \A i, j \in DOMAIN ran[h] : i < j => ran[h][i] < ran[h][j]

Ordered == Jobs /\ InNet /\ Ran

\* What Jobs says, in terms of positions.
LEMMA JobsAre ==
    ASSUME Jobs
    PROVE  /\ Len(jobs) \in Nat /\ DOMAIN jobs = 1..Len(jobs)
           /\ \A i \in DOMAIN jobs : jobs[i] \in DOMAIN subscribers
           /\ jobs = <<>> <=> Len(jobs) = 0
           /\ jobs # <<>> => /\ Head(jobs) = jobs[1] /\ 1 \in DOMAIN jobs
                             /\ Tail(jobs) \in Seq(DOMAIN subscribers)
                             /\ Len(Tail(jobs)) = Len(jobs) - 1
                             /\ DOMAIN Tail(jobs) = 1..(Len(jobs) - 1)
                             /\ \A i \in 1..(Len(jobs) - 1) :
                                    Tail(jobs)[i] = jobs[i + 1]
BY DEF Jobs

LEMMA NetIs ==
    ASSUME InNet
    PROVE  /\ Len(zNet) \in Nat /\ DOMAIN zNet = 1..Len(zNet)
           /\ \A i \in DOMAIN zNet : zNet[i] \in Nat
           /\ zNet # <<>> => /\ Head(zNet) = zNet[1] /\ 1 \in DOMAIN zNet
                            /\ Tail(zNet) \in Seq(Nat)
                            /\ DOMAIN Tail(zNet) = 1..(Len(zNet) - 1)
                            /\ \A i \in 1..(Len(zNet) - 1) :
                                   Tail(zNet)[i] = zNet[i + 1]
BY DEF InNet

LEMMA TailInNet ==
    ASSUME InNet, zNet # <<>>, zNet' = Tail(zNet), put' = put
    PROVE  /\ InNet'
           /\ \A j \in DOMAIN zNet' : /\ j + 1 \in DOMAIN zNet /\ j + 1 > 1
                                     /\ zNet'[j] = zNet[j + 1]
<1>1. /\ zNet' \in Seq(Nat) /\ DOMAIN zNet' = 1..(Len(zNet) - 1)
      /\ \A j \in 1..(Len(zNet) - 1) : zNet'[j] = zNet[j + 1]
      /\ DOMAIN zNet = 1..Len(zNet) /\ Len(zNet) \in Nat
  BY NetIs
<1>2. ASSUME NEW j \in DOMAIN zNet'
      PROVE  /\ j + 1 \in DOMAIN zNet /\ j + 1 > 1 /\ j \in Nat
             /\ zNet'[j] = zNet[j + 1]
  BY <1>1
<1>3. \A i, j \in DOMAIN zNet' : i < j => zNet'[i] < zNet'[j]
  <2> SUFFICES ASSUME NEW i \in DOMAIN zNet', NEW j \in DOMAIN zNet', i < j
               PROVE  zNet'[i] < zNet'[j]
    OBVIOUS
  <2>1. i + 1 < j + 1
    BY <1>2
  <2> QED
    BY <1>2, <2>1 DEF InNet
<1>4. \A i \in DOMAIN zNet' : zNet'[i] <= put'
  BY <1>2 DEF InNet
<1> QED
  BY <1>1, <1>2, <1>3, <1>4 DEF InNet

LEMMA RanIs ==
    ASSUME Ran, NEW h \in ZHandler
    PROVE  /\ ran[h] \in Seq(Nat)
           /\ \A i \in DOMAIN ran[h] : ran[h][i] \in Nat
BY DEF Ran

\* As long as nothing is run, who was run before is: what goes is the
\* message at the head, and nobody is given it a second time.
LEMMA RanKept ==
    ASSUME Ran, InNet, ran' = ran, put' = put,
           \/ /\ zNet' = zNet
              /\ \A h \in ZHandler : Unrun(h)' => Unrun(h)
           \/ zNet # <<>> /\ zNet' = Tail(zNet)
    PROVE  Ran'
<1>1. ASSUME NEW h \in ZHandler, NEW i \in DOMAIN ran[h]
      PROVE  Older(ran[h][i], h)'
  <2>1. Older(ran[h][i], h)
    BY <1>1 DEF Ran
  <2>2. CASE zNet' = zNet /\ (Unrun(h)' => Unrun(h))
    BY <2>1, <2>2 DEF Older
  <2>3. CASE zNet # <<>> /\ zNet' = Tail(zNet)
    BY <2>1, <2>3, TailInNet DEF Older
  <2> QED
    BY <2>2, <2>3
<1> QED
  BY <1>1 DEF Ran

\* Calls of users: subscribers come and go, the jobs stay.
LEMMA CallsOrdered ==
    ASSUME Held, Subs, Grown, Ordered,
           UNCHANGED <<jobs, step, pending, ran, zNet, put>>
    PROVE  Ordered'
<1>1. \A i \in DOMAIN jobs :
          /\ jobs[i] \in DOMAIN subscribers'
          /\ jobs[i] = current' => jobs[i] = current
  <2> SUFFICES ASSUME NEW i \in DOMAIN jobs
               PROVE  /\ jobs[i] \in DOMAIN subscribers'
                      /\ jobs[i] = current' => jobs[i] = current
    OBVIOUS
  <2>1. jobs[i] \in DOMAIN subscribers /\ jobs[i] # 0
    BY JobsAre, SubsLen DEF Ordered
  <2> QED
    BY <2>1 DEF Grown
<1>2. Jobs'
  <2>1. jobs' \in Seq(DOMAIN subscribers')
    BY <1>1, JobsAre DEF Ordered, Jobs
  <2> QED
    BY <1>1, <2>1 DEF Ordered, Jobs
<1>3. InNet'
  BY DEF Ordered, InNet
<1>4. \A h \in ZHandler : Unrun(h)' => Unrun(h)
  BY <1>1 DEF Unrun
<1>5. Ran'
  BY <1>4, RanKept DEF Ordered
<1> QED
  BY <1>2, <1>3, <1>5 DEF Ordered

LEMMA ArriveOrdered ==
    ASSUME Held, Subs, Ordered, Arrive
    PROVE  Ordered'
<1> DEFINE S == {s \in DOMAIN subscribers : subscribers[s].state = "declared"}
<1>1. /\ zNet # <<>> /\ jobs = <<>> /\ step' = "test"
      /\ jobs' \in SetToSeqs(S)
      /\ zNet' = IF jobs' = <<>> THEN Tail(zNet) ELSE zNet
      /\ UNCHANGED <<subscribers, current, pending, ran, put>>
  BY DEF Arrive, subscribing, publishervars
<1>2. Cardinality(S) \in Nat
  <2>1. IsFiniteSet(DOMAIN subscribers)
    BY SubsLen, FS_Interval
  <2> QED
    BY <2>1, FS_Subset, FS_CardinalityType
<1>3. /\ jobs' \in [1..Cardinality(S) -> S]
      /\ \A i, j \in 1..Cardinality(S) : i # j => jobs'[i] # jobs'[j]
  BY <1>1 DEF SetToSeqs
<1>4. jobs' \in Seq(DOMAIN subscribers)
      /\ \A i, j \in DOMAIN jobs' : jobs'[i] = jobs'[j] => i = j
  <2>1. S \subseteq DOMAIN subscribers
    OBVIOUS
  <2> DEFINE n == Cardinality(S)
  <2>2. jobs' \in [1..n -> DOMAIN subscribers] /\ DOMAIN jobs' = 1..n
    BY <1>3, <2>1
  <2>3. \A i, j \in 1..n : jobs'[i] = jobs'[j] => i = j
    BY <1>3
  <2>4. n \in Nat
    BY <1>2
  <2> HIDE DEF n, S
  <2> QED
    BY <2>2, <2>3, <2>4
<1>5. Jobs'
  BY <1>1, <1>4 DEF Jobs
<1>6. InNet'
  BY <1>1, TailInNet DEF Ordered, InNet
<1>7. \A h \in ZHandler : Unrun(h)
  BY <1>1 DEF Unrun
<1>8. Ran'
  BY <1>1, <1>7, RanKept DEF Ordered
<1> QED
  BY <1>5, <1>6, <1>8 DEF Ordered

\* The next job is not of the current subscriber unless the message was yet
\* to be run.
LEMMA NextJobOrdered ==
    ASSUME Held, Subs, Ordered, jobs # <<>>, NextJob, pending = {},
           UNCHANGED <<subscribers, current, pending, ran, put>>
    PROVE  Ordered'
<1>1. /\ jobs' = Tail(jobs) /\ step' = "test"
      /\ zNet' = IF Len(jobs) = 1 THEN Tail(zNet) ELSE zNet
      /\ zNet # <<>>
  BY DEF NextJob, Ordered, Jobs
<1>2. /\ jobs' \in Seq(DOMAIN subscribers)
      /\ DOMAIN jobs' = 1..(Len(jobs) - 1)
      /\ \A i \in 1..(Len(jobs) - 1) :
             i + 1 \in DOMAIN jobs /\ i + 1 > 1 /\ jobs'[i] = jobs[i + 1]
      /\ jobs' = <<>> <=> Len(jobs) = 1
  <2>1. /\ jobs' \in Seq(DOMAIN subscribers)
        /\ Len(jobs') = Len(jobs) - 1 /\ Len(jobs) \in Nat
        /\ DOMAIN jobs' = 1..(Len(jobs) - 1)
        /\ DOMAIN jobs = 1..Len(jobs)
        /\ \A i \in 1..(Len(jobs) - 1) : jobs'[i] = jobs[i + 1]
    BY <1>1, JobsAre DEF Ordered
  <2>2. jobs' = <<>> <=> Len(jobs') = 0
    BY <2>1
  <2>3. \A i \in 1..(Len(jobs) - 1) : i + 1 \in 1..Len(jobs) /\ i + 1 > 1
    BY <2>1
  <2> QED
    BY <2>1, <2>2, <2>3
<1>3. Jobs'
  <2>1. \A i, j \in DOMAIN jobs' : jobs'[i] = jobs'[j] => i = j
    BY <1>2, JobsAre DEF Ordered, Jobs
  <2> QED
    BY <1>1, <1>2, <2>1 DEF Jobs
<1>4. InNet'
  BY <1>1, TailInNet DEF Ordered, InNet
<1>5. CASE Len(jobs) = 1
  BY <1>1, <1>3, <1>4, <1>5, RanKept DEF Ordered
<1>6. CASE Len(jobs) # 1
  <2>1. ASSUME NEW h \in ZHandler, Unrun(h)'
        PROVE  Unrun(h)
    <3>1. PICK i \in DOMAIN jobs' : jobs'[i] = current
      BY <1>1, <1>2, <1>6, <2>1 DEF Unrun
    <3>2. i + 1 \in DOMAIN jobs /\ i + 1 > 1 /\ jobs[i + 1] = current
      BY <1>2, <3>1
    <3>3. step = "test"
      BY <3>2 DEF Ordered, Jobs
    <3> QED
      BY <3>2, <3>3 DEF Unrun
  <2> QED
    BY <1>1, <1>3, <1>4, <1>6, <2>1, RanKept DEF Ordered
<1> QED
  BY <1>3, <1>4, <1>5, <1>6 DEF Ordered

LEMMA CallbackOrdered ==
    ASSUME Held, Subs, Ordered, Callback
    PROVE  Ordered'
<1>0. UNCHANGED <<subscribers, current, put>>
  BY DEF Callback, TestActive, TakeHandlers, RunCallback, EndCallback,
         subscribing, publishervars
<1>1. CASE TestActive
  <2>1. step = "test" /\ pending = {} /\ pending' = pending /\ ran' = ran
        /\ jobs # <<>>
    BY <1>1 DEF TestActive, Held
  <2>2. CASE NextJob
    BY <1>0, <2>1, <2>2, NextJobOrdered
  <2>3. CASE Dispatches(Head(jobs)) /\ step' = "take"
             /\ UNCHANGED <<jobs, zNet>>
    <3>1. 1 \in DOMAIN jobs /\ jobs[1] = current
      BY <2>1, <2>3, JobsAre DEF Dispatches, Ordered, Subs
    <3>2. \A i \in DOMAIN jobs : i > 1 => jobs[i] # current
      <4>1. \A i \in DOMAIN jobs : jobs[i] = jobs[1] => i = 1
        BY <3>1 DEF Ordered, Jobs
      <4> QED
        BY <3>1, <4>1, JobsAre DEF Ordered
    <3>3. Jobs'
      BY <1>0, <2>3, <3>2 DEF Ordered, Jobs
    <3>4. \A h \in ZHandler : Unrun(h)
      BY <2>1, <3>1 DEF Unrun
    <3>5. Ran'
      BY <1>0, <2>1, <2>3, <3>4, RanKept DEF Ordered
    <3>6. InNet'
      BY <1>0, <2>3 DEF Ordered, InNet
    <3> QED
      BY <3>3, <3>5, <3>6 DEF Ordered
  <2> QED
    BY <1>1, <2>2, <2>3 DEF TestActive
<1>2. CASE TakeHandlers
  <2>1. /\ step = "take" /\ step' = "run" /\ UNCHANGED <<jobs, zNet, ran>>
    BY <1>2 DEF TakeHandlers
  <2>2. Jobs' /\ InNet'
    BY <1>0, <2>1 DEF Ordered, Jobs, InNet
  <2>3. \A h \in ZHandler : Unrun(h)
    BY <2>1 DEF Unrun
  <2>4. Ran'
    BY <1>0, <2>1, <2>3, RanKept DEF Ordered
  <2> QED
    BY <2>2, <2>4 DEF Ordered
<1>3. ASSUME NEW h \in ZHandler, RunCallback(h)
      PROVE  Ordered'
  <2>1. /\ h \in pending /\ pending' = pending \ {h}
        /\ ran' = [ran EXCEPT ![h] = Append(ran[h], Head(zNet))]
        /\ UNCHANGED <<jobs, step, zNet>>
    BY <1>3 DEF RunCallback
  <2>2. step = "run" /\ jobs # <<>> /\ zNet # <<>>
    BY <2>1 DEF Held, Ordered, Jobs
  <2>3. Jobs' /\ InNet'
    BY <1>0, <2>1 DEF Ordered, Jobs, InNet
  <2>4. /\ Head(zNet) \in Nat /\ Head(zNet) = zNet[1] /\ 1 \in DOMAIN zNet
        /\ \A j \in DOMAIN zNet : j > 1 => Head(zNet) < zNet[j]
        /\ Head(zNet) <= put
    BY <2>2, NetIs DEF Ordered, InNet
  <2>5. /\ ran[h] \in Seq(Nat)
        /\ \A i \in DOMAIN ran[h] : ran[h][i] < Head(zNet)
    <3>1. Unrun(h)
      BY <2>1 DEF Unrun
    <3> QED
      BY <2>4, <3>1 DEF Ordered, Ran, Older
  <2>6. /\ ran'[h] = Append(ran[h], Head(zNet))
        /\ \A g \in ZHandler : g # h => ran'[g] = ran[g]
        /\ ran' \in [ZHandler -> Seq(Nat)]
    BY <2>1, <2>4, <2>5 DEF Ordered, Ran
  <2>7. \A g \in ZHandler : Unrun(g)' => g # h /\ Unrun(g)
    BY <1>0, <2>1, <2>2 DEF Unrun
  <2> DEFINE After(n, g) ==
          /\ n <= put'
          /\ \A j \in DOMAIN zNet' : j > 1 \/ Unrun(g)' => n < zNet'[j]
  <2>8. \A n \in Nat, g \in ZHandler : Older(n, g) => After(n, g)
    BY <1>0, <2>1, <2>7 DEF Older
  <2>9. After(Head(zNet), h)
    BY <1>0, <2>1, <2>4, <2>7
  <2> HIDE DEF After
  <2>10. /\ \A i \in DOMAIN ran'[h] :
                \/ ran'[h][i] = Head(zNet) /\ i = Len(ran[h]) + 1
                \/ i \in DOMAIN ran[h] /\ ran'[h][i] = ran[h][i]
         /\ \A i \in DOMAIN ran[h] : i <= Len(ran[h]) /\ ran[h][i] \in Nat
         /\ DOMAIN ran'[h] = 1..(Len(ran[h]) + 1) /\ Len(ran[h]) \in Nat
         /\ DOMAIN ran[h] = 1..Len(ran[h])
    BY <2>4, <2>5, <2>6
  <2>11. ASSUME NEW g \in ZHandler, NEW i \in DOMAIN ran'[g]
         PROVE  After(ran'[g][i], g)
    <3>0. \A k \in DOMAIN ran[g] : After(ran[g][k], g)
      <4> SUFFICES ASSUME NEW k \in DOMAIN ran[g]
                   PROVE  After(ran[g][k], g)
        OBVIOUS
      <4>1. ran[g][k] \in Nat /\ Older(ran[g][k], g)
        BY RanIs DEF Ordered, Ran
      <4> QED
        BY <2>8, <4>1
    <3>1. CASE g = h
      <4>1. \/ ran'[h][i] = Head(zNet)
            \/ i \in DOMAIN ran[h] /\ ran'[h][i] = ran[h][i]
        BY <2>10, <2>11, <3>1
      <4> QED
        BY <2>9, <3>0, <3>1, <4>1
    <3>2. CASE g # h
      <4>1. ran'[g] = ran[g]
        BY <2>6, <3>2
      <4> QED
        BY <2>11, <3>0, <4>1
    <3> QED
      BY <3>1, <3>2
  <2>12. ASSUME NEW g \in ZHandler, NEW i \in DOMAIN ran'[g],
                NEW j \in DOMAIN ran'[g], i < j
         PROVE  ran'[g][i] < ran'[g][j]
    <3>1. CASE g = h
      <4>1. /\ i \in 1..(Len(ran[h]) + 1) /\ j \in 1..(Len(ran[h]) + 1)
            /\ Len(ran[h]) \in Nat
        BY <2>10, <2>12, <3>1
      <4>2. i \in DOMAIN ran[h]
        BY <2>10, <2>12, <4>1
      <4>3. i # Len(ran[h]) + 1
        BY <2>12, <4>1
      <4>4. ran'[h][i] = ran[h][i]
        BY <2>10, <2>12, <3>1, <4>3
      <4>5. CASE j \in DOMAIN ran[h] /\ ran'[h][j] = ran[h][j]
        BY <2>12, <3>1, <4>2, <4>4, <4>5 DEF Ordered, Ran
      <4>6. CASE ran'[h][j] = Head(zNet)
        BY <2>5, <3>1, <4>2, <4>4, <4>6
      <4> QED
        BY <2>10, <2>12, <3>1, <4>5, <4>6
    <3>2. CASE g # h
      BY <2>6, <2>12, <3>2 DEF Ordered, Ran
    <3> QED
      BY <3>1, <3>2
  <2>13. Ran'
    BY <2>6, <2>11, <2>12 DEF Ran, Older, After
  <2> QED
    BY <2>3, <2>13 DEF Ordered
<1>4. CASE EndCallback
  BY <1>0, <1>4, NextJobOrdered DEF EndCallback
<1> QED
  BY <1>1, <1>2, <1>3, <1>4 DEF Callback

LEMMA PublishOrdered ==
    ASSUME Held, Subs, Ordered, Publish
    PROVE  Ordered'
<1>1. /\ put' = put + 1 /\ zNet' = Append(zNet, put + 1)
      /\ UNCHANGED <<subscribers, current, jobs, step, pending, ran>>
  BY DEF Publish, subscribing, callbackvars
<1>2. /\ zNet' \in Seq(Nat) /\ zNet' # <<>>
      /\ put \in Nat
      /\ DOMAIN zNet' = 1..(Len(zNet) + 1)
      /\ \A i \in DOMAIN zNet : zNet'[i] = zNet[i]
      /\ zNet'[Len(zNet) + 1] = put + 1
  BY <1>1, NetIs DEF Ordered, InNet
<1>3. InNet'
  BY <1>1, <1>2, NetIs DEF Ordered, InNet
<1>4. Jobs'
  BY <1>1, <1>2 DEF Ordered, Jobs
<1>5. \A h \in ZHandler : Unrun(h)' <=> Unrun(h)
  BY <1>1 DEF Unrun
<1>6. ASSUME NEW h \in ZHandler, NEW n \in Nat, Older(n, h)
      PROVE  Older(n, h)'
  BY <1>1, <1>2, <1>5, <1>6, NetIs DEF Older, Ordered
<1>7. Ran'
  BY <1>1, <1>6, RanIs DEF Ordered, Ran
<1> QED
  BY <1>3, <1>4, <1>7 DEF Ordered

LEMMA OrderedStep ==
    ASSUME Held, Entering, Subs, Ordered, [ZenohNext]_zenohvars
    PROVE  Ordered'
<1>1. Grown
  BY SubsStep
<1>2. ASSUME UNCHANGED <<jobs, step, pending, ran, zNet, put>>
      PROVE  Ordered'
  BY <1>1, <1>2, CallsOrdered
<1>3. ASSUME NEW u \in User, NEW h \in ZHandler, MakeHandler(u, h)
      PROVE  Ordered'
  BY <1>2, <1>3 DEF MakeHandler, callbackvars, publishervars
<1>4. ASSUME NEW t \in Thread, NEW hs \in Unsubscribed, ZUnsubscribe(t, hs)
      PROVE  Ordered'
  BY <1>2, <1>4 DEF ZUnsubscribe, callbackvars, publishervars
<1>5. ASSUME NEW u \in User, ZSubscribe(u)
      PROVE  Ordered'
  BY <1>2, <1>5 DEF ZSubscribe, callbackvars, publishervars
<1>6. ASSUME NEW t \in Thread, Unlock(t)
      PROVE  Ordered'
  BY <1>2, <1>6 DEF Unlock, callbackvars, publishervars
<1>7. ASSUME NEW s \in DOMAIN subscribers, Destroy(s)
      PROVE  Ordered'
  BY <1>2, <1>7 DEF Destroy, Undeclare, Undeclared, Move, callbackvars,
                    publishervars
<1>8. CASE DrainTokens \/ StartLiveliness \/ LivelinessMsgDataHandler
           \/ UNCHANGED zenohvars
  BY <1>2, <1>8
     DEF DrainTokens, StartLiveliness, LivelinessMsgDataHandler,
         callbackvars, zenohvars
<1> QED
  BY <1>3, <1>4, <1>5, <1>6, <1>7, <1>8, ArriveOrdered, CallbackOrdered,
     PublishOrdered
     DEF ZenohNext, Continue

LEMMA InitOrdered == ZenohInit => Subs /\ Ordered
<1> SUFFICES ASSUME ZenohInit
             PROVE  Subs /\ Ordered
  OBVIOUS
<1>1. Subs
  <2>1. subscribers \in Seq(Sub) /\ Len(subscribers) = 0
        /\ DOMAIN subscribers = {}
    <3> HIDE DEF Sub
    <3> QED
      BY DEF ZenohInit
  <2> QED
    BY <2>1 DEF ZenohInit, Subs
<1>2. Jobs
  BY DEF ZenohInit, Jobs
<1>3. InNet
  BY DEF ZenohInit, InNet
<1>4. Ran
  BY DEF ZenohInit, Ran
<1> QED
  BY <1>1, <1>2, <1>3, <1>4 DEF Ordered

(***************************************************************************)
(* Liveliness.  For each token that is declared, a publisher knows of its  *)
(* node, or the news of it is ahead, and no end of a token of the node     *)
(* comes behind.  A handler of another type that the node gave up excepts  *)
(* it: the end of that token makes the publisher forget the node.          *)
(***************************************************************************)
Excepted(h) ==
    \E g \in made \ tokens : NodeOf[g] = NodeOf[h] /\ TypeOf[g] # TypeOf[h]

Ends(sample, h) == sample.kind = "DELETE" /\ sample.token.node = NodeOf[h]
Begins(sample, h) == sample.kind = "PUT" /\ sample.token.node = NodeOf[h]

Endless(h) == \A i \in DOMAIN news : ~ Ends(news[i], h)
Ahead(h) ==
    \E i \in DOMAIN news :
        /\ Begins(news[i], h)
        /\ \A j \in DOMAIN news : j > i => ~ Ends(news[j], h)

Known(h) == NodeOf[h] \in remote /\ Endless(h)

HeardOf ==
    stage = "on" => \A h \in tokens : Excepted(h) \/ Ahead(h) \/ Known(h)

Heard ==
    /\ news \in Seq(Sample)
    /\ stage # "on" => news = <<>>
    /\ HeardOf

LEMMA TokensFinite ==
    ASSUME Held
    PROVE  tokens \in SUBSET ZHandler /\ IsFiniteSet(tokens)
BY FS_Subset DEF Held

\* A handler is excepted for good: no token is declared twice.
LEMMA ExceptedStays ==
    ASSUME Held, made \subseteq made', tokens' \cap made \subseteq tokens,
           NEW h, Excepted(h)
    PROVE  Excepted(h)'
BY DEF Excepted

\* A change of the tokens, however many handlers share one.
LEMMA DeclareHeard ==
    ASSUME Held, Heard, NEW hs \in SUBSET ZHandler, IsFiniteSet(hs),
           Declare(hs), made \subseteq made', tokens' \subseteq made',
           tokens' \cap made \subseteq tokens,
           UNCHANGED <<stage, remote>>
    PROVE  Heard'
<1>1. tokens' = hs
  BY DEF Declare
<1>2. CASE stage # "on"
  BY <1>2 DEF Declare, Heard, HeardOf
<1>3. CASE stage = "on"
  <2> DEFINE puts == Samples("PUT", Alive(hs) \ Alive(tokens))
             ends == Samples("DELETE", Alive(tokens) \ Alive(hs))
  <2>1. news' = news \o puts \o ends
    BY <1>3 DEF Declare
  <2>2. /\ puts \in Seq(Sample)
        /\ \A i \in DOMAIN puts : puts[i].kind = "PUT"
        /\ \A token \in Alive(hs) \ Alive(tokens) :
               \E i \in DOMAIN puts : puts[i].token = token
    <3>1. Alive(hs) \ Alive(tokens) \in SUBSET Alive(hs)
      OBVIOUS
    <3>2. "PUT" \in {"PUT", "DELETE"}
      OBVIOUS
    <3> HIDE DEF Sample
    <3> QED
      BY <3>1, <3>2, SamplesAre
  <2>3. /\ ends \in Seq(Sample)
        /\ \A i \in DOMAIN ends :
               ends[i].token \in Alive(tokens) \ Alive(hs)
    BY SamplesAre, TokensFinite
  <2>4. news \in Seq(Sample)
    BY DEF Heard
  <2> HIDE DEF puts, ends
  <2> DEFINE n == Len(news)
             m == Len(puts)
  <2>5. /\ news' \in Seq(Sample)
        /\ n \in Nat /\ m \in Nat /\ Len(ends) \in Nat
        /\ DOMAIN news = 1..n /\ DOMAIN puts = 1..m
        /\ DOMAIN news' = 1..(n + m + Len(ends))
        /\ \A i \in 1..n : news'[i] = news[i]
        /\ \A i \in 1..m : news'[n + i] = puts[i]
        /\ \A i \in (n + m + 1)..(n + m + Len(ends)) :
               \E j \in DOMAIN ends : news'[i] = ends[j]
    <3>1. \A i \in 1..Len(ends) : i \in DOMAIN ends
      BY <2>3
    <3> HIDE DEF Sample
    <3>2. /\ news' \in Seq(Sample)
          /\ n \in Nat /\ m \in Nat /\ Len(ends) \in Nat
          /\ DOMAIN news = 1..n /\ DOMAIN puts = 1..m
          /\ DOMAIN news' = 1..(n + m + Len(ends))
          /\ \A i \in 1..n : news'[i] = news[i]
          /\ \A i \in 1..m : news'[n + i] = puts[i]
      BY <2>1, <2>2, <2>3, <2>4
    <3>3. \A i \in (n + m + 1)..(n + m + Len(ends)) :
              /\ news'[i] = ends[i - (n + m)]
              /\ i - (n + m) \in 1..Len(ends)
      BY <2>1, <2>2, <2>3, <2>4
    <3> QED
      BY <3>1, <3>2, <3>3
  <2>6. ASSUME NEW h \in tokens'
        PROVE  Excepted(h)' \/ Ahead(h)' \/ Known(h)'
    <3>1. CASE \E i \in DOMAIN ends : ends[i].token.node = NodeOf[h]
      <4>1. PICK i \in DOMAIN ends : ends[i].token.node = NodeOf[h]
        BY <3>1
      <4>2. PICK g \in tokens : ends[i].token = Token(g)
        BY <2>3, <4>1 DEF Alive
      <4>3. Token(g) \notin Alive(hs) /\ Token(h) \in Alive(hs)
        BY <1>1, <2>3, <2>6, <4>2 DEF Alive
      <4>4. NodeOf[g] = NodeOf[h] /\ TypeOf[g] # TypeOf[h]
        BY <4>1, <4>2, <4>3 DEF Token
      <4>5. g \in made' /\ g \notin tokens'
        BY <1>1, <4>2, <4>3 DEF Held, Alive
      <4> QED
        BY <4>4, <4>5 DEF Excepted
    <3>2. CASE \A i \in DOMAIN ends : ends[i].token.node # NodeOf[h]
      <4>1. \A i \in DOMAIN news' :
                i > n => ~ Ends(news'[i], h)
        <5> SUFFICES ASSUME NEW i \in DOMAIN news', i > n
                     PROVE  ~ Ends(news'[i], h)
          OBVIOUS
        <5>1. CASE i <= n + m
          <6>1. i - n \in 1..m /\ news'[n + (i - n)] = puts[i - n]
                /\ n + (i - n) = i
            BY <2>5, <5>1
          <6> QED
            BY <2>2, <2>5, <6>1 DEF Ends
        <5>2. CASE i > n + m
          <6>1. \E j \in DOMAIN ends : news'[i] = ends[j]
            BY <2>5, <5>2
          <6> QED
            BY <3>2, <6>1 DEF Ends
        <5> QED
          BY <2>5, <5>1, <5>2
      <4>2. CASE Token(h) \in Alive(tokens)
        <5>1. PICK g \in tokens : Token(g) = Token(h)
          BY <4>2 DEF Alive
        <5>2. NodeOf[g] = NodeOf[h] /\ TypeOf[g] = TypeOf[h]
          BY <5>1 DEF Token
        <5>3. Excepted(g) \/ Ahead(g) \/ Known(g)
          BY <1>3 DEF Heard, HeardOf
        <5>4. CASE Excepted(g)
          BY <5>2, <5>4, ExceptedStays DEF Excepted
        <5>5. CASE Ahead(g)
          <6>1. PICK i \in DOMAIN news :
                    /\ Begins(news[i], h)
                    /\ \A j \in DOMAIN news : j > i => ~ Ends(news[j], h)
            BY <5>2, <5>5 DEF Ahead, Begins, Ends
          <6>2. i \in DOMAIN news' /\ Begins(news'[i], h)
            BY <2>5, <6>1
          <6>3. \A j \in DOMAIN news' : j > i => ~ Ends(news'[j], h)
            BY <2>5, <4>1, <6>1
          <6> QED
            BY <6>2, <6>3 DEF Ahead, Begins, Ends
        <5>6. CASE Known(g)
          <6>1. \A j \in DOMAIN news : ~ Ends(news[j], h)
            BY <5>2, <5>6 DEF Known, Endless, Ends
          <6>2. \A j \in DOMAIN news' : ~ Ends(news'[j], h)
            BY <2>5, <4>1, <6>1
          <6> QED
            BY <5>2, <5>6, <6>2 DEF Known, Endless, Ends
        <5> QED
          BY <5>3, <5>4, <5>5, <5>6
      <4>3. CASE Token(h) \notin Alive(tokens)
        <5>1. PICK k \in DOMAIN puts : puts[k].token = Token(h)
          BY <1>1, <2>2, <4>3 DEF Alive
        <5>2. /\ n + k \in DOMAIN news' /\ n + k > n
              /\ news'[n + k] = puts[k]
          BY <2>5, <5>1
        <5>3. Begins(news'[n + k], h)
          BY <2>2, <5>1, <5>2 DEF Begins, Token
        <5>4. \A j \in DOMAIN news' : j > n + k => ~ Ends(news'[j], h)
          BY <2>5, <4>1, <5>2
        <5> QED
          BY <5>2, <5>3, <5>4 DEF Ahead, Begins, Ends
      <4> QED
        BY <4>2, <4>3
    <3> QED
      BY <3>1, <3>2
  <2> QED
    BY <1>3, <2>5, <2>6 DEF Heard, HeardOf
<1> QED
  BY <1>2, <1>3

\* The tokens there are when the publisher subscribes to their changes.
LEMMA StartHeard ==
    ASSUME Held, Heard, StartLiveliness
    PROVE  Heard'
<1>1. stage' = "on" /\ news' = Samples("PUT", Alive(tokens))
      /\ UNCHANGED <<tokens, made, remote>>
  BY DEF StartLiveliness, History, subscribing
<1>2. /\ news' \in Seq(Sample)
      /\ \A i \in DOMAIN news' : news'[i].kind = "PUT"
      /\ \A token \in Alive(tokens) : \E i \in DOMAIN news' :
             news'[i].token = token
  <2>1. Alive(tokens) \in SUBSET Alive(tokens)
        /\ "PUT" \in {"PUT", "DELETE"}
    OBVIOUS
  <2> HIDE DEF Sample
  <2> QED
    BY <1>1, <2>1, TokensFinite, SamplesAre
<1>3. ASSUME NEW h \in tokens'
      PROVE  Ahead(h)'
  <2>1. PICK i \in DOMAIN news' : news'[i].token = Token(h)
    BY <1>1, <1>2, <1>3 DEF Alive
  <2>2. Begins(news'[i], h)
    BY <1>2, <2>1 DEF Begins, Token
  <2>3. \A j \in DOMAIN news' : ~ Ends(news'[j], h)
    BY <1>2 DEF Ends
  <2> QED
    BY <2>2, <2>3 DEF Ahead, Begins, Ends
<1> QED
  BY <1>1, <1>2, <1>3 DEF Heard, HeardOf

\* A sample is handled: the one a node was waiting for makes it known.
LEMMA HandledHeard ==
    ASSUME Held, Heard, LivelinessMsgDataHandler
    PROVE  Heard'
<1>1. /\ news # <<>> /\ news' = Tail(news)
      /\ remote' = IF Head(news).kind = "PUT"
                   THEN remote \union {Head(news).token.node}
                   ELSE remote \ {Head(news).token.node}
      /\ UNCHANGED <<tokens, made, stage>>
  BY DEF LivelinessMsgDataHandler, subscribing
<1> DEFINE n == Len(news)
<1>2. /\ news' \in Seq(Sample)
      /\ n \in Nat /\ n > 0
      /\ DOMAIN news = 1..n /\ DOMAIN news' = 1..(n - 1)
      /\ \A i \in 1..(n - 1) : news'[i] = news[i + 1] /\ i + 1 \in 1..n
      /\ Head(news) = news[1] /\ 1 \in DOMAIN news
  <2> HIDE DEF Sample
  <2>1. news \in Seq(Sample) /\ news # <<>>
    BY <1>1 DEF Heard
  <2>2. /\ news' \in Seq(Sample)
        /\ n \in Nat /\ n > 0
        /\ DOMAIN news = 1..n /\ DOMAIN news' = 1..(n - 1)
        /\ \A i \in 1..(n - 1) : news'[i] = news[i + 1]
        /\ Head(news) = news[1]
    BY <1>1, <2>1
  <2> QED
    BY <2>2
<1> HIDE DEF n
<1>3. stage = "on"
  BY <1>1 DEF Heard
<1>4. ASSUME NEW h \in tokens
      PROVE  Excepted(h)' \/ Ahead(h)' \/ Known(h)'
  <2>1. CASE Excepted(h)
    BY <1>1, <2>1 DEF Excepted
  <2>2. CASE Ahead(h)
    <3>1. PICK i \in DOMAIN news :
              /\ Begins(news[i], h)
              /\ \A j \in DOMAIN news : j > i => ~ Ends(news[j], h)
      BY <2>2 DEF Ahead
    <3>2. CASE i = 1
      <4>1. NodeOf[h] \in remote'
        BY <1>1, <1>2, <3>1, <3>2 DEF Begins
      <4>2. \A j \in DOMAIN news' : ~ Ends(news'[j], h)
        BY <1>2, <3>1, <3>2
      <4> QED
        BY <4>1, <4>2 DEF Known, Endless, Ends
    <3>3. CASE i # 1
      <4>1. i - 1 \in DOMAIN news' /\ news'[i - 1] = news[i]
        BY <1>2, <3>3
      <4>2. ASSUME NEW j \in DOMAIN news', j > i - 1
            PROVE  ~ Ends(news'[j], h)
        <5>1. j + 1 > i /\ j + 1 \in DOMAIN news
              /\ news'[j] = news[j + 1]
          BY <1>2, <4>2
        <5> QED
          BY <3>1, <5>1
      <4> QED
        BY <3>1, <4>1, <4>2 DEF Ahead, Begins, Ends
    <3> QED
      BY <3>2, <3>3
  <2>3. CASE Known(h)
    <3>1. \A j \in DOMAIN news : ~ Ends(news[j], h)
      BY <2>3 DEF Known, Endless
    <3>2. \A j \in DOMAIN news' : ~ Ends(news'[j], h)
      BY <1>2, <3>1
    <3>3. NodeOf[h] \in remote'
      <4>1. news[1] \in Sample /\ ~ Ends(news[1], h)
        BY <1>2, <3>1 DEF Heard
      <4> QED
        BY <1>1, <1>2, <2>3, <4>1 DEF Known, Ends, Sample
    <3> QED
      BY <3>2, <3>3 DEF Known, Endless, Ends
  <2> QED
    BY <1>3, <1>4, <2>1, <2>2, <2>3 DEF Heard, HeardOf
<1> QED
  BY <1>1, <1>2, <1>3, <1>4 DEF Heard, HeardOf

LEMMA HeardStep ==
    ASSUME Held, Entering, Heard, [ZenohNext]_zenohvars
    PROVE  Heard'
<1>1. Held'
  BY HeldStep
<1>2. ASSUME UNCHANGED <<tokens, made, news, stage, remote>>
      PROVE  Heard'
  BY <1>2 DEF Heard, HeardOf, Excepted, Ahead, Known, Endless
<1>3. ASSUME NEW hs \in SUBSET tokens, Declare(hs),
             UNCHANGED <<made, stage, remote>>
      PROVE  Heard'
  <2>1. hs \in SUBSET ZHandler /\ IsFiniteSet(hs) /\ tokens' = hs
    BY <1>3, TokensFinite, FS_Subset DEF Declare
  <2>2. made \subseteq made' /\ tokens' \subseteq made'
        /\ tokens' \cap made \subseteq tokens
    BY <1>3, <2>1 DEF Held
  <2> QED
    BY <1>3, <2>1, <2>2, DeclareHeard
<1>4. ASSUME NEW u \in User, NEW h \in ZHandler, MakeHandler(u, h)
      PROVE  Heard'
  <2>1. /\ h \notin made /\ made' = made \union {h}
        /\ Declare(tokens \union {h})
        /\ UNCHANGED <<stage, remote>>
    BY <1>4 DEF MakeHandler, publishervars
  <2>2. tokens \union {h} \in SUBSET ZHandler
        /\ IsFiniteSet(tokens \union {h})
    BY TokensFinite, FS_AddElement
  <2>3. tokens' = tokens \union {h}
    BY <2>1 DEF Declare
  <2>4. made \subseteq made' /\ tokens' \subseteq made'
        /\ tokens' \cap made \subseteq tokens
    BY <2>1, <2>3 DEF Held
  <2> QED
    BY <2>1, <2>2, <2>4, DeclareHeard
<1>5. ASSUME NEW t \in Thread, NEW hs \in Unsubscribed, ZUnsubscribe(t, hs)
      PROVE  Heard'
  <2>1. Declare(tokens \ (hs \ taken)) /\ UNCHANGED <<made, stage, remote>>
    BY <1>5 DEF ZUnsubscribe, publishervars
  <2> QED
    BY <1>3, <2>1
<1>6. CASE EndCallback
  <2>1. Declare(tokens \ (taken \ handlers))
        /\ UNCHANGED <<made, stage, remote>>
    BY <1>6 DEF EndCallback, subscribing, publishervars
  <2> QED
    BY <1>3, <2>1
<1>7. CASE DrainTokens
  BY <1>7 DEF DrainTokens, subscribing, Heard, HeardOf
<1>8. ASSUME NEW u \in User, ZSubscribe(u)
      PROVE  Heard'
  BY <1>2, <1>8 DEF ZSubscribe, publishervars
<1>9. ASSUME NEW t \in Thread, Unlock(t)
      PROVE  Heard'
  BY <1>2, <1>9 DEF Unlock, publishervars
<1>10. ASSUME NEW s \in DOMAIN subscribers, Destroy(s)
       PROVE  Heard'
  BY <1>2, <1>10 DEF Destroy, Undeclare, Undeclared, Move, publishervars
<1>11. ASSUME NEW h \in ZHandler, RunCallback(h)
       PROVE  Heard'
  BY <1>2, <1>11 DEF RunCallback, subscribing, publishervars
<1>12. CASE TestActive \/ TakeHandlers \/ Arrive \/ Publish
  BY <1>2, <1>12 DEF TestActive, TakeHandlers, Arrive, Publish, subscribing,
                     publishervars
<1>13. CASE UNCHANGED zenohvars
  BY <1>2, <1>13 DEF zenohvars
<1> QED
  BY <1>4, <1>5, <1>6, <1>7, <1>8, <1>9, <1>10, <1>11, <1>12, <1>13,
     StartHeard, HandledHeard
     DEF ZenohNext, Continue, Callback

(***************************************************************************)
(* The theorems.                                                           *)
(***************************************************************************)
ZInv == Held /\ Entering /\ Subs /\ Ordered /\ Heard

LEMMA Invariant == ZenohSpec => []ZInv
<1>1. ZenohInit => ZInv
  <2> SUFFICES ASSUME ZenohInit
               PROVE  Heard
    BY InitHeld, InitOrdered DEF ZInv
  <2>1. news = <<>> /\ stage = "off"
    BY DEF ZenohInit
  <2>2. news \in Seq(Sample)
    <3> HIDE DEF Sample
    <3> QED
      BY <2>1
  <2> QED
    BY <2>1, <2>2 DEF Heard, HeardOf
<1>2. ZInv /\ [ZenohNext]_zenohvars => ZInv'
  BY HeldStep, SubsStep, OrderedStep, HeardStep DEF ZInv
<1> QED
  BY <1>1, <1>2, PTL DEF ZenohSpec

\* However many Zenoh subscribers are declared, retired and undeclared while
\* samples come, and whoever unsubscribes, a callback among them: whoever
\* looks with the mutex finds a subscriber just when there are handlers, and
\* each handler is run with a message at most once, in the order in which
\* they were published (EnsureZenohSubscription,
\* MaybeRemoveZenohSubscription: NodeShared.cc:1967-2045).
THEOREM HandlersRunOnce == ZenohSpec => []OneSubscription
<1>1. ZInv => OneSubscription
  BY DEF ZInv, Subs, Ordered, Ran, OneSubscription
<1> QED
  BY <1>1, Invariant, PTL

\* A publishing process that has read all the news knows the nodes of all
\* the handlers of the subscribing one, in whatever order the start of the
\* one fell between the calls of the other, but for a node that gave up a
\* handler of another type (NodeShared.cc:308-352).
THEOREM NodesAreHeard == ZenohSpec => []NodesHeard
<1>1. ZInv => NodesHeard
  <2> SUFFICES ASSUME ZInv, stage = "on", news = <<>>, NEW h \in handlers
               PROVE  NodeOf[h] \in remote \/ Excepted(h)
    BY DEF NodesHeard, Excepted
  <2>1. h \in tokens
    BY DEF ZInv, Held
  <2>2. ~ Ahead(h)
    BY DEF Ahead
  <2> QED
    BY <2>1, <2>2 DEF ZInv, Heard, HeardOf, Known
<1> QED
  BY <1>1, Invariant, PTL

\* What a callback holds keeps its token, and what is stored has one.
THEOREM TypesKept == ZenohSpec => []ZenohTypeOK
<1> DEFINE PutOK == put \in 0..MaxPut
<1>1. ZenohInit => PutOK
  BY PutAssumption DEF ZenohInit
<1>2. PutOK /\ [ZenohNext]_zenohvars => PutOK'
  <2> SUFFICES ASSUME PutOK, [ZenohNext]_zenohvars
               PROVE  put' = put \/ (put < MaxPut /\ put' = put + 1)
    BY PutAssumption
  <2> QED
    BY DEF ZenohNext, Continue, Callback, MakeHandler, ZUnsubscribe,
           ZSubscribe, Unlock, Destroy, Undeclare, Undeclared, Move,
           TestActive, TakeHandlers, RunCallback, EndCallback, Arrive,
           DrainTokens, StartLiveliness, LivelinessMsgDataHandler, Publish,
           publishervars, zenohvars
<1>3. ZInv /\ PutOK => ZenohTypeOK
  BY DEF ZInv, Held, Subs, ZenohTypeOK
<1> QED
  BY <1>1, <1>2, <1>3, Invariant, PTL DEF ZenohSpec

\* All of it: a node has one Zenoh subscription for each topic it listens
\* to, and a publisher knows the nodes that listen (NodeShared.cc:1967-2044,
\* Discovery.hh:308-503).
THEOREM HearsOverZenoh == ZenohSpec => []ZenohHears
BY TypesKept, HandlersRunOnce, NodesAreHeard, PTL DEF ZenohHears

(***************************************************************************)
(* Services.                                                               *)
(***************************************************************************)

Types ==
    /\ offers \in Nat /\ queryables \in SUBSET Nat
    /\ arrived \in SUBSET Request /\ replies \in SUBSET Request
    /\ serving \in [Request -> Nat]
    /\ served \in [Request -> Seq(BOOLEAN)]
    /\ answers \in [Request -> Seq(BOOLEAN)]
    /\ srvKnown \in BOOLEAN /\ connecting \in BOOLEAN
    /\ srvQueue \in Nat /\ failures \in Nat
    /\ stored \in SUBSET Request /\ IsFiniteSet(stored)
    /\ requested \in SUBSET Request /\ available \in SUBSET Request
    /\ query \in [Request -> {"none", "open", "replied", "over"}]
    /\ call \in [Request -> {"new", "sent", "test", "tested", "asleep",
                             "awake", "answered", "failed"}]

(***************************************************************************)
(* The course of a request: it is fired once, what was fired arrives once, *)
(* what arrived is served once, and the one reply is that service's.       *)
(***************************************************************************)
Course(r) ==
    /\ call[r] = "new" => r \notin stored /\ r \notin requested
    /\ r \in requested <=> query[r] # "none"
    /\ r \in arrived => r \in requested
    /\ r \notin arrived => serving[r] = 0 /\ served[r] = <<>>
    /\ serving[r] # 0 => served[r] = <<>>
    /\ served[r] = <<>> => r \notin replies /\ answers[r] = <<>>
    /\ r \in replies => served[r] = <<TRUE>>
    /\ query[r] = "open" => answers[r] = <<>>
    /\ r \in available <=> answers[r] # <<>>

Courses == \A r \in Request : Course(r)

\* Firing moves requests that were not fired before, and leaves the storage
\* with those that were in it.
LEMMA Fired ==
    ASSUME Types, NEW waiting \in SUBSET Request, IsFiniteSet(waiting),
           SendPendingRemoteReqs(waiting)
    PROVE  \E fired \in SUBSET (waiting \ requested) :
              /\ requested' = requested \union fired
              /\ query' = [r \in Request |-> IF r \in fired THEN "open"
                                            ELSE query[r]]
              /\ arrived' = arrived \ fired
              /\ stored' \in SUBSET waiting /\ IsFiniteSet(stored')
              /\ failures' \in Nat /\ failures <= failures'
              /\ failures' = failures => fired = waiting \ requested
<1> DEFINE unsent == waiting \ requested
<1>1. PICK failed \in SUBSET unsent :
          LET fired == unsent \ failed IN
          /\ failures' = failures + Cardinality(failed)
          /\ requested' = requested \union fired
          /\ query' = [r \in Request |->
                           IF r \in fired THEN "open" ELSE query[r]]
          /\ arrived' = arrived \ fired
          /\ stored' = waiting \ {r \in unsent : r.oneWay}
  BY DEF SendPendingRemoteReqs
<1>2. IsFiniteSet(failed) /\ IsFiniteSet(stored')
  BY <1>1, FS_Subset
<1>3. Cardinality(failed) \in Nat /\ (Cardinality(failed) = 0 => failed = {})
  BY <1>2, FS_CardinalityType, FS_EmptySet
<1>4. /\ failures' \in Nat /\ failures <= failures'
      /\ failures' = failures => failed = {}
  BY <1>1, <1>3 DEF Types
<1> WITNESS unsent \ failed \in SUBSET (waiting \ requested)
<1> QED
  BY <1>1, <1>2, <1>4

LEMMA InitCourses == ZenohSrvInit => Types /\ Courses
<1> SUFFICES ASSUME ZenohSrvInit
             PROVE  Types /\ Courses
  OBVIOUS
<1>1. IsFiniteSet(stored)
  BY FS_EmptySet DEF ZenohSrvInit
<1>2. <<>> \in Seq(BOOLEAN)
  OBVIOUS
<1> QED
  BY <1>1, <1>2 DEF ZenohSrvInit, Types, Courses, Course

\* The variables of a request's course and of its types, and no more.
LEMMA FiredCourses ==
    ASSUME Types, Courses, NEW waiting \in SUBSET Request,
           IsFiniteSet(waiting), SendPendingRemoteReqs(waiting),
           \A r \in waiting : call'[r] # "new",
           \A r \in Request : call'[r] = "new" => call[r] = "new",
           call' \in [Request -> {"new", "sent", "test", "tested", "asleep",
                                  "awake", "answered", "failed"}],
           UNCHANGED <<serving, served, replies, available, answers>>
    PROVE  /\ Courses'
           /\ stored' \in SUBSET Request /\ IsFiniteSet(stored')
           /\ requested' \in SUBSET Request /\ arrived' \in SUBSET Request
           /\ query' \in [Request -> {"none", "open", "replied", "over"}]
           /\ failures' \in Nat
<1>1. PICK fired \in SUBSET (waiting \ requested) :
          /\ requested' = requested \union fired
          /\ query' = [r \in Request |-> IF r \in fired THEN "open"
                                        ELSE query[r]]
          /\ arrived' = arrived \ fired
          /\ stored' \in SUBSET waiting /\ IsFiniteSet(stored')
          /\ failures' \in Nat
  BY Fired
<1>2. ASSUME NEW r \in Request
      PROVE  Course(r)'
  <2>1. Course(r)
    BY DEF Courses
  <2>2. query'[r] = IF r \in fired THEN "open" ELSE query[r]
    BY <1>1
  <2>3. CASE r \in fired
    <3>1. r \notin requested /\ r \notin arrived /\ r \in requested'
          /\ call'[r] # "new"
      BY <1>1, <2>1, <2>3 DEF Course
    <3> QED
      BY <1>1, <2>1, <2>2, <2>3, <3>1 DEF Course
  <2>4. CASE r \notin fired
    <3>1. /\ r \in requested' <=> r \in requested
          /\ r \in arrived' <=> r \in arrived
          /\ query'[r] = query[r]
          /\ r \in stored' => r \in waiting
      BY <1>1, <2>2, <2>4
    <3>2. call'[r] = "new" => r \notin stored' /\ r \notin requested'
      BY <2>1, <3>1 DEF Course
    <3> QED
      BY <2>1, <3>1, <3>2 DEF Course
  <2> QED
    BY <2>3, <2>4
<1> QED
  BY <1>1, <1>2 DEF Courses, Types

LEMMA ServerCourses ==
    ASSUME Types, Courses,
           \/ AdvertiseSrv \/ UnadvertiseSrv
           \/ \E n \in queryables : DestroyQueryable(n)
           \/ \E r \in Request, n \in queryables : OnQuery(r, n)
           \/ \E r \in Request, result \in BOOLEAN : RunSrvCallback(r, result)
    PROVE  Types' /\ Courses'
<1>1. CASE AdvertiseSrv
  <2>1. /\ offers' = offers + 1
        /\ queryables' = queryables \union {offers'}
        /\ UNCHANGED <<arrived, serving, served, replies, srvKnown, connecting,
                       srvQueue, callvars, requestvars>>
    BY <1>1 DEF AdvertiseSrv
  <2>2. Types'
    BY <2>1 DEF callvars, requestvars, Types
  <2>3. Courses'
    BY <2>1 DEF callvars, requestvars, Courses, Course
  <2> QED
    BY <2>2, <2>3
<1>2. CASE UnadvertiseSrv
  BY <1>2 DEF UnadvertiseSrv, discoveryvars, callvars, requestvars, Types,
              Courses, Course
<1>3. ASSUME NEW n \in queryables, DestroyQueryable(n)
      PROVE  Types' /\ Courses'
  BY <1>3 DEF DestroyQueryable, callvars, requestvars, Types, Courses, Course
<1>4. ASSUME NEW r \in Request, NEW n \in queryables, OnQuery(r, n)
      PROVE  Types' /\ Courses'
  <2>1. /\ query[r] = "open" /\ r \notin arrived
        /\ arrived' = arrived \union {r}
        /\ serving' \in {serving, [serving EXCEPT ![r] = n]}
        /\ UNCHANGED <<offers, queryables, served, replies, srvKnown,
                       connecting, srvQueue, failures, stored, requested,
                       available, query, call, answers>>
    BY <1>4 DEF OnQuery, offervars, discoveryvars, callvars, requestvars
  <2>2. Types'
    BY <2>1 DEF Types
  <2>3. ASSUME NEW q \in Request
        PROVE  Course(q)'
    BY <2>1 DEF Types, Courses, Course
  <2> QED
    BY <2>2, <2>3 DEF Courses
<1>5. ASSUME NEW r \in Request, NEW result \in BOOLEAN,
             RunSrvCallback(r, result)
      PROVE  Types' /\ Courses'
  <2>1. /\ serving[r] # 0
        /\ serving' = [serving EXCEPT ![r] = 0]
        /\ served' = [served EXCEPT ![r] = Append(served[r], result)]
        /\ replies' = IF result THEN replies \union {r} ELSE replies
        /\ UNCHANGED <<offers, queryables, arrived, srvKnown, connecting,
                       srvQueue, failures, stored, requested, available,
                       query, call, answers>>
    BY <1>5 DEF RunSrvCallback, offervars, discoveryvars, callvars, requestvars
  <2>2. served[r] = <<>> /\ r \in arrived
    BY <2>1 DEF Courses, Course
  <2>3. served' = [served EXCEPT ![r] = <<result>>]
    BY <2>1, <2>2
  <2>4. /\ served'[r] = <<result>> /\ served'[r] # <<>> /\ serving'[r] = 0
        /\ <<result>> \in Seq(BOOLEAN)
        /\ \A q \in Request \ {r} :
               /\ served'[q] = served[q]
               /\ serving'[q] = serving[q]
               /\ q \in replies' <=> q \in replies
    <3>1. <<result>> \in Seq(BOOLEAN) /\ <<result>> # <<>>
      OBVIOUS
    <3>2. served'[r] = <<result>>
      BY <2>3 DEF Types
    <3>3. \A q \in Request : q # r => served'[q] = served[q]
      BY <2>3 DEF Types
    <3>4. \A q \in Request : q # r => serving'[q] = serving[q]
      BY <2>1 DEF Types
    <3>5. \A q \in Request : q # r => (q \in replies' <=> q \in replies)
      BY <2>1
    <3>6. serving'[r] = 0
      BY <2>1 DEF Types
    <3> QED
      BY <3>1, <3>2, <3>3, <3>4, <3>5, <3>6
  <2>5. Types'
    BY <2>1, <2>3, <2>4 DEF Types
  <2>6. r \in replies' => served'[r] = <<TRUE>>
    <3>1. r \in replies' => result = TRUE
      BY <2>1, <2>2 DEF Courses, Course
    <3> QED
      BY <2>4, <3>1
  <2>7. ASSUME NEW q \in Request
        PROVE  Course(q)'
    <3>1. CASE q = r
      <4>1. Course(r)
        BY DEF Courses
      <4> QED
        BY <2>1, <2>2, <2>4, <2>6, <3>1, <4>1 DEF Course
    <3>2. CASE q # r
      <4>1. Course(q)
        BY DEF Courses
      <4>2. /\ served'[q] = served[q] /\ serving'[q] = serving[q]
            /\ q \in replies' <=> q \in replies
        BY <2>4, <3>2
      <4>3. UNCHANGED <<arrived, stored, requested, available, query, call,
                        answers>>
        BY <2>1
      <4> QED
        BY <4>1, <4>2, <4>3 DEF Course
    <3> QED
      BY <3>1, <3>2
  <2> QED
    BY <2>5, <2>7 DEF Courses
<1> QED
  BY <1>1, <1>2, <1>3, <1>4, <1>5

\* Asking, waiting, and the ends of waits.
LEMMA CallerCourses ==
    ASSUME Types, Courses, NEW r \in Request, Ask(r) \/ Caller(r)
    PROVE  Types' /\ Courses'
<1>1. CASE Ask(r)
  <2>1. /\ call[r] = "new"
        /\ call' = [call EXCEPT ![r] = IF r.blocking THEN "test" ELSE "sent"]
        /\ UNCHANGED <<offers, srvOffered, queryables, serving, served,
                       replies, srvNews, srvKnown, connecting, srvQueue,
                       available, answers>>
    BY <1>1 DEF Ask, offervars, discoveryvars
  <2>2. /\ call' \in [Request -> {"new", "sent", "test", "tested", "asleep",
                                  "awake", "answered", "failed"}]
        /\ call'[r] # "new"
        /\ \A q \in Request \ {r} : call'[q] = call[q]
    BY <2>1 DEF Types
  <2>3. \A q \in Request : call'[q] = "new" => call[q] = "new"
    BY <2>1, <2>2
  <2>4. /\ stored \union {r} \in SUBSET Request
        /\ IsFiniteSet(stored \union {r})
    BY FS_AddElement DEF Types
  <2>5. CASE srvKnown
    <3>1. SendPendingRemoteReqs(stored \union {r})
      BY <1>1, <2>5 DEF Ask
    <3>2. \A q \in stored \union {r} : call'[q] # "new"
      BY <2>2, <2>3 DEF Courses, Course, Types
    <3>3. /\ Courses'
          /\ stored' \in SUBSET Request /\ IsFiniteSet(stored')
          /\ requested' \in SUBSET Request /\ arrived' \in SUBSET Request
          /\ query' \in [Request -> {"none", "open", "replied", "over"}]
          /\ failures' \in Nat
      BY <2>1, <2>2, <2>3, <2>4, <3>1, <3>2, FiredCourses
    <3> QED
      BY <2>1, <2>2, <3>3 DEF Types
  <2>6. CASE ~ srvKnown
    <3>1. stored' = stored \union {r}
          /\ UNCHANGED <<requested, query, failures, arrived>>
      BY <1>1, <2>6 DEF Ask
    <3>2. Types'
      BY <2>1, <2>2, <2>4, <3>1 DEF Types
    <3>3. ASSUME NEW q \in Request
          PROVE  Course(q)'
      <4>1. Course(q)
        BY DEF Courses
      <4>2. call'[q] = "new" => q # r /\ call[q] = "new"
        BY <2>2, <2>3
      <4>3. call'[q] = "new" => q \notin stored' /\ q \notin requested'
        BY <3>1, <4>1, <4>2 DEF Course
      <4> QED
        BY <2>1, <3>1, <4>1, <4>3 DEF Course
    <3> QED
      BY <3>2, <3>3 DEF Courses
  <2> QED
    BY <2>5, <2>6
<1>2. ASSUME NEW to \in {"tested", "asleep", "answered", "failed"},
             call' = [call EXCEPT ![r] = to],
             stored' \in {stored, stored \ {r}},
             UNCHANGED <<servervars, replies, discoveryvars, available,
                         answers, requested, query, failures>>
      PROVE  Types' /\ Courses'
  <2>1. /\ call' \in [Request -> {"new", "sent", "test", "tested", "asleep",
                                  "awake", "answered", "failed"}]
        /\ \A q \in Request : call'[q] = "new" => call[q] = "new"
    BY <1>2 DEF Types
  <2>2. stored' \in SUBSET Request /\ IsFiniteSet(stored')
        /\ stored' \subseteq stored
    BY <1>2, FS_Subset DEF Types
  <2>3. UNCHANGED <<offers, srvOffered, queryables, arrived, serving, served,
                    replies, srvNews, srvKnown, connecting, srvQueue,
                    available, answers, requested, query, failures>>
    BY <1>2 DEF servervars, offervars, discoveryvars
  <2>4. Types'
    BY <2>1, <2>2, <2>3 DEF Types
  <2>5. ASSUME NEW q \in Request
        PROVE  Course(q)'
    <3>1. Course(q)
      BY DEF Courses
    <3> QED
      BY <2>1, <2>2, <2>3, <3>1 DEF Course
  <2> QED
    BY <2>4, <2>5 DEF Courses
<1>3. CASE Return(r)
  BY <1>2, <1>3 DEF Return
<1>4. ASSUME NEW to \in {"tested", "asleep"}, NEW holder, Step(r, to, holder)
      PROVE  Types' /\ Courses'
  BY <1>2, <1>4 DEF Step, requestvars
<1> QED
  BY <1>1, <1>3, <1>4 DEF Caller, Test, Sleep, Wake, TimeOut

LEMMA ReplyCourses ==
    ASSUME Types, Courses, NEW r \in Request, OnReply(r) \/ OnDone(r)
    PROVE  Types' /\ Courses'
<1>1. CASE OnReply(r)
  <2>1. /\ query[r] = "open" /\ r \in replies
        /\ query' = [query EXCEPT ![r] = "replied"]
        /\ replies' = replies \ {r}
        /\ UNCHANGED <<offers, srvOffered, queryables, arrived, serving,
                       served, srvNews, srvKnown, connecting, srvQueue, stored,
                       requested, failures>>
    BY <1>1 DEF OnReply, servervars, offervars, discoveryvars
  <2>2. answers[r] = <<>> /\ served[r] = <<TRUE>> /\ r \in requested
    BY <2>1 DEF Courses, Course
  <2>0. <<TRUE>> # <<>> /\ <<TRUE>> \in Seq(BOOLEAN)
    OBVIOUS
  <2>3. CASE UNCHANGED <<answers, available, call>>
    <3>1. Types'
      BY <2>1, <2>3 DEF Types
    <3>2. ASSUME NEW q \in Request
          PROVE  Course(q)'
      <4>1. Course(q)
        BY DEF Courses
      <4>2. query'[q] = IF q = r THEN "replied" ELSE query[q]
        BY <2>1 DEF Types
      <4>3. /\ q \in replies' => q \in replies
            /\ query'[q] = "none" <=> query[q] = "none"
            /\ query'[q] = "open" => query[q] = "open"
        BY <2>1, <4>2
      <4> QED
        BY <2>1, <2>3, <4>1, <4>3 DEF Course
    <3> QED
      BY <3>1, <3>2 DEF Courses
  <2>4. CASE /\ answers' = [answers EXCEPT ![r] = Append(answers[r], TRUE)]
             /\ available' = available \union {r}
             /\ call' = IF call[r] = "asleep"
                        THEN [call EXCEPT ![r] = "awake"] ELSE call
    <3>1. answers' = [answers EXCEPT ![r] = <<TRUE>>]
      BY <2>2, <2>4
    <3>2. Types'
      BY <2>1, <2>2, <2>4, <3>1 DEF Types
    <3>3. ASSUME NEW q \in Request
          PROVE  Course(q)'
      <4>1. Course(q)
        BY DEF Courses
      <4>2. /\ query'[q] = IF q = r THEN "replied" ELSE query[q]
            /\ answers'[q] = IF q = r THEN <<TRUE>> ELSE answers[q]
            /\ call'[q] = "new" => call[q] = "new"
        BY <2>1, <2>4, <3>1 DEF Types
      <4>3. /\ q \in replies' => q \in replies
            /\ query'[q] = "none" <=> query[q] = "none"
            /\ query'[q] = "open" => query[q] = "open" /\ q # r
            /\ q \in available' <=> q \in available \/ q = r
        BY <2>1, <2>4, <4>2
      <4>4. q = r => answers'[q] # <<>> /\ served[q] # <<>>
        BY <2>0, <2>2, <4>2
      <4>5. q # r => answers'[q] = answers[q]
        BY <4>2
      <4> QED
        BY <2>1, <4>1, <4>2, <4>3, <4>4, <4>5 DEF Course
    <3> QED
      BY <3>2, <3>3 DEF Courses
  <2> QED
    BY <1>1, <2>3, <2>4 DEF OnReply
<1>2. CASE OnDone(r)
  <2>1. /\ query[r] \in {"open", "replied"}
        /\ query' = [query EXCEPT ![r] = "over"]
        /\ stored' = stored \ {r}
        /\ UNCHANGED <<offers, srvOffered, queryables, arrived, serving,
                       served, replies, srvNews, srvKnown, connecting,
                       srvQueue, available, call, answers, requested,
                       failures>>
    BY <1>2 DEF OnDone, servervars, offervars, discoveryvars, callvars
  <2>2. IsFiniteSet(stored')
    BY <2>1, FS_Subset DEF Types
  <2>3. Types'
    BY <2>1, <2>2 DEF Types
  <2>4. ASSUME NEW q \in Request
        PROVE  Course(q)'
    <3>1. Course(q)
      BY DEF Courses
    <3>2. /\ query'[q] = "none" <=> query[q] = "none"
          /\ query'[q] = "open" => query[q] = "open"
          /\ q \in stored' => q \in stored
      BY <2>1 DEF Types
    <3> QED
      BY <2>1, <3>1, <3>2 DEF Course
  <2> QED
    BY <2>3, <2>4 DEF Courses
<1> QED
  BY <1>1, <1>2

LEMMA ThreadCourses ==
    ASSUME Types, Courses,
           LivelinessSrvDataHandler \/ OnNewSrvConnection \/ ServiceThread
    PROVE  Types' /\ Courses'
<1>1. CASE LivelinessSrvDataHandler
  BY <1>1 DEF LivelinessSrvDataHandler, servervars, offervars, callvars,
              requestvars, Types, Courses, Course
<1>2. CASE OnNewSrvConnection
  <2>1. /\ connecting' = FALSE /\ srvQueue' \in {srvQueue, srvQueue + 1}
        /\ UNCHANGED <<offers, queryables, arrived, serving, served, replies,
                       srvKnown, available, call, answers, stored, requested,
                       query, failures>>
    BY <1>2 DEF OnNewSrvConnection, servervars, offervars, callvars,
                requestvars
  <2>2. srvQueue' \in Nat
    BY <2>1 DEF Types
  <2>3. Types'
    BY <2>1, <2>2 DEF Types
  <2>4. Courses'
    BY <2>1 DEF Courses, Course
  <2> QED
    BY <2>3, <2>4
<1>3. CASE ServiceThread
  <2>1. /\ srvQueue > 0 /\ srvQueue' = srvQueue - 1
        /\ UNCHANGED <<offers, srvOffered, queryables, serving, served,
                       replies, srvNews, srvKnown, connecting, available, call,
                       answers>>
    BY <1>3 DEF ServiceThread, offervars, callvars
  <2>2. CASE srvKnown
    <3>1. SendPendingRemoteReqs(stored)
      BY <1>3, <2>2 DEF ServiceThread
    <3>2. \A q \in stored : call'[q] # "new"
      BY <2>1 DEF Courses, Course, Types
    <3>3. /\ Courses'
          /\ stored' \in SUBSET Request /\ IsFiniteSet(stored')
          /\ requested' \in SUBSET Request /\ arrived' \in SUBSET Request
          /\ query' \in [Request -> {"none", "open", "replied", "over"}]
          /\ failures' \in Nat
      BY <2>1, <3>1, <3>2, FiredCourses DEF Types
    <3> QED
      BY <2>1, <3>3 DEF Types
  <2>3. CASE ~ srvKnown
    <3>1. UNCHANGED <<arrived, stored, requested, query, failures>>
      BY <1>3, <2>3 DEF ServiceThread, requestvars
    <3>2. Types'
      BY <2>1, <3>1 DEF Types
    <3>3. Courses'
      BY <2>1, <3>1 DEF Courses, Course
    <3> QED
      BY <3>2, <3>3
  <2> QED
    BY <2>2, <2>3
<1> QED
  BY <1>1, <1>2, <1>3

LEMMA CoursesStep ==
    ASSUME Types, Courses, [ZenohSrvNext]_zsrvvars
    PROVE  Types' /\ Courses'
<1>1. CASE UNCHANGED zsrvvars
  BY <1>1 DEF zsrvvars, servervars, offervars, discoveryvars, callvars,
              requestvars, Types, Courses, Course
<1> QED
  BY <1>1, ServerCourses, CallerCourses, ReplyCourses, ThreadCourses
     DEF ZenohSrvNext, ContinueSrv

(***************************************************************************)
(* The storage.  A request that was fired leaves it at the end of its      *)
(* query, at the latest; one that was not, while a responder is known, *)
(* has somebody who will fire it, unless a query could not be fired.       *)
(***************************************************************************)
FiredLeave == \A r \in stored \cap requested : query[r] \in {"open", "replied"}

PendingWoken ==
    srvKnown /\ failures = 0 /\ stored \ requested # {}
        => connecting \/ srvQueue > 0

Kept == FiredLeave /\ PendingWoken

LEMMA FiredKept ==
    ASSUME Types, Courses, Kept, NEW waiting \in SUBSET Request,
           IsFiniteSet(waiting), SendPendingRemoteReqs(waiting),
           \A r \in waiting \cap requested : r \in stored
    PROVE  FiredLeave' /\ (failures' = 0 => stored' \subseteq requested')
<1>1. PICK fired \in SUBSET (waiting \ requested) :
          /\ requested' = requested \union fired
          /\ query' = [r \in Request |-> IF r \in fired THEN "open"
                                        ELSE query[r]]
          /\ stored' \in SUBSET waiting
          /\ failures' \in Nat /\ failures <= failures'
          /\ failures' = failures => fired = waiting \ requested
  BY Fired
<1>2. ASSUME NEW r \in stored' \cap requested'
      PROVE  query'[r] \in {"open", "replied"}
  <2>1. r \in waiting /\ r \in Request
    BY <1>1
  <2>2. CASE r \in fired
    BY <1>1, <2>1, <2>2
  <2>3. CASE r \notin fired
    <3>1. r \in stored \cap requested /\ query'[r] = query[r]
      BY <1>1, <2>1, <2>3
    <3> QED
      BY <3>1 DEF Kept, FiredLeave
  <2> QED
    BY <2>2, <2>3
<1>3. failures' = 0 => failures' = failures
  BY <1>1 DEF Types
<1> QED
  BY <1>1, <1>2, <1>3 DEF FiredLeave

LEMMA KeptStep ==
    ASSUME Types, Courses, Kept, [ZenohSrvNext]_zsrvvars
    PROVE  Kept'
<1>1. ASSUME UNCHANGED <<stored, requested, query, srvKnown, connecting,
                         srvQueue, failures>>
      PROVE  Kept'
  BY <1>1 DEF Kept, FiredLeave, PendingWoken
<1>2. CASE \/ AdvertiseSrv \/ UnadvertiseSrv
           \/ \E n \in queryables : DestroyQueryable(n)
           \/ \E r \in Request, n \in queryables : OnQuery(r, n)
           \/ \E r \in Request, result \in BOOLEAN : RunSrvCallback(r, result)
           \/ UNCHANGED zsrvvars
  BY <1>1, <1>2 DEF AdvertiseSrv, UnadvertiseSrv, DestroyQueryable, OnQuery,
                    RunSrvCallback, discoveryvars, requestvars, zsrvvars
<1>3. ASSUME NEW r \in Request, Ask(r)
      PROVE  Kept'
  <2>1. call[r] = "new" /\ UNCHANGED <<srvKnown, connecting, srvQueue>>
    BY <1>3 DEF Ask, discoveryvars
  <2>2. CASE srvKnown
    <3>1. SendPendingRemoteReqs(stored \union {r})
      BY <1>3, <2>2 DEF Ask
    <3>2. /\ stored \union {r} \in SUBSET Request
          /\ IsFiniteSet(stored \union {r})
      BY FS_AddElement DEF Types
    <3>3. r \notin requested
      BY <2>1 DEF Courses, Course
    <3>4. FiredLeave' /\ (failures' = 0 => stored' \subseteq requested')
      BY <3>1, <3>2, <3>3, FiredKept
    <3> QED
      BY <3>4 DEF Kept, PendingWoken
  <2>3. CASE ~ srvKnown
    <3>1. stored' = stored \union {r} /\ UNCHANGED <<requested, query>>
      BY <1>3, <2>3 DEF Ask
    <3>2. r \notin requested
      BY <2>1 DEF Courses, Course
    <3>3. FiredLeave'
      BY <3>1, <3>2 DEF Kept, FiredLeave
    <3> QED
      BY <2>1, <2>3, <3>3 DEF Kept, PendingWoken
  <2> QED
    BY <2>2, <2>3
<1>4. ASSUME NEW r \in Request, stored' \in {stored, stored \ {r}},
             UNCHANGED <<requested, query, srvKnown, connecting, srvQueue,
                         failures>>
      PROVE  Kept'
  BY <1>4 DEF Kept, FiredLeave, PendingWoken
<1>5. ASSUME NEW r \in Request, Return(r)
      PROVE  Kept'
  BY <1>4, <1>5 DEF Return, discoveryvars
<1>6. ASSUME NEW r \in Request, NEW to, NEW holder, Step(r, to, holder)
      PROVE  Kept'
  BY <1>1, <1>6 DEF Step, discoveryvars, requestvars
<1>7. ASSUME NEW r \in Request, OnReply(r)
      PROVE  Kept'
  <2>1. /\ query' = [query EXCEPT ![r] = "replied"]
        /\ UNCHANGED <<stored, requested, srvKnown, connecting, srvQueue,
                       failures>>
    BY <1>7 DEF OnReply, discoveryvars
  <2> QED
    BY <2>1 DEF Types, Kept, FiredLeave, PendingWoken
<1>8. ASSUME NEW r \in Request, OnDone(r)
      PROVE  Kept'
  <2>1. /\ query' = [query EXCEPT ![r] = "over"] /\ stored' = stored \ {r}
        /\ UNCHANGED <<requested, srvKnown, connecting, srvQueue, failures>>
    BY <1>8 DEF OnDone, discoveryvars
  <2> QED
    BY <2>1 DEF Types, Kept, FiredLeave, PendingWoken
<1>9. CASE LivelinessSrvDataHandler
  BY <1>9 DEF LivelinessSrvDataHandler, requestvars, Kept, FiredLeave,
              PendingWoken
<1>10. CASE OnNewSrvConnection
  BY <1>10 DEF OnNewSrvConnection, requestvars, Types, Kept, FiredLeave,
               PendingWoken
<1>11. CASE ServiceThread
  <2>1. CASE srvKnown
    <3>1. SendPendingRemoteReqs(stored)
      BY <1>11, <2>1 DEF ServiceThread
    <3>2. FiredLeave' /\ (failures' = 0 => stored' \subseteq requested')
      BY <3>1, FiredKept DEF Types
    <3> QED
      BY <3>2 DEF Kept, PendingWoken
  <2>2. CASE ~ srvKnown
    BY <1>11, <2>2 DEF ServiceThread, requestvars, Kept, FiredLeave,
                       PendingWoken
  <2> QED
    BY <2>1, <2>2
<1> QED
  BY <1>2, <1>3, <1>5, <1>6, <1>7, <1>8, <1>9, <1>10, <1>11
     DEF ZenohSrvNext, ContinueSrv, Caller, Test, Sleep, Wake, TimeOut

(***************************************************************************)
(* The refinement.                                                         *)
(***************************************************************************)
LEMMA StatusIs ==
    ASSUME Types
    PROVE  \A r \in Request :
              Status[r] = IF call[r] \in {"sent", "test", "tested", "asleep",
                                          "awake"} THEN "open" ELSE call[r]
BY DEF Status, Waits, Types

\* Steps that neither serve nor answer, nor begin nor end a call.
LEMMA Stutters ==
    ASSUME UNCHANGED <<served, answers>>,
           \A r \in Request :
              \/ call'[r] = call[r]
              \/ /\ call[r] \in {"test", "tested", "asleep", "awake"}
                 /\ call'[r] \in {"test", "tested", "asleep", "awake"}
    PROVE  UNCHANGED ServiceCalls!vars
<1>1. Status' = Status
  BY DEF Status, Waits
<1> QED
  BY <1>1 DEF ServiceCalls!vars

LEMMA ServerCalls ==
    ASSUME Types, Courses,
           \/ AdvertiseSrv \/ UnadvertiseSrv
           \/ \E n \in queryables : DestroyQueryable(n)
           \/ \E r \in Request, n \in queryables : OnQuery(r, n)
           \/ \E r \in Request, result \in BOOLEAN : RunSrvCallback(r, result)
    PROVE  [ServiceCalls!Next]_(ServiceCalls!vars)
<1>1. ASSUME NEW r \in Request, NEW result \in BOOLEAN,
             RunSrvCallback(r, result)
      PROVE  ServiceCalls!Next
  <2>1. served[r] = <<>> /\ r \in requested /\ call[r] # "new"
    BY <1>1 DEF RunSrvCallback, Courses, Course
  <2>2. /\ served' = [served EXCEPT ![r] = Append(served[r], result)]
        /\ UNCHANGED <<answers, call>>
    BY <1>1 DEF RunSrvCallback, callvars
  <2>3. served' = [served EXCEPT ![r] = <<result>>]
    BY <2>1, <2>2
  <2>4. Status' = Status
    BY <2>2 DEF Status, Waits
  <2>5. Status[r] # "new"
    BY <2>1, StatusIs
  <2>6. ServiceCalls!Serve(r, result)
    BY <2>1, <2>2, <2>3, <2>4, <2>5 DEF ServiceCalls!Serve
  <2> QED
    BY <2>6 DEF ServiceCalls!Next
<1>2. CASE \/ AdvertiseSrv \/ UnadvertiseSrv
           \/ \E n \in queryables : DestroyQueryable(n)
           \/ \E r \in Request, n \in queryables : OnQuery(r, n)
  <2>1. UNCHANGED <<served, answers, call>>
    BY <1>2 DEF AdvertiseSrv, UnadvertiseSrv, DestroyQueryable, OnQuery,
                callvars
  <2> QED
    BY <2>1, Stutters
<1> QED
  BY <1>1, <1>2

LEMMA CallerCalls ==
    ASSUME Types, Courses, NEW r \in Request, Ask(r) \/ Caller(r)
    PROVE  [ServiceCalls!Next]_(ServiceCalls!vars)
<1>1. CASE Ask(r)
  <2>1. /\ call[r] = "new"
        /\ call' = [call EXCEPT ![r] = IF r.blocking THEN "test" ELSE "sent"]
        /\ UNCHANGED <<served, answers>>
    BY <1>1 DEF Ask
  <2>2. Status[r] = "new" /\ Status' = [Status EXCEPT ![r] = "open"]
    BY <2>1 DEF Status, Waits, Types
  <2>3. ServiceCalls!Ask(r)
    BY <2>1, <2>2 DEF ServiceCalls!Ask
  <2> QED
    BY <2>3 DEF ServiceCalls!Next
<1>2. ASSUME call[r] \in {"test", "awake", "asleep"}, Return(r)
      PROVE  ServiceCalls!Next
  <2>1. /\ call' = [call EXCEPT ![r] = IF r \in available THEN "answered"
                                      ELSE "failed"]
        /\ UNCHANGED <<served, answers>>
    BY <1>2 DEF Return, servervars
  <2>2. r \in available <=> answers[r] # <<>>
    BY DEF Courses, Course
  <2>3. /\ Status[r] = "open"
        /\ Status' = [Status EXCEPT ![r] = IF answers[r] = <<>> THEN "failed"
                                          ELSE "answered"]
    BY <1>2, <2>1, <2>2 DEF Status, Waits, Types
  <2>4. ServiceCalls!Return(r)
    BY <2>1, <2>3 DEF ServiceCalls!Return
  <2> QED
    BY <2>4 DEF ServiceCalls!Next
<1>3. ASSUME NEW to \in {"tested", "asleep"}, NEW holder,
             call[r] \in {"test", "tested"}, Step(r, to, holder)
      PROVE  UNCHANGED ServiceCalls!vars
  <2>1. /\ call' = [call EXCEPT ![r] = to]
        /\ UNCHANGED <<served, answers>>
    BY <1>3 DEF Step, servervars
  <2> QED
    BY <1>3, <2>1, Stutters DEF Types
<1> QED
  BY <1>1, <1>2, <1>3 DEF Caller, Test, Sleep, Wake, TimeOut

LEMMA ReplyCalls ==
    ASSUME Types, Courses, NEW r \in Request, OnReply(r)
    PROVE  [ServiceCalls!Next]_(ServiceCalls!vars)
<1>1. answers[r] = <<>> /\ served[r] = <<TRUE>> /\ served' = served
  BY DEF OnReply, servervars, Courses, Course
<1>2. CASE UNCHANGED <<answers, available, call>>
  BY <1>1, <1>2, Stutters
<1>3. CASE /\ answers' = [answers EXCEPT ![r] = Append(answers[r], TRUE)]
           /\ call' = IF call[r] = "asleep"
                      THEN [call EXCEPT ![r] = "awake"] ELSE call
  <2>1. answers' = [answers EXCEPT ![r] = served[r]]
    BY <1>1, <1>3
  <2>2. Status' = Status
    BY <1>3 DEF Status, Waits, Types
  <2>3. served[r] # <<>>
    BY <1>1
  <2>4. ServiceCalls!Answer(r)
    BY <1>1, <2>1, <2>2, <2>3 DEF ServiceCalls!Answer
  <2> QED
    BY <2>4 DEF ServiceCalls!Next
<1> QED
  BY <1>2, <1>3 DEF OnReply

LEMMA StepCalls ==
    ASSUME Types, Courses, [ZenohSrvNext]_zsrvvars
    PROVE  [ServiceCalls!Next]_(ServiceCalls!vars)
<1>1. ASSUME UNCHANGED <<served, answers, call>>
      PROVE  UNCHANGED ServiceCalls!vars
  BY <1>1, Stutters
<1>2. CASE \/ \E r \in Request : OnDone(r)
           \/ LivelinessSrvDataHandler \/ OnNewSrvConnection \/ ServiceThread
           \/ UNCHANGED zsrvvars
  BY <1>1, <1>2 DEF OnDone, LivelinessSrvDataHandler, OnNewSrvConnection,
                    ServiceThread, servervars, callvars, zsrvvars
<1> QED
  BY <1>2, ServerCalls, CallerCalls, ReplyCalls DEF ZenohSrvNext, ContinueSrv

(***************************************************************************)
(* The theorems.                                                           *)
(***************************************************************************)
LEMMA SrvInvariant == ZenohSrvSpec => [](Types /\ Courses)
BY InitCourses, CoursesStep, PTL DEF ZenohSrvSpec

\* However many responders come and go, and whoever fires a query, the caller
\* or the service thread: each request is served at most once, and its caller
\* is given the result of that service, once (SendPendingRemoteReqs,
\* NodeShared.cc:1036-1066; ReqHandler.cc:95-187).
THEOREM CallsImplemented == ZenohSrvSpec => ServiceCalls!Spec
<1>1. ZenohSrvInit => ServiceCalls!Init
  BY DEF ZenohSrvInit, ServiceCalls!Init, Status, Waits
<1> QED
  BY <1>1, InitCourses, CoursesStep, StepCalls, PTL
     DEF ZenohSrvSpec, ServiceCalls!Spec

\* No request is forgotten in the storage: one whose query was fired has that
\* query's end to take it out, and one that waits although a responder is
\* known has discovery's thread or the service thread to fire it, however
\* often responders came and went meanwhile, unless a query could not be fired
\* (SendPendingRemoteReqs, NodeShared.cc:1036-1066, OnNewSrvConnection,
\* NodeShared.cc:1182-1227).
THEOREM NoneForgotten == ZenohSrvSpec => [](FiredLeave /\ PendingWoken)
<1>1. ZenohSrvInit => Kept
  BY DEF ZenohSrvInit, Kept, FiredLeave, PendingWoken
<1>2. Kept => FiredLeave /\ PendingWoken
  BY DEF Kept
<1> QED
  BY <1>1, <1>2, InitCourses, CoursesStep, KeptStep, PTL DEF ZenohSrvSpec
=============================================================================
