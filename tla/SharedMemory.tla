---------------------------- MODULE SharedMemory ----------------------------
(***************************************************************************)
(* Where Publish serializes a message (src/src/Node.cc), and the provider  *)
(* of shared memory it borrows of the Zenoh session, ZenohShm              *)
(* (src/src/ShmHelpers.hh).                                                *)
(*                                                                         *)
(* Threads publish.  What leaves through Zenoh and is not too small goes   *)
(* to a chunk of the pool, or to the heap when there is none to be had;    *)
(* raw handlers get a copy.  The provider is resolved by the thread that   *)
(* first wants it, under a mutex the others need not take afterwards.  The *)
(* subscribers of Zenoh give chunks back when they like.                   *)
(***************************************************************************)
EXTENDS Naturals, FiniteSets

CONSTANTS
    Thread,
    Threshold, DataSize,    \* of a message; sizes that are published
    Chunk,              \* what the pool of the session has
    Free,
    MaxPublished

\* NoChunk and Free are none of what they stand for.
ASSUME ShmAssumption ==
    /\ IsFiniteSet(Thread) /\ Free \notin Thread
    /\ 0 \notin Chunk
    /\ MaxPublished \in Nat

VARIABLES
    session,    \* what obtain_shm_provider finds: "initializing", "ready",
                \* "disabled" or "failed"
    state,      \* ZenohShm::state: "unknown", "ready" or "disabled"
    provider,   \* ZenohShm::provider holds a value
    mutex,      \* ZenohShm::mutex: its holder, or Free
    used,       \* chunks that are allocated, by a thread or a subscriber
    refusals,   \* how often the session gave no for good
    shmAt,      \* where each thread is
    published,  \* messages published, with the result of the call
    put,        \* messages in Zenoh, with the chunk
    rawGiven    \* messages given to raw handlers

shmvars == <<session, state, provider, mutex, used, refusals, shmAt,
             published, put, rawGiven>>
providervars == <<session, state, provider, mutex, refusals>>

ShmIdle == [op |-> "idle"]
NoChunk == 0

ShmInit ==
    /\ session = "initializing"
    /\ state = "unknown"            \* Init(session, threshold)
    /\ provider = FALSE /\ mutex = Free /\ refusals = 0
    /\ used = {}
    /\ shmAt = [t \in Thread |-> ShmIdle]
    /\ published = {} /\ put = {} /\ rawGiven = {}

ShmGoto(t, op) == shmAt' = [shmAt EXCEPT ![t].op = op]
GotoWith(t, op, chunk) ==
    shmAt' = [shmAt EXCEPT ![t].op = op, ![t].chunk = chunk]

\* Lazily, and once.
Resolve ==
    /\ session = "initializing"
    /\ session' \in {"ready", "disabled", "failed"}
    /\ UNCHANGED <<state, provider, mutex, used, refusals, shmAt, published,
                   put, rawGiven>>

(***************************************************************************)
(* Provider.                                                               *)
(***************************************************************************)
Known(t) ==
    CASE state = "ready" -> ShmGoto(t, "alloc")
      [] state = "disabled" -> ShmGoto(t, "heap")

\* CheckSubscriberInfo is done.  The message goes to subscribers as the
\* flags say.
PublishMessage(t, n, size, haveRaw, haveRemote) ==
    /\ shmAt[t] = ShmIdle
    /\ n = Cardinality(published) +
           Cardinality({u \in Thread : shmAt[u] # ShmIdle}) + 1
    /\ n <= MaxPublished
    /\ shmAt' = [shmAt EXCEPT ![t] =
           [op |-> IF haveRemote /\ size >= Threshold THEN "load" ELSE "heap",
            msg |-> n, haveRaw |-> haveRaw, haveRemote |-> haveRemote,
            chunk |-> NoChunk, buffer |-> FALSE]]
    /\ UNCHANGED <<providervars, used, published, put, rawGiven>>

LoadState(t) ==
    /\ shmAt[t].op = "load"
    /\ IF state = "unknown" THEN ShmGoto(t, "lock") ELSE Known(t)
    /\ UNCHANGED <<providervars, used, published, put, rawGiven>>

\* Another thread may have resolved the state meanwhile.
LockProvider(t) ==
    /\ shmAt[t].op = "lock" /\ mutex = Free
    /\ IF state = "unknown"
       THEN ShmGoto(t, "obtain") /\ mutex' = t
       ELSE Known(t) /\ mutex' = mutex
    /\ UNCHANGED <<session, state, provider, refusals, used, published, put,
                   rawGiven>>

\* Only "initializing" is asked again.
ObtainProvider(t) ==
    /\ shmAt[t].op = "obtain"
    /\ CASE session = "ready" ->
                /\ provider' = TRUE /\ ShmGoto(t, "store")
                /\ UNCHANGED <<state, mutex, refusals>>
         [] session = "initializing" ->
                /\ ShmGoto(t, "heap") /\ mutex' = Free
                /\ UNCHANGED <<state, provider, refusals>>
         [] OTHER ->
                /\ state' = "disabled" /\ refusals' = refusals + 1
                /\ ShmGoto(t, "heap") /\ mutex' = Free
                /\ UNCHANGED provider
    /\ UNCHANGED <<session, used, published, put, rawGiven>>

StoreReady(t) ==
    /\ shmAt[t].op = "store"
    /\ state' = "ready" /\ mutex' = Free
    /\ ShmGoto(t, "alloc")
    /\ UNCHANGED <<session, provider, refusals, used, published, put,
                   rawGiven>>

(***************************************************************************)
(* allocShmChunk, and the rest of Publish.                                 *)
(***************************************************************************)
AllocShmChunk(t) ==
    /\ shmAt[t].op = "alloc"
    /\ IF used = Chunk THEN ShmGoto(t, "heap") /\ used' = used
       ELSE \E c \in Chunk \ used :
               /\ used' = used \union {c}
               /\ GotoWith(t, "serialize", c)
    /\ UNCHANGED <<providervars, published, put, rawGiven>>

\* A chunk that could not be written is given back.
SerializeToChunk(t, done) ==
    /\ shmAt[t].op = "serialize"
    /\ IF done THEN ShmGoto(t, "push") /\ used' = used
       ELSE /\ GotoWith(t, "heap", NoChunk)
            /\ used' = used \ {shmAt[t].chunk}
    /\ UNCHANGED <<providervars, published, put, rawGiven>>

Return(t, result) ==
    /\ shmAt' = [shmAt EXCEPT ![t] = ShmIdle]
    /\ published' = published \union
           {[msg |-> shmAt[t].msg, result |-> result,
             haveRaw |-> shmAt[t].haveRaw,
             haveRemote |-> shmAt[t].haveRemote]}

SerializeToHeap(t, done) ==
    /\ shmAt[t].op = "heap"
    /\ IF ~ shmAt[t].haveRaw /\ ~ shmAt[t].haveRemote
       THEN ShmGoto(t, "push") /\ published' = published
       ELSE IF ~ done THEN Return(t, FALSE)
       ELSE /\ shmAt' = [shmAt EXCEPT ![t].op = "push", ![t].buffer = TRUE]
            /\ published' = published
    /\ UNCHANGED <<providervars, used, put, rawGiven>>

\* What raw handlers are given is copied of the chunk or the buffer.
Serialized(t) == shmAt[t].chunk # NoChunk \/ shmAt[t].buffer

PushForRaw(t) ==
    /\ shmAt[t].op = "push"
    /\ rawGiven' = IF shmAt[t].haveRaw
                   THEN rawGiven \union
                            {[msg |-> shmAt[t].msg, data |-> Serialized(t)]}
                   ELSE rawGiven
    /\ IF shmAt[t].haveRemote THEN ShmGoto(t, "put") /\ published' = published
       ELSE Return(t, TRUE)
    /\ UNCHANGED <<providervars, used, put>>

\* The chunk, or the buffer, belongs to Zenoh now.
PutToZenoh(t) ==
    /\ shmAt[t].op = "put"
    /\ put' = put \union {[msg |-> shmAt[t].msg, chunk |-> shmAt[t].chunk,
                           data |-> Serialized(t)]}
    /\ Return(t, TRUE)
    /\ UNCHANGED <<providervars, used, rawGiven>>

Release(p) ==
    /\ p.chunk # NoChunk
    /\ used' = used \ {p.chunk}
    /\ put' = (put \ {p}) \union {[p EXCEPT !.chunk = NoChunk]}
    /\ UNCHANGED <<providervars, shmAt, published, rawGiven>>

ShmNext ==
    \/ Resolve
    \/ \E p \in put : Release(p)
    \/ \E t \in Thread :
          \/ \E n \in 1..MaxPublished, size \in DataSize,
                haveRaw, haveRemote \in BOOLEAN :
                PublishMessage(t, n, size, haveRaw, haveRemote)
          \/ LoadState(t) \/ LockProvider(t) \/ ObtainProvider(t)
          \/ StoreReady(t)
          \/ AllocShmChunk(t) \/ PushForRaw(t) \/ PutToZenoh(t)
          \/ \E done \in BOOLEAN :
                SerializeToChunk(t, done) \/ SerializeToHeap(t, done)

(***************************************************************************)
(* Properties.                                                             *)
(***************************************************************************)

\* A thread that is past the state, without the mutex, finds the provider
\* there; and once the session said no it is not asked again.
ProviderThere ==
    /\ \A t \in Thread : shmAt[t].op = "alloc" => provider
    /\ refusals <= 1 /\ ~ (provider /\ refusals = 1)

\* A call that returned true gave the message, serialized, to all whom it was
\* for, once, wherever it found room for it; one that returned false gave it
\* to nobody.
Shipped ==
    \A p \in published :
        /\ Cardinality({q \in put : q.msg = p.msg})
               = IF p.result /\ p.haveRemote THEN 1 ELSE 0
        /\ (\E q \in rawGiven : q.msg = p.msg) <=> p.result /\ p.haveRaw
        /\ \A q \in put \union rawGiven : q.data

\* A chunk is one thread's, or one message's, or free: none leaks, whatever
\* failed, and none is shared.
ChunksHeld ==
    LET holders(c) == {t \in Thread : shmAt[t] # ShmIdle /\ shmAt[t].chunk = c}
                          \union {p.msg : p \in {q \in put : q.chunk = c}}
    IN  \A c \in Chunk :
            Cardinality(holders(c)) = IF c \in used THEN 1 ELSE 0

ShmSpec == ShmInit /\ [][ShmNext]_shmvars

ShmKept == ProviderThere /\ Shipped /\ ChunksHeld
=============================================================================
