---------------------------- MODULE TrafficProofs ----------------------------
(***************************************************************************)
(* Proofs of Traffic: what a message meets apart from its handlers.        *)
(*                                                                         *)
(* Each part has an inductive invariant of its own (ShmInv, ClockInv,      *)
(* StatsInv and RateInv), a lemma for each action that keeps it, and a     *)
(* theorem; the last two theorems join them.                               *)
(***************************************************************************)
EXTENDS Traffic, FiniteSetTheorems, WellFoundedInduction, TLAPS

(***************************************************************************)
(* Finite sets of integers and sequences.                                  *)
(***************************************************************************)
\* A finite set of integers has a greatest element.
LEMMA GreatestOfFinite ==
    ASSUME NEW S \in SUBSET Int, IsFiniteSet(S), S # {}
    PROVE  \E x \in S : \A y \in S : x >= y
<1> DEFINE Greatest(x, T) == x \in T /\ \A y \in T : x >= y
           Bad == {T \in FiniteSubsetsOf(S) :
                       T # {} /\ ~ \E x \in S : Greatest(x, T)}
           R == StrictSubsetOrdering(S)
<1>1. SUFFICES ASSUME Bad # {} PROVE FALSE
  <2>1. S \in FiniteSubsetsOf(S)
    BY DEF FiniteSubsetsOf
  <2> QED BY <2>1
<1>2. PICK T \in Bad : \A U \in Bad : ~ (<<U, T>> \in R)
  <2>1. IsWellFoundedOn(R, FiniteSubsetsOf(S))
    BY FS_StrictSubsetOrderingWellFounded
  <2>2. Bad \subseteq FiniteSubsetsOf(S)
    OBVIOUS
  <2> HIDE DEF Bad, R
  <2> QED BY <1>1, <2>1, <2>2, WFMin
<1>3. PICK t \in T : TRUE
  OBVIOUS
<1> DEFINE U == T \ {t}
<1>4. U \in FiniteSubsetsOf(S) /\ <<U, T>> \in R
  BY <1>3, FS_RemoveElement DEF FiniteSubsetsOf, StrictSubsetOrdering
<1>5. T \subseteq Int
  BY DEF FiniteSubsetsOf
<1>6. CASE U = {}
  BY <1>3, <1>5, <1>6 DEF FiniteSubsetsOf
<1>7. CASE U # {}
  <2>1. PICK u \in S : Greatest(u, U)
    BY <1>2, <1>4, <1>7
  <2>2. Greatest(u, T) \/ Greatest(t, T)
    BY <1>3, <1>5, <2>1
  <2> QED BY <2>1, <2>2 DEF FiniteSubsetsOf
<1> QED BY <1>6, <1>7

LEMMA GreatestExists ==
    ASSUME NEW n \in Nat, NEW S \in SUBSET (1..n), S # {}
    PROVE  \E x \in S : \A y \in S : x >= y
<1>1. IsFiniteSet(S)
  <2>1. IsFiniteSet(1..n) /\ S \subseteq 1..n
    BY FS_Interval
  <2> QED BY <2>1, FS_Subset
<1> QED BY <1>1, GreatestOfFinite

\* What a queue is once a message joined or left it.
LEMMA Appended ==
    ASSUME NEW T, NEW s \in Seq(T), NEW x \in T
    PROVE  /\ Append(s, x) \in Seq(T) /\ Append(s, x) # <<>>
           /\ Len(s) \in Nat /\ DOMAIN s = 1..Len(s)
           /\ Len(Append(s, x)) = Len(s) + 1
           /\ DOMAIN Append(s, x) = 1..(Len(s) + 1)
           /\ DOMAIN Append(s, x) = DOMAIN s \union {Len(s) + 1}
           /\ \A k \in DOMAIN s : Append(s, x)[k] = s[k]
           /\ Append(s, x)[Len(s) + 1] = x
OBVIOUS

LEMMA LastOf ==
    ASSUME NEW T, NEW s \in Seq(T), s # <<>>
    PROVE  Len(s) \in DOMAIN s
OBVIOUS

LEMMA NoneLong ==
    ASSUME NEW T, NEW s \in Seq(T)
    PROVE  s = <<>> <=> Len(s) = 0
OBVIOUS

LEMMA Left ==
    ASSUME NEW T, NEW s \in Seq(T), s # <<>>
    PROVE  /\ Tail(s) \in Seq(T) /\ Len(s) \in Nat \ {0}
           /\ DOMAIN s = 1..Len(s) /\ DOMAIN Tail(s) = 1..(Len(s) - 1)
           /\ Head(s) = s[1] /\ s[1] \in T
           /\ Len(Tail(s)) = Len(s) - 1
           /\ \A k \in DOMAIN Tail(s) : Tail(s)[k] = s[k + 1]
           /\ Len(s) = 1 => Tail(s) = <<>>
           /\ Len(s) # 1 => Tail(s) # <<>>
<1>1. /\ Len(s) \in Nat \ {0} /\ DOMAIN s = 1..Len(s)
      /\ Tail(s) \in Seq(T) /\ Len(Tail(s)) = Len(s) - 1
      /\ Head(s) = s[1]
  OBVIOUS
<1>2. s[1] \in T
  BY <1>1
<1>3. DOMAIN Tail(s) = 1..(Len(s) - 1)
  BY <1>1
<1>4. \A k \in DOMAIN Tail(s) : Tail(s)[k] = s[k + 1]
  BY <1>1, <1>3
<1>5. (Len(s) = 1 => Tail(s) = <<>>) /\ (Len(s) # 1 => Tail(s) # <<>>)
  <2>1. CASE Len(s) = 1
    <3>1. Len(Tail(s)) = 0
      BY <1>1, <2>1
    <3> QED BY <1>1, <2>1, <3>1, NoneLong
  <2>2. CASE Len(s) # 1
    <3>1. Len(Tail(s)) # 0
      BY <1>1, <2>2
    <3> QED BY <1>1, <2>2, <3>1, NoneLong
  <2> QED BY <2>1, <2>2
<1> QED BY <1>1, <1>2, <1>3, <1>4, <1>5

LEMMA LeastOfFinite ==
    ASSUME NEW S \in SUBSET Int, IsFiniteSet(S), S # {}
    PROVE  \E x \in S : \A y \in S : x <= y
<1> DEFINE T == {-x : x \in S}
           f == [x \in S |-> -x]
<1>1. T \in SUBSET Int /\ T # {}
  <2>1. \A x \in S : -x \in Int
    OBVIOUS
  <2>2. T \subseteq Int
    BY <2>1
  <2>3. PICK x \in S : TRUE
    OBVIOUS
  <2>4. -x \in T
    OBVIOUS
  <2> QED BY <2>2, <2>4
<1>2. f \in Surjection(S, T)
  BY DEF Surjection
<1>3. IsFiniteSet(T)
  <2> HIDE DEF f, T
  <2> QED BY <1>2, FS_Surjection
<1>4. PICK g \in T : \A y \in T : g >= y
  <2> HIDE DEF T
  <2> QED BY <1>1, <1>3, GreatestOfFinite
<1>5. PICK x \in S : g = -x
  OBVIOUS
<1>6. \A y \in S : -y \in T /\ y \in Int /\ g >= -y
  BY <1>4
<1>7. \A y \in S : x <= y
  BY <1>5, <1>6
<1> QED BY <1>7

LEMMA SmallMod ==
    ASSUME NEW n \in Int, NEW m \in Nat \ {0}, 0 <= n, n < m
    PROVE  n % m = n
OBVIOUS

(***************************************************************************)
(*                                                                         *)
(* Shared memory.                                                          *)
(*                                                                         *)
(***************************************************************************)
ShmOps == {"load", "lock", "obtain", "store", "alloc", "serialize", "heap",
           "push", "put"}
Busy == [op : ShmOps, msg : Nat, haveRaw : BOOLEAN, haveRemote : BOOLEAN,
         chunk : Chunk \union {NoChunk}, buffer : BOOLEAN]
Outcomes == [msg : Nat, result : BOOLEAN, haveRaw : BOOLEAN,
             haveRemote : BOOLEAN]
Puts == [msg : Nat, chunk : Chunk \union {NoChunk}, data : BOOLEAN]

ShmTypes ==
    /\ session \in {"initializing", "ready", "disabled", "failed"}
    /\ state \in {"unknown", "ready", "disabled"}
    /\ provider \in BOOLEAN
    /\ mutex \in Thread \union {Free}
    /\ refusals \in Nat
    /\ used \subseteq Chunk
    /\ shmAt \in [Thread -> {ShmIdle} \union Busy]
    /\ published \subseteq Outcomes /\ IsFiniteSet(published)
    /\ put \subseteq Puts
    /\ rawGiven \subseteq [msg : Nat, data : BOOLEAN]

\* Of the threads that found the state unknown one at a time looks for the
\* provider, and nobody after one has found it.
Resolving ==
    /\ \A t \in Thread :
          /\ shmAt[t].op \in {"obtain", "store"} =>
                 mutex = t /\ state = "unknown"
          /\ shmAt[t].op = "store" => provider
          /\ shmAt[t].op = "alloc" => state = "ready"
    /\ state = "ready" => provider
    /\ provider /\ state = "unknown" => \E t \in Thread : shmAt[t].op = "store"
    /\ provider => state # "disabled"
    /\ refusals = IF state = "disabled" THEN 1 ELSE 0

Active == {t \in Thread : shmAt[t] # ShmIdle}

\* Messages are numbered as they are published, each once.
Numbered ==
    /\ \A t \in Active :
          shmAt[t].msg <= Cardinality(published) + Cardinality(Active)
    /\ \A p \in published :
          p.msg <= Cardinality(published) + Cardinality(Active)
    /\ \A t, u \in Active : t # u => shmAt[t].msg # shmAt[u].msg
    /\ \A t \in Active : \A p \in published : shmAt[t].msg # p.msg
    /\ \A p, q \in published : p.msg = q.msg => p = q

\* Where a chunk and a buffer are on the way.
Holding ==
    \A t \in Active :
        LET s == shmAt[t] IN
        /\ s.chunk # NoChunk => /\ s.op \in {"serialize", "push", "put"}
                                /\ s.haveRemote
        /\ s.op = "serialize" => s.chunk # NoChunk
        /\ s.op \in {"push", "put"} /\ (s.haveRaw \/ s.haveRemote) =>
               s.chunk # NoChunk \/ s.buffer
        /\ s.op = "put" => s.haveRemote
        /\ s.op \notin {"heap", "push"} => s.haveRemote

\* What Zenoh and the raw handlers were given is what was published, or is
\* about to be.
Given ==
    /\ \A q \in put : \E p \in published :
          p.msg = q.msg /\ p.result /\ p.haveRemote
    /\ \A p \in published : p.result /\ p.haveRemote =>
          \E q \in put : q.msg = p.msg
    /\ \A q, r \in put : q.msg = r.msg => q = r
    /\ \A q \in rawGiven :
          \/ \E p \in published : p.msg = q.msg /\ p.result /\ p.haveRaw
          \/ \E t \in Active :
                shmAt[t].op = "put" /\ shmAt[t].msg = q.msg /\ shmAt[t].haveRaw
    /\ \A p \in published : p.result /\ p.haveRaw =>
          \E q \in rawGiven : q.msg = p.msg
    /\ \A t \in Active : shmAt[t].op = "put" /\ shmAt[t].haveRaw =>
          \E q \in rawGiven : q.msg = shmAt[t].msg
    /\ \A q \in put : q.data
    /\ \A q \in rawGiven : q.data

\* A chunk in use is held by one thread or one message.
Held ==
    /\ \A t \in Active : shmAt[t].chunk # NoChunk => shmAt[t].chunk \in used
    /\ \A q \in put : q.chunk # NoChunk => q.chunk \in used
    /\ \A t, u \in Active :
          shmAt[t].chunk = shmAt[u].chunk /\ shmAt[t].chunk # NoChunk => t = u
    /\ \A q, r \in put : q.chunk = r.chunk /\ q.chunk # NoChunk => q = r
    /\ \A t \in Active : \A q \in put :
          shmAt[t].chunk = q.chunk => q.chunk = NoChunk
    /\ \A c \in used : \/ \E t \in Active : shmAt[t].chunk = c
                       \/ \E q \in put : q.chunk = c

ShmInv == ShmTypes /\ Resolving /\ Numbered /\ Holding /\ Given /\ Held

LEMMA ShmInvInit == ShmInit => ShmInv
<1> SUFFICES ASSUME ShmInit PROVE ShmInv
  OBVIOUS
<1> USE DEF ShmInit
<1>1. Active = {} /\ \A t \in Thread : shmAt[t] = ShmIdle
  BY DEF Active
<1>2. \A t \in Thread : shmAt[t].op = "idle"
  BY <1>1 DEF ShmIdle
<1>3. IsFiniteSet(published)
  BY FS_EmptySet
<1>4. ShmTypes
  BY <1>3 DEF ShmTypes
<1>5. Resolving
  BY <1>2 DEF Resolving
<1>6. Numbered /\ Holding /\ Given /\ Held
  BY <1>1 DEF Numbered, Holding, Given, Held
<1> QED BY <1>4, <1>5, <1>6 DEF ShmInv

LEMMA ShmAtType ==
    ASSUME ShmTypes, NEW t \in Thread
    PROVE  /\ shmAt[t] = ShmIdle <=> shmAt[t].op = "idle"
           /\ t \in Active <=> shmAt[t] \in Busy
           /\ t \in Active <=> shmAt[t].op \in ShmOps
           /\ t \in Active <=> shmAt[t] # ShmIdle
<1>1. shmAt[t] \in {ShmIdle} \union Busy
  BY DEF ShmTypes
<1>2. ShmIdle.op = "idle" /\ ShmIdle \notin Busy
  BY DEF ShmIdle, Busy, ShmOps
<1>3. shmAt[t] \in Busy => shmAt[t].op \in ShmOps
  BY DEF Busy
<1> QED BY <1>1, <1>2, <1>3 DEF Active, ShmOps

LEMMA ActiveFinite ==
    /\ IsFiniteSet(Active) /\ IsFiniteSet(Active')
    /\ Cardinality(Active) \in Nat /\ Cardinality(Active') \in Nat
<1>1. Active \subseteq Thread /\ Active' \subseteq Thread
  BY DEF Active
<1> QED BY <1>1, ShmAssumption, FS_Subset, FS_CardinalityType

\* A thread goes on with its message: what is used, published and given
\* away stays.
LEMMA Carries ==
    ASSUME ShmInv, NEW t \in Active, NEW s \in Busy,
           shmAt' = [shmAt EXCEPT ![t] = s],
           s.msg = shmAt[t].msg, s.haveRaw = shmAt[t].haveRaw,
           s.haveRemote = shmAt[t].haveRemote
    PROVE  /\ Active' = Active
           /\ shmAt' \in [Thread -> {ShmIdle} \union Busy]
           /\ shmAt'[t] = s
           /\ \A u \in Thread \ {t} : shmAt'[u] = shmAt[u]
           /\ \A u \in Active : /\ shmAt'[u].msg = shmAt[u].msg
                                /\ shmAt'[u].haveRaw = shmAt[u].haveRaw
           /\ UNCHANGED published => Numbered'
<1>1. t \in Thread /\ shmAt \in [Thread -> {ShmIdle} \union Busy]
  BY DEF Active, ShmInv, ShmTypes
<1>2. s # ShmIdle
  BY DEF Busy, ShmIdle, ShmOps
<1>3. /\ shmAt'[t] = s
      /\ \A u \in Thread \ {t} : shmAt'[u] = shmAt[u]
      /\ shmAt' \in [Thread -> {ShmIdle} \union Busy]
  BY <1>1
<1>4. Active' = Active
  BY <1>1, <1>2, <1>3 DEF Active
<1>5. \A u \in Active : /\ shmAt'[u].msg = shmAt[u].msg
                        /\ shmAt'[u].haveRaw = shmAt[u].haveRaw
  BY <1>1, <1>3 DEF Active
<1>6. ASSUME UNCHANGED published PROVE Numbered'
  BY <1>4, <1>5, <1>6 DEF Numbered, ShmInv
<1> QED BY <1>3, <1>4, <1>5, <1>6

\* What the updates of a thread's state make of it.
LEMMA ShmGoes ==
    ASSUME ShmTypes, NEW t \in Active, NEW op \in ShmOps
    PROVE  ShmGoto(t, op) =>
           \E s \in Busy :
              /\ shmAt' = [shmAt EXCEPT ![t] = s]
              /\ s.op = op /\ s.msg = shmAt[t].msg
              /\ s.haveRaw = shmAt[t].haveRaw
              /\ s.haveRemote = shmAt[t].haveRemote
              /\ s.chunk = shmAt[t].chunk /\ s.buffer = shmAt[t].buffer
<1> DEFINE s == [shmAt[t] EXCEPT !.op = op]
<1>1. shmAt[t] \in Busy
  BY ShmAtType DEF Active
<1>2. s \in Busy
  BY <1>1 DEF Busy
<1>3. /\ s.op = op /\ s.msg = shmAt[t].msg
      /\ s.haveRaw = shmAt[t].haveRaw
      /\ s.haveRemote = shmAt[t].haveRemote
      /\ s.chunk = shmAt[t].chunk /\ s.buffer = shmAt[t].buffer
  BY <1>1 DEF Busy
<1> QED BY <1>2, <1>3 DEF ShmGoto

LEMMA ShmGoesWithChunk ==
    ASSUME ShmTypes, NEW t \in Active, NEW op \in ShmOps,
           NEW c \in Chunk \union {NoChunk}
    PROVE  GotoWith(t, op, c) =>
           \E s \in Busy :
              /\ shmAt' = [shmAt EXCEPT ![t] = s]
              /\ s.op = op /\ s.msg = shmAt[t].msg
              /\ s.haveRaw = shmAt[t].haveRaw
              /\ s.haveRemote = shmAt[t].haveRemote
              /\ s.chunk = c /\ s.buffer = shmAt[t].buffer
<1> DEFINE q == [shmAt[t] EXCEPT !.op = op]
           s == [q EXCEPT !.chunk = c]
<1>1. shmAt[t] \in Busy
  BY ShmAtType DEF Active
<1>2. q \in Busy
  BY <1>1 DEF Busy
<1>3. /\ q.op = op /\ q.msg = shmAt[t].msg
      /\ q.haveRaw = shmAt[t].haveRaw
      /\ q.haveRemote = shmAt[t].haveRemote
      /\ q.chunk = shmAt[t].chunk /\ q.buffer = shmAt[t].buffer
  BY <1>1 DEF Busy
<1>4. [shmAt EXCEPT ![t].op = op, ![t].chunk = c] = [shmAt EXCEPT ![t] = s]
  BY DEF Active, ShmTypes
<1> HIDE DEF q
<1>5. s \in Busy /\ s.chunk = c /\ s.op = q.op /\ s.msg = q.msg
      /\ s.haveRaw = q.haveRaw /\ s.haveRemote = q.haveRemote
      /\ s.buffer = q.buffer
  BY <1>2 DEF Busy
<1> QED BY <1>3, <1>4, <1>5 DEF GotoWith

LEMMA ShmGoesWithBuffer ==
    ASSUME ShmTypes, NEW t \in Active,
           shmAt' = [shmAt EXCEPT ![t].op = "push", ![t].buffer = TRUE]
    PROVE  \E s \in Busy :
              /\ shmAt' = [shmAt EXCEPT ![t] = s]
              /\ s.op = "push" /\ s.msg = shmAt[t].msg
              /\ s.haveRaw = shmAt[t].haveRaw
              /\ s.haveRemote = shmAt[t].haveRemote
              /\ s.chunk = shmAt[t].chunk /\ s.buffer
<1> DEFINE q == [shmAt[t] EXCEPT !.op = "push"]
           s == [q EXCEPT !.buffer = TRUE]
<1>1. shmAt[t] \in Busy
  BY ShmAtType DEF Active
<1>2. q \in Busy
  BY <1>1 DEF Busy, ShmOps
<1>3. /\ q.op = "push" /\ q.msg = shmAt[t].msg
      /\ q.haveRaw = shmAt[t].haveRaw
      /\ q.haveRemote = shmAt[t].haveRemote
      /\ q.chunk = shmAt[t].chunk /\ q.buffer = shmAt[t].buffer
  BY <1>1 DEF Busy
<1>4. shmAt' = [shmAt EXCEPT ![t] = s]
  BY DEF Active, ShmTypes
<1> HIDE DEF q
<1>5. s \in Busy /\ s.buffer /\ s.op = q.op /\ s.msg = q.msg
      /\ s.haveRaw = q.haveRaw /\ s.haveRemote = q.haveRemote
      /\ s.chunk = q.chunk
  BY <1>2 DEF Busy
<1> QED BY <1>3, <1>4, <1>5

\* What a thread does with the state and the provider.
LEMMA Resolves ==
    ASSUME ShmInv, NEW t \in Active, NEW op \in ShmOps \ {"put"},
           ShmGoto(t, op), UNCHANGED <<used, published, put, rawGiven>>,
           shmAt[t].op \notin {"serialize", "heap", "push", "put"},
           op # "push", op # "serialize"
    PROVE  /\ Numbered' /\ Holding' /\ Given' /\ Held'
           /\ shmAt' \in [Thread -> {ShmIdle} \union Busy]
           /\ shmAt'[t].op = op
           /\ \A u \in Thread \ {t} : shmAt'[u] = shmAt[u]
<1>1. t \in Thread /\ shmAt[t] \in Busy /\ ShmTypes
  BY ShmAtType DEF ShmInv, Active
<1>2. PICK s \in Busy :
          /\ shmAt' = [shmAt EXCEPT ![t] = s]
          /\ s.op = op /\ s.msg = shmAt[t].msg
          /\ s.haveRaw = shmAt[t].haveRaw
          /\ s.haveRemote = shmAt[t].haveRemote
          /\ s.chunk = shmAt[t].chunk /\ s.buffer = shmAt[t].buffer
  BY <1>1, ShmGoes
<1>4. /\ Active' = Active /\ Numbered'
      /\ shmAt' \in [Thread -> {ShmIdle} \union Busy]
      /\ shmAt'[t] = s
      /\ \A u \in Thread \ {t} : shmAt'[u] = shmAt[u]
      /\ \A u \in Active : /\ shmAt'[u].msg = shmAt[u].msg
                           /\ shmAt'[u].haveRaw = shmAt[u].haveRaw
  BY <1>2, Carries
<1>5. \A u \in Active : u \in Thread /\ shmAt'[u].chunk = shmAt[u].chunk
  BY <1>2, <1>4 DEF Active
<1>6. Held'
  BY <1>4, <1>5 DEF Held, ShmInv
<1>7. \A u \in Active : shmAt'[u].op = "put" <=> shmAt[u].op = "put"
  BY <1>2, <1>4, <1>5
<1>8. Given'
  BY <1>4, <1>7 DEF Given, ShmInv
<1>9. Holding'
  <2> SUFFICES ASSUME NEW u \in Active'
               PROVE  LET r == shmAt'[u] IN
                      /\ r.chunk # NoChunk =>
                             /\ r.op \in {"serialize", "push", "put"}
                             /\ r.haveRemote
                      /\ r.op = "serialize" => r.chunk # NoChunk
                      /\ r.op \in {"push", "put"}
                             /\ (r.haveRaw \/ r.haveRemote) =>
                                    r.chunk # NoChunk \/ r.buffer
                      /\ r.op = "put" => r.haveRemote
                      /\ r.op \notin {"heap", "push"} => r.haveRemote
    BY DEF Holding
  <2>1. u \in Active /\ u \in Thread
    BY <1>4, <1>5
  <2>2. CASE u # t
    BY <1>4, <2>1, <2>2 DEF Holding, ShmInv
  <2>3. CASE u = t
    BY <1>2, <1>4, <2>1, <2>3 DEF Holding, ShmInv
  <2> QED BY <2>2, <2>3
<1> QED BY <1>2, <1>4, <1>6, <1>8, <1>9

LEMMA ResolveInv == ShmInv /\ Resolve => ShmInv'
<1> SUFFICES ASSUME ShmInv, Resolve PROVE ShmInv'
  OBVIOUS
<1>1. Active' = Active
  BY DEF Resolve, Active
<1>2. ShmTypes' /\ Resolving'
  BY DEF Resolve, ShmInv, ShmTypes, Resolving
<1>3. Numbered' /\ Holding' /\ Given' /\ Held'
  BY <1>1 DEF Resolve, ShmInv, Numbered, Holding, Given, Held
<1> QED BY <1>2, <1>3 DEF ShmInv

LEMMA ProviderInv ==
    ASSUME ShmInv, NEW t \in Thread,
           \/ LoadState(t) \/ LockProvider(t) \/ ObtainProvider(t)
           \/ StoreReady(t) \/ (AllocShmChunk(t) /\ used = Chunk)
    PROVE  ShmInv'
<1> DEFINE op == shmAt'[t].op
<1>1. /\ shmAt[t].op \in {"load", "lock", "obtain", "store", "alloc"}
      /\ UNCHANGED <<used, published, put, rawGiven>>
  BY DEF LoadState, LockProvider, ObtainProvider, StoreReady, AllocShmChunk,
         Known, ShmGoto
<1>2. t \in Active /\ ShmTypes
  BY <1>1, ShmAtType DEF ShmOps, ShmInv
<1>3. \E o \in {"lock", "alloc", "heap", "obtain", "store"} : ShmGoto(t, o)
  BY <1>1, <1>2 DEF LoadState, LockProvider, ObtainProvider, StoreReady,
     AllocShmChunk, Known, ShmTypes
<1>4. /\ Numbered' /\ Holding' /\ Given' /\ Held'
      /\ shmAt' \in [Thread -> {ShmIdle} \union Busy]
      /\ \A o \in ShmOps : ShmGoto(t, o)
                 /\ o \in {"lock", "alloc", "heap", "obtain", "store"} => op = o
      /\ \A u \in Thread \ {t} : shmAt'[u] = shmAt[u]
  <2> PICK o \in {"lock", "alloc", "heap", "obtain", "store"} : ShmGoto(t, o)
    BY <1>3
  <2>1. o \in ShmOps \ {"put"}
    BY DEF ShmOps
  <2>2. \A p \in ShmOps : ShmGoto(t, p)
            /\ p \in {"lock", "alloc", "heap", "obtain", "store"} => op = p
    <3> TAKE p \in ShmOps
    <3> HAVE ShmGoto(t, p) /\ p \in {"lock", "alloc", "heap", "obtain", "store"}
    <3> QED BY <1>1, <1>2, Resolves
  <2> QED BY <1>1, <1>2, <2>1, <2>2, Resolves
<1>5. \A o \in {"lock", "alloc", "heap", "obtain", "store"} :
          ShmGoto(t, o) => op = o
  BY <1>4 DEF ShmOps
<1> HIDE DEF op
<1>6. shmAt'[t].op = op
  BY DEF op
<1>7. CASE LoadState(t)
  <2>1. /\ UNCHANGED <<session, state, provider, mutex, refusals>>
        /\ \/ state = "unknown" /\ op = "lock"
           \/ state = "ready" /\ op = "alloc"
           \/ state = "disabled" /\ op = "heap"
    BY <1>2, <1>5, <1>7 DEF LoadState, Known, providervars, ShmTypes
  <2>3. \A u \in Thread : shmAt'[u].op = IF u = t THEN op ELSE shmAt[u].op
    BY <1>4, <1>6
  <2>4. shmAt[t].op = "load"
    BY <1>7 DEF LoadState
  <2>5. provider /\ state = "unknown" =>
            \E u \in Thread : shmAt'[u].op = "store"
    BY <2>3, <2>4 DEF Resolving, ShmInv
  <2>2. Resolving'
    BY <2>1, <2>3, <2>4, <2>5 DEF Resolving, ShmInv
  <2> QED BY <1>1, <1>2, <1>4, <2>1, <2>2 DEF ShmInv, ShmTypes
<1>8. CASE LockProvider(t)
  <2>1. /\ UNCHANGED <<session, state, provider, refusals>> /\ mutex = Free
        /\ \/ state = "unknown" /\ op = "obtain" /\ mutex' = t
           \/ state = "ready" /\ op = "alloc" /\ mutex' = mutex
           \/ state = "disabled" /\ op = "heap" /\ mutex' = mutex
    BY <1>2, <1>5, <1>8 DEF LockProvider, Known, ShmTypes
  <2>2. \A u \in Thread : shmAt[u].op \notin {"obtain", "store"}
    BY <2>1, ShmAssumption DEF Resolving, ShmInv
  <2>3. Resolving'
    BY <1>1, <1>4, <1>6, <2>1, <2>2 DEF Resolving, ShmInv
  <2> QED BY <1>1, <1>2, <1>4, <2>1, <2>3 DEF ShmInv, ShmTypes
<1>9. CASE ObtainProvider(t)
  <2>1. /\ UNCHANGED session /\ mutex = t /\ state = "unknown"
        /\ \/ /\ provider' = TRUE /\ op = "store"
              /\ UNCHANGED <<state, mutex, refusals>>
           \/ /\ op = "heap" /\ mutex' = Free
              /\ UNCHANGED <<state, provider, refusals>>
           \/ /\ state' = "disabled" /\ refusals' = refusals + 1
              /\ op = "heap" /\ mutex' = Free /\ UNCHANGED provider
        /\ shmAt[t].op = "obtain"
    BY <1>2, <1>5, <1>9 DEF ObtainProvider, Resolving, ShmInv
  <2>2. /\ \A u \in Thread \ {t} : shmAt[u].op \notin {"obtain", "store"}
        /\ ~ provider
    BY <2>1 DEF Resolving, ShmInv, ShmTypes
  <2>3. Resolving'
    BY <1>1, <1>4, <1>6, <2>1, <2>2 DEF Resolving, ShmInv
  <2>5. /\ state' \in {"unknown", "ready", "disabled"}
        /\ refusals' \in Nat /\ mutex' \in Thread \union {Free}
        /\ session' \in {"initializing", "ready", "disabled", "failed"}
    BY <1>2, <2>1 DEF ShmTypes
  <2>6. provider' \in BOOLEAN
    BY <1>2, <2>1 DEF ShmTypes
  <2>4. ShmTypes'
    BY <1>1, <1>2, <1>4, <2>5, <2>6 DEF ShmTypes
  <2> QED BY <1>4, <2>3, <2>4 DEF ShmInv
<1>10. CASE StoreReady(t)
  <2>1. /\ UNCHANGED <<session, provider, refusals>>
        /\ state' = "ready" /\ mutex' = Free /\ op = "alloc"
        /\ mutex = t /\ state = "unknown" /\ provider
        /\ shmAt[t].op = "store"
    BY <1>5, <1>10 DEF StoreReady, Resolving, ShmInv
  <2>2. \A u \in Thread \ {t} : shmAt[u].op \notin {"obtain", "store"}
    BY <2>1 DEF Resolving, ShmInv
  <2>3. Resolving'
    BY <1>1, <1>4, <1>6, <2>1, <2>2 DEF Resolving, ShmInv
  <2> QED BY <1>1, <1>2, <1>4, <2>1, <2>3 DEF ShmInv, ShmTypes
<1>11. CASE AllocShmChunk(t) /\ used = Chunk
  <2>1. /\ UNCHANGED <<session, state, provider, mutex, refusals>>
        /\ op = "heap" /\ shmAt[t].op = "alloc"
    BY <1>5, <1>11 DEF AllocShmChunk, providervars
  <2>2. Resolving'
    BY <1>1, <1>4, <1>6, <2>1 DEF Resolving, ShmInv
  <2> QED BY <1>1, <1>2, <1>4, <2>1, <2>2 DEF ShmInv, ShmTypes
<1> QED BY <1>7, <1>8, <1>9, <1>10, <1>11

LEMMA StateKept ==
    ASSUME ShmInv, NEW t \in Thread, UNCHANGED providervars,
           \A u \in Thread \ {t} : shmAt'[u] = shmAt[u],
           shmAt[t].op # "store",
           shmAt'[t].op \notin {"obtain", "store", "alloc"}
    PROVE  Resolving'
<1>1. UNCHANGED <<session, state, provider, mutex, refusals>>
  BY DEF providervars
<1>2. \A u \in Thread : shmAt'[u].op \in {"obtain", "store", "alloc"} =>
          shmAt'[u].op = shmAt[u].op
  OBVIOUS
<1>3. \A u \in Thread : shmAt[u].op = "store" => shmAt'[u].op = "store"
  OBVIOUS
<1> QED BY <1>1, <1>2, <1>3 DEF Resolving, ShmInv

LEMMA PublishMessageInv ==
    ASSUME ShmInv, NEW t \in Thread, NEW n \in 1..MaxPublished, NEW size,
           NEW haveRaw \in BOOLEAN, NEW haveRemote \in BOOLEAN,
           PublishMessage(t, n, size, haveRaw, haveRemote)
    PROVE  ShmInv'
<1> DEFINE s == [op |-> IF haveRemote /\ size >= Threshold THEN "load"
                        ELSE "heap",
                 msg |-> n, haveRaw |-> haveRaw, haveRemote |-> haveRemote,
                 chunk |-> NoChunk, buffer |-> FALSE]
<1>1. /\ shmAt' = [shmAt EXCEPT ![t] = s]
      /\ UNCHANGED <<used, published, put, rawGiven>>
      /\ UNCHANGED providervars
      /\ n = Cardinality(published) + Cardinality(Active) + 1
      /\ t \notin Active
  BY DEF PublishMessage, Active
<1>2. /\ s.msg = n /\ s.chunk = NoChunk /\ s.op \in {"load", "heap"}
      /\ s.op = "load" => s.haveRemote
      /\ s \in Busy /\ s # ShmIdle
  <2>1. n \in Nat
    BY ShmAssumption
  <2> QED BY <2>1 DEF Busy, ShmIdle, ShmOps
<1> HIDE DEF s
<1>3. /\ shmAt' \in [Thread -> {ShmIdle} \union Busy]
      /\ shmAt'[t] = s
      /\ \A u \in Thread \ {t} : shmAt'[u] = shmAt[u]
  BY <1>1, <1>2 DEF ShmInv, ShmTypes
<1>4. Active' = Active \union {t} /\ \A u \in Active : u \in Thread \ {t}
  BY <1>1, <1>2, <1>3 DEF Active
<1>5. /\ Cardinality(Active') = Cardinality(Active) + 1
      /\ Cardinality(Active) \in Nat /\ Cardinality(published) \in Nat
  BY <1>1, <1>4, ActiveFinite, FS_AddElement, FS_CardinalityType
     DEF ShmInv, ShmTypes
<1>6. ShmTypes'
  BY <1>1, <1>3 DEF ShmInv, ShmTypes, providervars
<1>7. Resolving'
  <2>1. shmAt[t].op = "idle"
    BY <1>1 DEF Active, ShmIdle
  <2> QED BY <1>1, <1>2, <1>3, <2>1, StateKept
<1>8. Numbered'
  <2>1. /\ \A u \in Active : shmAt[u].msg \in Nat
        /\ \A p \in published : p.msg \in Nat
    BY ShmAtType DEF ShmInv, ShmTypes, Busy, Outcomes, Active
  <2>2. /\ \A u \in Active : shmAt[u].msg < n
        /\ \A p \in published : p.msg < n
        /\ n = Cardinality(published') + Cardinality(Active')
    BY <1>1, <1>5, <2>1 DEF ShmInv, Numbered
  <2>3. \A u \in Active' : \/ u = t /\ shmAt'[u].msg = n
                           \/ u \in Active /\ shmAt'[u].msg = shmAt[u].msg
    BY <1>2, <1>3, <1>4
  <2> HIDE DEF Active
  <2>4. n \in Nat
    BY ShmAssumption
  <2>5. /\ \A u \in Active' : shmAt'[u].msg <= n
        /\ \A p \in published' : p.msg <= n
    BY <1>1, <2>1, <2>2, <2>3, <2>4
  <2>6. \A u \in Active' : \A p \in published' : shmAt'[u].msg # p.msg
    BY <1>1, <2>1, <2>2, <2>3, <2>4 DEF ShmInv, Numbered
  <2>7. \A u, v \in Active' : u # v => shmAt'[u].msg # shmAt'[v].msg
    BY <2>1, <2>2, <2>3, <2>4 DEF ShmInv, Numbered
  <2> QED BY <1>1, <2>2, <2>5, <2>6, <2>7 DEF ShmInv, Numbered
<1>9. Holding'
  BY <1>2, <1>3, <1>4 DEF Holding, ShmInv
<1>10. Given'
  BY <1>1, <1>2, <1>3, <1>4 DEF Given, ShmInv
<1>11. Held'
  BY <1>1, <1>2, <1>3, <1>4 DEF Held, ShmInv
<1> QED BY <1>6, <1>7, <1>8, <1>9, <1>10, <1>11 DEF ShmInv

\* A chunk is allocated, or given back because it could not be written.
LEMMA ChunkInv ==
    ASSUME ShmInv, NEW t \in Thread,
           \/ AllocShmChunk(t) /\ used # Chunk
           \/ \E done \in BOOLEAN : SerializeToChunk(t, done)
    PROVE  ShmInv'
<1>1. shmAt[t].op \in {"alloc", "serialize"}
  BY DEF AllocShmChunk, SerializeToChunk
<1>2. t \in Active /\ ShmTypes /\ shmAt[t] \in Busy
  BY <1>1, ShmAtType DEF ShmOps, ShmInv
<1>3. UNCHANGED <<published, put, rawGiven>> /\ UNCHANGED providervars
  BY DEF AllocShmChunk, SerializeToChunk
<1>4. shmAt[t].haveRemote
  BY <1>1, <1>2 DEF Holding, ShmInv
<1>5. PICK s \in Busy :
        /\ shmAt' = [shmAt EXCEPT ![t] = s]
        /\ s.msg = shmAt[t].msg /\ s.haveRaw = shmAt[t].haveRaw
        /\ s.haveRemote = shmAt[t].haveRemote
        /\ s.op \in {"serialize", "push", "heap"}
        /\ \/ /\ s.chunk \in Chunk \ used /\ used' = used \union {s.chunk}
              /\ s.op = "serialize" /\ shmAt[t].op = "alloc"
           \/ /\ s.chunk = shmAt[t].chunk /\ used' = used
              /\ s.op = "push" /\ shmAt[t].op = "serialize"
           \/ /\ s.chunk = NoChunk /\ used' = used \ {shmAt[t].chunk}
              /\ s.op = "heap" /\ shmAt[t].op = "serialize"
  <2>1. CASE AllocShmChunk(t) /\ used # Chunk
    <3>1. PICK c \in Chunk \ used :
              /\ used' = used \union {c}
              /\ GotoWith(t, "serialize", c)
      BY <2>1 DEF AllocShmChunk
    <3>2. "serialize" \in ShmOps /\ c \in Chunk \union {NoChunk}
      BY DEF ShmOps
    <3>3. PICK s \in Busy :
              /\ shmAt' = [shmAt EXCEPT ![t] = s]
              /\ s.op = "serialize" /\ s.msg = shmAt[t].msg
              /\ s.haveRaw = shmAt[t].haveRaw
              /\ s.haveRemote = shmAt[t].haveRemote
              /\ s.chunk = c
      BY <1>2, <3>1, <3>2, ShmGoesWithChunk
    <3>4. shmAt[t].op = "alloc"
      BY <2>1 DEF AllocShmChunk
    <3> QED BY <3>1, <3>3, <3>4
  <2>2. CASE SerializeToChunk(t, TRUE)
    <3>1. "push" \in ShmOps
      BY DEF ShmOps
    <3>3. /\ ShmGoto(t, "push") /\ used' = used
          /\ shmAt[t].op = "serialize"
      BY <2>2 DEF SerializeToChunk
    <3>2. PICK s \in Busy :
              /\ shmAt' = [shmAt EXCEPT ![t] = s]
              /\ s.op = "push" /\ s.msg = shmAt[t].msg
              /\ s.haveRaw = shmAt[t].haveRaw
              /\ s.haveRemote = shmAt[t].haveRemote
              /\ s.chunk = shmAt[t].chunk
      BY <1>2, <3>1, <3>3, ShmGoes
    <3> QED BY <3>2, <3>3
  <2>3. CASE SerializeToChunk(t, FALSE)
    <3>1. "heap" \in ShmOps /\ NoChunk \in Chunk \union {NoChunk}
      BY DEF ShmOps
    <3>3. /\ GotoWith(t, "heap", NoChunk)
          /\ used' = used \ {shmAt[t].chunk}
          /\ shmAt[t].op = "serialize"
      BY <2>3 DEF SerializeToChunk
    <3>2. PICK s \in Busy :
              /\ shmAt' = [shmAt EXCEPT ![t] = s]
              /\ s.op = "heap" /\ s.msg = shmAt[t].msg
              /\ s.haveRaw = shmAt[t].haveRaw
              /\ s.haveRemote = shmAt[t].haveRemote
              /\ s.chunk = NoChunk
      BY <1>2, <3>1, <3>3, ShmGoesWithChunk
    <3> QED BY <3>2, <3>3
  <2> QED BY <2>1, <2>2, <2>3
<1>6. /\ Active' = Active /\ Numbered'
      /\ shmAt' \in [Thread -> {ShmIdle} \union Busy]
      /\ shmAt'[t] = s
      /\ \A u \in Thread \ {t} : shmAt'[u] = shmAt[u]
      /\ \A u \in Active : /\ shmAt'[u].msg = shmAt[u].msg
                           /\ shmAt'[u].haveRaw = shmAt[u].haveRaw
  BY <1>2, <1>3, <1>5, Carries
<1>7. ShmTypes'
  BY <1>2, <1>3, <1>5, <1>6 DEF ShmTypes, providervars
<1>8. Resolving'
  BY <1>1, <1>3, <1>5, <1>6, StateKept
<1>9. \A u \in Active : u \in Thread
                /\ (shmAt'[u].op = "put" <=> shmAt[u].op = "put")
  BY <1>1, <1>5, <1>6 DEF Active
<1>10. Given'
  BY <1>3, <1>6, <1>9 DEF Given, ShmInv
<1>11. shmAt[t].op = "alloc" => shmAt[t].chunk = NoChunk
  BY <1>2 DEF Holding, ShmInv
<1>12. shmAt[t].op = "serialize" => shmAt[t].chunk # NoChunk
  BY <1>2 DEF Holding, ShmInv
<1>13. Holding'
  <2>1. \A u \in Active \ {t} : u \in Thread \ {t}
    BY DEF Active
  <2>2. 0 \notin Chunk
    BY ShmAssumption
  <2> QED BY <1>4, <1>5, <1>6, <1>12, <2>1, <2>2 DEF Holding, ShmInv, NoChunk
<1>14. Held'
  <2>1. \A u \in Active \ {t} : shmAt'[u].chunk = shmAt[u].chunk
    BY <1>6 DEF Active
  <2>2. NoChunk \notin Chunk /\ used \subseteq Chunk
    BY <1>2, ShmAssumption DEF NoChunk, ShmTypes
  <2>3. CASE s.chunk \in Chunk \ used /\ used' = used \union {s.chunk}
             /\ shmAt[t].op = "alloc"
    <3>1. \A c \in used : (\E u \in Active \ {t} : shmAt[u].chunk = c)
                              \/ \E q \in put : q.chunk = c
      BY <1>11, <2>2, <2>3 DEF Held, ShmInv
    <3>2. \A c \in used' : (\E u \in Active' : shmAt'[u].chunk = c)
                              \/ \E q \in put' : q.chunk = c
      BY <1>2, <1>3, <1>6, <2>1, <2>3, <3>1
    <3> QED BY <1>3, <1>6, <2>1, <2>2, <2>3, <3>2 DEF Held, ShmInv
  <2>4. CASE s.chunk = shmAt[t].chunk /\ used' = used
    <3>1. \A u \in Active : shmAt'[u].chunk = shmAt[u].chunk
      BY <1>6, <2>1, <2>4
    <3> QED BY <1>3, <1>6, <2>4, <3>1 DEF Held, ShmInv
  <2>5. CASE s.chunk = NoChunk /\ used' = used \ {shmAt[t].chunk}
             /\ shmAt[t].op = "serialize"
    <3>1. \A c \in used' : (\E u \in Active \ {t} : shmAt[u].chunk = c)
                              \/ \E q \in put : q.chunk = c
      BY <2>5 DEF Held, ShmInv
    <3>2. \A c \in used' : (\E u \in Active' : shmAt'[u].chunk = c)
                              \/ \E q \in put' : q.chunk = c
      BY <1>3, <1>6, <2>1, <3>1
    <3>3. \A u \in Active \ {t} : shmAt[u].chunk # NoChunk =>
              shmAt[u].chunk # shmAt[t].chunk
      BY <1>2 DEF Held, ShmInv
    <3>4. \A q \in put : q.chunk # NoChunk => q.chunk # shmAt[t].chunk
      BY <1>2 DEF Held, ShmInv
    <3> QED BY <1>3, <1>6, <2>1, <2>5, <3>2, <3>3, <3>4 DEF Held, ShmInv
  <2> QED BY <1>5, <2>3, <2>4, <2>5
<1> QED BY <1>6, <1>7, <1>8, <1>10, <1>13, <1>14 DEF ShmInv

LEMMA Returns ==
    ASSUME ShmInv, NEW t \in Active, NEW result \in BOOLEAN, Return(t, result)
    PROVE  /\ Active' = Active \ {t} /\ t \in Thread
           /\ shmAt' \in [Thread -> {ShmIdle} \union Busy]
           /\ shmAt'[t] = ShmIdle
           /\ \A u \in Thread \ {t} : shmAt'[u] = shmAt[u]
           /\ \A u \in Active' : u \in Thread \ {t}
           /\ published' \subseteq Outcomes /\ IsFiniteSet(published')
           /\ \E p \in Outcomes :
                 /\ published' = published \union {p}
                 /\ p.msg = shmAt[t].msg /\ p.result = result
                 /\ p.haveRaw = shmAt[t].haveRaw
                 /\ p.haveRemote = shmAt[t].haveRemote
                 /\ \A r \in published : r.msg # p.msg
           /\ Numbered' /\ Holding'
<1> DEFINE p == [msg |-> shmAt[t].msg, result |-> result,
                 haveRaw |-> shmAt[t].haveRaw,
                 haveRemote |-> shmAt[t].haveRemote]
<1>1. /\ shmAt[t] \in Busy /\ t \in Thread
      /\ shmAt \in [Thread -> {ShmIdle} \union Busy]
  BY ShmAtType DEF Active, ShmInv, ShmTypes
<1>2. /\ p \in Outcomes /\ p.msg = shmAt[t].msg /\ p.result = result
      /\ p.haveRaw = shmAt[t].haveRaw
      /\ p.haveRemote = shmAt[t].haveRemote
  BY <1>1 DEF Busy, Outcomes
<1>3. /\ shmAt' = [shmAt EXCEPT ![t] = ShmIdle]
      /\ published' = published \union {p}
  BY DEF Return
<1> HIDE DEF p
<1>4. /\ shmAt' \in [Thread -> {ShmIdle} \union Busy]
      /\ shmAt'[t] = ShmIdle
      /\ \A u \in Thread \ {t} : shmAt'[u] = shmAt[u]
  BY <1>1, <1>3
<1>5. Active' = Active \ {t} /\ \A u \in Active' : u \in Thread \ {t}
  BY <1>4 DEF Active
<1>6. \A r \in published : r.msg # p.msg
  BY <1>2 DEF ShmInv, Numbered
<1>7. p \notin published
  BY <1>6
<1>8. /\ Cardinality(Active') = Cardinality(Active) - 1
      /\ Cardinality(Active) \in Nat
  BY <1>5, ActiveFinite, FS_RemoveElement
<1>9. /\ Cardinality(published') = Cardinality(published) + 1
      /\ Cardinality(published) \in Nat
      /\ IsFiniteSet(published')
  BY <1>3, <1>7, FS_AddElement, FS_CardinalityType DEF ShmInv, ShmTypes
<1>10. published' \subseteq Outcomes
  BY <1>2, <1>3 DEF ShmInv, ShmTypes
<1>11. Numbered'
  <2>1. Cardinality(published') + Cardinality(Active')
            = Cardinality(published) + Cardinality(Active)
    BY <1>8, <1>9
  <2>2. \A u \in Active' : u \in Active /\ u # t /\ shmAt'[u] = shmAt[u]
    BY <1>4, <1>5
  <2>3. \A r \in published' : r \in published \/ r = p
    BY <1>3
  <2> HIDE DEF Active
  <2> QED BY <1>2, <1>6, <2>1, <2>2, <2>3 DEF ShmInv, Numbered
<1>12. Holding'
  BY <1>4, <1>5 DEF Holding, ShmInv
<1> QED BY <1>1, <1>2, <1>3, <1>4, <1>5, <1>6, <1>9, <1>10, <1>11, <1>12

LEMMA SerializeToHeapInv ==
    ASSUME ShmInv, NEW t \in Thread, NEW done \in BOOLEAN,
           SerializeToHeap(t, done)
    PROVE  ShmInv'
<1>1. /\ shmAt[t].op = "heap" /\ UNCHANGED <<used, put, rawGiven>>
      /\ UNCHANGED providervars
  BY DEF SerializeToHeap
<1>2. t \in Active /\ ShmTypes /\ shmAt[t] \in Busy
  BY <1>1, ShmAtType DEF ShmOps, ShmInv
<1>3. shmAt[t].chunk = NoChunk
  BY <1>1, <1>2 DEF ShmInv, Holding
<1>4. CASE Return(t, FALSE)
  <2>1. Numbered' /\ Holding'
    BY <1>2, <1>4, Returns
  <2>2. /\ Active' = Active \ {t}
        /\ shmAt' \in [Thread -> {ShmIdle} \union Busy]
        /\ shmAt'[t] = ShmIdle
        /\ \A u \in Thread \ {t} : shmAt'[u] = shmAt[u]
        /\ \A u \in Active' : u \in Thread \ {t}
        /\ published' \subseteq Outcomes /\ IsFiniteSet(published')
    BY <1>2, <1>4, Returns
  <2>3. PICK p \in Outcomes : /\ published' = published \union {p}
                              /\ p.result = FALSE
                              /\ \A r \in published : r.msg # p.msg
    BY <1>2, <1>4, Returns
  <2>4. ShmTypes'
    BY <1>1, <1>2, <2>2 DEF ShmTypes, providervars
  <2>5. Resolving'
    BY <1>1, <2>2, StateKept DEF ShmIdle
  <2>6. Given'
    BY <1>1, <2>2, <2>3 DEF Given, ShmInv
  <2>7. Held'
    <3>1. \A c \in used : (\E u \in Active \ {t} : shmAt[u].chunk = c)
                              \/ \E q \in put : q.chunk = c
      BY <1>2, <1>3, ShmAssumption DEF ShmInv, Held, ShmTypes, NoChunk
    <3> QED BY <1>1, <2>2, <3>1 DEF Held, ShmInv
  <2> QED BY <2>1, <2>4, <2>5, <2>6, <2>7 DEF ShmInv
<1>5. ASSUME NEW s \in Busy, shmAt' = [shmAt EXCEPT ![t] = s],
             s.msg = shmAt[t].msg, s.haveRaw = shmAt[t].haveRaw,
             s.haveRemote = shmAt[t].haveRemote, s.op = "push",
             s.chunk = shmAt[t].chunk, published' = published,
             s.haveRaw \/ s.haveRemote => s.buffer
      PROVE  ShmInv'
  <2>1. /\ Active' = Active /\ Numbered'
        /\ shmAt' \in [Thread -> {ShmIdle} \union Busy]
        /\ shmAt'[t] = s
        /\ \A u \in Thread \ {t} : shmAt'[u] = shmAt[u]
        /\ \A u \in Active : /\ shmAt'[u].msg = shmAt[u].msg
                             /\ shmAt'[u].haveRaw = shmAt[u].haveRaw
    BY <1>2, <1>5, Carries
  <2>2. ShmTypes'
    BY <1>1, <1>2, <1>5, <2>1 DEF ShmTypes, providervars
  <2>3. Resolving'
    BY <1>1, <1>5, <2>1, StateKept
  <2>4. \A u \in Active : /\ u \in Thread
                          /\ shmAt'[u].chunk = shmAt[u].chunk
                          /\ shmAt'[u].op = "put" <=> shmAt[u].op = "put"
    BY <1>1, <1>5, <2>1 DEF Active
  <2>5. Given' /\ Held'
    BY <1>1, <1>5, <2>1, <2>4 DEF Given, Held, ShmInv
  <2>6. Holding'
    BY <1>3, <1>5, <2>1, <2>4 DEF Holding, ShmInv
  <2> QED BY <2>1, <2>2, <2>3, <2>5, <2>6 DEF ShmInv
<1>6. CASE ~ shmAt[t].haveRaw /\ ~ shmAt[t].haveRemote
  <2>1. ShmGoto(t, "push") /\ published' = published /\ "push" \in ShmOps
    BY <1>6 DEF SerializeToHeap, ShmOps
  <2>2. PICK s \in Busy :
            /\ shmAt' = [shmAt EXCEPT ![t] = s]
            /\ s.op = "push" /\ s.msg = shmAt[t].msg
            /\ s.haveRaw = shmAt[t].haveRaw
            /\ s.haveRemote = shmAt[t].haveRemote
            /\ s.chunk = shmAt[t].chunk
    BY <1>2, <2>1, ShmGoes
  <2> QED BY <1>5, <1>6, <2>1, <2>2
<1>7. CASE (shmAt[t].haveRaw \/ shmAt[t].haveRemote) /\ done
  <2>1. /\ shmAt' = [shmAt EXCEPT ![t].op = "push", ![t].buffer = TRUE]
        /\ published' = published
    BY <1>7 DEF SerializeToHeap
  <2>2. PICK s \in Busy :
            /\ shmAt' = [shmAt EXCEPT ![t] = s]
            /\ s.op = "push" /\ s.msg = shmAt[t].msg
            /\ s.haveRaw = shmAt[t].haveRaw
            /\ s.haveRemote = shmAt[t].haveRemote
            /\ s.chunk = shmAt[t].chunk /\ s.buffer
    BY <1>2, <2>1, ShmGoesWithBuffer
  <2> QED BY <1>5, <2>1, <2>2
<1>8. CASE (shmAt[t].haveRaw \/ shmAt[t].haveRemote) /\ ~ done
  BY <1>4, <1>8 DEF SerializeToHeap
<1> QED BY <1>6, <1>7, <1>8

LEMMA PushForRawInv ==
    ASSUME ShmInv, NEW t \in Thread, PushForRaw(t)
    PROVE  ShmInv'
<1>1. /\ shmAt[t].op = "push" /\ UNCHANGED <<used, put>>
      /\ UNCHANGED providervars
  BY DEF PushForRaw
<1>2. t \in Active /\ ShmTypes /\ shmAt[t] \in Busy
  BY <1>1, ShmAtType DEF ShmOps, ShmInv
<1>3. shmAt[t].haveRaw => Serialized(t)
  BY <1>1, <1>2 DEF ShmInv, Holding, Serialized
<1>4. Serialized(t) \in BOOLEAN /\ shmAt[t].msg \in Nat
  BY <1>2 DEF Busy, Serialized
<1>5. /\ rawGiven \subseteq rawGiven'
      /\ \A q \in rawGiven' : \/ q \in rawGiven
                              \/ /\ q.msg = shmAt[t].msg /\ q.data
                                 /\ shmAt[t].haveRaw
      /\ shmAt[t].haveRaw => \E q \in rawGiven' : q.msg = shmAt[t].msg
      /\ rawGiven' \subseteq [msg : Nat, data : BOOLEAN]
  <2>1. CASE shmAt[t].haveRaw
    <3> DEFINE q == [msg |-> shmAt[t].msg, data |-> Serialized(t)]
    <3>1. q.msg = shmAt[t].msg /\ q.data /\ q \in [msg : Nat, data : BOOLEAN]
      BY <1>3, <1>4, <2>1
    <3>2. rawGiven' = rawGiven \union {q}
      BY <2>1 DEF PushForRaw
    <3> QED BY <1>2, <2>1, <3>1, <3>2 DEF ShmTypes
  <2>2. CASE ~ shmAt[t].haveRaw
    BY <1>2, <2>2 DEF PushForRaw, ShmTypes
  <2> QED BY <2>1, <2>2
<1>6. CASE shmAt[t].haveRemote
  <2>1. ShmGoto(t, "put") /\ published' = published /\ "put" \in ShmOps
    BY <1>6 DEF PushForRaw, ShmOps
  <2>2. PICK s \in Busy :
            /\ shmAt' = [shmAt EXCEPT ![t] = s]
            /\ s.op = "put" /\ s.msg = shmAt[t].msg
            /\ s.haveRaw = shmAt[t].haveRaw
            /\ s.haveRemote = shmAt[t].haveRemote
            /\ s.chunk = shmAt[t].chunk /\ s.buffer = shmAt[t].buffer
    BY <1>2, <2>1, ShmGoes
  <2>3. /\ Active' = Active /\ Numbered'
        /\ shmAt' \in [Thread -> {ShmIdle} \union Busy]
        /\ shmAt'[t] = s
        /\ \A u \in Thread \ {t} : shmAt'[u] = shmAt[u]
        /\ \A u \in Active : /\ shmAt'[u].msg = shmAt[u].msg
                             /\ shmAt'[u].haveRaw = shmAt[u].haveRaw
    BY <1>2, <2>1, <2>2, Carries
  <2>4. ShmTypes'
    BY <1>1, <1>2, <1>5, <2>1, <2>3 DEF ShmTypes, providervars
  <2>5. Resolving'
    BY <1>1, <2>2, <2>3, StateKept
  <2>6. \A u \in Active : /\ u \in Thread
                          /\ shmAt'[u].chunk = shmAt[u].chunk
                          /\ u # t => shmAt'[u] = shmAt[u]
    BY <2>2, <2>3 DEF Active
  <2>7. Held'
    BY <1>1, <2>3, <2>6 DEF Held, ShmInv
  <2>8. Holding'
    <3>1. /\ shmAt[t].haveRemote /\ shmAt'[t] = s
          /\ shmAt[t].chunk # NoChunk \/ shmAt[t].buffer
      BY <1>1, <1>2, <1>6, <2>3 DEF Holding, ShmInv
    <3>2. \A u \in Active' \ {t} : u \in Active /\ shmAt'[u] = shmAt[u]
      BY <2>3, <2>6
    <3>3. /\ shmAt'[t].chunk # NoChunk \/ shmAt'[t].buffer
          /\ shmAt'[t].op = "put" /\ shmAt'[t].haveRemote
      BY <2>2, <3>1
    <3> SUFFICES ASSUME NEW u \in Active'
                 PROVE  LET r == shmAt'[u] IN
                        /\ r.chunk # NoChunk =>
                               /\ r.op \in {"serialize", "push", "put"}
                               /\ r.haveRemote
                        /\ r.op = "serialize" => r.chunk # NoChunk
                        /\ r.op \in {"push", "put"}
                               /\ (r.haveRaw \/ r.haveRemote) =>
                                      r.chunk # NoChunk \/ r.buffer
                        /\ r.op = "put" => r.haveRemote
                        /\ r.op \notin {"heap", "push"} => r.haveRemote
      BY DEF Holding
    <3>4. CASE u = t
      BY <3>3, <3>4
    <3>5. CASE u # t
      BY <3>2, <3>5 DEF Holding, ShmInv
    <3> QED BY <3>4, <3>5
  <2>9. Given'
    <3>1. \A q \in rawGiven' :
              \/ \E p \in published' : p.msg = q.msg /\ p.result /\ p.haveRaw
              \/ \E u \in Active' : /\ shmAt'[u].op = "put"
                                    /\ shmAt'[u].msg = q.msg
                                    /\ shmAt'[u].haveRaw
      <4> TAKE q \in rawGiven'
      <4>1. CASE q \in rawGiven
        BY <1>1, <2>1, <2>3, <2>6, <4>1 DEF Given, ShmInv
      <4>2. CASE q.msg = shmAt[t].msg /\ shmAt[t].haveRaw
        BY <1>2, <2>2, <2>3, <4>2
      <4> QED BY <1>5, <4>1, <4>2
    <3>2. \A u \in Active' : shmAt'[u].op = "put" /\ shmAt'[u].haveRaw =>
              \E q \in rawGiven' : q.msg = shmAt'[u].msg
      BY <1>5, <2>2, <2>3, <2>6 DEF Given, ShmInv
    <3>3. \A q \in rawGiven' : q.data
      BY <1>5 DEF Given, ShmInv
    <3>4. \A p \in published' : p.result /\ p.haveRaw =>
              \E q \in rawGiven' : q.msg = p.msg
      BY <1>5, <2>1 DEF Given, ShmInv
    <3> QED BY <1>1, <2>1, <3>1, <3>2, <3>3, <3>4 DEF Given, ShmInv
  <2> QED BY <2>3, <2>4, <2>5, <2>7, <2>8, <2>9 DEF ShmInv
<1>7. CASE ~ shmAt[t].haveRemote
  <2>0. Return(t, TRUE)
    BY <1>7 DEF PushForRaw
  <2>1. Numbered' /\ Holding'
    BY <1>2, <2>0, Returns
  <2>2. /\ Active' = Active \ {t}
        /\ shmAt' \in [Thread -> {ShmIdle} \union Busy]
        /\ shmAt'[t] = ShmIdle
        /\ \A u \in Thread \ {t} : shmAt'[u] = shmAt[u]
        /\ \A u \in Active' : u \in Thread \ {t}
        /\ published' \subseteq Outcomes /\ IsFiniteSet(published')
    BY <1>2, <2>0, Returns
  <2>3. PICK p \in Outcomes : /\ published' = published \union {p}
                              /\ p.msg = shmAt[t].msg /\ p.result = TRUE
                              /\ p.haveRaw = shmAt[t].haveRaw
                              /\ p.haveRemote = shmAt[t].haveRemote
                              /\ \A r \in published : r.msg # p.msg
    BY <1>2, <2>0, Returns
  <2>4. ShmTypes'
    BY <1>1, <1>2, <1>5, <2>2 DEF ShmTypes, providervars
  <2>5. Resolving'
    BY <1>1, <2>2, StateKept DEF ShmIdle
  <2>6. Given'
    <3>1. \A q \in rawGiven' :
              \/ \E r \in published' : r.msg = q.msg /\ r.result /\ r.haveRaw
              \/ \E u \in Active' : /\ shmAt'[u].op = "put"
                                    /\ shmAt'[u].msg = q.msg
                                    /\ shmAt'[u].haveRaw
      <4> TAKE q \in rawGiven'
      <4>1. CASE q \in rawGiven
        BY <1>1, <2>2, <2>3, <4>1 DEF Given, ShmInv
      <4>2. CASE q.msg = shmAt[t].msg /\ shmAt[t].haveRaw
        BY <2>3, <4>2
      <4> QED BY <1>5, <4>1, <4>2
    <3>2. \A u \in Active' : shmAt'[u].op = "put" /\ shmAt'[u].haveRaw =>
              \E q \in rawGiven' : q.msg = shmAt'[u].msg
      BY <1>5, <2>2 DEF Given, ShmInv
    <3>3. \A q \in rawGiven' : q.data
      BY <1>5 DEF Given, ShmInv
    <3>4. \A r \in published' : r.result /\ r.haveRaw =>
              \E q \in rawGiven' : q.msg = r.msg
      BY <1>5, <2>3 DEF Given, ShmInv
    <3>5. /\ \A q \in put : \E r \in published' :
                 r.msg = q.msg /\ r.result /\ r.haveRemote
          /\ \A r \in published' : r.result /\ r.haveRemote =>
                 \E q \in put : q.msg = r.msg
      BY <1>7, <2>3 DEF Given, ShmInv
    <3> QED BY <1>1, <3>1, <3>2, <3>3, <3>4, <3>5 DEF Given, ShmInv
  <2>7. Held'
    <3>1. shmAt[t].chunk = NoChunk
      BY <1>2, <1>7 DEF ShmInv, Holding
    <3>2. \A c \in used : (\E u \in Active \ {t} : shmAt[u].chunk = c)
                              \/ \E q \in put : q.chunk = c
      BY <1>2, <3>1, ShmAssumption DEF ShmInv, Held, ShmTypes, NoChunk
    <3> QED BY <1>1, <2>2, <3>2 DEF Held, ShmInv
  <2> QED BY <2>1, <2>4, <2>5, <2>6, <2>7 DEF ShmInv
<1> QED BY <1>6, <1>7

LEMMA PutToZenohInv ==
    ASSUME ShmInv, NEW t \in Thread, PutToZenoh(t)
    PROVE  ShmInv'
<1>1. /\ shmAt[t].op = "put" /\ UNCHANGED <<used, rawGiven>>
      /\ UNCHANGED providervars /\ Return(t, TRUE)
  BY DEF PutToZenoh
<1>2. t \in Active /\ ShmTypes /\ shmAt[t] \in Busy
  BY <1>1, ShmAtType DEF ShmOps, ShmInv
<1>3. Serialized(t) /\ shmAt[t].haveRemote
  BY <1>1, <1>2 DEF ShmInv, Holding, Serialized
<1>4. PICK q \in Puts : /\ put' = put \union {q}
                        /\ q.msg = shmAt[t].msg /\ q.data
                        /\ q.chunk = shmAt[t].chunk
  <2> DEFINE q == [msg |-> shmAt[t].msg, chunk |-> shmAt[t].chunk,
                   data |-> Serialized(t)]
  <2>1. q \in Puts /\ q.msg = shmAt[t].msg /\ q.chunk = shmAt[t].chunk
    BY <1>2 DEF Busy, Puts, Serialized
  <2>2. q.data
    BY <1>3
  <2>3. put' = put \union {q}
    BY DEF PutToZenoh
  <2> HIDE DEF q
  <2> QED BY <2>1, <2>2, <2>3
<1>5. Numbered' /\ Holding'
  BY <1>1, <1>2, Returns
<1>6. /\ Active' = Active \ {t}
      /\ shmAt' \in [Thread -> {ShmIdle} \union Busy]
      /\ shmAt'[t] = ShmIdle
      /\ \A u \in Thread \ {t} : shmAt'[u] = shmAt[u]
      /\ \A u \in Active' : u \in Thread \ {t}
      /\ published' \subseteq Outcomes /\ IsFiniteSet(published')
  BY <1>1, <1>2, Returns
<1>7. PICK p \in Outcomes : /\ published' = published \union {p}
                            /\ p.msg = shmAt[t].msg /\ p.result = TRUE
                            /\ p.haveRaw = shmAt[t].haveRaw
                            /\ p.haveRemote = shmAt[t].haveRemote
                            /\ \A r \in published : r.msg # p.msg
  BY <1>1, <1>2, Returns
<1>8. ShmTypes'
  BY <1>1, <1>2, <1>4, <1>6 DEF ShmTypes, providervars
<1>9. Resolving'
  BY <1>1, <1>6, StateKept DEF ShmIdle
<1>10. \A r \in put : r.msg # shmAt[t].msg
  BY <1>2, <1>7 DEF ShmInv, Given
<1>11. Given'
  <2>1. \A r \in rawGiven' :
            \/ \E o \in published' : o.msg = r.msg /\ o.result /\ o.haveRaw
            \/ \E u \in Active' : /\ shmAt'[u].op = "put"
                                  /\ shmAt'[u].msg = r.msg
                                  /\ shmAt'[u].haveRaw
    <3> TAKE r \in rawGiven'
    <3>1. CASE \E o \in published : o.msg = r.msg /\ o.result /\ o.haveRaw
      BY <1>7, <3>1
    <3>2. ASSUME NEW u \in Active, shmAt[u].op = "put",
                 shmAt[u].msg = r.msg, shmAt[u].haveRaw
          PROVE  \/ \E o \in published' :
                       o.msg = r.msg /\ o.result /\ o.haveRaw
                 \/ \E v \in Active' : /\ shmAt'[v].op = "put"
                                       /\ shmAt'[v].msg = r.msg
                                       /\ shmAt'[v].haveRaw
      <4>1. CASE u = t
        BY <1>7, <3>2, <4>1
      <4>2. CASE u # t
        BY <1>6, <3>2, <4>2
      <4> QED BY <4>1, <4>2
    <3> QED BY <1>1, <3>1, <3>2 DEF Given, ShmInv
  <2>2. \A u \in Active' : shmAt'[u].op = "put" /\ shmAt'[u].haveRaw =>
            \E r \in rawGiven' : r.msg = shmAt'[u].msg
    BY <1>1, <1>6 DEF Given, ShmInv
  <2>3. \A o \in published' : o.result /\ o.haveRaw =>
            \E r \in rawGiven' : r.msg = o.msg
    BY <1>1, <1>2, <1>7 DEF Given, ShmInv
  <2>4. /\ \A r \in put' : \E o \in published' :
               o.msg = r.msg /\ o.result /\ o.haveRemote
        /\ \A o \in published' : o.result /\ o.haveRemote =>
               \E r \in put' : r.msg = o.msg
    BY <1>3, <1>4, <1>7 DEF Given, ShmInv
  <2>5. \A r, s \in put' : r.msg = s.msg => r = s
    BY <1>4, <1>10 DEF Given, ShmInv
  <2> QED BY <1>1, <1>4, <2>1, <2>2, <2>3, <2>4, <2>5 DEF Given, ShmInv
<1>12. Held'
  <2>1. \A u \in Active' : shmAt'[u].chunk = shmAt[u].chunk /\ u \in Active
            /\ u # t
    BY <1>6
  <2>2. /\ \A r \in put' : r.chunk # NoChunk => r.chunk \in used'
        /\ \A r, s \in put' : r.chunk = s.chunk /\ r.chunk # NoChunk => r = s
    BY <1>1, <1>2, <1>4 DEF ShmInv, Held
  <2>3. \A u \in Active' : \A r \in put' :
            shmAt'[u].chunk = r.chunk => r.chunk = NoChunk
    BY <1>2, <1>4, <2>1 DEF ShmInv, Held
  <2>4. \A c \in used' : \/ \E u \in Active' : shmAt'[u].chunk = c
                         \/ \E r \in put' : r.chunk = c
    BY <1>1, <1>4, <1>6, <2>1 DEF ShmInv, Held
  <2> QED BY <1>1, <2>1, <2>2, <2>3, <2>4 DEF ShmInv, Held
<1> QED BY <1>5, <1>8, <1>9, <1>11, <1>12 DEF ShmInv

LEMMA ReleaseInv ==
    ASSUME ShmInv, NEW p \in put, Release(p)
    PROVE  ShmInv'
<1>1. /\ p.chunk # NoChunk /\ used' = used \ {p.chunk}
      /\ UNCHANGED <<shmAt, published, rawGiven>> /\ UNCHANGED providervars
  BY DEF Release
<1>2. PICK q \in Puts : /\ put' = (put \ {p}) \union {q}
                        /\ q.msg = p.msg /\ q.data = p.data
                        /\ q.chunk = NoChunk
  <2> DEFINE q == [p EXCEPT !.chunk = NoChunk]
  <2>1. q \in Puts /\ q.msg = p.msg /\ q.data = p.data /\ q.chunk = NoChunk
    BY DEF ShmInv, ShmTypes, Puts
  <2>2. put' = (put \ {p}) \union {q}
    BY DEF Release
  <2> HIDE DEF q
  <2> QED BY <2>1, <2>2
<1>3. Active' = Active
  BY <1>1 DEF Active
<1>4. ShmTypes' /\ Resolving' /\ Numbered' /\ Holding'
  BY <1>1, <1>2, <1>3
     DEF ShmInv, ShmTypes, providervars, Resolving, Numbered, Holding
<1>5. Given'
  <2>1. /\ \A r \in put' : \E o \in published :
               o.msg = r.msg /\ o.result /\ o.haveRemote
        /\ \A r \in put' : r.data
        /\ \A r, s \in put' : r.msg = s.msg => r = s
    BY <1>2 DEF ShmInv, Given
  <2>2. \A o \in published : o.result /\ o.haveRemote =>
            \E r \in put' : r.msg = o.msg
    <3> SUFFICES ASSUME NEW o \in published, o.result, o.haveRemote
                 PROVE  \E r \in put' : r.msg = o.msg
      OBVIOUS
    <3>1. PICK r \in put : r.msg = o.msg
      BY DEF ShmInv, Given
    <3>2. CASE r = p
      BY <1>2, <3>1, <3>2
    <3>3. CASE r # p
      BY <1>2, <3>1, <3>3
    <3> QED BY <3>2, <3>3
  <2> QED BY <1>1, <1>3, <2>1, <2>2 DEF ShmInv, Given
<1>6. Held'
  <2>1. \A u \in Active : shmAt[u].chunk # p.chunk
    BY <1>1 DEF ShmInv, Held
  <2>2. \A r \in put \ {p} : r.chunk # NoChunk => r.chunk # p.chunk
    BY <1>1 DEF ShmInv, Held
  <2>3. \A c \in used' : \/ \E u \in Active : shmAt[u].chunk = c
                         \/ \E r \in put' : r.chunk = c
    BY <1>1, <1>2 DEF ShmInv, Held
  <2>4. /\ \A r \in put' : r.chunk # NoChunk => r.chunk \in used'
        /\ \A r, s \in put' : r.chunk = s.chunk /\ r.chunk # NoChunk => r = s
        /\ \A u \in Active : \A r \in put' :
               shmAt[u].chunk = r.chunk => r.chunk = NoChunk
    BY <1>1, <1>2, <2>2 DEF ShmInv, Held
  <2> QED BY <1>1, <1>3, <2>1, <2>3, <2>4 DEF ShmInv, Held
<1> QED BY <1>4, <1>5, <1>6 DEF ShmInv

LEMMA ShmInvStep == ShmInv /\ [ShmNext]_shmvars => ShmInv'
<1> SUFFICES ASSUME ShmInv, [ShmNext]_shmvars PROVE ShmInv'
  OBVIOUS
<1>1. CASE UNCHANGED shmvars
  <2>1. /\ UNCHANGED <<session, state, provider, mutex, used, refusals>>
        /\ UNCHANGED <<shmAt, published, put, rawGiven>>
    BY <1>1 DEF shmvars
  <2>2. Active' = Active
    BY <2>1 DEF Active
  <2> QED BY <2>1, <2>2 DEF ShmInv, ShmTypes, Resolving, Numbered, Holding,
                             Given, Held
<1>2. ASSUME NEW t \in Thread, AllocShmChunk(t)
      PROVE  ShmInv'
  BY <1>2, ProviderInv, ChunkInv
<1> QED BY <1>1, <1>2, ResolveInv, ProviderInv, PublishMessageInv, ChunkInv,
           SerializeToHeapInv, PushForRawInv, PutToZenohInv, ReleaseInv
        DEF ShmNext

\* What the invariant says of the chunks, in numbers.
LEMMA ShmInvKept == ShmInv => ShmKept
<1> SUFFICES ASSUME ShmInv PROVE ShmKept
  OBVIOUS
<1>1. ProviderThere
  <2>1. refusals <= 1 /\ ~ (provider /\ refusals = 1)
    BY DEF ShmInv, Resolving
  <2> QED BY <2>1 DEF ProviderThere, ShmInv, Resolving
<1>2. Shipped
  <2> SUFFICES ASSUME NEW p \in published
               PROVE  /\ Cardinality({q \in put : q.msg = p.msg})
                             = IF p.result /\ p.haveRemote THEN 1 ELSE 0
                      /\ (\E q \in rawGiven : q.msg = p.msg)
                             <=> p.result /\ p.haveRaw
                      /\ \A q \in put \union rawGiven : q.data
    BY DEF Shipped
  <2>0. /\ (\E q \in rawGiven : q.msg = p.msg) <=> p.result /\ p.haveRaw
        /\ \A q \in put \union rawGiven : q.data
    <3>1. (\E q \in rawGiven : q.msg = p.msg) => p.result /\ p.haveRaw
      BY DEF ShmInv, Given, Numbered
    <3> QED BY <3>1 DEF ShmInv, Given
  <2>1. CASE p.result /\ p.haveRemote
    <3>1. PICK q \in put : q.msg = p.msg
      BY <2>1 DEF ShmInv, Given
    <3>2. {r \in put : r.msg = p.msg} = {q}
      BY <3>1 DEF ShmInv, Given
    <3> QED BY <2>0, <2>1, <3>2, FS_Singleton
  <2>2. CASE ~ (p.result /\ p.haveRemote)
    <3>1. {r \in put : r.msg = p.msg} = {}
      BY <2>2 DEF ShmInv, Given, Numbered
    <3> QED BY <2>0, <2>2, <3>1, FS_EmptySet
  <2> QED BY <2>1, <2>2
<1>3. ChunksHeld
  <2> DEFINE holders(c) ==
          {t \in Thread : shmAt[t] # ShmIdle /\ shmAt[t].chunk = c}
              \union {p.msg : p \in {q \in put : q.chunk = c}}
  <2> SUFFICES ASSUME NEW c \in Chunk
               PROVE  Cardinality(holders(c)) = IF c \in used THEN 1 ELSE 0
    BY DEF ChunksHeld
  <2>1. holders(c) = {t \in Active : shmAt[t].chunk = c}
                         \union {p.msg : p \in {q \in put : q.chunk = c}}
    BY DEF Active
  <2>2. c # NoChunk
    BY ShmAssumption DEF NoChunk
  <2>3. CASE c \notin used
    <3>1. holders(c) = {}
      BY <2>1, <2>2, <2>3 DEF ShmInv, Held
    <3> QED BY <2>3, <3>1, FS_EmptySet
  <2>4. ASSUME NEW t \in Active, shmAt[t].chunk = c, c \in used
        PROVE  holders(c) = {t}
    BY <2>1, <2>2, <2>4 DEF ShmInv, Held
  <2>5. ASSUME NEW p \in put, p.chunk = c, c \in used
        PROVE  holders(c) = {p.msg}
    BY <2>1, <2>2, <2>5 DEF ShmInv, Held
  <2> HIDE DEF holders
  <2>6. c \in used => \E x : holders(c) = {x}
    BY <2>4, <2>5 DEF ShmInv, Held
  <2>7. c \in used => Cardinality(holders(c)) = 1
    BY <2>6, FS_Singleton
  <2> QED BY <2>3, <2>7
<1> QED BY <1>1, <1>2, <1>3 DEF ShmKept

\* In shared memory or on the heap, each message published goes, serialized,
\* to those it is for, once; chunks neither leak nor are shared; the provider
\* is there for who uses it (ShmHelpers.hh:165-198, Node.cc:420-613).
THEOREM ShmCorrect == ShmSpec => []ShmKept
BY ShmInvInit, ShmInvStep, ShmInvKept, PTL DEF ShmSpec

(***************************************************************************)
(*                                                                         *)
(* Clocks.                                                                 *)
(*                                                                         *)
(***************************************************************************)
LEMMA DivBounds ==
    ASSUME NEW n \in Nat, NEW m \in Nat \ {0}
    PROVE  /\ n \div m \in Nat
           /\ n - (n \div m) * m \in 0..(m - 1)
OBVIOUS

LEMMA StampReads ==
    ASSUME NEW time \in Int, Fits(time)
    PROVE  UpdateTimeFromMessage(Stamp(time)) = time
<1> DEFINE q == Seconds(time)
           r == time - q * NanoPerSecond
<1>1. q \in Int /\ r \in Int /\ -NanoPerSecond < r /\ r < NanoPerSecond
  <2>1. CASE time < 0
    <3>1. /\ (-time) \div NanoPerSecond \in Nat
          /\ (-time) - ((-time) \div NanoPerSecond) * NanoPerSecond
                 \in 0..(NanoPerSecond - 1)
      <4>1. -time \in Nat /\ NanoPerSecond \in Nat \ {0}
        BY <2>1, ClockAssumption
      <4> QED BY <4>1, DivBounds, Zenon
    <3>2. q = -((-time) \div NanoPerSecond)
      BY <2>1 DEF Seconds
    <3>3. q * NanoPerSecond = -(((-time) \div NanoPerSecond) * NanoPerSecond)
      BY <3>1, <3>2, ClockAssumption
    <3> QED BY <3>1, <3>2, <3>3, ClockAssumption
  <2>2. CASE time >= 0
    <3>1. /\ time \div NanoPerSecond \in Nat
          /\ time - (time \div NanoPerSecond) * NanoPerSecond
                 \in 0..(NanoPerSecond - 1)
      <4>1. time \in Nat /\ NanoPerSecond \in Nat \ {0}
        BY <2>2, ClockAssumption
      <4> QED BY <4>1, DivBounds, Zenon
    <3>2. q = time \div NanoPerSecond
      BY <2>2 DEF Seconds
    <3> QED BY <3>1, <3>2, ClockAssumption
  <2> QED BY <2>1, <2>2
<1> HIDE DEF q, r
<1>2. (r + HalfRange) % (2 * HalfRange) = r + HalfRange
  BY <1>1, SmallMod, ClockAssumption
<1>3. AsInt(r) = r
  BY <1>1, <1>2, ClockAssumption DEF AsInt
<1>4. AsInt(q) = q
  BY DEF Fits, q
<1>5. Stamp(time) = [sec |-> q, nsec |-> r]
  BY <1>3, <1>4 DEF Stamp, q, r
<1>6. r = time - q * NanoPerSecond
  BY DEF r, q
<1>7. q * NanoPerSecond \in Int
  BY <1>1, ClockAssumption
<1> QED BY <1>1, <1>5, <1>6, <1>7 DEF UpdateTimeFromMessage

Stamps == [sec : Int, nsec : Int]
Notices == [base : {BaseOf[c] : c \in Clock}, stamp : Stamps]

ClockTypes ==
    /\ clockTimeNS \in [Clock -> Int]
    /\ transit \in [Clock -> [Clock -> Seq(Notices)]]
    /\ set \in Seq([clock : Clock, time : Time])

LastSet(c, i) ==
    /\ i \in DOMAIN set /\ set[i].clock = c
    /\ \A j \in DOMAIN set : set[j].clock = c => j <= i

Setter(c) == \E i \in DOMAIN set : set[i].clock = c

\* What is on its way from a clock ends with what was set on it last.
Latest ==
    \A c, d \in Clock :
        /\ \A k \in DOMAIN transit[c][d] : transit[c][d][k].base = BaseOf[c]
        /\ transit[c][d] # <<>> =>
               \E i \in Nat :
                  /\ LastSet(c, i)
                  /\ transit[c][d][Len(transit[c][d])].stamp
                         = Stamp(set[i].time)

\* With one clock of its base set, a clock has what arrived from that last.
Shown ==
    \A d \in Clock :
        /\ (\A c \in Clock : Setter(c) => BaseOf[c] # BaseOf[d]) =>
               clockTimeNS[d] = 0
        /\ \A c \in Clock : \A i \in Nat :
              /\ LastSet(c, i)
              /\ BaseOf[c] = BaseOf[d]
              /\ transit[c][d] = <<>>
              /\ \A e \in Clock :
                    Setter(e) /\ BaseOf[e] = BaseOf[d] => e = c
              => clockTimeNS[d] = UpdateTimeFromMessage(Stamp(set[i].time))

ClockInv == ClockTypes /\ Latest /\ Shown

LEMMA StampType ==
    ASSUME NEW time \in Int
    PROVE  Stamp(time) \in Stamps
<1>1. Seconds(time) \in Int
  <2>1. CASE time < 0
    <3>1. -time \in Nat /\ NanoPerSecond \in Nat \ {0}
      BY <2>1, ClockAssumption
    <3>2. (-time) \div NanoPerSecond \in Nat
      BY <3>1, DivBounds, Zenon
    <3> QED BY <2>1, <3>2 DEF Seconds
  <2>2. CASE time >= 0
    <3>1. time \in Nat /\ NanoPerSecond \in Nat \ {0}
      BY <2>2, ClockAssumption
    <3>2. time \div NanoPerSecond \in Nat
      BY <3>1, DivBounds, Zenon
    <3> QED BY <2>2, <3>2 DEF Seconds
  <2> QED BY <2>1, <2>2
<1>2. \A n \in Int : AsInt(n) \in Int
  <2> TAKE n \in Int
  <2>1. n + HalfRange \in Int /\ 2 * HalfRange \in Nat \ {0}
    BY ClockAssumption
  <2>2. (n + HalfRange) % (2 * HalfRange) \in Int
    BY <2>1
  <2> QED BY <2>2, ClockAssumption DEF AsInt
<1>3. time - Seconds(time) * NanoPerSecond \in Int
  BY <1>1, ClockAssumption
<1> QED BY <1>1, <1>2, <1>3 DEF Stamp, Stamps

LEMMA ClockInvInit == ClockInit => ClockInv
<1> SUFFICES ASSUME ClockInit PROVE ClockInv
  OBVIOUS
<1>1. ClockTypes
  BY DEF ClockInit, ClockTypes
<1>2. \A c, d \in Clock : transit[c][d] = <<>>
  BY DEF ClockInit
<1>3. DOMAIN set = {} /\ \A d \in Clock : clockTimeNS[d] = 0
  BY DEF ClockInit
<1>4. Latest
  BY <1>2 DEF Latest
<1>5. Shown
  BY <1>3 DEF Shown, LastSet
<1> QED BY <1>1, <1>4, <1>5 DEF ClockInv

LEMMA SetTimeInv ==
    ASSUME ClockInv, NEW c \in Clock, NEW time \in Time, SetTime(c, time)
    PROVE  ClockInv'
<1> DEFINE row == [clock |-> c, time |-> time]
           msg == [base |-> BaseOf[c], stamp |-> Stamp(time)]
<1>0. PICK n \in Nat : n = Len(set) + 1
  <2>1. Len(set) + 1 \in Nat
    BY DEF ClockInv, ClockTypes
  <2> QED BY <2>1
<1>1. ClockTypes /\ time \in Int
  BY ClockAssumption DEF ClockInv
<1>2. /\ msg \in Notices /\ msg.base = BaseOf[c] /\ msg.stamp = Stamp(time)
  BY <1>1, StampType DEF Notices
<1>3. /\ set' = Append(set, row) /\ row \in [clock : Clock, time : Time]
      /\ row.clock = c /\ row.time = time
      /\ UNCHANGED clockTimeNS
  BY DEF SetTime
<1>4. transit' = [transit EXCEPT ![c] =
                     [d \in Clock |-> Append(@[d], msg)]]
  BY DEF SetTime
<1> HIDE DEF row, msg
<1>5. /\ n \in Nat /\ DOMAIN set' = DOMAIN set \union {n}
      /\ n \notin DOMAIN set /\ \A i \in DOMAIN set : i < n
      /\ \A i \in DOMAIN set : set'[i] = set[i] /\ i \in Nat
      /\ set'[n] = row
      /\ set' \in Seq([clock : Clock, time : Time])
  <2> DEFINE Rows == [clock : Clock, time : Time]
  <2>1. set \in Seq(Rows) /\ row \in Rows
    BY <1>1, <1>3 DEF ClockTypes
  <2> HIDE DEF Rows
  <2>2. /\ set' \in Seq(Rows)
        /\ Len(set) \in Nat /\ DOMAIN set = 1..Len(set)
        /\ DOMAIN set' = DOMAIN set \union {n}
        /\ \A k \in DOMAIN set : set'[k] = set[k]
        /\ set'[n] = row
    BY <1>0, <1>3, <2>1, Appended
  <2>3. n \in Nat /\ n \notin DOMAIN set /\ \A i \in DOMAIN set : i < n /\ i \in Nat
    BY <1>0, <2>2
  <2> QED BY <2>2, <2>3 DEF Rows
<1>6. \A d \in Clock :
          /\ transit[c][d] \in Seq(Notices)
          /\ transit'[c][d] = Append(transit[c][d], msg)
          /\ \A e \in Clock \ {c} : transit'[e][d] = transit[e][d]
  BY <1>1, <1>4 DEF ClockTypes
<1>7. transit' \in [Clock -> [Clock -> Seq(Notices)]]
  <2>1. \A d \in Clock : Append(transit[c][d], msg) \in Seq(Notices)
    BY <1>2, <1>6
  <2>2. [d \in Clock |-> Append(transit[c][d], msg)] \in
            [Clock -> Seq(Notices)]
    BY <2>1
  <2> QED BY <1>1, <1>4, <2>2 DEF ClockTypes
<1>8. ClockTypes'
  BY <1>1, <1>3, <1>5, <1>7 DEF ClockTypes
<1>9. /\ LastSet(c, n)'
      /\ \A i \in Nat : LastSet(c, i)' => i = n
      /\ \A e \in Clock \ {c} : \A i \in Nat :
            /\ LastSet(e, i) <=> LastSet(e, i)'
            /\ LastSet(e, i) => set'[i] = set[i]
  <2>1. LastSet(c, n)'
    BY <1>3, <1>5 DEF LastSet
  <2>2. ASSUME NEW i \in Nat, LastSet(c, i)' PROVE i = n
    BY <1>3, <1>5, <2>2 DEF LastSet
  <2>3. ASSUME NEW e \in Clock \ {c}, NEW i \in Nat
        PROVE  /\ LastSet(e, i) <=> LastSet(e, i)'
               /\ LastSet(e, i) => set'[i] = set[i]
    BY <1>3, <1>5 DEF LastSet
  <2> QED BY <2>1, <2>2, <2>3
<1>10. \A e \in Clock : Setter(e)' <=> Setter(e) \/ e = c
  <2> QED BY <1>3, <1>5 DEF Setter
<1>11. Latest'
  <2> SUFFICES ASSUME NEW e \in Clock, NEW d \in Clock
               PROVE  /\ \A k \in DOMAIN transit'[e][d] :
                             transit'[e][d][k].base = BaseOf[e]
                      /\ transit'[e][d] # <<>> =>
                             \E i \in Nat :
                                /\ LastSet(e, i)'
                                /\ transit'[e][d][Len(transit'[e][d])].stamp
                                       = Stamp(set'[i].time)
    BY DEF Latest
  <2>1. CASE e = c
    <3>1. /\ DOMAIN transit'[c][d] =
                 DOMAIN transit[c][d] \union {Len(transit[c][d]) + 1}
          /\ \A k \in DOMAIN transit[c][d] :
                transit'[c][d][k] = transit[c][d][k]
          /\ Len(transit'[c][d]) = Len(transit[c][d]) + 1
          /\ transit'[c][d][Len(transit[c][d]) + 1] = msg
      <4>1. transit[c][d] \in Seq(Notices) /\ msg \in Notices
        BY <1>2, <1>6
      <4>2. transit'[c][d] = Append(transit[c][d], msg)
        BY <1>6
      <4> HIDE DEF Notices
      <4> QED BY <4>1, <4>2, Appended
    <3>2. \A k \in DOMAIN transit'[c][d] : transit'[c][d][k].base = BaseOf[c]
      BY <1>2, <3>1 DEF ClockInv, Latest
    <3>3. /\ transit'[c][d][Len(transit'[c][d])].stamp = Stamp(set'[n].time)
          /\ n \in Nat
      BY <1>2, <1>3, <1>5, <3>1
    <3> QED BY <1>9, <2>1, <3>2, <3>3
  <2>2. CASE e # c
    <3>1. transit'[e][d] = transit[e][d]
      BY <1>6, <2>2
    <3>2. \A k \in DOMAIN transit'[e][d] : transit'[e][d][k].base = BaseOf[e]
      BY <3>1 DEF ClockInv, Latest
    <3>3. ASSUME transit'[e][d] # <<>>
          PROVE  \E i \in Nat :
                    /\ LastSet(e, i)'
                    /\ transit'[e][d][Len(transit'[e][d])].stamp
                           = Stamp(set'[i].time)
      <4>1. PICK i \in Nat : LastSet(e, i) /\ transit[e][d][Len(transit[e][d])].stamp = Stamp(set[i].time)
        BY <3>1, <3>3 DEF ClockInv, Latest
      <4>2. LastSet(e, i)' /\ set'[i] = set[i]
        BY <1>9, <2>2, <4>1
      <4> QED BY <3>1, <4>1, <4>2
    <3> QED BY <3>2, <3>3
  <2> QED BY <2>1, <2>2
<1>12. Shown'
  <2>1. \A d \in Clock : transit'[c][d] # <<>>
    BY <1>2, <1>6
  <2>2. \A d \in Clock :
            (\A e \in Clock : Setter(e)' => BaseOf[e] # BaseOf[d]) =>
               clockTimeNS'[d] = 0
    BY <1>3, <1>10 DEF ClockInv, Shown
  <2>3. ASSUME NEW d \in Clock, NEW e \in Clock, NEW i \in Nat,
               LastSet(e, i)', BaseOf[e] = BaseOf[d], transit'[e][d] = <<>>,
               \A f \in Clock : Setter(f)' /\ BaseOf[f] = BaseOf[d] => f = e
        PROVE  clockTimeNS'[d] = UpdateTimeFromMessage(Stamp(set'[i].time))
    <3>1. e # c
      BY <2>1, <2>3
    <3>2. LastSet(e, i) /\ set'[i] = set[i] /\ transit[e][d] = <<>>
      BY <1>6, <1>9, <2>3, <3>1
    <3>3. \A f \in Clock : Setter(f) /\ BaseOf[f] = BaseOf[d] => f = e
      BY <1>10, <2>3
    <3>4. clockTimeNS[d] = UpdateTimeFromMessage(Stamp(set[i].time))
      BY <2>3, <3>2, <3>3 DEF ClockInv, Shown
    <3> QED BY <1>3, <3>2, <3>4
  <2> QED BY <2>2, <2>3 DEF Shown
<1> QED BY <1>8, <1>11, <1>12 DEF ClockInv

LEMMA ReceiveTimeInv ==
    ASSUME ClockInv, NEW c \in Clock, NEW d \in Clock,
           OnClockMessageReceived(c, d)
    PROVE  ClockInv'
<1> DEFINE q == transit[c][d]
           msg == Head(q)
<1>1. /\ ClockTypes /\ q \in Seq(Notices) /\ q # <<>>
  BY DEF ClockInv, ClockTypes, OnClockMessageReceived
<1>2. /\ transit' = [transit EXCEPT ![c][d] = Tail(q)] /\ UNCHANGED set
      /\ clockTimeNS' = IF msg.base = BaseOf[d]
                        THEN [clockTimeNS EXCEPT
                                 ![d] = UpdateTimeFromMessage(msg.stamp)]
                        ELSE clockTimeNS
  BY DEF OnClockMessageReceived
<1>3. msg \in Notices /\ msg = q[1] /\ msg.base = BaseOf[c]
  BY <1>1 DEF ClockInv, Latest
<1>4. UpdateTimeFromMessage(msg.stamp) \in Int
  <2>1. msg.stamp.sec \in Int /\ msg.stamp.nsec \in Int
    BY <1>3 DEF Notices, Stamps
  <2> QED BY <2>1, ClockAssumption DEF UpdateTimeFromMessage
<1>5. /\ Tail(q) \in Seq(Notices) /\ Len(Tail(q)) = Len(q) - 1
      /\ \A k \in DOMAIN Tail(q) : k + 1 \in DOMAIN q /\ Tail(q)[k] = q[k + 1]
      /\ Tail(q) # <<>> => Tail(q)[Len(Tail(q))] = q[Len(q)]
      /\ Tail(q) = <<>> => msg = q[Len(q)]
  <2> HIDE DEF q
  <2>1. /\ Tail(q) \in Seq(Notices) /\ Len(q) \in Nat \ {0}
        /\ DOMAIN q = 1..Len(q) /\ DOMAIN Tail(q) = 1..(Len(q) - 1)
        /\ Len(Tail(q)) = Len(q) - 1
        /\ \A k \in DOMAIN Tail(q) : Tail(q)[k] = q[k + 1]
        /\ Len(q) = 1 => Tail(q) = <<>>
        /\ Len(q) # 1 => Tail(q) # <<>>
    BY <1>1, Left
  <2>2. \A k \in DOMAIN Tail(q) : k + 1 \in DOMAIN q
    BY <2>1
  <2>3. Tail(q) # <<>> => Tail(q)[Len(Tail(q))] = q[Len(q)]
    <3>1. Tail(q) # <<>> => Len(q) - 1 \in DOMAIN Tail(q)
      BY <2>1
    <3>2. Len(q) - 1 + 1 = Len(q)
      BY <2>1
    <3> QED BY <2>1, <3>1, <3>2
  <2>4. Tail(q) = <<>> => msg = q[Len(q)]
    BY <1>3, <2>1
  <2> QED BY <2>1, <2>2, <2>3, <2>4
<1> HIDE DEF msg
<1>6. /\ transit'[c][d] = Tail(q)
      /\ \A e, f \in Clock : <<e, f>> # <<c, d>> =>
            transit'[e][f] = transit[e][f]
      /\ transit' \in [Clock -> [Clock -> Seq(Notices)]]
  BY <1>1, <1>2, <1>5 DEF ClockTypes
<1>7. /\ clockTimeNS' \in [Clock -> Int]
      /\ \A e \in Clock : e # d \/ BaseOf[c] # BaseOf[d] =>
            clockTimeNS'[e] = clockTimeNS[e]
      /\ BaseOf[c] = BaseOf[d] =>
            clockTimeNS'[d] = UpdateTimeFromMessage(msg.stamp)
  BY <1>1, <1>2, <1>3, <1>4 DEF ClockTypes
<1>8. ClockTypes'
  BY <1>1, <1>2, <1>6, <1>7 DEF ClockTypes
<1>9. \A e \in Clock : /\ Setter(e)' <=> Setter(e)
                       /\ \A i \in Nat : LastSet(e, i)' <=> LastSet(e, i)
  BY <1>2 DEF Setter, LastSet
<1>10. PICK last \in Nat : LastSet(c, last)
                           /\ q[Len(q)].stamp = Stamp(set[last].time)
  BY <1>1 DEF ClockInv, Latest
<1>11. Latest'
  <2> SUFFICES ASSUME NEW e \in Clock, NEW f \in Clock
               PROVE  /\ \A k \in DOMAIN transit'[e][f] :
                             transit'[e][f][k].base = BaseOf[e]
                      /\ transit'[e][f] # <<>> =>
                             \E i \in Nat :
                                /\ LastSet(e, i)'
                                /\ transit'[e][f][Len(transit'[e][f])].stamp
                                       = Stamp(set'[i].time)
    BY DEF Latest
  <2>1. CASE e = c /\ f = d
    <3>1. \A k \in DOMAIN transit'[e][f] : transit'[e][f][k].base = BaseOf[e]
      <4>1. \A k \in DOMAIN q : q[k].base = BaseOf[c]
        BY DEF ClockInv, Latest
      <4>2. \A k \in DOMAIN Tail(q) : Tail(q)[k].base = BaseOf[c]
        <5> HIDE DEF q
        <5> TAKE k \in DOMAIN Tail(q)
        <5>1. k + 1 \in DOMAIN q /\ Tail(q)[k] = q[k + 1]
          BY <1>5
        <5> QED BY <4>1, <5>1
      <4>3. transit'[e][f] = Tail(q) /\ BaseOf[e] = BaseOf[c]
        BY <1>6, <2>1
      <4> QED BY <4>2, <4>3
    <3> QED BY <1>2, <1>5, <1>6, <1>9, <1>10, <2>1, <3>1
  <2>2. CASE <<e, f>> # <<c, d>>
    BY <1>2, <1>6, <1>9, <2>2 DEF ClockInv, Latest
  <2> QED BY <2>1, <2>2
<1>12. Setter(c)
  BY <1>10 DEF Setter, LastSet
<1>13. Shown'
  <2>1. ASSUME NEW f \in Clock,
               \A e \in Clock : Setter(e)' => BaseOf[e] # BaseOf[f]
        PROVE  clockTimeNS'[f] = 0
    <3>1. f # d \/ BaseOf[c] # BaseOf[d]
      BY <1>9, <1>12, <2>1
    <3> QED BY <1>7, <1>9, <2>1, <3>1 DEF ClockInv, Shown
  <2>2. ASSUME NEW f \in Clock, NEW e \in Clock, NEW i \in Nat,
               LastSet(e, i)', BaseOf[e] = BaseOf[f], transit'[e][f] = <<>>,
               \A g \in Clock : Setter(g)' /\ BaseOf[g] = BaseOf[f] => g = e
        PROVE  clockTimeNS'[f] = UpdateTimeFromMessage(Stamp(set'[i].time))
    <3>1. CASE f = d /\ BaseOf[c] = BaseOf[d]
      <4>1. e = c
        BY <1>9, <1>12, <2>2, <3>1
      <4>2. msg = q[Len(q)]
        BY <1>5, <1>6, <2>2, <3>1, <4>1
      <4>3. i = last
        <5>1. LastSet(c, i) /\ LastSet(c, last)
          BY <1>9, <1>10, <2>2, <4>1
        <5> QED BY <5>1 DEF LastSet
      <4> QED BY <1>2, <1>7, <1>10, <3>1, <4>2, <4>3
    <3>2. CASE f # d \/ BaseOf[c] # BaseOf[d]
      <4>1. <<e, f>> # <<c, d>>
        BY <2>2, <3>2
      <4>2. transit[e][f] = <<>> /\ clockTimeNS'[f] = clockTimeNS[f]
        BY <1>6, <1>7, <2>2, <3>2, <4>1
      <4> QED BY <1>2, <1>9, <2>2, <4>2 DEF ClockInv, Shown
    <3> QED BY <3>1, <3>2
  <2> QED BY <2>1, <2>2 DEF Shown
<1> QED BY <1>8, <1>11, <1>13 DEF ClockInv

LEMMA ClockInvStep == ClockInv /\ [ClockNext]_clockvars => ClockInv'
<1> SUFFICES ASSUME ClockInv, [ClockNext]_clockvars PROVE ClockInv'
  OBVIOUS
<1>1. CASE UNCHANGED clockvars
  <2>1. UNCHANGED <<clockTimeNS, transit, set>>
    BY <1>1 DEF clockvars
  <2>2. ClockTypes'
    BY <2>1 DEF ClockInv, ClockTypes
  <2>3. /\ \A c \in Clock : Setter(c)' = Setter(c)
        /\ \A c \in Clock, i \in Nat : LastSet(c, i)' = LastSet(c, i)
    BY <2>1 DEF LastSet, Setter
  <2>4. Latest'
    BY <2>1, <2>3 DEF ClockInv, Latest
  <2>5. Shown'
    BY <2>1, <2>3 DEF ClockInv, Shown
  <2> QED BY <2>2, <2>4, <2>5 DEF ClockInv
<1> QED BY <1>1, SetTimeInv, ReceiveTimeInv DEF ClockNext

LEMMA ClockInvAgrees == ClockInv => ClocksAgree
<1> SUFFICES ASSUME ClockInv, NEW d \in Clock
             PROVE  LET setters == {c \in Clock : SetOn(c, BaseOf[d]) # {}} IN
                    /\ setters = {} => ~ IsReady(d)
                    /\ \A c \in setters :
                          LET last == set[Max(SetOn(c, BaseOf[d]))].time
                          IN  setters = {c} /\ transit[c][d] = <<>>
                                      /\ Fits(last)
                                  => clockTimeNS[d] = last
  BY DEF ClocksAgree
<1> DEFINE setters == {c \in Clock : SetOn(c, BaseOf[d]) # {}}
<1>1. \A c \in Clock :
          c \in setters <=> Setter(c) /\ BaseOf[c] = BaseOf[d]
  BY DEF Setter, SetOn
<1>2. setters = {} => ~ IsReady(d)
  <2>1. setters = {} => \A c \in Clock : Setter(c) => BaseOf[c] # BaseOf[d]
    BY <1>1
  <2> QED BY <2>1 DEF ClockInv, Shown, IsReady
<1>3. ASSUME NEW c \in setters, setters = {c}, transit[c][d] = <<>>,
             Fits(set[Max(SetOn(c, BaseOf[d]))].time)
      PROVE  clockTimeNS[d] = set[Max(SetOn(c, BaseOf[d]))].time
  <2> DEFINE S == SetOn(c, BaseOf[d])
             last == Max(S)
  <2>1. BaseOf[c] = BaseOf[d] /\ S # {} /\ S \subseteq DOMAIN set
    BY <1>1, <1>3 DEF SetOn
  <2>2. set \in Seq([clock : Clock, time : Time])
    BY DEF ClockInv, ClockTypes
  <2>3. S \subseteq 1..Len(set) /\ Len(set) \in Nat
    BY <2>1, <2>2
  <2>4. \E m \in S : \A y \in S : m >= y
    BY <2>1, <2>3, GreatestExists
  <2>5. last \in S /\ \A y \in S : last >= y
    <3> HIDE DEF S
    <3> QED BY <2>4 DEF Max
  <2>6. LastSet(c, last) /\ last \in Nat
    BY <2>1, <2>3, <2>5 DEF LastSet, SetOn
  <2>7. set[last] \in [clock : Clock, time : Time]
    <3>1. last \in 1..Len(set)
      BY <2>3, <2>5
    <3> DEFINE Rows == [clock : Clock, time : Time]
    <3> HIDE DEF last, Rows
    <3>2. set \in Seq(Rows)
      BY <2>2 DEF Rows
    <3>3. set[last] \in Rows
      BY <3>1, <3>2
    <3> QED BY <3>3 DEF Rows
  <2>8. set[last].time \in Int
    BY <2>7, ClockAssumption
  <2>9. \A e \in Clock : Setter(e) /\ BaseOf[e] = BaseOf[d] => e = c
    BY <1>1, <1>3
  <2> HIDE DEF last, S
  <2>10. clockTimeNS[d] = UpdateTimeFromMessage(Stamp(set[last].time))
    BY <1>3, <2>1, <2>6, <2>9 DEF ClockInv, Shown
  <2> QED BY <1>3, <2>8, <2>10, StampReads DEF last, S
<1> QED BY <1>2, <1>3

\* A clock shows what was set last, to the nanosecond, once it arrived and if
\* only one clock of the base is set (Clock.cc:99-184).
THEOREM ClocksCorrect == ClockSpec => []ClocksAgree
BY ClockInvInit, ClockInvStep, ClockInvAgrees, PTL DEF ClockSpec

(***************************************************************************)
(*                                                                         *)
(* Statistics.                                                             *)
(*                                                                         *)
(***************************************************************************)
Fates == {"sent", "lost", "missed", "counted"}
Stamped == [sender : Sender, seq : Nat, stamp : Nat]
Counted == [sender : Sender, stamp : Nat, time : Nat]
Samples == [count : Nat, min : Nat, max : Nat]

StatsTypes ==
    /\ clock \in 1..MaxClock
    /\ topicPubSeq \in [Sender -> 0..MaxSeq]
    /\ net \in [Sender -> Seq(Stamped)]
    /\ fate \in [Sender -> Seq(Fates)]
    /\ enabled \in BOOLEAN
    /\ received \in Seq(Counted)
    /\ topicStats.seq \in [Sender -> Nat]
    /\ topicStats.droppedMsgCount \in Nat

\* The messages of a process are numbered, and those on their way follow those
\* whose fate is known.
Sent(s) == topicPubSeq[s] - Len(net[s])
SeqNumbered ==
    \A s \in Sender :
        /\ Len(fate[s]) = topicPubSeq[s] /\ Sent(s) \in Nat
        /\ \A k \in DOMAIN net[s] :
              /\ net[s][k].sender = s /\ net[s][k].seq = Sent(s) + k - 1
              /\ net[s][k].stamp > Skew[s] /\ net[s][k].stamp <= clock + Skew[s]
        /\ \A i \in DOMAIN fate[s] : fate[s][i] = "sent" <=> i > Sent(s)

\* The number kept of a process is that of its last message counted.
CountedOf(s) == {i \in DOMAIN fate[s] : fate[s][i] = "counted"}
Heard(s) == \E k \in DOMAIN received : received[k].sender = s
LastKept ==
    \A s \in Sender :
        /\ Heard(s) <=> CountedOf(s) # {}
        /\ ~ Heard(s) => topicStats.seq[s] = 0
        /\ Heard(s) => topicStats.seq[s] + 1 \in CountedOf(s)
        /\ \A i \in CountedOf(s) : i <= topicStats.seq[s] + 1

\* The times kept are those of the last message received.
TimesKept ==
    LET n == Len(received) IN
    /\ n = 0 => topicStats.prevPublicationStamp = 0
    /\ n > 0 => /\ topicStats.prevPublicationStamp = received[n].stamp
                /\ topicStats.prevReceptionStamp = received[n].time
    /\ \A i \in DOMAIN received :
          LET r == received[i] IN
          /\ r.time \in 1..clock
          /\ r.stamp > Skew[r.sender] /\ r.stamp <= clock + Skew[r.sender]
          /\ \A j \in 1..i : received[j].sender = r.sender =>
                received[j].stamp <= r.stamp
          /\ \A k \in DOMAIN net[r.sender] :
                r.stamp <= net[r.sender][k].stamp
OrderKept ==
    \A s \in Sender : \A j, k \in DOMAIN net[s] :
        j <= k => net[s][j].stamp <= net[s][k].stamp

\* A statistic is that of a set of samples.
Measures(statistics, samples, n) ==
    /\ statistics \in Samples /\ statistics.count = n
    /\ samples = {} <=> n = 0
    /\ n = 0 => statistics = NoSample
    /\ n > 0 => /\ statistics.min \in samples /\ statistics.max \in samples
                /\ \A x \in samples : statistics.min <= x /\ x <= statistics.max

Receptions ==
    {received[i].time - received[i - 1].time : i \in 2..Len(received)}
Publications ==
    {received[i].stamp - received[i - 1].stamp : i \in 2..Len(received)}
Ages == {received[i].time - received[i].stamp : i \in 2..Len(received)}

PeriodsKept ==
    /\ topicStats.publication \in Samples /\ topicStats.age \in Samples
    /\ topicStats.reception \in Samples
    /\ Len(received) = 0 =>
          /\ topicStats.publication = NoSample /\ topicStats.age = NoSample
          /\ topicStats.reception = NoSample
    /\ Len(received) > 0 =>
          /\ Measures(topicStats.reception, Receptions, Len(received) - 1)
          /\ (\A i, j \in DOMAIN received :
                 received[i].sender = received[j].sender) =>
                Measures(topicStats.publication, Publications,
                         Len(received) - 1)
          /\ (\A i \in DOMAIN received : Skew[received[i].sender] = 0) =>
                Measures(topicStats.age, Ages, Len(received) - 1)

StatsInv ==
    /\ StatsTypes /\ SeqNumbered /\ LastKept /\ TimesKept /\ OrderKept
    /\ PeriodsKept /\ GapsCounted

LEMMA MinIs ==
    ASSUME NEW S \in SUBSET Int, NEW x \in S, \A y \in S : x <= y
    PROVE  Min(S) = x
<1>1. Min(S) \in S /\ \A y \in S : Min(S) <= y
  BY DEF Min
<1>2. Min(S) <= x /\ x <= Min(S) /\ Min(S) \in Int /\ x \in Int
  BY <1>1
<1> QED BY <1>2

LEMMA MaxIs ==
    ASSUME NEW S \in SUBSET Int, NEW x \in S, \A y \in S : x >= y
    PROVE  Max(S) = x
<1>1. Max(S) \in S /\ \A y \in S : Max(S) >= y
  BY DEF Max
<1>2. Max(S) >= x /\ x >= Max(S) /\ Max(S) \in Int /\ x \in Int
  BY <1>1
<1> QED BY <1>2

LEMMA OfTwo ==
    ASSUME NEW a \in Nat, NEW b \in Nat
    PROVE  /\ Min({a, b}) = IF a <= b THEN a ELSE b
           /\ Max({a, b}) = IF a >= b THEN a ELSE b
<1> DEFINE S == {a, b}
           m == IF a <= b THEN a ELSE b
           g == IF a >= b THEN a ELSE b
<1>1. /\ S \in SUBSET Int
      /\ m \in S /\ \A y \in S : m <= y
      /\ g \in S /\ \A y \in S : g >= y
  OBVIOUS
<1> HIDE DEF S, m, g
<1>2. Min(S) = m /\ Max(S) = g
  BY <1>1, MinIs, MaxIs
<1> QED BY <1>2 DEF S, m, g

LEMMA NoSampleIs ==
    /\ Modulus \in Nat \ {0}
    /\ NoSample = [count |-> 0, min |-> Modulus - 1, max |-> 0]
    /\ NoSample \in Samples
<1>1. Modulus \in Nat \ {0}
  BY StatsAssumption
<1>2. (-1) % Modulus = Modulus - 1
  BY <1>1
<1> QED BY <1>1, <1>2 DEF NoSample, Unsigned, Samples

LEMMA UpdateIs ==
    ASSUME NEW statistics \in Samples, NEW x \in Nat
    PROVE  Update(statistics, x) =
             [count |-> statistics.count + 1,
              min |-> IF statistics.min <= x THEN statistics.min ELSE x,
              max |-> IF statistics.max >= x THEN statistics.max ELSE x]
<1>1. statistics.min \in Nat /\ statistics.max \in Nat
  BY DEF Samples
<1> QED BY <1>1, OfTwo DEF Update

\* One more sample.
LEMMA MeasuresUpdate ==
    ASSUME NEW statistics, NEW S \in SUBSET Int, NEW n \in Nat,
           Measures(statistics, S, n), NEW x \in 0..(Modulus - 1)
    PROVE  Measures(Update(statistics, x), S \union {x}, n + 1)
<1>1. x \in Nat /\ statistics \in Samples /\ statistics.count = n
  BY NoSampleIs DEF Measures
<1>2. Update(statistics, x) =
         [count |-> n + 1,
          min |-> IF statistics.min <= x THEN statistics.min ELSE x,
          max |-> IF statistics.max >= x THEN statistics.max ELSE x]
  BY <1>1, UpdateIs
<1>3. /\ statistics.min \in Nat /\ statistics.max \in Nat
  BY <1>1 DEF Samples
<1>4. Update(statistics, x) \in Samples
  BY <1>1, <1>2, <1>3 DEF Samples
<1>5. CASE n = 0
  <2>1. statistics.min = Modulus - 1 /\ statistics.max = 0 /\ S = {}
    BY <1>5, NoSampleIs DEF Measures
  <2>2. x <= Modulus - 1 /\ Modulus \in Nat
    BY NoSampleIs
  <2>3. Update(statistics, x).min = x /\ Update(statistics, x).max = x
    BY <1>1, <1>2, <2>1, <2>2
  <2> QED BY <1>1, <1>2, <1>4, <1>5, <2>1, <2>3 DEF Measures
<1>6. CASE n > 0
  <2>1. /\ statistics.min \in S /\ statistics.max \in S
        /\ \A y \in S : statistics.min <= y /\ y <= statistics.max
    BY <1>6 DEF Measures
  <2> DEFINE u == Update(statistics, x)
  <2>2. /\ u.min = IF statistics.min <= x THEN statistics.min ELSE x
        /\ u.max = IF statistics.max >= x THEN statistics.max ELSE x
        /\ u.count = n + 1
    BY <1>2
  <2> HIDE DEF u
  <2>3. /\ u.min \in S \union {x} /\ u.max \in S \union {x}
        /\ \A y \in S \union {x} : u.min <= y /\ y <= u.max
    BY <1>1, <1>3, <2>1, <2>2
  <2> QED BY <1>4, <1>6, <2>2, <2>3 DEF Measures, u
<1> QED BY <1>5, <1>6

LEMMA StatsInvInit == StatsInit => StatsInv
<1> SUFFICES ASSUME StatsInit PROVE StatsInv
  OBVIOUS
<1>1. StatsTypes
  <2>1. /\ clock \in 1..MaxClock /\ topicPubSeq \in [Sender -> 0..MaxSeq]
        /\ enabled \in BOOLEAN
    <3>1. 1 \in 1..MaxClock /\ 0 \in 0..MaxSeq
      BY StatsAssumption
    <3>2. topicPubSeq \in [Sender -> 0..MaxSeq]
      BY <3>1 DEF StatsInit
    <3> QED BY <3>1, <3>2 DEF StatsInit
  <2> received \in Seq(Counted)
    BY DEF StatsInit
  <2>2. net \in [Sender -> Seq(Stamped)] /\ fate \in [Sender -> Seq(Fates)]
    BY DEF StatsInit
  <2>3. topicStats.seq \in [Sender -> Nat] /\ topicStats.droppedMsgCount = 0
    BY DEF StatsInit, NoStatistics
  <2> QED BY <2>1, <2>2, <2>3 DEF StatsTypes
<1>2. \A s \in Sender : /\ net[s] = <<>> /\ fate[s] = <<>>
                        /\ topicPubSeq[s] = 0
  BY DEF StatsInit
<1>3. received = <<>> /\ topicStats = NoStatistics
  BY DEF StatsInit
<1>4. SeqNumbered /\ OrderKept
  BY <1>2 DEF SeqNumbered, OrderKept, Sent
<1>5. LastKept
  BY <1>2, <1>3 DEF LastKept, Heard, CountedOf, NoStatistics
<1>6. TimesKept
  BY <1>3 DEF TimesKept, NoStatistics
<1>7. PeriodsKept
  BY <1>3, NoSampleIs DEF PeriodsKept, NoStatistics
<1>8. GapsCounted
  BY <1>3 DEF GapsCounted, NoStatistics
<1> QED BY <1>1, <1>4, <1>5, <1>6, <1>7, <1>8 DEF StatsInv

\* Gaps and newcomers depend on what was counted only.
LEMMA SameCounted ==
    ASSUME UNCHANGED <<received, topicStats>>, GapsCounted,
           \A s \in Sender : Gaps(s)' = Gaps(s),
           \A s \in Sender : CountedOf(s)' = CountedOf(s),
           StatsTypes
    PROVE  GapsCounted'
<1>1. {gap \in Sender \X (1..MaxSeq) : gap[2] \in Gaps(gap[1])'}
         = {gap \in Sender \X (1..MaxSeq) : gap[2] \in Gaps(gap[1])}
  OBVIOUS
<1>2. Newcomers' = Newcomers
  <2>1. \A s \in {received[i].sender : i \in DOMAIN received} : s \in Sender
    <3>1. \A i \in DOMAIN received : received[i] \in Counted
      BY DEF StatsTypes
    <3> QED BY <3>1 DEF Counted
  <2>2. \A s \in Sender :
            {i \in DOMAIN fate'[s] : fate'[s][i] = "counted"} =
            {i \in DOMAIN fate[s] : fate[s][i] = "counted"}
    BY DEF CountedOf
  <2> QED BY <2>1, <2>2 DEF Newcomers
<1> QED BY <1>1, <1>2 DEF GapsCounted

LEMMA SamePeriods ==
    ASSUME UNCHANGED <<received, topicStats>>, PeriodsKept
    PROVE  PeriodsKept'
<1>1. received' = received /\ topicStats' = topicStats
  OBVIOUS
<1>2. /\ Receptions' = Receptions /\ Publications' = Publications
      /\ Ages' = Ages
  BY <1>1 DEF Receptions, Publications, Ages
<1>3. PeriodsKept' <=> PeriodsKept
  BY <1>1, <1>2, Zenon DEF PeriodsKept, Measures
<1> QED BY <1>3

LEMMA StatsStutter ==
    ASSUME StatsInv,
           UNCHANGED <<topicPubSeq, net, fate, topicStats, received>>,
           clock' \in {clock, clock + 1}, clock' <= MaxClock,
           enabled' \in BOOLEAN
    PROVE  StatsInv'
<1>1. clock \in Int /\ clock' \in Int /\ clock <= clock'
  BY DEF StatsInv, StatsTypes
<1>2. StatsTypes'
  BY <1>1 DEF StatsInv, StatsTypes
<1>3. \A s \in Sender : Skew[s] \in Nat
  BY StatsAssumption
<1>4. SeqNumbered'
  <2>1. \A s \in Sender : \A k \in DOMAIN net[s] : net[s][k].stamp \in Int
    <3>1. \A s \in Sender : \A k \in DOMAIN net[s] : net[s][k] \in Stamped
      BY DEF StatsInv, StatsTypes
    <3> QED BY <3>1 DEF Stamped
  <2> QED BY <1>1, <1>3, <2>1 DEF StatsInv, SeqNumbered, Sent
<1>5. TimesKept'
  <2>1. \A i \in DOMAIN received : received[i] \in Counted
    BY DEF StatsInv, StatsTypes
  <2>2. \A i \in DOMAIN received :
            /\ received[i].time \in 1..clock'
            /\ received[i].stamp <= clock' + Skew[received[i].sender]
    BY <1>1, <1>3, <2>1 DEF StatsInv, TimesKept, Counted
  <2> QED BY <2>2 DEF StatsInv, TimesKept
<1>6. LastKept' /\ OrderKept'
  BY DEF StatsInv, LastKept, OrderKept, Heard, CountedOf
<1>7. PeriodsKept'
  BY SamePeriods DEF StatsInv
<1>8. GapsCounted'
  BY SameCounted DEF StatsInv, Gaps, CountedOf
<1> QED BY <1>2, <1>4, <1>5, <1>6, <1>7, <1>8 DEF StatsInv

LEMMA PublishStampedInv ==
    ASSUME StatsInv, NEW s \in Sender, PublishStamped(s)
    PROVE  StatsInv'
<1> DEFINE msg == [sender |-> s, seq |-> topicPubSeq[s],
                   stamp |-> clock + Skew[s]]
<1>1. /\ msg \in Stamped /\ msg.sender = s /\ msg.seq = topicPubSeq[s]
      /\ msg.stamp = clock + Skew[s] /\ clock \in Nat /\ clock >= 1
      /\ Skew[s] \in Nat /\ msg.stamp \in Nat
  BY StatsAssumption DEF StatsInv, StatsTypes, Stamped
<1>2. /\ net' = [net EXCEPT ![s] = Append(@, msg)]
      /\ fate' = [fate EXCEPT ![s] = Append(@, "sent")]
      /\ topicPubSeq' = [topicPubSeq EXCEPT ![s] = @ + 1]
      /\ topicPubSeq[s] < MaxSeq
      /\ UNCHANGED <<clock, enabled, topicStats, received>>
  BY DEF PublishStamped
<1> HIDE DEF msg
<1>3. /\ net[s] \in Seq(Stamped) /\ fate[s] \in Seq(Fates)
      /\ "sent" \in Fates /\ topicPubSeq[s] \in 0..MaxSeq /\ MaxSeq \in Nat
  BY StatsAssumption DEF StatsInv, StatsTypes, Fates
<1>4. /\ net'[s] = Append(net[s], msg) /\ fate'[s] = Append(fate[s], "sent")
      /\ topicPubSeq'[s] = topicPubSeq[s] + 1
      /\ \A r \in Sender \ {s} :
            /\ net'[r] = net[r] /\ fate'[r] = fate[r]
            /\ topicPubSeq'[r] = topicPubSeq[r]
  BY <1>2 DEF StatsInv, StatsTypes
<1>5. /\ net'[s] \in Seq(Stamped) /\ Len(net[s]) \in Nat
      /\ Len(net'[s]) = Len(net[s]) + 1
      /\ DOMAIN net[s] = 1..Len(net[s])
      /\ DOMAIN net'[s] = 1..(Len(net[s]) + 1)
      /\ \A k \in DOMAIN net[s] : net'[s][k] = net[s][k]
      /\ net'[s][Len(net[s]) + 1] = msg
  <2> HIDE DEF Stamped
  <2> QED BY <1>1, <1>3, <1>4, Appended
<1>6. /\ fate'[s] \in Seq(Fates) /\ Len(fate[s]) \in Nat
      /\ Len(fate'[s]) = Len(fate[s]) + 1
      /\ DOMAIN fate[s] = 1..Len(fate[s])
      /\ DOMAIN fate'[s] = 1..(Len(fate[s]) + 1)
      /\ \A k \in DOMAIN fate[s] : fate'[s][k] = fate[s][k]
      /\ fate'[s][Len(fate[s]) + 1] = "sent"
  <2> HIDE DEF Fates
  <2> QED BY <1>3, <1>4, Appended
<1>7. StatsTypes'
  <2>1. net' \in [Sender -> Seq(Stamped)]
    BY <1>2, <1>4, <1>5 DEF StatsInv, StatsTypes
  <2>2. fate' \in [Sender -> Seq(Fates)]
    BY <1>2, <1>4, <1>6 DEF StatsInv, StatsTypes
  <2>3. topicPubSeq' \in [Sender -> 0..MaxSeq]
    BY <1>2, <1>3 DEF StatsInv, StatsTypes
  <2> QED BY <1>2, <2>1, <2>2, <2>3 DEF StatsInv, StatsTypes
<1>8. Sent(s)' = Sent(s) /\ \A r \in Sender \ {s} : Sent(r)' = Sent(r)
  <2>1. Sent(s)' = topicPubSeq'[s] - Len(net'[s])
    BY DEF Sent
  <2>2. Sent(s)' = Sent(s)
    <3>1. Sent(s) = topicPubSeq[s] - Len(net[s])
      BY DEF Sent
    <3>2. topicPubSeq[s] \in Int /\ Len(net[s]) \in Int
      BY <1>3, <1>5
    <3>3. Sent(s)' = (topicPubSeq[s] + 1) - (Len(net[s]) + 1)
      BY <1>4, <1>5, <2>1
    <3> QED BY <3>1, <3>2, <3>3
  <2>3. \A r \in Sender \ {s} : Sent(r)' = Sent(r)
    BY <1>4 DEF Sent
  <2> QED BY <2>2, <2>3
<1>9. SeqNumbered'
  <2> SUFFICES ASSUME NEW r \in Sender
               PROVE  /\ Len(fate'[r]) = topicPubSeq'[r] /\ Sent(r)' \in Nat
                      /\ \A k \in DOMAIN net'[r] :
                            /\ net'[r][k].sender = r
                            /\ net'[r][k].seq = Sent(r)' + k - 1
                            /\ net'[r][k].stamp > Skew[r]
                            /\ net'[r][k].stamp <= clock' + Skew[r]
                      /\ \A i \in DOMAIN fate'[r] :
                            fate'[r][i] = "sent" <=> i > Sent(r)'
    BY DEF SeqNumbered
  <2>1. CASE r # s
    BY <1>2, <1>4, <1>8, <2>1 DEF StatsInv, SeqNumbered
  <2>2. CASE r = s
    <3>1. /\ Len(fate[s]) = topicPubSeq[s] /\ Sent(s) \in Nat
          /\ \A k \in DOMAIN net[s] :
                /\ net[s][k].sender = s
                /\ net[s][k].seq = Sent(s) + k - 1
                /\ net[s][k].stamp > Skew[s]
                /\ net[s][k].stamp <= clock + Skew[s]
          /\ \A i \in DOMAIN fate[s] : fate[s][i] = "sent" <=> i > Sent(s)
      BY DEF StatsInv, SeqNumbered
    <3>2. Sent(s) = topicPubSeq[s] - Len(net[s])
      BY DEF Sent
    <3>3. \A k \in DOMAIN net'[s] :
              /\ net'[s][k].sender = s
              /\ net'[s][k].seq = Sent(s) + k - 1
              /\ net'[s][k].stamp > Skew[s]
              /\ net'[s][k].stamp <= clock + Skew[s]
      <4> TAKE k \in DOMAIN net'[s]
      <4>1. k \in DOMAIN net[s] \/ k = Len(net[s]) + 1
        BY <1>5
      <4>2. CASE k = Len(net[s]) + 1
        <5>1. net'[s][k] = msg
          BY <1>5, <4>2
        <5>2. Sent(s) + k - 1 = topicPubSeq[s]
          BY <1>3, <1>5, <3>1, <3>2, <4>2
        <5>3. msg.stamp > Skew[s] /\ msg.stamp <= clock + Skew[s]
          BY <1>1
        <5> QED BY <1>1, <5>1, <5>2, <5>3
      <4>3. CASE k \in DOMAIN net[s]
        BY <1>5, <3>1, <4>3
      <4> QED BY <4>1, <4>2, <4>3
    <3>4. \A i \in DOMAIN fate'[s] : fate'[s][i] = "sent" <=> i > Sent(s)
      <4> TAKE i \in DOMAIN fate'[s]
      <4>1. i \in DOMAIN fate[s] \/ i = Len(fate[s]) + 1
        BY <1>6
      <4>2. CASE i = Len(fate[s]) + 1
        BY <1>3, <1>5, <1>6, <3>1, <3>2, <4>2
      <4>3. CASE i \in DOMAIN fate[s]
        BY <1>6, <3>1, <4>3
      <4> QED BY <4>1, <4>2, <4>3
    <3> QED BY <1>2, <1>4, <1>6, <1>8, <2>2, <3>1, <3>3, <3>4
  <2> QED BY <2>1, <2>2
<1>10. \A r \in Sender : CountedOf(r)' = CountedOf(r)
  <2>1. CountedOf(s)' = CountedOf(s)
    BY <1>6 DEF CountedOf
  <2> QED BY <1>4, <2>1 DEF CountedOf
<1>11. \A r \in Sender : Gaps(r)' = Gaps(r)
  <2>1. \A r \in Sender : Gaps(r) =
            {i \in CountedOf(r) :
                i > 1 /\ fate[r][i - 1] # "counted"
                /\ \E j \in 1..(i - 1) : fate[r][j] = "counted"}
    BY DEF Gaps, CountedOf
  <2>2. \A r \in Sender : Gaps(r)' =
            {i \in CountedOf(r)' :
                i > 1 /\ fate'[r][i - 1] # "counted"
                /\ \E j \in 1..(i - 1) : fate'[r][j] = "counted"}
    BY DEF Gaps, CountedOf
  <2>3. \A i \in CountedOf(s) : \A j \in 1..(i - 1) : fate'[s][j] = fate[s][j]
    BY <1>6 DEF CountedOf
  <2>4. \A i \in CountedOf(s) : i > 1 => i - 1 \in 1..(i - 1)
    BY <1>6 DEF CountedOf
  <2>5. Gaps(s)' = Gaps(s)
    <3>1. \A i \in CountedOf(s) :
              /\ i > 1 => fate'[s][i - 1] = fate[s][i - 1]
              /\ (\E j \in 1..(i - 1) : fate'[s][j] = "counted") <=>
                    \E j \in 1..(i - 1) : fate[s][j] = "counted"
      BY <2>3, <2>4
    <3>2. CountedOf(s)' = CountedOf(s)
      BY <1>10
    <3>3. ASSUME NEW i PROVE i \in Gaps(s)' <=> i \in Gaps(s)
      <4>1. CASE i \in CountedOf(s)
        BY <2>1, <2>2, <3>1, <3>2, <4>1
      <4>2. CASE i \notin CountedOf(s)
        BY <2>1, <2>2, <3>2, <4>2
      <4> QED BY <4>1, <4>2
    <3> QED BY <3>3
  <2>6. \A r \in Sender \ {s} : Gaps(r)' = Gaps(r)
    BY <1>4 DEF Gaps
  <2> QED BY <2>5, <2>6
<1>12. GapsCounted'
  BY <1>2, <1>10, <1>11, SameCounted DEF StatsInv
<1>13. LastKept'
  BY <1>2, <1>10 DEF StatsInv, LastKept, Heard
<1>14. TimesKept'
  <2>1. \A i \in DOMAIN received : received[i] \in Counted
    BY DEF StatsInv, StatsTypes
  <2>2. \A i \in DOMAIN received : \A k \in DOMAIN net'[received[i].sender] :
            received[i].stamp <= net'[received[i].sender][k].stamp
    <3> TAKE i \in DOMAIN received
    <3> TAKE k \in DOMAIN net'[received[i].sender]
    <3>1. CASE received[i].sender = s
      <4>1. k \in DOMAIN net[s] \/ k = Len(net[s]) + 1
        BY <1>5, <3>1
      <4>2. CASE k \in DOMAIN net[s]
        BY <1>5, <3>1, <4>2 DEF StatsInv, TimesKept
      <4>3. CASE k = Len(net[s]) + 1
        BY <1>1, <1>5, <3>1, <4>3 DEF StatsInv, TimesKept
      <4> QED BY <4>1, <4>2, <4>3
    <3>2. CASE received[i].sender # s
      <4>1. received[i].sender \in Sender \ {s}
        BY <2>1, <3>2 DEF Counted
      <4> QED BY <1>4, <4>1 DEF StatsInv, TimesKept
    <3> QED BY <3>1, <3>2
  <2> QED BY <1>2, <2>2 DEF StatsInv, TimesKept
<1>15. OrderKept'
  <2>1. \A j, k \in DOMAIN net'[s] : j <= k => net'[s][j].stamp <= net'[s][k].stamp
    <3> TAKE j, k \in DOMAIN net'[s]
    <3> HAVE j <= k
    <3>1. \/ j \in DOMAIN net[s] /\ k \in DOMAIN net[s]
          \/ j \in DOMAIN net[s] /\ k = Len(net[s]) + 1
          \/ j = Len(net[s]) + 1 /\ k = Len(net[s]) + 1
      BY <1>5
    <3>2. CASE j \in DOMAIN net[s] /\ k \in DOMAIN net[s]
      BY <1>5, <3>2 DEF StatsInv, OrderKept
    <3>3. CASE j \in DOMAIN net[s] /\ k = Len(net[s]) + 1
      <4>1. net[s][j].stamp <= clock + Skew[s]
        BY <3>3 DEF StatsInv, SeqNumbered
      <4> QED BY <1>1, <1>5, <3>3, <4>1
    <3>4. CASE j = Len(net[s]) + 1 /\ k = Len(net[s]) + 1
      BY <1>1, <1>5, <3>4
    <3> QED BY <3>1, <3>2, <3>3, <3>4
  <2> QED BY <1>4, <2>1 DEF StatsInv, OrderKept
<1>16. PeriodsKept'
  BY <1>2, SamePeriods DEF StatsInv
<1> QED BY <1>7, <1>9, <1>12, <1>13, <1>14, <1>15, <1>16 DEF StatsInv

\* A message left the network: the first whose fate is not known, h.
Gone(s, what, h) ==
    /\ h = Sent(s) + 1 /\ h \in 1..MaxSeq /\ h \in DOMAIN fate[s]
    /\ Head(net[s]) \in Stamped
    /\ Head(net[s]).seq = h - 1 /\ Head(net[s]).sender = s
    /\ Head(net[s]) = net[s][1] /\ 1 \in DOMAIN net[s]
    /\ fate' \in [Sender -> Seq(Fates)]
    /\ net' \in [Sender -> Seq(Stamped)]
    /\ DOMAIN fate'[s] = DOMAIN fate[s] /\ fate'[s][h] = what
    /\ \A i \in DOMAIN fate[s] \ {h} : fate'[s][i] = fate[s][i]
    /\ \A i \in DOMAIN fate[s] : fate[s][i] = "sent" <=> i >= h
    /\ \A r \in Sender \ {s} : fate'[r] = fate[r] /\ net'[r] = net[r]
    /\ Len(net[s]) \in Nat \ {0} /\ DOMAIN net[s] = 1..Len(net[s])
    /\ DOMAIN net'[s] = 1..(Len(net[s]) - 1)
    /\ \A k \in DOMAIN net'[s] : net'[s][k] = net[s][k + 1]
    /\ SeqNumbered' /\ OrderKept'

LEMMA LeaveIs ==
    ASSUME StatsInv, NEW s \in Sender, NEW what \in {"lost", "missed", "counted"},
           Leave(s, what), UNCHANGED <<clock, topicPubSeq>>
    PROVE  \E h \in Nat : Gone(s, what, h)
<1> DEFINE q == net[s]
           m == Head(q)
           f == fate[s]
<1>1. /\ q \in Seq(Stamped) /\ q # <<>> /\ f \in Seq(Fates)
      /\ topicPubSeq[s] \in 0..MaxSeq /\ MaxSeq \in Nat
      /\ net \in [Sender -> Seq(Stamped)] /\ fate \in [Sender -> Seq(Fates)]
      /\ what \in Fates
  BY StatsAssumption DEF StatsInv, StatsTypes, Leave, Fates
<1>2. /\ net' = [net EXCEPT ![s] = Tail(q)]
      /\ fate' = [fate EXCEPT ![s][m.seq + 1] = what]
  BY DEF Leave
<1>3. /\ Len(f) = topicPubSeq[s] /\ Sent(s) \in Nat
      /\ \A k \in DOMAIN q :
            /\ q[k].sender = s /\ q[k].seq = Sent(s) + k - 1
            /\ q[k].stamp > Skew[s] /\ q[k].stamp <= clock + Skew[s]
      /\ \A i \in DOMAIN f : f[i] = "sent" <=> i > Sent(s)
      /\ Sent(s) = topicPubSeq[s] - Len(q)
  BY DEF StatsInv, SeqNumbered, Sent
<1>4. /\ Tail(q) \in Seq(Stamped) /\ Len(q) \in Nat \ {0}
      /\ DOMAIN q = 1..Len(q) /\ DOMAIN Tail(q) = 1..(Len(q) - 1)
      /\ m = q[1] /\ m \in Stamped /\ Len(Tail(q)) = Len(q) - 1
      /\ \A k \in DOMAIN Tail(q) : Tail(q)[k] = q[k + 1]
  <2> HIDE DEF q, Stamped
  <2> QED BY <1>1, Left DEF m
<1> DEFINE h == Sent(s) + 1
<1>5. PICK n \in Nat : n = h
  BY <1>3
<1>6. /\ n \in 1..MaxSeq /\ n \in DOMAIN f /\ DOMAIN f = 1..Len(f)
      /\ 1 \in DOMAIN q /\ m.seq = n - 1 /\ m.sender = s
  <2> HIDE DEF q, m, f
  <2>1. DOMAIN f = 1..Len(f)
    BY <1>1
  <2>2. n = topicPubSeq[s] - Len(q) + 1
    BY <1>3, <1>5
  <2>3. topicPubSeq[s] \in Int /\ topicPubSeq[s] <= MaxSeq
    BY <1>1
  <2>4. n >= 1 /\ n <= topicPubSeq[s]
    BY <1>3, <1>4, <1>5, <2>2, <2>3
  <2>5. 1 \in DOMAIN q
    BY <1>4
  <2>6. m.seq = n - 1 /\ m.sender = s
    BY <1>3, <1>4, <1>5, <2>5
  <2> QED BY <1>1, <1>3, <2>1, <2>3, <2>4, <2>5, <2>6
<1>7. m.seq + 1 = n
  BY <1>6
<1> HIDE DEF m, q, h
<1>8. fate' = [fate EXCEPT ![s] = [f EXCEPT ![n] = what]]
  BY <1>1, <1>2, <1>7
<1>9. /\ fate' \in [Sender -> Seq(Fates)] /\ fate'[s] \in Seq(Fates)
      /\ DOMAIN fate'[s] = DOMAIN f /\ fate'[s][n] = what
      /\ Len(fate'[s]) = Len(f)
      /\ \A i \in DOMAIN f \ {n} : fate'[s][i] = f[i]
      /\ \A r \in Sender \ {s} : fate'[r] = fate[r]
  <2> HIDE DEF f
  <2>1. [f EXCEPT ![n] = what] \in Seq(Fates)
    BY <1>1, <1>6
  <2>2. fate'[s] = [f EXCEPT ![n] = what]
    BY <1>1, <1>8
  <2>3. Len([f EXCEPT ![n] = what]) = Len(f)
    BY <1>1, <1>6, <2>1
  <2> QED BY <1>1, <1>6, <1>8, <2>1, <2>2, <2>3
<1>10. /\ net' \in [Sender -> Seq(Stamped)] /\ net'[s] = Tail(q)
       /\ \A r \in Sender \ {s} : net'[r] = net[r]
  BY <1>1, <1>2, <1>4
<1>11. Sent(s)' = n /\ \A r \in Sender \ {s} : Sent(r)' = Sent(r)
  <2>1. Sent(s)' = topicPubSeq[s] - (Len(q) - 1)
    BY <1>4, <1>10 DEF Sent
  <2>2. topicPubSeq[s] \in Int
    BY <1>1
  <2> QED BY <1>3, <1>4, <1>5, <1>10, <2>1, <2>2 DEF Sent, h
<1>12. \A i \in DOMAIN f : f[i] = "sent" <=> i >= n
  <2> TAKE i \in DOMAIN f
  <2>1. i \in Int /\ Sent(s) \in Int /\ n = Sent(s) + 1
    BY <1>3, <1>5, <1>6 DEF h
  <2>2. f[i] = "sent" <=> i > Sent(s)
    BY <1>3
  <2> QED BY <2>1, <2>2
<1>13. SeqNumbered'
  <2> SUFFICES ASSUME NEW r \in Sender
               PROVE  /\ Len(fate'[r]) = topicPubSeq'[r] /\ Sent(r)' \in Nat
                      /\ \A k \in DOMAIN net'[r] :
                            /\ net'[r][k].sender = r
                            /\ net'[r][k].seq = Sent(r)' + k - 1
                            /\ net'[r][k].stamp > Skew[r]
                            /\ net'[r][k].stamp <= clock' + Skew[r]
                      /\ \A i \in DOMAIN fate'[r] :
                            fate'[r][i] = "sent" <=> i > Sent(r)'
    BY DEF SeqNumbered
  <2>1. CASE r # s
    <3>1. /\ fate'[r] = fate[r] /\ net'[r] = net[r] /\ Sent(r)' = Sent(r)
          /\ topicPubSeq' = topicPubSeq /\ clock' = clock
      BY <1>9, <1>10, <1>11, <2>1
    <3> QED BY <3>1 DEF StatsInv, SeqNumbered
  <2>2. CASE r = s
    <3>1. \A k \in DOMAIN net'[s] :
              /\ net'[s][k].sender = s /\ net'[s][k].seq = n + k - 1
              /\ net'[s][k].stamp > Skew[s]
              /\ net'[s][k].stamp <= clock + Skew[s]
      <4> TAKE k \in DOMAIN net'[s]
      <4>1. k \in 1..(Len(q) - 1) /\ net'[s][k] = q[k + 1]
        BY <1>4, <1>10
      <4>2. k + 1 \in DOMAIN q /\ k \in Int
        BY <1>4, <4>1
      <4>3. q[k + 1].seq = Sent(s) + (k + 1) - 1
        BY <1>3, <4>2
      <4>4. q[k + 1].seq = n + k - 1
        BY <1>3, <1>5, <4>2, <4>3 DEF h
      <4> QED BY <1>3, <4>1, <4>2, <4>4
    <3>2. \A i \in DOMAIN fate'[s] : fate'[s][i] = "sent" <=> i > n
      <4> TAKE i \in DOMAIN fate'[s]
      <4>1. CASE i = n
        BY <1>9, <4>1
      <4>2. CASE i # n
        <5>1. i \in DOMAIN f /\ i \in Int /\ fate'[s][i] = f[i]
          BY <1>6, <1>9, <4>2
        <5> QED BY <1>12, <4>2, <5>1
      <4> QED BY <4>1, <4>2
    <3> QED BY <1>3, <1>9, <1>11, <2>2, <3>1, <3>2
  <2> QED BY <2>1, <2>2
<1>14. OrderKept'
  <2>1. \A j, k \in DOMAIN net'[s] :
            j <= k => net'[s][j].stamp <= net'[s][k].stamp
    <3> TAKE j, k \in DOMAIN net'[s]
    <3> HAVE j <= k
    <3>1. /\ j \in 1..(Len(q) - 1) /\ net'[s][j] = q[j + 1]
          /\ k \in 1..(Len(q) - 1) /\ net'[s][k] = q[k + 1]
      BY <1>4, <1>10
    <3>2. j + 1 \in DOMAIN q /\ k + 1 \in DOMAIN q /\ j + 1 <= k + 1
      BY <1>4, <3>1
    <3> QED BY <3>1, <3>2 DEF StatsInv, OrderKept, q
  <2> QED BY <1>10, <2>1 DEF StatsInv, OrderKept
<1>15. /\ n = Sent(s) + 1
  BY <1>5 DEF h
<1>16. DOMAIN net'[s] = DOMAIN Tail(q)
  BY <1>10
<1> QED BY <1>4, <1>6, <1>9, <1>10, <1>12, <1>13, <1>14, <1>15, <1>16
        DEF m, q, f, Gone

\* A message that is not counted leaves the network.
LEMMA PassInv ==
    ASSUME StatsInv, NEW s \in Sender, NEW what \in {"lost", "missed"},
           Leave(s, what),
           UNCHANGED <<clock, topicPubSeq, enabled, topicStats, received>>
    PROVE  StatsInv'
<1>1. PICK h \in Nat : Gone(s, what, h)
  <2>1. /\ what \in {"lost", "missed", "counted"}
        /\ UNCHANGED <<clock, topicPubSeq>>
    OBVIOUS
  <2> QED BY <2>1, LeaveIs, Zenon
<1> USE <1>1 DEF Gone
<1>2. StatsTypes'
  BY <1>1 DEF StatsInv, StatsTypes
<1>3. fate[s] \in Seq(Fates) /\ DOMAIN fate[s] = 1..Len(fate[s]) /\ Len(fate[s]) \in Nat
  BY DEF StatsInv, StatsTypes
<1>4. \A i \in DOMAIN fate[s] :
          fate'[s][i] = "counted" <=> fate[s][i] = "counted"
  <2> TAKE i \in DOMAIN fate[s]
  <2>1. fate[s][h] = "sent"
    BY <1>1
  <2> QED BY <1>1, <2>1
<1>5. \A r \in Sender : CountedOf(r)' = CountedOf(r)
  <2>1. CountedOf(s)' = CountedOf(s)
    BY <1>1, <1>4 DEF CountedOf
  <2>2. \A r \in Sender \ {s} : CountedOf(r)' = CountedOf(r)
    BY <1>1 DEF CountedOf
  <2> QED BY <2>1, <2>2
<1>6. \A r \in Sender : Gaps(r)' = Gaps(r)
  <2>1. ASSUME NEW i PROVE i \in Gaps(s)' <=> i \in Gaps(s)
    <3>1. i \in Gaps(s) <=>
              /\ i \in DOMAIN fate[s] /\ fate[s][i] = "counted"
              /\ i > 1 /\ fate[s][i - 1] # "counted"
              /\ \E j \in 1..(i - 1) : fate[s][j] = "counted"
      BY DEF Gaps
    <3>2. i \in Gaps(s)' <=>
              /\ i \in DOMAIN fate[s] /\ fate'[s][i] = "counted"
              /\ i > 1 /\ fate'[s][i - 1] # "counted"
              /\ \E j \in 1..(i - 1) : fate'[s][j] = "counted"
      BY <1>1 DEF Gaps
    <3>3. i \in DOMAIN fate[s] => 1..(i - 1) \subseteq DOMAIN fate[s]
      BY <1>3
    <3>4. i \in DOMAIN fate[s] /\ i > 1 => i - 1 \in DOMAIN fate[s]
      BY <1>3
    <3> QED BY <1>4, <3>1, <3>2, <3>3, <3>4
  <2>2. \A r \in Sender \ {s} : Gaps(r)' = Gaps(r)
    BY <1>1 DEF Gaps
  <2>3. Gaps(s)' = Gaps(s)
    BY <2>1
  <2> QED BY <2>2, <2>3
<1>7. GapsCounted'
  BY <1>5, <1>6, SameCounted DEF StatsInv
<1>8. LastKept'
  BY <1>5 DEF StatsInv, LastKept, Heard
<1>9. TimesKept'
  <2>1. \A i \in DOMAIN received : received[i] \in Counted
    BY DEF StatsInv, StatsTypes
  <2>2. \A i \in DOMAIN received : \A k \in DOMAIN net'[received[i].sender] :
            received[i].stamp <= net'[received[i].sender][k].stamp
    <3> TAKE i \in DOMAIN received
    <3> TAKE k \in DOMAIN net'[received[i].sender]
    <3>1. CASE received[i].sender = s
      <4>1. net'[s][k] = net[s][k + 1] /\ k + 1 \in DOMAIN net[s]
        BY <1>1, <3>1
      <4> QED BY <3>1, <4>1 DEF StatsInv, TimesKept
    <3>2. CASE received[i].sender # s
      <4>1. received[i].sender \in Sender \ {s}
        BY <2>1, <3>2 DEF Counted
      <4> QED BY <1>1, <4>1 DEF StatsInv, TimesKept
    <3> QED BY <3>1, <3>2
  <2> QED BY <2>2 DEF StatsInv, TimesKept
<1>10. PeriodsKept'
  BY SamePeriods DEF StatsInv
<1> QED BY <1>1, <1>2, <1>7, <1>8, <1>9, <1>10 DEF StatsInv

\* What is written of a message counted.
Row(s) == [sender |-> s, stamp |-> Head(net[s]).stamp, time |-> clock]

CountedBy(s, h) ==
    /\ Gone(s, "counted", h)
    /\ Head(net[s]).stamp \in Nat /\ Head(net[s]).stamp > Skew[s]
    /\ Head(net[s]).stamp <= clock + Skew[s]
    /\ topicStats' = UpdateTopic(topicStats, Head(net[s]))
    /\ UNCHANGED <<clock, topicPubSeq, enabled>>
    /\ Row(s) \in Counted /\ Row(s).sender = s /\ Row(s).time = clock
    /\ Row(s).stamp = Head(net[s]).stamp
    /\ received' \in Seq(Counted) /\ Len(received) \in Nat
    /\ DOMAIN received = 1..Len(received)
    /\ Len(received') = Len(received) + 1
    /\ DOMAIN received' = 1..(Len(received) + 1)
    /\ \A k \in DOMAIN received :
          received'[k] = received[k] /\ received[k] \in Counted
    /\ received'[Len(received) + 1] = Row(s)
    /\ received' # <<>>

LEMMA CountedIs ==
    ASSUME StatsInv, NEW s \in Sender, enabled, RecvMsgUpdate(s)
    PROVE  \E h \in Nat : CountedBy(s, h)
<1>1. /\ Leave(s, "counted") /\ UNCHANGED <<clock, topicPubSeq>>
      /\ "counted" \in {"lost", "missed", "counted"}
  BY DEF RecvMsgUpdate
<1>2. PICK h \in Nat : Gone(s, "counted", h)
  BY <1>1, LeaveIs, Zenon
<1> DEFINE msg == Head(net[s])
           row == [sender |-> s, stamp |-> msg.stamp, time |-> clock]
<1>3. /\ topicStats' = UpdateTopic(topicStats, msg)
      /\ UNCHANGED <<clock, topicPubSeq, enabled>>
      /\ received' = Append(received, row)
  BY DEF RecvMsgUpdate
<1>4. /\ msg \in Stamped /\ msg.stamp > Skew[s] /\ msg.stamp <= clock + Skew[s]
  <2>1. 1 \in DOMAIN net[s] /\ msg = net[s][1] /\ msg \in Stamped
    BY <1>2 DEF Gone
  <2> QED BY <2>1 DEF StatsInv, SeqNumbered
<1>5. msg.stamp \in Nat /\ clock \in Nat
  <2>1. clock \in Nat
    BY DEF StatsInv, StatsTypes
  <2> QED BY <1>4, <2>1 DEF Stamped
<1>6. row \in Counted
  BY <1>5 DEF Counted
<1>7. received \in Seq(Counted)
  BY DEF StatsInv, StatsTypes
<1>8. /\ received' \in Seq(Counted) /\ received' # <<>>
      /\ Len(received) \in Nat /\ DOMAIN received = 1..Len(received)
      /\ Len(received') = Len(received) + 1
      /\ DOMAIN received' = 1..(Len(received) + 1)
      /\ \A k \in DOMAIN received : received'[k] = received[k]
      /\ received'[Len(received) + 1] = row
  <2> HIDE DEF row, Counted
  <2> QED BY <1>3, <1>6, <1>7, Appended
<1>9. \A k \in DOMAIN received : received[k] \in Counted
  BY <1>7
<1>10. row.sender = s /\ row.time = clock /\ row.stamp = msg.stamp
  OBVIOUS
<1>11. Row(s) = row
  BY DEF Row
<1> HIDE DEF row, msg
<1>12. /\ Gone(s, "counted", h)
       /\ topicStats' = UpdateTopic(topicStats, Head(net[s]))
       /\ Head(net[s]) = msg
  BY <1>2, <1>3 DEF msg
<1> QED BY <1>3, <1>4, <1>5, <1>6, <1>8, <1>9, <1>10, <1>11, <1>12 DEF CountedBy

\* The first message counted finds no stamp.
LEMMA FirstIs ==
    ASSUME StatsInv
    PROVE  topicStats.prevPublicationStamp = 0 <=> Len(received) = 0
<1>1. Len(received) \in Nat /\ DOMAIN received = 1..Len(received)
      /\ received \in Seq(Counted)
  BY DEF StatsInv, StatsTypes
<1>2. CASE Len(received) > 0
  <2>1. Len(received) \in DOMAIN received
    BY <1>1, <1>2
  <2>2. received[Len(received)] \in Counted
    BY <1>1, <2>1
  <2> DEFINE r == received[Len(received)]
  <2>3. r.sender \in Sender /\ r.stamp \in Nat
    BY <2>2 DEF Counted
  <2>4. Skew[r.sender] \in Nat
    BY <2>3, StatsAssumption
  <2>5. r.stamp > Skew[r.sender] /\ topicStats.prevPublicationStamp = r.stamp
    BY <1>2, <2>1 DEF StatsInv, TimesKept
  <2> HIDE DEF r
  <2> QED BY <1>2, <2>3, <2>4, <2>5
<1>3. CASE Len(received) = 0
  BY <1>3 DEF StatsInv, TimesKept
<1> QED BY <1>1, <1>2, <1>3

LEMMA CountedOfIs ==
    ASSUME StatsInv, NEW s \in Sender, NEW h \in Nat, CountedBy(s, h)
    PROVE  /\ CountedOf(s)' = CountedOf(s) \union {h}
           /\ \A r \in Sender \ {s} : CountedOf(r)' = CountedOf(r)
           /\ \A i \in CountedOf(s) : i < h /\ i \in Nat /\ i >= 1
           /\ \A r \in Sender : CountedOf(r) \in SUBSET Nat
           /\ \A r \in Sender : IsFiniteSet(CountedOf(r))
<1>1. Gone(s, "counted", h)
  BY DEF CountedBy
<1>2. \A r \in Sender : Len(fate[r]) \in Nat /\ DOMAIN fate[r] = 1..Len(fate[r])
  BY DEF StatsInv, StatsTypes
<1>3. CountedOf(s)' = CountedOf(s) \union {h}
  <2>1. \A i \in DOMAIN fate[s] :
            fate'[s][i] = "counted" <=> fate[s][i] = "counted" \/ i = h
    BY <1>1 DEF Gone
  <2>2. h \in DOMAIN fate[s] /\ DOMAIN fate'[s] = DOMAIN fate[s]
    BY <1>1 DEF Gone
  <2> QED BY <2>1, <2>2 DEF CountedOf
<1>4. \A r \in Sender \ {s} : CountedOf(r)' = CountedOf(r)
  BY <1>1 DEF Gone, CountedOf
<1>5. \A i \in CountedOf(s) : i < h /\ i \in Nat /\ i >= 1
  <2> TAKE i \in CountedOf(s)
  <2>1. i \in DOMAIN fate[s] /\ fate[s][i] # "sent"
    BY DEF CountedOf
  <2>2. i \in Nat /\ i >= 1
    BY <1>2, <2>1
  <2>3. ~ (i >= h)
    BY <1>1, <2>1 DEF Gone
  <2> QED BY <2>2, <2>3
<1>6. \A r \in Sender : CountedOf(r) \in SUBSET Nat /\ IsFiniteSet(CountedOf(r))
  <2> TAKE r \in Sender
  <2>1. CountedOf(r) \subseteq 1..Len(fate[r]) /\ Len(fate[r]) \in Int
    BY <1>2 DEF CountedOf
  <2>2. IsFiniteSet(1..Len(fate[r]))
    BY <2>1, FS_Interval
  <2> QED BY <2>1, <2>2, FS_Subset
<1> QED BY <1>3, <1>4, <1>5, <1>6

LEMMA UpdatedIs ==
    ASSUME StatsInv, NEW s \in Sender, NEW h \in Nat, CountedBy(s, h)
    PROVE  /\ topicStats'.seq = [topicStats.seq EXCEPT ![s] = h - 1]
           /\ topicStats'.prevPublicationStamp = Row(s).stamp
           /\ topicStats'.prevReceptionStamp = clock
           /\ Len(received) = 0 =>
                 /\ topicStats'.publication = topicStats.publication
                 /\ topicStats'.reception = topicStats.reception
                 /\ topicStats'.age = topicStats.age
                 /\ topicStats'.droppedMsgCount = topicStats.droppedMsgCount
           /\ Len(received) > 0 =>
                 /\ topicStats'.publication =
                       Update(topicStats.publication, Unsigned(Row(s).stamp
                                  - received[Len(received)].stamp))
                 /\ topicStats'.reception =
                       Update(topicStats.reception,
                          Unsigned(clock - received[Len(received)].time))
                 /\ topicStats'.age =
                       Update(topicStats.age, Unsigned(clock - Row(s).stamp))
                 /\ topicStats'.droppedMsgCount = topicStats.droppedMsgCount
                       + (IF topicStats.seq[s] + 1 = h - 1 THEN 0 ELSE 1)
<1> DEFINE msg == Head(net[s])
<1>1. /\ topicStats' = UpdateTopic(topicStats, msg)
      /\ msg.sender = s /\ msg.seq = h - 1 /\ msg.stamp = Row(s).stamp
  BY DEF CountedBy, Gone
<1>2. topicStats.prevPublicationStamp = 0 <=> Len(received) = 0
  BY FirstIs
<1>3. topicStats.droppedMsgCount \in Nat /\ Len(received) \in Nat
  BY DEF StatsInv, StatsTypes
<1> HIDE DEF msg
<1>4. /\ topicStats'.seq = [topicStats.seq EXCEPT ![s] = h - 1]
      /\ topicStats'.prevPublicationStamp = Row(s).stamp
      /\ topicStats'.prevReceptionStamp = clock
  BY <1>1 DEF UpdateTopic
<1>5. CASE Len(received) = 0
  <2>1. /\ topicStats'.publication = topicStats.publication
        /\ topicStats'.reception = topicStats.reception
        /\ topicStats'.age = topicStats.age
        /\ topicStats'.droppedMsgCount = topicStats.droppedMsgCount + 0
    BY <1>1, <1>2, <1>5 DEF UpdateTopic
  <2> QED BY <1>3, <1>4, <1>5, <2>1
<1>6. CASE Len(received) > 0
  <2>1. /\ topicStats.prevPublicationStamp = received[Len(received)].stamp
        /\ topicStats.prevReceptionStamp = received[Len(received)].time
    BY <1>6 DEF StatsInv, TimesKept
  <2>2. topicStats.prevPublicationStamp # 0
    BY <1>2, <1>6
  <2>3. /\ topicStats'.publication =
              Update(topicStats.publication,
                     Unsigned(msg.stamp - topicStats.prevPublicationStamp))
        /\ topicStats'.reception =
              Update(topicStats.reception,
                     Unsigned(clock - topicStats.prevReceptionStamp))
        /\ topicStats'.age =
              Update(topicStats.age, Unsigned(clock - msg.stamp))
        /\ topicStats'.droppedMsgCount = topicStats.droppedMsgCount
              + (IF Follows(topicStats, s, h - 1) THEN 0 ELSE 1)
    BY <1>1, <2>2 DEF UpdateTopic
  <2>4. Follows(topicStats, s, h - 1) <=> topicStats.seq[s] + 1 = h - 1
    BY DEF Follows
  <2>5. ~ (Len(received) = 0)
    BY <1>6
  <2> QED BY <1>1, <1>4, <2>1, <2>3, <2>4, <2>5
<1> QED BY <1>3, <1>5, <1>6

LEMMA CountedKept ==
    ASSUME StatsInv, NEW s \in Sender, NEW h \in Nat, CountedBy(s, h)
    PROVE  StatsTypes' /\ LastKept'
<1>1. /\ Gone(s, "counted", h) /\ UNCHANGED <<clock, topicPubSeq, enabled>>
      /\ h \in Nat /\ h >= 1
  BY DEF CountedBy, Gone
<1>2. topicStats'.seq = [topicStats.seq EXCEPT ![s] = h - 1]
  BY UpdatedIs
<1>3. topicStats.seq \in [Sender -> Nat] /\ topicStats.droppedMsgCount \in Nat
  BY DEF StatsInv, StatsTypes
<1>4. topicStats'.droppedMsgCount \in Nat
  <2>1. Len(received) = 0 \/ Len(received) > 0
    BY DEF StatsInv, StatsTypes
  <2>2. \/ topicStats'.droppedMsgCount = topicStats.droppedMsgCount
        \/ topicStats'.droppedMsgCount = topicStats.droppedMsgCount
              + (IF topicStats.seq[s] + 1 = h - 1 THEN 0 ELSE 1)
    BY <2>1, UpdatedIs
  <2>3. (IF topicStats.seq[s] + 1 = h - 1 THEN 0 ELSE 1) \in Nat
    OBVIOUS
  <2> QED BY <1>3, <2>2, <2>3
<1>5. StatsTypes'
  <2>1. topicStats'.seq \in [Sender -> Nat]
    BY <1>1, <1>2, <1>3
  <2> QED BY <1>1, <1>4, <2>1 DEF StatsInv, StatsTypes, CountedBy, Gone
<1>6. \A r \in Sender : Heard(r)' <=> Heard(r) \/ r = s
  <2>1. Row(s).sender = s
    BY DEF CountedBy
  <2>2. /\ \A k \in DOMAIN received :
              received'[k] = received[k] /\ k \in DOMAIN received'
        /\ Len(received) + 1 \in DOMAIN received'
        /\ received'[Len(received) + 1].sender = s
        /\ \A k \in DOMAIN received' :
              k \in DOMAIN received \/ k = Len(received) + 1
    BY <2>1 DEF CountedBy
  <2> QED BY <2>2 DEF Heard
<1>7. LastKept'
  <2> SUFFICES ASSUME NEW r \in Sender
               PROVE  /\ Heard(r)' <=> CountedOf(r)' # {}
                      /\ ~ Heard(r)' => topicStats'.seq[r] = 0
                      /\ Heard(r)' => topicStats'.seq[r] + 1 \in CountedOf(r)'
                      /\ \A i \in CountedOf(r)' : i <= topicStats'.seq[r] + 1
    BY DEF LastKept
  <2>1. CASE r = s
    <3>1. topicStats'.seq[s] = h - 1
      BY <1>2, <1>3
    <3>2. CountedOf(s)' = CountedOf(s) \union {h}
          /\ \A i \in CountedOf(s) : i < h /\ i \in Nat
      BY CountedOfIs
    <3>3. topicStats'.seq[s] + 1 = h
      BY <1>1, <3>1
    <3> QED BY <1>1, <1>6, <2>1, <3>2, <3>3
  <2>2. CASE r # s
    <3>1. topicStats'.seq[r] = topicStats.seq[r]
      BY <1>2, <1>3, <2>2
    <3>2. CountedOf(r)' = CountedOf(r)
      BY <2>2, CountedOfIs
    <3>3. Heard(r)' <=> Heard(r)
      BY <1>6, <2>2
    <3> QED BY <3>1, <3>2, <3>3 DEF StatsInv, LastKept
  <2> QED BY <2>1, <2>2
<1> QED BY <1>5, <1>7

LEMMA CountedTimes ==
    ASSUME StatsInv, NEW s \in Sender, NEW h \in Nat, CountedBy(s, h)
    PROVE  TimesKept'
<1> DEFINE row == Row(s)
<1> HIDE DEF row
<1>1. PICK n \in Nat : n = Len(received)
  BY DEF CountedBy
<1>2. /\ DOMAIN received = 1..n /\ DOMAIN received' = 1..(n + 1)
      /\ Len(received') = n + 1 /\ received'[n + 1] = row
      /\ \A i \in 1..n : received'[i] = received[i] /\ received[i] \in Counted
      /\ row.sender = s /\ row.time = clock /\ row.stamp > Skew[s]
      /\ row.stamp <= clock + Skew[s] /\ row.stamp \in Nat
      /\ clock' = clock
  BY <1>1 DEF CountedBy, row
<1>3. /\ row.stamp = net[s][1].stamp /\ 1 \in DOMAIN net[s]
      /\ DOMAIN net'[s] = 1..(Len(net[s]) - 1)
      /\ Len(net[s]) \in Nat /\ DOMAIN net[s] = 1..Len(net[s])
      /\ \A k \in DOMAIN net'[s] : net'[s][k] = net[s][k + 1]
      /\ \A r \in Sender \ {s} : net'[r] = net[r]
  BY DEF CountedBy, Gone, row
<1>4. /\ topicStats'.prevPublicationStamp = row.stamp
      /\ topicStats'.prevReceptionStamp = row.time
  BY <1>2, UpdatedIs DEF row
<1>5. \A i \in 1..n :
          LET r == received[i] IN
          /\ r.time \in 1..clock
          /\ r.stamp > Skew[r.sender] /\ r.stamp <= clock + Skew[r.sender]
          /\ \A j \in 1..i : received[j].sender = r.sender =>
                received[j].stamp <= r.stamp
          /\ \A k \in DOMAIN net[r.sender] :
                r.stamp <= net[r.sender][k].stamp
  BY <1>2 DEF StatsInv, TimesKept
<1>6. ASSUME NEW i \in 1..(n + 1)
      PROVE  LET r == received'[i] IN
             /\ r.time \in 1..clock
             /\ r.stamp > Skew[r.sender] /\ r.stamp <= clock + Skew[r.sender]
             /\ \A j \in 1..i : received'[j].sender = r.sender =>
                   received'[j].stamp <= r.stamp
             /\ \A k \in DOMAIN net'[r.sender] :
                   r.stamp <= net'[r.sender][k].stamp
  <2>1. CASE i = n + 1
    <3>1. clock \in 1..clock
      BY DEF StatsInv, StatsTypes
    <3>2. \A j \in 1..i : received'[j].sender = s =>
              received'[j].stamp <= row.stamp
      <4> TAKE j \in 1..i
      <4>1. CASE j \in 1..n
        <5>1. received'[j] = received[j]
          BY <1>2, <4>1
        <5>2. \A k \in DOMAIN net[received[j].sender] :
                  received[j].stamp <= net[received[j].sender][k].stamp
          BY <1>5, <4>1
        <5>3. received[j].sender = s =>
                  received[j].stamp <= net[s][1].stamp
          BY <1>3, <5>2
        <5> QED BY <1>3, <5>1, <5>3
      <4>2. CASE j = n + 1
        BY <1>2, <4>2
      <4> QED BY <2>1, <4>1, <4>2
    <3>3. \A k \in DOMAIN net'[s] : row.stamp <= net'[s][k].stamp
      <4> TAKE k \in DOMAIN net'[s]
      <4>1. k + 1 \in DOMAIN net[s] /\ 1 <= k + 1
        BY <1>3
      <4>2. net[s][1].stamp <= net[s][k + 1].stamp
        BY <1>3, <4>1 DEF StatsInv, OrderKept
      <4> QED BY <1>3, <4>2
    <3> QED BY <1>2, <2>1, <3>1, <3>2, <3>3
  <2>2. CASE i \in 1..n
    <3>1. received'[i] = received[i] /\ received[i].sender \in Sender
      BY <1>2, <2>2 DEF Counted
    <3>2. \A j \in 1..i : received'[j] = received[j]
      BY <1>2, <2>2
    <3>3. \A k \in DOMAIN net'[received[i].sender] :
              received[i].stamp <= net'[received[i].sender][k].stamp
      <4>1. CASE received[i].sender = s
        <5> TAKE k \in DOMAIN net'[received[i].sender]
        <5>1. k + 1 \in DOMAIN net[s] /\ net'[s][k] = net[s][k + 1]
          BY <1>3, <4>1
        <5>2. received[i].stamp <= net[s][k + 1].stamp
          BY <1>5, <2>2, <4>1, <5>1
        <5> QED BY <4>1, <5>1, <5>2
      <4>2. CASE received[i].sender # s
        <5>1. net'[received[i].sender] = net[received[i].sender]
          BY <1>3, <3>1, <4>2
        <5> QED BY <1>5, <2>2, <5>1
      <4> QED BY <4>1, <4>2
    <3> QED BY <1>5, <2>2, <3>1, <3>2, <3>3
  <2> QED BY <2>1, <2>2
<1> QED BY <1>2, <1>4, <1>6 DEF TimesKept

LEMMA UnsignedIs ==
    ASSUME NEW x \in Int
    PROVE  /\ Unsigned(x) \in 0..(Modulus - 1)
           /\ 0 <= x /\ x < Modulus => Unsigned(x) = x
<1>1. Modulus \in Nat \ {0}
  BY NoSampleIs
<1>2. x % Modulus \in 0..(Modulus - 1)
  BY <1>1
<1>3. 0 <= x /\ x < Modulus => x % Modulus = x
  BY <1>1, SmallMod
<1> QED BY <1>2, <1>3 DEF Unsigned

LEMMA UpdateType ==
    ASSUME NEW statistics \in Samples, NEW x \in Int
    PROVE  Update(statistics, Unsigned(x)) \in Samples
<1>1. Unsigned(x) \in Nat
  <2>1. Unsigned(x) \in 0..(Modulus - 1) /\ Modulus \in Nat
    BY UnsignedIs, NoSampleIs
  <2> QED BY <2>1
<1>2. /\ statistics.count \in Nat /\ statistics.min \in Nat
      /\ statistics.max \in Nat
  BY DEF Samples
<1> DEFINE u == Update(statistics, Unsigned(x))
           lo == IF statistics.min <= Unsigned(x) THEN statistics.min ELSE Unsigned(x)
           hi == IF statistics.max >= Unsigned(x) THEN statistics.max ELSE Unsigned(x)
<1>3. u = [count |-> statistics.count + 1, min |-> lo, max |-> hi]
  BY <1>1, UpdateIs
<1>4. lo \in Nat /\ hi \in Nat /\ statistics.count + 1 \in Nat
  BY <1>1, <1>2
<1> QED BY <1>3, <1>4 DEF Samples

LEMMA ImageGrows ==
    ASSUME NEW S, NEW k, NEW D, NEW E, \A i \in S : D[i] = E[i]
    PROVE  {D[i] : i \in S \union {k}} = {E[i] : i \in S} \union {D[k]}
OBVIOUS

\* The samples once a message is counted.
LEMMA SamplesGrow ==
    ASSUME StatsInv, NEW s \in Sender, NEW h \in Nat, CountedBy(s, h),
           Len(received) > 0
    PROVE  LET last == received[Len(received)] IN
           /\ Receptions' = Receptions \union {clock - last.time}
           /\ Publications' = Publications \union {Row(s).stamp - last.stamp}
           /\ Ages' = Ages \union {clock - Row(s).stamp}
           /\ Receptions \in SUBSET Int /\ Publications \in SUBSET Int
           /\ Ages \in SUBSET Int
<1> DEFINE row == Row(s)
<1> HIDE DEF row
<1>1. PICK n \in Nat : n = Len(received)
  BY DEF CountedBy
<1>2. /\ DOMAIN received = 1..n /\ Len(received') = n + 1 /\ n >= 1
      /\ received'[n + 1] = row /\ row.time = clock
      /\ \A i \in 1..n : received'[i] = received[i] /\ received[i] \in Counted
  BY <1>1 DEF CountedBy, row
<1>3. \A i \in 1..n : received[i].time \in Nat /\ received[i].stamp \in Nat
  BY <1>2 DEF Counted
<1>4. /\ 2..(n + 1) = 2..n \union {n + 1} /\ (n + 1) - 1 = n
      /\ \A i \in 2..n : i \in 1..n /\ i - 1 \in 1..n
      /\ n \in 1..n
  BY <1>2
<1>5. /\ \A i \in 2..n : received'[i] = received[i]
                         /\ received'[i - 1] = received[i - 1]
      /\ received'[n] = received[n]
  BY <1>2, <1>4
<1>6. Receptions' = Receptions \union {row.time - received[n].time}
  <2>1. Receptions' = {received'[i].time - received'[i - 1].time :
                           i \in 2..(n + 1)}
    BY <1>2 DEF Receptions
  <2>2. Receptions = {received[i].time - received[i - 1].time : i \in 2..n}
    BY <1>1 DEF Receptions
  <2>3. PICK D : D = [i \in 2..(n + 1) |->
                       received'[i].time - received'[i - 1].time]
    OBVIOUS
  <2>4. PICK E : E = [i \in 2..n |-> received[i].time - received[i - 1].time]
    OBVIOUS
  <2>5. Receptions' = {D[i] : i \in 2..(n + 1)}
    BY <2>1, <2>3
  <2>6. Receptions = {E[i] : i \in 2..n}
    BY <2>2, <2>4
  <2>7. \A i \in 2..n : i \in 2..(n + 1) /\ D[i] = E[i]
    BY <1>4, <1>5, <2>3, <2>4
  <2>8. D[n + 1] = row.time - received[n].time
    <3>1. n + 1 \in 2..(n + 1)
      BY <1>2
    <3> QED BY <1>2, <1>4, <1>5, <2>3, <3>1
  <2>9. {D[i] : i \in 2..n \union {n + 1}} =
            {E[i] : i \in 2..n} \union {D[n + 1]}
    BY <2>7, ImageGrows
  <2> QED BY <1>4, <2>5, <2>6, <2>8, <2>9, Zenon
<1>7. Publications' = Publications \union {row.stamp - received[n].stamp}
  <2>1. Publications' = {received'[i].stamp - received'[i - 1].stamp :
                           i \in 2..(n + 1)}
    BY <1>2 DEF Publications
  <2>2. Publications =
            {received[i].stamp - received[i - 1].stamp : i \in 2..n}
    BY <1>1 DEF Publications
  <2>3. PICK D : D = [i \in 2..(n + 1) |->
                       received'[i].stamp - received'[i - 1].stamp]
    OBVIOUS
  <2>4. PICK E : E = [i \in 2..n |-> received[i].stamp - received[i - 1].stamp]
    OBVIOUS
  <2>5. Publications' = {D[i] : i \in 2..(n + 1)}
    BY <2>1, <2>3
  <2>6. Publications = {E[i] : i \in 2..n}
    BY <2>2, <2>4
  <2>7. \A i \in 2..n : i \in 2..(n + 1) /\ D[i] = E[i]
    BY <1>4, <1>5, <2>3, <2>4
  <2>8. D[n + 1] = row.stamp - received[n].stamp
    <3>1. n + 1 \in 2..(n + 1)
      BY <1>2
    <3> QED BY <1>2, <1>4, <1>5, <2>3, <3>1
  <2>9. {D[i] : i \in 2..n \union {n + 1}} =
            {E[i] : i \in 2..n} \union {D[n + 1]}
    BY <2>7, ImageGrows
  <2> QED BY <1>4, <2>5, <2>6, <2>8, <2>9, Zenon
<1>8. Ages' = Ages \union {row.time - row.stamp}
  <2>1. Ages' = {received'[i].time - received'[i].stamp : i \in 2..(n + 1)}
    BY <1>2 DEF Ages
  <2>2. Ages = {received[i].time - received[i].stamp : i \in 2..n}
    BY <1>1 DEF Ages
  <2> QED BY <1>2, <1>4, <1>5, <2>1, <2>2
<1>9. \A i \in 2..n : /\ received[i].time - received[i - 1].time \in Int
                      /\ received[i].stamp - received[i - 1].stamp \in Int
                      /\ received[i].time - received[i].stamp \in Int
  <2> TAKE i \in 2..n
  <2>1. /\ received[i].time \in Int /\ received[i - 1].time \in Int
        /\ received[i].stamp \in Int /\ received[i - 1].stamp \in Int
    <3>1. i \in 1..n /\ i - 1 \in 1..n
      BY <1>4
    <3> QED BY <1>3, <3>1
  <2> QED BY <2>1
<1>10. /\ Receptions \subseteq Int /\ Publications \subseteq Int
       /\ Ages \subseteq Int
  BY <1>1, <1>9 DEF Receptions, Publications, Ages
<1> QED BY <1>1, <1>2, <1>6, <1>7, <1>8, <1>10 DEF row

LEMMA CountedPeriods ==
    ASSUME StatsInv, NEW s \in Sender, NEW h \in Nat, CountedBy(s, h)
    PROVE  PeriodsKept'
<1> DEFINE row == Row(s)
           P == topicStats.publication
           R == topicStats.reception
           A == topicStats.age
<1>1. PICK n \in Nat : n = Len(received)
  BY DEF CountedBy
<1>2. /\ DOMAIN received = 1..n /\ Len(received') = n + 1
      /\ DOMAIN received' = 1..(n + 1)
      /\ received'[n + 1] = row /\ row.time = clock /\ row.sender = s
      /\ row.stamp \in Nat /\ row.stamp <= clock + Skew[s]
      /\ \A i \in 1..n : received'[i] = received[i] /\ received[i] \in Counted
  BY <1>1 DEF CountedBy
<1>3. P \in Samples /\ R \in Samples /\ A \in Samples
  BY DEF StatsInv, PeriodsKept
<1>4. /\ Skew[s] \in Nat /\ MaxClock + Skew[s] < Modulus
      /\ MaxClock < Modulus /\ MaxClock \in Nat /\ Modulus \in Nat
      /\ clock \in 1..MaxClock
  BY StatsAssumption DEF StatsInv, StatsTypes
<1>5. CASE n = 0
  <2>1. /\ topicStats'.publication = NoSample /\ topicStats'.age = NoSample
        /\ topicStats'.reception = NoSample
    BY <1>1, <1>5, UpdatedIs DEF StatsInv, PeriodsKept
  <2>2. 2..Len(received') = {}
    BY <1>2, <1>5
  <2>3. Receptions' = {} /\ Publications' = {} /\ Ages' = {}
    BY <2>2 DEF Receptions, Publications, Ages
  <2>4. Len(received') - 1 = 0 /\ Len(received') # 0
    BY <1>2, <1>5
  <2>5. NoSample.count = 0 /\ NoSample \in Samples
    BY NoSampleIs
  <2>6. Measures(NoSample, {}, 0)
    BY <2>5 DEF Measures
  <2>7. /\ Measures(topicStats.reception, Receptions, Len(received) - 1)'
        /\ Measures(topicStats.publication, Publications, Len(received) - 1)'
        /\ Measures(topicStats.age, Ages, Len(received) - 1)'
    BY <2>1, <2>3, <2>4, <2>6
  <2> QED BY <2>1, <2>4, <2>5, <2>7 DEF PeriodsKept
<1>6. CASE n > 0
  <2> DEFINE last == received[n]
  <2>1. /\ last \in Counted /\ n \in DOMAIN received
        /\ last.time \in 1..clock /\ last.stamp \in Nat
    <3>1. n \in 1..n
      BY <1>6
    <3>2. last \in Counted /\ n \in DOMAIN received
      BY <1>2, <3>1
    <3>3. last.time \in 1..clock
      BY <3>2 DEF StatsInv, TimesKept
    <3> QED BY <3>2, <3>3 DEF Counted
  <2>2. /\ topicStats'.publication = Update(P, Unsigned(row.stamp - last.stamp))
        /\ topicStats'.reception = Update(R, Unsigned(clock - last.time))
        /\ topicStats'.age = Update(A, Unsigned(clock - row.stamp))
    BY <1>1, <1>6, UpdatedIs
  <2>3. /\ Receptions' = Receptions \union {clock - last.time}
        /\ Publications' = Publications \union {row.stamp - last.stamp}
        /\ Ages' = Ages \union {clock - row.stamp}
        /\ Receptions \in SUBSET Int /\ Publications \in SUBSET Int
        /\ Ages \in SUBSET Int
    BY <1>1, <1>6, SamplesGrow
  <2> HIDE DEF P, R, A, last, row
  <2>4. /\ clock - last.time \in Int /\ row.stamp - last.stamp \in Int
        /\ clock - row.stamp \in Int
    BY <1>2, <1>4, <2>1
  <2>5. /\ topicStats'.publication \in Samples /\ topicStats'.age \in Samples
        /\ topicStats'.reception \in Samples
    BY <1>3, <2>2, <2>4, UpdateType
  <2>6. /\ n - 1 \in Nat /\ Len(received') - 1 = (n - 1) + 1
        /\ Len(received') # 0
    BY <1>2, <1>6
  <2>7. Measures(R, Receptions, n - 1)
    BY <1>1, <1>6 DEF StatsInv, PeriodsKept, R
  <2>8. Measures(topicStats'.reception, Receptions', Len(received') - 1)
    <3>1. 0 <= clock - last.time /\ clock - last.time < Modulus
      BY <1>4, <2>1
    <3>2. /\ Unsigned(clock - last.time) = clock - last.time
          /\ clock - last.time \in 0..(Modulus - 1)
      BY <2>4, <3>1, <1>4, UnsignedIs
    <3>3. Measures(Update(R, clock - last.time),
                   Receptions \union {clock - last.time}, (n - 1) + 1)
      BY <2>3, <2>6, <2>7, <3>2, MeasuresUpdate
    <3> QED BY <2>2, <2>3, <2>6, <3>2, <3>3
  <2>9. ASSUME \A i, j \in DOMAIN received' :
                  received'[i].sender = received'[j].sender
        PROVE  Measures(topicStats'.publication, Publications',
                        Len(received') - 1)
    <3>1. \A i \in 1..n : received[i].sender = s
      <4> TAKE i \in 1..n
      <4>1. /\ i \in DOMAIN received' /\ n + 1 \in DOMAIN received'
            /\ received'[i] = received[i]
        BY <1>2
      <4> QED BY <1>2, <2>9, <4>1
    <3>2. Measures(P, Publications, n - 1)
      <4>1. \A i, j \in DOMAIN received :
                received[i].sender = received[j].sender
        BY <1>2, <3>1
      <4> QED BY <1>1, <1>6, <4>1 DEF StatsInv, PeriodsKept, P
    <3>3. last.stamp <= row.stamp
      <4>1. n \in DOMAIN received /\ last.sender = s
        BY <2>1, <3>1, <1>2 DEF last
      <4>2. \A k \in DOMAIN net[s] : last.stamp <= net[s][k].stamp
        BY <4>1 DEF StatsInv, TimesKept, last
      <4>3. 1 \in DOMAIN net[s] /\ row.stamp = net[s][1].stamp
        BY DEF CountedBy, Gone, row
      <4> QED BY <4>2, <4>3
    <3>4. 0 <= row.stamp - last.stamp /\ row.stamp - last.stamp < Modulus
      BY <1>2, <1>4, <2>1, <3>3
    <3>5. /\ Unsigned(row.stamp - last.stamp) = row.stamp - last.stamp
          /\ row.stamp - last.stamp \in 0..(Modulus - 1)
      BY <2>4, <3>4, <1>4, UnsignedIs
    <3>6. Measures(Update(P, row.stamp - last.stamp),
                   Publications \union {row.stamp - last.stamp}, (n - 1) + 1)
      BY <2>3, <2>6, <3>2, <3>5, MeasuresUpdate
    <3> QED BY <2>2, <2>3, <2>6, <3>5, <3>6
  <2>10. ASSUME \A i \in DOMAIN received' : Skew[received'[i].sender] = 0
         PROVE  Measures(topicStats'.age, Ages', Len(received') - 1)
    <3>1. Skew[s] = 0 /\ \A i \in DOMAIN received : Skew[received[i].sender] = 0
      <4>1. n + 1 \in DOMAIN received' /\ received'[n + 1].sender = s
        BY <1>2
      <4>2. Skew[s] = 0
        BY <2>10, <4>1
      <4>3. \A i \in DOMAIN received :
                i \in DOMAIN received' /\ received'[i] = received[i]
        BY <1>2
      <4> QED BY <2>10, <4>2, <4>3
    <3>2. Measures(A, Ages, n - 1)
      BY <1>1, <1>6, <3>1 DEF StatsInv, PeriodsKept, A
    <3>3. 0 <= clock - row.stamp /\ clock - row.stamp < Modulus
      BY <1>2, <1>4, <3>1
    <3>4. /\ Unsigned(clock - row.stamp) = clock - row.stamp
          /\ clock - row.stamp \in 0..(Modulus - 1)
      BY <2>4, <3>3, <1>4, UnsignedIs
    <3>5. Measures(Update(A, clock - row.stamp),
                   Ages \union {clock - row.stamp}, (n - 1) + 1)
      BY <2>3, <2>6, <3>2, <3>4, MeasuresUpdate
    <3> QED BY <2>2, <2>3, <2>6, <3>4, <3>5
  <2> QED BY <2>5, <2>6, <2>8, <2>9, <2>10 DEF PeriodsKept
<1> QED BY <1>5, <1>6

AllGaps == {gap \in Sender \X (1..MaxSeq) : gap[2] \in Gaps(gap[1])}
Senders == {received[i].sender : i \in DOMAIN received}

LEMMA GapsIs ==
    ASSUME StatsInv
    PROVE  /\ IsFiniteSet(AllGaps) /\ Cardinality(AllGaps) \in Nat
           /\ IsFiniteSet(Newcomers) /\ Cardinality(Newcomers) \in Nat
           /\ Newcomers = {s \in Senders \ {received[1].sender} :
                              Min(CountedOf(s)) # 2}
           /\ Senders \subseteq Sender
           /\ \A s \in Sender : s \in Senders <=> Heard(s)
<1>1. IsFiniteSet(AllGaps) /\ Cardinality(AllGaps) \in Nat
  <2>1. IsFiniteSet(1..MaxSeq) /\ IsFiniteSet(Sender)
    <3>1. MaxSeq \in Int
      BY StatsAssumption
    <3> QED BY <3>1, FS_Interval, StatsAssumption
  <2>2. IsFiniteSet(Sender \X (1..MaxSeq))
    BY <2>1, FS_Product
  <2>3. AllGaps \in SUBSET (Sender \X (1..MaxSeq))
    BY DEF AllGaps
  <2> QED BY <2>2, <2>3, FS_Subset, FS_CardinalityType
<1>2. Newcomers = {s \in Senders \ {received[1].sender} :
                              Min(CountedOf(s)) # 2}
  BY DEF Newcomers, Senders, CountedOf
<1>3. Senders \subseteq Sender
  <2>1. \A i \in DOMAIN received : received[i] \in Counted
    BY DEF StatsInv, StatsTypes
  <2> QED BY <2>1 DEF Senders, Counted
<1>4. IsFiniteSet(Newcomers) /\ Cardinality(Newcomers) \in Nat
  <2>1. Newcomers \in SUBSET Sender /\ IsFiniteSet(Sender)
    BY <1>2, <1>3, StatsAssumption
  <2> QED BY <2>1, FS_Subset, FS_CardinalityType
<1>5. \A s \in Sender : s \in Senders <=> Heard(s)
  BY DEF Senders, Heard
<1> QED BY <1>1, <1>2, <1>3, <1>4, <1>5

\* The gaps of a process once its message h is counted.
LEMMA GapsGrow ==
    ASSUME StatsInv, NEW s \in Sender, NEW h \in Nat, CountedBy(s, h)
    PROVE  /\ \A r \in Sender \ {s} : Gaps(r)' = Gaps(r)
           /\ Gaps(s)' = Gaps(s) \union
                  (IF Heard(s) /\ topicStats.seq[s] + 1 # h - 1 THEN {h}
                   ELSE {})
           /\ h \notin Gaps(s) /\ h \in 1..MaxSeq
<1>1. /\ Gone(s, "counted", h)
      /\ \A i \in CountedOf(s) : i < h /\ i \in Nat /\ i >= 1
      /\ CountedOf(s)' = CountedOf(s) \union {h}
  BY CountedOfIs DEF CountedBy
<1>2. \A r \in Sender \ {s} : Gaps(r)' = Gaps(r)
  BY <1>1 DEF Gone, Gaps
<1>3. /\ Len(fate[s]) \in Nat /\ DOMAIN fate[s] = 1..Len(fate[s])
      /\ DOMAIN fate'[s] = DOMAIN fate[s] /\ fate'[s][h] = "counted"
      /\ \A i \in DOMAIN fate[s] \ {h} : fate'[s][i] = fate[s][i]
      /\ h \in DOMAIN fate[s] /\ h \in 1..MaxSeq /\ h >= 1
  BY <1>1 DEF StatsInv, StatsTypes, Gone
<1>4. h \notin Gaps(s)
  <2>1. Gaps(s) \subseteq CountedOf(s)
    BY DEF Gaps, CountedOf
  <2> QED BY <1>1, <2>1
<1>5. \A i : i \in Gaps(s) <=>
             /\ i \in CountedOf(s)
             /\ i > 1 /\ fate[s][i - 1] # "counted"
             /\ \E j \in 1..(i - 1) : fate[s][j] = "counted"
  BY DEF Gaps, CountedOf
<1>6. \A i : i \in Gaps(s)' <=>
             /\ i \in CountedOf(s)'
             /\ i > 1 /\ fate'[s][i - 1] # "counted"
             /\ \E j \in 1..(i - 1) : fate'[s][j] = "counted"
  BY DEF Gaps, CountedOf
<1>7. ASSUME NEW i, i # h PROVE i \in Gaps(s)' <=> i \in Gaps(s)
  <2>1. CASE i \in CountedOf(s)
    <3>1. \A j \in 1..(i - 1) : fate'[s][j] = fate[s][j]
      <4> TAKE j \in 1..(i - 1)
      <4>1. i < h /\ i \in DOMAIN fate[s] /\ i \in Nat
        BY <1>1, <2>1 DEF CountedOf
      <4>2. j \in DOMAIN fate[s] \ {h}
        BY <1>3, <4>1
      <4> QED BY <1>3, <4>2
    <3>2. i > 1 => i - 1 \in 1..(i - 1)
      BY <1>1, <2>1
    <3>3. i \in CountedOf(s)'
      BY <1>1, <2>1
    <3> QED BY <1>5, <1>6, <2>1, <3>1, <3>2, <3>3
  <2>2. CASE i \notin CountedOf(s)
    <3>1. i \notin CountedOf(s)'
      BY <1>1, <1>7, <2>2
    <3> QED BY <1>5, <1>6, <2>2, <3>1
  <2> QED BY <2>1, <2>2
<1>8. h \in Gaps(s)' <=> Heard(s) /\ topicStats.seq[s] + 1 # h - 1
  <2>1. \A j \in 1..(h - 1) : fate'[s][j] = fate[s][j] /\ j \in DOMAIN fate[s]
    <3> TAKE j \in 1..(h - 1)
    <3>1. j \in DOMAIN fate[s] \ {h}
      BY <1>3
    <3> QED BY <1>3, <3>1
  <2>2. h \in Gaps(s)' <=>
            /\ h > 1 /\ fate[s][h - 1] # "counted"
            /\ \E j \in 1..(h - 1) : fate[s][j] = "counted"
    <3>1. h \in CountedOf(s)'
      BY <1>1
    <3>2. h > 1 => h - 1 \in 1..(h - 1)
      BY <1>3
    <3> QED BY <1>6, <2>1, <3>1, <3>2
  <2>3. (\E j \in 1..(h - 1) : fate[s][j] = "counted") <=> Heard(s)
    <3>1. ASSUME NEW j \in 1..(h - 1), fate[s][j] = "counted"
          PROVE  Heard(s)
      <4>1. j \in CountedOf(s)
        BY <2>1, <3>1 DEF CountedOf
      <4> QED BY <4>1 DEF StatsInv, LastKept
    <3>2. ASSUME Heard(s)
          PROVE  \E j \in 1..(h - 1) : fate[s][j] = "counted"
      <4>1. PICK j \in CountedOf(s) : TRUE
        BY <3>2 DEF StatsInv, LastKept
      <4>2. j \in 1..(h - 1)
        BY <1>1, <1>3, <4>1
      <4> QED BY <4>1, <4>2 DEF CountedOf
    <3> QED BY <3>1, <3>2
  <2>4. ASSUME Heard(s)
        PROVE  h > 1 /\ (fate[s][h - 1] = "counted" <=>
                            topicStats.seq[s] + 1 = h - 1)
    <3>1. /\ topicStats.seq[s] + 1 \in CountedOf(s)
          /\ \A i \in CountedOf(s) : i <= topicStats.seq[s] + 1
      BY <2>4 DEF StatsInv, LastKept
    <3>2. topicStats.seq[s] + 1 < h /\ topicStats.seq[s] + 1 \in Nat
          /\ topicStats.seq[s] + 1 >= 1
      BY <1>1, <3>1
    <3>3. h > 1 /\ h - 1 \in DOMAIN fate[s]
      BY <1>3, <3>2
    <3>4. fate[s][h - 1] = "counted" <=> h - 1 \in CountedOf(s)
      BY <3>3 DEF CountedOf
    <3>5. h - 1 \in CountedOf(s) => topicStats.seq[s] + 1 = h - 1
      <4>1. h - 1 \in CountedOf(s) => h - 1 <= topicStats.seq[s] + 1
        BY <3>1
      <4> QED BY <3>2, <4>1
    <3>6. topicStats.seq[s] + 1 = h - 1 => h - 1 \in CountedOf(s)
      BY <3>1
    <3> QED BY <3>3, <3>4, <3>5, <3>6
  <2> QED BY <2>2, <2>3, <2>4
<1>9. Gaps(s)' = Gaps(s) \union
                  (IF Heard(s) /\ topicStats.seq[s] + 1 # h - 1 THEN {h}
                   ELSE {})
  <2> DEFINE T == IF Heard(s) /\ topicStats.seq[s] + 1 # h - 1 THEN {h}
                  ELSE {}
  <2>1. \A i : i \in T <=> i = h /\ Heard(s) /\ topicStats.seq[s] + 1 # h - 1
    OBVIOUS
  <2> HIDE DEF T
  <2>2. \A i : i \in Gaps(s)' <=> i \in Gaps(s) \/ i \in T
    BY <1>4, <1>7, <1>8, <2>1
  <2>3. Gaps(s)' = Gaps(s) \union T
    BY <2>2
  <2> QED BY <2>3 DEF T
<1> QED BY <1>2, <1>3, <1>4, <1>9

LEMMA CountedGaps ==
    ASSUME StatsInv, NEW s \in Sender, NEW h \in Nat, CountedBy(s, h)
    PROVE  GapsCounted'
<1> DEFINE new == Heard(s) /\ topicStats.seq[s] + 1 # h - 1
           late == ~ Heard(s) /\ received # <<>> /\ h # 2
           D == topicStats.droppedMsgCount
<1>1. /\ received' # <<>> /\ DOMAIN received = 1..Len(received)
      /\ Len(received) \in Nat /\ received \in Seq(Counted)
      /\ (received = <<>> <=> Len(received) = 0) /\ D \in Nat
      /\ 1 \in DOMAIN received'
      /\ received # <<>> => received'[1] = received[1] /\ 1 \in DOMAIN received
      /\ received = <<>> => received'[1].sender = s
  <2>1. received \in Seq(Counted) /\ D \in Nat
    BY DEF StatsInv, StatsTypes
  <2>2. received = <<>> <=> Len(received) = 0
    <3> HIDE DEF Counted
    <3> QED BY <2>1, NoneLong
  <2>3. /\ DOMAIN received = 1..Len(received) /\ Len(received) \in Nat
        /\ DOMAIN received' = 1..(Len(received) + 1)
        /\ received'[Len(received) + 1].sender = s
        /\ \A k \in DOMAIN received : received'[k] = received[k]
        /\ received' # <<>>
    BY DEF CountedBy
  <2>4. received # <<>> => 1 \in DOMAIN received
    BY <2>2, <2>3
  <2>5. received = <<>> => Len(received) + 1 = 1
    BY <2>2
  <2> QED BY <2>1, <2>2, <2>3, <2>4, <2>5
<1>2. /\ \A r \in Sender \ {s} : Gaps(r)' = Gaps(r)
      /\ Gaps(s)' = Gaps(s) \union (IF new THEN {h} ELSE {})
      /\ h \notin Gaps(s) /\ h \in 1..MaxSeq
  BY GapsGrow
<1>3. /\ CountedOf(s)' = CountedOf(s) \union {h}
      /\ \A r \in Sender \ {s} : CountedOf(r)' = CountedOf(r)
      /\ \A i \in CountedOf(s) : i < h /\ i \in Nat /\ i >= 1
      /\ CountedOf(s) \in SUBSET Nat /\ IsFiniteSet(CountedOf(s))
  BY CountedOfIs
<1>4. /\ IsFiniteSet(AllGaps) /\ Cardinality(AllGaps) \in Nat
      /\ IsFiniteSet(Newcomers) /\ Cardinality(Newcomers) \in Nat
      /\ Newcomers = {r \in Senders \ {received[1].sender} :
                         Min(CountedOf(r)) # 2}
      /\ Senders \subseteq Sender /\ (s \in Senders <=> Heard(s))
  BY GapsIs
<1>5. Cardinality(AllGaps') = Cardinality(AllGaps) + (IF new THEN 1 ELSE 0)
  <2> HIDE DEF new
  <2>1. AllGaps' = AllGaps \union (IF new THEN {<<s, h>>} ELSE {})
    <3>1. AllGaps' = {gap \in Sender \X (1..MaxSeq) :
                          gap[2] \in Gaps(gap[1])'}
      BY DEF AllGaps
    <3>2. ASSUME NEW r \in Sender, NEW i \in 1..MaxSeq
          PROVE  <<r, i>> \in AllGaps' <=>
                    <<r, i>> \in AllGaps \/ (new /\ r = s /\ i = h)
      <4>1. <<r, i>> \in AllGaps' <=> i \in Gaps(r)'
        BY <3>1
      <4>2. <<r, i>> \in AllGaps <=> i \in Gaps(r)
        BY DEF AllGaps
      <4>3. CASE r = s
        BY <1>2, <4>1, <4>2, <4>3
      <4>4. CASE r # s
        BY <1>2, <4>1, <4>2, <4>4
      <4> QED BY <4>3, <4>4
    <3>3. /\ AllGaps' \subseteq Sender \X (1..MaxSeq)
          /\ AllGaps \subseteq Sender \X (1..MaxSeq)
      BY <3>1 DEF AllGaps
    <3>4. \A p \in Sender \X (1..MaxSeq) :
              p \in AllGaps' <=> p \in AllGaps \/ (new /\ p = <<s, h>>)
      BY <3>2
    <3>5. <<s, h>> \in Sender \X (1..MaxSeq)
      BY <1>2
    <3>6. CASE new
      BY <3>3, <3>4, <3>5, <3>6
    <3>7. CASE ~ new
      BY <3>3, <3>4, <3>7
    <3> QED BY <3>6, <3>7
  <2>2. <<s, h>> \notin AllGaps
    BY <1>2 DEF AllGaps
  <2>3. CASE new
    BY <1>4, <2>1, <2>2, <2>3, FS_AddElement
  <2>4. CASE ~ new
    BY <1>4, <2>1, <2>4
  <2> QED BY <2>3, <2>4
<1>6. Senders' = Senders \union {s}
  <2>1. /\ Row(s).sender = s
        /\ \A k \in DOMAIN received :
              received'[k] = received[k] /\ k \in DOMAIN received'
        /\ Len(received) + 1 \in DOMAIN received'
        /\ received'[Len(received) + 1] = Row(s)
        /\ \A k \in DOMAIN received' :
              k \in DOMAIN received \/ k = Len(received) + 1
    BY DEF CountedBy
  <2>2. \A r : r \in Senders' <=> r \in Senders \/ r = s
    BY <2>1 DEF Senders
  <2> QED BY <2>2
<1>7. Newcomers' = {r \in Senders' \ {received'[1].sender} :
                        Min(CountedOf(r)') # 2}
  BY DEF Newcomers, Senders, CountedOf
<1>8. CASE received = <<>>
  <2>1. ~ Heard(s) /\ ~ new
    BY <1>1, <1>8 DEF Heard
  <2>2. Newcomers' = {}
    <3>1. Senders = {}
      BY <1>1, <1>8 DEF Senders
    <3> QED BY <1>1, <1>6, <1>7, <1>8, <3>1
  <2>3. D = 0
    BY <1>8 DEF StatsInv, GapsCounted
  <2>4. topicStats'.droppedMsgCount = 0
    BY <1>1, <1>8, <2>3, UpdatedIs
  <2>5. AllGaps = {}
    <3>1. \A r \in Sender : ~ Heard(r)
      BY <1>1, <1>8 DEF Heard
    <3>2. \A r \in Sender : CountedOf(r) = {}
      BY <3>1 DEF StatsInv, LastKept
    <3>3. \A r \in Sender : Gaps(r) = {}
      BY <3>2 DEF Gaps, CountedOf
    <3> QED BY <3>3 DEF AllGaps
  <2>6. Cardinality(AllGaps') = 0 /\ Cardinality(Newcomers') = 0
    <3>1. Cardinality({}) = 0
      BY FS_EmptySet
    <3>2. Cardinality(AllGaps') = 0 + 0
      BY <1>5, <2>1, <2>5, <3>1
    <3> QED BY <2>2, <3>1, <3>2
  <2> QED BY <1>1, <2>4, <2>6 DEF GapsCounted, AllGaps
<1>9. CASE received # <<>>
  <2>1. /\ D = Cardinality(AllGaps) + Cardinality(Newcomers)
        /\ topicStats'.droppedMsgCount =
              D + (IF topicStats.seq[s] + 1 = h - 1 THEN 0 ELSE 1)
        /\ Heard(received[1].sender) /\ received'[1] = received[1]
    <3>1. Len(received) > 0
      BY <1>1, <1>9
    <3>2. Heard(received[1].sender)
      BY <1>1, <1>9 DEF Heard
    <3>3. D = Cardinality(AllGaps) + Cardinality(Newcomers)
      BY <1>9 DEF StatsInv, GapsCounted, AllGaps
    <3> QED BY <1>1, <1>9, <3>1, <3>2, <3>3, UpdatedIs
  <2>2. \A r \in Sender \ {s} :
            r \in Newcomers' <=> r \in Newcomers
    BY <1>3, <1>4, <1>6, <1>7, <2>1
  <2>3. s \in Newcomers' <=> s \in Newcomers \/ late
    <3>1. CASE Heard(s)
      <4>1. CountedOf(s) # {}
        BY <3>1 DEF StatsInv, LastKept
      <4>2. Min(CountedOf(s) \union {h}) = Min(CountedOf(s))
        <5> DEFINE S == CountedOf(s)
        <5>1. S \in SUBSET Int /\ S # {} /\ IsFiniteSet(S)
          BY <1>3, <4>1
        <5> HIDE DEF S
        <5>2. PICK m \in S : \A y \in S : m <= y
          BY <5>1, LeastOfFinite
        <5>3. Min(S) = m
          BY <5>1, <5>2, MinIs
        <5>4. m < h /\ m \in Int /\ S \union {h} \in SUBSET Int
          BY <1>3, <5>1, <5>2 DEF S
        <5>5. \A y \in S \union {h} : m <= y
          BY <5>2, <5>4
        <5>6. Min(S \union {h}) = m
          BY <5>2, <5>4, <5>5, MinIs
        <5> QED BY <5>3, <5>6 DEF S
      <4>3. Min(CountedOf(s)') = Min(CountedOf(s))
        BY <1>3, <4>2
      <4> QED BY <1>4, <1>6, <1>7, <2>1, <3>1, <4>3
    <3>2. CASE ~ Heard(s)
      <4>1. CountedOf(s)' = {h}
        BY <1>3, <3>2 DEF StatsInv, LastKept
      <4>2. Min({h}) = h
        BY MinIs
      <4>3. s # received[1].sender /\ s \notin Newcomers
        BY <1>4, <2>1, <3>2
      <4> QED BY <1>6, <1>7, <1>9, <2>1, <3>2, <4>1, <4>2, <4>3
    <3> QED BY <3>1, <3>2
  <2>4. late => s \notin Newcomers
    BY <1>4
  <2>5. Newcomers' = Newcomers \union (IF late THEN {s} ELSE {})
    <3>1. Newcomers \subseteq Sender /\ Newcomers' \subseteq Sender
      BY <1>4, <1>6, <1>7
    <3> HIDE DEF late
    <3>2. \A r \in Sender : r \in Newcomers' <=> r \in Newcomers \/ (late /\ r = s)
      BY <2>2, <2>3
    <3>3. CASE late
      BY <3>1, <3>2, <3>3
    <3>4. CASE ~ late
      BY <3>1, <3>2, <3>4
    <3> QED BY <3>3, <3>4
  <2>6. Cardinality(Newcomers') = Cardinality(Newcomers) + (IF late THEN 1 ELSE 0)
    <3> HIDE DEF late
    <3>1. CASE late
      BY <1>4, <2>4, <2>5, <3>1, FS_AddElement
    <3>2. CASE ~ late
      BY <1>4, <2>5, <3>2
    <3> QED BY <3>1, <3>2
  <2>7. (IF topicStats.seq[s] + 1 = h - 1 THEN 0 ELSE 1) =
            (IF new THEN 1 ELSE 0) + (IF late THEN 1 ELSE 0)
    <3>1. CASE Heard(s)
      BY <3>1
    <3>2. CASE ~ Heard(s)
      <4>1. topicStats.seq[s] = 0
        BY <3>2 DEF StatsInv, LastKept
      <4>2. 0 + 1 = h - 1 <=> h = 2
        OBVIOUS
      <4> QED BY <1>9, <3>2, <4>1, <4>2
    <3> QED BY <3>1, <3>2
  <2>8. topicStats'.droppedMsgCount
            = Cardinality(AllGaps') + Cardinality(Newcomers')
    <3> DEFINE a == IF new THEN 1 ELSE 0
               b == IF late THEN 1 ELSE 0
               x == IF topicStats.seq[s] + 1 = h - 1 THEN 0 ELSE 1
    <3>1. a \in Nat /\ b \in Nat /\ x = a + b
      BY <2>7
    <3>2. /\ topicStats'.droppedMsgCount = D + x
          /\ Cardinality(AllGaps') = Cardinality(AllGaps) + a
          /\ Cardinality(Newcomers') = Cardinality(Newcomers) + b
          /\ D = Cardinality(AllGaps) + Cardinality(Newcomers)
      BY <1>5, <2>1, <2>6
    <3> HIDE DEF a, b, x, D
    <3> QED BY <1>4, <3>1, <3>2
  <2> QED BY <1>1, <2>8 DEF GapsCounted, AllGaps
<1> QED BY <1>8, <1>9

LEMMA StatsInvStep == StatsInv /\ [StatsNext]_statsvars => StatsInv'
<1> SUFFICES ASSUME StatsInv, [StatsNext]_statsvars PROVE StatsInv'
  OBVIOUS
<1>1. clock \in 1..MaxClock /\ enabled \in BOOLEAN
  BY DEF StatsInv, StatsTypes
<1>2. CASE UNCHANGED statsvars
  <2>1. /\ UNCHANGED <<topicPubSeq, net, fate, topicStats, received>>
        /\ clock' = clock /\ enabled' = enabled
    BY <1>2 DEF statsvars
  <2> QED BY <1>1, <2>1, StatsStutter
<1>3. CASE ClockTick
  <2>1. /\ UNCHANGED <<topicPubSeq, net, fate, topicStats, received>>
        /\ clock' = clock + 1 /\ enabled' = enabled /\ clock < MaxClock
    BY <1>3 DEF ClockTick
  <2>2. clock' <= MaxClock
    BY <1>1, <2>1, StatsAssumption
  <2> QED BY <1>1, <2>1, <2>2, StatsStutter
<1>4. ASSUME NEW enable \in BOOLEAN, EnableStats(enable) PROVE StatsInv'
  <2>1. /\ UNCHANGED <<topicPubSeq, net, fate, topicStats, received>>
        /\ clock' = clock /\ enabled' = enable
    BY <1>4 DEF EnableStats
  <2> QED BY <1>1, <2>1, StatsStutter
<1>5. ASSUME NEW s \in Sender, LoseMessage(s) PROVE StatsInv'
  <2>1. /\ Leave(s, "lost") /\ "lost" \in {"lost", "missed"}
        /\ UNCHANGED <<clock, topicPubSeq, enabled, topicStats, received>>
    BY <1>5 DEF LoseMessage
  <2> QED BY <2>1, PassInv, Zenon
<1>6. ASSUME NEW s \in Sender, RecvMsgUpdate(s) PROVE StatsInv'
  <2>1. CASE enabled
    <3>1. PICK h \in Nat : CountedBy(s, h)
      BY <1>6, <2>1, CountedIs
    <3>2. SeqNumbered' /\ OrderKept'
      BY <3>1 DEF CountedBy, Gone
    <3> QED BY <3>1, <3>2, CountedKept, CountedTimes, CountedPeriods,
               CountedGaps DEF StatsInv
  <2>2. CASE ~ enabled
    <3>1. /\ Leave(s, "missed") /\ "missed" \in {"lost", "missed"}
          /\ UNCHANGED <<clock, topicPubSeq, enabled, topicStats, received>>
      BY <1>6, <2>2 DEF RecvMsgUpdate
    <3> QED BY <3>1, PassInv, Zenon
  <2> QED BY <2>1, <2>2
<1>7. ASSUME NEW s \in Sender, PublishStamped(s) PROVE StatsInv'
  BY <1>7, PublishStampedInv
<1> QED BY <1>2, <1>3, <1>4, <1>5, <1>6, <1>7 DEF StatsNext

LEMMA StatsInvAgrees == StatsInv => StatsAgree
<1> SUFFICES ASSUME StatsInv PROVE PeriodsAgree
  BY DEF StatsInv, StatsAgree
<1>1. /\ received \in Seq(Counted) /\ Len(received) \in Nat
      /\ DOMAIN received = 1..Len(received)
  BY DEF StatsInv, StatsTypes
<1>2. SUFFICES ASSUME 2..Len(received) # {}
               PROVE  /\ Agrees(topicStats.reception, Receptions)
                      /\ Cardinality(Senders) = 1 =>
                            Agrees(topicStats.publication, Publications)
                      /\ (\A s \in Senders : Skew[s] = 0) =>
                            Agrees(topicStats.age, Ages)
  BY DEF PeriodsAgree, Receptions, Publications, Ages, Senders
<1>3. Len(received) > 1
  BY <1>1, <1>2
<1>4. \A i \in 2..Len(received) :
          /\ received[i].time - received[i - 1].time \in Int
          /\ received[i].stamp - received[i - 1].stamp \in Int
          /\ received[i].time - received[i].stamp \in Int
  <2>1. \A i \in DOMAIN received : received[i] \in Counted
    BY <1>1
  <2>2. \A i \in DOMAIN received :
            received[i].time \in Int /\ received[i].stamp \in Int
    BY <2>1 DEF Counted
  <2> TAKE i \in 2..Len(received)
  <2>3. i \in DOMAIN received /\ i - 1 \in DOMAIN received
    BY <1>1
  <2>4. /\ received[i].time \in Int /\ received[i - 1].time \in Int
        /\ received[i].stamp \in Int /\ received[i - 1].stamp \in Int
    BY <2>2, <2>3
  <2> QED BY <2>4
<1>5. /\ Receptions \in SUBSET Int /\ Publications \in SUBSET Int
      /\ Ages \in SUBSET Int
  BY <1>4 DEF Receptions, Publications, Ages
<1>6. ASSUME NEW statistics, NEW S \in SUBSET Int,
             Measures(statistics, S, Len(received) - 1)
      PROVE  Agrees(statistics, S)
  <2>1. /\ statistics.min \in S /\ statistics.max \in S
        /\ \A x \in S : statistics.min <= x /\ x <= statistics.max
        /\ statistics.count = Len(received) - 1
    BY <1>1, <1>3, <1>6 DEF Measures
  <2>2. \A x \in S : statistics.max >= x
    BY <1>6, <2>1
  <2>3. statistics.min = Min(S) /\ statistics.max = Max(S)
    BY <1>6, <2>1, <2>2, MinIs, MaxIs
  <2> QED BY <2>1, <2>3 DEF Agrees
<1>7. Len(received) > 0
  BY <1>1, <1>3
<1>8. Agrees(topicStats.reception, Receptions)
  BY <1>5, <1>6, <1>7 DEF StatsInv, PeriodsKept
<1>9. ASSUME Cardinality(Senders) = 1
      PROVE  Agrees(topicStats.publication, Publications)
  <2>1. IsFiniteSet(Senders)
    <3>1. Senders \in SUBSET Sender
      BY GapsIs
    <3> QED BY <3>1, FS_Subset, StatsAssumption
  <2>2. PICK x : Senders = {x}
    BY <1>9, <2>1, FS_Singleton
  <2>3. \A i, j \in DOMAIN received : received[i].sender = received[j].sender
    BY <2>2 DEF Senders
  <2> QED BY <1>5, <1>6, <1>7, <2>3 DEF StatsInv, PeriodsKept
<1>10. ASSUME \A s \in Senders : Skew[s] = 0
       PROVE  Agrees(topicStats.age, Ages)
  <2>1. \A i \in DOMAIN received : Skew[received[i].sender] = 0
    BY <1>10 DEF Senders
  <2> QED BY <1>5, <1>6, <1>7, <2>1 DEF StatsInv, PeriodsKept
<1> QED BY <1>8, <1>9, <1>10

\* The drops counted are the gaps in the messages of each process, one for a
\* gap of any length, and the processes heard of after another and not from
\* their second message on.  Periods of reception are those of the messages
\* received from any processes; those of publication too while there is one
\* process, and ages while all are of this host (TopicStatistics.cc:140-168).
THEOREM StatsCorrect == StatsSpec => []StatsAgree
BY StatsInvInit, StatsInvStep, StatsInvAgrees, PTL DEF StatsSpec

(***************************************************************************)
(*                                                                         *)
(* Rates.                                                                  *)
(*                                                                         *)
(***************************************************************************)
ThreadIds == (UNION {s.users : s \in Setups})
                 \union {ReceptionThread, PublishingThread}
Messages == [from : ThreadIds, n : Nat, damaged : BOOLEAN]
Parsings == {"none", "partial", "whole"}

\* Where a thread is: publishing, with a handler to run, at a throttled one.
Publishing == [op : {"test", "stamp", "push"}, stamp : Nat, raw : BOOLEAN,
               msg : Messages]
Running == [op : {"run"}, todo : SUBSET Nat, msg : Messages,
            parsed : Parsings]
Timing == [op : {"test handler", "stamp handler"}, todo : SUBSET Nat,
           msg : Messages, parsed : Parsings, stamp : Nat]
States == {Resting} \union Publishing \union Running \union Timing

Calls == [by : RateThreads, time : Nat, msg : Messages,
          given : {"data"} \union Parsings]
Passings == [by : ThreadIds, time : Nat]

RateTypes ==
    /\ setup \in Setups
    /\ now \in Nat /\ lastCbTimestamp \in Nat
    /\ handlerTimestamp \in [Handlers -> Nat]
    /\ queue \in Seq(Messages)
    /\ at \in [RateThreads -> States]
    /\ count \in [RateThreads -> Nat]
    /\ passed \in Seq(Passings)
    /\ heard \in [Handlers -> Seq(Calls)]

\* A thread passes the publisher a period after its own message before.
PublisherKept ==
    /\ lastCbTimestamp <= now
    /\ \A j \in DOMAIN passed :
          passed[j].time <= lastCbTimestamp /\ passed[j].by \in setup.users
    /\ \A t \in RateThreads : at[t] \in Publishing =>
          at[t].stamp <= now /\ t \in setup.users
    /\ \A t \in RateThreads : at[t] \in Publishing /\ at[t].op = "stamp" =>
          \A j \in DOMAIN passed : passed[j].by = t =>
              PeriodOver(at[t].stamp - passed[j].time, setup.msgsPerSec)
    /\ \A j, k \in DOMAIN passed : j < k /\ passed[j].by = passed[k].by =>
          PeriodOver(passed[k].time - passed[j].time, setup.msgsPerSec)

RateOf(h) == setup.handlers[h].msgsPerSec
AllBy(h, t) == \A i \in DOMAIN heard[h] : heard[h][i].by = t

\* A thread that is the only one to call a handler back does so a period after
\* its own call before.
HandlersKept ==
    \A h \in Handlers : Throttled(RateOf(h)) =>
        /\ heard[h] # <<>> =>
              handlerTimestamp[h] = heard[h][Len(heard[h])].time
        /\ \A t \in RateThreads : AllBy(h, t) =>
              /\ \A i, j \in DOMAIN heard[h] : i < j =>
                    PeriodOver(heard[h][j].time - heard[h][i].time, RateOf(h))
              /\ at[t] \in Timing /\ at[t].op = "stamp handler"
                     /\ Current(t) = h =>
                    \A i \in DOMAIN heard[h] :
                        PeriodOver(at[t].stamp - heard[h][i].time, RateOf(h))

Wanting == {h \in Handlers : Suits(h) /\ ~ setup.handlers[h].raw}
Always == {h \in Wanting : ~ Throttled(RateOf(h))}

Gotten(h, m) == \E i \in DOMAIN heard[h] : heard[h][i].msg = m
Untouched(m) == \A h \in Wanting : ~ Gotten(h, m)
Shared(m, parsed) ==
    \A h \in Wanting : \A i \in DOMAIN heard[h] :
        heard[h][i].msg = m => heard[h][i].given = parsed
Issued(m) == m.from \in RateThreads /\ m.n <= count[m.from]

\* Each message is in one place.
Apart ==
    /\ \A t, u \in RateThreads :
          t # u /\ at[t] # Resting /\ at[u] # Resting => at[t].msg # at[u].msg
    /\ \A t \in RateThreads : at[t] # Resting =>
          \A i \in DOMAIN queue : queue[i] # at[t].msg
    /\ \A i, j \in DOMAIN queue : i # j => queue[i] # queue[j]
AllIssued ==
    /\ \A t \in RateThreads : at[t] # Resting => Issued(at[t].msg)
    /\ \A i \in DOMAIN queue : Issued(queue[i])
    /\ \A h \in Handlers : \A i \in DOMAIN heard[h] : Issued(heard[h][i].msg)

\* What is left to do of a message, and what was done.
Halfway(t) ==
    /\ at[t].todo # {} /\ at[t].todo \subseteq Suitable
    /\ at[t].parsed = "none" => Untouched(at[t].msg) /\ Wanting \subseteq at[t].todo
    /\ at[t].parsed # "none" =>
          \A g \in Always : g \in at[t].todo \/ Gotten(g, at[t].msg)
    /\ Shared(at[t].msg, at[t].parsed)
Underway(t) ==
    /\ at[t] \in Publishing => Untouched(at[t].msg)
    /\ at[t] \in Running => Halfway(t)
    /\ at[t] \in Timing =>
          /\ Halfway(t)
          /\ Throttled(RateOf(Current(t)))
          /\ at[t].parsed = "none" => setup.handlers[Current(t)].raw

Travels(m) ==
    \/ \E t \in RateThreads : at[t] # Resting /\ at[t].msg = m
    \/ \E i \in DOMAIN queue : queue[i] = m

AllOrNone ==
    \A h \in Wanting : \A i \in DOMAIN heard[h] :
        ~ Travels(heard[h][i].msg) =>
            \A g \in Always : Gotten(g, heard[h][i].msg)
GivenSame ==
    \A g, h \in Wanting : \A i \in DOMAIN heard[g], j \in DOMAIN heard[h] :
        heard[g][i].msg = heard[h][j].msg => heard[g][i].given = heard[h][j].given

MessagesKept ==
    /\ Apart /\ AllIssued
    /\ \A t \in RateThreads : Underway(t)
    /\ \A i \in DOMAIN queue : Untouched(queue[i])
    /\ AllOrNone /\ GivenSame

RateInv == RateTypes /\ PublisherKept /\ HandlersKept /\ MessagesKept

LEMMA StatesApart ==
    /\ \A x \in Publishing : x # Resting /\ x \notin Running /\ x \notin Timing
          /\ x.op \in {"test", "stamp", "push"}
    /\ \A x \in Running : x # Resting /\ x \notin Publishing /\ x \notin Timing
          /\ x.op = "run"
    /\ \A x \in Timing : x # Resting /\ x \notin Running /\ x \notin Publishing
          /\ x.op \in {"test handler", "stamp handler"}
    /\ Resting \notin Publishing /\ Resting \notin Running
    /\ Resting \notin Timing /\ Resting.op = "idle"
<1>1. \A x \in Publishing : x.op \in {"test", "stamp", "push"}
  BY DEF Publishing
<1>2. \A x \in Running : x.op = "run"
  BY DEF Running
<1>3. \A x \in Timing : x.op \in {"test handler", "stamp handler"}
  BY DEF Timing
<1>4. Resting.op = "idle"
  BY DEF Resting
<1> HIDE DEF Publishing, Running, Timing
<1> QED BY <1>1, <1>2, <1>3, <1>4

LEMMA SetupIs ==
    ASSUME RateTypes
    PROVE  /\ setup.users \subseteq ThreadIds /\ RateThreads \subseteq ThreadIds
           /\ IsFiniteSet(setup.users) /\ IsFiniteSet(RateThreads)
           /\ setup.msgsPerSec \in Nat
           /\ Len(setup.handlers) \in Nat
           /\ Handlers = 1..Len(setup.handlers)
           /\ \A h \in Handlers : RateOf(h) \in Nat
           /\ PublishingThread \in RateThreads /\ ReceptionThread \in RateThreads
           /\ PublishingThread \notin setup.users
           /\ ReceptionThread \notin setup.users
           /\ ReceptionThread # PublishingThread
           /\ Second \in Nat \ {0}
<1>1. setup \in Setups
  BY DEF RateTypes
<1>2. setup.users \subseteq ThreadIds /\ RateThreads \subseteq ThreadIds
  <2>1. setup.users \in {s.users : s \in Setups}
    BY <1>1
  <2>2. setup.users \subseteq UNION {s.users : s \in Setups}
    BY <2>1, Zenon
  <2> DEFINE U == UNION {s.users : s \in Setups}
  <2>3. /\ ThreadIds = U \union {ReceptionThread, PublishingThread}
        /\ RateThreads = setup.users \union {ReceptionThread, PublishingThread}
    BY DEF ThreadIds, RateThreads
  <2> HIDE DEF U
  <2>4. setup.users \subseteq U
    BY <2>2 DEF U
  <2> QED BY <2>3, <2>4
<1>3. IsFiniteSet(setup.users) /\ setup.msgsPerSec \in Nat
      /\ {ReceptionThread, PublishingThread} \intersect setup.users = {}
      /\ ReceptionThread # PublishingThread /\ Second \in Nat \ {0}
  BY <1>1, ThrottleAssumption
<1>4. IsFiniteSet(RateThreads)
  <2>1. RateThreads = (setup.users \union {ReceptionThread}) \union {PublishingThread}
    BY DEF RateThreads
  <2> QED BY <1>3, <2>1, FS_AddElement
<1> DEFINE Options == [type : STRING, raw : BOOLEAN, msgsPerSec : Nat]
<1>5. setup.handlers \in Seq(Options)
  BY <1>1, ThrottleAssumption
<1>6. \A o \in Options : o.msgsPerSec \in Nat
  OBVIOUS
<1> HIDE DEF Options
<1>7. /\ Len(setup.handlers) \in Nat /\ Handlers = 1..Len(setup.handlers)
      /\ \A h \in Handlers : setup.handlers[h] \in Options
  BY <1>5 DEF Handlers
<1>8. \A h \in Handlers : RateOf(h) \in Nat
  BY <1>6, <1>7 DEF RateOf
<1> QED BY <1>2, <1>3, <1>4, <1>7, <1>8 DEF RateThreads

LEMMA CurrentIs ==
    ASSUME RateTypes, NEW t, at[t].todo # {}, at[t].todo \subseteq Handlers
    PROVE  Current(t) \in at[t].todo
<1> DEFINE T == at[t].todo
           n == Len(setup.handlers)
           S == {Place(t, h) : h \in T}
           f == [h \in T |-> Place(t, h)]
<1>1. n \in Nat /\ T \in SUBSET (1..n) /\ T # {}
  BY SetupIs
<1>2. \A h \in T : Place(t, h) \in Int
  BY <1>1 DEF Place
<1>3. IsFiniteSet(T)
  <2>1. IsFiniteSet(1..n)
    BY <1>1, FS_Interval
  <2> QED BY <1>1, <2>1, FS_Subset
<1>4. S \in SUBSET Int /\ S # {}
  <2>1. PICK h \in T : TRUE
    BY <1>1
  <2> QED BY <1>2, <2>1
<1>5. IsFiniteSet(S)
  <2>1. f \in Surjection(T, S)
    BY DEF Surjection
  <2> HIDE DEF f, S, T
  <2> QED BY <1>3, <2>1, FS_Surjection
<1>6. PICK p \in S : \A y \in S : p <= y
  <2> HIDE DEF S
  <2> QED BY <1>4, <1>5, LeastOfFinite
<1>7. PICK h \in T : p = Place(t, h)
  OBVIOUS
<1>8. \A g \in T : Place(t, h) <= Place(t, g)
  BY <1>6, <1>7
<1> QED BY <1>8 DEF Current

\* A longer time is a period if a shorter one is.
LEMMA PeriodMonotone ==
    ASSUME NEW a \in Int, NEW b \in Int, NEW r \in Nat, b <= a,
           PeriodOver(b, r)
    PROVE  PeriodOver(a, r)
<1>1. PICK d \in Nat : d = a - b
  OBVIOUS
<1>2. a * r = b * r + d * r
  BY <1>1
<1>3. d * r \in Nat /\ b * r \in Int
  OBVIOUS
<1> QED BY <1>2, <1>3, ThrottleAssumption DEF PeriodOver

LEMMA PeriodPositive ==
    ASSUME NEW a \in Int, NEW r \in Nat, PeriodOver(a, r)
    PROVE  a > 0
<1>1. a * r >= Second /\ Second \in Nat \ {0}
  BY ThrottleAssumption DEF PeriodOver
<1>2. a <= 0 => a * r <= 0
  OBVIOUS
<1>3. a * r \in Int
  OBVIOUS
<1> QED BY <1>1, <1>2, <1>3

(***************************************************************************)
(* A step of a thread puts it in another state.                            *)
(***************************************************************************)
Move(t, x) ==
    /\ t \in RateThreads /\ x \in States /\ Becomes(t, x) /\ setup' = setup

LEMMA MoveIs ==
    ASSUME RateTypes, NEW t, NEW x, Move(t, x)
    PROVE  /\ RateThreads' = RateThreads /\ Handlers' = Handlers
           /\ Wanting' = Wanting /\ Always' = Always /\ Suitable' = Suitable
           /\ at' \in [RateThreads -> States] /\ at'[t] = x
           /\ \A u \in RateThreads \ {t} : at'[u] = at[u]
           /\ \A h : RateOf(h)' = RateOf(h)
           /\ \A u \in RateThreads \ {t} : Current(u)' = Current(u)
<1>1. setup' = setup
  BY DEF Move
<1>2. /\ RateThreads' = RateThreads /\ Handlers' = Handlers
      /\ Wanting' = Wanting /\ Always' = Always /\ Suitable' = Suitable
      /\ \A h : RateOf(h)' = RateOf(h)
  BY <1>1 DEF RateThreads, Handlers, Wanting, Always, Suitable, Suits, RateOf,
              Throttled
<1>3. at \in [RateThreads -> States] /\ at' = [at EXCEPT ![t] = x]
      /\ t \in RateThreads /\ x \in States
  BY DEF RateTypes, Move, Becomes
<1>4. /\ at' \in [RateThreads -> States] /\ at'[t] = x
      /\ \A u \in RateThreads \ {t} : at'[u] = at[u]
  BY <1>3
<1>5. \A u \in RateThreads \ {t} : Current(u)' = Current(u)
  BY <1>1, <1>4, Zenon DEF Current, Place
<1> QED BY <1>2, <1>4, <1>5

LEMMA RunIs ==
    ASSUME NEW todo \in SUBSET Nat, NEW m \in Messages, NEW p \in Parsings
    PROVE  /\ Run(todo, m, p) \in States
           /\ todo = {} => Run(todo, m, p) = Resting
           /\ todo # {} =>
                 /\ Run(todo, m, p) \in Running /\ Run(todo, m, p).todo = todo
                 /\ Run(todo, m, p).msg = m /\ Run(todo, m, p).parsed = p
<1> DEFINE x == [op |-> "run", todo |-> todo, msg |-> m, parsed |-> p]
<1>1. x \in Running /\ x.todo = todo /\ x.msg = m /\ x.parsed = p
  BY DEF Running
<1> HIDE DEF x
<1>2. Run(todo, m, p) = IF todo = {} THEN Resting ELSE x
  BY DEF Run, x
<1> QED BY <1>1, <1>2 DEF States

LEMMA OpChanged ==
    /\ \A r \in Publishing, o \in {"test", "stamp", "push"} :
          LET q == [r EXCEPT !.op = o] IN
          /\ q \in Publishing /\ q.op = o /\ q.stamp = r.stamp
          /\ q.raw = r.raw /\ q.msg = r.msg
    /\ \A r \in Timing, o \in {"test handler", "stamp handler"} :
          LET q == [r EXCEPT !.op = o] IN
          /\ q \in Timing /\ q.op = o /\ q.stamp = r.stamp
          /\ q.todo = r.todo /\ q.msg = r.msg /\ q.parsed = r.parsed
    /\ \A r \in Running, p \in Parsings :
          LET q == [r EXCEPT !.parsed = p] IN
          /\ q \in Running /\ q.todo = r.todo /\ q.msg = r.msg
          /\ q.parsed = p
<1>1. ASSUME NEW r \in Publishing, NEW o \in {"test", "stamp", "push"}
      PROVE  LET q == [r EXCEPT !.op = o] IN
          /\ q \in Publishing /\ q.op = o /\ q.stamp = r.stamp
          /\ q.raw = r.raw /\ q.msg = r.msg
  BY DEF Publishing
<1>2. ASSUME NEW r \in Timing, NEW o \in {"test handler", "stamp handler"}
      PROVE  LET q == [r EXCEPT !.op = o] IN
          /\ q \in Timing /\ q.op = o /\ q.stamp = r.stamp
          /\ q.todo = r.todo /\ q.msg = r.msg /\ q.parsed = r.parsed
  BY DEF Timing
<1>3. ASSUME NEW r \in Running, NEW p \in Parsings
      PROVE  LET q == [r EXCEPT !.parsed = p] IN
          /\ q \in Running /\ q.todo = r.todo /\ q.msg = r.msg
          /\ q.parsed = p
  BY DEF Running
<1> QED BY <1>1, <1>2, <1>3

\* Whose op tells in which state a thread is.
LEMMA OpIs ==
    ASSUME RateTypes, NEW t \in RateThreads
    PROVE  /\ at[t] \in States
           /\ at[t].op \in {"test", "stamp", "push"} => at[t] \in Publishing
           /\ at[t].op = "run" => at[t] \in Running
           /\ at[t].op \in {"test handler", "stamp handler"} => at[t] \in Timing
           /\ \A r \in Publishing : r.stamp \in Nat /\ r.msg \in Messages
                  /\ r.raw \in BOOLEAN
           /\ \A r \in Running : r.todo \in SUBSET Nat /\ r.msg \in Messages
                  /\ r.parsed \in Parsings
           /\ \A r \in Timing : r.todo \in SUBSET Nat /\ r.msg \in Messages
                  /\ r.parsed \in Parsings /\ r.stamp \in Nat
<1>1. at[t] \in States
  BY DEF RateTypes
<1>2. \/ at[t] = Resting \/ at[t] \in Publishing
      \/ at[t] \in Running \/ at[t] \in Timing
  BY <1>1 DEF States
<1>3. \A r \in Publishing : r.stamp \in Nat /\ r.msg \in Messages
          /\ r.raw \in BOOLEAN
  BY DEF Publishing
<1>4. \A r \in Running : r.todo \in SUBSET Nat /\ r.msg \in Messages
          /\ r.parsed \in Parsings
  BY DEF Running
<1>5. \A r \in Timing : r.todo \in SUBSET Nat /\ r.msg \in Messages
          /\ r.parsed \in Parsings /\ r.stamp \in Nat
  BY DEF Timing
<1>6. /\ at[t].op \in {"test", "stamp", "push"} => at[t] \in Publishing
      /\ at[t].op = "run" => at[t] \in Running
      /\ at[t].op \in {"test handler", "stamp handler"} => at[t] \in Timing
  <2> HIDE DEF Publishing, Running, Timing, Resting
  <2> QED BY <1>2, StatesApart
<1> QED BY <1>1, <1>3, <1>4, <1>5, <1>6

\* Steps that leave the publisher alone.
LEMMA PublisherOther ==
    ASSUME RateTypes, PublisherKept, NEW t, NEW x, Move(t, x),
           UNCHANGED <<now, lastCbTimestamp, passed>>,
           x \in Publishing =>
              /\ x.stamp <= now /\ t \in setup.users
              /\ x.op = "stamp" => \A j \in DOMAIN passed : passed[j].by = t =>
                    PeriodOver(x.stamp - passed[j].time, setup.msgsPerSec)
    PROVE  PublisherKept'
<1>1. /\ RateThreads' = RateThreads /\ at'[t] = x /\ t \in RateThreads
      /\ \A u \in RateThreads \ {t} : at'[u] = at[u]
      /\ setup' = setup
  BY MoveIs DEF Move
<1>2. /\ now' = now /\ lastCbTimestamp' = lastCbTimestamp /\ passed' = passed
  OBVIOUS
<1>3. \A u \in RateThreads : at'[u] \in Publishing =>
          at'[u].stamp <= now /\ u \in setup.users
  BY <1>1 DEF PublisherKept
<1>4. \A u \in RateThreads : at'[u] \in Publishing /\ at'[u].op = "stamp" =>
          \A j \in DOMAIN passed : passed[j].by = u =>
              PeriodOver(at'[u].stamp - passed[j].time, setup.msgsPerSec)
  BY <1>1 DEF PublisherKept
<1> QED BY <1>1, <1>2, <1>3, <1>4 DEF PublisherKept

\* Steps that call no handler back.
LEMMA HandlersOther ==
    ASSUME RateTypes, HandlersKept, NEW t, NEW x, Move(t, x),
           UNCHANGED <<heard, handlerTimestamp>>,
           x \in Timing /\ x.op = "stamp handler" =>
              \A h \in Handlers :
                 Throttled(RateOf(h)) /\ Current(t)' = h /\ AllBy(h, t) =>
                    \A i \in DOMAIN heard[h] :
                        PeriodOver(x.stamp - heard[h][i].time, RateOf(h))
    PROVE  HandlersKept'
<1>1. /\ RateThreads' = RateThreads /\ at'[t] = x /\ t \in RateThreads
      /\ \A u \in RateThreads \ {t} : at'[u] = at[u]
      /\ \A h : RateOf(h)' = RateOf(h)
      /\ Handlers' = Handlers
      /\ \A u \in RateThreads \ {t} : Current(u)' = Current(u)
  BY MoveIs DEF Move
<1>2. heard' = heard /\ handlerTimestamp' = handlerTimestamp
  OBVIOUS
<1>3. \A h, u : AllBy(h, u)' <=> AllBy(h, u)
  BY <1>2 DEF AllBy
<1> SUFFICES ASSUME NEW h \in Handlers, Throttled(RateOf(h))
             PROVE  /\ heard[h] # <<>> =>
                          handlerTimestamp[h] = heard[h][Len(heard[h])].time
                    /\ \A u \in RateThreads : AllBy(h, u) =>
                          /\ \A i, j \in DOMAIN heard[h] : i < j =>
                                PeriodOver(heard[h][j].time - heard[h][i].time,
                                           RateOf(h))
                          /\ at'[u] \in Timing /\ at'[u].op = "stamp handler"
                                 /\ Current(u)' = h =>
                                \A i \in DOMAIN heard[h] :
                                    PeriodOver(at'[u].stamp - heard[h][i].time,
                                               RateOf(h))
  BY <1>1, <1>2, <1>3 DEF HandlersKept, Throttled
<1>4. /\ heard[h] # <<>> => handlerTimestamp[h] = heard[h][Len(heard[h])].time
      /\ \A u \in RateThreads : AllBy(h, u) =>
            /\ \A i, j \in DOMAIN heard[h] : i < j =>
                  PeriodOver(heard[h][j].time - heard[h][i].time, RateOf(h))
            /\ at[u] \in Timing /\ at[u].op = "stamp handler" /\ Current(u) = h =>
                  \A i \in DOMAIN heard[h] :
                      PeriodOver(at[u].stamp - heard[h][i].time, RateOf(h))
  BY DEF HandlersKept
<1>5. ASSUME NEW u \in RateThreads, AllBy(h, u), at'[u] \in Timing,
             at'[u].op = "stamp handler", Current(u)' = h
      PROVE  \A i \in DOMAIN heard[h] :
                 PeriodOver(at'[u].stamp - heard[h][i].time, RateOf(h))
  <2>1. CASE u = t
    BY <1>1, <1>5, <2>1
  <2>2. CASE u # t
    BY <1>1, <1>4, <1>5, <2>2
  <2> QED BY <2>1, <2>2
<1> QED BY <1>4, <1>5

(***************************************************************************)
(* Where messages are.                                                     *)
(***************************************************************************)
\* What was heard of a message, unless it is m, stays as it is.
HeardBut(m) ==
    /\ \A h \in Handlers : \A n \in Messages :
          /\ Gotten(h, n) => Gotten(h, n)'
          /\ n # m /\ Gotten(h, n)' => Gotten(h, n)
    /\ \A n \in Messages : \A p \in Parsings :
          n # m /\ Shared(n, p) => Shared(n, p)'

LEMMA HeardSame ==
    ASSUME UNCHANGED <<setup, heard>>, GivenSame
    PROVE  /\ \A m : HeardBut(m)
           /\ \A m : Untouched(m)' <=> Untouched(m)
           /\ \A h, m : Gotten(h, m)' <=> Gotten(h, m)
           /\ \A m, p : Shared(m, p)' <=> Shared(m, p)
           /\ GivenSame'
<1>1. heard' = heard /\ setup' = setup
  OBVIOUS
<1>2. Wanting' = Wanting
  BY <1>1 DEF Wanting, Handlers, Suits
<1>3. \A h, m : Gotten(h, m)' <=> Gotten(h, m)
  BY <1>1 DEF Gotten
<1>4. \A m : Untouched(m)' <=> Untouched(m)
  BY <1>2, <1>3 DEF Untouched
<1>5. \A m, p : Shared(m, p)' <=> Shared(m, p)
  BY <1>1, <1>2 DEF Shared
<1>6. GivenSame'
  BY <1>1, <1>2 DEF GivenSame
<1> QED BY <1>3, <1>4, <1>5, <1>6 DEF HeardBut

\* A thread that is not the one that moves, and whose message was not.
LEMMA UnderwayOther ==
    ASSUME RateTypes, NEW t, NEW x, Move(t, x), NEW m, HeardBut(m),
           NEW u \in RateThreads \ {t}, Underway(u),
           at[u] # Resting => at[u].msg # m
    PROVE  Underway(u)'
<1>1. /\ at'[u] = at[u] /\ Current(u)' = Current(u)
      /\ Wanting' = Wanting /\ Always' = Always /\ Suitable' = Suitable
      /\ Handlers' = Handlers /\ \A h : RateOf(h)' = RateOf(h)
      /\ setup' = setup
  BY MoveIs DEF Move
<1>2. \A h \in Wanting : h \in Handlers
  BY DEF Wanting
<1>3. \A h \in Always : h \in Handlers
  BY DEF Always, Wanting
<1>4. ASSUME at[u] \in Publishing PROVE Untouched(at[u].msg)'
  <2>1. at[u].msg # m /\ at[u].msg \in Messages /\ Untouched(at[u].msg)
    BY <1>4, StatesApart, OpIs DEF Underway
  <2> QED BY <1>1, <1>2, <2>1 DEF HeardBut, Untouched
<1>5. ASSUME at[u] \in Running \/ at[u] \in Timing, Halfway(u)
      PROVE  Halfway(u)'
  <2>0. PICK n, p : n = at[u].msg /\ p = at[u].parsed
    OBVIOUS
  <2>1. n # m /\ n \in Messages /\ p \in Parsings
    BY <1>5, <2>0, StatesApart, OpIs
  <2>2. Untouched(n) => Untouched(n)'
    BY <1>1, <1>2, <2>1 DEF HeardBut, Untouched
  <2>3. \A g \in Always : Gotten(g, n) => Gotten(g, n)'
    BY <1>3, <2>1 DEF HeardBut
  <2>4. Shared(n, p)'
    BY <1>5, <2>0, <2>1 DEF HeardBut, Halfway
  <2> QED BY <1>1, <1>5, <2>0, <2>2, <2>3, <2>4 DEF Halfway
<1> QED BY <1>1, <1>4, <1>5 DEF Underway, Throttled

\* The thread keeps its message, or ends with it.
LEMMA StayKept ==
    ASSUME RateTypes, MessagesKept, NEW t, NEW x, Move(t, x),
           UNCHANGED <<queue, count>>, NEW m, at[t] # Resting, m = at[t].msg,
           x # Resting => x.msg = m,
           Underway(t)', GivenSame', HeardBut(m),
           \A h \in Handlers : \A i \in DOMAIN heard'[h] :
               /\ heard'[h][i].msg \in Messages
               /\ Issued(heard'[h][i].msg)
               /\ Gotten(h, heard'[h][i].msg) \/ heard'[h][i].msg = m,
           x = Resting => Untouched(m)' \/ \A g \in Always : Gotten(g, m)'
    PROVE  MessagesKept'
<1>1. /\ RateThreads' = RateThreads /\ at'[t] = x /\ t \in RateThreads
      /\ \A u \in RateThreads \ {t} : at'[u] = at[u]
      /\ Handlers' = Handlers /\ Wanting' = Wanting /\ Always' = Always
  BY MoveIs DEF Move
<1>2. queue' = queue /\ count' = count
  OBVIOUS
<1>3. \A n : Issued(n)' <=> Issued(n)
  BY <1>1, <1>2 DEF Issued
<1>4. Apart'
  BY <1>1, <1>2 DEF MessagesKept, Apart
<1>5. AllIssued'
  <2>1. \A u \in RateThreads : at'[u] # Resting => Issued(at'[u].msg)
    BY <1>1 DEF MessagesKept, AllIssued
  <2> QED BY <1>1, <1>2, <1>3, <2>1 DEF MessagesKept, AllIssued
<1>6. \A u \in RateThreads : Underway(u)'
  <2> TAKE u \in RateThreads
  <2>1. CASE u # t
    <3>1. at[u] # Resting => at[u].msg # m
      BY <1>1, <2>1 DEF MessagesKept, Apart
    <3>2. HeardBut(m) /\ Underway(u) /\ u \in RateThreads \ {t}
      BY <2>1 DEF MessagesKept
    <3> QED BY <3>1, <3>2, UnderwayOther
  <2> QED BY <2>1
<1>7. \A i \in DOMAIN queue : Untouched(queue[i])'
  <2> TAKE i \in DOMAIN queue
  <2>1. queue[i] # m /\ queue[i] \in Messages /\ Untouched(queue[i])
    BY <1>1 DEF MessagesKept, Apart, RateTypes
  <2> QED BY <1>1, <2>1 DEF Untouched, HeardBut, Wanting
<1>8. \A n : Travels(n) /\ n # m => Travels(n)'
  BY <1>1, <1>2 DEF Travels
<1>9. ASSUME NEW h \in Wanting, NEW i \in DOMAIN heard'[h], NEW n,
             n = heard'[h][i].msg, ~ Travels(n)', NEW g \in Always
      PROVE  Gotten(g, n)'
  <2>1. h \in Handlers /\ g \in Handlers
    BY DEF Wanting, Always
  <2>2. n \in Messages /\ (Gotten(h, n) \/ n = m)
    BY <1>9, <2>1
  <2>3. CASE n = m
    <3>1. x = Resting
      BY <1>1, <1>9, <2>3 DEF Travels
    <3>2. Gotten(h, n)'
      BY <1>1, <1>9 DEF Gotten
    <3>3. ~ Untouched(n)'
      BY <1>1, <3>2 DEF Untouched
    <3>4. Untouched(m)' \/ \A f \in Always : Gotten(f, m)'
      BY <3>1
    <3> QED BY <2>3, <3>3, <3>4
  <2>4. CASE n # m
    <3>1. ~ Travels(n) /\ Gotten(h, n)
      BY <1>8, <1>9, <2>2, <2>4
    <3>2. PICK j \in DOMAIN heard[h] : heard[h][j].msg = n
      BY <3>1 DEF Gotten
    <3>3. Gotten(g, n)
      BY <3>1, <3>2 DEF MessagesKept, AllOrNone
    <3> QED BY <2>1, <2>2, <3>3 DEF HeardBut
  <2> QED BY <2>3, <2>4
<1>10. AllOrNone'
  BY <1>1, <1>9 DEF AllOrNone
<1> QED BY <1>1, <1>2, <1>4, <1>5, <1>6, <1>7, <1>10 DEF MessagesKept

\* A message that a thread brings is in no other place.
LEMMA FreshIs ==
    ASSUME RateTypes, MessagesKept, NEW t \in RateThreads, NEW m,
           m.from = t, m.n = count[t] + 1
    PROVE  /\ ~ Issued(m) /\ Untouched(m) /\ \A p : Shared(m, p)
           /\ \A u \in RateThreads : at[u] # Resting => at[u].msg # m
           /\ \A i \in DOMAIN queue : queue[i] # m
<1>1. ~ Issued(m)
  <2>1. count[t] \in Nat
    BY DEF RateTypes
  <2> QED BY <2>1 DEF Issued
<1>2. \A h \in Handlers : \A i \in DOMAIN heard[h] : heard[h][i].msg # m
  BY <1>1 DEF MessagesKept, AllIssued
<1>3. Wanting \subseteq Handlers
  BY DEF Wanting
<1>4. Untouched(m) /\ \A p : Shared(m, p)
  BY <1>2, <1>3 DEF Untouched, Gotten, Shared
<1> QED BY <1>1, <1>4 DEF MessagesKept, AllIssued

LEMMA BroughtKept ==
    ASSUME RateTypes, MessagesKept, NEW t, NEW x, Move(t, x),
           UNCHANGED <<queue, heard>>, at[t] = Resting,
           count' = [count EXCEPT ![t] = @ + 1],
           NEW m \in Messages, m.from = t, m.n = count[t] + 1,
           x # Resting => x.msg = m, Underway(t)'
    PROVE  MessagesKept'
<1>1. /\ RateThreads' = RateThreads /\ at'[t] = x /\ t \in RateThreads
      /\ \A u \in RateThreads \ {t} : at'[u] = at[u]
      /\ Handlers' = Handlers /\ Wanting' = Wanting /\ Always' = Always
      /\ setup' = setup
  BY MoveIs DEF Move
<1>2. /\ queue' = queue /\ heard' = heard
      /\ \A n : HeardBut(n)
      /\ \A n : Untouched(n)' <=> Untouched(n)
      /\ \A h, n : Gotten(h, n)' <=> Gotten(h, n)
      /\ GivenSame'
  <2>1. /\ queue' = queue /\ heard' = heard
        /\ UNCHANGED <<setup, heard>> /\ GivenSame
    BY <1>1 DEF MessagesKept
  <2> QED BY <2>1, HeardSame
<1>3. /\ ~ Issued(m)
      /\ \A u \in RateThreads : at[u] # Resting => at[u].msg # m
      /\ \A i \in DOMAIN queue : queue[i] # m
  BY <1>1, FreshIs
<1>4. count \in [RateThreads -> Nat]
  BY DEF RateTypes
<1> DEFINE IssuedThen(n) == n.from \in RateThreads /\ n.n <= count'[n.from]
<1>5. IssuedThen(m) /\ \A n \in Messages : Issued(n) => IssuedThen(n)
  <2>1. /\ count'[t] = count[t] + 1 /\ count[t] \in Nat
        /\ \A u \in RateThreads \ {t} : count'[u] = count[u]
    BY <1>1, <1>4
  <2>2. IssuedThen(m)
    BY <1>1, <2>1
  <2>3. ASSUME NEW n \in Messages, Issued(n) PROVE IssuedThen(n)
    <3>1. n.n \in Nat
      BY DEF Messages
    <3>2. n.from \in RateThreads /\ n.n <= count[n.from]
      BY <2>3 DEF Issued
    <3>3. count'[n.from] >= n.n
      BY <2>1, <3>1, <3>2, <1>4
    <3> QED BY <3>1, <3>2, <3>3, <2>1, <1>4
  <2> QED BY <2>2, <2>3
<1>6. Apart'
  BY <1>1, <1>2, <1>3 DEF MessagesKept, Apart
<1>7. AllIssued'
  <2> HIDE DEF IssuedThen
  <2>1. \A u \in RateThreads : at'[u] # Resting => IssuedThen(at'[u].msg)
    <3> TAKE u \in RateThreads
    <3>1. CASE u = t
      BY <1>1, <1>5, <3>1
    <3>2. CASE u # t
      <4>1. at[u] # Resting => at[u].msg \in Messages
        BY OpIs, StatesApart DEF States
      <4>2. at[u] # Resting => Issued(at[u].msg)
        BY DEF MessagesKept, AllIssued
      <4> QED BY <1>1, <1>5, <3>2, <4>1, <4>2
    <3> QED BY <3>1, <3>2
  <2>2. \A i \in DOMAIN queue : IssuedThen(queue[i])
    <3>1. \A i \in DOMAIN queue : queue[i] \in Messages
      BY DEF RateTypes
    <3> QED BY <1>5, <3>1 DEF MessagesKept, AllIssued
  <2>3. \A h \in Handlers : \A i \in DOMAIN heard[h] : IssuedThen(heard[h][i].msg)
    <3>1. \A h \in Handlers : \A i \in DOMAIN heard[h] : heard[h][i] \in Calls
      BY DEF RateTypes
    <3>2. \A h \in Handlers : \A i \in DOMAIN heard[h] :
              heard[h][i].msg \in Messages
      BY <3>1 DEF Calls
    <3> QED BY <1>5, <3>2 DEF MessagesKept, AllIssued
  <2> QED BY <1>1, <1>2, <2>1, <2>2, <2>3 DEF AllIssued, Issued, IssuedThen
<1>8. \A u \in RateThreads : Underway(u)'
  <2> TAKE u \in RateThreads
  <2>1. CASE u # t
    <3>1. /\ at[u] # Resting => at[u].msg # m
          /\ HeardBut(m) /\ Underway(u) /\ u \in RateThreads \ {t}
      BY <1>2, <1>3, <2>1 DEF MessagesKept
    <3> QED BY <3>1, UnderwayOther
  <2> QED BY <2>1
<1>9. \A n : Travels(n) => Travels(n)'
  BY <1>1, <1>2 DEF Travels
<1>10. AllOrNone'
  BY <1>1, <1>2, <1>9 DEF MessagesKept, AllOrNone
<1>11. (\A i \in DOMAIN queue : Untouched(queue[i]))'
  BY <1>1, <1>2 DEF MessagesKept, Untouched, Gotten
<1> QED BY <1>1, <1>2, <1>6, <1>7, <1>8, <1>10, <1>11 DEF MessagesKept

\* A message goes to the queue.
LEMMA PushKept ==
    ASSUME RateTypes, MessagesKept, NEW t, Move(t, Resting),
           UNCHANGED <<count, heard>>, at[t] \in Publishing,
           queue' = Append(queue, at[t].msg)
    PROVE  MessagesKept'
<1>1. /\ RateThreads' = RateThreads /\ at'[t] = Resting /\ t \in RateThreads
      /\ \A u \in RateThreads \ {t} : at'[u] = at[u]
      /\ Handlers' = Handlers /\ Wanting' = Wanting /\ Always' = Always
      /\ setup' = setup
  BY MoveIs DEF Move
<1>2. PICK m \in Messages : m = at[t].msg
  BY <1>1, OpIs
<1>3. /\ DOMAIN queue' = DOMAIN queue \union {Len(queue) + 1}
      /\ Len(queue) + 1 \notin DOMAIN queue
      /\ \A i \in DOMAIN queue : queue'[i] = queue[i]
      /\ queue'[Len(queue) + 1] = m
  <2>1. queue \in Seq(Messages) /\ queue' = Append(queue, m)
    BY <1>2 DEF RateTypes
  <2> HIDE DEF Messages
  <2>2. /\ DOMAIN queue' = DOMAIN queue \union {Len(queue) + 1}
        /\ \A i \in DOMAIN queue : queue'[i] = queue[i]
        /\ queue'[Len(queue) + 1] = m
        /\ DOMAIN queue = 1..Len(queue) /\ Len(queue) \in Nat
    BY <2>1, Appended
  <2> QED BY <2>2
<1>4. /\ heard' = heard /\ count' = count
      /\ \A n : HeardBut(n)
      /\ \A n : Untouched(n)' <=> Untouched(n)
      /\ \A h, n : Gotten(h, n)' <=> Gotten(h, n)
      /\ GivenSame'
  <2>1. /\ heard' = heard /\ count' = count
        /\ UNCHANGED <<setup, heard>> /\ GivenSame
    BY <1>1 DEF MessagesKept
  <2> QED BY <2>1, HeardSame
<1>5. \A n : Issued(n)' <=> Issued(n)
  BY <1>1, <1>4 DEF Issued
<1>6. at[t] # Resting /\ Untouched(m) /\ Issued(m)
  BY <1>1, <1>2, StatesApart DEF MessagesKept, Underway, AllIssued
<1>7. Apart'
  <2>1. \A u \in RateThreads : at'[u] # Resting =>
            u # t /\ at[u] # Resting /\ at'[u] = at[u] /\ at[u].msg # m
    BY <1>1, <1>2, <1>6 DEF MessagesKept, Apart
  <2>2. \A i \in DOMAIN queue : queue[i] # m
    BY <1>1, <1>2, <1>6 DEF MessagesKept, Apart
  <2>3. \A u, v \in RateThreads :
            u # v /\ at'[u] # Resting /\ at'[v] # Resting =>
                at'[u].msg # at'[v].msg
    BY <2>1 DEF MessagesKept, Apart
  <2>4. \A u \in RateThreads : at'[u] # Resting =>
            \A i \in DOMAIN queue' : queue'[i] # at'[u].msg
    BY <1>3, <2>1 DEF MessagesKept, Apart
  <2>5. \A i, j \in DOMAIN queue' : i # j => queue'[i] # queue'[j]
    BY <1>3, <2>2 DEF MessagesKept, Apart
  <2> QED BY <1>1, <2>3, <2>4, <2>5 DEF Apart
<1>8. AllIssued'
  <2>1. \A u \in RateThreads : at'[u] # Resting => Issued(at'[u].msg)
    BY <1>1 DEF MessagesKept, AllIssued
  <2>2. \A i \in DOMAIN queue' : Issued(queue'[i])
    BY <1>3, <1>6 DEF MessagesKept, AllIssued
  <2> QED BY <1>1, <1>4, <1>5, <2>1, <2>2 DEF MessagesKept, AllIssued
<1>9. \A u \in RateThreads : Underway(u)'
  <2> TAKE u \in RateThreads
  <2>1. CASE u # t
    <3>1. /\ at[u] # Resting => at[u].msg # m
          /\ HeardBut(m) /\ Underway(u) /\ u \in RateThreads \ {t}
      BY <1>1, <1>2, <1>4, <1>6, <2>1 DEF MessagesKept, Apart
    <3> QED BY <3>1, UnderwayOther
  <2>2. CASE u = t
    BY <1>1, <2>2, StatesApart DEF Underway
  <2> QED BY <2>1, <2>2
<1>10. \A n : Travels(n) => Travels(n)'
  <2> TAKE n
  <2>1. ASSUME NEW u \in RateThreads, at[u] # Resting, at[u].msg = n
        PROVE  Travels(n)'
    <3>1. CASE u = t
      BY <1>2, <1>3, <2>1, <3>1 DEF Travels
    <3>2. CASE u # t
      BY <1>1, <2>1, <3>2 DEF Travels
    <3> QED BY <3>1, <3>2
  <2>2. ASSUME NEW i \in DOMAIN queue, queue[i] = n PROVE Travels(n)'
    BY <1>3, <2>2 DEF Travels
  <2> QED BY <2>1, <2>2 DEF Travels
<1>11. AllOrNone'
  BY <1>1, <1>4, <1>10 DEF MessagesKept, AllOrNone
<1>12. (\A i \in DOMAIN queue : Untouched(queue[i]))'
  BY <1>1, <1>3, <1>4, <1>6 DEF MessagesKept, Untouched, Gotten
<1> QED BY <1>1, <1>4, <1>7, <1>8, <1>9, <1>11, <1>12 DEF MessagesKept

\* A message leaves the queue.
LEMMA TakeKept ==
    ASSUME RateTypes, MessagesKept, NEW t, NEW x, Move(t, x),
           UNCHANGED <<count, heard>>, at[t] = Resting, queue # <<>>,
           queue' = Tail(queue), x # Resting => x.msg = Head(queue),
           Underway(t)'
    PROVE  MessagesKept'
<1>1. /\ RateThreads' = RateThreads /\ at'[t] = x /\ t \in RateThreads
      /\ \A u \in RateThreads \ {t} : at'[u] = at[u]
      /\ Handlers' = Handlers /\ Wanting' = Wanting /\ Always' = Always
      /\ setup' = setup
  BY MoveIs DEF Move
<1>2. PICK m \in Messages : m = Head(queue)
  <2>1. queue \in Seq(Messages)
    BY DEF RateTypes
  <2> QED BY <2>1
<1>3. /\ 1 \in DOMAIN queue /\ queue[1] = m
      /\ \A i \in DOMAIN queue' : /\ i + 1 \in DOMAIN queue
                                  /\ queue'[i] = queue[i + 1]
                                  /\ i + 1 # 1 /\ i \in Int
      /\ \A i \in DOMAIN queue : i # 1 => i - 1 \in DOMAIN queue'
                                          /\ queue'[i - 1] = queue[i]
  <2>1. queue \in Seq(Messages) /\ queue' = Tail(queue)
    BY DEF RateTypes
  <2> HIDE DEF Messages
  <2>2. /\ Len(queue) \in Nat \ {0} /\ DOMAIN queue = 1..Len(queue)
        /\ DOMAIN queue' = 1..(Len(queue) - 1) /\ Head(queue) = queue[1]
        /\ \A i \in DOMAIN queue' : queue'[i] = queue[i + 1]
    BY <2>1, Left
  <2>3. \A i \in DOMAIN queue' : i + 1 \in DOMAIN queue /\ i + 1 # 1 /\ i \in Int
    BY <2>2
  <2>4. ASSUME NEW i \in DOMAIN queue, i # 1
        PROVE  i - 1 \in DOMAIN queue' /\ queue'[i - 1] = queue[i]
    <3>1. i - 1 \in DOMAIN queue' /\ (i - 1) + 1 = i
      BY <2>2, <2>4
    <3> QED BY <2>2, <3>1
  <2> QED BY <1>2, <2>2, <2>3, <2>4
<1>4. /\ heard' = heard /\ count' = count
      /\ \A n : HeardBut(n)
      /\ \A n : Untouched(n)' <=> Untouched(n)
      /\ \A h, n : Gotten(h, n)' <=> Gotten(h, n)
      /\ GivenSame'
  <2>1. /\ heard' = heard /\ count' = count
        /\ UNCHANGED <<setup, heard>> /\ GivenSame
    BY <1>1 DEF MessagesKept
  <2> QED BY <2>1, HeardSame
<1>5. \A n : Issued(n)' <=> Issued(n)
  BY <1>1, <1>4 DEF Issued
<1>6. Untouched(m) /\ Issued(m)
  BY <1>3 DEF MessagesKept, AllIssued
<1>7. Apart'
  <2>1. \A u \in RateThreads \ {t} : at[u] # Resting => at[u].msg # m
    BY <1>3 DEF MessagesKept, Apart
  <2>2. \A i \in DOMAIN queue' : queue'[i] # m
    BY <1>3 DEF MessagesKept, Apart
  <2>3. \A u, v \in RateThreads :
            u # v /\ at'[u] # Resting /\ at'[v] # Resting =>
                at'[u].msg # at'[v].msg
    BY <1>1, <1>2, <2>1 DEF MessagesKept, Apart
  <2>4. \A u \in RateThreads : at'[u] # Resting =>
            \A i \in DOMAIN queue' : queue'[i] # at'[u].msg
    <3> TAKE u \in RateThreads
    <3>1. CASE u = t
      BY <1>1, <1>2, <2>2, <3>1
    <3>2. CASE u # t
      <4>1. at'[u] = at[u]
        BY <1>1, <3>2
      <4> QED BY <1>3, <4>1 DEF MessagesKept, Apart
    <3> QED BY <3>1, <3>2
  <2>5. \A i, j \in DOMAIN queue' : i # j => queue'[i] # queue'[j]
    <3> TAKE i, j \in DOMAIN queue'
    <3> HAVE i # j
    <3>1. i + 1 # j + 1 /\ i + 1 \in DOMAIN queue /\ j + 1 \in DOMAIN queue
      BY <1>3
    <3> QED BY <1>3, <3>1 DEF MessagesKept, Apart
  <2> QED BY <1>1, <2>3, <2>4, <2>5 DEF Apart
<1>8. AllIssued'
  <2>1. \A u \in RateThreads : at'[u] # Resting => Issued(at'[u].msg)
    BY <1>1, <1>2, <1>6 DEF MessagesKept, AllIssued
  <2>2. \A i \in DOMAIN queue' : Issued(queue'[i])
    BY <1>3 DEF MessagesKept, AllIssued
  <2> QED BY <1>1, <1>4, <1>5, <2>1, <2>2 DEF MessagesKept, AllIssued
<1>9. \A u \in RateThreads : Underway(u)'
  <2> TAKE u \in RateThreads
  <2>1. CASE u # t
    <3>1. /\ at[u] # Resting => at[u].msg # m
          /\ HeardBut(m) /\ Underway(u) /\ u \in RateThreads \ {t}
      BY <1>3, <1>4, <2>1 DEF MessagesKept, Apart
    <3> QED BY <3>1, UnderwayOther
  <2> QED BY <2>1
<1>10. \A n : Travels(n) => Travels(n)' \/ n = m
  <2> TAKE n
  <2>1. ASSUME NEW u \in RateThreads, at[u] # Resting, at[u].msg = n
        PROVE  Travels(n)'
    <3>1. u # t
      BY <2>1
    <3> QED BY <1>1, <2>1, <3>1 DEF Travels
  <2>2. ASSUME NEW i \in DOMAIN queue, queue[i] = n, n # m PROVE Travels(n)'
    <3>1. i # 1
      BY <1>3, <2>2
    <3> QED BY <1>3, <2>2, <3>1 DEF Travels
  <2> QED BY <2>1, <2>2 DEF Travels
<1>11. AllOrNone'
  <2>1. \A h \in Wanting : \A i \in DOMAIN heard[h] : heard[h][i].msg # m
    BY <1>6 DEF Untouched, Gotten
  <2> QED BY <1>1, <1>4, <1>10, <2>1 DEF MessagesKept, AllOrNone
<1>12. (\A i \in DOMAIN queue : Untouched(queue[i]))'
  BY <1>1, <1>3, <1>4 DEF MessagesKept, Untouched, Gotten
<1> QED BY <1>1, <1>4, <1>7, <1>8, <1>9, <1>11, <1>12 DEF MessagesKept

(***************************************************************************)
(* The steps.                                                              *)
(***************************************************************************)
LEMMA RateInvInit ==
    ASSUME ThrottleInit
    PROVE  RateInv
<1>1. /\ setup \in Setups /\ now = Second /\ lastCbTimestamp = 0
      /\ handlerTimestamp = [h \in Handlers |-> 0] /\ queue = <<>>
      /\ at = [t \in RateThreads |-> Resting]
      /\ count = [t \in RateThreads |-> 0]
      /\ passed = <<>> /\ heard = [h \in Handlers |-> <<>>]
  BY DEF ThrottleInit
<1>2. Second \in Nat \ {0}
  BY ThrottleAssumption
<1>3. \A T : <<>> \in Seq(T)
  OBVIOUS
<1>4. DOMAIN queue = {} /\ DOMAIN passed = {}
      /\ \A h \in Handlers : heard[h] = <<>> /\ DOMAIN heard[h] = {}
  BY <1>1
<1>5. \A t \in RateThreads : at[t] = Resting
  BY <1>1
<1>6. RateTypes
  <2>1. Resting \in States
    BY DEF States
  <2>2. handlerTimestamp \in [Handlers -> Nat] /\ count \in [RateThreads -> Nat]
    BY <1>1
  <2>3. at \in [RateThreads -> States]
    BY <1>1, <2>1
  <2>4. heard \in [Handlers -> Seq(Calls)]
    <3> HIDE DEF Calls
    <3> QED BY <1>1, <1>3
  <2>5. queue \in Seq(Messages) /\ passed \in Seq(Passings)
    BY <1>1, <1>3
  <2>6. now \in Nat /\ lastCbTimestamp \in Nat
    BY <1>1, <1>2
  <2> QED BY <1>1, <2>2, <2>3, <2>4, <2>5, <2>6 DEF RateTypes
<1>7. PublisherKept
  <2>1. lastCbTimestamp <= now
    BY <1>1, <1>2
  <2>2. \A t \in RateThreads : at[t] \notin Publishing
    BY <1>5, StatesApart
  <2> QED BY <1>4, <2>1, <2>2 DEF PublisherKept
<1>8. HandlersKept
  BY <1>4, <1>5, StatesApart DEF HandlersKept
<1>9. MessagesKept
  <2>1. Wanting \subseteq Handlers
    BY DEF Wanting
  <2>2. Apart
    BY <1>4, <1>5 DEF Apart
  <2>3. AllIssued
    BY <1>4, <1>5 DEF AllIssued
  <2>4. \A t \in RateThreads : Underway(t)
    BY <1>5, StatesApart DEF Underway
  <2>5. AllOrNone
    BY <1>4, <2>1 DEF AllOrNone
  <2>6. GivenSame
    BY <1>4, <2>1 DEF GivenSame
  <2> QED BY <1>4, <2>2, <2>3, <2>4, <2>5, <2>6 DEF MessagesKept
<1> QED BY <1>6, <1>7, <1>8, <1>9 DEF RateInv

LEMMA TypesMove ==
    ASSUME RateTypes, NEW t, NEW x, Move(t, x),
           now' \in Nat, lastCbTimestamp' \in Nat,
           handlerTimestamp' \in [Handlers -> Nat], queue' \in Seq(Messages),
           count' \in [RateThreads -> Nat], passed' \in Seq(Passings),
           heard' \in [Handlers -> Seq(Calls)]
    PROVE  RateTypes'
<1>1. /\ RateThreads' = RateThreads /\ Handlers' = Handlers
      /\ at' \in [RateThreads -> States] /\ setup' = setup
  BY MoveIs DEF Move
<1>2. setup' \in Setups
  BY <1>1 DEF RateTypes
<1>3. Calls' = Calls
  BY <1>1 DEF Calls
<1> QED BY <1>1, <1>2, <1>3, Zenon DEF RateTypes

\* A step that changes nothing but the time.
LEMMA OtherRates ==
    ASSUME RateInv,
           UNCHANGED <<setup, lastCbTimestamp, handlerTimestamp, queue, at,
                       count, passed, heard>>,
           now' \in Nat, now <= now'
    PROVE  RateInv'
<1>1. /\ setup' = setup /\ lastCbTimestamp' = lastCbTimestamp
      /\ handlerTimestamp' = handlerTimestamp /\ queue' = queue /\ at' = at
      /\ count' = count /\ passed' = passed /\ heard' = heard
  OBVIOUS
<1>2. RateThreads' = RateThreads /\ Handlers' = Handlers
  BY <1>1 DEF RateThreads, Handlers
<1>3. RateTypes'
  <2>1. RateTypes
    BY DEF RateInv
  <2>2. Calls' = Calls
    BY <1>2 DEF Calls
  <2> QED BY <1>1, <1>2, <2>1, <2>2, Zenon DEF RateTypes
<1>4. PublisherKept'
  <2>1. RateTypes /\ PublisherKept
    BY DEF RateInv
  <2>2. now \in Nat /\ lastCbTimestamp \in Nat
    BY <2>1 DEF RateTypes
  <2>3. lastCbTimestamp <= now'
    BY <2>1, <2>2 DEF PublisherKept
  <2>4. \A t \in RateThreads : at[t] \in Publishing => at[t].stamp <= now'
    <3>1. \A t \in RateThreads : at[t] \in Publishing =>
              at[t].stamp <= now /\ at[t].stamp \in Nat
      BY <2>1, OpIs DEF PublisherKept
    <3> QED BY <2>2, <3>1
  <2> QED BY <1>1, <1>2, <2>1, <2>3, <2>4 DEF PublisherKept
<1>5. HandlersKept'
  <2>1. HandlersKept
    BY DEF RateInv
  <2>2. \A h : RateOf(h)' = RateOf(h) /\ Current(h)' = Current(h)
    BY <1>1 DEF RateOf, Current, Place
  <2>3. \A h, t : AllBy(h, t)' <=> AllBy(h, t)
    BY <1>1 DEF AllBy
  <2> QED BY <1>1, <1>2, <2>1, <2>2, <2>3 DEF HandlersKept, Throttled
<1>6. MessagesKept'
  <2>1. MessagesKept
    BY DEF RateInv
  <2>2. Wanting' = Wanting /\ Always' = Always /\ Suitable' = Suitable
    BY <1>1, <1>2 DEF Wanting, Always, Suitable, Suits, RateOf, Throttled
  <2>3. \A t : Current(t)' = Current(t) /\ RateOf(t)' = RateOf(t)
    BY <1>1 DEF Current, Place, RateOf
  <2>4. /\ \A m : Untouched(m)' <=> Untouched(m)
        /\ \A h, m : Gotten(h, m)' <=> Gotten(h, m)
        /\ \A m, p : Shared(m, p)' <=> Shared(m, p)
        /\ GivenSame'
    <3>1. UNCHANGED <<setup, heard>> /\ GivenSame
      BY <1>1, <2>1 DEF MessagesKept
    <3> QED BY <3>1, HeardSame
  <2>5. Apart'
    BY <1>1, <1>2, <2>1 DEF MessagesKept, Apart
  <2>6. AllIssued'
    BY <1>1, <1>2, <2>1 DEF MessagesKept, AllIssued, Issued
  <2>7. AllOrNone'
    BY <1>1, <1>2, <2>1, <2>2 DEF MessagesKept, AllOrNone, Travels, Gotten
  <2>8. \A t \in RateThreads : Underway(t)'
    <3> TAKE t \in RateThreads
    <3>1. PICK m, p : m = at[t].msg /\ p = at[t].parsed
      OBVIOUS
    <3>2. Halfway(t)' <=> Halfway(t)
      BY <1>1, <2>2, <2>4, <3>1 DEF Halfway
    <3>3. Underway(t)
      BY <2>1 DEF MessagesKept
    <3> QED BY <1>1, <2>2, <2>3, <2>4, <3>1, <3>2, <3>3 DEF Underway, Throttled
  <2>9. (\A i \in DOMAIN queue : Untouched(queue[i]))'
    BY <1>1, <1>2, <2>1, <2>2, <2>4 DEF MessagesKept, Untouched, Gotten
  <2> QED BY <1>2, <2>4, <2>5, <2>6, <2>7, <2>8, <2>9 DEF MessagesKept
<1> QED BY <1>3, <1>4, <1>5, <1>6 DEF RateInv

\* What a thread brings.
LEMMA BroughtIs ==
    ASSUME RateTypes, NEW t \in RateThreads, NEW damaged \in BOOLEAN
    PROVE  /\ Brought(t, damaged) \in Messages
           /\ Brought(t, damaged).from = t
           /\ Brought(t, damaged).n = count[t] + 1
           /\ Brought(t, damaged).damaged = damaged
<1>1. t \in ThreadIds /\ count[t] + 1 \in Nat
  BY SetupIs DEF RateTypes
<1> QED BY <1>1 DEF Brought, Messages

LEMMA PublishAtRateKept ==
    ASSUME RateInv, NEW t \in setup.users, NEW raw \in BOOLEAN,
           PublishAtRate(t, raw)
    PROVE  RateInv'
<1>1. RateTypes /\ PublisherKept /\ HandlersKept /\ MessagesKept
  BY DEF RateInv
<1>2. t \in RateThreads
  BY DEF RateThreads
<1>3. PICK m \in Messages : m = Brought(t, FALSE) /\ m.from = t
          /\ m.n = count[t] + 1
  BY <1>1, <1>2, BroughtIs
<1>4. PICK x : x = [op |-> IF Throttled(setup.msgsPerSec) THEN "test" ELSE "push",
                    stamp |-> now, raw |-> raw, msg |-> m]
  OBVIOUS
<1>5. /\ at[t] = Resting /\ Becomes(t, x)
      /\ count' = [count EXCEPT ![t] = @ + 1]
      /\ UNCHANGED <<setup, now, lastCbTimestamp, handlerTimestamp, queue,
                     passed, heard>>
  BY <1>3, <1>4 DEF PublishAtRate, CountMessage
<1>6. now \in Nat /\ lastCbTimestamp \in Nat /\ handlerTimestamp \in [Handlers -> Nat]
      /\ queue \in Seq(Messages) /\ passed \in Seq(Passings)
      /\ heard \in [Handlers -> Seq(Calls)] /\ count \in [RateThreads -> Nat]
  BY <1>1 DEF RateTypes
<1>7. x \in Publishing /\ x.stamp = now /\ x.msg = m /\ x.op # "stamp"
  BY <1>4, <1>6 DEF Publishing
<1>8. Move(t, x)
  BY <1>2, <1>5, <1>7 DEF Move, States
<1>9. x # Resting /\ x \notin Running /\ x \notin Timing
  BY <1>7, StatesApart
<1>10. RateTypes'
  <2>1. count' \in [RateThreads -> Nat]
    BY <1>2, <1>5, <1>6
  <2> QED BY <1>1, <1>5, <1>6, <1>8, <2>1, TypesMove
<1>11. PublisherKept'
  <2>1. x.stamp <= now
    BY <1>6, <1>7
  <2> QED BY <1>1, <1>5, <1>7, <1>8, <2>1, PublisherOther
<1>12. HandlersKept'
  BY <1>1, <1>5, <1>8, <1>9, HandlersOther
<1>13. Underway(t)'
  <2>1. Untouched(m)
    BY <1>1, <1>2, <1>3, FreshIs
  <2>2. UNCHANGED <<setup, heard>> /\ GivenSame
    BY <1>1, <1>5 DEF MessagesKept
  <2>3. Untouched(m)'
    BY <2>1, <2>2, HeardSame
  <2>4. at'[t] = x
    BY <1>1, <1>8, MoveIs
  <2> QED BY <1>7, <1>9, <2>3, <2>4 DEF Underway
<1>14. MessagesKept'
  BY <1>1, <1>3, <1>5, <1>7, <1>8, <1>13, BroughtKept
<1> QED BY <1>10, <1>11, <1>12, <1>14 DEF RateInv

\* Suitable handlers of a message that none of them had.
LEMMA TriggeredIs ==
    ASSUME RateTypes, NEW m \in Messages, NEW p \in {"none", "whole"}
    PROVE  /\ Run(Suitable, m, p) \in States
           /\ Suitable = {} => Run(Suitable, m, p) = Resting
           /\ Suitable # {} =>
                 /\ Run(Suitable, m, p) \in Running
                 /\ Run(Suitable, m, p).todo = Suitable
                 /\ Run(Suitable, m, p).msg = m
                 /\ Run(Suitable, m, p).parsed = p
<1>1. Suitable \in SUBSET Nat /\ p \in Parsings
  BY SetupIs DEF Suitable, Parsings
<1> QED BY <1>1, RunIs

LEMMA UnderwayFirst ==
    ASSUME RateTypes, NEW t, NEW x, Move(t, x), NEW m \in Messages,
           NEW p \in {"none", "whole"}, x = Run(Suitable, m, p),
           UNCHANGED heard, GivenSame, Untouched(m)
    PROVE  Underway(t)'
<1>1. /\ at'[t] = x /\ Wanting' = Wanting /\ Always' = Always
      /\ Suitable' = Suitable /\ setup' = setup
  BY MoveIs DEF Move
<1>2. UNCHANGED <<setup, heard>>
  BY <1>1
<1>3. /\ \A n : Untouched(n)' <=> Untouched(n)
      /\ \A n, q : Shared(n, q)' <=> Shared(n, q)
  BY <1>2, HeardSame
<1>4. Wanting \subseteq Suitable /\ Always \subseteq Wanting
  BY DEF Wanting, Suitable, Always
<1>5. Shared(m, p)
  BY DEF Shared, Untouched, Gotten
<1>6. CASE Suitable = {}
  <2>1. x = Resting
    BY <1>6, TriggeredIs
  <2> QED BY <1>1, <2>1, StatesApart DEF Underway
<1>7. CASE Suitable # {}
  <2>1. x \in Running /\ x.todo = Suitable /\ x.msg = m /\ x.parsed = p
    BY <1>7, TriggeredIs
  <2>2. x \notin Publishing /\ x \notin Timing
    BY <2>1, StatesApart
  <2>3. Halfway(t)'
    BY <1>1, <1>3, <1>4, <1>5, <1>7, <2>1 DEF Halfway
  <2> QED BY <1>1, <2>2, <2>3 DEF Underway
<1> QED BY <1>6, <1>7

LEMMA ReceiveKept ==
    ASSUME RateInv, NEW damaged \in BOOLEAN, Receive(damaged)
    PROVE  RateInv'
<1> DEFINE t == ReceptionThread
<1>1. RateTypes /\ PublisherKept /\ HandlersKept /\ MessagesKept
  BY DEF RateInv
<1>2. t \in RateThreads
  BY DEF RateThreads
<1>3. PICK m \in Messages : m = Brought(t, damaged) /\ m.from = t
          /\ m.n = count[t] + 1
  BY <1>1, <1>2, BroughtIs
<1>4. PICK x : x = Run(Suitable, m, "none")
  OBVIOUS
<1>5. /\ at[t] = Resting /\ Becomes(t, x)
      /\ count' = [count EXCEPT ![t] = @ + 1]
      /\ UNCHANGED <<setup, now, lastCbTimestamp, handlerTimestamp, queue,
                     passed, heard>>
  BY <1>3, <1>4 DEF Receive, CountMessage, Triggered
<1>6. now \in Nat /\ lastCbTimestamp \in Nat /\ handlerTimestamp \in [Handlers -> Nat]
      /\ queue \in Seq(Messages) /\ passed \in Seq(Passings)
      /\ heard \in [Handlers -> Seq(Calls)] /\ count \in [RateThreads -> Nat]
  BY <1>1 DEF RateTypes
<1>7. x \in States /\ (x # Resting => x.msg = m /\ x \in Running)
  BY <1>1, <1>4, TriggeredIs
<1>8. Move(t, x)
  BY <1>2, <1>5, <1>7 DEF Move
<1>9. x \notin Publishing /\ x \notin Timing
  BY <1>7, StatesApart
<1>10. RateTypes'
  <2>1. count' \in [RateThreads -> Nat]
    BY <1>2, <1>5, <1>6
  <2> QED BY <1>1, <1>5, <1>6, <1>8, <2>1, TypesMove
<1>11. PublisherKept'
  BY <1>1, <1>5, <1>8, <1>9, PublisherOther
<1>12. HandlersKept'
  BY <1>1, <1>5, <1>8, <1>9, HandlersOther
<1>13. Underway(t)'
  <2>1. Untouched(m)
    BY <1>1, <1>2, <1>3, FreshIs
  <2>2. UNCHANGED heard /\ GivenSame
    BY <1>1, <1>5 DEF MessagesKept
  <2> QED BY <1>1, <1>4, <1>8, <2>1, <2>2, UnderwayFirst
<1>14. MessagesKept'
  <2> HIDE DEF t
  <2>1. x # Resting => x.msg = m
    BY <1>7
  <2> QED BY <1>1, <1>3, <1>5, <1>8, <1>13, <2>1, BroughtKept
<1> QED BY <1>10, <1>11, <1>12, <1>14 DEF RateInv

LEMMA TakeMessageKept ==
    ASSUME RateInv, TakeMessage
    PROVE  RateInv'
<1> DEFINE t == PublishingThread
<1>1. RateTypes /\ PublisherKept /\ HandlersKept /\ MessagesKept
  BY DEF RateInv
<1>2. t \in RateThreads
  BY DEF RateThreads
<1>3. queue \in Seq(Messages) /\ queue # <<>>
  BY <1>1 DEF RateTypes, TakeMessage
<1>4. PICK m \in Messages : m = Head(queue)
  BY <1>3
<1>5. PICK x : x = Run(Suitable, m, "whole")
  OBVIOUS
<1>6. /\ at[t] = Resting /\ Becomes(t, x) /\ queue' = Tail(queue)
      /\ UNCHANGED <<setup, now, lastCbTimestamp, handlerTimestamp, count,
                     passed, heard>>
  BY <1>4, <1>5 DEF TakeMessage
<1>7. now \in Nat /\ lastCbTimestamp \in Nat /\ handlerTimestamp \in [Handlers -> Nat]
      /\ passed \in Seq(Passings)
      /\ heard \in [Handlers -> Seq(Calls)] /\ count \in [RateThreads -> Nat]
  BY <1>1 DEF RateTypes
<1>8. x \in States /\ (x # Resting => x.msg = m /\ x \in Running)
  BY <1>1, <1>5, TriggeredIs
<1>9. Move(t, x)
  BY <1>2, <1>6, <1>8 DEF Move
<1>10. x \notin Publishing /\ x \notin Timing
  BY <1>8, StatesApart
<1>11. RateTypes'
  <2>1. queue' \in Seq(Messages)
    <3> HIDE DEF Messages
    <3> QED BY <1>3, <1>6, Left
  <2> QED BY <1>1, <1>6, <1>7, <1>9, <2>1, TypesMove
<1>12. PublisherKept'
  BY <1>1, <1>6, <1>9, <1>10, PublisherOther
<1>13. HandlersKept'
  BY <1>1, <1>6, <1>9, <1>10, HandlersOther
<1>14. Underway(t)'
  <2>1. Untouched(m)
    <3>1. 1 \in DOMAIN queue /\ queue[1] = m
      BY <1>3, <1>4
    <3> QED BY <1>1, <3>1 DEF MessagesKept
  <2>2. UNCHANGED heard /\ GivenSame
    BY <1>1, <1>6 DEF MessagesKept
  <2> QED BY <1>1, <1>5, <1>9, <2>1, <2>2, UnderwayFirst
<1>15. MessagesKept'
  <2> HIDE DEF t
  <2>1. x # Resting => x.msg = Head(queue)
    BY <1>4, <1>8
  <2> QED BY <1>1, <1>3, <1>6, <1>9, <1>14, <2>1, TakeKept
<1> QED BY <1>11, <1>12, <1>13, <1>15 DEF RateInv

\* The thread keeps its message, or ends with it, and calls no handler back.
LEMMA QuietKept ==
    ASSUME RateTypes, MessagesKept, NEW t, NEW x, Move(t, x),
           UNCHANGED <<queue, count, heard>>, NEW m, at[t] # Resting,
           m = at[t].msg, x # Resting => x.msg = m, Underway(t)',
           x = Resting => Untouched(m) \/ \A g \in Always : Gotten(g, m)
    PROVE  MessagesKept'
<1>1. /\ RateThreads' = RateThreads /\ Handlers' = Handlers
      /\ Wanting' = Wanting /\ Always' = Always /\ setup' = setup
  BY MoveIs DEF Move
<1>2. /\ HeardBut(m) /\ GivenSame'
      /\ \A n : Untouched(n)' <=> Untouched(n)
      /\ \A h, n : Gotten(h, n)' <=> Gotten(h, n)
  <2>1. UNCHANGED <<setup, heard>> /\ GivenSame
    BY <1>1 DEF MessagesKept
  <2> QED BY <2>1, HeardSame
<1>3. \A h \in Handlers : \A i \in DOMAIN heard'[h] :
          /\ heard'[h][i].msg \in Messages
          /\ Issued(heard'[h][i].msg)
          /\ Gotten(h, heard'[h][i].msg) \/ heard'[h][i].msg = m
  <2>1. heard' = heard
    OBVIOUS
  <2> TAKE h \in Handlers
  <2> TAKE i \in DOMAIN heard'[h]
  <2>2. heard[h][i] \in Calls /\ i \in DOMAIN heard[h]
    BY <2>1 DEF RateTypes
  <2>3. heard[h][i].msg \in Messages
    BY <2>2 DEF Calls
  <2>4. Issued(heard[h][i].msg)
    BY <2>2 DEF MessagesKept, AllIssued
  <2>5. Gotten(h, heard[h][i].msg)
    BY <2>2 DEF Gotten
  <2> QED BY <2>1, <2>3, <2>4, <2>5
<1>4. x = Resting => Untouched(m)' \/ \A g \in Always : Gotten(g, m)'
  BY <1>2
<1>5. UNCHANGED <<queue, count>>
  OBVIOUS
<1> QED BY <1>2, <1>3, <1>4, <1>5, StayKept

LEMMA ThrottledUpdateReadyKept ==
    ASSUME RateInv, NEW t \in RateThreads, ThrottledUpdateReady(t)
    PROVE  RateInv'
<1>1. RateTypes /\ PublisherKept /\ HandlersKept /\ MessagesKept
  BY DEF RateInv
<1>2. at[t] \in Publishing /\ at[t] # Resting
  BY <1>1, OpIs, StatesApart DEF ThrottledUpdateReady
<1>3. PICK m \in Messages : m = at[t].msg
  BY <1>1, <1>2, OpIs
<1>4. PICK x : /\ Becomes(t, x)
               /\ \/ /\ PeriodOver(at[t].stamp - lastCbTimestamp,
                                   setup.msgsPerSec)
                     /\ x = [at[t] EXCEPT !.op = "stamp"]
                  \/ x = Resting
  BY DEF ThrottledUpdateReady
<1>5. UNCHANGED <<setup, now, lastCbTimestamp, handlerTimestamp, queue,
                  count, passed, heard>>
  BY DEF ThrottledUpdateReady
<1>6. now \in Nat /\ lastCbTimestamp \in Nat /\ handlerTimestamp \in [Handlers -> Nat]
      /\ queue \in Seq(Messages) /\ passed \in Seq(Passings)
      /\ heard \in [Handlers -> Seq(Calls)] /\ count \in [RateThreads -> Nat]
  BY <1>1 DEF RateTypes
<1>7. \/ /\ x \in Publishing /\ x.stamp = at[t].stamp /\ x.msg = m
         /\ PeriodOver(x.stamp - lastCbTimestamp, setup.msgsPerSec)
      \/ x = Resting
  <2>1. CASE x = [at[t] EXCEPT !.op = "stamp"] /\ x # Resting
    <3>1. x \in Publishing /\ x.stamp = at[t].stamp /\ x.msg = at[t].msg
      BY <1>2, <2>1, OpChanged
    <3> QED BY <1>3, <1>4, <2>1, <3>1
  <2> QED BY <1>4, <2>1
<1>8. Move(t, x)
  BY <1>4, <1>5, <1>7 DEF Move, States
<1>9. x \notin Timing /\ x \notin Running
  BY <1>7, StatesApart
<1>10. RateTypes'
  BY <1>1, <1>5, <1>6, <1>8, TypesMove
<1>11. PublisherKept'
  <2>1. ASSUME x \in Publishing
        PROVE  /\ x.stamp <= now /\ t \in setup.users
               /\ \A j \in DOMAIN passed :
                     PeriodOver(x.stamp - passed[j].time, setup.msgsPerSec)
    <3>1. x.stamp = at[t].stamp
          /\ PeriodOver(x.stamp - lastCbTimestamp, setup.msgsPerSec)
      BY <1>7, <2>1, StatesApart
    <3>2. at[t].stamp <= now /\ t \in setup.users
      BY <1>1, <1>2 DEF PublisherKept
    <3>3. x.stamp \in Nat /\ setup.msgsPerSec \in Nat
      BY <1>1, <1>2, <3>1, OpIs, SetupIs
    <3>4. ASSUME NEW j \in DOMAIN passed
          PROVE  PeriodOver(x.stamp - passed[j].time, setup.msgsPerSec)
      <4>1. passed[j] \in Passings
        BY <1>6
      <4>2. passed[j].time \in Nat
        BY <4>1 DEF Passings
      <4>3. passed[j].time <= lastCbTimestamp
        BY <1>1 DEF PublisherKept
      <4>4. PICK a, b \in Int : a = x.stamp - passed[j].time
                /\ b = x.stamp - lastCbTimestamp /\ b <= a
        BY <1>6, <3>3, <4>2, <4>3
      <4> QED BY <3>1, <3>3, <4>4, PeriodMonotone
    <3> QED BY <3>1, <3>2, <3>4
  <2>2. UNCHANGED <<now, lastCbTimestamp, passed>>
    BY <1>5
  <2> QED BY <1>1, <1>8, <2>1, <2>2, PublisherOther
<1>12. HandlersKept'
  BY <1>1, <1>5, <1>8, <1>9, HandlersOther
<1>13. Untouched(m)
  BY <1>1, <1>2, <1>3 DEF MessagesKept, Underway
<1>14. Underway(t)'
  <2>1. UNCHANGED <<setup, heard>> /\ GivenSame
    BY <1>1, <1>5 DEF MessagesKept
  <2>2. Untouched(m)'
    BY <1>13, <2>1, HeardSame
  <2>3. at'[t] = x
    BY <1>1, <1>8, MoveIs
  <2> QED BY <1>7, <1>9, <2>2, <2>3, StatesApart DEF Underway
<1>15. MessagesKept'
  <2>1. x # Resting => x.msg = m
    BY <1>7
  <2>2. UNCHANGED <<queue, count, heard>>
    BY <1>5
  <2> QED BY <1>1, <1>2, <1>3, <1>8, <1>13, <1>14, <2>1, <2>2, QuietKept
<1> QED BY <1>10, <1>11, <1>12, <1>15 DEF RateInv

LEMMA UpdateThrottlingKept ==
    ASSUME RateInv, NEW t \in RateThreads, UpdateThrottling(t)
    PROVE  RateInv'
<1>1. RateTypes /\ PublisherKept /\ HandlersKept /\ MessagesKept
  BY DEF RateInv
<1>2. at[t] \in Publishing /\ at[t] # Resting /\ at[t].op = "stamp"
  BY <1>1, OpIs, StatesApart DEF UpdateThrottling
<1>3. PICK m \in Messages : m = at[t].msg
  BY <1>1, <1>2, OpIs
<1>4. PICK x : x = [at[t] EXCEPT !.op = "push"]
  OBVIOUS
<1>5. PICK e : e = [by |-> t, time |-> now]
  OBVIOUS
<1>6. /\ Becomes(t, x) /\ lastCbTimestamp' = now /\ passed' = Append(passed, e)
      /\ UNCHANGED <<setup, now, handlerTimestamp, queue, count, heard>>
  BY <1>4, <1>5 DEF UpdateThrottling, StampOf
<1>7. now \in Nat /\ lastCbTimestamp \in Nat /\ handlerTimestamp \in [Handlers -> Nat]
      /\ queue \in Seq(Messages) /\ passed \in Seq(Passings)
      /\ heard \in [Handlers -> Seq(Calls)] /\ count \in [RateThreads -> Nat]
  BY <1>1 DEF RateTypes
<1>8. x \in Publishing /\ x.stamp = at[t].stamp /\ x.msg = m /\ x.op = "push"
  BY <1>2, <1>3, <1>4, OpChanged
<1>9. Move(t, x)
  BY <1>6, <1>8 DEF Move, States
<1>10. x \notin Timing /\ x \notin Running /\ x # Resting
  BY <1>8, StatesApart
<1>11. e \in Passings /\ e.by = t /\ e.time = now
  <2>1. t \in ThreadIds
    BY <1>1, SetupIs
  <2> QED BY <1>5, <1>7, <2>1 DEF Passings
<1>12. /\ passed' \in Seq(Passings)
       /\ DOMAIN passed = 1..Len(passed) /\ Len(passed) \in Nat
       /\ DOMAIN passed' = DOMAIN passed \union {Len(passed) + 1}
       /\ \A k \in DOMAIN passed : passed'[k] = passed[k]
       /\ passed'[Len(passed) + 1] = e
  <2> HIDE DEF Passings
  <2> QED BY <1>6, <1>7, <1>11, Appended
<1>13. RateTypes'
  BY <1>1, <1>6, <1>7, <1>9, <1>12, TypesMove
<1>14. PublisherKept'
  <2>1. /\ RateThreads' = RateThreads /\ at'[t] = x /\ setup' = setup
        /\ \A u \in RateThreads \ {t} : at'[u] = at[u]
    BY <1>1, <1>9, MoveIs DEF Move
  <2>2. /\ at[t].stamp <= now /\ t \in setup.users /\ at[t].stamp \in Nat
        /\ setup.msgsPerSec \in Nat
    BY <1>1, <1>2, OpIs, SetupIs DEF PublisherKept
  <2>3. lastCbTimestamp <= now
    BY <1>1 DEF PublisherKept
  <2>4. \A j \in DOMAIN passed : passed[j].time <= lastCbTimestamp
            /\ passed[j].by \in setup.users /\ passed[j].time \in Nat
    <3>1. \A j \in DOMAIN passed : passed[j] \in Passings
      BY <1>7
    <3>2. \A j \in DOMAIN passed : passed[j].time \in Nat
      BY <3>1 DEF Passings
    <3> QED BY <1>1, <3>2 DEF PublisherKept
  <2>5. \A j \in DOMAIN passed' : passed'[j].time <= now
            /\ passed'[j].by \in setup.users
    <3> TAKE j \in DOMAIN passed'
    <3>1. CASE j = Len(passed) + 1
      BY <1>7, <1>11, <1>12, <2>2, <3>1
    <3>2. CASE j # Len(passed) + 1
      <4>1. j \in DOMAIN passed /\ passed'[j] = passed[j]
        BY <1>12, <3>2
      <4>2. passed[j].time <= now
        BY <1>7, <2>3, <2>4, <4>1
      <4> QED BY <2>4, <4>1, <4>2
    <3> QED BY <3>1, <3>2
  <2>6. \A u \in RateThreads : at'[u] \in Publishing =>
            at'[u].stamp <= now /\ u \in setup.users
    BY <1>1, <1>8, <2>1, <2>2 DEF PublisherKept
  <2>7. \A u \in RateThreads : at'[u] \in Publishing /\ at'[u].op = "stamp" =>
            \A j \in DOMAIN passed' : passed'[j].by = u =>
                PeriodOver(at'[u].stamp - passed'[j].time, setup.msgsPerSec)
    <3> TAKE u \in RateThreads
    <3> HAVE at'[u] \in Publishing /\ at'[u].op = "stamp"
    <3>1. u # t /\ at'[u] = at[u]
      BY <1>8, <2>1
    <3> TAKE j \in DOMAIN passed'
    <3> HAVE passed'[j].by = u
    <3>2. j # Len(passed) + 1
      BY <1>11, <1>12, <3>1
    <3>3. j \in DOMAIN passed /\ passed'[j] = passed[j]
      BY <1>12, <3>2
    <3> QED BY <1>1, <3>1, <3>3 DEF PublisherKept
  <2>8. ASSUME NEW j \in DOMAIN passed', NEW k \in DOMAIN passed', j < k,
               passed'[j].by = passed'[k].by
        PROVE  PeriodOver(passed'[k].time - passed'[j].time, setup.msgsPerSec)
    <3>1. j \in DOMAIN passed /\ passed'[j] = passed[j]
      BY <1>12, <2>8
    <3>2. CASE k \in DOMAIN passed
      <4>1. passed'[k] = passed[k]
        BY <1>12, <3>2
      <4> QED BY <1>1, <2>8, <3>1, <3>2, <4>1 DEF PublisherKept
    <3>3. CASE k = Len(passed) + 1
      <4>1. passed'[k].time = now /\ passed[j].by = t
        BY <1>11, <1>12, <2>8, <3>1, <3>3
      <4>2. PeriodOver(at[t].stamp - passed[j].time, setup.msgsPerSec)
        BY <1>1, <1>2, <3>1, <4>1 DEF PublisherKept
      <4>3. PICK a, b \in Int : a = now - passed[j].time
                /\ b = at[t].stamp - passed[j].time /\ b <= a
        <5>1. passed[j].time \in Nat
          BY <2>4, <3>1
        <5>2. now \in Nat /\ at[t].stamp \in Nat /\ at[t].stamp <= now
          BY <1>7, <2>2
        <5> QED BY <5>1, <5>2
      <4>4. PeriodOver(a, setup.msgsPerSec)
        BY <2>2, <4>2, <4>3, PeriodMonotone
      <4> QED BY <3>1, <4>1, <4>3, <4>4
    <3> QED BY <1>12, <3>2, <3>3
  <2>9. lastCbTimestamp' = now /\ now' = now /\ now <= now
    BY <1>6, <1>7
  <2> QED BY <2>1, <2>5, <2>6, <2>7, <2>8, <2>9 DEF PublisherKept
<1>15. HandlersKept'
  <2>1. UNCHANGED <<heard, handlerTimestamp>>
    BY <1>6
  <2> QED BY <1>1, <1>9, <1>10, <2>1, HandlersOther
<1>16. Untouched(m)
  BY <1>1, <1>2, <1>3 DEF MessagesKept, Underway
<1>17. Underway(t)'
  <2>1. UNCHANGED <<setup, heard>> /\ GivenSame
    BY <1>1, <1>6 DEF MessagesKept
  <2>2. Untouched(m)'
    BY <1>16, <2>1, HeardSame
  <2>3. at'[t] = x
    BY <1>1, <1>9, MoveIs
  <2> QED BY <1>8, <1>10, <2>2, <2>3, StatesApart DEF Underway
<1>18. MessagesKept'
  <2>1. UNCHANGED <<queue, count, heard>>
    BY <1>6
  <2> QED BY <1>1, <1>2, <1>3, <1>8, <1>9, <1>10, <1>17, <2>1, QuietKept
<1> QED BY <1>13, <1>14, <1>15, <1>18 DEF RateInv

LEMMA PublishToKept ==
    ASSUME RateInv, NEW t \in RateThreads, PublishTo(t)
    PROVE  RateInv'
<1>1. RateTypes /\ PublisherKept /\ HandlersKept /\ MessagesKept
  BY DEF RateInv
<1>2. at[t] \in Publishing /\ at[t] # Resting
  BY <1>1, OpIs, StatesApart DEF PublishTo
<1>3. PICK m \in Messages : m = at[t].msg
  BY <1>1, <1>2, OpIs
<1>4. PICK x : /\ Becomes(t, x)
               /\ \/ x = Run(Suitable, m, "none") /\ queue' = queue
                  \/ x = Resting /\ queue' = Append(queue, m)
  BY <1>3 DEF PublishTo, Triggered
<1>5. UNCHANGED <<setup, now, lastCbTimestamp, handlerTimestamp, count,
                  passed, heard>>
  BY DEF PublishTo
<1>6. now \in Nat /\ lastCbTimestamp \in Nat /\ handlerTimestamp \in [Handlers -> Nat]
      /\ queue \in Seq(Messages) /\ passed \in Seq(Passings)
      /\ heard \in [Handlers -> Seq(Calls)] /\ count \in [RateThreads -> Nat]
  BY <1>1 DEF RateTypes
<1>7. x \in States /\ (x # Resting => x.msg = m /\ x \in Running)
  <2>1. Resting \in States
    BY DEF States
  <2> QED BY <1>1, <1>4, <2>1, TriggeredIs
<1>8. Move(t, x)
  BY <1>4, <1>5, <1>7 DEF Move
<1>9. x \notin Publishing /\ x \notin Timing
  BY <1>7, StatesApart
<1>10. RateTypes'
  <2>1. queue' \in Seq(Messages)
    <3>1. Append(queue, m) \in Seq(Messages)
      <4> HIDE DEF Messages
      <4> QED BY <1>6, Appended
    <3> QED BY <1>4, <1>6, <3>1
  <2> QED BY <1>1, <1>5, <1>6, <1>8, <2>1, TypesMove
<1>11. PublisherKept'
  BY <1>1, <1>5, <1>8, <1>9, PublisherOther
<1>12. HandlersKept'
  BY <1>1, <1>5, <1>8, <1>9, HandlersOther
<1>13. Untouched(m)
  BY <1>1, <1>2, <1>3 DEF MessagesKept, Underway
<1>14. MessagesKept'
  <2>1. CASE x = Run(Suitable, m, "none") /\ queue' = queue
    <3>1. Underway(t)'
      <4>1. UNCHANGED heard /\ GivenSame
        BY <1>1, <1>5 DEF MessagesKept
      <4> QED BY <1>1, <1>8, <1>13, <2>1, <4>1, UnderwayFirst
    <3>2. UNCHANGED <<queue, count, heard>>
      BY <1>5, <2>1
    <3> QED BY <1>1, <1>2, <1>3, <1>7, <1>8, <1>13, <3>1, <3>2, QuietKept
  <2>2. CASE x = Resting /\ queue' = Append(queue, m)
    <3>1. Move(t, Resting) /\ queue' = Append(queue, at[t].msg)
          /\ UNCHANGED <<count, heard>>
      BY <1>3, <1>5, <1>8, <2>2
    <3> QED BY <1>1, <1>2, <3>1, PushKept
  <2> QED BY <1>4, <2>1, <2>2
<1> QED BY <1>10, <1>11, <1>12, <1>14 DEF RateInv

(***************************************************************************)
(* A thread that runs the handlers of a message.                           *)
(***************************************************************************)
LEMMA HandlerIs ==
    ASSUME RateTypes, MessagesKept, NEW t \in RateThreads,
           at[t] \in Running \/ at[t] \in Timing
    PROVE  /\ Current(t) \in at[t].todo /\ Current(t) \in Handlers
           /\ Current(t) \in Suitable
           /\ at[t].todo \in SUBSET Nat /\ at[t].msg \in Messages
           /\ at[t].parsed \in Parsings
           /\ Halfway(t) /\ at[t] # Resting
<1>1. Halfway(t)
  BY DEF MessagesKept, Underway
<1>2. /\ at[t].todo \in SUBSET Nat /\ at[t].msg \in Messages
      /\ at[t].parsed \in Parsings /\ at[t] # Resting
  BY OpIs, StatesApart
<1>3. Suitable \subseteq Handlers
  BY DEF Suitable
<1>4. at[t].todo # {} /\ at[t].todo \subseteq Suitable
  BY <1>1 DEF Halfway
<1>5. Current(t) \in at[t].todo
  <2>1. at[t].todo \subseteq Handlers
    BY <1>3, <1>4
  <2> QED BY <1>4, <2>1, CurrentIs
<1> QED BY <1>1, <1>2, <1>3, <1>4, <1>5

LEMMA SameCurrent ==
    ASSUME RateTypes, NEW t, NEW x, Move(t, x), x.todo = at[t].todo
    PROVE  Current(t)' = Current(t)
<1>1. at'[t] = x /\ setup' = setup
  BY MoveIs DEF Move
<1>2. at'[t].todo = at[t].todo
  BY <1>1
<1> QED BY <1>1, <1>2, Zenon DEF Current, Place

LEMMA ParseMessageKept ==
    ASSUME RateInv, NEW t \in RateThreads, ParseMessage(t)
    PROVE  RateInv'
<1>1. RateTypes /\ PublisherKept /\ HandlersKept /\ MessagesKept
  BY DEF RateInv
<1>2. at[t] \in Running
  BY <1>1, OpIs DEF ParseMessage
<1>3. /\ Current(t) \in at[t].todo /\ Current(t) \in Handlers
      /\ at[t].todo \in SUBSET Nat /\ at[t].msg \in Messages
      /\ Halfway(t) /\ at[t] # Resting
  BY <1>1, <1>2, HandlerIs
<1>4. PICK m \in Messages : m = at[t].msg
  BY <1>3
<1>5. PICK q : /\ q = CreateMsgFromBuffer(Current(t), at[t].msg)
               /\ q \in {"null", "partial", "whole"}
  BY DEF CreateMsgFromBuffer, FactoryOfAny, FactoryOfType
<1>6. PICK x : x = IF q = "null" THEN Resting ELSE [at[t] EXCEPT !.parsed = q]
  OBVIOUS
<1>7. /\ Becomes(t, x) /\ at[t].parsed = "none"
      /\ UNCHANGED <<setup, now, lastCbTimestamp, handlerTimestamp, queue,
                     count, passed, heard>>
  BY <1>5, <1>6 DEF ParseMessage, Wants
<1>8. now \in Nat /\ lastCbTimestamp \in Nat /\ handlerTimestamp \in [Handlers -> Nat]
      /\ queue \in Seq(Messages) /\ passed \in Seq(Passings)
      /\ heard \in [Handlers -> Seq(Calls)] /\ count \in [RateThreads -> Nat]
  BY <1>1 DEF RateTypes
<1>9. \/ x = Resting
      \/ /\ x \in Running /\ x.todo = at[t].todo /\ x.msg = m /\ x.parsed = q
         /\ q # "none"
  <2>1. CASE q = "null"
    BY <1>6, <2>1
  <2>2. CASE q # "null"
    <3>1. x = [at[t] EXCEPT !.parsed = q]
      BY <1>6, <2>2
    <3>2. q \in Parsings /\ q # "none"
      BY <1>5, <2>2 DEF Parsings
    <3>3. x \in Running /\ x.todo = at[t].todo /\ x.msg = at[t].msg
          /\ x.parsed = q
      BY <1>2, <3>1, <3>2, OpChanged
    <3> QED BY <1>4, <3>2, <3>3
  <2> QED BY <2>1, <2>2
<1>10. Move(t, x)
  BY <1>7, <1>9 DEF Move, States
<1>11. x \notin Publishing /\ x \notin Timing
  BY <1>9, StatesApart
<1>12. RateTypes'
  BY <1>1, <1>7, <1>8, <1>10, TypesMove
<1>13. PublisherKept'
  BY <1>1, <1>7, <1>10, <1>11, PublisherOther
<1>14. HandlersKept'
  BY <1>1, <1>7, <1>10, <1>11, HandlersOther
<1>15. Untouched(m) /\ Wanting \subseteq at[t].todo /\ at[t].todo # {}
       /\ at[t].todo \subseteq Suitable
  BY <1>3, <1>4, <1>7 DEF Halfway
<1>16. Underway(t)'
  <2>1. /\ at'[t] = x /\ Wanting' = Wanting /\ Always' = Always
        /\ Suitable' = Suitable /\ setup' = setup
    BY <1>1, <1>10, MoveIs DEF Move
  <2>2. \A n, p : Shared(n, p)' <=> Shared(n, p)
    <3>1. UNCHANGED <<setup, heard>> /\ GivenSame
      BY <1>1, <1>7 DEF MessagesKept
    <3> QED BY <3>1, HeardSame
  <2>3. Shared(m, q)
    BY <1>15 DEF Shared, Untouched, Gotten
  <2>4. Always \subseteq Wanting
    BY DEF Always
  <2>5. ASSUME x \in Running PROVE Halfway(t)'
    <3>1. x.todo = at[t].todo /\ x.msg = m /\ x.parsed = q /\ q # "none"
      BY <1>9, <2>5, StatesApart
    <3>2. at'[t].todo = at[t].todo /\ at'[t].msg = m /\ at'[t].parsed = q
      BY <2>1, <3>1
    <3>3. Shared(m, q)'
      BY <2>2, <2>3
    <3> QED BY <1>15, <2>1, <2>4, <3>1, <3>2, <3>3 DEF Halfway
  <2> QED BY <1>11, <2>1, <2>5 DEF Underway
<1>17. MessagesKept'
  <2>1. UNCHANGED <<queue, count, heard>>
    BY <1>7
  <2>2. x # Resting => x.msg = m
    BY <1>9
  <2> QED BY <1>1, <1>3, <1>4, <1>10, <1>15, <1>16, <2>1, <2>2, QuietKept
<1> QED BY <1>12, <1>13, <1>14, <1>17 DEF RateInv

\* The thread reads the clock for a throttled handler, or goes on.
LEMMA TimingKept ==
    ASSUME RateTypes, MessagesKept, NEW t \in RateThreads, NEW x, Move(t, x),
           at[t] \in Running \/ at[t] \in Timing,
           x \in Timing, x.todo = at[t].todo, x.msg = at[t].msg,
           x.parsed = at[t].parsed,
           Throttled(RateOf(Current(t))),
           at[t].parsed = "none" => setup.handlers[Current(t)].raw,
           UNCHANGED <<queue, count, heard>>
    PROVE  MessagesKept'
<1>1. at[t].msg \in Messages /\ Halfway(t) /\ at[t] # Resting
  BY HandlerIs
<1>2. PICK m, p : m = at[t].msg /\ p = at[t].parsed
  OBVIOUS
<1>3. /\ at'[t] = x /\ Wanting' = Wanting /\ Always' = Always
      /\ Suitable' = Suitable /\ setup' = setup
      /\ \A h : RateOf(h)' = RateOf(h)
  BY MoveIs DEF Move
<1>4. PICK c : c = Current(t) /\ c = Current(t)'
  BY SameCurrent
<1>5. /\ \A n : Untouched(n)' <=> Untouched(n)
      /\ \A h, n : Gotten(h, n)' <=> Gotten(h, n)
      /\ \A n, q : Shared(n, q)' <=> Shared(n, q)
  <2>1. UNCHANGED <<setup, heard>> /\ GivenSame
    BY <1>3 DEF MessagesKept
  <2> QED BY <2>1, HeardSame
<1>6. at'[t].todo = at[t].todo /\ at'[t].msg = m /\ at'[t].parsed = p
  BY <1>2, <1>3
<1>7. Halfway(t)'
  BY <1>1, <1>2, <1>3, <1>5, <1>6 DEF Halfway
<1>8. Throttled(RateOf(c)') /\ (p = "none" => setup'.handlers[c].raw)
  BY <1>2, <1>3, <1>4
<1>9. at'[t] \notin Publishing /\ at'[t] \notin Running /\ x # Resting
  BY <1>3, StatesApart
<1>10. Underway(t)'
  BY <1>4, <1>6, <1>7, <1>8, <1>9 DEF Underway, Throttled
<1> QED BY <1>1, <1>2, <1>9, <1>10, QuietKept

\* The next handler of a message, if there is one.
NextIs(t, x) == x = Run(at[t].todo \ {Current(t)}, at[t].msg, at[t].parsed)

LEMMA NextHandlerIs ==
    ASSUME RateTypes, MessagesKept, NEW t \in RateThreads,
           at[t] \in Running \/ at[t] \in Timing, NEW x, NextIs(t, x)
    PROVE  /\ x \in States
           /\ \/ x = Resting /\ at[t].todo \ {Current(t)} = {}
              \/ /\ x \in Running /\ x.msg = at[t].msg
                 /\ x.parsed = at[t].parsed
                 /\ x.todo = at[t].todo \ {Current(t)}
                 /\ at[t].todo \ {Current(t)} # {}
           /\ x \notin Publishing /\ x \notin Timing
<1> DEFINE T == at[t].todo \ {Current(t)}
<1>1. T \in SUBSET Nat /\ at[t].msg \in Messages /\ at[t].parsed \in Parsings
  BY HandlerIs
<1>2. x = Run(T, at[t].msg, at[t].parsed)
  BY DEF NextIs
<1>3. /\ x \in States
      /\ \/ x = Resting /\ T = {}
         \/ /\ x \in Running /\ x.msg = at[t].msg
            /\ x.parsed = at[t].parsed /\ x.todo = T /\ T # {}
  <2> HIDE DEF T
  <2> QED BY <1>1, <1>2, RunIs
<1> QED BY <1>3, StatesApart

\* A throttled handler is left out.
LEMMA LeftOutKept ==
    ASSUME RateTypes, MessagesKept, NEW t \in RateThreads, NEW x, Move(t, x),
           at[t] \in Timing, NextIs(t, x), UNCHANGED <<queue, count, heard>>
    PROVE  MessagesKept'
<1>1. /\ at[t].msg \in Messages /\ Halfway(t) /\ at[t] # Resting
      /\ Current(t) \in at[t].todo
  BY HandlerIs
<1>2. PICK m, p, h : m = at[t].msg /\ p = at[t].parsed /\ h = Current(t)
  OBVIOUS
<1>3. /\ at'[t] = x /\ Wanting' = Wanting /\ Always' = Always
      /\ Suitable' = Suitable /\ setup' = setup
  BY MoveIs DEF Move
<1>4. /\ \A n : Untouched(n)' <=> Untouched(n)
      /\ \A g, n : Gotten(g, n)' <=> Gotten(g, n)
      /\ \A n, q : Shared(n, q)' <=> Shared(n, q)
  <2>1. UNCHANGED <<setup, heard>> /\ GivenSame
    BY <1>3 DEF MessagesKept
  <2> QED BY <2>1, HeardSame
<1>5. Throttled(RateOf(h)) /\ (p = "none" => setup.handlers[h].raw)
  BY <1>2 DEF MessagesKept, Underway
<1>6. h \notin Always /\ (p = "none" => h \notin Wanting)
  BY <1>5 DEF Always, Wanting
<1>7. /\ p = "none" => Untouched(m) /\ Wanting \subseteq at[t].todo \ {h}
      /\ p # "none" => \A g \in Always : g \in at[t].todo \ {h} \/ Gotten(g, m)
      /\ Shared(m, p) /\ at[t].todo \ {h} \subseteq Suitable
  BY <1>1, <1>2, <1>6 DEF Halfway
<1>8. /\ x \notin Publishing /\ x \notin Timing
      /\ \/ x = Resting /\ at[t].todo \ {h} = {}
         \/ /\ x \in Running /\ x.msg = m /\ x.parsed = p
            /\ x.todo = at[t].todo \ {h} /\ at[t].todo \ {h} # {}
  BY <1>2, NextHandlerIs
<1>9. Underway(t)'
  <2>1. ASSUME x \in Running PROVE Halfway(t)'
    <3>1. x # Resting
      BY <2>1, StatesApart
    <3>2. PICK T : T = at[t].todo \ {h}
      OBVIOUS
    <3>3. at'[t].todo = T /\ at'[t].msg = m /\ at'[t].parsed = p /\ T # {}
      BY <1>3, <1>8, <3>1, <3>2
    <3>4. /\ p = "none" => Untouched(m)' /\ Wanting' \subseteq T
          /\ p # "none" => \A g \in Always' : g \in T \/ Gotten(g, m)'
          /\ Shared(m, p)' /\ T \subseteq Suitable'
      BY <1>3, <1>4, <1>7, <3>2
    <3> QED BY <3>3, <3>4 DEF Halfway
  <2> QED BY <1>3, <1>8, <2>1 DEF Underway
<1>10. x = Resting => Untouched(m) \/ \A g \in Always : Gotten(g, m)
  BY <1>7, <1>8, StatesApart
<1>11. x # Resting => x.msg = m
  BY <1>8
<1> QED BY <1>1, <1>2, <1>9, <1>10, <1>11, QuietKept

LEMMA TestHandlerKept ==
    ASSUME RateInv, NEW t \in RateThreads, TestHandler(t)
    PROVE  RateInv'
<1>1. RateTypes /\ PublisherKept /\ HandlersKept /\ MessagesKept
  BY DEF RateInv
<1>2. at[t] \in Timing
  BY <1>1, OpIs DEF TestHandler
<1>3. /\ Current(t) \in Handlers /\ Halfway(t) /\ at[t] # Resting
      /\ at[t].stamp \in Nat
      /\ Throttled(RateOf(Current(t)))
      /\ at[t].parsed = "none" => setup.handlers[Current(t)].raw
  BY <1>1, <1>2, HandlerIs, OpIs DEF MessagesKept, Underway
<1>4. PICK h \in Handlers : h = Current(t)
  BY <1>3
<1>5. PICK x : /\ Becomes(t, x)
               /\ \/ /\ PeriodOver(at[t].stamp - handlerTimestamp[h], RateOf(h))
                     /\ x = [at[t] EXCEPT !.op = "stamp handler"]
                  \/ NextIs(t, x)
  <2>1. CASE PeriodOver(at[t].stamp - handlerTimestamp[h], RateOf(h))
    BY <1>4, <2>1 DEF TestHandler, RateOf
  <2>2. CASE ~ PeriodOver(at[t].stamp - handlerTimestamp[h], RateOf(h))
    BY <1>4, <2>2 DEF TestHandler, NextHandler, NextIs, RateOf
  <2> QED BY <2>1, <2>2
<1>6. UNCHANGED <<setup, now, lastCbTimestamp, handlerTimestamp, queue,
                  count, passed, heard>>
  BY DEF TestHandler
<1>7. now \in Nat /\ lastCbTimestamp \in Nat /\ handlerTimestamp \in [Handlers -> Nat]
      /\ queue \in Seq(Messages) /\ passed \in Seq(Passings)
      /\ heard \in [Handlers -> Seq(Calls)] /\ count \in [RateThreads -> Nat]
  BY <1>1 DEF RateTypes
<1>8. CASE /\ PeriodOver(at[t].stamp - handlerTimestamp[h], RateOf(h))
           /\ x = [at[t] EXCEPT !.op = "stamp handler"]
  <2>1. /\ x \in Timing /\ x.todo = at[t].todo /\ x.msg = at[t].msg
        /\ x.parsed = at[t].parsed /\ x.stamp = at[t].stamp
    BY <1>2, <1>8, OpChanged
  <2>2. Move(t, x)
    BY <1>5, <1>6, <2>1 DEF Move, States
  <2>3. x \notin Publishing
    BY <2>1, StatesApart
  <2>4. RateTypes'
    BY <1>1, <1>6, <1>7, <2>2, TypesMove
  <2>5. PublisherKept'
    BY <1>1, <1>6, <2>2, <2>3, PublisherOther
  <2>6. HandlersKept'
    <3>1. ASSUME NEW i \in DOMAIN heard[h], AllBy(h, t)
          PROVE  PeriodOver(x.stamp - heard[h][i].time, RateOf(h))
      <4>1. /\ Len(heard[h]) \in Nat /\ DOMAIN heard[h] = 1..Len(heard[h])
            /\ \A k \in DOMAIN heard[h] : heard[h][k] \in Calls
        BY <1>7
      <4>2. PICK n \in DOMAIN heard[h] : n = Len(heard[h]) /\ i <= n
                /\ heard[h] # <<>> /\ (i = n \/ i < n)
        BY <4>1
      <4>3. /\ heard[h][n].time \in Nat /\ heard[h][i].time \in Nat
            /\ RateOf(h) \in Nat /\ x.stamp \in Nat
        <5>1. heard[h][n] \in Calls /\ heard[h][i] \in Calls
          BY <4>1
        <5>2. heard[h][n].time \in Nat /\ heard[h][i].time \in Nat
          BY <5>1 DEF Calls
        <5> QED BY <1>1, <1>3, <2>1, <5>2, SetupIs
      <4>4. handlerTimestamp[h] = heard[h][n].time
        BY <1>1, <1>3, <1>4, <4>2 DEF HandlersKept
      <4>5. PICK a, b \in Int : a = x.stamp - heard[h][i].time
                /\ b = x.stamp - heard[h][n].time
        BY <4>3
      <4>6. PeriodOver(b, RateOf(h))
        BY <1>8, <2>1, <4>4, <4>5
      <4>7. b <= a
        <5>1. CASE i = n
          BY <4>5, <5>1
        <5>2. CASE i < n
          <6>1. PeriodOver(heard[h][n].time - heard[h][i].time, RateOf(h))
            BY <1>1, <1>3, <1>4, <3>1, <5>2 DEF HandlersKept
          <6>2. heard[h][n].time - heard[h][i].time > 0
            <7>1. heard[h][n].time - heard[h][i].time \in Int
              BY <4>3
            <7> QED BY <4>3, <6>1, <7>1, PeriodPositive
          <6> QED BY <4>3, <4>5, <6>2
        <5> QED BY <4>2, <5>1, <5>2
      <4>8. PeriodOver(a, RateOf(h))
        BY <4>3, <4>6, <4>7, PeriodMonotone
      <4> QED BY <4>5, <4>8
    <3>2. PICK c : c = Current(t)' /\ c = h
      BY <1>1, <1>4, <2>1, <2>2, SameCurrent
    <3>3. \A g \in Handlers :
              Throttled(RateOf(g)) /\ Current(t)' = g /\ AllBy(g, t) =>
                  \A i \in DOMAIN heard[g] :
                      PeriodOver(x.stamp - heard[g][i].time, RateOf(g))
      BY <3>1, <3>2
    <3>4. UNCHANGED <<heard, handlerTimestamp>>
      BY <1>6
    <3> QED BY <1>1, <2>2, <3>3, <3>4, HandlersOther
  <2>7. MessagesKept'
    <3>1. UNCHANGED <<queue, count, heard>>
      BY <1>6
    <3> QED BY <1>1, <1>2, <1>3, <2>1, <2>2, <3>1, TimingKept
  <2> QED BY <2>4, <2>5, <2>6, <2>7 DEF RateInv
<1>9. CASE NextIs(t, x)
  <2>1. x \in States /\ x \notin Publishing /\ x \notin Timing
    BY <1>1, <1>2, <1>9, NextHandlerIs
  <2>2. Move(t, x)
    BY <1>5, <1>6, <2>1 DEF Move
  <2>3. RateTypes'
    BY <1>1, <1>6, <1>7, <2>2, TypesMove
  <2>4. PublisherKept'
    BY <1>1, <1>6, <2>1, <2>2, PublisherOther
  <2>5. HandlersKept'
    BY <1>1, <1>6, <2>1, <2>2, HandlersOther
  <2>6. MessagesKept'
    <3>1. UNCHANGED <<queue, count, heard>>
      BY <1>6
    <3> QED BY <1>1, <1>2, <1>9, <2>2, <3>1, LeftOutKept
  <2> QED BY <2>3, <2>4, <2>5, <2>6 DEF RateInv
<1> QED BY <1>5, <1>8, <1>9

(***************************************************************************)
(* A callback.                                                             *)
(***************************************************************************)
CallOf(t, h, time) ==
    [by |-> t, time |-> time, msg |-> at[t].msg,
     given |-> IF setup.handlers[h].raw THEN "data" ELSE at[t].parsed]
CallsBack(h, c) == heard' = [heard EXCEPT ![h] = Append(@, c)]

LEMMA CallsBackIs ==
    ASSUME RateTypes, setup' = setup, NEW h \in Handlers, NEW c \in Calls,
           CallsBack(h, c)
    PROVE  /\ heard' \in [Handlers -> Seq(Calls)]
           /\ Len(heard[h]) \in Nat /\ DOMAIN heard[h] = 1..Len(heard[h])
           /\ DOMAIN heard'[h] = DOMAIN heard[h] \union {Len(heard[h]) + 1}
           /\ Len(heard'[h]) = Len(heard[h]) + 1
           /\ \A k \in DOMAIN heard[h] : heard'[h][k] = heard[h][k]
           /\ heard'[h][Len(heard[h]) + 1] = c
           /\ \A g \in Handlers \ {h} : heard'[g] = heard[g]
           /\ \A g \in Handlers : \A i \in DOMAIN heard[g] :
                 i \in DOMAIN heard'[g] /\ heard'[g][i] = heard[g][i]
           /\ \A g \in Handlers : \A i \in DOMAIN heard'[g] :
                 \/ i \in DOMAIN heard[g] /\ heard'[g][i] = heard[g][i]
                 \/ g = h /\ heard'[g][i] = c
           /\ \A g \in Handlers : \A n :
                 Gotten(g, n)' <=> Gotten(g, n) \/ (g = h /\ n = c.msg)
<1> HIDE DEF Calls
<1>1. heard \in [Handlers -> Seq(Calls)]
  BY DEF RateTypes
<1>2. heard[h] \in Seq(Calls)
  BY <1>1
<1>3. /\ Append(heard[h], c) \in Seq(Calls)
      /\ Len(heard[h]) \in Nat /\ DOMAIN heard[h] = 1..Len(heard[h])
      /\ Len(Append(heard[h], c)) = Len(heard[h]) + 1
      /\ DOMAIN Append(heard[h], c) = DOMAIN heard[h] \union {Len(heard[h]) + 1}
      /\ \A k \in DOMAIN heard[h] : Append(heard[h], c)[k] = heard[h][k]
      /\ Append(heard[h], c)[Len(heard[h]) + 1] = c
  BY <1>2, Appended
<1>4. /\ heard' \in [Handlers -> Seq(Calls)]
      /\ heard'[h] = Append(heard[h], c)
      /\ \A g \in Handlers \ {h} : heard'[g] = heard[g]
  BY <1>1, <1>3 DEF CallsBack
<1>5. /\ DOMAIN heard'[h] = DOMAIN heard[h] \union {Len(heard[h]) + 1}
      /\ Len(heard'[h]) = Len(heard[h]) + 1
      /\ \A k \in DOMAIN heard[h] : heard'[h][k] = heard[h][k]
      /\ heard'[h][Len(heard[h]) + 1] = c
  BY <1>3, <1>4
<1>6. \A g \in Handlers : \A i \in DOMAIN heard[g] :
          i \in DOMAIN heard'[g] /\ heard'[g][i] = heard[g][i]
  <2> TAKE g \in Handlers
  <2>1. CASE g = h
    BY <1>5, <2>1
  <2>2. CASE g # h
    BY <1>4, <2>2
  <2> QED BY <2>1, <2>2
<1>7. \A g \in Handlers : \A i \in DOMAIN heard'[g] :
          \/ i \in DOMAIN heard[g] /\ heard'[g][i] = heard[g][i]
          \/ g = h /\ heard'[g][i] = c
  <2> TAKE g \in Handlers
  <2>1. CASE g = h
    BY <1>5, <2>1
  <2>2. CASE g # h
    BY <1>4, <2>2
  <2> QED BY <2>1, <2>2
<1>8. \A g \in Handlers : \A n :
          Gotten(g, n)' <=> Gotten(g, n) \/ (g = h /\ n = c.msg)
  <2> TAKE g \in Handlers
  <2> TAKE n
  <2>1. Gotten(g, n)' => Gotten(g, n) \/ (g = h /\ n = c.msg)
    BY <1>7 DEF Gotten
  <2>2. Gotten(g, n) => Gotten(g, n)'
    BY <1>6 DEF Gotten
  <2>3. g = h /\ n = c.msg => Gotten(g, n)'
    <3>1. Len(heard[h]) + 1 \in DOMAIN heard'[h]
          /\ heard'[h][Len(heard[h]) + 1] = c
      BY <1>5
    <3> QED BY <3>1 DEF Gotten
  <2> QED BY <2>1, <2>2, <2>3
<1> QED BY <1>3, <1>4, <1>5, <1>6, <1>7, <1>8

LEMMA CallKept ==
    ASSUME RateTypes, MessagesKept, NEW t \in RateThreads, NEW x, Move(t, x),
           at[t] \in Running \/ at[t] \in Timing, NextIs(t, x),
           at[t].parsed = "none" => setup.handlers[Current(t)].raw,
           NEW time \in Nat, NEW c \in Calls,
           c = CallOf(t, Current(t), time), CallsBack(Current(t), c),
           UNCHANGED <<queue, count>>
    PROVE  MessagesKept'
<1>1. /\ Halfway(t) /\ at[t] # Resting /\ Current(t) \in at[t].todo
      /\ Current(t) \in Handlers /\ at[t].msg \in Messages
      /\ at[t].parsed \in Parsings
  BY HandlerIs
<1>2. PICK m, p, h : m = at[t].msg /\ p = at[t].parsed /\ h = Current(t)
  OBVIOUS
<1>3. /\ at'[t] = x /\ Wanting' = Wanting /\ Always' = Always
      /\ Suitable' = Suitable /\ setup' = setup /\ Handlers' = Handlers
  BY MoveIs DEF Move
<1>4. /\ \A g \in Handlers : \A i \in DOMAIN heard[g] :
            i \in DOMAIN heard'[g] /\ heard'[g][i] = heard[g][i]
      /\ \A g \in Handlers : \A i \in DOMAIN heard'[g] :
            \/ i \in DOMAIN heard[g] /\ heard'[g][i] = heard[g][i]
            \/ g = h /\ heard'[g][i] = c
      /\ \A g \in Handlers : \A n :
            Gotten(g, n)' <=> Gotten(g, n) \/ (g = h /\ n = c.msg)
  BY <1>1, <1>2, <1>3, CallsBackIs
<1>5. c.msg = m /\ (h \in Wanting => c.given = p)
  <2>1. c = CallOf(t, h, time)
    BY <1>2
  <2> QED BY <1>2, <2>1 DEF CallOf, Wanting
<1>6. p = "none" => h \notin Wanting
  BY <1>2 DEF Wanting
<1>7. \A g \in Wanting : g \in Handlers
  BY DEF Wanting
<1>8. \A g \in Always : g \in Wanting
  BY DEF Always
<1>9. Shared(m, p)
  BY <1>1, <1>2 DEF Halfway
<1>10. Shared(m, p)'
  BY <1>3, <1>4, <1>5, <1>7, <1>9 DEF Shared
<1>11. p = "none" => Untouched(m)'
  <2>1. p = "none" => Untouched(m)
    BY <1>1, <1>2 DEF Halfway
  <2> QED BY <1>3, <1>4, <1>6, <1>7, <2>1 DEF Untouched
<1>12. p # "none" => \A g \in Always : g \in at[t].todo \ {h} \/ Gotten(g, m)'
  <2>1. p # "none" => \A g \in Always : g \in at[t].todo \/ Gotten(g, m)
    BY <1>1, <1>2 DEF Halfway
  <2> QED BY <1>4, <1>5, <1>7, <1>8, <2>1
<1>13. /\ p = "none" => Wanting \subseteq at[t].todo \ {h}
       /\ at[t].todo \ {h} \subseteq Suitable
  BY <1>1, <1>2, <1>6 DEF Halfway
<1>14. /\ x \notin Publishing /\ x \notin Timing
       /\ \/ x = Resting /\ at[t].todo \ {h} = {}
          \/ /\ x \in Running /\ x.msg = m /\ x.parsed = p
             /\ x.todo = at[t].todo \ {h} /\ at[t].todo \ {h} # {}
  BY <1>2, NextHandlerIs
<1>15. Underway(t)'
  <2>1. ASSUME x \in Running PROVE Halfway(t)'
    <3>1. x # Resting
      BY <2>1, StatesApart
    <3>2. PICK T : T = at[t].todo \ {h}
      OBVIOUS
    <3>3. at'[t].todo = T /\ at'[t].msg = m /\ at'[t].parsed = p /\ T # {}
      BY <1>3, <1>14, <3>1, <3>2
    <3>4. /\ p = "none" => Untouched(m)' /\ Wanting' \subseteq T
          /\ p # "none" => \A g \in Always' : g \in T \/ Gotten(g, m)'
          /\ Shared(m, p)' /\ T \subseteq Suitable'
      BY <1>3, <1>10, <1>11, <1>12, <1>13, <3>2
    <3> QED BY <3>3, <3>4 DEF Halfway
  <2> QED BY <1>3, <1>14, <2>1 DEF Underway
<1>16. GivenSame'
  <2>1. ASSUME NEW f \in Wanting, NEW g \in Wanting,
               NEW i \in DOMAIN heard'[f], NEW j \in DOMAIN heard'[g],
               heard'[f][i].msg = heard'[g][j].msg
        PROVE  heard'[f][i].given = heard'[g][j].given
    <3>1. CASE heard'[f][i].msg = m
      BY <1>3, <1>10, <2>1, <3>1 DEF Shared
    <3>2. CASE heard'[f][i].msg # m
      <4>1. i \in DOMAIN heard[f] /\ heard'[f][i] = heard[f][i]
        BY <1>4, <1>5, <1>7, <3>2
      <4>2. j \in DOMAIN heard[g] /\ heard'[g][j] = heard[g][j]
        BY <1>4, <1>5, <1>7, <2>1, <3>2
      <4> QED BY <2>1, <4>1, <4>2 DEF MessagesKept, GivenSame
    <3> QED BY <3>1, <3>2
  <2> QED BY <1>3, <2>1 DEF GivenSame
<1>17. HeardBut(m)
  <2>1. \A n \in Messages : \A q \in Parsings :
            n # m /\ Shared(n, q) => Shared(n, q)'
    BY <1>3, <1>4, <1>5, <1>7 DEF Shared
  <2> QED BY <1>4, <1>5, <2>1 DEF HeardBut
<1>18. \A g \in Handlers : \A i \in DOMAIN heard'[g] :
           /\ heard'[g][i].msg \in Messages
           /\ Issued(heard'[g][i].msg)
           /\ Gotten(g, heard'[g][i].msg) \/ heard'[g][i].msg = m
  <2> TAKE g \in Handlers
  <2> TAKE i \in DOMAIN heard'[g]
  <2>1. CASE i \in DOMAIN heard[g] /\ heard'[g][i] = heard[g][i]
    <3>1. heard[g][i] \in Calls
      BY <2>1 DEF RateTypes
    <3>2. heard[g][i].msg \in Messages
      BY <3>1 DEF Calls
    <3>3. Issued(heard[g][i].msg)
      BY <2>1 DEF MessagesKept, AllIssued
    <3>4. Gotten(g, heard[g][i].msg)
      BY <2>1 DEF Gotten
    <3> QED BY <2>1, <3>2, <3>3, <3>4
  <2>2. CASE g = h /\ heard'[g][i] = c
    <3>1. Issued(m)
      BY <1>1, <1>2 DEF MessagesKept, AllIssued
    <3> QED BY <1>1, <1>2, <1>5, <2>2, <3>1
  <2> QED BY <1>4, <2>1, <2>2
<1>19. x = Resting => Untouched(m)' \/ \A g \in Always : Gotten(g, m)'
  BY <1>11, <1>12, <1>14, StatesApart
<1>20. x # Resting => x.msg = m
  BY <1>14
<1> QED BY <1>1, <1>2, <1>15, <1>16, <1>17, <1>18, <1>19, <1>20, StayKept

LEMMA EarlierIs ==
    ASSUME NEW n \in Nat, NEW i \in (1..n) \union {n + 1},
           NEW j \in (1..n) \union {n + 1}, i < j
    PROVE  i \in 1..n
OBVIOUS

\* Handlers that are throttled have their stamp from the call.
LEMMA CallTimed ==
    ASSUME RateTypes, HandlersKept, NEW t \in RateThreads, NEW x, Move(t, x),
           x \notin Timing, NEW h \in Handlers, NEW c \in Calls, c.by = t,
           CallsBack(h, c),
           \A g \in Handlers \ {h} : handlerTimestamp'[g] = handlerTimestamp[g],
           Throttled(RateOf(h)) =>
              /\ at[t] \in Timing /\ at[t].op = "stamp handler"
              /\ Current(t) = h /\ c.time = at[t].stamp
              /\ handlerTimestamp'[h] = c.time
    PROVE  HandlersKept'
<1>1. /\ RateThreads' = RateThreads /\ at'[t] = x
      /\ \A u \in RateThreads \ {t} : at'[u] = at[u]
      /\ \A g : RateOf(g)' = RateOf(g)
      /\ Handlers' = Handlers /\ setup' = setup
      /\ \A u \in RateThreads \ {t} : Current(u)' = Current(u)
  BY MoveIs DEF Move
<1>2. /\ Len(heard[h]) \in Nat /\ DOMAIN heard[h] = 1..Len(heard[h])
      /\ DOMAIN heard'[h] = DOMAIN heard[h] \union {Len(heard[h]) + 1}
      /\ Len(heard'[h]) = Len(heard[h]) + 1
      /\ \A k \in DOMAIN heard[h] : heard'[h][k] = heard[h][k]
      /\ heard'[h][Len(heard[h]) + 1] = c
      /\ \A g \in Handlers \ {h} : heard'[g] = heard[g]
  BY <1>1, CallsBackIs
<1>3. ASSUME NEW g \in Handlers \ {h}, Throttled(RateOf(g))
      PROVE  /\ heard'[g] # <<>> =>
                   handlerTimestamp'[g] = heard'[g][Len(heard'[g])].time
             /\ \A u \in RateThreads : AllBy(g, u)' =>
                   /\ \A i, j \in DOMAIN heard'[g] : i < j =>
                         PeriodOver(heard'[g][j].time - heard'[g][i].time,
                                    RateOf(g))
                   /\ at'[u] \in Timing /\ at'[u].op = "stamp handler"
                          /\ Current(u)' = g =>
                         \A i \in DOMAIN heard'[g] :
                             PeriodOver(at'[u].stamp - heard'[g][i].time,
                                        RateOf(g))
  <2>1. heard'[g] = heard[g] /\ handlerTimestamp'[g] = handlerTimestamp[g]
    BY <1>2
  <2>2. \A u : AllBy(g, u)' <=> AllBy(g, u)
    BY <2>1 DEF AllBy
  <2>3. /\ heard[g] # <<>> =>
              handlerTimestamp[g] = heard[g][Len(heard[g])].time
        /\ \A u \in RateThreads : AllBy(g, u) =>
              /\ \A i, j \in DOMAIN heard[g] : i < j =>
                    PeriodOver(heard[g][j].time - heard[g][i].time, RateOf(g))
              /\ at[u] \in Timing /\ at[u].op = "stamp handler"
                     /\ Current(u) = g =>
                    \A i \in DOMAIN heard[g] :
                        PeriodOver(at[u].stamp - heard[g][i].time, RateOf(g))
    BY <1>3 DEF HandlersKept
  <2>4. \A u \in RateThreads : at'[u] \in Timing =>
            at'[u] = at[u] /\ Current(u)' = Current(u)
    BY <1>1
  <2> QED BY <2>1, <2>2, <2>3, <2>4
<1>4. ASSUME Throttled(RateOf(h))
      PROVE  /\ heard'[h] # <<>> =>
                   handlerTimestamp'[h] = heard'[h][Len(heard'[h])].time
             /\ \A u \in RateThreads : AllBy(h, u)' =>
                   /\ \A i, j \in DOMAIN heard'[h] : i < j =>
                         PeriodOver(heard'[h][j].time - heard'[h][i].time,
                                    RateOf(h))
                   /\ at'[u] \in Timing /\ at'[u].op = "stamp handler"
                          /\ Current(u)' = h =>
                         \A i \in DOMAIN heard'[h] :
                             PeriodOver(at'[u].stamp - heard'[h][i].time,
                                        RateOf(h))
  <2>1. handlerTimestamp'[h] = heard'[h][Len(heard'[h])].time
    BY <1>2, <1>4
  <2>2. ASSUME NEW u \in RateThreads, AllBy(h, u)'
        PROVE  u = t /\ AllBy(h, t)
    <3>1. \A i \in DOMAIN heard'[h] : heard'[h][i].by = u
      BY <2>2 DEF AllBy
    <3>2. u = t
      BY <1>2, <3>1
    <3>3. \A i \in DOMAIN heard[h] : heard[h][i].by = t
      BY <1>2, <3>1, <3>2
    <3> QED BY <3>2, <3>3 DEF AllBy
  <2>3. ASSUME AllBy(h, t), NEW i \in DOMAIN heard'[h],
               NEW j \in DOMAIN heard'[h], i < j
        PROVE  PeriodOver(heard'[h][j].time - heard'[h][i].time, RateOf(h))
    <3>1. i \in DOMAIN heard[h] /\ heard'[h][i] = heard[h][i]
      <4>1. /\ Len(heard[h]) \in Nat /\ DOMAIN heard[h] = 1..Len(heard[h])
            /\ DOMAIN heard'[h] = DOMAIN heard[h] \union {Len(heard[h]) + 1}
        BY <1>2
      <4>2. PICK n \in Nat : n = Len(heard[h])
        BY <4>1
      <4>3. DOMAIN heard'[h] = (1..n) \union {n + 1}
        BY <4>1, <4>2
      <4>4. i \in (1..n) \union {n + 1} /\ j \in (1..n) \union {n + 1}
        BY <4>3, Zenon
      <4>5. i \in 1..n
        BY <2>3, <4>4, EarlierIs
      <4>6. i \in DOMAIN heard[h]
        BY <4>1, <4>2, <4>5
      <4> QED BY <1>2, <4>6
    <3>2. CASE j \in DOMAIN heard[h]
      BY <1>2, <1>4, <2>3, <3>1, <3>2 DEF HandlersKept
    <3>3. CASE j = Len(heard[h]) + 1
      <4>1. PeriodOver(at[t].stamp - heard[h][i].time, RateOf(h))
        BY <1>4, <2>3, <3>1 DEF HandlersKept
      <4> QED BY <1>2, <1>4, <3>1, <3>3, <4>1
    <3> QED BY <1>2, <3>2, <3>3
  <2> QED BY <1>1, <2>1, <2>2, <2>3
<1>5. ASSUME NEW g \in Handlers, Throttled(RateOf(g))
      PROVE  /\ heard'[g] # <<>> =>
                   handlerTimestamp'[g] = heard'[g][Len(heard'[g])].time
             /\ \A u \in RateThreads : AllBy(g, u)' =>
                   /\ \A i, j \in DOMAIN heard'[g] : i < j =>
                         PeriodOver(heard'[g][j].time - heard'[g][i].time,
                                    RateOf(g))
                   /\ at'[u] \in Timing /\ at'[u].op = "stamp handler"
                          /\ Current(u)' = g =>
                         \A i \in DOMAIN heard'[g] :
                             PeriodOver(at'[u].stamp - heard'[g][i].time,
                                        RateOf(g))
  <2>1. CASE g = h
    BY <1>4, <1>5, <2>1
  <2>2. CASE g # h
    BY <1>3, <1>5, <2>2
  <2> QED BY <2>1, <2>2
<1> QED BY <1>1, <1>5 DEF HandlersKept, Throttled

LEMMA CallOfIs ==
    ASSUME RateTypes, MessagesKept, NEW t \in RateThreads,
           at[t] \in Running \/ at[t] \in Timing, NEW time \in Nat, NEW h
    PROVE  /\ CallOf(t, h, time) \in Calls /\ CallOf(t, h, time).by = t
           /\ CallOf(t, h, time).time = time
<1>1. at[t].msg \in Messages /\ at[t].parsed \in Parsings
  BY HandlerIs
<1> QED BY <1>1 DEF CallOf, Calls

LEMMA RunHandlerKept ==
    ASSUME RateInv, NEW t \in RateThreads, RunHandler(t)
    PROVE  RateInv'
<1>1. RateTypes /\ PublisherKept /\ HandlersKept /\ MessagesKept
  BY DEF RateInv
<1>2. at[t] \in Running
  BY <1>1, OpIs DEF RunHandler
<1>3. /\ Current(t) \in Handlers /\ Halfway(t) /\ at[t] # Resting
      /\ at[t].todo \in SUBSET Nat /\ at[t].msg \in Messages
      /\ at[t].parsed \in Parsings
  BY <1>1, <1>2, HandlerIs
<1>4. PICK h \in Handlers : h = Current(t)
  BY <1>3
<1>5. at[t].parsed = "none" => setup.handlers[h].raw
  BY <1>4 DEF RunHandler, Wants
<1>6. UNCHANGED <<setup, now, lastCbTimestamp, handlerTimestamp, queue,
                  count, passed>>
  BY DEF RunHandler
<1>7. now \in Nat /\ lastCbTimestamp \in Nat /\ handlerTimestamp \in [Handlers -> Nat]
      /\ queue \in Seq(Messages) /\ passed \in Seq(Passings)
      /\ heard \in [Handlers -> Seq(Calls)] /\ count \in [RateThreads -> Nat]
  BY <1>1 DEF RateTypes
<1>8. CASE Throttled(RateOf(h))
  <2>1. PICK x : x = [op |-> "test handler", todo |-> at[t].todo,
                      msg |-> at[t].msg, parsed |-> at[t].parsed,
                      stamp |-> now]
    OBVIOUS
  <2>2. Becomes(t, x) /\ heard' = heard
    BY <1>4, <1>8, <2>1 DEF RunHandler, RateOf
  <2>3. /\ x \in Timing /\ x.op = "test handler" /\ x.todo = at[t].todo
        /\ x.msg = at[t].msg /\ x.parsed = at[t].parsed
    BY <1>3, <1>7, <2>1 DEF Timing
  <2>4. Move(t, x)
    BY <1>6, <2>2, <2>3 DEF Move, States
  <2>5. x \notin Publishing
    BY <2>3, StatesApart
  <2>6. RateTypes'
    BY <1>1, <1>6, <1>7, <2>2, <2>4, TypesMove
  <2>7. PublisherKept'
    BY <1>1, <1>6, <2>4, <2>5, PublisherOther
  <2>8. HandlersKept'
    <3>1. x.op # "stamp handler" /\ UNCHANGED <<heard, handlerTimestamp>>
      BY <1>6, <2>2, <2>3
    <3> QED BY <1>1, <2>4, <3>1, HandlersOther
  <2>9. MessagesKept'
    <3>1. UNCHANGED <<queue, count, heard>>
      BY <1>6, <2>2
    <3> QED BY <1>1, <1>2, <1>4, <1>5, <1>8, <2>3, <2>4, <3>1, TimingKept
  <2> QED BY <2>6, <2>7, <2>8, <2>9 DEF RateInv
<1>9. CASE ~ Throttled(RateOf(h))
  <2>1. PICK c, x : c = CallOf(t, h, now) /\ NextIs(t, x)
    BY DEF NextIs
  <2>2. Becomes(t, x) /\ CallsBack(h, c)
    BY <1>4, <1>9, <2>1 DEF RunHandler, RateOf, Callback, NextHandler, NextIs,
                            CallOf, CallsBack
  <2>3. x \in States /\ x \notin Publishing /\ x \notin Timing
    BY <1>1, <1>2, <2>1, NextHandlerIs
  <2>4. Move(t, x)
    BY <1>6, <2>2, <2>3 DEF Move
  <2>5. c \in Calls /\ c.by = t
    BY <1>1, <1>2, <1>7, <2>1, CallOfIs
  <2>6. heard' \in [Handlers -> Seq(Calls)]
    BY <1>1, <1>6, <2>2, <2>5, CallsBackIs
  <2>7. RateTypes'
    BY <1>1, <1>6, <1>7, <2>4, <2>6, TypesMove
  <2>8. PublisherKept'
    BY <1>1, <1>6, <2>3, <2>4, PublisherOther
  <2>9. HandlersKept'
    BY <1>1, <1>6, <1>9, <2>2, <2>3, <2>4, <2>5, CallTimed
  <2>10. MessagesKept'
    <3>1. CallsBack(Current(t), c) /\ c = CallOf(t, Current(t), now)
          /\ UNCHANGED <<queue, count>>
          /\ (at[t].parsed = "none" => setup.handlers[Current(t)].raw)
      BY <1>4, <1>5, <1>6, <2>1, <2>2
    <3> QED BY <1>1, <1>2, <1>7, <2>1, <2>4, <2>5, <3>1, CallKept
  <2> QED BY <2>7, <2>8, <2>9, <2>10 DEF RateInv
<1> QED BY <1>8, <1>9

LEMMA StampHandlerKept ==
    ASSUME RateInv, NEW t \in RateThreads, StampHandler(t)
    PROVE  RateInv'
<1>1. RateTypes /\ PublisherKept /\ HandlersKept /\ MessagesKept
  BY DEF RateInv
<1>2. at[t] \in Timing /\ at[t].op = "stamp handler"
  BY <1>1, OpIs DEF StampHandler
<1>3. /\ Current(t) \in Handlers /\ Halfway(t) /\ at[t] # Resting
      /\ at[t].stamp \in Nat
      /\ Throttled(RateOf(Current(t)))
      /\ at[t].parsed = "none" => setup.handlers[Current(t)].raw
  BY <1>1, <1>2, HandlerIs, OpIs DEF MessagesKept, Underway
<1>4. PICK h \in Handlers : h = Current(t)
  BY <1>3
<1>5. PICK time \in Nat : time = at[t].stamp
  BY <1>3
<1>6. PICK c, x : c = CallOf(t, h, time) /\ NextIs(t, x)
  BY DEF NextIs
<1>7. /\ handlerTimestamp' = [handlerTimestamp EXCEPT ![h] = time]
      /\ Becomes(t, x) /\ CallsBack(h, c)
      /\ UNCHANGED <<setup, now, lastCbTimestamp, queue, count, passed>>
  BY <1>4, <1>5, <1>6 DEF StampHandler, Callback, NextHandler, NextIs, CallOf,
                          CallsBack
<1>8. now \in Nat /\ lastCbTimestamp \in Nat /\ handlerTimestamp \in [Handlers -> Nat]
      /\ queue \in Seq(Messages) /\ passed \in Seq(Passings)
      /\ count \in [RateThreads -> Nat]
  BY <1>1 DEF RateTypes
<1>9. /\ handlerTimestamp' \in [Handlers -> Nat] /\ handlerTimestamp'[h] = time
      /\ \A g \in Handlers \ {h} : handlerTimestamp'[g] = handlerTimestamp[g]
  BY <1>7, <1>8
<1>10. x \in States /\ x \notin Publishing /\ x \notin Timing
  BY <1>1, <1>2, <1>6, NextHandlerIs
<1>11. Move(t, x)
  BY <1>7, <1>10 DEF Move
<1>12. c \in Calls /\ c.by = t /\ c.time = time
  BY <1>1, <1>2, <1>6, CallOfIs
<1>13. RateTypes'
  <2>1. heard' \in [Handlers -> Seq(Calls)]
    BY <1>1, <1>7, <1>12, CallsBackIs
  <2> QED BY <1>1, <1>7, <1>8, <1>9, <1>11, <2>1, TypesMove
<1>14. PublisherKept'
  BY <1>1, <1>7, <1>10, <1>11, PublisherOther
<1>15. HandlersKept'
  <2>1. /\ at[t] \in Timing /\ at[t].op = "stamp handler"
        /\ Current(t) = h /\ c.time = at[t].stamp
        /\ handlerTimestamp'[h] = c.time
    BY <1>2, <1>4, <1>5, <1>9, <1>12
  <2> QED BY <1>1, <1>7, <1>9, <1>10, <1>11, <1>12, <2>1, CallTimed
<1>16. MessagesKept'
  <2>1. CallsBack(Current(t), c) /\ c = CallOf(t, Current(t), time)
        /\ UNCHANGED <<queue, count>>
    BY <1>4, <1>6, <1>7
  <2> QED BY <1>1, <1>2, <1>3, <1>6, <1>11, <1>12, <2>1, CallKept
<1> QED BY <1>13, <1>14, <1>15, <1>16 DEF RateInv

LEMMA RateInvStep ==
    ASSUME RateInv, [ThrottleNext]_throttlevars
    PROVE  RateInv'
<1>1. CASE UNCHANGED throttlevars
  <2>1. now' = now /\ UNCHANGED <<setup, lastCbTimestamp, handlerTimestamp,
                                  queue, at, count, passed, heard>>
    BY <1>1 DEF throttlevars
  <2>2. now \in Nat
    BY DEF RateInv, RateTypes
  <2>3. now' \in Nat /\ now <= now'
    BY <2>1, <2>2
  <2> QED BY <2>1, <2>3, OtherRates
<1>2. CASE Tick
  <2>1. now \in Nat
    BY DEF RateInv, RateTypes
  <2>2. /\ now' \in Nat /\ now <= now'
        /\ UNCHANGED <<setup, lastCbTimestamp, handlerTimestamp, queue, at,
                       count, passed, heard>>
    BY <1>2, <2>1 DEF Tick
  <2> QED BY <2>2, OtherRates
<1>3. CASE TakeMessage
  BY <1>3, TakeMessageKept
<1>4. ASSUME NEW damaged \in BOOLEAN, Receive(damaged) PROVE RateInv'
  BY <1>4, ReceiveKept
<1>5. ASSUME NEW t \in setup.users, NEW raw \in BOOLEAN, PublishAtRate(t, raw)
      PROVE  RateInv'
  BY <1>5, PublishAtRateKept
<1>6. ASSUME NEW t \in RateThreads, ThrottledUpdateReady(t) PROVE RateInv'
  BY <1>6, ThrottledUpdateReadyKept
<1>7. ASSUME NEW t \in RateThreads, UpdateThrottling(t) PROVE RateInv'
  BY <1>7, UpdateThrottlingKept
<1>8. ASSUME NEW t \in RateThreads, PublishTo(t) PROVE RateInv'
  BY <1>8, PublishToKept
<1>9. ASSUME NEW t \in RateThreads, ParseMessage(t) PROVE RateInv'
  BY <1>9, ParseMessageKept
<1>10. ASSUME NEW t \in RateThreads, RunHandler(t) PROVE RateInv'
  BY <1>10, RunHandlerKept
<1>11. ASSUME NEW t \in RateThreads, TestHandler(t) PROVE RateInv'
  BY <1>11, TestHandlerKept
<1>12. ASSUME NEW t \in RateThreads, StampHandler(t) PROVE RateInv'
  BY <1>12, StampHandlerKept
<1> QED BY <1>1, <1>2, <1>3, <1>4, <1>5, <1>6, <1>7, <1>8, <1>9, <1>10, <1>11,
           <1>12 DEF ThrottleNext

(***************************************************************************)
(* What the invariant says of the rates.                                   *)
(***************************************************************************)
\* Messages that pass in one period are of different threads.
LEMMA PublishedAtRateKept ==
    ASSUME RateInv
    PROVE  PublishedAtRate
<1>1. RateTypes /\ PublisherKept
  BY DEF RateInv
<1> SUFFICES ASSUME Throttled(setup.msgsPerSec), NEW i \in DOMAIN passed
             PROVE  Cardinality({j \in DOMAIN passed :
                        /\ passed[j].time >= passed[i].time
                        /\ ~ PeriodOver(passed[j].time - passed[i].time,
                                        setup.msgsPerSec)})
                        <= Cardinality(setup.users)
  BY DEF PublishedAtRate
<1> DEFINE W == {j \in DOMAIN passed :
                    /\ passed[j].time >= passed[i].time
                    /\ ~ PeriodOver(passed[j].time - passed[i].time,
                                    setup.msgsPerSec)}
           f == [j \in W |-> passed[j].by]
<1>2. /\ passed \in Seq(Passings) /\ IsFiniteSet(setup.users)
      /\ setup.msgsPerSec \in Nat
  BY <1>1, SetupIs DEF RateTypes
<1>3. \A j \in DOMAIN passed : j \in Int /\ passed[j].time \in Nat
  <2> TAKE j \in DOMAIN passed
  <2>1. passed[j] \in Passings /\ j \in Int
    BY <1>2
  <2> QED BY <2>1 DEF Passings
<1>4. ASSUME NEW j \in W, NEW k \in W, j < k PROVE passed[j].by # passed[k].by
  <2>1. SUFFICES ASSUME passed[j].by = passed[k].by PROVE FALSE
    OBVIOUS
  <2>2. PeriodOver(passed[k].time - passed[j].time, setup.msgsPerSec)
    BY <1>1, <1>4, <2>1 DEF PublisherKept
  <2>3. /\ passed[i].time \in Nat /\ passed[j].time \in Nat
        /\ passed[k].time \in Nat /\ passed[j].time >= passed[i].time
    BY <1>3
  <2>4. PICK a, b \in Int : a = passed[k].time - passed[i].time
            /\ b = passed[k].time - passed[j].time /\ b <= a
    BY <2>3
  <2>5. PeriodOver(a, setup.msgsPerSec)
    BY <1>2, <2>2, <2>4, PeriodMonotone
  <2> QED BY <2>4, <2>5
<1>5. f \in Injection(W, setup.users)
  <2>1. \A j \in W : passed[j].by \in setup.users
    BY <1>1 DEF PublisherKept
  <2>2. \A j, k \in W : passed[j].by = passed[k].by => j = k
    <3> TAKE j, k \in W
    <3>1. j \in Int /\ k \in Int
      BY <1>3
    <3> QED BY <1>4, <3>1
  <2> HIDE DEF W
  <2> QED BY <2>1, <2>2 DEF Injection, IsInjective
<1>6. Cardinality(W) <= Cardinality(setup.users)
  <2> HIDE DEF W, f
  <2> QED BY <1>2, <1>5, FS_Injection
<1> QED BY <1>6

LEMMA HeardAtRateKept ==
    ASSUME RateInv
    PROVE  HeardAtRate
<1>1. RateTypes /\ HandlersKept /\ MessagesKept
  BY DEF RateInv
<1> SUFFICES ASSUME NEW h \in Handlers, Throttled(RateOf(h)),
                    Cardinality({heard[h][i].by : i \in DOMAIN heard[h]}) <= 1,
                    NEW i \in DOMAIN heard[h], NEW j \in DOMAIN heard[h], i < j
             PROVE  PeriodOver(heard[h][j].time - heard[h][i].time, RateOf(h))
  BY DEF HeardAtRate, RateOf
<1> DEFINE S == {heard[h][k].by : k \in DOMAIN heard[h]}
           f == [k \in DOMAIN heard[h] |-> heard[h][k].by]
<1>2. heard[h] \in Seq(Calls)
  BY <1>1 DEF RateTypes
<1>3. IsFiniteSet(S)
  <2>1. Len(heard[h]) \in Nat /\ DOMAIN heard[h] = 1..Len(heard[h])
    BY <1>2
  <2>2. IsFiniteSet(DOMAIN heard[h])
    <3>1. \A n \in Nat : IsFiniteSet(1..n)
      BY FS_Interval
    <3> QED BY <2>1, <3>1, Zenon
  <2>3. f \in Surjection(DOMAIN heard[h], S)
    BY DEF Surjection
  <2> HIDE DEF f, S
  <2> QED BY <2>2, <2>3, FS_Surjection
<1>4. heard[h][i].by \in S
  OBVIOUS
<1>5. \A s \in S : s = heard[h][i].by
  <2> TAKE s \in S
  <2>1. SUFFICES ASSUME s # heard[h][i].by PROVE FALSE
    OBVIOUS
  <2> DEFINE b == heard[h][i].by
  <2>2. {b, s} \subseteq S /\ b # s
    BY <1>4, <2>1
  <2>3. IsFiniteSet({b}) /\ Cardinality({b}) = 1
    BY FS_Singleton
  <2>4. Cardinality({b} \union {s}) = Cardinality({b}) + 1
    <3>1. s \notin {b}
      BY <2>1
    <3> HIDE DEF b, S
    <3> QED BY <2>3, <3>1, FS_AddElement
  <2>5. Cardinality({b, s}) = 2
    <3>1. {b, s} = {b} \union {s}
      OBVIOUS
    <3> HIDE DEF b, S
    <3> QED BY <2>3, <2>4, <3>1
  <2>6. Cardinality({b, s}) <= Cardinality(S)
    <3> HIDE DEF b, S
    <3> QED BY <1>3, <2>2, FS_Subset
  <2>7. Cardinality(S) <= 1 /\ Cardinality(S) \in Nat
    <3>1. Cardinality(S) <= 1
      OBVIOUS
    <3> HIDE DEF S
    <3> QED BY <1>3, <3>1, FS_CardinalityType
  <2> QED BY <2>5, <2>6, <2>7
<1>6. PICK t : t = heard[h][i].by
  OBVIOUS
<1>7. AllBy(h, t)
  BY <1>5, <1>6 DEF AllBy
<1>8. t \in RateThreads
  <2>1. heard[h][i] \in Calls
    BY <1>2
  <2> QED BY <1>6, <2>1 DEF Calls
<1> QED BY <1>1, <1>7, <1>8 DEF HandlersKept

LEMMA SameForAllKept ==
    ASSUME RateInv
    PROVE  SameForAll
<1> DEFINE gotten(h) == {heard[h][i].msg : i \in DOMAIN heard[h]}
           travelling ==
               {at[t].msg : t \in {u \in RateThreads : at[u] # Resting}}
                   \union {queue[i] : i \in DOMAIN queue}
<1>1. AllOrNone /\ GivenSame
  BY DEF RateInv, MessagesKept
<1>2. \A m : Travels(m) => m \in travelling
  BY DEF Travels
<1>3. ASSUME NEW h \in Wanting, NEW m \in gotten(h), m \notin travelling,
             NEW g \in Always
      PROVE  m \in gotten(g)
  <2>1. PICK i \in DOMAIN heard[h] : heard[h][i].msg = m
    OBVIOUS
  <2>2. ~ Travels(m)
    BY <1>2, <1>3
  <2>3. Gotten(g, m)
    BY <1>1, <2>1, <2>2 DEF AllOrNone
  <2> QED BY <2>3 DEF Gotten
<1>4. \A h \in Wanting : \A m \in gotten(h) \ travelling : \A g \in Always :
          m \in gotten(g)
  <2> HIDE DEF gotten, travelling
  <2> QED BY <1>3
<1> QED BY <1>1, <1>4 DEF SameForAll, GivenSame, Wanting, Always, RateOf

(***************************************************************************)
(* What the rates leave out.                                               *)
(***************************************************************************)
Testing == {"test", "test handler"}

\* The clock starts a second after the first time stamps, and a publisher is
\* tested if it is throttled.
TestedLate ==
    /\ now \in Nat /\ now >= Second
    /\ \A t \in RateThreads :
          /\ at[t].op \in Testing => at[t].stamp >= Second
          /\ at[t].op = "test" => Throttled(setup.msgsPerSec)

\* A time stamp is that of the last message let by.
StampsKept ==
    /\ passed = <<>> => lastCbTimestamp = 0
    /\ passed # <<>> => lastCbTimestamp = passed[Len(passed)].time
    /\ \A h \in Handlers : heard[h] = <<>> => handlerTimestamp[h] = 0

LeftInv ==
    /\ TestedLate /\ StampsKept
    /\ \A out \in leftOut : out.of \in Handlers \union {Own}
    /\ LeftOutForRate

LEMMA LeftInvInit == ThrottleInit => LeftInv
<1> SUFFICES ASSUME ThrottleInit PROVE LeftInv
  OBVIOUS
<1>1. TestedLate
  <2>1. \A t \in RateThreads : at[t] = Resting
    BY DEF ThrottleInit
  <2>2. Resting.op = "idle"
    BY StatesApart
  <2>3. now \in Nat /\ now >= Second
    BY ThrottleAssumption DEF ThrottleInit
  <2> HIDE DEF Resting
  <2> QED BY <2>1, <2>2, <2>3 DEF TestedLate, Testing
<1>2. StampsKept
  BY DEF ThrottleInit, StampsKept
<1>3. leftOut = {}
  BY DEF ThrottleInit
<1> QED BY <1>1, <1>2, <1>3 DEF LeftInv, LeftOutForRate

LEMMA TestedLateMove ==
    ASSUME RateTypes, TestedLate, NEW t \in RateThreads, NEW x, Becomes(t, x),
           UNCHANGED <<setup, now>>, x.op \in Testing => x.stamp >= Second,
           x.op = "test" => Throttled(setup.msgsPerSec)
    PROVE  TestedLate'
<1>1. at \in [RateThreads -> States] /\ at' = [at EXCEPT ![t] = x]
  BY DEF RateTypes, Becomes
<1>2. at'[t] = x /\ \A u \in RateThreads \ {t} : at'[u] = at[u]
  BY <1>1
<1>3. RateThreads' = RateThreads /\ now' = now
  BY DEF RateThreads
<1> QED BY <1>2, <1>3 DEF TestedLate, Throttled

\* What was let by stays.
Grows ==
    /\ setup' = setup
    /\ \A i \in DOMAIN passed : i \in DOMAIN passed' /\ passed'[i] = passed[i]
    /\ \A h \in Handlers : \A i \in DOMAIN heard[h] :
          i \in DOMAIN heard'[h] /\ heard'[h][i] = heard[h][i]

LEMMA LeftOutGrows ==
    ASSUME LeftInv, Grows, leftOut' = leftOut
    PROVE  /\ \A out \in leftOut' : out.of \in (Handlers \union {Own})'
           /\ LeftOutForRate'
<1>1. setup' = setup /\ Handlers' = Handlers /\ \A h : AtRate(h)' = AtRate(h)
  BY DEF Grows, Handlers, AtRate
<1>2. \A out \in leftOut' : out.of \in (Handlers \union {Own})'
  BY <1>1 DEF LeftInv, Own
<1>3. \A h \in Handlers \union {Own} : LetBy(h) \subseteq LetBy(h)'
  <2>1. \A h \in Handlers : \A time \in {heard[h][i].time : i \in DOMAIN heard[h]} :
            time \in {heard'[h][i].time : i \in DOMAIN heard'[h]}
    BY DEF Grows
  <2>2. \A time \in {passed[i].time : i \in DOMAIN passed} :
            time \in {passed'[i].time : i \in DOMAIN passed'}
    BY DEF Grows
  <2> QED BY <2>1, <2>2 DEF LetBy
<1>4. ASSUME NEW out \in leftOut
      PROVE  /\ Throttled(AtRate(out.of)')
             /\ \/ AtRate(out.of)' = 0
                \/ \E time \in LetBy(out.of)' :
                      ~ PeriodOver(out.stamp - time, AtRate(out.of)')
  <2>1. /\ out.of \in Handlers \union {Own} /\ Throttled(AtRate(out.of))
        /\ \/ AtRate(out.of) = 0
           \/ \E time \in LetBy(out.of) :
                 ~ PeriodOver(out.stamp - time, AtRate(out.of))
    BY DEF LeftInv, LeftOutForRate
  <2> QED BY <1>1, <1>3, <2>1
<1>5. LeftOutForRate'
  BY <1>4 DEF LeftOutForRate, Throttled, PeriodOver
<1> QED BY <1>2, <1>5

\* A step that lets nothing by and leaves nothing out.
LEMMA LeftQuiet ==
    ASSUME LeftInv, TestedLate',
           UNCHANGED <<setup, lastCbTimestamp, handlerTimestamp, passed, heard,
                       leftOut>>
    PROVE  LeftInv'
<1>1. Grows /\ leftOut' = leftOut
  BY DEF Grows
<1>2. StampsKept'
  BY DEF LeftInv, StampsKept, Handlers
<1> QED BY <1>1, <1>2, LeftOutGrows DEF LeftInv

LEMMA RunOp ==
    \A todo, m, p : Run(todo, m, p).op \notin Testing
BY DEF Run, Resting, Testing

LEMMA BringLeft ==
    ASSUME RateInv, LeftInv,
           \/ \E t \in setup.users, raw \in BOOLEAN : PublishAtRate(t, raw)
           \/ \E damaged \in BOOLEAN : Receive(damaged)
           \/ TakeMessage
    PROVE  LeftInv'
<1>1. RateTypes /\ TestedLate
  BY DEF RateInv, LeftInv
<1>2. UNCHANGED <<setup, now, lastCbTimestamp, handlerTimestamp, passed, heard,
                  leftOut>>
  BY DEF PublishAtRate, Receive, TakeMessage
<1>3. ASSUME NEW t \in setup.users, NEW raw \in BOOLEAN, PublishAtRate(t, raw)
      PROVE  TestedLate'
  <2>1. PICK x : /\ Becomes(t, x) /\ x.stamp = now
                 /\ x.op = "test" => Throttled(setup.msgsPerSec)
    BY <1>3 DEF PublishAtRate
  <2>2. t \in RateThreads
    BY DEF RateThreads
  <2>3. x.op \in Testing => x.stamp >= Second
    BY <1>1, <2>1 DEF TestedLate
  <2> QED BY <1>1, <1>2, <2>1, <2>2, <2>3, TestedLateMove DEF Testing
<1>4. ASSUME NEW damaged \in BOOLEAN, Receive(damaged) PROVE TestedLate'
  <2>1. PICK x : Becomes(ReceptionThread, x) /\ x.op \notin Testing
    BY <1>4, RunOp DEF Receive, Triggered
  <2> QED BY <1>1, <1>2, <2>1, SetupIs, TestedLateMove DEF Testing
<1>5. ASSUME TakeMessage PROVE TestedLate'
  <2>1. PICK x : Becomes(PublishingThread, x) /\ x.op \notin Testing
    BY <1>5, RunOp DEF TakeMessage
  <2> QED BY <1>1, <1>2, <2>1, SetupIs, TestedLateMove DEF Testing
<1> QED BY <1>2, <1>3, <1>4, <1>5, LeftQuiet

LEMMA PassOnLeft ==
    ASSUME RateInv, LeftInv, NEW t \in RateThreads,
           PublishTo(t) \/ ParseMessage(t)
    PROVE  LeftInv'
<1>1. RateTypes /\ TestedLate
  BY DEF RateInv, LeftInv
<1>2. UNCHANGED <<setup, now, lastCbTimestamp, handlerTimestamp, passed, heard,
                  leftOut>>
  BY DEF PublishTo, ParseMessage
<1>3. Resting.op \notin Testing
  BY StatesApart DEF Testing
<1>4. PICK x : Becomes(t, x) /\ x.op \notin Testing
  <2>1. CASE PublishTo(t)
    BY <1>3, <2>1, RunOp DEF PublishTo, Triggered
  <2>2. CASE ParseMessage(t)
    <3>1. at[t] \in Running
      BY <1>1, <2>2, OpIs DEF ParseMessage
    <3>2. \A p : [at[t] EXCEPT !.parsed = p].op = "run"
      BY <3>1 DEF Running
    <3>3. \/ Becomes(t, Resting)
          \/ \E p : Becomes(t, [at[t] EXCEPT !.parsed = p])
      BY <2>2 DEF ParseMessage
    <3> QED BY <1>3, <3>2, <3>3 DEF Testing
  <2> QED BY <2>1, <2>2
<1>5. TestedLate'
  BY <1>1, <1>2, <1>4, TestedLateMove DEF Testing
<1> QED BY <1>2, <1>5, LeftQuiet

LEMMA UpdateThrottlingLeft ==
    ASSUME RateInv, LeftInv, NEW t \in RateThreads, UpdateThrottling(t)
    PROVE  LeftInv'
<1>1. RateTypes /\ TestedLate /\ StampsKept /\ passed \in Seq(Passings)
  BY DEF RateInv, LeftInv, RateTypes
<1>2. PICK e : e = [by |-> t, time |-> now]
  OBVIOUS
<1>3. /\ lastCbTimestamp' = now /\ passed' = Append(passed, e)
      /\ Becomes(t, [at[t] EXCEPT !.op = "push"])
      /\ UNCHANGED <<setup, now, handlerTimestamp, heard, leftOut>>
  BY <1>2 DEF UpdateThrottling, StampOf
<1>4. e \in Passings /\ e.time = now
  <2>1. t \in ThreadIds /\ now \in Nat
    BY <1>1, SetupIs DEF RateTypes
  <2> QED BY <1>2, <2>1 DEF Passings
<1>5. /\ passed' \in Seq(Passings) /\ Len(passed) \in Nat
      /\ DOMAIN passed' = DOMAIN passed \union {Len(passed) + 1}
      /\ \A k \in DOMAIN passed : passed'[k] = passed[k]
      /\ Len(passed') = Len(passed) + 1 /\ passed'[Len(passed) + 1] = e
  <2> HIDE DEF Passings
  <2> QED BY <1>1, <1>3, <1>4, Appended
<1>6. StampsKept'
  <2>1. passed' # <<>>
    BY <1>5
  <2> QED BY <1>1, <1>3, <1>4, <1>5, <2>1 DEF StampsKept, Handlers
<1>7. TestedLate'
  <2>1. at[t] \in Publishing
    BY <1>1, OpIs DEF UpdateThrottling
  <2>2. [at[t] EXCEPT !.op = "push"].op \notin Testing
    BY <2>1 DEF Publishing, Testing
  <2> QED BY <1>1, <1>3, <2>2, TestedLateMove DEF Testing
<1>8. Grows /\ leftOut' = leftOut
  BY <1>3, <1>5 DEF Grows
<1> QED BY <1>6, <1>7, <1>8, LeftOutGrows DEF LeftInv

\* A callback: RunHandler of a handler that is not throttled, StampHandler.
LEMMA CallbackLeft ==
    ASSUME RateInv, LeftInv, NEW t \in RateThreads, NEW time \in Nat,
           at[t] \in Running \/ at[t] \in Timing,
           Callback(t, Current(t), time),
           UNCHANGED <<setup, now, lastCbTimestamp, passed, leftOut>>,
           \A h \in Handlers \ {Current(t)} :
               handlerTimestamp'[h] = handlerTimestamp[h]
    PROVE  LeftInv'
<1>1. RateTypes /\ MessagesKept /\ TestedLate /\ StampsKept
  BY DEF RateInv, LeftInv
<1>2. PICK h \in Handlers : h = Current(t)
  BY <1>1, HandlerIs
<1>3. PICK c : c = CallOf(t, h, time)
  OBVIOUS
<1>4. CallsBack(h, c) /\ NextHandler(t)
  BY <1>2, <1>3 DEF Callback, CallsBack, CallOf
<1>5. c \in Calls
  BY <1>1, <1>3, CallOfIs, HandlerIs
<1>6. /\ \A g \in Handlers : \A i \in DOMAIN heard[g] :
            i \in DOMAIN heard'[g] /\ heard'[g][i] = heard[g][i]
      /\ \A g \in Handlers \ {h} : heard'[g] = heard[g]
      /\ Len(heard[h]) \in Nat /\ Len(heard'[h]) = Len(heard[h]) + 1
  BY <1>1, <1>4, <1>5, CallsBackIs
<1>7. StampsKept'
  <2>1. Handlers' = Handlers
    BY DEF Handlers
  <2>2. heard'[h] # <<>>
    BY <1>6
  <2> QED BY <1>1, <1>2, <1>6, <2>1, <2>2 DEF StampsKept
<1>8. TestedLate'
  <2>1. PICK x : Becomes(t, x) /\ x.op \notin Testing
    BY <1>4, RunOp DEF NextHandler
  <2> QED BY <1>1, <2>1, TestedLateMove DEF Testing
<1>9. Grows /\ leftOut' = leftOut
  BY <1>6 DEF Grows
<1> QED BY <1>7, <1>8, <1>9, LeftOutGrows DEF LeftInv

LEMMA RunHandlerLeft ==
    ASSUME RateInv, LeftInv, NEW t \in RateThreads, RunHandler(t)
    PROVE  LeftInv'
<1>1. RateTypes /\ TestedLate /\ now \in Nat
  BY DEF RateInv, LeftInv, RateTypes
<1>2. UNCHANGED <<setup, now, lastCbTimestamp, handlerTimestamp, passed,
                  leftOut>>
  BY DEF RunHandler
<1>3. CASE Throttled(setup.handlers[Current(t)].msgsPerSec)
  <2>1. PICK x : Becomes(t, x) /\ x.stamp = now /\ x.op = "test handler"
    <3> DEFINE y == [op |-> "test handler", todo |-> at[t].todo,
                     msg |-> at[t].msg, parsed |-> at[t].parsed,
                     stamp |-> now]
    <3>1. y.stamp = now /\ y.op = "test handler"
      OBVIOUS
    <3>2. Becomes(t, y)
      BY <1>3 DEF RunHandler
    <3> HIDE DEF y
    <3> QED BY <3>1, <3>2
  <2>2. heard' = heard
    BY <1>3 DEF RunHandler
  <2>3. x.op \in Testing => x.stamp >= Second
    BY <1>1, <2>1 DEF TestedLate
  <2>4. TestedLate'
    BY <1>1, <1>2, <2>1, <2>3, TestedLateMove DEF Testing
  <2> QED BY <1>2, <2>2, <2>4, LeftQuiet
<1>4. CASE ~ Throttled(setup.handlers[Current(t)].msgsPerSec)
  <2>1. Callback(t, Current(t), now)
    BY <1>4 DEF RunHandler
  <2>2. at[t] \in Running
    BY <1>1, OpIs DEF RunHandler
  <2> QED BY <1>1, <1>2, <2>1, <2>2, CallbackLeft
<1> QED BY <1>3, <1>4

LEMMA StampHandlerLeft ==
    ASSUME RateInv, LeftInv, NEW t \in RateThreads, StampHandler(t)
    PROVE  LeftInv'
<1>1. RateTypes
  BY DEF RateInv
<1>2. at[t] \in Timing /\ at[t].stamp \in Nat
  BY <1>1, OpIs DEF StampHandler
<1>3. /\ Callback(t, Current(t), at[t].stamp)
      /\ handlerTimestamp' =
             [handlerTimestamp EXCEPT ![Current(t)] = at[t].stamp]
      /\ UNCHANGED <<setup, now, lastCbTimestamp, passed, leftOut>>
  BY DEF StampHandler
<1>4. \A h \in Handlers \ {Current(t)} :
          handlerTimestamp'[h] = handlerTimestamp[h]
  BY <1>1, <1>3 DEF RateTypes
<1> QED BY <1>2, <1>3, <1>4, CallbackLeft

\* What is left out now comes too early after the last that was let by.
LEMMA LeavesOutIs ==
    ASSUME RateInv, LeftInv, TestedLate', NEW t \in RateThreads,
           NEW h \in Handlers \union {Own}, LeavesOut(h, t),
           UNCHANGED <<setup, lastCbTimestamp, handlerTimestamp, passed, heard>>,
           Throttled(AtRate(h)),
           \/ AtRate(h) = 0
           \/ \E time \in LetBy(h) :
                 ~ PeriodOver(at[t].stamp - time, AtRate(h))
    PROVE  LeftInv'
<1>1. PICK out : out = [of |-> h, stamp |-> at[t].stamp]
  OBVIOUS
<1>2. leftOut' = leftOut \union {out} /\ out.of = h /\ out.stamp = at[t].stamp
  BY <1>1 DEF LeavesOut
<1>3. \A g : AtRate(g)' = AtRate(g) /\ LetBy(g)' = LetBy(g)
  BY DEF AtRate, LetBy
<1>4. \A o \in leftOut :
          /\ o.of \in Handlers \union {Own}
          /\ Throttled(AtRate(o.of))
          /\ \/ AtRate(o.of) = 0
             \/ \E time \in LetBy(o.of) :
                   ~ PeriodOver(o.stamp - time, AtRate(o.of))
  BY DEF LeftInv, LeftOutForRate
<1>5. \A o \in leftOut' :
          /\ o.of \in Handlers \union {Own}
          /\ Throttled(AtRate(o.of))
          /\ \/ AtRate(o.of) = 0
             \/ \E time \in LetBy(o.of) :
                   ~ PeriodOver(o.stamp - time, AtRate(o.of))
  BY <1>2, <1>4
<1>6. LeftOutForRate' /\ \A o \in leftOut' : o.of \in (Handlers \union {Own})'
  BY <1>3, <1>5 DEF LeftOutForRate, Throttled, PeriodOver, Handlers, Own
<1>7. StampsKept'
  BY DEF LeftInv, StampsKept, Handlers
<1> QED BY <1>6, <1>7 DEF LeftInv

\* A second and more after nothing is a period of any rate but 0.
LEMMA FirstPasses ==
    ASSUME NEW stamp \in Nat, stamp >= Second, NEW rate \in Nat, rate # 0
    PROVE  PeriodOver(stamp - 0, rate)
<1>1. PeriodOver(stamp, rate)
  <2>1. PICK r \in Nat : rate = r + 1
    OBVIOUS
  <2>2. stamp * rate = stamp * r + stamp /\ stamp * r \in Nat
    BY <2>1
  <2> QED BY <2>2, ThrottleAssumption DEF PeriodOver
<1> QED BY <1>1

LEMMA ThrottledUpdateReadyLeft ==
    ASSUME RateInv, LeftInv, NEW t \in RateThreads, ThrottledUpdateReady(t)
    PROVE  LeftInv'
<1>1. RateTypes /\ TestedLate /\ StampsKept /\ passed \in Seq(Passings)
  BY DEF RateInv, LeftInv, RateTypes
<1>2. /\ at[t] \in Publishing /\ at[t].stamp \in Nat /\ at[t].op = "test"
      /\ at[t].stamp >= Second
  BY <1>1, OpIs DEF ThrottledUpdateReady, TestedLate, Testing
<1>3. UNCHANGED <<setup, now, lastCbTimestamp, handlerTimestamp, passed, heard>>
  BY DEF ThrottledUpdateReady
<1>4. CASE PeriodOver(at[t].stamp - lastCbTimestamp, setup.msgsPerSec)
  <2>1. Becomes(t, [at[t] EXCEPT !.op = "stamp"]) /\ leftOut' = leftOut
    BY <1>4 DEF ThrottledUpdateReady
  <2>2. [at[t] EXCEPT !.op = "stamp"].op \notin Testing
    BY <1>2 DEF Publishing, Testing
  <2>3. TestedLate'
    BY <1>1, <1>3, <2>1, <2>2, TestedLateMove DEF Testing
  <2> QED BY <1>3, <2>1, <2>3, LeftQuiet
<1>5. CASE ~ PeriodOver(at[t].stamp - lastCbTimestamp, setup.msgsPerSec)
  <2>1. Becomes(t, Resting) /\ LeavesOut(Own, t)
    BY <1>5 DEF ThrottledUpdateReady
  <2>2. Resting.op \notin Testing
    BY StatesApart DEF Testing
  <2>3. TestedLate'
    BY <1>1, <1>3, <2>1, <2>2, TestedLateMove DEF Testing
  <2>4. AtRate(Own) = setup.msgsPerSec /\ setup.msgsPerSec \in Nat
    BY <1>1, SetupIs DEF AtRate
  <2>5. ASSUME setup.msgsPerSec # 0
        PROVE  \E time \in LetBy(Own) :
                   ~ PeriodOver(at[t].stamp - time, AtRate(Own))
    <3>1. passed # <<>>
      <4>1. SUFFICES ASSUME passed = <<>> PROVE FALSE
        OBVIOUS
      <4>2. lastCbTimestamp = 0
        BY <1>1, <4>1 DEF StampsKept
      <4> QED BY <1>2, <1>5, <2>4, <2>5, <4>2, FirstPasses
    <3>2. Len(passed) \in DOMAIN passed
      BY <1>1, <3>1, LastOf
    <3>3. passed[Len(passed)].time \in LetBy(Own)
      BY <3>2 DEF LetBy
    <3> QED BY <1>1, <1>5, <2>4, <3>1, <3>3 DEF StampsKept
  <2>6. Throttled(AtRate(Own))
    BY <1>1, <1>2, <2>4 DEF TestedLate
  <2> QED BY <1>3, <2>1, <2>3, <2>4, <2>5, <2>6, LeavesOutIs
<1> QED BY <1>4, <1>5

LEMMA TestHandlerLeft ==
    ASSUME RateInv, LeftInv, NEW t \in RateThreads, TestHandler(t)
    PROVE  LeftInv'
<1>1. /\ RateTypes /\ TestedLate /\ StampsKept /\ HandlersKept
      /\ MessagesKept
  BY DEF RateInv, LeftInv
<1>2. /\ at[t] \in Timing /\ at[t].stamp \in Nat /\ at[t].stamp >= Second
  BY <1>1, OpIs DEF TestHandler, TestedLate, Testing
<1>3. PICK h \in Handlers : h = Current(t) /\ Throttled(RateOf(h))
  BY <1>1, <1>2, HandlerIs DEF MessagesKept, Underway
<1>4. UNCHANGED <<setup, now, lastCbTimestamp, handlerTimestamp, passed, heard>>
  BY DEF TestHandler
<1>5. CASE PeriodOver(at[t].stamp - handlerTimestamp[h], RateOf(h))
  <2>1. Becomes(t, [at[t] EXCEPT !.op = "stamp handler"]) /\ leftOut' = leftOut
    BY <1>3, <1>5 DEF TestHandler, RateOf
  <2>2. [at[t] EXCEPT !.op = "stamp handler"].op = "stamp handler"
    BY <1>2 DEF Timing
  <2>3. TestedLate'
    BY <1>1, <1>4, <2>1, <2>2, TestedLateMove DEF Testing
  <2> QED BY <1>4, <2>1, <2>3, LeftQuiet
<1>6. CASE ~ PeriodOver(at[t].stamp - handlerTimestamp[h], RateOf(h))
  <2>1. NextHandler(t) /\ LeavesOut(h, t)
    BY <1>3, <1>6 DEF TestHandler, RateOf
  <2>2. PICK x : Becomes(t, x) /\ x.op \notin Testing
    BY <2>1, RunOp DEF NextHandler
  <2>3. TestedLate'
    BY <1>1, <1>4, <2>2, TestedLateMove DEF Testing
  <2>4. AtRate(h) = RateOf(h) /\ RateOf(h) \in Nat /\ h # Own
    BY <1>1, SetupIs DEF AtRate, RateOf, Own
  <2>5. ASSUME RateOf(h) # 0
        PROVE  \E time \in LetBy(h) :
                   ~ PeriodOver(at[t].stamp - time, AtRate(h))
    <3>1. heard[h] # <<>>
      <4>1. SUFFICES ASSUME heard[h] = <<>> PROVE FALSE
        OBVIOUS
      <4>2. handlerTimestamp[h] = 0
        BY <1>1, <4>1 DEF StampsKept
      <4> QED BY <1>2, <1>6, <2>4, <2>5, <4>2, FirstPasses
    <3>2. heard[h] \in Seq(Calls)
      BY <1>1 DEF RateTypes
    <3>3. Len(heard[h]) \in DOMAIN heard[h]
      <4> HIDE DEF Calls
      <4> QED BY <3>1, <3>2, LastOf
    <3>4. heard[h][Len(heard[h])].time \in LetBy(h)
      BY <2>4, <3>3 DEF LetBy
    <3>5. handlerTimestamp[h] = heard[h][Len(heard[h])].time
      BY <1>1, <1>3, <3>1 DEF HandlersKept
    <3> QED BY <1>6, <2>4, <3>4, <3>5
  <2> QED BY <1>3, <1>4, <2>1, <2>3, <2>4, <2>5, LeavesOutIs
<1> QED BY <1>5, <1>6

LEMMA LeftInvStep ==
    ASSUME RateInv, LeftInv, [ThrottleNext]_throttlevars
    PROVE  LeftInv'
<1>1. CASE UNCHANGED throttlevars
  <2>1. TestedLate'
    BY <1>1 DEF throttlevars, LeftInv, TestedLate, RateThreads, Throttled
  <2> QED BY <1>1, <2>1, LeftQuiet DEF throttlevars
<1>2. CASE Tick
  <2>1. TestedLate'
    BY <1>2, ThrottleAssumption
    DEF Tick, LeftInv, TestedLate, RateThreads, Throttled
  <2> QED BY <1>2, <2>1, LeftQuiet DEF Tick
<1>3. CASE \/ \E t \in setup.users, raw \in BOOLEAN : PublishAtRate(t, raw)
           \/ \E damaged \in BOOLEAN : Receive(damaged)
           \/ TakeMessage
  BY <1>3, BringLeft
<1> QED BY <1>1, <1>2, <1>3, PassOnLeft, ThrottledUpdateReadyLeft,
           UpdateThrottlingLeft, RunHandlerLeft, TestHandlerLeft,
           StampHandlerLeft DEF ThrottleNext

\* Whatever threads do together, none of them passes a publisher twice in a
\* period; the callbacks of a throttled handler are a period apart while one
\* thread runs them; a rate leaves out no message that is a period later than
\* all it let by; and a message that reached a handler that wants it parsed
\* reached all the others that are not throttled, each of which was given the
\* same.
THEOREM RatesCorrect == ThrottleSpec => []RatesKept
<1>1. ThrottleInit => RateInv /\ LeftInv
  BY RateInvInit, LeftInvInit
<1>2. RateInv /\ LeftInv /\ [ThrottleNext]_throttlevars
          => RateInv' /\ LeftInv'
  BY RateInvStep, LeftInvStep
<1>3. RateInv /\ LeftInv => RatesKept
  BY PublishedAtRateKept, HeardAtRateKept, SameForAllKept
  DEF RatesKept, LeftInv
<1> QED BY <1>1, <1>2, <1>3, PTL DEF ThrottleSpec

(***************************************************************************)
(* Together.                                                               *)
(***************************************************************************)
\* Each thread of a throttled publisher passes at most one message in a
\* period, and nothing is left out that comes a period after what was let by;
\* its handlers agree on what they are given, and the network has what the
\* user published, in shared memory or not, every buffer being released once
\* (Node.cc:104-135, SubscriptionHandler.cc:141-160, ShmHelpers.hh:165-186).
THEOREM PublishKeptCorrect == TrafficSpec => []PublishKept
<1>1. RatesKept /\ ShmKept => PublishKept
  BY DEF PublishKept
<1> QED BY <1>1, RatesCorrect, ShmCorrect, PTL DEF TrafficSpec

\* The statistics measure what was received, and count as dropped a gap in the
\* messages of a process, and once each process that is heard of after another
\* and not from its second message on, however many were lost; a clock that is
\* ready shows the last time it received (TopicStatistics.cc:140-168,
\* Clock.cc:99-184).
THEOREM CountsCorrect == TrafficSpec => []CountsAgree
<1>1. StatsAgree /\ ClocksAgree => CountsAgree
  BY DEF CountsAgree
<1> QED BY <1>1, StatsCorrect, ClocksCorrect, PTL DEF TrafficSpec
=============================================================================
