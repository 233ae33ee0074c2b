-------------------------- MODULE SdkClientsProofs --------------------------
(***************************************************************************)
(* No SDK client is lost or handed out closed, for any number of tasks,    *)
(* providers, keys and teardowns.                                          *)
(*                                                                         *)
(* The two invariants lean on each other and on where the lock is: a task  *)
(* inside the close() of a stale client holds it, so that the entry it is  *)
(* about to replace is still in the cache when close() returns; and a      *)
(* cached client is of the provider it is cached for, so that taking one   *)
(* entry out loses no other.                                               *)
(***************************************************************************)
EXTENDS SdkClients, TLAPS

TaskStates == {"idle", "locking", "closing_stale", "ready", "sent", "over", "cancelled"}

ClientRecords == [provider : Providers, key : Keys, state : ClientStates]
TaskRecords == [pc : TaskStates, provider : Providers, key : Keys, client : 0 .. Len(made)]

Typed ==
    /\ made \in Seq(ClientRecords)
    /\ cache \in [Providers -> 0 .. Len(made)]
    /\ task \in [Tasks -> TaskRecords]
    /\ owner \in [pc : {"idle", "closing"}, queue : SUBSET (1 .. Len(made)),
                  left : 0 .. Teardowns]
    /\ abandoned \subseteq 1 .. Len(made)

\* The lock is held exactly across the await of a stale client's close(), and
\* that client is still the cached one.
LockHeld ==
    /\ lock \in {"free"} \cup Tasks
    /\ \A t \in Tasks : task[t].pc = "closing_stale" <=> lock = t
    /\ \A t \in Tasks : task[t].pc = "closing_stale" =>
                           Cached(t) # 0 /\ task[t].client = Cached(t)

\* What is cached for a provider is a client of that provider, and not one that
\* the teardown has taken out.
CacheSound ==
    \A p \in Providers : cache[p] # 0 =>
        /\ made[cache[p]].provider = p
        /\ cache[p] \notin owner.queue
        /\ made[cache[p]].state # "closed"
        /\ made[cache[p]].state = "closing" =>
              \E t \in Tasks : lock = t /\ task[t].client = cache[p]

\* Who still has an open client, or which teardown left it.
Kept(c) == c \in owner.queue \cup abandoned \/ \E p \in Providers : cache[p] = c

SdkInv ==
    /\ Typed
    /\ LockHeld
    /\ CacheSound
    /\ owner.pc = "idle" => owner.queue = {}
    /\ \A c \in 1 .. Len(made) : made[c].state = "open" => Kept(c)

LEMMA InitHolds == Init => SdkInv
<1> SUFFICES ASSUME Init PROVE SdkInv
    OBVIOUS
<1>1. (CHOOSE p \in Providers : TRUE) \in Providers /\ (CHOOSE k \in Keys : TRUE) \in Keys
    BY ProvidersAssumption, KeysAssumption
<1>2. Len(made) = 0
    BY DEF Init
<1>3. Typed
    BY <1>1, <1>2, TeardownsAssumption DEF Init, Typed, ClientRecords, TaskRecords, TaskStates
<1>4. LockHeld
    BY TasksAssumption DEF Init, LockHeld
<1> QED
    BY <1>2, <1>3, <1>4 DEF Init, SdkInv, CacheSound

-----------------------------------------------------------------------------
(* The steps that touch a client, the cache or the lock.                   *)

\* Marking a client changes its state and nothing else.
LEMMA Marking ==
    ASSUME made \in Seq(ClientRecords), NEW c \in 1 .. Len(made), NEW state \in ClientStates
    PROVE  /\ Mark(c, state) \in Seq(ClientRecords) /\ Len(Mark(c, state)) = Len(made)
           /\ Mark(c, state)[c].provider = made[c].provider
           /\ Mark(c, state)[c].state = state
           /\ \A d \in 1 .. Len(made) : d # c => Mark(c, state)[d] = made[d]
<1>1. made[c] \in ClientRecords
    OBVIOUS
<1> DEFINE new == [made[c] EXCEPT !.state = state]
<1>2. new \in ClientRecords /\ new.provider = made[c].provider /\ new.state = state
    BY <1>1 DEF ClientRecords
<1>3. Mark(c, state) = [made EXCEPT ![c] = new]
    BY DEF Mark
<1> HIDE DEF new
<1> QED
    BY <1>2, <1>3

\* The new client is the last one made.
LEMMA MissKeeps == ASSUME SdkInv, NEW t \in Tasks, Miss(t) PROVE SdkInv'
<1> DEFINE new == [provider |-> task[t].provider, key |-> task[t].key, state |-> "open"]
<1>1. /\ made' = Append(made, new)
      /\ cache' = [cache EXCEPT ![task[t].provider] = Len(made) + 1]
      /\ task' = [task EXCEPT ![t].pc = "ready", ![t].client = Len(made) + 1]
      /\ lock' = lock /\ owner' = owner /\ abandoned' = abandoned
      /\ task[t].pc = "locking" /\ lock = "free" /\ cache[task[t].provider] = 0
    BY DEF Miss, CreateFor, Cached
<1>2. new \in ClientRecords
    BY DEF SdkInv, Typed, ClientRecords, TaskRecords, ClientStates
<1>3. /\ Len(made') = Len(made) + 1 /\ Len(made) \in Nat
      /\ made'[Len(made) + 1] = new
      /\ \A c \in 1 .. Len(made) : made'[c] = made[c]
    BY <1>1, <1>2 DEF SdkInv, Typed, ClientRecords, TaskRecords
<1> HIDE DEF new
<1>4. Typed'
    <2>1. made' \in Seq(ClientRecords) /\ cache' \in [Providers -> 0 .. Len(made')]
        BY <1>1, <1>2, <1>3 DEF SdkInv, Typed, TaskRecords
    <2>2. task' \in [Tasks -> TaskRecords']
        BY <1>1, <1>3 DEF SdkInv, Typed, TaskRecords, TaskStates
    <2>3. /\ owner' \in [pc : {"idle", "closing"}, queue : SUBSET (1 .. Len(made')),
                         left : 0 .. Teardowns]
          /\ abandoned' \subseteq 1 .. Len(made')
        BY <1>1, <1>3 DEF SdkInv, Typed
    <2> QED
        BY <2>1, <2>2, <2>3 DEF Typed
<1>5. LockHeld'
    BY <1>1, TasksAssumption DEF SdkInv, Typed, ClientRecords, TaskRecords, LockHeld, Cached
<1>6. CacheSound'
    BY <1>1, <1>3, TasksAssumption DEF SdkInv, Typed, ClientRecords, TaskRecords, CacheSound, new, LockHeld
<1>7. \A c \in 1 .. Len(made') : made'[c].state = "open" => Kept(c)'
    BY <1>1, <1>3 DEF SdkInv, Typed, ClientRecords, TaskRecords, Kept
<1> QED
    BY <1>1, <1>4, <1>5, <1>6, <1>7 DEF SdkInv

LEMMA CloseStaleKeeps == ASSUME SdkInv, NEW t \in Tasks, CloseStale(t) PROVE SdkInv'
<1> DEFINE c0 == cache[task[t].provider]
<1>1. /\ c0 # 0 /\ lock = "free" /\ lock' = t
      /\ made' = Mark(c0, "closing")
      /\ task' = [task EXCEPT ![t].pc = "closing_stale", ![t].client = c0]
      /\ cache' = cache /\ owner' = owner /\ abandoned' = abandoned
    BY DEF CloseStale, Cached, Stale
<1>2. c0 \in 1 .. Len(made)
    BY <1>1 DEF SdkInv, Typed, ClientRecords, TaskRecords
<1>3. /\ made' \in Seq(ClientRecords) /\ Len(made') = Len(made)
      /\ made'[c0].provider = made[c0].provider /\ made'[c0].state = "closing"
      /\ \A c \in 1 .. Len(made) : c # c0 => made'[c] = made[c]
    BY <1>1, <1>2, Marking DEF SdkInv, Typed, ClientStates
<1>4. /\ task' \in [Tasks -> TaskRecords] /\ task'[t].client = c0
      /\ \A u \in Tasks : u # t => task'[u] = task[u]
    BY <1>1, <1>2 DEF SdkInv, Typed, TaskRecords, TaskStates
<1>5. Typed'
    BY <1>1, <1>2, <1>3, <1>4 DEF SdkInv, Typed, TaskRecords
<1>6. LockHeld'
    BY <1>1, TasksAssumption DEF SdkInv, Typed, ClientRecords, TaskRecords, LockHeld, Cached
<1>7. CacheSound'
    <2> SUFFICES ASSUME NEW p \in Providers, cache[p] # 0
                 PROVE  /\ made'[cache[p]].provider = p
                        /\ cache[p] \notin owner.queue
                        /\ made'[cache[p]].state # "closed"
                        /\ made'[cache[p]].state = "closing" => task'[t].client = cache[p]
        BY <1>1 DEF CacheSound
    <2>1. cache[p] \in 1 .. Len(made)
        BY DEF SdkInv, Typed
    <2>2. made[cache[p]].state \notin {"closing", "closed"}
        BY <1>1, TasksAssumption DEF SdkInv, CacheSound
    <2> QED
        BY <1>1, <1>2, <1>3, <1>4, <2>1, <2>2 DEF SdkInv, CacheSound
<1>8. \A c \in 1 .. Len(made') : made'[c].state = "open" => Kept(c)'
    BY <1>1, <1>2, <1>3 DEF SdkInv, Typed, ClientRecords, TaskRecords, Kept
<1> QED
    BY <1>1, <1>5, <1>6, <1>7, <1>8 DEF SdkInv

LEMMA ReplaceStaleKeeps == ASSUME SdkInv, NEW t \in Tasks, ReplaceStale(t) PROVE SdkInv'
<1> DEFINE c0 == task[t].client
           new == [provider |-> task[t].provider, key |-> task[t].key, state |-> "open"]
           clients == Mark(c0, "closed")
<1>1. /\ made' = Append(clients, new)
      /\ cache' = [cache EXCEPT ![task[t].provider] = Len(clients) + 1]
      /\ task' = [task EXCEPT ![t].pc = "ready", ![t].client = Len(clients) + 1]
      /\ lock' = "free" /\ owner' = owner /\ abandoned' = abandoned
      /\ task[t].pc = "closing_stale"
    BY DEF ReplaceStale, CreateFor
<1>2. c0 \in 1 .. Len(made) /\ c0 = cache[task[t].provider] /\ lock = t
    BY <1>1 DEF SdkInv, Typed, ClientRecords, TaskRecords, LockHeld, Cached
<1>3. new \in ClientRecords
    BY DEF SdkInv, Typed, ClientRecords, TaskRecords, ClientStates
<1>4. /\ clients \in Seq(ClientRecords) /\ Len(clients) = Len(made)
      /\ clients[c0].provider = made[c0].provider /\ clients[c0].state = "closed"
      /\ \A c \in 1 .. Len(made) : c # c0 => clients[c] = made[c]
    BY <1>2, Marking DEF SdkInv, Typed, ClientStates
<1> HIDE DEF clients, new
<1>5. /\ made' \in Seq(ClientRecords)
      /\ Len(made') = Len(made) + 1 /\ Len(made) \in Nat
      /\ made'[Len(made) + 1] = new
      /\ made'[c0].provider = made[c0].provider /\ made'[c0].state = "closed"
      /\ \A c \in 1 .. Len(made) : c # c0 => made'[c] = made[c]
    <2>1. Len(made) \in Nat /\ made' = Append(clients, new)
        BY <1>1 DEF SdkInv, Typed
    <2>2. /\ made' \in Seq(ClientRecords) /\ Len(made') = Len(clients) + 1
          /\ made'[Len(clients) + 1] = new
          /\ \A c \in 1 .. Len(clients) : made'[c] = clients[c]
        BY <1>3, <1>4, <2>1
    <2> QED
        BY <1>2, <1>4, <2>1, <2>2
<1>6. Len(clients) = Len(made)
    BY <1>4
<1>7. Typed'
    <2>1. made' \in Seq(ClientRecords) /\ cache' \in [Providers -> 0 .. Len(made')]
        BY <1>1, <1>5, <1>6 DEF SdkInv, Typed, TaskRecords
    <2>2. task' \in [Tasks -> TaskRecords']
        BY <1>1, <1>5, <1>6 DEF SdkInv, Typed, TaskRecords, TaskStates
    <2>3. /\ owner' \in [pc : {"idle", "closing"}, queue : SUBSET (1 .. Len(made')),
                         left : 0 .. Teardowns]
          /\ abandoned' \subseteq 1 .. Len(made')
        BY <1>1, <1>5 DEF SdkInv, Typed
    <2> QED
        BY <2>1, <2>2, <2>3 DEF Typed
<1>8. LockHeld'
    BY <1>1, <1>2, TasksAssumption DEF SdkInv, Typed, ClientRecords, TaskRecords, LockHeld, Cached
<1>9. CacheSound'
    <2> DEFINE q == task[t].provider
               Fit(p) == /\ made'[cache'[p]].provider = p
                         /\ cache'[p] \notin owner'.queue
                         /\ made'[cache'[p]].state \notin {"closing", "closed"}
    <2>1. q \in Providers /\ new.provider = q /\ new.state = "open"
        BY DEF SdkInv, Typed, TaskRecords, new
    <2>2. cache'[q] = Len(made) + 1 /\ \A p \in Providers : p # q => cache'[p] = cache[p]
        BY <1>1, <1>6, <2>1 DEF SdkInv, Typed
    <2>3. Fit(q)
        BY <1>1, <1>5, <2>1, <2>2 DEF SdkInv, Typed
    <2>4. ASSUME NEW p \in Providers, p # q, cache[p] # 0
          PROVE  Fit(p)
        <3>1. /\ cache[p] \in 1 .. Len(made) /\ made[cache[p]].provider = p
              /\ made[c0].provider = q /\ cache[p] # c0
            BY <1>2, <2>1, <2>4 DEF SdkInv, Typed, CacheSound
        <3>2. made[cache[p]].state \notin {"closing", "closed"}
            BY <1>2, <2>4, <3>1 DEF SdkInv, CacheSound
        <3> QED
            BY <1>1, <1>5, <2>2, <2>4, <3>1, <3>2 DEF SdkInv, CacheSound
    <2> HIDE DEF Fit
    <2>5. ASSUME NEW p \in Providers, cache'[p] # 0 PROVE Fit(p)
        BY <2>2, <2>3, <2>4, <2>5
    <2> QED
        BY <2>5 DEF CacheSound, Fit
<1>10. \A c \in 1 .. Len(made') : made'[c].state = "open" => Kept(c)'
    <2> SUFFICES ASSUME NEW c \in 1 .. Len(made'), made'[c].state = "open",
                        c \notin owner.queue \cup abandoned
                 PROVE  \E p \in Providers : cache'[p] = c
        BY <1>1 DEF Kept
    <2>1. task[t].provider \in Providers
        BY DEF SdkInv, Typed, TaskRecords
    <2>2. CASE c = Len(made) + 1
        BY <1>1, <1>6, <2>1, <2>2 DEF SdkInv, Typed
    <2>3. CASE c \in 1 .. Len(made)
        <3>1. c # c0 /\ made[c].state = "open"
            BY <1>5, <2>3
        <3>2. PICK p \in Providers : cache[p] = c
            BY <2>3, <3>1 DEF SdkInv, Kept
        <3> QED
            BY <1>1, <1>2, <3>1, <3>2 DEF SdkInv, Typed
    <2> QED
        BY <1>5, <2>2, <2>3
<1> QED
    BY <1>1, <1>7, <1>8, <1>9, <1>10 DEF SdkInv

LEMMA StaleCloseFailsKeeps == ASSUME SdkInv, NEW t \in Tasks, StaleCloseFails(t) PROVE SdkInv'
<1> DEFINE c0 == task[t].client
<1>1. /\ task[t].pc = "closing_stale" /\ lock' = "free"
      /\ made' = Mark(c0, "torn")
      /\ task' = [task EXCEPT ![t].pc = "over", ![t].client = 0]
      /\ cache' = cache /\ owner' = owner /\ abandoned' = abandoned
    BY DEF StaleCloseFails
<1>2. c0 \in 1 .. Len(made) /\ c0 = cache[task[t].provider] /\ lock = t
    BY <1>1 DEF SdkInv, Typed, ClientRecords, TaskRecords, LockHeld, Cached
<1>3. /\ made' \in Seq(ClientRecords) /\ Len(made') = Len(made)
      /\ made'[c0].provider = made[c0].provider /\ made'[c0].state = "torn"
      /\ \A c \in 1 .. Len(made) : c # c0 => made'[c] = made[c]
    BY <1>1, <1>2, Marking DEF SdkInv, Typed, ClientStates
<1>4. task' \in [Tasks -> TaskRecords]
    <2>1. 0 \in 0 .. Len(made) /\ task \in [Tasks -> TaskRecords]
        BY DEF SdkInv, Typed
    <2> QED
        BY <1>1, <2>1 DEF TaskRecords, TaskStates
<1>5. Typed'
    BY <1>1, <1>2, <1>3, <1>4 DEF SdkInv, Typed, TaskRecords
<1>6. LockHeld'
    BY <1>1, <1>2, TasksAssumption DEF SdkInv, Typed, ClientRecords, TaskRecords, LockHeld, Cached
<1>7. CacheSound'
    BY <1>1, <1>2, <1>3, TasksAssumption DEF SdkInv, Typed, ClientRecords, TaskRecords, CacheSound, LockHeld
<1>8. \A c \in 1 .. Len(made') : made'[c].state = "open" => Kept(c)'
    BY <1>1, <1>2, <1>3 DEF SdkInv, Typed, ClientRecords, TaskRecords, Kept
<1> QED
    BY <1>1, <1>5, <1>6, <1>7, <1>8 DEF SdkInv

\* The teardown takes every cached client, none of which is in a close().
LEMMA TakeKeeps == ASSUME SdkInv, Take PROVE SdkInv'
<1>1. /\ owner.pc = "idle" /\ owner.left > 0 /\ lock = "free"
      /\ owner' = [pc |-> "closing", queue |-> CachedClients, left |-> owner.left - 1]
      /\ cache' = [p \in Providers |-> 0]
      /\ made' = made /\ lock' = lock /\ task' = task /\ abandoned' = abandoned
    BY DEF Take
<1>2. CachedClients \subseteq 1 .. Len(made)
    BY DEF CachedClients, SdkInv, Typed, ClientRecords, TaskRecords
<1>3. Typed'
    BY <1>1, <1>2, TeardownsAssumption DEF SdkInv, Typed, ClientRecords, TaskRecords
<1>4. LockHeld'
    BY <1>1, TasksAssumption DEF SdkInv, LockHeld
<1>5. \A c \in 1 .. Len(made') : made'[c].state = "open" => Kept(c)'
    BY <1>1 DEF SdkInv, Kept, CachedClients
<1> QED
    BY <1>1, <1>3, <1>4, <1>5 DEF SdkInv, CacheSound

\* It closes only clients that are out of the cache, and what it no longer has
\* in its queue is closed or abandoned.
LEMMA TeardownClosesKeep ==
    ASSUME SdkInv, owner.pc = "closing", NEW c0 \in owner.queue,
           NEW state \in {"closed", "torn"}, made' = Mark(c0, state),
           owner' \in [pc : {"idle", "closing"}, queue : SUBSET owner.queue,
                      left : 0 .. Teardowns],
           owner'.pc = "idle" => owner'.queue = {},
           abandoned' \subseteq abandoned \cup owner.queue,
           (owner.queue \cup abandoned) \ {c0} \subseteq owner'.queue \cup abandoned',
           UNCHANGED <<cache, lock, task>>
    PROVE  SdkInv'
<1>1. c0 \in 1 .. Len(made) /\ owner.queue \subseteq 1 .. Len(made)
    BY DEF SdkInv, Typed
<1>2. /\ made' \in Seq(ClientRecords) /\ Len(made') = Len(made)
      /\ made'[c0].provider = made[c0].provider /\ made'[c0].state = state
      /\ \A c \in 1 .. Len(made) : c # c0 => made'[c] = made[c]
    BY <1>1, Marking DEF SdkInv, Typed, ClientStates
<1>3. Typed'
    <2>1. made' \in Seq(ClientRecords) /\ cache' \in [Providers -> 0 .. Len(made')]
          /\ task' \in [Tasks -> TaskRecords']
        BY <1>2 DEF SdkInv, Typed, TaskRecords
    <2>2. owner' \in [pc : {"idle", "closing"}, queue : SUBSET (1 .. Len(made')),
                     left : 0 .. Teardowns]
        BY <1>1, <1>2
    <2>3. abandoned' \subseteq 1 .. Len(made')
        BY <1>1, <1>2 DEF SdkInv, Typed
    <2> QED
        BY <2>1, <2>2, <2>3 DEF Typed
<1>4. LockHeld'
    BY DEF SdkInv, LockHeld, Cached
<1>5. \A p \in Providers : cache[p] # c0
    BY <1>1 DEF SdkInv, CacheSound
<1>6. CacheSound'
    <2> SUFFICES ASSUME NEW p \in Providers, cache[p] # 0
                 PROVE  /\ made'[cache[p]].provider = p
                        /\ cache[p] \notin owner'.queue
                        /\ made'[cache[p]].state # "closed"
                        /\ made'[cache[p]].state = "closing" =>
                              \E t \in Tasks : lock = t /\ task[t].client = cache[p]
        BY DEF CacheSound
    <2>1. cache[p] \in 1 .. Len(made) /\ made'[cache[p]] = made[cache[p]]
        BY <1>2, <1>5 DEF SdkInv, Typed
    <2> QED
        BY <2>1 DEF SdkInv, CacheSound
<1>7. \A c \in 1 .. Len(made') : made'[c].state = "open" => Kept(c)'
    BY <1>1, <1>2 DEF SdkInv, Kept
<1> QED
    BY <1>3, <1>4, <1>6, <1>7 DEF SdkInv

LEMMA CloseTakenKeeps == ASSUME SdkInv, CloseTaken PROVE SdkInv'
<1>1. PICK c0 \in owner.queue, state \in {"closed", "torn"} :
          /\ made' = Mark(c0, state)
          /\ owner' = [owner EXCEPT !.queue = @ \ {c0}]
    BY DEF CloseTaken
<1>2. owner.pc = "closing" /\ abandoned' = abandoned /\ UNCHANGED <<cache, lock, task>>
    BY DEF CloseTaken
<1>3. /\ owner' \in [pc : {"idle", "closing"}, queue : SUBSET owner.queue, left : 0 .. Teardowns]
      /\ owner'.pc = "closing" /\ owner'.queue = owner.queue \ {c0}
    BY <1>1, <1>2 DEF SdkInv, Typed
<1> QED
    BY <1>1, <1>2, <1>3, TeardownClosesKeep

\* A cancelled teardown tears the client it is at and abandons the others.
LEMMA CancelTeardownKeeps == ASSUME SdkInv, CancelTeardown PROVE SdkInv'
<1>1. CASE owner.pc = "closing"
    <2>1. PICK c0 \in owner.queue : /\ made' = Mark(c0, "torn")
                                   /\ abandoned' = abandoned \cup (owner.queue \ {c0})
        BY <1>1 DEF CancelTeardown
    <2>2. owner' = [owner EXCEPT !.pc = "idle", !.queue = {}] /\ UNCHANGED <<cache, lock, task>>
        BY <1>1 DEF CancelTeardown
    <2>3. /\ owner' \in [pc : {"idle", "closing"}, queue : SUBSET owner.queue, left : 0 .. Teardowns]
          /\ owner'.queue = {}
        BY <2>2 DEF SdkInv, Typed
    <2> QED
        BY <1>1, <2>1, <2>2, <2>3, TeardownClosesKeep
<1>2. CASE owner.pc = "idle"
    <2>1. /\ owner' = [owner EXCEPT !.left = @ - 1] /\ owner.left > 0
          /\ UNCHANGED <<made, abandoned, cache, lock, task>>
        BY <1>2 DEF CancelTeardown
    <2>2. /\ owner' \in [pc : {"idle", "closing"}, queue : SUBSET (1 .. Len(made)),
                         left : 0 .. Teardowns]
          /\ owner'.pc = owner.pc /\ owner'.queue = owner.queue
        BY <2>1, TeardownsAssumption DEF SdkInv, Typed
    <2> QED
        <3>1. Typed'
            BY <2>1, <2>2 DEF SdkInv, Typed, TaskRecords
        <3>2. LockHeld' /\ CacheSound'
            BY <2>1, <2>2 DEF SdkInv, LockHeld, CacheSound, Cached
        <3> QED
            BY <2>1, <2>2, <3>1, <3>2 DEF SdkInv, Kept
<1> QED
    BY <1>1, <1>2 DEF SdkInv, Typed

-----------------------------------------------------------------------------
(* The steps of one task that touch nothing shared.                        *)

\* A task outside close() stays outside, with a client it was given.
LEMMA TaskMovesKeep ==
    ASSUME SdkInv, NEW t \in Tasks, task[t].pc # "closing_stale",
           task' \in [Tasks -> TaskRecords], task'[t].pc # "closing_stale",
           \A u \in Tasks : u # t => task'[u] = task[u],
           UNCHANGED <<made, cache, lock, owner, abandoned>>
    PROVE  SdkInv'
<1>1. Typed'
    BY DEF SdkInv, Typed, ClientRecords, TaskRecords
<1>2. lock # t
    BY DEF SdkInv, LockHeld
<1>3. LockHeld'
    BY <1>2 DEF SdkInv, LockHeld, Cached
<1>4. CacheSound'
    BY <1>2 DEF SdkInv, CacheSound
<1>5. \A d \in 1 .. Len(made') : made'[d].state = "open" => Kept(d)'
    BY DEF SdkInv, Kept
<1> QED
    BY <1>1, <1>3, <1>4, <1>5 DEF SdkInv

LEMMA OwnStepsKeep ==
    ASSUME SdkInv, NEW t \in Tasks, Ask(t) \/ Hit(t) \/ Send(t) \/ End(t) \/ Cancel(t)
    PROVE  SdkInv'
<1>1. task \in [Tasks -> TaskRecords] /\ cache \in [Providers -> 0 .. Len(made)]
      /\ 0 \in 0 .. Len(made)
    BY DEF SdkInv, Typed
<1>2. CASE Ask(t)
    <2>1. PICK p \in Providers, k \in Keys :
             task' = [task EXCEPT ![t] = [pc |-> "locking", provider |-> p, key |-> k,
                                          client |-> 0]]
        BY <1>2 DEF Ask
    <2>2. /\ task' \in [Tasks -> TaskRecords] /\ task'[t].pc = "locking"
          /\ \A u \in Tasks : u # t => task'[u] = task[u]
        BY <1>1, <2>1 DEF TaskRecords, TaskStates
    <2> QED
        BY <1>2, <2>2, TaskMovesKeep DEF Ask
<1>3. CASE Hit(t)
    <2>1. /\ task' \in [Tasks -> TaskRecords] /\ task'[t].pc = "ready"
          /\ \A u \in Tasks : u # t => task'[u] = task[u]
        BY <1>1, <1>3 DEF Hit, Cached, TaskRecords, TaskStates
    <2> QED
        BY <1>3, <2>1, TaskMovesKeep DEF Hit
<1>4. CASE Send(t) \/ End(t) \/ Cancel(t)
    <2>1. PICK pc \in {"sent", "over", "cancelled"} : task' = [task EXCEPT ![t].pc = pc]
        BY <1>4 DEF Send, End, Cancel
    <2>2. /\ task' \in [Tasks -> TaskRecords] /\ task'[t].pc = pc
          /\ \A u \in Tasks : u # t => task'[u] = task[u]
        BY <1>1, <2>1 DEF TaskRecords, TaskStates
    <2> QED
        BY <1>4, <2>2, TaskMovesKeep DEF Send, End, Cancel
<1> QED
    BY <1>2, <1>3, <1>4

LEMMA Inductive == SdkInv /\ [Next]_vars => SdkInv'
<1> SUFFICES ASSUME SdkInv, [Next]_vars PROVE SdkInv'
    OBVIOUS
<1>1. CASE UNCHANGED vars
    BY <1>1 DEF vars, SdkInv, Typed, ClientRecords, TaskRecords, LockHeld, CacheSound, Kept, Cached
<1>2. ASSUME NEW t \in Tasks, Ask(t) \/ Proceed(t) \/ Cancel(t)
      PROVE  SdkInv'
    BY <1>2, MissKeeps, CloseStaleKeeps, ReplaceStaleKeeps, StaleCloseFailsKeeps,
       OwnStepsKeep DEF Proceed
<1>3. CASE Closed
    BY <1>3 DEF Closed, SdkInv, Typed, ClientRecords, TaskRecords, LockHeld, CacheSound, Kept, Cached
<1>4. CASE Take \/ CloseTaken \/ CancelTeardown
    BY <1>4, TakeKeeps, CloseTakenKeeps, CancelTeardownKeeps
<1> QED
    BY <1>1, <1>2, <1>3, <1>4 DEF Next, Teardown

LEMMA Always == Spec => []SdkInv
BY InitHolds, Inductive, PTL DEF Spec

-----------------------------------------------------------------------------
(* What holds of every schedule.                                           *)

\* The variables keep their types.
THEOREM SdkTypes == Spec => []TypeOK
<1>1. SdkInv => TypeOK
    <2> SUFFICES ASSUME SdkInv PROVE TypeOK
        OBVIOUS
    <2>1. \A c \in Clients : made[c] \in ClientRecords
        BY DEF SdkInv, Typed, Clients
    <2>2. Clients = 1 .. Len(made) /\ {0} \cup Clients = 0 .. Len(made)
        BY DEF SdkInv, Typed, Clients
    <2>3. \A t \in Tasks : task[t] \in TaskRecords
        BY DEF SdkInv, Typed
    <2> HIDE DEF Clients
    <2> QED
        BY <2>1, <2>2, <2>3 DEF SdkInv, Typed, ClientRecords, TaskRecords, LockHeld, TypeOK
<1> QED
    BY <1>1, Always, PTL

\* Every open client is in the cache or in the hands of a teardown, or a
\* teardown that was cancelled at another client's close() had it.
THEOREM ClientsAreKept == Spec => []NoClientLost
<1>1. SdkInv => NoClientLost
    BY DEF SdkInv, Typed, ClientRecords, TaskRecords, NoClientLost, Kept, CachedClients, Clients
<1> QED
    BY <1>1, Always, PTL

\* No closed client is in the cache, and one task at a time closes a stale one.
THEOREM CacheIsOpen == Spec => []ClosedIsOutOfCache
<1>1. SdkInv => ClosedIsOutOfCache
    BY DEF SdkInv, LockHeld, CacheSound, ClosedIsOutOfCache, CachedClients
<1> QED
    BY <1>1, Always, PTL
=============================================================================
