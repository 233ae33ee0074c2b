----------------------------- MODULE SdkClients -----------------------------
(***************************************************************************)
(* The SDK client cache of ProviderTransport (adapters/secondary/llm/      *)
(* transport.py): sdk_client, aclose and one physical round trip, _invoke, *)
(* by concurrent asyncio tasks.                                            *)
(*                                                                         *)
(* Tasks interleave only where the code awaits: on a contended lock, on    *)
(* the close() of a stale client (the one await inside the lock), on the   *)
(* round trip, and on each close() of the teardown.  Everything between    *)
(* two awaits is one action.  A task can be cancelled at any await, and so *)
(* can the teardown: asyncio.run cancels the main task on Ctrl-C.          *)
(***************************************************************************)
EXTENDS Integers, Sequences, FiniteSets

CONSTANTS
    Tasks,      \* concurrent generate_structured calls, one round trip each
    Providers,
    Keys,       \* API keys seen for one provider: more than one after an in-place mutation
    Teardowns   \* how often aclose is called

ASSUME TasksAssumption == "free" \notin Tasks
ASSUME ProvidersAssumption == Providers # {}
ASSUME KeysAssumption == Keys # {}
ASSUME TeardownsAssumption == Teardowns \in Nat

VARIABLES
    made,      \* SDK clients in order of creation: [provider, key, state]
    cache,     \* _clients: provider -> index into made, 0 for none
    lock,      \* the task that holds _lock, or "free"
    task,      \* [pc, provider, key, client] of every task
    owner,     \* aclose: [pc, queue, left], queue being its local list
    abandoned, \* history: clients a cancelled aclose had taken and not come to
    attempts,  \* history: physical_attempt events of every task ...
    ends       \* ... and physical_request or physical_failed events

vars == <<made, cache, lock, task, owner, abandoned, attempts, ends>>

\* The states of a client: open; a close() under way; closed; or torn, when
\* close() raised or was cancelled.
ClientStates == {"open", "closing", "closed", "torn"}
Mark(c, state) == [made EXCEPT ![c].state = state]

-----------------------------------------------------------------------------
\* sdk_client.

Ask(t) ==
    /\ task[t].pc = "idle"
    /\ \E p \in Providers, k \in Keys :
          task' = [task EXCEPT ![t] = [pc |-> "locking", provider |-> p, key |-> k, client |-> 0]]
    /\ UNCHANGED <<made, cache, lock, owner, abandoned, attempts, ends>>

Cached(t) == cache[task[t].provider]
Stale(t) == Cached(t) # 0 /\ made[Cached(t)].key # task[t].key

\* The lock is free and the fingerprint matches: the cached client.
Hit(t) ==
    /\ task[t].pc = "locking" /\ lock = "free"
    /\ Cached(t) # 0 /\ ~Stale(t)
    /\ task' = [task EXCEPT ![t].pc = "ready", ![t].client = Cached(t)]
    /\ UNCHANGED <<made, cache, lock, owner, abandoned, attempts, ends>>

\* A client is created and cached, before anything else can run.
CreateFor(t, clients) ==
    /\ made' = Append(clients, [provider |-> task[t].provider, key |-> task[t].key,
                                state |-> "open"])
    /\ cache' = [cache EXCEPT ![task[t].provider] = Len(clients) + 1]
    /\ task' = [task EXCEPT ![t].pc = "ready", ![t].client = Len(clients) + 1]

Miss(t) ==
    /\ task[t].pc = "locking" /\ lock = "free"
    /\ Cached(t) = 0
    /\ CreateFor(t, made)
    /\ UNCHANGED <<lock, owner, abandoned, attempts, ends>>

\* A slip: the stale client is closed without the lock.
CloseStaleUnlocked(t) ==
    /\ task[t].pc = "locking" /\ lock = "free"
    /\ Stale(t)
    /\ made' = Mark(Cached(t), "closing")
    /\ task' = [task EXCEPT ![t].pc = "closing_stale", ![t].client = Cached(t)]
    /\ UNCHANGED <<cache, lock, owner, abandoned, attempts, ends>>

\* Another key: the cached client is closed, with the lock held.
CloseStale(t) ==
    /\ task[t].pc = "locking" /\ lock = "free"
    /\ Stale(t)
    /\ lock' = t
    /\ made' = Mark(Cached(t), "closing")
    /\ task' = [task EXCEPT ![t].pc = "closing_stale", ![t].client = Cached(t)]
    /\ UNCHANGED <<cache, owner, abandoned, attempts, ends>>

\* ... and replaced when close() returns.
ReplaceStale(t) ==
    /\ task[t].pc = "closing_stale"
    /\ CreateFor(t, Mark(task[t].client, "closed"))
    /\ lock' = "free"
    /\ UNCHANGED <<owner, abandoned, attempts, ends>>

\* A slip: the lock is not released on the way out of a failed close().
StaleCloseFailsLocked(t) ==
    /\ task[t].pc = "closing_stale"
    /\ made' = Mark(task[t].client, "torn")
    /\ task' = [task EXCEPT ![t].pc = "over", ![t].client = 0]
    /\ UNCHANGED <<cache, lock, owner, abandoned, attempts, ends>>

\* close() raises, or the task is cancelled in it: the entry stays in the cache.
StaleCloseFails(t) ==
    /\ task[t].pc = "closing_stale"
    /\ made' = Mark(task[t].client, "torn")
    /\ lock' = "free"
    /\ task' = [task EXCEPT ![t].pc = "over", ![t].client = 0]
    /\ UNCHANGED <<cache, owner, abandoned, attempts, ends>>

-----------------------------------------------------------------------------
\* _invoke.

Send(t) ==
    /\ task[t].pc = "ready"
    /\ attempts' = [attempts EXCEPT ![t] = @ + 1]
    /\ task' = [task EXCEPT ![t].pc = "sent"]
    /\ UNCHANGED <<made, cache, lock, owner, abandoned, ends>>

\* The response, or an Exception: physical_request or physical_failed.
End(t) ==
    /\ task[t].pc = "sent"
    /\ ends' = [ends EXCEPT ![t] = @ + 1]
    /\ task' = [task EXCEPT ![t].pc = "over"]
    /\ UNCHANGED <<made, cache, lock, owner, abandoned, attempts>>

\* CancelledError is no Exception: it leaves _invoke without an event.  A task
\* that waits for the lock is cancelled as well.
Cancel(t) ==
    /\ task[t].pc \in {"locking", "sent"}
    /\ task' = [task EXCEPT ![t].pc = "cancelled"]
    /\ UNCHANGED <<made, cache, lock, owner, abandoned, attempts, ends>>

-----------------------------------------------------------------------------
\* aclose.

CachedClients == {cache[p] : p \in Providers} \ {0}

\* Under the lock the clients are taken out of the cache ...
Take ==
    /\ owner.pc = "idle" /\ owner.left > 0
    /\ lock = "free"
    /\ owner' = [pc |-> "closing", queue |-> CachedClients, left |-> owner.left - 1]
    /\ cache' = [p \in Providers |-> 0]
    /\ UNCHANGED <<made, lock, task, abandoned, attempts, ends>>

\* A slip: the first close() that fails ends the teardown.
CloseTakenUntilFailure ==
    /\ owner.pc = "closing" /\ owner.queue # {}
    /\ \E c \in owner.queue :
          \/ made' = Mark(c, "closed") /\ owner' = [owner EXCEPT !.queue = @ \ {c}]
          \/ made' = Mark(c, "torn") /\ owner' = [owner EXCEPT !.queue = {}, !.pc = "idle"]
    /\ UNCHANGED <<cache, lock, task, abandoned, attempts, ends>>

\* ... and outside it closed one by one; a failure is kept for the end.
CloseTaken ==
    /\ owner.pc = "closing" /\ owner.queue # {}
    /\ \E c \in owner.queue, state \in {"closed", "torn"} :
          /\ made' = Mark(c, state)
          /\ owner' = [owner EXCEPT !.queue = @ \ {c}]
    /\ UNCHANGED <<cache, lock, task, abandoned, attempts, ends>>

\* CancelledError is no Exception (144): at the await of a close() it ends the
\* loop, and the rest of the local list is gone with the frame.  An aclose that
\* is still waiting for the lock just ends.
CancelTeardown ==
    /\ \/ /\ owner.pc = "closing"
          /\ \E c \in owner.queue :
                /\ made' = Mark(c, "torn")
                /\ abandoned' = abandoned \cup (owner.queue \ {c})
          /\ owner' = [owner EXCEPT !.pc = "idle", !.queue = {}]
       \/ /\ owner.pc = "idle" /\ owner.left > 0 /\ lock # "free"
          /\ owner' = [owner EXCEPT !.left = @ - 1]
          /\ UNCHANGED <<made, abandoned>>
    /\ UNCHANGED <<cache, lock, task, attempts, ends>>

Closed ==
    /\ owner.pc = "closing" /\ owner.queue = {}
    /\ owner' = [owner EXCEPT !.pc = "idle"]
    /\ UNCHANGED <<made, cache, lock, task, abandoned, attempts, ends>>

-----------------------------------------------------------------------------
Init ==
    /\ made = << >>
    /\ cache = [p \in Providers |-> 0]
    /\ lock = "free"
    /\ task = [t \in Tasks |-> [pc |-> "idle", provider |-> CHOOSE p \in Providers : TRUE,
                                key |-> CHOOSE k \in Keys : TRUE, client |-> 0]]
    /\ owner = [pc |-> "idle", queue |-> {}, left |-> Teardowns] /\ abandoned = {}
    /\ attempts = [t \in Tasks |-> 0] /\ ends = [t \in Tasks |-> 0]

\* What a task does by itself once it has asked for a client.
Proceed(t) ==
    \/ Hit(t) \/ Miss(t) \/ CloseStale(t) \/ ReplaceStale(t) \/ StaleCloseFails(t)
    \/ Send(t) \/ End(t)
Teardown == Take \/ CloseTaken \/ Closed

Next ==
    \/ \E t \in Tasks : Ask(t) \/ Proceed(t) \/ Cancel(t)
    \/ Teardown \/ CancelTeardown

\* The event loop runs every ready task, a round trip is bounded by the SDK's
\* timeout, close() returns or raises, and the owner does call aclose; nobody
\* has to be cancelled.
Spec == Init /\ [][Next]_vars /\ WF_vars(Teardown) /\ \A t \in Tasks : WF_vars(Proceed(t))

-----------------------------------------------------------------------------
Clients == DOMAIN made

\* The variables keep their types.
TypeOK ==
    /\ \A c \in Clients : made[c] \in [provider : Providers, key : Keys, state : ClientStates]
    /\ cache \in [Providers -> {0} \cup Clients]
    /\ lock \in {"free"} \cup Tasks
    /\ \A t \in Tasks : task[t].client \in {0} \cup Clients
    /\ owner.queue \subseteq Clients /\ owner.left \in 0 .. Teardowns
    /\ abandoned \subseteq Clients

\* No client is lost: each is in the cache, or somebody has closed it or is
\* about to, but for those an aclose had still to close when it was cancelled.
\* It takes the lock across the await: two tasks that replace the same stale
\* client would each cache their own; and it takes the loop of aclose to outlast
\* a close() that raises.
NoClientLost ==
    \A c \in Clients :
        made[c].state = "open" => c \in CachedClients \cup owner.queue \cup abandoned

\* The docstring of aclose (transport.py:135-137) says without that exception:
\* "Every cached client is attempted even if an earlier close fails; ... so one
\* broken client cannot silently leak the rest".
EveryClientAttempted == abandoned = {}

\* Nobody is handed a client that was closed before: a client whose close()
\* returned is out of the cache in the same step, and only one task at a time
\* closes a client.
ClosedIsOutOfCache ==
    /\ \A c \in CachedClients :
          /\ made[c].state # "closed"
          /\ made[c].state = "closing" =>
                lock \in Tasks /\ task[lock].pc = "closing_stale" /\ task[lock].client = c
    /\ \A t, u \in Tasks :
          task[t].pc = "closing_stale" /\ task[u].pc = "closing_stale" => t = u

\* The docstring of _invoke (transport.py:157): physical_attempt, then "exactly
\* one of physical_request ... or physical_failed (any exception ...)".
EveryAttemptEnds ==
    \A t \in Tasks : task[t].pc \in {"over", "cancelled"} => ends[t] = attempts[t]

\* The lock is never held for good: a task that asks for a client gets it, or
\* an exception.
LockIsReleased ==
    \A t \in Tasks : task[t].pc = "locking" ~> task[t].pc # "locking"

=============================================================================
