---------------------------- MODULE RateLimiter ----------------------------
(***************************************************************************)
(* The sliding-window limiter of the HTTP API                              *)
(* (adapters/primary/http/rate_limit.py).                                  *)
(*                                                                         *)
(* `allow` runs to completion on the event loop, so one call is one step.  *)
(* It reads the clock once, and a second time inside `prune` when a sweep  *)
(* is due; the reading the admission is recorded under is the FIRST one,   *)
(* while the sweep has already dropped hits that are too old for the       *)
(* second.                                                                 *)
(***************************************************************************)
EXTENDS Integers, Sequences

CONSTANTS Keys, MaxRequests, Window, MaxSkew, MaxClock

ASSUME LimitAssumption == MaxRequests \in Nat \ {0}
ASSUME LimiterWindowAssumption == Window \in Nat \ {0}
ASSUME LimiterSkewAssumption == MaxSkew \in Nat /\ MaxSkew <= Window
ASSUME ClockBoundAssumption == MaxClock \in Nat

VARIABLES
    clock,      \* self._clock()
    hits,       \* self._hits: a dict, so its domain is the keys it holds
    lastPrune,  \* self._last_prune
    log,        \* history: every admission of each key (no code counterpart)
    answer      \* history: the latest value `allow` returned, and for whom

vars == <<clock, hits, lastPrune, log, answer>>

Abstract == INSTANCE SlidingWindow

----------------------------------------------------------------------------
(* The deque of one key.                                                   *)

Expired(t, now) == now - t > Window

\* How many hits `while hits and now - hits[0] > window: hits.popleft()` drops.
ExpiredPrefix(s, now) ==
    CHOOSE n \in 0 .. Len(s) :
        /\ \A i \in 1 .. n : Expired(s[i], now)
        /\ n < Len(s) => ~Expired(s[n + 1], now)

Live(s, now) == SubSeq(s, ExpiredPrefix(s, now) + 1, Len(s))

\* self._hits.get(key, deque())
HitsOf(h, k) == IF k \in DOMAIN h THEN h[k] ELSE <<>>

\* self._hits[key] = hits
Store(h, k, s) == [j \in DOMAIN h \cup {k} |-> IF j = k THEN s ELSE h[j]]

\* A slip: deques are trimmed, but an emptied key stays in the map.
PruneKeepingKeys(h, now) == [k \in DOMAIN h |-> Live(h[k], now)]

\* prune(): every key's deque is trimmed, and keys left empty are deleted.
Prune(h, now) ==
    [k \in {j \in DOMAIN h : Live(h[j], now) # <<>>} |-> Live(h[k], now)]

----------------------------------------------------------------------------

Init ==
    /\ clock \in 0 .. MaxClock
    /\ hits = [k \in {} |-> <<>>]
    /\ lastPrune = clock
    /\ log = [k \in Keys |-> <<>>]
    /\ answer = Abstract!NoAnswer

Tick ==
    /\ clock < MaxClock
    /\ clock' = clock + 1
    /\ UNCHANGED <<hits, lastPrune, log, answer>>

PruneDue == clock - lastPrune >= Window

\* A slip: one admission too many.
HasRoomOffByOne(s) == Len(s) <= MaxRequests

HasRoom(s) == Len(s) < MaxRequests

\* A slip: the hit is stored before the verdict, so refusals count as hits.
DecideCountingRefusals(k, h) ==
    LET live == Live(HitsOf(h, k), clock)
        ok == HasRoom(live)
    IN  /\ hits' = Store(h, k, Append(live, clock))
        /\ log' = IF ok THEN [log EXCEPT ![k] = Append(@, clock)] ELSE log
        /\ answer' = Abstract!Verdict(k, ok)

\* The rest of `allow`, over the map h that the sweep (if any) left behind.
Decide(k, h) ==
    LET live == Live(HitsOf(h, k), clock)
        ok == HasRoom(live)
    IN  /\ hits' = Store(h, k, IF ok THEN Append(live, clock) ELSE live)
        /\ log' = IF ok THEN [log EXCEPT ![k] = Append(@, clock)] ELSE log
        /\ answer' = Abstract!Verdict(k, ok)

AllowWithoutSweep(k) ==
    /\ ~PruneDue
    /\ Decide(k, hits)
    /\ UNCHANGED <<clock, lastPrune>>

\* `later` is the clock reading prune() takes for itself.
AllowWithSweep(k) ==
    /\ PruneDue
    /\ \E later \in clock .. clock + MaxSkew :
        /\ clock' = later
        /\ lastPrune' = later
        /\ Decide(k, Prune(hits, later))

Allow(k) == AllowWithoutSweep(k) \/ AllowWithSweep(k)

Next == Tick \/ \E k \in Keys : Allow(k)

Spec == Init /\ [][Next]_vars

----------------------------------------------------------------------------
(* Properties.                                                             *)

\* The variables keep their types.
TypeOK ==
    /\ clock \in Nat
    /\ lastPrune \in Nat
    /\ DOMAIN hits \subseteq Keys
    /\ \A k \in DOMAIN hits : hits[k] \in Seq(Nat)
    /\ log \in [Keys -> Seq(Nat)]
    /\ answer \in Abstract!Answers \cup {Abstract!NoAnswer}

\* No client is ever admitted more than MaxRequests times within a window: any
\* MaxRequests + 1 consecutive admissions span more than the window, less the
\* time that can pass inside one call.  This is the bound allow() exists for;
\* it needs the eviction of allow(), the eviction of prune(), and the reading
\* an admission is stored under to agree.
WindowBound ==
    \A k \in Keys : \A i \in 1 .. Len(log[k]) - MaxRequests :
        log[k][i + MaxRequests] - log[k][i] > Window - MaxSkew

\* The deque of a key forgets nothing that still counts: an admission that
\* prune() or a popleft has dropped is older than the window.
NothingLiveForgotten ==
    \A k \in Keys : \A i \in 1 .. Len(log[k]) - Len(HitsOf(hits, k)) :
        clock - log[k][i] > Window

\* The map does not grow with every session ever seen: when a call of allow()
\* ends, each key still in the map was admitted within the last two windows
\* (a sweep runs at most once per window, and only on the request path).
IdleEntriesReclaimed ==
    [][<<hits, answer>>' # <<hits, answer>> =>
        \A k \in DOMAIN hits' :
            /\ hits'[k] # <<>>
            /\ clock' - hits'[k][Len(hits'[k])] <= 2 * Window]_vars

\* The limiter implements the sliding window its clients are promised:
\* admissions and rejections happen only when the abstract window says so.
ImplementsSlidingWindow == Abstract!Spec
============================================================================
