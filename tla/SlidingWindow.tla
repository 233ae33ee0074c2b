--------------------------- MODULE SlidingWindow ---------------------------
(***************************************************************************)
(* What the in-process rate limiter of the HTTP API promises its clients,  *)
(* said without the limiter's own data structures (no per-key deque, no    *)
(* sweep): the only state is the list of admissions each client has ever   *)
(* been granted.                                                           *)
(*                                                                         *)
(* Time is counted in whole units.  The limiter reads its clock at the     *)
(* start of a call and may read it again before the call ends; MaxSkew     *)
(* bounds how far apart the two reads can be.                              *)
(***************************************************************************)
EXTENDS Naturals, Sequences

CONSTANTS
    Keys,         \* rate-limit keys: "session:<uuid>" or "host:<peer>"
    MaxRequests,  \* admissions allowed per window (RATE_LIMIT_PER_MINUTE)
    Window,       \* length of the window
    MaxSkew,      \* bound on the time that passes inside one call
    MaxClock      \* bound on the clock, so that TLC's instance is finite

NoAnswer == [asked |-> FALSE]

Answers == [asked : {TRUE}, key : Keys, at : Nat, ok : BOOLEAN]

VARIABLES
    clock,  \* the monotonic clock
    log,    \* log[k]: the clock readings under which k was admitted, oldest first
    answer  \* the limiter's latest verdict

vars == <<clock, log, answer>>

\* The MaxRequests-th latest admission of k lies within w of time t: k has
\* used up its allowance for the closed window [t - w, t].
AllowanceUsed(k, t, w) ==
    /\ Len(log[k]) >= MaxRequests
    /\ t - log[k][Len(log[k]) - MaxRequests + 1] <= w

Verdict(k, ok) == [asked |-> TRUE, key |-> k, at |-> clock, ok |-> ok]

----------------------------------------------------------------------------

Init ==
    /\ clock \in 0 .. MaxClock
    /\ log = [k \in Keys |-> <<>>]
    /\ answer = NoAnswer

Tick ==
    /\ clock < MaxClock
    /\ clock' = clock + 1
    /\ UNCHANGED <<log, answer>>

\* A request may be admitted only if the client's allowance is not used up in
\* the window, shortened by what the clock may move during the call.
Admit(k) ==
    /\ ~AllowanceUsed(k, clock, Window - MaxSkew)
    /\ log' = [log EXCEPT ![k] = Append(@, clock)]
    /\ answer' = Verdict(k, TRUE)

\* A request may be turned away only if the allowance really is used up.
Reject(k) ==
    /\ AllowanceUsed(k, clock, Window)
    /\ answer' = Verdict(k, FALSE)
    /\ UNCHANGED log

Ask ==
    /\ \E k \in Keys : Admit(k) \/ Reject(k)
    /\ clock' \in clock .. clock + MaxSkew

Next == Tick \/ Ask

Spec == Init /\ [][Next]_vars
============================================================================
