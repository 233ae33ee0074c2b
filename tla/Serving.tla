------------------------------ MODULE Serving ------------------------------
(***************************************************************************)
(* POST /query as a visitor meets it: browser tabs of the Streamlit UI     *)
(* (web/app.py, web/client.py), the guards of the endpoint                 *)
(* (adapters/primary/http/routes.py) and the rate limiter behind them.     *)
(*                                                                         *)
(* A tab waits for its question and gives up when the HTTP time-out has    *)
(* passed; the API does not notice and answers on.  Every request comes    *)
(* from the one Streamlit process over loopback, so only the session       *)
(* header tells visitors apart; other callers on the host may send no      *)
(* header, a malformed one, or the wrong API key.  The guards run up to    *)
(* the first await without a break: the whole of them, with the call of    *)
(* the limiter (module RateLimiter), is one action.                        *)
(***************************************************************************)
EXTENDS RateLimiter, FiniteSets

CONSTANTS
    Tabs,         \* browser sessions, each with the id it was minted
    Nobody,       \* the sender of a request that comes from no tab
    UiTimeout,    \* REQUEST_TIMEOUT_SECONDS of the UI, in clock units
    MaxSent,      \* bound on the requests ever sent ...
    MaxDirect     \* ... and on those that come from no tab

VARIABLES
    keyRequired,  \* whether settings.api_key is set
    tab,          \* [waiting, deadline, shown] of every tab: the request it waits for,
                  \* until when, and the one whose outcome it shows; 0 for none
    requests      \* every request sent, in order

\* The keys of the limiter: one for each session, one for the host.
Session(t) == <<"session", t>>
Host == <<"host", "loopback">>
Buckets == {Session(t) : t \in Tabs} \cup {Host}

ASSUME ServingAssumption ==
    /\ Keys = Buckets
    /\ Nobody \notin Tabs /\ UiTimeout \in Nat \ {0}
    /\ {MaxSent, MaxDirect} \subseteq Nat

\* `vars` are the variables of the limiter.
servingVars == <<keyRequired, tab, requests, vars>>

\* The requests of one sender.
Of(t) == {r \in DOMAIN requests : requests[r].tab = t}

\* How the guards may refuse a request.
Rejections == {"401", "400", "429"}

-----------------------------------------------------------------------------
\* The UI.

Sent(sender, header, key) ==
    [tab |-> sender, header |-> header, key |-> key,
     at |-> 0, state |-> "sent", outcome |-> "none", open |-> TRUE]

\* A tab that waits for nothing and shows what a request came to.
Showing(r) == [waiting |-> 0, deadline |-> 0, shown |-> r]

\* _submit, of a question the UI lets the visitor ask (it disables the button
\* while /ready failed at the latest rerun): what was shown is cleared, and the
\* script blocks in client.query.
Ask(t) ==
    /\ tab[t].waiting = 0
    /\ Len(requests) < MaxSent /\ clock + UiTimeout <= MaxClock
    /\ requests' = Append(requests, Sent(t, "session", "right"))
    /\ tab' = [tab EXCEPT ![t] = [waiting |-> Len(requests) + 1,
                                   deadline |-> clock + UiTimeout, shown |-> 0]]
    /\ UNCHANGED <<keyRequired, vars>>

\* Another process on the host calls the API.
CallDirectly ==
    /\ Len(requests) < MaxSent /\ Cardinality(Of(Nobody)) < MaxDirect
    /\ \E header \in {"none", "malformed"}, key \in {"right", "wrong"} :
          requests' = Append(requests, Sent(Nobody, header, key))
    /\ UNCHANGED <<keyRequired, tab, vars>>

\* A slip: the latest response is shown, whoever still waits for it.
DeliverLate(r) ==
    /\ requests[r].state = "replied" /\ requests[r].tab \in Tabs
    /\ tab[requests[r].tab].shown # r
    /\ requests' = [requests EXCEPT ![r].open = FALSE]
    /\ tab' = [tab EXCEPT ![requests[r].tab] = Showing(r)]
    /\ UNCHANGED <<keyRequired, vars>>

\* The response, or the error it is turned into, is shown.
Deliver(r) ==
    /\ requests[r].state = "replied" /\ requests[r].tab \in Tabs /\ requests[r].open
    /\ requests' = [requests EXCEPT ![r].open = FALSE]
    /\ tab' = [tab EXCEPT ![requests[r].tab] = Showing(r)]
    /\ UNCHANGED <<keyRequired, vars>>

\* The HTTP time-out: the connection is closed and its error is shown.
GiveUp(t) ==
    /\ tab[t].waiting # 0
    /\ clock >= tab[t].deadline
    /\ requests' = [requests EXCEPT ![tab[t].waiting].open = FALSE]
    /\ tab' = [tab EXCEPT ![t] = Showing(@.waiting)]
    /\ UNCHANGED <<keyRequired, vars>>

-----------------------------------------------------------------------------
\* The endpoint.

Settle(r, outcome) ==
    requests' = [requests EXCEPT ![r].outcome = outcome, ![r].at = clock,
                                 ![r].state = IF outcome = "none" THEN "running" ELSE "replied"]

Unauthorized(r) == keyRequired /\ requests[r].key = "wrong"

RefuseKey(r) ==
    /\ requests[r].state = "sent"
    /\ Unauthorized(r)
    /\ Settle(r, "401")
    /\ UNCHANGED <<keyRequired, tab, vars>>

RefuseSession(r) ==
    /\ requests[r].state = "sent"
    /\ ~Unauthorized(r) /\ requests[r].header = "malformed"
    /\ Settle(r, "400")
    /\ UNCHANGED <<keyRequired, tab, vars>>

\* A slip: the key of the limiter is the peer's address, as it once was.
BucketByPeer(r) == Host

\* _rate_limit_key
Bucket(r) == IF requests[r].header = "session" THEN Session(requests[r].tab) ELSE Host

\* A slip: the limiter is asked first, the API key after it.
AdmitBeforeKey(r) ==
    /\ requests[r].state = "sent"
    /\ requests[r].header # "malformed"
    /\ Allow(Bucket(r))
    /\ Settle(r, IF ~answer'.ok THEN "429" ELSE IF Unauthorized(r) THEN "401" ELSE "none")
    /\ UNCHANGED <<keyRequired, tab>>

\* The limiter decides, and an admitted question goes to the use case.
Admit(r) ==
    /\ requests[r].state = "sent"
    /\ ~Unauthorized(r) /\ requests[r].header # "malformed"
    /\ Allow(Bucket(r))
    /\ Settle(r, IF answer'.ok THEN "none" ELSE "429")
    /\ UNCHANGED <<keyRequired, tab>>

\* answer_question returns, or raises and becomes a 500.  Whether somebody
\* still waits makes no difference to it.
Finish(r) ==
    /\ requests[r].state = "running"
    /\ requests' = [requests EXCEPT ![r].outcome = "served", ![r].state = "replied"]
    /\ UNCHANGED <<keyRequired, tab, vars>>

-----------------------------------------------------------------------------
TimePasses ==
    /\ Tick
    /\ UNCHANGED <<keyRequired, tab, requests>>

ServingInit ==
    /\ keyRequired \in BOOLEAN
    /\ tab = [t \in Tabs |-> Showing(0)]
    /\ requests = << >>
    /\ Init /\ clock = 0

Serve(r) == RefuseKey(r) \/ RefuseSession(r) \/ Admit(r) \/ Finish(r)

ServingNext ==
    \/ \E t \in Tabs : Ask(t) \/ GiveUp(t)
    \/ CallDirectly
    \/ \E r \in DOMAIN requests : Serve(r) \/ Deliver(r)
    \/ TimePasses

ServingSpec == ServingInit /\ [][ServingNext]_servingVars

-----------------------------------------------------------------------------
Forwarded == {r \in DOMAIN requests : requests[r].state # "sent"
                                      /\ requests[r].outcome \notin Rejections}

\* The variables keep their types.
ServingTypeOK ==
    /\ \A t \in Tabs :
          /\ tab[t].waiting \in {0} \cup DOMAIN requests
          /\ tab[t].shown \in {0} \cup DOMAIN requests
    /\ \A r \in DOMAIN requests :
          /\ requests[r].state \in {"sent", "running", "replied"}
          /\ requests[r].outcome \in {"none", "served"} \cup Rejections
          /\ requests[r].state \in {"sent", "running"} <=> requests[r].outcome = "none"
    /\ TypeOK

\* What the order of the guards is for: a bucket is charged exactly for the
\* questions that were put to the use case.  A request with the wrong key, with
\* a malformed header or over the limit costs nobody anything.
ChargedForWhatRan ==
    \A b \in Buckets :
        Len(log[b]) = Cardinality({r \in Forwarded : Bucket(r) = b})

\* Each visitor has a quota of his own (SPEC.md:265-270): a tab is turned away
\* only when the questions of this very tab have used up the window.
VisitorsIndependent ==
    \A t \in Tabs : \A r \in Of(t) :
        requests[r].outcome = "429" =>
            Cardinality({q \in Of(t) \cap Forwarded :
                            requests[q].at \in requests[r].at - Window .. requests[r].at})
                >= MaxRequests

\* A tab shows what its latest question came to, never the late answer to one
\* that it gave up, although the API goes on to answer that one.
LateAnswersDropped ==
    \A t \in Tabs :
        /\ tab[t].shown # 0 => \A q \in Of(t) : q <= tab[t].shown
        /\ tab[t].waiting # 0 => tab[t].shown = 0

=============================================================================
