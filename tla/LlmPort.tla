------------------------------ MODULE LlmPort ------------------------------
(***************************************************************************)
(* LLMClientPort.generate_structured as the query use case sees it: one    *)
(* logical call, however many providers, retries and repairs are behind    *)
(* it.  A call that returns hands over a reply that satisfies the schema   *)
(* it was given; a call that does not return raises.                       *)
(*                                                                         *)
(* `escaped` is an exception other than GenerationError.  The port names   *)
(* no exceptions at all; the adapter documents GenerationError only, and   *)
(* LlmClient shows which other one can come out.                           *)
(***************************************************************************)
CONSTANTS ValidReplies, NoReply

VARIABLES outcome, value

vars == <<outcome, value>>

Init == outcome = "pending" /\ value = NoReply

Return ==
    /\ outcome = "pending"
    /\ outcome' = "returned"
    /\ value' \in ValidReplies

Raise ==
    /\ outcome = "pending"
    /\ outcome' \in {"raised", "escaped"}
    /\ value' = NoReply

Next == Return \/ Raise

\* Every call ends: each await in the adapter is a provider round trip that
\* the SDK bounds with a timeout, or a sleep.
Spec == Init /\ [][Next]_vars /\ WF_vars(Next)
============================================================================
