----------------------------- MODULE LlmClient -----------------------------
(***************************************************************************)
(* One logical call of GroqOpenAiLlmClient.generate_structured             *)
(* (adapters/secondary/llm/groq_openai_client.py) over ProviderTransport   *)
(* (transport.py) and the reply validation (validation.py): provider       *)
(* failover, rate-limit backoff, the json_schema -> json_object fallback   *)
(* of Groq, and one repair round per provider.                             *)
(*                                                                         *)
(* The provider is the environment: each round trip may succeed with text  *)
(* that satisfies the schema, with text that does not, with no text at     *)
(* all (a message whose content is null), with no choices, or fail with a  *)
(* rate limit, an unsupported response_format or any other error.          *)
(***************************************************************************)
EXTENDS Naturals, Sequences

CONSTANTS
    ValidReplies,    \* reply texts that parse and satisfy the schema
    InvalidReplies,  \* reply texts that do not
    NoReply,         \* no reply yet
    NullReply,       \* message.content is None
    MaxBackoffs      \* bound on the length of the backoff schedules tried

ASSUME RepliesAreDistinct ==
    /\ ValidReplies \cap InvalidReplies = {}
    /\ NoReply \notin ValidReplies \cup InvalidReplies
    /\ NullReply \notin ValidReplies \cup InvalidReplies \cup {NoReply}
ASSUME MaxBackoffsAssumption == MaxBackoffs \in Nat

Providers == {"groq", "openai"}
Phases == {"initial", "repair"}
Modes == {"json_schema", "json_object"}

\* The content-free trace events of tracing.py.
Events == {"physical_attempt", "physical_request", "physical_failed",
           "provider_fallback", "schema_fallback", "repair_triggered",
           "rate_limited", "rate_limit_exhausted", "provider_call_failed",
           "generation_exhausted"}

\* What the constructor fixes: the primary provider, whether the other one is
\* a fallback, which API keys are set, and the length of the backoff schedule
\* (serving passes an empty one, offline evaluation keeps three entries).
Configs == [primary : Providers, fallback : BOOLEAN, keys : SUBSET Providers,
            backoffs : 0 .. MaxBackoffs]

VARIABLES
    config,   \* construction-time facts, never changed
    pc,       \* where generate_structured is
    at,       \* index of the provider the loop is at
    attempted,\* attempted_any
    phase,    \* "initial" or "repair"
    attempt,  \* attempt_index of _get_provider_response
    mode,     \* schema_mode of the request on the wire
    reply,    \* raw_text / repaired_raw
    sent,     \* history: physical requests sent to each provider
    trace     \* history: how often each trace event was emitted

call == <<at, attempted, phase, attempt, mode, reply>>
vars == <<config, pc, at, attempted, phase, attempt, mode, reply, sent, trace>>

Other(p) == IF p = "groq" THEN "openai" ELSE "groq"

\* providers = (primary, fallback) if allow_provider_fallback else (primary,)
Chain == IF config.fallback
         THEN <<config.primary, Other(config.primary)>>
         ELSE <<config.primary>>

provider == Chain[at]

Emit(events) == trace' = [e \in Events |-> IF e \in events THEN trace[e] + 1
                                                           ELSE trace[e]]

----------------------------------------------------------------------------

Init ==
    /\ config \in Configs
    /\ pc = "choose"
    /\ at = 1
    /\ attempted = FALSE
    /\ phase = "initial"
    /\ attempt = 0
    /\ mode = "json_schema"
    /\ reply = NoReply
    /\ sent = [p \in Providers |-> 0]
    /\ trace = [e \in Events |-> 0]

\* `continue`: on to the next provider of the chain.
MoveOn ==
    /\ pc' = "choose"
    /\ at' = at + 1
    /\ UNCHANGED <<config, attempted, phase, attempt, mode, reply, sent>>

\* A provider without an API key is skipped, and is not a fallback.
SkipProvider ==
    /\ pc = "choose" /\ at <= Len(Chain)
    /\ provider \notin config.keys
    /\ MoveOn
    /\ UNCHANGED trace

\* A slip: a skipped primary already counts as attempted.
TakeProviderByIndex ==
    /\ pc = "choose" /\ at <= Len(Chain)
    /\ provider \in config.keys
    /\ Emit(IF at > 1 THEN {"provider_fallback"} ELSE {})
    /\ attempted' = TRUE
    /\ phase' = "initial"
    /\ attempt' = 0
    /\ pc' = "send"
    /\ UNCHANGED <<config, at, mode, reply, sent>>

TakeProvider ==
    /\ pc = "choose" /\ at <= Len(Chain)
    /\ provider \in config.keys
    /\ Emit(IF attempted THEN {"provider_fallback"} ELSE {})
    /\ attempted' = TRUE
    /\ phase' = "initial"
    /\ attempt' = 0
    /\ pc' = "send"
    /\ UNCHANGED <<config, at, mode, reply, sent>>

\* A slip: the loop stops at the first provider that failed.
ExhaustedAfterOne ==
    /\ pc = "choose" /\ at > 1
    /\ Emit({"generation_exhausted"})
    /\ pc' = "raised"
    /\ reply' = NoReply
    /\ UNCHANGED <<config, at, attempted, phase, attempt, mode, sent>>

\* The loop is over: generation_exhausted, then GenerationError.
Exhausted ==
    /\ pc = "choose" /\ at > Len(Chain)
    /\ Emit({"generation_exhausted"})
    /\ pc' = "raised"
    /\ reply' = NoReply
    /\ UNCHANGED <<config, at, attempted, phase, attempt, mode, sent>>

----------------------------------------------------------------------------
(* One round trip (ProviderTransport._invoke).                             *)

\* call_provider always asks for json_schema first.
SendRequest ==
    /\ pc = "send"
    /\ mode' = "json_schema"
    /\ sent' = [sent EXCEPT ![provider] = @ + 1]
    /\ Emit({"physical_attempt"})
    /\ pc' = "wire"
    /\ UNCHANGED <<config, at, attempted, phase, attempt, reply>>

\* A slip: the request that a schema fallback replaces has no end in the trace.
SchemaUnsupportedUncounted ==
    /\ pc = "wire"
    /\ provider = "groq" /\ mode = "json_schema"
    /\ mode' = "json_object"
    /\ sent' = [sent EXCEPT ![provider] = @ + 1]
    /\ Emit({"schema_fallback", "physical_attempt"})
    /\ UNCHANGED <<config, pc, at, attempted, phase, attempt, reply>>

\* Groq rejects the json_schema response_format: one more request, at once,
\* in json_object mode.  OpenAI has no such fallback.
SchemaUnsupported ==
    /\ pc = "wire"
    /\ provider = "groq" /\ mode = "json_schema"
    /\ mode' = "json_object"
    /\ sent' = [sent EXCEPT ![provider] = @ + 1]
    /\ Emit({"physical_failed", "schema_fallback", "physical_attempt"})
    /\ UNCHANGED <<config, pc, at, attempted, phase, attempt, reply>>

\* A slip: one sleep more than the schedule has.
RateLimitedOnceMore ==
    /\ pc = "wire"
    /\ attempt <= config.backoffs
    /\ attempt' = attempt + 1
    /\ Emit({"physical_failed", "rate_limited"})
    /\ pc' = "sleep"
    /\ UNCHANGED <<config, at, attempted, phase, mode, reply, sent>>

\* A rate limit with schedule left: sleep, then the same provider again.
RateLimited ==
    /\ pc = "wire"
    /\ attempt < config.backoffs
    /\ attempt' = attempt + 1
    /\ Emit({"physical_failed", "rate_limited"})
    /\ pc' = "sleep"
    /\ UNCHANGED <<config, at, attempted, phase, mode, reply, sent>>

Wake ==
    /\ pc = "sleep"
    /\ pc' = "send"
    /\ UNCHANGED <<config, call, sent, trace>>

RateLimitExhausted ==
    /\ pc = "wire"
    /\ attempt >= config.backoffs
    /\ Emit({"physical_failed", "rate_limit_exhausted", "provider_call_failed"})
    /\ MoveOn

\* Any other exception of the round trip.
CallFailed ==
    /\ pc = "wire"
    /\ Emit({"physical_failed", "provider_call_failed"})
    /\ MoveOn

\* The round trip succeeds but `response.choices[0]` raises.
NoChoices ==
    /\ pc = "wire"
    /\ Emit({"physical_request", "provider_call_failed"})
    /\ MoveOn

ReceiveReply ==
    /\ pc = "wire"
    /\ reply' \in ValidReplies \cup InvalidReplies \cup {NullReply}
    /\ Emit({"physical_request"})
    /\ pc' = "parse"
    /\ UNCHANGED <<config, at, attempted, phase, attempt, mode, sent>>

----------------------------------------------------------------------------
(* _try_parse_and_validate and what follows it.                            *)

\* A slip: a repaired reply is returned unchecked.
AcceptableUnlessRepaired(r) == r \in ValidReplies \/ phase = "repair"

Acceptable(r) == r \in ValidReplies

ReturnReply ==
    /\ pc = "parse" /\ reply # NullReply
    /\ Acceptable(reply)
    /\ pc' = "returned"
    /\ UNCHANGED <<config, call, sent, trace>>

\* An invalid first reply: one repair round with the same provider, which
\* starts the backoff schedule afresh.
StartRepair ==
    /\ pc = "parse" /\ reply # NullReply
    /\ ~Acceptable(reply)
    /\ phase = "initial"
    /\ phase' = "repair"
    /\ attempt' = 0
    /\ Emit({"repair_triggered"})
    /\ pc' = "send"
    /\ UNCHANGED <<config, at, attempted, mode, reply, sent>>

RepairRejected ==
    /\ pc = "parse" /\ reply # NullReply
    /\ ~Acceptable(reply)
    /\ phase = "repair"
    /\ MoveOn
    /\ UNCHANGED trace

\* json.loads(None) raises TypeError, which is neither JSONDecodeError nor
\* ValueError, outside both `try` blocks of the loop.
ReplyIsNotText ==
    /\ pc = "parse" /\ reply = NullReply
    /\ pc' = "escaped"
    /\ reply' = NoReply
    /\ UNCHANGED <<config, at, attempted, phase, attempt, mode, sent, trace>>

Next ==
    \/ SkipProvider \/ TakeProvider \/ Exhausted
    \/ SendRequest \/ SchemaUnsupported \/ RateLimited \/ Wake
    \/ RateLimitExhausted \/ CallFailed \/ NoChoices \/ ReceiveReply
    \/ ReturnReply \/ StartRepair \/ RepairRejected \/ ReplyIsNotText

\* Every step of the call is either the program's own, which the event loop
\* runs, or the end of an await: a round trip, which the SDK times out, or an
\* asyncio.sleep.
Spec == Init /\ [][Next]_vars /\ WF_vars(Next)

----------------------------------------------------------------------------
(* Properties.                                                             *)

\* The variables keep their types.
TypeOK ==
    /\ config \in Configs
    /\ pc \in {"choose", "send", "wire", "sleep", "parse",
              "returned", "raised", "escaped"}
    /\ at \in 1 .. Len(Chain) + 1
    /\ pc \notin {"choose", "raised"} => at <= Len(Chain)
    /\ attempted \in BOOLEAN
    /\ phase \in Phases
    /\ attempt \in 0 .. config.backoffs
    /\ mode \in Modes
    /\ reply \in ValidReplies \cup InvalidReplies \cup {NoReply, NullReply}
    /\ sent \in [Providers -> Nat]
    /\ trace \in [Events -> Nat]

\* Round trips one attempt may need: Groq may be asked a second time.
TripsPerAttempt(p) == IF p = "groq" THEN 2 ELSE 1

\* What one question can cost: per provider, two phases of backoffs + 1
\* attempts.  The repair round starts the schedule afresh, and the schema
\* fallback doubles Groq's attempts, so the bound is reached.  An empty
\* schedule never sleeps.
CallBudget ==
    /\ \A p \in Providers :
          sent[p] <= TripsPerAttempt(p) * 2 * (config.backoffs + 1)
    /\ trace["rate_limited"] <= Len(Chain) * 2 * config.backoffs

\* Physical-call accounting: every request that went out is counted once, and
\* its end is counted exactly once, whatever kind of end it is.
AttemptsAccounted ==
    /\ trace["physical_attempt"] = sent["groq"] + sent["openai"]
    /\ trace["physical_attempt"] =
          trace["physical_request"] + trace["physical_failed"]
            + (IF pc = "wire" THEN 1 ELSE 0)

\* A failover is visible in the trace exactly when there was one: both
\* providers were contacted, the configured primary first.  An unconfigured
\* primary is not a failover, and without allow_provider_fallback the other
\* provider is never contacted.
FailoverVisible ==
    /\ (\A p \in Providers : sent[p] > 0) => trace["provider_fallback"] = 1
    /\ trace["provider_fallback"] > 0 =>
          /\ config.fallback /\ config.keys = Providers
          /\ sent[config.primary] > 0
    /\ \A p \in Providers : sent[p] > 0 =>
          /\ p \in config.keys
          /\ p = config.primary \/ config.fallback

\* GenerationError means that there was nothing left to try: every provider
\* of the chain that has a key was contacted, and the failure was announced.
GiveUpOnlyWhenExhausted ==
    pc = "raised" =>
        /\ trace["generation_exhausted"] = 1
        /\ \A i \in 1 .. Len(Chain) :
              Chain[i] \in config.keys => sent[Chain[i]] > 0

\* The call implements the port: it returns only replies that satisfy the
\* schema, repaired ones included, and otherwise raises.
Port == INSTANCE LlmPort WITH
    outcome <- IF pc \in {"returned", "raised", "escaped"} THEN pc ELSE "pending",
    value <- IF pc = "returned" THEN reply ELSE NoReply

ImplementsPort == Port!Spec

\* The constructor's docstring: with rate_limit_backoff_seconds=() there is
\* "one physical attempt per provider, no sleep".
OneAttemptPerProvider ==
    config.backoffs = 0 => \A p \in Providers : sent[p] <= 1

\* transport.py casts the content it returns to str, and the use case handles
\* GenerationError as the way a call fails: nothing else comes out.
OnlyGenerationErrorComesOut == pc # "escaped"
============================================================================
