-------------------------- MODULE LlmClientProofs --------------------------
(***************************************************************************)
(* Proofs about one logical model call, for every set of replies and every *)
(* bound on the backoff schedule: types, accounting of requests, the cost  *)
(* of a call, and the safety part of its refinement of LlmPort.            *)
(***************************************************************************)
EXTENDS LlmClient, TLAPS

----------------------------------------------------------------------------
(* The provider chain.                                                     *)

\* The chain has one or two providers, and no provider twice.
LEMMA ChainOfTwo ==
    ASSUME config \in Configs
    PROVE  /\ Len(Chain) \in {1, 2}
           /\ \A i \in 1 .. Len(Chain) : Chain[i] \in Providers
           /\ \A i, j \in 1 .. Len(Chain) : Chain[i] = Chain[j] => i = j
           /\ config.backoffs \in Nat
           /\ config.backoffs \in 0 .. MaxBackoffs
<1>1. config.primary \in Providers /\ Other(config.primary) \in Providers
      /\ Other(config.primary) # config.primary
    BY DEF Configs, Providers, Other
<1>2. config.backoffs \in 0 .. MaxBackoffs /\ MaxBackoffs \in Nat
    BY MaxBackoffsAssumption DEF Configs
<1>3. config.backoffs \in Nat
    BY <1>2
<1>4. CASE config.fallback
    <2>1. Chain = <<config.primary, Other(config.primary)>>
        BY <1>4 DEF Chain
    <2>2. Len(Chain) = 2 /\ 1 .. Len(Chain) = {1, 2}
        BY <2>1
    <2>3. Chain[1] = config.primary /\ Chain[2] = Other(config.primary)
        BY <2>1
    <2> QED
        BY <2>2, <2>3, <1>1, <1>2, <1>3
<1>5. CASE ~config.fallback
    <2>1. Chain = <<config.primary>>
        BY <1>5 DEF Chain
    <2>2. Len(Chain) = 1 /\ 1 .. Len(Chain) = {1} /\ Chain[1] = config.primary
        BY <2>1
    <2> QED
        BY <2>2, <1>1, <1>2, <1>3
<1> QED
    BY <1>4, <1>5

\* Emitting events keeps the trace a function to the naturals.
LEMMA EmitTyped ==
    ASSUME NEW events, trace \in [Events -> Nat], Emit(events)
    PROVE  /\ trace' \in [Events -> Nat]
           /\ \A e \in Events : trace'[e] = trace[e] + (IF e \in events THEN 1 ELSE 0)
BY DEF Emit

----------------------------------------------------------------------------
(* Types.                                                                  *)

LEMMA InitTyped == Init => TypeOK
<1> SUFFICES ASSUME Init PROVE TypeOK
    OBVIOUS
<1>1. config \in Configs
    BY DEF Init
<1>2. Len(Chain) \in {1, 2} /\ config.backoffs \in Nat
    BY <1>1, ChainOfTwo
<1>3. at \in 1 .. Len(Chain) + 1 /\ attempt \in 0 .. config.backoffs
    BY <1>2 DEF Init
<1> QED
    BY <1>1, <1>3 DEF Init, TypeOK, Phases, Modes

\* Moving on stays within the chain.
LEMMA MoveOnTyped ==
    ASSUME TypeOK, MoveOn, at <= Len(Chain), trace' \in [Events -> Nat]
    PROVE  TypeOK'
<1>1. Len(Chain) \in {1, 2}
    BY ChainOfTwo DEF TypeOK
<1>2. Chain' = Chain /\ config' = config
    BY DEF MoveOn, Chain
<1>3. at' \in 1 .. Len(Chain) + 1
    BY <1>1 DEF MoveOn, TypeOK
<1> QED
    BY <1>2, <1>3 DEF MoveOn, TypeOK

LEMMA StepTyped == TypeOK /\ [Next]_vars => TypeOK'
<1> SUFFICES ASSUME TypeOK, [Next]_vars PROVE TypeOK'
    OBVIOUS
<1>1. Len(Chain) \in {1, 2} /\ config.backoffs \in Nat /\ trace \in [Events -> Nat]
      /\ \A i \in 1 .. Len(Chain) : Chain[i] \in Providers
    BY ChainOfTwo DEF TypeOK
<1>2. config' = config /\ Chain' = Chain
    BY DEF Next, vars, Chain, MoveOn, SkipProvider, TakeProvider, Exhausted, SendRequest,
           SchemaUnsupported, RateLimited, Wake, RateLimitExhausted, CallFailed,
           NoChoices, ReceiveReply, ReturnReply, StartRepair, RepairRejected,
           ReplyIsNotText
<1>3. pc \in {"send", "wire", "parse", "sleep"} =>
          at <= Len(Chain) /\ provider \in Providers
    BY <1>1 DEF TypeOK, provider
<1>4. CASE SkipProvider
    BY <1>4, <1>1, MoveOnTyped DEF SkipProvider, TypeOK
<1>5. CASE TakeProvider
    <2>1. trace' \in [Events -> Nat]
        BY <1>5, <1>1, EmitTyped DEF TakeProvider
    <2>2. attempt' \in 0 .. config.backoffs
        BY <1>5, <1>1 DEF TakeProvider
    <2> QED
        BY <1>5, <2>1, <2>2, <1>2 DEF TakeProvider, TypeOK, Phases
<1>6. CASE Exhausted
    BY <1>6, <1>1, <1>2, EmitTyped DEF Exhausted, TypeOK
<1>7. CASE SendRequest
    <2>1. trace' \in [Events -> Nat]
        BY <1>7, <1>1, EmitTyped DEF SendRequest
    <2>2. sent' \in [Providers -> Nat]
        BY <1>7, <1>3 DEF SendRequest, TypeOK
    <2> QED
        BY <1>7, <2>1, <2>2, <1>2, <1>3 DEF SendRequest, TypeOK, Modes
<1>8. CASE SchemaUnsupported
    <2>1. trace' \in [Events -> Nat]
        BY <1>8, <1>1, EmitTyped DEF SchemaUnsupported
    <2>2. sent' \in [Providers -> Nat]
        BY <1>8, <1>3 DEF SchemaUnsupported, TypeOK
    <2> QED
        BY <1>8, <2>1, <2>2, <1>2, <1>3 DEF SchemaUnsupported, TypeOK, Modes
<1>9. CASE RateLimited
    <2>1. trace' \in [Events -> Nat]
        BY <1>9, <1>1, EmitTyped DEF RateLimited
    <2>2. attempt' \in 0 .. config.backoffs
        BY <1>9, <1>1 DEF RateLimited, TypeOK
    <2> QED
        BY <1>9, <2>1, <2>2, <1>2, <1>3 DEF RateLimited, TypeOK
<1>10. CASE Wake
    BY <1>10, <1>2, <1>3 DEF Wake, TypeOK, call
<1>11. CASE RateLimitExhausted
    BY <1>11, <1>1, <1>3, EmitTyped, MoveOnTyped DEF RateLimitExhausted
<1>12. CASE CallFailed
    BY <1>12, <1>1, <1>3, EmitTyped, MoveOnTyped DEF CallFailed
<1>13. CASE NoChoices
    BY <1>13, <1>1, <1>3, EmitTyped, MoveOnTyped DEF NoChoices
<1>14. CASE ReceiveReply
    <2>1. trace' \in [Events -> Nat]
        BY <1>14, <1>1, EmitTyped DEF ReceiveReply
    <2> QED
        BY <1>14, <2>1, <1>2, <1>3 DEF ReceiveReply, TypeOK
<1>15. CASE ReturnReply
    BY <1>15, <1>2, <1>3 DEF ReturnReply, TypeOK, call
<1>16. CASE StartRepair
    <2>1. trace' \in [Events -> Nat]
        BY <1>16, <1>1, EmitTyped DEF StartRepair
    <2>2. attempt' \in 0 .. config.backoffs
        BY <1>16, <1>1 DEF StartRepair
    <2> QED
        BY <1>16, <2>1, <2>2, <1>2, <1>3 DEF StartRepair, TypeOK, Phases
<1>17. CASE RepairRejected
    BY <1>17, <1>1, <1>3, MoveOnTyped DEF RepairRejected, TypeOK
<1>18. CASE ReplyIsNotText
    BY <1>18, <1>2, <1>3 DEF ReplyIsNotText, TypeOK
<1>19. CASE UNCHANGED vars
    BY <1>19, <1>2 DEF vars, TypeOK
<1> QED
    BY <1>4, <1>5, <1>6, <1>7, <1>8, <1>9, <1>10, <1>11, <1>12, <1>13, <1>14,
       <1>15, <1>16, <1>17, <1>18, <1>19 DEF Next

\* The type invariant of a call: in particular the retry loop never indexes
\* past the end of its schedule, nor the failover past the chain.
THEOREM CallTyped == Spec => []TypeOK
<1>1. Init => TypeOK
    BY InitTyped
<1>2. TypeOK /\ [Next]_vars => TypeOK'
    BY StepTyped
<1> QED
    BY <1>1, <1>2, PTL DEF Spec

----------------------------------------------------------------------------
(* Accounting: an inductive invariant as it stands, given the types.       *)

Sent == sent["groq"] + sent["openai"]

\* A request that goes out is counted under exactly one provider.
LEMMA OneMoreSent ==
    ASSUME NEW p \in Providers, sent \in [Providers -> Nat],
           sent' = [sent EXCEPT ![p] = @ + 1]
    PROVE  sent'["groq"] + sent'["openai"] = Sent + 1 /\ Sent \in Nat
BY DEF Providers, Sent

LEMMA StepAccounted ==
    TypeOK /\ AttemptsAccounted /\ [Next]_vars => AttemptsAccounted'
<1> SUFFICES ASSUME TypeOK, AttemptsAccounted, [Next]_vars
             PROVE  AttemptsAccounted'
    OBVIOUS
<1>1. trace \in [Events -> Nat] /\ sent \in [Providers -> Nat]
    BY DEF TypeOK
<1>2. {"physical_attempt", "physical_request", "physical_failed"} \subseteq Events
    BY DEF Events
<1>3. pc \in {"send", "wire"} => provider \in Providers
    BY ChainOfTwo DEF TypeOK, provider
<1>4. /\ trace["physical_attempt"] \in Nat /\ trace["physical_request"] \in Nat
      /\ trace["physical_failed"] \in Nat
      /\ sent["groq"] \in Nat /\ sent["openai"] \in Nat
    BY <1>1, <1>2 DEF Providers
<1>5. ASSUME NEW events, Emit(events), sent' = sent, pc' # "wire",
             events \cap {"physical_attempt", "physical_request", "physical_failed"}
                = {},
             pc # "wire"
      PROVE  AttemptsAccounted'
    BY <1>5, <1>1, <1>2, EmitTyped DEF AttemptsAccounted
<1>6. ASSUME NEW events, Emit(events), sent' = sent, pc' # "wire", pc = "wire",
             "physical_attempt" \notin events,
             "physical_request" \in events <=> "physical_failed" \notin events
      PROVE  AttemptsAccounted'
    <2>1. /\ trace'["physical_attempt"] = trace["physical_attempt"]
          /\ trace'["physical_request"] + trace'["physical_failed"] =
                trace["physical_request"] + trace["physical_failed"] + 1
        BY <1>6, <1>1, <1>2, <1>4, EmitTyped
    <2> QED
        BY <2>1, <1>4, <1>6 DEF AttemptsAccounted
<1>7. ASSUME trace' = trace, sent' = sent, pc' # "wire", pc # "wire"
      PROVE  AttemptsAccounted'
    BY <1>7 DEF AttemptsAccounted
<1>8. CASE SkipProvider
    BY <1>8, <1>7 DEF SkipProvider, MoveOn
<1>9. CASE TakeProvider
    BY <1>9, <1>5 DEF TakeProvider
<1>10. CASE Exhausted
    BY <1>10, <1>5 DEF Exhausted
<1>11. CASE SendRequest
    <2>1. sent'["groq"] + sent'["openai"] = Sent + 1
        BY <1>11, <1>1, <1>3, OneMoreSent DEF SendRequest
    <2>2. /\ trace'["physical_attempt"] = trace["physical_attempt"] + 1
          /\ trace'["physical_request"] = trace["physical_request"]
          /\ trace'["physical_failed"] = trace["physical_failed"]
        BY <1>11, <1>1, <1>2, <1>4, EmitTyped DEF SendRequest
    <2>3. pc = "send" /\ pc' = "wire"
        BY <1>11 DEF SendRequest
    <2> QED
        BY <2>1, <2>2, <2>3, <1>4 DEF AttemptsAccounted, Sent
<1>12. CASE SchemaUnsupported
    <2>1. sent'["groq"] + sent'["openai"] = Sent + 1
        BY <1>12, <1>1, <1>3, OneMoreSent DEF SchemaUnsupported
    <2>2. /\ trace'["physical_attempt"] = trace["physical_attempt"] + 1
          /\ trace'["physical_request"] = trace["physical_request"]
          /\ trace'["physical_failed"] = trace["physical_failed"] + 1
        BY <1>12, <1>1, <1>2, <1>4, EmitTyped DEF SchemaUnsupported
    <2>3. pc = "wire" /\ pc' = "wire"
        BY <1>12 DEF SchemaUnsupported
    <2> QED
        BY <2>1, <2>2, <2>3, <1>4 DEF AttemptsAccounted, Sent
<1>13. CASE RateLimited
    BY <1>13, <1>6 DEF RateLimited
<1>14. CASE Wake
    BY <1>14, <1>7 DEF Wake
<1>15. CASE RateLimitExhausted
    BY <1>15, <1>6 DEF RateLimitExhausted, MoveOn
<1>16. CASE CallFailed
    BY <1>16, <1>6 DEF CallFailed, MoveOn
<1>17. CASE NoChoices
    BY <1>17, <1>6 DEF NoChoices, MoveOn
<1>18. CASE ReceiveReply
    BY <1>18, <1>6 DEF ReceiveReply
<1>19. CASE ReturnReply
    BY <1>19, <1>7 DEF ReturnReply
<1>20. CASE StartRepair
    BY <1>20, <1>5 DEF StartRepair
<1>21. CASE RepairRejected
    BY <1>21, <1>7 DEF RepairRejected, MoveOn
<1>22. CASE ReplyIsNotText
    BY <1>22, <1>7 DEF ReplyIsNotText
<1>23. CASE UNCHANGED vars
    BY <1>23 DEF vars, AttemptsAccounted
<1> QED
    BY <1>8, <1>9, <1>10, <1>11, <1>12, <1>13, <1>14, <1>15, <1>16, <1>17,
       <1>18, <1>19, <1>20, <1>21, <1>22, <1>23 DEF Next

\* Every request that went out is counted once and ended once, for every
\* schedule and every sequence of failures.
THEOREM RequestsAccounted == Spec => []AttemptsAccounted
<1>1. Init => TypeOK /\ AttemptsAccounted
    <2>1. Init => AttemptsAccounted
        BY DEF Init, AttemptsAccounted, Events, Providers
    <2> QED
        BY <2>1, InitTyped
<1>2. (TypeOK /\ AttemptsAccounted) /\ [Next]_vars => (TypeOK /\ AttemptsAccounted)'
    BY StepTyped, StepAccounted
<1> QED
    BY <1>1, <1>2, PTL DEF Spec

----------------------------------------------------------------------------
(* The cost of a call.  CallBudget is not inductive: a provider's requests *)
(* have to be bounded by the place the loop has reached.                   *)

\* Attempts that the current provider has behind it.
AttemptsBehind ==
    (IF phase = "repair" THEN config.backoffs + 1 ELSE 0) + attempt

WholeBudget(p) == TripsPerAttempt(p) * (2 * (config.backoffs + 1))

\* What the current provider, p, may have been sent by now.
BudgetSoFar(p) ==
    IF pc = "choose" THEN 0
    ELSE IF pc \in {"send", "sleep"} THEN TripsPerAttempt(p) * AttemptsBehind
    ELSE IF pc = "wire" THEN TripsPerAttempt(p) * AttemptsBehind
                               + (IF mode = "json_object" THEN 2 ELSE 1)
    ELSE IF pc = "parse" THEN TripsPerAttempt(p) * (AttemptsBehind + 1)
    ELSE WholeBudget(p)

SentWithinBudget ==
    /\ \A i \in 1 .. Len(Chain) :
          /\ i < at => sent[Chain[i]] <= WholeBudget(Chain[i])
          /\ i = at => sent[Chain[i]] <= BudgetSoFar(Chain[i])
          /\ i > at => sent[Chain[i]] = 0
    /\ \A p \in Providers :
          (\A i \in 1 .. Len(Chain) : Chain[i] # p) => sent[p] = 0
    /\ pc = "wire" /\ mode = "json_object" => provider = "groq"

\* Sleeps of the current provider, and of a provider that is done.
SleepsSoFar ==
    IF pc \in {"choose", "raised"} THEN 0
    ELSE (IF phase = "repair" THEN config.backoffs ELSE 0) + attempt

SleepsBefore ==
    IF at = 1 THEN 0 ELSE IF at = 2 THEN 2 * config.backoffs
                                    ELSE 4 * config.backoffs

SleptWithinBudget ==
    /\ trace["rate_limited"] <= SleepsBefore + SleepsSoFar
    /\ pc = "raised" => at > Len(Chain)

\* The arithmetic of a budget, with TripsPerAttempt(p) multiplied out.
LEMMA BudgetValues ==
    ASSUME TypeOK, NEW p \in Providers
    PROVE  /\ AttemptsBehind \in Nat
           /\ AttemptsBehind + 1 <= 2 * (config.backoffs + 1)
           /\ TripsPerAttempt(p) * AttemptsBehind =
                 IF p = "groq" THEN 2 * AttemptsBehind ELSE AttemptsBehind
           /\ TripsPerAttempt(p) * (AttemptsBehind + 1) =
                 IF p = "groq" THEN 2 * AttemptsBehind + 2 ELSE AttemptsBehind + 1
           /\ WholeBudget(p) \in Nat
           /\ TripsPerAttempt(p) * (AttemptsBehind + 1) <= WholeBudget(p)
<1>1. config.backoffs \in Nat /\ attempt \in 0 .. config.backoffs
    BY ChainOfTwo DEF TypeOK
<1>2. AttemptsBehind \in Nat /\ AttemptsBehind + 1 <= 2 * (config.backoffs + 1)
    BY <1>1 DEF AttemptsBehind
<1>3. CASE p = "groq"
    BY <1>1, <1>2, <1>3 DEF TripsPerAttempt, WholeBudget
<1>4. CASE p # "groq"
    BY <1>1, <1>2, <1>4 DEF TripsPerAttempt, WholeBudget
<1> QED
    BY <1>2, <1>3, <1>4

\* A step that stays with a provider and keeps it within what it may have
\* been sent by then.
LEMMA StayWithin ==
    ASSUME TypeOK, SentWithinBudget, config' = config, at' = at,
           at <= Len(Chain), sent' \in [Providers -> Nat],
           \A p \in Providers : p # provider => sent'[p] = sent[p],
           sent'[provider] <= BudgetSoFar(provider)',
           pc' = "wire" /\ mode' = "json_object" => provider = "groq"
    PROVE  SentWithinBudget'
<1>1. /\ Len(Chain) \in {1, 2}
      /\ \A i \in 1 .. Len(Chain) : Chain[i] \in Providers
      /\ \A i, j \in 1 .. Len(Chain) : Chain[i] = Chain[j] => i = j
    BY ChainOfTwo DEF TypeOK
<1>2. Chain' = Chain /\ provider' = provider /\ at \in 1 .. Len(Chain)
    BY <1>1 DEF Chain, provider, TypeOK
<1>3. \A p : WholeBudget(p)' = WholeBudget(p)
    BY DEF WholeBudget, TripsPerAttempt
<1>4. ASSUME NEW i \in 1 .. Len(Chain)
      PROVE  /\ i < at => sent'[Chain[i]] <= WholeBudget(Chain[i])
             /\ i = at => sent'[Chain[i]] <= BudgetSoFar(Chain[i])'
             /\ i > at => sent'[Chain[i]] = 0
    <2>1. CASE i = at
        BY <2>1, <1>2 DEF provider
    <2>2. CASE i # at
        <3>1. Chain[i] \in Providers /\ Chain[i] # provider
            BY <1>1, <1>2, <2>2 DEF provider
        <3>2. sent'[Chain[i]] = sent[Chain[i]]
            BY <3>1
        <3> QED
            BY <3>2, <2>2 DEF SentWithinBudget
    <2> QED
        BY <2>1, <2>2
<1>5. ASSUME NEW p \in Providers, \A i \in 1 .. Len(Chain) : Chain[i] # p
      PROVE  sent'[p] = 0
    <2>1. p # provider
        BY <1>5, <1>2 DEF provider
    <2> QED
        BY <2>1, <1>5 DEF SentWithinBudget
<1> QED
    BY <1>2, <1>3, <1>4, <1>5 DEF SentWithinBudget

\* The same for a step that sends nothing.
LEMMA WaitWithin ==
    ASSUME TypeOK, SentWithinBudget, config' = config, at' = at,
           at <= Len(Chain), sent' = sent,
           BudgetSoFar(provider) \in Nat, BudgetSoFar(provider)' \in Nat,
           BudgetSoFar(provider) <= BudgetSoFar(provider)',
           pc' # "wire"
    PROVE  SentWithinBudget'
<1>1. sent \in [Providers -> Nat] /\ at \in 1 .. Len(Chain) /\ provider \in Providers
    BY ChainOfTwo DEF TypeOK, provider
<1>2. sent[provider] <= BudgetSoFar(provider)
    BY <1>1 DEF SentWithinBudget, provider
<1>3. sent'[provider] <= BudgetSoFar(provider)'
    BY <1>1, <1>2
<1> QED
    BY <1>1, <1>3, StayWithin

\* A provider that is left has not exceeded its whole budget.
LEMMA MoveOnWithin ==
    ASSUME TypeOK, SentWithinBudget, MoveOn, at <= Len(Chain),
           pc \in {"choose", "wire", "parse"}
    PROVE  SentWithinBudget'
<1>1. /\ Len(Chain) \in {1, 2}
      /\ \A i \in 1 .. Len(Chain) : Chain[i] \in Providers
      /\ at \in 1 .. Len(Chain) /\ provider \in Providers
      /\ sent \in [Providers -> Nat]
    BY ChainOfTwo DEF TypeOK, provider
<1>2. /\ Chain' = Chain /\ sent' = sent /\ at' = at + 1 /\ pc' = "choose"
      /\ \A p : WholeBudget(p)' = WholeBudget(p)
      /\ \A p : BudgetSoFar(p)' = 0
    BY DEF MoveOn, Chain, WholeBudget, TripsPerAttempt, BudgetSoFar
<1>3. sent[provider] <= WholeBudget(provider)
    <2>1. sent[provider] <= BudgetSoFar(provider)
        BY <1>1 DEF SentWithinBudget, provider
    <2>2. pc = "wire" /\ mode = "json_object" => provider = "groq"
        BY DEF SentWithinBudget
    <2>3. /\ AttemptsBehind \in Nat /\ WholeBudget(provider) \in Nat
          /\ TripsPerAttempt(provider) * AttemptsBehind =
                IF provider = "groq" THEN 2 * AttemptsBehind ELSE AttemptsBehind
          /\ TripsPerAttempt(provider) * (AttemptsBehind + 1) =
                IF provider = "groq" THEN 2 * AttemptsBehind + 2
                                     ELSE AttemptsBehind + 1
          /\ TripsPerAttempt(provider) * (AttemptsBehind + 1) <= WholeBudget(provider)
        BY <1>1, BudgetValues
    <2>4. CASE pc = "choose"
        BY <2>1, <2>3, <2>4, <1>1 DEF BudgetSoFar
    <2>5. CASE pc = "wire"
        <3>1. BudgetSoFar(provider) = TripsPerAttempt(provider) * AttemptsBehind
                + (IF mode = "json_object" THEN 2 ELSE 1)
            BY <2>5 DEF BudgetSoFar
        <3>2. CASE provider = "groq"
            BY <3>1, <3>2, <2>1, <2>3, <1>1
        <3>3. CASE provider # "groq"
            BY <3>1, <3>3, <2>1, <2>2, <2>3, <2>5, <1>1
        <3> QED
            BY <3>2, <3>3
    <2>6. CASE pc = "parse"
        BY <2>1, <2>3, <2>6, <1>1 DEF BudgetSoFar
    <2> QED
        BY <2>4, <2>5, <2>6
<1>4. ASSUME NEW i \in 1 .. Len(Chain)
      PROVE  /\ i < at + 1 => sent[Chain[i]] <= WholeBudget(Chain[i])
             /\ i = at + 1 => sent[Chain[i]] <= 0
             /\ i > at + 1 => sent[Chain[i]] = 0
    <2>1. CASE i < at
        BY <2>1, <1>1 DEF SentWithinBudget
    <2>2. CASE i = at
        BY <2>2, <1>1, <1>3 DEF provider
    <2>3. CASE i > at
        BY <2>3, <1>1 DEF SentWithinBudget
    <2> QED
        BY <2>1, <2>2, <2>3, <1>1
<1> QED
    BY <1>2, <1>4 DEF SentWithinBudget

LEMMA StepSentWithinBudget ==
    TypeOK /\ SentWithinBudget /\ [Next]_vars => SentWithinBudget'
<1> SUFFICES ASSUME TypeOK, SentWithinBudget, [Next]_vars
             PROVE  SentWithinBudget'
    OBVIOUS
<1>1. /\ pc \notin {"choose", "raised"} => at <= Len(Chain)
      /\ at <= Len(Chain) => provider \in Providers /\ at \in 1 .. Len(Chain)
      /\ Len(Chain) \in {1, 2}
      /\ sent \in [Providers -> Nat] /\ sent' \in [Providers -> Nat]
      /\ config.backoffs \in Nat /\ attempt \in 0 .. config.backoffs
      /\ TypeOK'
    BY StepTyped, ChainOfTwo DEF TypeOK, provider
<1>2. ASSUME at <= Len(Chain)
      PROVE  sent[provider] <= BudgetSoFar(provider) /\ sent[provider] \in Nat
    BY <1>1, <1>2 DEF SentWithinBudget, provider
<1>3. ASSUME config' = config, NEW p \in Providers
      PROVE  WholeBudget(p)' = WholeBudget(p)
    BY <1>3 DEF WholeBudget, TripsPerAttempt
\* What a provider may have been sent, written out on both sides of a step.
<1>4. ASSUME at <= Len(Chain)
      PROVE  /\ AttemptsBehind \in Nat
             /\ AttemptsBehind + 1 <= 2 * (config.backoffs + 1)
             /\ TripsPerAttempt(provider) * AttemptsBehind =
                   IF provider = "groq" THEN 2 * AttemptsBehind ELSE AttemptsBehind
             /\ TripsPerAttempt(provider) * (AttemptsBehind + 1) =
                   IF provider = "groq" THEN 2 * AttemptsBehind + 2
                                        ELSE AttemptsBehind + 1
             /\ WholeBudget(provider) \in Nat
             /\ TripsPerAttempt(provider) * (AttemptsBehind + 1)
                   <= WholeBudget(provider)
    BY <1>1, <1>4, BudgetValues
<1>5. ASSUME at <= Len(Chain), at' = at, config' = config,
             NEW n \in Nat, AttemptsBehind' = n
      PROVE  /\ provider' = provider
             /\ (TripsPerAttempt(provider) * AttemptsBehind)' =
                   IF provider = "groq" THEN 2 * n ELSE n
             /\ (TripsPerAttempt(provider) * (AttemptsBehind + 1))' =
                   IF provider = "groq" THEN 2 * n + 2 ELSE n + 1
    <2>1. provider' = provider
        BY <1>5 DEF provider, Chain
    <2>2. CASE provider = "groq"
        BY <2>1, <2>2, <1>5 DEF TripsPerAttempt
    <2>3. CASE provider # "groq"
        BY <2>1, <2>3, <1>5 DEF TripsPerAttempt
    <2> QED
        BY <2>1, <2>2, <2>3
<1>6. CASE SkipProvider
    BY <1>6, MoveOnWithin DEF SkipProvider
<1>7. CASE TakeProvider
    <2>1. /\ pc = "choose" /\ pc' = "send" /\ at <= Len(Chain) /\ at' = at
          /\ config' = config /\ sent' = sent
        BY <1>7 DEF TakeProvider
    <2>2. AttemptsBehind' = 0
        BY <1>7 DEF TakeProvider, AttemptsBehind
    <2>3. BudgetSoFar(provider) = 0 /\ BudgetSoFar(provider)' = 0
        BY <2>1, <2>2, <1>5 DEF BudgetSoFar
    <2> QED
        BY <2>1, <2>3, WaitWithin
<1>8. CASE Exhausted
    <2>1. /\ at' = at /\ config' = config /\ sent' = sent /\ at > Len(Chain)
          /\ Chain' = Chain /\ pc' = "raised" /\ mode' = mode
        BY <1>8 DEF Exhausted, Chain
    <2>2. \A p \in Providers : WholeBudget(p)' = WholeBudget(p)
        BY <2>1, <1>3
    <2>3. \A i \in 1 .. Len(Chain) : i < at /\ Chain[i] \in Providers
        BY <2>1, <1>1, ChainOfTwo DEF TypeOK
    <2> QED
        BY <2>1, <2>2, <2>3 DEF SentWithinBudget
<1>9. CASE SendRequest
    <2>1. /\ pc = "send" /\ pc' = "wire" /\ at <= Len(Chain) /\ at' = at
          /\ config' = config /\ mode' = "json_schema"
          /\ sent' = [sent EXCEPT ![provider] = @ + 1]
        BY <1>9, <1>1 DEF SendRequest
    <2>2. AttemptsBehind' = AttemptsBehind
        BY <1>9 DEF SendRequest, AttemptsBehind
    <2>3. sent'[provider] = sent[provider] + 1
        BY <2>1, <1>1
    <2>4. BudgetSoFar(provider)' = BudgetSoFar(provider) + 1
        BY <2>1, <2>2, <1>4, <1>5 DEF BudgetSoFar
    <2>5. BudgetSoFar(provider) \in Nat
        BY <2>1, <1>4 DEF BudgetSoFar
    <2>6. sent'[provider] <= BudgetSoFar(provider)'
        BY <2>1, <2>3, <2>4, <2>5, <1>2
    <2> QED
        BY <2>1, <2>6, <1>1, StayWithin
<1>10. CASE SchemaUnsupported
    <2>1. /\ pc = "wire" /\ pc' = "wire" /\ at <= Len(Chain) /\ at' = at
          /\ config' = config /\ mode = "json_schema" /\ mode' = "json_object"
          /\ provider = "groq"
          /\ sent' = [sent EXCEPT ![provider] = @ + 1]
        BY <1>10, <1>1 DEF SchemaUnsupported
    <2>2. AttemptsBehind' = AttemptsBehind
        BY <1>10 DEF SchemaUnsupported, AttemptsBehind
    <2>3. sent'[provider] = sent[provider] + 1
        BY <2>1, <1>1
    <2>4. BudgetSoFar(provider)' = BudgetSoFar(provider) + 1
        BY <2>1, <2>2, <1>4, <1>5 DEF BudgetSoFar
    <2>5. BudgetSoFar(provider) \in Nat
        BY <2>1, <1>4 DEF BudgetSoFar
    <2>6. sent'[provider] <= BudgetSoFar(provider)'
        BY <2>1, <2>3, <2>4, <2>5, <1>2
    <2> QED
        BY <2>1, <2>6, <1>1, StayWithin
\* From the wire: what was sent fits in one whole attempt.
<1>11. ASSUME pc = "wire"
       PROVE  /\ BudgetSoFar(provider) \in Nat
              /\ BudgetSoFar(provider) <= TripsPerAttempt(provider) * (AttemptsBehind + 1)
    <2>1. mode = "json_object" => provider = "groq"
        BY <1>11 DEF SentWithinBudget
    <2> QED
        BY <1>11, <2>1, <1>1, <1>4 DEF BudgetSoFar
<1>12. CASE RateLimited
    <2>1. /\ pc = "wire" /\ pc' = "sleep" /\ at <= Len(Chain) /\ at' = at
          /\ config' = config /\ sent' = sent
        BY <1>12, <1>1 DEF RateLimited
    <2>2. AttemptsBehind' = AttemptsBehind + 1
        BY <1>12, <1>1 DEF RateLimited, AttemptsBehind
    <2>3. BudgetSoFar(provider)' = TripsPerAttempt(provider) * (AttemptsBehind + 1)
        BY <2>1, <2>2, <1>4, <1>5 DEF BudgetSoFar
    <2> QED
        BY <2>1, <2>3, <1>4, <1>11, WaitWithin
<1>13. CASE Wake
    <2>1. /\ pc = "sleep" /\ pc' = "send" /\ at <= Len(Chain) /\ at' = at
          /\ config' = config /\ sent' = sent
        BY <1>13, <1>1 DEF Wake, call
    <2>2. AttemptsBehind' = AttemptsBehind
        BY <1>13 DEF Wake, call, AttemptsBehind
    <2>3. /\ BudgetSoFar(provider)' = BudgetSoFar(provider)
          /\ BudgetSoFar(provider) \in Nat
        BY <2>1, <2>2, <1>4, <1>5 DEF BudgetSoFar
    <2> QED
        BY <2>1, <2>3, WaitWithin
<1>14. CASE RateLimitExhausted
    BY <1>14, <1>1, MoveOnWithin DEF RateLimitExhausted
<1>15. CASE CallFailed
    BY <1>15, <1>1, MoveOnWithin DEF CallFailed
<1>16. CASE NoChoices
    BY <1>16, <1>1, MoveOnWithin DEF NoChoices
<1>17. CASE ReceiveReply
    <2>1. /\ pc = "wire" /\ pc' = "parse" /\ at <= Len(Chain) /\ at' = at
          /\ config' = config /\ sent' = sent
        BY <1>17, <1>1 DEF ReceiveReply
    <2>2. AttemptsBehind' = AttemptsBehind
        BY <1>17 DEF ReceiveReply, AttemptsBehind
    <2>3. BudgetSoFar(provider)' = TripsPerAttempt(provider) * (AttemptsBehind + 1)
        BY <2>1, <2>2, <1>4, <1>5 DEF BudgetSoFar
    <2> QED
        BY <2>1, <2>3, <1>4, <1>11, WaitWithin
<1>18. ASSUME pc = "parse", pc' \in {"returned", "escaped"}, at' = at,
              config' = config, sent' = sent
       PROVE  SentWithinBudget'
    <2>1. provider' = provider
        BY <1>18 DEF provider, Chain
    <2>2. WholeBudget(provider)' = WholeBudget(provider)
        BY <1>18, <2>1 DEF WholeBudget, TripsPerAttempt
    <2>3. BudgetSoFar(provider)' = WholeBudget(provider)
        BY <1>18, <2>2 DEF BudgetSoFar
    <2>4. BudgetSoFar(provider) = TripsPerAttempt(provider) * (AttemptsBehind + 1)
        BY <1>18 DEF BudgetSoFar
    <2> QED
        BY <1>18, <2>3, <2>4, <1>1, <1>4, WaitWithin
<1>19. CASE ReturnReply
    BY <1>19, <1>18 DEF ReturnReply, call
<1>20. CASE StartRepair
    <2>1. /\ pc = "parse" /\ pc' = "send" /\ at <= Len(Chain) /\ at' = at
          /\ config' = config /\ sent' = sent
        BY <1>20, <1>1 DEF StartRepair
    <2>2. AttemptsBehind' = config.backoffs + 1 /\ AttemptsBehind = attempt
        BY <1>20, <1>1 DEF StartRepair, AttemptsBehind
    <2>3. /\ BudgetSoFar(provider) = TripsPerAttempt(provider) * (AttemptsBehind + 1)
          /\ BudgetSoFar(provider)' =
                IF provider = "groq" THEN 2 * (config.backoffs + 1)
                                     ELSE config.backoffs + 1
        BY <2>1, <2>2, <1>1, <1>5 DEF BudgetSoFar
    <2>4. /\ BudgetSoFar(provider) =
                IF provider = "groq" THEN 2 * attempt + 2 ELSE attempt + 1
          /\ attempt \in Nat /\ config.backoffs \in Nat
          /\ attempt <= config.backoffs
        BY <2>1, <2>2, <2>3, <1>1, <1>4
    <2>5. /\ BudgetSoFar(provider) \in Nat /\ BudgetSoFar(provider)' \in Nat
          /\ BudgetSoFar(provider) <= BudgetSoFar(provider)'
        <3>1. CASE provider = "groq"
            BY <3>1, <2>3, <2>4
        <3>2. CASE provider # "groq"
            BY <3>2, <2>3, <2>4
        <3> QED
            BY <3>1, <3>2
    <2> QED
        BY <2>1, <2>5, WaitWithin
<1>21. CASE RepairRejected
    BY <1>21, <1>1, MoveOnWithin DEF RepairRejected
<1>22. CASE ReplyIsNotText
    BY <1>22, <1>18 DEF ReplyIsNotText
<1>23. CASE UNCHANGED vars
    BY <1>23 DEF vars, SentWithinBudget, BudgetSoFar, WholeBudget, AttemptsBehind,
                 TripsPerAttempt, Chain, provider
<1> QED
    BY <1>6, <1>7, <1>8, <1>9, <1>10, <1>12, <1>13, <1>14, <1>15, <1>16, <1>17,
       <1>19, <1>20, <1>21, <1>22, <1>23 DEF Next

LEMMA StepSleptWithinBudget ==
    TypeOK /\ SleptWithinBudget /\ [Next]_vars => SleptWithinBudget'
<1> SUFFICES ASSUME TypeOK, SleptWithinBudget, [Next]_vars
             PROVE  SleptWithinBudget'
    OBVIOUS
<1>1. /\ pc \notin {"choose", "raised"} => at <= Len(Chain)
      /\ Len(Chain) \in {1, 2} /\ at \in 1 .. Len(Chain) + 1
      /\ trace \in [Events -> Nat] /\ "rate_limited" \in Events
      /\ config.backoffs \in Nat /\ attempt \in 0 .. config.backoffs
      /\ trace["rate_limited"] \in Nat
    BY ChainOfTwo DEF TypeOK, Events
<1>spent. SleepsBefore \in Nat /\ trace["rate_limited"] <= SleepsBefore + SleepsSoFar
    BY <1>1 DEF SleepsBefore, SleptWithinBudget
\* A step that does not sleep, and stays with its provider.
<1>2. ASSUME trace'["rate_limited"] = trace["rate_limited"],
             at' = at, config' = config,
             NEW n \in Nat, SleepsSoFar' = n, SleepsSoFar <= n,
             pc' # "raised" \/ at > Len(Chain)
      PROVE  SleptWithinBudget'
    <2>1. SleepsBefore' = SleepsBefore /\ Chain' = Chain
        BY <1>2 DEF SleepsBefore, Chain
    <2>2. SleepsSoFar \in Nat
        BY <1>1 DEF SleepsSoFar
    <2> QED
        BY <2>1, <2>2, <1>spent, <1>1, <1>2 DEF SleptWithinBudget
\* A provider that is left has slept through two schedules at most.
<1>3. ASSUME MoveOn, at <= Len(Chain),
             trace'["rate_limited"] = trace["rate_limited"]
      PROVE  SleptWithinBudget'
    <2>1. pc' = "choose" /\ at' = at + 1 /\ config' = config
        BY <1>3 DEF MoveOn
    <2>2. SleepsSoFar' = 0
        BY <2>1 DEF SleepsSoFar
    <2>3. SleepsBefore' = SleepsBefore + 2 * config.backoffs
        <3>1. at \in {1, 2}
            BY <1>3, ChainOfTwo DEF TypeOK
        <3> QED
            BY <2>1, <3>1, <1>1 DEF SleepsBefore
    <2>4. SleepsSoFar \in Nat /\ SleepsSoFar <= 2 * config.backoffs
        BY <1>1 DEF SleepsSoFar
    <2> QED
        BY <2>1, <2>2, <2>3, <2>4, <1>spent, <1>1, <1>3 DEF SleptWithinBudget
<1>4. ASSUME NEW events, Emit(events), "rate_limited" \notin events
      PROVE  trace'["rate_limited"] = trace["rate_limited"]
    BY <1>4, <1>1, EmitTyped
<1>5. CASE SkipProvider
    BY <1>5, <1>3 DEF SkipProvider
<1>6. CASE TakeProvider
    <2>1. trace'["rate_limited"] = trace["rate_limited"]
        BY <1>6, <1>4 DEF TakeProvider
    <2>2. SleepsSoFar' = 0 /\ SleepsSoFar = 0
        BY <1>6 DEF TakeProvider, SleepsSoFar
    <2> QED
        BY <2>1, <2>2, <1>2, <1>6 DEF TakeProvider
<1>7. CASE Exhausted
    <2>1. trace'["rate_limited"] = trace["rate_limited"]
        BY <1>7, <1>4 DEF Exhausted
    <2>2. SleepsSoFar = 0 /\ SleepsSoFar' = 0
        BY <1>7 DEF Exhausted, SleepsSoFar
    <2> QED
        BY <2>1, <2>2, <1>1, <1>2, <1>7 DEF Exhausted
<1>8. ASSUME pc \notin {"choose", "raised"}, pc' # "choose", pc' # "raised",
             at' = at, config' = config, phase' = phase, attempt' = attempt,
             trace'["rate_limited"] = trace["rate_limited"]
      PROVE  SleptWithinBudget'
    <2>1. SleepsSoFar' = SleepsSoFar /\ SleepsSoFar \in Nat
        BY <1>8, <1>1 DEF SleepsSoFar
    <2> QED
        BY <2>1, <1>2, <1>8
<1>9. CASE SendRequest
    BY <1>9, <1>4, <1>8 DEF SendRequest
<1>10. CASE SchemaUnsupported
    BY <1>10, <1>4, <1>8 DEF SchemaUnsupported
<1>11. CASE RateLimited
    <2>1. trace'["rate_limited"] = trace["rate_limited"] + 1
        BY <1>11, <1>1, EmitTyped DEF RateLimited
    <2>2. SleepsSoFar' = SleepsSoFar + 1 /\ SleepsSoFar \in Nat
        BY <1>11, <1>1 DEF RateLimited, SleepsSoFar
    <2>3. SleepsBefore' = SleepsBefore /\ pc' # "raised"
        BY <1>11 DEF RateLimited, SleepsBefore
    <2> QED
        BY <2>1, <2>2, <2>3, <1>spent, <1>1 DEF SleptWithinBudget
<1>12. CASE Wake
    BY <1>12, <1>8 DEF Wake, call
<1>13. CASE RateLimitExhausted
    BY <1>13, <1>1, <1>3, <1>4 DEF RateLimitExhausted
<1>14. CASE CallFailed
    BY <1>14, <1>1, <1>3, <1>4 DEF CallFailed
<1>15. CASE NoChoices
    BY <1>15, <1>1, <1>3, <1>4 DEF NoChoices
<1>16. CASE ReceiveReply
    BY <1>16, <1>4, <1>8 DEF ReceiveReply
<1>17. CASE ReturnReply
    BY <1>17, <1>8 DEF ReturnReply, call
<1>18. CASE StartRepair
    <2>1. trace'["rate_limited"] = trace["rate_limited"]
        BY <1>18, <1>4 DEF StartRepair
    <2>2. SleepsSoFar' = config.backoffs /\ SleepsSoFar = attempt
        BY <1>18, <1>1 DEF StartRepair, SleepsSoFar
    <2> QED
        BY <2>1, <2>2, <1>1, <1>2, <1>18 DEF StartRepair
<1>19. CASE RepairRejected
    BY <1>19, <1>1, <1>3 DEF RepairRejected
<1>20. CASE ReplyIsNotText
    BY <1>20, <1>8 DEF ReplyIsNotText
<1>21. CASE UNCHANGED vars
    BY <1>21 DEF vars, SleptWithinBudget, SleepsBefore, SleepsSoFar, Chain
<1> QED
    BY <1>5, <1>6, <1>7, <1>9, <1>10, <1>11, <1>12, <1>13, <1>14, <1>15, <1>16,
       <1>17, <1>18, <1>19, <1>20, <1>21 DEF Next

LEMMA InitWithinBudget == Init => SentWithinBudget /\ SleptWithinBudget
<1> SUFFICES ASSUME Init PROVE SentWithinBudget /\ SleptWithinBudget
    OBVIOUS
<1>1. /\ \A p \in Providers : sent[p] = 0
      /\ at = 1 /\ pc = "choose" /\ trace["rate_limited"] = 0
    BY DEF Init, Events
<1>2. \A i \in 1 .. Len(Chain) : i >= at /\ sent[Chain[i]] = 0
    BY <1>1, ChainOfTwo DEF Init
<1>3. SentWithinBudget
    BY <1>1, <1>2 DEF SentWithinBudget, BudgetSoFar
<1>4. SleptWithinBudget
    BY <1>1 DEF SleptWithinBudget, SleepsBefore, SleepsSoFar
<1> QED
    BY <1>3, <1>4

LEMMA WithinBudgetIsEnough ==
    TypeOK /\ SentWithinBudget /\ SleptWithinBudget => CallBudget
<1> SUFFICES ASSUME TypeOK, SentWithinBudget, SleptWithinBudget PROVE CallBudget
    OBVIOUS
<1>1. /\ pc \notin {"choose", "raised"} => at <= Len(Chain)
      /\ pc = "raised" => at > Len(Chain)
      /\ Len(Chain) \in {1, 2} /\ at \in 1 .. Len(Chain) + 1
      /\ \A i \in 1 .. Len(Chain) : Chain[i] \in Providers
      /\ sent \in [Providers -> Nat]
      /\ config.backoffs \in Nat /\ attempt \in 0 .. config.backoffs
      /\ trace["rate_limited"] \in Nat
    BY ChainOfTwo DEF TypeOK, SleptWithinBudget, Events
<1>2. ASSUME NEW p \in Providers
      PROVE  sent[p] <= TripsPerAttempt(p) * 2 * (config.backoffs + 1)
    <2>1. /\ AttemptsBehind \in Nat /\ WholeBudget(p) \in Nat
          /\ TripsPerAttempt(p) * AttemptsBehind =
                IF p = "groq" THEN 2 * AttemptsBehind ELSE AttemptsBehind
          /\ TripsPerAttempt(p) * (AttemptsBehind + 1) =
                IF p = "groq" THEN 2 * AttemptsBehind + 2 ELSE AttemptsBehind + 1
          /\ TripsPerAttempt(p) * (AttemptsBehind + 1) <= WholeBudget(p)
        BY BudgetValues
    <2>2. ASSUME \A i \in 1 .. Len(Chain) : Chain[i] # p
          PROVE  sent[p] = 0
        BY <2>2 DEF SentWithinBudget
    <2>3. ASSUME NEW i \in 1 .. Len(Chain), Chain[i] = p
          PROVE  sent[p] <= WholeBudget(p)
        <3>1. CASE i # at
            BY <3>1, <2>1, <2>3, <1>1 DEF SentWithinBudget
        <3>2. CASE i = at
            <4>1. sent[p] <= BudgetSoFar(p) /\ p = provider
                BY <3>2, <2>3 DEF SentWithinBudget, provider
            <4>2. pc = "wire" /\ mode = "json_object" => p = "groq"
                BY <4>1 DEF SentWithinBudget
            <4>3. BudgetSoFar(p) \in Nat /\ BudgetSoFar(p) <= WholeBudget(p)
                BY <4>2, <2>1 DEF BudgetSoFar
            <4> QED
                BY <4>1, <4>3, <2>1, <1>1
        <3> QED
            BY <3>1, <3>2
    <2>4. WholeBudget(p) = TripsPerAttempt(p) * 2 * (config.backoffs + 1)
        <3>1. CASE p = "groq"
            BY <3>1, <1>1 DEF WholeBudget, TripsPerAttempt
        <3>2. CASE p # "groq"
            BY <3>2, <1>1 DEF WholeBudget, TripsPerAttempt
        <3> QED
            BY <3>1, <3>2
    <2>5. 0 <= WholeBudget(p)
        BY <2>1
    <2>6. sent[p] <= WholeBudget(p)
        BY <2>2, <2>3, <2>5
    <2> QED
        BY <2>4, <2>6
<1>3. trace["rate_limited"] <= Len(Chain) * 2 * config.backoffs
    <2>1. trace["rate_limited"] <= SleepsBefore + SleepsSoFar
        BY DEF SleptWithinBudget
    <2>2. SleepsSoFar \in Nat /\ SleepsSoFar <= 2 * config.backoffs
        BY <1>1 DEF SleepsSoFar
    <2>3. CASE Len(Chain) = 1
        <3>1. at = 1 \/ at = 2
            BY <2>3, <1>1
        <3>2. CASE at = 1
            BY <3>2, <2>1, <2>2, <2>3, <1>1 DEF SleepsBefore
        <3>3. CASE at = 2
            BY <3>3, <2>1, <2>3, <1>1 DEF SleepsBefore, SleptWithinBudget, SleepsSoFar
        <3> QED
            BY <3>1, <3>2, <3>3
    <2>4. CASE Len(Chain) = 2
        <3>1. at = 1 \/ at = 2 \/ at = 3
            BY <2>4, <1>1
        <3>2. CASE at \in {1, 2}
            BY <3>2, <2>1, <2>2, <2>4, <1>1 DEF SleepsBefore
        <3>3. CASE at = 3
            BY <3>3, <2>1, <2>4, <1>1 DEF SleepsBefore, SleptWithinBudget, SleepsSoFar
        <3> QED
            BY <3>1, <3>2, <3>3
    <2> QED
        BY <2>3, <2>4, <1>1
<1> QED
    BY <1>2, <1>3 DEF CallBudget

\* What one question can cost, for every configuration and every sequence of
\* rate limits, rejected formats and invalid replies: requests per provider,
\* and sleeps in all.
THEOREM CallCostBounded == Spec => []CallBudget
<1> DEFINE Inv == TypeOK /\ SentWithinBudget /\ SleptWithinBudget
<1>1. Init => Inv
    BY InitTyped, InitWithinBudget
<1>2. Inv /\ [Next]_vars => Inv'
    BY StepTyped, StepSentWithinBudget, StepSleptWithinBudget
<1>3. Inv => CallBudget
    BY WithinBudgetIsEnough
<1> QED
    BY <1>1, <1>2, <1>3, PTL DEF Spec

----------------------------------------------------------------------------
(* Giving up.                                                              *)

\* Every provider the loop has left behind was contacted, if it has a key.
ContactedBehind ==
    /\ \A i \in 1 .. Len(Chain) :
          i < at /\ Chain[i] \in config.keys => sent[Chain[i]] > 0
    /\ pc \in {"wire", "parse"} => sent[provider] > 0
    /\ pc = "raised" => at > Len(Chain) /\ trace["generation_exhausted"] = 1
    /\ pc # "raised" => trace["generation_exhausted"] = 0

LEMMA InitContacted == Init => ContactedBehind
<1> SUFFICES ASSUME Init PROVE ContactedBehind
    OBVIOUS
<1>1. at = 1 /\ pc = "choose" /\ trace["generation_exhausted"] = 0
    BY DEF Init, Events
<1>2. \A i \in 1 .. Len(Chain) : ~(i < at)
    BY <1>1, ChainOfTwo DEF Init
<1> QED
    BY <1>1, <1>2 DEF ContactedBehind

LEMMA StepContactedBehind ==
    TypeOK /\ ContactedBehind /\ [Next]_vars => ContactedBehind'
<1> SUFFICES ASSUME TypeOK, ContactedBehind, [Next]_vars
             PROVE  ContactedBehind'
    OBVIOUS
<1>1. /\ pc \notin {"choose", "raised"} => at <= Len(Chain)
      /\ at <= Len(Chain) => provider \in Providers
      /\ at \in Nat /\ Len(Chain) \in Nat
      /\ \A i \in 1 .. Len(Chain) : Chain[i] \in Providers
      /\ sent \in [Providers -> Nat] /\ trace \in [Events -> Nat]
      /\ "generation_exhausted" \in Events
    BY ChainOfTwo DEF TypeOK, provider, Events
<1>2. ASSUME NEW events, Emit(events), "generation_exhausted" \notin events
      PROVE  trace'["generation_exhausted"] = trace["generation_exhausted"]
    BY <1>2, <1>1, EmitTyped
\* Leaving a provider that was contacted, or has no key.
<1>3. ASSUME MoveOn, at <= Len(Chain), pc # "raised",
             provider \in config.keys => sent[provider] > 0,
             trace'["generation_exhausted"] = trace["generation_exhausted"]
      PROVE  ContactedBehind'
    <2>1. /\ Chain' = Chain /\ config' = config /\ sent' = sent
          /\ at' = at + 1 /\ pc' = "choose"
        BY <1>3 DEF MoveOn, Chain
    <2>2. ASSUME NEW i \in 1 .. Len(Chain), i < at + 1, Chain[i] \in config.keys
          PROVE  sent[Chain[i]] > 0
        <3>1. i < at \/ i = at
            BY <2>2, <1>1
        <3> QED
            BY <3>1, <2>2, <1>3 DEF ContactedBehind, provider
    <2> QED
        BY <2>1, <2>2, <1>3 DEF ContactedBehind
\* Staying with a provider.
<1>4. ASSUME at' = at, config' = config, pc # "raised", pc' # "raised",
             \A p \in Providers : sent[p] > 0 => sent'[p] > 0,
             pc' \in {"wire", "parse"} => sent'[provider] > 0,
             trace'["generation_exhausted"] = trace["generation_exhausted"]
      PROVE  ContactedBehind'
    <2>1. Chain' = Chain /\ provider' = provider
        BY <1>4 DEF Chain, provider
    <2> QED
        BY <2>1, <1>1, <1>4 DEF ContactedBehind
<1>5. CASE SkipProvider
    BY <1>5, <1>3 DEF SkipProvider
<1>6. CASE TakeProvider
    BY <1>6, <1>2, <1>4 DEF TakeProvider
<1>7. CASE Exhausted
    <2>1. /\ Chain' = Chain /\ config' = config /\ sent' = sent /\ at' = at
          /\ at > Len(Chain) /\ pc = "choose" /\ pc' = "raised"
        BY <1>7 DEF Exhausted, Chain
    <2>2. trace'["generation_exhausted"] = 1
        BY <1>7, <2>1, <1>1, EmitTyped DEF Exhausted, ContactedBehind
    <2> QED
        BY <2>1, <2>2 DEF ContactedBehind
<1>8. ASSUME sent' = [sent EXCEPT ![provider] = @ + 1], at <= Len(Chain)
      PROVE  /\ \A p \in Providers : sent[p] > 0 => sent'[p] > 0
             /\ sent'[provider] > 0
    BY <1>8, <1>1
<1>9. CASE SendRequest
    BY <1>9, <1>1, <1>2, <1>4, <1>8 DEF SendRequest
<1>10. CASE SchemaUnsupported
    BY <1>10, <1>1, <1>2, <1>4, <1>8 DEF SchemaUnsupported
<1>11. CASE RateLimited
    BY <1>11, <1>2, <1>4 DEF RateLimited
<1>12. CASE Wake
    BY <1>12, <1>4 DEF Wake, call
<1>13. CASE RateLimitExhausted
    BY <1>13, <1>1, <1>2, <1>3 DEF RateLimitExhausted, ContactedBehind
<1>14. CASE CallFailed
    BY <1>14, <1>1, <1>2, <1>3 DEF CallFailed, ContactedBehind
<1>15. CASE NoChoices
    BY <1>15, <1>1, <1>2, <1>3 DEF NoChoices, ContactedBehind
<1>16. CASE ReceiveReply
    BY <1>16, <1>2, <1>4 DEF ReceiveReply, ContactedBehind
<1>17. CASE ReturnReply
    BY <1>17, <1>4 DEF ReturnReply, call
<1>18. CASE StartRepair
    BY <1>18, <1>2, <1>4 DEF StartRepair
<1>19. CASE RepairRejected
    BY <1>19, <1>1, <1>3 DEF RepairRejected, ContactedBehind
<1>20. CASE ReplyIsNotText
    BY <1>20, <1>4 DEF ReplyIsNotText
<1>21. CASE UNCHANGED vars
    BY <1>21 DEF vars, ContactedBehind, Chain, provider
<1> QED
    BY <1>5, <1>6, <1>7, <1>9, <1>10, <1>11, <1>12, <1>13, <1>14, <1>15, <1>16,
       <1>17, <1>18, <1>19, <1>20, <1>21 DEF Next

\* GenerationError comes out only when every provider of the chain that has a
\* key was contacted, whatever the keys and the order of failures.
THEOREM NothingLeftToTry == Spec => []GiveUpOnlyWhenExhausted
<1> DEFINE Inv == TypeOK /\ ContactedBehind
<1>1. Init => Inv
    BY InitTyped, InitContacted
<1>2. Inv /\ [Next]_vars => Inv'
    BY StepTyped, StepContactedBehind
<1>3. Inv => GiveUpOnlyWhenExhausted
    <2> SUFFICES ASSUME TypeOK, ContactedBehind, pc = "raised"
                 PROVE  /\ trace["generation_exhausted"] = 1
                        /\ \A i \in 1 .. Len(Chain) :
                              Chain[i] \in config.keys => sent[Chain[i]] > 0
        BY DEF GiveUpOnlyWhenExhausted
    <2>1. at > Len(Chain) /\ at \in Nat /\ Len(Chain) \in Nat
        BY ChainOfTwo DEF TypeOK, ContactedBehind
    <2>2. \A i \in 1 .. Len(Chain) : i < at
        BY <2>1
    <2> QED
        BY <2>2 DEF ContactedBehind
<1> QED
    BY <1>1, <1>2, <1>3, PTL DEF Spec

----------------------------------------------------------------------------
(* Failover.                                                               *)

\* How far along the chain the loop has got, the provider it is busy with included.
Reach == IF pc \in {"choose", "raised"} THEN at - 1 ELSE at

\* The places of the chain whose provider the loop has taken: it has a key.
Taken == {i \in {1, 2} : i <= Len(Chain) /\ i <= Reach /\ Chain[i] \in config.keys}

\* Both providers taken is one provider_fallback, and whoever was sent a request
\* was taken.
FailoverCounted ==
    /\ attempted = TRUE <=> Taken # {}
    /\ \A p \in Providers : sent[p] > 0 => \E i \in Taken : Chain[i] = p
    /\ Taken = {1, 2} => trace["provider_fallback"] = 1
    /\ Taken # {1, 2} => trace["provider_fallback"] = 0
    /\ pc \notin {"choose", "raised"} => at \in Taken

\* A step that takes no provider and emits no provider_fallback.
LEMMA NothingTaken ==
    ASSUME FailoverCounted, Chain' = Chain, Taken' = Taken, attempted' = attempted,
           trace'["provider_fallback"] = trace["provider_fallback"],
           \A p \in Providers : sent'[p] > 0 => sent[p] > 0 \/ \E i \in Taken : Chain[i] = p,
           pc' \notin {"choose", "raised"} => at' \in Taken
    PROVE  FailoverCounted'
<1>1. attempted' = TRUE <=> Taken' # {}
    BY DEF FailoverCounted
<1>2. \A p \in Providers : sent'[p] > 0 => \E i \in Taken' : Chain'[i] = p
    BY DEF FailoverCounted
<1> QED
    BY <1>1, <1>2 DEF FailoverCounted

\* A step that goes no further along the chain takes no provider.
LEMMA SameReach ==
    ASSUME config' = config, Reach' = Reach
    PROVE  Chain' = Chain /\ Taken' = Taken
BY DEF Chain, Taken

LEMMA TakingCounted ==
    ASSUME TypeOK, FailoverCounted, TakeProvider
    PROVE  FailoverCounted'
<1>1. /\ Chain' = Chain /\ Len(Chain) \in {1, 2} /\ at \in {1, 2} /\ at <= Len(Chain)
      /\ config' = config
    BY ChainOfTwo DEF TakeProvider, Chain, TypeOK
<1>2. Reach = at - 1 /\ Reach' = at /\ at' = at /\ Chain[at] \in config.keys
    BY DEF TakeProvider, Reach, provider
<1>3. Taken' = Taken \cup {at} /\ at \notin Taken
    <2>1. \A i \in {1, 2} : i \in Taken' <=> i \in Taken \/ i = at
        BY <1>1, <1>2 DEF Taken
    <2> QED
        BY <1>1, <1>2, <2>1 DEF Taken
<1>4. /\ sent' = sent /\ attempted' = TRUE
      /\ trace' = [e \in Events |-> IF e \in (IF attempted THEN {"provider_fallback"} ELSE {})
                                    THEN trace[e] + 1 ELSE trace[e]]
    BY DEF TakeProvider, Emit
<1>5. attempted = TRUE => trace'["provider_fallback"] = trace["provider_fallback"] + 1
    BY <1>4 DEF Events
<1>6. attempted # TRUE => trace'["provider_fallback"] = trace["provider_fallback"]
    BY <1>4 DEF Events, TypeOK
<1>7. Taken \in {{}, {1}, {2}}
    BY <1>1, <1>3 DEF Taken
<1>8. trace["provider_fallback"] = 0
    BY <1>7 DEF FailoverCounted
<1>9. Taken' = {1, 2} <=> Taken # {}
    <2>1. CASE Taken = {}
        <3>1. Taken' = {at}
            BY <1>3, <2>1
        <3> QED
            BY <1>1, <2>1, <3>1
    <2>2. CASE Taken # {}
        <3>1. \A i \in {1, 2} : i \in Taken'
            BY <1>1, <1>3, <1>7, <2>2
        <3>2. Taken' \subseteq {1, 2}
            BY <1>1, <1>3, <1>7
        <3> QED
            BY <2>2, <3>1, <3>2
    <2> QED
        BY <2>1, <2>2
<1>10. trace'["provider_fallback"] = IF Taken # {} THEN 1 ELSE 0
    <2>1. CASE Taken = {}
        <3>1. attempted # TRUE
            BY <2>1 DEF FailoverCounted
        <3> QED
            BY <1>6, <1>8, <2>1, <3>1
    <2>2. CASE Taken # {}
        <3>1. attempted = TRUE
            BY <2>2 DEF FailoverCounted
        <3> QED
            BY <1>5, <1>8, <2>2, <3>1
    <2> QED
        BY <2>1, <2>2
<1>11. \A p \in Providers : sent'[p] > 0 => \E i \in Taken' : Chain'[i] = p
    BY <1>1, <1>3, <1>4 DEF FailoverCounted
<1>12. at' \in Taken' /\ Taken' # {}
    BY <1>2, <1>3
<1> QED
    BY <1>4, <1>9, <1>10, <1>11, <1>12 DEF FailoverCounted

LEMMA StepFailoverCounted == TypeOK /\ FailoverCounted /\ [Next]_vars => FailoverCounted'
<1> SUFFICES ASSUME TypeOK, FailoverCounted, [Next]_vars PROVE FailoverCounted'
    OBVIOUS
<1> DEFINE Same == trace'["provider_fallback"] = trace["provider_fallback"]
<1>1. /\ "provider_fallback" \in Events /\ trace \in [Events -> Nat]
      /\ sent \in [Providers -> Nat]
      /\ at \in Nat
    BY ChainOfTwo DEF TypeOK, Events
<1>2. ASSUME NEW events, Emit(events), "provider_fallback" \notin events
      PROVE  Same
    BY <1>1, <1>2 DEF Emit
<1>3. CASE SkipProvider
    <2>1. /\ Chain' = Chain /\ config' = config /\ Reach = at - 1 /\ Reach' = at
          /\ Chain[at] \notin config.keys
        BY <1>1, <1>3 DEF SkipProvider, MoveOn, Reach, Chain, provider
    <2>2. \A i \in {1, 2} : i \in Taken' <=> i \in Taken
        BY <1>1, <2>1 DEF Taken
    <2>3. Taken' = Taken
        BY <2>2 DEF Taken
    <2> QED
        BY <1>3, <2>1, <2>3, NothingTaken DEF SkipProvider, MoveOn
<1>4. CASE RateLimitExhausted \/ CallFailed \/ NoChoices \/ RepairRejected
    <2>1. Same
        BY <1>2, <1>4 DEF RateLimitExhausted, CallFailed, NoChoices, RepairRejected
    <2>2. /\ MoveOn /\ pc \notin {"choose", "raised"}
        BY <1>4 DEF RateLimitExhausted, CallFailed, NoChoices, RepairRejected
    <2>3. Reach' = Reach /\ config' = config /\ attempted' = attempted
          /\ sent' = sent /\ pc' = "choose"
        BY <1>1, <2>2 DEF MoveOn, Reach
    <2> QED
        BY <2>1, <2>3, SameReach, NothingTaken
<1>5. CASE Exhausted
    <2>1. Same
        BY <1>2, <1>5 DEF Exhausted
    <2>2. Reach' = Reach /\ config' = config /\ attempted' = attempted
          /\ sent' = sent /\ pc' = "raised"
        BY <1>5 DEF Exhausted, Reach
    <2> QED
        BY <2>1, <2>2, SameReach, NothingTaken
<1>6. CASE SendRequest \/ SchemaUnsupported
    <2>1. Same
        BY <1>2, <1>6 DEF SendRequest, SchemaUnsupported
    <2>2. at \in Taken
        BY <1>6 DEF SendRequest, SchemaUnsupported, FailoverCounted
    <2>3. /\ config' = config /\ attempted' = attempted /\ at' = at
          /\ Reach' = Reach /\ sent' = [sent EXCEPT ![Chain[at]] = @ + 1]
        BY <1>6 DEF SendRequest, SchemaUnsupported, Reach, provider
    <2>4. \A p \in Providers : sent'[p] > 0 => sent[p] > 0 \/ \E i \in Taken : Chain[i] = p
        BY <1>1, <2>2, <2>3
    <2> QED
        BY <2>1, <2>2, <2>3, <2>4, SameReach, NothingTaken
<1>7. CASE RateLimited \/ ReceiveReply \/ StartRepair \/ Wake \/ ReturnReply \/ ReplyIsNotText
    <2>1. Same
        <3>1. CASE RateLimited \/ ReceiveReply \/ StartRepair
            BY <1>2, <3>1 DEF RateLimited, ReceiveReply, StartRepair
        <3>2. CASE Wake \/ ReturnReply \/ ReplyIsNotText
            BY <3>2 DEF Wake, ReturnReply, ReplyIsNotText
        <3> QED
            BY <1>7, <3>1, <3>2
    <2>2. /\ config' = config /\ attempted' = attempted /\ at' = at /\ sent' = sent
          /\ pc \notin {"choose", "raised"} /\ pc' \notin {"choose", "raised"}
        BY <1>7 DEF RateLimited, ReceiveReply, StartRepair, Wake, ReturnReply,
                    ReplyIsNotText, call
    <2>3. Reach' = Reach /\ at' \in Taken
        BY <2>2 DEF Reach, FailoverCounted
    <2> QED
        BY <2>1, <2>2, <2>3, SameReach, NothingTaken
<1>8. CASE UNCHANGED vars
    <2>1. /\ config' = config /\ attempted' = attempted /\ at' = at /\ sent' = sent
          /\ pc' = pc /\ Same
        BY <1>8 DEF vars
    <2>2. Reach' = Reach /\ (pc' \notin {"choose", "raised"} => at' \in Taken)
        BY <2>1 DEF Reach, FailoverCounted
    <2> QED
        BY <2>1, <2>2, SameReach, NothingTaken
<1> QED
    BY <1>3, <1>4, <1>5, <1>6, <1>7, <1>8, TakingCounted DEF Next

\* provider_fallback is in the trace exactly when both providers were contacted,
\* the configured one first, and only if the settings allow it.
THEOREM FailoverIsTraced == Spec => []FailoverVisible
<1> DEFINE Inv == TypeOK /\ ContactedBehind /\ FailoverCounted
<1>1. Init => Inv
    <2>1. Init => Reach = 0 /\ Taken = {}
        BY DEF Init, Reach, Taken
    <2>2. Init => FailoverCounted
        BY <2>1 DEF Init, FailoverCounted, Events, Providers
    <2> QED
        BY <2>2, InitTyped, InitContacted
<1>2. Inv /\ [Next]_vars => Inv'
    BY StepTyped, StepContactedBehind, StepFailoverCounted
<1>3. Inv => FailoverVisible
    <2> SUFFICES ASSUME TypeOK, ContactedBehind, FailoverCounted PROVE FailoverVisible
        OBVIOUS
    <2>1. /\ Chain[1] = config.primary /\ config.primary \in Providers
          /\ Len(Chain) \in {1, 2} /\ at \in Nat
          /\ Len(Chain) = 2 => config.fallback /\ Chain[2] = Other(config.primary)
          /\ config.keys \subseteq Providers
        BY ChainOfTwo DEF TypeOK, Chain, Configs
    <2>2. Providers = {config.primary, Other(config.primary)}
          /\ config.primary # Other(config.primary)
        BY <2>1 DEF Providers, Other
    <2>3. Taken \subseteq {1, 2}
        BY DEF Taken
    <2>4. (\A p \in Providers : sent[p] > 0) => trace["provider_fallback"] = 1
        <3> SUFFICES ASSUME \A p \in Providers : sent[p] > 0 PROVE Taken = {1, 2}
            BY DEF FailoverCounted
        <3>1. PICK i \in Taken : Chain[i] = config.primary
            BY <2>1 DEF FailoverCounted
        <3>2. PICK j \in Taken : Chain[j] = Other(config.primary)
            BY <2>2 DEF FailoverCounted
        <3> QED
            BY <2>2, <2>3, <3>1, <3>2
    <2>5. ASSUME Taken = {1, 2}
          PROVE  config.fallback /\ config.keys = Providers /\ sent[config.primary] > 0
        <3>1. 1 \in Taken /\ 2 \in Taken
            BY <2>5
        <3>2. Len(Chain) = 2 /\ Chain[1] \in config.keys /\ Chain[2] \in config.keys /\ 1 < at
            BY <2>1, <3>1 DEF Taken, Reach
        <3> QED
            BY <2>1, <2>2, <3>2 DEF ContactedBehind
    <2>6. ASSUME NEW p \in Providers, sent[p] > 0
          PROVE  p \in config.keys /\ (p = config.primary \/ config.fallback)
        <3>1. PICK i \in Taken : Chain[i] = p
            BY <2>6 DEF FailoverCounted
        <3> QED
            BY <2>1, <3>1 DEF Taken
    <2>7. trace["provider_fallback"] > 0 => Taken = {1, 2}
        BY DEF FailoverCounted
    <2> QED
        BY <2>4, <2>5, <2>6, <2>7 DEF FailoverVisible
<1> QED
    BY <1>1, <1>2, <1>3, PTL DEF Spec

----------------------------------------------------------------------------
(* The port.                                                               *)

LEMMA StepMapsToPort == [Next]_vars => [Port!Next]_(Port!vars)
<1> SUFFICES ASSUME [Next]_vars PROVE [Port!Next]_(Port!vars)
    OBVIOUS
<1> DEFINE ended == {"returned", "raised", "escaped"}
<1>1. ASSUME pc \notin ended, pc' \notin ended
      PROVE  UNCHANGED Port!vars
    BY <1>1 DEF Port!vars
<1>2. CASE ReturnReply
    <2>1. pc = "parse" /\ pc' = "returned" /\ reply' \in ValidReplies
        BY <1>2 DEF ReturnReply, Acceptable, call
    <2>2. Port!Return
        BY <2>1 DEF Port!Return
    <2> QED
        BY <2>2 DEF Port!Next
<1>3. CASE Exhausted
    <2>1. pc = "choose" /\ pc' = "raised"
        BY <1>3 DEF Exhausted
    <2>2. Port!Raise
        BY <2>1 DEF Port!Raise
    <2> QED
        BY <2>2 DEF Port!Next
<1>4. CASE ReplyIsNotText
    <2>1. pc = "parse" /\ pc' = "escaped"
        BY <1>4 DEF ReplyIsNotText
    <2>2. Port!Raise
        BY <2>1 DEF Port!Raise
    <2> QED
        BY <2>2 DEF Port!Next
<1>5. CASE SkipProvider \/ TakeProvider \/ SendRequest \/ SchemaUnsupported
           \/ RateLimited \/ Wake \/ RateLimitExhausted \/ CallFailed
           \/ NoChoices \/ ReceiveReply \/ StartRepair \/ RepairRejected
    <2>1. pc \notin ended /\ pc' \notin ended
        BY <1>5 DEF SkipProvider, TakeProvider, SendRequest, SchemaUnsupported,
                    RateLimited, Wake, RateLimitExhausted, CallFailed, NoChoices,
                    ReceiveReply, StartRepair, RepairRejected, MoveOn
    <2> QED
        BY <2>1, <1>1
<1>6. CASE UNCHANGED vars
    BY <1>6 DEF vars, Port!vars
<1> QED
    BY <1>2, <1>3, <1>4, <1>5, <1>6 DEF Next

\* The safety half of ImplementsPort: a call hands over a reply that satisfies
\* the schema, or raises, once.
THEOREM CallStepsImplementPort ==
    Spec => Port!Init /\ [][Port!Next]_(Port!vars)
<1>1. Init => Port!Init
    BY DEF Init, Port!Init
<1> QED
    BY <1>1, StepMapsToPort, PTL DEF Spec
============================================================================
