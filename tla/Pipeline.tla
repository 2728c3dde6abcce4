------------------------------- MODULE Pipeline -------------------------------
(***************************************************************************)
(* One request in the compiled pipeline of a route: the declared           *)
(* validators, the guards, the handler, and the error policy around them.  *)
(*                                                                         *)
(* The code holds the stages three times: for a route with a body (all     *)
(* awaited), for one without (synchronous until a promise turns up), and   *)
(* executeAsyncPipeline, which takes over from the second after an         *)
(* asynchronous validator and is told by the keys of partialContext which  *)
(* stages are behind it.  The state of a request lives in closures, so     *)
(* requests do not meet here.                                              *)
(***************************************************************************)
EXTENDS Naturals

CONSTANTS
  GuardLimit,  \* a bound on the guards of a route
  Keys         \* context keys guards may add

ASSUME GuardLimitAssumption == GuardLimit \in Nat

\* The stages in the order of the source: four slots, the guards, the handler.
headers == 1
params == 2
query == 3
body == 4
Slots == headers .. body
Guards == body + 1 .. body + GuardLimit
handler == body + GuardLimit + 1
Stages == Slots \cup Guards \cup {handler}

VARIABLES
  route,    \* what the descriptor declares
  path,     \* the copy of the pipeline that runs
  phase,    \* what the request is doing
  at,       \* the stage it has come to
  partial,  \* the keys of partialContext
  data,     \* headersData, paramsData, queryData, bodyData
  owner,    \* keyOwners: the guard that produced each enrichment key, or 0
  calls,    \* how often each stage's function was called
  result,   \* what it came to
  gave,     \* the keys of each guard's enrichment
  answer    \* what the request is answered with

context == <<partial, data, owner>>
history == <<calls, result, gave>>
vars == <<route, path, phase, at, context, history, answer>>

\* A validator may transform its input to undefined; that is an output.
Outputs == {"value", "undefined"}
Values == Outputs \cup {"raw", "absent"}

\* A framework-owned key stands for BASE_CONTEXT_RESERVED_KEYS.
reserved == "reserved"
ContextKeys == Keys \cup {reserved}

Enrichments == [kind : {"enrichment"}, keys : SUBSET ContextKeys]
GuardResults == Enrichments \cup [kind : {"response", "malformed", "throws"}, keys : {{}}]
ValidatorResults == Outputs \cup {"issues", "throws"}
HandlerResults == {"response", "malformed", "throws"}

TypeOK ==
  /\ route \in [declared : SUBSET Slots, guards : 0 .. GuardLimit, custom : BOOLEAN]
  /\ path \in {"body", "direct", "resumed"}
  /\ phase \in {"running", "awaiting", "policy", "policyAwaiting", "answered"}
  /\ at \in Stages /\ partial \in SUBSET Slots
  /\ data \in [Slots -> Values]
  /\ owner \in [ContextKeys -> Guards \cup {0}]
  /\ calls \in [Stages -> Nat]
  /\ result \in [Stages -> ValidatorResults \cup {"none", "response", "enrichment", "malformed"}]
  /\ gave \in [Guards -> SUBSET ContextKeys]
  /\ answer \in {"none", "refused", "guard", "handler", "policy", "redacted"}

Wanted(n) ==
  \/ n \in route.declared
  \/ n \in Guards /\ n - body <= route.guards
  \/ n = handler

\* What a slot holds before its validator ran: the router's own params.
unvalidated == [s \in Slots |-> IF s = params THEN "raw" ELSE "absent"]

Init ==
  /\ route \in [declared : SUBSET Slots, guards : 0 .. GuardLimit, custom : BOOLEAN]
  /\ path = IF body \in route.declared THEN "body" ELSE "direct"
  /\ phase = "running" /\ at = headers
  /\ partial = {} /\ data = unvalidated /\ owner = [k \in ContextKeys |-> 0]
  /\ calls = [n \in Stages |-> 0] /\ result = [n \in Stages |-> "none"]
  /\ gave = [g \in Guards |-> {}]
  /\ answer = "none"

-----------------------------------------------------------------------------
\* The function of this stage is called.
Call ==
  /\ phase = "running" /\ Wanted(at) /\ at \notin partial
  /\ calls' = [calls EXCEPT ![at] = @ + 1]
  /\ UNCHANGED <<route, partial>>

\* It returned a promise.
CallLater ==
  /\ Call
  /\ phase' = "awaiting"
  /\ UNCHANGED <<path, at, data, owner, result, gave, answer>>

\* It is undeclared, or behind the request already.
Skip ==
  /\ phase = "running" /\ at # handler
  /\ ~Wanted(at) \/ at \in partial
  /\ at' = at + 1
  /\ UNCHANGED <<route, path, phase, context, history, answer>>

Settled(n) == phase = "awaiting" /\ at = n /\ UNCHANGED <<route, calls>>

Throw == phase' = "policy" /\ UNCHANGED answer

Answer(with) == phase' = "answered" /\ answer' = with

-----------------------------------------------------------------------------
(* Validators.                                                             *)

\* The validator of the slot has come to r; the same code goes on.
Validated(r) ==
  /\ result' = [result EXCEPT ![at] = r]
  /\ IF r \in Outputs
       THEN /\ data' = [data EXCEPT ![at] = r]
            /\ at' = at + 1 /\ phase' = "running" /\ UNCHANGED answer
       ELSE /\ IF r = "throws" THEN Throw ELSE Answer("refused")
            /\ UNCHANGED <<at, data>>
  /\ UNCHANGED <<path, owner, gave>>

ValidateNow(r) == at \in Slots \ {body} /\ Call /\ Validated(r)

\* Body parsing is always asynchronous; "issues" stands for every refusal of
\* it, 400, 413, 415 and 422.
ValidateLater == at \in Slots /\ CallLater

ValidateSettles(r) ==
  /\ at \in Slots /\ path # "direct"
  /\ Settled(at) /\ Validated(r)
  /\ UNCHANGED partial

\* Mutant: a stage whose output is undefined does not count as completed.
CompletedByValue(r) ==
  {s \in headers .. at : (IF s = at THEN r ELSE data[s]) \notin {"undefined", "absent"}}

\* The keys of partialContext: the stage that settled and all before it.
Completed(r) == headers .. at

\* Mutant: `?? rawParams`.
ResumedOrRaw(r) ==
  [s \in Slots |-> IF s \in partial' /\ (IF s = at THEN r ELSE data[s]) # "undefined"
                     THEN IF s = at THEN r ELSE data[s]
                     ELSE unvalidated[s]]

\* What executeAsyncPipeline starts from.
Resumed(r) ==
  [s \in Slots |-> IF s \in partial' THEN IF s = at THEN r ELSE data[s]
                                     ELSE unvalidated[s]]

\* A validator of the synchronous copy resolves: executeAsyncPipeline starts
\* over, at the first stage.
HandOver(r) ==
  /\ path = "direct" /\ at \in Slots /\ r \in Outputs
  /\ Settled(at)
  /\ result' = [result EXCEPT ![at] = r]
  /\ path' = "resumed" /\ phase' = "running"
  /\ partial' = Completed(r)
  /\ data' = Resumed(r)
  /\ at' = headers
  /\ UNCHANGED <<owner, gave, answer>>

\* Or it refuses, or rejects.
NoHandOver(r) ==
  /\ path = "direct" /\ at \in Slots /\ r \notin Outputs
  /\ Settled(at) /\ Validated(r)
  /\ UNCHANGED partial

-----------------------------------------------------------------------------
(* Guards: a loop until the first promise, then a second loop.             *)

\* applyEnrichment: a reserved key or one that has an owner throws.
Enrich(keys) ==
  IF reserved \in keys \/ \E k \in keys : owner[k] # 0
    THEN Throw /\ UNCHANGED <<at, owner>>
    ELSE /\ owner' = [k \in ContextKeys |-> IF k \in keys THEN at ELSE owner[k]]
         /\ at' = at + 1 /\ phase' = "running" /\ UNCHANGED answer

\* Mutant: a response that a guard resolved to does not short-circuit.
ConsumedOnly(r) ==
  /\ result' = [result EXCEPT ![at] = r.kind]
  /\ gave' = [gave EXCEPT ![at] = r.keys]
  /\ IF r.kind \in {"enrichment", "response"} THEN Enrich(r.keys)
     ELSE Throw /\ UNCHANGED <<at, owner>>
  /\ UNCHANGED <<path, data>>

\* consume: a response short-circuits, anything but a plain object throws.
Consume(r) ==
  /\ result' = [result EXCEPT ![at] = r.kind]
  /\ gave' = [gave EXCEPT ![at] = r.keys]
  /\ \/ r.kind = "enrichment" /\ Enrich(r.keys)
     \/ r.kind = "response" /\ Answer("guard") /\ UNCHANGED <<at, owner>>
     \/ r.kind \in {"malformed", "throws"} /\ Throw /\ UNCHANGED <<at, owner>>
  /\ UNCHANGED <<path, data>>

GuardNow(r) == at \in Guards /\ Call /\ Consume(r)

GuardLater == at \in Guards /\ CallLater

GuardSettles(r) ==
  /\ at \in Guards
  /\ Settled(at) /\ Consume(r)
  /\ UNCHANGED partial

-----------------------------------------------------------------------------
(* The handler and the error policy.                                       *)

\* Only a native Response is an answer.
Handled(r) ==
  /\ result' = [result EXCEPT ![at] = r]
  /\ IF r = "response" THEN Answer("handler") ELSE Throw
  /\ UNCHANGED <<path, at, data, owner, gave>>

HandlerNow(r) == at = handler /\ Call /\ Handled(r)

HandlerLater == at = handler /\ CallLater

HandlerSettles(r) ==
  /\ at = handler
  /\ Settled(at) /\ Handled(r)
  /\ UNCHANGED partial

\* handleError: a policy that fails is replaced by the redacted 500.
PolicyAnswer(r) == IF r = "response" THEN "policy" ELSE "redacted"

PolicyNow(r) ==
  /\ phase = "policy" /\ (route.custom \/ r = "response")
  /\ Answer(PolicyAnswer(r))
  /\ UNCHANGED <<route, path, at, context, history>>

\* An application's policy may be asynchronous.
PolicyLater ==
  /\ phase = "policy" /\ route.custom
  /\ phase' = "policyAwaiting"
  /\ UNCHANGED <<route, path, at, context, history, answer>>

PolicySettles(r) ==
  /\ phase = "policyAwaiting"
  /\ Answer(PolicyAnswer(r))
  /\ UNCHANGED <<route, path, at, context, history>>

-----------------------------------------------------------------------------
Validation ==
  \/ ValidateLater
  \/ \E r \in ValidatorResults :
       ValidateNow(r) \/ ValidateSettles(r) \/ HandOver(r) \/ NoHandOver(r)

GuardStep == GuardLater \/ \E r \in GuardResults : GuardNow(r) \/ GuardSettles(r)

HandlerStep == HandlerLater \/ \E r \in HandlerResults : HandlerNow(r) \/ HandlerSettles(r)

PolicyStep == PolicyLater \/ \E r \in HandlerResults : PolicyNow(r) \/ PolicySettles(r)

Next == Skip \/ Validation \/ GuardStep \/ HandlerStep \/ PolicyStep

\* The functions of the application settle.
Spec == Init /\ [][Next]_vars

-----------------------------------------------------------------------------
succeeded(n) == result[n] \in Outputs \cup {"enrichment"}

\* Every declared stage is called once at most, and only after every declared
\* stage before it succeeded, whichever copies of the pipeline the request
\* went through.
OnceInOrder ==
  \A n \in Stages :
    /\ calls[n] <= 1
    /\ calls[n] = 1 => Wanted(n) /\ \A m \in Stages : m < n /\ Wanted(m) => succeeded(m)

(***************************************************************************)
(* The type a handler's context is computed to have, beside the context    *)
(* that the pipeline assembles for it.                                     *)
(***************************************************************************)

\* The output of a declared schema; the raw params, or nothing, without one.
DeclaredSlot(s) == IF s \in route.declared THEN result[s] ELSE unvalidated[s]

\* What the guards return that is not a response.
MergeGuardOutputs == UNION {gave[g] : g \in Guards}

RouteContext == [slots |-> [s \in Slots |-> DeclaredSlot(s)], keys |-> MergeGuardOutputs]
assembled == [slots |-> data, keys |-> {k \in ContextKeys : owner[k] # 0}]

\* Guards and the handler are given each validator's own output, undefined
\* ones included, and the router's params where none was declared; and the
\* handler's context "matches field for field" the type computed for it,
\* whichever copies of the pipeline the request went through.
ContextFaithful ==
  phase = "running" =>
    /\ at > body => \A s \in Slots : data[s] = DeclaredSlot(s)
    /\ at = handler => assembled = RouteContext

\* Guards see every key of the guards before, each from the one guard that produced
\* it; no framework-owned key is ever replaced.
EnrichmentOwned ==
  phase = "running" =>
    /\ owner[reserved] = 0
    /\ \A k \in ContextKeys, g \in Guards : k \in gave[g] <=> owner[k] = g

\* The request is answered by the stage that decided it: a refusal or a
\* guard's response ends it there; the handler's response is only reached
\* past every declared validator and guard; and a failure ends at the policy
\* or at the redacted 500 behind it.
AnswerExplained ==
  /\ answer = "refused" => at \in Slots /\ result[at] = "issues" /\ calls[handler] = 0
  /\ answer = "guard" => at \in Guards /\ result[at] = "response" /\ calls[handler] = 0
  /\ answer = "handler" =>
       /\ at = handler /\ result[handler] = "response"
       /\ \A n \in Stages \ {handler} : Wanted(n) => succeeded(n)
  /\ answer \in {"policy", "redacted"} => result[at] \in {"throws", "malformed", "enrichment"}
  /\ answer = "none" <=> phase # "answered"

=============================================================================
