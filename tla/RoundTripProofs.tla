---------------------------- MODULE RoundTripProofs ----------------------------
(***************************************************************************)
(* The typed client against the server, for any routes, calls, types of    *)
(* bodies and complaints of a schema.                                      *)
(*                                                                         *)
(* The invariant says how each part of the state came about: what was sent *)
(* is the call, built, and it has no fault (Built); the slots before       *)
(* `slot` are decided by the router's match (Decided); and an answer is    *)
(* one the framework or a helper makes (Answered).  The four properties    *)
(* follow from it by what the pure operators do: the template language,    *)
(* the escapes, the runs a key has in a query string, and JSON with its    *)
(* mirror, by how deep a body nests.                                       *)
(***************************************************************************)
EXTENDS RoundTrip, FiniteSetTheorems, WellFoundedInduction, TLAPS

\* What is sent is the call, built, and only a call that has none of the faults.
Built ==
  /\ call \in Calls
  /\ phase \in {"creating", "calling"} => ~fetched /\ result = None
  /\ ~fetched => slot = 0 /\ phase \in {"creating", "calling", "done"}
  /\ result.kind = "refused" => ~fetched /\ callFault # "none" /\ result.code = callFault
  /\ fetched /\ call.kind = "method" =>
       callFault = "none" /\ request = [target |-> target, init |-> buildRequestInit]

\* The router's match.
found == {r \in Routes : matches(r, normalized(request.target.path))}
Chosen == CHOOSE r \in found : \A other \in found : moreSpecific(r, other)

\* The slots before `slot` have been decided, by the router's match.
Decided ==
  /\ slot \in 0 .. 5
  /\ phase = "sent" => slot = 0
  /\ phase = "validating" => slot \in 1 .. 4
  /\ phase = "handling" => slot = 5
  /\ slot > 0 => fetched /\ matched = Chosen /\ returns \in matched.handlers
  /\ DOMAIN given = {"headers", "params", "query", "body"}
  /\ \A n \in 1 .. 4 :
       /\ n >= slot => given[Slots[n]] = None
       /\ n < slot => given[Slots[n]] = IF declares(matched, Slots[n]) THEN decoded(Slots[n]) ELSE undeclared(Slots[n])
  /\ slot = 5 /\ declares(matched, "body") => ~unsupported

\* Where an answer comes from.
Answered ==
  /\ phase \notin {"answered", "done"} => answer.from = "nobody" /\ answer.code = "none"
  /\ answer.code = "VALIDATION_FAILED" => raw \in RawIssues /\ answer = createValidationProblem(raw)
  /\ answer.from = "framework" =>
       /\ slot \in 1 .. 4 /\ declares(matched, Slots[slot])
       /\ \/ answer.code = "VALIDATION_FAILED" /\ (Slots[slot] = "body" => matched.body = "json")
          \/ Slots[slot] = "body" /\ answer.status \in {400, 413, 415} /\ answer = Problem(answer.status, answer.code)
  /\ answer.from = "handler" =>
       slot = 5 /\ \E o \in returns : \E v \in Inhabitants[o.type] : ~helperThrows(o, v) /\ answer = Handled(o, v)
  /\ result.kind = "result" =>
       phase = "done" /\ call.kind = "method" /\ result.status = answer.status /\ result.value = readBody /\ readBody # Broken

IInv == Built /\ Decided /\ Answered

-----------------------------------------------------------------------------
(* The strengthening is inductive.                                         *)

LEMMA Initially == Init => IInv
<1> SUFFICES ASSUME Init PROVE IInv
  OBVIOUS
<1>1. Built
  BY DEF Init, Built, None
<1>2. Decided
  BY DEF Init, Decided, Slots, None
<1>3. Answered
  BY DEF Init, Answered, Problem, None
<1> QED
  BY <1>1, <1>2, <1>3 DEF IInv

\* What depends on the call alone, or on the request, stays with it.
LEMMA CallStays ==
  ASSUME [Next]_vars
  PROVE  call' = call /\ callFault' = callFault /\ target' = target /\ buildRequestInit' = buildRequestInit
<1>1. call' = call
  BY DEF Next, vars, Create, Send, RequestRaw, TransportFails, Route, Ceiling, Skip, Accept, Issues,
         SchemaFails, BodyRefused, Handle, Follow, Parse
<1> QED
  BY <1>1 DEF callFault, target, buildRequestInit

LEMMA RequestStays ==
  ASSUME call' = call, request' = request
  PROVE  /\ Chosen' = Chosen
         /\ matched' = matched => \A s : /\ decoded(s)' = decoded(s) /\ undeclared(s)' = undeclared(s)
                                         /\ declares(matched, s)' = declares(matched, s)
         /\ matched' = matched => unsupported' = unsupported
<1>1. Chosen' = Chosen
  BY DEF Chosen, found, matches
<1>2. ASSUME matched' = matched, NEW s PROVE decoded(s)' = decoded(s)
  BY <1>2 DEF decoded, routeParams
<1>3. ASSUME matched' = matched PROVE unsupported' = unsupported
  BY <1>3 DEF unsupported, decoded, routeParams
<1> QED
  BY <1>1, <1>2, <1>3 DEF undeclared, declares

LEMMA BuiltStep == ASSUME IInv, [Next]_vars PROVE Built'
<1> USE CallStays DEF IInv, Built, Settle, Respond
<1> SUFFICES ASSUME Next PROVE Built'
  BY DEF vars
<1>1. CASE Create
  BY <1>1 DEF Create, None
<1>2. CASE Send
  BY <1>2 DEF Send
<1>3. CASE RequestRaw
  <2>1. phase = "calling" /\ call.kind = "request" /\ ~fetched /\ slot = 0 /\ slot' = slot
        /\ (\/ fetched' = fetched /\ phase' = "done" /\ result' = [kind |-> "misconfigured"]
            \/ fetched' /\ phase' = "sent" /\ result' = result)
    BY <1>3 DEF RequestRaw
  <2>2. call' \in Calls
    OBVIOUS
  <2>3. phase' \in {"creating", "calling"} => ~fetched' /\ result' = None
    BY <2>1
  <2>4. ~fetched' => slot' = 0 /\ phase' \in {"creating", "calling", "done"}
    BY <2>1
  <2>5. result'.kind # "refused"
    BY <2>1 DEF None
  <2>6. call'.kind # "method"
    BY <2>1
  <2> QED
    BY <2>2, <2>3, <2>4, <2>5, <2>6
<1>4. CASE TransportFails
  BY <1>4 DEF TransportFails
<1>5. CASE Route
  BY <1>5 DEF Route, Decided
<1>6. CASE Ceiling
  BY <1>6 DEF Ceiling
<1>7. CASE Skip
  BY <1>7 DEF Skip, accept, Decided
<1>8. CASE Accept
  BY <1>8 DEF Accept, accept, Decided
<1>9. CASE SchemaFails \/ BodyRefused \/ (\E i \in RawIssues : Issues(i))
  BY <1>9 DEF SchemaFails, BodyRefused, Issues, refuse
<1>10. CASE \E o \in Outcomes : \E v \in Inhabitants[o.type] : Handle(o, v)
  BY <1>10 DEF Handle
<1>11. CASE Follow
  BY <1>11 DEF Follow
<1>12. CASE Parse
  BY <1>12 DEF Parse, ClientDecodeError
<1> QED
  BY <1>1, <1>2, <1>3, <1>4, <1>5, <1>6, <1>7, <1>8, <1>9, <1>10, <1>11, <1>12 DEF Next

\* A slot is decided: what it is given, and the next.
LEMMA AcceptStep ==
  ASSUME IInv, phase = "validating", request' = request, call' = call, matched' = matched, returns' = returns, fetched' = fetched,
         NEW v, accept(v),
         v = IF declares(matched, Slots[slot]) THEN decoded(Slots[slot]) ELSE undeclared(Slots[slot]),
         Slots[slot] = "body" /\ declares(matched, "body") => ~unsupported
  PROVE  Decided'
<1> USE DEF IInv, Decided, accept
<1>1. slot \in 1 .. 4 /\ slot' = slot + 1 /\ slot' \in 2 .. 5 /\ (slot = 4 <=> slot' = 5)
  OBVIOUS
<1>2. slot = 4 => Slots[slot] = "body"
  BY DEF Slots
<1>3. ASSUME NEW n \in 1 .. 4
      PROVE  given'[Slots[n]] = IF n = slot THEN v ELSE given[Slots[n]]
  BY <1>1, <1>3 DEF Slots
<1>4. \A n \in 1 .. 4 :
       /\ n >= slot' => given'[Slots[n]] = None
       /\ n < slot' => given'[Slots[n]] = IF declares(matched, Slots[n])' THEN decoded(Slots[n])' ELSE undeclared(Slots[n])'
  BY <1>1, <1>3, RequestStays
<1>5. slot' = 5 /\ declares(matched, "body")' => ~unsupported'
  BY <1>1, <1>2, RequestStays
<1>6. (slot > 0 => fetched /\ matched = Chosen /\ returns \in matched.handlers)'
  BY <1>1, RequestStays
<1>7. (phase = "sent" => slot = 0)' /\ (phase = "validating" => slot \in 1 .. 4)' /\ (phase = "handling" => slot = 5)'
  BY <1>1
<1>8. DOMAIN given' = {"headers", "params", "query", "body"}
  OBVIOUS
<1> QED
  BY <1>1, <1>4, <1>5, <1>6, <1>7, <1>8

LEMMA DecidedStep == ASSUME IInv, [Next]_vars PROVE Decided'
<1> USE CallStays
<1>1. ASSUME UNCHANGED <<slot, given, request, matched, returns, fetched>>,
             phase' = phase \/ phase' \in {"calling", "answered", "done"}
      PROVE  Decided'
  BY <1>1, RequestStays DEF IInv, Decided
<1>2. ASSUME slot = 0, slot' = 0, given' = given, phase' \in {"sent", "done"}
      PROVE  Decided'
  BY <1>2 DEF IInv, Decided
<1> SUFFICES ASSUME Next PROVE Decided'
  BY <1>1 DEF vars
<1>3. CASE Create \/ TransportFails \/ Ceiling \/ Follow \/ Parse
  BY <1>1, <1>3 DEF Create, TransportFails, Ceiling, Follow, Parse, Settle, Respond
<1>4. CASE Send \/ RequestRaw
  <2>1. slot = 0
    BY <1>4 DEF IInv, Built, Send, RequestRaw
  <2> QED
    BY <1>2, <1>4, <2>1 DEF Send, RequestRaw, Settle
<1>5. CASE Route
  <2>1. CASE found = {}
    <3>1. UNCHANGED <<slot, given, request, matched, returns, fetched>> /\ phase' = "answered"
      BY <1>5, <2>1 DEF Route, Respond, found
    <3> QED
      BY <1>1, <3>1
  <2>2. CASE found # {}
    <3>1. /\ slot' = 1 /\ phase' = "validating" /\ matched' = Chosen /\ returns' \in matched'.handlers
          /\ UNCHANGED <<given, request, fetched>> /\ fetched /\ slot = 0
      BY <1>5, <2>2 DEF Route, Respond, found, Chosen, IInv, Built, Decided
    <3>2. Chosen' = Chosen
      BY <3>1, RequestStays
    <3> QED
      BY <3>1, <3>2 DEF IInv, Decided
  <2> QED
    BY <2>1, <2>2
<1>6. CASE Skip
  BY <1>6, AcceptStep DEF Skip, Slots
<1>7. CASE Accept
  BY <1>7, AcceptStep DEF Accept, Slots
<1>8. CASE SchemaFails \/ BodyRefused \/ (\E i \in RawIssues : Issues(i))
  BY <1>1, <1>8 DEF SchemaFails, BodyRefused, Issues, refuse, Respond
<1>9. CASE \E o \in Outcomes : \E v \in Inhabitants[o.type] : Handle(o, v)
  BY <1>1, <1>9 DEF Handle, Respond
<1> QED
  BY <1>3, <1>4, <1>5, <1>6, <1>7, <1>8, <1>9 DEF Next

LEMMA ProblemIs ==
  ASSUME NEW status, NEW code
  PROVE  LET p == Problem(status, code)
         IN /\ p.status = status /\ p.code = code /\ p.from = "framework" /\ p.media = "application/problem+json"
            /\ p.body = Tree("problem", <<>>) /\ p.source = "none" /\ p.issues = <<>>
            /\ \A f : LET q == [p EXCEPT !.from = f]
                     IN q.status = status /\ q.code = code /\ q.from = f
BY DEF Problem

LEMMA ValidationProblemIs ==
  ASSUME NEW issues
  PROVE  LET p == createValidationProblem(issues)
         IN /\ p.status = 422 /\ p.code = "VALIDATION_FAILED" /\ p.from = "framework"
            /\ p.media = "application/problem+json" /\ p.body = Tree("problem", <<>>) /\ p.source = Slots[slot]
            /\ p.issues = LET n == normalizeValidationIssues(issues)
                         IN IF Slots[slot] = "headers" THEN sanitizeHeaderIssues(n) ELSE n
<1> DEFINE n == normalizeValidationIssues(issues)
           ns == IF Slots[slot] = "headers" THEN sanitizeHeaderIssues(n) ELSE n
<1>1. createValidationProblem(issues) =
        [Problem(422, "VALIDATION_FAILED") EXCEPT !.source = Slots[slot], !.issues = ns]
  BY DEF createValidationProblem
<1> HIDE DEF n, ns
<1> QED
  BY <1>1 DEF Problem, ns, n

LEMMA PolicyIs == Policy.code = "INTERNAL" /\ Policy.from = "policy"
BY ProblemIs DEF Policy

LEMMA HandledIs ==
  ASSUME NEW o, NEW v
  PROVE  Handled(o, v).code \in {"none", "INTERNAL"} /\ Handled(o, v).from \in {"handler", "policy"}
         /\ (Handled(o, v).from = "handler" <=> ~helperThrows(o, v))
BY PolicyIs DEF Handled

LEMMA AnsweredStep == ASSUME IInv, [Next]_vars PROVE Answered'
<1> USE CallStays
<1>1. ASSUME answer' = answer, phase \notin {"answered", "done"}, result'.kind # "result"
      PROVE  Answered'
  BY <1>1 DEF IInv, Answered
<1>2. ASSUME UNCHANGED vars PROVE Answered'
  BY <1>2 DEF vars, IInv, Answered, createValidationProblem, declares, bodiless, readBody, helperThrows, Handled
<1>3. result.kind # "result" \/ phase = "done"
  BY DEF IInv, Answered
<1> SUFFICES ASSUME Next PROVE Answered'
  BY <1>2
<1>4. CASE Create \/ Send \/ RequestRaw \/ TransportFails \/ Skip \/ Accept
  <2>1. answer' = answer /\ phase \notin {"answered", "done"}
    BY <1>4 DEF Create, Send, RequestRaw, TransportFails, Skip, Accept, accept
  <2>2. result' = result \/ (\E c : result' = [kind |-> "refused", code |-> c])
        \/ result' = [kind |-> "misconfigured"] \/ result' = [kind |-> "rejected"]
    BY <1>4 DEF Create, Send, RequestRaw, TransportFails, Skip, Accept, Settle
  <2>3. result'.kind # "result"
    BY <1>3, <2>1, <2>2
  <2> QED
    BY <1>1, <2>1, <2>3
<1>5. ASSUME phase # "done", phase' = "answered", result' = result, answer'.code # "VALIDATION_FAILED",
             answer'.from \notin {"framework", "handler"}
      PROVE  Answered'
  BY <1>3, <1>5 DEF IInv, Answered
<1>6. CASE Route
  <2>1. CASE found = {}
    <3> DEFINE lost == [Problem(404, "NOT_FOUND") EXCEPT !.from = "router"]
    <3>1. lost.code = "NOT_FOUND" /\ lost.from = "router"
      BY DEF Problem
    <3> HIDE DEF lost
    <3>2. phase = "sent" /\ phase' = "answered" /\ answer' = lost /\ result' = result
      BY <1>6, <2>1 DEF Route, Respond, found, lost
    <3> QED
      BY <1>5, <3>1, <3>2
  <2>2. CASE found # {}
    BY <1>1, <1>3, <1>6, <2>2 DEF Route, Respond, found
  <2> QED
    BY <2>1, <2>2
<1>7. CASE Ceiling
  BY <1>5, <1>7 DEF Ceiling, Respond
<1>8. ASSUME NEW i \in RawIssues, Issues(i) PROVE Answered'
  <2>1. /\ raw' = i /\ answer' = createValidationProblem(i) /\ phase' = "answered" /\ result' = result /\ phase = "validating"
        /\ UNCHANGED <<slot, matched, request>>
        /\ declares(matched, Slots[slot]) /\ (Slots[slot] = "body" => matched.body = "json")
    BY <1>8 DEF Issues, refuse, Respond
  <2>2. slot \in 1 .. 4
    BY <2>1 DEF IInv, Decided
  <2>3. answer' = createValidationProblem(raw)'
    BY <2>1 DEF createValidationProblem
  <2>4. declares(matched, Slots[slot])' /\ (Slots[slot] = "body" => matched.body = "json")'
    BY <2>1 DEF declares
  <2>5. answer'.code = "VALIDATION_FAILED" /\ answer'.from = "framework"
    BY <2>1, ValidationProblemIs
  <2> QED
    BY <1>3, <2>1, <2>2, <2>3, <2>4, <2>5 DEF Answered
<1>9. CASE SchemaFails
  BY <1>5, <1>9, PolicyIs DEF SchemaFails, refuse, Respond
<1>10. CASE BodyRefused
  <2>1. /\ phase = "validating" /\ phase' = "answered" /\ result' = result /\ UNCHANGED <<slot, matched>>
        /\ Slots[slot] = "body" /\ declares(matched, "body")
        /\ \E s \in {400, 413, 415} :
             \E c \in {"UNSUPPORTED_MEDIA_TYPE", "MALFORMED_JSON", "MALFORMED_MULTIPART", "BODY_BUDGET_EXCEEDED", "FORM_LIMIT_EXCEEDED"} :
               answer' = Problem(s, c)
    BY <1>10 DEF BodyRefused, refuse, Respond
  <2>2. slot \in 1 .. 4
    BY <2>1 DEF IInv, Decided
  <2>3. /\ answer'.from = "framework" /\ answer'.code # "VALIDATION_FAILED"
        /\ answer'.status \in {400, 413, 415} /\ answer' = Problem(answer'.status, answer'.code)
    BY <2>1, ProblemIs
  <2>4. declares(matched, Slots[slot])'
    BY <2>1 DEF declares
  <2> QED
    BY <1>3, <2>1, <2>2, <2>3, <2>4 DEF Answered
<1>11. ASSUME NEW o \in Outcomes, NEW v \in Inhabitants[o.type], Handle(o, v) PROVE Answered'
  <2>1. /\ phase = "handling" /\ phase' = "answered" /\ result' = result /\ UNCHANGED <<slot, returns>>
        /\ o \in returns /\ answer' \in {Handled(o, v), Policy}
    BY <1>11 DEF Handle, Respond
  <2>2. slot = 5
    BY <2>1 DEF IInv, Decided
  <2>3. CASE answer' = Policy
    BY <1>5, <2>1, <2>3, PolicyIs
  <2>4. CASE answer' = Handled(o, v)
    <3>1. answer'.code # "VALIDATION_FAILED" /\ answer'.from # "framework"
      BY <2>4, HandledIs
    <3>2. answer'.from = "handler" => ~helperThrows(o, v)
      BY <2>4, HandledIs
    <3> QED
      BY <1>3, <2>1, <2>2, <2>4, <3>1, <3>2 DEF Answered
  <2> QED
    BY <2>1, <2>3, <2>4
<1>12. CASE Follow
  <2>1. phase = "answered" /\ answer.status \in Redirects /\ phase' = "answered" /\ result' = result
        /\ answer' = [answer EXCEPT !.status = 200, !.media = "text/html", !.body = Tree("string", <<>>), !.from = "elsewhere"]
    BY <1>12 DEF Follow, followed, Respond
  <2>2. answer.code # "VALIDATION_FAILED"
    BY <2>1, ValidationProblemIs DEF IInv, Answered, Redirects
  <2>3. answer'.from = "elsewhere" /\ answer'.code # "VALIDATION_FAILED"
    BY <2>1, <2>2 DEF IInv, Answered
  <2> QED
    BY <1>5, <2>1, <2>3
<1>13. CASE Parse
  <2>1. /\ phase = "answered" /\ phase' = "done" /\ UNCHANGED <<call, answer, returns, slot, raw, matched, request>>
        /\ result'.kind = "result" => /\ call.kind = "method" /\ readBody # Broken
                                      /\ result'.status = answer.status /\ result'.value = readBody
    <3>1. /\ phase = "answered" /\ phase' = "done" /\ UNCHANGED <<call, answer, returns, slot, raw, matched, request>>
          /\ \/ \E c : result' = [kind |-> "response", status |-> c]
             \/ \E c : result' = [kind |-> "undecodable", status |-> c]
             \/ /\ call.kind # "request" /\ readBody # Broken
                /\ \E b : result' = [kind |-> "result", ok |-> b, status |-> answer.status, value |-> readBody]
      <4>1. CASE call.kind = "request"
        BY <1>13, <4>1 DEF Parse, Settle
      <4>2. CASE call.kind # "request" /\ readBody = Broken
        BY <1>13, <4>2 DEF Parse, Settle, ClientDecodeError
      <4>3. CASE call.kind # "request" /\ readBody # Broken
        BY <1>13, <4>3 DEF Parse, Settle
      <4> QED
        BY <4>1, <4>2, <4>3
    <3>2. call.kind \in {"method", "request"}
      BY CallsAssumption DEF IInv, Built
    <3> QED
      BY <3>1, <3>2
  <2>2. readBody' = readBody /\ createValidationProblem(raw)' = createValidationProblem(raw)
    BY <2>1 DEF readBody, bodiless, createValidationProblem
  <2> QED
    BY <2>1, <2>2 DEF IInv, Answered, declares
<1> QED
  BY <1>4, <1>6, <1>7, <1>8, <1>9, <1>10, <1>11, <1>12, <1>13 DEF Next

LEMMA Inductive == IInv /\ [Next]_vars => IInv'
BY BuiltStep, DecidedStep, AnsweredStep DEF IInv

-----------------------------------------------------------------------------
(* What a call its types accept may still be refused for.                  *)

LEMMA FirstIs ==
  ASSUME NEW S \in SUBSET Nat, S # {}
  PROVE  FirstOf(S) \in S /\ \A j \in S : FirstOf(S) <= j
<1> DEFINE R == OpToRel(<, Nat)
<1>1. IsWellFoundedOn(R, Nat)
  BY NatLessThanWellFounded
<1>2. PICK x \in S : \A y \in S : <<y, x>> \notin R
  <2> HIDE DEF R
  <2> QED
    BY <1>1, WFMin
<1>3. ASSUME NEW y \in S PROVE x <= y
  <2>1. x \in Nat /\ y \in Nat
    OBVIOUS
  <2>2. ASSUME y < x PROVE <<y, x>> \in R
    BY <2>1, <2>2 DEF OpToRel
  <2> HIDE DEF R
  <2>3. ~(y < x)
    BY <1>2, <2>2
  <2> QED
    BY <2>1, <2>3
<1> QED
  BY <1>3 DEF FirstOf

LEMMA TheRouteIs ==
  ASSUME named # {}
  PROVE  theRoute \in Routes /\ theRoute.template = call.template /\ theRoute.method \in {call.method, "ALL"}
BY DEF theRoute, named, PathsForMethod

LEMMA TemplateIs ==
  ASSUME call \in Calls, parseTemplate(call.template) = "none", ~hasWildcard(call.template)
  PROVE  LET s == call.template.segments
         IN /\ s \in Seq(Segments)
            /\ \A i \in DOMAIN s : s[i].kind \in {"literal", "param"}
            /\ \A i, j \in DOMAIN s : s[i].kind = "param" /\ s[j] = s[i] => i = j
<1> DEFINE t == call.template
           faulty == {i \in DOMAIN t.segments : segmentFault(t, i) # "none"}
<1>1. t.segments \in Seq(Segments)
  BY CallsAssumption
<1>2. faulty = {}
  <2> SUFFICES ASSUME faulty # {} PROVE FALSE
    OBVIOUS
  <2>1. faulty \in SUBSET Nat
    BY <1>1
  <2>2. FirstOf(faulty) \in faulty
    <3> HIDE DEF faulty
    <3> QED
      BY <2>1, FirstIs
  <2>3. parseTemplate(t) \in {"LUGAS_CLIENT_005", segmentFault(t, FirstOf(faulty))}
    BY DEF parseTemplate
  <2> QED
    BY <2>2, <2>3
<1>3. ASSUME NEW i \in DOMAIN t.segments PROVE segmentFault(t, i) = "none"
  BY <1>2
<1>4. ASSUME NEW i \in DOMAIN t.segments PROVE t.segments[i].kind \in {"literal", "param"}
  <2>1. t.segments[i] \in Segments
    BY <1>1
  <2>2. t.segments[i].kind # "wildcard"
    BY DEF hasWildcard
  <2> QED
    BY <1>3, <2>1, <2>2 DEF segmentFault, Segments
<1>5. ASSUME NEW i \in DOMAIN t.segments, NEW j \in DOMAIN t.segments, t.segments[i].kind = "param", j < i
      PROVE  t.segments[j] # t.segments[i]
  <2>1. segmentFault(t, i) = "none" /\ j \in 1 .. i - 1
    BY <1>1, <1>3, <1>5
  <2> QED
    BY <1>5, <2>1 DEF segmentFault
<1>6. ASSUME NEW i \in DOMAIN t.segments, NEW j \in DOMAIN t.segments, t.segments[i].kind = "param", t.segments[j] = t.segments[i]
      PROVE  i = j
  <2>1. i \in Nat /\ j \in Nat
    BY <1>1
  <2>2. ~(j < i) /\ ~(i < j)
    BY <1>5, <1>6
  <2> QED
    BY <2>1, <2>2
<1> QED
  BY <1>1, <1>4, <1>6

LEMMA EntryIs ==
  ASSUME NEW entries, isObject(entries), NEW i \in DOMAIN entries
  PROVE  Entry(entries, entries[i].key) = entries[i].value
BY DEF Entry, isObject

\* The parameters of a call are texts, under the names of its template.
LEMMA ParamsAre ==
  ASSUME call \in Calls, WellTyped, ~hasWildcard(call.template), NEW i \in DOMAIN call.template.segments,
         call.template.segments[i].kind # "literal"
  PROVE  LET s == call.template.segments[i]
         IN /\ keyOf(s) \in Keys(call.params.entries)
            /\ \E j \in DOMAIN call.params.entries :
                 Entry(call.params.entries, keyOf(s)) = call.params.entries[j].value
                 /\ call.params.entries[j].value.kind = "string"
<1> DEFINE t == call.template
           s == t.segments[i]
<1>1. theRoute.template = t /\ MethodParamsInput(theRoute) /\ parseTemplate(t) = "none"
  BY TheRouteIs DEF WellTyped
<1>2. s.kind = "param" /\ keyOf(s) \in names(t)
  BY <1>1, TemplateIs DEF names, keyOf
<1>3. /\ Keys(call.params.entries) = names(t)
      /\ \A j \in DOMAIN call.params.entries : call.params.entries[j].value.kind = "string"
  BY <1>1, <1>2 DEF MethodParamsInput
<1>4. PICK j \in DOMAIN call.params.entries : call.params.entries[j].key = keyOf(s)
  BY <1>2, <1>3 DEF Keys
<1>5. Entry(call.params.entries, keyOf(s)) = call.params.entries[j].value
  BY <1>4, EntryIs, CallsAssumption
<1> QED
  BY <1>2, <1>3, <1>5

LEMMA PathFaultIs ==
  ASSUME call \in Calls, WellTyped, ~hasWildcard(call.template), pathFault(call.template, call.params) # "none"
  PROVE  pathFault(call.template, call.params) = "URIError" /\ excused(theRoute, "URIError")
<1> DEFINE t == call.template
           fault(i) == valueFault(t.segments[i], call.params.entries)
           faulty == {i \in DOMAIN t.segments : fault(i) # "none"}
<1>1. theRoute.template = t /\ MethodParamsInput(theRoute) /\ parseTemplate(t) = "none"
  BY TheRouteIs DEF WellTyped
<1>2. declared(t) = names(t)
  BY DEF declared
<1>3. names(t) # {} /\ call.params.kind = "object" /\ Keys(call.params.entries) = names(t)
  BY <1>1, <1>2 DEF pathFault, MethodParamsInput
<1>4. faulty # {} /\ pathFault(t, call.params) = fault(FirstOf(faulty))
  BY <1>1, <1>2, <1>3 DEF pathFault
<1>5. faulty \in SUBSET Nat
  BY CallsAssumption
<1>6. PICK i \in DOMAIN t.segments : pathFault(t, call.params) = fault(i) /\ fault(i) # "none"
  <2>1. FirstOf(faulty) \in faulty
    <3> HIDE DEF faulty
    <3> QED
      BY <1>4, <1>5, FirstIs
  <2> QED
    BY <1>4, <2>1
<1> DEFINE s == t.segments[i]
           v == Entry(call.params.entries, keyOf(s))
<1>7. s.kind # "literal"
  BY <1>6 DEF valueFault
<1>8. PICK j \in DOMAIN call.params.entries : v = call.params.entries[j].value /\ v.kind = "string"
  BY <1>7, ParamsAre
<1>9. keyOf(s) \in Keys(call.params.entries) /\ s.kind # "wildcard"
  BY <1>7, ParamsAre DEF hasWildcard
<1>10. fault(i) = "URIError" /\ ~(\A x \in charsOf(v) : encodable(x))
  BY <1>6, <1>7, <1>8, <1>9 DEF valueFault, isScalar
<1>11. ~encodable(call.params.entries[j].value.text)
  BY <1>8, <1>10 DEF charsOf
<1> QED
  BY <1>6, <1>10, <1>11 DEF excused

LEMMA QueryFaultIs ==
  ASSUME WellTyped, queryFault(call.query) # "none"
  PROVE  queryFault(call.query) = "LUGAS_CLIENT_006" /\ excused(theRoute, "LUGAS_CLIENT_006")
<1>1. MethodQueryInput(theRoute)
  BY DEF WellTyped
<1>2. queryFault(call.query) = "LUGAS_CLIENT_006" /\ call.query.kind # "undefined"
  BY DEF queryFault
<1>3. "query" \in theRoute.slots /\ call.query \in theRoute.inputs.query
  BY <1>1, <1>2 DEF MethodQueryInput, RouteInputContract
<1> QED
  BY <1>2, <1>3 DEF excused, wide

\* Headers no slot declares are undefined, and set nothing.
LEMMA HeadersAre ==
  ASSUME call \in Calls, WellTyped
  PROVE  \/ "headers" \in theRoute.slots /\ call.headers \in theRoute.inputs.headers
         \/ call.headers.kind = "undefined" /\ contentType(setHeaders(call.headers)) = "none"
<1>1. MethodHeadersInput(theRoute)
  BY DEF WellTyped
<1>2. ASSUME call.headers.kind = "undefined" PROVE contentType(setHeaders(call.headers)) = "none"
  <2>1. call.headers.entries = <<>>
    BY <1>2, CallsAssumption
  <2>2. DOMAIN call.headers.entries = {}
    BY <2>1
  <2>3. setHeaders(call.headers) = {}
    BY <2>2 DEF setHeaders
  <2> QED
    BY <2>3 DEF contentType
<1> QED
  BY <1>1, <1>2 DEF MethodHeadersInput, RouteInputContract

LEMMA HeadersFaultIs ==
  ASSUME call \in Calls, WellTyped, headersFault(call.headers) # "none"
  PROVE  headersFault(call.headers) \in {"LUGAS_CLIENT_009", "TypeError"} /\ excused(theRoute, headersFault(call.headers))
<1>1. headersFault(call.headers) \in {"LUGAS_CLIENT_009", "TypeError"}
  <2>1. \A v : headerFault(v) \in {"none", "LUGAS_CLIENT_009", "TypeError"}
    BY DEF headerFault
  <2> QED
    BY <2>1 DEF headersFault
<1>2. call.headers.kind # "undefined"
  BY DEF headersFault
<1>3. "headers" \in theRoute.slots /\ call.headers \in theRoute.inputs.headers
  BY <1>2, HeadersAre
<1>4. wide(theRoute, "headers")
  BY <1>3 DEF wide
<1> QED
  BY <1>1, <1>4 DEF excused

LEMMA BodyFaultIs ==
  ASSUME call \in Calls, WellTyped, bodyFault(call.body, setHeaders(call.headers)) # "none"
  PROVE  bodyFault(call.body, setHeaders(call.headers)) = "LUGAS_CLIENT_008" /\ excused(theRoute, "LUGAS_CLIENT_008")
<1> DEFINE media == contentType(setHeaders(call.headers))
<1>1. MethodBodyInput(theRoute)
  BY DEF WellTyped
<1>2. bodyFault(call.body, setHeaders(call.headers)) = "LUGAS_CLIENT_008" /\ call.body.kind # "undefined"
  BY DEF bodyFault
<1>3. media # "none" => wide(theRoute, "media")
  BY HeadersAre DEF wide
<1>4. CASE call.body.kind = "formBody"
  <2>1. RouteInputContract(theRoute).body = "form"
    BY <1>1, <1>4 DEF MethodBodyInput
  <2>2. \A i \in DOMAIN call.body.entries : \A j \in DOMAIN partsOf(call.body.entries[i]) : isPart(partsOf(call.body.entries[i])[j])
    BY <1>1, <2>1 DEF MethodBodyInput
  <2>3. media # "none"
    BY <1>4, <2>2 DEF bodyFault
  <2> QED
    BY <1>2, <1>3, <2>3 DEF excused
<1>5. CASE call.body.kind # "formBody"
  <2>1. theRoute.body = "json" /\ call.body.value \in theRoute.inputs.body
    <3>1. theRoute.body \in {"none", "json", "form"}
      BY TheRouteIs, RoutesAssumption DEF WellTyped
    <3> QED
      BY <1>1, <1>2, <1>5, <3>1 DEF MethodBodyInput, RouteInputContract
  <2>2. media # "none" \/ stringify[call.body.value] \in {Drops, Throws}
    BY <1>2, <1>5 DEF bodyFault
  <2> QED
    BY <1>2, <1>3, <2>1, <2>2 DEF excused, wide
<1> QED
  BY <1>4, <1>5

LEMMA FaultIs ==
  ASSUME call \in Calls, WellTyped, ~hasWildcard(theRoute.template), callFault # "none"
  PROVE  excused(theRoute, callFault)
<1>1. theRoute.template = call.template
  BY TheRouteIs DEF WellTyped
<1>2. initFault(call.init) = "none"
  BY DEF WellTyped, initFault
<1>3. pathFault(call.template, call.params) # "none" => excused(theRoute, pathFault(call.template, call.params))
  BY <1>1, PathFaultIs
<1>4. queryFault(call.query) # "none" => excused(theRoute, queryFault(call.query))
  BY QueryFaultIs
<1>5. bodyFault(call.body, setHeaders(call.headers)) # "none" => excused(theRoute, bodyFault(call.body, setHeaders(call.headers)))
  BY BodyFaultIs
<1> QED
  BY <1>2, <1>3, <1>4, <1>5, HeadersFaultIs DEF callFault, first

\* Whatever a caller may pass and whatever the routes and their schemas' types
\* are: one that is refused never was sent, and a call its types accept is refused
\* only for a wildcard, for half a surrogate pair in a parameter, or for a slot
\* whose own input type admits what the wire cannot say.
THEOREM TypedCalls == Spec => []TypedCallsAreSent
<1>1. IInv => TypedCallsAreSent
  BY FaultIs DEF IInv, Built, TypedCallsAreSent
<1> QED
  BY Initially, Inductive, <1>1, PTL DEF Spec

-----------------------------------------------------------------------------
(* The members at given places.                                            *)

LEMMA UpTo ==
  ASSUME NEW n \in Nat, NEW D \in SUBSET (0 .. n), 0 \notin D,
         \A i \in 1 .. n : i \in D => i - 1 \in D
  PROVE  D = {}
<1> SUFFICES ASSUME D # {} PROVE FALSE
  OBVIOUS
<1> DEFINE k == FirstOf(D)
<1>1. D \in SUBSET Nat
  OBVIOUS
<1>2. k \in D /\ \A j \in D : k <= j
  BY <1>1, FirstIs
<1> HIDE DEF k
<1>3. k \in 1 .. n
  BY <1>2
<1>4. k - 1 \in D
  BY <1>2, <1>3
<1> QED
  BY <1>1, <1>2, <1>3, <1>4

Within(S, m) == S \subseteq 1 .. m

\* Below the last place counted there is a place for every number.
LEMMA PlaceIs ==
  ASSUME NEW m \in Nat, NEW S \in SUBSET (1 .. m), NEW n \in 1 .. Cardinality(S)
  PROVE  /\ nth(S, n) \in S /\ Cardinality({j \in S : j < nth(S, n)}) = n - 1
         /\ Cardinality(S) \in Nat /\ Cardinality(S) <= m
<1> DEFINE below_(i) == {j \in S : j < i}
           D == {i \in 0 .. m : Cardinality(below_(i + 1)) >= n}
<1>1. IsFiniteSet(S) /\ Cardinality(S) \in Nat /\ Cardinality(S) <= m
  <2>1. IsFiniteSet(1 .. m) /\ Cardinality(1 .. m) = m
    BY FS_Interval
  <2> QED
    BY <2>1, FS_Subset, FS_CardinalityType
<1>2. ASSUME NEW i \in Int PROVE IsFiniteSet(below_(i)) /\ Cardinality(below_(i)) \in Nat
  <2>1. below_(i) \subseteq S
    OBVIOUS
  <2> QED
    BY <1>1, <2>1, FS_Subset, FS_CardinalityType
<1>3. below_(1) = {} /\ below_(m + 1) = S
  <2>1. \A j \in S : ~(j < 1) /\ j < m + 1
    OBVIOUS
  <2>2. below_(1) = {}
    BY <2>1
  <2>3. \A j : j \in below_(m + 1) <=> j \in S
    BY <2>1
  <2> HIDE DEF below_
  <2> QED
    BY <2>2, <2>3
<1>4. ASSUME NEW i \in 1 .. m
      PROVE  Cardinality(below_(i + 1)) = Cardinality(below_(i)) + (IF i \in S THEN 1 ELSE 0)
  <2>1. CASE i \in S
    <3>1. below_(i + 1) = below_(i) \cup {i} /\ i \notin below_(i)
      <4>1. \A j \in S : j \in Int /\ (j < i + 1 <=> j < i \/ j = i)
        OBVIOUS
      <4>2. \A j : j \in below_(i + 1) <=> j \in below_(i) \/ j = i
        BY <2>1, <4>1
      <4>3. i \notin below_(i)
        OBVIOUS
      <4> HIDE DEF below_
      <4> QED
        BY <4>2, <4>3
    <3> HIDE DEF below_
    <3> QED
      BY <1>2, <2>1, <3>1, FS_AddElement
  <2>2. CASE i \notin S
    <3>1. below_(i + 1) = below_(i)
      <4>1. \A j \in S : j \in Int /\ (j < i + 1 <=> j < i)
        BY <2>2
      <4>2. \A j : j \in below_(i + 1) <=> j \in below_(i)
        BY <4>1
      <4> HIDE DEF below_
      <4> QED
        BY <4>2
    <3>2. Cardinality(below_(i)) \in Nat
      BY <1>2
    <3> HIDE DEF below_
    <3> QED
      BY <2>2, <3>1, <3>2
  <2> QED
    BY <2>1, <2>2
<1>5. D \in SUBSET Nat /\ m \in D /\ 0 \notin D
  <2>1. Cardinality(below_(1)) = 0
    BY <1>3, FS_EmptySet
  <2>2. Cardinality(below_(m + 1)) >= n
    BY <1>1, <1>3
  <2> QED
    BY <2>1, <2>2
<1> DEFINE i == FirstOf(D)
<1>6. i \in D /\ \A j \in D : i <= j
  <2> HIDE DEF D
  <2> QED
    BY <1>5, FirstIs
<1> HIDE DEF i
<1>7. i \in 1 .. m /\ i - 1 \notin D
  <2>1. D \subseteq 0 .. m
    OBVIOUS
  <2> HIDE DEF D
  <2>2. i \in 0 .. m /\ i # 0
    BY <1>5, <1>6, <2>1
  <2>3. ~(i <= i - 1)
    BY <2>2
  <2> QED
    BY <1>6, <2>2, <2>3
<1>8. Cardinality(below_(i)) < n /\ Cardinality(below_(i + 1)) >= n
  <2>1. i - 1 \in 0 .. m /\ (i - 1) + 1 = i
    BY <1>7
  <2>2. ~(Cardinality(below_((i - 1) + 1)) >= n)
    BY <1>7, <2>1
  <2>3. Cardinality(below_(i)) \in Nat
    BY <1>2, <1>7
  <2> QED
    BY <1>6, <2>1, <2>2, <2>3
<1>9. i \in S /\ Cardinality(below_(i)) = n - 1
  <2>1. Cardinality(below_(i)) \in Nat
    BY <1>2, <1>7
  <2> HIDE DEF below_
  <2> QED
    BY <1>4, <1>7, <1>8, <2>1
<1>10. \E x \in S : Cardinality({j \in S : j < x}) = n - 1
  BY <1>9
<1> QED
  BY <1>1, <1>10 DEF nth

LEMMA PickIs ==
  ASSUME NEW m \in Nat, NEW S, Within(S, m), NEW s
  PROVE  /\ DOMAIN pick(s, S) = 1 .. Cardinality(S) /\ Cardinality(S) \in 0 .. m
         /\ \A n \in 1 .. Cardinality(S) : \E i \in S : pick(s, S)[n] = s[i]
<1> USE DEF Within
<1>1. Cardinality(S) \in 0 .. m
  <2>1. IsFiniteSet(1 .. m) /\ Cardinality(1 .. m) = m
    BY FS_Interval
  <2>2. Cardinality(S) \in Nat /\ Cardinality(S) <= m
    BY <2>1, FS_Subset, FS_CardinalityType
  <2> QED
    BY <2>2
<1> QED
  BY <1>1, PlaceIs DEF pick

\* A run of places.
LEMMA RunIs ==
  ASSUME NEW a \in Nat, NEW m \in Nat, NEW s
  PROVE  /\ Cardinality(a + 1 .. a + m) = m /\ DOMAIN pick(s, a + 1 .. a + m) = 1 .. m
         /\ \A n \in 1 .. m : pick(s, a + 1 .. a + m)[n] = s[a + n]
<1> DEFINE S == a + 1 .. a + m
<1>1. Cardinality(S) = m
  BY FS_Interval
<1>2. ASSUME NEW n \in 1 .. m PROVE nth(S, n) = a + n
  <2>1. ASSUME NEW i \in S PROVE Cardinality({j \in S : j < i}) = i - 1 - a
    <3>1. {j \in S : j < i} = a + 1 .. i - 1
      OBVIOUS
    <3>2. Cardinality(a + 1 .. i - 1) = i - 1 - a
      BY FS_Interval
    <3> QED
      BY <3>1, <3>2
  <2>2. a + n \in S /\ \A i \in S : i - 1 - a = n - 1 <=> i = a + n
    OBVIOUS
  <2>3. \A i \in S : Cardinality({j \in S : j < i}) = n - 1 <=> i = a + n
    <3> HIDE DEF S
    <3> QED
      BY <2>1, <2>2
  <2> HIDE DEF S
  <2> QED
    BY <2>2, <2>3 DEF nth
<1> QED
  BY <1>1, <1>2 DEF pick

-----------------------------------------------------------------------------
(* What a refusal says.                                                    *)

LEMMA LimitIs ==
  ASSUME NEW n \in Nat, NEW m \in Nat
  PROVE  LET k == IF n < m THEN n ELSE m IN k \in Nat /\ k <= n /\ k <= m /\ (n <= m => k = n) /\ (n > m => k = m)
OBVIOUS

LEMMA PathIs ==
  ASSUME NEW path \in Seq(STRING)
  PROVE  LET p == normalizePath(path)
         IN /\ Len(p) <= MaxSegments
            /\ \A k \in DOMAIN p : \E l \in DOMAIN path : path[l] = p[k]
<1> DEFINE limit == IF Len(path) < MaxSegments THEN Len(path) ELSE MaxSegments
           head == SubSeq(path, 1, limit)
           S == {i \in DOMAIN head : head[i] # "unprintable"}
<1>1. limit \in Nat /\ limit <= Len(path) /\ limit <= MaxSegments
  BY WireBounds
<1> HIDE DEF limit
<1>2. DOMAIN head = 1 .. limit /\ \A i \in 1 .. limit : head[i] = path[i]
  BY <1>1
<1> HIDE DEF head
<1>3. Within(S, limit)
  BY <1>2 DEF Within
<1>4. normalizePath(path) = pick(head, S)
  BY DEF normalizePath, head, limit
<1> HIDE DEF S
<1>5. /\ DOMAIN pick(head, S) = 1 .. Cardinality(S) /\ Cardinality(S) \in 0 .. limit
      /\ \A n \in 1 .. Cardinality(S) : \E i \in S : pick(head, S)[n] = head[i]
  BY <1>1, <1>3, PickIs
<1>6. Len(pick(head, S)) = Cardinality(S)
  <2>1. pick(head, S) \in Seq({pick(head, S)[n] : n \in 1 .. Cardinality(S)})
    BY <1>5 DEF pick
  <2> QED
    BY <1>5, <2>1
<1>7. \A k \in 1 .. Cardinality(S) : \E l \in DOMAIN path : path[l] = pick(head, S)[k]
  <2>1. \A i \in S : i \in DOMAIN path /\ head[i] = path[i]
    BY <1>1, <1>2, <1>3 DEF Within
  <2> QED
    BY <1>5, <2>1
<1>8. Cardinality(S) <= MaxSegments
  BY <1>1, <1>5, WireBounds
<1> QED
  BY <1>4, <1>5, <1>6, <1>7, <1>8

\* An issue with a message of its own keeps part of its path, and what is safe to tell.
OwnIs(n, issue) ==
  /\ Len(n.path) <= MaxSegments /\ n.keys = issue.keys \ UnsafeKeys
  /\ \A k \in DOMAIN n.path : \E l \in DOMAIN issue.path : issue.path[l] = n.path[k]

LEMMA SingleIs ==
  ASSUME NEW issues \in RawIssues, NEW i \in DOMAIN issues
  PROVE  LET n == normalizeSingleIssue(issues, i)
         IN /\ n = [message |-> n.message, path |-> n.path, keys |-> n.keys]
            /\ n.message \in {"fallback", "cyclic", "own"}
            /\ n.message = "own" => OwnIs(n, issues[i])
            /\ n.message # "own" => n.path = <<>>
<1> DEFINE own == [message |-> "own", path |-> normalizePath(issues[i].path), keys |-> issues[i].keys \ UnsafeKeys]
<1>1. OwnIs(own, issues[i])
  <2> DEFINE p == normalizePath(issues[i].path)
  <2>1. issues[i].path \in Seq(STRING)
    BY IssuesAssumption
  <2>2. Len(p) <= MaxSegments /\ \A k \in DOMAIN p : \E l \in DOMAIN issues[i].path : issues[i].path[l] = p[k]
    BY <2>1, PathIs
  <2> HIDE DEF p
  <2>3. own.path = p /\ own.keys = issues[i].keys \ UnsafeKeys
    BY DEF p
  <2> QED
    BY <2>2, <2>3 DEF OwnIs
<1>2. \/ normalizeSingleIssue(issues, i) = own
      \/ \E m \in {"fallback", "cyclic"} : normalizeSingleIssue(issues, i) = [message |-> m, path |-> <<>>, keys |-> {}]
  BY DEF normalizeSingleIssue
<1>3. own = [message |-> own.message, path |-> own.path, keys |-> own.keys] /\ own.message = "own"
  OBVIOUS
<1> HIDE DEF own
<1> QED
  BY <1>1, <1>2, <1>3

\* The list that is kept, and the note behind it.
LEMMA ListIs ==
  ASSUME NEW issues \in RawIssues
  PROVE  LET n == normalizeValidationIssues(issues)
         IN /\ Len(n) = (IF Len(issues) > MaxIssues THEN MaxIssues + 1 ELSE Len(issues)) /\ DOMAIN n = 1 .. Len(n)
            /\ \A i \in DOMAIN n : \/ i > MaxIssues /\ n[i] = Truncated
                                   \/ i <= MaxIssues /\ i \in DOMAIN issues /\ n[i] = normalizeSingleIssue(issues, i)
<1> DEFINE limit == IF Len(issues) < MaxIssues THEN Len(issues) ELSE MaxIssues
           kept == [i \in 1 .. limit |-> normalizeSingleIssue(issues, i)]
           n == normalizeValidationIssues(issues)
           S == {kept[i] : i \in 1 .. limit} \cup {Truncated}
<1>1. Len(issues) \in Nat /\ DOMAIN issues = 1 .. Len(issues) /\ MaxIssues \in Nat
  BY IssuesAssumption, WireBounds
<1>2. limit \in Nat /\ limit <= MaxIssues /\ limit <= Len(issues) /\ (Len(issues) <= MaxIssues => limit = Len(issues))
      /\ (Len(issues) > MaxIssues => limit = MaxIssues)
  BY <1>1, LimitIs
<1>3. n = IF Len(issues) > MaxIssues THEN Append(kept, Truncated) ELSE kept
  BY DEF normalizeValidationIssues
<1> HIDE DEF limit, n
<1>4. kept \in Seq(S) /\ Len(kept) = limit /\ Truncated \in S
  BY <1>2
<1>5. \A i \in 1 .. limit : kept[i] = normalizeSingleIssue(issues, i)
  OBVIOUS
<1> HIDE DEF kept, S
<1>6. CASE Len(issues) > MaxIssues
  <2>1. n = Append(kept, Truncated) /\ limit = MaxIssues
    BY <1>2, <1>3, <1>6
  <2>2. Len(n) = MaxIssues + 1 /\ DOMAIN n = 1 .. MaxIssues + 1 /\ n[MaxIssues + 1] = Truncated
        /\ \A i \in 1 .. MaxIssues : n[i] = kept[i]
    BY <1>1, <1>4, <2>1
  <2>3. ASSUME NEW i \in 1 .. MaxIssues + 1
        PROVE  \/ i > MaxIssues /\ n[i] = Truncated
               \/ i <= MaxIssues /\ i \in DOMAIN issues /\ n[i] = normalizeSingleIssue(issues, i)
    <3>1. CASE i = MaxIssues + 1
      <4>1. i > MaxIssues
        BY <1>1, <3>1
      <4> QED
        BY <2>2, <3>1, <4>1
    <3>2. CASE i \in 1 .. MaxIssues
      BY <1>1, <1>5, <1>6, <2>1, <2>2, <3>2
    <3> QED
      BY <1>1, <3>1, <3>2
  <2> QED
    BY <1>6, <2>2, <2>3 DEF n
<1>7. CASE ~(Len(issues) > MaxIssues)
  <2>1. n = kept
    BY <1>3, <1>7
  <2>2. limit = Len(issues) /\ limit <= MaxIssues
    <3>1. Len(issues) <= MaxIssues
      BY <1>1, <1>7
    <3> QED
      BY <1>2, <3>1
  <2>3. Len(n) = Len(issues) /\ DOMAIN n = 1 .. Len(issues)
    BY <1>4, <2>1, <2>2
  <2>4. \A i \in 1 .. Len(issues) : i <= MaxIssues /\ i \in DOMAIN issues /\ n[i] = normalizeSingleIssue(issues, i)
    BY <1>1, <1>5, <2>1, <2>2
  <2> QED
    BY <1>7, <2>3, <2>4 DEF n
<1> QED
  BY <1>6, <1>7

LEMMA SanitizedIs ==
  ASSUME NEW n,
         \A i \in DOMAIN n : n[i] = [message |-> n[i].message, path |-> n[i].path, keys |-> n[i].keys]
  PROVE  LET s == sanitizeHeaderIssues(n)
         IN /\ DOMAIN s = DOMAIN n
            /\ \A i \in DOMAIN n :
                 \/ s[i] = n[i] /\ (n[i].path = <<>> \/ n[i].path[1] \notin SensitiveHeaders)
                 \/ /\ s[i].message = "redacted" /\ s[i].path = n[i].path /\ s[i].keys = n[i].keys
                    /\ n[i].path # <<>> /\ n[i].path[1] \in SensitiveHeaders
BY DEF sanitizeHeaderIssues

LEMMA Explained == ASSUME IInv PROVE RefusalExplained
<1> SUFFICES ASSUME answer.code = "VALIDATION_FAILED" PROVE RefusalExplained
  BY DEF RefusalExplained
<1> DEFINE n == normalizeValidationIssues(raw)
           issues == answer.issues
           told == {i \in DOMAIN issues : issues[i].message \in {"own", "redacted"}}
<1>1. raw \in RawIssues /\ answer = createValidationProblem(raw)
  BY DEF IInv, Answered
<1>2. /\ answer.from = "framework" /\ answer.source = Slots[slot]
      /\ issues = IF Slots[slot] = "headers" THEN sanitizeHeaderIssues(n) ELSE n
  BY <1>1, ValidationProblemIs
<1>3. slot \in 1 .. 4 /\ declares(matched, Slots[slot])
  BY <1>2 DEF IInv, Answered
<1>4. \A k \in slot .. 4 : given[Slots[k]] = None
  BY <1>3 DEF IInv, Decided
<1>5. ASSUME NEW k \in 1 .. slot - 1, declares(matched, Slots[k]) PROVE given[Slots[k]] # None
  <2>1. k \in 1 .. 4 /\ k < slot /\ k # 4
    BY <1>3
  <2>2. given[Slots[k]] = decoded(Slots[k])
    BY <1>5, <2>1 DEF IInv, Decided
  <2>3. Slots[k] \in {"headers", "params", "query"}
    BY <2>1 DEF Slots
  <2>4. decoded(Slots[k]).kind # "none"
    BY <2>3 DEF decoded
  <2> QED
    BY <2>2, <2>4 DEF None
<1>6. /\ Len(n) = (IF Len(raw) > MaxIssues THEN MaxIssues + 1 ELSE Len(raw)) /\ DOMAIN n = 1 .. Len(n)
      /\ \A i \in DOMAIN n : \/ i > MaxIssues /\ n[i] = Truncated
                             \/ i <= MaxIssues /\ i \in DOMAIN raw /\ n[i] = normalizeSingleIssue(raw, i)
  BY <1>1, ListIs
<1> HIDE DEF n
<1>7. ASSUME NEW i \in DOMAIN n
      PROVE  /\ n[i] = [message |-> n[i].message, path |-> n[i].path, keys |-> n[i].keys]
             /\ n[i].message = "truncated" <=> i > MaxIssues
             /\ n[i].message # "redacted"
             /\ n[i].message # "own" => n[i].path = <<>>
             /\ n[i].message = "own" => OwnIs(n[i], raw[i])
  <2>1. CASE i > MaxIssues /\ n[i] = Truncated
    BY <2>1 DEF Truncated
  <2>2. CASE i <= MaxIssues /\ i \in DOMAIN raw /\ n[i] = normalizeSingleIssue(raw, i)
    <3>1. ~(i > MaxIssues)
      BY <1>6, <2>2, WireBounds
    <3> QED
      BY <1>1, <2>2, <3>1, SingleIs
  <2> QED
    BY <1>6, <2>1, <2>2
<1>8. /\ Len(issues) = Len(n) /\ DOMAIN issues = DOMAIN n
      /\ \A i \in DOMAIN n : \/ /\ issues[i] = n[i]
                                /\ Slots[slot] = "headers" => n[i].path = <<>> \/ n[i].path[1] \notin SensitiveHeaders
                             \/ /\ Slots[slot] = "headers" /\ n[i].path # <<>> /\ n[i].path[1] \in SensitiveHeaders
                                /\ issues[i].message = "redacted" /\ issues[i].path = n[i].path /\ issues[i].keys = n[i].keys
  <2>1. CASE Slots[slot] = "headers"
    <3> DEFINE s == sanitizeHeaderIssues(n)
    <3>1. /\ DOMAIN s = DOMAIN n
          /\ \A i \in DOMAIN n :
               \/ s[i] = n[i] /\ (n[i].path = <<>> \/ n[i].path[1] \notin SensitiveHeaders)
               \/ /\ s[i].message = "redacted" /\ s[i].path = n[i].path /\ s[i].keys = n[i].keys
                  /\ n[i].path # <<>> /\ n[i].path[1] \in SensitiveHeaders
      BY <1>7, SanitizedIs
    <3>2. s = [i \in 1 .. Len(n) |-> s[i]]
      BY <1>6 DEF sanitizeHeaderIssues
    <3>3. Len(n) \in Nat
      BY <1>1, <1>6, IssuesAssumption, WireBounds
    <3> HIDE DEF s
    <3>4. Len(s) = Len(n)
      <4>1. s \in Seq({s[i] : i \in 1 .. Len(n)})
        BY <3>2, <3>3
      <4> QED
        BY <1>6, <3>1, <3>3, <4>1
    <3>5. issues = s
      BY <1>2, <2>1 DEF s
    <3> HIDE DEF issues
    <3> QED
      BY <2>1, <3>1, <3>4, <3>5
  <2>2. CASE Slots[slot] # "headers"
    BY <1>2, <2>2
  <2> QED
    BY <2>1, <2>2
<1> HIDE DEF issues
<1>9. \A i \in DOMAIN issues : issues[i].message = "truncated" <=> i > MaxIssues
  BY <1>7, <1>8
<1>10. ASSUME NEW i \in told
       PROVE  /\ Len(issues[i].path) <= MaxSegments /\ issues[i].keys = raw[i].keys \ UnsafeKeys
              /\ \A k \in DOMAIN issues[i].path : \E l \in DOMAIN raw[i].path : raw[i].path[l] = issues[i].path[k]
              /\ issues[i].message = "redacted" <=>
                   answer.source = "headers" /\ issues[i].path # <<>> /\ issues[i].path[1] \in SensitiveHeaders
  <2>1. i \in DOMAIN n /\ issues[i].message \in {"own", "redacted"}
    BY <1>8
  <2>2. issues[i].path = n[i].path /\ issues[i].keys = n[i].keys
    BY <1>8, <2>1
  <2>3. issues[i].message = "redacted" <=>
          Slots[slot] = "headers" /\ n[i].path # <<>> /\ n[i].path[1] \in SensitiveHeaders
    BY <1>7, <1>8, <2>1
  <2>4. n[i].message = "own"
    BY <1>7, <1>8, <2>1
  <2>5. OwnIs(n[i], raw[i])
    BY <1>7, <2>1, <2>4
  <2> QED
    BY <1>2, <2>2, <2>3, <2>5 DEF OwnIs
<1> QED
  BY <1>2, <1>4, <1>5, <1>6, <1>8, <1>9, <1>10 DEF RefusalExplained, issues

\* Whatever the routes declare and the schemas complain about, a 422 names the
\* slot that was refused and keeps its issues in order, with paths of bounded
\* length, without the field that holds the input, and with the message replaced of
\* just those that name a sensitive header first.
THEOREM Refusals == Spec => []RefusalExplained
BY Initially, Inductive, Explained, PTL DEF Spec

-----------------------------------------------------------------------------
(* JSON, by how deep a value or a type nests.                              *)

BodiesTo(i) == below(Bodies, i + 1)
UnionsTo(i) == below(Unions, i + 1)

LEMMA LevelsAre ==
  ASSUME NEW levels, DOMAIN levels = 1 .. Depth
  PROVE  /\ below(levels, 1) = {}
         /\ below(levels, Depth + 1) = UNION {levels[i] : i \in DOMAIN levels}
         /\ \A i \in 1 .. Depth : /\ below(levels, i + 1) = below(levels, i) \cup levels[i]
                                  /\ \A j \in 1 .. i : below(levels, j) \subseteq below(levels, i)
<1> USE WireBounds DEF below
<1>1. below(levels, 1) = {}
  OBVIOUS
<1>2. below(levels, Depth + 1) = UNION {levels[i] : i \in DOMAIN levels}
  OBVIOUS
<1>3. ASSUME NEW i \in 1 .. Depth PROVE below(levels, i + 1) = below(levels, i) \cup levels[i]
  <2>1. 1 .. (i + 1) - 1 = (1 .. i - 1) \cup {i}
    OBVIOUS
  <2> QED
    BY <2>1
<1>4. ASSUME NEW i \in 1 .. Depth, NEW j \in 1 .. i PROVE below(levels, j) \subseteq below(levels, i)
  <2>1. 1 .. j - 1 \subseteq 1 .. i - 1
    OBVIOUS
  <2> QED
    BY <2>1
<1> QED
  BY <1>1, <1>2, <1>3, <1>4

LEMMA BodyLevels ==
  /\ BodiesTo(0) = {} /\ BodiesTo(Depth) = AllBodies
  /\ \A i \in 1 .. Depth : BodiesTo(i - 1) \subseteq BodiesTo(i)
<1>1. DOMAIN Bodies = 1 .. Depth
  BY BodiesAssumption
<1>2. ASSUME NEW i \in 1 .. Depth PROVE BodiesTo(i - 1) \subseteq BodiesTo(i)
  <2>1. (i - 1) + 1 = i
    OBVIOUS
  <2> QED
    BY <1>1, <2>1, LevelsAre DEF BodiesTo
<1>3. 0 + 1 = 1
  OBVIOUS
<1>4. below(Bodies, 1) = {} /\ below(Bodies, Depth + 1) = UNION {Bodies[i] : i \in DOMAIN Bodies}
  BY <1>1, LevelsAre
<1> QED
  BY <1>2, <1>3, <1>4 DEF BodiesTo, AllBodies

LEMMA UnionLevels ==
  /\ UnionsTo(0) = {} /\ UnionsTo(Depth) = AllUnions
  /\ \A i \in 1 .. Depth : UnionsTo(i - 1) \subseteq UnionsTo(i)
<1>1. DOMAIN Unions = 1 .. Depth
  BY UnionsAssumption
<1>2. ASSUME NEW i \in 1 .. Depth PROVE UnionsTo(i - 1) \subseteq UnionsTo(i)
  <2>1. (i - 1) + 1 = i
    OBVIOUS
  <2> QED
    BY <1>1, <2>1, LevelsAre DEF UnionsTo
<1>3. 0 + 1 = 1
  OBVIOUS
<1>4. below(Unions, 1) = {} /\ below(Unions, Depth + 1) = UNION {Unions[i] : i \in DOMAIN Unions}
  BY <1>1, LevelsAre
<1> QED
  BY <1>2, <1>3, <1>4 DEF UnionsTo, AllUnions

\* What a body is built of lies below it.
LEMMA InnerBody ==
  ASSUME NEW i \in 1 .. Depth, NEW v \in BodiesTo(i), v.items # <<>>
  PROVE  v.node \in Nested /\ v.items[1] \in BodiesTo(i - 1)
<1>1. PICK j \in 1 .. i : v \in Bodies[j]
  BY WireBounds DEF BodiesTo, below
<1>2. j \in 1 .. Depth
  BY <1>1, WireBounds
<1>3. \/ v = Tree(v.node, <<>>)
      \/ v.node \in Nested /\ v.items[1] \in below(Bodies, j)
  BY <1>1, <1>2, BodiesAssumption
<1>4. below(Bodies, j) \subseteq below(Bodies, i)
  BY <1>1, BodiesAssumption, LevelsAre
<1>5. BodiesTo(i - 1) = below(Bodies, i)
  <2>1. (i - 1) + 1 = i
    OBVIOUS
  <2> QED
    BY <2>1 DEF BodiesTo
<1> QED
  BY <1>3, <1>4, <1>5 DEF Tree

LEMMA InnerUnion ==
  ASSUME NEW i \in 1 .. Depth, NEW u \in UnionsTo(i), NEW a \in u
  PROVE  \/ a.node \in (Leaves \ {"finite", "nan"}) \cup {"number"}
         \/ a.node \in Nested /\ a.of \in UnionsTo(i - 1)
<1>1. PICK j \in 1 .. i : u \in Unions[j]
  BY WireBounds DEF UnionsTo, below
<1>2. j \in 1 .. Depth
  BY <1>1, WireBounds
<1>3. \/ a.node \in (Leaves \ {"finite", "nan"}) \cup {"number"}
      \/ a.node \in Nested /\ a.of \in below(Unions, j)
  BY <1>1, <1>2, UnionsAssumption
<1>4. below(Unions, j) \subseteq below(Unions, i)
  BY <1>1, UnionsAssumption, LevelsAre
<1>5. UnionsTo(i - 1) = below(Unions, i)
  <2>1. (i - 1) + 1 = i
    OBVIOUS
  <2> QED
    BY <2>1 DEF UnionsTo
<1> QED
  BY <1>3, <1>4, <1>5

\* The text of one value, by what f says of those below it.
textBy(f, value) ==
  LET v == hookless(value)
  IN serialized(v, IF within(v) THEN f[v.items[1]] ELSE Drops)

LEMMA TextBelow ==
  ASSUME NEW i \in 1 .. Depth, NEW v \in BodiesTo(i), NEW f, NEW g,
         \A w \in BodiesTo(i - 1) : f[w] = g[w]
  PROVE  textBy(f, v) = textBy(g, v)
<1> DEFINE h == hookless(v)
<1>1. h \in BodiesTo(i)
  <2>1. CASE v.node # "hook"
    BY <2>1 DEF hookless
  <2>2. CASE v.node = "hook" /\ v.items # <<>>
    <3>1. v.items[1] \in BodiesTo(i - 1)
      BY <2>2, InnerBody
    <3> QED
      BY <2>2, <3>1, BodyLevels DEF hookless
  <2>3. CASE v.node = "hook" /\ v.items = <<>>
    <3>1. PICK j \in 1 .. Depth : v \in Bodies[j]
      BY WireBounds DEF BodiesTo, below
    <3>2. v.node \in Leaves \cup {"object", "array"} \/ v = Tree(v.node, <<v.items[1]>>)
      BY <3>1, BodiesAssumption
    <3>3. v.items = <<v.items[1]>>
      BY <2>3, <3>2 DEF Leaves, Tree
    <3> QED
      BY <2>3, <3>3
  <2> QED
    BY <2>1, <2>2, <2>3
<1> HIDE DEF h
<1>2. within(h) => h.items[1] \in BodiesTo(i - 1)
  BY <1>1, InnerBody DEF within
<1> QED
  BY <1>2 DEF textBy, h

LEMMA TextExists == \E f : f = [v \in AllBodies |-> textBy(f, v)]
<1> DEFINE Has(i) == \E f : f = [v \in BodiesTo(i) |-> textBy(f, v)]
           D == {i \in 0 .. Depth : ~Has(i)}
<1>1. Has(0)
  <2> DEFINE f == [v \in BodiesTo(0) |-> v]
  <2>1. f = [v \in BodiesTo(0) |-> textBy(f, v)]
    <3>1. BodiesTo(0) = {}
      BY BodyLevels
    <3> QED
      BY <3>1
  <2> QED
    BY <2>1
<1>2. ASSUME NEW i \in 1 .. Depth, Has(i - 1) PROVE Has(i)
  <2>1. PICK f : f = [v \in BodiesTo(i - 1) |-> textBy(f, v)]
    BY <1>2
  <2> DEFINE g == [v \in BodiesTo(i) |-> textBy(f, v)]
  <2>2. BodiesTo(i - 1) \subseteq BodiesTo(i)
    BY BodyLevels
  <2>3. \A w \in BodiesTo(i - 1) : g[w] = f[w]
    BY <2>1, <2>2
  <2> HIDE DEF g
  <2>4. \A v \in BodiesTo(i) : textBy(f, v) = textBy(g, v)
    BY <2>3, TextBelow
  <2>5. g = [v \in BodiesTo(i) |-> textBy(g, v)]
    BY <2>4 DEF g
  <2> QED
    BY <2>5
<1>3. D = {}
  <2>1. D \in SUBSET (0 .. Depth) /\ 0 \notin D
    BY <1>1
  <2>2. ASSUME NEW i \in 1 .. Depth, i \in D PROVE i - 1 \in D
    <3>1. i - 1 \in 0 .. Depth
      BY WireBounds
    <3> HIDE DEF Has
    <3> QED
      BY <1>2, <2>2, <3>1
  <2> HIDE DEF D
  <2> QED
    BY <2>1, <2>2, UpTo, WireBounds
<1>4. Has(Depth)
  <2>1. Depth \in 0 .. Depth
    BY WireBounds
  <2> HIDE DEF Has
  <2> QED
    BY <1>3, <2>1
<1> QED
  BY <1>4, BodyLevels

LEMMA TextIs == \A v \in AllBodies : stringify[v] = textBy(stringify, v)
<1> DEFINE F(f) == f = [v \in AllBodies |-> textBy(f, v)]
<1>1. stringify = CHOOSE f : F(f)
  BY DEF stringify, textBy
<1>2. \E f : F(f)
  BY TextExists
<1>3. F(stringify)
  <2> HIDE DEF F
  <2> QED
    BY <1>1, <1>2
<1> QED
  BY <1>3

\* The values of one type, and the trees JSON has for it, likewise.
inhabitBy(f, u) == UNION {valuesOf(a, f[a.of]) : a \in u}
rawBy(f, u) == UNION {JsonifyAlternative(a, f[a.of]) : a \in HookOnce(u)}

LEMMA InhabitBelow ==
  ASSUME NEW i \in 1 .. Depth, NEW u \in UnionsTo(i), NEW f, NEW g,
         \A w \in UnionsTo(i - 1) : f[w] = g[w]
  PROVE  inhabitBy(f, u) = inhabitBy(g, u)
<1>1. ASSUME NEW a \in u PROVE valuesOf(a, f[a.of]) = valuesOf(a, g[a.of])
  <2>1. CASE a.node \in Nested /\ a.of \in UnionsTo(i - 1)
    BY <2>1
  <2>2. CASE a.node \in (Leaves \ {"finite", "nan"}) \cup {"number"}
    BY <2>2 DEF Leaves, Nested, valuesOf
  <2> QED
    BY <2>1, <2>2, InnerUnion
<1> QED
  BY <1>1 DEF inhabitBy

LEMMA HookOnceIs ==
  ASSUME NEW i \in 1 .. Depth, NEW u \in UnionsTo(i), NEW a \in HookOnce(u)
  PROVE  \/ a.node \in (Leaves \ {"finite", "nan"}) \cup {"number"}
         \/ a.node \in Nested /\ a.of \in UnionsTo(i - 1)
<1>1. PICK b \in u : a \in IF b.node = "hook" THEN b.of ELSE {b}
  BY DEF HookOnce
<1>2. CASE b.node # "hook"
  <2>1. a \in u
    BY <1>1, <1>2
  <2> QED
    BY <2>1, InnerUnion
<1>3. CASE b.node = "hook"
  <2>1. a \in b.of /\ b.of \in UnionsTo(i - 1)
    <3>1. b.node \notin (Leaves \ {"finite", "nan"}) \cup {"number"}
      BY <1>3 DEF Leaves
    <3> QED
      BY <1>1, <1>3, <3>1, InnerUnion
  <2>2. i - 1 \in 1 .. Depth
    <3>1. i - 1 # 0
      BY <2>1, UnionLevels
    <3> QED
      BY <3>1, WireBounds
  <2>3. \/ a.node \in (Leaves \ {"finite", "nan"}) \cup {"number"}
        \/ a.node \in Nested /\ a.of \in UnionsTo((i - 1) - 1)
    BY <2>1, <2>2, InnerUnion
  <2>4. UnionsTo((i - 1) - 1) \subseteq UnionsTo(i - 1)
    BY <2>2, UnionLevels
  <2> QED
    BY <2>3, <2>4
<1> QED
  BY <1>2, <1>3

LEMMA RawBelow ==
  ASSUME NEW i \in 1 .. Depth, NEW u \in UnionsTo(i), NEW f, NEW g,
         \A w \in UnionsTo(i - 1) : f[w] = g[w]
  PROVE  rawBy(f, u) = rawBy(g, u)
<1>1. ASSUME NEW a \in HookOnce(u) PROVE JsonifyAlternative(a, f[a.of]) = JsonifyAlternative(a, g[a.of])
  <2>1. CASE a.node \in Nested /\ a.of \in UnionsTo(i - 1)
    BY <2>1
  <2>2. CASE a.node \in (Leaves \ {"finite", "nan"}) \cup {"number"}
    BY <2>2 DEF Leaves, JsonifyAlternative
  <2> QED
    BY <2>1, <2>2, HookOnceIs
<1> QED
  BY <1>1 DEF rawBy

LEMMA InhabitExists == \E f : f = [u \in AllUnions |-> inhabitBy(f, u)]
<1> DEFINE Has(i) == \E f : f = [u \in UnionsTo(i) |-> inhabitBy(f, u)]
           D == {i \in 0 .. Depth : ~Has(i)}
<1>1. Has(0)
  <2> DEFINE f == [u \in UnionsTo(0) |-> u]
  <2>1. f = [u \in UnionsTo(0) |-> inhabitBy(f, u)]
    <3>1. UnionsTo(0) = {}
      BY UnionLevels
    <3> QED
      BY <3>1
  <2> QED
    BY <2>1
<1>2. ASSUME NEW i \in 1 .. Depth, Has(i - 1) PROVE Has(i)
  <2>1. PICK f : f = [u \in UnionsTo(i - 1) |-> inhabitBy(f, u)]
    BY <1>2
  <2> DEFINE g == [u \in UnionsTo(i) |-> inhabitBy(f, u)]
  <2>2. UnionsTo(i - 1) \subseteq UnionsTo(i)
    BY UnionLevels
  <2>3. \A w \in UnionsTo(i - 1) : g[w] = f[w]
    BY <2>1, <2>2
  <2> HIDE DEF g
  <2>4. \A u \in UnionsTo(i) : inhabitBy(f, u) = inhabitBy(g, u)
    BY <2>3, InhabitBelow
  <2>5. g = [u \in UnionsTo(i) |-> inhabitBy(g, u)]
    BY <2>4 DEF g
  <2> QED
    BY <2>5
<1>3. D = {}
  <2>1. D \in SUBSET (0 .. Depth) /\ 0 \notin D
    BY <1>1
  <2>2. ASSUME NEW i \in 1 .. Depth, i \in D PROVE i - 1 \in D
    <3>1. i - 1 \in 0 .. Depth
      BY WireBounds
    <3> HIDE DEF Has
    <3> QED
      BY <1>2, <2>2, <3>1
  <2> HIDE DEF D
  <2> QED
    BY <2>1, <2>2, UpTo, WireBounds
<1>4. Has(Depth)
  <2>1. Depth \in 0 .. Depth
    BY WireBounds
  <2> HIDE DEF Has
  <2> QED
    BY <1>3, <2>1
<1> QED
  BY <1>4, UnionLevels

LEMMA InhabitIs == \A u \in AllUnions : Inhabitants[u] = inhabitBy(Inhabitants, u)
<1> DEFINE F(f) == f = [u \in AllUnions |-> inhabitBy(f, u)]
<1>1. Inhabitants = CHOOSE f : F(f)
  BY DEF Inhabitants, inhabitBy
<1>2. \E f : F(f)
  BY InhabitExists
<1>3. F(Inhabitants)
  <2> HIDE DEF F
  <2> QED
    BY <1>1, <1>2
<1> QED
  BY <1>3

LEMMA RawExists == \E f : f = [u \in AllUnions |-> rawBy(f, u)]
<1> DEFINE Has(i) == \E f : f = [u \in UnionsTo(i) |-> rawBy(f, u)]
           D == {i \in 0 .. Depth : ~Has(i)}
<1>1. Has(0)
  <2> DEFINE f == [u \in UnionsTo(0) |-> u]
  <2>1. f = [u \in UnionsTo(0) |-> rawBy(f, u)]
    <3>1. UnionsTo(0) = {}
      BY UnionLevels
    <3> QED
      BY <3>1
  <2> QED
    BY <2>1
<1>2. ASSUME NEW i \in 1 .. Depth, Has(i - 1) PROVE Has(i)
  <2>1. PICK f : f = [u \in UnionsTo(i - 1) |-> rawBy(f, u)]
    BY <1>2
  <2> DEFINE g == [u \in UnionsTo(i) |-> rawBy(f, u)]
  <2>2. UnionsTo(i - 1) \subseteq UnionsTo(i)
    BY UnionLevels
  <2>3. \A w \in UnionsTo(i - 1) : g[w] = f[w]
    BY <2>1, <2>2
  <2> HIDE DEF g
  <2>4. \A u \in UnionsTo(i) : rawBy(f, u) = rawBy(g, u)
    BY <2>3, RawBelow
  <2>5. g = [u \in UnionsTo(i) |-> rawBy(g, u)]
    BY <2>4 DEF g
  <2> QED
    BY <2>5
<1>3. D = {}
  <2>1. D \in SUBSET (0 .. Depth) /\ 0 \notin D
    BY <1>1
  <2>2. ASSUME NEW i \in 1 .. Depth, i \in D PROVE i - 1 \in D
    <3>1. i - 1 \in 0 .. Depth
      BY WireBounds
    <3> HIDE DEF Has
    <3> QED
      BY <1>2, <2>2, <3>1
  <2> HIDE DEF D
  <2> QED
    BY <2>1, <2>2, UpTo, WireBounds
<1>4. Has(Depth)
  <2>1. Depth \in 0 .. Depth
    BY WireBounds
  <2> HIDE DEF Has
  <2> QED
    BY <1>3, <2>1
<1> QED
  BY <1>4, UnionLevels

LEMMA RawIs == \A u \in AllUnions : JsonifyRaw[u] = rawBy(JsonifyRaw, u)
<1> DEFINE F(f) == f = [u \in AllUnions |-> rawBy(f, u)]
<1>1. JsonifyRaw = CHOOSE f : F(f)
  BY DEF JsonifyRaw, rawBy
<1>2. \E f : F(f)
  BY RawExists
<1>3. F(JsonifyRaw)
  <2> HIDE DEF F
  <2> QED
    BY <1>1, <1>2
<1> QED
  BY <1>3

\* One alternative has the text of each of its values, whatever is inside.
LEMMA AlternativeIs ==
  ASSUME NEW b, b.node \in (Leaves \ {"finite", "nan"}) \cup {"number"} \cup Nested,
         NEW inner, NEW w \in valuesOf(b, inner), NEW types, NEW text,
         IF within(w) THEN text \in types \cup {Throws} ELSE text = Drops
  PROVE  serialized(w, text) \in JsonifyAlternative(b, types) \cup {Throws}
<1>1. CASE text = Throws
  BY <1>1 DEF serialized
<1>2. CASE text # Throws /\ b.node = "object"
  <2>1. PICK x \in inner : w = Tree("object", <<x>>)
    BY <1>2 DEF valuesOf, Nested
  <2>2. w.node = "object" /\ w.items # <<>>
    BY <2>1 DEF Tree
  <2>3. text \in types
    BY <1>2, <2>2 DEF within
  <2>4. JsonifyAlternative(b, types) = JsonifyObject(types)
    BY <1>2 DEF JsonifyAlternative
  <2>5. serialized(w, text) = Tree("object", IF text = Drops THEN <<>> ELSE <<text>>)
    BY <1>2, <2>2 DEF serialized
  <2>6. CASE text = Drops
    BY <2>3, <2>4, <2>5, <2>6 DEF JsonifyObject, HasDrop
  <2>7. CASE text # Drops
    BY <1>2, <2>3, <2>4, <2>5, <2>7 DEF JsonifyObject, WireValue
  <2> QED
    BY <2>6, <2>7
<1>3. CASE text # Throws /\ b.node = "array"
  <2>1. PICK x \in inner : w = Tree("array", <<x>>)
    BY <1>3 DEF valuesOf, Nested
  <2>2. w.node = "array" /\ w.items # <<>>
    BY <2>1 DEF Tree
  <2>3. text \in types
    BY <1>3, <2>2 DEF within
  <2>4. JsonifyAlternative(b, types) = {Tree("array", <<t>>) : t \in JsonifyElement(types)}
    BY <1>3 DEF JsonifyAlternative
  <2>5. serialized(w, text) = Tree("array", <<IF text = Drops THEN Null ELSE text>>)
    BY <1>3, <2>2 DEF serialized
  <2>6. (IF text = Drops THEN Null ELSE text) \in JsonifyElement(types)
    BY <1>3, <2>3 DEF JsonifyElement, WireValue, HasDrop
  <2> QED
    BY <2>4, <2>5, <2>6
<1>4. CASE text # Throws /\ b.node \notin {"object", "array"}
  <2>1. w.node \notin {"object", "array"} /\ text = Drops
    <3>1. w.node \notin {"object", "array"}
      BY <1>4 DEF valuesOf, Nested, Tree
    <3> QED
      BY <3>1 DEF within
  <2>2. CASE b.node = "number"
    <3>1. w \in {Tree("finite", <<>>), Tree("nan", <<>>)}
      BY <2>2 DEF valuesOf, Nested
    <3>2. CASE w = Tree("finite", <<>>)
      <4>1. w.node = "finite" /\ serialized(w, text) = w
        BY <1>4, <3>2 DEF serialized, Tree
      <4> QED
        BY <2>2, <3>2, <4>1 DEF JsonifyAlternative, JsonifyNumber
    <3>3. CASE w = Tree("nan", <<>>)
      <4>1. w.node = "nan"
        BY <3>3 DEF Tree
      <4>2. serialized(w, text) = Null
        BY <1>4, <4>1 DEF serialized
      <4> QED
        BY <2>2, <4>2 DEF JsonifyAlternative, JsonifyNumber
    <3> QED
      BY <3>1, <3>2, <3>3
  <2>3. CASE b.node = "hook"
    <3>1. w.node = "hook"
      BY <2>3 DEF valuesOf, Nested, Tree
    <3>2. serialized(w, text) = Tree("object", <<>>)
      BY <1>4, <3>1 DEF serialized
    <3> QED
      BY <2>3, <3>2 DEF JsonifyAlternative
  <2>4. CASE b.node \in Leaves \ {"finite", "nan"}
    <3>1. w = Tree(b.node, <<>>) /\ w.node = b.node
      BY <2>4 DEF valuesOf, Nested, Tree, Leaves
    <3>2. CASE b.node \in {"undefined", "function", "bigint", "map"}
      BY <1>4, <3>1, <3>2 DEF serialized, JsonifyAlternative
    <3>3. CASE b.node \notin {"undefined", "function", "bigint", "map"}
      BY <1>4, <2>4, <3>1, <3>3 DEF serialized, JsonifyAlternative, Leaves
    <3> QED
      BY <3>2, <3>3
  <2> QED
    BY <1>4, <2>2, <2>3, <2>4 DEF Nested
<1> QED
  BY <1>1, <1>2, <1>3, <1>4

\* What JSON.stringify() makes of a value of a type, its mirror has among the
\* trees of the type, unless it throws.
Mirrored(u) == \A v \in Inhabitants[u] : stringify[v] \in JsonifyRaw[u] \cup {Throws}

LEMMA MirroredStep ==
  ASSUME NEW i \in 1 .. Depth, NEW u \in UnionsTo(i), \A t \in UnionsTo(i - 1) : Mirrored(t)
  PROVE  Mirrored(u)
<1>1. UnionsTo(i) \subseteq AllUnions /\ UnionsTo(i - 1) \subseteq AllUnions
  <2>1. UnionsTo(i) \subseteq AllUnions
    BY WireBounds, UnionsAssumption DEF UnionsTo, below, AllUnions
  <2> QED
    BY <2>1, UnionLevels
<1> SUFFICES ASSUME NEW v \in Inhabitants[u] PROVE stringify[v] \in JsonifyRaw[u] \cup {Throws}
  BY DEF Mirrored
<1> DEFINE h == hookless(v)
           text == IF within(h) THEN stringify[h.items[1]] ELSE Drops
<1>2. stringify[v] = serialized(h, text)
  BY <1>1, TextIs, InhabitantsAssumption DEF textBy
<1>3. JsonifyRaw[u] = UNION {JsonifyAlternative(b, JsonifyRaw[b.of]) : b \in HookOnce(u)}
  BY <1>1, RawIs DEF rawBy
<1>4. \E b \in HookOnce(u) : h \in valuesOf(b, Inhabitants[b.of])
  <2>1. PICK a \in u : v \in valuesOf(a, Inhabitants[a.of])
    BY <1>1, InhabitIs DEF inhabitBy
  <2>2. CASE a.node # "hook"
    <3>1. v.node # "hook"
      BY <2>1, <2>2 DEF valuesOf, Tree, Nested
    <3>2. a \in HookOnce(u)
      BY <2>2 DEF HookOnce
    <3> QED
      BY <2>1, <3>1, <3>2 DEF hookless
  <2>3. CASE a.node = "hook"
    <3>1. PICK x \in Inhabitants[a.of] : v = Tree("hook", <<x>>)
      BY <2>1, <2>3 DEF valuesOf, Nested
    <3>2. h = x
      BY <3>1 DEF hookless, Tree
    <3>3. a.of \in UnionsTo(i - 1)
      BY <2>3, InnerUnion DEF Leaves
    <3>4. PICK b \in a.of : x \in valuesOf(b, Inhabitants[b.of])
      BY <1>1, <3>1, <3>3, InhabitIs DEF inhabitBy
    <3>5. b \in HookOnce(u)
      BY <2>3, <3>4 DEF HookOnce
    <3> QED
      BY <3>2, <3>4, <3>5
  <2> QED
    BY <2>2, <2>3
<1>5. PICK b \in HookOnce(u) : h \in valuesOf(b, Inhabitants[b.of])
  BY <1>4
<1> HIDE DEF h
<1>6. b.node \in (Leaves \ {"finite", "nan"}) \cup {"number"} \/ (b.node \in Nested /\ b.of \in UnionsTo(i - 1))
  BY HookOnceIs
<1>7. IF within(h) THEN text \in JsonifyRaw[b.of] \cup {Throws} ELSE text = Drops
  <2>1. ASSUME within(h) PROVE h.items[1] \in Inhabitants[b.of] /\ b.of \in UnionsTo(i - 1)
    <3>1. CASE b.node \in Nested
      <4>1. PICK x \in Inhabitants[b.of] : h = Tree(b.node, <<x>>)
        BY <1>5, <3>1 DEF valuesOf, Nested
      <4> QED
        BY <1>6, <3>1, <4>1 DEF Tree, Leaves, Nested
    <3>2. CASE b.node \notin Nested
      BY <1>5, <2>1, <3>2 DEF valuesOf, within, Tree
    <3> QED
      BY <3>1, <3>2
  <2> QED
    BY <2>1 DEF Mirrored
<1> HIDE DEF text
<1>8. serialized(h, text) \in JsonifyAlternative(b, JsonifyRaw[b.of]) \cup {Throws}
  BY <1>5, <1>6, <1>7, AlternativeIs
<1> QED
  BY <1>2, <1>3, <1>8

LEMMA AllMirrored == \A u \in AllUnions : Mirrored(u)
<1> DEFINE D == {i \in 0 .. Depth : ~(\A u \in UnionsTo(i) : Mirrored(u))}
<1>1. D = {}
  <2>1. D \in SUBSET (0 .. Depth) /\ 0 \notin D
    BY UnionLevels
  <2>2. ASSUME NEW i \in 1 .. Depth, i \in D PROVE i - 1 \in D
    <3>1. i - 1 \in 0 .. Depth
      BY WireBounds
    <3> QED
      BY <2>2, <3>1, MirroredStep
  <2> HIDE DEF D
  <2> QED
    BY <2>1, <2>2, UpTo, WireBounds
<1> QED
  BY <1>1, UnionLevels, WireBounds

-----------------------------------------------------------------------------
(* A result is a branch of the type of its call.                           *)

LEMMA MediaAre == JsonMedia \cap TextMedia = {} /\ "none" \notin JsonMedia \cup TextMedia
BY DEF JsonMedia, TextMedia

\* A document that the framework answers with.
LEMMA DocumentIs ==
  ASSUME call.method # "HEAD", answer.status \in {400, 413, 415, 422},
         answer.media = "application/problem+json", answer.body = Tree("problem", <<>>)
  PROVE  readBody = Tree("problem", <<>>)
<1>1. answer.body # Nothing
  BY DEF Nothing, Tree
<1>2. ~bodiless
  BY <1>1 DEF bodiless, Bodiless
<1> QED
  BY <1>2 DEF readBody, JsonMedia

\* What the framework answers is promised by what the route declares.
LEMMA FrameworkTyped ==
  ASSUME IInv, matched \in Routes, call.method # "HEAD", answer.from = "framework",
         ~(answer.status = 413 /\ matched.body = "json")
  PROVE  \E b \in FrameworkFailureOutcomes(matched) : answer.status \in b.statuses /\ readBody \in b.values
<1> DEFINE document == {Tree("problem", <<>>)}
<1>1. slot \in 1 .. 4 /\ declares(matched, Slots[slot])
  BY DEF IInv, Answered
<1>2. CASE answer.code = "VALIDATION_FAILED" /\ (Slots[slot] = "body" => matched.body = "json")
  <2>1. answer = createValidationProblem(raw)
    BY <1>2 DEF IInv, Answered
  <2>2. answer.status = 422 /\ readBody = Tree("problem", <<>>)
    BY <2>1, ValidationProblemIs, DocumentIs
  <2>3. matched.slots # {} \/ matched.body = "json"
    BY <1>1, <1>2 DEF declares
  <2>4. Branch({422}, document) \in FrameworkFailureOutcomes(matched)
    BY <2>3 DEF FrameworkFailureOutcomes
  <2>5. 422 \in Branch({422}, document).statuses /\ Tree("problem", <<>>) \in Branch({422}, document).values
    BY DEF Branch
  <2> QED
    BY <2>2, <2>4, <2>5
<1>3. CASE Slots[slot] = "body" /\ answer.status \in {400, 413, 415} /\ answer = Problem(answer.status, answer.code)
  <2>1. readBody = Tree("problem", <<>>)
    BY <1>3, ProblemIs, DocumentIs
  <2>2. matched.body # "none"
    BY <1>1, <1>3 DEF declares
  <2>3. CASE answer.status \in {415, 400}
    <3>1. Branch({415, 400}, document) \in FrameworkFailureOutcomes(matched)
      BY <2>2 DEF FrameworkFailureOutcomes
    <3>2. answer.status \in Branch({415, 400}, document).statuses
          /\ Tree("problem", <<>>) \in Branch({415, 400}, document).values
      BY <2>3 DEF Branch
    <3> QED
      BY <2>1, <3>1, <3>2
  <2>4. CASE answer.status = 413
    <3>1. matched.body = "form"
      BY <2>2, <2>4, RoutesAssumption
    <3>2. Branch({413}, document \cup {Nothing}) \in FrameworkFailureOutcomes(matched)
      BY <3>1 DEF FrameworkFailureOutcomes
    <3>3. answer.status \in Branch({413}, document \cup {Nothing}).statuses
          /\ Tree("problem", <<>>) \in Branch({413}, document \cup {Nothing}).values
      BY <2>4 DEF Branch
    <3> QED
      BY <2>1, <3>2, <3>3
  <2> QED
    BY <1>3, <2>3, <2>4
<1> QED
  BY <1>2, <1>3 DEF IInv, Answered

\* What a helper answers is promised by what the handler returns.
LEMMA HandlerTyped ==
  ASSUME NEW o, o.helper \in Helpers \ {"raw"}, o.type \in AllUnions,
         o.helper = "redirect" => o.status \in Redirects /\ o.override = "none",
         ~contradictory(o), call.method # "HEAD",
         NEW v \in Inhabitants[o.type], ~helperThrows(o, v), answer = Handled(o, v)
  PROVE  answer.status \in ClientOutcome(o).statuses /\ readBody \in ClientOutcome(o).values
<1> DEFINE media == IF o.override # "none" THEN o.override ELSE defaultMedia(o.helper)
<1>1. answer.status = o.status /\ answer.media = media /\ answer.body = bodyOf(o, v)
  BY DEF Handled
<1>2. CASE o.helper = "json"
  <2>1. o.override \in JsonMedia \cup {"none"} /\ stringify[v] \notin {Drops, Throws}
    BY <1>2 DEF helperThrows
  <2>2. media \in JsonMedia /\ media # "none"
    BY <1>2, <2>1 DEF defaultMedia, JsonMedia
  <2>3. answer.body = stringify[v]
    BY <1>1, <1>2 DEF bodyOf
  <2>4. o.status \notin Bodiless
    BY <1>2 DEF contradictory
  <2>5. readBody = stringify[v]
    BY <1>1, <2>2, <2>3, <2>4 DEF readBody, bodiless
  <2>6. stringify[v] \in Jsonify(o.type)
    BY <2>1, AllMirrored DEF Mirrored, Jsonify, WireValue
  <2>7. ClientOutcome(o) = Branch({o.status}, Jsonify(o.type))
    BY <1>2 DEF ClientOutcome
  <2> QED
    BY <1>1, <2>5, <2>6, <2>7 DEF Branch
<1>3. CASE o.helper = "text"
  <2>1. media \in TextMedia
    BY <1>3 DEF helperThrows, defaultMedia, TextMedia
  <2>2. answer.body = Tree("string", <<>>) /\ answer.body # Nothing
    BY <1>1, <1>3 DEF bodyOf, Nothing, Tree
  <2>3. o.status \notin Bodiless
    BY <1>3 DEF contradictory
  <2>4. readBody = Tree("string", <<>>)
    BY <1>1, <2>1, <2>2, <2>3, MediaAre DEF readBody, bodiless
  <2>5. ClientOutcome(o) = Branch({o.status}, {Tree("string", <<>>)})
    BY <1>3 DEF ClientOutcome
  <2> QED
    BY <1>1, <2>4, <2>5 DEF Branch
<1>4. CASE o.helper = "problem"
  <2>1. media = "application/problem+json" /\ media \in JsonMedia
    BY <1>4 DEF helperThrows, defaultMedia, JsonMedia
  <2>2. answer.body = Tree("problem", <<>>) /\ answer.body # Nothing
    BY <1>1, <1>4 DEF bodyOf, Nothing, Tree
  <2>3. o.status \notin Bodiless
    BY <1>4 DEF contradictory
  <2>4. readBody = Tree("problem", <<>>)
    BY <1>1, <2>1, <2>2, <2>3, MediaAre DEF readBody, bodiless
  <2>5. ClientOutcome(o) = Branch({o.status}, {Tree("problem", <<>>)})
    BY <1>4 DEF ClientOutcome
  <2> QED
    BY <1>1, <2>4, <2>5 DEF Branch
<1>5. CASE o.helper \in {"redirect", "empty"}
  <2>1. readBody = Nothing
    BY <1>1, <1>5 DEF bodyOf, readBody, bodiless
  <2>2. CASE o.helper = "redirect"
    <3>1. ClientOutcome(o) = Branch(Redirects, {Nothing})
      BY <2>2 DEF ClientOutcome
    <3> QED
      BY <1>1, <2>1, <2>2, <3>1 DEF Branch
  <2>3. CASE o.helper = "empty"
    <3>1. ClientOutcome(o) = Branch({o.status}, {Nothing})
      BY <2>3 DEF ClientOutcome
    <3> QED
      BY <1>1, <2>1, <3>1 DEF Branch
  <2> QED
    BY <1>5, <2>2, <2>3
<1> QED
  BY <1>2, <1>3, <1>4, <1>5 DEF Helpers

LEMMA Typed == ASSUME IInv PROVE ResultIsTyped
<1> SUFFICES ASSUME result.kind = "result", WellTyped, matched = theRoute, call.method # "HEAD",
                    answer.from \in {"framework", "handler"}, ~(answer.status = 413 /\ matched.body = "json"),
                    \A o \in returns : o.helper # "raw" /\ ~contradictory(o)
             PROVE  \E b \in ClientOutcomes(matched) : result.status \in b.statuses /\ result.value \in b.values
  BY DEF ResultIsTyped
<1>1. matched \in Routes
  BY TheRouteIs DEF WellTyped
<1>2. result.status = answer.status /\ result.value = readBody
  BY DEF IInv, Answered
<1>3. CASE answer.from = "framework"
  <2>1. \E b \in FrameworkFailureOutcomes(matched) : answer.status \in b.statuses /\ readBody \in b.values
    BY <1>1, <1>3, FrameworkTyped
  <2> QED
    BY <1>2, <2>1 DEF ClientOutcomes
<1>4. CASE answer.from = "handler"
  <2>0. PICK o \in returns : \E v \in Inhabitants[o.type] : ~helperThrows(o, v) /\ answer = Handled(o, v)
    BY <1>4 DEF IInv, Answered
  <2>1. PICK v \in Inhabitants[o.type] : ~helperThrows(o, v) /\ answer = Handled(o, v)
    BY <2>0
  <2>2. slot = 5 /\ returns \in matched.handlers
    BY <1>4 DEF IInv, Answered, Decided
  <2>3. /\ o.helper \in Helpers /\ o.type \in AllUnions
        /\ o.helper = "redirect" => o.status \in Redirects /\ o.override = "none"
    BY <1>1, <2>2, RoutesAssumption
  <2>4. o.helper \in Helpers \ {"raw"} /\ ~contradictory(o)
    BY <2>3
  <2>5. answer.status \in ClientOutcome(o).statuses /\ readBody \in ClientOutcome(o).values
    BY <2>1, <2>3, <2>4, HandlerTyped
  <2>6. ClientOutcome(o) \in ClientOutcomes(matched)
    BY DEF ClientOutcomes, RouteContract
  <2> QED
    BY <1>2, <2>5, <2>6
<1> QED
  BY <1>3, <1>4

\* Whatever the handlers declare, however deep the bodies nest, what a typed
\* call results in is a branch of the union its type promises.
THEOREM ResultsTyped == Spec => []ResultIsTyped
BY Initially, Inductive, Typed, PTL DEF Spec

-----------------------------------------------------------------------------
(* What is written into a path is read back.                               *)

LEMMA EscapesAre ==
  /\ DOMAIN escapes = {"/", "?", "%"}
  /\ escapes["/"] = "%2F" /\ escapes["?"] = "%3F" /\ escapes["%"] = "%25"
BY DEF escapes

LEMMA EncodedIs ==
  ASSUME NEW t \in Text
  PROVE  LET e == encodeURIComponent(t)
         IN /\ e \in Seq({e[i] : i \in DOMAIN t}) /\ Len(e) = Len(t)
            /\ decodeURIComponent(e) = t
            /\ \A i \in DOMAIN t : e[i] = "." <=> t[i] = "."
<1> DEFINE e == encodeURIComponent(t)
<1>1. t \in Seq(STRING) /\ \A i \in DOMAIN t : \A c \in DOMAIN escapes : t[i] # escapes[c]
  BY DEF Text
<1>2. DOMAIN e = DOMAIN t /\ \A i \in DOMAIN t : e[i] = IF t[i] \in DOMAIN escapes THEN escapes[t[i]] ELSE t[i]
  BY DEF encodeURIComponent
<1>3. e = [i \in 1 .. Len(t) |-> e[i]]
  BY <1>1 DEF encodeURIComponent
<1> HIDE DEF e
<1>4. Len(t) \in Nat /\ DOMAIN t = 1 .. Len(t)
  BY <1>1
<1>5. e \in Seq({e[i] : i \in DOMAIN t}) /\ Len(e) = Len(t)
  BY <1>3, <1>4
<1>6. ASSUME NEW i \in DOMAIN t
      PROVE  t[i] = IF \E c \in DOMAIN escapes : escapes[c] = e[i]
                      THEN CHOOSE c \in DOMAIN escapes : escapes[c] = e[i] ELSE e[i]
  <2>1. CASE t[i] \in DOMAIN escapes
    <3>1. e[i] = escapes[t[i]]
      BY <1>2, <2>1
    <3>2. \A c \in DOMAIN escapes : escapes[c] = escapes[t[i]] => c = t[i]
      BY <2>1, EscapesAre
    <3> QED
      BY <2>1, <3>1, <3>2
  <2>2. CASE t[i] \notin DOMAIN escapes
    BY <1>1, <1>2, <2>2
  <2> QED
    BY <2>1, <2>2
<1>7. decodeURIComponent(e) = t
  <2>1. DOMAIN decodeURIComponent(e) = DOMAIN t /\ \A i \in DOMAIN t : decodeURIComponent(e)[i] = t[i]
    BY <1>2, <1>6 DEF decodeURIComponent
  <2>2. decodeURIComponent(e) = [i \in DOMAIN t |-> decodeURIComponent(e)[i]]
    BY <1>2 DEF decodeURIComponent
  <2>3. t = [i \in DOMAIN t |-> t[i]]
    BY <1>1
  <2> QED
    BY <2>1, <2>2, <2>3
<1>8. \A i \in DOMAIN t : e[i] = "." <=> t[i] = "."
  BY <1>2, EscapesAre
<1> QED
  BY <1>5, <1>7, <1>8 DEF e

\* What is no escape stays.
LEMMA LiteralIs == ASSUME NEW t \in Text PROVE decodeURIComponent(t) = t
<1>1. t \in Seq(STRING) /\ \A i \in DOMAIN t : \A c \in DOMAIN escapes : t[i] # escapes[c]
  BY DEF Text
<1>2. decodeURIComponent(t) = [i \in DOMAIN t |-> t[i]]
  BY <1>1 DEF decodeURIComponent
<1> QED
  BY <1>1, <1>2

\* A text that is no dot segment is none when it is written.
LEMMA NoDots ==
  ASSUME NEW t \in Text, t \notin Dots
  PROVE  encodeURIComponent(t) \notin Dots
<1> DEFINE e == encodeURIComponent(t)
<1>1. e \in Seq({e[i] : i \in DOMAIN t}) /\ Len(e) = Len(t) /\ (\A i \in DOMAIN t : e[i] = "." <=> t[i] = ".") /\ t \in Seq(STRING)
  BY EncodedIs DEF Text
<1> HIDE DEF e
<1>2. ASSUME e = <<".">> PROVE t = <<".">>
  <2>1. Len(t) = 1 /\ t[1] = "."
    BY <1>1, <1>2
  <2> QED
    BY <1>1, <2>1
<1>3. ASSUME e = <<".", ".">> PROVE t = <<".", ".">>
  <2>1. Len(t) = 2 /\ t[1] = "." /\ t[2] = "."
    BY <1>1, <1>3
  <2> QED
    BY <1>1, <2>1
<1> QED
  BY <1>2, <1>3 DEF Dots, e

\* A path without dot segments is left as it is.
LEMMA NormalIs ==
  ASSUME NEW S, NEW path \in Seq(S), \A i \in DOMAIN path : path[i] \notin Dots
  PROVE  normalized(path) = path
<1> DEFINE dots(p, s) == CASE s = <<".">> -> p
                           [] s = <<".", ".">> -> IF p = <<>> THEN p ELSE SubSeq(p, 1, Len(p) - 1)
                           [] OTHER -> Append(p, s)
           F(f) == f = [n \in 0 .. Len(path) |-> IF n = 0 THEN <<>> ELSE dots(f[n - 1], path[n])]
           f1 == [n \in 0 .. Len(path) |-> SubSeq(path, 1, n)]
<1>1. normalized(path) = (CHOOSE f : F(f))[Len(path)]
  BY DEF normalized
<1>2. ASSUME NEW p, NEW i \in DOMAIN path PROVE dots(p, path[i]) = Append(p, path[i])
  BY <1>2 DEF Dots
<1> HIDE DEF dots
<1>3. F(f1)
  <2>1. ASSUME NEW n \in 0 .. Len(path)
        PROVE  SubSeq(path, 1, n) = IF n = 0 THEN <<>> ELSE dots(f1[n - 1], path[n])
    <3>1. CASE n = 0
      BY <3>1
    <3>2. CASE n # 0
      <4>1. n - 1 \in 0 .. Len(path) /\ n \in DOMAIN path
        BY <3>2
      <4>2. f1[n - 1] = SubSeq(path, 1, n - 1)
        BY <4>1
      <4> HIDE DEF f1
      <4>3. Append(SubSeq(path, 1, n - 1), path[n]) = SubSeq(path, 1, n)
        BY <4>1
      <4> QED
        BY <1>2, <3>2, <4>1, <4>2, <4>3
    <3> QED
      BY <3>1, <3>2
  <2> QED
    BY <2>1
<1> DEFINE u == CHOOSE f : F(f)
<1>4. F(u)
  <2> HIDE DEF F, f1
  <2> QED
    BY <1>3
<1> HIDE DEF u
<1> DEFINE D == {n \in 0 .. Len(path) : u[n] # SubSeq(path, 1, n)}
<1>5. D = {}
  <2>1. D \in SUBSET (0 .. Len(path)) /\ 0 \notin D
    BY <1>4
  <2>2. ASSUME NEW n \in 1 .. Len(path), n \in D PROVE n - 1 \in D
    <3>1. n - 1 \in 0 .. Len(path) /\ n \in DOMAIN path /\ n \in 0 .. Len(path) /\ n # 0
      OBVIOUS
    <3>2. u[n] = dots(u[n - 1], path[n])
      BY <1>4, <3>1
    <3>3. Append(SubSeq(path, 1, n - 1), path[n]) = SubSeq(path, 1, n)
      BY <3>1
    <3>4. u[n] # SubSeq(path, 1, n)
      BY <2>2
    <3>5. u[n - 1] # SubSeq(path, 1, n - 1)
      BY <1>2, <3>1, <3>2, <3>3, <3>4
    <3> QED
      BY <3>1, <3>5
  <2>3. Len(path) \in Nat
    OBVIOUS
  <2> HIDE DEF D
  <2> QED
    BY <2>1, <2>2, <2>3, UpTo
<1>6. u[Len(path)] = SubSeq(path, 1, Len(path))
  BY <1>5
<1>7. SubSeq(path, 1, Len(path)) = path
  OBVIOUS
<1> QED
  BY <1>1, <1>6, <1>7 DEF u

-----------------------------------------------------------------------------
(* A typed call comes to its route.                                        *)

\* The calls whose meaning is promised to be kept.
Promised ==
  /\ slot = 5 /\ WellTyped /\ call.template.query = <<>> /\ call.base.path = <<>> /\ ~hasWildcard(call.template)
  /\ (\A i \in DOMAIN call.template.segments : Plain(call.template.segments[i])) /\ ~(\E r \in Routes : Rival(r))

LEMMA SentIs ==
  ASSUME IInv, Promised
  PROVE  /\ call \in Calls /\ request = [target |-> target, init |-> buildRequestInit]
         /\ matched = Chosen
         /\ \A n \in 1 .. 4 :
              given[Slots[n]] = IF declares(matched, Slots[n]) THEN decoded(Slots[n]) ELSE undeclared(Slots[n])
         /\ target.path = interpolatePath(call.template, call.params.entries)
         /\ target.query = serializeQuery(call.query.entries)
         /\ queryFault(call.query) = "none"
<1>1. fetched /\ matched = Chosen /\ call \in Calls
  BY DEF IInv, Built, Decided, Promised
<1>2. request = [target |-> target, init |-> buildRequestInit]
  BY <1>1 DEF IInv, Built, Promised, WellTyped
<1>3. \A n \in 1 .. 4 : given[Slots[n]] = IF declares(matched, Slots[n]) THEN decoded(Slots[n]) ELSE undeclared(Slots[n])
  BY DEF IInv, Decided, Promised
<1>4. /\ target.path = <<>> \o interpolatePath(call.template, call.params.entries)
      /\ target.query = <<>> \o serializeQuery(call.query.entries)
  BY DEF target, appendQuery, Promised
<1>5. queryFault(call.query) = "none"
  <2>1. callFault = "none"
    BY <1>1 DEF IInv, Built, Promised, WellTyped
  <2> QED
    BY <2>1 DEF callFault, first
<1> QED
  BY <1>1, <1>2, <1>3, <1>4, <1>5

\* The parameters are those the template names, and each is a text.
LEMMA ParamIs ==
  ASSUME call \in Calls, WellTyped, ~hasWildcard(call.template)
  PROVE  LET t == call.template.segments
             entries == call.params.entries
         IN /\ Keys(entries) = names(call.template) /\ isObject(entries)
            /\ \A i \in DOMAIN entries : entries[i].value.text \in Text
            /\ \A i \in DOMAIN t : t[i].kind = "param" => Entry(entries, t[i].name).text \in Text
<1> DEFINE t == call.template.segments
           entries == call.params.entries
<1>1. MethodParamsInput(theRoute) /\ theRoute.template = call.template
  BY TheRouteIs DEF WellTyped
<1>2. isObject(entries) /\ (call.params.kind # "object" => entries = <<>>)
  BY CallsAssumption
<1>3. Keys(entries) = names(call.template)
  <2>1. CASE names(call.template) = {}
    <3>1. call.params.kind = "undefined"
      BY <1>1, <2>1 DEF MethodParamsInput
    <3>2. entries = <<>>
      BY <1>2, <3>1
    <3> QED
      BY <2>1, <3>2 DEF Keys
  <2>2. CASE names(call.template) # {}
    BY <1>1, <2>2 DEF MethodParamsInput
  <2> QED
    BY <2>1, <2>2
<1>4. ASSUME NEW i \in DOMAIN entries PROVE entries[i].value.text \in Text
  <2>1. names(call.template) # {}
    BY <1>3 DEF Keys
  <2>2. entries[i].value.kind = "string"
    BY <1>1, <2>1 DEF MethodParamsInput
  <2>3. isValue(entries[i].value)
    BY CallsAssumption
  <2> QED
    BY <2>2, <2>3 DEF isValue
<1>5. ASSUME NEW i \in DOMAIN t, t[i].kind = "param" PROVE Entry(entries, t[i].name).text \in Text
  <2>1. t[i].name \in Keys(entries)
    BY <1>3, <1>5 DEF names
  <2>2. PICK j \in DOMAIN entries : entries[j].key = t[i].name
    BY <2>1 DEF Keys
  <2> QED
    BY <1>2, <1>4, <2>2, EntryIs
<1> QED
  BY <1>2, <1>3, <1>4, <1>5

\* The path is written segment by segment, and nothing takes a segment away.
LEMMA WrittenIs ==
  ASSUME IInv, Promised
  PROVE  LET t == call.template.segments
             path == normalized(request.target.path)
         IN /\ Len(path) = Len(t)
            /\ \A i \in DOMAIN t :
                 /\ t[i].kind = "literal" => decodeURIComponent(path[i]) = t[i].text
                 /\ t[i].kind = "param" =>
                      path[i] # <<>> /\ decodeURIComponent(path[i]) = Entry(call.params.entries, t[i].name).text
<1> DEFINE t == call.template.segments
           entries == call.params.entries
           written == [i \in DOMAIN t |-> interpolated(t[i], entries)]
<1>1. /\ call \in Calls /\ WellTyped /\ ~hasWildcard(call.template) /\ parseTemplate(call.template) = "none"
      /\ \A i \in DOMAIN t : Plain(t[i])
  BY SentIs DEF Promised, WellTyped
<1>2. t \in Seq(Segments) /\ \A i \in DOMAIN t : t[i].kind \in {"literal", "param"}
  BY <1>1, TemplateIs
<1>3. request.target.path = written
  BY <1>1, SentIs DEF interpolatePath
<1>4. /\ written \in Seq({written[i] : i \in DOMAIN t}) /\ Len(written) = Len(t) /\ DOMAIN written = DOMAIN t
      /\ \A i \in DOMAIN t : written[i] = interpolated(t[i], entries)
  <2>1. Len(t) \in Nat /\ DOMAIN t = 1 .. Len(t)
    BY <1>2
  <2> QED
    BY <2>1
<1> HIDE DEF written
<1>5. ASSUME NEW i \in DOMAIN t, t[i].kind = "literal"
      PROVE  written[i] \notin Dots /\ decodeURIComponent(written[i]) = t[i].text
  <2>1. written[i] = t[i].text /\ t[i].text \in Text
    <3>1. t[i] \in Segments
      BY <1>2
    <3>2. t[i].text \in Text
      BY <3>1 DEF Segments
    <3> QED
      BY <1>4, <1>5, <3>2 DEF interpolated
  <2> QED
    BY <1>1, <1>5, <2>1, LiteralIs DEF Plain
<1>6. ASSUME NEW i \in DOMAIN t, t[i].kind = "param"
      PROVE  LET text == Entry(entries, t[i].name).text
             IN written[i] \notin Dots /\ written[i] # <<>> /\ decodeURIComponent(written[i]) = text
  <2> DEFINE text == Entry(entries, t[i].name).text
  <2>1. text \in Text
    BY <1>1, <1>6, ParamIs
  <2>2. text \notin Dots \cup {<<>>}
    BY <1>1, <1>6 DEF Plain
  <2>3. written[i] = encodeURIComponent(text)
    BY <1>4, <1>6 DEF interpolated, keyOf
  <2> HIDE DEF text
  <2>4. Len(written[i]) = Len(text) /\ decodeURIComponent(written[i]) = text /\ written[i] \notin Dots
    BY <2>1, <2>2, <2>3, EncodedIs, NoDots
  <2>5. written[i] # <<>>
    <3>1. text \in Seq(STRING)
      BY <2>1 DEF Text
    <3>2. Len(text) # 0
      BY <2>2, <3>1
    <3> QED
      BY <2>4, <3>2
  <2> QED
    BY <2>4, <2>5 DEF text
<1>7. normalized(written) = written
  <2>1. \A i \in DOMAIN written : written[i] \notin Dots
    BY <1>2, <1>4, <1>5, <1>6
  <2> QED
    BY <1>4, <2>1, NormalIs
<1> QED
  BY <1>3, <1>4, <1>5, <1>6, <1>7

LEMMA RankIs == ASSUME NEW s PROVE rank(s) \in 1 .. 3
BY DEF rank

\* Of two routes one is more specific.
LEMMA SpecificIs ==
  ASSUME NEW r \in Routes, NEW other \in Routes, ~moreSpecific(r, other)
  PROVE  moreSpecific(other, r)
<1> DEFINE a == r.template.segments
           b == other.template.segments
<1>1. a \in Seq(Segments) /\ b \in Seq(Segments)
  BY RoutesAssumption
<1>2. PICK i \in DOMAIN a \cap DOMAIN b : rank(b[i]) < rank(a[i]) /\ \A j \in 1 .. i - 1 : ~(rank(a[j]) < rank(b[j]))
  BY DEF moreSpecific
<1>3. SUFFICES ASSUME NEW k \in DOMAIN b \cap DOMAIN a, rank(a[k]) < rank(b[k])
               PROVE  \E j \in 1 .. k - 1 : rank(b[j]) < rank(a[j])
  BY DEF moreSpecific
<1>4. i \in Nat /\ k \in Nat /\ i >= 1 /\ k >= 1
  BY <1>1
<1>5. ~(k < i)
  <2>1. k < i => k \in 1 .. i - 1
    BY <1>4
  <2> QED
    BY <1>2, <1>3, <2>1
<1>6. k # i
  <2>1. rank(a[i]) \in Int /\ rank(b[i]) \in Int
    BY RankIs
  <2> QED
    BY <1>2, <1>3, <2>1
<1>7. i \in 1 .. k - 1
  BY <1>4, <1>5, <1>6
<1> QED
  BY <1>2, <1>7

LEMMA ItsRoute == ASSUME IInv, Promised PROVE matched = theRoute
<1> DEFINE t == call.template.segments
           path == normalized(request.target.path)
<1>1. theRoute \in Routes /\ theRoute.template = call.template /\ theRoute.method \in {call.method, "ALL"}
  BY TheRouteIs DEF Promised, WellTyped
<1>2. ~hasWildcard(call.template) /\ \A i \in DOMAIN t : t[i].kind \in {"literal", "param"}
  BY SentIs, TemplateIs DEF Promised, WellTyped
<1>3. matches(theRoute, path)
  BY <1>1, <1>2, WrittenIs DEF matches
<1>4. theRoute \in found
  BY <1>1, <1>3 DEF found
<1>5. ASSUME NEW other \in found PROVE moreSpecific(theRoute, other)
  <2>1. CASE other = theRoute
    <3>1. ASSUME NEW s PROVE ~(rank(s) < rank(s))
      BY RankIs
    <3> QED
      BY <2>1, <3>1 DEF moreSpecific
  <2>2. CASE other # theRoute
    <3>1. ~moreSpecific(other, theRoute)
      BY <2>2 DEF found, Promised, Rival
    <3> QED
      BY <1>1, <3>1, SpecificIs DEF found
  <2> QED
    BY <2>1, <2>2
<1>6. Chosen \in found /\ moreSpecific(Chosen, theRoute)
  BY <1>4, <1>5 DEF Chosen
<1>7. Chosen = theRoute
  BY <1>6 DEF found, Promised, Rival
<1> QED
  BY <1>7, SentIs

\* The parameters a handler gets are those of the call.
LEMMA ParamsKept == ASSUME IInv, Promised PROVE given.params.value = meantParams
<1> DEFINE t == call.template.segments
           entries == call.params.entries
           path == normalized(request.target.path)
<1>1. matched = theRoute /\ theRoute.template = call.template
  BY ItsRoute, TheRouteIs DEF Promised, WellTyped
<1>2. given.params.value = routeParams(theRoute)
  <2>1. Slots[2] = "params" /\ 2 \in 1 .. 4
    BY DEF Slots
  <2>2. given["params"] = IF declares(matched, "params") THEN decoded("params") ELSE undeclared("params")
    BY <2>1, SentIs
  <2>3. given["params"] = decoded("params")
    BY <2>2 DEF undeclared
  <2> QED
    BY <1>1, <2>3 DEF decoded
<1>3. Keys(entries) = names(call.template) /\ isObject(entries)
  BY SentIs, ParamIs DEF Promised
<1>4. ASSUME NEW i \in DOMAIN t, t[i].kind = "param"
      PROVE  [key |-> t[i].name, text |-> decodeURIComponent(path[i])] \in meantParams
  <2>1. decodeURIComponent(path[i]) = Entry(entries, t[i].name).text
    BY <1>4, WrittenIs
  <2>2. t[i].name \in Keys(entries)
    BY <1>3, <1>4 DEF names
  <2>3. PICK j \in DOMAIN entries : entries[j].key = t[i].name
    BY <2>2 DEF Keys
  <2>4. Entry(entries, t[i].name) = entries[j].value
    BY <1>3, <2>3, EntryIs
  <2> QED
    BY <2>1, <2>3, <2>4 DEF meantParams
<1>5. ASSUME NEW j \in DOMAIN entries
      PROVE  \E i \in DOMAIN t : /\ t[i].kind = "param"
                                 /\ t[i].name = entries[j].key /\ decodeURIComponent(path[i]) = entries[j].value.text
  <2>1. entries[j].key \in names(call.template)
    BY <1>3 DEF Keys
  <2>2. PICK i \in DOMAIN t : t[i].kind = "param" /\ t[i].name = entries[j].key
    BY <2>1 DEF names
  <2>3. decodeURIComponent(path[i]) = Entry(entries, t[i].name).text
    BY <2>2, WrittenIs
  <2>4. Entry(entries, t[i].name) = entries[j].value
    BY <1>3, <2>2, EntryIs
  <2> QED
    BY <2>2, <2>3, <2>4
<1>6. routeParams(theRoute) = {[key |-> t[i].name, text |-> decodeURIComponent(path[i])] : i \in {i \in DOMAIN t : t[i].kind = "param"}}
  BY <1>1 DEF routeParams
<1>7. meantParams = {[key |-> entries[j].key, text |-> entries[j].value.text] : j \in DOMAIN entries}
  BY DEF meantParams
<1> HIDE DEF t, entries, path
<1>8. routeParams(theRoute) \subseteq meantParams
  BY <1>4, <1>6
<1>9. meantParams \subseteq routeParams(theRoute)
  BY <1>5, <1>6, <1>7
<1> QED
  BY <1>2, <1>8, <1>9

-----------------------------------------------------------------------------
(* What a query says is read back, key by key.                             *)

\* The texts of one value, as they are written.
textsOf(v) ==
  IF v.kind = "undefined" THEN <<>>
  ELSE IF v.kind = "array" THEN [j \in DOMAIN v.items |-> usvString(v.items[j].text)] ELSE <<usvString(v.text)>>

isList(s) == Len(s) \in Nat /\ DOMAIN s = 1 .. Len(s)

LEMMA EntrySays ==
  ASSUME NEW e, isValue(e.value)
  PROVE  LET s == serializeEntry(e)
             texts == textsOf(e.value)
         IN /\ s \in Seq([key : {e.key}, text : {texts[j] : j \in DOMAIN texts}])
            /\ Len(s) = Len(texts) /\ isList(texts)
            /\ \A j \in 1 .. Len(texts) : s[j] = [key |-> e.key, text |-> texts[j]]
<1> DEFINE v == e.value
           s == serializeEntry(e)
           texts == textsOf(v)
           Pairs == [key : {e.key}, text : {texts[j] : j \in DOMAIN texts}]
<1>1. CASE v.kind = "undefined"
  BY <1>1 DEF serializeEntry, textsOf, isList
<1>2. CASE v.kind = "array"
  <2>1. Len(v.items) \in Nat /\ DOMAIN v.items = 1 .. Len(v.items)
    BY <1>2 DEF isValue
  <2>2. texts = [j \in 1 .. Len(v.items) |-> usvString(v.items[j].text)]
    BY <1>2, <2>1 DEF textsOf
  <2>3. s = [j \in 1 .. Len(v.items) |-> [key |-> e.key, text |-> usvString(v.items[j].text)]]
    BY <1>2, <2>1 DEF serializeEntry
  <2>30. s = [j \in 1 .. Len(v.items) |-> s[j]]
    BY <2>3
  <2> HIDE DEF s, texts
  <2>4. texts \in Seq({texts[j] : j \in DOMAIN texts}) /\ Len(texts) = Len(v.items)
    BY <2>1, <2>2
  <2>5. \A j \in 1 .. Len(v.items) : s[j] = [key |-> e.key, text |-> texts[j]]
    BY <2>2, <2>3
  <2>6. ASSUME NEW j \in 1 .. Len(v.items) PROVE s[j] \in Pairs
    <3> DEFINE Texts == {texts[i] : i \in DOMAIN texts}
    <3>1. texts[j] \in Texts
      BY <2>2
    <3> HIDE DEF Texts
    <3>2. [key |-> e.key, text |-> texts[j]] \in [key : {e.key}, text : Texts]
      BY <3>1
    <3> QED
      BY <2>5, <3>2 DEF Texts
  <2> HIDE DEF Pairs
  <2>7. s \in Seq(Pairs) /\ Len(s) = Len(v.items)
    BY <2>1, <2>30, <2>6
  <2> QED
    BY <2>4, <2>5, <2>7 DEF s, texts, isList, Pairs
<1>3. CASE v.kind \notin {"undefined", "array"}
  <2>1. texts = <<usvString(v.text)>> /\ s = <<[key |-> e.key, text |-> usvString(v.text)]>>
    BY <1>3 DEF textsOf, serializeEntry
  <2> QED
    BY <2>1 DEF isList
<1> QED
  BY <1>1, <1>2, <1>3

\* The pairs of the first n entries, one run for each of them.
Runs(s, es, n) ==
  /\ isList(s)
  /\ \A p \in DOMAIN s : \E i \in 1 .. n : s[p].key = es[i].key
  /\ \A i \in 1 .. n :
       LET texts == textsOf(es[i].value)
       IN \E a \in Nat : /\ {p \in DOMAIN s : s[p].key = es[i].key} = a + 1 .. a + Len(texts)
                         /\ \A j \in 1 .. Len(texts) : s[a + j].text = texts[j]

LEMMA RunsStep ==
  ASSUME NEW es, isObject(es), \A i \in DOMAIN es : isValue(es[i].value),
         NEW n \in 1 .. Len(es), NEW s, NEW S, s \in Seq(S), Runs(s, es, n - 1)
  PROVE  Runs(s \o serializeEntry(es[n]), es, n)
<1> DEFINE e == serializeEntry(es[n])
           texts == textsOf(es[n].value)
           s2 == s \o e
           T == [key : {es[n].key}, text : {texts[j] : j \in DOMAIN texts}]
<1>1. Len(es) \in Nat /\ DOMAIN es = 1 .. Len(es) /\ n \in DOMAIN es /\ n - 1 \in Nat
  BY DEF isObject
<1>2. /\ e \in Seq(T) /\ Len(e) = Len(texts) /\ Len(texts) \in Nat
      /\ \A j \in 1 .. Len(texts) : e[j] = [key |-> es[n].key, text |-> texts[j]]
  BY <1>1, EntrySays DEF isList
<1> HIDE DEF e, texts, T
<1>3. ASSUME NEW j \in 1 .. Len(texts) PROVE e[j].key = es[n].key /\ e[j].text = texts[j]
  <2>1. e[j] = [key |-> es[n].key, text |-> texts[j]]
    BY <1>2
  <2> QED
    BY <2>1
<1>4. /\ Len(s2) = Len(s) + Len(texts) /\ DOMAIN s2 = 1 .. Len(s) + Len(texts) /\ Len(s) \in Nat /\ DOMAIN s = 1 .. Len(s)
      /\ \A p \in 1 .. Len(s) : s2[p] = s[p]
      /\ \A j \in 1 .. Len(texts) : s2[Len(s) + j] = e[j]
  <2> DEFINE U == S \cup T
  <2>1. s \in Seq(U) /\ e \in Seq(U)
    BY <1>2
  <2> HIDE DEF U
  <2>2. Len(s) \in Nat /\ DOMAIN s = 1 .. Len(s) /\ Len(s2) = Len(s) + Len(e) /\ DOMAIN s2 = 1 .. Len(s) + Len(e)
    BY <2>1
  <2>3. \A p \in 1 .. Len(s) : s2[p] = s[p]
    BY <2>1
  <2>4. \A j \in 1 .. Len(e) : s2[Len(s) + j] = e[j]
    BY <2>1
  <2> QED
    BY <1>2, <2>2, <2>3, <2>4
<1> HIDE DEF s2
<1>5. ASSUME NEW p \in DOMAIN s2, p \notin DOMAIN s
      PROVE  p - Len(s) \in 1 .. Len(texts) /\ s2[p] = e[p - Len(s)] /\ s2[p].key = es[n].key
  <2>1. p - Len(s) \in 1 .. Len(texts) /\ Len(s) + (p - Len(s)) = p
    BY <1>2, <1>4, <1>5
  <2>2. s2[p] = e[p - Len(s)]
    BY <1>4, <2>1
  <2> QED
    BY <1>3, <2>1, <2>2
<1>6. \A p \in DOMAIN s : \E i \in 1 .. n - 1 : s[p].key = es[i].key
  BY DEF Runs
<1>7. \A i \in 1 .. n - 1 : i \in DOMAIN es /\ i \in 1 .. n /\ i # n /\ es[i].key # es[n].key
  BY <1>1 DEF isObject
<1>8. \A p \in DOMAIN s2 : \E i \in 1 .. n : s2[p].key = es[i].key
  <2> SUFFICES ASSUME NEW p \in DOMAIN s2 PROVE \E i \in 1 .. n : s2[p].key = es[i].key
    OBVIOUS
  <2>1. CASE p \in DOMAIN s
    BY <1>4, <1>6, <1>7, <2>1
  <2>2. CASE p \notin DOMAIN s
    BY <1>5, <2>2
  <2> QED
    BY <2>1, <2>2
<1>9. ASSUME NEW i \in 1 .. n - 1
      PROVE  {p \in DOMAIN s2 : s2[p].key = es[i].key} = {p \in DOMAIN s : s[p].key = es[i].key}
  <2>1. \A p \in DOMAIN s2 : s2[p].key = es[i].key => p \in DOMAIN s
    BY <1>5, <1>7
  <2>2. \A p \in DOMAIN s : p \in DOMAIN s2 /\ s2[p] = s[p]
    BY <1>2, <1>4
  <2> QED
    BY <2>1, <2>2
<1>10. {p \in DOMAIN s2 : s2[p].key = es[n].key} = Len(s) + 1 .. Len(s) + Len(texts)
  <2>1. \A p \in DOMAIN s : s2[p].key # es[n].key
    BY <1>4, <1>6, <1>7
  <2>2. \A p \in Len(s) + 1 .. Len(s) + Len(texts) : p \in DOMAIN s2 /\ p \notin DOMAIN s
    BY <1>2, <1>4
  <2>3. \A p \in DOMAIN s2 : p \notin DOMAIN s => p \in Len(s) + 1 .. Len(s) + Len(texts)
    BY <1>2, <1>4
  <2> QED
    BY <1>5, <2>1, <2>2, <2>3
<1>11. ASSUME NEW i \in 1 .. n
       PROVE  \E a \in Nat : /\ {p \in DOMAIN s2 : s2[p].key = es[i].key} = a + 1 .. a + Len(textsOf(es[i].value))
                             /\ \A j \in 1 .. Len(textsOf(es[i].value)) : s2[a + j].text = textsOf(es[i].value)[j]
  <2>1. CASE i = n
    BY <1>3, <1>4, <1>10, <2>1 DEF texts
  <2>2. CASE i # n
    <3>1. i \in 1 .. n - 1
      BY <2>2
    <3> DEFINE ts == textsOf(es[i].value)
    <3>2. PICK a \in Nat : /\ {p \in DOMAIN s : s[p].key = es[i].key} = a + 1 .. a + Len(ts)
                           /\ \A j \in 1 .. Len(ts) : s[a + j].text = ts[j]
      BY <3>1 DEF Runs
    <3>3. Len(ts) \in Nat
      BY <1>1, <1>7, <3>1, EntrySays DEF isList
    <3> HIDE DEF ts
    <3>4. ASSUME NEW j \in 1 .. Len(ts) PROVE s2[a + j].text = ts[j]
      <4>1. a + j \in a + 1 .. a + Len(ts)
        BY <3>3
      <4>2. a + j \in DOMAIN s
        BY <3>2, <4>1
      <4> QED
        BY <1>4, <3>2, <4>2
    <3> QED
      BY <1>9, <3>1, <3>2, <3>4 DEF ts
  <2> QED
    BY <2>1, <2>2
<1>12. isList(s2)
  BY <1>2, <1>4 DEF isList
<1> QED
  BY <1>8, <1>11, <1>12 DEF Runs, s2, e

\* Any pairs.
Pairs(es) == UNION {{serializeEntry(es[i])[j] : j \in DOMAIN serializeEntry(es[i])} : i \in DOMAIN es}

LEMMA EntryPairs ==
  ASSUME NEW es, NEW n \in DOMAIN es, isValue(es[n].value)
  PROVE  serializeEntry(es[n]) \in Seq(Pairs(es))
<1> DEFINE e == serializeEntry(es[n])
           texts == textsOf(es[n].value)
           T == [key : {es[n].key}, text : {texts[j] : j \in DOMAIN texts}]
<1>1. e \in Seq(T)
  BY EntrySays
<1>2. \A j \in DOMAIN e : e[j] \in Pairs(es)
  BY DEF Pairs
<1> HIDE DEF e, T
<1>3. Len(e) \in Nat /\ e = [j \in 1 .. Len(e) |-> e[j]] /\ DOMAIN e = 1 .. Len(e)
  BY <1>1
<1>4. e \in Seq(Pairs(es))
  BY <1>2, <1>3
<1> QED
  BY <1>4 DEF e

LEMMA QueryIs ==
  ASSUME NEW es, isObject(es), \A i \in DOMAIN es : isValue(es[i].value)
  PROVE  Runs(serializeQuery(es), es, Len(es))
<1> DEFINE rest(f, n) == IF n = 0 THEN <<>> ELSE f[n - 1] \o serializeEntry(es[n])
           F(f) == f = [n \in 0 .. Len(es) |-> rest(f, n)]
           Has(m) == \E f : f = [n \in 0 .. m |-> rest(f, n)]
<1>1. Len(es) \in Nat /\ DOMAIN es = 1 .. Len(es)
  BY DEF isObject
<1>2. serializeQuery(es) = (CHOOSE f : F(f))[Len(es)]
  BY DEF serializeQuery
<1>3. Has(0)
  <2> DEFINE f == [n \in 0 .. 0 |-> <<>>]
  <2>1. f = [n \in 0 .. 0 |-> rest(f, n)]
    OBVIOUS
  <2> QED
    BY <2>1
<1>4. ASSUME NEW m \in 1 .. Len(es), Has(m - 1) PROVE Has(m)
  <2>1. PICK f : f = [n \in 0 .. m - 1 |-> rest(f, n)]
    BY <1>4
  <2> DEFINE g == [n \in 0 .. m |-> rest(f, n)]
  <2>2. \A n \in 0 .. m - 1 : n \in 0 .. m /\ g[n] = f[n]
    BY <2>1
  <2>3. \A n \in 0 .. m : n # 0 => n - 1 \in 0 .. m - 1
    OBVIOUS
  <2>4. g = [n \in 0 .. m |-> rest(f, n)]
    OBVIOUS
  <2> HIDE DEF g
  <2>5. \A n \in 0 .. m : rest(f, n) = rest(g, n)
    BY <2>2, <2>3
  <2> HIDE DEF rest
  <2>6. g = [n \in 0 .. m |-> rest(g, n)]
    BY <2>4, <2>5
  <2> QED
    BY <2>6
<1> HIDE DEF rest
<1>5. \E f : F(f)
  <2> DEFINE D == {m \in 0 .. Len(es) : ~Has(m)}
  <2>1. D \in SUBSET (0 .. Len(es)) /\ 0 \notin D
    BY <1>3
  <2>2. ASSUME NEW m \in 1 .. Len(es), m \in D PROVE m - 1 \in D
    <3>1. m - 1 \in 0 .. Len(es)
      BY <1>1
    <3> HIDE DEF Has
    <3> QED
      BY <1>4, <2>2, <3>1
  <2> HIDE DEF D
  <2>3. D = {}
    BY <1>1, <2>1, <2>2, UpTo
  <2>4. Len(es) \in 0 .. Len(es)
    BY <1>1
  <2> QED
    BY <2>3, <2>4 DEF D
<1> DEFINE u == CHOOSE f : F(f)
<1>6. F(u)
  <2> HIDE DEF F
  <2> QED
    BY <1>5
<1> HIDE DEF u
<1> DEFINE Good(n) == u[n] \in Seq(Pairs(es)) /\ Runs(u[n], es, n)
           B == {n \in 0 .. Len(es) : ~Good(n)}
<1>7. Good(0)
  <2>1. u[0] = <<>>
    BY <1>1, <1>6 DEF rest
  <2> QED
    BY <2>1 DEF Runs, isList
<1>8. ASSUME NEW n \in 1 .. Len(es), Good(n - 1) PROVE Good(n)
  <2>1. n \in 0 .. Len(es) /\ n # 0 /\ n \in DOMAIN es
    BY <1>1
  <2>2. u[n] = u[n - 1] \o serializeEntry(es[n])
    BY <1>6, <2>1 DEF rest
  <2>3. Runs(u[n], es, n)
    BY <1>8, <2>2, RunsStep
  <2>4. serializeEntry(es[n]) \in Seq(Pairs(es))
    BY <2>1, EntryPairs
  <2>5. u[n] \in Seq(Pairs(es))
    BY <1>8, <2>2, <2>4
  <2> QED
    BY <2>3, <2>5
<1>9. B = {}
  <2>1. B \in SUBSET (0 .. Len(es)) /\ 0 \notin B
    BY <1>7
  <2>2. ASSUME NEW n \in 1 .. Len(es), n \in B PROVE n - 1 \in B
    <3>1. n - 1 \in 0 .. Len(es)
      BY <1>1
    <3> HIDE DEF Good
    <3> QED
      BY <1>8, <2>2, <3>1
  <2> HIDE DEF B
  <2> QED
    BY <1>1, <2>1, <2>2, UpTo
<1>10. Good(Len(es))
  <2>1. Len(es) \in 0 .. Len(es)
    BY <1>1
  <2> HIDE DEF Good
  <2> QED
    BY <1>9, <2>1
<1> QED
  BY <1>2, <1>10 DEF u

\* What the caller means by one key, and what the server reads.
means(es, k) == LET texts == textsOf(Entry(es, k)) IN [key |-> k, array |-> Len(texts) > 1, values |-> texts]
reads(pairs, k) ==
  LET own == {i \in DOMAIN pairs : pairs[i].key = k}
  IN [key |-> k, array |-> Cardinality(own) > 1, values |-> [i \in 1 .. Cardinality(own) |-> pick(pairs, own)[i].text]]
meantKeys(es) == {k \in Keys(es) : textsOf(Entry(es, k)) # <<>>}

LEMMA KeyRead ==
  ASSUME NEW es, isObject(es), \A i \in DOMAIN es : isValue(es[i].value),
         NEW s, Runs(s, es, Len(es)), NEW k \in Keys(es)
  PROVE  /\ k \in Keys(s) <=> k \in meantKeys(es)
         /\ reads(s, k) = means(es, k)
<1>1. Len(es) \in Nat /\ DOMAIN es = 1 .. Len(es)
  BY DEF isObject
<1>2. PICK i \in DOMAIN es : es[i].key = k
  BY DEF Keys
<1> DEFINE texts == textsOf(es[i].value)
           own == {p \in DOMAIN s : s[p].key = k}
<1>3. Entry(es, k) = es[i].value
  BY <1>2, EntryIs
<1>4. isList(texts)
  BY EntrySays
<1>5. PICK a \in Nat : own = a + 1 .. a + Len(texts) /\ \A j \in 1 .. Len(texts) : s[a + j].text = texts[j]
  BY <1>1, <1>2 DEF Runs
<1> HIDE DEF texts
<1>6. texts = [j \in 1 .. Len(texts) |-> texts[j]]
  <2>1. texts = [j \in DOMAIN texts |-> texts[j]]
    <3>1. CASE es[i].value.kind = "undefined"
      BY <3>1 DEF texts, textsOf
    <3>2. CASE es[i].value.kind = "array"
      BY <3>2 DEF texts, textsOf
    <3>3. CASE es[i].value.kind \notin {"undefined", "array"}
      BY <3>3 DEF texts, textsOf
    <3> QED
      BY <3>1, <3>2, <3>3
  <2> QED
    BY <1>4, <2>1 DEF isList
<1>7. texts = <<>> <=> Len(texts) = 0
  BY <1>4, <1>6 DEF isList
<1>8. k \in Keys(s) <=> own # {}
  BY DEF Keys
<1> HIDE DEF own
<1>9. k \in Keys(s) <=> texts # <<>>
  <2>1. own # {} <=> Len(texts) # 0
    <3>1. Len(texts) \in Nat /\ own = a + 1 .. a + Len(texts)
      BY <1>4, <1>5 DEF isList
    <3>2. Len(texts) # 0 => a + 1 \in own
      BY <3>1
    <3>3. \A p \in own : Len(texts) # 0
      BY <3>1
    <3> QED
      BY <3>2, <3>3
  <2> QED
    BY <1>7, <1>8, <2>1
<1>10. Cardinality(own) = Len(texts) /\ \A j \in 1 .. Len(texts) : pick(s, own)[j] = s[a + j]
  BY <1>4, <1>5, RunIs DEF isList
<1>11. [j \in 1 .. Cardinality(own) |-> pick(s, own)[j].text] = texts
  <2>1. \A j \in 1 .. Len(texts) : pick(s, own)[j].text = texts[j]
    BY <1>5, <1>10
  <2> QED
    BY <1>6, <1>10, <2>1
<1>12. reads(s, k) = [key |-> k, array |-> Cardinality(own) > 1, values |-> [j \in 1 .. Cardinality(own) |-> pick(s, own)[j].text]]
  BY DEF reads, own
<1>13. reads(s, k) = [key |-> k, array |-> Len(texts) > 1, values |-> texts]
  BY <1>10, <1>11, <1>12
<1>14. means(es, k) = [key |-> k, array |-> Len(texts) > 1, values |-> texts]
  BY <1>3 DEF means, texts
<1>15. k \in meantKeys(es) <=> texts # <<>>
  BY <1>3 DEF meantKeys, texts
<1> QED
  BY <1>9, <1>13, <1>14, <1>15

LEMMA QueryKept ==
  ASSUME IInv, Promised, "query" \in matched.slots
  PROVE  given.query.value = meantQuery
<1> DEFINE es == call.query.entries
           s == serializeQuery(es)
<1>1. given.query.value = decodeQuery(s)
  <2>1. Slots[3] = "query" /\ 3 \in 1 .. 4
    BY DEF Slots
  <2>2. given["query"] = decoded("query")
    BY <2>1, SentIs DEF declares
  <2>3. request.target.query = s
    BY SentIs
  <2> QED
    BY <2>2, <2>3 DEF decoded
<1>2. /\ isObject(es)
      /\ \A i \in DOMAIN es : isValue(es[i].value) /\ (es[i].value.kind \in {"undefined", "array"} \/ isScalar(es[i].value))
  <2>1. theRoute = matched /\ MethodQueryInput(theRoute)
    BY ItsRoute DEF Promised, WellTyped
  <2>2. call.query.kind # "undefined"
    BY <2>1 DEF MethodQueryInput, RouteInputContract
  <2>3. \A i \in DOMAIN es : es[i].value.kind \in {"undefined", "array"} \/ isScalar(es[i].value)
    BY <2>2, SentIs DEF queryFault
  <2> QED
    BY <2>3, SentIs, CallsAssumption
<1>3. Runs(s, es, Len(es))
  BY <1>2, QueryIs
<1>4. decodeQuery(s) = {reads(s, k) : k \in Keys(s)}
  BY DEF decodeQuery, reads
<1>5. Keys(s) \subseteq Keys(es)
  <2>1. \A p \in DOMAIN s : \E i \in 1 .. Len(es) : s[p].key = es[i].key
    BY <1>3 DEF Runs
  <2>2. DOMAIN es = 1 .. Len(es)
    BY <1>2 DEF isObject
  <2> HIDE DEF s, es
  <2> QED
    BY <2>1, <2>2 DEF Keys
<1>6. ASSUME NEW k \in Keys(es)
      PROVE  LET v == Entry(es, k)
                 texts == IF v.kind = "array" THEN [i \in DOMAIN v.items |-> usvString(v.items[i].text)] ELSE <<usvString(v.text)>>
             IN /\ k \in meantKeys(es) <=> v.kind # "undefined" /\ (v.kind = "array" => Len(v.items) > 0)
                /\ k \in meantKeys(es) => means(es, k) = [key |-> k, array |-> Len(texts) > 1, values |-> texts]
  <2> DEFINE v == Entry(es, k)
  <2>1. PICK i \in DOMAIN es : es[i].key = k
    BY DEF Keys
  <2>2. v = es[i].value
    BY <1>2, <2>1, EntryIs
  <2>3. isValue(v) /\ (v.kind \in {"undefined", "array"} \/ isScalar(v))
    BY <1>2, <2>2
  <2>4. k \in meantKeys(es) <=> textsOf(v) # <<>>
    BY DEF meantKeys
  <2>5. means(es, k) = [key |-> k, array |-> Len(textsOf(v)) > 1, values |-> textsOf(v)]
    BY DEF means
  <2> HIDE DEF v
  <2>6. CASE v.kind = "undefined"
    <3>1. textsOf(v) = <<>>
      BY <2>6 DEF textsOf
    <3> QED
      BY <2>4, <2>6, <3>1 DEF v
  <2>7. CASE v.kind \notin {"undefined", "array"}
    <3>1. textsOf(v) = <<usvString(v.text)>> /\ textsOf(v) # <<>>
      BY <2>7 DEF textsOf
    <3> QED
      BY <2>4, <2>5, <2>7, <3>1 DEF v
  <2>8. CASE v.kind = "array"
    <3>1. textsOf(v) = [j \in DOMAIN v.items |-> usvString(v.items[j].text)]
      BY <2>8 DEF textsOf
    <3>2. Len(v.items) \in Nat /\ DOMAIN v.items = 1 .. Len(v.items)
      BY <2>3, <2>8 DEF isValue
    <3>3. textsOf(v) # <<>> <=> Len(v.items) > 0
      BY <3>1, <3>2
    <3> QED
      BY <2>4, <2>5, <2>8, <3>1, <3>3 DEF v
  <2> QED
    BY <2>3, <2>6, <2>7, <2>8
<1> HIDE DEF s, es
<1>7. meantQuery = {means(es, k) : k \in meantKeys(es)}
  <2> DEFINE meant(k) ==
        LET v == Entry(es, k)
            texts == IF v.kind = "array" THEN [i \in DOMAIN v.items |-> usvString(v.items[i].text)] ELSE <<usvString(v.text)>>
        IN [key |-> k, array |-> Len(texts) > 1, values |-> texts]
             K == {k \in Keys(es) : LET v == Entry(es, k) IN v.kind # "undefined" /\ (v.kind = "array" => Len(v.items) > 0)}
  <2>1. meantQuery = {meant(k) : k \in K}
    BY DEF meantQuery, es
  <2>2. K = meantKeys(es)
    BY <1>6 DEF meantKeys
  <2>3. \A k \in meantKeys(es) : meant(k) = means(es, k)
    BY <1>6 DEF meantKeys
  <2> HIDE DEF meant, K
  <2> QED
    BY <2>1, <2>2, <2>3
<1>8. Keys(s) = meantKeys(es) /\ \A k \in Keys(s) : reads(s, k) = means(es, k)
  <2>1. \A k \in Keys(es) : (k \in Keys(s) <=> k \in meantKeys(es)) /\ reads(s, k) = means(es, k)
    BY <1>2, <1>3, KeyRead
  <2>2. meantKeys(es) \subseteq Keys(es)
    BY DEF meantKeys
  <2> QED
    BY <1>5, <2>1, <2>2
<1> QED
  BY <1>1, <1>4, <1>7, <1>8

-----------------------------------------------------------------------------
(* The headers and the body.                                               *)

LEMMA LastIs ==
  ASSUME NEW n \in Nat, NEW S \in SUBSET (1 .. n), S # {}
  PROVE  LastOf(S) \in S /\ \A j \in S : j <= LastOf(S)
<1> DEFINE T == {n - i : i \in S}
           m == FirstOf(T)
<1>1. T \in SUBSET Nat /\ T # {}
  OBVIOUS
<1>2. m \in T /\ \A j \in T : m <= j
  <2> HIDE DEF T
  <2> QED
    BY <1>1, FirstIs
<1> HIDE DEF m
<1>3. PICK i \in S : m = n - i
  BY <1>2
<1>4. \A j \in S : j <= i
  <2>1. \A j \in S : n - j \in T /\ j \in Int
    OBVIOUS
  <2>2. i \in Int
    OBVIOUS
  <2> QED
    BY <1>2, <1>3, <2>1, <2>2
<1> QED
  BY <1>4 DEF LastOf

LEMMA HeadersKept ==
  ASSUME IInv, Promised, "headers" \in matched.slots
  PROVE  meantHeaders \subseteq given.headers.value
<1> DEFINE es == call.headers.entries
           named_(k) == {i \in DOMAIN es : lower(es[i].key) = k /\ es[i].value.kind = "string"}
           strings == {i \in DOMAIN es : es[i].value.kind = "string"}
<1>1. setHeaders(call.headers) \subseteq given.headers.value
  <2>1. Slots[1] = "headers" /\ 1 \in 1 .. 4
    BY DEF Slots
  <2>2. given["headers"] = decoded("headers")
    BY <2>1, SentIs DEF declares
  <2>3. request.init.headers = buildRequestInit.headers
    BY SentIs
  <2>4. setHeaders(call.headers) \subseteq buildRequestInit.headers
    BY DEF buildRequestInit
  <2> QED
    BY <2>2, <2>3, <2>4 DEF decoded
<1>2. Len(es) \in Nat /\ DOMAIN es = 1 .. Len(es)
  BY SentIs, CallsAssumption DEF isObject
<1>3. ASSUME NEW i \in strings
      PROVE  [key |-> lower(es[i].key), text |-> es[LastOf(named_(lower(es[i].key)))].value.text] \in setHeaders(call.headers)
  <2> DEFINE k == lower(es[i].key)
             l == LastOf(named_(k))
  <2>1. named_(k) \in SUBSET (1 .. Len(es)) /\ i \in named_(k)
    BY <1>2
  <2>2. l \in named_(k) /\ \A j \in named_(k) : j <= l
    <3> HIDE DEF named_, k
    <3> QED
      BY <1>2, <2>1, LastIs
  <2> HIDE DEF l
  <2>3. l \in strings /\ lower(es[l].key) = k /\ \A j \in strings : lower(es[j].key) = lower(es[l].key) => j <= l
    BY <2>2
  <2>4. [key |-> lower(es[l].key), text |-> es[l].value.text] \in setHeaders(call.headers)
    BY <2>3 DEF setHeaders
  <2> QED
    BY <2>3, <2>4 DEF l
<1>4. meantHeaders = {[key |-> k, text |-> es[LastOf(named_(k))].value.text] : k \in {lower(es[i].key) : i \in strings}}
  BY DEF meantHeaders
<1> HIDE DEF named_, strings
<1>5. meantHeaders \subseteq setHeaders(call.headers)
  BY <1>3, <1>4
<1> QED
  BY <1>1, <1>5

LEMMA BodyKept ==
  ASSUME IInv, Promised
  PROVE  /\ matched.body = "json" => given.body.value = stringify[call.body.value]
         /\ matched.body = "form" =>
              \A i \in DOMAIN call.body.entries :
                given.body.parts[i].texts =
                  [j \in DOMAIN partsOf(call.body.entries[i]) |-> partText(partsOf(call.body.entries[i])[j])]
<1>1. MethodBodyInput(theRoute) /\ matched = theRoute
  BY ItsRoute DEF Promised, WellTyped
<1>2. matched.body # "none" => given.body = wireBody(call.body)
  <2>1. Slots[4] = "body" /\ 4 \in 1 .. 4
    BY DEF Slots
  <2>2. matched.body # "none" => given["body"] = decoded("body")
    BY <2>1, SentIs DEF declares
  <2>3. request.init.body = wireBody(call.body)
    BY SentIs DEF buildRequestInit
  <2> QED
    BY <2>2, <2>3 DEF decoded
<1>3. CASE matched.body = "json"
  <2>1. call.body.kind = "value"
    BY <1>1, <1>3 DEF MethodBodyInput, RouteInputContract
  <2>2. wireBody(call.body) = [kind |-> "json", value |-> stringify[call.body.value]]
    BY <2>1 DEF wireBody
  <2> QED
    BY <1>2, <1>3, <2>2
<1>4. CASE matched.body = "form"
  <2>1. /\ call.body.kind = "formBody"
        /\ \A i \in DOMAIN call.body.entries : LET p == partsOf(call.body.entries[i])
                                              IN \A j \in DOMAIN p : isPart(p[j])
    BY <1>1, <1>4 DEF MethodBodyInput, RouteInputContract
  <2>2. given.body.parts = formParts(call.body.entries)
    BY <1>2, <1>4, <2>1 DEF wireBody
  <2>3. ASSUME NEW i \in DOMAIN call.body.entries PROVE call.body.entries[i].value.kind # "undefined"
    <3> SUFFICES ASSUME call.body.entries[i].value.kind = "undefined" PROVE FALSE
      OBVIOUS
    <3>1. partsOf(call.body.entries[i]) = <<call.body.entries[i].value>>
      BY DEF partsOf
    <3>2. isPart(call.body.entries[i].value)
      BY <2>1, <3>1
    <3> QED
      BY <3>2 DEF isPart, isScalar
  <2> QED
    BY <1>4, <2>2, <2>3 DEF formParts
<1> QED
  BY <1>3, <1>4

\* Whatever characters the parameters hold and however the query repeats its
\* keys, the handler of the route a typed call names is given what it means.
THEOREM Meanings == Spec => []MeaningKept
<1>1. IInv => MeaningKept
  BY ItsRoute, ParamsKept, QueryKept, HeadersKept, BodyKept DEF MeaningKept, Promised
<1> QED
  BY Initially, Inductive, <1>1, PTL DEF Spec

=============================================================================
