------------------------------- MODULE RoundTrip -------------------------------
(***************************************************************************)
(* One call of the typed client and the request it becomes: the client is  *)
(* created, the call is built before anything is sent, the router picks a  *)
(* route, its declared slots are decoded and validated, the handler or the *)
(* framework answers, and the client tells the caller what came of it.     *)
(* The types of the call, which are erased before any of this runs, are    *)
(* the promise it is measured against.                                     *)
(***************************************************************************)
EXTENDS Wire

CONSTANTS
  Calls,      \* what callers ask for
  Routes,     \* the routes of the application
  RawIssues   \* what a schema may complain about

VARIABLES
  call,
  phase,
  request,   \* target and init, once they are built
  fetched,   \* the transport was called
  matched,   \* the route the request came to
  returns,   \* what its handler is declared to return
  slot,      \* the slot that is validated next
  raw,       \* the issues of the schema that refused
  given,     \* what the handler is called with
  answer,    \* the response
  result     \* what the caller gets

vars == <<call, phase, request, fetched, matched, returns, slot, raw, given, answer, result>>

None == [kind |-> "none"]
Slots == <<"headers", "params", "query", "body">>

Redirects == {301, 302, 303, 307, 308}
Bodiless == {204, 205, 304}
JsonMedia == {"application/json", "application/problem+json", "application/vnd+json"}
ok(status) == status \in 200 .. 299

\* An object has a key once; what is no object has none.
isObject(entries) ==
  /\ Len(entries) \in Nat /\ DOMAIN entries = 1 .. Len(entries)
  /\ \A i, j \in DOMAIN entries : entries[i].key = entries[j].key => i = j

isValue(v) ==
  /\ v.kind = "string" => v.text \in Text
  /\ v.kind = "array" => Len(v.items) \in Nat /\ DOMAIN v.items = 1 .. Len(v.items)

ASSUME CallsAssumption ==
  \A c \in Calls :
    /\ c.kind \in {"method", "request"} /\ c.template.segments \in Seq(Segments)
    /\ \A input \in {c.params, c.query, c.headers} :
         isObject(input.entries) /\ (input.kind # "object" => input.entries = <<>>)
    /\ \A input \in {c.params, c.query} : \A i \in DOMAIN input.entries : isValue(input.entries[i].value)
    /\ \A i \in DOMAIN c.query.entries : LET v == c.query.entries[i].value
                                         IN v.kind = "array" => \A j \in DOMAIN v.items : isValue(v.items[j])

Helpers == {"json", "text", "problem", "empty", "redirect", "raw"}

\* redirect() takes no init, and its statuses are typed.
ASSUME RoutesAssumption ==
  \A r \in Routes :
    /\ r.template.segments \in Seq(Segments)
    /\ r.slots \subseteq {"headers", "params", "query"} /\ r.body \in {"none", "json", "form"}
    /\ r.inputs.body \subseteq AllBodies
    /\ \A o \in UNION r.handlers :
         /\ o.helper \in Helpers /\ o.type \in AllUnions
         /\ o.helper = "redirect" => o.status \in Redirects /\ o.override = "none"

ASSUME IssuesAssumption ==
  \A issues \in RawIssues :
    /\ Len(issues) \in Nat /\ DOMAIN issues = 1 .. Len(issues)
    /\ \A i \in DOMAIN issues : issues[i].path \in Seq(STRING)

-----------------------------------------------------------------------------
(* createClient().                                                         *)

\* normalizeBaseUrl()
validBase(b) == b.kind \in {"http", "https"} /\ ~b.query

Settle(r) == phase' = "done" /\ result' = r

Create ==
  /\ phase = "creating"
  /\ IF validBase(call.base) THEN phase' = "calling" /\ UNCHANGED result
     ELSE Settle([kind |-> "misconfigured"])
  /\ UNCHANGED <<call, request, fetched, matched, returns, slot, raw, given, answer>>

-----------------------------------------------------------------------------
(* send(): every check comes before the transport is called.               *)

OwnedInit == {"method", "body", "headers"}

initFault(init) ==
  IF \/ init.kind \in {"undefined", "null"}
     \/ init.kind = "object" /\ init.keys \cap OwnedInit = {}
  THEN "none" ELSE "LUGAS_CLIENT_007"

\* "broken" is a string with a line break, "foreign" one that Headers.set() does
\* not take, or under a name it does not take.
headerFault(v) ==
  CASE v.kind \in {"undefined", "string"} -> "none"
    [] v.kind = "foreign" -> "TypeError"
    [] OTHER -> "LUGAS_CLIENT_009"

headersFault(h) ==
  LET faulty == {i \in DOMAIN h.entries : headerFault(h.entries[i].value) # "none"}
  IN IF h.kind \in {"undefined", "null"} THEN "none"
     ELSE IF h.kind # "object" THEN "LUGAS_CLIENT_009"
     ELSE IF faulty = {} THEN "none" ELSE headerFault(h.entries[FirstOf(faulty)].value)

\* Header names have no case; the last entry of a name stands.
lower(name) == IF name = "X-A" THEN "x-a" ELSE name
setHeaders(h) ==
  LET set == {i \in DOMAIN h.entries : h.entries[i].value.kind = "string"}
  IN {[key |-> lower(h.entries[i].key), text |-> h.entries[i].value.text] :
        i \in {i \in set : \A j \in set : lower(h.entries[j].key) = lower(h.entries[i].key) => j <= i}}

contentType(hs) == IF \E h \in hs : h.key = "content-type"
                   THEN (CHOOSE h \in hs : h.key = "content-type").text ELSE "none"

isPart(v) == isScalar(v) \/ v.kind = "blob"
partsOf(e) == IF e.value.kind = "array" THEN e.value.items ELSE <<e.value>>

bodyFault(body, hs) ==
  CASE body.kind = "undefined" -> "none"
    [] body.kind = "formBody" ->
         IF /\ contentType(hs) = "none"
            /\ \A i \in DOMAIN body.entries : body.entries[i].value.kind = "undefined"
                 \/ \A j \in DOMAIN partsOf(body.entries[i]) : isPart(partsOf(body.entries[i])[j])
         THEN "none" ELSE "LUGAS_CLIENT_008"
    [] OTHER ->
         IF /\ contentType(hs) \in JsonMedia \cup {"none"}
            /\ stringify[body.value] \notin {Drops, Throws}
         THEN "none" ELSE "LUGAS_CLIENT_008"

\* toMultipartFormData()
partText(v) == IF v.kind = "blob" THEN v.text ELSE usvString(v.text)
formParts(entries) ==
  [i \in DOMAIN entries |->
    [key |-> entries[i].key,
     texts |-> IF entries[i].value.kind = "undefined" THEN <<>>
               ELSE [j \in DOMAIN partsOf(entries[i]) |-> partText(partsOf(entries[i])[j])]]]

wireBody(body) ==
  CASE body.kind = "undefined" -> [kind |-> "none"]
    [] body.kind = "formBody" -> [kind |-> "form", parts |-> formParts(body.entries)]
    [] OTHER -> [kind |-> "json", value |-> stringify[body.value]]

first(f, g) == IF f # "none" THEN f ELSE g

\* Mutant: an input without entries is not an object.
callFaultEmpty ==
  IF call.query.kind = "object" /\ call.query.entries = <<>> THEN "LUGAS_CLIENT_006"
  ELSE first(pathFault(call.template, call.params), first(queryFault(call.query),
         first(initFault(call.init), first(headersFault(call.headers), bodyFault(call.body, setHeaders(call.headers))))))

\* What send() throws, in the order it looks.
callFault ==
  first(pathFault(call.template, call.params), first(queryFault(call.query),
    first(initFault(call.init), first(headersFault(call.headers), bodyFault(call.body, setHeaders(call.headers))))))

\* joinUrl() and appendQuery().
target ==
  appendQuery([path |-> call.base.path \o interpolatePath(call.template, call.params.entries),
               query |-> call.template.query], serializeQuery(call.query.entries))

buildRequestInit ==
  LET hs == setHeaders(call.headers)
      json == [key |-> "content-type", text |-> "application/json"]
      form == [key |-> "content-type", text |-> "multipart/form-data"]
  IN [headers |-> hs \cup
        CASE call.body.kind = "formBody" -> {form}
          [] call.body.kind = "value" /\ contentType(hs) = "none" -> {json}
          [] OTHER -> {},
      body |-> wireBody(call.body)]

Send ==
  /\ phase = "calling" /\ call.kind = "method"
  /\ IF callFault # "none"
     THEN Settle([kind |-> "refused", code |-> callFault]) /\ UNCHANGED <<request, fetched>>
     ELSE /\ request' = [target |-> target, init |-> buildRequestInit]
          /\ fetched' = TRUE /\ phase' = "sent" /\ UNCHANGED result
  /\ UNCHANGED <<call, matched, returns, slot, raw, given, answer>>

\* client.request(): a verb and any path, no input, and no parsing.
Methods == {"GET", "POST", "HEAD"}
RequestRaw ==
  /\ phase = "calling" /\ call.kind = "request"
  /\ IF call.method \notin Methods
     THEN Settle([kind |-> "misconfigured"]) /\ UNCHANGED <<request, fetched>>
     ELSE /\ request' = [target |-> [path |-> call.base.path \o call.path, query |-> <<>>],
                         init |-> [headers |-> {}, body |-> [kind |-> "none"]]]
          /\ fetched' = TRUE /\ phase' = "sent" /\ UNCHANGED result
  /\ UNCHANGED <<call, matched, returns, slot, raw, given, answer>>

-----------------------------------------------------------------------------
(* The transport and the router: fetch() and Bun.                          *)

\* Networks fail and signals abort; a GET or HEAD has no body.
TransportFails ==
  /\ phase = "sent" /\ Settle([kind |-> "rejected"])
  /\ UNCHANGED <<call, request, fetched, matched, returns, slot, raw, given, answer>>

\* The URL parser takes dot segments away before the request is written.
normalized(path) ==
  LET dots(p, s) == CASE s = <<".">> -> p
                      [] s = <<".", ".">> -> IF p = <<>> THEN p ELSE SubSeq(p, 1, Len(p) - 1)
                      [] OTHER -> Append(p, s)
      upTo[n \in 0 .. Len(path)] == IF n = 0 THEN <<>> ELSE dots(upTo[n - 1], path[n])
  IN upTo[Len(path)]

\* A parameter takes one segment, the wildcard what is left.
matches(r, path) ==
  LET t == r.template.segments
  IN /\ r.method \in {call.method, "ALL"}
     /\ IF hasWildcard(r.template) THEN Len(path) >= Len(t) ELSE Len(path) = Len(t)
     /\ \A i \in DOMAIN t : CASE t[i].kind = "literal" -> decodeURIComponent(path[i]) = t[i].text
                              [] t[i].kind = "param" -> path[i] # <<>>
                              [] OTHER -> TRUE

rank(s) == CASE s.kind = "literal" -> 1 [] s.kind = "param" -> 2 [] OTHER -> 3

moreSpecific(r, other) ==
  \A i \in DOMAIN r.template.segments \cap DOMAIN other.template.segments :
    rank(other.template.segments[i]) < rank(r.template.segments[i]) =>
      \E j \in 1 .. i - 1 : rank(r.template.segments[j]) < rank(other.template.segments[j])

Problem(status, code) ==
  [status |-> status, media |-> "application/problem+json", body |-> Tree("problem", <<>>),
   code |-> code, source |-> "none", issues |-> <<>>, from |-> "framework"]

Respond(a) == phase' = "answered" /\ answer' = a

Route ==
  /\ phase = "sent" /\ (call.method = "POST" \/ request.init.body.kind = "none")
  /\ LET path == normalized(request.target.path)
         found == {r \in Routes : matches(r, path)}
     IN IF found = {} THEN /\ Respond([Problem(404, "NOT_FOUND") EXCEPT !.from = "router"])
                           /\ UNCHANGED <<matched, returns, slot>>
        ELSE /\ matched' = CHOOSE r \in found : \A other \in found : moreSpecific(r, other)
             /\ returns' \in matched'.handlers
             /\ phase' = "validating" /\ slot' = 1 /\ UNCHANGED answer
  /\ UNCHANGED <<call, request, fetched, raw, given, result>>

-----------------------------------------------------------------------------
(* The declared slots.  A schema is the identity, or it has issues.        *)

declares(r, s) == IF s = "body" THEN r.body # "none" ELSE s \in r.slots

routeParams(r) ==
  LET path == normalized(request.target.path) t == r.template.segments
  IN {[key |-> t[i].name, text |-> decodeURIComponent(path[i])] : i \in {i \in DOMAIN t : t[i].kind = "param"}}

\* What the slot's schema is asked about.
decoded(s) ==
  CASE s = "params" -> [kind |-> "params", value |-> routeParams(matched)]
    [] s = "query" -> [kind |-> "query", value |-> decodeQuery(request.target.query)]
    [] s = "headers" -> [kind |-> "headers", value |-> request.init.headers]
    [] OTHER -> request.init.body

\* Without a schema the parameters are what the router made of the path.
undeclared(s) == IF s = "params" THEN decoded(s) ELSE None

accept(v) ==
  /\ given' = [given EXCEPT ![Slots[slot]] = v]
  /\ slot' = slot + 1 /\ phase' = (IF slot = 4 THEN "handling" ELSE "validating")
  /\ UNCHANGED <<raw, answer>>

refuse(a) == Respond(a) /\ UNCHANGED <<given, slot>>

unsupported == decoded("body").kind # matched.body

createValidationProblem(issues) ==
  [Problem(422, "VALIDATION_FAILED") EXCEPT !.source = Slots[slot],
     !.issues = LET n == normalizeValidationIssues(issues)
                IN IF Slots[slot] = "headers" THEN sanitizeHeaderIssues(n) ELSE n]

Skip ==
  /\ phase = "validating" /\ ~declares(matched, Slots[slot])
  /\ accept(undeclared(Slots[slot]))
  /\ UNCHANGED <<call, request, fetched, matched, returns, result>>

Accept ==
  /\ phase = "validating" /\ declares(matched, Slots[slot])
  /\ Slots[slot] = "body" => ~unsupported
  /\ accept(decoded(Slots[slot]))
  /\ UNCHANGED <<call, request, fetched, matched, returns, result>>

\* A form has limits where the other slots have a schema.
Issues(issues) ==
  /\ phase = "validating" /\ declares(matched, Slots[slot])
  /\ Slots[slot] = "body" => ~unsupported /\ matched.body = "json"
  /\ raw' = issues /\ refuse(createValidationProblem(issues))
  /\ UNCHANGED <<call, request, fetched, matched, returns, result>>

Policy == [Problem(500, "INTERNAL") EXCEPT !.from = "policy"]

\* The schema throws, or returns what is no result.
SchemaFails ==
  /\ phase = "validating" /\ declares(matched, Slots[slot])
  /\ Slots[slot] = "body" => ~unsupported /\ matched.body = "json"
  /\ refuse(Policy) /\ UNCHANGED <<call, request, fetched, matched, returns, raw, result>>

\* Body is where a body is read: what is wrong with its bytes is in Body.
BodyRefused ==
  /\ phase = "validating" /\ Slots[slot] = "body" /\ declares(matched, "body")
  /\ IF unsupported THEN refuse(Problem(415, "UNSUPPORTED_MEDIA_TYPE"))
     ELSE \/ refuse(Problem(400, IF matched.body = "json" THEN "MALFORMED_JSON" ELSE "MALFORMED_MULTIPART"))
          \/ refuse(Problem(413, "BODY_BUDGET_EXCEEDED"))
          \/ matched.body = "form" /\ refuse(Problem(413, "FORM_LIMIT_EXCEEDED"))
  /\ UNCHANGED <<call, request, fetched, matched, returns, raw, result>>

\* Bun refuses what is above the ceiling, with no document.
Ceiling ==
  /\ phase = "sent" /\ request.init.body.kind # "none" /\ call.method = "POST"
  /\ Respond([status |-> 413, media |-> "none", body |-> Nothing, code |-> "none",
              source |-> "none", issues |-> <<>>, from |-> "transport"])
  /\ UNCHANGED <<call, request, fetched, matched, returns, slot, raw, given, result>>

-----------------------------------------------------------------------------
(* The handler, which answers through a helper or with a Response.         *)

TextMedia == {"text/plain", "text/html"}

\* A helper owns its media type, and json() needs a text.
helperThrows(o, v) ==
  \/ o.helper = "json" /\ (o.override \notin JsonMedia \cup {"none"} \/ stringify[v] \in {Drops, Throws})
  \/ o.helper = "text" /\ o.override \notin TextMedia \cup {"none"}
  \/ o.helper = "empty" /\ o.override # "none"
  \/ o.helper = "problem" /\ o.override \notin {"application/problem+json", "none"}

defaultMedia(helper) ==
  CASE helper = "json" -> "application/json" [] helper = "text" -> "text/plain"
    [] helper = "problem" -> "application/problem+json" [] OTHER -> "none"

bodyOf(o, v) ==
  CASE o.helper = "json" -> stringify[v] [] o.helper = "text" -> Tree("string", <<>>)
    [] o.helper = "problem" -> Tree("problem", <<>>) [] o.helper = "raw" -> v [] OTHER -> Nothing

Handled(o, v) ==
  IF helperThrows(o, v) THEN Policy
  ELSE [status |-> o.status, media |-> IF o.override # "none" THEN o.override ELSE defaultMedia(o.helper),
        body |-> bodyOf(o, v), code |-> "none", source |-> "none", issues |-> <<>>, from |-> "handler"]

\* A body under a status that has none: json(), text() and problem() let it
\* through, and new Response() may not.
contradictory(o) == o.status \in Bodiless /\ o.helper \in {"json", "text", "problem"}

Handle(o, v) ==
  /\ phase = "handling" /\ o \in returns /\ v \in Inhabitants[o.type]
  /\ Respond(Handled(o, v)) \/ (contradictory(o) /\ Respond(Policy))
  /\ UNCHANGED <<call, request, fetched, matched, returns, slot, raw, given, result>>

-----------------------------------------------------------------------------
(* parseResponse().                                                        *)

Broken == Tree("broken", <<>>)

\* It keeps the response, and throws.
ClientDecodeError == [kind |-> "undecodable", status |-> answer.status]

bodiless ==
  answer.media = "none" \/ answer.body = Nothing \/ call.method = "HEAD" \/ answer.status \in Bodiless

readBody ==
  IF bodiless THEN Nothing
  ELSE IF answer.media \in JsonMedia THEN answer.body
  ELSE IF answer.media \in TextMedia THEN Tree("string", <<>>) ELSE Nothing

\* fetch() follows a redirect, unless it is told not to.
followed == answer.status \in Redirects /\ "redirect" \notin call.init.keys

Follow ==
  /\ phase = "answered" /\ followed
  /\ Respond([answer EXCEPT !.status = 200, !.media = "text/html", !.body = Tree("string", <<>>), !.from = "elsewhere"])
  /\ UNCHANGED <<call, request, fetched, matched, returns, slot, raw, given, result>>

Parse ==
  /\ phase = "answered" /\ ~followed
  /\ IF call.kind = "request" THEN Settle([kind |-> "response", status |-> answer.status])
     ELSE IF readBody = Broken THEN Settle(ClientDecodeError)
     ELSE Settle([kind |-> "result", ok |-> ok(answer.status), status |-> answer.status, value |-> readBody])
  /\ UNCHANGED <<call, request, fetched, matched, returns, slot, raw, given, answer>>

-----------------------------------------------------------------------------
Init ==
  /\ call \in Calls /\ phase = "creating"
  /\ request = None /\ fetched = FALSE /\ matched = None /\ returns = {} /\ slot = 0 /\ raw = <<>>
  /\ given = [s \in {"headers", "params", "query", "body"} |-> None]
  /\ answer = [Problem(0, "none") EXCEPT !.from = "nobody"] /\ result = None

Outcomes == UNION UNION {r.handlers : r \in Routes}

Next ==
  \/ Create \/ Send \/ RequestRaw \/ TransportFails \/ Route \/ Ceiling
  \/ Skip \/ Accept \/ SchemaFails \/ BodyRefused \/ (\E i \in RawIssues : Issues(i))
  \/ (\E o \in Outcomes : \E v \in Inhabitants[o.type] : Handle(o, v))
  \/ Follow \/ Parse

Spec == Init /\ [][Next]_vars

-----------------------------------------------------------------------------
(* The types of a call, which the compiler checks and the program forgets. *)

RouteInputContract(r) == [query |-> "query" \in r.slots, headers |-> "headers" \in r.slots, body |-> r.body]

\* A handler's promise is what it returns; a Response made by hand promises nothing.
RouteContract(r) == [input |-> RouteInputContract(r), responses |-> returns]

\* A method, or every method.
PathsForMethod == {r \in Routes : r.method \in {call.method, "ALL"}}

\* The route a typed call names.
named == {r \in PathsForMethod : r.template = call.template}
theRoute == CHOOSE r \in named : TRUE

MethodParamsInput(r) ==
  IF names(r.template) = {} THEN call.params.kind = "undefined"
  ELSE /\ call.params.kind = "object" /\ Keys(call.params.entries) = names(r.template)
       /\ \A i \in DOMAIN call.params.entries : call.params.entries[i].value.kind = "string"

\* Whatever the schema's input type admits, but for undefined.
MethodQueryInput(r) ==
  IF ~RouteInputContract(r).query THEN call.query.kind = "undefined"
  ELSE call.query \in r.inputs.query /\ call.query.kind # "undefined"

MethodHeadersInput(r) ==
  IF ~RouteInputContract(r).headers THEN call.headers.kind = "undefined"
  ELSE call.headers \in r.inputs.headers /\ call.headers.kind # "undefined"

\* FormBodyValues has parts; what formBody() makes is no value of a JSON schema.
MethodBodyInput(r) ==
  CASE RouteInputContract(r).body = "none" -> call.body.kind = "undefined"
    [] RouteInputContract(r).body = "form" ->
         /\ call.body.kind = "formBody"
         /\ \A i \in DOMAIN call.body.entries : LET p == partsOf(call.body.entries[i])
                                               IN \A j \in DOMAIN p : isPart(p[j])
    [] OTHER -> call.body.kind = "value" /\ call.body.value \in r.inputs.body

WellTyped ==
  /\ call.kind = "method" /\ named # {} /\ parseTemplate(call.template) = "none"
  /\ MethodParamsInput(theRoute) /\ MethodQueryInput(theRoute)
  /\ MethodHeadersInput(theRoute) /\ MethodBodyInput(theRoute)
  /\ call.init.kind \in {"undefined", "object"} /\ call.init.keys \cap OwnedInit = {}

\* One branch of the union: the statuses, and the values of data or error.
Branch(statuses, values) == [statuses |-> statuses, values |-> values]

ClientOutcome(o) ==
  CASE o.helper = "json" -> Branch({o.status}, Jsonify(o.type))
    [] o.helper = "text" -> Branch({o.status}, {Tree("string", <<>>)})
    [] o.helper = "problem" -> Branch({o.status}, {Tree("problem", <<>>)})
    [] o.helper = "redirect" -> Branch(Redirects, {Nothing})
    [] OTHER -> Branch({o.status}, {Nothing})

FrameworkFailureOutcomes(r) ==
  LET document == {Tree("problem", <<>>)}
  IN (IF r.slots # {} \/ r.body = "json" THEN {Branch({422}, document)} ELSE {})
     \cup (IF r.body # "none" THEN {Branch({415, 400}, document)} ELSE {})
     \cup (IF r.body = "form" THEN {Branch({413}, document \cup {Nothing})} ELSE {})

ClientOutcomes(r) == {ClientOutcome(o) : o \in RouteContract(r).responses} \cup FrameworkFailureOutcomes(r)

-----------------------------------------------------------------------------
\* A slot of r whose type admits what a query, the headers or JSON cannot say.
wide(r, s) ==
  CASE s = "query" -> "query" \in r.slots /\ \E q \in r.inputs.query : queryFault(q) # "none"
    [] s = "headers" -> "headers" \in r.slots /\ \E h \in r.inputs.headers : headersFault(h) # "none"
    [] s = "media" -> "headers" \in r.slots /\ \E h \in r.inputs.headers : contentType(setHeaders(h)) # "none"
    [] s = "body" -> r.body = "json" /\ \E v \in r.inputs.body : stringify[v] \in {Drops, Throws}

\* Why a call of r may be refused though its types accept it.
excused(r, code) ==
  CASE code = "URIError" -> \E i \in DOMAIN call.params.entries : ~encodable(call.params.entries[i].value.text)
    [] code = "LUGAS_CLIENT_006" -> wide(r, "query")
    [] code \in {"LUGAS_CLIENT_009", "TypeError"} -> wide(r, "headers")
    [] code = "LUGAS_CLIENT_008" -> wide(r, "media") \/ wide(r, "body")
    [] OTHER -> FALSE

\* A call that is refused was never sent, and a call its types accept is sent.
\* The exceptions: a route that ends in a wildcard, which has no type; half a
\* surrogate pair in a parameter; and the schema's input types, which go unchecked
\* for what a query (no null, Date or nesting), a header (a string without line
\* break, no content type of its own) and JSON (no bigint, no function) can say.  A
\* refusal then is for a slot with such a type, never for another.
TypedCallsAreSent ==
  result.kind = "refused" =>
    /\ ~fetched
    /\ WellTyped => hasWildcard(theRoute.template) \/ excused(theRoute, result.code)

\* The route decides what a value is called; the caller what it is.
meantParams == {[key |-> e.key, text |-> e.value.text] : e \in {call.params.entries[i] : i \in DOMAIN call.params.entries}}

meantQuery ==
  {LET v == Entry(call.query.entries, k)
       texts == IF v.kind = "array" THEN [i \in DOMAIN v.items |-> usvString(v.items[i].text)] ELSE <<usvString(v.text)>>
   IN [key |-> k, array |-> Len(texts) > 1, values |-> texts] :
     k \in {k \in Keys(call.query.entries) :
              LET v == Entry(call.query.entries, k)
              IN v.kind # "undefined" /\ (v.kind = "array" => Len(v.items) > 0)}}

meantHeaders ==
  LET of(k) == LastOf({i \in DOMAIN call.headers.entries :
                         lower(call.headers.entries[i].key) = k /\ call.headers.entries[i].value.kind = "string"})
  IN {[key |-> k, text |-> call.headers.entries[of(k)].value.text] :
        k \in {lower(call.headers.entries[i].key) : i \in {i \in DOMAIN call.headers.entries :
                 call.headers.entries[i].value.kind = "string"}}}

Dots == {<<".">>, <<".", ".">>}

\* What the URL parser and the router leave as it is.
Plain(s) ==
  IF s.kind = "literal" THEN s.text \notin Dots
  ELSE Entry(call.params.entries, s.name).text \notin Dots \cup {<<>>}

\* Another route the path would do for, which is not less specific.
Rival(r) == r # theRoute /\ matches(r, normalized(request.target.path)) /\ moreSpecific(r, theRoute)

\* The handler a typed call comes to is that of its route, and it is given what
\* the caller meant: the parameters, whatever characters they hold, every query
\* value in order, as text, the headers without regard to case, and the body.
\* Only a parameter that is empty, a dot segment or the text of a sibling leads
\* elsewhere, an array of one arrives as its element, and half a surrogate pair in
\* a query or a form as U+FFFD.  Left out are base paths and queries in templates.
MeaningKept ==
  slot = 5 /\ WellTyped /\ call.template.query = <<>> /\ call.base.path = <<>> /\ ~hasWildcard(call.template)
  /\ (\A i \in DOMAIN call.template.segments : Plain(call.template.segments[i])) /\ ~(\E r \in Routes : Rival(r)) =>
    /\ matched = theRoute
    /\ given.params.value = meantParams
    /\ "query" \in matched.slots => given.query.value = meantQuery
    /\ "headers" \in matched.slots => meantHeaders \subseteq given.headers.value
    /\ matched.body = "json" => given.body.value = stringify[call.body.value]
    /\ matched.body = "form" =>
         \A i \in DOMAIN call.body.entries :
           given.body.parts[i].texts =
             [j \in DOMAIN partsOf(call.body.entries[i]) |-> partText(partsOf(call.body.entries[i])[j])]

\* What a typed call results in is a branch of its type: the status, the side
\* and the shape of the value.  Outside it are what the error policy, the router
\* and the transport answer, a budget on a JSON body, the Responses a handler
\* makes itself, HEAD, which has no body whatever its type says, and a helper's
\* body under a status that has none.
ResultIsTyped ==
  LET expected == /\ WellTyped /\ matched = theRoute /\ call.method # "HEAD"
                  /\ answer.from \in {"framework", "handler"} /\ ~(answer.status = 413 /\ matched.body = "json")
                  /\ \A o \in returns : o.helper # "raw" /\ ~contradictory(o)
  IN result.kind = "result" /\ expected =>
       \E b \in ClientOutcomes(matched) : result.status \in b.statuses /\ result.value \in b.values

\* A 422 names the slot that was refused, when those before it were not and
\* those after it were not looked at; it keeps the schema's issues in their
\* order, at most MaxIssues and then a note, with paths cut short and without the
\* fields that hold input.  The message is replaced of just those that name a
\* sensitive header first; their path and their other fields (as `received`) stay.
RefusalExplained ==
  LET issues == answer.issues
      told == {i \in DOMAIN issues : issues[i].message \in {"own", "redacted"}}
  IN answer.code = "VALIDATION_FAILED" =>
       /\ answer.source = Slots[slot] /\ \A n \in slot .. 4 : given[Slots[n]] = None
       /\ \A n \in 1 .. slot - 1 : declares(matched, Slots[n]) => given[Slots[n]] # None
       /\ Len(issues) = IF Len(raw) > MaxIssues THEN MaxIssues + 1 ELSE Len(raw)
       /\ \A i \in DOMAIN issues : issues[i].message = "truncated" <=> i > MaxIssues
       /\ \A i \in told :
            /\ Len(issues[i].path) <= MaxSegments /\ issues[i].keys = raw[i].keys \ UnsafeKeys
            /\ \A k \in DOMAIN issues[i].path : \E l \in DOMAIN raw[i].path : raw[i].path[l] = issues[i].path[k]
            /\ issues[i].message = "redacted" <=>
                 answer.source = "headers" /\ issues[i].path # <<>> /\ issues[i].path[1] \in SensitiveHeaders

=============================================================================
