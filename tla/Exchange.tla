------------------------------ MODULE Exchange ------------------------------
(***************************************************************************)
(* What becomes of a response between its handler and the client: the      *)
(* wrappers prepareApp() and serve() put around a handler (ETag,           *)
(* compression, telemetry, access log, secure headers, CORS), each of      *)
(* which reads the request and the response it is given, and a shared      *)
(* cache in front of the server that keeps what it is allowed to keep.     *)
(*                                                                         *)
(* The wrappers are written apart from each other; what has to fit is what *)
(* they say together: the coding, the validator, the permissions and the   *)
(* Vary names of one response, long after it was made.                     *)
(***************************************************************************)
EXTENDS Naturals, Sequences, FiniteSets

CONSTANTS
  Configs,   \* what an application may pass to defineApp()
  Contents,  \* what the handler of the URL may answer
  Clients,   \* the requests clients make
  Slots      \* how many responses the cache keeps

Origins == {"friend", "stranger"}
Codings == {"gzip", "deflate"}
Methods == {"GET", "HEAD", "POST", "PUT", "PATCH", "DELETE", "OPTIONS"}

(***************************************************************************)
(* "short" is at most compression.minSize, "endless" a stream that does    *)
(* not end by itself, "broken" one that fails when it is read.             *)
(***************************************************************************)
ContentType ==
  [id: Nat, status: {200, 204, 404}, media: {"text", "binary", "event-stream"},
   body: {"none", "short", "long", "endless", "broken"},
   encoded: BOOLEAN, ranged: BOOLEAN, tagged: BOOLEAN, named: BOOLEAN]

ConfigType ==
  [target: {"route", "native", "fallback", "fetch"}, etag: STRING,
   compression: [on: BOOLEAN, encodings: Seq(STRING)], telemetry: BOOLEAN, secureHeaders: STRING,
   cors: [on: BOOLEAN, callback: BOOLEAN, origins: SUBSET STRING, decide: [Origins -> STRING],
          credentials: BOOLEAN, methods: Seq(STRING), reflects: BOOLEAN, names: SUBSET STRING],
   logging: [access: BOOLEAN, requestIds: BOOLEAN, level: STRING]]

Tags == [kind: {"none", "strong", "weak", "app"}, of: Nat]
NoTag == [kind |-> "none", of |-> 0]

RequestType ==
  [method: Methods, origin: Origins \cup {"none"},
   accept: Seq([coding: Codings \cup {"identity", "*"}, q: Nat]),
   inm: SUBSET Tags, star: BOOLEAN,
   asks: Methods \cup {"none"}, names: SUBSET {"x-a", "x-b"}]

ASSUME ContentsAssumption ==
  /\ Contents \subseteq ContentType
  /\ \A c, d \in Contents : c.id = d.id => c = d
ASSUME ConfigsAssumption == Configs \subseteq ConfigType
ASSUME ClientsAssumption == Clients \subseteq RequestType
ASSUME SlotsAssumption == Slots \in Nat

VARIABLES
  config,     \* the argument of defineApp()
  current,    \* what the handler answers now
  phase,      \* where the exchange is
  request,    \* the request the server was sent
  at,         \* the wrapper that has the response
  response,   \* the response it has
  spanId,     \* state.requestId of the telemetry span
  logged,     \* the access entry of the exchange
  stored,     \* what the cache keeps
  held,       \* the stored response the exchange revalidates
  client,     \* the request the client made
  delivered   \* what the client was given

origin == <<config, current>>
exchange == <<phase, request, at, response, spanId, logged>>
cache == <<stored, held, client, delivered>>
vars == <<origin, exchange, cache>>

NoEntry == [status |-> 0, id |-> "none"]
NoContent ==
  [id |-> 0, status |-> 204, media |-> "binary", body |-> "none",
   encoded |-> FALSE, ranged |-> FALSE, tagged |-> FALSE, named |-> FALSE]
Blank ==
  [status |-> 0, content |-> NoContent, body |-> "none", coding |-> "identity",
   etag |-> NoTag, vary |-> {}, secure |-> FALSE,
   allow |-> "none", credentials |-> FALSE, id |-> "none"]
Silent ==
  [method |-> "GET", origin |-> "none", accept |-> <<>>, inm |-> {}, star |-> FALSE,
   asks |-> "none", names |-> {}]
NoHold == [request |-> Silent, response |-> Blank]

-----------------------------------------------------------------------------
(* defineApp(): what the policies are compiled from, and what is refused.  *)

ValidCompression(c) == c.encodings # <<>> /\ \A i \in DOMAIN c.encodings : c.encodings[i] \in Codings

\* "*" stands alone and never with credentials; methods is a list without
\* duplicates.  What only the types exclude is left out.
ValidCors(c) ==
  /\ c.callback \/ (c.origins # {} /\ ("*" \in c.origins => c.origins = {"*"}))
  /\ ~(c.credentials /\ ~c.callback /\ c.origins = {"*"})
  /\ c.methods # <<>> /\ \A i \in DOMAIN c.methods : c.methods[i] \in Methods
  /\ \A i, j \in DOMAIN c.methods : c.methods[i] = c.methods[j] => i = j
  /\ c.reflects \/ c.names # {}

ValidEtag(e) == e \in {"off", "strong", "weak"}
ValidSecureHeaders(s) == s \in {"off", "on"}
ValidLogging(l) == l.level \in {"debug", "info", "warn", "error"}

Valid(c) ==
  /\ c.compression.on => ValidCompression(c.compression)
  /\ c.cors.on => ValidCors(c.cors)
  /\ ValidEtag(c.etag) /\ ValidSecureHeaders(c.secureHeaders) /\ ValidLogging(c.logging)

\* The application is defined, or defineApp() throws.
Define ==
  /\ phase = "defining"
  /\ phase' = IF Valid(config) THEN "idle" ELSE "refused"
  /\ UNCHANGED <<origin, request, at, response, spanId, logged, cache>>

-----------------------------------------------------------------------------
(* CORS.                                                                   *)

\* The Access-Control-Allow-Origin an origin gets, or "none".
evaluateOriginLoosely(o) ==
  IF o = "none" THEN "none"
  ELSE IF config.cors.callback
       THEN IF config.cors.decide[o] = "yes" THEN o
            ELSE IF config.cors.decide[o] = "no" THEN "none" ELSE config.cors.decide[o]
       ELSE IF config.cors.origins = {"*"} THEN "*"
            ELSE IF o \in config.cors.origins THEN o ELSE "none"

\* A callback's true, false or string; its "*" under credentials is taken for
\* a refusal.
evaluateOrigin(o) ==
  IF o = "none" THEN "none"
  ELSE IF config.cors.callback
       THEN CASE config.cors.decide[o] = "yes" -> o
              [] config.cors.decide[o] = "no" -> "none"
              [] config.cors.decide[o] = "*" -> IF config.cors.credentials THEN "none" ELSE "*"
              [] OTHER -> config.cors.decide[o]
       ELSE IF config.cors.origins = {"*"} THEN "*"
            ELSE IF o \in config.cors.origins THEN o ELSE "none"

isPreflight(r) == r.method = "OPTIONS" /\ r.asks # "none"

\* 204 with the whole grant, or with nothing but Vary.
preflightResponse(r) ==
  LET echo == evaluateOrigin(r.origin)
      granted == /\ echo # "none" /\ \E i \in DOMAIN config.cors.methods : config.cors.methods[i] = r.asks
                 /\ config.cors.reflects \/ r.names \subseteq config.cors.names
  IN [Blank EXCEPT !.status = 204, !.vary = {"origin", "method", "names"},
                   !.allow = IF granted THEN echo ELSE "none",
                   !.credentials = granted /\ config.cors.credentials]

\* Mutant: Vary only where the origin is allowed.
applyResponseHeadersSparingly(res) ==
  LET echo == evaluateOrigin(request.origin)
  IN IF echo = "none" THEN res
     ELSE [res EXCEPT !.vary = @ \cup {"origin"}, !.allow = echo, !.credentials = config.cors.credentials]

\* Vary: Origin on every response, the rest for the origins allowed.
applyResponseHeaders(res) ==
  LET echo == evaluateOrigin(request.origin)
      varied == [res EXCEPT !.vary = @ \cup {"origin"}]
  IN IF echo = "none" THEN varied
     ELSE [varied EXCEPT !.allow = echo, !.credentials = config.cors.credentials]

-----------------------------------------------------------------------------
(* ETag and compression.                                                   *)

Bodyless == {204, 304}

\* W/ is stripped from the candidate and not from the validator.
ifNoneMatchMatches(etag) ==
  \/ request.star
  \/ \E t \in request.inm : [t EXCEPT !.kind = IF @ = "weak" THEN "strong" ELSE @] = etag

\* What applyEtag() leaves alone.
untagged(res) ==
  \/ request.method \notin {"GET", "HEAD"}
  \/ res.status \in Bodyless \/ res.etag.kind # "none" \/ res.body = "none"

\* Mutant: the validator stands for the URL and not for the bytes.
etagOfUrl(res) == [kind |-> config.etag, of |-> 0]

\* The validator of the bytes.
etagOf(res) == [kind |-> config.etag, of |-> res.content.id]

applyEtag(res) ==
  IF untagged(res) \/ res.body = "broken" THEN res
  ELSE IF ifNoneMatchMatches(etagOf(res))
       THEN [Blank EXCEPT !.status = 304, !.content = res.content, !.etag = etagOf(res)]
       ELSE [res EXCEPT !.etag = etagOf(res)]

\* The codings a request accepts, as the server reads its header.
parseAcceptEncoding(r) == {i \in DOMAIN r.accept : r.accept[i].coding \in Codings /\ r.accept[i].q > 0}

offered == {config.compression.encodings[i] : i \in DOMAIN config.compression.encodings}

\* Most preferred first, the first listed of equals.
chosen(r) ==
  LET usable == {i \in parseAcceptEncoding(r) : r.accept[i].coding \in offered}
      best == {i \in usable : \A j \in usable : r.accept[i].q >= r.accept[j].q}
  IN IF usable = {} THEN "identity"
     ELSE r.accept[CHOOSE i \in best : \A j \in best : i <= j].coding

\* What applyCompression() leaves alone.
incompressible(res) ==
  \/ res.status \in Bodyless \/ res.coding # "identity" \/ res.content.encoded
  \/ res.content.media \in {"event-stream", "binary"} \/ res.content.ranged

\* Mutant: the negotiated header is not named in Vary.
applyCompressionUnvaried(res) ==
  IF incompressible(res) \/ res.body \in {"none", "short", "broken"} THEN res
  ELSE [res EXCEPT !.coding = chosen(request)]

\* Vary on every compressible response, compressed or not.
applyCompression(res) ==
  LET varied == [res EXCEPT !.vary = @ \cup {"accept-encoding"}]
  IN IF incompressible(res) \/ res.body = "broken" THEN res
     ELSE IF res.body \in {"none", "short"} THEN varied
          ELSE [varied EXCEPT !.coding = chosen(request)]

-----------------------------------------------------------------------------
(* The wrappers around the handler of each kind, innermost first.          *)

RouteWrappers == <<"etag", "compression", "telemetry", "logging", "headers", "cors">>

\* A function of the application in the route table.
NativeWrappers == <<"logging", "headers", "cors">>

\* No route matches: the not-found policy, or the application's own fetch.
FallbackWrappers ==
  IF config.target = "fallback" THEN <<"headers", "telemetry", "logging", "cors">> ELSE <<"logging", "cors">>

Wrappers ==
  CASE config.target = "route" -> RouteWrappers
    [] config.target = "native" -> NativeWrappers
    [] OTHER -> FallbackWrappers

On(w) ==
  CASE w = "etag" -> config.etag # "off"
    [] w = "compression" -> config.compression.on
    [] w = "telemetry" -> config.telemetry
    [] w = "logging" -> config.logging.access \/ config.logging.requestIds
    [] w = "headers" -> config.secureHeaders = "on"
    [] w = "cors" -> config.cors.on

\* Whether a wrapper reads the body to its end before it goes on.
Buffers(w, res) ==
  \/ w = "etag" /\ ~untagged(res)
  \/ w = "compression" /\ ~incompressible(res)

Wrapping(w) == phase = "wrapping" /\ at <= Len(Wrappers) /\ Wrappers[at] = w

Onward(res) == response' = res /\ at' = at + 1 /\ UNCHANGED <<phase, request>>

\* A wrapper that is not configured was never put there.
Absent ==
  /\ \E w \in {"etag", "compression", "telemetry", "logging", "headers", "cors"} : Wrapping(w) /\ ~On(w)
  /\ Onward(response) /\ UNCHANGED <<origin, spanId, logged, cache>>

Etag ==
  /\ Wrapping("etag") /\ On("etag") /\ ~(Buffers("etag", response) /\ response.body = "endless")
  /\ Onward(applyEtag(response)) /\ UNCHANGED <<origin, spanId, logged, cache>>

Compress ==
  /\ Wrapping("compression") /\ On("compression")
  /\ ~(Buffers("compression", response) /\ response.body = "endless")
  /\ Onward(applyCompression(response)) /\ UNCHANGED <<origin, spanId, logged, cache>>

\* wrapTelemetryHandler: the id minted when the request came in is stamped on
\* the response; the fallback is given no makeRequestId.
Telemetry ==
  /\ Wrapping("telemetry") /\ On("telemetry")
  /\ Onward(IF spanId = "none" THEN response ELSE [response EXCEPT !.id = spanId])
  /\ UNCHANGED <<origin, spanId, logged, cache>>

\* Mutant: the access log mints an id of its own.
IdentityMinted == "log"

\* wrapLogHandler: the id a wrapper inside it has stamped, or a new one.
Identity == IF response.id = "none" THEN "log" ELSE response.id

AccessLog ==
  /\ Wrapping("logging") /\ On("logging")
  /\ LET id == IF config.logging.requestIds THEN Identity ELSE "none"
     IN /\ Onward(IF config.logging.requestIds THEN [response EXCEPT !.id = id] ELSE response)
        /\ logged' = IF config.logging.access /\ config.logging.level \in {"debug", "info"}
                     THEN [status |-> response.status, id |-> id] ELSE logged
  /\ UNCHANGED <<origin, spanId, cache>>

SecureHeaders ==
  /\ Wrapping("headers") /\ On("headers")
  /\ Onward([response EXCEPT !.secure = TRUE]) /\ UNCHANGED <<origin, spanId, logged, cache>>

Cors ==
  /\ Wrapping("cors") /\ On("cors")
  /\ Onward(applyResponseHeaders(response)) /\ UNCHANGED <<origin, spanId, logged, cache>>

-----------------------------------------------------------------------------
(* The server is sent a request.                                           *)

Sent(r) ==
  /\ request' = r /\ at' = 1 /\ logged' = NoEntry
  /\ IF config.cors.on /\ isPreflight(r)
     THEN phase' = "leaving" /\ response' = preflightResponse(r) /\ spanId' = "none"
     ELSE /\ phase' = "handling" /\ response' = Blank
          /\ spanId' = IF config.target = "route" /\ config.telemetry /\ config.logging.requestIds
                       THEN "span" ELSE "none"

\* The handler returns; its response may bring a coding, a range, a validator
\* or an id of the application's own.
Handle ==
  /\ phase = "handling"
  /\ phase' = "wrapping"
  /\ response' = [Blank EXCEPT
       !.status = current.status, !.content = current, !.body = current.body,
       !.etag = IF current.tagged THEN [kind |-> "app", of |-> current.id] ELSE NoTag,
       !.id = IF current.named THEN "app" ELSE "none"]
  /\ UNCHANGED <<origin, request, at, spanId, logged, cache>>

Leave ==
  /\ phase = "wrapping" /\ at > Len(Wrappers)
  /\ phase' = "leaving"
  /\ UNCHANGED <<origin, request, at, response, spanId, logged, cache>>

\* The application changes what the URL stands for.
Update(c) ==
  /\ phase \in {"idle", "handling"} /\ c # current /\ current' = c
  /\ UNCHANGED <<config, exchange, cache>>

-----------------------------------------------------------------------------
(* A shared cache, as HTTP lets it be: it serves and revalidates what it   *)
(* stored for a request that agrees on every header Vary names.            *)

Field(r, name) ==
  CASE name = "accept-encoding" -> {<<i, r.accept[i]>> : i \in DOMAIN r.accept}
    [] name = "origin" -> {r.origin}
    [] name = "method" -> {r.asks}
    [] name = "names" -> r.names

Selects(e, r) ==
  /\ r.method = e.request.method
  /\ \A name \in e.response.vary : Field(r, name) = Field(e.request, name)

\* A request of a client's own conditions goes to the server.
Plain(r) == r.method = "GET" /\ r.inm = {} /\ ~r.star

Forward(r) ==
  /\ phase = "idle" /\ Sent(r) /\ client' = r /\ held' = NoHold
  /\ UNCHANGED <<origin, stored, delivered>>

Revalidate(r, e) ==
  /\ phase = "idle" /\ Plain(r) /\ Selects(e, r) /\ e.response.etag.kind # "none"
  /\ Sent([r EXCEPT !.inm = {e.response.etag}]) /\ client' = r /\ held' = e
  /\ UNCHANGED <<origin, stored, delivered>>

Hit(r, e) ==
  /\ phase = "idle" /\ Plain(r) /\ Selects(e, r)
  /\ client' = r /\ held' = NoHold /\ delivered' = e.response /\ phase' = "cached"
  /\ UNCHANGED <<origin, request, at, response, spanId, logged, stored>>

\* What the cache may keep.
Storable(res) == Plain(client) /\ res.status = 200 /\ res.body \in {"short", "long"}

\* The client gets the response, or the stored one a 304 has confirmed.
Deliver ==
  /\ phase = "leaving"
  /\ phase' = "answered"
  /\ delivered' = IF held # NoHold /\ response.status = 304 THEN held.response ELSE response
  /\ LET fresh == [request |-> client, response |-> response]
         kept == {e \in stored : ~Selects(e, client)}
     IN stored' = IF Storable(response) /\ Cardinality(kept) < Slots THEN kept \cup {fresh} ELSE stored
  /\ UNCHANGED <<origin, request, at, response, spanId, logged, held, client>>

Done ==
  /\ phase \in {"answered", "cached"}
  /\ phase' = "idle" /\ request' = Silent /\ at' = 1 /\ response' = Blank /\ spanId' = "none"
  /\ logged' = NoEntry /\ held' = NoHold /\ client' = Silent /\ delivered' = Blank
  /\ UNCHANGED <<origin, stored>>

-----------------------------------------------------------------------------
Init ==
  /\ config \in Configs /\ current \in Contents
  /\ phase = "defining" /\ request = Silent /\ at = 1 /\ response = Blank
  /\ spanId = "none" /\ logged = NoEntry
  /\ stored = {} /\ held = NoHold /\ client = Silent /\ delivered = Blank

Wrap == Absent \/ Etag \/ Compress \/ Telemetry \/ AccessLog \/ SecureHeaders \/ Cors

Next ==
  \/ Define
  \/ \E c \in Contents : Update(c)
  \/ \E r \in Clients : Forward(r) \/ \E e \in stored : Revalidate(r, e) \/ Hit(r, e)
  \/ Handle \/ Wrap \/ Leave \/ Deliver \/ Done

Spec == Init /\ [][Next]_vars

-----------------------------------------------------------------------------
given == phase \in {"answered", "cached"}

\* No client is given a coding it does not accept, whoever the response was
\* made for: compression negotiates, and Vary keeps the result to the requests
\* that negotiate alike.
CodingFits ==
  given => \/ delivered.coding = "identity"
           \/ \E i \in DOMAIN client.accept :
                client.accept[i].coding = delivered.coding /\ client.accept[i].q > 0

\* The permission in a response is the one its reader's origin has, also in one
\* that was made for another reader; an allowed reader is never given one
\* without it, except in answer to a preflight; and credentials are never
\* allowed to every origin, whatever a callback says.
PermissionFits ==
  given /\ config.cors.on =>
    /\ \/ delivered.allow = evaluateOrigin(client.origin)
       \/ isPreflight(client) /\ delivered.allow = "none"
    /\ ~(delivered.allow = "*" /\ delivered.credentials)

\* A stored response that a 304 confirmed is what the handler answered.
Revalidated ==
  phase = "answered" /\ held # NoHold /\ response.status = 304 => delivered.content = response.content

\* The access entry, the telemetry events and the client name a request alike,
\* and the entry has the status the client gets.
OneIdentity ==
  phase = "answered" /\ ~(config.cors.on /\ isPreflight(request)) =>
    /\ logged # NoEntry => /\ logged.status = response.status
                           /\ config.logging.requestIds => logged.id = response.id /\ logged.id # "none"
    /\ spanId # "none" => response.id = spanId

=============================================================================
