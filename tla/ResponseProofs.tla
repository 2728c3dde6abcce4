---------------------------- MODULE ResponseProofs ----------------------------
(***************************************************************************)
(* The wrappers around a handler and the shared cache in front of them,    *)
(* for any configurations, contents, clients and size of the cache.        *)
(*                                                                         *)
(* What a response has to say about itself is made as it passes the        *)
(* wrappers; what is kept of it in the cache is that it says it of the     *)
(* request it was made for, and that it varies by every field of a request *)
(* it depends on.  A stored response selected for another request then     *)
(* says it of that one too.                                                *)
(*                                                                         *)
(* Then the cookies a response sets and later requests bring back, for any *)
(* arguments of cookie(), any cookies of others and any size of the jar.   *)
(***************************************************************************)
EXTENDS Exchange, Cookies, FiniteSetTheorems, WellFoundedInduction, TLAPS

Names == Codings \cup {"identity", "*"}

ResponseType ==
  [status : Nat, content : ContentType, body : {"none", "short", "long", "endless", "broken"}, coding : Names,
   etag : Tags, vary : SUBSET {"origin", "method", "names", "accept-encoding"}, secure : BOOLEAN,
   allow : STRING \cup Origins \cup {"none", "*"}, credentials : BOOLEAN, id : {"none", "app", "span", "log"}]

LEMMA Blanks == Blank \in ResponseType /\ NoContent \in ContentType
<1>1. 0 \in Nat /\ 204 \in {200, 204, 404}
  OBVIOUS
<1>2. /\ "binary" \in {"text", "binary", "event-stream"}
      /\ "none" \in {"none", "short", "long", "endless", "broken"}
      /\ "none" \in {"none", "app", "span", "log"} /\ "none" \in STRING \cup Origins \cup {"none", "*"}
      /\ "identity" \in Names
  BY DEF Names
<1>3. FALSE \in BOOLEAN /\ {} \in SUBSET {"origin", "method", "names", "accept-encoding"}
  BY Zenon
<1>4. NoContent \in ContentType
  BY <1>1, <1>2, <1>3, Zenon DEF NoContent, ContentType
<1>5. NoTag \in Tags
  BY DEF NoTag, Tags
<1> QED
  BY <1>1, <1>2, <1>3, <1>4, <1>5, Zenon DEF Blank, ResponseType

LEMMA Constants ==
  /\ \A c \in Configs : c \in ConfigType
  /\ \A c \in Contents : c \in ContentType
  /\ \A r \in Clients : r \in RequestType
  BY ContentsAssumption, ConfigsAssumption, ClientsAssumption

-----------------------------------------------------------------------------
(* What a response says of the request it answers.                         *)

Accepts(r, coding) == \E i \in DOMAIN r.accept : r.accept[i].coding = coding /\ r.accept[i].q > 0

\* Its coding is negotiated, and named in Vary.
Negotiated(res, r) == res.coding = "identity" \/ (Accepts(r, res.coding) /\ "accept-encoding" \in res.vary)

\* Its permission is that of the origin, which is named in Vary.
Permitted(res, r) ==
  config.cors.on => /\ res.allow = evaluateOrigin(r.origin) /\ "origin" \in res.vary
                    /\ ~(res.allow = "*" /\ res.credentials = TRUE)

\* Or it is a preflight's that grants nothing.
Granted(res, r) == Permitted(res, r) \/ (isPreflight(r) /\ res.allow = "none")

\* Its validator is of its own bytes, and they are the handler's.
Validated(res) == res.etag.kind \in {"strong", "weak"} => res.content \in Contents /\ res.etag.of = res.content.id

\* What a request's conditions name.
Conditional(r, tag) == r.star \/ \E t \in r.inm : [t EXCEPT !.kind = IF @ = "weak" THEN "strong" ELSE @] = tag

\* A 304 is of the bytes that a condition of its request names.
Confirmed(res, r) ==
  res.status = 304 =>
    /\ config.etag \in {"strong", "weak"}
    /\ res.content \in Contents /\ res.etag = [kind |-> config.etag, of |-> res.content.id]
    /\ Conditional(r, res.etag)

Sound(res, r) == res \in ResponseType /\ Negotiated(res, r) /\ Validated(res) /\ Confirmed(res, r)

\* CORS, outermost, has not seen it.
Unshared(res) == res.allow = "none" /\ res.credentials = FALSE

-----------------------------------------------------------------------------
(* The invariant.                                                          *)

Phases == {"defining", "refused", "idle", "handling", "wrapping", "leaving", "answered", "cached"}

Typed ==
  /\ config \in Configs /\ current \in Contents /\ phase \in Phases
  /\ phase \notin {"defining", "refused"} => Valid(config)

\* What the cache keeps was sound for the request it keeps it with.
Kept(e) ==
  /\ e.request \in RequestType /\ e.response \in ResponseType
  /\ Negotiated(e.response, e.request) /\ Permitted(e.response, e.request) /\ Validated(e.response)

AllKept == \A e \in stored : Kept(e)

\* The server is asked what the client asked, or whether what is held still is it.
Asked ==
  /\ client \in RequestType
  /\ held = NoHold => request = client
  /\ held # NoHold => /\ Kept(held) /\ Plain(client) /\ Selects(held, client)
                      /\ request = [client EXCEPT !.inm = {held.response.etag}]

busy == phase \in {"handling", "wrapping", "leaving", "answered"}

\* A wrapper that the response has not reached.
Later(w) == \E i \in at .. Len(Wrappers) : Wrappers[i] = w

Spanned == spanId # "none" => spanId = "span" /\ config.target = "route" /\ config.telemetry

\* The entry of the access log is of the response as it is.
Entered == logged # NoEntry => /\ logged.status = response.status
                               /\ config.logging.requestIds => logged.id = response.id /\ logged.id # "none"

Passing ==
  /\ at \in 1 .. Len(Wrappers) + 1
  /\ response.content \in Contents /\ Sound(response, request)
  /\ at <= Len(Wrappers) => Unshared(response)
  /\ at > Len(Wrappers) => Permitted(response, request)
  /\ spanId # "none" => response.id = spanId \/ Later("telemetry")
  /\ Entered /\ (logged # NoEntry => ~Later("logging"))

Ready ==
  /\ Sound(response, request) /\ Granted(response, request)
  /\ (config.cors.on /\ isPreflight(request)) \/ (Entered /\ (spanId # "none" => response.id = spanId))

Received ==
  /\ client \in RequestType /\ delivered \in ResponseType
  /\ Negotiated(delivered, client) /\ Granted(delivered, client)

IInv ==
  /\ Typed /\ AllKept
  /\ busy => Asked /\ Spanned
  /\ phase = "handling" => at = 1 /\ logged = NoEntry
  /\ phase = "wrapping" => Passing
  /\ phase \in {"leaving", "answered"} => Ready
  /\ given => Received
  /\ Revalidated

-----------------------------------------------------------------------------
(* The choice of a coding.                                                 *)

\* A preference over a finite set has a first choice.
LEMMA FirstChoice ==
  ASSUME NEW S \in SUBSET Nat, IsFiniteSet(S), S # {}, NEW q \in [S -> Nat]
  PROVE  \E i \in S : \A j \in S : q[i] >= q[j] /\ (q[i] = q[j] => i <= j)
<1> DEFINE better(i) == {j \in S : q[j] > q[i] \/ (q[j] = q[i] /\ j < i)}
           T == {better(i) : i \in S}
<1>1. IsWellFoundedOn(StrictSubsetOrdering(S), FiniteSubsetsOf(S))
  BY FS_StrictSubsetOrderingWellFounded
<1>2. T \subseteq FiniteSubsetsOf(S) /\ T # {}
  <2>1. FiniteSubsetsOf(S) = SUBSET S
    BY FS_FiniteSubsetsOfFinite
  <2>2. \A i \in S : better(i) \in SUBSET S
    OBVIOUS
  <2> HIDE DEF better
  <2>3. T \subseteq SUBSET S
    BY <2>2
  <2>4. T # {}
    OBVIOUS
  <2> QED
    BY <2>1, <2>3, <2>4
<1>3. PICK x \in T : \A y \in T : <<y, x>> \notin StrictSubsetOrdering(S)
  <2> HIDE DEF T
  <2> QED
    BY <1>1, <1>2, WFMin
<1>4. PICK i \in S : x = better(i)
  BY <1>3
<1>5. ASSUME NEW j \in better(i) PROVE FALSE
  <2>1. j \in S /\ better(j) \in T /\ better(j) \subseteq S /\ better(i) \subseteq S
    OBVIOUS
  <2>2. better(j) \subseteq better(i)
    <3> SUFFICES ASSUME NEW k \in better(j) PROVE k \in better(i)
      OBVIOUS
    <3>1. q[i] \in Nat /\ q[j] \in Nat /\ q[k] \in Nat /\ i \in Nat /\ j \in Nat /\ k \in Nat /\ k \in S
      OBVIOUS
    <3>2. (q[k] > q[j] \/ (q[k] = q[j] /\ k < j)) /\ (q[j] > q[i] \/ (q[j] = q[i] /\ j < i))
      BY <1>5
    <3>3. q[k] > q[i] \/ (q[k] = q[i] /\ k < i)
      BY <3>1, <3>2
    <3> QED
      BY <3>1, <3>3
  <2>3. j \notin better(j)
    OBVIOUS
  <2>4. better(j) # better(i)
    BY <1>5, <2>3
  <2> HIDE DEF better
  <2>5. <<better(j), better(i)>> \in StrictSubsetOrdering(S)
    BY <2>1, <2>2, <2>4 DEF StrictSubsetOrdering
  <2> QED
    BY <1>3, <1>4, <2>1, <2>5
<1>6. \A j \in S : ~(q[j] > q[i] \/ (q[j] = q[i] /\ j < i))
  BY <1>5
<1> QED
  BY <1>6

LEMMA Chosen ==
  ASSUME NEW r \in RequestType
  PROVE  chosen(r) \in Names /\ (chosen(r) = "identity" \/ Accepts(r, chosen(r)))
<1> DEFINE usable == {i \in parseAcceptEncoding(r) : r.accept[i].coding \in offered}
           best == {i \in usable : \A j \in usable : r.accept[i].q >= r.accept[j].q}
           k == CHOOSE i \in best : \A j \in best : i <= j
<1>0. chosen(r) = IF usable = {} THEN "identity" ELSE r.accept[k].coding
  BY DEF chosen
<1>1. CASE usable = {}
  <2>1. chosen(r) = "identity"
    <3> HIDE DEF usable, k
    <3> QED
      BY <1>0, <1>1
  <2> QED
    BY <2>1 DEF Names
<1>2. CASE usable # {}
  <2> DEFINE q == [i \in usable |-> r.accept[i].q]
  <2>0. r.accept \in Seq([coding : Codings \cup {"identity", "*"}, q : Nat])
    BY DEF RequestType
  <2>1. /\ usable \subseteq DOMAIN r.accept /\ DOMAIN r.accept = 1 .. Len(r.accept) /\ Len(r.accept) \in Nat
        /\ \A i \in DOMAIN r.accept : r.accept[i].q \in Nat /\ r.accept[i].coding \in Names
    <3> DEFINE Elem == [coding : Codings \cup {"identity", "*"}, q : Nat]
    <3>1. \A e \in Elem : e.q \in Nat /\ e.coding \in Names
      BY DEF Names
    <3>2. r.accept \in Seq(Elem)
      BY <2>0
    <3> HIDE DEF Elem
    <3>3. /\ DOMAIN r.accept = 1 .. Len(r.accept) /\ Len(r.accept) \in Nat
          /\ \A i \in 1 .. Len(r.accept) : r.accept[i] \in Elem
      BY <3>2
    <3> QED
      BY <3>1, <3>3 DEF parseAcceptEncoding
  <2>2. usable \in SUBSET Nat /\ IsFiniteSet(usable) /\ q \in [usable -> Nat]
    <3>1. usable \in SUBSET (1 .. Len(r.accept)) /\ IsFiniteSet(1 .. Len(r.accept))
      BY <2>1, FS_Interval
    <3>2. IsFiniteSet(usable)
      BY <3>1, FS_Subset
    <3>3. \A i \in usable : r.accept[i].q \in Nat
      BY <2>1
    <3> QED
      BY <3>1, <3>2, <3>3
  <2>3. PICK i \in usable : \A j \in usable : q[i] >= q[j] /\ (q[i] = q[j] => i <= j)
    <3> HIDE DEF usable, q
    <3> QED
      BY <1>2, <2>2, FirstChoice
  <2>4. i \in best /\ \A j \in best : i <= j
    <3>1. i \in best
      BY <2>3
    <3>2. ASSUME NEW j \in best PROVE i <= j
      <4>1. j \in usable /\ r.accept[j].q >= r.accept[i].q
        BY <2>3
      <4>2. r.accept[i].q >= r.accept[j].q /\ r.accept[i].q \in Nat /\ r.accept[j].q \in Nat
        BY <2>1, <2>3, <4>1
      <4>3. q[i] = q[j]
        BY <2>3, <4>1, <4>2
      <4> QED
        BY <2>3, <4>1, <4>3
    <3> QED
      BY <3>1, <3>2
  <2>5. k \in best
    <3> HIDE DEF best
    <3> QED
      BY <2>4
  <2>6. k \in DOMAIN r.accept /\ r.accept[k].q > 0 /\ r.accept[k].coding \in Names
    <3>1. k \in parseAcceptEncoding(r)
      BY <2>5
    <3> HIDE DEF k
    <3> QED
      BY <2>1, <3>1 DEF parseAcceptEncoding
  <2>7. chosen(r) = r.accept[k].coding
    BY <1>0, <1>2
  <2> HIDE DEF k
  <2> QED
    BY <2>6, <2>7 DEF Accepts
<1> QED
  BY <1>1, <1>2
-----------------------------------------------------------------------------
(***************************************************************************)
(* The wrappers, one lemma each.                                           *)
(***************************************************************************)

\* What a response says rests on its status, content, validator, coding and Vary.
LEMMA Carried ==
  ASSUME NEW res, NEW x \in ResponseType, NEW r, Sound(res, r),
         x.status = res.status, x.content = res.content, x.etag = res.etag, x.coding = res.coding,
         res.vary \subseteq x.vary
  PROVE  Sound(x, r)
<1>1. Negotiated(x, r)
  BY DEF Sound, Negotiated
<1>2. Validated(x)
  BY DEF Sound, Validated
<1>3. Confirmed(x, r)
  BY DEF Sound, Confirmed
<1> QED
  BY <1>1, <1>2, <1>3 DEF Sound

LEMMA EtagSound ==
  ASSUME Sound(response, request), Unshared(response), response.content \in Contents,
         config.etag \in {"strong", "weak"}
  PROVE  /\ Sound(applyEtag(response), request) /\ Unshared(applyEtag(response))
         /\ applyEtag(response).content \in Contents
<1> DEFINE res == response
           tag == etagOf(res)
           blank == Blank
           code == 304
           unchanged == [blank EXCEPT !.status = code, !.content = res.content, !.etag = tag]
           tagged == [res EXCEPT !.etag = tag]
<1>1. res \in ResponseType /\ res.content \in ContentType /\ res.content.id \in Nat
  BY Constants DEF Sound, ContentType
<1>2. tag = [kind |-> config.etag, of |-> res.content.id] /\ tag \in Tags
  BY <1>1 DEF etagOf, Tags
<1>3. CASE untagged(res) \/ res.body = "broken"
  BY <1>3 DEF applyEtag
<1>4. CASE ~(untagged(res) \/ res.body = "broken") /\ ifNoneMatchMatches(tag)
  <2>1. applyEtag(res) = unchanged
    BY <1>4 DEF applyEtag
  <2>2. blank \in ResponseType /\ blank.coding = "identity" /\ blank.allow = "none" /\ blank.credentials = FALSE
    BY Blanks DEF Blank
  <2>3. Conditional(request, tag)
    BY <1>4 DEF ifNoneMatchMatches, Conditional
  <2> HIDE DEF tag, blank
  <2>4. /\ unchanged \in ResponseType /\ unchanged.status = 304 /\ unchanged.content = res.content /\ unchanged.etag = tag
        /\ unchanged.coding = "identity" /\ unchanged.allow = "none" /\ unchanged.credentials = FALSE
    <3>1. code \in Nat /\ code = 304
      OBVIOUS
    <3> HIDE DEF code
    <3>2. unchanged \in ResponseType
      <4>1. res.content \in ContentType /\ tag \in Tags /\ blank \in ResponseType /\ code \in Nat
        BY <1>1, <1>2, <2>2, <3>1
      <4> HIDE DEF res
      <4> QED
        BY ONLY <4>1 DEF ResponseType
    <3>3. unchanged.status = 304 /\ unchanged.content = res.content /\ unchanged.etag = tag
      BY <2>2, <3>1 DEF ResponseType
    <3>4. unchanged.coding = "identity" /\ unchanged.allow = "none" /\ unchanged.credentials = FALSE
      BY <2>2 DEF ResponseType
    <3> QED
      BY <3>2, <3>3, <3>4
  <2> HIDE DEF unchanged
  <2>5. Negotiated(unchanged, request) /\ Validated(unchanged)
    BY <1>2, <2>4 DEF Negotiated, Validated
  <2>6. Confirmed(unchanged, request)
    BY <1>2, <2>3, <2>4 DEF Confirmed
  <2> QED
    BY <2>1, <2>4, <2>5, <2>6 DEF Sound, Unshared
<1>5. CASE ~(untagged(res) \/ res.body = "broken") /\ ~ifNoneMatchMatches(tag)
  <2>1. applyEtag(res) = tagged
    BY <1>5 DEF applyEtag
  <2> HIDE DEF tag
  <2>2. /\ tagged \in ResponseType /\ tagged.status = res.status /\ tagged.content = res.content /\ tagged.etag = tag
        /\ tagged.coding = res.coding /\ tagged.allow = res.allow /\ tagged.credentials = res.credentials /\ tagged.vary = res.vary
    BY <1>1, <1>2 DEF ResponseType
  <2>3. res.status # 304
    BY <1>5 DEF untagged, Bodyless
  <2> HIDE DEF tagged
  <2>4. Negotiated(tagged, request) /\ Validated(tagged) /\ Confirmed(tagged, request)
    BY <1>2, <2>2, <2>3 DEF Sound, Negotiated, Validated, Confirmed
  <2> QED
    BY <2>1, <2>2, <2>4 DEF Sound, Unshared
<1> QED
  BY <1>3, <1>4, <1>5

LEMMA CompressionSound ==
  ASSUME Sound(response, request), Unshared(response), response.content \in Contents, request \in RequestType
  PROVE  /\ Sound(applyCompression(response), request) /\ Unshared(applyCompression(response))
         /\ applyCompression(response).content \in Contents /\ applyCompression(response).id = response.id
<1> DEFINE res == response
           varied == [res EXCEPT !.vary = @ \cup {"accept-encoding"}]
           coded == [varied EXCEPT !.coding = chosen(request)]
<1>1. res \in ResponseType
  BY DEF Sound
<1>2. /\ varied \in ResponseType /\ varied.status = res.status /\ varied.content = res.content /\ varied.etag = res.etag
      /\ varied.coding = res.coding /\ varied.allow = res.allow /\ varied.credentials = res.credentials
      /\ varied.vary = res.vary \cup {"accept-encoding"} /\ varied.id = res.id
  BY <1>1 DEF ResponseType
<1>3. /\ coded \in ResponseType /\ coded.status = res.status /\ coded.content = res.content /\ coded.etag = res.etag
      /\ coded.coding = chosen(request) /\ coded.allow = res.allow /\ coded.credentials = res.credentials
      /\ coded.vary = res.vary \cup {"accept-encoding"} /\ coded.id = res.id
  <2> HIDE DEF varied
  <2> QED
    BY <1>2, Chosen DEF ResponseType
<1>4. applyCompression(res) \in {res, varied, coded}
  BY DEF applyCompression
<1> HIDE DEF varied, coded
<1>5. CASE applyCompression(res) = res
  BY <1>5
<1>6. CASE applyCompression(res) = varied
  <2>1. Sound(varied, request)
    BY <1>2, Carried
  <2> QED
    BY <1>2, <1>6, <2>1 DEF Unshared
<1>7. CASE applyCompression(res) = coded
  <2>1. Negotiated(coded, request) /\ Validated(coded)
    BY <1>3, Chosen DEF Sound, Negotiated, Validated
  <2>2. Confirmed(coded, request)
    BY <1>3 DEF Sound, Confirmed
  <2> QED
    BY <1>3, <1>7, <2>1, <2>2 DEF Sound, Unshared
<1> QED
  BY <1>4, <1>5, <1>6, <1>7

\* A callback's answer, and the configured origins, never allow every origin
\* with credentials.
LEMMA OriginSound ==
  ASSUME config \in ConfigType, Valid(config), NEW o \in Origins \cup {"none"}
  PROVE  /\ evaluateOrigin(o) \in STRING \cup Origins \cup {"none", "*"}
         /\ config.cors.on /\ evaluateOrigin(o) = "*" => config.cors.credentials = FALSE
<1>1. /\ config.cors.decide \in [Origins -> STRING] /\ config.cors.credentials \in BOOLEAN
      /\ config.cors.callback \in BOOLEAN
  BY DEF ConfigType
<1>2. CASE o = "none"
  BY <1>2 DEF evaluateOrigin
<1>3. CASE o # "none" /\ config.cors.callback
  <2> DEFINE d == config.cors.decide[o]
  <2>0. o \in Origins /\ o # "*" /\ d \in STRING
    BY <1>1, <1>3 DEF Origins
  <2>1. evaluateOrigin(o) = CASE d = "yes" -> o
                              [] d = "no" -> "none"
                              [] d = "*" -> IF config.cors.credentials THEN "none" ELSE "*"
                              [] OTHER -> d
    BY <1>3 DEF evaluateOrigin
  <2> HIDE DEF d
  <2>2. CASE d = "yes"
    BY <2>0, <2>1, <2>2
  <2>3. CASE d = "no"
    BY <2>1, <2>3
  <2>4. CASE d = "*"
    BY <1>1, <2>1, <2>4
  <2>5. CASE d \notin {"yes", "no", "*"}
    <3>1. evaluateOrigin(o) = d
      BY <2>1, <2>5
    <3> QED
      BY <2>0, <2>5, <3>1
  <2> QED
    BY <2>2, <2>3, <2>4, <2>5
<1>4. CASE o # "none" /\ ~config.cors.callback
  <2>1. evaluateOrigin(o) = IF config.cors.origins = {"*"} THEN "*" ELSE IF o \in config.cors.origins THEN o ELSE "none"
    BY <1>4 DEF evaluateOrigin
  <2>2. config.cors.on /\ config.cors.origins = {"*"} => config.cors.credentials = FALSE
    BY <1>1, <1>4 DEF Valid, ValidCors
  <2> QED
    BY <1>4, <2>1, <2>2 DEF Origins
<1> QED
  BY <1>2, <1>3, <1>4

LEMMA CorsSound ==
  ASSUME Sound(response, request), Unshared(response), response.content \in Contents, request \in RequestType,
         config \in ConfigType, Valid(config), config.cors.on
  PROVE  /\ Sound(applyResponseHeaders(response), request) /\ Permitted(applyResponseHeaders(response), request)
         /\ applyResponseHeaders(response).content \in Contents
         /\ applyResponseHeaders(response).status = response.status /\ applyResponseHeaders(response).id = response.id
<1> DEFINE res == response
           echo == evaluateOrigin(request.origin)
           varied == [res EXCEPT !.vary = @ \cup {"origin"}]
           shared == [varied EXCEPT !.allow = echo, !.credentials = config.cors.credentials]
<1>1. res \in ResponseType /\ request.origin \in Origins \cup {"none"} /\ config.cors.credentials \in BOOLEAN
  BY DEF Sound, RequestType, ConfigType
<1>2. /\ echo \in STRING \cup Origins \cup {"none", "*"}
      /\ echo = "*" => config.cors.credentials = FALSE
  BY <1>1, OriginSound
<1>3. /\ varied \in ResponseType /\ varied.status = res.status /\ varied.content = res.content /\ varied.etag = res.etag
      /\ varied.coding = res.coding /\ varied.allow = res.allow /\ varied.credentials = res.credentials
      /\ varied.vary = res.vary \cup {"origin"} /\ varied.id = res.id
  BY <1>1 DEF ResponseType
<1>5. applyResponseHeaders(res) = IF echo = "none" THEN varied ELSE shared
  BY DEF applyResponseHeaders
<1> HIDE DEF echo
<1>4. /\ shared \in ResponseType /\ shared.status = res.status /\ shared.content = res.content /\ shared.etag = res.etag
      /\ shared.coding = res.coding /\ shared.allow = echo /\ shared.credentials = config.cors.credentials
      /\ shared.vary = res.vary \cup {"origin"} /\ shared.id = res.id
  <2> HIDE DEF varied
  <2> QED
    BY <1>1, <1>2, <1>3 DEF ResponseType
<1> HIDE DEF varied, shared
<1>6. CASE echo = "none"
  <2>1. Sound(varied, request)
    BY <1>3, Carried
  <2>2. Permitted(varied, request)
    BY <1>3, <1>6 DEF Unshared, Permitted, echo
  <2> QED
    BY <1>3, <1>5, <1>6, <2>1, <2>2
<1>7. CASE echo # "none"
  <2>1. Sound(shared, request)
    BY <1>4, Carried
  <2>2. Permitted(shared, request)
    BY <1>2, <1>4 DEF Permitted, echo
  <2> QED
    BY <1>4, <1>5, <1>7, <2>1, <2>2
<1> QED
  BY <1>6, <1>7

-----------------------------------------------------------------------------
(* The order of the wrappers.                                              *)

LEMMA Order ==
  ASSUME config \in ConfigType
  PROVE  /\ Len(Wrappers) \in Nat /\ Len(Wrappers) >= 1
         /\ \A i \in 1 .. Len(Wrappers) : Wrappers[i] = "cors" <=> i = Len(Wrappers)
         /\ \E i \in 1 .. Len(Wrappers) : Wrappers[i] = "logging"
         /\ \A i, j \in 1 .. Len(Wrappers) :
              Wrappers[j] = "logging" =>
                /\ Wrappers[i] \in {"etag", "compression", "telemetry"} => i < j
                /\ Wrappers[i] = "logging" => i = j
         /\ config.target = "route" =>
              \E j \in 1 .. Len(Wrappers) :
                Wrappers[j] = "telemetry" /\ \A i \in 1 .. Len(Wrappers) : Wrappers[i] = "etag" => i < j
<1>1. CASE config.target = "route"
  <2>1. Wrappers = <<"etag", "compression", "telemetry", "logging", "headers", "cors">>
    BY <1>1 DEF Wrappers, RouteWrappers
  <2> HIDE DEF Wrappers
  <2>2. /\ Len(Wrappers) = 6 /\ Wrappers[1] = "etag" /\ Wrappers[2] = "compression" /\ Wrappers[3] = "telemetry"
        /\ Wrappers[4] = "logging" /\ Wrappers[5] = "headers" /\ Wrappers[6] = "cors"
    BY <2>1
  <2>3. \A i \in 1 .. Len(Wrappers) : i \in {1, 2, 3, 4, 5, 6}
    BY <2>2
  <2> QED
    BY <2>2, <2>3
<1>2. CASE config.target = "fallback"
  <2>1. Wrappers = <<"headers", "telemetry", "logging", "cors">>
    BY <1>2 DEF Wrappers, FallbackWrappers
  <2>2. /\ Len(Wrappers) = 4 /\ Wrappers[1] = "headers" /\ Wrappers[2] = "telemetry"
        /\ Wrappers[3] = "logging" /\ Wrappers[4] = "cors"
    BY <2>1
  <2>3. \A i \in 1 .. Len(Wrappers) : i \in {1, 2, 3, 4}
    BY <2>2
  <2> QED
    BY <1>2, <2>2, <2>3
<1>3. CASE config.target = "native"
  <2>1. Wrappers = <<"logging", "headers", "cors">>
    BY <1>3 DEF Wrappers, NativeWrappers
  <2>2. Len(Wrappers) = 3 /\ Wrappers[1] = "logging" /\ Wrappers[2] = "headers" /\ Wrappers[3] = "cors"
    BY <2>1
  <2>3. \A i \in 1 .. Len(Wrappers) : i \in {1, 2, 3}
    BY <2>2
  <2> QED
    BY <1>3, <2>2, <2>3
<1>4. CASE config.target = "fetch"
  <2>1. Wrappers = <<"logging", "cors">>
    BY <1>4 DEF Wrappers, FallbackWrappers
  <2>2. Len(Wrappers) = 2 /\ Wrappers[1] = "logging" /\ Wrappers[2] = "cors"
    BY <2>1
  <2>3. \A i \in 1 .. Len(Wrappers) : i \in {1, 2}
    BY <2>2
  <2> QED
    BY <1>4, <2>2, <2>3
<1> QED
  BY <1>1, <1>2, <1>3, <1>4 DEF ConfigType

-----------------------------------------------------------------------------
(* What rests on the configuration alone does not change.                  *)

LEMMA Frame ==
  ASSUME config' = config, NEW x, NEW r
  PROVE  /\ (Sound(x, r))' <=> Sound(x, r)
         /\ (Permitted(x, r))' <=> Permitted(x, r)
         /\ (Granted(x, r))' <=> Granted(x, r)
<1>1. (Sound(x, r))' <=> Sound(x, r)
  BY DEF Sound, Confirmed, Negotiated, Validated, Conditional, Accepts
<1>2. (Permitted(x, r))' <=> Permitted(x, r)
  BY DEF Permitted, evaluateOrigin
<1>3. (Granted(x, r))' <=> Granted(x, r)
  BY <1>2 DEF Granted, isPreflight
<1> QED
  BY <1>1, <1>2, <1>3

LEMMA KeptFrame ==
  ASSUME config' = config, NEW e, Kept(e)
  PROVE  (Kept(e))'
<1>1. (Permitted(e.response, e.request))'
  BY Frame DEF Kept
<1> QED
  BY <1>1 DEF Kept, Negotiated, Accepts, Validated

LEMMA AskedStays ==
  ASSUME Asked, Spanned, UNCHANGED <<config, request, held, client, spanId>>
  PROVE  Asked' /\ Spanned'
<1>1. held # NoHold => (Kept(held))'
  BY KeptFrame DEF Asked
<1>2. held # NoHold => (Plain(client) /\ Selects(held, client))'
  <2> SUFFICES ASSUME held # NoHold PROVE (Plain(client))' /\ (Selects(held, client))'
    BY Zenon
  <2>1. Plain(client) /\ Selects(held, client)
    BY DEF Asked
  <2>2. (Plain(client))'
    BY <2>1 DEF Plain
  <2>3. (Selects(held, client))'
    BY <2>1 DEF Selects
  <2> QED
    BY <2>2, <2>3
<1>3. Spanned'
  BY DEF Spanned
<1>4. /\ (client \in RequestType)' /\ (held = NoHold => request = client)'
      /\ (held # NoHold => request = [client EXCEPT !.inm = {held.response.etag}])'
  BY DEF Asked
<1> QED
  BY <1>1, <1>2, <1>3, <1>4 DEF Asked

\* A step that keeps the configuration keeps what is said of the cache.
LEMMA Steady ==
  ASSUME IInv, config' = config, current' \in Contents, phase' \in Phases,
         phase' \notin {"defining", "refused"} => Valid(config), stored' = stored
  PROVE  Typed' /\ AllKept'
<1>1. Typed'
  BY DEF IInv, Typed, Valid, ValidCompression, ValidCors, ValidEtag, ValidSecureHeaders, ValidLogging
<1>2. \A e \in stored : (Kept(e))'
  BY KeptFrame DEF IInv, AllKept
<1> QED
  BY <1>1, <1>2 DEF AllKept

-----------------------------------------------------------------------------
(* The wrappers in their order.                                            *)

LEMMA Onwards ==
  ASSUME config \in ConfigType, at \in 1 .. Len(Wrappers), config' = config, at' = at + 1, spanId' = spanId,
         response'.content \in Contents, (Sound(response, request))',
         Wrappers[at] # "cors" => (Unshared(response))',
         Wrappers[at] = "cors" => (Permitted(response, request))',
         spanId # "none" => \/ response'.id = spanId
                            \/ \E i \in at + 1 .. Len(Wrappers) : Wrappers[i] = "telemetry",
         Entered', logged' # NoEntry => \A i \in at + 1 .. Len(Wrappers) : Wrappers[i] # "logging"
  PROVE  Passing'
<1>1. Wrappers' = Wrappers
  BY DEF Wrappers, RouteWrappers, NativeWrappers, FallbackWrappers
<1>2. \A w : (Later(w))' <=> \E i \in at + 1 .. Len(Wrappers) : Wrappers[i] = w
  BY <1>1 DEF Later
<1>3. Len(Wrappers) \in Nat /\ (Wrappers[at] = "cors" <=> at = Len(Wrappers)) /\ at \in Nat
  BY Order
<1>4. at' \in 1 .. Len(Wrappers') + 1
  BY <1>1, <1>3
<1>5. (at' <= Len(Wrappers') => (Unshared(response))') /\ (at' > Len(Wrappers') => (Permitted(response, request))')
  BY <1>1, <1>3
<1>6. /\ spanId' # "none" => response'.id = spanId' \/ (Later("telemetry"))'
      /\ logged' # NoEntry => ~(Later("logging"))'
  BY <1>2
<1> QED
  BY <1>4, <1>5, <1>6 DEF Passing

\* What a wrapper finds.
LEMMA AtWrapper ==
  ASSUME IInv, NEW w, Wrapping(w)
  PROVE  /\ config \in ConfigType /\ Valid(config) /\ request \in RequestType /\ Spanned
         /\ at \in 1 .. Len(Wrappers) /\ Wrappers[at] = w
         /\ Len(Wrappers) \in Nat /\ at \in Nat
         /\ Sound(response, request) /\ response \in ResponseType /\ Unshared(response) /\ response.content \in Contents
         /\ spanId # "none" => response.id = spanId \/ \E i \in at .. Len(Wrappers) : Wrappers[i] = "telemetry"
         /\ Entered /\ (logged # NoEntry => \A i \in at .. Len(Wrappers) : Wrappers[i] # "logging")
<1>1. config \in ConfigType /\ Valid(config) /\ Passing /\ Asked /\ Spanned
  BY Constants DEF IInv, Typed, Wrapping, busy
<1>2. request \in RequestType
  <2>1. CASE held = NoHold
    BY <1>1, <2>1 DEF Asked
  <2>2. CASE held # NoHold
    <3>1. client \in RequestType /\ held.response \in ResponseType /\ request = [client EXCEPT !.inm = {held.response.etag}]
      BY <1>1, <2>2 DEF Asked, Kept
    <3>2. held.response.etag \in Tags
      BY <3>1 DEF ResponseType
    <3> QED
      BY <3>1, <3>2 DEF RequestType
  <2> QED
    BY <2>1, <2>2
<1>3. at \in 1 .. Len(Wrappers) /\ Len(Wrappers) \in Nat /\ at \in Nat /\ Wrappers[at] = w
  BY <1>1, Order DEF Passing, Wrapping
<1> QED
  BY <1>1, <1>2, <1>3 DEF Passing, Later, Sound

\* Before the log, nothing is logged.
LEMMA Unlogged ==
  ASSUME IInv, NEW w \in {"etag", "compression", "telemetry", "logging"}, Wrapping(w)
  PROVE  logged = NoEntry
<1>1. /\ config \in ConfigType /\ at \in 1 .. Len(Wrappers) /\ Wrappers[at] = w /\ Len(Wrappers) \in Nat
      /\ logged # NoEntry => \A i \in at .. Len(Wrappers) : Wrappers[i] # "logging"
  BY AtWrapper
<1>2. PICK j \in 1 .. Len(Wrappers) : Wrappers[j] = "logging"
  BY <1>1, Order
<1>3. at < j \/ at = j
  BY <1>1, <1>2, Order
<1> QED
  BY <1>1, <1>2, <1>3

\* A wrapper that keeps what the response says of itself, and its id.
LEMMA Through ==
  ASSUME IInv, NEW w, Wrapping(w), w # "cors" \/ ~config.cors.on,
         Onward(response'), UNCHANGED <<origin, spanId, logged, cache>>,
         Sound(response', request), Unshared(response'), response'.content \in Contents,
         response'.id = response.id, response'.status = response.status \/ logged = NoEntry,
         w # "telemetry" \/ response.id = spanId \/ spanId = "none"
  PROVE  Passing'
<1>1. config' = config /\ at' = at + 1 /\ spanId' = spanId /\ request' = request /\ logged' = logged
  BY DEF Onward, origin
<1>2. (Sound(response, request))'
  BY <1>1, Frame
<1>3. (Unshared(response))'
  BY DEF Unshared
<1>4. Wrappers[at] = "cors" => (Permitted(response, request))'
  BY <1>1, AtWrapper DEF Permitted
<1>5. spanId # "none" => response'.id = spanId \/ \E i \in at + 1 .. Len(Wrappers) : Wrappers[i] = "telemetry"
  BY AtWrapper
<1>6. Entered'
  BY <1>1, AtWrapper DEF Entered
<1>7. logged' # NoEntry => \A i \in at + 1 .. Len(Wrappers) : Wrappers[i] # "logging"
  BY <1>1, AtWrapper
<1> QED
  BY <1>1, <1>2, <1>3, <1>4, <1>5, <1>6, <1>7, AtWrapper, Onwards

-----------------------------------------------------------------------------
(* The steps.                                                              *)

LEMMA AbsentStep ==
  ASSUME IInv, Absent
  PROVE  Passing'
<1>1. PICK w \in {"etag", "compression", "telemetry", "logging", "headers", "cors"} : Wrapping(w) /\ ~On(w)
  BY DEF Absent
<1>2. Onward(response) /\ UNCHANGED <<origin, spanId, logged, cache>>
  BY DEF Absent
<1>3. response' = response
  BY <1>2 DEF Onward
<1>4. w = "cors" => ~config.cors.on
  BY <1>1 DEF On
<1>5. w = "telemetry" => spanId = "none"
  BY <1>1, AtWrapper DEF On, Spanned
<1>6. Sound(response, request) /\ Unshared(response) /\ response.content \in Contents
  BY <1>1, AtWrapper
<1> QED
  BY <1>1, <1>2, <1>3, <1>4, <1>5, <1>6, Through

LEMMA EtagStep ==
  ASSUME IInv, Etag
  PROVE  Passing'
<1> DEFINE tagged == applyEtag(response)
<1>1. Wrapping("etag") /\ On("etag") /\ Onward(tagged) /\ UNCHANGED <<origin, spanId, logged, cache>>
  BY DEF Etag
<1>2. config.etag \in {"strong", "weak"}
  BY <1>1, AtWrapper DEF Valid, ValidEtag, On
<1>3. /\ config \in ConfigType /\ at \in 1 .. Len(Wrappers) /\ Wrappers[at] = "etag" /\ Spanned
      /\ Len(Wrappers) \in Nat /\ at \in Nat
      /\ Sound(response, request) /\ Unshared(response) /\ response.content \in Contents
  BY <1>1, AtWrapper
<1>4. Sound(tagged, request) /\ Unshared(tagged) /\ tagged.content \in Contents
  BY <1>2, <1>3, EtagSound
<1> HIDE DEF tagged
<1>5. /\ response' = tagged /\ config' = config /\ at' = at + 1 /\ spanId' = spanId /\ request' = request
      /\ logged' = logged
  BY <1>1 DEF Onward, origin
<1>6. logged = NoEntry
  BY <1>1, Unlogged
<1>7. (Sound(response, request))' /\ (Unshared(response))' /\ response'.content \in Contents
  BY <1>4, <1>5, Frame DEF Unshared
<1>8. spanId # "none" => \E i \in at + 1 .. Len(Wrappers) : Wrappers[i] = "telemetry"
  BY <1>3, Order DEF Spanned
<1>9. Entered' /\ (logged' # NoEntry => \A i \in at + 1 .. Len(Wrappers) : Wrappers[i] # "logging")
  BY <1>5, <1>6 DEF Entered, NoEntry
<1> QED
  BY <1>3, <1>5, <1>7, <1>8, <1>9, Onwards

LEMMA CompressStep ==
  ASSUME IInv, Compress
  PROVE  Passing'
<1> DEFINE coded == applyCompression(response)
<1>1. Wrapping("compression") /\ Onward(coded) /\ UNCHANGED <<origin, spanId, logged, cache>>
  BY DEF Compress
<1>2. /\ Sound(response, request) /\ Unshared(response) /\ response.content \in Contents /\ request \in RequestType
  BY <1>1, AtWrapper
<1>3. Sound(coded, request) /\ Unshared(coded) /\ coded.content \in Contents /\ coded.id = response.id
  BY <1>2, CompressionSound
<1>4. logged = NoEntry
  BY <1>1, Unlogged
<1> HIDE DEF coded
<1>5. response' = coded
  BY <1>1 DEF Onward
<1> QED
  BY <1>1, <1>3, <1>4, <1>5, Through

LEMMA TelemetryStep ==
  ASSUME IInv, Telemetry
  PROVE  Passing'
<1> DEFINE stamped == IF spanId = "none" THEN response ELSE [response EXCEPT !.id = spanId]
<1>1. Wrapping("telemetry") /\ Onward(stamped) /\ UNCHANGED <<origin, spanId, logged, cache>>
  BY DEF Telemetry
<1>2. /\ config \in ConfigType /\ at \in 1 .. Len(Wrappers) /\ Wrappers[at] = "telemetry" /\ Spanned
      /\ Sound(response, request) /\ response \in ResponseType /\ Unshared(response) /\ response.content \in Contents
  BY <1>1, AtWrapper
<1>3. /\ stamped \in ResponseType /\ stamped.status = response.status /\ stamped.content = response.content
      /\ stamped.etag = response.etag /\ stamped.coding = response.coding /\ stamped.vary = response.vary
      /\ stamped.allow = response.allow /\ stamped.credentials = response.credentials
      /\ spanId # "none" => stamped.id = spanId
  <2>1. CASE spanId = "none"
    BY <1>2, <2>1
  <2>2. CASE spanId # "none"
    <3>1. spanId = "span" /\ stamped = [response EXCEPT !.id = spanId]
      BY <1>2, <2>2 DEF Spanned
    <3> HIDE DEF stamped
    <3> QED
      BY <1>2, <3>1 DEF ResponseType
  <2> QED
    BY <2>1, <2>2
<1> HIDE DEF stamped
<1>4. Sound(stamped, request) /\ Unshared(stamped)
  BY <1>2, <1>3, Carried DEF Unshared
<1>5. /\ response' = stamped /\ config' = config /\ at' = at + 1 /\ spanId' = spanId /\ request' = request
      /\ logged' = logged
  BY <1>1 DEF Onward, origin
<1>6. logged = NoEntry
  BY <1>1, Unlogged
<1>7. (Sound(response, request))' /\ (Unshared(response))' /\ response'.content \in Contents
  BY <1>2, <1>3, <1>4, <1>5, Frame DEF Unshared
<1>8. spanId # "none" => response'.id = spanId
  BY <1>3, <1>5
<1>9. Entered' /\ (logged' # NoEntry => \A i \in at + 1 .. Len(Wrappers) : Wrappers[i] # "logging")
  BY <1>5, <1>6 DEF Entered, NoEntry
<1> QED
  BY <1>2, <1>5, <1>7, <1>8, <1>9, Onwards

LEMMA AccessLogStep ==
  ASSUME IInv, AccessLog
  PROVE  Passing'
<1> DEFINE id == IF config.logging.requestIds THEN Identity ELSE "none"
           named == IF config.logging.requestIds THEN [response EXCEPT !.id = id] ELSE response
           entry == IF config.logging.access /\ config.logging.level \in {"debug", "info"}
                    THEN [status |-> response.status, id |-> id] ELSE logged
<1>1. /\ Wrapping("logging") /\ Onward(named) /\ logged' = entry /\ UNCHANGED <<origin, spanId, cache>>
  BY DEF AccessLog
<1>2. /\ config \in ConfigType /\ at \in 1 .. Len(Wrappers) /\ Wrappers[at] = "logging" /\ Spanned
      /\ Len(Wrappers) \in Nat /\ at \in Nat
      /\ Sound(response, request) /\ response \in ResponseType /\ Unshared(response) /\ response.content \in Contents
      /\ spanId # "none" => response.id = spanId \/ \E i \in at .. Len(Wrappers) : Wrappers[i] = "telemetry"
  BY <1>1, AtWrapper
<1>3. logged = NoEntry
  BY <1>1, Unlogged
<1>4. \A i \in at + 1 .. Len(Wrappers) : Wrappers[i] \notin {"logging", "telemetry"}
  BY <1>2, Order
<1>5. spanId # "none" => response.id = spanId /\ spanId = "span"
  <2>1. \A i \in at .. Len(Wrappers) : i = at \/ i \in at + 1 .. Len(Wrappers)
    BY <1>2
  <2> QED
    BY <1>2, <1>4, <2>1 DEF Spanned
<1>6. /\ config.logging.requestIds => id \in {"none", "app", "span", "log"} /\ id # "none"
      /\ config.logging.requestIds /\ spanId # "none" => id = spanId
  <2>1. response.id \in {"none", "app", "span", "log"}
    BY <1>2 DEF ResponseType
  <2> QED
    BY <1>5, <2>1 DEF Identity
<1> HIDE DEF id
<1>7. /\ named \in ResponseType /\ named.status = response.status /\ named.content = response.content
      /\ named.etag = response.etag /\ named.coding = response.coding /\ named.vary = response.vary
      /\ named.allow = response.allow /\ named.credentials = response.credentials
      /\ named.id = IF config.logging.requestIds THEN id ELSE response.id
  <2>1. CASE config.logging.requestIds
    <3>1. named = [response EXCEPT !.id = id]
      BY <2>1
    <3> HIDE DEF named
    <3> QED
      BY <1>2, <1>6, <2>1, <3>1 DEF ResponseType
  <2>2. CASE ~config.logging.requestIds
    BY <1>2, <2>2
  <2> QED
    BY <2>1, <2>2
<1> HIDE DEF named
<1>8. Sound(named, request) /\ Unshared(named)
  BY <1>2, <1>7, Carried DEF Unshared
<1>9. /\ response' = named /\ config' = config /\ at' = at + 1 /\ spanId' = spanId /\ request' = request
  BY <1>1 DEF Onward, origin
<1>10. (Sound(response, request))' /\ (Unshared(response))' /\ response'.content \in Contents
  BY <1>2, <1>7, <1>8, <1>9, Frame DEF Unshared
<1>11. spanId # "none" => response'.id = spanId
  BY <1>5, <1>6, <1>7, <1>9
<1>12. Entered'
  <2>1. CASE entry = logged
    BY <1>1, <1>3, <2>1 DEF Entered, NoEntry
  <2>2. CASE entry = [status |-> response.status, id |-> id]
    <3>1. logged'.status = response'.status /\ logged'.id = id
      BY <1>1, <1>7, <1>9, <2>2
    <3>2. config'.logging.requestIds => logged'.id = response'.id /\ logged'.id # "none"
      BY <1>6, <1>7, <1>9, <3>1
    <3> QED
      BY <3>1, <3>2 DEF Entered
  <2> QED
    BY <2>1, <2>2
<1> QED
  BY <1>2, <1>4, <1>9, <1>10, <1>11, <1>12, Onwards

LEMMA SecureHeadersStep ==
  ASSUME IInv, SecureHeaders
  PROVE  Passing'
<1> DEFINE secured == [response EXCEPT !.secure = TRUE]
<1>1. Wrapping("headers") /\ Onward(secured) /\ UNCHANGED <<origin, spanId, logged, cache>>
  BY DEF SecureHeaders
<1>2. /\ Sound(response, request) /\ response \in ResponseType /\ Unshared(response) /\ response.content \in Contents
  BY <1>1, AtWrapper
<1>3. /\ secured \in ResponseType /\ secured.status = response.status /\ secured.content = response.content
      /\ secured.etag = response.etag /\ secured.coding = response.coding /\ secured.vary = response.vary
      /\ secured.allow = response.allow /\ secured.credentials = response.credentials /\ secured.id = response.id
  BY <1>2 DEF ResponseType
<1> HIDE DEF secured
<1>4. Sound(secured, request) /\ Unshared(secured) /\ secured.content \in Contents
  BY <1>2, <1>3, Carried DEF Unshared
<1>5. response' = secured
  BY <1>1 DEF Onward
<1> QED
  BY <1>1, <1>3, <1>4, <1>5, Through

LEMMA CorsStep ==
  ASSUME IInv, Cors
  PROVE  Passing'
<1> DEFINE shared == applyResponseHeaders(response)
<1>1. Wrapping("cors") /\ On("cors") /\ Onward(shared) /\ UNCHANGED <<origin, spanId, logged, cache>>
  BY DEF Cors
<1>2. /\ config \in ConfigType /\ Valid(config) /\ request \in RequestType /\ config.cors.on
      /\ at \in 1 .. Len(Wrappers) /\ Wrappers[at] = "cors" /\ Len(Wrappers) \in Nat /\ at \in Nat
      /\ Sound(response, request) /\ Unshared(response) /\ response.content \in Contents
      /\ spanId # "none" => response.id = spanId \/ \E i \in at .. Len(Wrappers) : Wrappers[i] = "telemetry"
      /\ Entered /\ (logged # NoEntry => \A i \in at .. Len(Wrappers) : Wrappers[i] # "logging")
  BY <1>1, AtWrapper DEF On
<1>3. /\ Sound(shared, request) /\ Permitted(shared, request) /\ shared.content \in Contents
      /\ shared.status = response.status /\ shared.id = response.id
  BY <1>2, CorsSound
<1> HIDE DEF shared
<1>4. /\ response' = shared /\ config' = config /\ at' = at + 1 /\ spanId' = spanId /\ request' = request
      /\ logged' = logged
  BY <1>1 DEF Onward, origin
<1>5. (Sound(response, request))' /\ (Permitted(response, request))' /\ response'.content \in Contents
  BY <1>3, <1>4, Frame
<1>6. spanId # "none" => response'.id = spanId \/ \E i \in at + 1 .. Len(Wrappers) : Wrappers[i] = "telemetry"
  <2>1. \A i \in at .. Len(Wrappers) : i = at \/ i \in at + 1 .. Len(Wrappers)
    BY <1>2
  <2> QED
    BY <1>2, <1>3, <1>4, <2>1
<1>7. Entered'
  BY <1>2, <1>3, <1>4 DEF Entered
<1>8. logged' # NoEntry => \A i \in at + 1 .. Len(Wrappers) : Wrappers[i] # "logging"
  BY <1>2, <1>4
<1> QED
  BY <1>2, <1>4, <1>5, <1>6, <1>7, <1>8, Onwards

\* The handler's own response.
LEMMA HandleStep ==
  ASSUME IInv, Handle
  PROVE  Passing'
<1> DEFINE tag == IF current.tagged THEN [kind |-> "app", of |-> current.id] ELSE NoTag
           id == IF current.named THEN "app" ELSE "none"
           blank == Blank
           made == [blank EXCEPT !.status = current.status, !.content = current, !.body = current.body,
                                 !.etag = tag, !.id = id]
<1>1. /\ config \in ConfigType /\ current \in Contents /\ current \in ContentType /\ Spanned
      /\ at = 1 /\ logged = NoEntry /\ phase = "handling"
  BY Constants DEF IInv, Typed, Handle, busy
<1>2. /\ response' = made /\ config' = config /\ at' = 1 /\ spanId' = spanId /\ request' = request /\ logged' = NoEntry
  BY <1>1 DEF Handle, origin
<1>3. current.status \in {200, 204, 404} /\ current.status \in Nat /\ current.id \in Nat
  <2>1. current.status \in {200, 204, 404} /\ current.id \in Nat
    BY <1>1 DEF ContentType
  <2>2. current.status \in Nat
    BY <2>1
  <2> QED
    BY <2>1, <2>2
<1>4. current.body \in {"none", "short", "long", "endless", "broken"}
  BY <1>1 DEF ContentType
<1>5. tag \in Tags /\ tag.kind \notin {"strong", "weak"}
  BY <1>3 DEF Tags, NoTag
<1>6. id \in {"none", "app", "span", "log"}
  OBVIOUS
<1>7. blank \in ResponseType /\ blank.coding = "identity" /\ blank.allow = "none" /\ blank.credentials = FALSE
  BY Blanks DEF Blank
<1> HIDE DEF tag, id, blank
<1>8. made \in ResponseType
  <2>1. /\ blank \in ResponseType /\ current.status \in Nat /\ current \in ContentType /\ tag \in Tags
        /\ current.body \in {"none", "short", "long", "endless", "broken"} /\ id \in {"none", "app", "span", "log"}
    BY <1>1, <1>3, <1>4, <1>5, <1>6, <1>7
  <2> QED
    BY ONLY <2>1 DEF ResponseType
<1>9. /\ made.status = current.status /\ made.content = current /\ made.etag = tag
      /\ made.coding = "identity" /\ made.allow = "none" /\ made.credentials = FALSE
  BY <1>7 DEF ResponseType
<1> HIDE DEF made
<1>10. Sound(made, request)
  BY <1>3, <1>5, <1>8, <1>9 DEF Sound, Negotiated, Validated, Confirmed
<1>11. (Sound(response, request))' /\ (Unshared(response))' /\ response'.content \in Contents
  BY <1>1, <1>2, <1>9, <1>10, Frame DEF Unshared
<1>12. Wrappers' = Wrappers
  BY <1>2 DEF Wrappers, RouteWrappers, NativeWrappers, FallbackWrappers
<1>13. /\ Len(Wrappers) \in Nat /\ Len(Wrappers) >= 1
       /\ spanId # "none" => \E i \in 1 .. Len(Wrappers) : Wrappers[i] = "telemetry"
  BY <1>1, Order DEF Spanned
<1>14. at' \in 1 .. Len(Wrappers') + 1 /\ ~(at' > Len(Wrappers'))
  BY <1>2, <1>12, <1>13
<1>15. spanId' # "none" => (Later("telemetry"))'
  BY <1>2, <1>12, <1>13 DEF Later
<1>16. Entered' /\ logged' = NoEntry'
  BY <1>2 DEF Entered, NoEntry
<1> QED
  BY <1>11, <1>14, <1>15, <1>16 DEF Passing

-----------------------------------------------------------------------------
(* The preflight, and what the cache selects.                              *)

LEMMA PreflightSound ==
  ASSUME config \in ConfigType, Valid(config), NEW r \in RequestType, config.cors.on, isPreflight(r)
  PROVE  Sound(preflightResponse(r), r) /\ Granted(preflightResponse(r), r)
<1> DEFINE echo == evaluateOrigin(r.origin)
           granted == /\ echo # "none" /\ \E i \in DOMAIN config.cors.methods : config.cors.methods[i] = r.asks
                      /\ config.cors.reflects \/ r.names \subseteq config.cors.names
           names == {"origin", "method", "names"}
           allow == IF granted THEN echo ELSE "none"
           credentials == granted /\ config.cors.credentials
           blank == Blank
           code == 204
           res == [blank EXCEPT !.status = code, !.vary = names, !.allow = allow, !.credentials = credentials]
<1>1. preflightResponse(r) = res
  BY DEF preflightResponse
<1>2. /\ echo \in STRING \cup Origins \cup {"none", "*"}
      /\ echo = "*" => config.cors.credentials = FALSE
  BY OriginSound DEF RequestType
<1>3. allow \in STRING \cup Origins \cup {"none", "*"}
  <2> HIDE DEF echo, granted
  <2> QED
    BY <1>2
<1>4. credentials \in BOOLEAN /\ ~(allow = "*" /\ credentials = TRUE)
  <2>1. config.cors.credentials \in BOOLEAN /\ granted \in BOOLEAN
    BY DEF ConfigType
  <2> HIDE DEF echo, granted
  <2> QED
    BY <1>2, <2>1
<1>5. allow = echo \/ allow = "none"
  <2> HIDE DEF echo, granted
  <2> QED
    OBVIOUS
<1>6. /\ blank \in ResponseType /\ blank.coding = "identity" /\ blank.etag.kind = "none"
  BY Blanks DEF Blank, NoTag
<1>7. code \in Nat /\ code # 304 /\ names \in SUBSET {"origin", "method", "names", "accept-encoding"} /\ "origin" \in names
  OBVIOUS
<1> HIDE DEF echo, allow, credentials, names, blank, code
<1>8. res \in ResponseType
  <2>1. /\ blank \in ResponseType /\ code \in Nat /\ names \in SUBSET {"origin", "method", "names", "accept-encoding"}
        /\ allow \in STRING \cup Origins \cup {"none", "*"} /\ credentials \in BOOLEAN
    BY <1>3, <1>4, <1>6, <1>7
  <2> QED
    BY ONLY <2>1 DEF ResponseType
<1>9. /\ res.status = code /\ res.etag = blank.etag /\ res.coding = "identity" /\ res.vary = names
      /\ res.allow = allow /\ res.credentials = credentials
  BY <1>6 DEF ResponseType
<1> HIDE DEF res
<1>10. Sound(res, r)
  BY <1>6, <1>7, <1>8, <1>9 DEF Sound, Negotiated, Validated, Confirmed
<1>11. Granted(res, r)
  BY <1>4, <1>5, <1>7, <1>9 DEF Granted, Permitted, echo
<1> QED
  BY <1>1, <1>10, <1>11

\* Two requests that agree on what Vary names are answered alike.
LEMMA Selected ==
  ASSUME NEW e, Kept(e), NEW r \in RequestType, Selects(e, r)
  PROVE  Negotiated(e.response, r) /\ Permitted(e.response, r)
<1>1. \A name \in e.response.vary : Field(r, name) = Field(e.request, name)
  BY DEF Selects
<1>2. Negotiated(e.response, r)
  <2> SUFFICES ASSUME e.response.coding # "identity" PROVE Accepts(r, e.response.coding) /\ "accept-encoding" \in e.response.vary
    BY DEF Negotiated
  <2>1. Accepts(e.request, e.response.coding) /\ "accept-encoding" \in e.response.vary
    BY DEF Kept, Negotiated
  <2>2. Field(r, "accept-encoding") = Field(e.request, "accept-encoding")
    BY <1>1, <2>1
  <2>3. {<<i, r.accept[i]>> : i \in DOMAIN r.accept} = {<<i, e.request.accept[i]>> : i \in DOMAIN e.request.accept}
    BY <2>2 DEF Field
  <2>4. PICK i \in DOMAIN e.request.accept :
          e.request.accept[i].coding = e.response.coding /\ e.request.accept[i].q > 0
    BY <2>1 DEF Accepts
  <2>5. <<i, e.request.accept[i]>> \in {<<j, r.accept[j]>> : j \in DOMAIN r.accept}
    BY <2>3
  <2>6. PICK j \in DOMAIN r.accept : <<i, e.request.accept[i]>> = <<j, r.accept[j]>>
    BY <2>5
  <2>7. r.accept[j] = e.request.accept[i]
    BY <2>6
  <2> QED
    BY <2>1, <2>4, <2>7 DEF Accepts
<1>3. Permitted(e.response, r)
  <2> SUFFICES ASSUME config.cors.on PROVE Permitted(e.response, r)
    BY DEF Permitted
  <2>1. e.response.allow = evaluateOrigin(e.request.origin) /\ "origin" \in e.response.vary
    BY DEF Kept, Permitted
  <2>2. Field(r, "origin") = Field(e.request, "origin")
    BY <1>1, <2>1
  <2>3. {r.origin} = {e.request.origin}
    BY <2>2 DEF Field
  <2>4. r.origin = e.request.origin
    BY <2>3
  <2> QED
    BY <2>1, <2>4 DEF Kept, Permitted
<1> QED
  BY <1>2, <1>3

-----------------------------------------------------------------------------
(* The invariant holds of every behaviour.                                 *)

LEMMA Initial == Init => IInv
<1> SUFFICES ASSUME Init PROVE IInv
  OBVIOUS
<1>1. Typed
  BY DEF Init, Typed, Phases
<1>2. AllKept
  BY DEF Init, AllKept
<1> QED
  BY <1>1, <1>2 DEF Init, IInv, busy, given, Revalidated

\* A step of the wrappers, or into them.
LEMMA Wrapped ==
  ASSUME IInv, phase \in {"handling", "wrapping"}, phase' = "wrapping",
         UNCHANGED <<origin, request, spanId, cache>>, Passing'
  PROVE  IInv'
<1>1. /\ config' = config /\ current' \in Contents /\ stored' = stored /\ held' = held /\ client' = client
      /\ Typed /\ Asked /\ Spanned
  BY DEF origin, cache, IInv, Typed, busy
<1>2. Typed' /\ AllKept'
  BY <1>1, Steady DEF Typed, Phases
<1>3. Asked' /\ Spanned'
  BY <1>1, AskedStays
<1> QED
  BY <1>2, <1>3 DEF IInv, given, Revalidated

\* The server is sent a request.
LEMMA Asking ==
  ASSUME IInv, phase = "idle", NEW r \in RequestType, Sent(r), UNCHANGED <<origin, stored, delivered>>,
         (client \in RequestType)', held' = NoHold => request' = client',
         held' # NoHold => /\ held' \in stored /\ Plain(client') /\ Selects(held', client')
                           /\ request' = [client' EXCEPT !.inm = {held'.response.etag}]
  PROVE  IInv'
<1>1. config' = config /\ current' \in Contents /\ stored' = stored /\ Typed /\ AllKept /\ config \in ConfigType /\ Valid(config)
  BY Constants DEF origin, IInv, Typed
<1>2. request' = r /\ at' = 1 /\ logged' = NoEntry /\ phase' \in {"leaving", "handling"}
  BY DEF Sent
<1>3. Typed' /\ AllKept'
  BY <1>1, <1>2, Steady DEF Phases
<1>4. Asked'
  <2>1. held' # NoHold => (Kept(held))'
    BY <1>1, KeptFrame DEF AllKept
  <2>2. held' # NoHold => (Plain(client))' /\ (Selects(held, client))'
    BY DEF Plain, Selects
  <2> QED
    BY <2>1, <2>2 DEF Asked
<1>5. Spanned'
  <2>1. spanId' = "none" \/ (spanId' = "span" /\ config.target = "route" /\ config.telemetry)
    BY DEF Sent
  <2> QED
    BY <1>1, <2>1 DEF Spanned
<1>6. phase' = "leaving" => Ready'
  <2> SUFFICES ASSUME phase' = "leaving" PROVE Ready'
    OBVIOUS
  <2>1. config.cors.on /\ isPreflight(r) /\ response' = preflightResponse(r)
    BY DEF Sent
  <2>2. Sound(preflightResponse(r), r) /\ Granted(preflightResponse(r), r)
    BY <1>1, <2>1, PreflightSound
  <2>3. (Sound(response, request))' /\ (Granted(response, request))'
    BY <1>1, <1>2, <2>1, <2>2, Frame
  <2>4. config'.cors.on /\ (isPreflight(request))'
    BY <1>1, <1>2, <2>1 DEF isPreflight
  <2> QED
    BY <2>3, <2>4 DEF Ready
<1> QED
  BY <1>2, <1>3, <1>4, <1>5, <1>6 DEF IInv, given, Revalidated, NoEntry

LEMMA ForwardStep ==
  ASSUME IInv, NEW r \in Clients, Forward(r)
  PROVE  IInv'
<1>1. r \in RequestType /\ phase = "idle" /\ Sent(r) /\ UNCHANGED <<origin, stored, delivered>>
  BY Constants DEF Forward
<1>2. client' = r /\ held' = NoHold /\ request' = r
  BY DEF Forward, Sent
<1> QED
  BY <1>1, <1>2, Asking

LEMMA RevalidateStep ==
  ASSUME IInv, NEW r \in Clients, NEW e \in stored, Revalidate(r, e)
  PROVE  IInv'
<1> DEFINE asked == [r EXCEPT !.inm = {e.response.etag}]
<1>1. /\ r \in RequestType /\ phase = "idle" /\ Plain(r) /\ Selects(e, r) /\ e.response.etag.kind # "none"
      /\ Sent(asked) /\ UNCHANGED <<origin, stored, delivered>> /\ client' = r /\ held' = e
  BY Constants DEF Revalidate
<1>2. asked \in RequestType
  <2>1. e.response \in ResponseType
    BY DEF IInv, AllKept, Kept
  <2>2. e.response.etag \in Tags
    BY <2>1 DEF ResponseType
  <2> QED
    BY <1>1, <2>2 DEF RequestType
<1>3. request' = asked
  BY <1>1 DEF Sent
<1>4. held' \in stored /\ Plain(client') /\ Selects(held', client')
  BY <1>1
<1>5. request' = [client' EXCEPT !.inm = {held'.response.etag}]
  BY <1>1, <1>3
<1>6. held' # NoHold
  BY <1>1 DEF NoHold, Blank, NoTag
<1> HIDE DEF asked
<1> QED
  BY <1>1, <1>2, <1>4, <1>5, <1>6, Asking

LEMMA HitStep ==
  ASSUME IInv, NEW r \in Clients, NEW e \in stored, Hit(r, e)
  PROVE  IInv'
<1>1. /\ r \in RequestType /\ Selects(e, r) /\ client' = r /\ delivered' = e.response /\ phase' = "cached"
      /\ config' = config /\ current' = current /\ stored' = stored /\ Typed /\ phase = "idle" /\ Kept(e)
  BY Constants DEF Hit, origin, IInv, AllKept
<1>2. Typed' /\ AllKept'
  BY <1>1, Steady DEF Typed, Phases
<1>3. Negotiated(e.response, r) /\ Permitted(e.response, r) /\ e.response \in ResponseType
  BY <1>1, Selected DEF Kept
<1>4. (Granted(delivered, client))'
  BY <1>1, <1>3, Frame DEF Granted
<1>5. (Negotiated(delivered, client))'
  BY <1>1, <1>3 DEF Negotiated, Accepts
<1>6. Received'
  BY <1>1, <1>3, <1>4, <1>5 DEF Received
<1> QED
  BY <1>1, <1>2, <1>6 DEF IInv, busy, Revalidated

\* The validator that the cache revalidated with is of the bytes it holds.
LEMMA SameBytes ==
  ASSUME IInv, phase = "leaving", held # NoHold, response.status = 304
  PROVE  held.response.content = response.content
<1> DEFINE mine == held.response
           tag == mine.etag
<1>1. /\ Kept(held) /\ Plain(client) /\ request = [client EXCEPT !.inm = {tag}] /\ client \in RequestType
      /\ Confirmed(response, request)
  BY DEF IInv, busy, Asked, Ready, Sound
<1>2. request.inm = {tag} /\ request.star = client.star
  BY <1>1 DEF RequestType
<1>3. /\ config.etag \in {"strong", "weak"} /\ response.content \in Contents
      /\ response.etag = [kind |-> config.etag, of |-> response.content.id] /\ Conditional(request, response.etag)
  BY <1>1 DEF Confirmed
<1>4. ~client.star
  BY <1>1 DEF Plain
<1>5. \E t \in request.inm : [t EXCEPT !.kind = IF @ = "weak" THEN "strong" ELSE @] = response.etag
  BY <1>2, <1>3, <1>4 DEF Conditional
<1>6. [tag EXCEPT !.kind = IF @ = "weak" THEN "strong" ELSE @] = response.etag
  BY <1>2, <1>5
<1>7. tag \in Tags /\ Validated(mine)
  BY <1>1 DEF Kept, ResponseType
<1> HIDE DEF mine, tag
<1>8. response.etag.kind = config.etag /\ response.etag.of = response.content.id
  BY <1>3
<1>9. tag.of = response.etag.of /\ (IF tag.kind = "weak" THEN "strong" ELSE tag.kind) = response.etag.kind
  BY <1>6, <1>7 DEF Tags
<1>10. tag.kind \in {"strong", "weak"} /\ tag.of = response.content.id
  BY <1>3, <1>8, <1>9
<1>11. mine.content \in Contents /\ mine.content.id = response.content.id
  BY <1>7, <1>10 DEF Validated, tag
<1>12. mine.content = response.content
  BY <1>3, <1>11, ContentsAssumption
<1> QED
  BY <1>12 DEF mine

LEMMA DeliverStep ==
  ASSUME IInv, Deliver
  PROVE  IInv'
<1> DEFINE fresh == [request |-> client, response |-> response]
<1>1. /\ config' = config /\ current' = current /\ request' = request /\ response' = response /\ logged' = logged
      /\ spanId' = spanId /\ held' = held /\ client' = client /\ phase = "leaving" /\ phase' = "answered"
      /\ Typed /\ AllKept /\ Asked /\ Spanned /\ Ready /\ client \in RequestType
  BY DEF Deliver, origin, IInv, busy, Asked
<1>2. Asked' /\ Spanned'
  BY <1>1, AskedStays
<1>3. Ready'
  <2>1. (Sound(response, request))' /\ (Granted(response, request))'
    BY <1>1, Frame DEF Ready
  <2>2. \/ config.cors.on /\ isPreflight(request)
        \/ Entered /\ (spanId # "none" => response.id = spanId)
    BY <1>1 DEF Ready
  <2>3. \/ (config.cors.on /\ isPreflight(request))'
        \/ (Entered /\ (spanId # "none" => response.id = spanId))'
    BY <1>1, <2>2 DEF Entered, isPreflight, NoEntry
  <2> QED
    BY <2>1, <2>3 DEF Ready
<1>4. /\ Negotiated(response, client) /\ Granted(response, client) /\ response \in ResponseType /\ Validated(response)
  <2>1. /\ request.accept = client.accept /\ request.origin = client.origin /\ request.method = client.method
        /\ request.asks = client.asks
    <3>1. CASE held = NoHold
      BY <1>1, <3>1 DEF Asked
    <3>2. CASE held # NoHold
      BY <1>1, <3>2 DEF Asked, RequestType
    <3> QED
      BY <3>1, <3>2
  <2>2. Sound(response, request) /\ Granted(response, request)
    BY <1>1 DEF Ready
  <2>3. Negotiated(response, client)
    BY <2>1, <2>2 DEF Sound, Negotiated, Accepts
  <2>4. Granted(response, client)
    BY <2>1, <2>2 DEF Granted, Permitted, isPreflight
  <2> QED
    BY <2>2, <2>3, <2>4 DEF Sound
<1>5. Typed'
  <2>1. \A e \in stored : (Kept(e))'
    BY <1>1, KeptFrame DEF AllKept
  <2> QED
    BY <1>1 DEF Typed, Phases, Valid, ValidCompression, ValidCors, ValidEtag, ValidSecureHeaders, ValidLogging
<1>6. AllKept'
  <2>1. \A e \in stored : (Kept(e))'
    BY <1>1, KeptFrame DEF AllKept
  <2>2. CASE stored' \subseteq stored
    BY <2>1, <2>2 DEF AllKept
  <2>3. CASE Storable(response) /\ stored' \subseteq stored \cup {fresh}
    <3>1. Plain(client) /\ ~isPreflight(client)
      BY <2>3 DEF Storable, Plain, isPreflight
    <3>2. Permitted(response, client)
      BY <1>4, <3>1 DEF Granted
    <3>3. PICK f : f = fresh
      OBVIOUS
    <3>4. f.request = client /\ f.response = response /\ stored' \subseteq stored \cup {f}
      BY <2>3, <3>3
    <3> HIDE DEF fresh
    <3>5. Kept(f)
      BY <1>1, <1>4, <3>2, <3>4 DEF Kept
    <3>6. (Kept(f))'
      BY <1>1, <3>5, KeptFrame
    <3>7. \A e \in stored' : e \in stored \/ e = f
      BY <3>4
    <3> QED
      BY <2>1, <3>6, <3>7 DEF AllKept
  <2> QED
    BY <2>2, <2>3 DEF Deliver
<1>7. delivered' \in ResponseType /\ Negotiated(delivered', client) /\ Granted(delivered', client)
  <2>1. CASE held # NoHold /\ response.status = 304
    <3>1. Kept(held) /\ Selects(held, client) /\ delivered' = held.response
      BY <1>1, <2>1 DEF Asked, Deliver
    <3>2. Negotiated(held.response, client) /\ Permitted(held.response, client)
      BY <1>1, <3>1, Selected
    <3> QED
      BY <3>1, <3>2 DEF Kept, Granted
  <2>2. CASE ~(held # NoHold /\ response.status = 304)
    <3>1. delivered' = response
      BY <2>2 DEF Deliver
    <3> QED
      BY <1>4, <3>1
  <2> QED
    BY <2>1, <2>2
<1>8. Received'
  <2>1. (Granted(delivered, client))'
    BY <1>1, <1>7, Frame
  <2>2. (Negotiated(delivered, client))'
    BY <1>1, <1>7 DEF Negotiated, Accepts
  <2> QED
    BY <1>1, <1>7, <2>1, <2>2 DEF Received
<1>9. Revalidated'
  <2> SUFFICES ASSUME held # NoHold, response.status = 304 PROVE delivered'.content = response'.content
    BY <1>1 DEF Revalidated
  <2>1. delivered' = held.response
    BY DEF Deliver
  <2>2. held.response.content = response.content
    BY <1>1, SameBytes
  <2> QED
    BY <1>1, <2>1, <2>2
<1> QED
  BY <1>1, <1>2, <1>3, <1>5, <1>6, <1>8, <1>9 DEF IInv

LEMMA Inductive == IInv /\ [Next]_vars => IInv'
<1> SUFFICES ASSUME IInv, [Next]_vars PROVE IInv'
  OBVIOUS
<1>1. CASE Define
  <2>1. /\ phase' \in {"idle", "refused"} /\ (phase' = "idle" => Valid(config)) /\ Typed
        /\ config' = config /\ current' = current /\ stored' = stored
    BY <1>1 DEF Define, origin, cache, IInv
  <2>2. Typed' /\ AllKept'
    BY <2>1, Steady DEF Typed, Phases
  <2> QED
    BY <2>1, <2>2 DEF IInv, busy, given, Revalidated
<1>2. ASSUME NEW c \in Contents, Update(c) PROVE IInv'
  <2>1. /\ phase \in {"idle", "handling"} /\ phase' = phase /\ current' \in Contents /\ Typed
        /\ config' = config /\ stored' = stored /\ UNCHANGED <<request, held, client, spanId, at, logged>>
    BY <1>2 DEF Update, exchange, cache, IInv
  <2>2. Typed' /\ AllKept'
    BY <2>1, Steady DEF Typed, Phases
  <2>3. phase = "handling" => Asked' /\ Spanned' /\ at' = 1 /\ logged' = NoEntry'
    BY <2>1, AskedStays DEF IInv, busy, NoEntry
  <2> QED
    BY <2>1, <2>2, <2>3 DEF IInv, busy, given, Revalidated
<1>3. ASSUME NEW r \in Clients, Forward(r) PROVE IInv'
  BY <1>3, ForwardStep
<1>4. ASSUME NEW r \in Clients, NEW e \in stored, Revalidate(r, e) PROVE IInv'
  BY <1>4, RevalidateStep
<1>5. ASSUME NEW r \in Clients, NEW e \in stored, Hit(r, e) PROVE IInv'
  BY <1>5, HitStep
<1>6. CASE Handle
  <2>1. phase = "handling" /\ phase' = "wrapping" /\ UNCHANGED <<origin, request, spanId, cache>>
    BY <1>6 DEF Handle
  <2> QED
    BY <1>6, <2>1, HandleStep, Wrapped
<1>7. CASE Wrap
  <2>1. phase = "wrapping" /\ phase' = "wrapping" /\ UNCHANGED <<origin, request, spanId, cache>>
    BY <1>7 DEF Wrap, Absent, Etag, Compress, Telemetry, AccessLog, SecureHeaders, Cors, Wrapping, Onward
  <2>2. Passing'
    BY <1>7, AbsentStep, EtagStep, CompressStep, TelemetryStep, AccessLogStep, SecureHeadersStep, CorsStep DEF Wrap
  <2> QED
    BY <2>1, <2>2, Wrapped
<1>8. CASE Leave
  <2>1. /\ phase = "wrapping" /\ phase' = "leaving" /\ at > Len(Wrappers) /\ Typed /\ Passing /\ Asked /\ Spanned
        /\ config' = config /\ current' = current /\ stored' = stored
        /\ UNCHANGED <<request, held, client, spanId, response, logged, at>>
    BY <1>8 DEF Leave, origin, cache, IInv, busy
  <2>2. Typed' /\ AllKept'
    BY <2>1, Steady DEF Typed, Phases
  <2>3. Asked' /\ Spanned'
    BY <2>1, AskedStays
  <2>4. Sound(response, request) /\ Permitted(response, request) /\ Entered
    BY <2>1 DEF Passing
  <2>5. spanId # "none" => response.id = spanId
    <3>1. config \in ConfigType
      BY <2>1, Constants DEF Typed
    <3>2. Len(Wrappers) \in Nat /\ at \in Nat
      BY <2>1, <3>1, Order DEF Passing
    <3>3. ~Later("telemetry")
      BY <2>1, <3>2 DEF Later
    <3> QED
      BY <2>1, <3>3 DEF Passing
  <2>6. (Sound(response, request))' /\ (Granted(response, request))'
    BY <2>1, <2>4, Frame DEF Granted
  <2>7. Entered' /\ (spanId # "none" => response.id = spanId)'
    BY <2>1, <2>4, <2>5 DEF Entered, NoEntry
  <2>8. Ready'
    BY <2>6, <2>7 DEF Ready
  <2> QED
    BY <2>1, <2>2, <2>3, <2>8 DEF IInv, busy, given, Revalidated
<1>9. CASE Deliver
  BY <1>9, DeliverStep
<1>10. CASE Done
  <2>1. phase' = "idle" /\ phase \in {"answered", "cached"} /\ config' = config /\ current' = current /\ stored' = stored /\ Typed
    BY <1>10 DEF Done, origin, IInv
  <2>2. Typed' /\ AllKept'
    BY <2>1, Steady DEF Typed, Phases
  <2> QED
    BY <2>1, <2>2 DEF IInv, busy, given, Revalidated
<1>11. CASE UNCHANGED vars
  <2>1. /\ config' = config /\ current' = current /\ stored' = stored /\ phase' = phase /\ Typed
        /\ UNCHANGED <<request, held, client, spanId, response, logged, at, delivered>>
    BY <1>11 DEF vars, origin, exchange, cache, IInv
  <2>2. Typed' /\ AllKept'
    BY <2>1, Steady DEF Typed
  <2>3. busy' => Asked' /\ Spanned'
    BY <2>1, AskedStays DEF IInv, busy
  <2>4. phase' = "handling" => at' = 1 /\ logged' = NoEntry'
    BY <2>1 DEF IInv, NoEntry
  <2>5. phase' = "wrapping" => Passing'
    <3> SUFFICES ASSUME phase = "wrapping" PROVE Passing'
      BY <2>1
    <3>1. Passing
      BY DEF IInv
    <3>2. Wrappers' = Wrappers
      BY <2>1 DEF Wrappers, RouteWrappers, NativeWrappers, FallbackWrappers
    <3>3. (Later("telemetry"))' = Later("telemetry") /\ (Later("logging"))' = Later("logging")
      BY <2>1, <3>2 DEF Later
    <3>4. (Sound(response, request))' /\ (at' > Len(Wrappers') => (Permitted(response, request))')
      BY <2>1, <3>1, <3>2, Frame DEF Passing
    <3>5. Entered' /\ (Unshared(response))' = Unshared(response) /\ NoEntry' = NoEntry
      BY <2>1, <3>1 DEF Passing, Entered, Unshared, NoEntry
    <3> QED
      BY <2>1, <3>1, <3>2, <3>3, <3>4, <3>5 DEF Passing
  <2>6. phase' \in {"leaving", "answered"} => Ready'
    <3> SUFFICES ASSUME phase \in {"leaving", "answered"} PROVE Ready'
      BY <2>1
    <3>1. (Sound(response, request))' /\ (Granted(response, request))'
      BY <2>1, Frame DEF IInv, Ready
    <3>2. \/ config.cors.on /\ isPreflight(request)
          \/ Entered /\ (spanId # "none" => response.id = spanId)
      BY DEF IInv, Ready
    <3>3. \/ (config.cors.on /\ isPreflight(request))'
          \/ (Entered /\ (spanId # "none" => response.id = spanId))'
      BY <2>1, <3>2 DEF Entered, isPreflight, NoEntry
    <3> QED
      BY <3>1, <3>3 DEF Ready
  <2>7. given' => Received'
    <3> SUFFICES ASSUME given PROVE Received'
      BY <2>1 DEF given
    <3>1. Received
      BY DEF IInv
    <3>2. (Granted(delivered, client))'
      BY <2>1, <3>1, Frame DEF Received
    <3> QED
      BY <2>1, <3>1, <3>2 DEF Received, Negotiated, Accepts
  <2>8. Revalidated'
    BY <2>1 DEF IInv, Revalidated, NoHold
  <2> QED
    BY <2>2, <2>3, <2>4, <2>5, <2>6, <2>7, <2>8 DEF IInv
<1> QED
  BY <1>1, <1>2, <1>3, <1>4, <1>5, <1>6, <1>7, <1>8, <1>9, <1>10, <1>11 DEF Next

LEMMA Invariant == Spec => []IInv
  BY Initial, Inductive, PTL DEF Spec

-----------------------------------------------------------------------------
(* What clients, caches and logs may rely on.                              *)

\* No client is given a coding it does not accept, whatever the clients ask
\* and whichever responses the cache keeps: compression chooses what the
\* request accepts (compression.ts:96-131), and Vary ties it to what it asks.
THEOREM CodingsFit == Spec => []CodingFits
<1>1. IInv => CodingFits
  BY DEF IInv, CodingFits, Received, Negotiated, Accepts
<1> QED
  BY <1>1, Invariant, PTL

\* A reader has the permission of its own origin, also in a response that was
\* made for another, or none in answer to a preflight; and no response allows
\* credentials to every origin (cors.ts), for any callback.
THEOREM PermissionsFit == Spec => []PermissionFits
<1>1. IInv => PermissionFits
  <2> SUFFICES ASSUME IInv, given, config.cors.on
      PROVE /\ \/ delivered.allow = evaluateOrigin(client.origin)
               \/ isPreflight(client) /\ delivered.allow = "none"
            /\ ~(delivered.allow = "*" /\ delivered.credentials)
    BY DEF PermissionFits
  <2>1. Granted(delivered, client) /\ delivered \in ResponseType
    BY DEF IInv, Received
  <2>2. delivered.credentials \in BOOLEAN
    BY <2>1 DEF ResponseType
  <2> QED
    BY <2>1, <2>2 DEF Granted, Permitted
<1> QED
  BY <1>1, Invariant, PTL

\* A response that a 304 confirmed is the one the handler answered: validators
\* are of the bytes (etag.ts), and what the cache holds keeps its own.
THEOREM Confirmations == Spec => []Revalidated
<1>1. IInv => Revalidated
  BY DEF IInv
<1> QED
  BY <1>1, Invariant, PTL

\* The access log, the telemetry events and the client name a request alike,
\* for every combination of the options and for each of the four kinds of
\* handler (serve.ts, logging.ts, telemetry.ts).
THEOREM IdentitiesAgree == Spec => []OneIdentity
<1>1. IInv => OneIdentity
  BY DEF IInv, OneIdentity, Ready, Entered
<1> QED
  BY <1>1, Invariant, PTL

-----------------------------------------------------------------------------
(* Cookies: a jar that holds, of what the server wrote, exactly what it did  *)
(* not delete, and of others what they put there.                            *)

\* The browser keeps one cookie for a name and a path.
OneForEach == \A c, d \in jar : sameCookie(c, d) => c = d

JarShape == \A c \in jar : c.name \in CookieNames /\ c.path \in Paths

\* No cookie is there that nobody meant.
isMeant(c, m) == sameCookie(c, m) /\ c.value = m.value /\ c.eq = TRUE
isTheirs(c, f) == c.name = f.name /\ c.value = f.value /\ c.eq = f.eq

Accounted == \A c \in jar : (\E m \in meant : isMeant(c, m)) \/ (\E f \in Foreign : isTheirs(c, f))

\* What the server meant is there as it wrote it.
Present ==
  \A m \in meant :
    /\ m.name \in CookieNames /\ m.name.token = TRUE /\ m.path \in Paths
    /\ \E c \in jar : sameCookie(c, m) /\ c.value = m.value /\ c.eq = TRUE

\* What was read is what the jar had for that request.
Read == visited => \E pairs \in headers(visit) : seen = parseCookies(pairs)

JarInv == OneForEach /\ JarShape /\ Accounted /\ Present /\ Read

LEMMA JarInitially == CookieInit => JarInv
  BY DEF CookieInit, JarInv, OneForEach, JarShape, Accounted, Present, Read, visited

\* A name's text tells it from every other (NamesAssumption).
LEMMA NamesByText == \A m, n \in CookieNames : m.text = n.text => m = n
  BY NamesAssumption

\* Only a token's cookie with a valid path is written.
LEMMA Written ==
  ASSUME NEW a \in Arguments, cookie(a) = "ok"
  PROVE  a.name \in CookieNames /\ a.name.token = TRUE /\ a.path \in Paths
<1>1. a \in ArgumentType
  BY ArgumentsAssumption
<1>2. a.path \in {"/", "/app", ""} /\ a.name \in NameType
  BY <1>1 DEF ArgumentType
<1>3. a.name.token \in BOOLEAN
  BY <1>2 DEF NameType
<1>4. a.name.token = TRUE /\ a.path # ""
  BY <1>3 DEF cookie, validAttrs
<1>5. a.name \in CookieNames
  BY DEF CookieNames
<1> QED
  BY <1>2, <1>4, <1>5 DEF Paths

LEMMA JarKeeps == JarInv /\ [CookieNext]_cookieVars => JarInv'
<1> SUFFICES ASSUME JarInv, [CookieNext]_cookieVars
             PROVE  JarInv'
  OBVIOUS
<1>1. ASSUME NEW a \in Arguments, SetCookie(a)
      PROVE  JarInv'
  <2>1. CASE cookie(a) # "ok"
    <3>1. UNCHANGED <<jar, meant>> /\ visit' = NoVisit
      BY <1>1, <2>1 DEF SetCookie, left
    <3> QED
      BY <3>1 DEF JarInv, OneForEach, JarShape, Accounted, Present, Read, visited, sameCookie, isMeant, isTheirs
  <2>2. CASE cookie(a) = "ok"
    <3> DEFINE written == [name |-> a.name, value |-> a.value, eq |-> TRUE, path |-> a.path, secure |-> a.secure,
                           lax |-> a.sameSite = "none", timed |-> a.maxAge = "positive"]
               intent == [name |-> a.name, path |-> a.path, value |-> a.value]
               jars == {c \in jar : ~sameCookie(c, a)}
               others == {m \in meant : ~sameCookie(m, a)}
    <3>1. /\ jar' = jars \cup (IF a.maxAge = "none" THEN {} ELSE {written})
          /\ meant' = others \cup (IF a.maxAge = "none" THEN {} ELSE {intent})
          /\ visit' = NoVisit
      BY <1>1, <2>2 DEF SetCookie, left, kept
    <3>2. a.name \in CookieNames /\ a.name.token = TRUE /\ a.path \in Paths
      BY <2>2, Written
    <3>3. /\ written.name = a.name /\ written.path = a.path /\ written.value = a.value /\ written.eq = TRUE
          /\ intent.name = a.name /\ intent.path = a.path /\ intent.value = a.value
      OBVIOUS
    <3>4. /\ \A c \in jar' : c \in jars \/ (a.maxAge # "none" /\ c = written)
          /\ \A m \in meant' : m \in others \/ (a.maxAge # "none" /\ m = intent)
          /\ a.maxAge # "none" => written \in jar' /\ intent \in meant'
          /\ jars \subseteq jar' /\ others \subseteq meant'
      BY <3>1, Zenon
    <3>5. /\ \A c \in jars : c \in jar /\ ~(c.name = a.name /\ c.path = a.path)
          /\ \A m \in others : m \in meant /\ ~(m.name = a.name /\ m.path = a.path)
          /\ \A c \in jar : ~(c.name = a.name /\ c.path = a.path) => c \in jars
          /\ \A m \in meant : ~(m.name = a.name /\ m.path = a.path) => m \in others
      BY DEF sameCookie
    <3> HIDE DEF written, intent, jars, others
    <3>6. OneForEach'
      BY <3>3, <3>4, <3>5 DEF JarInv, OneForEach, sameCookie
    <3>7. JarShape'
      BY <3>2, <3>3, <3>4, <3>5 DEF JarInv, JarShape
    <3>8. Accounted'
      <4>1. ASSUME NEW c \in jars
            PROVE  (\E m \in meant' : isMeant(c, m)) \/ (\E f \in Foreign : isTheirs(c, f))
        BY <3>4, <3>5 DEF JarInv, Accounted, isMeant, sameCookie
      <4>2. a.maxAge # "none" => \E m \in meant' : isMeant(written, m)
        BY <3>3, <3>4 DEF isMeant, sameCookie
      <4>3. \A c \in jar' : (\E m \in meant' : isMeant(c, m)) \/ (\E f \in Foreign : isTheirs(c, f))
        BY <4>1, <4>2, <3>4
      <4> QED
        BY <4>3 DEF Accounted, isMeant, isTheirs, sameCookie
    <3>9. Present'
      <4>1. ASSUME NEW m \in others
            PROVE  /\ m.name \in CookieNames /\ m.name.token = TRUE /\ m.path \in Paths
                   /\ \E c \in jar' : sameCookie(c, m) /\ c.value = m.value /\ c.eq = TRUE
        BY <3>4, <3>5 DEF JarInv, Present, sameCookie
      <4>2. a.maxAge # "none" =>
              /\ intent.name \in CookieNames /\ intent.name.token = TRUE /\ intent.path \in Paths
              /\ \E c \in jar' : sameCookie(c, intent) /\ c.value = intent.value /\ c.eq = TRUE
        BY <3>2, <3>3, <3>4 DEF sameCookie
      <4> QED
        BY <4>1, <4>2, <3>4 DEF Present, sameCookie
    <3> QED
      BY <3>1, <3>6, <3>7, <3>8, <3>9 DEF JarInv, Read, visited
  <2> QED
    BY <2>1, <2>2
<1>2. ASSUME NEW f \in Foreign, SetForeign(f)
      PROVE  JarInv'
  <2> DEFINE theirs == [name |-> f.name, value |-> f.value, eq |-> f.eq, path |-> "/", secure |-> FALSE,
                        lax |-> TRUE, timed |-> FALSE]
  <2>1. jar' = jar \cup {theirs} /\ meant' = meant /\ visit' = NoVisit /\ \A c \in jar : c.name # f.name
    BY <1>2 DEF SetForeign, left
  <2>2. theirs.name = f.name /\ isTheirs(theirs, f) /\ theirs.path = "/" /\ f.name \in CookieNames /\ "/" \in Paths
    BY DEF CookieNames, Paths, isTheirs
  <2> HIDE DEF theirs
  <2>3. OneForEach' /\ JarShape'
    BY <2>1, <2>2 DEF JarInv, OneForEach, JarShape, sameCookie
  <2>4. Accounted' /\ Present'
    BY <2>1, <2>2 DEF JarInv, Accounted, Present, sameCookie, isMeant, isTheirs
  <2> QED
    BY <2>1, <2>3, <2>4 DEF JarInv, Read, visited
<1>3. ASSUME NEW d \in jar, Expire(d)
      PROVE  JarInv'
  <2>1. /\ jar' = jar \ {d} /\ visit' = NoVisit
        /\ meant' = {m \in meant : ~sameCookie(m, d)}
    BY <1>3 DEF Expire, left
  <2>2. OneForEach' /\ JarShape'
    BY <2>1 DEF JarInv, OneForEach, JarShape, sameCookie
  <2>3. Accounted'
    <3>1. ASSUME NEW c \in jar, c # d
          PROVE  (\E m \in meant' : isMeant(c, m)) \/ (\E f \in Foreign : isTheirs(c, f))
      BY <2>1, <3>1 DEF JarInv, OneForEach, Accounted, isMeant, sameCookie
    <3> QED
      BY <2>1, <3>1 DEF Accounted, isMeant, isTheirs, sameCookie
  <2>4. Present'
    BY <2>1 DEF JarInv, Present, sameCookie
  <2> QED
    BY <2>1, <2>2, <2>3, <2>4 DEF JarInv, Read, visited
<1>4. ASSUME NEW v, Visit(v)
      PROVE  JarInv'
  <2>1. /\ visit' = v /\ jar' = jar /\ meant' = meant
        /\ \E pairs \in headers(v) : seen' = parseCookies(pairs)
    BY <1>4 DEF Visit
  <2>2. Read'
    BY <2>1 DEF Read, headers, sent
  <2> QED
    BY <2>1, <2>2 DEF JarInv, OneForEach, JarShape, Accounted, Present, sameCookie, isMeant, isTheirs
<1>5. CASE UNCHANGED cookieVars
  <2>1. jar' = jar /\ meant' = meant /\ visit' = visit /\ seen' = seen
    BY <1>5 DEF cookieVars
  <2> QED
    BY <2>1 DEF JarInv, OneForEach, JarShape, Accounted, Present, Read, visited, headers, sent, sameCookie, isMeant, isTheirs
<1> QED
  BY <1>1, <1>2, <1>3, <1>4, <1>5 DEF CookieNext

\* The pairs of a header are the cookies that were sent, each once, and no
\* longer path comes after a shorter one.
LEMMA HeaderFacts ==
  ASSUME NEW v, NEW pairs \in headers(v)
  PROVE  /\ DOMAIN pairs \subseteq Int
         /\ \A i \in DOMAIN pairs : pairs[i] \in sent(v)
         /\ \A c \in sent(v) : \E i \in DOMAIN pairs : pairs[i] = c
         /\ \A i, j \in DOMAIN pairs : pairs[i] = pairs[j] => i = j
         /\ \A i, j \in DOMAIN pairs : i < j /\ pairs[i].path = "/" => pairs[j].path = "/"
<1> DEFINE places == 1 .. Cardinality(sent(v))
<1>1. places \subseteq Int
  OBVIOUS
<1>2. /\ pairs \in Bijection(places, sent(v))
      /\ \A i, j \in DOMAIN pairs : i < j /\ pairs[i].path = "/" => pairs[j].path = "/"
  BY DEF headers
<1> HIDE DEF places
<1>3. /\ pairs \in [places -> sent(v)] /\ IsInjective(pairs)
      /\ \A c \in sent(v) : \E i \in places : pairs[i] = c
  BY <1>2 DEF Bijection, Injection, Surjection
<1> QED
  BY <1>1, <1>2, <1>3 DEF IsInjective

\* A name whose last readable pair is known is read with that pair's value.
LEMMA LastStays ==
  ASSUME NEW pairs, DOMAIN pairs \subseteq Int, NEW i \in DOMAIN pairs, ~skipped(pairs[i]),
         \A j \in DOMAIN pairs : ~skipped(pairs[j]) /\ nameOf(pairs[j]) = nameOf(pairs[i]) => j <= i
  PROVE  /\ nameOf(pairs[i]) \in DOMAIN parseCookies(pairs)
         /\ parseCookies(pairs)[nameOf(pairs[i])] = valueOf(pairs[i])
<1> DEFINE read == {j \in DOMAIN pairs : ~skipped(pairs[j])}
           last(n) == CHOOSE j \in read : nameOf(pairs[j]) = n /\ \A k \in read : nameOf(pairs[k]) = n => k <= j
           name == nameOf(pairs[i])
<1>1. parseCookies(pairs) = [n \in {nameOf(pairs[j]) : j \in read} |-> valueOf(pairs[last(n)])]
  BY DEF parseCookies
<1>2. i \in read /\ \A k \in read : nameOf(pairs[k]) = name => k <= i
  OBVIOUS
<1>3. name \in {nameOf(pairs[j]) : j \in read}
  BY <1>2
<1>4. last(name) \in read /\ nameOf(pairs[last(name)]) = name /\ \A k \in read : nameOf(pairs[k]) = name => k <= last(name)
  BY <1>2
<1>5. last(name) = i
  <2>1. i \in Int /\ last(name) \in Int
    BY <1>4
  <2> HIDE DEF last, read
  <2>2. i <= last(name) /\ last(name) <= i
    BY <1>2, <1>4
  <2> QED
    BY <2>1, <2>2
<1> HIDE DEF last, read
<1> QED
  BY <1>1, <1>3, <1>5

\* What is read under a name is of a pair of that name that was sent.
LEMMA ReadFromPairs ==
  ASSUME NEW pairs, NEW n \in DOMAIN parseCookies(pairs)
  PROVE  \E i \in DOMAIN pairs : nameOf(pairs[i]) = n /\ ~skipped(pairs[i])
  BY DEF parseCookies

\* A name is sent for two paths at the most, and the last of its pairs is read.
LEMMA LastOfTwo ==
  ASSUME JarInv, NEW pairs \in headers(visit), NEW i \in DOMAIN pairs, ~skipped(pairs[i])
  PROVE  \E j \in DOMAIN pairs :
           /\ nameOf(pairs[j]) = nameOf(pairs[i]) /\ pairs[j] \in sent(visit)
           /\ parseCookies(pairs)[nameOf(pairs[i])] = valueOf(pairs[j])
<1>1. /\ DOMAIN pairs \subseteq Int /\ \A k \in DOMAIN pairs : pairs[k] \in sent(visit)
      /\ \A j, k \in DOMAIN pairs : pairs[j] = pairs[k] => j = k
  BY HeaderFacts
<1>2. \A k \in DOMAIN pairs : pairs[k] \in jar /\ pairs[k].name \in CookieNames /\ pairs[k].path \in {"/", "/app"}
  BY <1>1 DEF sent, JarInv, JarShape, Paths
<1>3. ASSUME NEW j \in DOMAIN pairs, NEW k \in DOMAIN pairs, nameOf(pairs[j]) = nameOf(pairs[k]),
             pairs[j].path = pairs[k].path
      PROVE  j = k
  <2>1. pairs[j].name = pairs[k].name
    BY <1>2, <1>3, NamesByText DEF nameOf
  <2>2. pairs[j] = pairs[k]
    BY <1>2, <1>3, <2>1 DEF JarInv, OneForEach, sameCookie
  <2> QED
    BY <1>1, <2>2
<1>4. CASE \A k \in DOMAIN pairs : ~skipped(pairs[k]) /\ nameOf(pairs[k]) = nameOf(pairs[i]) => k <= i
  BY <1>1, <1>4, LastStays
<1>5. CASE \E k \in DOMAIN pairs : ~skipped(pairs[k]) /\ nameOf(pairs[k]) = nameOf(pairs[i]) /\ ~(k <= i)
  <2>1. PICK j \in DOMAIN pairs : ~skipped(pairs[j]) /\ nameOf(pairs[j]) = nameOf(pairs[i]) /\ ~(j <= i)
    BY <1>5
  <2>2. i \in Int /\ j \in Int /\ j # i
    BY <1>1, <2>1
  <2>3. pairs[j].path # pairs[i].path
    BY <1>3, <2>1, <2>2
  <2>4. ASSUME NEW k \in DOMAIN pairs, nameOf(pairs[k]) = nameOf(pairs[j]) PROVE k <= j
    <3>1. pairs[k].path = pairs[i].path \/ pairs[k].path = pairs[j].path
      BY <1>2, <2>3
    <3>2. k = i \/ k = j
      BY <1>3, <2>1, <2>4, <3>1
    <3> QED
      BY <2>1, <2>2, <3>2
  <2>5. parseCookies(pairs)[nameOf(pairs[j])] = valueOf(pairs[j])
    BY <1>1, <2>1, <2>4, LastStays
  <2> QED
    BY <1>1, <2>1, <2>5
<1> QED
  BY <1>4, <1>5

\* The cookies the server wrote, kept and is sent are read with the values it
\* wrote, and nothing else but what others put there, for any arguments of
\* cookie(), any cookies of others and any jar (cookies.ts).
THEOREM CookiesRead == CookieSpec => []ReadsWhatItWrote
<1>1. JarInv => ReadsWhatItWrote
  <2> SUFFICES ASSUME JarInv, visited
               PROVE  ReadsWhatItWrote
    BY DEF ReadsWhatItWrote
  <2>1. PICK pairs \in headers(visit) : seen = parseCookies(pairs)
    BY DEF JarInv, Read
  <2>2. /\ DOMAIN pairs \subseteq Int
        /\ \A i \in DOMAIN pairs : pairs[i] \in sent(visit)
        /\ \A c \in sent(visit) : \E i \in DOMAIN pairs : pairs[i] = c
        /\ \A i, j \in DOMAIN pairs : pairs[i] = pairs[j] => i = j
        /\ \A i, j \in DOMAIN pairs : i < j /\ pairs[i].path = "/" => pairs[j].path = "/"
    BY HeaderFacts
  <2>3. \A c \in sent(visit) : c \in jar /\ fits(c, visit) /\ c.name \in CookieNames /\ c.path \in {"/", "/app"}
    BY DEF sent, JarInv, JarShape, Paths
  <2>4. ASSUME NEW m \in meant, reaches(m), ~m.name.dollar, ~m.name.proto
        PROVE  /\ m.name.text \in DOMAIN seen
               /\ m.path = "/" \/ alone(m) => seen[m.name.text] = m.value.text
    <3>1. PICK c \in jar : sameCookie(c, m) /\ c.value = m.value /\ c.eq = TRUE
      BY DEF JarInv, Present
    <3>2. m.name \in CookieNames /\ m.name.token = TRUE
      BY DEF JarInv, Present
    <3>3. c \in sent(visit)
      BY <2>4, <3>1 DEF reaches, sent, JarInv, OneForEach, sameCookie
    <3>4. PICK i \in DOMAIN pairs : pairs[i] = c
      BY <2>2, <3>3
    <3>5. ~skipped(pairs[i]) /\ nameOf(pairs[i]) = m.name.text /\ valueOf(pairs[i]) = m.value.text
      <4>1. m.name.text # ""
        BY <3>2, NamesAssumption
      <4> QED
        BY <2>4, <3>1, <3>4, <4>1 DEF skipped, nameOf, valueOf, sameCookie
    <3>6. m.name.text \in DOMAIN seen
      BY <2>1, <3>5 DEF parseCookies
    <3>7. ASSUME m.path = "/" \/ alone(m)
          PROVE  seen[m.name.text] = m.value.text
      <4>1. ASSUME NEW j \in DOMAIN pairs, nameOf(pairs[j]) = nameOf(pairs[i])
            PROVE  j <= i
        <5>1. i \in Int /\ j \in Int
          BY <2>2
        <5>2. /\ pairs[j] \in jar /\ fits(pairs[j], visit)
              /\ pairs[j].name \in CookieNames /\ pairs[j].path \in {"/", "/app"} /\ c.path \in {"/", "/app"}
          BY <2>2, <2>3, <3>3
        <5>3. pairs[j].name = m.name /\ c.name = m.name /\ c.path = m.path
          BY <4>1, <5>2, <3>1, <3>2, <3>5, NamesByText DEF nameOf, sameCookie
        <5>4. CASE pairs[j].path = c.path
          <6>1. pairs[j] = c
            BY <5>2, <5>3, <5>4 DEF JarInv, OneForEach, sameCookie
          <6>2. i = j
            BY <2>2, <3>4, <6>1
          <6> QED
            BY <5>1, <6>2
        <5>5. CASE pairs[j].path # c.path /\ c.path = "/"
          <6>1. ~(i < j)
            BY <2>2, <3>4, <5>5
          <6> QED
            BY <5>1, <6>1
        <5>6. CASE pairs[j].path # c.path /\ c.path = "/app"
          <6>1. alone(m)
            BY <3>7, <5>3, <5>6
          <6>2. pairs[j].path = m.path
            BY <2>2, <5>3, <6>1 DEF alone
          <6> QED
            BY <5>3, <5>6, <6>2
        <5> QED
          BY <5>2, <5>4, <5>5, <5>6
      <4>2. parseCookies(pairs)[nameOf(pairs[i])] = valueOf(pairs[i])
        BY <2>2, <3>5, <4>1, LastStays
      <4> QED
        BY <2>1, <3>5, <4>2
    <3> QED
      BY <3>6, <3>7
  <2>5. ASSUME NEW n \in DOMAIN seen
        PROVE  \/ \E m \in meant : reaches(m) /\ m.name.text = n /\ m.value.text = seen[n]
               \/ \E f \in Foreign : nameOf(f) = n /\ valueOf(f) = seen[n]
    <3>1. PICK i \in DOMAIN pairs : nameOf(pairs[i]) = n /\ ~skipped(pairs[i])
      BY <2>1, <2>5, ReadFromPairs
    <3>2. PICK j \in DOMAIN pairs : nameOf(pairs[j]) = n /\ pairs[j] \in sent(visit) /\ seen[n] = valueOf(pairs[j])
      BY <2>1, <3>1, LastOfTwo
    <3>3. pairs[j] \in jar /\ fits(pairs[j], visit)
      BY <2>3, <3>2
    <3>4. CASE \E m \in meant : isMeant(pairs[j], m)
      BY <3>2, <3>3, <3>4 DEF isMeant, sameCookie, reaches, nameOf, valueOf
    <3>5. CASE \E f \in Foreign : isTheirs(pairs[j], f)
      BY <3>2, <3>5 DEF isTheirs, nameOf, valueOf
    <3> QED
      BY <3>3, <3>4, <3>5 DEF JarInv, Accounted
  <2> QED
    BY <2>4, <2>5 DEF ReadsWhatItWrote
<1> QED
  BY <1>1, JarInitially, JarKeeps, PTL DEF CookieSpec

=============================================================================
