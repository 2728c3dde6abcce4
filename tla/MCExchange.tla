----------------------------- MODULE MCExchange -----------------------------
EXTENDS Exchange

Answer(i, m, b) ==
  [id |-> i, status |-> 200, media |-> m, body |-> b,
   encoded |-> FALSE, ranged |-> FALSE, tagged |-> FALSE, named |-> FALSE]

\* Two that compress, a short one with its own id, a stream, one that cannot
\* be read, one with a validator and a coding of the application's.
MCContents ==
  {Answer(1, "text", "long"), Answer(2, "text", "long"),
   [Answer(3, "text", "short") EXCEPT !.named = TRUE, !.status = 404],
   Answer(4, "event-stream", "endless"), Answer(5, "text", "broken"),
   [Answer(6, "binary", "long") EXCEPT !.tagged = TRUE, !.encoded = TRUE]}

Get(o, a) == [Silent EXCEPT !.origin = o, !.accept = a]
c(name, q) == [coding |-> name, q |-> q]
Refused == <<c("gzip", 0), c("deflate", 1)>>
Preferred == <<c("identity", 1), c("deflate", 2), c("gzip", 3)>>

MCClients ==
  {Get("none", <<>>), Get("none", Refused), Get("friend", Preferred), Get("stranger", Preferred),
   Get("friend", <<c("*", 1)>>),
   [Get("friend", <<>>) EXCEPT !.inm = {[kind |-> "strong", of |-> 1]}],
   [Get("none", <<>>) EXCEPT !.method = "HEAD", !.star = TRUE],
   [Get("stranger", Preferred) EXCEPT !.method = "POST"],
   [Get("friend", <<>>) EXCEPT !.method = "OPTIONS", !.asks = "PUT", !.names = {"x-a"}],
   [Get("stranger", <<>>) EXCEPT !.method = "OPTIONS", !.asks = "PUT", !.names = {"x-b"}]}

NoCors ==
  [on |-> FALSE, callback |-> FALSE, origins |-> {}, decide |-> [o \in Origins |-> "no"],
   credentials |-> FALSE, methods |-> <<>>, reflects |-> TRUE, names |-> {}]
ListCors == [NoCors EXCEPT !.on = TRUE, !.origins = {"friend"}, !.methods = <<"GET", "PUT">>, !.credentials = TRUE]
AnyCors == [ListCors EXCEPT !.origins = {"*"}, !.credentials = FALSE]
CallbackCors ==
  [ListCors EXCEPT !.callback = TRUE, !.decide = [o \in Origins |-> IF o = "friend" THEN "yes" ELSE "*"],
                   !.reflects = FALSE, !.names = {"x-a"}]

Plain0 ==
  [target |-> "route", etag |-> "off", compression |-> [on |-> FALSE, encodings |-> <<>>], cors |-> NoCors,
   telemetry |-> TRUE, secureHeaders |-> "on",
   logging |-> [access |-> TRUE, requestIds |-> TRUE, level |-> "info"]]
Both == [on |-> TRUE, encodings |-> <<"gzip", "deflate">>]

MCConfigs ==
  {[Plain0 EXCEPT !.compression = Both, !.cors = AnyCors],
   [Plain0 EXCEPT !.compression = Both, !.etag = "strong", !.cors = ListCors],
   [Plain0 EXCEPT !.compression = [on |-> TRUE, encodings |-> <<"deflate">>], !.etag = "weak", !.cors = CallbackCors],
   [Plain0 EXCEPT !.etag = "strong", !.logging.requestIds = FALSE, !.telemetry = FALSE],
   [Plain0 EXCEPT !.target = "native", !.cors = ListCors],
   [Plain0 EXCEPT !.target = "fallback", !.cors = CallbackCors],
   [Plain0 EXCEPT !.target = "fetch", !.cors = AnyCors, !.secureHeaders = "off", !.logging.level = "warn"],
   [Plain0 EXCEPT !.cors = [AnyCors EXCEPT !.credentials = TRUE]],
   [Plain0 EXCEPT !.cors = [ListCors EXCEPT !.origins = {"*", "friend"}]],
   [Plain0 EXCEPT !.cors = [ListCors EXCEPT !.methods = <<"GET", "GET">>]],
   [Plain0 EXCEPT !.compression = [on |-> TRUE, encodings |-> <<"br">>]],
   [Plain0 EXCEPT !.etag = "loud"]}

=============================================================================
