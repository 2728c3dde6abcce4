# A verification project for LugasJS

LugasJS is a typed HTTP framework on Bun: routes, guards and services are
declared, compiled once by `defineApp()`, and served by Bun's own router; a
client typed by the same declarations calls them. This directory models the
framework's library, its client and its command, checks the models with TLC, and
proves the invariants that matter most with TLAPS. Line numbers are those of
`src/src/`; `PROJECT.json` maps every definition to its lines.

Contents: [inventory](#1-inventory) · [modules](#2-modules-and-how-they-follow-the-code) ·
[runs](#3-runs-bounds-and-fairness) · [proofs](#4-what-is-proved) ·
[seen while reading](#5-seen-while-reading) · [assumptions](#6-assumptions) ·
[not modelled](#7-what-is-not-modelled) · [what is left](#8-what-is-left)

## 1. Inventory

JavaScript runs to completion between two `await`s, so the concurrency of this
code is that of callbacks, promise continuations, timers and platform events. The
state that outlives one request is small and lives in a few closures; much of
what is hard is that two parts written apart (a reader and a writer, a type and a
value, a pass over a table and a later mount) have to agree.

| component | state | operations | what is hard | what makes it correct |
|---|---|---|---|---|
| **Lifecycle coordinator** `internal/lifecycle.ts` | the initialized prefix of the services, tracked promises, shutdown promise, outcome | init loop and rollback, `track()`, `shutdown()` (stop, drain under a deadline, dispose) | two async functions that meet at one `await`; hooks that reject; a deadline against late work | no service is closed under accounted work; declaration order up, reverse order down; nothing disposed twice; an honest outcome, always |
| **Traffic gate** `internal/prepared-app.ts` | `gate`, `settled` | hold, release or refuse a request | requests before init has settled, gate refused later, gate re-armed by another `serve()` | no handler over a service that is not up; no request forgotten |
| **serve()** `internal/serve.ts` | the server handle; the gate, services and hub of the application | starting, `shutdown()`, `track()`, fallback, ceilings | two shutdown paths; two counters fed by one call; calls that throw half-way, and later calls | both paths do the same; the drain covers what telemetry waits for; one server's handlers never on another's services |
| **WebSocket hub** `internal/websocket-hub.ts` | open sockets | upgrade, open, close, `closeAll(1001)` | handshakes in flight when a shutdown begins | every open socket is told |
| **Telemetry** `internal/telemetry.ts` | a span per request: response, open tasks, ended | start, response, task settles | response and tasks end in any order, tasks join late | one end per start, not before its work, not never |
| **SSE writer** `core/sse.ts` | closed flag, parked events and their bytes, timer, cleanup | `send`, `sendAwait`, `close`, cancel, heartbeat, flush on pull | back-pressure through the platform's pull protocol; four ways to end | bounded memory, order, no lost wake-up, every promise settled, cleanup once |
| **Request pipeline** `internal/compile-pipeline.ts`, `run-guards.ts`, `context.ts` | closures of one request | validators, guards, handler, hand-over from the synchronous to the asynchronous copy | the stages are written three times and a request may change copies half-way; the context is also computed as a type | each stage once and in order, the context it should see, the answer that was decided |
| **Error policy** `internal/error-policy.ts` | – | default, custom, failing policy | the policy itself fails, now or later | a failure ends at the policy or the redacted 500 |
| **Rate limiting** `core/rate-limit.ts` | counting store | guard, `increment` | store answers late; windows roll over meanwhile; ms against whole seconds | limit per window, bounded bursts, truthful `Retry-After` |
| **Bodies and budgets** `internal/parse-json-body.ts`, `parse-form-body.ts`, `body-budget.ts` | the ceiling cell | effective budget, bounded read, JSON and form parsing, limits, the two views of a form | three numbers of which one is known only to `serve()`; announced against real length; hang-ups between chunks | nothing over the budget is kept; a body is parsed whole or not at all; a form loses no part |
| **Response wrappers** `internal/compression.ts` (ETag too), `cors.ts`, `logging.ts`, `production.ts` | – | validator and 304, negotiation and coding, CORS and preflight, request id and access entry | wrappers written apart, read by caches and clients long after | coding, permission, validator and identity fit whoever reads the response |
| **Route preparation** `internal/prepared-app.ts`, `compose.ts`, `classify-route.ts`, `assets.ts`, `spa.ts` | the table under construction, facts | compose, assemble, mount assets / OpenAPI / health / SPA, secure-headers pass, CORS pass | passes rewrite the table built so far; overlapping patterns; eight mount points | everything declared is served, by its owner, under its policies |
| **Manifest and OpenAPI** `internal/manifest.ts`, `openapi.ts`, `route-fact.ts` | facts, document | two descriptions of the application | made while the table still changes, compared with nothing | both say what is served |
| **Definition** `core/app.ts`, `route.ts`, `guard.ts`, `websocket.ts`, `service.ts`, `module.ts`, `drizzle/index.ts` | the caller's arrays, maps and services | factories, their checks, `defineApp()` | what was checked stays the caller's, who may change it before and while it serves | what is served is what was validated; handlers see the right services |
| **Typed client** `client/*` with `internal/validate-*.ts`, `decode-query.ts`, `validation-issues.ts`, `core/response.ts` | – | build a request, decode it, validate, answer, parse the answer; the types over all of it | an encoder, the URL parser, a router and a decoder written apart; JSON is not what the types say | calls mean what the caller meant; results are branches of their type |
| **CLI** `cli/main.ts`, `load-app.ts` | child process, temporary directory | parse, import in a child under a timeout, print | a file may print, exit, hang or serve | the command tells the truth about the file |
| **Cookies** `core/cookies.ts` | a browser's jar | write, read | a strict writer, a lenient reader, a jar that reorders | it reads what it wrote |

How they meet: `defineApp()` checks and compiles the declarations and calls
`prepareApp()`, which builds the table and wraps each Lugas route, innermost
first: *pipeline → error policy → traffic gate → ETag → compression → telemetry →
logging → secure headers → CORS*. `serveApp()` starts the coordinator, arms the
gate, hands the table to `Bun.serve` and returns a handle whose `shutdown()`
first closes the websockets and then asks the coordinator, and whose `track()`
feeds the request's span and then the coordinator's drain. Handlers read the
service slots the coordinator fills, through a prototype chain on the caller's
own object. An SSE response lives in the platform's stream once its handler
returned. The typed client and the command only know the application by its
types and its manifest.

## 2. Modules and how they follow the code

| module | models | extends |
|---|---|---|
| `Lifecycle` | coordinator, gate, `track()`, shutdown | – |
| `ServiceContract` | what the lifecycle promises an application, without hooks, polls, connections or clocks | – (instantiated by `Lifecycle`) |
| `LugasServer` | one server: coordinator + spans + hub | `Lifecycle` |
| `Startup` | `serve()` called again and again on one application | – |
| `SseStream` | one `sse()` response over a `ReadableStream` | – |
| `Pipeline` | one request in the compiled pipeline, with the error policy | – |
| `Body` | one request body: budgets, bounded read, JSON and form parsers | – |
| `RateLimit` | the guard over its store | – |
| `Exchange` | a response in its wrappers, with a shared cache in front | – |
| `RouteTable` | composition and `prepareApp()` | – |
| `Documents` | the OpenAPI document and the manifest | `RouteTable` |
| `Wire` | paths, queries, JSON and its mirror `Jsonify`, issues | – |
| `RoundTrip` | one call of the typed client, to the handler and back | `Wire` |
| `Definition` | the application file: factories, `defineApp()`, the caller's changes | – |
| `Cli` | the command and the child that imports the file | `Definition` |
| `Cookies` | `cookie()`, a jar, `parseCookies()` | – |
| `*Proofs` (8) | theorems about `LugasServer` with its `Lifecycle` (`ServerProofs`), `Definition`, `Cli` and `Startup` (`ApplicationProofs`), `SseStream`, `Pipeline`, `Body` and `RateLimit` (`AdmissionProofs`), `Exchange` and `Cookies` (`ResponseProofs`), `Documents` with its `RouteTable` (`DocumentsProofs`), `RoundTrip` with its `Wire` (`RoundTripProofs`) | their component |
| `MC*` | the instances TLC checks | the topmost module of their component |

**Lifecycle.** One action is the code between two `await`s: `CallInit` calls a
hook, `InitResolves`/`InitRejects` is its continuation; likewise for the rollback
and the disposal loops. `svc[s]` is what really became of a resource, which no
variable of the code knows; `pending` is Bun's count and `handler` what the
handler is really doing, because the two part company when a client disconnects
(`ClientGone`) or the deadline forces connections shut (`PollExpired`). A poll
that finds work before the deadline changes nothing and is not an action. Tasks
registered after the drain ended are `"late"`.

**ServiceContract** is the abstract specification: services open in order and
close in reverse, none closes over live work once all are open, and the verdict
says which way shutdown ended. `Lifecycle!ImplementsContract` is the refinement
(`ContractMode`, the services that are up, `LiveWork`, the outcome), checked by
the run `lifecycle` and proved of the coordinator in `ServerProofs!Refines` and of the
whole server in `ServerProofs!ServerRefines`.

**LugasServer** extends `Lifecycle` and conjoins each of its actions with what
`serve()` adds: `TrackCall` is `Track` after `telemetryTrackTask`,
`HandleShutdown` is `closeAll` with `Shutdown` (or alone, on a later call),
`Signal` is `Shutdown` alone, as `signalHandler` has it. `token` is the request a
task was registered with and `counted` whether a span took it on. Fallback
requests (no route matches) are outside the gate and have a span too.

**Startup** is about what calls of `serve()` share: `gate` is the call whose
promise `trafficGate.gate` is at that moment, `settled` the flag any of their
callbacks may set, `hub` the call whose server upgrades. Start and shutdown of a
single server are one action each here, as coarse as the others can see them.
Nothing in `serveApp()` keeps a caller from a call while earlier ones are starting, were
refused or still listen, and nothing in the model does. `beside` is a history variable: the
calls whose services were starting when each was made. `GateCoversServer` needs it to say
exactly whose promise may open the gate for whom.

**SseStream.** The writer's variables, `cleanup` and the timer are the code's;
`queue`, `reading`, `pull`, `pullAgain` and `started` are the platform's stream
after the WHATWG standard. They are there because the only wake-up of a parked
`sendAwait()` is the platform's `pull`, and when it is called decides whether one
is lost. `flushWaiters` is the one loop; it takes one action per turn, during
which nothing else is enabled (`idle`).

**Pipeline.** `path` is the copy of the pipeline that runs; `HandOver` is the
continuation of an asynchronous validator in the copy without a body, which starts
`executeAsyncPipeline` over at the first stage with `partial`, the keys of
`partialContext`. What a stage's function returns is a choice among what the code
distinguishes; `undefined` is kept apart from an output because the code tests for
keys and not for values. `RouteContext` is the type `context.ts` computes for a
handler, as the slots and the keys it promises; `assembled` is the object made.

**Body.** `Define` and `Serve` resolve the budget from the application's, the
route's and the ceiling in the two moments the code does it. The client then sends,
ends or hangs up between any two turns of the read loop; chunks are cut by the
transport and not by the client. `retained` is what the reader holds on to,
`received` what it has counted. The form loop takes one part per action.

**RateLimit.** `Call` runs the guard to its `await`, `Count` is the store's atomic
increment, at once or at any later moment, `Admit`/`Refuse` the continuation, which
reads the clock again.

**Exchange.** `at` is the wrapper that has the response; a wrapper that is not
configured is skipped. Headers are the fields of a record where properties depend
on them (coding, validator, `Vary`, the allowed origin, credentials, the request
id). The cache is the environment: it keeps what it may, selects by `Vary`,
revalidates what the client did not ask to. `AppChanges` lets the same URL answer
something else later.

**RouteTable.** A path is a sequence of segments, an entry maps methods (or `"*"`)
to the kind of value; everything else of the configuration, with the files that are
missing and the platform, is a record. The mounts are taken in the order of the
source. A row carries its wrappers innermost first, so what the passes do to earlier
mounts and not to later ones is in the state. `facts` is a bag, as the manifest lists
what is pushed. **Documents** chooses the descriptors at their first use and generates
the document at its place among the mounts, the manifest at the end. Which configurations
can be meant at all is said by `WellFormed` (patterns that `validate-path.ts` lets through)
and the assumptions beside it.

**Wire** and **RoundTrip.** A text is a sequence of characters where characters
matter (paths, form fields of a query), a member of a small set elsewhere. `Wire`
holds the pure conversions: templates, `encodeURIComponent` and its inverse, the
query encoder and decoder, `JSON.stringify` and the type `Jsonify` computes for it,
issue normalisation. Bodies and the unions that type them are given level by level
(`Bodies[i]`, `Unions[i]` for `i` up to `Depth` nest only what an earlier level has), so
that the recursions of the code are recursive functions over them. `RoundTrip` is the call: created, built, sent, matched,
decoded slot by slot, answered and parsed. The static types are operators
(`WellTyped`, `ClientOutcomes` and their parts) that the properties compare with what
the code does at run time. A route has the input types of its schemas as sets of values
(`inputs`), which need not be what a query, the headers or JSON can carry: `send()` looks
at the values, the compiler at the schema, and neither at the other.

**Definition.** The heap of guard arrays is a variable and a descriptor holds the
name of one, so that "frozen copy" and "the caller's own" differ. Each factory and
`defineApp()` is an action that makes the code's checks in its order (`FirstFault`);
the caller edits arrays, maps and services between and after them. **Cli** runs the
file inside a child process whose end, output and exit code are all the parent sees.

**Cookies.** Names and values are what the grammars say of them. The jar is the
environment, a set with one cookie for a name and a path; cookies of others need not obey
the writer's grammar. A request carries those that fit, longer paths first and otherwise in
any order, since a server is not to rely on one (RFC 6265, 5.4).

## 3. Runs, bounds and fairness

Deadlock checking is off: each of these systems legitimately stops (a shutdown
ends, a request is answered, preparation is over). Properties in *italics* are
temporal or action properties, the rest invariants.

| run | checks | bounds |
|---|---|---|
| `lifecycle` | `ServicesOutliveWork`, `GateHolds`, *`ImplementsContract`*, *`ShutdownEnds`*, *`HeldIsAnswered`* | 3 services (both loops have a middle), 2 requests, 2 tasks |
| `server` | `SpanBoundary`, `DrainCoversSpans`, *`ToldAtShutdown`*, *`SpanEnds`* | 1 service, a websocket request (which may also be answered as any route), an unmatched request, 2 tasks |
| `sse` | `RetainedBound`, `NoLostWakeup`, `EventsAccounted`, `EndIsClean`, *`ParkedSettles`* | budget 3; events of 1, 2, 2 and 5 bytes, so that two fit, two park and one exceeds the budget; heartbeat of 1 |
| `pipeline` | `OnceInOrder`, `ContextFaithful`, `AnswerExplained` | every set of declared slots, up to 2 guards with 2 keys and a reserved one: two guards are the least that can collide or move from the synchronous loop to the asynchronous one between them |
| `routes` | `DeclaredIsServed`, `OneOwner`, `PolicyCoverage`, `ManifestTruth`, `DocumentTruth` | up to 2 declarations of 2 owners over 3 patterns that meet in every way; each kind of mount alone, none at all, an empty `assets`, and the pairs that can meet, missing files, another platform; three policy sets; four descriptors |
| `rate_limit` | `AdmissionsBounded`, `RefusalHonest` | 4 requests, limits 1 and 2 in one bucket, windows of 3 ticks, seconds of 2, 6 ticks: a window can roll over twice, and neither length divides the other |
| `exchange` | `CodingFits`, `PermissionFits`, `Revalidated`, `OneIdentity` | 12 configurations that put each wrapper beside each other; contents that differ in each thing a wrapper tests; clients of two origins and several negotiations; a cache of 2 |
| `body` | `BudgetHolds`, `WholeOrNothing`, `FormFaithful` | 25 applications; bodies of up to 4 bytes against budgets of 1 to 3, so that a chunk can end on, before and after the budget; forms of up to 3 parts over 2 names |
| `startup` | `GateCoversServer` | 3 calls at any moment of each other, 2 services each, a request to any of them: the third call meets two kinds of earlier one, each of them starting, failing, refused, listening or gone. Requests do not influence each other, so that one is enough |
| `round_trip` | `TypedCallsAreSent`, `MeaningKept`, `ResultIsTyped`, `RefusalExplained` | a hundred calls, right and wrong in each part, against 6 routes, one of which is the sibling of a parameter and one types its slots wider than the wire; two hundred declared body types, two constructors deep, and their values up to a `Depth` of 5; issues one more than the cap, paths one longer than theirs |
| `definition` | `ServedAsValidated`, `ServicesView`, `CliTruth` | 4 files over 2 paths (route, websocket, hand-made object, function, maps that are refused), 2 services and a module; chains of 2; 2 edits at any moment; 19 option sets; 13 command lines |
| `cookies` | `ReadsWhatItWrote` | 22 calls of `cookie()`, 2 paths, 5 cookies of others, one of which bears the name of one of the server's and one a name it never uses, a jar of 4; `session` is the server's alone, so that its values and deletions are read at both paths |

What each shows:

* `lifecycle`: no service is closed under work the coordinator has accounted; no
  handler runs over a service that is not up; the coordinator implements the
  contract; and whatever handlers and tasks do, shutdown ends and a held request is answered.
* `server`: a span ends once, with the response and the work that joined it; the drain
  outlasts the spans; a shutdown of the handle closes every socket open then.
* `sse`: memory is bounded with a consumer that stalls; order, bytes and answers of
  events agree; no parked event waits without a wake-up to come.
* `pipeline`: a request that changes copies repeats and skips nothing, and its handler's
  context is the one its type promises.
* `routes`: what is accepted is served by its owner, alone where it must be, and the manifest and
  the document say so; each handler runs exactly the policies its mount is due, once and in order.
  `PolicyCoverage` names what is not due: a plain function or an endpoint has no pipeline and so
  no telemetry, etag, compression and gate, OpenAPI endpoints have no secure headers, hashed
  assets do not log.
* `rate_limit`: neither a window nor any interval of its length admits too much, and a
  client that heeds `Retry-After` is counted in another window.
* `exchange`: a cached or revalidated response never carries a coding, a permission or a
  body that is not its reader's, and one request has one id.
* `body`: no parser keeps more than the budget or sees half a body, and forms keep
  their limits and every part.
* `startup`: a handler runs when its own server's services are up, and before that in one
  case only: a call in whose company its server's was, one that was starting when that was
  made (refused or not) or one made later, has come up. What calls that ended before left in the
  gate opens nothing (section 5 has the case that remains).
* `round_trip`: a call its types accept is sent, means to the handler what it meant to the
  caller, and comes back as a branch of its type. It may be refused, before anything is sent, for
  half a surrogate pair in a parameter or for a slot that a schema types wider than the wire is
  (null or a date in a query, a number as a header, a bigint in JSON), never for another slot. A 422
  says which slot, keeps the issues bounded and in order, and replaces the message of just those
  that name a sensitive header first; it does not hide their other fields (section 5).
* `definition`: what `route()` validated is what runs, though the caller keeps the objects
  (guard arrays of websockets and of hand-made `{ handler, before }` stay the caller's, and
  paths of hand-made modules or added after `defineModule()` were seen by nobody: section 5);
  a service is delivered once its `init` resolved, and before that its key shows nothing; the
  command prints a manifest exactly when there is one to believe.
* `cookies`: the reader returns what the writer wrote, through a jar that reorders and mixes.

Why these are enough: the loops and cursors of the coordinator, the FIFO of the
writer and the read loop behave alike for every element but the first, the last
and one between; wrappers, mounts and factories are finite in number and all of
them are there; values are in the instances by the distinctions the code makes.
What remains for larger instances is in the proofs of section 4, which cover every
safety property of the runs. Named bounds on what has none in the code are
`Depth` (of bodies), `GuardLimit`, `Declarations`, `EndOfTime`, `LargestFrame`, `MaxBody`, `MaxParts`,
`Slots` (of the cache), `MaxChain`, `MaxEdits` and `MaxJar`; `MaxIssues` and
`MaxSegments` are the code's own caps, made small.

**Fairness.** Four properties need it. `Lifecycle!Fairness`: continuations run,
timers fire and the application's hooks settle; nothing obliges a handler or task
to settle, a client to stay, or anyone to shut down, and `ShutdownEnds` holds all
the same, which is what the deadline is for. `LugasServer!ServerFairness` has, of
these, the continuations and hooks that start-up and the gate need, and adds that
handlers and tasks settle, because a span of a task that never settles rightly never ends.
`SseStream!Fairness`: microtasks run, `start()` returns and the consumer keeps
reading; the producer need not send or close, nor the timer fire. No other
specification states fairness.

Every property of a run has a mutant in `PROJECT.json`: a plausible bug in one
definition (a dropped guard, a swapped order, a forgotten reset), written next to it
in the module, under which TLC finds the property violated.

## 4. What is proved

For every value of the constants (any number of services, requests, tasks, calls,
guards, events, parts and responses kept; any sizes, budgets, limits, windows,
configurations, contents and clients), with no assumption but those named `ASSUME`
in the modules, about the constants:

* `ServerProofs`, the coordinator alone: `ServicesOutliveWork`, `GateHolds` and
  `ImplementsContract` (the refinement), and beside them `TypeOK`, `DependenciesUp`,
  `OutcomeHonest` and `DisposeOnce`. None of these mentions the loops' cursors, so none is
  inductive. `CoreInv` adds what every service is doing on either side of the cursor in each
  phase (`StartupShape`, `DisposalShape`), that the two async functions meet only at the
  `await` on `initPromise` (`StageShape`), and that Bun's count and the tracked set
  between them miss no live work until the deadline forces connections shut
  (`AccountShape`). The refinement maps each action to a contract step or a stutter
  (`ContractService`, `ContractWork`, `ContractShutdown`).
* `ServerProofs`, the composition: `SpanBoundary`, `DrainCoversSpans`, `ToldAtShutdown`,
  `ServerTypeOK`, and what the coordinator promises said again of everything `serve()` puts
  around it: `ServicesOutliveWork` (`ServerWorkIsSafe`) and `ImplementsContract`
  (`ServerRefines`), although the fallback's requests go past the gate and the handle's later
  calls past the coordinator. The
  code counts open tasks and the model knows which they are, so the invariant says that
  the counter is the cardinality of that set; that a response exists once the handler
  is over; what the drain has accounted for of every span; and that the hub registers every
  socket that is open. Each action of `Lifecycle` is met once, with what `serve()` adds.
* `DocumentsProofs`, the table: `DeclaredIsServed`, `OneOwner`, `PolicyCoverage` for any
  configuration. `patternsOverlap` is proved exact: two patterns that overlap share a
  path (`OverlapShared`, which builds it segment by segment) and two that share one overlap
  (`SharedOverlap`). The code compares a mount with what is mounted *so far*, and the
  properties speak of the whole table, so `IInv` says for each moment of
  preparation which mounts are behind, what each left in the table and among the facts, and which
  comparisons were made; `OneOwner` is then an argument over pairs in the order of the
  mounts. For the policies it says of each row which passes have been over it; that
  each wrapper is there once and inside the right ones is `Nested`, by depths, and that none that
  is due is missing is `Covered`; which rows run a pipeline is read off the only declaration that
  can claim them (`ClaimedPipeline`).
* `DocumentsProofs`, what is said of it: `DocumentTruth` and `ManifestTruth`, and that
  preparation with the documents is preparation (`DocSpec => Spec`), so the table's theorems
  hold with them. `DocIInv` adds that the document was made from the facts as they were at its place, what is
  mounted after it is no documented route, and a descriptor that was introspected is one of the
  table's. The manifest's order is a sort by a key which is injective on declared routes.
* `ApplicationProofs`, the file: `ServedAsValidated`, `ServicesView` for any declarations,
  services and edits, and `CliTruth` for any arguments and files; of a file that the
  command imports the first two hold as well. The caller keeps arrays, maps and services and
  may change them at every step, so an invariant about those says little. `FileInv` speaks of
  what only the framework can reach: the frozen copy of a chain has guards only, and the paths
  a module vetted are well formed (`MadeShape`); every prepared path that runs a route runs that
  copy and its record lists it, and no endpoint stands where a path is served
  (`PreparedShape`); the slot of a name holds a service of it that is up, the
  shadow of a key that is not up holds nothing, any other is not there, and no service is
  twice in the queue of those to start (`SlotsShape`). That an accepted application passed every check is a lemma about the first
  failing one. `CommandInv` adds what the child has told its parent (`ChildTold`) in each of
  its stages.
* `ApplicationProofs`, calls of `serve()`: `TypeOK` with `InitStands` (a ready call that is not gone has all its
  services up), and `GateCoversServer`, both for any calls at any moment of each other. The
  invariant `CallsInv` says that the gate is the last call's promise (`Last`), that a call which
  is still starting is in the company of all that were made since (`Beside`), and therefore that
  when the flag is up the last call, or one that was starting when that was made, has come up
  (`Flag`); what is in the company of a later call is in that of an earlier one it follows.
* `SseStreamProofs`: `RetainedBound`, `NoLostWakeup`, `EndIsClean`, `EventsAccounted`,
  `TypeOK`. The two
  counters are sums over the queue and the parked events; a sum is a recursion the
  provers cannot unfold for all lengths, so the invariant states what the code relies on, a
  sequence of *running totals* beside each list (`RunningTotals`) that ends in the counter.
  For the account of each event a second invariant (`CInv`) speaks of presence and order
  only: where an event is by what its producer was told, and that of two calls the later
  is nowhere unless the earlier is there or further. Four lemmas say what appending,
  taking and joining do to presence and order, so no action is argued by position. The
  last step, that running totals are the recursive sum, is a least counterexample.
* `PipelineProofs`: `OnceInOrder`, `ContextFaithful`, `AnswerExplained`, `TypeOK`,
  `EnrichmentOwned`. `IInv` counts the calls exactly by where the request is (`Reached`),
  and says that whatever is behind it succeeded (`BehindInv`), which is what survives
  the hand-over that starts the numbering again.
* `AdmissionProofs`, bodies: `BudgetHolds`, `WholeOrNothing`, `FormFaithful`, `TypeOK`. The invariant ties
  the budget to the two moments it is resolved in, what is retained to what is received, and
  each view of a form to the parts met so far.
* `AdmissionProofs`, the limiter: `AdmissionsBounded`, `RefusalHonest`, `LimitTypeOK`. The snapshots the store
  gave out in one window are 1, 2, … without gap or repetition, and windows do not overlap
  (`resetAt` tells them apart); the number admitted is then a cardinality of an interval.
* `ResponseProofs`, the wrappers and the cache: `CodingFits`, `PermissionFits`, `Revalidated`, `OneIdentity`. The
  invariant follows one response through the wrappers in their order (what it says is
  sound for its own request as far as it has come) and says of each response kept that
  it is sound for the request it was kept with and varies by every header it depends on;
  `Selected` carries soundness from that request to another that the cache's selection
  takes for the same.
* `ResponseProofs`, cookies: `ReadsWhatItWrote`. `JarInv` says that every cookie in the jar is
  one the server meant, with its value, or is as others put it there, and that what it meant is
  there as it wrote it. The rest is about the header: a bijection of places and cookies in which no longer path comes
  after a shorter one, so of two cookies of one name the reader keeps the shorter path's; a name is sent for two paths
  at most (`LastOfTwo`).

* `RoundTripProofs`: `TypedCallsAreSent`, `MeaningKept`, `ResultIsTyped`, `RefusalExplained` for
  any calls, routes, types, nesting and issues. The invariant only says how the state came about:
  what was sent is the call, built, and has no fault (`Built`); the slots before the present one
  are decided by the match (`Decided`); an answer is the framework's or a helper's (`Answered`).
  The weight is in lemmas about the operators. The escapes undo each other and a normalised
  path keeps a segment that is not a dot (`EscapesAre`, `NormalIs`). An entry of a query becomes
  the run of pairs of its key, and reading a key finds that run and no other (`RunsStep`,
  `QueryIs`). Of any two routes one is at least as specific as the other
  (`SpecificIs`), so a call whose route has no rival for its path reaches it (`ItsRoute`).
  `stringify` and `JsonifyRaw` are shown to mirror each other by how deep a type nests
  (`AllMirrored`), from lemmas that each recursive function satisfies its equation (`TextIs`,
  `InhabitIs`, `RawIs`): the library's existence theorems take operators, so the function is
  built level by level, and the induction is a least depth at which a lemma fails.

Only model-checked: the four liveness properties `ShutdownEnds`, `HeldIsAnswered`, `SpanEnds` and
`ParkedSettles`, which are out of the prover's reach under fairness. Every other property of a
run is stated by a theorem.

## 5. Seen while reading

No run of this project expects a violation. The statements below are places where the
models follow the code and a document, comment or test says something else, or where
a reader might expect otherwise; the properties above are stated so as to hold of the code.

Lifecycle and server: `track()` accounts a task while services are being disposed, though
nothing waits for it (`internal/lifecycle.ts:115` against `:42`). A rejected rollback disposal
is reported nowhere, though `lifecycle.ts:92` says it surfaces through `ready`. A signal shuts
down without closing sockets (`docs/websockets.md:97-101`). Work correlated with a request after
its span ended is in no span (`docs/telemetry.md:49`). A `serve()` that throws
(`LUGAS_BODY_003`, `LUGAS_WS_002`, a port in use) leaves its services running (ADR-0020).
Calls of `serve()` on one application share gate, services and hub. A call that is made while
another is starting, a second server or another try after a refusal (a port in use), arms the
one flag of the gate, and the promise of the earlier one raises it: handlers run before their
own server's services are up (`serve.ts:68` "Hold traffic until initialization settles", `:48`
"no Lugas handler executes before the services it uses are ready"). `GateCoversServer` says
when, and that nothing else does. The services are the same objects for all calls, so that a
server that is shut down disposes what another one may be using.

Streams: an event larger than the budget is refused whenever the queue is full, even
with nothing parked (`core/sse.ts:284` against `:60-61`, ADR-0036 #2).

Bodies: the bounded read of JSON never flushes its `TextDecoder`, so that a torn last
character is dropped where the unbounded path answers malformed (`parse-json-body.ts:64`,
`:74`). The clamp to the ceiling in `resolveEffectiveBudget` is never reached; a budget above
the ceiling is refused only for an explicit `maxRequestBodySize`, though ADR-0019 names Bun's
default as well. A form that is complete when its sender hangs up still runs its
handler; a read of a form that fails goes to the error policy where JSON answers 400.

Wrappers: a log sink that throws turns an answered request into a rejection, though
`logging.ts` says the wrapper "never alters response semantics". The 304 of `applyEtag` has
no header but the validator, and error statuses are validated too. A strong `ETag` is shared by gzip
and identity; weak validators are compared strongly. `compression.ts` appends to `Vary` without
merging. ETag reads event streams to their end, where ADR-0033 lets streams flow. The
fallback's telemetry gets no request id.

Routes and documents: the OpenAPI endpoints are mounted after the secure-headers pass
(`prepared-app.ts:544` against the comment at `:444`), and have neither the traffic gate nor a span,
though `docs/openapi.md:89` and ADR-0025 #1 say they "participate in CORS, logging, and lifecycle
exactly like any API route". They are compared with other paths only for
equality and not with asset mounts or health endpoints; a health endpoint at the same path
replaces one. Hashed (object-form) assets do not log, though `docs/spa.md:66` calls them pipeline handlers.
Telemetry is wrapped inside logging, where `docs/compression.md:64` has it outside. The document has
`application/json` for form routes, `{wildcard}` templates without a parameter, one key for
`/x/*` and `/x/:wildcard`, and websockets as ordinary operations. Explicit query
metadata is documented as optional. `classify-route.ts:43` says path-level websocket
descriptors are classified uniformly, but the assembly reads them as a method map and
refuses them. Health paths may have parameters though they are called concrete.

Definition: `websocket()` keeps the caller's own guard array (`core/websocket.ts:104`) where
`route()` copies it, so a change after `defineApp()` changes the handshake's guards and not
the manifest, against `prepared-app.ts:9-10`. A service whose `name` is not its key
reaches handlers under its name, and its key stays `undefined`, as slots are filled by name
(`docs/services.md:87`). An object with a function `handler` and an array `before` is taken for a
descriptor (`classify-route.ts:35`), though no factory looked at its guards or copied them. A `service()` put
into the object after `defineApp()` shows handlers its descriptor. Route maps of hand-made
modules, and what is added to a module's map later, skip path validation. `secureHeaders`,
`health`, `compression` and `etag` ignore unknown keys.

Client: path parameters that are empty or dot segments lead to another route, as does one equal to
the literal text of a sibling route; an array of one arrives as its element. `json()`, `text()` and
`problem()` take the statuses 204, 205 and 304, whose responses cannot have the body they are typed with. Routes with a wildcard cannot be called with types.
`client.head()` of a route for all methods is typed with data it never has. An invalid header name is a
native `TypeError` and not code 009 (`docs/client-error-semantics.md`). The same issue object
twice is called cyclic; of an issue about a sensitive header only the message is
replaced. A redirect is only seen with `init.redirect`. The input types of a call are whatever the schemas say
(`types.ts:211-240`), and `send()` refuses some of what they may admit: null, a date or a nested object in a
query (`query.ts:65`, code 006), a header that is no string or has a line break (`request.ts:81`, `:87`,
009), a content type of the caller's beside a body it does not fit (`:213-231`, 008), and a bigint or a
function as JSON body (`:106`, 008). Half a surrogate pair in a parameter is a native `URIError`
(`path.ts:185`); in a query or a form it becomes U+FFFD. `validate-headers.ts:5-6` says that the value of a
sensitive header is not exposed; a redacted issue keeps its path and whatever fields its schema gave it but
the names in `UNSAFE_KEYS` (`validation-issues.ts:117-126` keeps `received`), so a schema that repeats the
value there repeats it to the client.

Cookies: the hint of `cookie()` and `docs/cookies.md:61` advise `encodeURIComponent`, whose
`%` the grammar refuses (`cookies.ts:44`), with `(`, `)` and `/` that RFC 6265 allows. A name that starts
with `$`, or is `__proto__`, is written and never read (`cookies.ts:72`, `:73`: an assignment to a
plain object). A path or domain with `;` is not checked.

Command: a manifest is judged by its shape (`load-app.ts:89`), so a hand-made export or printout of
that shape is taken for one; creating the temporary directory and writing the script (`:55-57`) stand
outside the `try`. What a file prints at import makes its manifest "invalid JSON"; a complete
manifest is discarded when the child stays alive; a truthy default export hides a named
`app`; `lugas routes -v` takes `-v` for the entry, and `lugas routes --timeout 5 app`
finds none.

Rate limits: ADR-0034 #2 names the client's address as default key, the code uses the prefix alone.

## 6. Assumptions

About Bun and the platform, none of which is in this repository: `stop()` refuses every later
request, on kept-alive connections too; `pendingRequests` may forget a request whose
client disconnected while its handler goes on; `stop(true)` ends every connection, upgraded
ones included; a request accepted before `stop()` may still be upgraded; the stream
follows the WHATWG standard; `request.formData()` gives the parts in the order of the wire; the
transport cuts a body off above its ceiling; `fetch()` and the URL parser follow the WHATWG
standards, and Bun's router its documented patterns; browsers keep cookies after RFC 6265.

About applications: hooks settle (a hanging init hook keeps a shutdown from ever
arming its deadline); telemetry callbacks and log sinks do not throw; limiters that share
a bucket share a window length; a store's increment is atomic.

About the models: `Requests` of `Lifecycle` are Lugas routes (native values and assets
bypass the gate); a request's pipeline state lives in closures, so `Pipeline` and `Body`
have one; heartbeats without a byte budget are not bounded by the code, so the run of
`SseStream` configures one; endpoint paths of `RouteTable` have no wildcard (health paths
cannot, `production.ts:95`; a document served at one is left out), its `Requests` hold one
that matches both of any two patterns that overlap, `Order` lists every path once, and the
framework's owners and `"null"` are no names of modules; one file mapping
holds an asset, hashed or not; in `Documents` an introspected schema has a property; in `Definition` no service's key is
`"none"` or `"undefined"` and a described service's value stands for its key; in `Wire` a value nests to a depth
of `Depth` and an object or array has at most one member (an object with more only repeats what
is said of one), every value of a declared type is among `Bodies`, and a number is finite or
not; in `RoundTrip` the keys of an object differ, text handed over has no escape in it, templates have no half of a
surrogate pair and the value of a JSON schema has not the shape of `formBody()`'s; in `Cookies`
a name's text determines what the grammar says of it. Each is an `ASSUME` of its module.

## 7. What is not modelled

Message wording, header values, and the formatting of frames, log entries, texts and
types in documents. `testing/test-server.ts` starts a server on a free port and stops it,
which is `LugasServer`'s. `scripts/`, `examples/`, the release tooling and the documentation
generators are programs beside the framework: they read files and print, keep no state
and run nothing concurrently. The types of `client/types.ts`, `core/types.ts`,
`core/contract.ts` and `internal/context.ts` are modelled where a run-time behaviour has to
agree with them; the rest of them only exists while compiling. The platform is external (section 6).

## 8. What is left

Several servers that overlap, with properties for what may and may not be shared, if
the framework decides to support them: `Startup` has them and says what holds. The four liveness properties would need a prover for fairness.
