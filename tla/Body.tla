-------------------------------- MODULE Body --------------------------------
(***************************************************************************)
(* A request body on its way into a route that declares one: the budget    *)
(* the route was compiled with, the chunked read that enforces it against  *)
(* a client that may send anything, stop or hang up, the JSON parser, and  *)
(* the multipart parser with its limits and its two views of the parts.    *)
(*                                                                         *)
(* The budget is resolved while the application is defined, the ceiling it *)
(* must respect is known only to serve(): resolveEffectiveBudget() never   *)
(* sees one, and the refusal at start-up is what keeps a budget below it.  *)
(***************************************************************************)
EXTENDS Integers, Sequences, FiniteSets

CONSTANTS
  Apps,      \* what an application declares and how it is served
  Uploads,   \* what a client announces
  Names,     \* names of form parts
  MaxBody,   \* a bound on what a client sends
  MaxParts   \* a bound on the parts of a form

Unset == -1  \* undefined

Forms == [maxFields: Int, maxFiles: Int, maxFileSize: Int, preserve: BOOLEAN]
AppType ==
  [body: {"none", "json", "form"}, form: Forms, appDefault: Int, route: Int, ceiling: Nat \cup {Unset}]
UploadType == [type: {"json", "form", "other"}, length: Nat \cup {Unset}, null: BOOLEAN]

ASSUME AppsAssumption == Apps \subseteq AppType
\* A body of a declared length zero is null to the handler.
ASSUME UploadsAssumption ==
  /\ Uploads \subseteq UploadType
  /\ \A u \in Uploads : u.null => u.length \in {0, Unset}
ASSUME BoundsAssumption == MaxBody \in Nat /\ MaxParts \in Nat

VARIABLES
  app,        \* the application
  slot,       \* budgets.ceilingRef.current
  budget,     \* the budget the route was compiled with
  upload,     \* the request
  sent,       \* the bytes the client has sent
  unread,     \* of these, the bytes that are on their way to the reader
  stream,     \* how the body stands: open, ended, errored by either side
  aborted,    \* request.signal.aborted
  phase,
  received,   \* the bytes the reader has seen
  retained,   \* the bytes it has kept
  outcome,    \* what parsing came to
  parts,      \* the entries of the FormData the loop has met
  view        \* fields, files, groups and the two counters

config == <<app, slot, budget>>
wire == <<upload, sent, unread, stream, aborted>>
reader == <<phase, received, retained, outcome>>
form == <<parts, view>>
vars == <<config, wire, reader, form>>

NoView ==
  [fields |-> [n \in Names |-> 0], files |-> [n \in Names |-> 0],
   groups |-> [n \in Names |-> <<>>], fieldCount |-> 0, fileCount |-> 0]

-----------------------------------------------------------------------------
(* defineApp() and serve().                                                *)

resolveEffectiveBudget(route, ceiling) ==
  LET selected == IF route # Unset THEN route ELSE app.appDefault
  IN IF selected = Unset \/ ceiling = Unset THEN selected
     ELSE IF ceiling < selected THEN ceiling ELSE selected

validBudget(b) == b = Unset \/ b > 0

\* form(): limits are positive.
validForm(f) == f.maxFields > 0 /\ f.maxFiles > 0 /\ f.maxFileSize > 0

\* A budget needs a body that is parsed.
validRoute == /\ validBudget(app.route) /\ (app.body = "form" => validForm(app.form))
              /\ (app.route # Unset => app.body # "none")

Define ==
  /\ phase = "defining"
  /\ IF validBudget(app.appDefault) /\ validRoute
     THEN phase' = "defined" /\ budget' = resolveEffectiveBudget(app.route, slot)
     ELSE phase' = "refused" /\ UNCHANGED budget
  /\ UNCHANGED <<app, slot, wire, received, retained, outcome, form>>

\* LUGAS_BODY_003.
aboveCeiling == app.ceiling # Unset /\ (app.appDefault > app.ceiling \/ app.route > app.ceiling)

Serve ==
  /\ phase = "defined"
  /\ IF aboveCeiling
     THEN phase' = "refused" /\ UNCHANGED slot
     ELSE phase' = "serving" /\ slot' = app.ceiling
  /\ UNCHANGED <<app, budget, wire, received, retained, outcome, form>>

-----------------------------------------------------------------------------
(* The client, and the transport between it and the handler.               *)

overCeiling(n) == app.ceiling # Unset /\ n > app.ceiling

\* A request that announces too much is answered by the transport.
Arrive(u) ==
  /\ phase = "serving" /\ ~overCeiling(u.length)
  /\ upload' = u /\ phase' = "arrived"
  /\ stream' = IF u.null THEN "ended" ELSE "open"
  /\ UNCHANGED <<config, sent, unread, aborted, received, retained, outcome, form>>

\* Never more than was announced.  The transport counts too, and cuts the body
\* off above its ceiling.
Send(n) ==
  /\ phase \in {"arrived", "reading"} /\ stream = "open"
  /\ sent + n <= (IF upload.length # Unset THEN upload.length ELSE MaxBody)
  /\ sent' = sent + n
  /\ IF overCeiling(sent + n)
     THEN stream' = "cut" /\ unread' = 0
     ELSE stream' = stream /\ unread' = unread + n
  /\ UNCHANGED <<config, upload, aborted, reader, form>>

Finish ==
  /\ phase \in {"arrived", "reading"} /\ stream = "open"
  /\ upload.length \in {Unset, sent}
  /\ stream' = "ended" /\ UNCHANGED <<config, upload, sent, unread, aborted, reader, form>>

\* The client hangs up; a body that is not complete will never be.
Abort ==
  /\ phase \in {"arrived", "reading"} /\ ~aborted
  /\ aborted' = TRUE
  /\ IF stream = "open" THEN stream' = "cut" /\ unread' = 0 ELSE UNCHANGED <<stream, unread>>
  /\ UNCHANGED <<config, upload, sent, reader, form>>

-----------------------------------------------------------------------------
(* parseJsonBody() and parseFormBody().                                    *)

Settle(o) == phase' = "done" /\ outcome' = o

exceedsHeader == budget # Unset /\ upload.length > budget

\* validateBody(): media type and announced length, before anything is read.
Begin ==
  /\ phase = "arrived"
  /\ IF app.body = "none" THEN Settle("skipped")
     ELSE IF app.body = "json" /\ aborted THEN Settle("threw")
     ELSE IF upload.type # app.body THEN Settle("unsupported")
     ELSE IF exceedsHeader THEN Settle("over budget")
     ELSE IF upload.null THEN Settle(IF app.body = "json" THEN "accepted" ELSE "malformed")
     ELSE phase' = "reading" /\ UNCHANGED outcome
  /\ UNCHANGED <<config, wire, received, retained, form>>

\* Mutant: the chunk at hand is not counted.
exceedsLate(r, n) == budget # Unset /\ r > budget

\* received > budget, with the chunk just read.
exceeds(r, n) == budget # Unset /\ r + n > budget

\* One turn of the read loop, with a chunk as the transport cuts them, which is
\* not as the client sent them; the reader is cancelled with the refusal.
ReadChunk(n) ==
  /\ phase = "reading" /\ n <= unread
  /\ received' = received + n
  /\ IF exceeds(received, n)
     THEN /\ Settle("over budget") /\ retained' = retained
          /\ stream' = "cut" /\ unread' = 0
     ELSE /\ retained' = retained + n /\ unread' = unread - n
          /\ UNCHANGED <<phase, outcome, stream>>
  /\ UNCHANGED <<config, upload, sent, aborted, form>>

\* The body is complete: JSON.parse() of the text, blank text being undefined.
\* A character that is torn off at the end breaks what request.text() returns;
\* the decoder of the bounded read is never flushed and drops it.
ReadJson ==
  /\ phase = "reading" /\ app.body = "json" /\ unread = 0 /\ stream = "ended"
  /\ \/ aborted /\ Settle("threw") /\ UNCHANGED retained
     \/ /\ ~aborted
        /\ \E text \in {"blank", "json", "broken"}, torn \in BOOLEAN :
             /\ torn => retained > 0 /\ (budget = Unset => text = "broken")
             /\ retained' = IF torn /\ budget # Unset THEN retained - 1 ELSE retained
             /\ retained' = 0 => text = "blank"
             /\ Settle(IF text = "broken" THEN "malformed" ELSE "accepted")
  /\ UNCHANGED <<config, wire, received, form>>

\* Mutant: what was read before the failure is taken for the body.
ReadFailsQuietly ==
  /\ phase = "reading" /\ stream = "cut"
  /\ Settle("accepted") /\ UNCHANGED <<config, wire, received, retained, form>>

\* read() rejects: a hang-up is rethrown, another failure of a JSON body is a
\* malformed one; parseFormBody() catches neither.
ReadFails ==
  /\ phase = "reading" /\ stream = "cut"
  /\ Settle(IF app.body = "json" /\ ~aborted THEN "malformed" ELSE "threw")
  /\ UNCHANGED <<config, wire, received, retained, form>>

Part == [name: Names, file: BOOLEAN, size: 0 .. MaxBody]

\* The platform parses all of the bytes; the loop then meets the parts one by
\* one, and each is smaller than the whole.
PlatformParse ==
  /\ phase = "reading" /\ app.body = "form" /\ unread = 0 /\ stream = "ended"
  /\ phase' = "collecting" /\ UNCHANGED <<config, wire, received, retained, outcome, form>>

PlatformRefuses ==
  /\ phase = "reading" /\ app.body = "form" /\ unread = 0 /\ stream = "ended"
  /\ Settle("malformed") /\ UNCHANGED <<config, wire, received, retained, form>>

counted(p) ==
  IF p.file THEN [view EXCEPT !.fileCount = @ + 1] ELSE [view EXCEPT !.fieldCount = @ + 1]

\* Mutant: the limit is compared with the count before this part.
overLimitLate(p) ==
  IF p.file THEN view.fileCount > app.form.maxFiles \/ p.size > app.form.maxFileSize
  ELSE view.fieldCount > app.form.maxFields

overLimit(p) ==
  IF p.file THEN counted(p).fileCount > app.form.maxFiles \/ p.size > app.form.maxFileSize
  ELSE counted(p).fieldCount > app.form.maxFields

\* The last part of a name wins; a group keeps them all.
collected(p) ==
  LET i == Len(parts) + 1
      kept == IF p.file THEN [counted(p) EXCEPT !.files[p.name] = i]
              ELSE [counted(p) EXCEPT !.fields[p.name] = i]
  IN IF app.form.preserve THEN [kept EXCEPT !.groups[p.name] = Append(@, i)] ELSE kept

Collect(p) ==
  /\ phase = "collecting" /\ Len(parts) < MaxParts /\ Len(parts) < retained /\ p.size < retained
  /\ parts' = Append(parts, p)
  /\ IF overLimit(p) THEN Settle("over limit") /\ view' = counted(p)
     ELSE view' = collected(p) /\ UNCHANGED <<phase, outcome>>
  /\ UNCHANGED <<config, wire, received, retained>>

Collected ==
  /\ phase = "collecting"
  /\ Settle("accepted") /\ UNCHANGED <<config, wire, received, retained, form>>

-----------------------------------------------------------------------------
Init ==
  /\ app \in Apps /\ slot = Unset /\ budget = Unset
  /\ upload = [type |-> "other", length |-> Unset, null |-> TRUE]
  /\ sent = 0 /\ unread = 0 /\ stream = "open" /\ aborted = FALSE
  /\ phase = "defining" /\ received = 0 /\ retained = 0 /\ outcome = "none"
  /\ parts = <<>> /\ view = NoView

Client == (\E u \in Uploads : Arrive(u)) \/ (\E n \in 1 .. MaxBody : Send(n)) \/ Finish \/ Abort

Reader ==
  \/ Begin \/ (\E n \in 1 .. MaxBody : ReadChunk(n)) \/ ReadJson \/ ReadFails
  \/ PlatformParse \/ PlatformRefuses \/ (\E p \in Part : Collect(p)) \/ Collected

Next == Define \/ Serve \/ Client \/ Reader

Spec == Init /\ [][Next]_vars

-----------------------------------------------------------------------------
Outcomes == {"none", "skipped", "accepted", "unsupported", "malformed", "over budget", "over limit", "threw"}

TypeOK ==
  /\ app \in Apps /\ slot \in Nat \cup {Unset} /\ budget \in Int
  /\ upload \in UploadType /\ sent \in Nat /\ unread \in Nat
  /\ stream \in {"open", "ended", "cut"} /\ aborted \in BOOLEAN
  /\ phase \in {"defining", "defined", "refused", "serving", "arrived", "reading", "collecting", "done"}
  /\ received \in Nat /\ retained \in Nat /\ outcome \in Outcomes

\* What reaches a parser is the size of the declared budget at most, and of the
\* ceiling; a refusal is only for a body that is larger, and no larger body is
\* accepted.
BudgetHolds ==
  LET declared == IF app.route # Unset THEN app.route ELSE app.appDefault
  IN /\ declared # Unset /\ retained > 0 => retained <= declared
     /\ app.ceiling # Unset /\ phase \notin {"defining", "defined", "refused"} => budget <= app.ceiling
     /\ outcome = "over budget" => declared # Unset /\ (upload.length > declared \/ sent > declared)
     /\ outcome = "over budget" /\ upload.length > declared => received = 0

\* A parser is given the whole body or nothing: not what came before a failure;
\* only a torn character at the end of a bounded JSON body may be missing.  An
\* aborted JSON request is neither accepted nor called malformed.
WholeOrNothing ==
  /\ phase = "collecting" \/ outcome = "accepted" =>
       /\ stream = "ended"
       /\ retained = sent \/ (app.body = "json" /\ budget # Unset /\ retained = sent - 1)
  /\ aborted /\ app.body = "json" /\ stream = "cut" /\ phase = "done"
       => outcome \in {"threw", "unsupported", "over budget"}

Last(S) == CHOOSE i \in S : \A j \in S : j <= i
PartsOf(n, file) == {i \in 1 .. Len(parts) : parts[i].name = n /\ parts[i].file = file}

\* A form that is accepted keeps within every limit, shows the last part of a
\* name as the field or file of that name, and in its groups every part once,
\* in the order of the wire.
FormFaithful ==
  outcome = "accepted" /\ app.body = "form" =>
    /\ Cardinality({i \in 1 .. Len(parts) : parts[i].file}) <= app.form.maxFiles
    /\ Cardinality({i \in 1 .. Len(parts) : ~parts[i].file}) <= app.form.maxFields
    /\ \A i \in 1 .. Len(parts) : parts[i].file => parts[i].size <= app.form.maxFileSize
    /\ \A n \in Names :
         /\ view.fields[n] = IF PartsOf(n, FALSE) = {} THEN 0 ELSE Last(PartsOf(n, FALSE))
         /\ view.files[n] = IF PartsOf(n, TRUE) = {} THEN 0 ELSE Last(PartsOf(n, TRUE))
         /\ app.form.preserve =>
              LET g == view.groups[n]
              IN /\ {g[i] : i \in DOMAIN g} = PartsOf(n, TRUE) \cup PartsOf(n, FALSE)
                 /\ \A i, j \in DOMAIN g : i < j => g[i] < g[j]

=============================================================================
