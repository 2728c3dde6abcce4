---------------------------- MODULE AdmissionProofs ----------------------------
(***************************************************************************)
(* What a request must pass before its handler reads it.                   *)
(*                                                                         *)
(* Body: the budget of a route and the wholeness of what its parser is     *)
(* given, for any application, client and sizes.                           *)
(*                                                                         *)
(* RateLimit: the snapshots that increment() has given out are, per bucket *)
(* and window, the numbers 1 .. n without a gap and without a repetition;  *)
(* what a window admits is therefore counted by an interval of numbers.    *)
(* The windows of a bucket never overlap, and each starts at its first hit.*)
(***************************************************************************)
EXTENDS Body, RateLimit, FiniteSetTheorems, TLAPS

declared == IF app.route # Unset THEN app.route ELSE app.appDefault

\* No server has been started when the budget is compiled; serve() then sets
\* the ceiling and refuses an application that is above it.
Compiled ==
  /\ phase = "defining" => slot = Unset
  /\ phase \notin {"defining", "refused"} => budget = declared /\ (budget = Unset \/ budget > 0)
  /\ phase \notin {"defining", "defined", "refused"} => ~aboveCeiling

\* Before the request, and before its body is read, nothing has been.
Untouched ==
  /\ phase \in {"defining", "defined", "refused", "serving"} => sent = 0 /\ unread = 0 /\ stream = "open" /\ ~aborted
  /\ phase \in {"defining", "defined", "refused", "serving", "arrived"} => received = 0 /\ retained = 0
  /\ phase \notin {"done"} => outcome = "none"
  /\ upload.null /\ phase \notin {"defining", "defined", "refused", "serving"} => stream = "ended" /\ sent = 0

\* Every byte is read or on its way, unless the stream is cut.
Conserved ==
  /\ phase \in {"arrived", "reading", "collecting"} => retained = received
  /\ phase \in {"arrived", "reading", "collecting"} /\ stream # "cut" => received + unread = sent
  /\ phase \in {"arrived", "reading", "collecting"} => received + unread <= sent
  /\ phase = "collecting" => unread = 0 /\ stream = "ended"
  /\ phase \in {"reading", "collecting"} /\ budget # Unset => received <= budget

\* What was looked at before the body was read.
Admitted ==
  /\ phase = "collecting" => app.body = "form"
  /\ phase \in {"reading", "collecting"} => ~exceedsHeader

IInv == TypeOK /\ Compiled /\ Untouched /\ Conserved /\ Admitted /\ BudgetHolds /\ WholeOrNothing

-----------------------------------------------------------------------------
LEMMA Types ==
  /\ \A a \in Apps : /\ a \in AppType /\ a.appDefault \in Int /\ a.route \in Int
                     /\ a.ceiling \in Nat \cup {Unset} /\ a.body \in {"none", "json", "form"}
  /\ \A u \in Uploads : u \in UploadType /\ (u.null => u.length \in {0, Unset})
  /\ \A u \in UploadType : u.length \in Nat \cup {Unset} /\ u.null \in BOOLEAN
  /\ Unset \in Int
  BY AppsAssumption, UploadsAssumption DEF AppType, UploadType, Forms, Unset

LEMMA Initially == Init => IInv
<1> SUFFICES ASSUME Init PROVE IInv
  OBVIOUS
<1>1. TypeOK
  BY Types DEF Init, TypeOK, UploadType, Outcomes, Unset
<1>2. Compiled /\ Untouched /\ Conserved /\ Admitted
  BY DEF Init, Compiled, Untouched, Conserved, Admitted
<1>3. BudgetHolds /\ WholeOrNothing
  BY DEF Init, BudgetHolds, WholeOrNothing
<1> QED
  BY <1>1, <1>2, <1>3 DEF IInv

LEMMA OutcomesAre ==
  /\ "none" \in Outcomes /\ "skipped" \in Outcomes /\ "accepted" \in Outcomes /\ "unsupported" \in Outcomes
  /\ "malformed" \in Outcomes /\ "over budget" \in Outcomes /\ "over limit" \in Outcomes /\ "threw" \in Outcomes
  BY DEF Outcomes

LEMMA TypeStep == ASSUME TypeOK, [Next]_vars PROVE TypeOK'
<1> USE BoundsAssumption DEF TypeOK, config, wire, reader, form
<1>1. CASE UNCHANGED vars
  BY <1>1 DEF vars
<1>2. CASE Define
  <2>1. resolveEffectiveBudget(app.route, slot) \in Int
    <3>1. app.route \in Int /\ app.appDefault \in Int /\ slot \in Int
      BY Types
    <3> QED
      BY <3>1 DEF resolveEffectiveBudget
  <2> QED
    BY <1>2, <2>1 DEF Define
<1>3. CASE Serve
  BY <1>3, Types DEF Serve
<1>4. ASSUME NEW u \in Uploads, Arrive(u) PROVE TypeOK'
  BY <1>4, Types DEF Arrive
<1>5. ASSUME NEW n \in 1 .. MaxBody, Send(n) PROVE TypeOK'
  <2>1. sent + n \in Nat /\ unread + n \in Nat
    OBVIOUS
  <2> QED
    BY <1>5, <2>1 DEF Send
<1>6. CASE Finish
  BY <1>6 DEF Finish
<1>12. CASE Abort
  <2>1. aborted' = TRUE /\ stream' \in {stream, "cut"} /\ unread' \in {unread, 0}
    BY <1>12 DEF Abort
  <2> QED
    BY <1>12, <2>1 DEF Abort
<1>7. CASE Begin
  BY <1>7, OutcomesAre DEF Begin, Settle
<1>8. ASSUME NEW n \in 1 .. MaxBody, ReadChunk(n) PROVE TypeOK'
  <2>1. received + n \in Nat /\ retained + n \in Nat /\ (n <= unread => unread - n \in Nat)
    OBVIOUS
  <2> QED
    <3>1. CASE exceeds(received, n)
      <4>1. phase' = "done" /\ stream' = "cut" /\ unread' = 0 /\ retained' = retained
        BY <1>8, <3>1 DEF ReadChunk, Settle
      <4>2. outcome' \in Outcomes
        BY <1>8, <3>1, OutcomesAre DEF ReadChunk, Settle
      <4>3. 0 \in Nat
        OBVIOUS
      <4> QED
        BY <1>8, <2>1, <4>1, <4>2, <4>3 DEF ReadChunk
    <3>2. CASE ~exceeds(received, n)
      BY <1>8, <2>1, <3>2 DEF ReadChunk
    <3> QED
      BY <3>1, <3>2
<1>9. CASE ReadJson
  <2>1. retained > 0 => retained - 1 \in Nat
    OBVIOUS
  <2> QED
    BY <1>9, <2>1, OutcomesAre DEF ReadJson, Settle
<1>10. CASE ReadFails \/ PlatformParse \/ PlatformRefuses \/ Collected
  BY <1>10, OutcomesAre DEF ReadFails, PlatformParse, PlatformRefuses, Collected, Settle
<1>11. ASSUME NEW p \in Part, Collect(p) PROVE TypeOK'
  BY <1>11, OutcomesAre DEF Collect, Settle
<1> QED
  BY <1>1, <1>2, <1>3, <1>4, <1>5, <1>6, <1>7, <1>8, <1>9, <1>10, <1>11, <1>12 DEF Next, Client, Reader

-----------------------------------------------------------------------------
\* What an action leaves alone, and the numbers it counts with.

LEMMA Sizes ==
  ASSUME TypeOK
  PROVE  /\ sent \in Nat /\ unread \in Nat /\ received \in Nat /\ retained \in Nat
         /\ budget \in Int /\ declared \in Int /\ upload.length \in Int
         /\ app.ceiling \in Int /\ app.appDefault \in Int /\ app.route \in Int
  BY Types DEF TypeOK, declared

LEMMA ChunksArePositive == \A n \in 1 .. MaxBody : n \in Nat /\ n > 0
  BY BoundsAssumption

LEMMA ConfigStays ==
  ASSUME [Next]_vars, phase \notin {"defining", "defined"}
  PROVE  app' = app /\ slot' = slot /\ budget' = budget
  BY DEF Next, vars, config, Client, Reader, Define, Serve, Arrive, Send, Finish, Abort, Begin, ReadChunk, ReadJson,
         ReadFails, PlatformParse, PlatformRefuses, Collect, Collected

LEMMA PhaseMoves ==
  ASSUME [Next]_vars, phase \notin {"defining", "defined"}
  PROVE  phase' = phase \/ (phase # "refused" /\ phase' \in {"arrived", "reading", "collecting", "done"})
  BY DEF Next, vars, reader, Client, Reader, Define, Serve, Arrive, Send, Finish, Abort, Begin, ReadChunk, ReadJson,
         ReadFails, PlatformParse, PlatformRefuses, Collect, Collected, Settle

LEMMA DefiningStep ==
  ASSUME [Next]_vars, phase \in {"defining", "defined"}
  PROVE  UNCHANGED vars \/ Define \/ Serve
  BY DEF Next, Client, Reader, Arrive, Send, Finish, Abort, Begin, ReadChunk, ReadJson,
         ReadFails, PlatformParse, PlatformRefuses, Collect, Collected

LEMMA CompiledStep ==
  ASSUME TypeOK, Compiled, [Next]_vars PROVE Compiled'
<1>1. CASE phase \notin {"defining", "defined"}
  BY <1>1, ConfigStays, PhaseMoves DEF Compiled, aboveCeiling, declared
<1>2. CASE phase \in {"defining", "defined"} /\ UNCHANGED vars
  BY <1>2 DEF vars, config, reader, Compiled, aboveCeiling, declared
<1>3. CASE Define
  BY <1>3, Sizes DEF Define, Compiled, declared, resolveEffectiveBudget, validBudget, validRoute
<1>4. CASE Serve
  BY <1>4 DEF Serve, Compiled, declared, aboveCeiling
<1> QED
  BY <1>1, <1>2, <1>3, <1>4, DefiningStep

LEMMA UntouchedStep ==
  ASSUME TypeOK, Untouched, Conserved, [Next]_vars PROVE Untouched'
<1> USE DEF Untouched, Settle
<1>1. CASE UNCHANGED vars
  BY <1>1 DEF vars, wire, reader
<1>2. CASE Define \/ Serve
  BY <1>2 DEF Define, Serve, wire
<1>3. ASSUME NEW u \in Uploads, Arrive(u) PROVE Untouched'
  BY <1>3 DEF Arrive
<1>4. ASSUME NEW n \in 1 .. MaxBody, Send(n) PROVE Untouched'
  BY <1>4 DEF Send, reader
<1>5. CASE Finish
  BY <1>5 DEF Finish, reader
<1>6. CASE Abort
  BY <1>6 DEF Abort, reader
<1>7. CASE Begin
  BY <1>7 DEF Begin, wire
<1>8. ASSUME NEW n \in 1 .. MaxBody, ReadChunk(n) PROVE Untouched'
  <2>1. upload.null => sent = 0
    BY <1>8 DEF ReadChunk
  <2>2. sent > 0
    <3>1. n <= unread /\ received + unread <= sent
      BY <1>8 DEF ReadChunk, Conserved
    <3> QED
      BY <3>1, ChunksArePositive, Sizes
  <2>3. ~upload.null
    BY <2>1, <2>2
  <2> QED
    BY <1>8, <2>3 DEF ReadChunk
<1>9. CASE ReadJson
  BY <1>9 DEF ReadJson, wire
<1>10. CASE ReadFails \/ PlatformParse \/ PlatformRefuses \/ Collected
  BY <1>10 DEF ReadFails, PlatformParse, PlatformRefuses, Collected, wire
<1>11. ASSUME NEW p \in Part, Collect(p) PROVE Untouched'
  BY <1>11 DEF Collect, wire
<1> QED
  BY <1>1, <1>2, <1>3, <1>4, <1>5, <1>6, <1>7, <1>8, <1>9, <1>10, <1>11 DEF Next, Client, Reader

LEMMA ConservedStep ==
  ASSUME TypeOK, Compiled, Untouched, Conserved, [Next]_vars PROVE Conserved'
<1> USE Sizes DEF Conserved, Settle
<1>1. CASE UNCHANGED vars
  BY <1>1 DEF vars, wire, reader, config
<1>2. CASE Define \/ Serve
  BY <1>2 DEF Define, Serve, wire
<1>3. ASSUME NEW u \in Uploads, Arrive(u) PROVE Conserved'
  BY <1>3 DEF Arrive, Untouched, config
<1>4. ASSUME NEW n \in 1 .. MaxBody, Send(n) PROVE Conserved'
  BY <1>4, BoundsAssumption DEF Send, reader, config
<1>5. CASE Finish
  BY <1>5 DEF Finish, reader, config
<1>6. CASE Abort
  BY <1>6 DEF Abort, reader, config
<1>7. CASE Begin
  <2>1. received' = 0 /\ retained' = 0 /\ unread' = unread /\ sent' = sent /\ stream' = stream
    BY <1>7 DEF Begin, wire, Untouched
  <2>2. phase' \in {"reading", "done"} /\ budget' = budget /\ phase = "arrived" /\ received = 0
    BY <1>7 DEF Begin, config, Untouched
  <2>3. budget # Unset /\ phase' = "reading" => budget >= 0
    BY <1>7 DEF Begin, Compiled
  <2> QED
    BY <2>1, <2>2, <2>3
<1>8. ASSUME NEW n \in 1 .. MaxBody, ReadChunk(n) PROVE Conserved'
  <2>1. budget' = budget /\ sent' = sent /\ received' = received + n
    BY <1>8 DEF ReadChunk, config
  <2>2. CASE exceeds(received, n)
    <3>1. phase' = "done"
      BY <1>8, <2>2 DEF ReadChunk
    <3> QED
      BY <3>1
  <2>3. CASE ~exceeds(received, n)
    <3>1. retained' = retained + n /\ unread' = unread - n /\ phase' = "reading" /\ stream' = stream
      BY <1>8, <2>3 DEF ReadChunk
    <3>2. budget # Unset => received + n <= budget
      BY <2>1, <2>3 DEF exceeds
    <3> QED
      BY <1>8, <2>1, <3>1, <3>2, ChunksArePositive DEF ReadChunk
  <2> QED
    BY <2>2, <2>3
<1>9. CASE ReadJson
  BY <1>9 DEF ReadJson, wire, config
<1>10. CASE ReadFails \/ PlatformParse \/ PlatformRefuses \/ Collected
  BY <1>10 DEF ReadFails, PlatformParse, PlatformRefuses, Collected, wire, config
<1>11. ASSUME NEW p \in Part, Collect(p) PROVE Conserved'
  BY <1>11 DEF Collect, wire, config
<1> QED
  BY <1>1, <1>2, <1>3, <1>4, <1>5, <1>6, <1>7, <1>8, <1>9, <1>10, <1>11 DEF Next, Client, Reader

LEMMA AdmittedStep ==
  ASSUME TypeOK, Admitted, [Next]_vars PROVE Admitted'
<1> USE DEF Admitted, Settle, exceedsHeader
<1>1. CASE UNCHANGED vars
  BY <1>1 DEF vars, wire, reader, config
<1>2. CASE Define \/ Serve
  BY <1>2 DEF Define, Serve, wire
<1>3. CASE Begin
  BY <1>3 DEF Begin, wire, config
<1>4. CASE Client
  BY <1>4 DEF Client, Arrive, Send, Finish, Abort, reader, config
<1>5. ASSUME NEW n \in 1 .. MaxBody, ReadChunk(n) PROVE Admitted'
  BY <1>5 DEF ReadChunk, config
<1>6. CASE ReadJson \/ ReadFails \/ PlatformParse \/ PlatformRefuses \/ Collected
  BY <1>6 DEF ReadJson, ReadFails, PlatformParse, PlatformRefuses, Collected, wire, config
<1>7. ASSUME NEW p \in Part, Collect(p) PROVE Admitted'
  BY <1>7 DEF Collect, wire, config
<1> QED
  BY <1>1, <1>2, <1>3, <1>4, <1>5, <1>6, <1>7 DEF Next, Reader

-----------------------------------------------------------------------------
(* BudgetHolds, in its three parts.                                        *)

Bounded == declared # Unset /\ retained > 0 => retained <= declared

UnderCeiling ==
  app.ceiling # Unset /\ phase \notin {"defining", "defined", "refused"} => budget <= app.ceiling

RefusedFor ==
  outcome = "over budget" =>
    /\ declared # Unset /\ (upload.length > declared \/ sent > declared)
    /\ upload.length > declared => received = 0

LEMMA BudgetParts == BudgetHolds <=> Bounded /\ UnderCeiling /\ RefusedFor
  BY DEF BudgetHolds, Bounded, UnderCeiling, RefusedFor, declared

LEMMA AppStays == ASSUME [Next]_vars PROVE app' = app /\ declared' = declared
  BY ConfigStays, DefiningStep DEF vars, config, Define, Serve, declared

LEMMA UnderCeilingStep == ASSUME TypeOK, Compiled', [Next]_vars PROVE UnderCeiling'
<1> SUFFICES ASSUME app.ceiling # Unset, phase' \notin {"defining", "defined", "refused"}
             PROVE  budget' <= app.ceiling
  BY AppStays DEF UnderCeiling
<1>1. budget' = declared /\ ~(app.appDefault > app.ceiling) /\ ~(app.route > app.ceiling)
  BY AppStays DEF Compiled, aboveCeiling
<1> QED
  BY <1>1, Sizes DEF declared

LEMMA BoundedStep ==
  ASSUME TypeOK, Compiled, Untouched, Conserved, Bounded, [Next]_vars PROVE Bounded'
<1> USE AppStays, Sizes DEF Bounded
<1>1. CASE retained' <= retained
  <2>1. retained' \in Nat
    BY TypeStep DEF TypeOK
  <2> QED
    BY <1>1, <2>1
<1>2. ASSUME NEW n \in 1 .. MaxBody, ReadChunk(n), retained' # retained PROVE Bounded'
  <2>1. ~exceeds(received, n) /\ retained' = retained + n /\ phase = "reading"
    BY <1>2 DEF ReadChunk
  <2>2. retained = received /\ budget = declared
    BY <2>1 DEF Conserved, Compiled
  <2> QED
    BY <2>1, <2>2, ChunksArePositive DEF exceeds
<1>3. retained' <= retained \/ \E n \in 1 .. MaxBody : ReadChunk(n) /\ retained' # retained
  <2>1. CASE ReadJson
    BY <2>1 DEF ReadJson
  <2>2. CASE retained' = retained
    BY <2>2
  <2> QED
    BY <2>1, <2>2 DEF Next, vars, reader, Client, Reader, Define, Serve, Arrive, Send, Finish, Abort, Begin,
       ReadFails, PlatformParse, PlatformRefuses, Collect, Collected
<1> QED
  BY <1>1, <1>2, <1>3

LEMMA RefusedForStep ==
  ASSUME TypeOK, Compiled, Untouched, Conserved, Admitted, RefusedFor, [Next]_vars PROVE RefusedFor'
<1>1. CASE outcome = "over budget"
  <2>1. phase = "done"
    BY <1>1 DEF Untouched
  <2> QED
    BY <1>1, <2>1, AppStays
    DEF RefusedFor, Next, vars, wire, reader, Client, Reader, Define, Serve, Arrive, Send, Finish, Abort, Begin, ReadChunk, ReadJson,
        ReadFails, PlatformParse, PlatformRefuses, Collect, Collected
<1>2. CASE Begin /\ outcome' = "over budget"
  <2>1. exceedsHeader /\ upload' = upload /\ received' = received /\ phase = "arrived"
    BY <1>2 DEF Begin, Settle, wire, Untouched
  <2>2. received = 0 /\ budget = declared
    BY <2>1 DEF Untouched, Compiled
  <2> QED
    BY <2>1, <2>2, AppStays DEF exceedsHeader, RefusedFor
<1>3. ASSUME NEW n \in 1 .. MaxBody, ReadChunk(n), outcome # "over budget", outcome' = "over budget" PROVE RefusedFor'
  <2>1. exceeds(received, n) /\ upload' = upload /\ sent' = sent /\ n <= unread /\ phase = "reading"
    BY <1>3 DEF ReadChunk
  <2>2. budget = declared /\ ~exceedsHeader /\ received + unread <= sent
    BY <2>1 DEF Compiled, Admitted, Conserved
  <2>4. declared # Unset /\ sent > declared /\ ~(upload.length > declared)
    BY <2>1, <2>2, ChunksArePositive, Sizes DEF exceeds, exceedsHeader
  <2> QED
    BY <2>1, <2>4, AppStays DEF RefusedFor
<1>4. outcome # "over budget" /\ outcome' = "over budget" => Begin \/ \E n \in 1 .. MaxBody : ReadChunk(n)
  BY DEF Next, vars, reader, Client, Reader, Define, Serve, Arrive, Send, Finish, Abort, ReadJson, Settle,
         ReadFails, PlatformParse, PlatformRefuses, Collect, Collected
<1> QED
  BY <1>1, <1>2, <1>3, <1>4 DEF RefusedFor

-----------------------------------------------------------------------------
(* WholeOrNothing.                                                         *)

LEMMA ChunkOutcome ==
  ASSUME Untouched, NEW n, ReadChunk(n)
  PROVE  (phase' = "reading" /\ outcome' = "none") \/ (phase' = "done" /\ outcome' = "over budget")
<1>1. phase = "reading" /\ outcome = "none"
  BY DEF ReadChunk, Untouched
<1> QED
  BY <1>1 DEF ReadChunk, Settle

LEMMA WholeStep ==
  ASSUME TypeOK, Compiled, Untouched, Conserved, Admitted, WholeOrNothing, [Next]_vars PROVE WholeOrNothing'
<1> USE Sizes, AppStays DEF WholeOrNothing, Settle
<1>1. CASE UNCHANGED vars
  BY <1>1 DEF vars, wire, reader, config
<1>2. CASE Define \/ Serve
  BY <1>2 DEF Define, Serve, Untouched
<1>3. CASE Client
  BY <1>3 DEF Client, Arrive, Send, Finish, Abort, reader, Untouched
<1>4. CASE Begin
  <2>1. phase' \in {"reading", "done"} /\ stream' = stream /\ sent' = sent /\ retained' = retained /\ aborted' = aborted
    BY <1>4 DEF Begin, wire
  <2>2. outcome' = "accepted" => upload.null
    BY <1>4 DEF Begin, Untouched
  <2>3. upload.null => stream = "ended" /\ sent = 0 /\ retained = 0
    BY <1>4 DEF Begin, Untouched
  <2>4. aborted /\ app.body = "json" /\ phase' = "done" => outcome' = "threw"
    BY <1>4 DEF Begin
  <2> QED
    BY <2>1, <2>2, <2>3, <2>4
<1>5. ASSUME NEW n \in 1 .. MaxBody, ReadChunk(n) PROVE WholeOrNothing'
  <2>1. (phase' = "reading" /\ outcome' = "none") \/ (phase' = "done" /\ outcome' = "over budget")
    BY <1>5, ChunkOutcome
  <2> QED
    BY <2>1
<1>6. CASE ReadJson
  <2>1. stream' = stream /\ stream = "ended" /\ sent' = sent /\ retained = sent /\ budget' = budget /\ app.body = "json"
    BY <1>6 DEF ReadJson, wire, config, Conserved
  <2>2. retained' = retained \/ (budget # Unset /\ retained' = retained - 1)
    BY <1>6 DEF ReadJson
  <2>3. phase' = "done"
    BY <1>6 DEF ReadJson
  <2> QED
    BY <2>1, <2>2, <2>3
<1>7. CASE ReadFails
  BY <1>7 DEF ReadFails, wire
<1>8. CASE PlatformParse
  BY <1>8 DEF PlatformParse, wire, config, Conserved, Untouched
<1>9. CASE PlatformRefuses
  BY <1>9 DEF PlatformRefuses, wire
<1>10. CASE Collected
  BY <1>10 DEF Collected, wire, config
<1>11. ASSUME NEW p \in Part, Collect(p) PROVE WholeOrNothing'
  <2>1. phase' = phase \/ outcome' = "over limit"
    BY <1>11 DEF Collect
  <2> QED
    BY <1>11, <2>1 DEF Collect, wire, config, Admitted, Untouched
<1> QED
  BY <1>1, <1>2, <1>3, <1>4, <1>5, <1>6, <1>7, <1>8, <1>9, <1>10, <1>11 DEF Next, Reader

-----------------------------------------------------------------------------
LEMMA Inductive == IInv /\ [Next]_vars => IInv'
<1> SUFFICES ASSUME IInv, [Next]_vars PROVE IInv'
  OBVIOUS
<1>1. TypeOK' /\ Compiled' /\ Untouched' /\ Conserved' /\ Admitted' /\ WholeOrNothing'
  BY TypeStep, CompiledStep, UntouchedStep, ConservedStep, AdmittedStep, WholeStep DEF IInv
<1>2. Bounded' /\ RefusedFor' /\ UnderCeiling'
  BY <1>1, BoundedStep, RefusedForStep, UnderCeilingStep, BudgetParts DEF IInv
<1>3. BudgetHolds'
  BY <1>2 DEF BudgetHolds, Bounded, UnderCeiling, RefusedFor, declared
<1> QED
  BY <1>1, <1>3 DEF IInv

\* What is known of the request, the stream, the sizes and the outcome keeps
\* its type.
THEOREM TypeCorrect == Spec => []TypeOK
<1>1. IInv => TypeOK
  BY DEF IInv
<1> QED
  BY Initially, Inductive, <1>1, PTL DEF Spec

\* No parser is given more than the declared budget or the server's ceiling,
\* and a refusal is only for a body that is larger (parse-json-body.ts:41-62,
\* body-budget.ts, serve.ts: LUGAS_BODY_003).
THEOREM BudgetKept == Spec => []BudgetHolds
<1>1. IInv => BudgetHolds
  BY DEF IInv
<1> QED
  BY Initially, Inductive, <1>1, PTL DEF Spec

\* A parser is given the whole body or nothing, however the client's bytes,
\* its hang-up and the reader interleave (parse-json-body.ts, parse-form-body.ts).
THEOREM BodiesWhole == Spec => []WholeOrNothing
<1>1. IInv => WholeOrNothing
  BY DEF IInv
<1> QED
  BY Initially, Inductive, <1>1, PTL DEF Spec

-----------------------------------------------------------------------------
(* FormFaithful: the two counters count, and the three views show, exactly *)
(* the parts the loop has met.                                             *)

FileParts == {i \in 1 .. Len(parts) : parts[i].file}
FieldParts == {i \in 1 .. Len(parts) : ~parts[i].file}

ViewType ==
  [fields: [Names -> Nat], files: [Names -> Nat], groups: [Names -> Seq(Nat)], fieldCount: Nat, fileCount: Nat]

FormTypes == parts \in Seq(Part) /\ view \in ViewType

Counted ==
  /\ IsFiniteSet(FileParts) /\ view.fileCount = Cardinality(FileParts)
  /\ IsFiniteSet(FieldParts) /\ view.fieldCount = Cardinality(FieldParts)

WithinLimits ==
  /\ view.fileCount <= app.form.maxFiles /\ view.fieldCount <= app.form.maxFields
  /\ \A i \in 1 .. Len(parts) : parts[i].file => parts[i].size <= app.form.maxFileSize

LastOf(n, file) == IF PartsOf(n, file) = {} THEN 0 ELSE Last(PartsOf(n, file))

Group(n) ==
  LET g == view.groups[n]
  IN /\ {g[i] : i \in DOMAIN g} = PartsOf(n, TRUE) \cup PartsOf(n, FALSE)
     /\ \A i, j \in DOMAIN g : i < j => g[i] < g[j]

Shown ==
  \A n \in Names :
    /\ view.fields[n] = LastOf(n, FALSE) /\ view.files[n] = LastOf(n, TRUE)
    /\ app.form.preserve => Group(n)

FormShape ==
  /\ phase = "defining" => parts = <<>> /\ view = NoView
  /\ outcome # "over limit" => Counted /\ Shown
  /\ outcome # "over limit" /\ phase \notin {"defining", "refused"} /\ app.body = "form" => WithinLimits

LEMMA LastIs ==
  ASSUME NEW S \in SUBSET Nat, NEW i \in Nat, i \in S, \A j \in S : j <= i PROVE Last(S) = i
<1>1. \A k \in S : (\A j \in S : j <= k) => k = i
  OBVIOUS
<1> QED
  BY <1>1 DEF Last

LEMMA Appended ==
  ASSUME FormTypes, NEW p \in Part, parts' = Append(parts, p), NEW n, NEW file \in BOOLEAN
  PROVE  /\ PartsOf(n, file)' = PartsOf(n, file) \cup (IF p.name = n /\ p.file = file THEN {Len(parts) + 1} ELSE {})
         /\ PartsOf(n, file) \subseteq 1 .. Len(parts)
         /\ FileParts' = FileParts \cup (IF p.file THEN {Len(parts) + 1} ELSE {})
         /\ FieldParts' = FieldParts \cup (IF p.file THEN {} ELSE {Len(parts) + 1})
         /\ Len(parts) \in Nat /\ Len(parts)' = Len(parts) + 1
<1>1. Len(parts) \in Nat /\ Len(parts)' = Len(parts) + 1
  BY DEF FormTypes
<1>2. \A i \in 1 .. Len(parts) : parts'[i] = parts[i]
  BY DEF FormTypes
<1>3. parts'[Len(parts) + 1] = p
  BY DEF FormTypes
<1>4. 1 .. Len(parts') = (1 .. Len(parts)) \cup {Len(parts) + 1}
  BY <1>1
<1>5. PartsOf(n, file)' = PartsOf(n, file) \cup (IF p.name = n /\ p.file = file THEN {Len(parts) + 1} ELSE {})
  BY <1>2, <1>3, <1>4 DEF PartsOf
<1>6. FileParts' = FileParts \cup (IF p.file THEN {Len(parts) + 1} ELSE {})
  BY <1>2, <1>3, <1>4 DEF FileParts
<1>7. FieldParts' = FieldParts \cup (IF p.file THEN {} ELSE {Len(parts) + 1})
  BY <1>2, <1>3, <1>4 DEF FieldParts
<1> QED
  BY <1>1, <1>5, <1>6, <1>7 DEF PartsOf

\* The five components of the view after a part that is within the limits.
LEMMA CollectedIs ==
  ASSUME FormTypes, NEW p \in Part
  PROVE  LET i == Len(parts) + 1
         IN /\ collected(p) \in ViewType /\ counted(p) \in ViewType
            /\ collected(p).fields = IF p.file THEN view.fields ELSE [view.fields EXCEPT ![p.name] = i]
            /\ collected(p).files = IF p.file THEN [view.files EXCEPT ![p.name] = i] ELSE view.files
            /\ collected(p).groups = IF app.form.preserve
                                     THEN [view.groups EXCEPT ![p.name] = Append(view.groups[p.name], i)]
                                     ELSE view.groups
            /\ collected(p).fileCount = view.fileCount + (IF p.file THEN 1 ELSE 0)
            /\ collected(p).fieldCount = view.fieldCount + (IF p.file THEN 0 ELSE 1)
            /\ counted(p).fileCount = collected(p).fileCount /\ counted(p).fieldCount = collected(p).fieldCount
<1>1. Len(parts) + 1 \in Nat /\ p.name \in Names /\ p.file \in BOOLEAN
  BY DEF FormTypes, Part
<1> DEFINE i == Len(parts) + 1
           c == counted(p)
           k == IF p.file THEN [c EXCEPT !.files[p.name] = i] ELSE [c EXCEPT !.fields[p.name] = i]
<1>2. /\ c \in ViewType /\ c.fields = view.fields /\ c.files = view.files /\ c.groups = view.groups
      /\ c.fileCount = view.fileCount + (IF p.file THEN 1 ELSE 0)
      /\ c.fieldCount = view.fieldCount + (IF p.file THEN 0 ELSE 1)
  <2>a. view \in ViewType
    BY DEF FormTypes
  <2>1. CASE p.file
    <3> DEFINE x == view.fileCount + 1
    <3>1. c = [view EXCEPT !.fileCount = x]
      BY <2>1 DEF counted
    <3>x. x \in Nat
      BY <2>a DEF ViewType
    <3> HIDE DEF c, x
    <3>2. c.fileCount = x /\ c.fieldCount = view.fieldCount
      BY <2>a, <3>1 DEF ViewType
    <3>3. c \in ViewType /\ c.fields = view.fields /\ c.files = view.files /\ c.groups = view.groups
      BY <2>a, <3>1, <3>x DEF ViewType
    <3> QED
      BY <2>a, <2>1, <3>2, <3>3 DEF ViewType, x
  <2>2. CASE ~p.file
    <3> DEFINE x == view.fieldCount + 1
    <3>1. c = [view EXCEPT !.fieldCount = x]
      BY <2>2 DEF counted
    <3>x. x \in Nat
      BY <2>a DEF ViewType
    <3> HIDE DEF c, x
    <3>2. c.fileCount = view.fileCount /\ c.fieldCount = x
      BY <2>a, <3>1 DEF ViewType
    <3>3. c \in ViewType /\ c.fields = view.fields /\ c.files = view.files /\ c.groups = view.groups
      BY <2>a, <3>1, <3>x DEF ViewType
    <3> QED
      BY <2>a, <2>2, <3>2, <3>3 DEF ViewType, x
  <2> QED
    BY <2>1, <2>2
<1> HIDE DEF c
<1>3. /\ k \in ViewType /\ k.groups = c.groups /\ k.fileCount = c.fileCount /\ k.fieldCount = c.fieldCount
      /\ k.fields = (IF p.file THEN c.fields ELSE [c.fields EXCEPT ![p.name] = i])
      /\ k.files = (IF p.file THEN [c.files EXCEPT ![p.name] = i] ELSE c.files)
  <2>1. CASE p.file
    BY <1>1, <1>2, <2>1 DEF ViewType
  <2>2. CASE ~p.file
    BY <1>1, <1>2, <2>2 DEF ViewType
  <2> QED
    BY <2>1, <2>2
<1>4. collected(p) = IF app.form.preserve THEN [k EXCEPT !.groups[p.name] = Append(@, i)] ELSE k
  BY DEF collected, c
<1> HIDE DEF k, i
<1>5. i \in Nat /\ i = Len(parts) + 1
  BY <1>1 DEF i
<1>6. CASE app.form.preserve
  <2>1. collected(p) = [k EXCEPT !.groups[p.name] = Append(k.groups[p.name], i)]
    BY <1>4, <1>6
  <2>2. Append(k.groups[p.name], i) \in Seq(Nat)
    BY <1>1, <1>3, <1>5 DEF ViewType
  <2>3. /\ collected(p) \in ViewType /\ collected(p).groups = [k.groups EXCEPT ![p.name] = Append(k.groups[p.name], i)]
        /\ collected(p).fields = k.fields /\ collected(p).files = k.files
        /\ collected(p).fileCount = k.fileCount /\ collected(p).fieldCount = k.fieldCount
    <3> DEFINE g == Append(k.groups[p.name], i)
    <3>1. g \in Seq(Nat) /\ k \in ViewType /\ p.name \in Names
      BY <1>1, <1>3, <2>2
    <3>2. collected(p) = [k EXCEPT !.groups[p.name] = g]
      BY <2>1
    <3> HIDE DEF g
    <3>3. collected(p) = [k EXCEPT !.groups = [k.groups EXCEPT ![p.name] = g]]
      BY <3>2
    <3>4. [k.groups EXCEPT ![p.name] = g] \in [Names -> Seq(Nat)]
      BY <3>1 DEF ViewType
    <3>5. /\ collected(p) \in ViewType /\ collected(p).groups = [k.groups EXCEPT ![p.name] = g]
          /\ collected(p).fields = k.fields /\ collected(p).files = k.files
          /\ collected(p).fileCount = k.fileCount /\ collected(p).fieldCount = k.fieldCount
      BY <3>1, <3>3, <3>4 DEF ViewType
    <3> QED
      BY <3>5 DEF g
  <2> QED
    BY <1>2, <1>3, <1>5, <1>6, <2>3 DEF c
<1>7. CASE ~app.form.preserve
  BY <1>2, <1>3, <1>4, <1>5, <1>7 DEF c
<1> QED
  BY <1>6, <1>7

LEMMA CountedGrows ==
  ASSUME FormTypes, Counted, NEW p \in Part, parts' = Append(parts, p), view' = collected(p)
  PROVE  Counted'
<1> DEFINE i == Len(parts) + 1
<1>1. /\ FileParts' = FileParts \cup (IF p.file THEN {i} ELSE {})
      /\ FieldParts' = FieldParts \cup (IF p.file THEN {} ELSE {i})
      /\ Len(parts) \in Nat
  BY Appended
<1>2. /\ view'.fileCount = view.fileCount + (IF p.file THEN 1 ELSE 0)
      /\ view'.fieldCount = view.fieldCount + (IF p.file THEN 0 ELSE 1)
  BY CollectedIs
<1>3. i \notin FileParts /\ i \notin FieldParts
  BY <1>1 DEF FileParts, FieldParts
<1> HIDE DEF i
<1>4. CASE p.file
  <2>1. IsFiniteSet(FileParts \cup {i}) /\ Cardinality(FileParts \cup {i}) = Cardinality(FileParts) + 1
    BY <1>3, FS_AddElement DEF Counted
  <2>2. FieldParts' = FieldParts /\ FileParts' = FileParts \cup {i}
    BY <1>1, <1>4
  <2>3. view'.fieldCount = view.fieldCount /\ view'.fileCount = view.fileCount + 1
    BY <1>2, <1>4 DEF FormTypes, ViewType
  <2> QED
    BY <2>1, <2>2, <2>3 DEF Counted
<1>5. CASE ~p.file
  <2>1. IsFiniteSet(FieldParts \cup {i}) /\ Cardinality(FieldParts \cup {i}) = Cardinality(FieldParts) + 1
    BY <1>3, FS_AddElement DEF Counted
  <2>2. FileParts' = FileParts /\ FieldParts' = FieldParts \cup {i}
    BY <1>1, <1>5
  <2>3. view'.fileCount = view.fileCount /\ view'.fieldCount = view.fieldCount + 1
    BY <1>2, <1>5 DEF FormTypes, ViewType
  <2> QED
    BY <2>1, <2>2, <2>3 DEF Counted
<1> QED
  BY <1>4, <1>5

LEMMA LastGrows ==
  ASSUME FormTypes, NEW p \in Part, parts' = Append(parts, p), NEW n, NEW file \in BOOLEAN
  PROVE  LastOf(n, file)' = IF p.name = n /\ p.file = file THEN Len(parts) + 1 ELSE LastOf(n, file)
<1> DEFINE i == Len(parts) + 1
<1>1. /\ PartsOf(n, file)' = PartsOf(n, file) \cup (IF p.name = n /\ p.file = file THEN {i} ELSE {})
      /\ PartsOf(n, file) \subseteq 1 .. Len(parts) /\ Len(parts) \in Nat
  BY Appended
<1>2. CASE p.name = n /\ p.file = file
  <2>1. PartsOf(n, file)' = PartsOf(n, file) \cup {i}
    BY <1>1, <1>2
  <2>2. PartsOf(n, file) \cup {i} \in SUBSET Nat /\ i \in Nat /\ \A j \in PartsOf(n, file) \cup {i} : j <= i
    BY <1>1
  <2>3. Last(PartsOf(n, file) \cup {i}) = i
    BY <2>2, LastIs
  <2>4. LastOf(n, file)' = i
    BY <2>1, <2>3 DEF LastOf, Last
  <2> QED
    BY <1>2, <2>4
<1>3. CASE ~(p.name = n /\ p.file = file)
  <2>1. PartsOf(n, file)' = PartsOf(n, file)
    BY <1>1, <1>3
  <2> QED
    BY <1>3, <2>1 DEF LastOf, Last
<1> QED
  BY <1>2, <1>3

LEMMA GroupGrows ==
  ASSUME FormTypes, NEW p \in Part, parts' = Append(parts, p), view' = collected(p),
         app' = app, app.form.preserve, NEW n \in Names, Group(n)
  PROVE  Group(n)'
<1> DEFINE i == Len(parts) + 1
           g == view.groups[n]
           all == PartsOf(n, TRUE) \cup PartsOf(n, FALSE)
<1>1. /\ PartsOf(n, TRUE)' = PartsOf(n, TRUE) \cup (IF p.name = n /\ p.file = TRUE THEN {i} ELSE {})
      /\ PartsOf(n, FALSE)' = PartsOf(n, FALSE) \cup (IF p.name = n /\ p.file = FALSE THEN {i} ELSE {})
      /\ all \subseteq 1 .. Len(parts) /\ Len(parts) \in Nat
  BY Appended
<1>2. g \in Seq(Nat) /\ p.file \in BOOLEAN /\ view.groups \in [Names -> Seq(Nat)] /\ p.name \in Names
  BY DEF FormTypes, ViewType, Part
<1>3. view'.groups = [view.groups EXCEPT ![p.name] = Append(view.groups[p.name], i)]
  BY CollectedIs
<1>4. {g[j] : j \in DOMAIN g} = all /\ \A j, k \in DOMAIN g : j < k => g[j] < g[k]
  BY DEF Group
<1>5. (PartsOf(n, TRUE) \cup PartsOf(n, FALSE))' = all \cup (IF p.name = n THEN {i} ELSE {})
  BY <1>1, <1>2
<1>6. CASE p.name = n
  <2> DEFINE h == Append(g, i)
  <2>1. view'.groups[n] = h
    BY <1>2, <1>3, <1>6
  <2>2. i \in Nat /\ \A j \in DOMAIN g : g[j] < i
    <3>1. \A j \in DOMAIN g : g[j] \in all
      BY <1>4
    <3>2. \A x \in all : x \in 1 .. Len(parts)
      BY <1>1
    <3>3. Len(parts) \in Nat
      BY <1>1
    <3>4. i \in Nat /\ \A x \in 1 .. Len(parts) : x < i
      BY <3>3
    <3> HIDE DEF g, all, i
    <3> QED
      BY <3>1, <3>2, <3>4
  <2> HIDE DEF i, all
  <2>3. /\ DOMAIN h = DOMAIN g \cup {Len(g) + 1} /\ h[Len(g) + 1] = i
        /\ \A j \in DOMAIN g : h[j] = g[j] /\ j \in Nat /\ j < Len(g) + 1
    <3>1. g \in Seq(Nat) /\ i \in Nat
      BY <1>2, <2>2
    <3> HIDE DEF g
    <3>2. DOMAIN g = 1 .. Len(g) /\ Len(g) \in Nat
      BY <3>1
    <3>3. Len(h) = Len(g) + 1 /\ DOMAIN h = 1 .. Len(g) + 1 /\ h[Len(g) + 1] = i
      BY <3>1
    <3>4. \A j \in 1 .. Len(g) : h[j] = g[j]
      BY <3>1
    <3> HIDE DEF h
    <3> QED
      BY <3>2, <3>3, <3>4
  <2> HIDE DEF h
  <2>4. {h[j] : j \in DOMAIN h} = all \cup {i}
    BY <1>4, <2>3
  <2>5. ASSUME NEW j \in DOMAIN h, NEW k \in DOMAIN h, j < k PROVE h[j] < h[k]
    <3>1. CASE k = Len(g) + 1
      BY <1>2, <2>2, <2>3, <2>5, <3>1
    <3>2. CASE k \in DOMAIN g
      <4>1. j \in DOMAIN g
        BY <1>2, <2>3, <2>5, <3>2
      <4> QED
        BY <1>4, <2>3, <2>5, <3>2, <4>1
    <3> QED
      BY <2>3, <3>1, <3>2
  <2>6. {view'.groups[n][j] : j \in DOMAIN view'.groups[n]} = (PartsOf(n, TRUE) \cup PartsOf(n, FALSE))'
    BY <1>5, <1>6, <2>1, <2>4
  <2>7. \A j, k \in DOMAIN view'.groups[n] : j < k => view'.groups[n][j] < view'.groups[n][k]
    BY <2>1, <2>5
  <2> QED
    BY <2>6, <2>7 DEF Group
<1>7. CASE p.name # n
  <2>1. view'.groups[n] = g
    BY <1>2, <1>3, <1>7
  <2>2. (PartsOf(n, TRUE) \cup PartsOf(n, FALSE))' = all
    BY <1>5, <1>7
  <2>3. {view'.groups[n][j] : j \in DOMAIN view'.groups[n]} = (PartsOf(n, TRUE) \cup PartsOf(n, FALSE))'
    BY <1>4, <2>1, <2>2
  <2> QED
    BY <1>4, <2>1, <2>3 DEF Group
<1> QED
  BY <1>6, <1>7

LEMMA ShownGrows ==
  ASSUME FormTypes, Shown, NEW p \in Part, parts' = Append(parts, p), view' = collected(p), app' = app
  PROVE  Shown'
<1> SUFFICES ASSUME NEW n \in Names
             PROVE  /\ view'.fields[n] = LastOf(n, FALSE)' /\ view'.files[n] = LastOf(n, TRUE)'
                    /\ app.form.preserve => Group(n)'
  BY DEF Shown
<1>1. /\ view.fields[n] = LastOf(n, FALSE) /\ view.files[n] = LastOf(n, TRUE)
      /\ app.form.preserve => Group(n)
  BY DEF Shown
<1>2. /\ LastOf(n, FALSE)' = (IF p.name = n /\ p.file = FALSE THEN Len(parts) + 1 ELSE LastOf(n, FALSE))
      /\ LastOf(n, TRUE)' = (IF p.name = n /\ p.file = TRUE THEN Len(parts) + 1 ELSE LastOf(n, TRUE))
  BY LastGrows
<1>3. /\ view'.fields = IF p.file THEN view.fields ELSE [view.fields EXCEPT ![p.name] = Len(parts) + 1]
      /\ view'.files = IF p.file THEN [view.files EXCEPT ![p.name] = Len(parts) + 1] ELSE view.files
  BY CollectedIs
<1>4. p.file \in BOOLEAN /\ view.fields \in [Names -> Nat] /\ view.files \in [Names -> Nat]
  BY DEF FormTypes, ViewType, Part
<1>5. view'.fields[n] = LastOf(n, FALSE)' /\ view'.files[n] = LastOf(n, TRUE)'
  BY <1>1, <1>2, <1>3, <1>4
<1> QED
  BY <1>1, <1>5, GroupGrows

LEMMA LimitsKept ==
  ASSUME TypeOK, FormTypes, WithinLimits, NEW p \in Part, parts' = Append(parts, p), view' = collected(p), app' = app,
         ~overLimit(p)
  PROVE  WithinLimits'
<1>1. /\ app.form.maxFiles \in Int /\ app.form.maxFields \in Int /\ app.form.maxFileSize \in Int
      /\ p.size \in Nat
  BY AppsAssumption, BoundsAssumption DEF TypeOK, AppType, Forms, Part
<1>2. /\ counted(p).fileCount = view'.fileCount /\ counted(p).fieldCount = view'.fieldCount
      /\ view'.fileCount = view.fileCount + (IF p.file THEN 1 ELSE 0)
      /\ view'.fieldCount = view.fieldCount + (IF p.file THEN 0 ELSE 1)
      /\ view.fileCount \in Nat /\ view.fieldCount \in Nat
  BY CollectedIs DEF FormTypes, ViewType
<1>3. view'.fileCount <= app.form.maxFiles /\ view'.fieldCount <= app.form.maxFields
      /\ (p.file => p.size <= app.form.maxFileSize)
  <2>1. CASE p.file
    BY <1>1, <1>2, <2>1 DEF WithinLimits, overLimit
  <2>2. CASE ~p.file
    BY <1>1, <1>2, <2>2 DEF WithinLimits, overLimit
  <2> QED
    BY <2>1, <2>2
<1>4. ASSUME NEW i \in 1 .. Len(parts'), parts'[i].file PROVE parts'[i].size <= app.form.maxFileSize
  <2>1. CASE i = Len(parts) + 1
    <3>1. parts'[i] = p
      BY <2>1 DEF FormTypes
    <3> QED
      BY <1>3, <1>4, <3>1
  <2>2. CASE i \in 1 .. Len(parts)
    <3>1. parts'[i] = parts[i]
      BY <2>2 DEF FormTypes
    <3> QED
      BY <1>4, <2>2, <3>1 DEF WithinLimits
  <2> QED
    BY <2>1, <2>2 DEF FormTypes
<1> QED
  BY <1>3, <1>4 DEF WithinLimits

\* The state of the form is only touched by the loop over the parts.
LEMMA FormStays ==
  ASSUME [Next]_vars
  PROVE  (parts' = parts /\ view' = view) \/ \E p \in Part : Collect(p)
  BY DEF Next, vars, form, Client, Reader, Define, Serve, Arrive, Send, Finish, Abort, Begin, ReadChunk, ReadJson,
         ReadFails, PlatformParse, PlatformRefuses, Collected

LEMMA OverLimitStays ==
  ASSUME Untouched, [Next]_vars, outcome = "over limit" PROVE outcome' = "over limit"
<1>1. phase = "done"
  BY DEF Untouched
<1> QED
  BY <1>1 DEF Next, vars, reader, Client, Reader, Define, Serve, Arrive, Send, Finish, Abort, Begin, ReadChunk, ReadJson,
              ReadFails, PlatformParse, PlatformRefuses, Collect, Collected

LEMMA LimitsAreValid ==
  ASSUME TypeOK, Define, phase' # "refused", app.body = "form"
  PROVE  app.form.maxFields > 0 /\ app.form.maxFiles > 0
  BY DEF Define, validRoute, validForm

\* When the form's own limits were looked at, its state is still empty.
LEMMA FormStep ==
  ASSUME TypeOK, Untouched, Admitted, FormTypes, FormShape, [Next]_vars PROVE (FormTypes /\ FormShape)'
<1>1. ASSUME NEW p \in Part, Collect(p) PROVE (FormTypes /\ FormShape)'
  <2>1. /\ phase = "collecting" /\ outcome = "none" /\ app.body = "form" /\ app' = app
        /\ parts' = Append(parts, p) /\ phase' # "defining"
    BY <1>1 DEF Collect, config, Untouched, Admitted, Settle
  <2>2. Counted /\ Shown /\ WithinLimits
    BY <2>1 DEF FormShape
  <2>3. parts' \in Seq(Part)
    BY <2>1 DEF FormTypes
  <2>4. CASE overLimit(p)
    <3>1. outcome' = "over limit" /\ view' = counted(p)
      BY <1>1, <2>4 DEF Collect, Settle
    <3> QED
      BY <2>1, <2>3, <3>1, CollectedIs DEF FormTypes, FormShape
  <2>5. CASE ~overLimit(p)
    <3>1. view' = collected(p)
      BY <1>1, <2>5 DEF Collect
    <3>2. Counted' /\ Shown' /\ WithinLimits'
      BY <2>1, <2>2, <2>5, <3>1, CountedGrows, ShownGrows, LimitsKept
    <3> QED
      BY <2>1, <2>3, <3>1, <3>2, CollectedIs DEF FormTypes, FormShape
  <2> QED
    BY <2>4, <2>5
<1>2. CASE parts' = parts /\ view' = view
  <2>1. FormTypes'
    BY <1>2 DEF FormTypes
  <2>2. app' = app /\ (outcome' # "over limit" => outcome # "over limit")
    BY AppStays, OverLimitStays
  <2>3. Counted => Counted'
    BY <1>2 DEF Counted, FileParts, FieldParts
  <2>4. Shown => Shown'
    <3>1. \A n, f : PartsOf(n, f)' = PartsOf(n, f)
      BY <1>2 DEF PartsOf
    <3>2. ASSUME NEW n, NEW f PROVE LastOf(n, f)' = LastOf(n, f)
      <4>1. PartsOf(n, f)' = PartsOf(n, f)
        BY <3>1
      <4> QED
        BY <4>1 DEF LastOf, Last
    <3>3. ASSUME NEW n, Group(n) PROVE Group(n)'
      BY <1>2, <3>1, <3>3 DEF Group
    <3> QED
      BY <1>2, <2>2, <3>2, <3>3 DEF Shown
  <2>5. WithinLimits => WithinLimits'
    BY <1>2, <2>2 DEF WithinLimits
  <2>6. phase' = "defining" => phase = "defining"
    BY PhaseMoves, DefiningStep DEF Define, Serve, vars, reader
  <2>7. CASE phase = "defining" /\ phase' # "defining"
    <3>1. Define
      BY <2>7, DefiningStep DEF vars, reader, Serve
    <3>2. parts = <<>> /\ view = NoView
      BY <2>7 DEF FormShape
    <3>3. phase' # "refused" /\ app.body = "form" => WithinLimits
      BY <3>1, <3>2, LimitsAreValid, AppsAssumption DEF WithinLimits, NoView, TypeOK, AppType, Forms
    <3> QED
      BY <2>1, <2>2, <2>3, <2>4, <2>5, <2>7, <3>3 DEF FormShape
  <2>8. CASE phase = "defining" /\ phase' = "defining"
    BY <1>2, <2>1, <2>2, <2>3, <2>4, <2>8 DEF FormShape
  <2>9. CASE phase # "defining"
    <3>1. phase' = "refused" \/ phase # "refused"
      BY <2>9, PhaseMoves
    <3> QED
      BY <2>1, <2>2, <2>3, <2>4, <2>5, <2>6, <2>9, <3>1 DEF FormShape
  <2> QED
    BY <2>7, <2>8, <2>9
<1> QED
  BY <1>1, <1>2, FormStays

LEMMA FormInitially == Init => FormTypes /\ FormShape
<1> SUFFICES ASSUME Init PROVE FormTypes /\ FormShape
  OBVIOUS
<1>1. FormTypes
  BY DEF Init, FormTypes, ViewType, NoView
<1>2. FileParts = {} /\ FieldParts = {} /\ \A n, f : PartsOf(n, f) = {}
  BY DEF Init, FileParts, FieldParts, PartsOf
<1>3. Counted
  BY <1>2, FS_EmptySet DEF Init, Counted, NoView
<1>4. Shown
  <2> SUFFICES ASSUME NEW n \in Names
               PROVE  view.fields[n] = LastOf(n, FALSE) /\ view.files[n] = LastOf(n, TRUE) /\ Group(n)
    BY DEF Shown
  <2>1. view.fields[n] = 0 /\ view.files[n] = 0 /\ view.groups[n] = <<>>
    BY DEF Init, NoView
  <2>2. LastOf(n, FALSE) = 0 /\ LastOf(n, TRUE) = 0
    BY <1>2 DEF LastOf
  <2>3. DOMAIN <<>> = {}
    OBVIOUS
  <2>4. Group(n)
    BY <1>2, <2>1, <2>3 DEF Group
  <2> QED
    BY <2>1, <2>2, <2>4
<1> QED
  BY <1>1, <1>3, <1>4 DEF Init, FormShape

\* A form that is accepted keeps within every limit, and its fields, files and
\* groups show its parts as they came (parse-form-body.ts:34-66).
THEOREM FormsFaithful == Spec => []FormFaithful
<1>1. IInv /\ FormTypes /\ FormShape /\ [Next]_vars => (IInv /\ FormTypes /\ FormShape)'
  BY Inductive, FormStep DEF IInv
<1>2. IInv /\ FormTypes /\ FormShape => FormFaithful
  <2> SUFFICES ASSUME IInv, FormShape, outcome = "accepted", app.body = "form" PROVE FormFaithful
    BY DEF FormFaithful
  <2>1. phase \notin {"defining", "refused"}
    BY DEF IInv, Untouched
  <2>2. Counted /\ Shown /\ WithinLimits
    BY <2>1 DEF FormShape
  <2> QED
    BY <2>2 DEF FormFaithful, Counted, Shown, WithinLimits, FileParts, FieldParts, LastOf, Group
<1> QED
  BY Initially, FormInitially, <1>1, <1>2, PTL DEF Spec

-----------------------------------------------------------------------------
(* The rate limiter, for any requests, buckets, limits and window.         *)

\* A request has a snapshot once the store has counted it.
PhaseOf(r) ==
  /\ request[r] \in {"new", "called"} => entry[r].count = 0
  /\ request[r] \in {"counted", "admitted", "refused"} => entry[r].count > 0
  /\ request[r] = "admitted" => entry[r].count <= Limit[r]
  /\ request[r] = "refused" => entry[r].count > Limit[r]

Phased == \A r \in Requests : PhaseOf(r)

\* When a hit was counted, and where its window lies.
Dated ==
  \A r \in hits :
    /\ hitAt[r] <= now /\ hitAt[r] < entry[r].resetAt /\ entry[r].resetAt <= hitAt[r] + Window
    /\ entry[r].count = 1 => entry[r].resetAt = hitAt[r] + Window

\* The store's snapshot of a bucket is of its last window, which knows them all.
Latest ==
  /\ \A b \in Buckets : /\ buckets[b].resetAt <= now + Window
                        /\ buckets[b].count = 0 => buckets[b].resetAt = 0
  /\ \A r \in hits :
       LET b == buckets[Bucket[r]]
       IN \/ entry[r].resetAt = b.resetAt /\ entry[r].count <= b.count
          \/ entry[r].resetAt + Window <= b.resetAt

Disjoint ==
  \A q, r \in hits :
    Bucket[q] = Bucket[r] /\ entry[q].resetAt < entry[r].resetAt => entry[q].resetAt + Window <= entry[r].resetAt

NoRepetition ==
  \A q, r \in hits :
    Bucket[q] = Bucket[r] /\ entry[q].resetAt = entry[r].resetAt /\ entry[q].count = entry[r].count => q = r

NoGap ==
  \A b \in Buckets : \A k \in 1 .. buckets[b].count :
    \E q \in hits : Bucket[q] = b /\ entry[q].resetAt = buckets[b].resetAt /\ entry[q].count = k

NoGapBelow ==
  \A r \in hits : \A k \in 1 .. entry[r].count :
    \E q \in hits : Bucket[q] = Bucket[r] /\ entry[q].resetAt = entry[r].resetAt /\ entry[q].count = k

\* A refusal was answered while its window lasted, or after it, and its seconds
\* reach to the end of it.
Answered ==
  \A r \in Requests : request[r] = "refused" =>
    /\ entry[r].resetAt <= answeredAt[r] + retryAfter[r] * Second
    /\ retryAfter[r] * Second < Window + Second

LimitIInv == LimitTypeOK /\ Phased /\ Dated /\ Latest /\ Disjoint /\ NoRepetition /\ NoGap /\ NoGapBelow /\ Answered

-----------------------------------------------------------------------------
(* Counting by an injection into an interval of numbers.                   *)

LEMMA CountedIn ==
  ASSUME NEW S, NEW a \in Int, NEW b \in Int, a <= b + 1, NEW f \in [S -> Int],
         \A x \in S : f[x] \in a .. b, \A x, y \in S : f[x] = f[y] => x = y
  PROVE  IsFiniteSet(S) /\ Cardinality(S) <= b - a + 1 /\ Cardinality(S) \in Nat
<1> DEFINE g == [x \in S |-> f[x]]
<1>1. g \in Injection(S, a .. b)
  BY DEF Injection, IsInjective
<1>2. IsFiniteSet(a .. b) /\ Cardinality(a .. b) = b - a + 1
  BY FS_Interval
<1>3. IsFiniteSet(S) /\ Cardinality(S) <= Cardinality(a .. b)
  BY <1>1, <1>2, FS_Injection
<1> QED
  BY <1>2, <1>3, FS_CardinalityType

LEMMA CountedExactly ==
  ASSUME NEW S, NEW b \in Nat, NEW f \in [S -> Int],
         \A x \in S : f[x] \in 1 .. b, \A x, y \in S : f[x] = f[y] => x = y,
         \A k \in 1 .. b : \E x \in S : f[x] = k
  PROVE  Cardinality(S) = b
<1> DEFINE g == [x \in S |-> f[x]]
<1>1. g \in Injection(S, 1 .. b)
  BY DEF Injection, IsInjective
<1>2. g \in Surjection(S, 1 .. b)
  BY DEF Surjection
<1>3. IsFiniteSet(1 .. b) /\ Cardinality(1 .. b) = b
  BY FS_Interval
<1> QED
  BY <1>1, <1>2, <1>3, FS_Injection

\* Rounding up to whole seconds reaches the instant, by less than a second.
LEMMA RoundedUp ==
  ASSUME NEW x \in Nat, NEW s \in Nat \ {0}
  PROVE  /\ (x + s - 1) \div s \in Nat
         /\ x <= ((x + s - 1) \div s) * s /\ ((x + s - 1) \div s) * s < x + s
  OBVIOUS

-----------------------------------------------------------------------------
(* The steps.                                                              *)

LEMMA Constants ==
  /\ Window \in Nat /\ Window > 0 /\ Second \in Nat /\ Second > 0 /\ EndOfTime \in Nat
  /\ \A r \in Requests : Bucket[r] \in Buckets /\ Limit[r] \in Nat /\ Limit[r] > 0
  BY LimiterAssumption

LEMMA LimitTypes ==
  ASSUME LimitTypeOK
  PROVE  /\ now \in Nat
         /\ \A b \in Buckets : buckets[b].count \in Nat /\ buckets[b].resetAt \in Nat
         /\ \A r \in Requests : /\ entry[r].count \in Nat /\ entry[r].resetAt \in Nat
                                /\ hitAt[r] \in Nat /\ answeredAt[r] \in Nat /\ retryAfter[r] \in Nat
  BY Constants DEF LimitTypeOK, Snapshots

LEMMA LimitInitially == LimitInit => LimitIInv
<1> SUFFICES ASSUME LimitInit PROVE LimitIInv
  OBVIOUS
<1>1. LimitTypeOK
  BY Constants DEF LimitInit, LimitTypeOK, Snapshots, Phases, undefined
<1>2. hits = {} /\ (\A b \in Buckets : buckets[b].count = 0 /\ buckets[b].resetAt = 0)
      /\ (\A r \in Requests : request[r] = "new" /\ entry[r].count = 0)
  BY DEF LimitInit, hits, undefined
<1>3. Phased /\ Answered
  BY <1>2 DEF Phased, PhaseOf, Answered
<1>4. now + Window >= 0
  BY <1>1, LimitTypes, Constants
<1> QED
  BY <1>1, <1>2, <1>3, <1>4 DEF LimitIInv, Dated, Latest, Disjoint, NoRepetition, NoGap, NoGapBelow

\* What the store gives to the next hit of a bucket.
LEMMA Advanced ==
  ASSUME LimitTypeOK, NEW b \in Buckets
  PROVE  /\ advanced(b) \in Snapshots /\ advanced(b).count > 0
         /\ expired(b) => advanced(b).count = 1 /\ advanced(b).resetAt = now + Window
         /\ ~expired(b) => advanced(b).count = buckets[b].count + 1 /\ advanced(b).resetAt = buckets[b].resetAt
<1>1. CASE expired(b)
  <2>1. now + Window \in Nat
    BY LimitTypes, Constants
  <2> QED
    BY <1>1, <2>1 DEF advanced, Snapshots
<1>2. CASE ~expired(b)
  <2>1. advanced(b) = [buckets[b] EXCEPT !.count = buckets[b].count + 1]
    BY <1>2 DEF advanced
  <2>2. buckets[b] \in Snapshots /\ buckets[b].count + 1 \in Nat /\ buckets[b].count + 1 > 0
    BY LimitTypes DEF LimitTypeOK
  <2> QED
    BY <1>2, <2>1, <2>2 DEF Snapshots
<1> QED
  BY <1>1, <1>2

LEMMA LimitTypeStep == ASSUME LimitTypeOK, [LimitNext]_limitVars PROVE LimitTypeOK'
<1> USE DEF LimitTypeOK
<1>1. CASE UNCHANGED limitVars
  BY <1>1 DEF limitVars
<1>2. CASE Tick
  BY <1>2, Constants DEF Tick
<1>3. ASSUME NEW r \in Requests, Call(r) \/ StoreFails(r) \/ Admit(r) PROVE LimitTypeOK'
  BY <1>3 DEF Call, StoreFails, Admit, Phases
<1>4. ASSUME NEW r \in Requests, Count(r) PROVE LimitTypeOK'
  BY <1>4, Advanced, Constants DEF Count, Phases
<1>5. ASSUME NEW r \in Requests, Refuse(r) PROVE LimitTypeOK'
  <2>1. secondsLeft(entry[r].resetAt) \in Nat
    <3>1. CASE entry[r].resetAt <= now
      BY <3>1 DEF secondsLeft
    <3>2. CASE ~(entry[r].resetAt <= now)
      <4>1. entry[r].resetAt - now \in Nat /\ Second \in Nat \ {0}
        BY <3>2, LimitTypes, Constants
      <4> QED
        BY <3>2, <4>1, RoundedUp DEF secondsLeft
    <3> QED
      BY <3>1, <3>2
  <2> QED
    BY <1>5, <2>1 DEF Refuse, Phases
<1> QED
  BY <1>1, <1>2, <1>3, <1>4, <1>5 DEF LimitNext

\* Only the store's count changes what has been counted.
LEMMA CountOnly ==
  ASSUME [LimitNext]_limitVars
  PROVE  UNCHANGED <<buckets, entry, hitAt>> \/ \E r \in Requests : Count(r)
  BY DEF LimitNext, limitVars, Tick, Call, StoreFails, Admit, Refuse

LEMMA TimeRuns == ASSUME LimitTypeOK, [LimitNext]_limitVars PROVE now' \in Nat /\ now <= now'
  BY LimitTypes, Constants DEF LimitNext, limitVars, Tick, Call, Count, StoreFails, Admit, Refuse

LEMMA PhasedStep == ASSUME LimitTypeOK, Phased, [LimitNext]_limitVars PROVE Phased'
<1> SUFFICES ASSUME NEW r \in Requests PROVE PhaseOf(r)'
  BY DEF Phased
<1> USE DEF PhaseOf
<1>1. PhaseOf(r)
  BY DEF Phased
<1>2. CASE UNCHANGED limitVars \/ Tick
  BY <1>1, <1>2 DEF limitVars, Tick
<1>3. ASSUME NEW q \in Requests, Call(q) \/ StoreFails(q) PROVE PhaseOf(r)'
  BY <1>1, <1>3 DEF Call, StoreFails, LimitTypeOK
<1>4. ASSUME NEW q \in Requests, Count(q) PROVE PhaseOf(r)'
  <2>1. advanced(Bucket[q]).count > 0
    BY Advanced, Constants
  <2> QED
    BY <1>1, <1>4, <2>1 DEF Count, LimitTypeOK
<1>5. ASSUME NEW q \in Requests, Admit(q) PROVE PhaseOf(r)'
  BY <1>1, <1>5 DEF Admit, LimitTypeOK, withinLimit
<1>6. ASSUME NEW q \in Requests, Refuse(q) PROVE PhaseOf(r)'
  BY <1>1, <1>6, LimitTypes, Constants DEF Refuse, LimitTypeOK, withinLimit
<1> QED
  BY <1>2, <1>3, <1>4, <1>5, <1>6 DEF LimitNext

-----------------------------------------------------------------------------
(* One more hit: r is counted, in the window that runs or in a new one.    *)

LEMMA NewHit ==
  ASSUME LimitTypeOK, Phased, Latest, NEW r \in Requests, Count(r)
  PROVE  LET b == Bucket[r]
             e == advanced(b)
         IN /\ b \in Buckets /\ hits' = hits \cup {r} /\ r \notin hits /\ now' = now
            /\ entry'[r] = e /\ hitAt'[r] = now /\ buckets'[b] = e
            /\ \A q \in hits : q \in Requests /\ q # r /\ entry'[q] = entry[q] /\ hitAt'[q] = hitAt[q]
            /\ \A c \in Buckets : c # b => buckets'[c] = buckets[c]
            /\ e.count \in Nat /\ e.count > 0 /\ e.resetAt \in Nat
            /\ now < e.resetAt /\ e.resetAt <= now + Window
            /\ e.count = 1 => e.resetAt = now + Window
            /\ \A q \in hits : Bucket[q] = b =>
                 \/ entry[q].resetAt = e.resetAt /\ entry[q].count < e.count
                 \/ entry[q].resetAt + Window <= e.resetAt
<1> DEFINE b == Bucket[r]
           e == advanced(b)
<1>1. b \in Buckets /\ now' = now /\ request[r] = "called"
  BY Constants DEF Count
<1>2. entry'[r] = e /\ hitAt'[r] = now /\ buckets'[b] = e
  BY <1>1 DEF Count, LimitTypeOK
<1>3. \A q \in Requests : q # r => entry'[q] = entry[q] /\ hitAt'[q] = hitAt[q]
  BY DEF Count, LimitTypeOK
<1>4. \A c \in Buckets : c # b => buckets'[c] = buckets[c]
  BY DEF Count, LimitTypeOK
<1>5. e.count \in Nat /\ e.count > 0 /\ e.resetAt \in Nat
  BY <1>1, Advanced DEF Snapshots
<1>6. r \notin hits
  BY <1>1 DEF Phased, PhaseOf, hits
<1> HIDE DEF e
<1>7. hits' = hits \cup {r}
  BY <1>2, <1>3, <1>5, <1>6 DEF hits
<1>8. /\ now < e.resetAt /\ e.resetAt <= now + Window
      /\ e.count = 1 => e.resetAt = now + Window
  <2>1. CASE expired(b)
    BY <1>1, <2>1, Advanced, LimitTypes, Constants DEF e
  <2>2. CASE ~expired(b)
    <3>1. e.count = buckets[b].count + 1 /\ e.resetAt = buckets[b].resetAt
      BY <1>1, <2>2, Advanced DEF e
    <3>2. now < buckets[b].resetAt
      BY <1>1, <2>2, LimitTypes DEF expired
    <3>3. buckets[b].resetAt <= now + Window /\ buckets[b].count # 0
      BY <1>1, <3>2, LimitTypes DEF Latest
    <3> QED
      BY <1>1, <3>1, <3>2, <3>3, LimitTypes
  <2> QED
    BY <2>1, <2>2
<1>9. ASSUME NEW q \in hits, Bucket[q] = b
      PROVE  \/ entry[q].resetAt = e.resetAt /\ entry[q].count < e.count
             \/ entry[q].resetAt + Window <= e.resetAt
  <2>1. /\ q \in Requests
        /\ \/ entry[q].resetAt = buckets[b].resetAt /\ entry[q].count <= buckets[b].count
           \/ entry[q].resetAt + Window <= buckets[b].resetAt
    BY <1>9 DEF Latest, hits
  <2>2. CASE expired(b)
    <3>1. e.resetAt = now + Window /\ buckets[b].resetAt <= now
      BY <1>1, <2>2, Advanced DEF e, expired
    <3> QED
      BY <1>1, <2>1, <3>1, LimitTypes, Constants
  <2>3. CASE ~expired(b)
    <3>1. e.count = buckets[b].count + 1 /\ e.resetAt = buckets[b].resetAt
      BY <1>1, <2>3, Advanced DEF e
    <3> QED
      BY <1>1, <2>1, <3>1, LimitTypes
  <2> QED
    BY <2>2, <2>3
<1>10. \A q \in hits : q \in Requests /\ q # r
  BY <1>6 DEF hits
<1> QED
  BY <1>1, <1>2, <1>3, <1>4, <1>5, <1>6, <1>7, <1>8, <1>9, <1>10 DEF e

\* A step that counts nothing leaves the history as it is.
LEMMA SameHistory ==
  ASSUME LimitTypeOK, Dated, Latest, Disjoint, NoRepetition, NoGap, NoGapBelow, UNCHANGED <<buckets, entry, hitAt>>,
         [LimitNext]_limitVars
  PROVE  Dated' /\ Latest' /\ Disjoint' /\ NoRepetition' /\ NoGap' /\ NoGapBelow'
<1>1. hits' = hits /\ hits \subseteq Requests
  BY DEF hits
<1>2. now' \in Nat /\ now <= now'
  BY TimeRuns
<1>3. Dated'
  BY <1>1, <1>2, LimitTypes DEF Dated
<1>4. Latest'
  BY <1>1, <1>2, LimitTypes, Constants DEF Latest
<1> QED
  BY <1>1, <1>3, <1>4 DEF Disjoint, NoRepetition, NoGap, NoGapBelow

LEMMA HistoryStep ==
  ASSUME LimitTypeOK, Phased, Dated, Latest, Disjoint, NoRepetition, NoGap, NoGapBelow, NEW r \in Requests, Count(r)
  PROVE  Dated' /\ Latest' /\ Disjoint' /\ NoRepetition' /\ NoGap' /\ NoGapBelow'
<1> DEFINE b == Bucket[r]
           e == advanced(b)
<1>1. /\ b \in Buckets /\ hits' = hits \cup {r} /\ r \notin hits /\ now' = now
      /\ entry'[r] = e /\ hitAt'[r] = now /\ buckets'[b] = e
      /\ \A q \in hits : q \in Requests /\ q # r /\ entry'[q] = entry[q] /\ hitAt'[q] = hitAt[q]
      /\ \A c \in Buckets : c # b => buckets'[c] = buckets[c]
      /\ e.count \in Nat /\ e.count > 0 /\ e.resetAt \in Nat
      /\ now < e.resetAt /\ e.resetAt <= now + Window
      /\ e.count = 1 => e.resetAt = now + Window
      /\ \A q \in hits : Bucket[q] = b =>
           \/ entry[q].resetAt = e.resetAt /\ entry[q].count < e.count
           \/ entry[q].resetAt + Window <= e.resetAt
  BY NewHit
<1>2. /\ now \in Nat /\ Window \in Nat /\ Window > 0
      /\ \A q \in hits : entry[q].count \in Nat /\ entry[q].resetAt \in Nat
  BY <1>1, LimitTypes, Constants
<1> HIDE DEF e
<1>3. Dated'
  BY <1>1, <1>2 DEF Dated
<1>4. Latest'
  <2>1. \A c \in Buckets : buckets'[c].resetAt <= now + Window /\ (buckets'[c].count = 0 => buckets'[c].resetAt = 0)
    BY <1>1, <1>2 DEF Latest
  <2>2. ASSUME NEW q \in hits'
        PROVE  \/ entry'[q].resetAt = buckets'[Bucket[q]].resetAt /\ entry'[q].count <= buckets'[Bucket[q]].count
               \/ entry'[q].resetAt + Window <= buckets'[Bucket[q]].resetAt
    <3>1. CASE q = r
      BY <1>1, <3>1
    <3>2. CASE q # r /\ Bucket[q] = b
      BY <1>1, <1>2, <3>2
    <3>3. CASE q # r /\ Bucket[q] # b
      <4>1. q \in hits /\ Bucket[q] \in Buckets
        BY <1>1, <3>3, Constants
      <4> QED
        BY <1>1, <3>3, <4>1 DEF Latest
    <3> QED
      BY <3>1, <3>2, <3>3
  <2> QED
    BY <1>1, <2>1, <2>2 DEF Latest
<1>5. Disjoint'
  BY <1>1, <1>2 DEF Disjoint
<1>6. NoRepetition'
  BY <1>1, <1>2 DEF NoRepetition
<1>7. NoGap'
  <2> SUFFICES ASSUME NEW c \in Buckets, NEW k \in 1 .. buckets'[c].count
               PROVE  \E q \in hits' : Bucket[q] = c /\ entry'[q].resetAt = buckets'[c].resetAt /\ entry'[q].count = k
    BY DEF NoGap
  <2>1. CASE c # b
    BY <1>1, <2>1 DEF NoGap
  <2>2. CASE c = b /\ k = e.count
    BY <1>1, <2>2
  <2>3. CASE c = b /\ k # e.count
    <3>1. ~expired(b) /\ e.count = buckets[b].count + 1 /\ e.resetAt = buckets[b].resetAt
      <4>1. expired(b) => e.count = 1
        BY <1>1, Advanced DEF e
      <4>2. ~expired(b)
        BY <1>1, <2>3, <4>1
      <4> QED
        BY <1>1, <4>2, Advanced DEF e
    <3>2. k \in 1 .. buckets[b].count
      BY <1>1, <2>3, <3>1, LimitTypes
    <3>3. PICK q \in hits : Bucket[q] = b /\ entry[q].resetAt = buckets[b].resetAt /\ entry[q].count = k
      BY <1>1, <3>2 DEF NoGap
    <3> QED
      BY <1>1, <2>3, <3>1, <3>3
  <2> QED
    BY <2>1, <2>2, <2>3
<1>8. NoGapBelow'
  <2> SUFFICES ASSUME NEW s \in hits', NEW k \in 1 .. entry'[s].count
               PROVE  \E q \in hits' : Bucket[q] = Bucket[s] /\ entry'[q].resetAt = entry'[s].resetAt /\ entry'[q].count = k
    BY DEF NoGapBelow
  <2>1. CASE s = r
    <3>1. k \in 1 .. buckets'[b].count
      BY <1>1, <2>1
    <3> QED
      BY <1>1, <1>7, <2>1, <3>1 DEF NoGap
  <2>2. CASE s # r
    <3>1. s \in hits /\ k \in 1 .. entry[s].count
      BY <1>1, <2>2
    <3>2. PICK q \in hits : Bucket[q] = Bucket[s] /\ entry[q].resetAt = entry[s].resetAt /\ entry[q].count = k
      BY <3>1 DEF NoGapBelow
    <3> QED
      BY <1>1, <3>1, <3>2
  <2> QED
    BY <2>1, <2>2
<1> QED
  BY <1>3, <1>4, <1>5, <1>6, <1>7, <1>8

-----------------------------------------------------------------------------
\* A refusal names the seconds that are left.
LEMMA AnsweredStep == ASSUME LimitTypeOK, Phased, Dated, Answered, [LimitNext]_limitVars PROVE Answered'
<1> SUFFICES ASSUME NEW r \in Requests, request'[r] = "refused"
             PROVE  /\ entry'[r].resetAt <= answeredAt'[r] + retryAfter'[r] * Second
                    /\ retryAfter'[r] * Second < Window + Second
  BY DEF Answered
<1>1. CASE UNCHANGED limitVars \/ Tick
  BY <1>1 DEF Answered, limitVars, Tick
<1>2. ASSUME NEW q \in Requests, Call(q) \/ StoreFails(q) \/ Admit(q)
      PROVE  request[r] = "refused" /\ UNCHANGED <<entry, answeredAt, retryAfter>>
  BY <1>2 DEF Call, StoreFails, Admit, LimitTypeOK
<1>3. ASSUME NEW q \in Requests, Count(q)
      PROVE  request[r] = "refused" /\ entry'[r] = entry[r] /\ UNCHANGED <<answeredAt, retryAfter>>
  BY <1>3 DEF Count, LimitTypeOK
<1>4. ASSUME NEW q \in Requests, Refuse(q), q # r
      PROVE  /\ request[r] = "refused" /\ entry'[r] = entry[r] /\ answeredAt'[r] = answeredAt[r]
             /\ retryAfter'[r] = retryAfter[r]
  BY <1>4 DEF Refuse, LimitTypeOK
<1>5. CASE Refuse(r)
  <2> DEFINE x == entry[r].resetAt
  <2>1. entry' = entry /\ answeredAt'[r] = now /\ retryAfter'[r] = secondsLeft(x) /\ request[r] = "counted"
    BY <1>5 DEF Refuse, LimitTypeOK
  <2>2. r \in hits
    BY <2>1 DEF Phased, PhaseOf, hits
  <2>3. x \in Nat /\ now \in Nat /\ x <= now + Window
    BY <2>2, LimitTypes, Constants DEF Dated
  <2> HIDE DEF x
  <2>4. CASE x <= now
    <3>1. secondsLeft(x) = 0
      BY <2>4 DEF secondsLeft
    <3> QED
      BY <2>1, <2>3, <2>4, <3>1, Constants DEF x
  <2>5. CASE ~(x <= now)
    <3> DEFINE y == x - now
    <3>1. y \in Nat /\ y <= Window /\ x = now + y
      BY <2>3, <2>5, Constants
    <3>2. secondsLeft(x) = (y + Second - 1) \div Second
      BY <2>5 DEF secondsLeft
    <3> HIDE DEF y
    <3>3. /\ secondsLeft(x) \in Nat
          /\ y <= secondsLeft(x) * Second /\ secondsLeft(x) * Second < y + Second
      <4>1. Second \in Nat \ {0}
        BY Constants
      <4>2. /\ (y + Second - 1) \div Second \in Nat
            /\ y <= ((y + Second - 1) \div Second) * Second /\ ((y + Second - 1) \div Second) * Second < y + Second
        BY <3>1, <4>1, RoundedUp
      <4> QED
        BY <3>2, <4>2
    <3> DEFINE z == secondsLeft(x) * Second
    <3>4. z \in Nat /\ y <= z /\ z < y + Second
      BY <3>3, Constants
    <3>5. retryAfter'[r] * Second = z
      BY <2>1
    <3> HIDE DEF z
    <3>6. x <= now + z /\ z < Window + Second
      BY <2>3, <3>1, <3>4, Constants
    <3> QED
      BY <2>1, <3>5, <3>6 DEF x
  <2> QED
    BY <2>4, <2>5
<1>6. ASSUME /\ request[r] = "refused" /\ entry'[r] = entry[r]
             /\ answeredAt'[r] = answeredAt[r] /\ retryAfter'[r] = retryAfter[r]
      PROVE  /\ entry'[r].resetAt <= answeredAt'[r] + retryAfter'[r] * Second
             /\ retryAfter'[r] * Second < Window + Second
  BY <1>6 DEF Answered
<1> QED
  BY <1>1, <1>2, <1>3, <1>4, <1>5, <1>6 DEF LimitNext

LEMMA LimitInductive == ASSUME LimitIInv, [LimitNext]_limitVars PROVE LimitIInv'
<1>1. LimitTypeOK' /\ Phased' /\ Answered'
  BY LimitTypeStep, PhasedStep, AnsweredStep DEF LimitIInv
<1>2. Dated' /\ Latest' /\ Disjoint' /\ NoRepetition' /\ NoGap' /\ NoGapBelow'
  BY CountOnly, SameHistory, HistoryStep DEF LimitIInv
<1> QED
  BY <1>1, <1>2 DEF LimitIInv

LEMMA Invariant == LimitSpec => []LimitIInv
<1>1. LimitInit => LimitIInv
  BY LimitInitially
<1>2. LimitIInv /\ [LimitNext]_limitVars => LimitIInv'
  BY LimitInductive
<1> QED
  BY <1>1, <1>2, PTL DEF LimitSpec

-----------------------------------------------------------------------------
(* What the counted windows say of admissions and refusals.                *)

\* Admitted requests are hits, with a number within their limit.
LEMMA AdmittedHits ==
  ASSUME LimitIInv, NEW q \in admitted
  PROVE  /\ q \in hits /\ q \in Requests /\ entry[q].count \in 1 .. Limit[q]
         /\ entry[q].count \in Nat /\ entry[q].resetAt \in Nat /\ hitAt[q] \in Nat
  BY LimitTypes, Constants DEF LimitIInv, Phased, PhaseOf, admitted, hits

\* Admissions of one window, bucket and limit with a number above n are at most
\* Limit - n.
LEMMA AdmittedAbove ==
  ASSUME LimitIInv, NEW r \in admitted, NEW w \in Nat, NEW n \in Nat, n <= Limit[r],
         NEW S \in SUBSET admitted,
         \A q \in S : Bucket[q] = Bucket[r] /\ entry[q].resetAt = w /\ Limit[q] = Limit[r] /\ entry[q].count > n
  PROVE  IsFiniteSet(S) /\ Cardinality(S) <= Limit[r] - n /\ Cardinality(S) \in Nat
<1> DEFINE f == [q \in S |-> entry[q].count]
<1>1. Limit[r] \in Nat
  BY AdmittedHits, Constants
<1>2. f \in [S -> Int] /\ \A q \in S : f[q] \in (n + 1) .. Limit[r]
  BY <1>1, AdmittedHits
<1>3. \A p, q \in S : f[p] = f[q] => p = q
  BY AdmittedHits DEF LimitIInv, NoRepetition
<1> DEFINE a == n + 1
<1>4. a \in Int /\ Limit[r] \in Int /\ a <= Limit[r] + 1 /\ Limit[r] - a + 1 = Limit[r] - n
  BY <1>1
<1>5. f \in [S -> Int] /\ \A q \in S : f[q] \in a .. Limit[r]
  BY <1>2
<1> HIDE DEF f, a
<1>6. IsFiniteSet(S) /\ Cardinality(S) <= Limit[r] - a + 1 /\ Cardinality(S) \in Nat
  BY <1>3, <1>4, <1>5, CountedIn
<1> QED
  BY <1>4, <1>6

LEMMA WindowHolds == LimitIInv => WindowBound
<1> SUFFICES ASSUME LimitIInv, NEW r \in admitted
             PROVE  LET same == {q \in window(r) \cap admitted : Limit[q] = Limit[r]}
                    IN  /\ Cardinality(same) <= Limit[r]
                        /\ Cardinality({q \in same : entry[q].count > entry[r].count}) <= remaining(r)
  BY DEF WindowBound
<1> DEFINE same == {q \in window(r) \cap admitted : Limit[q] = Limit[r]}
           later == {q \in same : entry[q].count > entry[r].count}
<1>1. entry[r].count \in 1 .. Limit[r] /\ entry[r].count \in Nat /\ entry[r].resetAt \in Nat /\ Limit[r] \in Nat
  BY AdmittedHits, Constants
<1>2. \A q \in same : /\ Bucket[q] = Bucket[r] /\ entry[q].resetAt = entry[r].resetAt /\ Limit[q] = Limit[r]
                      /\ q \in admitted /\ entry[q].count > 0
  BY AdmittedHits DEF window, hits
<1>3. same \in SUBSET admitted /\ later \in SUBSET admitted
  OBVIOUS
<1>4. \A q \in later : q \in same /\ entry[q].count > entry[r].count
  OBVIOUS
<1> HIDE DEF same, later
<1>5. Cardinality(same) <= Limit[r] - 0 /\ Cardinality(same) \in Nat
  <2>1. 0 \in Nat /\ 0 <= Limit[r]
    BY <1>1
  <2>2. \A q \in same : Bucket[q] = Bucket[r] /\ entry[q].resetAt = entry[r].resetAt /\ Limit[q] = Limit[r] /\ entry[q].count > 0
    BY <1>2
  <2> QED
    BY <1>1, <1>3, <2>1, <2>2, AdmittedAbove
<1>6. Cardinality(later) <= Limit[r] - entry[r].count
  BY <1>1, <1>2, <1>3, <1>4, AdmittedAbove
<1> QED
  BY <1>1, <1>5, <1>6 DEF same, later, remaining

LEMMA BurstHolds == LimitIInv => BurstBound
<1> DEFINE Burst(r) == {q \in admitted : /\ Bucket[q] = Bucket[r] /\ Limit[q] = Limit[r]
                                         /\ hitAt[q] >= hitAt[r] /\ hitAt[q] < hitAt[r] + Window}
<1> SUFFICES ASSUME LimitIInv, NEW r \in admitted PROVE Cardinality(Burst(r)) < 2 * Limit[r]
  BY DEF BurstBound
<1> DEFINE w == entry[r].resetAt
           burst == Burst(r)
           here == {q \in burst : entry[q].resetAt = w}
           there == {q \in burst : entry[q].resetAt # w}
<1>1. /\ r \in hits /\ w \in Nat /\ hitAt[r] \in Nat /\ hitAt[r] < w /\ w <= hitAt[r] + Window
      /\ Limit[r] \in Nat /\ Limit[r] > 0 /\ Window \in Nat /\ Window > 0
  BY AdmittedHits, Constants DEF LimitIInv, Dated
<1>2. \A q \in burst :
        /\ q \in admitted /\ q \in hits /\ Bucket[q] = Bucket[r] /\ Limit[q] = Limit[r]
        /\ entry[q].count \in Nat /\ entry[q].count > 0 /\ entry[q].resetAt \in Nat /\ hitAt[q] \in Nat
        /\ hitAt[q] >= hitAt[r] /\ hitAt[q] < hitAt[r] + Window
        /\ hitAt[q] < entry[q].resetAt /\ entry[q].resetAt <= hitAt[q] + Window
        /\ entry[q].count = 1 => entry[q].resetAt = hitAt[q] + Window
  <2>1. ASSUME NEW q \in burst
        PROVE  /\ q \in admitted /\ q \in hits /\ Bucket[q] = Bucket[r] /\ Limit[q] = Limit[r]
               /\ entry[q].count \in Nat /\ entry[q].count > 0 /\ entry[q].resetAt \in Nat /\ hitAt[q] \in Nat
               /\ hitAt[q] >= hitAt[r] /\ hitAt[q] < hitAt[r] + Window
    BY AdmittedHits DEF hits
  <2>2. ASSUME NEW q \in burst
        PROVE  /\ hitAt[q] < entry[q].resetAt /\ entry[q].resetAt <= hitAt[q] + Window
               /\ entry[q].count = 1 => entry[q].resetAt = hitAt[q] + Window
    BY <2>1 DEF LimitIInv, Dated
  <2> QED
    BY <2>1, <2>2
<1>3. burst = here \cup there /\ here \subseteq burst /\ there \subseteq burst
  OBVIOUS
<1>4. (\A q \in here : entry[q].resetAt = w) /\ \A q \in there : entry[q].resetAt # w
  OBVIOUS
<1>5. \A q \in hits : \A p \in hits :
        Bucket[q] = Bucket[p] /\ entry[q].resetAt < entry[p].resetAt => entry[q].resetAt + Window <= entry[p].resetAt
  BY DEF LimitIInv, Disjoint
<1>6. entry[r].resetAt = w
  OBVIOUS
<1> HIDE DEF Burst, burst, here, there, w
<1>7. IsFiniteSet(here) /\ Cardinality(here) <= Limit[r] - 0 /\ Cardinality(here) \in Nat
  <2>1. here \in SUBSET admitted /\ \A q \in here : Bucket[q] = Bucket[r] /\ Limit[q] = Limit[r] /\ entry[q].count > 0
    BY <1>2, <1>3
  <2> QED
    BY <1>1, <1>4, <2>1, AdmittedAbove
\* The window of r started before r was hit, or another could not begin within the interval.
<1>8. ASSUME there # {}
      PROVE  IsFiniteSet(here) /\ Cardinality(here) <= Limit[r] - 1 /\ IsFiniteSet(there) /\ Cardinality(there) <= Limit[r] - 0
  <2>1. \A q \in there : w + Window <= entry[q].resetAt
    <3> SUFFICES ASSUME NEW q \in there PROVE w + Window <= entry[q].resetAt
      OBVIOUS
    <3>1. q \in burst /\ q \in hits /\ Bucket[q] = Bucket[r] /\ entry[q].resetAt # w
      BY <1>2, <1>3, <1>4
    <3>2. /\ entry[q].resetAt \in Nat /\ hitAt[q] \in Nat
          /\ hitAt[q] >= hitAt[r] /\ hitAt[q] < entry[q].resetAt
      BY <1>2, <3>1
    <3>3. w < entry[q].resetAt => w + Window <= entry[q].resetAt
      BY <1>1, <1>5, <1>6, <3>1
    <3>4. entry[q].resetAt < w => entry[q].resetAt + Window <= w
      BY <1>1, <1>5, <1>6, <3>1
    <3> QED
      BY <1>1, <3>1, <3>2, <3>3, <3>4
  <2>2. PICK p \in there : TRUE
    BY <1>8
  <2>3. p \in burst /\ p \in hits /\ Bucket[p] = Bucket[r]
    BY <1>2, <1>3
  <2> DEFINE v == entry[p].resetAt
  <2>4. /\ v \in Nat /\ hitAt[p] \in Nat /\ w + Window <= v
        /\ v <= hitAt[p] + Window /\ hitAt[p] < hitAt[r] + Window
    BY <1>2, <2>1, <2>3
  <2>5. entry[p].resetAt = v
    OBVIOUS
  <2> HIDE DEF v
  <2>6. w < hitAt[r] + Window
    BY <1>1, <2>4
  <2>7. \A q \in here : entry[q].count > 1
    <3> SUFFICES ASSUME NEW q \in here PROVE entry[q].count > 1
      OBVIOUS
    <3>1. /\ entry[q].count \in Nat /\ entry[q].count > 0 /\ hitAt[q] \in Nat /\ hitAt[q] >= hitAt[r]
          /\ entry[q].count = 1 => w = hitAt[q] + Window
      BY <1>2, <1>3, <1>4
    <3> QED
      BY <1>1, <2>6, <3>1
  <2>8. here \in SUBSET admitted /\ \A q \in here : Bucket[q] = Bucket[r] /\ Limit[q] = Limit[r]
    BY <1>2, <1>3
  <2>9. IsFiniteSet(here) /\ Cardinality(here) <= Limit[r] - 1
    <3>1. 1 \in Nat /\ 1 <= Limit[r] /\ r \in admitted
      BY <1>1
    <3>2. \A q \in here : Bucket[q] = Bucket[r] /\ entry[q].resetAt = w /\ Limit[q] = Limit[r] /\ entry[q].count > 1
      BY <1>4, <2>7, <2>8
    <3> QED
      BY <1>1, <2>8, <3>1, <3>2, AdmittedAbove
  <2>10. \A q \in there : entry[q].resetAt = v
    <3> SUFFICES ASSUME NEW q \in there PROVE entry[q].resetAt = v
      OBVIOUS
    <3>1. q \in burst /\ q \in hits /\ Bucket[q] = Bucket[p]
      BY <1>2, <1>3, <2>3
    <3>2. /\ entry[q].resetAt \in Nat /\ w + Window <= entry[q].resetAt
          /\ entry[q].resetAt <= hitAt[q] + Window /\ hitAt[q] < hitAt[r] + Window /\ hitAt[q] \in Nat
      BY <1>2, <2>1, <3>1
    <3>3. entry[q].resetAt < v => entry[q].resetAt + Window <= v
      BY <1>5, <2>3, <2>5, <3>1
    <3>4. v < entry[q].resetAt => v + Window <= entry[q].resetAt
      BY <1>5, <2>3, <2>5, <3>1
    <3> QED
      BY <1>1, <2>4, <3>2, <3>3, <3>4
  <2>11. there \in SUBSET admitted /\ \A q \in there : Bucket[q] = Bucket[r] /\ Limit[q] = Limit[r] /\ entry[q].count > 0
    BY <1>2, <1>3
  <2>12. IsFiniteSet(there) /\ Cardinality(there) <= Limit[r] - 0
    BY <1>1, <2>4, <2>10, <2>11, AdmittedAbove
  <2> QED
    BY <2>9, <2>12
<1>9. CASE there = {}
  <2>1. burst = here
    BY <1>3, <1>9
  <2> QED
    BY <1>1, <1>7, <2>1 DEF burst
<1>10. CASE there # {}
  <2>1. IsFiniteSet(here) /\ IsFiniteSet(there) /\ Cardinality(here) <= Limit[r] - 1 /\ Cardinality(there) <= Limit[r]
    BY <1>1, <1>8, <1>10
  <2>2. Cardinality(here) \in Nat /\ Cardinality(there) \in Nat
    BY <2>1, FS_CardinalityType
  <2>3. /\ Cardinality(burst) = Cardinality(here) + Cardinality(there) - Cardinality(here \cap there)
        /\ Cardinality(here \cap there) \in Nat
    BY <1>3, <2>1, FS_Union, FS_Intersection, FS_CardinalityType
  <2> QED
    BY <1>1, <2>1, <2>2, <2>3 DEF burst
<1> QED
  BY <1>9, <1>10

LEMMA RefusalHolds == LimitIInv => RefusalHonest
<1> SUFFICES ASSUME LimitIInv, NEW r \in Requests, request[r] = "refused"
             PROVE  /\ Cardinality({q \in window(r) : entry[q].count < entry[r].count}) >= Limit[r]
                    /\ retryAfter[r] * Second < Window + Second
                    /\ \A q \in hits : hitAt[q] >= answeredAt[r] + retryAfter[r] * Second => q \notin window(r)
  BY DEF RefusalHonest
<1> DEFINE before == {q \in window(r) : entry[q].count < entry[r].count}
           n == entry[r].count - 1
           f == [q \in before |-> entry[q].count]
<1>1. r \in hits /\ entry[r].count > Limit[r] /\ Limit[r] \in Nat /\ entry[r].count \in Nat
  BY LimitTypes, Constants DEF LimitIInv, Phased, PhaseOf, hits
<1>2. /\ entry[r].resetAt <= answeredAt[r] + retryAfter[r] * Second
      /\ retryAfter[r] * Second < Window + Second
  BY DEF LimitIInv, Answered
<1>3. Cardinality(before) = n
  <2>1. n \in Nat /\ f \in [before -> Int] /\ \A q \in before : f[q] \in 1 .. n
    BY <1>1, LimitTypes DEF LimitIInv, window, hits
  <2>2. \A p, q \in before : f[p] = f[q] => p = q
    BY DEF LimitIInv, NoRepetition, window
  <2>3. \A k \in 1 .. n : \E q \in before : f[q] = k
    <3> SUFFICES ASSUME NEW k \in 1 .. n PROVE \E q \in before : f[q] = k
      OBVIOUS
    <3>1. k \in 1 .. entry[r].count /\ k < entry[r].count
      BY <1>1
    <3>2. PICK q \in hits : Bucket[q] = Bucket[r] /\ entry[q].resetAt = entry[r].resetAt /\ entry[q].count = k
      BY <1>1, <3>1 DEF LimitIInv, NoGapBelow
    <3>3. q \in before
      BY <3>1, <3>2 DEF window
    <3> QED
      BY <3>2, <3>3
  <2> HIDE DEF before, f, n
  <2> QED
    BY <2>1, <2>2, <2>3, CountedExactly
<1>4. ASSUME NEW q \in hits, hitAt[q] >= answeredAt[r] + retryAfter[r] * Second PROVE q \notin window(r)
  <2> DEFINE u == answeredAt[r] + retryAfter[r] * Second
  <2>1. hitAt[q] < entry[q].resetAt /\ hitAt[q] \in Nat /\ entry[q].resetAt \in Nat
    BY LimitTypes DEF LimitIInv, Dated, hits
  <2>2. u \in Nat /\ entry[r].resetAt \in Nat
    BY LimitTypes, Constants DEF LimitIInv
  <2>3. entry[r].resetAt <= u /\ hitAt[q] >= u
    BY <1>2, <1>4
  <2> HIDE DEF u
  <2>4. entry[q].resetAt # entry[r].resetAt
    BY <2>1, <2>2, <2>3
  <2> QED
    BY <2>4 DEF window
<1> QED
  BY <1>1, <1>2, <1>3, <1>4

-----------------------------------------------------------------------------
\* The types of the store, of the guard and of the clock (rate-limit.ts:40-66).
THEOREM LimitTypeCorrect == LimitSpec => []LimitTypeOK
<1>1. LimitIInv => LimitTypeOK
  BY DEF LimitIInv
<1> QED
  BY <1>1, Invariant, PTL

\* However the answers of the store interleave, no window admits more than the
\* limit, and no interval as long as a window twice as many
\* (rate-limit.ts:139-164).
THEOREM AdmissionsHold == LimitSpec => []AdmissionsBounded
<1>1. LimitIInv => AdmissionsBounded
  BY WindowHolds, BurstHolds DEF AdmissionsBounded
<1> QED
  BY <1>1, Invariant, PTL

\* Every refusal is earned; to wait as long as it asks is enough, and is never
\* a second more than the window could last (rate-limit.ts:152-160).
THEOREM RefusalsHonest == LimitSpec => []RefusalHonest
<1>1. LimitIInv => RefusalHonest
  BY RefusalHolds
<1> QED
  BY <1>1, Invariant, PTL
=============================================================================
