---------------------------- MODULE PipelineProofs ----------------------------
(***************************************************************************)
(* The request pipeline, proved for routes with any number of guards and   *)
(* any enrichment keys.                                                    *)
(*                                                                         *)
(* The invariant is about what lies behind the request.  A stage is behind *)
(* it when the walk has passed it or when its key is in partialContext;    *)
(* the two differ only after a hand-over, which starts the walk again.     *)
(* Everything OnceInOrder and ContextFaithful say follows from what is     *)
(* known of the stages behind.                                             *)
(***************************************************************************)
EXTENDS Pipeline, TLAPS

Behind(n) == n < at \/ n \in partial

Reached(n) == Behind(n) \/ (n = at /\ phase # "running")

\* Only a resumed request has a partialContext; its keys are those of the
\* first stages, and a stage in it is skipped.
Where ==
  /\ path # "resumed" => partial = {}
  /\ \A s \in partial, m \in Slots : m < s => m \in partial
  /\ phase # "running" => Wanted(at) /\ at \notin partial

CallsInv == \A n \in Stages : calls[n] = IF Wanted(n) /\ Reached(n) THEN 1 ELSE 0

BehindInv ==
  \A n \in Stages : Wanted(n) /\ Behind(n) =>
    /\ n \in Slots => result[n] \in Outputs
    /\ n \in Guards => result[n] = "enrichment"

DataInv ==
  \A s \in Slots :
    data[s] = IF s \in route.declared /\ Behind(s) THEN result[s] ELSE unvalidated[s]

OwnerInv ==
  phase \in {"running", "awaiting"} =>
    /\ owner[reserved] = 0
    /\ \A k \in ContextKeys, g \in Guards : k \in gave[g] <=> owner[k] = g
    /\ \A g \in Guards : g >= at => gave[g] = {}

AnswerInv ==
  /\ AnswerExplained
  /\ phase \in {"policy", "policyAwaiting"} => result[at] \in {"throws", "malformed", "enrichment"}

IInv == TypeOK /\ Where /\ CallsInv /\ BehindInv /\ DataInv /\ OwnerInv /\ AnswerInv

-----------------------------------------------------------------------------
\* The stages are numbered without a gap; the handler is the last.
LEMMA Numbering ==
  /\ Stages = 1 .. GuardLimit + 5 /\ handler = GuardLimit + 5
  /\ Slots = 1 .. 4 /\ Guards = 5 .. GuardLimit + 4
  /\ handler \in Nat /\ headers = 1 /\ params = 2 /\ body = 4
  BY GuardLimitAssumption, SMT DEF Stages, Slots, Guards, handler, headers, params, query, body

\* A request that has just arrived satisfies the invariant.
LEMMA InitInv == Init => IInv
  <1> SUFFICES ASSUME Init PROVE IInv
    OBVIOUS
  <1>1. TypeOK
    BY Numbering, GuardLimitAssumption DEF Init, TypeOK, unvalidated, Values, Outputs
  <1>2. \A n \in Stages : ~Reached(n)
    BY Numbering DEF Init, Reached, Behind
  <1>3. Where /\ CallsInv /\ BehindInv /\ DataInv
    BY <1>2, Numbering DEF Init, Where, CallsInv, BehindInv, DataInv, Reached, Behind
  <1>4. OwnerInv
    BY Numbering DEF Init, OwnerInv, ContextKeys
  <1>5. AnswerInv
    BY DEF Init, AnswerInv, AnswerExplained
  <1> QED
    BY <1>1, <1>3, <1>4, <1>5 DEF IInv

\* The next stage of a skipped one.
LEMMA SkipInv == IInv /\ Skip => IInv'
  <1> SUFFICES ASSUME IInv, Skip PROVE IInv'
    OBVIOUS
  <1> USE Numbering
  <1>1. at \in 1 .. GuardLimit + 4 /\ at' = at + 1 /\ phase = "running" /\ phase' = "running"
    BY GuardLimitAssumption DEF IInv, TypeOK, Skip
  <1>2. UNCHANGED <<route, path, partial, data, owner, calls, result, gave, answer>>
    BY DEF Skip, context, history
  <1>3. TypeOK'
    <2>1. at' \in Stages
      BY <1>1, GuardLimitAssumption
    <2> HIDE Numbering
    <2> QED
      BY <1>1, <1>2, <2>1 DEF IInv, TypeOK
  <1>4. ASSUME NEW n \in Stages, Wanted(n)
        PROVE  Behind(n)' <=> Behind(n)
    BY <1>1, <1>2, <1>4 DEF Skip, Behind, IInv, TypeOK
  <1>5. \A n \in Stages : Wanted(n)' <=> Wanted(n)
    BY <1>2 DEF Wanted
  <1>6. Where'
    BY <1>1, <1>2 DEF IInv, Where
  <1>7. CallsInv'
    BY <1>1, <1>2, <1>4, <1>5 DEF IInv, CallsInv, Reached
  <1>8. BehindInv'
    BY <1>2, <1>4, <1>5 DEF IInv, BehindInv
  <1>9. DataInv'
    <2>1. \A s \in Slots : s \in route.declared => Wanted(s)
      BY DEF Wanted
    <2>2. Slots \subseteq Stages
      BY GuardLimitAssumption
    <2> QED
      BY <1>2, <1>4, <2>1, <2>2 DEF IInv, DataInv, unvalidated
  <1>10. OwnerInv'
    BY <1>1, <1>2 DEF IInv, OwnerInv
  <1>11. AnswerInv'
    BY <1>1, <1>2, <1>5 DEF IInv, AnswerInv, AnswerExplained, succeeded
  <1> QED
    BY <1>3, <1>6, <1>7, <1>8, <1>9, <1>10, <1>11 DEF IInv

-----------------------------------------------------------------------------
(* A stage whose function returned at once, or whose promise has settled.  *)

Taken ==
  /\ phase \in {"running", "awaiting"}
  /\ Wanted(at) /\ at \notin partial
  /\ calls' = [calls EXCEPT ![at] = 1]
  /\ UNCHANGED <<route, partial>>

\* Both are called once.
LEMMA Takes == IInv /\ (Call \/ (Settled(at) /\ UNCHANGED partial)) => Taken
  <1> SUFFICES ASSUME IInv, Call \/ (Settled(at) /\ UNCHANGED partial) PROVE Taken
    OBVIOUS
  <1> USE Numbering
  <1>1. at \in Stages /\ at \in Nat /\ calls \in [Stages -> Nat]
    BY GuardLimitAssumption DEF IInv, TypeOK
  <1>2. CASE Call
    <2>1. phase = "running" /\ Wanted(at) /\ at \notin partial
      BY <1>2 DEF Call
    <2>2. calls[at] = 0
      BY <1>1, <2>1 DEF IInv, CallsInv, Reached, Behind
    <2> QED
      BY <1>1, <1>2, <2>1, <2>2 DEF Call, Taken
  <1>3. CASE Settled(at) /\ UNCHANGED partial
    <2>1. phase = "awaiting" /\ Wanted(at) /\ at \notin partial
      BY <1>3 DEF Settled, IInv, Where
    <2>2. calls[at] = 1
      BY <1>1, <2>1 DEF IInv, CallsInv, Reached
    <2> QED
      BY <1>1, <1>3, <2>1, <2>2 DEF Settled, Taken
  <1> QED
    BY <1>2, <1>3

\* What every stage that ends, well or badly, does to the stages behind.
LEMMA TakenBehind ==
  ASSUME IInv, Taken, (phase' = "running" /\ at' = at + 1) \/ (phase' # "running" /\ at' = at)
  PROVE  /\ \A n \in Stages : Wanted(n)' <=> Wanted(n)
         /\ CallsInv'
         /\ \A n \in Stages : n # at => (Behind(n)' <=> Behind(n))
         /\ phase' # "running" => ~Behind(at)'
         /\ phase' # "running" => Wanted(at)' /\ at' \notin partial'
  <1> USE Numbering
  <1>1. at \in Stages /\ at \in Nat /\ calls \in [Stages -> Nat] /\ \A n \in Stages : n \in Nat
    <2>1. at \in Stages /\ calls \in [Stages -> Nat]
      BY DEF IInv, TypeOK
    <2>2. \A n \in Stages : n \in Nat
      BY GuardLimitAssumption
    <2> QED
      BY <2>1, <2>2
  <1>2. \A n : Wanted(n)' <=> Wanted(n)
    BY DEF Wanted, Taken
  <1>3. \A n \in Stages : n # at => (Behind(n)' <=> Behind(n))
    BY <1>1 DEF Behind, Taken
  <1>4. \A n \in Stages : n # at => (Reached(n)' <=> Reached(n))
    BY <1>1, <1>3 DEF Reached, Behind, Taken
  <1>5. ASSUME NEW n \in Stages
        PROVE  calls'[n] = IF Wanted(n)' /\ Reached(n)' THEN 1 ELSE 0
    <2>1. CASE n = at
      BY <1>1, <1>2, <2>1 DEF Taken, Reached, Behind
    <2>2. CASE n # at
      BY <1>1, <1>2, <1>4, <2>2 DEF Taken, IInv, CallsInv
    <2> QED
      BY <2>1, <2>2
  <1>6. phase' # "running" => ~Behind(at)'
    BY <1>1 DEF Behind, Taken
  <1> QED
    BY <1>1, <1>2, <1>3, <1>5, <1>6 DEF CallsInv, Taken

\* A validator that has come to an end.
LEMMA ValidatedInv ==
  ASSUME IInv, Taken, at \in Slots, NEW r \in ValidatorResults, Validated(r)
  PROVE  IInv'
  <1>1. at \in Stages /\ at \in Nat /\ at \notin Guards /\ at # handler /\ at + 1 \in Stages
    BY Numbering, GuardLimitAssumption
  <1>2. (phase' = "running" /\ at' = at + 1) \/ (phase' # "running" /\ at' = at)
    BY DEF Validated, Throw, Answer
  <1>3. UNCHANGED <<route, partial, path, owner, gave>> /\ result' = [result EXCEPT ![at] = r]
    BY DEF Taken, Validated
  <1>4. IF r \in Outputs
          THEN data' = [data EXCEPT ![at] = r] /\ at' = at + 1 /\ phase' = "running" /\ UNCHANGED answer
          ELSE /\ UNCHANGED <<data, at>>
               /\ \/ r = "throws" /\ phase' = "policy" /\ UNCHANGED answer
                  \/ r = "issues" /\ phase' = "answered" /\ answer' = "refused"
    BY DEF Validated, Throw, Answer, ValidatorResults
  <1>5. TypeOK'
    <2>1. data' \in [Slots -> Values] /\ result' \in [Stages -> ValidatorResults \cup {"none", "response", "enrichment", "malformed"}]
      BY <1>1, <1>3, <1>4 DEF IInv, TypeOK, Values
    <2>2. calls' \in [Stages -> Nat]
      BY <1>1 DEF Taken, IInv, TypeOK
    <2> QED
      BY <1>1, <1>3, <1>4, <2>1, <2>2 DEF IInv, TypeOK
  <1>6. /\ \A n \in Stages : Wanted(n)' <=> Wanted(n)
        /\ CallsInv'
        /\ \A n \in Stages : n # at => (Behind(n)' <=> Behind(n))
        /\ phase' # "running" => ~Behind(at)'
        /\ phase' # "running" => Wanted(at)' /\ at' \notin partial'
    BY <1>2, TakenBehind
  <1>7. Where'
    BY <1>3, <1>6 DEF Where, IInv
  <1>8. BehindInv'
    <2> SUFFICES ASSUME NEW n \in Stages, Wanted(n)', Behind(n)'
                 PROVE  /\ n \in Slots => result'[n] \in Outputs
                        /\ n \in Guards => result'[n] = "enrichment"
      BY DEF BehindInv
    <2>1. CASE n = at
      BY <1>1, <1>3, <1>4, <1>6, <2>1 DEF IInv, TypeOK
    <2>2. CASE n # at
      BY <1>3, <1>6, <2>2 DEF IInv, TypeOK, BehindInv
    <2> QED
      BY <2>1, <2>2
  <1>9. DataInv'
    <2> SUFFICES ASSUME NEW s \in Slots
                 PROVE  data'[s] = IF s \in route.declared /\ Behind(s)' THEN result'[s] ELSE unvalidated[s]
      BY <1>3 DEF DataInv, unvalidated
    <2>1. s \in Stages
      BY Numbering, GuardLimitAssumption
    <2>2. CASE s = at /\ r \in Outputs
      <3>1. s \in route.declared
        BY <1>1, <2>2 DEF Taken, Wanted
      <3>2. Behind(s)'
        BY <1>1, <1>4, <2>2 DEF Behind
      <3> QED
        BY <1>1, <1>3, <1>4, <2>2, <3>1, <3>2 DEF IInv, TypeOK
    <2>3. CASE s = at /\ r \notin Outputs
      <3>1. ~Behind(s)' /\ ~Behind(s)
        BY <1>1, <1>4, <1>6, <2>3 DEF Behind, Taken
      <3> QED
        BY <1>4, <2>3, <3>1 DEF IInv, DataInv
    <2>4. CASE s # at
      BY <1>3, <1>4, <1>6, <2>1, <2>4 DEF IInv, DataInv, TypeOK
    <2> QED
      BY <2>2, <2>3, <2>4
  <1>10. OwnerInv'
    BY <1>1, <1>3, <1>4, Numbering, GuardLimitAssumption DEF IInv, OwnerInv, Taken
  <1>11. AnswerInv'
    <2>1. answer = "none"
      BY DEF IInv, AnswerInv, AnswerExplained, Taken
    <2>2. CASE r \in Outputs
      BY <1>4, <2>1, <2>2 DEF AnswerInv, AnswerExplained
    <2>3. CASE r = "throws"
      BY <1>1, <1>3, <1>4, <2>1, <2>3 DEF AnswerInv, AnswerExplained, IInv, TypeOK, Outputs
    <2>4. CASE r = "issues"
      <3>1. calls'[handler] = 0
        <4>1. ~Reached(handler)' /\ handler \in Stages
          BY <1>1, <1>3, <1>4, <2>4, Numbering, GuardLimitAssumption DEF Reached, Behind, Outputs, IInv, TypeOK
        <4> QED
          BY <1>6, <4>1 DEF CallsInv
      <3>2. result'[at'] = "issues" /\ at' \in Slots
        BY <1>1, <1>3, <1>4, <2>4 DEF Outputs, IInv, TypeOK
      <3> QED
        BY <1>4, <2>4, <3>1, <3>2 DEF AnswerInv, AnswerExplained, Outputs
    <2> QED
      BY <2>2, <2>3, <2>4 DEF ValidatorResults
  <1> QED
    BY <1>5, <1>6, <1>7, <1>8, <1>9, <1>10, <1>11 DEF IInv

\* A guard that has come to an end.
LEMMA ConsumeInv ==
  ASSUME IInv, Taken, at \in Guards, NEW r \in GuardResults, Consume(r)
  PROVE  IInv'
  <1>1. at \in Stages /\ at \in Nat /\ at \notin Slots /\ at # handler /\ at + 1 \in Stages
    BY Numbering, GuardLimitAssumption
  <1>2. UNCHANGED <<route, partial, path, data>> /\ result' = [result EXCEPT ![at] = r.kind]
    BY DEF Taken, Consume
  <1>3. /\ r.kind \in {"enrichment", "response", "malformed", "throws"} /\ r.keys \in SUBSET ContextKeys
        /\ gave' = [gave EXCEPT ![at] = r.keys]
    BY DEF GuardResults, Enrichments, Consume
  <1>4. \/ /\ r.kind = "enrichment" /\ phase' = "running" /\ at' = at + 1 /\ UNCHANGED answer
           /\ reserved \notin r.keys /\ \A k \in r.keys : owner[k] = 0
           /\ owner' = [k \in ContextKeys |-> IF k \in r.keys THEN at ELSE owner[k]]
        \/ /\ r.kind = "response" /\ phase' = "answered" /\ answer' = "guard" /\ UNCHANGED <<at, owner>>
        \/ /\ r.kind \in {"enrichment", "malformed", "throws"}
           /\ phase' = "policy" /\ UNCHANGED <<answer, at, owner>>
    BY <1>3 DEF Consume, Enrich, Throw, Answer
  <1>5. TypeOK'
    <2>1. result' \in [Stages -> ValidatorResults \cup {"none", "response", "enrichment", "malformed"}]
      BY <1>1, <1>2, <1>3 DEF IInv, TypeOK, ValidatorResults
    <2>2. calls' \in [Stages -> Nat]
      BY <1>1 DEF Taken, IInv, TypeOK
    <2>3. gave' \in [Guards -> SUBSET ContextKeys] /\ owner' \in [ContextKeys -> Guards \cup {0}]
      BY <1>3, <1>4 DEF IInv, TypeOK
    <2> QED
      BY <1>1, <1>2, <1>4, <2>1, <2>2, <2>3 DEF IInv, TypeOK
  <1>6. /\ \A n \in Stages : Wanted(n)' <=> Wanted(n)
        /\ CallsInv'
        /\ \A n \in Stages : n # at => (Behind(n)' <=> Behind(n))
        /\ phase' # "running" => ~Behind(at)'
        /\ phase' # "running" => Wanted(at)' /\ at' \notin partial'
    <2>1. (phase' = "running" /\ at' = at + 1) \/ (phase' # "running" /\ at' = at)
      BY <1>4
    <2> QED
      BY <2>1, TakenBehind
  <1>7. Where'
    BY <1>2, <1>6 DEF Where, IInv
  <1>8. BehindInv'
    <2> SUFFICES ASSUME NEW n \in Stages, Wanted(n)', Behind(n)'
                 PROVE  /\ n \in Slots => result'[n] \in Outputs
                        /\ n \in Guards => result'[n] = "enrichment"
      BY DEF BehindInv
    <2>1. CASE n = at
      BY <1>1, <1>2, <1>4, <1>6, <2>1 DEF IInv, TypeOK
    <2>2. CASE n # at
      BY <1>2, <1>6, <2>2 DEF IInv, TypeOK, BehindInv
    <2> QED
      BY <2>1, <2>2
  <1>9. DataInv'
    <2>1. \A s \in Slots : s # at /\ s \in Stages
      BY <1>1, Numbering, GuardLimitAssumption
    <2> QED
      BY <1>2, <1>6, <2>1 DEF IInv, DataInv, TypeOK, unvalidated
  <1>10. OwnerInv'
    <2> SUFFICES ASSUME phase' = "running"
                 PROVE  OwnerInv'
      BY <1>4 DEF OwnerInv
    <2>1. /\ owner[reserved] = 0
          /\ \A k \in ContextKeys, g \in Guards : k \in gave[g] <=> owner[k] = g
          /\ \A g \in Guards : g >= at => gave[g] = {}
      BY DEF IInv, OwnerInv, Taken
    <2>2. /\ at' = at + 1 /\ reserved \notin r.keys /\ \A k \in r.keys : owner[k] = 0
          /\ owner' = [k \in ContextKeys |-> IF k \in r.keys THEN at ELSE owner[k]]
      BY <1>4
    <2>3. owner'[reserved] = 0
      BY <2>1, <2>2 DEF ContextKeys
    <2>4. ASSUME NEW k \in ContextKeys, NEW g \in Guards
          PROVE  k \in gave'[g] <=> owner'[k] = g
      <3>1. CASE g = at
        <4>1. gave'[g] = r.keys
          BY <1>3, <3>1 DEF IInv, TypeOK
        <4>2. owner[k] # at
          BY <1>1, <2>1, <3>1
        <4> QED
          BY <2>2, <3>1, <4>1, <4>2
      <3>2. CASE g # at
        <4>1. gave'[g] = gave[g]
          BY <1>3, <3>2 DEF IInv, TypeOK
        <4>2. CASE k \in r.keys
          <5>1. owner[k] = 0 /\ 0 \notin Guards
            BY <2>2, <4>2, Numbering, GuardLimitAssumption
          <5> QED
            BY <2>1, <2>2, <3>2, <4>1, <4>2, <5>1
        <4>3. CASE k \notin r.keys
          BY <2>1, <2>2, <4>1, <4>3
        <4> QED
          BY <4>2, <4>3
      <3> QED
        BY <3>1, <3>2
    <2>5. ASSUME NEW g \in Guards, g >= at'
          PROVE  gave'[g] = {}
      <3>1. g # at /\ g >= at
        BY <1>1, <2>2, <2>5, Numbering, GuardLimitAssumption
      <3>2. gave'[g] = gave[g]
        BY <1>3, <3>1 DEF IInv, TypeOK
      <3> QED
        BY <2>1, <3>1, <3>2
    <2> QED
      BY <2>3, <2>4, <2>5 DEF OwnerInv
  <1>11. AnswerInv'
    <2>1. answer = "none"
      BY DEF IInv, AnswerInv, AnswerExplained, Taken
    <2>2. CASE r.kind = "response" /\ phase' = "answered" /\ answer' = "guard" /\ UNCHANGED at
      <3>1. calls'[handler] = 0
        <4>1. ~Reached(handler)' /\ handler \in Stages
          BY <1>1, <1>2, <2>2, Numbering, GuardLimitAssumption DEF Reached, Behind, IInv, TypeOK
        <4> QED
          BY <1>6, <4>1 DEF CallsInv
      <3>2. result'[at'] = "response" /\ at' \in Guards
        BY <1>1, <1>2, <2>2 DEF IInv, TypeOK
      <3> QED
        BY <2>2, <3>1, <3>2 DEF AnswerInv, AnswerExplained
    <2>3. CASE phase' = "running" /\ UNCHANGED answer
      BY <2>1, <2>3 DEF AnswerInv, AnswerExplained
    <2>4. CASE r.kind \in {"enrichment", "malformed", "throws"} /\ phase' = "policy" /\ UNCHANGED <<answer, at>>
      <3>1. result'[at'] \in {"throws", "malformed", "enrichment"}
        BY <1>1, <1>2, <2>4 DEF IInv, TypeOK
      <3> QED
        BY <2>1, <2>4, <3>1 DEF AnswerInv, AnswerExplained
    <2> QED
      BY <1>4, <2>2, <2>3, <2>4
  <1> QED
    BY <1>5, <1>6, <1>7, <1>8, <1>9, <1>10, <1>11 DEF IInv

\* The handler that has come to an end.
LEMMA HandledInv ==
  ASSUME IInv, Taken, at = handler, NEW r \in HandlerResults, Handled(r)
  PROVE  IInv'
  <1>1. at \in Stages /\ at \in Nat /\ at \notin Slots /\ at \notin Guards
    BY Numbering, GuardLimitAssumption
  <1>2. UNCHANGED <<route, partial, path, data, at, owner, gave>> /\ result' = [result EXCEPT ![at] = r]
    BY DEF Taken, Handled
  <1>3. \/ r = "response" /\ phase' = "answered" /\ answer' = "handler"
        \/ r \in {"malformed", "throws"} /\ phase' = "policy" /\ UNCHANGED answer
    BY DEF Handled, Answer, Throw, HandlerResults
  <1>4. TypeOK'
    <2>1. result' \in [Stages -> ValidatorResults \cup {"none", "response", "enrichment", "malformed"}]
      BY <1>1, <1>2, <1>3 DEF IInv, TypeOK, ValidatorResults
    <2>2. calls' \in [Stages -> Nat]
      BY <1>1 DEF Taken, IInv, TypeOK
    <2> QED
      BY <1>2, <1>3, <2>1, <2>2 DEF IInv, TypeOK
  <1>5. /\ \A n \in Stages : Wanted(n)' <=> Wanted(n)
        /\ CallsInv'
        /\ \A n \in Stages : n # at => (Behind(n)' <=> Behind(n))
        /\ ~Behind(at)'
        /\ Wanted(at)' /\ at' \notin partial'
    <2>1. phase' # "running" /\ at' = at
      BY <1>2, <1>3
    <2> QED
      BY <2>1, TakenBehind
  <1>6. Where'
    BY <1>2, <1>5 DEF Where, IInv
  <1>7. \A n \in Stages \ {at} : result'[n] = result[n]
    BY <1>2 DEF IInv, TypeOK
  <1>8. BehindInv'
    BY <1>1, <1>5, <1>7 DEF IInv, BehindInv
  <1>9. DataInv'
    <2>1. \A s \in Slots : s \in Stages \ {at}
      BY <1>1, Numbering, GuardLimitAssumption
    <2> QED
      BY <1>2, <1>5, <1>7, <2>1 DEF IInv, DataInv, unvalidated
  <1>10. OwnerInv'
    BY <1>3 DEF OwnerInv
  <1>11. AnswerInv'
    <2>1. answer = "none"
      BY DEF IInv, AnswerInv, AnswerExplained, Taken
    <2>2. CASE r = "response" /\ phase' = "answered" /\ answer' = "handler"
      <3>1. at' = handler /\ result'[handler] = "response"
        BY <1>1, <1>2, <2>2 DEF IInv, TypeOK
      <3>2. ASSUME NEW n \in Stages \ {handler}, Wanted(n)'
            PROVE  succeeded(n)'
        <4>1. Behind(n)' /\ (n \in Slots \/ n \in Guards)
          BY <3>1, Numbering, GuardLimitAssumption DEF Behind
        <4> QED
          BY <1>8, <3>2, <4>1 DEF BehindInv, succeeded
      <3> QED
        BY <2>2, <3>1, <3>2 DEF AnswerInv, AnswerExplained
    <2>3. CASE r \in {"malformed", "throws"} /\ phase' = "policy" /\ UNCHANGED answer
      <3>1. result'[at'] \in {"throws", "malformed", "enrichment"}
        BY <1>1, <1>2, <2>3 DEF IInv, TypeOK
      <3> QED
        BY <2>1, <2>3, <3>1 DEF AnswerInv, AnswerExplained
    <2> QED
      BY <1>3, <2>2, <2>3
  <1> QED
    BY <1>4, <1>5, <1>6, <1>8, <1>9, <1>10, <1>11 DEF IInv

-----------------------------------------------------------------------------
\* A function that returned a promise.
LEMMA CallLaterInv == IInv /\ CallLater => IInv'
  <1> SUFFICES ASSUME IInv, CallLater PROVE IInv'
    OBVIOUS
  <1>1. Taken
    BY Takes DEF CallLater
  <1>2. phase = "running" /\ phase' = "awaiting" /\ UNCHANGED <<route, partial, path, at, data, owner, result, gave, answer>>
    BY <1>1 DEF CallLater, Call, Taken
  <1>3. at \in Stages
    BY DEF IInv, TypeOK
  <1>4. TypeOK'
    <2>1. calls' \in [Stages -> Nat]
      BY <1>1, <1>3 DEF Taken, IInv, TypeOK
    <2> QED
      BY <1>2, <2>1 DEF IInv, TypeOK
  <1>5. \A n : (Behind(n)' <=> Behind(n)) /\ (Wanted(n)' <=> Wanted(n))
    BY <1>2 DEF Behind, Wanted
  <1>6. CallsInv' /\ Where'
    <2>1. (phase' # "running" /\ at' = at)
      BY <1>2
    <2> QED
      BY <1>1, <1>2, <2>1, TakenBehind DEF Where, IInv
  <1>7. BehindInv' /\ DataInv'
    BY <1>2, <1>5 DEF IInv, BehindInv, DataInv, unvalidated
  <1>8. OwnerInv'
    BY <1>2 DEF IInv, OwnerInv
  <1>9. AnswerInv'
    BY <1>2 DEF IInv, AnswerInv, AnswerExplained
  <1> QED
    BY <1>4, <1>6, <1>7, <1>8, <1>9 DEF IInv

\* An asynchronous validator of the synchronous copy: the walk starts again,
\* and the stages behind it are the ones in partialContext.
LEMMA HandOverInv == ASSUME IInv, NEW r \in ValidatorResults, HandOver(r) PROVE IInv'
  <1>1. at \in Slots /\ at \in Stages /\ at \in Nat /\ at # handler /\ headers = 1 /\ headers \in Stages
    BY Numbering, GuardLimitAssumption DEF HandOver
  <1>2. /\ phase = "awaiting" /\ phase' = "running" /\ path = "direct" /\ path' = "resumed"
        /\ r \in Outputs /\ result' = [result EXCEPT ![at] = r]
        /\ partial = {} /\ partial' = 1 .. at /\ at' = 1
        /\ UNCHANGED <<route, calls, owner, gave, answer>>
    BY <1>1 DEF HandOver, Settled, Completed, IInv, Where
  <1>3. Wanted(at) /\ at \in route.declared
    BY <1>1, <1>2, Numbering DEF IInv, Where, Wanted
  <1>4. \A n : Wanted(n)' <=> Wanted(n)
    BY <1>2 DEF Wanted
  <1>5. \A n \in Stages : n \in Nat \ {0}
    BY Numbering, GuardLimitAssumption
  <1>6. \A n \in Stages :
          /\ Behind(n)' <=> n <= at
          /\ Reached(n) <=> n <= at
          /\ Reached(n)' <=> n <= at
          /\ Behind(n) <=> n < at
    BY <1>1, <1>2, <1>5 DEF Behind, Reached
  <1>7. DataInv'
    <2> SUFFICES ASSUME NEW s \in Slots
                 PROVE  data'[s] = IF s \in route.declared /\ Behind(s)' THEN result'[s] ELSE unvalidated[s]
      BY <1>2 DEF DataInv, unvalidated
    <2>1. s \in Stages /\ s \in Nat /\ s >= 1
      BY Numbering, GuardLimitAssumption
    <2>2. data'[s] = IF s <= at THEN IF s = at THEN r ELSE data[s] ELSE unvalidated[s]
      BY <1>1, <1>2, <2>1 DEF HandOver, Resumed
    <2>3. s # at => result'[s] = result[s]
      BY <1>2, <2>1 DEF IInv, TypeOK
    <2>4. data[s] = IF s \in route.declared /\ s < at THEN result[s] ELSE unvalidated[s]
      BY <1>6, <2>1 DEF IInv, DataInv
    <2>5. result'[at] = r
      BY <1>1, <1>2 DEF IInv, TypeOK
    <2> QED
      BY <1>1, <1>3, <1>6, <2>1, <2>2, <2>3, <2>4, <2>5
  <1>8. TypeOK'
    <2>1. result' \in [Stages -> ValidatorResults \cup {"none", "response", "enrichment", "malformed"}]
      BY <1>1, <1>2 DEF IInv, TypeOK
    <2>2. partial' \in SUBSET Slots
      BY <1>1, <1>2, Numbering
    <2>3. data' \in [Slots -> Values]
      <3>1. unvalidated \in [Slots -> Values]
        BY DEF unvalidated, Values
      <3>2. data' = [s \in Slots |-> IF s \in partial' THEN IF s = at THEN r ELSE data[s] ELSE unvalidated[s]]
        BY DEF HandOver, Resumed
      <3> QED
        BY <1>2, <3>1, <3>2 DEF IInv, TypeOK, Values
    <2> QED
      BY <1>1, <1>2, <2>1, <2>2, <2>3 DEF IInv, TypeOK
  <1>9. Where'
    <2>1. \A m \in Slots : m \in Nat /\ m >= 1
      BY Numbering
    <2>2. \A s \in 1 .. at, m \in Slots : m < s => m \in 1 .. at
      BY <1>1, <2>1
    <2> QED
      BY <1>2, <2>2 DEF Where
  <1>10. CallsInv'
    BY <1>2, <1>4, <1>6 DEF IInv, CallsInv
  <1>11. BehindInv'
    <2> SUFFICES ASSUME NEW n \in Stages, Wanted(n)', Behind(n)'
                 PROVE  /\ n \in Slots => result'[n] \in Outputs
                        /\ n \in Guards => result'[n] = "enrichment"
      BY DEF BehindInv
    <2>1. CASE n = at
      BY <1>1, <1>2, <2>1, Numbering DEF IInv, TypeOK
    <2>2. CASE n # at
      BY <1>1, <1>2, <1>4, <1>5, <1>6, <2>2 DEF IInv, TypeOK, BehindInv
    <2> QED
      BY <2>1, <2>2
  <1>12. OwnerInv'
    <2>1. \A g \in Guards : g >= at
      BY <1>1, Numbering, GuardLimitAssumption
    <2> QED
      BY <1>2, <2>1 DEF IInv, OwnerInv
  <1>13. AnswerInv'
    BY <1>2 DEF IInv, AnswerInv, AnswerExplained
  <1> QED
    BY <1>7, <1>8, <1>9, <1>10, <1>11, <1>12, <1>13 DEF IInv

\* The error policy touches nothing but the phase and the answer.
LEMMA PolicyInv == IInv /\ PolicyStep => IInv'
  <1> SUFFICES ASSUME IInv, PolicyStep PROVE IInv'
    OBVIOUS
  <1>1. /\ phase \in {"policy", "policyAwaiting"}
        /\ UNCHANGED <<route, path, at, partial, data, owner, calls, result, gave>>
        /\ \/ phase' = "policyAwaiting" /\ UNCHANGED answer
           \/ phase' = "answered" /\ answer' \in {"policy", "redacted"}
    BY DEF PolicyStep, PolicyLater, PolicyNow, PolicySettles, Answer, PolicyAnswer, context, history
  <1>2. TypeOK'
    BY <1>1 DEF IInv, TypeOK
  <1>3. \A n :
          /\ Behind(n)' <=> Behind(n)
          /\ Reached(n)' <=> Reached(n)
          /\ Wanted(n)' <=> Wanted(n)
    BY <1>1 DEF Behind, Reached, Wanted
  <1>4. Where' /\ CallsInv' /\ BehindInv' /\ DataInv' /\ OwnerInv'
    BY <1>1, <1>3 DEF IInv, Where, CallsInv, BehindInv, DataInv, OwnerInv, unvalidated
  <1>5. AnswerInv'
    BY <1>1 DEF IInv, AnswerInv, AnswerExplained
  <1> QED
    BY <1>2, <1>4, <1>5 DEF IInv

-----------------------------------------------------------------------------
\* Every step of a request preserves the invariant, and so does no step.
LEMMA NextInv == IInv /\ [Next]_vars => IInv'
  <1> SUFFICES ASSUME IInv, [Next]_vars PROVE IInv'
    OBVIOUS
  <1>1. CASE Skip
    BY <1>1, SkipInv
  <1>2. CASE Validation
    <2>1. CASE ValidateLater
      BY <2>1, CallLaterInv DEF ValidateLater
    <2>2. ASSUME NEW r \in ValidatorResults, ValidateNow(r)
          PROVE  IInv'
      BY <2>2, Takes, ValidatedInv DEF ValidateNow
    <2>3. ASSUME NEW r \in ValidatorResults, ValidateSettles(r) \/ NoHandOver(r)
          PROVE  IInv'
      BY <2>3, Takes, ValidatedInv DEF ValidateSettles, NoHandOver
    <2>4. ASSUME NEW r \in ValidatorResults, HandOver(r)
          PROVE  IInv'
      BY <2>4, HandOverInv
    <2> QED
      BY <1>2, <2>1, <2>2, <2>3, <2>4 DEF Validation
  <1>3. CASE GuardStep
    <2>1. CASE GuardLater
      BY <2>1, CallLaterInv DEF GuardLater
    <2>2. ASSUME NEW r \in GuardResults, GuardNow(r) \/ GuardSettles(r)
          PROVE  IInv'
      BY <2>2, Takes, ConsumeInv DEF GuardNow, GuardSettles
    <2> QED
      BY <1>3, <2>1, <2>2 DEF GuardStep
  <1>4. CASE HandlerStep
    <2>1. CASE HandlerLater
      BY <2>1, CallLaterInv DEF HandlerLater
    <2>2. ASSUME NEW r \in HandlerResults, HandlerNow(r) \/ HandlerSettles(r)
          PROVE  IInv'
      BY <2>2, Takes, HandledInv DEF HandlerNow, HandlerSettles
    <2> QED
      BY <1>4, <2>1, <2>2 DEF HandlerStep
  <1>5. CASE PolicyStep
    BY <1>5, PolicyInv
  <1>6. CASE UNCHANGED vars
    <2>1. UNCHANGED <<route, path, phase, at, partial, data, owner, calls, result, gave, answer>>
      BY <1>6 DEF vars, context, history
    <2> QED
      BY <2>1 DEF IInv, TypeOK, Where, CallsInv, BehindInv, DataInv, OwnerInv, AnswerInv,
                  AnswerExplained, Behind, Reached, Wanted, unvalidated, succeeded
  <1> QED
    BY <1>1, <1>2, <1>3, <1>4, <1>5, <1>6 DEF Next

\* The inductive invariant of the pipeline holds in every reachable state.
THEOREM Inductive == Spec => []IInv
  BY InitInv, NextInv, PTL DEF Spec

\* Every variable of a request keeps its type.
THEOREM TypeCorrect == Spec => []TypeOK
  <1>1. IInv => TypeOK
    BY DEF IInv
  <1> QED
    BY <1>1, Inductive, PTL

\* Each declared stage is called once at most and after every declared stage
\* before it has succeeded, across the hand-over between the copies.
THEOREM InOrder == Spec => []OnceInOrder
  <1>1. IInv => OnceInOrder
    <2> SUFFICES ASSUME IInv, NEW n \in Stages
                 PROVE  /\ calls[n] <= 1
                        /\ calls[n] = 1 => Wanted(n) /\ \A m \in Stages : m < n /\ Wanted(m) => succeeded(m)
      BY DEF OnceInOrder
    <2>1. calls[n] = IF Wanted(n) /\ Reached(n) THEN 1 ELSE 0
      BY DEF IInv, CallsInv
    <2>2. ASSUME Reached(n), NEW m \in Stages, m < n, Wanted(m)
          PROVE  succeeded(m)
      <3>0. n \in Nat /\ m \in Nat /\ at \in Nat
        BY Numbering, GuardLimitAssumption DEF IInv, TypeOK
      <3>1. ASSUME n \in partial
            PROVE  Behind(m)
        <4>1. m \in Slots
          BY <2>2, <3>1, Numbering DEF IInv, TypeOK
        <4> QED
          BY <2>2, <3>1, <4>1 DEF Behind, IInv, Where
      <3>2. ASSUME n \notin partial
            PROVE  Behind(m)
        <4>1. n <= at
          BY <2>2, <3>2, <3>0 DEF Reached, Behind
        <4>2. m < at
          BY <2>2, <4>1, <3>0
        <4> QED
          BY <4>2 DEF Behind
      <3>3. m \in Slots \/ m \in Guards
        BY <2>2, Numbering, GuardLimitAssumption
      <3>4. Behind(m)
        BY <3>1, <3>2
      <3> QED
        BY <2>2, <3>3, <3>4 DEF IInv, BehindInv, succeeded
    <2> QED
      BY <2>1, <2>2
  <1> QED
    BY <1>1, Inductive, PTL

\* What guards and the handler are given is what the validators returned, and
\* the context of the handler is of the type computed for it (context.ts).
THEOREM Faithful == Spec => []ContextFaithful
  <1>1. ASSUME IInv, phase = "running", at > body PROVE \A s \in Slots : data[s] = DeclaredSlot(s)
    <2> SUFFICES ASSUME NEW s \in Slots PROVE data[s] = IF s \in route.declared THEN result[s] ELSE unvalidated[s]
      BY DEF DeclaredSlot
    <2>1. Behind(s)
      BY <1>1, Numbering, GuardLimitAssumption DEF Behind, IInv, TypeOK
    <2> QED
      BY <1>1, <2>1 DEF IInv, DataInv
  <1>2. ASSUME IInv, phase = "running", at = handler PROVE assembled = RouteContext
    <2>1. at > body
      BY <1>2, Numbering, GuardLimitAssumption
    <2>2. data \in [Slots -> Values] /\ owner \in [ContextKeys -> Guards \cup {0}] /\ gave \in [Guards -> SUBSET ContextKeys]
      BY <1>2 DEF IInv, TypeOK
    <2>3. data = [s \in Slots |-> DeclaredSlot(s)]
      BY <1>1, <1>2, <2>1, <2>2
    <2>4. 0 \notin Guards
      BY Numbering, GuardLimitAssumption
    <2>5. \A k \in ContextKeys, g \in Guards : k \in gave[g] <=> owner[k] = g
      BY <1>2 DEF IInv, OwnerInv
    <2>6. {k \in ContextKeys : owner[k] # 0} = MergeGuardOutputs
      BY <2>2, <2>4, <2>5 DEF MergeGuardOutputs
    <2> QED
      BY <2>3, <2>6 DEF assembled, RouteContext
  <1> QED
    BY <1>1, <1>2, Inductive, PTL DEF ContextFaithful

\* Each enrichment key has the one guard that produced it for its owner, and
\* no framework-owned key has any.
THEOREM Owned == Spec => []EnrichmentOwned
  <1>1. IInv => EnrichmentOwned
    BY DEF IInv, OwnerInv, EnrichmentOwned
  <1> QED
    BY <1>1, Inductive, PTL

\* No request reaches the handler's answer past a validator that refused it
\* or a guard that responded, and each answer is that of the deciding stage.
THEOREM Explained == Spec => []AnswerExplained
  <1>1. IInv => AnswerExplained
    BY DEF IInv, AnswerInv
  <1> QED
    BY <1>1, Inductive, PTL
=============================================================================
