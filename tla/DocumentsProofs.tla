--------------------------- MODULE DocumentsProofs ---------------------------
(***************************************************************************)
(* Proofs about prepareApp(), the OpenAPI document and the manifest.       *)
(*                                                                         *)
(* The argument has three parts.  Patterns: a request that two patterns    *)
(* match exhibits that patternsOverlap() holds of them, and conversely     *)
(* (SharedOverlap, OverlapShared).  Preparation: in every phase the table  *)
(* and the facts are a function of the declarations and the configuration, *)
(* and each check that a phase has behind it still holds (IInv); so the    *)
(* table of an accepted application is the rows of every mount, the        *)
(* earlier ones passed on by the two passes (Composition), from which what *)
(* is served, by whom and under which policies follows.  Documents: the    *)
(* document stands for one route a key and the manifest is made from the   *)
(* facts of the accepted application (DocIInv); its order is that of an    *)
(* injective key (SortedByKey).                                            *)
(***************************************************************************)
EXTENDS Documents, FiniteSetTheorems, TLAPS

-----------------------------------------------------------------------------
(* Patterns and the requests they match.                                   *)

\* What a well-formed path is made of.
LEMMA PatternType ==
  ASSUME NEW p \in Patterns
  PROVE  /\ Len(p) \in Nat \ {0} /\ DOMAIN p = 1 .. Len(p)
         /\ \A i \in 1 .. Len(p) : p[i] \in STRING
  BY DEF Patterns

\* Segments that a request can match both of.
Agree(x, y) == x = y \/ x \in Params \/ y \in Params

\* patternsOverlap() with the positions both patterns have spelt out.
LEMMA OverlapDef ==
  ASSUME NEW p \in Patterns, NEW q \in Patterns
  PROVE  patternsOverlap(p, q) <=>
           \/ \E i \in 1 .. Len(p) : /\ i <= Len(q) /\ (p[i] = star \/ q[i] = star)
                                     /\ \A j \in 1 .. i - 1 : Agree(p[j], q[j])
           \/ Len(p) = Len(q) /\ \A i \in 1 .. Len(p) : Agree(p[i], q[i])
<1> DEFINE m == Len(p)
           n == Len(q)
           both == 1 .. (IF m < n THEN m ELSE n)
<1>1. m \in Nat /\ n \in Nat
  BY PatternType
<1>2. \A i : i \in both <=> i \in 1 .. m /\ i <= n
  <2> HIDE DEF m, n
  <2> QED
    BY <1>1
<1>3. m = n => both = 1 .. m
  OBVIOUS
<1>4. patternsOverlap(p, q) <=>
        \/ \E i \in both : star \in {p[i], q[i]} /\ \A j \in 1 .. i - 1 : Agree(p[j], q[j])
        \/ m = n /\ \A i \in both : Agree(p[i], q[i])
  BY DEF patternsOverlap, Agree
<1> HIDE DEF both, m, n
<1>5. \A i : star \in {p[i], q[i]} <=> p[i] = star \/ q[i] = star
  OBVIOUS
<1>6. (\E i \in both : star \in {p[i], q[i]} /\ \A j \in 1 .. i - 1 : Agree(p[j], q[j])) <=>
        \E i \in 1 .. m : /\ i <= n /\ (p[i] = star \/ q[i] = star)
                          /\ \A j \in 1 .. i - 1 : Agree(p[j], q[j])
  BY <1>2, <1>5
<1> QED
  BY <1>3, <1>4, <1>6 DEF m, n

\* Every pattern overlaps itself, so patterns that do not are different.
LEMMA OverlapsItself == ASSUME NEW p \in Patterns PROVE patternsOverlap(p, p)
  BY OverlapDef DEF Agree

\* A request that two patterns match exhibits their overlap.
LEMMA SharedOverlap ==
  ASSUME NEW p \in Patterns, NEW q \in Patterns, WellFormed(p), WellFormed(q), Shared(p, q)
  PROVE  patternsOverlap(p, q)
<1>1. PICK c \in Requests : Matches(c, p) /\ Matches(c, q)
  BY DEF Shared
<1>2. c \in Patterns /\ Literal(c)
  BY RequestsAssumption
<1> DEFINE m == Len(p)
           n == Len(q)
           l == Len(c)
<1>3. m \in Nat \ {0} /\ n \in Nat \ {0} /\ l \in Nat \ {0}
  BY <1>2, PatternType
<1>4. /\ l = m \/ (p[m] = star /\ l >= m)
      /\ l = n \/ (q[n] = star /\ l >= n)
  BY <1>1 DEF Matches, Last
<1>5. /\ \A i \in 1 .. m : p[i] \in {c[i], star} \cup Params
      /\ \A i \in 1 .. n : q[i] \in {c[i], star} \cup Params
  BY <1>1, PatternType DEF Matches
<1>6. /\ \A i \in 1 .. m - 1 : p[i] # star
      /\ \A i \in 1 .. n - 1 : q[i] # star
  BY DEF WellFormed
<1> HIDE DEF m, n, l
<1>7. ASSUME NEW i \in 1 .. m, i <= n, p[i] # star, q[i] # star PROVE Agree(p[i], q[i])
  BY <1>3, <1>5, <1>7 DEF Agree
<1>8. ASSUME NEW i \in 1 .. m, i <= n PROVE \A j \in 1 .. i - 1 : Agree(p[j], q[j])
  <2> SUFFICES ASSUME NEW j \in 1 .. i - 1 PROVE Agree(p[j], q[j])
    OBVIOUS
  <2>1. j \in 1 .. m /\ j <= n /\ j \in 1 .. m - 1 /\ j \in 1 .. n - 1
    BY <1>3, <1>8
  <2> QED
    BY <1>6, <1>7, <2>1
<1>9. CASE \E i \in 1 .. m : i <= n /\ (p[i] = star \/ q[i] = star)
  BY <1>8, <1>9, OverlapDef DEF m, n
<1>10. CASE \A i \in 1 .. m : i <= n => p[i] # star /\ q[i] # star
  <2>1. m = n
    BY <1>3, <1>4, <1>10
  <2>2. \A i \in 1 .. m : Agree(p[i], q[i])
    BY <1>3, <1>7, <1>10, <2>1
  <2> QED
    BY <2>1, <2>2, OverlapDef DEF m, n
<1> QED
  BY <1>9, <1>10

\* The patterns that one application may have.
PatternsOf(c) ==
  Paths \cup c.files \cup c.hashed \cup c.dirs \cup c.spa \cup Range(c.openapi) \cup Range(c.health)

\* Conversely an overlap is one that a request exhibits.
LEMMA OverlapShared ==
  ASSUME NEW c \in Configs, NEW p \in PatternsOf(c), NEW q \in PatternsOf(c),
         p \in Patterns, q \in Patterns, WellFormed(p), WellFormed(q), patternsOverlap(p, q)
  PROVE  Shared(p, q)
<1>1. PICK s \in UNION {Range(r) : r \in Requests} : Filled(p, q, s) \in Requests
  <2>1. PICK s \in UNION {Range(r) : r \in Requests} : \A d \in Configs :
          \A a, b \in PatternsOf(d) : patternsOverlap(a, b) => Filled(a, b, s) \in Requests
    BY RequestsAssumption DEF PatternsOf
  <2> QED
    BY <2>1
<1> DEFINE f == Filled(p, q, s)
           m == Len(p)
           n == Len(q)
           l == IF m < n THEN n ELSE m
           plain(x) == x # star /\ x \notin Params
<1>2. m \in Nat \ {0} /\ n \in Nat \ {0} /\ DOMAIN p = 1 .. m /\ DOMAIN q = 1 .. n
  BY PatternType
<1>3. /\ \A i \in 1 .. m - 1 : p[i] # star
      /\ \A i \in 1 .. n - 1 : q[i] # star
  BY DEF WellFormed
<1>4. \/ \E i \in 1 .. m : /\ i <= n /\ (p[i] = star \/ q[i] = star)
                           /\ \A j \in 1 .. i - 1 : Agree(p[j], q[j])
      \/ m = n /\ \A i \in 1 .. m : Agree(p[i], q[i])
  BY OverlapDef
<1>5. l \in Nat /\ l >= m /\ l >= n /\ (l = m \/ l = n)
  BY <1>2
<1>6. /\ Len(f) = l
      /\ \A i \in 1 .. l : f[i] = IF i <= m /\ plain(p[i]) THEN p[i]
                               ELSE IF i <= n /\ plain(q[i]) THEN q[i] ELSE s
  BY <1>5 DEF Filled
<1> HIDE DEF f, m, n, l
<1>7. \A i \in 1 .. m : plain(p[i]) => f[i] = p[i]
  BY <1>2, <1>5, <1>6
<1>8. \A i \in 1 .. n : plain(q[i]) => f[i] = q[i]
  <2> SUFFICES ASSUME NEW i \in 1 .. n, plain(q[i]), i <= m, plain(p[i]) PROVE p[i] = q[i]
    BY <1>2, <1>5, <1>6
  <2>1. CASE \E k \in 1 .. m : /\ k <= n /\ (p[k] = star \/ q[k] = star)
                               /\ \A j \in 1 .. k - 1 : Agree(p[j], q[j])
    <3>1. PICK k \in 1 .. m : /\ k <= n /\ (p[k] = star \/ q[k] = star)
                              /\ \A j \in 1 .. k - 1 : Agree(p[j], q[j])
      BY <2>1
    <3>2. k = m \/ k = n
      BY <1>2, <1>3, <3>1
    <3>3. i \in 1 .. k - 1
      BY <1>2, <3>1, <3>2
    <3> QED
      BY <3>1, <3>3 DEF Agree
  <2>2. CASE m = n /\ \A k \in 1 .. m : Agree(p[k], q[k])
    BY <1>2, <2>2 DEF Agree
  <2> QED
    BY <1>4, <2>1, <2>2
\* The longer of the two is as long as the request, the other ends in a star.
<1>9. /\ l = m \/ (p[m] = star /\ l >= m)
      /\ l = n \/ (q[n] = star /\ l >= n)
  <2>1. CASE \E k \in 1 .. m : k <= n /\ (p[k] = star \/ q[k] = star)
    <3>1. PICK k \in 1 .. m : k <= n /\ (p[k] = star \/ q[k] = star)
      BY <2>1
    <3>2. CASE m < n
      BY <1>2, <1>3, <1>5, <3>1, <3>2
    <3>3. CASE n < m
      BY <1>2, <1>3, <1>5, <3>1, <3>3
    <3> QED
      BY <1>2, <1>5, <3>2, <3>3
  <2>2. CASE m = n
    BY <1>5, <2>2
  <2> QED
    BY <1>4, <2>1, <2>2
<1>10. Matches(f, p) /\ Matches(f, q)
  <2>1. /\ \A i \in DOMAIN p : p[i] \in {f[i], star} \cup Params
        /\ \A i \in DOMAIN q : q[i] \in {f[i], star} \cup Params
    BY <1>2, <1>7, <1>8
  <2>2. Last(p) = p[m] /\ Last(q) = q[n]
    BY DEF Last, m, n
  <2>3. Len(p) = m /\ Len(q) = n
    BY DEF m, n
  <2> QED
    BY <1>6, <1>9, <2>1, <2>2, <2>3 DEF Matches
<1> QED
  BY <1>1, <1>10 DEF Shared, f

-----------------------------------------------------------------------------
(* What the table and the facts are, phase by phase: a function of the     *)
(* declarations and of the configuration.                                  *)

rowsOf(p) == {compileMethodValue(p, c) : c \in claimed(p)}
factsOf(p) == {compileFact(p, c) : c \in claimed(p)}

apiRows == UNION {rowsOf(p) : p \in apiPaths}
apiFacts == UNION {factsOf(p) : p \in apiPaths}

Overlay(rows, more) == {r \in rows : \A s \in more : s.path # r.path} \cup more

native == Overlay(apiRows, assetRoutes)
secured == IF "secure" \in config.policies THEN {Wrapped(r, "secure") : r \in native} ELSE native
shared == IF "cors" \in config.policies THEN {Wrapped(r, "cors") : r \in secured} ELSE secured

openapiRows ==
  {Route(p, "GET", "openapi", "handler", When("logging") \o When("cors")) : p \in openapiPaths}
healthRows == {Route(p, "GET", "health", "handler", EndpointLayers) : p \in healthPaths}

withOpenApi == Overlay(shared, openapiRows)
withHealth == Overlay(withOpenApi, healthRows)
complete == Overlay(withHealth, shellRoutes)

endpointFacts(rows) == {Fact(r.path, r.method, r.owner, "function") : r \in rows}

\* The paths assembled so far.
assembled == {p \in apiPaths : \E r \in table : r.path = p}

Phases == {"declaring", "assembling", "assets", "securing", "sharing", "openapi", "health", "spa", "accepted", "refused"}

Typed ==
  /\ config \in Configs /\ phase \in Phases
  /\ \A d \in declared : d.owner \in Owners /\ d.path \in Paths /\ d.entry \in Entries
  /\ diagnostic # "" => phase = "refused"

TableShape ==
  /\ phase = "declaring" => table = {}
  /\ phase = "assembling" =>
       /\ \A r \in table : r.path \in apiPaths /\ r \in rowsOf(r.path)
       /\ \A p \in assembled : rowsOf(p) \subseteq table
  /\ phase = "assets" => table = apiRows
  /\ phase = "securing" => table = native
  /\ phase = "sharing" => table = secured
  /\ phase = "openapi" => table = shared
  /\ phase = "health" => table = withOpenApi
  /\ phase = "spa" => table = withHealth
  /\ phase = "accepted" => table = complete

FactsShape ==
  /\ phase = "declaring" => facts = EmptyBag
  /\ phase = "assembling" => facts \in [UNION {factsOf(p) : p \in assembled} -> {1}]
  /\ phase \in {"assets", "securing", "sharing", "openapi"} => facts \in [apiFacts -> {1}]
  /\ phase = "health" => facts \in [apiFacts \cup endpointFacts(openapiRows) -> {1}]
  /\ phase = "spa" =>
       facts \in [apiFacts \cup endpointFacts(openapiRows) \cup endpointFacts(healthRows) -> 1 .. 2]
  /\ accepted =>
       facts \in [apiFacts \cup endpointFacts(openapiRows) \cup endpointFacts(healthRows)
                    \cup endpointFacts(shellRoutes) -> 1 .. 2]

\* The checks that a phase has behind it, and what a refusal was about.
Checked ==
  /\ phase \notin {"declaring", "refused"} => ~Duplicate(declared)
  /\ phase = "assembling" => \A p \in assembled : assemblyError(p) = ""
  /\ phase \notin {"declaring", "assembling", "refused"} => \A p \in apiPaths : assemblyError(p) = ""
  /\ phase \notin {"declaring", "assembling", "assets", "refused"} => assetError = ""
  /\ phase \in {"openapi", "health", "spa", "accepted"} /\ "cors" \in config.policies =>
       \A r \in secured : r.value = "handler"
  /\ phase \in {"health", "spa", "accepted"} => openapiPaths \cap existingPaths = {}
  /\ phase \in {"spa", "accepted"} => healthPaths \cap existingPaths = {}
  /\ accepted => spaError = ""
  /\ diagnostic = "LUGAS_ASSET_002" => assetError = "LUGAS_ASSET_002"
  /\ diagnostic = "LUGAS_SPA_002" => assetError = "" /\ spaError = "LUGAS_SPA_002"

\* In every phase the table and the facts are those of the mounts so far.
IInv == Typed /\ TableShape /\ FactsShape /\ Checked
-----------------------------------------------------------------------------
\* The fields of a row.
LEMMA RouteFields ==
  ASSUME NEW p, NEW m, NEW o, NEW value, NEW layers
  PROVE  LET r == Route(p, m, o, value, layers)
         IN r.path = p /\ r.method = m /\ r.owner = o /\ r.value = value /\ r.layers = layers
  BY DEF Route

\* A compiled value belongs to the claim it was compiled from.
LEMMA CompiledFields ==
  ASSUME NEW p, NEW c
  PROVE  LET r == compileMethodValue(p, c)
         IN /\ r.path = p /\ r.method = c.method /\ r.owner = c.owner
            /\ c.kind \in {"lugas", "socket"} => r.value = "handler" /\ r.layers = LugasLayers
            /\ c.kind = "function" => r.value = "handler" /\ r.layers = When("logging")
            /\ c.kind \notin {"lugas", "socket", "function"} => r.value = c.kind /\ r.layers = <<>>
<1>1. CASE c.kind \in {"lugas", "socket"}
  BY <1>1 DEF compileMethodValue, Route
<1>2. CASE c.kind = "function"
  BY <1>2 DEF compileMethodValue, Route
<1>3. CASE c.kind \notin {"lugas", "socket", "function"}
  BY <1>3 DEF compileMethodValue, Route
<1> QED
  BY <1>1, <1>2, <1>3

LEMMA FactFields ==
  ASSUME NEW p, NEW m, NEW o, NEW kind
  PROVE  LET f == Fact(p, m, o, kind)
         IN /\ f.path = p /\ f.method = m /\ f.kind = kind
            /\ f.module = IF o \in Modules THEN o ELSE "null"
  BY DEF Fact

\* Rows are records of these fields.
RowShape(r) == r = Route(r.path, r.method, r.owner, r.value, r.layers)

LEMMA RouteShape ==
  ASSUME NEW p, NEW m, NEW o, NEW value, NEW layers PROVE RowShape(Route(p, m, o, value, layers))
  BY DEF RowShape, Route

LEMMA WrappedFields ==
  ASSUME NEW r, NEW layer, RowShape(r)
  PROVE  LET w == Wrapped(r, layer)
         IN /\ w.path = r.path /\ w.method = r.method /\ w.owner = r.owner /\ w.value = r.value
            /\ r.value = "handler" => w.layers = Append(r.layers, layer)
            /\ r.value # "handler" => w = r
            /\ RowShape(w)
  BY DEF Wrapped, RowShape, Route

-----------------------------------------------------------------------------
(* Only table, facts, phase and diagnostic change after the declarations.  *)

\* What is read off the declarations stays while they do.
LEMMA FrameDeclared ==
  ASSUME UNCHANGED <<config, declared>>
  PROVE  /\ UNCHANGED <<apiPaths, apiRows, apiFacts>>
         /\ \A p : UNCHANGED <<claimed(p), rowsOf(p), factsOf(p), assemblyError(p)>>
<1>1. UNCHANGED apiPaths /\ \A p : UNCHANGED claims(p)
  BY DEF apiPaths, claims
<1>2. \A p : UNCHANGED claimed(p)
  BY <1>1 DEF claimed
<1>3. \A p : UNCHANGED assemblyError(p)
  BY <1>1, <1>2 DEF assemblyError, Shadowed, anyClaims
<1>4. \A p, c : UNCHANGED compileMethodValue(p, c)
  BY DEF compileMethodValue, LugasLayers, When
<1>5. \A p : UNCHANGED rowsOf(p)
  BY <1>2, <1>4 DEF rowsOf
<1>6. \A p : UNCHANGED factsOf(p)
  BY <1>2 DEF factsOf, compileFact, Fact
<1>7. UNCHANGED <<apiRows, apiFacts>>
  BY <1>1, <1>5, <1>6 DEF apiRows, apiFacts
<1> QED
  BY <1>1, <1>2, <1>3, <1>5, <1>6, <1>7

\* What is read off the configuration, and the checks.
LEMMA FrameMounts ==
  ASSUME UNCHANGED <<config, declared>>
  PROVE  /\ UNCHANGED <<assetPaths, assetFiles, existingPaths, openapiPaths, healthPaths>>
         /\ UNCHANGED <<assetRoutes, openapiRows, healthRows, shellRoutes>>
         /\ UNCHANGED <<assetError, spaError>>
<1>1. UNCHANGED <<apiPaths, assetPaths, assetFiles, openapiPaths, healthPaths>>
  BY DEF apiPaths, assetPaths, assetFiles, openapiPaths, healthPaths
<1>2. UNCHANGED existingPaths
  BY <1>1 DEF existingPaths
<1>3. UNCHANGED <<assetRoutes, EndpointLayers, When("logging"), When("cors")>>
  BY DEF assetRoutes, EndpointLayers, When
<1>4. UNCHANGED <<openapiRows, healthRows, shellRoutes>>
  BY <1>1, <1>3 DEF openapiRows, healthRows, shellRoutes
<1>5. UNCHANGED <<AmbiguousAssets, AmbiguousNavigations>>
  BY <1>1 DEF AmbiguousAssets, AmbiguousNavigations, Clash
<1>6. UNCHANGED <<assetError, spaError>>
  BY <1>1, <1>5 DEF assetError, spaError
<1> QED
  BY <1>1, <1>2, <1>3, <1>4, <1>6

\* The table of every phase.
LEMMA FrameTable ==
  ASSUME UNCHANGED <<config, declared>>
  PROVE  UNCHANGED <<native, secured, shared, withOpenApi, withHealth, complete>>
<1> USE FrameDeclared, FrameMounts
<1>1. UNCHANGED native
  BY DEF native, Overlay
<1>2. UNCHANGED secured
  BY <1>1 DEF secured
<1>3. UNCHANGED shared
  BY <1>2 DEF shared
<1>4. UNCHANGED withOpenApi
  BY <1>3 DEF withOpenApi, Overlay
<1>5. UNCHANGED withHealth
  BY <1>4 DEF withHealth, Overlay
<1>6. UNCHANGED complete
  BY <1>5 DEF complete, Overlay
<1> QED
  BY <1>1, <1>2, <1>3, <1>4, <1>5, <1>6

-----------------------------------------------------------------------------
(* The facts are a bag; most of what is added to it was not there.         *)

\* Facts that are new are counted as they are added.
LEMMA BagAddNew ==
  ASSUME NEW A, NEW S, A \cap S = {}, NEW V, 1 \in V, V \subseteq Nat, NEW B \in [A -> V]
  PROVE  B (+) SetToBag(S) \in [A \cup S -> V]
<1>1. DOMAIN B = A /\ DOMAIN SetToBag(S) = S /\ \A x \in S : SetToBag(S)[x] = 1
  BY DEF SetToBag
<1>2. B (+) SetToBag(S) = [e \in A \cup S |-> (IF e \in A THEN B[e] ELSE 0) + (IF e \in S THEN SetToBag(S)[e] ELSE 0)]
  BY <1>1 DEF (+)
<1>3. \A e \in A \cup S : (IF e \in A THEN B[e] ELSE 0) + (IF e \in S THEN SetToBag(S)[e] ELSE 0) \in V
  <2> SUFFICES ASSUME NEW e \in A \cup S
               PROVE  (IF e \in A THEN B[e] ELSE 0) + (IF e \in S THEN SetToBag(S)[e] ELSE 0) \in V
    OBVIOUS
  <2>1. CASE e \in A
    <3>1. e \notin S /\ B[e] \in Nat /\ B[e] \in V
      BY <2>1
    <3> QED
      BY <2>1, <3>1
  <2>2. CASE e \in S
    <3>1. e \notin A /\ SetToBag(S)[e] = 1
      BY <1>1, <2>2
    <3> QED
      BY <2>2, <3>1
  <2> QED
    BY <2>1, <2>2
<1> QED
  BY <1>2, <1>3

\* Facts that may be there are counted twice at most.
LEMMA BagAddOnce ==
  ASSUME NEW A, NEW S, NEW B \in [A -> {1}]
  PROVE  B (+) SetToBag(S) \in [A \cup S -> 1 .. 2]
<1>1. DOMAIN B = A /\ DOMAIN SetToBag(S) = S /\ \A x \in S : SetToBag(S)[x] = 1
  BY DEF SetToBag
<1>2. B (+) SetToBag(S) = [e \in A \cup S |-> (IF e \in A THEN B[e] ELSE 0) + (IF e \in S THEN SetToBag(S)[e] ELSE 0)]
  BY <1>1 DEF (+)
<1>3. ASSUME NEW e \in A \cup S
      PROVE  (IF e \in A THEN B[e] ELSE 0) + (IF e \in S THEN SetToBag(S)[e] ELSE 0) \in 1 .. 2
  <2>1. (e \in A => B[e] = 1) /\ (e \in S => SetToBag(S)[e] = 1)
    BY <1>1
  <2>2. CASE e \in A /\ e \in S
    BY <2>1, <2>2
  <2>3. CASE e \in A /\ e \notin S
    BY <2>1, <2>3
  <2>4. CASE e \notin A /\ e \in S
    BY <2>1, <2>4
  <2> QED
    BY <1>3, <2>2, <2>3, <2>4
<1> QED
  BY <1>2, <1>3

\* The rows and the facts of a path are at that path.
LEMMA RowsAt ==
  ASSUME NEW p
  PROVE  /\ \A r \in rowsOf(p) : r.path = p /\ RowShape(r)
         /\ \A f \in factsOf(p) : f.path = p
         /\ claimed(p) # {} => rowsOf(p) # {}
<1>1. \A c : compileMethodValue(p, c).path = p
  BY CompiledFields
<1>2. \A c : RowShape(compileMethodValue(p, c))
  <2> SUFFICES ASSUME NEW c PROVE RowShape(compileMethodValue(p, c))
    OBVIOUS
  <2>1. CASE c.kind \in {"lugas", "socket"}
    BY <2>1, RouteShape DEF compileMethodValue
  <2>2. CASE c.kind = "function"
    BY <2>2, RouteShape DEF compileMethodValue
  <2>3. CASE c.kind \notin {"lugas", "socket", "function"}
    BY <2>3, RouteShape DEF compileMethodValue
  <2> QED
    BY <2>1, <2>2, <2>3
<1>3. \A c : compileFact(p, c).path = p
  BY FactFields DEF compileFact
<1> QED
  BY <1>1, <1>2, <1>3 DEF rowsOf, factsOf

\* Nothing is compiled at a path without a claim.
LEMMA ErrorFree == ASSUME NEW p, assemblyError(p) = "" PROVE rowsOf(p) # {}
<1>1. claimed(p) # {}
  BY DEF assemblyError
<1> QED
  BY <1>1, RowsAt

\* A mount adds facts of its own paths.
LEMMA EndpointFactsAt ==
  /\ \A f \in endpointFacts(openapiRows) : f.path \in openapiPaths
  /\ \A f \in endpointFacts(healthRows) : f.path \in healthPaths
  /\ \A f \in endpointFacts(shellRoutes) : f.path \in config.spa
  /\ \A f \in apiFacts : f.path \in apiPaths
<1>1. \A rows : \A f \in endpointFacts(rows) : \E r \in rows : f.path = r.path
  BY FactFields DEF endpointFacts
<1>2. \A r \in openapiRows : r.path \in openapiPaths
  BY RouteFields DEF openapiRows
<1>3. \A r \in healthRows : r.path \in healthPaths
  BY RouteFields DEF healthRows
<1>4. \A r \in shellRoutes : r.path \in config.spa
  BY RouteFields DEF shellRoutes
<1>5. \A f \in apiFacts : f.path \in apiPaths
  BY RowsAt DEF apiFacts
<1> QED
  BY <1>1, <1>2, <1>3, <1>4, <1>5

-----------------------------------------------------------------------------
(* The invariant is kept, action by action.                                *)

\* A navigation is no path of another mount.
LEMMA NavigationsApart ==
  ASSUME config \in Configs, spaError = ""
  PROVE  config.spa \cap (apiPaths \cup assetPaths \cup healthPaths \cup openapiPaths) = {}
<1>1. ~Clash(config.spa, apiPaths \cup assetPaths \cup healthPaths \cup openapiPaths)
  BY DEF spaError, AmbiguousNavigations
<1>2. \A p \in config.spa : patternsOverlap(p, p)
  BY ConfigsAssumption, OverlapsItself
<1> QED
  BY <1>1, <1>2 DEF Clash

LEMMA Initially == Init => IInv
  BY DEF Init, IInv, Typed, Phases, TableShape, FactsShape, Checked, accepted

\* A refusal records what it was about.
LEMMA RefuseStep ==
  ASSUME IInv, NEW code, Refuse(code),
         code = "LUGAS_ASSET_002" => assetError = code,
         code = "LUGAS_SPA_002" => assetError = "" /\ spaError = code
  PROVE  IInv'
<1> USE DEF Refuse
<1>1. Typed'
  BY DEF IInv, Typed, Phases
<1>2. TableShape' /\ FactsShape'
  BY DEF TableShape, FactsShape, accepted
<1>3. Checked'
  BY FrameMounts DEF Checked, accepted
<1> QED
  BY <1>1, <1>2, <1>3 DEF IInv

LEMMA DeclareStep ==
  ASSUME IInv, NEW o \in Owners, NEW p \in Paths, NEW e \in Entries, Declare(o, p, e) PROVE IInv'
<1> USE DEF Declare, IInv
<1>1. Typed'
  <2> DEFINE d == [owner |-> o, path |-> p, entry |-> e]
  <2>1. d.owner \in Owners /\ d.path \in Paths /\ d.entry \in Entries
    OBVIOUS
  <2>2. declared' = declared \cup {d} /\ UNCHANGED <<config, phase, diagnostic>>
    OBVIOUS
  <2> HIDE DEF d
  <2> QED
    BY <2>1, <2>2 DEF Typed
<1>2. TableShape' /\ FactsShape'
  BY DEF TableShape, FactsShape, accepted
<1>3. Checked'
  BY DEF Checked, accepted, Typed
<1> QED
  BY <1>1, <1>2, <1>3

LEMMA ComposeStep == ASSUME IInv, Compose PROVE IInv'
<1>1. CASE Duplicate(declared)
  BY <1>1, RefuseStep DEF Compose
<1>2. CASE ~Duplicate(declared)
  <2> USE <1>2 DEF Compose, Enter, IInv
  <2>1. Typed'
    BY DEF Typed, Phases
  <2>2. table' = {} /\ facts' = EmptyBag
    BY DEF TableShape, FactsShape
  <2>3. assembled' = {} /\ UNION {factsOf(p)' : p \in assembled'} = {}
    BY <2>2 DEF assembled
  <2>4. EmptyBag \in [{} -> {1}]
    BY DEF EmptyBag, SetToBag
  <2>5. TableShape'
    BY <2>2, <2>3 DEF TableShape
  <2>6. FactsShape'
    BY <2>2, <2>3, <2>4 DEF FactsShape, accepted
  <2>7. Checked'
    BY <2>3 DEF Checked, accepted, Typed
  <2> QED
    BY <2>1, <2>5, <2>6, <2>7
<1> QED
  BY <1>1, <1>2

LEMMA AssembleStep == ASSUME IInv, NEW p \in Paths, Assemble(p) PROVE IInv'
<1> USE DEF Assemble, IInv
<1>1. CASE assemblyError(p) # ""
  <2>1. assemblyError(p) \notin {"LUGAS_ASSET_002", "LUGAS_SPA_002"}
    BY DEF assemblyError
  <2> QED
    BY <1>1, <2>1, RefuseStep
<1>2. CASE assemblyError(p) = ""
  <2>1. /\ table' = table \cup rowsOf(p)
        /\ facts' = facts (+) SetToBag(factsOf(p))
        /\ UNCHANGED <<config, declared, phase, diagnostic>> /\ phase = "assembling"
    BY <1>2 DEF rowsOf, factsOf
  <2>2. \A r \in rowsOf(p) : r.path = p
    BY RowsAt
  <2>3. rowsOf(p) # {} /\ p \in apiPaths /\ p \notin assembled
    BY <1>2, ErrorFree DEF assembled
  <2>4. UNCHANGED apiPaths /\ \A q : UNCHANGED <<rowsOf(q), factsOf(q), assemblyError(q)>>
    BY <2>1, FrameDeclared
  <2>5. assembled' = assembled \cup {p}
    BY <2>1, <2>2, <2>3, <2>4 DEF assembled
  <2>6. Typed'
    BY <2>1 DEF Typed
  <2>7. TableShape'
    <3>1. \A r \in table' : r.path \in apiPaths' /\ r \in rowsOf(r.path)'
      BY <2>1, <2>2, <2>3, <2>4 DEF TableShape
    <3>2. \A q \in assembled' : rowsOf(q)' \subseteq table'
      BY <2>1, <2>4, <2>5 DEF TableShape
    <3> QED
      BY <2>1, <3>1, <3>2 DEF TableShape
  <2>8. FactsShape'
    <3> DEFINE A == UNION {factsOf(q) : q \in assembled}
    <3>1. facts \in [A -> {1}]
      BY <2>1 DEF FactsShape
    <3>2. A \cap factsOf(p) = {}
      <4> SUFFICES ASSUME NEW q \in assembled, NEW f \in factsOf(q), f \in factsOf(p) PROVE FALSE
        OBVIOUS
      <4>1. f.path = q /\ f.path = p
        BY RowsAt
      <4> QED
        BY <2>3, <4>1
    <3>3. facts' \in [A \cup factsOf(p) -> {1}]
      <4> DEFINE S == factsOf(p)
                 V == {1}
      <4>2. 1 \in V /\ V \subseteq Nat
        BY ONLY TRUE
      <4>3. A \cap S = {}
        BY <3>2
      <4>4. facts \in [A -> V]
        BY <3>1
      <4> HIDE DEF A, S, V
      <4>1. facts (+) SetToBag(S) \in [A \cup S -> V]
        BY ONLY <4>2, <4>3, <4>4, BagAddNew
      <4> USE DEF S, V
      <4> QED
        BY <2>1, <4>1
    <3>4. UNION {factsOf(q)' : q \in assembled'} = A \cup factsOf(p)
      <4>1. \A q : factsOf(q)' = factsOf(q)
        BY <2>4
      <4>2. {factsOf(q)' : q \in assembled'} = {factsOf(q) : q \in assembled'}
        BY ONLY <4>1, Zenon
      <4>3. UNION {factsOf(q) : q \in assembled \cup {p}} = A \cup factsOf(p)
        OBVIOUS
      <4> QED
        BY <2>5, <4>2, <4>3
    <3> QED
      BY <2>1, <3>3, <3>4 DEF FactsShape, accepted
  <2>9. Checked'
    <3>1. \A q \in assembled' : assemblyError(q)' = ""
      BY <1>2, <2>1, <2>4, <2>5 DEF Checked
    <3>2. ~Duplicate(declared)'
      BY <2>1 DEF Checked, Duplicate
    <3> QED
      BY <2>1, <3>1, <3>2, FrameMounts DEF Checked, accepted
  <2> QED
    BY <2>6, <2>7, <2>8, <2>9
<1> QED
  BY <1>1, <1>2

LEMMA AssembledStep == ASSUME IInv, Assembled PROVE IInv'
<1> USE DEF Assembled, Enter, IInv
<1>1. assembled = apiPaths
  BY DEF assembled
<1>2. table = apiRows
  <2>1. \A r \in table : r \in apiRows
    BY DEF TableShape, apiRows
  <2>2. \A r \in apiRows : r \in table
    BY <1>1 DEF TableShape, apiRows
  <2> QED
    BY <2>1, <2>2
<1>3. facts \in [apiFacts -> {1}]
  BY <1>1 DEF FactsShape, apiFacts
<1>4. Typed'
  BY DEF Typed, Phases
<1>5. TableShape' /\ FactsShape'
  BY <1>2, <1>3, FrameDeclared DEF TableShape, FactsShape, accepted
<1>6. Checked'
  BY <1>1, FrameDeclared, FrameMounts DEF Checked, accepted, Duplicate
<1> QED
  BY <1>4, <1>5, <1>6

LEMMA MountAssetsStep == ASSUME IInv, MountAssets PROVE IInv'
<1> USE DEF MountAssets, IInv
<1>1. CASE assetError # ""
  <2>1. assetError # "LUGAS_SPA_002"
    BY DEF assetError
  <2> QED
    BY <1>1, <2>1, RefuseStep
<1>2. CASE assetError = ""
  <2>1. table' = native
    BY <1>2 DEF native, Overlay, Overwrite, TableShape
  <2>2. phase = "assets" /\ phase' = "securing" /\ UNCHANGED <<config, declared, facts, diagnostic>>
    BY <1>2 DEF Enter
  <2>3. Typed'
    BY <2>2 DEF Typed, Phases
  <2>4. TableShape'
    BY <2>1, <2>2, FrameTable DEF TableShape
  <2>5. FactsShape'
    BY <2>2, FrameDeclared DEF FactsShape, accepted
  <2>6. Checked'
    BY <1>2, <2>2, FrameDeclared, FrameMounts DEF Checked, accepted, Duplicate
  <2> QED
    BY <2>3, <2>4, <2>5, <2>6
<1> QED
  BY <1>1, <1>2

LEMMA SecureStep == ASSUME IInv, Secure PROVE IInv'
<1> USE DEF Secure, IInv, Enter
<1>1. table' = secured
  BY DEF secured, TableShape
<1>2. phase = "securing" /\ phase' = "sharing" /\ UNCHANGED <<config, declared, facts, diagnostic>>
  OBVIOUS
<1>3. Typed'
  BY <1>2 DEF Typed, Phases
<1>4. TableShape'
  BY <1>1, <1>2, FrameTable DEF TableShape
<1>5. FactsShape'
  BY <1>2, FrameDeclared DEF FactsShape, accepted
<1>6. Checked'
  BY <1>2, FrameDeclared, FrameMounts DEF Checked, accepted, Duplicate
<1> QED
  BY <1>3, <1>4, <1>5, <1>6

LEMMA ShareStep == ASSUME IInv, Share PROVE IInv'
<1> USE DEF Share, IInv
<1>1. phase = "sharing" /\ table = secured
  BY DEF TableShape
<1>2. CASE "cors" \in config.policies /\ \E r \in table : r.value # "handler"
  BY <1>2, RefuseStep
<1>3. CASE ~("cors" \in config.policies /\ \E r \in table : r.value # "handler")
  <2>1. table' = shared
    BY <1>1, <1>3 DEF shared
  <2>2. phase' = "openapi" /\ UNCHANGED <<config, declared, facts, diagnostic>>
    BY <1>3 DEF Enter
  <2>3. Typed'
    BY <1>1, <2>2 DEF Typed, Phases
  <2>4. TableShape'
    BY <2>1, <2>2, FrameTable DEF TableShape
  <2>5. FactsShape'
    BY <1>1, <2>2, FrameDeclared DEF FactsShape, accepted
  <2>6. Checked'
    <3>1. "cors" \in config.policies => \A r \in secured : r.value = "handler"
      BY <1>1, <1>3
    <3> QED
      BY <1>1, <2>2, <3>1, FrameDeclared, FrameMounts, FrameTable DEF Checked, accepted, Duplicate
  <2> QED
    BY <2>3, <2>4, <2>5, <2>6
<1> QED
  BY <1>2, <1>3

\* What mounting an endpoint does to the facts.
LEMMA MountFacts ==
  ASSUME NEW rows, NEW next, MountRows(rows, next)
  PROVE  /\ table' = Overlay(table, rows) /\ facts' = facts (+) SetToBag(endpointFacts(rows))
         /\ phase' = next /\ UNCHANGED <<config, declared, diagnostic>>
  BY DEF MountRows, Overwrite, Overlay, endpointFacts, Enter

LEMMA MountOpenApiStep == ASSUME IInv, MountOpenApi PROVE IInv'
<1> USE DEF MountOpenApi, IInv
<1>1. CASE openapiPaths \cap existingPaths # {}
  BY <1>1, RefuseStep
<1>2. CASE openapiPaths \cap existingPaths = {}
  <2>1. phase = "openapi" /\ MountRows(openapiRows, "health")
    BY <1>2 DEF openapiRows
  <2>2. /\ table' = withOpenApi /\ facts' = facts (+) SetToBag(endpointFacts(openapiRows))
        /\ phase' = "health" /\ UNCHANGED <<config, declared, diagnostic>>
    BY <2>1, MountFacts DEF withOpenApi, TableShape
  <2>3. Typed'
    BY <2>1, <2>2 DEF Typed, Phases
  <2>4. TableShape'
    BY <2>2, FrameTable DEF TableShape
  <2>5. FactsShape'
    <3> DEFINE A == apiFacts
               S == endpointFacts(openapiRows)
               V == {1}
    <3>1. 1 \in V /\ V \subseteq Nat
      BY ONLY TRUE
    <3>2. facts \in [A -> V]
      BY <2>1 DEF FactsShape
    <3>3. A \cap S = {}
      BY <1>2, EndpointFactsAt DEF existingPaths
    <3> HIDE DEF A, S, V
    <3>4. facts (+) SetToBag(S) \in [A \cup S -> V]
      BY ONLY <3>1, <3>2, <3>3, BagAddNew
    <3>5. UNCHANGED <<A, S, V>>
      BY <2>2, FrameDeclared, FrameMounts DEF A, S, V, endpointFacts, Fact
    <3> QED
      BY <2>2, <3>4, <3>5 DEF FactsShape, accepted, A, S, V
  <2>6. Checked'
    BY <1>2, <2>1, <2>2, FrameDeclared, FrameMounts, FrameTable DEF Checked, accepted, Duplicate
  <2> QED
    BY <2>3, <2>4, <2>5, <2>6
<1> QED
  BY <1>1, <1>2

LEMMA MountHealthStep == ASSUME IInv, MountHealth PROVE IInv'
<1> USE DEF MountHealth, IInv
<1>1. CASE healthPaths \cap existingPaths # {}
  BY <1>1, RefuseStep
<1>2. CASE healthPaths \cap existingPaths = {}
  <2>1. phase = "health" /\ MountRows(healthRows, "spa")
    BY <1>2 DEF healthRows
  <2>2. /\ table' = withHealth /\ facts' = facts (+) SetToBag(endpointFacts(healthRows))
        /\ phase' = "spa" /\ UNCHANGED <<config, declared, diagnostic>>
    BY <2>1, MountFacts DEF withHealth, TableShape
  <2>3. Typed'
    BY <2>1, <2>2 DEF Typed, Phases
  <2>4. TableShape'
    BY <2>2, FrameTable DEF TableShape
  <2>5. FactsShape'
    <3> DEFINE A == apiFacts \cup endpointFacts(openapiRows)
               S == endpointFacts(healthRows)
    <3>1. facts \in [A -> {1}]
      BY <2>1 DEF FactsShape
    <3> HIDE DEF A, S
    <3>2. facts (+) SetToBag(S) \in [A \cup S -> 1 .. 2]
      BY ONLY <3>1, BagAddOnce
    <3>3. UNCHANGED <<A, S>>
      BY <2>2, FrameDeclared, FrameMounts DEF A, S, endpointFacts, Fact
    <3> QED
      BY <2>2, <3>2, <3>3 DEF FactsShape, accepted, A, S
  <2>6. Checked'
    BY <1>2, <2>1, <2>2, FrameDeclared, FrameMounts, FrameTable DEF Checked, accepted, Duplicate
  <2> QED
    BY <2>3, <2>4, <2>5, <2>6
<1> QED
  BY <1>1, <1>2

LEMMA MountSpaStep == ASSUME IInv, MountSpa PROVE IInv'
<1> USE DEF MountSpa, IInv
<1>1. phase = "spa" /\ assetError = ""
  BY DEF Checked
<1>2. CASE spaError # ""
  <2>1. spaError # "LUGAS_ASSET_002"
    BY DEF spaError
  <2> QED
    BY <1>1, <1>2, <2>1, RefuseStep
<1>3. CASE spaError = ""
  <2>1. MountRows(shellRoutes, "accepted")
    BY <1>3
  <2>2. /\ table' = complete /\ facts' = facts (+) SetToBag(endpointFacts(shellRoutes))
        /\ phase' = "accepted" /\ UNCHANGED <<config, declared, diagnostic>>
    BY <1>1, <2>1, MountFacts DEF complete, TableShape
  <2>3. Typed'
    BY <1>1, <2>2 DEF Typed, Phases
  <2>4. TableShape'
    BY <2>2, FrameTable DEF TableShape
  <2>5. FactsShape'
    <3> DEFINE A == apiFacts \cup endpointFacts(openapiRows) \cup endpointFacts(healthRows)
               S == endpointFacts(shellRoutes)
               V == 1 .. 2
    <3>1. 1 \in V /\ V \subseteq Nat
      BY ONLY TRUE
    <3>2. facts \in [A -> V]
      BY <1>1 DEF FactsShape
    <3>3. A \cap S = {}
      BY <1>3, EndpointFactsAt, NavigationsApart DEF Typed
    <3> HIDE DEF A, S, V
    <3>4. facts (+) SetToBag(S) \in [A \cup S -> V]
      BY ONLY <3>1, <3>2, <3>3, BagAddNew
    <3>5. UNCHANGED <<A, S, V>>
      BY <2>2, FrameDeclared, FrameMounts DEF A, S, V, endpointFacts, Fact
    <3> QED
      BY <2>2, <3>4, <3>5 DEF FactsShape, accepted, A, S, V
  <2>6. Checked'
    BY <1>1, <1>3, <2>2, FrameDeclared, FrameMounts, FrameTable DEF Checked, accepted, Duplicate
  <2> QED
    BY <2>3, <2>4, <2>5, <2>6
<1> QED
  BY <1>2, <1>3

LEMMA Stuttering == ASSUME IInv, UNCHANGED vars PROVE IInv'
<1> USE DEF vars
<1>1. Typed'
  BY DEF IInv, Typed
<1>2. UNCHANGED assembled
  BY FrameDeclared DEF assembled
<1>3. TableShape'
  BY <1>2, FrameDeclared, FrameTable DEF IInv, TableShape
<1>4. FactsShape'
  <2>1. \A rows : endpointFacts(rows) = {Fact(r.path, r.method, r.owner, "function") : r \in rows}
    BY DEF endpointFacts
  <2>2. UNCHANGED <<endpointFacts(openapiRows), endpointFacts(healthRows), endpointFacts(shellRoutes)>>
    BY FrameMounts DEF endpointFacts, Fact
  <2>3. UNCHANGED (UNION {factsOf(p) : p \in assembled})
    BY <1>2, FrameDeclared
  <2> QED
    BY <2>2, <2>3, FrameDeclared DEF IInv, FactsShape, accepted
<1>5. Checked'
  BY <1>2, FrameDeclared, FrameMounts, FrameTable DEF IInv, Checked, accepted, Duplicate
<1> QED
  BY <1>1, <1>3, <1>4, <1>5 DEF IInv

LEMMA Step == ASSUME IInv, [Next]_vars PROVE IInv'
  BY DeclareStep, ComposeStep, AssembleStep, AssembledStep, MountAssetsStep, SecureStep, ShareStep,
     MountOpenApiStep, MountHealthStep, MountSpaStep, Stuttering DEF Next

\* Preparation never leaves its invariant, whatever is declared, configured and
\* refused (prepareApp).
THEOREM Inductive == Spec => []IInv
  BY Initially, Step, PTL DEF Spec

-----------------------------------------------------------------------------
(* The table of an accepted application.                                   *)

\* What the two passes make of a row.
Passed(r) ==
  LET s == IF "secure" \in config.policies THEN Wrapped(r, "secure") ELSE r
  IN IF "cors" \in config.policies THEN Wrapped(s, "cors") ELSE s

Same(r, s) == r.path = s.path /\ r.method = s.method /\ r.owner = s.owner /\ r.value = s.value

\* The passes change the layers of handlers and nothing else.
LEMMA PassedFields ==
  ASSUME NEW r, RowShape(r)
  PROVE  /\ Same(Passed(r), r) /\ RowShape(Passed(r))
         /\ r.value # "handler" => Passed(r) = r
<1> DEFINE s == IF "secure" \in config.policies THEN Wrapped(r, "secure") ELSE r
<1>1. Same(s, r) /\ RowShape(s) /\ (r.value # "handler" => s = r)
  BY WrappedFields DEF Same
<1>2. Passed(r) = IF "cors" \in config.policies THEN Wrapped(s, "cors") ELSE s
  BY DEF Passed
<1> HIDE DEF s
<1> QED
  BY <1>1, <1>2, WrappedFields DEF Same

LEMMA SharedIs == shared = {Passed(r) : r \in native}
<1>1. secured = {IF "secure" \in config.policies THEN Wrapped(r, "secure") ELSE r : r \in native}
  BY DEF secured
<1> QED
  BY <1>1 DEF shared, Passed

\* Where the rows are that are mounted.
LEMMA RowPaths ==
  /\ \A r \in apiRows : r.path \in apiPaths /\ r \in rowsOf(r.path) /\ RowShape(r)
  /\ \A r \in assetRoutes : r.path \in assetPaths /\ RowShape(r) /\ r.owner = "asset"
  /\ \A r \in openapiRows : r.path \in openapiPaths /\ RowShape(r) /\ r.owner = "openapi" /\ r.method = "GET"
  /\ \A r \in healthRows : r.path \in healthPaths /\ RowShape(r) /\ r.owner = "health" /\ r.method = "GET"
  /\ \A r \in shellRoutes : r.path \in config.spa /\ RowShape(r) /\ r.owner = "spa"
<1>1. \A r \in apiRows : r.path \in apiPaths /\ r \in rowsOf(r.path) /\ RowShape(r)
  BY RowsAt DEF apiRows
<1>2. \A r \in assetRoutes : r.path \in assetPaths /\ RowShape(r) /\ r.owner = "asset"
  BY RouteFields, RouteShape DEF assetRoutes, assetPaths, assetFiles
<1>3. \A r \in openapiRows : r.path \in openapiPaths /\ RowShape(r) /\ r.owner = "openapi" /\ r.method = "GET"
  BY RouteFields, RouteShape DEF openapiRows
<1>4. \A r \in healthRows : r.path \in healthPaths /\ RowShape(r) /\ r.owner = "health" /\ r.method = "GET"
  BY RouteFields, RouteShape DEF healthRows
<1>5. \A r \in shellRoutes : r.path \in config.spa /\ RowShape(r) /\ r.owner = "spa"
  BY RouteFields, RouteShape DEF shellRoutes
<1> QED
  BY <1>1, <1>2, <1>3, <1>4, <1>5

\* The checks an accepted application has passed.
LEMMA Passing ==
  ASSUME IInv, accepted
  PROVE  /\ config \in Configs /\ ~Duplicate(declared) /\ \A p \in apiPaths : assemblyError(p) = ""
         /\ assetError = "" /\ spaError = "" /\ table = complete
         /\ openapiPaths \cap existingPaths = {} /\ healthPaths \cap existingPaths = {}
  BY DEF IInv, Typed, TableShape, Checked, accepted

\* Positions of a pattern.
LEMMA Inner ==
  ASSUME NEW p \in Patterns
  PROVE  Len(p) \in DOMAIN p /\ \A i \in 1 .. Len(p) - 1 : i \in 1 .. Len(p)
<1> DEFINE n == Len(p)
<1>1. n \in Nat \ {0} /\ DOMAIN p = 1 .. n
  BY PatternType
<1> HIDE DEF n
<1>2. n \in 1 .. n /\ \A i \in 1 .. n - 1 : i \in 1 .. n
  BY <1>1
<1> QED
  BY <1>1, <1>2 DEF n

\* The framework's endpoints are literal up to parameters.
LEMMA Starless ==
  ASSUME config \in Configs
  PROVE  \A p \in openapiPaths \cup healthPaths : p \in Patterns /\ WellFormed(p) /\ star \notin Range(p)
<1>1. \A p \in openapiPaths \cup healthPaths : p \in Patterns /\ star \notin Range(p)
  BY ConfigsAssumption DEF openapiPaths, healthPaths, Range
<1>2. ASSUME NEW p \in Patterns, star \notin Range(p) PROVE WellFormed(p)
  <2>1. \A i \in 1 .. Len(p) : p[i] # star
    BY <1>2, PatternType DEF Range
  <2> QED
    BY <2>1, Inner DEF WellFormed
<1> QED
  BY <1>1, <1>2

\* Mappings are literal and mounts end in a wildcard.
LEMMA AssetPatterns ==
  ASSUME config \in Configs, assetPaths = {} \/ assetError \in {"", "LUGAS_ASSET_002"}
  PROVE  /\ \A p \in assetPaths : p \in Patterns /\ WellFormed(p)
         /\ \A p \in config.dirs : star \in Range(p)
         /\ \A p \in assetFiles : star \notin Range(p)
<1>1. \A p \in assetPaths : p \in Patterns
  BY ConfigsAssumption DEF assetPaths, assetFiles
<1>2. /\ \A p \in assetFiles : Literal(p)
      /\ \A p \in config.dirs : Prefix(p)
  BY DEF assetError, assetPaths
<1>3. ASSUME NEW p \in Patterns, Literal(p) PROVE WellFormed(p) /\ star \notin Range(p)
  <2>1. \A i \in 1 .. Len(p) : p[i] # star
    BY <1>3, PatternType DEF Literal
  <2>2. star \notin Range(p)
    BY <2>1, PatternType DEF Range
  <2> QED
    BY <2>1, <2>2, Inner DEF WellFormed
<1>4. ASSUME NEW p \in Patterns, Prefix(p) PROVE WellFormed(p) /\ star \in Range(p)
  <2>1. p[Len(p)] = star /\ WellFormed(p)
    BY <1>4 DEF Prefix, Last
  <2>2. Len(p) \in DOMAIN p
    BY Inner
  <2> QED
    BY <2>1, <2>2 DEF Range
<1> QED
  BY <1>1, <1>2, <1>3, <1>4 DEF assetPaths

\* Nothing mounted meets what was there before, but a health endpoint that
\* takes the place of an OpenAPI endpoint.
LEMMA Apart ==
  ASSUME IInv, accepted
  PROVE  /\ assetPaths \cap apiPaths = {}
         /\ (openapiPaths \cup healthPaths) \cap (apiPaths \cup assetPaths) = {}
         /\ config.spa \cap (apiPaths \cup assetPaths \cup healthPaths \cup openapiPaths) = {}
<1> USE Passing
<1>1. assetPaths \cap apiPaths = {}
  <2>1. \A p \in assetPaths : patternsOverlap(p, p)
    BY AssetPatterns, OverlapsItself
  <2>2. ~Clash(assetPaths, apiPaths)
    BY DEF assetError, AmbiguousAssets
  <2> QED
    BY <2>1, <2>2 DEF Clash
<1>2. (openapiPaths \cup healthPaths) \cap config.dirs = {}
  BY Starless, AssetPatterns
<1>3. (openapiPaths \cup healthPaths) \cap (apiPaths \cup assetPaths) = {}
  BY <1>2 DEF existingPaths, assetPaths
<1> QED
  BY <1>1, <1>3, NavigationsApart

\* The table has the rows of every mount, the earlier ones passed on.
LEMMA Composition ==
  ASSUME IInv, accepted
  PROVE  /\ \A s \in table : \/ \E r \in apiRows \cup assetRoutes : s = Passed(r)
                             \/ s \in openapiRows \cup healthRows \cup shellRoutes
         /\ \A r \in apiRows \cup assetRoutes : Passed(r) \in table
         /\ \A r \in openapiRows : r.path \notin healthPaths => r \in table
         /\ healthRows \cup shellRoutes \subseteq table
<1>1. native = apiRows \cup assetRoutes
  BY Apart, RowPaths DEF native, Overlay
<1>2. shared = {Passed(r) : r \in apiRows \cup assetRoutes}
  BY <1>1, SharedIs
<1>3. \A r \in apiRows \cup assetRoutes : Passed(r).path = r.path /\ r.path \in apiPaths \cup assetPaths
  BY RowPaths, PassedFields DEF Same
<1>4. \A r \in shared : r.path \in apiPaths \cup assetPaths
  BY <1>2, <1>3
<1>5. withOpenApi = shared \cup openapiRows
  BY <1>4, Apart, RowPaths DEF withOpenApi, Overlay
<1>6. withHealth = {r \in shared \cup openapiRows : r.path \notin healthPaths} \cup healthRows
  <2>1. \A p \in healthPaths : \E s \in healthRows : s.path = p
    BY RouteFields DEF healthRows
  <2> QED
    BY <1>5, <2>1, RowPaths DEF withHealth, Overlay
<1>7. shared \subseteq withHealth
  BY <1>4, <1>6, Apart
<1>8. \A r \in withHealth : r.path \in apiPaths \cup assetPaths \cup healthPaths \cup openapiPaths
  BY <1>4, <1>6, RowPaths
<1>9. complete = withHealth \cup shellRoutes
  BY <1>8, Apart, RowPaths DEF complete, Overlay
<1> QED
  BY <1>2, <1>6, <1>7, <1>9, Passing

-----------------------------------------------------------------------------
(* DeclaredIsServed.                                                       *)

\* One row a method, and a row for every method alone.
OneEach(T) ==
  \A r, s \in T : r.path = s.path /\ r # s => r.method # s.method /\ star \notin {r.method, s.method}

\* A claim is read off the declaration it is made by.
LEMMA ClaimOf ==
  ASSUME NEW p, NEW c \in claimed(p)
  PROVE  \E d \in claims(p) : /\ c.method \in DOMAIN d.entry
                              /\ c = [owner |-> d.owner, method |-> c.method, kind |-> d.entry[c.method]]
<1>1. PICK d \in claims(p) : c \in {[owner |-> d.owner, method |-> m, kind |-> d.entry[m]] : m \in DOMAIN d.entry}
  BY DEF claimed
<1>2. PICK m \in DOMAIN d.entry : c = [owner |-> d.owner, method |-> m, kind |-> d.entry[m]]
  BY <1>1
<1>3. c.method = m
  BY <1>2
<1> QED
  BY <1>2, <1>3

\* Claims of one path differ in their methods.
LEMMA ClaimsDiffer ==
  ASSUME NEW p, ~Duplicate(declared), assemblyError(p) = "", NEW c \in claimed(p)
  PROVE  c.method \in Methods \cup {star} /\ \A d \in claimed(p) : c.method = d.method => c = d
<1>1. c.method \in Methods \cup {star}
  BY DEF assemblyError
<1>2. ASSUME NEW d \in claimed(p), c.method = d.method, c # d PROVE FALSE
  <2>1. PICK x \in claims(p) : /\ c.method \in DOMAIN x.entry
                               /\ c = [owner |-> x.owner, method |-> c.method, kind |-> x.entry[c.method]]
    BY ClaimOf
  <2>2. PICK y \in claims(p) : /\ d.method \in DOMAIN y.entry
                               /\ d = [owner |-> y.owner, method |-> d.method, kind |-> y.entry[d.method]]
    BY ClaimOf
  <2>3. x # y
    BY <1>2, <2>1, <2>2
  <2> QED
    BY <1>1, <1>2, <2>1, <2>2, <2>3 DEF Duplicate, claims
<1> QED
  BY <1>1, <1>2

LEMMA OneEachClaim == ASSUME NEW p, ~Duplicate(declared), assemblyError(p) = "" PROVE OneEach(rowsOf(p))
<1>1. ASSUME NEW c \in claimed(p), NEW d \in claimed(p), c # d
      PROVE  c.method # d.method /\ star \notin {c.method, d.method}
  <2>1. c.method # d.method /\ ~Shadowed(p)
    BY <1>1, ClaimsDiffer DEF assemblyError
  <2>2. anyClaims(p) # {} => c.method = star /\ d.method = star
    BY <2>1 DEF Shadowed
  <2>3. c.method = star \/ d.method = star => anyClaims(p) # {}
    <3>1. PICK x \in claims(p) : c.method \in DOMAIN x.entry
      BY ClaimOf
    <3>2. PICK y \in claims(p) : d.method \in DOMAIN y.entry
      BY ClaimOf
    <3> QED
      BY <3>1, <3>2 DEF anyClaims
  <2> QED
    BY <2>1, <2>2, <2>3
<1>2. ASSUME NEW x PROVE compileMethodValue(p, x).method = x.method
  BY ONLY CompiledFields
<1> SUFFICES ASSUME NEW r \in rowsOf(p), NEW s \in rowsOf(p), r # s
             PROVE  r.method # s.method /\ star \notin {r.method, s.method}
  BY DEF OneEach
<1>3. PICK c \in claimed(p), d \in claimed(p) : r = compileMethodValue(p, c) /\ s = compileMethodValue(p, d)
  BY DEF rowsOf
<1> QED
  BY <1>1, <1>2, <1>3

\* Rows of one owner and value are told apart by path and method.
LEMMA OneEachMounted ==
  ASSUME NEW T,
         \A r \in T : r.method # star,
         \A r, s \in T : r.path = s.path /\ r.method = s.method => r = s
  PROVE  OneEach(T)
  BY DEF OneEach

LEMMA OneEachOf ==
  /\ \A A, B : OneEach(A) /\ OneEach(B) => OneEach(Overlay(A, B))
  /\ \A T : OneEach(T) /\ (\A r \in T : RowShape(r)) => OneEach({Passed(r) : r \in T})
<1>1. ASSUME NEW A, NEW B, OneEach(A), OneEach(B) PROVE OneEach(Overlay(A, B))
  BY <1>1 DEF OneEach, Overlay
<1>2. ASSUME NEW T, OneEach(T), \A r \in T : RowShape(r) PROVE OneEach({Passed(r) : r \in T})
  <2> SUFFICES ASSUME NEW r \in T, NEW s \in T, Passed(r).path = Passed(s).path, Passed(r) # Passed(s)
               PROVE  Passed(r).method # Passed(s).method /\ star \notin {Passed(r).method, Passed(s).method}
    BY DEF OneEach
  <2>1. r # s /\ r.path = s.path
    BY <1>2, PassedFields DEF Same
  <2> QED
    BY <1>2, <2>1, PassedFields DEF Same, OneEach
<1> QED
  BY <1>1, <1>2

LEMMA OneEachServed == ASSUME IInv, accepted PROVE OneEach(table)
<1> USE Passing
<1>1. OneEach(apiRows)
  <2> SUFFICES ASSUME NEW r \in apiRows, NEW s \in apiRows, r.path = s.path, r # s
               PROVE  r.method # s.method /\ star \notin {r.method, s.method}
    BY DEF OneEach
  <2>1. r.path \in apiPaths /\ r \in rowsOf(r.path) /\ s \in rowsOf(r.path)
    BY RowPaths
  <2> QED
    BY <2>1, OneEachClaim DEF OneEach
<1>2. OneEach(assetRoutes)
  <2>1. ASSUME NEW r \in assetRoutes
        PROVE  /\ r.method # star
               /\ r.path \in config.hashed => r = Route(r.path, r.method, "asset", "handler", <<>>)
               /\ r.path \in config.files => r = Route(r.path, "GET", "asset", "static", <<>>)
               /\ r.path \in config.dirs => r = Route(r.path, "GET", "asset", "directory", <<>>)
    <3>1. config.files \cap config.hashed = {} /\ config.dirs \cap (config.files \cup config.hashed) = {}
      BY ConfigsAssumption, AssetPatterns DEF assetFiles
    <3>2. CASE \E p \in config.files : r = Route(p, "GET", "asset", "static", <<>>)
      BY ONLY <3>1, <3>2, RouteFields DEF star
    <3>3. CASE \E p \in config.dirs : r = Route(p, "GET", "asset", "directory", <<>>)
      BY ONLY <3>1, <3>3, RouteFields DEF star
    <3>4. CASE \E p \in config.hashed, m \in {"GET", "HEAD"} : r = Route(p, m, "asset", "handler", <<>>)
      BY ONLY <3>1, <3>4, RouteFields DEF star
    <3> QED
      BY ONLY r \in assetRoutes, <3>2, <3>3, <3>4 DEF assetRoutes
  <2>2. \A r \in assetRoutes : r.path \in config.hashed \cup config.files \cup config.dirs
    BY RowPaths DEF assetPaths, assetFiles
  <2> QED
    BY <2>1, <2>2, OneEachMounted
<1>3. OneEach(openapiRows) /\ OneEach(healthRows)
  <2>1. ASSUME NEW r \in openapiRows
        PROVE  r = Route(r.path, "GET", "openapi", "handler", When("logging") \o When("cors"))
    <3> DEFINE L == When("logging") \o When("cors")
    <3>1. PICK p \in openapiPaths : r = Route(p, "GET", "openapi", "handler", L)
      BY DEF openapiRows
    <3> HIDE DEF L
    <3>2. r.path = p
      BY ONLY <3>1, RouteFields
    <3> QED
      BY <3>1, <3>2 DEF L
  <2>2. ASSUME NEW r \in healthRows PROVE r = Route(r.path, "GET", "health", "handler", EndpointLayers)
    <3>1. PICK p \in healthPaths : r = Route(p, "GET", "health", "handler", EndpointLayers)
      BY DEF healthRows
    <3> QED
      BY ONLY <3>1, RouteFields
  <2>3. "GET" # star
    BY DEF star
  <2>4. OneEach(openapiRows)
    BY <2>1, <2>3, RowPaths, OneEachMounted
  <2> QED
    BY <2>2, <2>3, <2>4, RowPaths, OneEachMounted
<1>4. OneEach(shellRoutes)
  <2>1. ASSUME NEW r \in shellRoutes
        PROVE  r.method # star /\ r = Route(r.path, r.method, "spa", "handler", EndpointLayers)
    <3>1. PICK p \in config.spa, m \in {"GET", "HEAD"} : r = Route(p, m, "spa", "handler", EndpointLayers)
      BY ONLY r \in shellRoutes DEF shellRoutes
    <3> QED
      BY ONLY <3>1, RouteFields DEF star
  <2> QED
    BY <2>1, OneEachMounted
<1>5. \A r \in native : RowShape(r)
  BY RowPaths DEF native, Overlay
<1>6. OneEach(native)
  BY <1>1, <1>2, OneEachOf DEF native
<1>7. OneEach(shared)
  BY <1>5, <1>6, OneEachOf, SharedIs
<1> QED
  BY <1>3, <1>4, <1>7, OneEachOf DEF withOpenApi, withHealth, complete

LEMMA ServedRows == ASSUME IInv PROVE DeclaredIsServed
<1> SUFFICES ASSUME accepted PROVE DeclaredIsServed
  BY DEF DeclaredIsServed
<1>1. ASSUME NEW d \in declared, NEW m \in DOMAIN d.entry
      PROVE  \E r \in table : r.path = d.path /\ r.method = m /\ r.owner = d.owner
  <2> DEFINE c == [owner |-> d.owner, method |-> m, kind |-> d.entry[m]]
             r == compileMethodValue(d.path, c)
  <2>1. d.path \in apiPaths /\ c \in claimed(d.path)
    BY <1>1 DEF apiPaths, claimed, claims
  <2>2. r \in apiRows
    BY <2>1 DEF apiRows, rowsOf
  <2>3. r.path = d.path /\ r.method = m /\ r.owner = d.owner
    BY CompiledFields
  <2> HIDE DEF r
  <2> QED
    BY <2>2, <2>3, RowPaths, PassedFields, Composition DEF Same
<1>2. ASSUME NEW p \in assetPaths PROVE \E r \in table : r.path = p /\ r.owner = "asset"
  <2>1. \E r \in assetRoutes : r.path = p
    <3>1. CASE p \in config.files
      BY <3>1, RouteFields DEF assetRoutes
    <3>2. CASE p \in config.hashed
      BY <3>2, RouteFields DEF assetRoutes
    <3>3. CASE p \in config.dirs
      BY <3>3, RouteFields DEF assetRoutes
    <3> QED
      BY <1>2, <3>1, <3>2, <3>3 DEF assetPaths, assetFiles
  <2> QED
    BY <2>1, RowPaths, PassedFields, Composition DEF Same
<1>3. ASSUME NEW p \in config.spa PROVE \E r \in table : r.path = p /\ r.owner = "spa"
  <2>1. Route(p, "GET", "spa", "handler", EndpointLayers) \in shellRoutes
    BY <1>3 DEF shellRoutes
  <2> QED
    BY <2>1, RouteFields, Composition
<1>4. \A r, s \in table : r.path = s.path /\ r # s => r.method # s.method /\ star \notin {r.method, s.method}
  BY OneEachServed DEF OneEach
<1>5. ASSUME NEW p \in healthPaths PROVE \E r \in table : r.path = p /\ r.owner = "health"
  <2>1. Route(p, "GET", "health", "handler", EndpointLayers) \in healthRows
    BY <1>5 DEF healthRows
  <2> QED
    BY <2>1, RouteFields, Composition
<1>6. ASSUME NEW p \in openapiPaths \ healthPaths PROVE \E r \in table : r.path = p /\ r.owner = "openapi"
  <2> DEFINE r == Route(p, "GET", "openapi", "handler", When("logging") \o When("cors"))
  <2>1. r \in openapiRows
    BY <1>6 DEF openapiRows
  <2>2. r.path = p /\ r.owner = "openapi"
    BY ONLY RouteFields
  <2> HIDE DEF r
  <2> QED
    BY <1>6, <2>1, <2>2, Composition
<1> QED
  BY <1>1, <1>2, <1>3, <1>4, <1>5, <1>6 DEF DeclaredIsServed

\* An accepted application serves what it declared, one value a method
\* (prepareApp, ADR-0018).
THEOREM Served == Spec => []DeclaredIsServed
  BY Inductive, ServedRows, PTL

-----------------------------------------------------------------------------
(* OneOwner.                                                               *)

LEMMA ApiPatterns == ASSUME Typed PROVE \A p \in apiPaths : p \in Paths /\ p \in Patterns /\ WellFormed(p)
  BY RoutesAssumption DEF Typed, apiPaths

LEMMA SpaPatterns ==
  ASSUME config \in Configs, spaError \in {"", "LUGAS_SPA_002"}
  PROVE  \A p \in config.spa : p \in Patterns /\ WellFormed(p)
<1>1. \A p \in config.spa : p \in Patterns
  BY ConfigsAssumption
<1>2. \A p \in config.spa : WellFormed(p)
  BY DEF spaError
<1> QED
  BY <1>1, <1>2

\* Owners of an accepted application share no request.
LEMMA NothingShared ==
  ASSUME IInv, accepted
  PROVE  /\ \A p \in assetPaths, q \in apiPaths \cup assetPaths : p # q => ~Shared(p, q)
         /\ \A p \in config.spa, q \in apiPaths \cup assetPaths \cup healthPaths \cup openapiPaths : ~Shared(p, q)
         /\ \A p, q \in config.spa : p # q => ~Shared(p, q)
<1>1. Typed /\ config \in Configs /\ assetError = "" /\ spaError = ""
  BY Passing DEF IInv
<1>2. \A p \in apiPaths \cup assetPaths \cup healthPaths \cup openapiPaths \cup config.spa :
        p \in Patterns /\ WellFormed(p)
  BY <1>1, ApiPatterns, SpaPatterns, AssetPatterns, Starless
<1>3. \A p, q \in apiPaths \cup assetPaths \cup healthPaths \cup openapiPaths \cup config.spa :
        Shared(p, q) => patternsOverlap(p, q)
  BY <1>2, SharedOverlap
<1>4. ~AmbiguousAssets
  BY <1>1 DEF assetError
<1>5. ~AmbiguousNavigations
  BY <1>1 DEF spaError
<1>6. \A p \in assetPaths, q \in apiPaths \cup assetPaths : p # q => ~patternsOverlap(p, q)
  BY <1>4 DEF AmbiguousAssets, Clash
<1>7. \A p \in config.spa, q \in apiPaths \cup assetPaths \cup healthPaths \cup openapiPaths : ~patternsOverlap(p, q)
  BY <1>5 DEF AmbiguousNavigations, Clash
<1>8. \A p, q \in config.spa : p # q => ~patternsOverlap(p, q)
  BY <1>5 DEF AmbiguousNavigations
<1> QED
  BY <1>3, <1>6, <1>7, <1>8

\* What an application is refused for, some request exhibits.
LEMMA SharedAssets ==
  ASSUME Typed, assetError = "LUGAS_ASSET_002"
  PROVE  \E p \in assetPaths, q \in apiPaths \cup assetPaths : Shared(p, q) /\ (p # q \/ q \in apiPaths)
<1>1. config \in Configs /\ AmbiguousAssets
  BY DEF Typed, assetError
<1>2. \A p \in apiPaths \cup assetPaths : p \in Patterns /\ WellFormed(p)
  BY <1>1, ApiPatterns, AssetPatterns
<1>3. \A p \in apiPaths \cup assetPaths : p \in PatternsOf(config)
  BY ApiPatterns DEF PatternsOf, assetPaths, assetFiles
<1>4. \E p \in assetPaths, q \in apiPaths \cup assetPaths : patternsOverlap(p, q) /\ (p # q \/ q \in apiPaths)
  BY <1>1 DEF AmbiguousAssets, Clash
<1> QED
  BY <1>1, <1>2, <1>3, <1>4, OverlapShared

LEMMA SharedNavigations ==
  ASSUME Typed, assetError = "", spaError = "LUGAS_SPA_002"
  PROVE  \E p \in config.spa, q \in apiPaths \cup assetPaths \cup openapiPaths \cup healthPaths \cup config.spa :
           Shared(p, q)
<1>1. config \in Configs /\ AmbiguousNavigations
  BY DEF Typed, spaError
<1> DEFINE Q == apiPaths \cup assetPaths \cup openapiPaths \cup healthPaths \cup config.spa
<1>2. \A p \in Q : p \in Patterns /\ WellFormed(p)
  BY <1>1, ApiPatterns, SpaPatterns, AssetPatterns, Starless
<1>3. \A p \in Q : p \in PatternsOf(config)
  BY ApiPatterns DEF PatternsOf, assetPaths, assetFiles, openapiPaths, healthPaths
<1>4. \E p \in config.spa, q \in Q : patternsOverlap(p, q)
  BY <1>1 DEF AmbiguousNavigations, Clash
<1>5. config.spa \subseteq Q
  OBVIOUS
<1> HIDE DEF Q
<1>6. \E p \in config.spa, q \in Q : Shared(p, q)
  BY <1>1, <1>2, <1>3, <1>4, <1>5, OverlapShared
<1> QED
  BY <1>6 DEF Q

LEMMA OwnedAlone == ASSUME IInv PROVE OneOwner
<1>1. ASSUME accepted
      PROVE  /\ \A p \in assetPaths, q \in apiPaths \cup assetPaths : p # q => ~Shared(p, q)
             /\ assetPaths \cap apiPaths = {}
             /\ \A p \in config.spa : /\ \A r \in table : r.owner # "spa" => ~Shared(p, r.path)
                                      /\ \A q \in config.spa : p # q => ~Shared(p, q)
  <2>1. \A r \in table : r.owner # "spa" => r.path \in apiPaths \cup assetPaths \cup healthPaths \cup openapiPaths
    BY <1>1, Composition, RowPaths, PassedFields DEF Same
  <2> QED
    BY <1>1, <2>1, NothingShared, Apart
<1>2. ASSUME diagnostic = "LUGAS_ASSET_002"
      PROVE  \E p \in assetPaths, q \in apiPaths \cup assetPaths : Shared(p, q) /\ (p # q \/ q \in apiPaths)
  BY <1>2, SharedAssets DEF IInv, Checked
<1>3. ASSUME diagnostic = "LUGAS_SPA_002"
      PROVE  \E p \in config.spa, q \in apiPaths \cup assetPaths \cup openapiPaths \cup healthPaths \cup config.spa :
               Shared(p, q)
  BY <1>3, SharedNavigations DEF IInv, Checked
<1> QED
  BY <1>1, <1>2, <1>3 DEF OneOwner

\* No request has two owners, and none is refused for an overlap that no
\* request exhibits (assets.ts, spa.ts).
THEOREM Owned == Spec => []OneOwner
  BY Inductive, OwnedAlone, PTL

-----------------------------------------------------------------------------
(* PolicyCoverage: layers are wrapped in one order, whatever wraps them.   *)

Layers == DOMAIN Depth

\* Layers that grow in depth, up to n.
Nested(L, n) ==
  /\ L \in Seq(Layers)
  /\ \A i, j \in 1 .. Len(L) : i < j => Depth[L[i]] < Depth[L[j]]
  /\ \A i \in 1 .. Len(L) : Depth[L[i]] <= n

LEMMA Depths == \A l \in Layers : Depth[l] \in 1 .. 8
  BY DEF Depth, Layers

LEMMA NestedEmpty == Nested(<<>>, 0)
  BY DEF Nested

\* A bound may be raised.
LEMMA NestedMore == ASSUME NEW L, NEW n \in Nat, NEW k \in Nat, n <= k, Nested(L, n) PROVE Nested(L, k)
<1>1. \A i \in 1 .. Len(L) : Depth[L[i]] \in Nat
  BY Depths DEF Nested
<1> QED
  BY <1>1 DEF Nested

\* What a wrapper does to the layers.
LEMMA AppendNested ==
  ASSUME NEW L, NEW n \in Nat, Nested(L, n), NEW l \in Layers, n < Depth[l]
  PROVE  LET M == Append(L, l)
         IN Nested(M, Depth[l]) /\ Range(M) = Range(L) \cup {l}
<1> DEFINE M == Append(L, l)
           k == Len(L)
<1>1. L \in Seq(Layers) /\ k \in Nat /\ DOMAIN L = 1 .. k
  BY DEF Nested
<1>2. M \in Seq(Layers) /\ Len(M) = k + 1 /\ DOMAIN M = 1 .. k + 1
  BY <1>1
<1>3. M[k + 1] = l /\ \A i \in 1 .. k : M[i] = L[i]
  BY <1>1
<1>4. Depth[l] \in Nat /\ \A i \in 1 .. k : Depth[L[i]] \in Nat /\ Depth[L[i]] <= n
  BY <1>1, Depths DEF Nested
<1>5. \A i, j \in 1 .. k : i < j => Depth[L[i]] < Depth[L[j]]
  BY DEF Nested
<1> HIDE DEF M, k
<1>6. \A i \in 1 .. k + 1 : i \in 1 .. k \/ i = k + 1
  BY <1>1
<1>7. \A i \in 1 .. k + 1 : Depth[M[i]] <= Depth[l]
  BY <1>3, <1>4, <1>6
<1>8. \A i, j \in 1 .. k + 1 : i < j => Depth[M[i]] < Depth[M[j]]
  <2> SUFFICES ASSUME NEW i \in 1 .. k + 1, NEW j \in 1 .. k + 1, i < j PROVE Depth[M[i]] < Depth[M[j]]
    OBVIOUS
  <2>1. i \in 1 .. k
    BY <1>1
  <2> QED
    BY <1>3, <1>4, <1>5, <1>6, <2>1
<1>9. Range(M) = Range(L) \cup {l}
  BY <1>1, <1>2, <1>3, <1>6 DEF Range
<1>10. Nested(M, Depth[l])
  BY <1>2, <1>7, <1>8 DEF Nested
<1> QED
  BY <1>9, <1>10 DEF M, k

\* Layers with or without one that is configured.
LEMMA WhenNested ==
  ASSUME NEW L, NEW n \in Nat, Nested(L, n), NEW l \in Layers, n < Depth[l]
  PROVE  LET M == L \o When(l)
         IN Nested(M, Depth[l]) /\ Range(M) = Range(L) \cup (config.policies \cap {l})
<1>1. L \in Seq(Layers) /\ Depth[l] \in Nat
  BY Depths DEF Nested
<1>2. CASE l \in config.policies
  <2>1. L \o When(l) = Append(L, l) /\ config.policies \cap {l} = {l}
    BY <1>1, <1>2 DEF When
  <2> QED
    BY <1>1, <1>2, <2>1, AppendNested
<1>3. CASE l \notin config.policies
  <2>1. L \o When(l) = L /\ config.policies \cap {l} = {}
    BY <1>1, <1>3 DEF When
  <2> QED
    BY <1>1, <1>3, <2>1, NestedMore
<1> QED
  BY <1>2, <1>3

\* The policies that are wrapped around a pipeline where it is compiled.
compiled == {"etag", "compression", "telemetry", "logging"}

\* A pipeline has its error policy, its gate and what is configured.
LEMMA LugasNested ==
  Nested(LugasLayers, 6) /\ Range(LugasLayers) = {"errors", "gate"} \cup (config.policies \cap compiled)
<1> DEFINE L0 == <<"errors", "gate">>
           L1 == L0 \o When("etag")
           L2 == L1 \o When("compression")
           L3 == L2 \o When("telemetry")
           L4 == L3 \o When("logging")
<1>1. /\ {"errors", "gate", "etag", "compression", "telemetry", "logging", "secure", "cors"} \subseteq Layers
      /\ Depth["errors"] = 1 /\ Depth["gate"] = 2 /\ Depth["etag"] = 3 /\ Depth["compression"] = 4
      /\ Depth["telemetry"] = 5 /\ Depth["logging"] = 6
  BY DEF Depth, Layers
<1>2. Nested(L0, 2) /\ Range(L0) = {"errors", "gate"}
  BY <1>1 DEF Nested, Range
<1>3. LugasLayers = L4
  BY DEF LugasLayers
<1> HIDE DEF L0, L1, L2, L3, L4
<1>4. Nested(L1, 3) /\ Range(L1) = Range(L0) \cup (config.policies \cap {"etag"})
  BY <1>1, <1>2, WhenNested DEF L1
<1>5. Nested(L2, 4) /\ Range(L2) = Range(L1) \cup (config.policies \cap {"compression"})
  BY <1>1, <1>4, WhenNested DEF L2
<1>6. Nested(L3, 5) /\ Range(L3) = Range(L2) \cup (config.policies \cap {"telemetry"})
  BY <1>1, <1>5, WhenNested DEF L3
<1>7. Nested(L4, 6) /\ Range(L4) = Range(L3) \cup (config.policies \cap {"logging"})
  BY <1>1, <1>6, WhenNested DEF L4
<1>8. Range(L4) = {"errors", "gate"} \cup (config.policies \cap compiled)
  BY <1>2, <1>4, <1>5, <1>6, <1>7 DEF compiled
<1> QED
  BY <1>3, <1>7, <1>8

\* A plain function has its logging, if any.
LEMMA LoggingNested == Nested(When("logging"), 6) /\ Range(When("logging")) = config.policies \cap {"logging"}
<1>1. "logging" \in Layers /\ Depth["logging"] = 6
  BY DEF Depth, Layers
<1> DEFINE L == <<>>
           M == L \o When("logging")
<1>2. When("logging") = M
  BY DEF When
<1>3. Range(L) = {} /\ Nested(L, 0)
  BY NestedEmpty DEF Range
<1> HIDE DEF L
<1>4. Nested(M, 6) /\ Range(M) = Range(L) \cup (config.policies \cap {"logging"})
  BY <1>1, <1>3, WhenNested
<1> HIDE DEF M
<1> QED
  BY <1>2, <1>3, <1>4

\* What has to hold of a row's layers.
Covered(r) ==
  /\ Nested(r.layers, 8)
  /\ Range(r.layers) = IF r.value = "handler" THEN due(r) ELSE {}
  /\ "cors" \in config.policies => r.value = "handler"

\* The two passes, and what they do to the layers below.
LEMMA PassedNested ==
  ASSUME NEW L, Nested(L, 6)
  PROVE  LET M == L \o When("secure") \o When("cors")
         IN Nested(M, 8) /\ Range(M) = Range(L) \cup (config.policies \cap {"secure", "cors"})
<1> DEFINE K == L \o When("secure")
           M == K \o When("cors")
<1>1. {"secure", "cors"} \subseteq Layers /\ Depth["secure"] = 7 /\ Depth["cors"] = 8
  BY DEF Depth, Layers
<1>2. Nested(K, 7) /\ Range(K) = Range(L) \cup (config.policies \cap {"secure"})
  BY <1>1, WhenNested
<1> HIDE DEF K
<1>3. Nested(M, 8) /\ Range(M) = Range(K) \cup (config.policies \cap {"cors"})
  BY <1>1, <1>2, WhenNested
<1> HIDE DEF M
<1>4. Range(M) = Range(L) \cup (config.policies \cap {"secure", "cors"})
  BY <1>2, <1>3
<1> QED
  BY <1>3, <1>4 DEF M, K

LEMMA PassedLayers ==
  ASSUME NEW r, RowShape(r), r.value = "handler", Nested(r.layers, 6)
  PROVE  Passed(r).layers = r.layers \o When("secure") \o When("cors")
<1> DEFINE L == r.layers
           s == IF "secure" \in config.policies THEN Wrapped(r, "secure") ELSE r
<1>1. L \in Seq(Layers) /\ {"secure", "cors"} \subseteq Layers
  BY DEF Nested, Layers, Depth
<1>2. RowShape(s) /\ s.value = "handler"
  BY WrappedFields
<1>3. s.layers = L \o When("secure")
  <2>1. CASE "secure" \in config.policies
    BY <1>1, <2>1, WrappedFields DEF When
  <2>2. CASE "secure" \notin config.policies
    BY <1>1, <2>2 DEF When
  <2> QED
    BY <2>1, <2>2
<1>4. s.layers \in Seq(Layers)
  <2>1. CASE "secure" \in config.policies
    BY <1>1, <1>3, <2>1 DEF When
  <2>2. CASE "secure" \notin config.policies
    BY <1>1, <1>3, <2>2 DEF When
  <2> QED
    BY <2>1, <2>2
<1>5. Passed(r) = IF "cors" \in config.policies THEN Wrapped(s, "cors") ELSE s
  BY DEF Passed
<1> HIDE DEF s, L
<1>6. CASE "cors" \in config.policies
  <2>1. Passed(r).layers = Append(s.layers, "cors")
    BY <1>2, <1>5, <1>6, WrappedFields
  <2>2. When("cors") = <<"cors">>
    BY <1>6 DEF When
  <2>3. Append(s.layers, "cors") = s.layers \o <<"cors">>
    BY <1>1, <1>4
  <2> QED
    BY ONLY <1>3, <2>1, <2>2, <2>3 DEF L
<1>7. CASE "cors" \notin config.policies
  <2>1. Passed(r).layers = s.layers /\ When("cors") = <<>>
    BY <1>5, <1>7 DEF When
  <2>2. s.layers \o <<>> = s.layers
    BY <1>4
  <2> QED
    BY ONLY <1>3, <2>1, <2>2 DEF L
<1> QED
  BY <1>6, <1>7

\* A row runs a declared pipeline if and only if its claim says so: no other
\* declaration makes the same claim.
LEMMA ClaimedPipeline ==
  ASSUME IInv, accepted, NEW p \in apiPaths, NEW c \in claimed(p),
         NEW r, r.path = p, r.owner = c.owner, r.method = c.method
  PROVE  /\ isPipeline(r) <=> c.kind \in {"lugas", "socket"}
         /\ c.owner \in Owners /\ c.kind # "handler"
<1>1. PICK d \in claims(p) : /\ c.method \in DOMAIN d.entry
                             /\ c = [owner |-> d.owner, method |-> c.method, kind |-> d.entry[c.method]]
  BY ClaimOf
<1>2. d \in declared /\ d.path = p /\ c.owner = d.owner /\ c.kind = d.entry[c.method]
  BY <1>1 DEF claims
<1>3. ~Duplicate(declared) /\ assemblyError(p) = ""
  BY Passing
<1>4. c.method \in Methods \cup {star}
  BY <1>3, ClaimsDiffer
<1>5. \A e \in declared : e.path = p /\ c.method \in DOMAIN e.entry => e = d
  BY <1>1, <1>2, <1>3, <1>4 DEF Duplicate
<1>6. d.owner \in Owners /\ d.entry \in Entries
  BY <1>2 DEF IInv, Typed
<1>7. c.kind \in Kinds
  BY <1>1, <1>2, <1>6, RoutesAssumption DEF Range
<1> QED
  BY <1>1, <1>2, <1>5, <1>6, <1>7 DEF isPipeline, Kinds

\* What the framework mounts is no declared pipeline.
LEMMA MountedPipeline == ASSUME Typed, NEW r, r.owner \in Framework PROVE ~isPipeline(r)
  BY RoutesAssumption DEF Typed, isPipeline

\* What a row has before the passes.
LEMMA BareRows ==
  ASSUME IInv, accepted
  PROVE  \A r \in apiRows \cup assetRoutes :
           /\ RowShape(r) /\ r.owner # "openapi" /\ Nested(r.layers, 6)
           /\ r.value # "handler" => r.layers = <<>>
           /\ r.value = "handler" =>
                Range(r.layers) = IF isPipeline(r) THEN {"errors", "gate"} \cup (config.policies \cap compiled)
                                  ELSE config.policies \cap ({"logging"} \ exempt(r))
<1>1. Nested(<<>>, 6) /\ Range(<<>>) = {}
  BY NestedEmpty, NestedMore DEF Range
<1>2. ASSUME NEW r \in apiRows
      PROVE  /\ RowShape(r) /\ r.owner # "openapi" /\ Nested(r.layers, 6)
             /\ r.value # "handler" => r.layers = <<>>
             /\ r.value = "handler" =>
                  Range(r.layers) = IF isPipeline(r) THEN {"errors", "gate"} \cup (config.policies \cap compiled)
                                    ELSE config.policies \cap ({"logging"} \ exempt(r))
  <2> PICK p \in apiPaths : r \in rowsOf(p)
    BY DEF apiRows
  <2>1. PICK c \in claimed(p) : r = compileMethodValue(p, c)
    BY DEF rowsOf
  <2>2. r.path = p /\ r.owner = c.owner /\ r.method = c.method
    BY ONLY <2>1, CompiledFields
  <2>3. /\ isPipeline(r) <=> c.kind \in {"lugas", "socket"}
        /\ r.owner \in Owners /\ c.kind # "handler"
    BY <2>2, ClaimedPipeline
  <2>4. RowShape(r) /\ r.owner \notin {"openapi", "asset"}
    BY <2>3, RowPaths, RoutesAssumption DEF Framework
  <2>5. exempt(r) = {}
    BY <2>4 DEF exempt
  <2>6. CASE c.kind \in {"lugas", "socket"}
    <3>1. r.value = "handler" /\ r.layers = LugasLayers
      BY ONLY <2>1, <2>6, CompiledFields
    <3> QED
      BY <2>3, <2>4, <2>6, <3>1, LugasNested
  <2>7. CASE c.kind = "function"
    <3>1. r.value = "handler" /\ r.layers = When("logging")
      BY ONLY <2>1, <2>7, CompiledFields
    <3> QED
      BY <2>3, <2>4, <2>5, <2>7, <3>1, LoggingNested
  <2>8. CASE c.kind \notin {"lugas", "socket", "function"}
    <3>1. r.layers = <<>> /\ r.value = c.kind
      BY ONLY <2>1, <2>8, CompiledFields
    <3> QED
      BY <1>1, <2>3, <2>4, <3>1
  <2> QED
    BY <2>6, <2>7, <2>8
<1>3. ASSUME NEW r \in assetRoutes PROVE RowShape(r) /\ r.owner = "asset" /\ r.layers = <<>> /\ ~isPipeline(r)
  <2>1. RowShape(r) /\ r.owner = "asset"
    BY RowPaths
  <2>2. r.layers = <<>>
    BY RouteFields DEF assetRoutes
  <2> QED
    BY <2>1, <2>2, MountedPipeline DEF IInv, Framework
<1>4. \A r \in assetRoutes : config.policies \cap ({"logging"} \ exempt(r)) = {}
  BY <1>3 DEF exempt
<1> QED
  BY <1>1, <1>2, <1>3, <1>4

LEMMA NativeShared ==
  ASSUME IInv, accepted, "cors" \in config.policies, NEW r \in apiRows \cup assetRoutes PROVE r.value = "handler"
<1>1. Passed(r) \in shared
  <2>1. r \in native
    BY Apart, RowPaths DEF native, Overlay
  <2> QED
    BY <2>1, SharedIs
<1>2. \A s \in secured : s.value = "handler"
  BY DEF IInv, Checked, accepted
<1>3. RowShape(r)
  BY RowPaths
<1>4. \E s \in secured : s.value = r.value
  <2>1. r \in native
    BY Apart, RowPaths DEF native, Overlay
  <2>2. CASE "secure" \in config.policies
    BY <1>3, <2>1, <2>2, WrappedFields DEF secured
  <2>3. CASE "secure" \notin config.policies
    BY <2>1, <2>3 DEF secured
  <2> QED
    BY <2>2, <2>3
<1> QED
  BY <1>2, <1>4

LEMMA EndpointsCovered ==
  ASSUME Typed PROVE \A r \in openapiRows \cup healthRows \cup shellRoutes : Covered(r)
<1>1. \A r \in openapiRows \cup healthRows \cup shellRoutes : ~isPipeline(r)
  BY RowPaths, MountedPipeline DEF Framework
<1>2. ASSUME NEW r \in healthRows \cup shellRoutes PROVE Covered(r)
  <2>1. /\ r.value = "handler" /\ r.owner \in {"health", "spa"}
        /\ r.layers = When("logging") \o When("secure") \o When("cors")
    <3>1. r.value = "handler" /\ r.layers = EndpointLayers
      BY <1>2, RouteFields DEF healthRows, shellRoutes
    <3> QED
      BY <1>2, <3>1, RowPaths DEF EndpointLayers
  <2>2. due(r) = config.policies \cap {"logging", "secure", "cors"}
    BY <1>1, <2>1 DEF due, exempt
  <2> HIDE DEF When
  <2>3. Nested(r.layers, 8) /\ Range(r.layers) = config.policies \cap {"logging", "secure", "cors"}
    BY <2>1, PassedNested, LoggingNested
  <2> QED
    BY <2>1, <2>2, <2>3 DEF Covered
<1>3. ASSUME NEW r \in openapiRows PROVE Covered(r)
  <2> DEFINE L == When("logging") \o When("cors")
  <2>1. r.value = "handler" /\ r.layers = L /\ r.owner = "openapi"
    <3>1. PICK p \in openapiPaths : r = Route(p, "GET", "openapi", "handler", L)
      BY <1>3 DEF openapiRows
    <3> HIDE DEF L
    <3> QED
      BY <3>1, RouteFields
  <2>2. "cors" \in Layers /\ Depth["cors"] = 8
    BY DEF Depth, Layers
  <2>3. Nested(L, 8) /\ Range(L) = (config.policies \cap {"logging"}) \cup (config.policies \cap {"cors"})
    BY <2>2, LoggingNested, WhenNested
  <2>4. due(r) = config.policies \cap {"logging", "cors"}
    BY <1>1, <2>1 DEF due, exempt
  <2> HIDE DEF L
  <2> QED
    BY <2>1, <2>3, <2>4 DEF Covered
<1> QED
  BY <1>2, <1>3

LEMMA RowsCovered == ASSUME IInv, accepted PROVE \A s \in table : Covered(s)
<1> SUFFICES ASSUME NEW r \in apiRows \cup assetRoutes PROVE Covered(Passed(r))
  BY Composition, EndpointsCovered DEF IInv
<1>1. /\ RowShape(r) /\ r.owner # "openapi" /\ Nested(r.layers, 6)
      /\ r.value # "handler" => r.layers = <<>>
      /\ r.value = "handler" =>
           Range(r.layers) = IF isPipeline(r) THEN {"errors", "gate"} \cup (config.policies \cap compiled)
                             ELSE config.policies \cap ({"logging"} \ exempt(r))
  BY BareRows
<1>2. Same(Passed(r), r)
  BY <1>1, PassedFields
<1>3. due(Passed(r)) = due(r)
  BY <1>2 DEF due, isPipeline, exempt, Same
<1>4. CASE r.value = "handler"
  <2>1. Passed(r).layers = r.layers \o When("secure") \o When("cors")
    BY <1>1, <1>4, PassedLayers
  <2> DEFINE M == Passed(r).layers
  <2>2. Nested(M, 8) /\ Range(M) = Range(r.layers) \cup (config.policies \cap {"secure", "cors"})
    BY <1>1, <2>1, PassedNested
  <2>3. Range(M) = due(r)
    <3>1. CASE isPipeline(r)
      BY <1>1, <1>4, <2>2, <3>1 DEF due, compiled, Policies
    <3>2. CASE ~isPipeline(r)
      <4>1. exempt(r) \subseteq {"logging"}
        BY <1>1 DEF exempt
      <4> QED
        BY <1>1, <1>4, <2>2, <3>2, <4>1 DEF due
    <3> QED
      BY <3>1, <3>2
  <2> QED
    BY <1>2, <1>3, <1>4, <2>2, <2>3 DEF Covered, Same
<1>5. CASE r.value # "handler"
  <2>1. Passed(r) = r /\ "cors" \notin config.policies
    BY <1>1, <1>5, PassedFields, NativeShared
  <2>2. Nested(r.layers, 8) /\ Range(r.layers) = {}
    BY <1>1, <1>5, NestedMore DEF Range
  <2> QED
    BY <1>5, <2>1, <2>2 DEF Covered
<1> QED
  BY <1>4, <1>5

LEMMA PoliciesCover == ASSUME IInv PROVE PolicyCoverage
<1> SUFFICES ASSUME accepted, NEW r \in table
             PROVE  /\ Range(r.layers) = IF r.value = "handler" THEN due(r) ELSE {}
                    /\ \A i, j \in DOMAIN r.layers : i < j => Depth[r.layers[i]] < Depth[r.layers[j]]
                    /\ "cors" \in config.policies => r.value = "handler"
  BY DEF PolicyCoverage
<1>1. Covered(r)
  BY RowsCovered
<1>2. DOMAIN r.layers = 1 .. Len(r.layers)
  BY <1>1 DEF Covered, Nested
<1> QED
  BY <1>1, <1>2 DEF Covered, Nested

\* Every handler of an accepted application runs the policies it is due, each
\* once and in one order: a declared pipeline all that are configured, inside
\* them the gate; a function or an endpoint logging, the secure headers and
\* CORS, but for the OpenAPI endpoints, which have no secure headers, and the
\* hashed assets, which do not log (compileLugasHandler, the passes and the
\* mounts of prepareApp).
THEOREM PoliciesHold == Spec => []PolicyCoverage
  BY Inductive, PoliciesCover, PTL

-----------------------------------------------------------------------------
(* Sorted(): members in the order of an injective key.                     *)

Ranked(S, k) == [i \in 1 .. Cardinality(S) |-> CHOOSE x \in S : Cardinality({y \in S : k[y] < k[x]}) = i - 1]

\* With a key that tells the members apart, a member's place is the number of
\* those below it: every place is taken, and the keys increase with it.
LEMMA SortedByKey ==
  ASSUME NEW S, IsFiniteSet(S), NEW k \in [S -> Int], \A x, y \in S : k[x] = k[y] => x = y,
         NEW at, at = Ranked(S, k)
  PROVE  /\ at \in [1 .. Cardinality(S) -> S] /\ Cardinality(S) \in Nat
         /\ \A i, j \in 1 .. Cardinality(S) : i < j => k[at[i]] < k[at[j]]
         /\ \A x \in S : \E i \in 1 .. Cardinality(S) : at[i] = x
<1> DEFINE n == Cardinality(S)
           Below(x) == {y \in S : k[y] < k[x]}
           r == [x \in S |-> Cardinality(Below(x))]
<1>1. n \in Nat
  BY FS_CardinalityType
<1>2. ASSUME NEW x \in S PROVE IsFiniteSet(Below(x)) /\ r[x] \in 0 .. n - 1 /\ r[x] = Cardinality(Below(x))
  <2>1. Below(x) \in SUBSET S /\ x \notin Below(x)
    BY <1>2
  <2> HIDE DEF Below
  <2>2. IsFiniteSet(Below(x)) /\ Cardinality(Below(x)) <= n /\ Cardinality(Below(x)) # n
    BY <1>2, <2>1, FS_Subset
  <2>3. Cardinality(Below(x)) \in Nat
    BY <2>2, FS_CardinalityType
  <2>4. r[x] = Cardinality(Below(x))
    BY <1>2
  <2> HIDE DEF n, r
  <2> QED
    BY <1>1, <2>2, <2>3, <2>4
<1>3. ASSUME NEW x \in S, NEW y \in S, k[x] < k[y] PROVE r[x] < r[y]
  <2>1. Below(x) \in SUBSET Below(y) /\ x \in Below(y) /\ x \notin Below(x)
    <3>1. \A z \in S : k[z] \in Int
      OBVIOUS
    <3> QED
      BY <1>3, <3>1
  <2>2. IsFiniteSet(Below(y)) /\ r[x] = Cardinality(Below(x)) /\ r[y] = Cardinality(Below(y))
    BY <1>2
  <2> HIDE DEF Below
  <2>3. Cardinality(Below(x)) <= Cardinality(Below(y)) /\ Cardinality(Below(x)) # Cardinality(Below(y))
    BY <2>1, <2>2, FS_Subset
  <2>4. r[x] \in 0 .. n - 1 /\ r[y] \in 0 .. n - 1
    BY <1>2
  <2> HIDE DEF r, n
  <2> QED
    BY <1>1, <2>2, <2>3, <2>4
<1>4. \A x, y \in S : r[x] = r[y] => x = y
  <2> SUFFICES ASSUME NEW x \in S, NEW y \in S, r[x] = r[y], x # y PROVE FALSE
    OBVIOUS
  <2>1. k[x] \in Int /\ k[y] \in Int /\ k[x] # k[y]
    OBVIOUS
  <2>2. k[x] < k[y] \/ k[y] < k[x]
    BY <2>1
  <2>3. r[x] \in 0 .. n - 1 /\ r[y] \in 0 .. n - 1
    BY <1>2
  <2>4. r[x] < r[y] \/ r[y] < r[x]
    BY <1>3, <2>2
  <2> HIDE DEF r, n
  <2> QED
    BY <1>1, <2>3, <2>4
<1>5. \A i \in 0 .. n - 1 : \E x \in S : r[x] = i
  <2>1. r \in Injection(S, 0 .. n - 1)
    <3>1. r \in [S -> 0 .. n - 1]
      BY <1>2
    <3> QED
      BY <1>4, <3>1 DEF Injection, IsInjective
  <2>2. IsFiniteSet(0 .. n - 1) /\ Cardinality(0 .. n - 1) = n
    <3> HIDE DEF n
    <3>1. 0 \in Int /\ n - 1 \in Int
      BY <1>1
    <3>2. IsFiniteSet(0 .. n - 1) /\ Cardinality(0 .. n - 1) = IF 0 > n - 1 THEN 0 ELSE n - 1 - 0 + 1
      BY <3>1, FS_Interval
    <3> QED
      BY <1>1, <3>2
  <2> HIDE DEF r
  <2>3. r \in Surjection(S, 0 .. n - 1)
    BY <2>1, <2>2, FS_Injection
  <2> QED
    BY <2>3 DEF Surjection
<1>6. ASSUME NEW i \in 1 .. n PROVE at[i] \in S /\ r[at[i]] = i - 1
  <2>1. i - 1 \in 0 .. n - 1
    <3> HIDE DEF n
    <3> QED
      BY <1>1, <1>6
  <2>2. \E x \in S : Cardinality(Below(x)) = i - 1
    BY <1>5, <2>1
  <2>3. at[i] = CHOOSE x \in S : Cardinality(Below(x)) = i - 1
    BY <1>6 DEF Ranked
  <2> HIDE DEF Below
  <2>4. at[i] \in S /\ Cardinality(Below(at[i])) = i - 1
    BY <2>2, <2>3
  <2> QED
    BY <2>4
<1>7. at \in [1 .. n -> S]
  <2> DEFINE F(i) == CHOOSE x \in S : Cardinality({y \in S : k[y] < k[x]}) = i - 1
  <2>1. at = [i \in 1 .. n |-> F(i)]
    BY DEF Ranked
  <2> HIDE DEF F, n, r
  <2>2. \A i \in 1 .. n : F(i) = at[i]
    BY ONLY <2>1
  <2> QED
    BY ONLY <1>6, <2>1, <2>2
<1>8. ASSUME NEW i \in 1 .. n, NEW j \in 1 .. n, i < j PROVE k[at[i]] < k[at[j]]
  <2> DEFINE x == at[i]
             y == at[j]
  <2>1. x \in S /\ y \in S /\ r[x] = i - 1 /\ r[y] = j - 1
    BY <1>6
  <2>2. k[x] \in Int /\ k[y] \in Int
    BY <2>1
  <2>3. r[x] < r[y] /\ ~(r[y] < r[x])
    <3> HIDE DEF n, r, x, y
    <3> QED
      BY <1>1, <1>8, <2>1
  <2>4. x # y
    <3> HIDE DEF r, x, y
    <3>1. r[x] \in 0 .. n - 1
      BY <1>2, <2>1
    <3> HIDE DEF n
    <3> QED
      BY <2>3
  <2>5. k[x] # k[y] /\ ~(k[y] < k[x])
    <3> HIDE DEF x, y, r
    <3> QED
      BY <1>3, <2>1, <2>3, <2>4
  <2> HIDE DEF x, y
  <2> QED
    BY <2>2, <2>5 DEF x, y
<1>9. ASSUME NEW x \in S PROVE \E i \in 1 .. n : at[i] = x
  <2>1. r[x] \in 0 .. n - 1
    BY <1>2, <1>9
  <2>2. PICK i \in 1 .. n : i - 1 = r[x]
    <3> HIDE DEF r, n
    <3>1. r[x] + 1 \in 1 .. n /\ (r[x] + 1) - 1 = r[x]
      BY <1>1, <2>1
    <3> QED
      BY <3>1
  <2>3. at[i] \in S /\ r[at[i]] = r[x]
    BY <1>6, <2>2
  <2> QED
    BY <1>4, <1>9, <2>3
<1> QED
  BY <1>1, <1>7, <1>8, <1>9

-----------------------------------------------------------------------------
(* Documents refines RouteTable: what is documented changes nothing that   *)
(* is served.                                                              *)

LEMMA DocStep == ASSUME [DocNext]_dvars PROVE [Next]_vars
  BY DEF DocNext, dvars, Next, Describe, Generate, BuildManifest

\* Documenting an application changes nothing of its preparation: each step of
\* Documents is one of RouteTable or leaves it alone.
THEOREM DocumentsRefine == DocSpec => Spec
  BY DocStep, PTL DEF DocSpec, DocInit, Spec

-----------------------------------------------------------------------------
(* The documents, phase by phase.                                          *)

apiLugas == {f \in apiFacts : f.kind = "lugas"}
apiDocumented == {f \in apiFacts : documented(f)}

Keyed(f, g) == openApiPath(f.path) = openApiPath(g.path) /\ f.method = g.method

\* The document has an operation for every key, made from one of its routes.
Shown ==
  \E kept \in SUBSET apiDocumented :
    /\ \A f \in apiDocumented : \E g \in kept : Keyed(f, g)
    /\ \A f, g \in kept : Keyed(f, g) => f = g
    /\ document = {operation(f) : f \in kept}

Early == {"declaring", "assembling", "assets", "securing", "sharing"}
Late == {"health", "spa", "accepted"}

Built == [routes |-> [i \in DOMAIN records |-> records[i][1]], modules |-> [n \in Modules |-> moduleRoutes(n)]]

DocShape ==
  /\ descriptor = <<>> \/ (phase \notin Early /\ descriptor \in [apiLugas -> Descriptors])
  /\ phase \in Late /\ openapiPaths # {} => descriptor \in [apiLugas -> Descriptors] /\ Shown
  /\ published => accepted /\ manifest = Built

\* Where the documents are, as far as they have been made.
DocIInv == IInv /\ DocShape

LEMMA DocInitially == DocInit => DocIInv
<1> SUFFICES ASSUME DocInit PROVE DocIInv
  OBVIOUS
<1>1. IInv
  BY Initially DEF DocInit
<1>2. phase = "declaring" /\ descriptor = <<>> /\ manifest.modules = <<>>
  BY DEF DocInit, Init
<1> QED
  BY <1>1, <1>2 DEF DocIInv, DocShape, Late, published

LEMMA FrameDocuments ==
  ASSUME UNCHANGED <<config, declared, descriptor>>
  PROVE  /\ UNCHANGED <<apiLugas, apiDocumented, openapiPaths>>
         /\ \A f : UNCHANGED operation(f)
<1>1. UNCHANGED <<apiFacts, openapiPaths>>
  BY FrameDeclared, FrameMounts
<1>2. \A f : UNCHANGED isSocket(f)
  BY FrameDeclared DEF isSocket
<1>3. \A f : UNCHANGED seen(f)
  BY <1>2 DEF seen
<1>4. \A f : UNCHANGED operation(f)
  BY <1>3 DEF operation, openApiPath, pathParamNames, queryParameters, requestBody, extractJsonSchema
<1> QED
  BY <1>1, <1>4 DEF apiLugas, apiDocumented, documented

LEMMA FrameShown == ASSUME UNCHANGED <<config, declared, descriptor, document>> PROVE UNCHANGED Shown
<1>1. \A f : UNCHANGED operation(f)
  BY FrameDocuments
<1>2. \A kept : {operation(f)' : f \in kept} = {operation(f) : f \in kept}
  BY <1>1
<1>3. UNCHANGED apiDocumented /\ \A f, g : UNCHANGED Keyed(f, g)
  BY FrameDocuments DEF Keyed, openApiPath
<1>4. ASSUME NEW kept
      PROVE  (document = {operation(f) : f \in kept})' <=> (document = {operation(f) : f \in kept})
  BY <1>2
<1> QED
  BY <1>3, <1>4 DEF Shown

LEMMA FrameManifest == ASSUME UNCHANGED facts PROVE UNCHANGED Built
<1>1. UNCHANGED records
  BY DEF records, Sorted, sortForSerialization, Before, Rank, MethodRank, MethodOrder
<1>2. \A n : UNCHANGED moduleRoutes(n)
  BY DEF moduleRoutes, Sorted, Before, Rank, all
<1> QED
  BY <1>1, <1>2 DEF Built

\* An action that leaves the documents alone.
LEMMA LeftAlone ==
  ASSUME DocShape, UNCHANGED <<config, declared, descriptor, document, manifest>>, phase # "accepted",
         phase \notin Early => phase' \notin Early, phase' \in Late => phase \in Late
  PROVE  DocShape'
<1>1. UNCHANGED <<apiLugas, openapiPaths, Shown>>
  BY FrameDocuments, FrameShown
<1>2. ~published'
  BY DEF DocShape, accepted, published
<1> QED
  BY <1>1, <1>2 DEF DocShape

LEMMA RouteStep ==
  ASSUME DocIInv, UNCHANGED <<descriptor, document, manifest>>,
         \/ \E o \in Owners, p \in Paths, e \in Entries : Declare(o, p, e)
         \/ Compose \/ (\E p \in Paths : Assemble(p)) \/ Assembled
         \/ MountAssets \/ Secure \/ Share \/ MountHealth \/ MountSpa
  PROVE  DocShape'
<1>1. CASE \E o \in Owners, p \in Paths, e \in Entries : Declare(o, p, e)
  <2>1. phase = "declaring" /\ phase' = "declaring"
    BY <1>1 DEF Declare
  <2>2. descriptor = <<>> /\ ~published
    BY <2>1 DEF DocIInv, DocShape, Early, accepted
  <2> QED
    BY <2>1, <2>2 DEF DocShape, Late, published
<1>2. CASE Compose \/ (\E p \in Paths : Assemble(p)) \/ Assembled \/ MountAssets \/ Secure \/ Share
  <2>1. phase \in Early /\ (phase' \in Early \cup {"openapi", "refused"}) /\ UNCHANGED <<config, declared>>
    BY <1>2 DEF Compose, Assemble, Assembled, MountAssets, Secure, Share, Refuse, Enter, Early
  <2> QED
    BY <2>1, LeftAlone DEF DocIInv, Early, Late
<1>3. CASE MountHealth \/ MountSpa
  <2>1. phase \in {"health", "spa"} /\ phase' \notin Early /\ UNCHANGED <<config, declared>>
    BY <1>3 DEF MountHealth, MountSpa, MountRows, Refuse, Enter, Early
  <2> QED
    BY <2>1, LeftAlone DEF DocIInv, Late
<1> QED
  BY <1>1, <1>2, <1>3

LEMMA FactsAtOpenApi ==
  ASSUME IInv, phase = "openapi" PROVE all = apiFacts /\ lugasFacts = apiLugas
<1>1. facts \in [apiFacts -> {1}]
  BY DEF IInv, FactsShape
<1>2. all = apiFacts
  BY <1>1 DEF all, BagToSet
<1> QED
  BY <1>2 DEF lugasFacts, apiLugas

LEMMA DescribeStep == ASSUME DocIInv, Describe PROVE DocShape'
<1>1. phase = "openapi" /\ UNCHANGED <<vars, document, manifest>> /\ descriptor' \in [apiLugas -> Descriptors]
  BY FactsAtOpenApi DEF Describe, DocIInv
<1>2. UNCHANGED apiLugas
  BY <1>1, FrameDeclared DEF vars, apiLugas
<1>3. ~published'
  BY <1>1 DEF DocIInv, DocShape, accepted, published
<1> QED
  BY <1>1, <1>2, <1>3 DEF DocShape, Early, Late, vars

LEMMA GenerateStep == ASSUME DocIInv, Generate PROVE DocShape'
<1>1. phase = "openapi" /\ MountOpenApi /\ UNCHANGED <<config, declared, descriptor, manifest>>
  BY DEF Generate, MountOpenApi, MountRows, Refuse
<1>2. ~published'
  BY <1>1 DEF DocIInv, DocShape, accepted, published
<1>3. phase' \in {"refused", "health"}
  BY <1>1 DEF MountOpenApi, MountRows, Refuse, Enter
<1>4. UNCHANGED <<apiLugas, apiDocumented, openapiPaths>> /\ \A f : UNCHANGED operation(f)
  BY <1>1, FrameDocuments
<1>5. CASE openapiPaths = {} \/ phase' = "refused"
  BY <1>1, <1>2, <1>3, <1>4, <1>5 DEF DocIInv, DocShape, Early, Late
<1>6. CASE openapiPaths # {} /\ phase' # "refused"
  <2>1. all = apiFacts /\ lugasFacts = apiLugas
    BY <1>1, FactsAtOpenApi DEF DocIInv
  <2>2. descriptor \in [apiLugas -> Descriptors]
    <3>1. DOMAIN descriptor = apiLugas
      BY <1>6, <2>1 DEF Generate
    <3>2. descriptor = <<>> => descriptor \in [{} -> Descriptors]
      OBVIOUS
    <3> QED
      BY <3>1, <3>2 DEF DocIInv, DocShape
  <2>3. generates(document')
    BY <1>6 DEF Generate
  <2>4. PICK kept \in SUBSET apiDocumented :
          /\ \A f \in apiDocumented : \E g \in kept : Keyed(f, g)
          /\ \A f, g \in kept : Keyed(f, g) => f = g
          /\ document' = {operation(f) : f \in kept}
    BY <2>1, <2>3 DEF generates, apiDocumented, Keyed
  <2>5. document' = {operation(f)' : f \in kept}
    BY <1>4, <2>4
  <2>6. Shown'
    BY <1>4, <2>4, <2>5 DEF Shown, Keyed, openApiPath
  <2> QED
    BY <1>1, <1>2, <1>3, <1>4, <2>2, <2>6 DEF DocShape, Early
<1> QED
  BY <1>5, <1>6

LEMMA BuildStep == ASSUME DocIInv, BuildManifest PROVE DocShape'
<1>1. phase = "accepted" /\ UNCHANGED <<vars, descriptor, document>> /\ manifest' = Built
  BY DEF BuildManifest, Built
<1>2. UNCHANGED <<apiLugas, openapiPaths, Shown, Built>>
  BY <1>1, FrameDocuments, FrameShown, FrameManifest DEF vars
<1> QED
  BY <1>1, <1>2 DEF DocIInv, DocShape, vars, accepted

LEMMA DocStutters == ASSUME DocIInv, UNCHANGED dvars PROVE DocShape'
<1>1. UNCHANGED <<apiLugas, openapiPaths, Shown, Built, published, accepted>>
  BY FrameDocuments, FrameShown, FrameManifest DEF dvars, vars, published, accepted
<1> QED
  BY <1>1 DEF DocIInv, DocShape, dvars, vars

LEMMA DocInductive == ASSUME DocIInv, [DocNext]_dvars PROVE DocIInv'
<1>1. IInv'
  BY DocStep, Step DEF DocIInv
<1>2. DocShape'
  BY RouteStep, DescribeStep, GenerateStep, BuildStep, DocStutters DEF DocNext
<1> QED
  BY <1>1, <1>2 DEF DocIInv

\* The documents never leave their invariant (openapi.ts, manifest.ts).
THEOREM DocumentsInductive == DocSpec => []DocIInv
  BY DocInitially, DocInductive, PTL DEF DocSpec

-----------------------------------------------------------------------------
(* DocumentTruth.                                                          *)

Lugas(c) == c.kind \in {"lugas", "socket"}

\* The gate is inside the pipelines that were declared, and nothing else.
LEMMA GateDue ==
  ASSUME IInv, accepted, NEW r \in table
  PROVE  /\ gated(r) <=> r.value = "handler" /\ isPipeline(r)
         /\ gated(r) => r.owner \in Owners
<1>1. gated(r) <=> r.value = "handler" /\ isPipeline(r)
  <2>1. "gate" \in due(r) <=> isPipeline(r)
    BY DEF due, Policies
  <2>2. Range(r.layers) = IF r.value = "handler" THEN due(r) ELSE {}
    BY RowsCovered DEF Covered
  <2> QED
    BY <2>1, <2>2 DEF gated
<1>2. isPipeline(r) => r.owner \in Owners
  BY DEF isPipeline, IInv, Typed
<1> QED
  BY <1>1, <1>2

\* Rows behind the pipeline are those compiled from lugas claims.
LEMMA GatedClaims ==
  ASSUME IInv, accepted, NEW p \in apiPaths, NEW c \in claimed(p)
  PROVE  LET r == Passed(compileMethodValue(p, c))
         IN /\ r \in table /\ r.path = p /\ r.method = c.method /\ r.owner = c.owner
            /\ gated(r) <=> Lugas(c)
<1> DEFINE b == compileMethodValue(p, c)
           r == Passed(b)
<1>1. b \in apiRows
  BY DEF apiRows, rowsOf
<1>2. b.path = p /\ b.method = c.method /\ b.owner = c.owner /\ (Lugas(c) => b.value = "handler")
  BY ONLY CompiledFields DEF Lugas
<1>3. r \in table /\ Same(r, b)
  BY <1>1, Composition, RowPaths, PassedFields
<1>4. isPipeline(r) <=> Lugas(c)
  BY <1>2, <1>3, ClaimedPipeline DEF Same, Lugas
<1> HIDE DEF b, r
<1>5. gated(r) <=> Lugas(c)
  BY <1>2, <1>3, <1>4, GateDue DEF Same
<1> QED
  BY <1>2, <1>3, <1>5 DEF Same, b, r

LEMMA GatedRows ==
  ASSUME IInv, accepted, NEW r \in table, gated(r)
  PROVE  \E p \in apiPaths : \E c \in claimed(p) : Lugas(c) /\ r = Passed(compileMethodValue(p, c))
<1>1. r.owner \in Owners
  BY GateDue
<1>2. r.owner \notin {"asset", "openapi", "health", "spa"}
  BY <1>1, RoutesAssumption DEF Framework
<1>3. r \notin openapiRows \cup healthRows \cup shellRoutes
  BY <1>2, RowPaths
<1>4. \A s \in assetRoutes : r # Passed(s)
  BY <1>2, RowPaths, PassedFields DEF Same
<1>5. PICK s \in apiRows : r = Passed(s)
  BY <1>3, <1>4, Composition
<1>6. PICK p \in apiPaths : s \in rowsOf(p)
  BY <1>5 DEF apiRows
<1>7. PICK c \in claimed(p) : s = compileMethodValue(p, c)
  BY <1>6 DEF rowsOf
<1> QED
  BY <1>5, <1>7, GatedClaims

\* The fact of a claim.
LEMMA ClaimFacts ==
  ASSUME NEW p \in apiPaths, NEW c \in claimed(p)
  PROVE  LET f == compileFact(p, c)
         IN /\ f \in apiFacts /\ f.path = p /\ f.method = c.method
            /\ f.module = IF c.owner \in Modules THEN c.owner ELSE "null"
            /\ f.kind = "lugas" <=> Lugas(c)
<1> DEFINE f == compileFact(p, c)
<1>1. f \in apiFacts
  BY DEF apiFacts, factsOf
<1>2. f = Fact(p, c.method, c.owner, IF Lugas(c) THEN "lugas" ELSE c.kind)
  BY DEF compileFact, Lugas
<1>3. /\ f.path = p /\ f.method = c.method /\ f.kind = IF Lugas(c) THEN "lugas" ELSE c.kind
      /\ f.module = IF c.owner \in Modules THEN c.owner ELSE "null"
  BY ONLY <1>2, FactFields
<1> HIDE DEF f
<1> QED
  BY <1>1, <1>3 DEF f, Lugas

LEMMA FactClaims ==
  ASSUME NEW f \in apiFacts
  PROVE  \E p \in apiPaths : \E c \in claimed(p) : f = compileFact(p, c)
  BY DEF apiFacts, factsOf

\* What an operation shows of its route.
LEMMA Operations ==
  ASSUME descriptor \in [apiLugas -> Descriptors], NEW f \in apiLugas
  PROVE  LET op == operation(f)
         IN /\ op.path = openApiPath(f.path) /\ op.method = f.method /\ op.params = pathParamNames(f.path)
            /\ (op.query # {}) = ("query" \in descriptor[f].slots)
            /\ (op.body # {}) = ("body" \in descriptor[f].slots)
            /\ op.tags \in {{"own"}, {f.module} \ {"null"}}
<1> DEFINE d == seen(f)
<1>1. d.slots = descriptor[f].slots
  BY DescriptorsAssumption DEF seen
<1>2. (queryParameters(d) # {}) = ("query" \in d.slots)
  <2>1. CASE "query" \notin d.slots
    BY <2>1 DEF queryParameters
  <2>2. CASE "query" \in d.slots
    <3>1. Introspected # {} /\ presenceOnly # {}
      BY DescriptorsAssumption DEF presenceOnly
    <3>2. {<<x[1], FALSE>> : x \in Introspected} # {}
      BY <3>1
    <3> HIDE DEF d
    <3> QED
      BY <2>2, <3>1, <3>2 DEF queryParameters
  <2> QED
    BY <2>1, <2>2
<1>3. (requestBody(d) # {}) = ("body" \in d.slots)
  <2>1. CASE "body" \notin d.slots
    BY <2>1 DEF requestBody
  <2>2. CASE "body" \in d.slots
    BY <2>2 DEF requestBody
  <2> QED
    BY <2>1, <2>2
<1> HIDE DEF d
<1>4. LET op == operation(f)
      IN /\ op.path = openApiPath(f.path) /\ op.method = f.method /\ op.params = pathParamNames(f.path)
         /\ op.query = queryParameters(d) /\ op.body = requestBody(d)
         /\ op.tags = IF d.tags THEN {"own"} ELSE {f.module} \ {"null"}
  BY DEF operation, d
<1> QED
  BY <1>1, <1>2, <1>3, <1>4

LEMMA DocumentHolds == ASSUME DocIInv PROVE DocumentTruth
<1> SUFFICES ASSUME published, openapiPaths # {} PROVE DocumentTruth
  BY DEF DocumentTruth
<1>1. IInv /\ accepted /\ descriptor \in [apiLugas -> Descriptors] /\ Shown
  BY DEF DocIInv, DocShape, accepted, Late
<1>2. PICK kept \in SUBSET apiDocumented :
        /\ \A f \in apiDocumented : \E g \in kept : Keyed(f, g)
        /\ \A f, g \in kept : Keyed(f, g) => f = g
        /\ document = {operation(f) : f \in kept}
  BY <1>1 DEF Shown
<1>3. kept \subseteq apiLugas
  BY DEF apiDocumented, apiLugas, documented
<1>4. ASSUME NEW op \in document
      PROVE  \E f \in DOMAIN descriptor :
               /\ op.path = openApiPath(f.path) /\ op.method = f.method /\ op.params = pathParamNames(f.path)
               /\ (op.query # {}) = ("query" \in descriptor[f].slots)
               /\ (op.body # {}) = ("body" \in descriptor[f].slots)
               /\ \E r \in table : /\ r.path = f.path /\ r.method = f.method /\ gated(r)
                                   /\ op.tags = {"own"} \/ op.tags = {r.owner} \cap Modules
  <2>1. PICK f \in kept : op = operation(f)
    BY <1>2
  <2>2. f \in apiLugas /\ f \in apiFacts /\ f.kind = "lugas" /\ f \in DOMAIN descriptor
    BY <1>1, <1>3 DEF apiLugas
  <2>3. PICK p \in apiPaths : \E c \in claimed(p) : f = compileFact(p, c)
    BY <2>2, FactClaims
  <2>4. PICK c \in claimed(p) : f = compileFact(p, c)
    BY <2>3
  <2>5. /\ f.path = p /\ f.method = c.method /\ Lugas(c)
        /\ f.module = IF c.owner \in Modules THEN c.owner ELSE "null"
    BY <2>2, <2>4, ClaimFacts
  <2> DEFINE r == Passed(compileMethodValue(p, c))
  <2>6. r \in table /\ r.path = f.path /\ r.method = f.method /\ r.owner = c.owner /\ gated(r)
    BY <1>1, <2>5, GatedClaims
  <2>7. {f.module} \ {"null"} = {c.owner} \cap Modules
    BY <2>5, RoutesAssumption
  <2>8. /\ op.path = openApiPath(f.path) /\ op.method = f.method /\ op.params = pathParamNames(f.path)
        /\ (op.query # {}) = ("query" \in descriptor[f].slots)
        /\ (op.body # {}) = ("body" \in descriptor[f].slots)
        /\ op.tags \in {{"own"}, {f.module} \ {"null"}}
    BY <1>1, <2>1, <2>2, Operations
  <2> HIDE DEF r
  <2>9. op.tags = {"own"} \/ op.tags = {r.owner} \cap Modules
    BY <2>6, <2>7, <2>8
  <2> QED
    BY <2>2, <2>6, <2>8, <2>9
<1>5. ASSUME NEW r \in table, gated(r), r.method # star
      PROVE  Cardinality({op \in document : op.path = openApiPath(r.path) /\ op.method = r.method}) = 1
  <2>1. PICK p \in apiPaths : \E c \in claimed(p) : Lugas(c) /\ r = Passed(compileMethodValue(p, c))
    BY <1>1, <1>5, GatedRows
  <2>2. PICK c \in claimed(p) : Lugas(c) /\ r = Passed(compileMethodValue(p, c))
    BY <2>1
  <2> DEFINE f == compileFact(p, c)
  <2>3. r.path = p /\ r.method = c.method
    BY <1>1, <2>2, GatedClaims
  <2>4. f \in apiDocumented /\ f.path = r.path /\ f.method = r.method
    BY <1>5, <2>2, <2>3, ClaimFacts DEF apiDocumented, documented
  <2>5. PICK g \in kept : Keyed(f, g)
    BY <1>2, <2>4
  <2>6. \A h \in kept : operation(h).path = openApiPath(h.path) /\ operation(h).method = h.method
    BY <1>1, <1>3, Operations
  <2>7. openApiPath(g.path) = openApiPath(r.path) /\ g.method = r.method
    BY <2>4, <2>5 DEF Keyed
  <2> HIDE DEF f
  <2>8. {op \in document : op.path = openApiPath(r.path) /\ op.method = r.method} = {operation(g)}
    <3>1. ASSUME NEW op \in document, op.path = openApiPath(r.path), op.method = r.method PROVE op = operation(g)
      <4>1. PICK h \in kept : op = operation(h)
        BY <1>2, <3>1
      <4>2. Keyed(h, g)
        BY <2>6, <2>7, <3>1, <4>1 DEF Keyed
      <4> QED
        BY <1>2, <4>1, <4>2
    <3>2. operation(g) \in document
      BY <1>2
    <3> QED
      BY <2>6, <2>7, <3>1, <3>2
  <2> QED
    BY <2>8, FS_Singleton
<1> QED
  BY <1>4, <1>5 DEF DocumentTruth

\* The OpenAPI document shows the API that is served (openapi.ts).
THEOREM DocumentTrue == DocSpec => []DocumentTruth
  BY DocumentsInductive, DocumentHolds, PTL

-----------------------------------------------------------------------------
(* ManifestTruth.                                                          *)

\* A path has one place in the order, a method too.
LEMMA RankType ==
  /\ \A p \in Range(Order) : Rank(p) \in 1 .. Len(Order) /\ Order[Rank(p)] = p
  /\ \A p, q \in Range(Order) : Rank(p) = Rank(q) => p = q
  /\ Len(Order) \in Nat
<1>1. DOMAIN Order = 1 .. Len(Order) /\ Len(Order) \in Nat
  BY OrderAssumption
<1>2. ASSUME NEW p \in Range(Order) PROVE Rank(p) \in DOMAIN Order /\ Order[Rank(p)] = p
  <2>1. \E i \in DOMAIN Order : Order[i] = p
    BY <1>2 DEF Range
  <2> QED
    BY <2>1 DEF Rank
<1>3. ASSUME NEW p \in Range(Order), NEW q \in Range(Order), Rank(p) = Rank(q) PROVE p = q
  BY <1>2, <1>3
<1> QED
  BY <1>1, <1>2, <1>3

LEMMA MethodRankType ==
  /\ \A m \in Range(MethodOrder) : MethodRank(m) \in 1 .. 8
  /\ \A m, n \in Range(MethodOrder) : MethodRank(m) = MethodRank(n) => m = n
  /\ Methods \cup {star, "GET", "HEAD"} \subseteq Range(MethodOrder)
<1>1. DOMAIN MethodOrder = 1 .. 8
  BY DEF MethodOrder
<1>2. ASSUME NEW m \in Range(MethodOrder) PROVE MethodRank(m) \in DOMAIN MethodOrder /\ MethodOrder[MethodRank(m)] = m
  <2>1. \E i \in DOMAIN MethodOrder : MethodOrder[i] = m
    BY <1>2 DEF Range
  <2> QED
    BY <2>1 DEF MethodRank
<1>3. MethodOrder[1] = star /\ MethodOrder[3] = "GET" /\ MethodOrder[4] = "HEAD"
  BY DEF MethodOrder
<1>4. {star, "GET", "HEAD"} \subseteq Range(MethodOrder)
  BY <1>1, <1>3 DEF Range
<1>5. ASSUME NEW m \in Range(MethodOrder), NEW n \in Range(MethodOrder), MethodRank(m) = MethodRank(n) PROVE m = n
  BY <1>2, <1>5
<1> QED
  BY <1>1, <1>2, <1>4, <1>5, OrderAssumption

mounted == endpointFacts(openapiRows) \cup endpointFacts(healthRows) \cup endpointFacts(shellRoutes)

\* The fact of a mounted row.
LEMMA MountedFacts ==
  /\ \A r \in openapiRows \cup healthRows \cup shellRoutes :
       Fact(r.path, r.method, r.owner, "function") \in mounted
  /\ \A f \in mounted : \E r \in openapiRows \cup healthRows \cup shellRoutes :
       f = Fact(r.path, r.method, r.owner, "function")
  /\ \A r \in openapiRows \cup healthRows \cup shellRoutes : r.owner \notin Owners /\ r.owner # "asset"
<1>1. \A r \in openapiRows \cup healthRows \cup shellRoutes : r.owner \notin Owners /\ r.owner # "asset"
  BY RowPaths, RoutesAssumption DEF Framework
<1> QED
  BY <1>1 DEF mounted, endpointFacts

LEMMA MountedFields ==
  ASSUME NEW f \in mounted
  PROVE  /\ f = Fact(f.path, f.method, "asset", "function") /\ f.module = "null" /\ f.kind = "function"
         /\ f.path \in openapiPaths \cup healthPaths \cup config.spa /\ f.method \in {"GET", "HEAD"}
<1>1. PICK r \in openapiRows \cup healthRows \cup shellRoutes : f = Fact(r.path, r.method, r.owner, "function")
  BY MountedFacts
<1>2. r.owner \notin Modules /\ "asset" \notin Modules
  BY MountedFacts, RoutesAssumption DEF Framework
<1>3. f.path = r.path /\ f.method = r.method /\ f.module = "null" /\ f.kind = "function"
  BY ONLY <1>1, <1>2, FactFields
<1>4. Fact(r.path, r.method, r.owner, "function") = Fact(r.path, r.method, "asset", "function")
  BY <1>2 DEF Fact
<1>5. r.path \in openapiPaths \cup healthPaths \cup config.spa
  BY RowPaths
<1>6. r.method \in {"GET", "HEAD"}
  <2>1. \A s \in shellRoutes : s.method \in {"GET", "HEAD"}
    BY RouteFields DEF shellRoutes
  <2> QED
    BY <2>1, RowPaths
<1> QED
  BY <1>1, <1>3, <1>4, <1>5, <1>6

\* No two facts are about one method of one path.
LEMMA FactsKeyed ==
  ASSUME IInv, accepted
  PROVE  /\ all = apiFacts \cup mounted /\ \A f \in all : facts[f] \in 1 .. 2
         /\ \A f \in all : f.path \in Range(Order) /\ f.method \in Range(MethodOrder)
         /\ \A f, g \in all : f.path = g.path /\ f.method = g.method => f = g
<1>1. facts \in [apiFacts \cup mounted -> 1 .. 2]
  BY DEF IInv, FactsShape, mounted
<1>2. all = apiFacts \cup mounted /\ \A f \in all : facts[f] \in 1 .. 2
  BY <1>1 DEF all, BagToSet
<1>3. ASSUME NEW f \in apiFacts
      PROVE  /\ f.path \in apiPaths /\ f.path \in Range(Order) /\ f.method \in Range(MethodOrder)
             /\ \A g \in apiFacts : f.path = g.path /\ f.method = g.method => f = g
  <2>1. PICK p \in apiPaths : \E c \in claimed(p) : f = compileFact(p, c)
    BY FactClaims
  <2>2. PICK c \in claimed(p) : f = compileFact(p, c)
    BY <2>1
  <2>3. f.path = p /\ f.method = c.method
    BY <2>2, ClaimFacts
  <2>4. p \in Range(Order)
    <3>1. p \in Paths
      BY DEF IInv, Typed, apiPaths
    <3> QED
      BY <3>1, OrderAssumption
  <2>5. c.method \in Range(MethodOrder)
    BY Passing, ClaimsDiffer, MethodRankType
  <2>6. ASSUME NEW g \in apiFacts, f.path = g.path, f.method = g.method PROVE f = g
    <3>1. PICK q \in apiPaths : \E d \in claimed(q) : g = compileFact(q, d)
      BY FactClaims
    <3>2. PICK d \in claimed(q) : g = compileFact(q, d)
      BY <3>1
    <3>3. g.path = q /\ g.method = d.method
      BY <3>2, ClaimFacts
    <3>4. q = p /\ c = d
      BY <2>3, <2>6, <3>3, Passing, ClaimsDiffer
    <3> QED
      BY <2>2, <3>2, <3>4
  <2> QED
    BY <2>3, <2>4, <2>5, <2>6
<1>4. ASSUME NEW f \in mounted
      PROVE  /\ f.path \notin apiPaths /\ f.path \in Range(Order) /\ f.method \in Range(MethodOrder)
             /\ \A g \in mounted : f.path = g.path /\ f.method = g.method => f = g
  <2>1. /\ f = Fact(f.path, f.method, "asset", "function")
        /\ f.path \in openapiPaths \cup healthPaths \cup config.spa /\ f.method \in {"GET", "HEAD"}
    BY MountedFields
  <2>2. f.path \notin apiPaths
    BY <2>1, Apart
  <2>3. f.path \in Range(Order)
    <3>1. config \in Configs
      BY Passing
    <3> QED
      BY <2>1, <3>1, OrderAssumption DEF openapiPaths, healthPaths
  <2>4. \A g \in mounted : g = Fact(g.path, g.method, "asset", "function")
    BY MountedFields
  <2> QED
    BY <2>1, <2>2, <2>3, <2>4, MethodRankType
<1> QED
  BY <1>2, <1>3, <1>4

\* A fact has its row, and a row but an asset's has its fact.
LEMMA FactRows ==
  ASSUME IInv, accepted, NEW f \in all
  PROVE  \E r \in table : /\ f.path = r.path /\ f.method = r.method /\ r.owner # "asset"
                          /\ f.module \in Modules => r.owner = f.module
<1>1. CASE f \in apiFacts
  <2>1. PICK p \in apiPaths : \E c \in claimed(p) : f = compileFact(p, c)
    BY <1>1, FactClaims
  <2>2. PICK c \in claimed(p) : f = compileFact(p, c)
    BY <2>1
  <2>3. f.path = p /\ f.method = c.method /\ f.module = IF c.owner \in Modules THEN c.owner ELSE "null"
    BY <2>2, ClaimFacts
  <2> DEFINE r == Passed(compileMethodValue(p, c))
  <2>4. r \in table /\ r.path = p /\ r.method = c.method /\ r.owner = c.owner
    BY GatedClaims
  <2>5. c.owner \in Owners
    <3>1. PICK d \in claims(p) : c = [owner |-> d.owner, method |-> c.method, kind |-> d.entry[c.method]]
      BY ClaimOf
    <3>2. d \in declared /\ c.owner = d.owner
      BY <3>1 DEF claims
    <3> QED
      BY <3>2 DEF IInv, Typed
  <2>6. c.owner # "asset" /\ "null" \notin Modules
    BY <2>5, RoutesAssumption DEF Framework
  <2> HIDE DEF r
  <2> QED
    BY <2>3, <2>4, <2>6
<1>2. CASE f \in mounted
  <2>1. f.module = "null" /\ "null" \notin Modules
    BY <1>2, MountedFields, RoutesAssumption
  <2>2. PICK r \in openapiRows \cup healthRows \cup shellRoutes : f = Fact(r.path, r.method, r.owner, "function")
    BY <1>2, MountedFacts
  <2>3. f.path = r.path /\ f.method = r.method /\ r.owner # "asset"
    BY <2>2, FactFields, MountedFacts
  <2>4. CASE r \in table
    BY <2>1, <2>3, <2>4
  <2>5. CASE r \notin table
    <3>1. r \in openapiRows /\ r.path \in healthPaths
      BY <2>5, Composition
    <3>2. Route(r.path, "GET", "health", "handler", EndpointLayers) \in healthRows /\ r.method = "GET"
      BY <3>1, RowPaths DEF healthRows
    <3>3. \E s \in healthRows : s.path = r.path /\ s.method = r.method /\ s.owner = "health"
      BY <3>2, RouteFields
    <3> QED
      BY <2>1, <2>3, <3>3, Composition
  <2> QED
    BY <2>4, <2>5
<1> QED
  BY <1>1, <1>2, FactsKeyed

LEMMA RowFacts ==
  ASSUME IInv, accepted, NEW r \in table, r.owner # "asset"
  PROVE  \E f \in all : /\ f.path = r.path /\ f.method = r.method
                        /\ f.module = IF r.owner \in Modules THEN r.owner ELSE "null"
                        /\ (f.kind = "lugas") = gated(r)
<1>1. CASE r \in openapiRows \cup healthRows \cup shellRoutes
  <2> DEFINE f == Fact(r.path, r.method, r.owner, "function")
  <2>1. f \in all
    BY <1>1, MountedFacts, FactsKeyed
  <2>2. /\ f.path = r.path /\ f.method = r.method /\ f.kind = "function"
        /\ f.module = IF r.owner \in Modules THEN r.owner ELSE "null"
    BY ONLY FactFields
  <2>3. ~gated(r)
    <3>1. r.owner \notin Owners
      BY <1>1, MountedFacts
    <3> QED
      BY <3>1, GateDue
  <2> HIDE DEF f
  <2>4. (f.kind = "lugas") = gated(r)
    BY <2>2, <2>3 DEF gated
  <2> QED
    BY <2>1, <2>2, <2>4
<1>2. CASE r \notin openapiRows \cup healthRows \cup shellRoutes
  <2>1. \A s \in assetRoutes : r # Passed(s)
    BY RowPaths, PassedFields DEF Same
  <2>2. PICK s \in apiRows : r = Passed(s)
    BY <1>2, <2>1, Composition
  <2>3. PICK p \in apiPaths : s \in rowsOf(p)
    BY <2>2 DEF apiRows
  <2>4. PICK c \in claimed(p) : s = compileMethodValue(p, c)
    BY <2>3 DEF rowsOf
  <2> DEFINE f == compileFact(p, c)
  <2>5. r.path = p /\ r.method = c.method /\ r.owner = c.owner /\ (gated(r) <=> Lugas(c))
    BY <2>2, <2>4, GatedClaims
  <2>6. /\ f \in apiFacts /\ f.path = p /\ f.method = c.method
        /\ f.module = IF c.owner \in Modules THEN c.owner ELSE "null"
        /\ f.kind = "lugas" <=> Lugas(c)
    BY ClaimFacts
  <2>7. f \in all
    BY <2>6, FactsKeyed
  <2> HIDE DEF f
  <2>8. (f.kind = "lugas") = gated(r)
    BY <2>5, <2>6 DEF gated
  <2> QED
    BY <2>5, <2>6, <2>7, <2>8
<1> QED
  BY <1>1, <1>2

-----------------------------------------------------------------------------
(* The records: a fact as often as it is in the bag.                       *)

Records == UNION {{<<f, i>> : i \in 1 .. facts[f]} : f \in DOMAIN facts}

Key(x) == 27 * Rank(x[1].path) + 3 * MethodRank(x[1].method) + x[2]

\* A record is a fact and which of its copies.
LEMMA RecordFields ==
  ASSUME IInv, accepted
  PROVE  /\ \A x \in Records : /\ x[1] \in all /\ x[2] \in 1 .. 2 /\ x = <<x[1], x[2]>>
                               /\ Rank(x[1].path) \in 1 .. Len(Order) /\ MethodRank(x[1].method) \in 1 .. 8
         /\ \A f \in all : <<f, 1>> \in Records
<1>1. all = DOMAIN facts /\ \A f \in all : facts[f] \in 1 .. 2
  BY FactsKeyed DEF all, BagToSet
<1>2. ASSUME NEW x \in Records PROVE x[1] \in all /\ x[2] \in 1 .. 2 /\ x = <<x[1], x[2]>>
  <2>1. PICK f \in DOMAIN facts : x \in {<<f, i>> : i \in 1 .. facts[f]}
    BY DEF Records
  <2>2. PICK i \in 1 .. facts[f] : x = <<f, i>>
    BY <2>1
  <2>3. i \in 1 .. 2
    BY <1>1, <2>1
  <2> QED
    BY <1>1, <2>1, <2>2, <2>3
<1>3. ASSUME NEW f \in all PROVE <<f, 1>> \in Records
  <2>1. 1 \in 1 .. facts[f]
    BY <1>1
  <2> QED
    BY <1>1, <2>1 DEF Records
<1> QED
  BY <1>2, <1>3, FactsKeyed, RankType, MethodRankType

\* sortForSerialization() compares by an injective key.
LEMMA RecordOrder ==
  ASSUME IInv, accepted, NEW x \in Records, NEW y \in Records
  PROVE  /\ Key(x) \in 1 .. 27 * Len(Order) + 27 /\ 27 * Len(Order) + 27 \in Nat
         /\ sortForSerialization(x, y) <=> Key(x) < Key(y)
         /\ Key(x) = Key(y) => x = y
<1> DEFINE a == Rank(x[1].path)
           b == MethodRank(x[1].method)
           i == x[2]
           c == Rank(y[1].path)
           d == MethodRank(y[1].method)
           j == y[2]
           n == Len(Order)
<1>1. a \in 1 .. n /\ b \in 1 .. 8 /\ i \in 1 .. 2 /\ c \in 1 .. n /\ d \in 1 .. 8 /\ j \in 1 .. 2
  BY RecordFields
<1>2. n \in Nat
  BY RankType
<1>3. (a = c <=> x[1].path = y[1].path) /\ (b = d <=> x[1].method = y[1].method)
  BY RecordFields, FactsKeyed, RankType, MethodRankType
<1>4. Key(x) = 27 * a + 3 * b + i /\ Key(y) = 27 * c + 3 * d + j
  BY DEF Key
<1>5. sortForSerialization(x, y) <=> a < c \/ (a = c /\ (b < d \/ (b = d /\ i < j)))
  BY <1>3 DEF sortForSerialization, Before
<1>6. a = c /\ b = d /\ i = j => x = y
  BY <1>3, RecordFields, FactsKeyed
<1> HIDE DEF a, b, c, d, i, j, n
<1>7. Key(x) \in 1 .. 27 * n + 27 /\ 27 * n + 27 \in Nat
  BY <1>1, <1>2, <1>4
<1>8. a < c \/ (a = c /\ (b < d \/ (b = d /\ i < j))) <=> Key(x) < Key(y)
  BY <1>1, <1>2, <1>4
<1>9. Key(x) = Key(y) => a = c /\ b = d /\ i = j
  BY <1>1, <1>2, <1>4
<1> QED
  BY <1>5, <1>6, <1>7, <1>8, <1>9 DEF n

\* The records are all there, in the order of their keys.
LEMMA RecordsSorted ==
  ASSUME IInv, accepted
  PROVE  /\ records \in [1 .. Cardinality(Records) -> Records] /\ Cardinality(Records) \in Nat
         /\ \A i, j \in 1 .. Cardinality(Records) : i < j => Key(records[i]) < Key(records[j])
         /\ \A x \in Records : \E i \in 1 .. Cardinality(Records) : records[i] = x
<1> DEFINE k == [x \in Records |-> Key(x)]
           N == 27 * Len(Order) + 27
<1>1. \A x \in Records : k[x] = Key(x) /\ k[x] \in 1 .. N /\ N \in Nat
  BY RecordOrder
<1>2. \A x, y \in Records : k[x] = k[y] => x = y
  BY <1>1, RecordOrder
<1>3. IsFiniteSet(Records)
  <2>1. CASE Records = {}
    BY <2>1, FS_EmptySet
  <2>2. CASE Records # {}
    <3>1. k \in [Records -> 1 .. N] /\ N \in Nat
      BY <1>1, <2>2
    <3>2. k \in Injection(Records, 1 .. N)
      BY <1>2, <3>1 DEF Injection, IsInjective
    <3> HIDE DEF k, N
    <3>3. IsFiniteSet(1 .. N)
      BY <3>1, FS_Interval
    <3> QED
      BY <3>2, <3>3, FS_Injection
  <2> QED
    BY <2>1, <2>2
<1>4. k \in [Records -> Int]
  BY <1>1
<1>5. records = [i \in 1 .. Cardinality(Records) |->
                   CHOOSE x \in Records : Cardinality({y \in Records : sortForSerialization(y, x)}) = i - 1]
  BY DEF records, Records, Sorted
<1>6. \A x \in Records : {y \in Records : sortForSerialization(y, x)} = {y \in Records : k[y] < k[x]}
  BY <1>1, RecordOrder
<1>7. records = Ranked(Records, k)
  <2> HIDE DEF k
  <2> DEFINE A(i) == CHOOSE x \in Records : Cardinality({y \in Records : sortForSerialization(y, x)}) = i - 1
             B(i) == CHOOSE x \in Records : Cardinality({y \in Records : k[y] < k[x]}) = i - 1
  <2>1. ASSUME NEW i PROVE A(i) = B(i)
    BY <1>6
  <2>2. /\ records = [i \in 1 .. Cardinality(Records) |-> A(i)]
        /\ Ranked(Records, k) = [i \in 1 .. Cardinality(Records) |-> B(i)]
    BY <1>5 DEF Ranked
  <2> HIDE DEF A, B
  <2> QED
    BY ONLY <2>1, <2>2
<1> HIDE DEF k
<1>8. /\ records \in [1 .. Cardinality(Records) -> Records] /\ Cardinality(Records) \in Nat
      /\ \A i, j \in 1 .. Cardinality(Records) : i < j => k[records[i]] < k[records[j]]
      /\ \A x \in Records : \E i \in 1 .. Cardinality(Records) : records[i] = x
  BY ONLY <1>2, <1>3, <1>4, <1>7, SortedByKey
<1> QED
  BY <1>1, <1>8

-----------------------------------------------------------------------------
\* A module lists each of its paths once.
LEMMA ModuleSorted ==
  ASSUME IInv, accepted, NEW n \in Modules
  PROVE  IsInjective(moduleRoutes(n)) /\ Range(moduleRoutes(n)) = {f.path : f \in {g \in all : g.module = n}}
<1> DEFINE S == {f.path : f \in {g \in all : g.module = n}}
           k == [p \in S |-> Rank(p)]
           own == moduleRoutes(n)
<1>1. \A p \in S : p \in Range(Order)
  BY FactsKeyed
<1> HIDE DEF S
<1>2. \A p \in S : k[p] = Rank(p) /\ k[p] \in 1 .. Len(Order)
  BY <1>1, RankType
<1>3. \A p, q \in S : k[p] = k[q] => p = q
  BY <1>1, <1>2, RankType
<1>4. IsFiniteSet(S)
  <2>1. k \in [S -> 1 .. Len(Order)]
    BY <1>2
  <2>2. k \in Injection(S, 1 .. Len(Order))
    BY <1>3, <2>1 DEF Injection, IsInjective
  <2> HIDE DEF k
  <2>3. IsFiniteSet(1 .. Len(Order))
    BY RankType, FS_Interval
  <2> QED
    BY <2>2, <2>3, FS_Injection
<1>5. k \in [S -> Int]
  BY <1>2
<1>6. own = [i \in 1 .. Cardinality(S) |-> CHOOSE x \in S : Cardinality({y \in S : Before(y, x)}) = i - 1]
  BY DEF moduleRoutes, Sorted, S
<1>7. \A x \in S : {y \in S : Before(y, x)} = {y \in S : k[y] < k[x]}
  BY <1>2 DEF Before
<1>8. own = Ranked(S, k)
  <2> HIDE DEF k
  <2> DEFINE A(i) == CHOOSE x \in S : Cardinality({y \in S : Before(y, x)}) = i - 1
             B(i) == CHOOSE x \in S : Cardinality({y \in S : k[y] < k[x]}) = i - 1
  <2>1. ASSUME NEW i PROVE A(i) = B(i)
    BY <1>7
  <2>2. /\ own = [i \in 1 .. Cardinality(S) |-> A(i)]
        /\ Ranked(S, k) = [i \in 1 .. Cardinality(S) |-> B(i)]
    BY <1>6 DEF Ranked
  <2> HIDE DEF A, B
  <2> QED
    BY ONLY <2>1, <2>2
<1> HIDE DEF k, own
<1>9. /\ own \in [1 .. Cardinality(S) -> S] /\ Cardinality(S) \in Nat
      /\ \A i, j \in 1 .. Cardinality(S) : i < j => k[own[i]] < k[own[j]]
      /\ \A x \in S : \E i \in 1 .. Cardinality(S) : own[i] = x
  BY ONLY <1>3, <1>4, <1>5, <1>8, SortedByKey
<1>10. IsInjective(own)
  <2> SUFFICES ASSUME NEW i \in 1 .. Cardinality(S), NEW j \in 1 .. Cardinality(S), own[i] = own[j], i # j PROVE FALSE
    BY <1>9 DEF IsInjective
  <2>1. i < j \/ j < i
    BY <1>9
  <2>2. k[own[i]] \in Int /\ k[own[i]] < k[own[i]]
    BY <1>5, <1>9, <2>1
  <2> QED
    BY <2>2
<1>11. Range(own) = S
  BY <1>9 DEF Range
<1> QED
  BY <1>10, <1>11 DEF own, S

LEMMA ManifestHolds == ASSUME DocIInv PROVE ManifestTruth
<1> SUFFICES ASSUME published PROVE ManifestTruth
  BY DEF ManifestTruth
<1>1. IInv /\ accepted /\ manifest = Built
  BY DEF DocIInv, DocShape
<1> DEFINE n == Cardinality(Records)
           routes == manifest.routes
<1>2. /\ records \in [1 .. n -> Records] /\ n \in Nat
      /\ \A i, j \in 1 .. n : i < j => Key(records[i]) < Key(records[j])
      /\ \A x \in Records : \E i \in 1 .. n : records[i] = x
  BY <1>1, RecordsSorted
<1>3. DOMAIN routes = 1 .. n /\ \A i \in 1 .. n : routes[i] = records[i][1]
  BY <1>1, <1>2 DEF Built
<1> HIDE DEF n, routes
<1>4. ASSUME NEW r \in table, r.owner # "asset"
      PROVE  \E i \in DOMAIN routes :
               LET f == routes[i]
               IN /\ f.path = r.path /\ f.method = r.method
                  /\ f.module = (IF r.owner \in Modules THEN r.owner ELSE "null")
                  /\ (f.kind = "lugas") = gated(r)
  <2>1. PICK f \in all : /\ f.path = r.path /\ f.method = r.method
                         /\ f.module = IF r.owner \in Modules THEN r.owner ELSE "null"
                         /\ (f.kind = "lugas") = gated(r)
    BY <1>1, <1>4, RowFacts
  <2>2. <<f, 1>> \in Records
    BY <1>1, RecordFields
  <2>3. PICK i \in 1 .. n : records[i] = <<f, 1>>
    BY <1>2, <2>2
  <2>4. i \in DOMAIN routes /\ routes[i] = f
    BY <1>3, <2>3
  <2> QED
    BY <2>1, <2>4
<1>5. ASSUME NEW i \in DOMAIN routes
      PROVE  \E r \in table : routes[i].path = r.path /\ routes[i].method = r.method /\ r.owner # "asset"
  <2>1. routes[i] \in all
    BY <1>1, <1>2, <1>3, RecordFields
  <2> QED
    BY <1>1, <2>1, FactRows
<1>6. ASSUME NEW i \in DOMAIN routes, i > 1
      PROVE  \/ Rank(routes[i - 1].path) < Rank(routes[i].path)
             \/ /\ routes[i - 1].path = routes[i].path
                /\ MethodRank(routes[i - 1].method) <= MethodRank(routes[i].method)
  <2> DEFINE x == records[i - 1]
             y == records[i]
  <2>1. i \in 1 .. n /\ i - 1 \in 1 .. n
    BY <1>2, <1>3, <1>6
  <2>2. x \in Records /\ y \in Records /\ Key(x) < Key(y)
    BY <1>2, <2>1
  <2>3. routes[i - 1] = x[1] /\ routes[i] = y[1]
    BY <1>3, <2>1
  <2> HIDE DEF x, y
  <2>4. sortForSerialization(x, y)
    BY <1>1, <2>2, RecordOrder
  <2>5. MethodRank(x[1].method) \in 1 .. 8 /\ MethodRank(y[1].method) \in 1 .. 8
    BY <1>1, <2>2, RecordFields
  <2>6. MethodRank(x[1].method) < MethodRank(y[1].method) \/ x[1].method = y[1].method
          => MethodRank(x[1].method) <= MethodRank(y[1].method)
    BY <2>5
  <2> QED
    BY <2>3, <2>4, <2>6 DEF sortForSerialization, Before
<1>7. ASSUME NEW m \in Modules
      PROVE  /\ IsInjective(manifest.modules[m])
             /\ Range(manifest.modules[m]) = {r.path : r \in {s \in table : s.owner = m}}
  <2>1. manifest.modules[m] = moduleRoutes(m)
    BY <1>1 DEF Built
  <2>2. m # "null" /\ m # "asset" /\ m \in Owners
    BY RoutesAssumption DEF Framework
  <2>3. \A f \in {g \in all : g.module = m} : \E r \in {s \in table : s.owner = m} : f.path = r.path
    BY <1>1, FactRows
  <2>4. \A r \in {s \in table : s.owner = m} : \E f \in {g \in all : g.module = m} : f.path = r.path
    BY <1>1, <2>2, RowFacts
  <2>5. {f.path : f \in {g \in all : g.module = m}} = {r.path : r \in {s \in table : s.owner = m}}
    BY <2>3, <2>4
  <2> QED
    BY <1>1, <2>1, <2>5, ModuleSorted
<1> QED
  BY <1>4, <1>5, <1>6, <1>7 DEF ManifestTruth, routes

\* The manifest tells what is served, each record and path in its place
\* (manifest.ts, ADR-0017).
THEOREM ManifestTrue == DocSpec => []ManifestTruth
  BY DocumentsInductive, ManifestHolds, PTL

=============================================================================
