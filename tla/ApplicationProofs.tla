-------------------------- MODULE ApplicationProofs --------------------------
(***************************************************************************)
(* An application, from the file that defines it to the calls of serve()   *)
(* that share it.                                                          *)
(*                                                                         *)
(* First the file (Definition), alone and inside the command's child (Cli):*)
(* what defineApp() accepted is what is served, however the file goes on   *)
(* with its arrays, maps and services.  The invariant speaks of the two    *)
(* objects nobody but the framework can reach, the frozen chain and the    *)
(* slots, and not of the caller's, which may hold anything by now.         *)
(* Then the calls of serve() (Startup): which of them may open the gate    *)
(* they share for a request of which.                                      *)
(***************************************************************************)
EXTENDS Cli, Startup, FiniteSetTheorems, SequenceTheorems, TLAPS

-----------------------------------------------------------------------------
(* The application file.                                                   *)

\* Descriptors made so far: route() refers to its own copy, each member of which
\* it looked at; defineModule() analyzed the paths that were there.
MadeShape ==
  /\ route \in {"none", "frozen"}
  /\ \A i \in DOMAIN arrays.frozen : arrays.frozen[i].name # "absent" /\ arrays.frozen[i].callable
  /\ \A p \in vetted.paths : wellFormed(p)

\* A path that runs a route runs the frozen chain, as its record says.
RunsFrozen(p) ==
  rows[p].entry = "route" =>
    /\ rows[p].before = "frozen" /\ route = "frozen"
    /\ rows[p].guarded = (arrays.frozen # <<>>)
    /\ facts[p] = names(arrays.frozen)

\* Before defineApp() returned, nothing is served.
PreparedShape ==
  /\ app = "none" => served = {}
  /\ \A p \in Patterns : RunsFrozen(p)
  /\ \A p \in served : wellFormed(p) \/ (module # "none" /\ p \notin vetted.paths)
  /\ endpoints \cap served = {}

\* What the members of the services object may be called, and be.
Names == {""} \cup {c.name : c \in Services} \cup UNION {{f.services[k].name : k \in Keys} : f \in Files}
Values == {"later", "absent"} \cup Keys \cup UNION {{f.services[k].value : k \in Keys} : f \in Files}
SlotType == [kind : {"absent", "plain", "service"}, name : Names, value : Values]

\* The slot of a name holds a service of it that is up, one that is shadowed and
\* not up nothing, and any other is not there; none starts twice.
SlotsShape ==
  /\ \A k \in Keys :
       IF ready(k) # {} THEN slots[k] \in ready(k)
       ELSE slots[k] = (IF k \in shadowed THEN "undefined" ELSE "none")
  /\ starting \in Seq(vetted.services)
  /\ \A i, j \in DOMAIN starting : starting[i] = starting[j] => i = j

\* A descriptor's value stands for its key.
FileTyped ==
  /\ arrays \in [own : Seq(GuardType), frozen : Seq(GuardType)]
  /\ vetted \in [paths : SUBSET Patterns, services : SUBSET [name : Names, value : Keys]]
  /\ services \in [Keys -> SlotType]
  /\ \A k \in Keys : services[k].kind = "service" => services[k].value = k

FileInv == MadeShape /\ PreparedShape /\ SlotsShape /\ FileTyped

\* Where nothing fails, a check that comes before any other that fails passes.
LEMMA FirstPasses ==
  ASSUME NEW checks, NEW n \in Nat, DOMAIN checks \subseteq Nat \ {0}, 1 .. n \subseteq DOMAIN checks,
         n \in {1, 2, 3, 4}, FirstFault(checks) = "ok",
         \A i \in 1 .. n : checks[i].code # "ok"
  PROVE  \A i \in 1 .. n : ~checks[i].fails
<1> SUFFICES ASSUME NEW j \in 1 .. n, checks[j].fails PROVE FALSE
  OBVIOUS
<1> DEFINE First(i) == checks[i].fails /\ \A k \in 1 .. i - 1 : ~checks[k].fails
<1>1. \E i \in 1 .. n : First(i)
  <2>1. CASE checks[1].fails
    <3>1. First(1)
      BY <2>1
    <3> QED
      BY <3>1
  <2>2. CASE ~checks[1].fails /\ n >= 2 /\ checks[2].fails
    <3>1. First(2)
      BY <2>2
    <3> QED
      BY <2>2, <3>1
  <2>3. CASE ~checks[1].fails /\ ~checks[2].fails /\ n >= 3 /\ checks[3].fails
    <3>1. First(3)
      BY <2>3
    <3> QED
      BY <2>3, <3>1
  <2>4. CASE ~checks[1].fails /\ ~checks[2].fails /\ ~checks[3].fails /\ n = 4 /\ checks[4].fails
    <3>1. First(4)
      BY <2>4
    <3> QED
      BY <2>4, <3>1
  <2>5. j \in {1, 2, 3, 4}
    OBVIOUS
  <2> QED
    BY <2>1, <2>2, <2>3, <2>4, <2>5
<1> DEFINE i == CHOOSE i \in DOMAIN checks : First(i)
<1>2. i \in DOMAIN checks /\ First(i)
  <2>1. \E k \in DOMAIN checks : First(k)
    BY <1>1
  <2> QED
    BY <2>1
<1>3. i \in 1 .. n
  <2>1. PICK k \in 1 .. n : First(k)
    BY <1>1
  <2> HIDE DEF i
  <2>2. ~(i > k)
    BY <1>2, <2>1
  <2> QED
    BY <1>2, <2>1, <2>2
<1>4. FirstFault(checks) = checks[i].code
  BY DEF FirstFault
<1> HIDE DEF i
<1> QED
  BY <1>3, <1>4

\* Two checks, and four, written out.
LEMMA TwoPass ==
  ASSUME NEW c1, NEW c2, NEW f1 \in BOOLEAN, NEW f2 \in BOOLEAN, c1 # "ok", c2 # "ok",
         FirstFault(<<check(c1, f1), check(c2, f2)>>) = "ok"
  PROVE  ~f1 /\ ~f2
<1> DEFINE checks == <<check(c1, f1), check(c2, f2)>>
<1>1. /\ DOMAIN checks \subseteq Nat \ {0} /\ 1 .. 2 \subseteq DOMAIN checks
      /\ \A i \in 1 .. 2 : checks[i].code # "ok"
      /\ checks[1].fails = f1 /\ checks[2].fails = f2
  BY DEF check
<1> HIDE DEF checks
<1>2. \A i \in 1 .. 2 : ~checks[i].fails
  BY <1>1, FirstPasses DEF checks
<1> QED
  BY <1>1, <1>2

LEMMA FourPass ==
  ASSUME NEW c1, NEW c2, NEW c3, NEW c4, c1 # "ok", c2 # "ok", c3 # "ok", c4 # "ok",
         NEW f1 \in BOOLEAN, NEW f2 \in BOOLEAN, NEW f3 \in BOOLEAN, NEW f4 \in BOOLEAN,
         FirstFault(<<check(c1, f1), check(c2, f2), check(c3, f3), check(c4, f4)>>) = "ok"
  PROVE  ~f1 /\ ~f2 /\ ~f3 /\ ~f4
<1> DEFINE checks == <<check(c1, f1), check(c2, f2), check(c3, f3), check(c4, f4)>>
<1>1. /\ DOMAIN checks \subseteq Nat \ {0} /\ 1 .. 4 \subseteq DOMAIN checks
      /\ \A i \in 1 .. 4 : checks[i].code # "ok"
      /\ checks[1].fails = f1 /\ checks[2].fails = f2 /\ checks[3].fails = f3 /\ checks[4].fails = f4
  BY DEF check
<1> HIDE DEF checks
<1>2. \A i \in 1 .. 4 : ~checks[i].fails
  BY <1>1, FirstPasses DEF checks
<1> QED
  BY <1>1, <1>2

\* route() returned: no entry of its chain is unfit.
LEMMA RouteFit ==
  ASSUME NEW known, NEW callable, NEW budget, routeFault(known, callable, budget) = "ok"
  PROVE  ~unfit
<1> DEFINE f1 == ~known
           f2 == ~callable
           f3 == ~budget
           f4 == unfit
<1>1. f1 \in BOOLEAN /\ f2 \in BOOLEAN /\ f3 \in BOOLEAN /\ f4 \in BOOLEAN
  BY DEF unfit
<1>2. FirstFault(<<check("LUGAS_ROUTE_002", f1), check("LUGAS_ROUTE_003", f2), check("LUGAS_BODY_001", f3),
                   check("LUGAS_ROUTE_005", f4)>>) = "ok"
  BY DEF routeFault
<1> HIDE DEF f1, f2, f3, f4
<1>3. ~f4
  BY <1>1, <1>2, FourPass
<1> QED
  BY <1>3 DEF f4

\* defineModule() returned: the paths of its map are well formed.
LEMMA ModuleFit ==
  ASSUME NEW named, NEW shaped,
         FirstFault(<<check("LUGAS_MODULE_003", ~named), check("LUGAS_MODULE_004", ~shaped),
                      check("LUGAS_ROUTES_004", ~assertValidRoutePaths(maps.module)),
                      check("LUGAS_MODULE_005", \E p \in Patterns : maps.module[p] = "twice")>>) = "ok"
  PROVE  assertValidRoutePaths(maps.module)
<1> DEFINE f1 == ~named
           f2 == ~shaped
           f3 == ~assertValidRoutePaths(maps.module)
           f4 == \E p \in Patterns : maps.module[p] = "twice"
<1>1. f1 \in BOOLEAN /\ f2 \in BOOLEAN /\ f3 \in BOOLEAN /\ f4 \in BOOLEAN
  OBVIOUS
<1>2. FirstFault(<<check("LUGAS_MODULE_003", f1), check("LUGAS_MODULE_004", f2), check("LUGAS_ROUTES_004", f3),
                   check("LUGAS_MODULE_005", f4)>>) = "ok"
  OBVIOUS
<1> HIDE DEF f1, f2, f3, f4
<1>3. ~f3
  BY <1>1, <1>2, FourPass
<1> QED
  BY <1>3 DEF f3

\* A sequence between two tuples leaves the first in its place.
LEMMA Joined ==
  ASSUME NEW a1, NEW a2, NEW a3, NEW a4, NEW a5, NEW a6, NEW b1, NEW b2, NEW b3, NEW T, NEW t \in Seq(T)
  PROVE  LET s == (<<a1, a2, a3, a4, a5, a6>> \o t) \o <<b1, b2, b3>>
         IN DOMAIN s \subseteq Nat \ {0} /\ 1 .. 2 \subseteq DOMAIN s /\ s[1] = a1 /\ s[2] = a2
<1> DEFINE S == T \cup {a1, a2, a3, a4, a5, a6, b1, b2, b3}
           first == <<a1, a2, a3, a4, a5, a6>>
           last == <<b1, b2, b3>>
<1>1. first \in Seq(S) /\ last \in Seq(S) /\ t \in Seq(S) /\ Len(first) = 6 /\ first[1] = a1 /\ first[2] = a2
  OBVIOUS
<1> HIDE DEF S, first
<1>2. first \o t \in Seq(S) /\ Len(first \o t) = 6 + Len(t) /\ Len(t) \in Nat
      /\ (first \o t)[1] = a1 /\ (first \o t)[2] = a2
  <2>1. Len(t) \in Nat
    BY <1>1, LenProperties
  <2>2. /\ first \o t \in Seq(S) /\ Len(first \o t) = Len(first) + Len(t)
        /\ \A i \in 1 .. Len(first) + Len(t) :
             (first \o t)[i] = IF i <= Len(first) THEN first[i] ELSE t[i - Len(first)]
    BY <1>1, ConcatProperties, Zenon
  <2> HIDE DEF first
  <2> QED
    BY <1>1, <2>1, <2>2
<1> HIDE DEF last
<1> DEFINE s == (first \o t) \o last
<1>3. s \in Seq(S) /\ Len(s) >= 6 /\ s[1] = a1 /\ s[2] = a2
  BY <1>1, <1>2, ConcatProperties
<1>4. DOMAIN s = 1 .. Len(s)
  BY <1>3
<1> HIDE DEF s
<1>5. DOMAIN s \subseteq Nat \ {0} /\ 1 .. 2 \subseteq DOMAIN s /\ s[1] = a1 /\ s[2] = a2
  BY <1>3, <1>4
<1> QED
  BY <1>5 DEF s, first, last

\* defineApp() came to compose(): so are the application's own.
LEMMA RootFit ==
  ASSUME NEW c, FirstFault(configured(c)) = "ok"
  PROVE  assertValidRoutePaths(maps.root)
<1> DEFINE all ==
      {verdict(c, "cors"), compileLogging(c.logging), compileOpenApiConfig(c.openapi), verdict(c, "secureHeaders"),
       compileHealthConfig(c.health), compileTelemetry(c.telemetry), verdict(c, "compression"), verdict(c, "etag")}
    some(o, x) == IF given(c, o) THEN <<x>> ELSE <<>>
    first == <<check("LUGAS_APP_006", given(c, "routes")), check("LUGAS_ROUTES_004", ~assertValidRoutePaths(maps.root)),
               check("LUGAS_APP_002", ~atOr(c, "onError", TRUE)), check("LUGAS_APP_002", ~atOr(c, "notFound", TRUE)),
               check("LUGAS_APP_002", given(c, "unknown")), check("LUGAS_BODY_001", atOr(c, "bodyBudget", 1) = 0)>>
    last == <<check("LUGAS_APP_003", atOr(c, "modules", "array") = "object"),
              check("LUGAS_APP_004", atOr(c, "modules", "array") = "odd"),
              check("LUGAS_APP_005", atOr(c, "modules", "array") = "twice")>>
<1>1. compiled(c) \in Seq(all)
  <2>1. \A o, x : x \in all => some(o, x) \in Seq(all)
    <3> HIDE DEF all
    <3> SUFFICES ASSUME NEW o, NEW x \in all PROVE some(o, x) \in Seq(all)
      OBVIOUS
    <3>1. <<x>> \in Seq(all) /\ <<>> \in Seq(all)
      OBVIOUS
    <3> QED
      BY <3>1
  <2>2. /\ <<verdict(c, "cors")>> \in Seq(all) /\ <<verdict(c, "secureHeaders")>> \in Seq(all)
        /\ <<verdict(c, "compression"), verdict(c, "etag")>> \in Seq(all)
    OBVIOUS
  <2>3. /\ some("logging", compileLogging(c.logging)) \in Seq(all)
        /\ some("openapi", compileOpenApiConfig(c.openapi)) \in Seq(all)
        /\ some("health", compileHealthConfig(c.health)) \in Seq(all)
        /\ some("telemetry", compileTelemetry(c.telemetry)) \in Seq(all)
    <3>1. /\ compileLogging(c.logging) \in all /\ compileOpenApiConfig(c.openapi) \in all
          /\ compileHealthConfig(c.health) \in all /\ compileTelemetry(c.telemetry) \in all
      OBVIOUS
    <3> HIDE DEF some, all
    <3> QED
      BY <2>1, <3>1
  <2>4. \A s, t \in Seq(all) : s \o t \in Seq(all)
    <3> HIDE DEF all
    <3> QED
      OBVIOUS
  <2>5. compiled(c) = <<verdict(c, "cors")>> \o some("logging", compileLogging(c.logging))
                      \o some("openapi", compileOpenApiConfig(c.openapi)) \o <<verdict(c, "secureHeaders")>>
                      \o some("health", compileHealthConfig(c.health)) \o some("telemetry", compileTelemetry(c.telemetry))
                      \o <<verdict(c, "compression"), verdict(c, "etag")>>
    BY DEF compiled
  <2> HIDE DEF all, some
  <2> QED
    BY <2>2, <2>3, <2>4, <2>5
<1>2. configured(c) = (first \o compiled(c)) \o last
  BY DEF configured
<1>3. /\ first[1] = check("LUGAS_APP_006", given(c, "routes"))
      /\ first[2] = check("LUGAS_ROUTES_004", ~assertValidRoutePaths(maps.root))
  OBVIOUS
<1>6. /\ DOMAIN configured(c) \subseteq Nat \ {0} /\ 1 .. 2 \subseteq DOMAIN configured(c)
      /\ configured(c)[1] = first[1] /\ configured(c)[2] = first[2]
  <2> HIDE DEF all
  <2> QED
    BY <1>1, <1>2, <1>3, Joined
<1> HIDE DEF all, first, last
<1>7. \A i \in 1 .. 2 : configured(c)[i].code # "ok"
  BY <1>3, <1>6 DEF check
<1>8. ~configured(c)[2].fails
  BY <1>6, <1>7, FirstPasses
<1> DEFINE f == ~assertValidRoutePaths(maps.root)
<1>9. f \in BOOLEAN /\ configured(c)[2] = check("LUGAS_ROUTES_004", f)
  BY <1>3, <1>6
<1> HIDE DEF f
<1>10. ~f
  BY <1>8, <1>9 DEF check
<1> QED
  BY <1>10 DEF f

\* prepareApp() mounted its endpoints: none is at a path of a route.
LEMMA EndpointsApart ==
  ASSUME NEW c, prepareFaults(c) = {}
  PROVE  (openApiPaths(c) \cup healthPaths(c)) \cap existingPaths = {}
<1> DEFINE f1 == openApiPaths(c) \cap existingPaths # {}
           f2 == healthPaths(c) \cap existingPaths # {}
<1>1. mounted(c) = "ok"
  <2>1. ~duplicated
    BY DEF prepareFaults
  <2>2. CASE \E p \in Patterns : assembled(p) # "ok"
    BY <2>1, <2>2 DEF prepareFaults
  <2> QED
    BY <2>1, <2>2 DEF prepareFaults
<1>2. f1 \in BOOLEAN /\ f2 \in BOOLEAN
  OBVIOUS
<1>3. FirstFault(<<check("LUGAS_OPENAPI_002", f1), check("LUGAS_HEALTH_002", f2)>>) = "ok"
  BY <1>1 DEF mounted
<1> HIDE DEF f1, f2
<1>4. ~f1 /\ ~f2
  BY <1>2, <1>3, TwoPass
<1> QED
  BY <1>4 DEF f1, f2

\* A file starts with nothing made.
LEMMA FileInitially == Init => FileInv
<1> SUFFICES ASSUME Init PROVE FileInv
  OBVIOUS
<1>1. MadeShape
  BY DEF Init, MadeShape
<1>2. PreparedShape
  BY DEF Init, PreparedShape, RunsFrozen, served, noRow
<1>3. SlotsShape
  BY DEF Init, SlotsShape, ready, shadowed
<1>4. FileTyped
  <2>1. PICK f \in Files : services = f.services
    BY DEF Init
  <2>2. services \in [Keys -> ValueType] /\ \A k \in Keys : services[k].kind = "service" => services[k].value = k
    BY <2>1, FilesAssumption
  <2>3. \A k \in Keys : services[k].name \in Names /\ services[k].value \in Values
    <3> SUFFICES ASSUME NEW k \in Keys PROVE services[k].name \in Names /\ services[k].value \in Values
      OBVIOUS
    <3>1. services[k].name \in {f.services[j].name : j \in Keys} /\ services[k].value \in {f.services[j].value : j \in Keys}
      BY <2>1
    <3>2. \E g \in Files : {f.services[j].name : j \in Keys} = {g.services[j].name : j \in Keys}
      OBVIOUS
    <3>3. \E g \in Files : {f.services[j].value : j \in Keys} = {g.services[j].value : j \in Keys}
      OBVIOUS
    <3> QED
      BY <3>1, <3>2, <3>3 DEF Names, Values
  <2>4. \A k \in Keys : services[k] \in SlotType
    BY <2>2, <2>3 DEF ValueType, SlotType
  <2> QED
    BY <2>2, <2>4 DEF Init, FileTyped
<1> QED
  BY <1>1, <1>2, <1>3, <1>4 DEF FileInv

\* The caller's own changes reach nothing the invariant speaks of, and neither
\* does a diagnostic.
LEMMA FileStutters ==
  ASSUME FileInv, UNCHANGED <<arrays.frozen, made, prepared, started>>, FileTyped', app' # app => app = "none"
  PROVE  FileInv'
<1>1. MadeShape'
  BY DEF FileInv, MadeShape, made
<1>2. served' = served
  BY DEF served, prepared
<1>3. PreparedShape'
  <2>1. \A p : RunsFrozen(p) => RunsFrozen(p)'
    BY DEF RunsFrozen, made, prepared
  <2>2. UNCHANGED <<endpoints, module, vetted>>
    BY DEF made, prepared
  <2>3. app' = "none" => app = "none"
    OBVIOUS
  <2> QED
    BY <1>2, <2>1, <2>2, <2>3 DEF FileInv, PreparedShape
<1>4. SlotsShape'
  BY DEF FileInv, SlotsShape, ready, waiting, shadowed, made, started
<1> QED
  BY <1>1, <1>3, <1>4 DEF FileInv

\* With the whole of the caller's objects in place.
LEMMA RefuseStep == ASSUME FileInv, app = "none", NEW code, Refuse(code) PROVE FileInv'
<1>1. FileTyped'
  BY DEF FileInv, FileTyped, Refuse, authored, made
<1> QED
  BY <1>1, FileStutters DEF Refuse, authored

\* The caller's array is not the frozen one.
LEMMA OwnChanges ==
  ASSUME FileInv, NEW gs \in Seq(GuardType), arrays' = [arrays EXCEPT !.own = gs], UNCHANGED <<services, vetted>>
  PROVE  FileTyped' /\ UNCHANGED arrays.frozen
<1>1. arrays.frozen \in Seq(GuardType) /\ arrays' = [own |-> gs, frozen |-> arrays.frozen]
  BY DEF FileInv, FileTyped
<1>2. arrays' \in [own : Seq(GuardType), frozen : Seq(GuardType)] /\ UNCHANGED arrays.frozen
  BY <1>1
<1> QED
  BY <1>2 DEF FileInv, FileTyped

LEMMA PushStep == ASSUME FileInv, NEW g \in Guards, NEW f, Push(g, f) PROVE FileInv'
<1>1. CASE f /\ guard(g) # "ok"
  BY <1>1, RefuseStep DEF Push
<1>2. CASE ~(f /\ guard(g) # "ok")
  <2>1. arrays' = [arrays EXCEPT !.own = Append(@, g)] /\ UNCHANGED <<services, made, app, prepared, started>>
    BY <1>2 DEF Push
  <2>2. Append(arrays.own, g) \in Seq(GuardType)
    BY GuardsAssumption DEF FileInv, FileTyped
  <2>3. FileTyped' /\ UNCHANGED arrays.frozen
    BY <2>1, <2>2, OwnChanges DEF made
  <2> QED
    BY <2>1, <2>3, FileStutters
<1> QED
  BY <1>1, <1>2

LEMMA ClearStep == ASSUME FileInv, Clear PROVE FileInv'
<1>1. <<>> \in Seq(GuardType)
  OBVIOUS
<1>2. FileTyped' /\ UNCHANGED arrays.frozen
  BY <1>1, OwnChanges DEF Clear, made
<1> QED
  BY <1>2, FileStutters DEF Clear

\* The object is the caller's: the application only looked at it once.
LEMMA DescribeStep == ASSUME FileInv, NEW k \in Keys, NEW c \in Services, Describe(k, c) PROVE FileInv'
<1> DEFINE code == IF c.via = "service" THEN service(c) ELSE drizzleService(c)
<1>1. CASE code # "ok"
  BY <1>1, RefuseStep DEF Describe
<1>2. CASE code = "ok"
  <2>1. /\ services' = [services EXCEPT ![k] = [kind |-> "service", name |-> c.name, value |-> k]]
        /\ UNCHANGED <<arrays, made, app, prepared, started>>
    BY <1>2 DEF Describe
  <2>2. [kind |-> "service", name |-> c.name, value |-> k] \in SlotType
    <3>1. c.name \in Names /\ k \in Values
      BY DEF Names, Values
    <3> QED
      BY <3>1 DEF SlotType
  <2>3. FileTyped'
    BY <2>1, <2>2 DEF FileInv, FileTyped, made
  <2> QED
    BY <2>1, <2>3, FileStutters
<1> QED
  BY <1>1, <1>2

LEMMA AssignStep == ASSUME FileInv, NEW k \in Keys, Assign(k) PROVE FileInv'
<1>1. [kind |-> "plain", name |-> "", value |-> "later"] \in SlotType
  BY DEF SlotType, Names, Values
<1>2. FileTyped'
  BY <1>1 DEF Assign, FileInv, FileTyped, made
<1> QED
  BY <1>2, FileStutters DEF Assign

LEMMA EnterStep == ASSUME FileInv, NEW o, NEW p, NEW e, Enter(o, p, e) PROVE FileInv'
<1>1. FileTyped'
  BY DEF Enter, FileInv, FileTyped, made
<1> QED
  BY <1>1, FileStutters DEF Enter

\* Nothing ran the frozen chain before there is one, and it is fit when it is
\* made.
LEMMA RouteStep ==
  ASSUME FileInv, NEW known, NEW callable, NEW budget, Route(known, callable, budget) PROVE FileInv'
<1>1. CASE routeFault(known, callable, budget) # "ok"
  BY <1>1, RefuseStep DEF Route
<1>2. CASE routeFault(known, callable, budget) = "ok"
  <2>1. /\ route = "none" /\ route' = "frozen" /\ arrays' = [arrays EXCEPT !.frozen = arrays.own]
        /\ UNCHANGED <<services, module, vetted, app, prepared, started>>
    BY <1>2 DEF Route
  <2>2. FileTyped' /\ arrays'.frozen = arrays.own
    BY <2>1 DEF FileInv, FileTyped
  <2>3. MadeShape'
    BY <1>2, <2>1, <2>2, RouteFit DEF FileInv, MadeShape, unfit
  <2>4. PreparedShape'
    <3>1. UNCHANGED served
      BY <2>1 DEF served, prepared
    <3>2. \A p \in Patterns : RunsFrozen(p)'
      BY <2>1 DEF FileInv, PreparedShape, RunsFrozen, prepared
    <3> QED
      BY <2>1, <3>1, <3>2 DEF FileInv, PreparedShape, prepared
  <2>5. SlotsShape'
    BY <2>1 DEF FileInv, SlotsShape, ready, waiting, shadowed, started
  <2> QED
    BY <2>2, <2>3, <2>4, <2>5 DEF FileInv
<1> QED
  BY <1>1, <1>2

LEMMA WebsocketStep == ASSUME FileInv, NEW known, NEW callable, Websocket(known, callable) PROVE FileInv'
<1>1. CASE ~known \/ ~callable \/ unfit
  BY <1>1, RefuseStep DEF Websocket
<1>2. CASE ~(~known \/ ~callable \/ unfit)
  <2>1. UNCHANGED <<authored, route, module, vetted, app, prepared, started>>
    BY <1>2 DEF Websocket
  <2>2. FileTyped' /\ MadeShape' /\ SlotsShape'
    BY <2>1 DEF FileInv, FileTyped, MadeShape, SlotsShape, ready, waiting, shadowed, authored, started
  <2>3. PreparedShape'
    <3>1. UNCHANGED served /\ \A p : RunsFrozen(p) => RunsFrozen(p)'
      BY <2>1 DEF served, prepared, RunsFrozen, authored
    <3> QED
      BY <2>1, <3>1 DEF FileInv, PreparedShape, prepared
  <2> QED
    BY <2>2, <2>3 DEF FileInv
<1> QED
  BY <1>1, <1>2

\* A module that is defined or made by hand is there from then on, and nothing is
\* served that was not looked at: nothing is served at all.
LEMMA DefineModuleStep ==
  ASSUME FileInv, NEW named, NEW shaped, DefineModule(named, shaped) PROVE FileInv'
<1> DEFINE code == FirstFault(<<check("LUGAS_MODULE_003", ~named), check("LUGAS_MODULE_004", ~shaped),
                                check("LUGAS_ROUTES_004", ~assertValidRoutePaths(maps.module)),
                                check("LUGAS_MODULE_005", \E p \in Patterns : maps.module[p] = "twice")>>)
<1>1. CASE code # "ok"
  BY <1>1, RefuseStep DEF DefineModule
<1>2. CASE code = "ok"
  <2>1. /\ app = "none" /\ vetted' = [vetted EXCEPT !.paths = declared(maps.module)]
        /\ UNCHANGED <<authored, route, app, prepared, started>>
    BY <1>2 DEF DefineModule
  <2>2. assertValidRoutePaths(maps.module)
    BY <1>2, ModuleFit
  <2>3. FileTyped' /\ vetted'.paths = declared(maps.module) /\ vetted'.services = vetted.services
    BY <2>1 DEF FileInv, FileTyped, authored, declared
  <2>4. MadeShape'
    BY <2>1, <2>2, <2>3 DEF FileInv, MadeShape, authored, assertValidRoutePaths
  <2>5. PreparedShape'
    <3>1. UNCHANGED served /\ \A p : RunsFrozen(p) => RunsFrozen(p)'
      BY <2>1 DEF served, prepared, RunsFrozen, authored
    <3> QED
      BY <2>1, <3>1 DEF FileInv, PreparedShape, prepared
  <2>6. SlotsShape'
    BY <2>1, <2>3 DEF FileInv, SlotsShape, ready, waiting, shadowed, started
  <2> QED
    BY <2>3, <2>4, <2>5, <2>6 DEF FileInv
<1> QED
  BY <1>1, <1>2

LEMMA ByHandStep == ASSUME FileInv, ByHand PROVE FileInv'
<1>1. app = "none" /\ UNCHANGED <<authored, route, vetted, app, prepared, started>>
  BY DEF ByHand
<1>2. FileTyped' /\ MadeShape' /\ SlotsShape'
  BY <1>1 DEF FileInv, FileTyped, MadeShape, SlotsShape, ready, waiting, shadowed, authored, started
<1>3. PreparedShape'
  <2>1. UNCHANGED served /\ \A p : RunsFrozen(p) => RunsFrozen(p)'
    BY <1>1 DEF served, prepared, RunsFrozen, authored
  <2> QED
    BY <1>1, <2>1 DEF FileInv, PreparedShape, prepared
<1> QED
  BY <1>2, <1>3 DEF FileInv

\* defineApp() checked the map it was given and compiled each entry of it, a
\* route to its frozen chain; and each described service waits for its turn.
LEMMA AcceptedPaths ==
  ASSUME FileInv, NEW c, FirstFault(configured(c)) = "ok", prepareFaults(c) = {},
         complete(maps.root), complete(composed),
         rows' = [p \in Patterns |-> compileAt(p)],
         facts' = [p \in Patterns |-> names(guardsOf(beforeOf(entryAt(p))))],
         endpoints' = openApiPaths(c) \cup healthPaths(c),
         UNCHANGED <<authored, route, module, vetted.paths>>, app' = "accepted"
  PROVE  PreparedShape'
<1>1. served' = {p \in Patterns : entryAt(p) # "none"}
  BY DEF served, compileAt
<1>2. served' \subseteq existingPaths
  BY <1>1 DEF entryAt, existingPaths, declared
<1>3. ASSUME NEW p \in Patterns PROVE RunsFrozen(p)'
  <2> SUFFICES ASSUME rows'[p].entry = "route" PROVE RunsFrozen(p)'
    BY DEF RunsFrozen
  <2>1. entryAt(p) = "route"
    BY DEF compileAt
  <2>2. route = "frozen"
    BY <2>1 DEF FileInv, MadeShape, entryAt, complete, exists
  <2>3. beforeOf(entryAt(p)) = "frozen" /\ guardsOf("frozen") = arrays.frozen
    BY <2>1, <2>2 DEF beforeOf, guardsOf
  <2>4. UNCHANGED arrays
    BY DEF authored
  <2> QED
    BY <2>2, <2>3, <2>4 DEF RunsFrozen, compileAt, names
<1>4. ASSUME NEW p \in served' PROVE wellFormed(p) \/ (module # "none" /\ p \notin vetted.paths)
  <2>1. CASE p \in declared(maps.root)
    BY <2>1, RootFit DEF assertValidRoutePaths
  <2>2. CASE p \in declared(composed)
    BY <2>2 DEF declared, composed, FileInv, MadeShape
  <2> QED
    BY <1>2, <2>1, <2>2 DEF existingPaths
<1>5. endpoints' \cap served' = {}
  BY <1>2, EndpointsApart
<1>6. UNCHANGED module /\ vetted'.paths = vetted.paths
  OBVIOUS
<1> QED
  BY <1>3, <1>4, <1>5, <1>6 DEF PreparedShape

LEMMA SequencesAre == ASSUME NEW T, NEW n \in Nat, NEW q \in [1 .. n -> T] PROVE q \in Seq(T)
  OBVIOUS

LEMMA AcceptedSlots ==
  ASSUME FileInv, NEW s \in lifecycleOrders,
         slots' = serviceSlots, vetted'.services = {lifecycleService(k) : k \in described},
         starting' = [i \in DOMAIN s |-> lifecycleService(s[i])]
  PROVE  SlotsShape'
<1> DEFINE T == {lifecycleService(k) : k \in described}
<1>1. IsFiniteSet(described) /\ described \subseteq Keys /\ Cardinality(described) \in Nat
  BY KeysAssumption, FS_Subset, FS_CardinalityType DEF described
<1>2. /\ DOMAIN s = 1 .. Cardinality(described) /\ \A i \in DOMAIN s : s[i] \in described
      /\ \A i, j \in DOMAIN s : s[i] = s[j] => i = j
      /\ \A k \in described : \E i \in DOMAIN s : s[i] = k
  BY DEF lifecycleOrders
<1>3. \A k \in described : lifecycleService(k).value = k
  BY <1>1 DEF lifecycleService, described, FileInv, FileTyped
<1>4. starting' \in Seq(T)
  <2>1. starting' \in [1 .. Cardinality(described) -> T]
    BY <1>2
  <2> HIDE DEF T
  <2>2. \A n \in Nat : \A q \in [1 .. n -> T] : q \in Seq(T)
    BY SequencesAre
  <2> QED
    BY <1>1, <2>1, <2>2
<1>5. DOMAIN starting' = DOMAIN s /\ \A i \in DOMAIN s : starting'[i] = lifecycleService(s[i])
  OBVIOUS
<1>6. waiting' = T
  BY <1>2, <1>5 DEF waiting
<1>7. \A k : ready(k)' = {}
  BY <1>6 DEF ready
<1>8. shadowed' = described
  BY <1>3 DEF shadowed
<1>9. \A k \in Keys : slots'[k] = IF k \in described THEN "undefined" ELSE "none"
  BY DEF serviceSlots
<1>10. \A i, j \in DOMAIN starting' : starting'[i] = starting'[j] => i = j
  BY <1>2, <1>3, <1>5
<1> QED
  BY <1>4, <1>7, <1>8, <1>9, <1>10 DEF SlotsShape

LEMMA DefineAppStep == ASSUME FileInv, NEW c, DefineApp(c) PROVE FileInv'
<1>0. app = "none" /\ complete(maps.root) /\ complete(composed)
  BY DEF DefineApp
<1>1. CASE FirstFault(configured(c)) # "ok"
  BY <1>0, <1>1, RefuseStep DEF DefineApp
<1>2. CASE FirstFault(configured(c)) = "ok" /\ prepareFaults(c) # {}
  <2>1. PICK code \in prepareFaults(c) : Refuse(code)
    BY <1>2 DEF DefineApp
  <2> QED
    BY <1>0, <2>1, RefuseStep
<1>3. CASE FirstFault(configured(c)) = "ok" /\ prepareFaults(c) = {}
  <2>1. /\ app' = "accepted" /\ UNCHANGED <<authored, route, module>>
        /\ rows' = [p \in Patterns |-> compileAt(p)]
        /\ facts' = [p \in Patterns |-> names(guardsOf(beforeOf(entryAt(p))))]
        /\ endpoints' = openApiPaths(c) \cup healthPaths(c)
        /\ slots' = serviceSlots /\ vetted' = [vetted EXCEPT !.services = {lifecycleService(k) : k \in described}]
    BY <1>3 DEF DefineApp
  <2>2. PICK s \in lifecycleOrders : starting' = [i \in DOMAIN s |-> lifecycleService(s[i])]
    BY <1>3 DEF DefineApp
  <2>3. vetted'.paths = vetted.paths /\ vetted'.services = {lifecycleService(k) : k \in described} /\ FileTyped'
    <3>1. \A k \in described : lifecycleService(k) \in [name : Names, value : Keys]
      BY DEF lifecycleService, described, FileInv, FileTyped, SlotType
    <3> QED
      BY <2>1, <3>1 DEF FileInv, FileTyped, authored
  <2>4. MadeShape'
    BY <2>1, <2>3 DEF FileInv, MadeShape, authored
  <2>5. PreparedShape'
    BY <1>0, <1>3, <2>1, <2>3, AcceptedPaths
  <2>6. SlotsShape'
    BY <2>1, <2>2, <2>3, AcceptedSlots
  <2> QED
    BY <2>3, <2>4, <2>5, <2>6 DEF FileInv
<1> QED
  BY <1>1, <1>2, <1>3

\* The service that leaves the queue is up from then on, and waits no more; its
\* slot is the one of its name.
LEMMA ResolveStep == ASSUME FileInv, Resolve PROVE FileInv'
<1> DEFINE T == vetted.services
           next == Head(starting)
<1>1. starting \in Seq(T) /\ starting # <<>>
  BY DEF Resolve, FileInv, SlotsShape
<1>2. /\ starting' \in Seq(T) /\ next = starting[1] /\ 1 \in DOMAIN starting
      /\ \A i \in DOMAIN starting' : i + 1 \in DOMAIN starting /\ i \in Nat \ {0} /\ starting'[i] = starting[i + 1]
      /\ \A i \in DOMAIN starting \ {1} : i - 1 \in DOMAIN starting' /\ starting'[i - 1] = starting[i]
  <2>1. starting' = Tail(starting)
    BY DEF Resolve
  <2> HIDE DEF T
  <2> QED
    BY <1>1, <2>1
<1>3. \A k \in Keys : slots'[k] = IF k = next.name THEN next.value ELSE slots[k]
  BY DEF Resolve
<1>4. UNCHANGED <<vetted, arrays, services, route, module, app, prepared>>
  BY DEF Resolve, authored, made
<1>5. next \in T
  <2> HIDE DEF T
  <2> QED
    BY <1>1, <1>2, ElementOfSeq
<1>6. waiting' = waiting \ {next}
  <2>1. \A i \in DOMAIN starting' : starting'[i] # next
    BY <1>2 DEF FileInv, SlotsShape
  <2>2. \A i \in DOMAIN starting : starting[i] # next => \E j \in DOMAIN starting' : starting'[j] = starting[i]
    BY <1>2
  <2> QED
    BY <1>2, <2>1, <2>2 DEF waiting
<1>7. SlotsShape'
  <2>1. \A k : ready(k)' = ready(k) \cup (IF k = next.name THEN {next.value} ELSE {})
    BY <1>4, <1>5, <1>6 DEF ready
  <2>2. UNCHANGED shadowed
    BY <1>4 DEF shadowed
  <2>3. ASSUME NEW k \in Keys
        PROVE  IF ready(k)' # {} THEN slots'[k] \in ready(k)'
               ELSE slots'[k] = (IF k \in shadowed' THEN "undefined" ELSE "none")
    BY <1>3, <2>1, <2>2 DEF FileInv, SlotsShape
  <2>4. \A i, j \in DOMAIN starting' : starting'[i] = starting'[j] => i = j
    BY <1>2 DEF FileInv, SlotsShape
  <2> QED
    BY <1>2, <1>4, <2>3, <2>4 DEF SlotsShape
<1>8. PreparedShape'
  <2>1. UNCHANGED served /\ \A p : RunsFrozen(p) => RunsFrozen(p)'
    BY <1>4 DEF served, prepared, RunsFrozen
  <2> QED
    BY <1>4, <2>1 DEF FileInv, PreparedShape, prepared
<1>9. MadeShape' /\ FileTyped'
  BY <1>4 DEF FileInv, MadeShape, FileTyped
<1> QED
  BY <1>7, <1>8, <1>9 DEF FileInv

LEMMA FileStep == ASSUME FileInv, [Next]_vars PROVE FileInv'
<1>1. CASE UNCHANGED vars
  <2>1. FileTyped'
    BY <1>1 DEF vars, authored, made, FileInv, FileTyped
  <2> QED
    BY <1>1, <2>1, FileStutters DEF vars, authored
<1>2. ASSUME NEW g \in Guards, NEW f \in BOOLEAN, Push(g, f) PROVE FileInv'
  BY <1>2, PushStep
<1>3. ASSUME Clear PROVE FileInv'
  BY <1>3, ClearStep
<1>4. ASSUME NEW known \in BOOLEAN, NEW callable \in BOOLEAN, NEW budget \in BOOLEAN, Route(known, callable, budget)
      PROVE  FileInv'
  BY <1>4, RouteStep
<1>5. ASSUME NEW known \in BOOLEAN, NEW callable \in BOOLEAN, Websocket(known, callable) PROVE FileInv'
  BY <1>5, WebsocketStep
<1>6. ASSUME NEW k \in Keys, Assign(k) PROVE FileInv'
  BY <1>6, AssignStep
<1>7. ASSUME NEW k \in Keys, NEW c \in Services, Describe(k, c) PROVE FileInv'
  BY <1>7, DescribeStep
<1>8. ASSUME NEW o, NEW p, NEW e, Enter(o, p, e) PROVE FileInv'
  BY <1>8, EnterStep
<1>9. ASSUME NEW named, NEW shaped, DefineModule(named, shaped) PROVE FileInv'
  BY <1>9, DefineModuleStep
<1>10. ASSUME ByHand PROVE FileInv'
  BY <1>10, ByHandStep
<1>11. ASSUME NEW c \in Options, DefineApp(c) PROVE FileInv'
  BY <1>11, DefineAppStep
<1>12. ASSUME Resolve PROVE FileInv'
  BY <1>12, ResolveStep
<1> QED
  BY <1>1, <1>2, <1>3, <1>4, <1>5, <1>6, <1>7, <1>8, <1>9, <1>10, <1>11, <1>12 DEF Next

LEMMA FileServed == ASSUME FileInv PROVE ServedAsValidated
<1>1. ASSUME NEW p \in Patterns, rows[p].entry = "route"
      PROVE  run(p) = arrays.frozen /\ facts[p] = names(arrays.frozen)
  BY <1>1 DEF FileInv, PreparedShape, RunsFrozen, run
<1>2. guardsHold("route")
  BY <1>1 DEF guardsHold, FileInv, MadeShape
<1> QED
  BY <1>2 DEF ServedAsValidated, FileInv, PreparedShape

LEMMA FileView == ASSUME FileInv PROVE ServicesView
<1>1. \A k : ready(k) \subseteq Keys
  BY DEF ready, FileInv, FileTyped
<1>2. ASSUME NEW k \in Keys, ready(k) # {} PROVE view(k) \in ready(k)
  BY <1>1, <1>2, KeysAssumption DEF view, FileInv, SlotsShape
<1>3. ASSUME NEW k \in Keys, ready(k) = {}
      PROVE  view(k) = (IF k \in shadowed THEN "undefined" ELSE inherited(k))
  BY <1>3 DEF view, FileInv, SlotsShape
<1> QED
  BY <1>2, <1>3 DEF ServicesView

\* However a file goes on with its arrays and maps, a route made by route() runs
\* the guards the manifest lists; every path that is served was analyzed, unless
\* its module was made by hand or got it after defineModule(); no endpoint is in
\* place of a route (route.ts, app.ts, prepared-app.ts).
THEOREM Validated == Spec => []ServedAsValidated
<1> QED
  BY FileInitially, FileStep, FileServed, PTL DEF Spec

\* Handlers get a described service under its name once it is initialised, nothing
\* under its key until then, and any other key as the object has it now
\* (prepared-app.ts, lifecycle.ts).
THEOREM Viewed == Spec => []ServicesView
<1> QED
  BY FileInitially, FileStep, FileView, PTL DEF Spec

-----------------------------------------------------------------------------
(* The command.                                                            *)

\* What the end of a child says of its file.
ChildTold ==
  /\ child.exports \in BOOLEAN /\ child.timedOut \in BOOLEAN
  /\ child.exports => /\ child.code = 0 /\ ~child.timedOut
                      /\ child.app = "accepted" /\ child.stdout \in {"manifest", "noise"}
  /\ child.stdout = "manifest" /\ child.code = 0 /\ ~child.timedOut => child.exports
  /\ child.app \notin {"none", "accepted"} => child.timedOut \/ child.code = 1

CommandShape ==
  /\ phase = "parse" => ~dir
  /\ phase = "child" => loads
  /\ phase = "ended" => loads /\ ChildTold
  /\ phase = "exited" => CliTruth

CommandInv == FileInv /\ CommandShape

LEMMA CommandInitially == CliInit => CommandInv
  BY FileInitially DEF CliInit, CommandInv, CommandShape

\* main() spawns a child for a command with an entry, and only then.
LEMMA MainStep == ASSUME CommandShape, Main PROVE CommandShape'
<1>1. ~dir
  BY DEF Main, CommandShape
<1>2. CASE args'.command \in {"help", "version"} /\ exit(0, "other") /\ UNCHANGED dir
  BY <1>1, <1>2 DEF CommandShape, CliTruth, loads, exit
<1>3. CASE args'.command = "RangeError" /\ exit(1, "nothing") /\ UNCHANGED dir
  BY <1>1, <1>3 DEF CommandShape, CliTruth, loads, exit
<1>4. CASE args'.command \in {"routes", "inspect"} /\ args'.entry = "none" /\ exit(3, "other") /\ UNCHANGED dir
  BY <1>1, <1>4 DEF CommandShape, CliTruth, loads, exit
<1>5. CASE args'.command \in {"routes", "inspect"} /\ args'.entry # "none" /\ phase' = "child"
  BY <1>5 DEF CommandShape, loads
<1> QED
  BY <1>2, <1>3, <1>4, <1>5 DEF Main

LEMMA NothingThere == DOMAIN <<>> = {} /\ \A S : <<>> \in Seq(S)
  OBVIOUS

\* A process that ended takes the file's objects with it.
LEMMA Emptied == ASSUME NEW code, NEW stdout, NEW t, NEW e, ends(code, stdout, t, e) PROVE FileInv'
<1>1. arrays' = [own |-> <<>>, frozen |-> <<>>] /\ vetted' = [paths |-> {}, services |-> {}]
      /\ services' = [k \in Keys |-> [kind |-> "absent", name |-> "", value |-> "absent"]]
      /\ rows' = [p \in Patterns |-> noRow] /\ route' = "none" /\ endpoints' = {}
      /\ slots' = [k \in Keys |-> "none"] /\ starting' = <<>>
  BY DEF ends
<1>2. FileTyped'
  <2>1. [kind |-> "absent", name |-> "", value |-> "absent"] \in SlotType
    <3>1. "" \in Names /\ "absent" \in Values
      BY DEF Names, Values
    <3> QED
      BY <3>1 DEF SlotType
  <2>2. services' \in [Keys -> SlotType] /\ \A k \in Keys : services'[k].kind # "service"
    BY <1>1, <2>1
  <2>3. arrays' \in [own : Seq(GuardType), frozen : Seq(GuardType)]
    <3>1. <<>> \in Seq(GuardType)
      OBVIOUS
    <3> QED
      BY <1>1, <3>1
  <2>4. vetted' \in [paths : SUBSET Patterns, services : SUBSET [name : Names, value : Keys]]
    BY <1>1
  <2> QED
    BY <2>2, <2>3, <2>4 DEF FileTyped
<1>3. MadeShape'
  <2>1. arrays'.frozen = <<>> /\ vetted'.paths = {}
    BY <1>1
  <2> QED
    BY <1>1, <2>1, NothingThere DEF MadeShape
<1>4. PreparedShape'
  <2>1. \A p \in Patterns : rows'[p].entry = "none"
    BY <1>1 DEF noRow
  <2>2. served' = {}
    BY <2>1 DEF served
  <2> QED
    BY <2>1, <2>2 DEF PreparedShape, RunsFrozen
<1>5. SlotsShape'
  <2>1. vetted'.services = {} /\ \A k \in Keys : slots'[k] = "none"
    BY <1>1
  <2>2. starting' \in Seq(vetted'.services) /\ DOMAIN starting' = {}
    BY <1>1, NothingThere
  <2> QED
    BY <2>1, <2>2 DEF SlotsShape, ready, shadowed
<1> QED
  BY <1>2, <1>3, <1>4, <1>5 DEF FileInv

LEMMA EndsStep ==
  ASSUME CommandShape, phase = "child", NEW code, NEW stdout, NEW t \in BOOLEAN, NEW e \in BOOLEAN,
         ends(code, stdout, t, e),
         e => code = 0 /\ ~t /\ app = "accepted" /\ stdout \in {"manifest", "noise"},
         stdout = "manifest" /\ code = 0 /\ ~t => e,
         app \notin {"none", "accepted"} => t \/ code = 1
  PROVE  CommandShape'
<1>1. phase' = "ended" /\ UNCHANGED args
      /\ child' = [code |-> code, stdout |-> stdout, timedOut |-> t, exports |-> e, app |-> app]
  BY DEF ends
<1>2. loads'
  BY <1>1 DEF CommandShape, loads
<1>3. ChildTold'
  BY <1>1 DEF ChildTold
<1> QED
  BY <1>1, <1>2, <1>3 DEF CommandShape

LEMMA FileExitsStep == ASSUME CommandShape, NEW code, NEW noise, FileExits(code, noise) PROVE CommandShape'
  BY EndsStep DEF FileExits

LEMMA ImportedStep ==
  ASSUME CommandShape, NEW default \in ExportType, NEW named \in ExportType, NEW noise, Imported(default, named, noise)
  PROVE  CommandShape'
<1> DEFINE e == exported(default, named)
<1>1. e \in ExportType /\ (e = "app" => app = "accepted")
  BY DEF exported, Imported
<1>2. phase = "child" /\ app \in {"none", "accepted"}
  BY DEF Imported
<1>3. CASE e \in {"none", "value"}
  <2>1. ends(3, IF noise THEN "noise" ELSE "nothing", FALSE, FALSE)
    BY <1>3 DEF Imported
  <2> QED
    BY <1>2, <2>1, EndsStep
<1>4. CASE e = "app"
  <2>1. ends(0, IF noise THEN "noise" ELSE "manifest", FALSE, TRUE)
    BY <1>4 DEF Imported, written
  <2> QED
    BY <1>1, <1>2, <1>4, <2>1, EndsStep
<1>5. CASE e \in {"nullManifest", "otherManifest"}
  <2> DEFINE stdout == IF noise THEN "noise" ELSE IF e = "nullManifest" THEN "null" ELSE "other"
  <2>1. ends(0, stdout, FALSE, FALSE)
    BY <1>5 DEF Imported, written
  <2> QED
    BY <1>2, <2>1, EndsStep
<1> QED
  BY <1>1, <1>3, <1>4, <1>5 DEF ExportType

\* loadAppManifest() takes the timeout, the code and the output in this order.
LEMMA LoadStep == ASSUME CommandShape, Load PROVE CommandShape'
<1>1. loads /\ ChildTold
  BY DEF Load, CommandShape
<1>2. /\ phase' = "exited" /\ UNCHANGED <<args, child>> /\ dir' = FALSE
      /\ out' = [code |-> loadAppManifest, printed |-> IF loadAppManifest = 0 THEN child.stdout ELSE "nothing"]
  BY DEF Load, exit
<1>3. /\ (loadAppManifest = 0) = (child.exports /\ child.stdout = "manifest")
      /\ loadAppManifest = 0 => child.app = "accepted" /\ child.stdout = "manifest"
      /\ (loadAppManifest = 2) = child.timedOut
      /\ loadAppManifest = 3 => ~child.exports
      /\ child.app \notin {"none", "accepted"} => loadAppManifest \in {1, 2}
  BY <1>1 DEF loadAppManifest, parses, ChildTold
<1>4. CliTruth'
  BY <1>2, <1>3 DEF CliTruth, loads
<1> QED
  BY <1>2, <1>4 DEF CommandShape

LEMMA CommandStep == ASSUME CommandInv, [CliNext]_cvars PROVE CommandInv'
<1>1. CASE UNCHANGED cvars
  <2>1. CommandShape'
    BY <1>1 DEF cvars, CommandInv, CommandShape, ChildTold, CliTruth, loads
  <2>2. FileInv'
    BY <1>1, FileStep DEF cvars, CommandInv
  <2> QED
    BY <2>1, <2>2 DEF CommandInv
<1>2. CASE Main
  <2>1. FileInv'
    BY <1>2, FileStep DEF Main, CommandInv
  <2> QED
    BY <1>2, <2>1, MainStep DEF CommandInv
<1>3. CASE Run
  <2>1. FileInv'
    BY <1>3, FileStep DEF Run, CommandInv
  <2>2. CommandShape'
    BY <1>3 DEF Run, CommandInv, CommandShape, ChildTold, CliTruth, loads
  <2> QED
    BY <2>1, <2>2 DEF CommandInv
<1>4. CASE ImportFails
  BY <1>4, Emptied, EndsStep DEF ImportFails, CommandInv
<1>5. ASSUME NEW code, NEW noise, FileExits(code, noise) PROVE CommandInv'
  <2>1. FileInv'
    BY <1>5, Emptied DEF FileExits
  <2> QED
    BY <1>5, <2>1, FileExitsStep DEF CommandInv
<1>6. ASSUME NEW default \in ExportType, NEW named \in ExportType, NEW noise, Imported(default, named, noise)
      PROVE  CommandInv'
  <2>1. FileInv'
    BY <1>6, Emptied DEF Imported
  <2> QED
    BY <1>6, <2>1, ImportedStep DEF CommandInv
<1>7. ASSUME NEW stdout, TimesOut(stdout) PROVE CommandInv'
  BY <1>7, Emptied, EndsStep DEF TimesOut, CommandInv
<1>8. CASE Load
  <2>1. FileInv'
    BY <1>8, FileStep DEF Load, CommandInv
  <2> QED
    BY <1>8, <2>1, LoadStep DEF CommandInv
<1> QED
  BY <1>1, <1>2, <1>3, <1>4, <1>5, <1>6, <1>7, <1>8 DEF CliNext

\* The command exits with 0 exactly when its file defined an application,
\* exported it, was silent and let the process end in time, with 2 exactly when
\* it was killed, and its directory is gone (main.ts, load-app.ts).
THEOREM CommandTells == CliSpec => []CliTruth
<1>1. CommandInv => CliTruth
  BY DEF CommandInv, CommandShape, CliTruth
<1> QED
  BY CommandInitially, CommandStep, <1>1, PTL DEF CliSpec

\* A file the command imports is the file it would be alone: what it serves and
\* what its handlers see is as validated there too, until its process ends.
THEOREM ImportedTheSame == CliSpec => [](ServedAsValidated /\ ServicesView)
<1>1. CommandInv => ServedAsValidated /\ ServicesView
  BY FileServed, FileView DEF CommandInv
<1> QED
  BY CommandInitially, CommandStep, <1>1, PTL DEF CliSpec

-----------------------------------------------------------------------------
(* The calls of serve() on it.                                             *)

\* serve() is called again and again: a call comes after the ones before it.
InOrder == \A c, d \in Calls : d < c /\ server[c] # "none" => server[d] # "none"

\* What the initialization has done so far, and what it left when it was over.
Stands(c) ==
  /\ init[c] = "none" <=> server[c] = "none"
  /\ ServiceCount = 0 => init[c] \in {"none", "ready"}
  /\ init[c] = "none" => live[c] = 0
  /\ init[c] = "running" => live[c] < ServiceCount
  /\ init[c] = "ready" /\ server[c] # "gone" => live[c] = ServiceCount

InitStands == \A c \in Calls : Stands(c)

\* The gate is the promise of the last call; the hub has a server that started.
Last ==
  /\ ServiceCount = 0 => gate = nobody
  /\ gate # nobody => server[gate] # "none"
  /\ ServiceCount # 0 => \A c \in Calls : server[c] # "none" => c <= gate
  /\ hub # nobody => server[hub] # "none"
  /\ \A c \in Calls : server[c] = "listening" => hub >= c

\* An earlier call that is starting its services still was when a later one was
\* made, and when every call between them was.
Beside ==
  \A c, d \in Calls :
    d < c /\ server[c] # "none" =>
      /\ init[d] = "running" => d \in beside[c]
      /\ \A g \in Calls : c <= g /\ d \in beside[g] => d \in beside[c]

Unmade == \A c \in Calls : server[c] = "none" => beside[c] = {}

\* The flag is up: the services have come up of the last call, or of one that
\* was starting them when it was made.
Flag == settled /\ gate # nobody => \E d \in {gate} \cup beside[gate] : init[d] = "ready"

\* What makes the requests of a call run.
Covered(c) == init[c] = "ready" \/ \E d \in company(c) : init[d] = "ready"

\* A request that is not over waits for the promise of its call or a later one.
Attends(r) ==
  LET c == request[r].server
  IN request[r].state \in {"held", "running"} =>
       /\ c \in Calls /\ server[c] \in {"listening", "stopping"} /\ hub >= c
       /\ IF ServiceCount = 0 THEN request[r].gate = nobody ELSE request[r].gate >= c
       /\ request[r].state = "running" => Covered(c)

Waiting == \A r \in Requests : Attends(r)

CallsInv == TypeOK /\ InOrder /\ InitStands /\ Last /\ Beside /\ Unmade /\ Flag /\ Waiting

-----------------------------------------------------------------------------
\* The state of every call, request and shared variable keeps its type: the
\* flag and the promise of the gate in prepared-app.ts, the coordinator's
\* initPromise, and what serve.ts returned or threw.
LEMMA TypeStep == ASSUME TypeOK, InitStands, [StartupNext]_startupVars PROVE TypeOK'
<1> USE CountsAssumption DEF TypeOK
<1>1. CASE UNCHANGED startupVars
  BY <1>1 DEF startupVars, shared
<1>2. ASSUME NEW c \in Calls, NEW o \in ServeOptions, Serve(c, o) PROVE TypeOK'
  BY <1>2 DEF Serve, Gates
<1>3. ASSUME NEW c \in Calls, InitResolves(c) PROVE TypeOK'
  <2>1. live[c] + 1 \in 0 .. ServiceCount
    BY <1>3 DEF InitResolves, InitStands, Stands
  <2> QED
    BY <1>3, <2>1 DEF InitResolves
<1>4. ASSUME NEW c \in Calls, InitRejects(c) PROVE TypeOK'
  BY <1>4 DEF InitRejects, shared
<1>5. ASSUME NEW c \in Calls, RolledBack(c) PROVE TypeOK'
  <2>1. 0 \in 0 .. ServiceCount
    OBVIOUS
  <2> QED
    BY <1>5, <2>1 DEF RolledBack
<1>6. ASSUME NEW c \in Calls, NEW r \in Requests, Arrive(r, c) PROVE TypeOK'
  BY <1>6 DEF Arrive, shared
<1>7. ASSUME NEW r \in Requests, Released(r) PROVE TypeOK'
  BY <1>7 DEF Released, shared
<1>8. ASSUME NEW r \in Requests, Respond(r) PROVE TypeOK'
  BY <1>8 DEF Respond, shared
<1>9. ASSUME NEW c \in Calls, Shutdown(c) PROVE TypeOK'
  BY <1>9 DEF Shutdown, shared
<1>10. ASSUME NEW c \in Calls, Dispose(c) PROVE TypeOK'
  <2>1. 0 \in 0 .. ServiceCount
    OBVIOUS
  <2> QED
    BY <1>10, <2>1 DEF Dispose, shared
<1> QED
  BY <1>1, <1>2, <1>3, <1>4, <1>5, <1>6, <1>7, <1>8, <1>9, <1>10 DEF StartupNext

LEMMA InitStep == ASSUME TypeOK, InitStands, [StartupNext]_startupVars PROVE InitStands'
<1> SUFFICES ASSUME NEW d \in Calls PROVE Stands(d)'
  BY DEF InitStands
<1>1. Stands(d) /\ TypeOK
  BY DEF InitStands
<1> USE <1>1, CountsAssumption DEF Stands, TypeOK
<1>2. CASE UNCHANGED startupVars
  BY <1>2 DEF startupVars
<1>3. ASSUME NEW c \in Calls, NEW o \in ServeOptions, Serve(c, o) PROVE Stands(d)'
  BY <1>3 DEF Serve
<1>4. ASSUME NEW c \in Calls, InitResolves(c) PROVE Stands(d)'
  BY <1>4 DEF InitResolves, InitStands
<1>5. ASSUME NEW c \in Calls, InitRejects(c) PROVE Stands(d)'
  BY <1>5 DEF InitRejects, InitStands
<1>6. ASSUME NEW c \in Calls, RolledBack(c) PROVE Stands(d)'
  BY <1>6 DEF RolledBack, InitStands
<1>7. ASSUME NEW c \in Calls, Shutdown(c) PROVE Stands(d)'
  BY <1>7 DEF Shutdown
<1>8. ASSUME NEW c \in Calls, Dispose(c) PROVE Stands(d)'
  BY <1>8 DEF Dispose
<1>9. ASSUME NEW q \in Requests, Released(q) \/ Respond(q) \/ \E c \in Calls : Arrive(q, c) PROVE Stands(d)'
  BY <1>9 DEF Released, Respond, Arrive
<1> QED
  BY <1>2, <1>3, <1>4, <1>5, <1>6, <1>7, <1>8, <1>9 DEF StartupNext

-----------------------------------------------------------------------------
\* What a step can do to a call that was made, or that is ready.
LEMMA CallsOnly ==
  ASSUME TypeOK, InitStands, [StartupNext]_startupVars, NEW c \in Calls
  PROVE  /\ server[c] # "none" => server'[c] # "none" /\ beside'[c] = beside[c]
         /\ init[c] = "ready" => init'[c] = "ready"
         /\ init'[c] = "running" /\ server[c] # "none" => init[c] = "running"
         /\ server'[c] = "listening" /\ server[c] # "none" => server[c] = "listening"
         /\ server[c] = "none" /\ server'[c] # "none" => \E o \in ServeOptions : Serve(c, o)
<1> USE DEF TypeOK
<1>1. CASE UNCHANGED startupVars
  BY <1>1 DEF startupVars
<1>2. ASSUME NEW d \in Calls, NEW o \in ServeOptions, Serve(d, o)
      PROVE  /\ server[c] # "none" => server'[c] # "none" /\ beside'[c] = beside[c]
             /\ server[c] # "none" => init'[c] = init[c] /\ server'[c] = server[c]
             /\ init[c] = "ready" => init'[c] = "ready"
             /\ server[c] = "none" /\ server'[c] # "none" => c = d
  <2>1. server[d] = "none" /\ init[d] # "ready"
    BY <1>2 DEF Serve, InitStands, Stands
  <2> QED
    BY <1>2, <2>1 DEF Serve
<1>3. ASSUME NEW d \in Calls, InitResolves(d) \/ InitRejects(d) \/ RolledBack(d)
      PROVE  /\ UNCHANGED <<server, beside>>
             /\ init[c] = "ready" => init'[c] = "ready"
             /\ init'[c] = "running" => init[c] = "running"
  BY <1>3 DEF InitResolves, InitRejects, RolledBack
<1>4. ASSUME NEW d \in Calls, Shutdown(d) \/ Dispose(d)
      PROVE  /\ UNCHANGED <<init, beside>>
             /\ server[c] # "none" => server'[c] # "none"
             /\ server[c] = "none" => server'[c] = "none"
             /\ server'[c] = "listening" => server[c] = "listening"
  BY <1>4 DEF Shutdown, Dispose
<1>5. ASSUME NEW q \in Requests, Released(q) \/ Respond(q) \/ \E d \in Calls : Arrive(q, d)
      PROVE  UNCHANGED <<server, init, beside>>
  BY <1>5 DEF Released, Respond, Arrive
<1> QED
  BY <1>1, <1>2, <1>3, <1>4, <1>5 DEF StartupNext

\* The gate and the hub are written by a call of serve() and by nothing else.
LEMMA SharedOnly ==
  ASSUME TypeOK, [StartupNext]_startupVars,
         ~ \E c \in Calls, o \in ServeOptions : Serve(c, o)
  PROVE  UNCHANGED <<gate, hub, beside>> /\ \A c \in Calls : server[c] = "none" <=> server'[c] = "none"
<1> USE DEF TypeOK
<1>1. CASE UNCHANGED startupVars
  BY <1>1 DEF startupVars, shared
<1>2. ASSUME NEW d \in Calls, InitResolves(d) \/ InitRejects(d) \/ RolledBack(d)
      PROVE  UNCHANGED <<gate, hub, beside, server>>
  BY <1>2 DEF InitResolves, InitRejects, RolledBack, shared
<1>3. ASSUME NEW d \in Calls, Shutdown(d) \/ Dispose(d)
      PROVE  UNCHANGED <<gate, hub, beside>> /\ \A c \in Calls : server[c] = "none" <=> server'[c] = "none"
  BY <1>3 DEF Shutdown, Dispose, shared
<1>4. ASSUME NEW q \in Requests, Released(q) \/ Respond(q) \/ \E d \in Calls : Arrive(q, d)
      PROVE  UNCHANGED <<gate, hub, beside, server>>
  BY <1>4 DEF Released, Respond, Arrive, shared
<1> QED
  BY <1>1, <1>2, <1>3, <1>4 DEF StartupNext

-----------------------------------------------------------------------------
LEMMA CallsInitially == StartupInit => CallsInv
  BY CountsAssumption
  DEF StartupInit, CallsInv, TypeOK, ServeOptions, Fine, NoRequest, Calls, nobody, InOrder,
      InitStands, Stands, Last, Beside, Unmade, Flag, Waiting, Attends

LEMMA OrderStep == ASSUME CallsInv, [StartupNext]_startupVars PROVE InOrder'
<1> SUFFICES ASSUME NEW c \in Calls, NEW d \in Calls, d < c, server'[c] # "none" PROVE server'[d] # "none"
  BY DEF InOrder
<1>1. CASE server[c] # "none"
  BY <1>1, CallsOnly DEF CallsInv, InOrder
<1>2. CASE server[c] = "none"
  <2>1. PICK o \in ServeOptions : Serve(c, o)
    BY <1>2, CallsOnly DEF CallsInv
  <2>2. d \in 1 .. c - 1
    BY CountsAssumption DEF Calls
  <2> QED
    BY <2>1, <2>2, CallsOnly DEF Serve, CallsInv
<1> QED
  BY <1>1, <1>2

\* A call that is made is the last.
LEMMA MadeLast ==
  ASSUME CallsInv, NEW c \in Calls, NEW o \in ServeOptions, Serve(c, o), NEW d \in Calls, server'[d] # "none"
  PROVE  d <= c
<1>1. CASE c < d
  <2>1. server[c] = "none" /\ server'[d] = server[d]
    BY <1>1, CountsAssumption DEF Serve, CallsInv, TypeOK, Calls
  <2>2. server[d] # "none" => server[c] # "none"
    BY <1>1 DEF CallsInv, InOrder
  <2> QED
    BY <2>1, <2>2
<1> QED
  BY <1>1, CountsAssumption DEF Calls

LEMMA LastStep == ASSUME CallsInv, [StartupNext]_startupVars PROVE Last'
<1> USE CountsAssumption DEF Last
<1>1. ASSUME NEW c \in Calls, NEW o \in ServeOptions, Serve(c, o) PROVE Last'
  <2>1. \A d \in Calls : server'[d] # "none" => d <= c
    BY <1>1, MadeLast
  <2>2. gate' = IF ServiceCount = 0 THEN gate ELSE c
    BY <1>1 DEF Serve, Gates
  <2>3. hub' = (IF o.refused THEN hub ELSE c) /\ server'[c] = (IF o.refused THEN "refused" ELSE "listening")
    BY <1>1 DEF Serve, CallsInv, TypeOK
  <2>4. \A d \in Calls : server[d] # "none" => server'[d] # "none"
    BY <1>1 DEF Serve, CallsInv, TypeOK
  <2>5. \A d \in Calls : d # c => server'[d] = server[d]
    BY <1>1 DEF Serve, CallsInv, TypeOK
  <2>6. c \in Nat /\ hub \in Calls \cup {nobody} /\ gate \in Calls \cup {nobody}
    BY DEF Calls, CallsInv, TypeOK
  <2>7. \A d \in Calls : server'[d] = "listening" => hub' >= d
    <3> SUFFICES ASSUME NEW d \in Calls, server'[d] = "listening" PROVE hub' >= d
      OBVIOUS
    <3>1. CASE d = c
      BY <3>1, <2>3 DEF Calls
    <3>2. CASE d # c
      <4>1. d <= c /\ hub >= d
        BY <3>2, <2>1, <2>5 DEF CallsInv
      <4> QED
        BY <4>1, <2>3, <2>6 DEF Calls
    <3> QED
      BY <3>1, <3>2
  <2> QED
    BY <2>1, <2>2, <2>3, <2>4, <2>6, <2>7 DEF CallsInv
<1>2. CASE ~ \E c \in Calls, o \in ServeOptions : Serve(c, o)
  <2>1. UNCHANGED <<gate, hub>> /\ \A c \in Calls : server[c] = "none" <=> server'[c] = "none"
    BY <1>2, SharedOnly DEF CallsInv
  <2>2. \A c \in Calls : server'[c] = "listening" => server[c] = "listening"
    BY <2>1, CallsOnly DEF CallsInv
  <2> QED
    BY <2>1, <2>2 DEF CallsInv, TypeOK
<1> QED
  BY <1>1, <1>2

LEMMA UnmadeStep == ASSUME CallsInv, [StartupNext]_startupVars PROVE Unmade'
<1> SUFFICES ASSUME NEW c \in Calls, server'[c] = "none" PROVE beside'[c] = {}
  BY DEF Unmade
<1>1. server[c] = "none" /\ beside[c] = {}
  BY CallsOnly DEF CallsInv, Unmade
<1>2. ASSUME NEW d \in Calls, NEW o \in ServeOptions, Serve(d, o) PROVE beside'[c] = {}
  BY <1>1, <1>2 DEF Serve, CallsInv, TypeOK
<1> QED
  BY <1>1, <1>2, SharedOnly DEF CallsInv

LEMMA BesideStep == ASSUME CallsInv, [StartupNext]_startupVars PROVE Beside'
<1> SUFFICES ASSUME NEW c \in Calls, NEW d \in Calls, d < c, server'[c] # "none"
             PROVE  /\ init'[d] = "running" => d \in beside'[c]
                    /\ \A g \in Calls : c <= g /\ d \in beside'[g] => d \in beside'[c]
  BY DEF Beside
<1>1. TypeOK /\ InOrder /\ InitStands /\ Beside /\ Unmade
  BY DEF CallsInv
<1>2. ASSUME NEW e \in Calls, NEW o \in ServeOptions, Serve(e, o)
      PROVE  /\ init'[d] = "running" => d \in beside'[c]
             /\ \A g \in Calls : c <= g /\ d \in beside'[g] => d \in beside'[c]
  <2>1. /\ beside'[e] = {f \in Calls : init[f] = "running"}
        /\ \A f \in Calls : f # e => beside'[f] = beside[f] /\ server'[f] = server[f] /\ init'[f] = init[f]
    BY <1>1, <1>2 DEF Serve, TypeOK
  <2>2. c <= e /\ d # e
    BY <1>2, MadeLast, CountsAssumption DEF Calls
  <2>3. CASE c = e
    <3>1. \A g \in Calls : c <= g => beside'[g] = IF g = e THEN beside'[e] ELSE {}
      <4> SUFFICES ASSUME NEW g \in Calls, c <= g, g # e PROVE beside'[g] = {}
        BY <2>3
      <4>1. server'[g] = "none"
        BY <1>2, <2>3, MadeLast, CountsAssumption DEF Calls
      <4> QED
        BY <1>1, <2>1, <4>1 DEF Unmade
    <3> QED
      BY <2>1, <2>2, <2>3, <3>1
  <2>4. CASE c # e
    <3>1. server[c] # "none" /\ beside'[c] = beside[c]
      BY <2>1, <2>4
    <3>2. init[d] = "running" => d \in beside[c]
      BY <1>1, <3>1 DEF Beside
    <3> QED
      BY <1>1, <2>1, <2>2, <3>1, <3>2 DEF Beside
  <2> QED
    BY <2>3, <2>4
<1>3. CASE ~ \E e \in Calls, o \in ServeOptions : Serve(e, o)
  <2>1. beside' = beside /\ server[c] # "none"
    BY <1>1, <1>3, SharedOnly
  <2>2. init'[d] = "running" => init[d] = "running"
    BY <1>1, <2>1, CallsOnly DEF InOrder
  <2> QED
    BY <1>1, <2>1, <2>2 DEF Beside
<1> QED
  BY <1>2, <1>3

LEMMA FlagStep == ASSUME CallsInv, [StartupNext]_startupVars PROVE Flag'
<1>1. TypeOK /\ InOrder /\ InitStands /\ Last /\ Beside /\ Flag
  BY DEF CallsInv
<1>2. ASSUME NEW c \in Calls, NEW o \in ServeOptions, Serve(c, o) PROVE Flag'
  <2>1. CASE ServiceCount = 0
    BY <1>1, <1>2, <2>1 DEF Serve, Gates, Last, Flag
  <2>2. CASE ServiceCount # 0
    BY <1>2, <2>2 DEF Serve, Gates, Flag
  <2> QED
    BY <2>1, <2>2
<1>3. CASE ~ \E c \in Calls, o \in ServeOptions : Serve(c, o)
  <2>1. UNCHANGED <<gate, beside>>
    BY <1>1, <1>3, SharedOnly
  <2>2. \A d \in Calls : init[d] = "ready" => init'[d] = "ready"
    BY <1>1, CallsOnly
  <2>3. CASE settled
    BY <1>1, <2>1, <2>2, <2>3 DEF Flag, TypeOK
  <2>4. CASE ~ settled /\ settled' /\ gate' # nobody
    <3>1. PICK c \in Calls : InitResolves(c) /\ init'[c] = "ready" /\ init[c] = "running"
      BY <1>1, <1>3, <2>4
      DEF StartupNext, startupVars, shared, TypeOK, InitResolves, InitRejects, RolledBack, Shutdown, Dispose, Arrive, Released, Respond
    <3>2. server[c] # "none" /\ ServiceCount # 0
      BY <1>1, <3>1 DEF InitStands, Stands
    <3>3. c <= gate /\ gate \in Calls /\ server[gate] # "none"
      BY <1>1, <2>1, <2>4, <3>2 DEF Last, TypeOK
    <3>4. c = gate \/ c \in beside[gate]
      BY <1>1, <3>1, <3>3, CountsAssumption DEF Beside, Calls
    <3> QED
      BY <2>1, <3>1, <3>4 DEF Flag
  <2> QED
    BY <2>3, <2>4 DEF Flag
<1> QED
  BY <1>2, <1>3

-----------------------------------------------------------------------------
\* What covers a call goes on covering it.
LEMMA CoverStays ==
  ASSUME TypeOK, InitStands, [StartupNext]_startupVars, NEW c \in Calls, server[c] # "none", Covered(c)
  PROVE  Covered(c)'
<1>1. beside'[c] = beside[c] /\ \A d \in Calls : init[d] = "ready" => init'[d] = "ready"
  BY CallsOnly
<1> QED
  BY <1>1 DEF Covered, company, TypeOK

\* A call made later, or in whose company that one was made, covers this one.
LEMMA LaterCovers ==
  ASSUME CallsInv, NEW c \in Calls, server[c] # "none", NEW g \in Calls, c <= g,
         NEW d \in {g} \cup beside[g], init[d] = "ready"
  PROVE  Covered(c)
<1>1. d \in Calls
  BY DEF CallsInv, TypeOK
<1>2. CASE d = c \/ d > c
  BY <1>1, <1>2, CountsAssumption DEF Covered, company, Calls
<1>3. CASE d < c
  <2>1. d \in beside[c]
    BY <1>1, <1>3, CountsAssumption DEF CallsInv, Beside, Calls
  <2> QED
    BY <1>1, <1>3, <2>1, CountsAssumption DEF Covered, company, Calls
<1> QED
  BY <1>1, <1>2, <1>3, CountsAssumption DEF Calls

\* Of a request nothing changes but by its own steps.
LEMMA AttendsAsBefore ==
  ASSUME CallsInv, [StartupNext]_startupVars, NEW r \in Requests, request'[r] = request[r],
         hub' >= hub,
         request[r].state \in {"held", "running"} => server'[request[r].server] \in {"listening", "stopping"}
  PROVE  Attends(r)'
<1> SUFFICES ASSUME request[r].state \in {"held", "running"} PROVE Attends(r)'
  BY DEF Attends
<1> DEFINE c == request[r].server
<1>1. Attends(r) /\ TypeOK /\ InitStands /\ TypeOK'
  BY TypeStep DEF CallsInv, Waiting
<1>2. c \in Calls /\ server[c] \in {"listening", "stopping"} /\ hub >= c
  BY <1>1 DEF Attends
<1>3. hub' >= c
  BY <1>1, <1>2 DEF TypeOK, Calls, nobody
<1>4. request[r].state = "running" => Covered(c)'
  BY <1>1, <1>2, CoverStays DEF Attends
<1> QED
  BY <1>1, <1>2, <1>3, <1>4 DEF Attends

LEMMA WaitingStep == ASSUME CallsInv, [StartupNext]_startupVars PROVE Waiting'
<1> SUFFICES ASSUME NEW r \in Requests PROVE Attends(r)'
  BY DEF Waiting
<1> DEFINE c == request[r].server
<1>1. Attends(r) /\ TypeOK /\ InitStands /\ Last /\ Flag
  BY DEF CallsInv, Waiting
<1>a. hub \in Int /\ hub >= hub
  BY <1>1 DEF TypeOK, Calls, nobody
<1>b. request[r].state \in {"held", "running"} => c \in Calls /\ server[c] \in {"listening", "stopping"}
  BY <1>1 DEF Attends
<1> USE DEF TypeOK
<1>2. CASE UNCHANGED startupVars
  BY <1>2, <1>a, <1>b, AttendsAsBefore DEF startupVars, shared
<1>3. ASSUME NEW d \in Calls, NEW o \in ServeOptions, Serve(d, o) PROVE Attends(r)'
  <2>1. request' = request /\ hub' = (IF o.refused THEN hub ELSE d)
    BY <1>3 DEF Serve
  <2>2. hub # nobody => hub <= d
    <3> SUFFICES ASSUME hub # nobody PROVE hub <= d
      OBVIOUS
    <3>1. hub \in Calls /\ server[hub] # "none"
      BY <1>1 DEF Last
    <3>2. server'[hub] # "none"
      BY <1>1, <3>1, CallsOnly
    <3> QED
      BY <1>3, <3>1, <3>2, MadeLast
  <2>3. hub' >= hub
    BY <1>a, <2>1, <2>2, CountsAssumption DEF Calls, nobody
  <2>4. \A e \in Calls : server[e] # "none" => server'[e] = server[e]
    BY <1>1, <1>3 DEF Serve
  <2> QED
    BY <1>b, <2>1, <2>3, <2>4, AttendsAsBefore
<1>4. ASSUME NEW d \in Calls, InitResolves(d) \/ InitRejects(d) \/ RolledBack(d) PROVE Attends(r)'
  BY <1>4, <1>a, <1>b, AttendsAsBefore DEF InitResolves, InitRejects, RolledBack, shared
<1>5. ASSUME NEW d \in Calls, Shutdown(d) PROVE Attends(r)'
  BY <1>1, <1>5, <1>a, <1>b, AttendsAsBefore DEF Shutdown, shared
<1>6. ASSUME NEW d \in Calls, Dispose(d) PROVE Attends(r)'
  <2>1. request[r].state \in {"held", "running"} => c # d
    BY <1>6 DEF Dispose
  <2> QED
    BY <1>1, <1>6, <1>a, <1>b, <2>1, AttendsAsBefore DEF Dispose, shared
<1>7. ASSUME NEW d \in Calls, NEW q \in Requests, Arrive(q, d) PROVE Attends(r)'
  <2>1. CASE q # r
    BY <1>1, <1>7, <2>1, <1>a, <1>b, AttendsAsBefore DEF Arrive, shared
  <2>2. CASE q = r
    <3>1. /\ request'[r] = [server |-> d, gate |-> gate, state |-> IF settled THEN "running" ELSE "held"]
          /\ server[d] = "listening" /\ UNCHANGED <<server, init, hub, beside>>
      BY <1>1, <1>7, <2>2 DEF Arrive, shared
    <3>2. hub >= d /\ (IF ServiceCount = 0 THEN gate = nobody ELSE gate >= d)
      BY <1>1, <3>1 DEF Last
    <3>3. settled => Covered(d)
      <4>1. CASE ServiceCount = 0
        BY <1>1, <3>1, <4>1 DEF InitStands, Stands, Covered
      <4>2. CASE ServiceCount # 0
        <5>1. gate \in Calls /\ gate # nobody /\ d <= gate
          BY <1>1, <3>2, <4>2, CountsAssumption DEF Calls, nobody
        <5>2. settled => \E e \in {gate} \cup beside[gate] : init[e] = "ready"
          BY <1>1, <5>1 DEF Flag
        <5> QED
          BY <3>1, <5>1, <5>2, LaterCovers
      <4> QED
        BY <4>1, <4>2
    <3>4. Covered(d)' <=> Covered(d)
      BY <3>1 DEF Covered, company
    <3> QED
      BY <3>1, <3>2, <3>3, <3>4 DEF Attends
  <2> QED
    BY <2>1, <2>2
<1>8. ASSUME NEW q \in Requests, Released(q) PROVE Attends(r)'
  <2>1. CASE q # r
    BY <1>1, <1>8, <2>1, <1>a, <1>b, AttendsAsBefore DEF Released, shared
  <2>2. CASE q = r /\ request'[r].state = "running"
    <3>1. /\ request[r].state = "held" /\ UNCHANGED <<server, init, hub, beside>>
          /\ request[r].gate = nobody \/ init[request[r].gate] = "ready"
          /\ request'[r].server = c /\ request'[r].gate = request[r].gate
      BY <1>1, <1>8, <2>2 DEF Released, shared
    <3>2. Covered(c)
      <4>1. CASE ServiceCount = 0
        BY <1>1, <1>b, <3>1, <4>1 DEF InitStands, Stands, Covered
      <4>2. CASE ServiceCount # 0
        <5>1. request[r].gate >= c
          BY <1>1, <3>1, <4>2 DEF Attends
        <5>2. request[r].gate # nobody /\ request[r].gate \in Calls
          BY <1>1, <1>b, <3>1, <5>1, CountsAssumption DEF Calls, nobody
        <5> QED
          BY <1>b, <3>1, <5>1, <5>2, LaterCovers, CountsAssumption DEF Calls
      <4> QED
        BY <4>1, <4>2
    <3>3. Covered(c)' <=> Covered(c)
      BY <3>1 DEF Covered, company
    <3> QED
      BY <1>1, <3>1, <3>2, <3>3 DEF Attends
  <2>3. CASE q = r /\ request'[r].state # "running"
    BY <1>1, <1>8, <2>3 DEF Released, Attends
  <2> QED
    BY <2>1, <2>2, <2>3
<1>9. ASSUME NEW q \in Requests, Respond(q) PROVE Attends(r)'
  <2>1. CASE q # r
    BY <1>1, <1>9, <2>1, <1>a, <1>b, AttendsAsBefore DEF Respond, shared
  <2>2. CASE q = r
    BY <1>1, <1>9, <2>2 DEF Respond, Attends
  <2> QED
    BY <2>1, <2>2
<1> QED
  BY <1>2, <1>3, <1>4, <1>5, <1>6, <1>7, <1>8, <1>9 DEF StartupNext

-----------------------------------------------------------------------------
\* Every variable keeps its type, and a call that is ready and not gone has all
\* of its services up, whatever the other calls of serve() do meanwhile.
THEOREM ServicesCounted == StartupSpec => [](TypeOK /\ InitStands)
<1>1. StartupInit => TypeOK /\ InitStands
  BY CallsInitially DEF CallsInv
<1>2. TypeOK /\ InitStands /\ [StartupNext]_startupVars => (TypeOK /\ InitStands)'
  BY TypeStep, InitStep
<1> QED
  BY <1>1, <1>2, PTL DEF StartupSpec

\* A handler runs when the services of its server are up, and before that only
\* when those have come up of a call that was made later or was starting its own
\* when the server's was made (prepared-app.ts, serve.ts: the gate, its flag and
\* the hub are shared by all of them).
THEOREM GateCovers == StartupSpec => []GateCoversServer
<1>1. CallsInv /\ [StartupNext]_startupVars => CallsInv'
  BY TypeStep, OrderStep, InitStep, LastStep, BesideStep, UnmadeStep, FlagStep, WaitingStep DEF CallsInv
<1>2. ASSUME CallsInv PROVE GateCoversServer
  <2> SUFFICES ASSUME NEW r \in Requests, request[r].state = "running"
               PROVE  LET c == request[r].server
                      IN (up(c) \/ \E d \in company(c) : init[d] = "ready") /\ hub >= c
    BY DEF GateCoversServer
  <2> DEFINE c == request[r].server
  <2>1. c \in Calls /\ server[c] \in {"listening", "stopping"} /\ hub >= c /\ Covered(c)
    BY <1>2 DEF CallsInv, Waiting, Attends
  <2>2. init[c] = "ready" => up(c)
    BY <1>2, <2>1 DEF CallsInv, InitStands, Stands, up
  <2> QED
    BY <2>1, <2>2 DEF Covered
<1> QED
  BY CallsInitially, <1>1, <1>2, PTL DEF StartupSpec
=============================================================================
