----------------------------- MODULE MCDefinition -----------------------------
(* A file with two paths and two services, run by the command.              *)
EXTENDS Cli, TLC

text(x) == [kind |-> "text", name |-> x]
path(ss) == [rooted |-> TRUE, segments |-> ss]

MCShape ==
  "/a/:id" :> path(<<text("a"), [kind |-> "param", name |-> "id"]>>)
  @@ "/:id/:id" :> path(<<[kind |-> "param", name |-> "id"], [kind |-> "param", name |-> "id"]>>)
  @@ "/*/a" :> path(<<[kind |-> "star", name |-> ""], text("a")>>)
  @@ "/*" :> path(<<[kind |-> "star", name |-> ""]>>)
  @@ "/" :> path(<<[kind |-> "empty", name |-> ""]>>)
  @@ "/:" :> path(<<[kind |-> "unnamed", name |-> ""]>>)
  @@ "docs" :> [rooted |-> FALSE, segments |-> <<text("docs")>>]
  @@ "/docs" :> path(<<text("docs")>>)
  @@ "/openapi.json" :> path(<<text("openapi.json")>>)
  @@ "/health" :> path(<<text("health")>>)
  @@ "/ready" :> path(<<text("ready")>>)

MCPatterns == {"/docs", "/:id/:id"}

MCGuards == {[name |-> "auth", callable |-> TRUE], [name |-> "odd", callable |-> FALSE], [name |-> "", callable |-> TRUE]}

at2(x, y) == [p \in MCPatterns |-> IF p = "/docs" THEN x ELSE y]
absent == [kind |-> "absent", name |-> "", value |-> "absent"]
plain == [kind |-> "plain", name |-> "", value |-> "early"]

MCFiles == {[root |-> f[1], module |-> f[2], services |-> [k \in {"db", "mail"} |-> IF k = "db" THEN plain ELSE absent]] :
  f \in {<<at2("route", "none"), at2("none", "none")>>,
         <<at2("socket", "none"), at2("upgrade", "none")>>,
         <<at2("twice", "null"), at2("none", "none")>>,
         <<at2("object", "none"), at2("none", "function")>>}}

svc(via, name, crud, close, closable) ==
  [via |-> via, name |-> name, hooks |-> TRUE, crud |-> crud, close |-> close, closable |-> closable]

MCServices == {svc("service", "db", {}, "absent", FALSE), svc("service", "", {}, "absent", FALSE),
               svc("drizzle", "mail", Methods, "yes", TRUE), svc("drizzle", "mail", Methods, "yes", FALSE),
               svc("drizzle", "mail", {"select"}, "no", FALSE)}

health(l) == [livenessPath |-> l]
api(ui) == [known |-> TRUE, titled |-> TRUE, ui |-> ui]

MCOptions ==
  {[etag |-> "ok"], [modules |-> "odd"], [modules |-> "twice"], [modules |-> "object"], [routes |-> "array"],
   [unknown |-> TRUE, bodyBudget |-> 0], [bodyBudget |-> 0], [cors |-> "LUGAS_CORS_003", modules |-> "odd"],
   [openapi |-> api("true")], [openapi |-> api("absent")], [openapi |-> api("true") @@ [path |-> "/docs"]],
   [openapi |-> api("object") @@ [uiPath |-> "docs"]], [health |-> health("/docs")], [health |-> health("/ready")],
   [health |-> health("/*")], [health |-> health("/a/:id"), telemetry |-> [known |-> TRUE, callable |-> TRUE]],
   [telemetry |-> [known |-> FALSE, callable |-> TRUE]],
   [logging |-> [known |-> TRUE, sink |-> TRUE, flags |-> TRUE, level |-> "loud"]],
   [logging |-> [known |-> TRUE, sink |-> TRUE, flags |-> TRUE], onError |-> FALSE]}

MCKeys == {"db", "mail"}

MCCommandLines ==
  {<<>>, <<"inspect", "app.ts">>, <<"--timeout", "250", "inspect", "app.ts">>, <<"routes", "--timeout", "250", "app.ts">>,
   <<"inspect", "app.ts", "--timeout", "0">>, <<"inspect", "app.ts", "--timeout", "soon">>, <<"routes", "-v">>, <<"routes", "">>,
   <<"app.ts", "--help", "routes">>, <<"--version">>, <<"routes", "app.ts", "inspect">>, <<"routes", "no.ts">>, <<"--timeout">>}
MCNumbers == "250" :> 250 @@ "0" :> 0

=============================================================================
