---------------------------- MODULE MCRouteTable -----------------------------
(* Two owners and up to two declarations over three patterns that overlap   *)
(* with each other and with the files, mounts and endpoints below.          *)
EXTENDS Documents

app == <<"app">>
new == <<"app", "new">>
item == <<"app", ":wildcard">>
tree == <<"app", "*">>
MCPaths == {new, item, tree}

MCRequests == {app, new, <<"app", "x">>, <<"app", "new", "x">>, <<"x">>}

AnyMethod(k) == [m \in {star} |-> k]
Get(k) == [m \in {"GET"} |-> k]

\* Values for every method, maps with one method and with two, an empty map,
\* and the entries that are refused.
MCEntries ==
  {AnyMethod(k) : k \in {"lugas", "function", "directory", "junk"}} \cup {Get("socket"), Get("nested")}
    \cup {[m \in {"GET", "POST"} |-> IF m = "GET" THEN "static" ELSE "lugas"],
          [m \in {"POST"} |-> "function"], [m \in {"message"} |-> "junk"], [m \in {} |-> "junk"]}

Bare == [policies |-> {}, assets |-> FALSE, files |-> {}, hashed |-> {}, dirs |-> {},
         openapi |-> <<>>, health |-> <<>>, spa |-> {}, missing |-> {}, linux |-> TRUE]

\* No policy, all of them, all but CORS; the mounts of each kind alone, and of
\* the kinds that can meet in pairs.
MCConfigs ==
  LET Assets(c, f, h, d) == [c EXCEPT !.assets = TRUE, !.files = f, !.hashed = h, !.dirs = d]
      Api(c, o) == [c EXCEPT !.openapi = o]
      Health(c) == [c EXCEPT !.health = <<new, app>>]
      Spa(c, n) == [c EXCEPT !.spa = n]
      mounted == {Bare, Health(Bare), Health(Api(Bare, <<app, new>>)), Health(Spa(Bare, {tree})),
                  Assets(Bare, {}, {}, {})}
        \cup {Assets(Bare, a[1], a[2], a[3]) : a \in {<<{new}, {}, {}>>, <<{}, {app}, {tree}>>,
                                                     <<{}, {new}, {tree}>>, <<{item}, {}, {}>>}}
        \cup {Api(Bare, o) : o \in {<<new>>, <<app, new>>}}
        \cup {Spa(Bare, n) : n \in {{tree}, {app, new}, {new, tree}, {item}}}
        \cup {Spa(Assets(Bare, {new}, {app}, {}), n) : n \in {{tree}, {app}}}
        \cup {Api(Assets(Bare, {}, {}, {tree}), <<new>>), Health(Assets(Bare, {}, {app}, {})),
              Spa(Api(Bare, <<new>>), {tree})}
        \cup {[Assets(Bare, {new}, {}, {tree}) EXCEPT !.missing = {new}],
              [Assets(Bare, {}, {app}, {tree}) EXCEPT !.linux = FALSE],
              [Assets(Bare, {}, {app}, {}) EXCEPT !.linux = FALSE],
              [Spa(Bare, {tree}) EXCEPT !.missing = {shell}]}
  IN {[c EXCEPT !.policies = P] : c \in mounted, P \in {{}, Policies, Policies \ {"cors"}}}

\* A bare route; one that validates everything and can be introspected; one
\* with metadata of its own; one whose schemas are opaque or throw.
Plain == [slots |-> {}, query |-> "opaque", body |-> "opaque", tags |-> FALSE, responses |-> FALSE]
MCDescriptors ==
  {Plain,
   [Plain EXCEPT !.slots = {"params", "query", "body"}, !.query = "introspected", !.body = "introspected"],
   [slots |-> {"query", "body"}, query |-> "explicit", body |-> "explicit", tags |-> TRUE, responses |-> TRUE],
   [Plain EXCEPT !.slots = {"query", "headers"}, !.query = "throwing"]}

MCIntrospected == {<<"page", TRUE>>, <<"size", FALSE>>}
MCOrder == <<app, tree, item, new>>
=============================================================================
