------------------------------- MODULE MCCookies -------------------------------
(* A session cookie with every life it may have, and what may surround it.  *)
EXTENDS Cookies

name(t, dollar) == [text |-> t, token |-> t # "", dollar |-> dollar, proto |-> t = "__proto__"]
octets(t) == [text |-> t, kind |-> "octets"]
encoded == [text |-> "encoded", kind |-> "other"]

plain(n, v, p, age) ==
  [name |-> n, value |-> v, sameSite |-> "absent", secure |-> FALSE, path |-> p, maxAge |-> age, sound |-> TRUE]

session == name("session", FALSE)
theme == name("theme", FALSE)

MCArguments ==
  {plain(session, octets(t), p, age) : t \in {"one", "two"}, p \in {"/", "/app"}, age \in {"absent", "positive", "none"}}
  \cup {plain(name("$id", TRUE), octets("one"), "/", "absent"), plain(name("", FALSE), octets("one"), "/", "absent"),
        plain(theme, octets("dark"), "/app", "absent"), plain(theme, octets("dark"), "/app", "none"),
        plain(name("__proto__", FALSE), octets("one"), "/", "absent"), plain(session, encoded, "/", "absent"), plain(session, octets("one"), "/", "fraction"),
        [plain(session, octets("three"), "/", "absent") EXCEPT !.sameSite = "none"],
        [plain(session, octets("three"), "/", "absent") EXCEPT !.sameSite = "none", !.secure = TRUE],
        [plain(session, [text |-> "quoted", kind |-> "quoted"], "/app", "absent") EXCEPT !.secure = TRUE, !.sameSite = "lax"]}

\* Of the names the server reads back, others have one, under which they keep a
\* value for every path, and one of their own.
MCForeign == {[name |-> theme, value |-> octets("theirs"), eq |-> TRUE],
              [name |-> name("lang", FALSE), value |-> encoded, eq |-> TRUE],
              [name |-> name("", FALSE), value |-> octets("x"), eq |-> TRUE],
              [name |-> name("$Version", TRUE), value |-> octets("1"), eq |-> TRUE],
              [name |-> name("flag", FALSE), value |-> encoded, eq |-> FALSE]}
=============================================================================
