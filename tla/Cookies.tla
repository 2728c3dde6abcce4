-------------------------------- MODULE Cookies --------------------------------
(***************************************************************************)
(* A server that writes cookies with cookie() and reads them back, visits  *)
(* later, with parseCookies().  In between they are in a browser's jar,    *)
(* which keeps them by name and path, sends those that fit a request,      *)
(* longer paths first, and holds cookies of others that the strict writer  *)
(* would never have written and the lenient reader has to live with.       *)
(***************************************************************************)
EXTENDS Naturals, Sequences, FiniteSets, Functions

CONSTANTS
  Arguments,  \* of cookie(): name, value and attributes
  Foreign,    \* what scripts and other servers put into the jar
  MaxJar      \* bound: cookies in the jar

Paths == {"/", "/app"}
SameSites == {"absent", "strict", "lax", "none", "odd"}

\* A string is its text and what the grammars say of it; "proto" is the name
\* "__proto__", to which an object assigns no string.  A "quoted" or an
\* "octets" value may be written, "other" (a space, a comma, a "%") may not.
NameType == [text: STRING, token: BOOLEAN, dollar: BOOLEAN, proto: BOOLEAN]
ValueType == [text: STRING, kind: {"octets", "quoted", "other"}]
ArgumentType ==
  [name: NameType, value: ValueType, sameSite: SameSites, secure: BOOLEAN, path: {"/", "/app", ""},
   maxAge: {"absent", "positive", "none", "fraction"}, sound: BOOLEAN]

ASSUME ArgumentsAssumption == Arguments \subseteq ArgumentType
ASSUME ForeignAssumption == Foreign \subseteq [name: NameType, value: ValueType, eq: BOOLEAN]

\* A name is the same string wherever it is used, and a token is not empty.
CookieNames == {a.name : a \in Arguments} \cup {f.name : f \in Foreign}
ASSUME NamesAssumption ==
  /\ \A m, n \in CookieNames : m.text = n.text => m = n
  /\ \A n \in CookieNames : n.token => n.text # ""
ASSUME BoundAssumption == MaxJar \in Nat

VARIABLES
  jar,    \* the browser's cookies
  meant,  \* what the server last wrote under a name and a path and did not delete
  thrown, \* the diagnostic of the last call of cookie(), or "ok"
  visit,  \* the last request: its path, whether it is secure and of the same site
  seen    \* what parseCookies() returned for it

cookieVars == <<jar, meant, thrown, visit, seen>>

NoVisit == [path |-> "none", secure |-> FALSE, sameSite |-> FALSE]

CookieInit == jar = {} /\ meant = {} /\ thrown = "ok" /\ visit = NoVisit /\ seen = <<>>

-----------------------------------------------------------------------------
(* cookie().                                                               *)

\* "sound" stands for the types of domain and expires.
validAttrs(a) ==
  /\ a.sameSite # "odd" /\ (a.sameSite = "none" => a.secure)
  /\ a.path # "" /\ a.maxAge # "fraction" /\ a.sound

cookie(a) ==
  IF ~a.name.token \/ a.value.kind = "other" THEN "LUGAS_COOKIE_001"
  ELSE IF ~validAttrs(a) THEN "LUGAS_COOKIE_002" ELSE "ok"

sameCookie(c, a) == c.name = a.name /\ c.path = a.path

\* The browser's jar: one cookie for a name and a path; a lifetime that is over
\* deletes it.
kept(a) ==
  {c \in jar : ~sameCookie(c, a)}
  \cup (IF a.maxAge = "none" THEN {}
        ELSE {[name |-> a.name, value |-> a.value, eq |-> TRUE, path |-> a.path, secure |-> a.secure,
               lax |-> a.sameSite = "none", timed |-> a.maxAge = "positive"]})

left == visit' = NoVisit /\ seen' = <<>>

SetCookie(a) ==
  /\ thrown' = cookie(a)
  /\ IF cookie(a) # "ok"
     THEN UNCHANGED <<jar, meant>>
     ELSE /\ Cardinality(kept(a)) <= MaxJar
          /\ jar' = kept(a)
          /\ meant' = {m \in meant : ~sameCookie(m, a)}
                      \cup (IF a.maxAge = "none" THEN {} ELSE {[name |-> a.name, path |-> a.path, value |-> a.value]})
  /\ left

\* A cookie of someone else, for every path; never one of the server's.
SetForeign(f) ==
  /\ Cardinality(jar) < MaxJar /\ \A c \in jar : c.name # f.name
  /\ jar' = jar \cup {[name |-> f.name, value |-> f.value, eq |-> f.eq, path |-> "/", secure |-> FALSE,
                       lax |-> TRUE, timed |-> FALSE]}
  /\ left /\ UNCHANGED <<meant, thrown>>

\* The lifetime of a cookie is over.
Expire(c) ==
  /\ c.timed
  /\ jar' = jar \ {c}
  /\ meant' = {m \in meant : ~sameCookie(m, c)}
  /\ left /\ UNCHANGED thrown

-----------------------------------------------------------------------------
(* A request, and parseCookies() of its header.                            *)

fits(c, v) == (c.path = v.path \/ c.path = "/") /\ (c.secure => v.secure) /\ (v.sameSite \/ c.lax)

sent(v) == {c \in jar : fits(c, v)}

\* The pairs of the Cookie header: longer paths first, else in any order, on
\* which a server is not to rely (RFC 6265, 5.4).
headers(v) ==
  {pairs \in Bijection(1 .. Cardinality(sent(v)), sent(v)) :
     \A i, j \in DOMAIN pairs : i < j /\ pairs[i].path = "/" => pairs[j].path = "/"}

\* A pair without "=" is a name.
nameOf(pair) == pair.name.text
valueOf(pair) == IF pair.eq THEN pair.value.text ELSE ""
skipped(pair) == nameOf(pair) = "" \/ pair.name.dollar \/ pair.name.proto

\* Mutant: reading ends at the first pair that cannot be read.
untilSkipped(pairs) ==
  LET bad == {i \in DOMAIN pairs : skipped(pairs[i])}
      read == {i \in DOMAIN pairs : \A j \in bad : i < j}
  IN [n \in {nameOf(pairs[i]) : i \in read} |->
        valueOf(pairs[CHOOSE i \in read : nameOf(pairs[i]) = n /\ \A j \in read : nameOf(pairs[j]) = n => j <= i])]

\* Of a name that is sent twice the last value stays.
parseCookies(pairs) ==
  LET read == {i \in DOMAIN pairs : ~skipped(pairs[i])}
  IN [n \in {nameOf(pairs[i]) : i \in read} |->
        valueOf(pairs[CHOOSE i \in read : nameOf(pairs[i]) = n /\ \A j \in read : nameOf(pairs[j]) = n => j <= i])]

Visit(v) ==
  /\ visit' = v /\ \E pairs \in headers(v) : seen' = parseCookies(pairs)
  /\ UNCHANGED <<jar, meant, thrown>>

CookieNext ==
  \/ \E a \in Arguments : SetCookie(a)
  \/ \E f \in Foreign : SetForeign(f)
  \/ \E c \in jar : Expire(c)
  \/ \E v \in [path : Paths, secure : BOOLEAN, sameSite : BOOLEAN] : Visit(v)

CookieSpec == CookieInit /\ [][CookieNext]_cookieVars

-----------------------------------------------------------------------------
visited == visit # NoVisit

\* A cookie of the server that reaches the request, by what it wrote.
reaches(m) == \E c \in jar : sameCookie(c, m) /\ fits(c, visit)

\* No cookie of its name comes with it for another path.
alone(m) == \A c \in sent(visit) : c.name = m.name => c.path = m.path

\* What the server wrote, kept and is sent, it reads with the value it wrote,
\* whatever else is in the jar; under a name that is there for two paths it
\* reads that of the shorter one.  What it reads is something it wrote under
\* that name and neither replaced, deleted nor saw expire, or is of others; and
\* it is the value of a cookie the request came with (docs/cookies.md;
\* "__proto__" and names that start with "$" are written and never read).
ReadsWhatItWrote ==
  visited =>
    /\ \A m \in meant : reaches(m) /\ ~m.name.dollar /\ ~m.name.proto =>
         /\ m.name.text \in DOMAIN seen
         /\ m.path = "/" \/ alone(m) => seen[m.name.text] = m.value.text
    /\ \A n \in DOMAIN seen :
         \/ \E m \in meant : reaches(m) /\ m.name.text = n /\ m.value.text = seen[n]
         \/ \E f \in Foreign : nameOf(f) = n /\ valueOf(f) = seen[n]

=============================================================================
