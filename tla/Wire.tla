--------------------------------- MODULE Wire ---------------------------------
(***************************************************************************)
(* What the typed client and the server put on the wire, and what each     *)
(* makes of what the other one sent: path templates, query strings, JSON   *)
(* with its compile-time mirror Jsonify, and validation issues.  All of it *)
(* is pure; RoundTrip composes it.                                         *)
(*                                                                         *)
(* A text is a sequence of characters, an object the sequence of its       *)
(* entries [key, value] in source order.                                   *)
(***************************************************************************)
EXTENDS Integers, FiniteSets, SequencesExt

CONSTANTS
  MaxIssues,    \* maxIssues
  MaxSegments,  \* maxPathSegments
  Depth,        \* bound: how deep a body nests
  Bodies,       \* the values of bodies by how deep they nest, 1 to Depth
  Unions        \* the types of bodies, likewise

ASSUME WireBounds == MaxIssues \in Nat /\ MaxSegments \in Nat /\ Depth \in Nat

Keys(entries) == {entries[i].key : i \in DOMAIN entries}
Entry(entries, k) == entries[CHOOSE i \in DOMAIN entries : entries[i].key = k].value
FirstOf(S) == CHOOSE i \in S : \A j \in S : i <= j
LastOf(S) == CHOOSE i \in S : \A j \in S : j <= i

\* The members of s at the places S, in their order.
nth(S, n) == CHOOSE i \in S : Cardinality({j \in S : j < i}) = n - 1
pick(s, S) == [n \in 1 .. Cardinality(S) |-> s[nth(S, n)]]

isScalar(v) == v.kind \in {"string", "number", "boolean"}

-----------------------------------------------------------------------------
(* Paths.  The code escapes more characters; these are the ones a path or  *)
(* a query would read as its own.                                          *)

escapes == [c \in {"/", "?", "%"} |-> CASE c = "/" -> "%2F" [] c = "?" -> "%3F" [] c = "%" -> "%25"]

\* Half of a surrogate pair: encodeURIComponent() throws on it (valueFault), and
\* URLSearchParams and FormData replace it.
Lone == "U+D800"
encodable(t) == \A i \in DOMAIN t : t[i] # Lone
usvString(t) == [i \in DOMAIN t |-> IF t[i] = Lone THEN "U+FFFD" ELSE t[i]]

encodeURIComponent(t) == [i \in DOMAIN t |-> IF t[i] \in DOMAIN escapes THEN escapes[t[i]] ELSE t[i]]

decodeURIComponent(t) ==
  [i \in DOMAIN t |-> IF \E c \in DOMAIN escapes : escapes[c] = t[i]
                        THEN CHOOSE c \in DOMAIN escapes : escapes[c] = t[i] ELSE t[i]]

\* What is not encoded yet, and the segments of a template.
Text == {t \in Seq(STRING) : \A i \in DOMAIN t : \A c \in DOMAIN escapes : t[i] # escapes[c]}
Segments == [kind : {"literal", "param", "wildcard", "badParam", "malformed"}, name : STRING, text : {t \in Text : encodable(t)}]

\* split("/")
segments(t) ==
  FoldLeft(LAMBDA s, c : IF c = "/" THEN Append(s, <<>>) ELSE [s EXCEPT ![Len(s)] = Append(@, c)],
           << <<>> >>, t)

\* What is wrong with the i-th segment of a template.
segmentFault(t, i) ==
  LET s == t.segments[i]
  IN CASE s.kind \in {"badParam", "malformed"} -> "LUGAS_CLIENT_005"
       [] s.kind = "param" /\ (\E j \in 1 .. i - 1 : t.segments[j] = s) -> "LUGAS_CLIENT_004"
       [] s.kind = "wildcard" /\ i # Len(t.segments) -> "LUGAS_CLIENT_005"
       [] OTHER -> "none"

parseTemplate(t) ==
  LET faulty == {i \in DOMAIN t.segments : segmentFault(t, i) # "none"}
  IN IF ~t.slash THEN "LUGAS_CLIENT_005"
     ELSE IF faulty = {} THEN "none" ELSE segmentFault(t, FirstOf(faulty))

names(t) == {t.segments[i].name : i \in {i \in DOMAIN t.segments : t.segments[i].kind = "param"}}
hasWildcard(t) == \E i \in DOMAIN t.segments : t.segments[i].kind = "wildcard"
declared(t) == names(t) \cup (IF hasWildcard(t) THEN {"*"} ELSE {})
keyOf(s) == IF s.kind = "wildcard" THEN "*" ELSE s.name

wildcardValue(v) ==
  \/ v.kind = "string"
  \/ v.kind = "array" /\ \A i \in DOMAIN v.items : v.items[i].kind = "string" /\ v.items[i].text # <<>>

charsOf(v) == IF v.kind = "array" THEN {v.items[i].text : i \in DOMAIN v.items} ELSE {v.text}

\* What is wrong with the value for a segment.
valueFault(s, entries) ==
  LET v == Entry(entries, keyOf(s))
      fits == IF s.kind = "wildcard" THEN wildcardValue(v) ELSE isScalar(v)
  IN IF s.kind = "literal" THEN "none"
     ELSE IF keyOf(s) \notin Keys(entries) \/ v.kind \in {"undefined", "null"} THEN "LUGAS_CLIENT_001"
     ELSE IF ~fits THEN "LUGAS_CLIENT_003"
     ELSE IF \A t \in charsOf(v) : encodable(t) THEN "none" ELSE "URIError"

\* The error interpolatePath() throws.
pathFault(t, params) ==
  LET faulty == {i \in DOMAIN t.segments : valueFault(t.segments[i], params.entries) # "none"}
  IN IF parseTemplate(t) # "none" THEN parseTemplate(t)
     ELSE IF params.kind = "undefined" THEN IF declared(t) = {} THEN "none" ELSE "LUGAS_CLIENT_001"
     ELSE IF params.kind # "object" THEN "LUGAS_CLIENT_003"
     ELSE IF ~(Keys(params.entries) \subseteq declared(t)) THEN "LUGAS_CLIENT_002"
     ELSE IF faulty = {} THEN "none" ELSE valueFault(t.segments[FirstOf(faulty)], params.entries)

encodeSegments(t) == LET s == segments(t) IN [i \in DOMAIN s |-> encodeURIComponent(s[i])]

interpolated(s, entries) ==
  IF s.kind = "literal" THEN s.text ELSE encodeURIComponent(Entry(entries, keyOf(s)).text)

wildcardSegments(v) ==
  IF v.kind = "string" THEN encodeSegments(v.text)
  ELSE IF v.items = <<>> THEN << <<>> >>
  ELSE [i \in DOMAIN v.items |-> encodeURIComponent(v.items[i].text)]

\* A wildcard is the last segment, or parseTemplate() has thrown.
interpolatePath(t, entries) ==
  IF hasWildcard(t)
  THEN [i \in 1 .. Len(t.segments) - 1 |-> interpolated(t.segments[i], entries)]
       \o wildcardSegments(Entry(entries, "*"))
  ELSE [i \in DOMAIN t.segments |-> interpolated(t.segments[i], entries)]

-----------------------------------------------------------------------------
(* Queries.                                                                *)

queryFault(query) ==
  IF query.kind = "undefined" THEN "none"
  ELSE IF /\ query.kind = "object"
          /\ \A i \in DOMAIN query.entries :
               LET v == query.entries[i].value
               IN \/ v.kind = "undefined" \/ isScalar(v)
                  \/ v.kind = "array" /\ \A j \in DOMAIN v.items : isScalar(v.items[j])
  THEN "none" ELSE "LUGAS_CLIENT_006"

\* An array repeats its key; an empty one leaves nothing.
serializeEntry(e) ==
  CASE e.value.kind = "undefined" -> <<>>
    [] e.value.kind = "array" -> [i \in DOMAIN e.value.items |-> [key |-> e.key, text |-> usvString(e.value.items[i].text)]]
    [] OTHER -> <<[key |-> e.key, text |-> usvString(e.value.text)]>>

serializeQuery(entries) ==
  LET upTo[n \in 0 .. Len(entries)] == IF n = 0 THEN <<>> ELSE upTo[n - 1] \o serializeEntry(entries[n])
  IN upTo[Len(entries)]

\* "?" or "&": what the path already asks stays in front.
appendQuery(path, pairs) == [path EXCEPT !.query = @ \o pairs]

\* Mutant: `[current, value]`, whatever current is.
decodeQueryLastTwo(pairs) ==
  {LET own == {i \in DOMAIN pairs : pairs[i].key = k}
       last == {i \in own : Cardinality({j \in own : j > i}) < 2}
   IN [key |-> k, array |-> Cardinality(own) > 1, values |-> [i \in 1 .. Cardinality(last) |-> pick(pairs, last)[i].text]] :
     k \in Keys(pairs)}

\* A key that occurs once is a string, a repeated one the array of its values.
decodeQuery(pairs) ==
  {LET own == {i \in DOMAIN pairs : pairs[i].key = k}
   IN [key |-> k, array |-> Cardinality(own) > 1, values |-> [i \in 1 .. Cardinality(own) |-> pick(pairs, own)[i].text]] :
     k \in Keys(pairs)}

-----------------------------------------------------------------------------
(* JSON.  A value is a tree of one member or element per level; undefined  *)
(* and functions drop out, a bigint throws, toJSON is asked once.  A type  *)
(* is a union: a set of alternatives, each with the union it is built of.  *)

Tree(n, items) == [node |-> n, items |-> items]
Drops == Tree("drops", <<>>)
Throws == Tree("throws", <<>>)
Nothing == Tree("nothing", <<>>)
Null == Tree("null", <<>>)

Type(n, of) == [node |-> n, of |-> of]

Nested == {"object", "array", "hook"}
Leaves == {"string", "finite", "nan", "null", "undefined", "function", "bigint", "map", "nothing", "problem", "broken"}

AllBodies == UNION {Bodies[i] : i \in DOMAIN Bodies}
AllUnions == UNION {Unions[i] : i \in DOMAIN Unions}
below(levels, i) == UNION {levels[j] : j \in 1 .. i - 1}

\* An object or an array may be empty.
ASSUME BodiesAssumption ==
  /\ DOMAIN Bodies = 1 .. Depth
  /\ \A i \in 1 .. Depth :
       LET inner == below(Bodies, i)
       IN \A v \in Bodies[i] :
            \/ v.node \in Leaves \cup {"object", "array"} /\ v = Tree(v.node, <<>>)
            \/ v.node \in Nested /\ v = Tree(v.node, <<v.items[1]>>) /\ v.items[1] \in inner

\* The text of v, when that of its member or element is inner.
serialized(v, inner) ==
  IF inner = Throws THEN Throws ELSE
  CASE v.node \in {"undefined", "function"} -> Drops
    [] v.node = "bigint" -> Throws
    [] v.node = "nan" -> Null
    [] v.node \in {"hook", "map"} -> Tree("object", <<>>)
    [] v.node = "object" -> Tree("object", IF inner = Drops THEN <<>> ELSE <<inner>>)
    [] v.node = "array" /\ v.items # <<>> -> Tree("array", <<IF inner = Drops THEN Null ELSE inner>>)
    [] OTHER -> v

\* toJSON() is asked once; a position without a member has nothing to drop.
hookless(value) == IF value.node = "hook" THEN value.items[1] ELSE value
within(v) == v.node \in {"object", "array"} /\ v.items # <<>>

\* JSON.stringify().
stringify[value \in AllBodies] ==
  LET v == hookless(value)
  IN serialized(v, IF within(v) THEN stringify[v.items[1]] ELSE Drops)

\* A number is finite or not.
ASSUME UnionsAssumption ==
  /\ DOMAIN Unions = 1 .. Depth
  /\ \A i \in 1 .. Depth : \A u \in Unions[i] : \A a \in u :
       a.node \in (Leaves \ {"finite", "nan"}) \cup {"number"} \/ (a.node \in Nested /\ a.of \in below(Unions, i))

\* The values of a union, and of one alternative of it.
valuesOf(a, inner) ==
  CASE a.node = "number" -> {Tree("finite", <<>>), Tree("nan", <<>>)}
    [] a.node \in Nested -> {Tree(a.node, <<v>>) : v \in inner}
    [] OTHER -> {Tree(a.node, <<>>)}

Inhabitants[union \in AllUnions] == UNION {valuesOf(a, Inhabitants[a.of]) : a \in union}

ASSUME InhabitantsAssumption == \A u \in AllUnions : Inhabitants[u] \subseteq AllBodies

\* The types JSON has for it, as the trees they admit, with the sentinels
\* JsonDrops and JsonThrows.
HookOnce(union) == UNION {IF a.node = "hook" THEN a.of ELSE {a} : a \in union}
WireValue(raw) == raw \ {Drops, Throws}
HasDrop(raw) == Drops \in raw

\* Mutant: a number is a number.
JsonifyNumberExact == {Tree("finite", <<>>)}

JsonifyNumber == {Tree("finite", <<>>), Null}

\* A member that may drop is optional, one that always does is removed.
JsonifyObject(raw) == {Tree("object", <<w>>) : w \in WireValue(raw)} \cup (IF HasDrop(raw) THEN {Tree("object", <<>>)} ELSE {})

JsonifyElement(raw) == WireValue(raw) \cup (IF HasDrop(raw) THEN {Null} ELSE {})

JsonifyAlternative(a, raw) ==
  CASE a.node \in {"undefined", "function"} -> {Drops}
    [] a.node = "bigint" -> {Throws}
    [] a.node = "number" -> JsonifyNumber
    [] a.node = "object" -> JsonifyObject(raw)
    [] a.node = "array" -> {Tree("array", <<w>>) : w \in JsonifyElement(raw)}
    [] a.node \in {"hook", "map"} -> {Tree("object", <<>>)}
    [] OTHER -> {Tree(a.node, <<>>)}

JsonifyRaw[union \in AllUnions] == UNION {JsonifyAlternative(a, JsonifyRaw[a.of]) : a \in HookOnce(union)}

Jsonify(union) == WireValue(JsonifyRaw[union])

-----------------------------------------------------------------------------
(* Validation issues.  A raw issue has an identity: validators may report  *)
(* one object twice.                                                       *)

UnsafeKeys == {"input"}

normalizePath(path) ==
  LET head == SubSeq(path, 1, IF Len(path) < MaxSegments THEN Len(path) ELSE MaxSegments)
  IN pick(head, {i \in DOMAIN head : head[i] # "unprintable"})

\* The i-th issue, when those before it have been visited.
normalizeSingleIssue(raw, i) ==
  LET issue == raw[i]
  IN IF ~issue.object THEN [message |-> "fallback", path |-> <<>>, keys |-> {}]
     ELSE IF \E j \in 1 .. i - 1 : raw[j].object /\ raw[j].id = issue.id
     THEN [message |-> "cyclic", path |-> <<>>, keys |-> {}]
     ELSE [message |-> "own", path |-> normalizePath(issue.path), keys |-> issue.keys \ UnsafeKeys]

Truncated == [message |-> "truncated", path |-> <<>>, keys |-> {}]

\* Mutant: the note is pushed for a list that just fits.
normalizeValidationIssuesEarly(raw) ==
  LET limit == IF Len(raw) < MaxIssues THEN Len(raw) ELSE MaxIssues
      kept == [i \in 1 .. limit |-> normalizeSingleIssue(raw, i)]
  IN IF Len(raw) >= MaxIssues THEN Append(kept, Truncated) ELSE kept

normalizeValidationIssues(raw) ==
  LET limit == IF Len(raw) < MaxIssues THEN Len(raw) ELSE MaxIssues
      kept == [i \in 1 .. limit |-> normalizeSingleIssue(raw, i)]
  IN IF Len(raw) > MaxIssues THEN Append(kept, Truncated) ELSE kept

SensitiveHeaders == {"authorization"}

\* The first segment of the path decides.
sanitizeHeaderIssues(issues) ==
  [i \in DOMAIN issues |->
    IF issues[i].path # <<>> /\ issues[i].path[1] \in SensitiveHeaders
      THEN [issues[i] EXCEPT !.message = "redacted"] ELSE issues[i]]
=============================================================================
