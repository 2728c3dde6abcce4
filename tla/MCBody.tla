------------------------------- MODULE MCBody -------------------------------
EXTENDS Body

Limits(fields, files, size, keep) ==
  [maxFields |-> fields, maxFiles |-> files, maxFileSize |-> size, preserve |-> keep]

App(b, d, r, c) ==
  [body |-> b, form |-> Limits(1, 2, 2, FALSE), appDefault |-> d, route |-> r, ceiling |-> c]

\* Every way to combine the three numbers, and what is refused.
MCApps ==
  {App("json", d, r, c) : d \in {Unset, 2}, r \in {Unset, 1, 3}, c \in {Unset, 2, 3}}
  \cup {App("form", 3, Unset, c) : c \in {Unset, 3}}
  \cup {[App("form", Unset, Unset, Unset) EXCEPT !.form = Limits(2, 1, 1, TRUE)]}
  \cup {App("none", Unset, 2, Unset), App("none", 2, Unset, Unset), App("json", 0, Unset, Unset)}
  \cup {[App("form", Unset, Unset, Unset) EXCEPT !.form = Limits(0, 1, 1, TRUE)]}

Announced(t, n) == [type |-> t, length |-> n, null |-> n = 0]
MCUploads ==
  {Announced(t, n) : t \in {"json", "form"}, n \in {Unset, 0, 2, 4}}
  \cup {Announced("other", 2), [Announced("json", Unset) EXCEPT !.null = TRUE]}
=============================================================================
