--------------------------- MODULE ServiceContract ---------------------------
(***************************************************************************)
(* What the service lifecycle promises an application (docs/services.md,   *)
(* ADR-0020), without saying how: services open in declaration order and   *)
(* close in reverse; once all are open, none closes while accounted work   *)
(* remains; the final verdict tells which of the two ways shutdown ended.  *)
(* No hooks, promises, connections, polls or clocks.                       *)
(***************************************************************************)
EXTENDS Naturals

CONSTANTS ServiceCount, Work

Services == 1 .. ServiceCount

VARIABLES
  mode,    \* "starting", "serving", "undoing" a failed start, or "closing"
  open,    \* the services an application may use
  live,    \* the accounted work that has not ended
  verdict  \* "none", "drained" or "expired"

vars == <<mode, open, live, verdict>>

Init ==
  /\ mode = IF ServiceCount = 0 THEN "serving" ELSE "starting"
  /\ open = {} /\ live = {} /\ verdict = "none"

\* The earliest service not yet open opens; the last one starts service.
Open(s) ==
  /\ mode = "starting" /\ s \notin open
  /\ \A dep \in Services : dep < s => dep \in open
  /\ open' = open \cup {s}
  /\ mode' = IF open' = Services THEN "serving" ELSE "starting"
  /\ UNCHANGED <<live, verdict>>

StartFails ==
  /\ mode = "starting"
  /\ mode' = "undoing"
  /\ UNCHANGED <<open, live, verdict>>

Begin(w) ==
  /\ mode # "closing" /\ verdict = "none"
  /\ w \notin live
  /\ live' = live \cup {w}
  /\ UNCHANGED <<mode, open, verdict>>

End(w) ==
  /\ w \in live
  /\ live' = live \ {w}
  /\ UNCHANGED <<mode, open, verdict>>

\* Closing a healthy application waits for all accounted work.
StartClosing ==
  /\ mode = "serving" /\ live = {} /\ verdict = "none"
  /\ mode' = "closing"
  /\ UNCHANGED <<open, live, verdict>>

\* The latest open service closes.
Close(s) ==
  /\ mode \in {"undoing", "closing"} /\ verdict = "none"
  /\ s \in open /\ \A t \in open : t <= s
  /\ open' = open \ {s}
  /\ UNCHANGED <<mode, live, verdict>>

\* Success is only reported with nothing live and nothing open.
Drained ==
  /\ mode \in {"undoing", "closing"} /\ verdict = "none"
  /\ live = {} /\ open = {}
  /\ verdict' = "drained"
  /\ UNCHANGED <<mode, open, live>>

\* Giving up is only reported with work left, and closes nothing.
Expired ==
  /\ mode \in {"undoing", "serving"} /\ verdict = "none"
  /\ live # {}
  /\ verdict' = "expired"
  /\ UNCHANGED <<mode, open, live>>

Next ==
  \/ \E s \in Services : Open(s) \/ Close(s)
  \/ \E w \in Work : Begin(w) \/ End(w)
  \/ StartFails \/ StartClosing \/ Drained \/ Expired

Spec == Init /\ [][Next]_vars
=============================================================================
