---------------------------- MODULE MCSseStream ----------------------------
(* Bounds for SseStream: four events, one larger than the budget.          *)
EXTENDS SseStream

MCEvents == 1 .. 4
MCSize == <<1, 2, 2, 5>>
MCBeat == 0
=============================================================================
