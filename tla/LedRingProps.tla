----------------------------- MODULE LedRingProps -----------------------------
(***************************************************************************)
(* What the LED ring shows of the server's phases.                          *)
(***************************************************************************)
EXTENDS LedRing

(* Every variable has its type. *)
LedRingTypeOK ==
  /\ g_server_phase \in Phases \cup {"none"}
  /\ g_server_phase_ms \in 0 .. ClockSpan - 1 /\ clock \in 0 .. ClockSpan - 1
  /\ setter \in [step : {"idle", "phase", "time"}, ms : 0 .. ClockSpan - 1]
  /\ quiet \in BOOLEAN
  /\ led \in [step : {"idle", "phase", "now"}, phase : Phases \cup {"none"},
              now : 0 .. ClockSpan - 1]
  /\ g_led_state \in Phases \cup {"local", "off"}
  /\ age \in 0 .. ClockSpan /\ ageRead \in 0 .. ClockSpan

(* On a connection, a tick during which no phase is being set shows the last   *)
(* phase exactly while it is younger than its time to live, across wraps of    *)
(* the millisecond clock, until it is so old that the clock comes round to it. *)
QuietTickIsRight ==
  [][Show(TRUE) /\ quiet /\ ageRead < ClockSpan /\ g_led_state' # "off" =>
       g_led_state' = IF g_server_phase # "none" /\ ageRead < LED_PHASE_TTL_MS
                      THEN g_server_phase ELSE "local"]_ledRingVars
=============================================================================
