-------------------------------- MODULE LedRing --------------------------------
(***************************************************************************)
(* The phase of the LED ring (src/media.cpp): the RTVI task stores a phase,  *)
(* reads the clock and stores the time, the LED task reads the phase, the    *)
(* clock and the time, at any interleaving, over a clock that wraps.  The    *)
(* names of the specification carry the module's, so that one module can     *)
(* extend it and PlayRing, the other state that media.cpp shares.            *)
(***************************************************************************)
EXTENDS Integers

CONSTANTS
  Phases,              \* the phases a server sends
  ClockSpan,           \* 2^32 ms
  LED_PHASE_TTL_MS     \* 30000

ASSUME LedAssumption ==
  /\ {"none", "local", "off"} \cap Phases = {}
  /\ ClockSpan \in Nat /\ LED_PHASE_TTL_MS \in 1 .. ClockSpan - 1

VARIABLES
  g_server_phase, g_server_phase_ms,
  setter,              \* the RTVI task in its two stores: [step, ms]
  led,                 \* the LED task: [step, phase, now]
  g_led_state,         \* a phase, "local" inference, or "off"
  clock,
  \* ghosts
  age,                 \* ms since the last phase was timed, up to ClockSpan
  ageRead,             \* the age when the LED task read the clock
  quiet                \* no phase was being set during the LED task's tick

phaseVars == <<g_server_phase, g_server_phase_ms, setter>>
ledVars == <<led, g_led_state, ageRead>>
ledRingVars == <<phaseVars, ledVars, clock, age, quiet>>

NotSetting == [step |-> "idle", ms |-> 0]
NotReading == [step |-> "idle", phase |-> "none", now |-> 0]

LedRingInit ==
  /\ g_server_phase = "none" /\ g_server_phase_ms = 0 /\ setter = NotSetting
  /\ led = NotReading /\ g_led_state = "off"
  /\ clock = 0 /\ age = 0 /\ ageRead = 0 /\ quiet = TRUE
-----------------------------------------------------------------------------
(* pipecat_led_set_phase *)
StorePhase(phase) ==
  /\ setter.step = "idle"
  /\ setter' = [setter EXCEPT !.step = "phase"]
  /\ g_server_phase' = phase
  /\ quiet' = FALSE
  /\ UNCHANGED <<g_server_phase_ms, ledVars, clock, age>>

ReadTime ==
  /\ setter.step = "phase"
  /\ setter' = [step |-> "time", ms |-> clock]
  /\ age' = 0
  /\ UNCHANGED <<g_server_phase, g_server_phase_ms, ledVars, clock, quiet>>

StoreTime ==
  /\ setter.step = "time"
  /\ g_server_phase_ms' = setter.ms
  /\ setter' = NotSetting
  /\ UNCHANGED <<g_server_phase, ledVars, clock, age, quiet>>
-----------------------------------------------------------------------------
(* pipecat_led_step *)
LoadPhase ==
  /\ led.step = "idle"
  /\ led' = [led EXCEPT !.step = "phase", !.phase = g_server_phase]
  /\ quiet' = (setter.step = "idle")
  /\ UNCHANGED <<phaseVars, g_led_state, ageRead, clock, age>>

ReadNow ==
  /\ led.step = "phase"
  /\ led' = [led EXCEPT !.step = "now", !.now = clock]
  /\ ageRead' = age
  /\ UNCHANGED <<phaseVars, g_led_state, clock, age, quiet>>

(* Mutant: the time is compared with a deadline. *)
Fresh_Deadline(phase, now, ms) ==
  phase # "none" /\ now < (ms + LED_PHASE_TTL_MS) % ClockSpan

Fresh(phase, now, ms) ==
  phase # "none" /\ (now - ms) % ClockSpan < LED_PHASE_TTL_MS

(* Without a connection the ring is off. *)
Show(connected) ==
  /\ led.step = "now"
  /\ g_led_state' = IF ~connected THEN "off"
                    ELSE IF Fresh(led.phase, led.now, g_server_phase_ms)
                         THEN led.phase ELSE "local"
  /\ led' = NotReading /\ ageRead' = 0
  /\ UNCHANGED <<phaseVars, clock, age, quiet>>

Tick ==
  /\ clock' = (clock + 1) % ClockSpan
  /\ age' = IF age < ClockSpan THEN age + 1 ELSE age
  /\ UNCHANGED <<phaseVars, ledVars, quiet>>
-----------------------------------------------------------------------------
LedRingNext ==
  \/ \E phase \in Phases : StorePhase(phase)
  \/ ReadTime \/ StoreTime \/ LoadPhase \/ ReadNow \/ Tick
  \/ \E connected \in BOOLEAN : Show(connected)

LedRingSpec == LedRingInit /\ [][LedRingNext]_ledRingVars
=============================================================================
