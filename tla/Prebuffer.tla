------------------------------- MODULE Prebuffer -------------------------------
(***************************************************************************)
(* src/prebuffer_ctl.c: how much audio the playback task lets gather before  *)
(* it starts, and which refills count as gaps in the middle of speech.  The  *)
(* state is local to the playback task, so one turn of its loop is a step;   *)
(* what it polls changes under it: the base from GET /playback/stats, the    *)
(* recovery counters from the WebRTC thread, the millisecond clock.          *)
(***************************************************************************)
EXTENDS Integers

CONSTANTS
  PBC_STEP_MS, PBC_MIN_MS, PBC_MAX_MS,
  PBC_WINDOW_MS, PBC_RATE_THRESHOLD, PBC_DECAY_QUIET_MS,
  ResumeWindow,    \* PIPECAT_GAP_RESUME_MS
  Builds,          \* settings of PIPECAT_ADAPTIVE_PREBUFFER, 0 by default
  ClockMod,        \* 2^32: milliseconds are uint32_t
  TotalMod,        \* 2^32: so are recovery totals
  Bases,           \* prebuffer_ms settings the HTTP handler accepts
  Pauses,          \* milliseconds between two polls, far from 2^32
  Recoveries       \* recovery operations between two polls

ASSUME PrebufferAssumption ==
  /\ {PBC_STEP_MS, PBC_RATE_THRESHOLD, PBC_WINDOW_MS,
      PBC_DECAY_QUIET_MS} \subseteq Nat \ {0}
  /\ PBC_MIN_MS \in Nat /\ PBC_MAX_MS \in Nat /\ PBC_MIN_MS <= PBC_MAX_MS
  /\ ResumeWindow \in Nat \ {0}
  /\ Builds \subseteq BOOLEAN
  /\ {ClockMod, TotalMod} \subseteq Nat \ {0}
  /\ ClockMod > PBC_WINDOW_MS /\ ClockMod > PBC_DECAY_QUIET_MS
  /\ ClockMod > ResumeWindow
  /\ Bases \subseteq Nat /\ Recoveries \subseteq 0 .. TotalMod - 1
  /\ Pauses \subseteq 1 .. ClockMod - PBC_WINDOW_MS

VARIABLES
  c,             \* the prebuffer_ctl
  base,          \* g_play_prebuffer_samples / 16 as last polled
  now,           \* esp_timer_get_time() / 1000
  total,         \* plc + fec_attempts + red_recovered
  prebuffering,  \* local of the playback task
  \* ghosts: times that do not wrap
  recent,        \* how long ago each of the last recoveries was seen
  quiet,         \* time since a recovery was seen or a step was taken back
  drained        \* how long the pending full drain was ago, or ClockMod:
                 \* the clock came round since

vars == <<c, base, now, total, prebuffering, recent, quiet, drained>>

pbc_clamp_base(ms) ==
  IF ms < PBC_MIN_MS THEN PBC_MIN_MS
  ELSE IF ms > PBC_MAX_MS THEN PBC_MAX_MS ELSE ms

(* Mutant: one step always remains. *)
pbc_max_steps_OneMore(ms) ==
  (PBC_MAX_MS - pbc_clamp_base(ms)) \div PBC_STEP_MS + 1

pbc_max_steps(ms) ==
  (PBC_MAX_MS - pbc_clamp_base(ms) + PBC_STEP_MS - 1) \div PBC_STEP_MS

pbc_init(adaptive) ==
  [adaptive |-> adaptive, drain_at_ms |-> 0, drain_pending |-> FALSE, base_ms |-> PBC_MIN_MS,
   offset_steps |-> 0, window_start_ms |-> 0, window_events |-> 0,
   last_recovery_ms |-> 0, last_recovery_total |-> 0, have_baseline |-> FALSE]

Since(t, then) == (t - then) % ClockMod      \* uint32_t difference

pbc_on_full_drain(s, t) == [s EXCEPT !.drain_pending = TRUE, !.drain_at_ms = t]

(* The refill is a gap in the middle of speech. *)
GapResume(s, t) ==
  s.drain_pending /\ Since(t, s.drain_at_ms) <= ResumeWindow

(* Mutant: the drain stays pending. *)
pbc_on_refill_KeepsDrain(s) == s

pbc_on_refill(s) == [s EXCEPT !.drain_pending = FALSE]

pbc_set_base_ms(s, ms) ==
  LET most == pbc_max_steps(pbc_clamp_base(ms)) IN
  [s EXCEPT !.base_ms = pbc_clamp_base(ms),
            !.offset_steps = IF @ > most THEN most ELSE @]

Baseline(s, sum, t) ==
  [s EXCEPT !.have_baseline = TRUE, !.last_recovery_total = sum,
            !.window_start_ms = t, !.last_recovery_ms = t]

(* Mutant: an expired window keeps its events. *)
CountEvents_NoExpiry(s, delta, t) ==
  [s EXCEPT !.window_events = @ + delta,
            !.last_recovery_ms = IF delta > 0 THEN t ELSE @]

(* Recoveries are counted in windows that follow each other. *)
CountEvents(s, delta, t) ==
  LET expired == Since(t, s.window_start_ms) >= PBC_WINDOW_MS IN
  [s EXCEPT !.window_events = IF expired THEN delta ELSE @ + delta,
            !.window_start_ms = IF expired THEN t ELSE @,
            !.last_recovery_ms = IF delta > 0 THEN t ELSE @]

(* Mutant: growing does not start a new count. *)
Grow_KeepsEvents(s, t) ==
  IF s.window_events < PBC_RATE_THRESHOLD THEN s
  ELSE [s EXCEPT
          !.offset_steps = IF @ < pbc_max_steps(s.base_ms) THEN @ + 1 ELSE @]

Grow(s, t) ==
  IF s.window_events < PBC_RATE_THRESHOLD THEN s
  ELSE [s EXCEPT
          !.offset_steps = IF @ < pbc_max_steps(s.base_ms) THEN @ + 1 ELSE @,
          !.window_events = 0,
          !.window_start_ms = t]

(* Mutant: taking a step back does not restart the quiet time. *)
Decay_NoRestart(s, t) ==
  IF s.offset_steps > 0 /\ Since(t, s.last_recovery_ms) >= PBC_DECAY_QUIET_MS
  THEN [s EXCEPT !.offset_steps = @ - 1]
  ELSE s

Decay(s, t) ==
  IF s.offset_steps > 0 /\ Since(t, s.last_recovery_ms) >= PBC_DECAY_QUIET_MS
  THEN [s EXCEPT !.offset_steps = @ - 1, !.last_recovery_ms = t]
  ELSE s

pbc_track_recoveries(s, sum, t) ==
  IF ~s.have_baseline THEN Baseline(s, sum, t)
  ELSE LET delta == (sum - s.last_recovery_total) % TotalMod
           counted == [s EXCEPT !.last_recovery_total = sum]
       IN IF s.adaptive THEN Decay(Grow(CountEvents(counted, delta, t), t), t)
          ELSE counted

(* Mutant: the base is not clamped. *)
pbc_effective_ms_Unclamped(s, ms) ==
  IF ~s.adaptive THEN ms ELSE ms + s.offset_steps * PBC_STEP_MS

pbc_effective_ms(s, ms) ==
  LET deep == pbc_clamp_base(ms) + s.offset_steps * PBC_STEP_MS IN
  IF ~s.adaptive THEN ms
  ELSE IF deep > PBC_MAX_MS THEN PBC_MAX_MS ELSE deep

Init ==
  /\ base \in Bases
  /\ \E adaptive \in Builds : c = pbc_set_base_ms(pbc_init(adaptive), base)
  /\ now \in {0, ClockMod - 1}       \* the clock may be about to wrap
  /\ total = 0
  /\ prebuffering = TRUE
  /\ recent = [k \in 1 .. PBC_RATE_THRESHOLD |-> PBC_WINDOW_MS]
  /\ quiet = 0 /\ drained = 0

Capped(n, cap) == IF n > cap THEN cap ELSE n

(* The start of every turn: the inputs are polled and tracked. *)
Polled(pause, delta, ms) ==
  pbc_track_recoveries(pbc_set_base_ms(c, ms), (total + delta) % TotalMod,
                       (now + pause) % ClockMod)

(* The clock and the counters moved on. *)
Elapse(pause, delta, ms) ==
  LET stepped_back == Polled(pause, delta, ms).offset_steps
                        < pbc_set_base_ms(c, ms).offset_steps
  IN
  /\ now' = (now + pause) % ClockMod
  /\ total' = (total + delta) % TotalMod
  /\ base' = ms
  /\ recent' = [k \in DOMAIN recent |->
       IF k <= delta THEN 0
       ELSE Capped(recent[k - delta] + pause, PBC_WINDOW_MS)]
  /\ quiet' = IF delta > 0 \/ ~c.have_baseline \/ stepped_back THEN 0
              ELSE Capped(quiet + pause, PBC_DECAY_QUIET_MS)
  /\ drained' = IF c.drain_pending THEN Capped(drained + pause, ClockMod) ELSE 0

(* Below the threshold nothing starts; above it a frame is popped. *)
Wait(pause, delta, ms) ==
  /\ c' = Polled(pause, delta, ms)
  /\ Elapse(pause, delta, ms)
  /\ UNCHANGED prebuffering

(* The ring reached the effective threshold. *)
Refill(pause, delta, ms) ==
  /\ prebuffering
  /\ c' = pbc_on_refill(Polled(pause, delta, ms))
  /\ prebuffering' = FALSE
  /\ Elapse(pause, delta, ms)

(* Part of a frame is left: an underrun at once. *)
PartialFrame(pause, delta, ms) ==
  /\ ~prebuffering
  /\ c' = Polled(pause, delta, ms)
  /\ prebuffering' = TRUE
  /\ Elapse(pause, delta, ms)

(* Nothing is left: the next refill tells what this was. *)
FullDrain(pause, delta, ms) ==
  /\ ~prebuffering
  /\ c' = pbc_on_full_drain(Polled(pause, delta, ms), (now + pause) % ClockMod)
  /\ prebuffering' = TRUE
  /\ Elapse(pause, delta, ms)

Turn(pause, delta, ms) ==
  \/ Wait(pause, delta, ms) \/ Refill(pause, delta, ms)
  \/ PartialFrame(pause, delta, ms) \/ FullDrain(pause, delta, ms)

Next ==
  \E pause \in Pauses, delta \in Recoveries, ms \in Bases :
    Turn(pause, delta, ms)

Spec == Init /\ [][Next]_vars
=============================================================================
