---------------------------- MODULE PrebufferProps ----------------------------
(***************************************************************************)
(* What the prebuffer controller promises, over wraps of its clock and its  *)
(* counters and changes of the base under it.                               *)
(***************************************************************************)
EXTENDS Prebuffer

Time == 0 .. ClockMod - 1

Controllers ==
  [adaptive : BOOLEAN, drain_at_ms : Time, drain_pending : BOOLEAN,
   base_ms : PBC_MIN_MS .. PBC_MAX_MS,
   offset_steps : 0 .. pbc_max_steps(PBC_MIN_MS), window_start_ms : Time,
   window_events : 0 .. PBC_RATE_THRESHOLD - 1, last_recovery_ms : Time,
   last_recovery_total : 0 .. TotalMod - 1, have_baseline : BOOLEAN]

(* Every variable has its type. *)
TypeOK ==
  /\ c \in Controllers
  /\ base \in Bases /\ now \in Time /\ total \in 0 .. TotalMod - 1
  /\ prebuffering \in BOOLEAN
  /\ recent \in [1 .. PBC_RATE_THRESHOLD -> 0 .. PBC_WINDOW_MS]
  /\ quiet \in 0 .. PBC_DECAY_QUIET_MS /\ drained \in 0 .. ClockMod

effective == pbc_effective_ms(c, base)

(* docs/PLAYBACK_RESILIENCE.md: the adaptive depth stays within PBC_MIN_MS and *)
(* PBC_MAX_MS, whatever base the HTTP handler sets while steps are taken; with *)
(* the controller off the depth is the base, and no step is ever taken.        *)
DepthInBounds ==
  IF c.adaptive THEN effective \in PBC_MIN_MS .. PBC_MAX_MS
  ELSE effective = base /\ c.offset_steps = 0

(* Steps of one turn, at an unchanged base. *)
StepsUp == base' = base /\ c'.offset_steps > c.offset_steps
StepsDown == base' = base /\ c'.offset_steps < c.offset_steps

(* Every step the controller counts as a transition changes the depth: no step *)
(* is hidden above the maximum, where taking it back would do nothing.          *)
StepsChangeDepth ==
  [][/\ StepsUp => effective' > effective
     /\ StepsDown => effective' < effective]_vars

(* The buffer only grows after PBC_RATE_THRESHOLD recoveries in the last         *)
(* PBC_WINDOW_MS, and one step at a time.                                       *)
GrowsAfterBurst ==
  [][StepsUp => /\ c'.offset_steps = c.offset_steps + 1
                /\ recent'[PBC_RATE_THRESHOLD] < PBC_WINDOW_MS]_vars

(* A step is only taken back after PBC_DECAY_QUIET_MS without a recovery and    *)
(* without another step back.                                                   *)
DecaysAfterQuiet ==
  [][StepsDown => /\ c'.offset_steps = c.offset_steps - 1
                  /\ quiet + Since(now', now) >= PBC_DECAY_QUIET_MS]_vars

(* One drain is classified at most once: after an underrun by a partial frame, *)
(* or a second refill, there is none to classify.  A refill is a gap in the     *)
(* middle of speech if and only if it comes within the resume window of the     *)
(* drain, until the clock has come round since (49 days): from then on the      *)
(* code knows only the remainder, and takes one late refill for a gap and       *)
(* another not.                                                                *)
OneVerdictPerDrain ==
  /\ c.drain_pending => prebuffering
  /\ c.drain_pending /\ drained < ClockMod =>
       (GapResume(c, now) <=> drained <= ResumeWindow)
=============================================================================
