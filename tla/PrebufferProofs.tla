---------------------------- MODULE PrebufferProofs ----------------------------
(***************************************************************************)
(* For every step, bound, window and size of the clock and the counters:     *)
(* what the prebuffer controller promises.                                  *)
(***************************************************************************)
EXTENDS PrebufferProps, ArithmeticLemmas

(* No step is hidden above the maximum, and without the controller none is     *)
(* taken.                                                                     *)
Fits(s) ==
  /\ s \in Controllers
  /\ s.offset_steps <= pbc_max_steps(s.base_ms)
  /\ ~s.adaptive => s.offset_steps = 0

(* The wrapped differences are the times the ghosts count. *)
ClockInv ==
  /\ c.have_baseline => c.last_recovery_total = total
  /\ c.adaptive /\ c.have_baseline /\ quiet < PBC_DECAY_QUIET_MS =>
       Since(now, c.last_recovery_ms) = quiet
  /\ c.drain_pending => prebuffering
  /\ c.drain_pending /\ drained < ClockMod => Since(now, c.drain_at_ms) = drained

(* What window_events counts was seen since the window began, which is less    *)
(* than a window ago.                                                         *)
WindowInv ==
  /\ ~c.have_baseline => c.window_events = 0
  /\ c.adaptive /\ c.have_baseline =>
       /\ Since(now, c.window_start_ms) < PBC_WINDOW_MS
       /\ \A k \in 1 .. c.window_events :
            recent[k] <= Since(now, c.window_start_ms)

PrebufferInv ==
  TypeOK /\ Fits(c) /\ c.base_ms = pbc_clamp_base(base) /\ ClockInv
-----------------------------------------------------------------------------
(* Differences of a wrapped clock add up, but for the wrap. *)
LEMMA SinceRange ==
  ASSUME NEW t \in Time, NEW u \in Time
  PROVE  Since(t, u) \in Time
<1>1. t - u \in Int /\ ClockMod \in Nat \ {0}
  BY PrebufferAssumption DEF Time
<1> QED BY <1>1, RemainderRange DEF Since, Time

LEMMA SinceItself ==
  ASSUME NEW t \in Time
  PROVE  Since(t, t) = 0
<1>1. 0 = ClockMod * 0 + 0 /\ t - t = 0 /\ 0 \in 0 .. ClockMod - 1
  BY PrebufferAssumption DEF Time
<1> QED BY <1>1, PrebufferAssumption, RemainderUnique DEF Since

LEMMA SinceAdvances ==
  ASSUME NEW t \in Time, NEW u \in Time, NEW p \in Nat
  PROVE  /\ (t + p) % ClockMod \in Time
         /\ Since((t + p) % ClockMod, u) = (Since(t, u) + p) % ClockMod
<1> DEFINE e == Since(t, u)
<1> DEFINE q == (t - u) \div ClockMod
<1> DEFINE v == (t + p) % ClockMod
<1> DEFINE w == (t + p) \div ClockMod
<1> DEFINE r == (e + p) % ClockMod
<1> DEFINE z == (e + p) \div ClockMod
<1>0. ClockMod \in Nat \ {0} /\ t \in Int /\ u \in Int
  BY PrebufferAssumption DEF Time
<1>1. e \in 0 .. ClockMod - 1 /\ q \in Int /\ t - u = ClockMod * q + e
  <2>1. t - u \in Int
    BY <1>0
  <2> QED BY <1>0, <2>1, RemainderRange DEF Since
<1>2. v \in 0 .. ClockMod - 1 /\ w \in Int /\ t + p = ClockMod * w + v
  <2>1. t + p \in Int
    BY <1>0
  <2> QED BY <1>0, <2>1, RemainderRange
<1> HIDE DEF e, q
<1>3. r \in 0 .. ClockMod - 1 /\ z \in Int /\ e + p = ClockMod * z + r
  <2>1. e + p \in Int
    BY <1>1
  <2> QED BY <1>0, <2>1, RemainderRange
<1> HIDE DEF v, w, r, z
<1>4. v - u = ClockMod * (q + z - w) + r
  <2>1. ClockMod * (q + z - w) = ClockMod * q + ClockMod * z - ClockMod * w
    BY <1>0, <1>1, <1>2, <1>3
  <2> QED BY <2>1, <1>0, <1>1, <1>2, <1>3
<1>5. (v - u) % ClockMod = r
  <2>1. v - u \in Int /\ q + z - w \in Int
    BY <1>0, <1>1, <1>2, <1>3
  <2> HIDE <1>2, <1>1
  <2> QED BY <1>0, <1>3, <1>4, <2>1, RemainderUnique
<1> QED BY <1>2, <1>5 DEF e, v, r, Since, Time

(* The counter of recoveries is read as a difference too. *)
LEMMA TotalAdvances ==
  ASSUME NEW sum \in 0 .. TotalMod - 1, NEW delta \in 0 .. TotalMod - 1
  PROVE  /\ (sum + delta) % TotalMod \in 0 .. TotalMod - 1
         /\ (((sum + delta) % TotalMod) - sum) % TotalMod = delta
<1> DEFINE v == (sum + delta) % TotalMod
<1> DEFINE w == (sum + delta) \div TotalMod
<1>0. TotalMod \in Nat \ {0}
  BY PrebufferAssumption
<1>1. v \in 0 .. TotalMod - 1 /\ w \in Int /\ sum + delta = TotalMod * w + v
  BY <1>0, RemainderRange
<1> HIDE DEF v, w
<1>2. v - sum = TotalMod * (-w) + delta
  <2>1. TotalMod * (-w) = -(TotalMod * w)
    BY <1>0, <1>1
  <2> QED BY <2>1, <1>0, <1>1
<1>3. (v - sum) % TotalMod = delta
  BY <1>0, <1>1, <1>2, RemainderUnique
<1> QED BY <1>1, <1>3 DEF v
-----------------------------------------------------------------------------
LEMMA ClampRange ==
  ASSUME NEW ms \in Int
  PROVE  /\ pbc_clamp_base(ms) \in PBC_MIN_MS .. PBC_MAX_MS
         /\ ms \in PBC_MIN_MS .. PBC_MAX_MS => pbc_clamp_base(ms) = ms
BY PrebufferAssumption DEF pbc_clamp_base

(* pbc_max_steps: as many steps as still change the depth. *)
LEMMA StepsBelowMaximum ==
  ASSUME NEW b \in PBC_MIN_MS .. PBC_MAX_MS
  PROVE  /\ pbc_max_steps(b) \in Nat
         /\ \A k \in Nat :
              k < pbc_max_steps(b) <=> b + k * PBC_STEP_MS < PBC_MAX_MS
<1> DEFINE x == PBC_MAX_MS - b + PBC_STEP_MS - 1
<1> DEFINE n == x \div PBC_STEP_MS
<1> DEFINE r == x % PBC_STEP_MS
<1>0. PBC_STEP_MS \in Nat \ {0} /\ PBC_MAX_MS \in Nat /\ b \in Nat /\ x \in Nat
      /\ b <= PBC_MAX_MS
  BY PrebufferAssumption
<1>1. n \in Int /\ r \in 0 .. PBC_STEP_MS - 1 /\ x = PBC_STEP_MS * n + r
  BY <1>0, RemainderRange
<1>2. pbc_max_steps(b) = n
  BY <1>0, ClampRange DEF pbc_max_steps
<1> HIDE DEF n, r
<1>3. n >= 0
  <2>1. CASE n <= -1
    <3>1. PBC_STEP_MS * n <= -PBC_STEP_MS
      BY <1>0, <1>1, <2>1
    <3> QED BY <1>0, <1>1, <3>1
  <2> QED BY <1>1, <2>1
<1>4. ASSUME NEW k \in Nat
      PROVE  k < n <=> b + k * PBC_STEP_MS < PBC_MAX_MS
  <2>1. CASE k < n
    <3>1. PBC_STEP_MS * (k + 1) <= PBC_STEP_MS * n
      BY <1>0, <1>1, <2>1
    <3>2. PBC_STEP_MS * (k + 1) = k * PBC_STEP_MS + PBC_STEP_MS
      BY <1>0
    <3> QED BY <1>0, <1>1, <2>1, <3>1, <3>2
  <2>2. CASE k >= n
    <3>1. k * PBC_STEP_MS >= PBC_STEP_MS * n
      BY <1>0, <1>1, <2>2
    <3> QED BY <1>0, <1>1, <2>2, <3>1
  <2> QED BY <1>1, <2>1, <2>2
<1> QED BY <1>1, <1>2, <1>3, <1>4

LEMMA MaxStepsAtMinimum ==
  ASSUME NEW b \in PBC_MIN_MS .. PBC_MAX_MS
  PROVE  pbc_max_steps(b) <= pbc_max_steps(PBC_MIN_MS)
<1> DEFINE k == pbc_max_steps(PBC_MIN_MS)
<1>1. PBC_MIN_MS \in PBC_MIN_MS .. PBC_MAX_MS
  BY PrebufferAssumption
<1>2. k \in Nat /\ ~(PBC_MIN_MS + k * PBC_STEP_MS < PBC_MAX_MS)
  BY <1>1, StepsBelowMaximum
<1>3. pbc_max_steps(b) \in Nat
      /\ (k < pbc_max_steps(b) <=> b + k * PBC_STEP_MS < PBC_MAX_MS)
  BY <1>2, StepsBelowMaximum
<1> HIDE DEF k
<1>4. k * PBC_STEP_MS \in Nat
  BY <1>2, PrebufferAssumption
<1> QED BY <1>2, <1>3, <1>4, PrebufferAssumption DEF k
-----------------------------------------------------------------------------
(* What each operation of the controller keeps *)
LEMMA SetBaseFits ==
  ASSUME NEW s, Fits(s), NEW ms \in Int
  PROVE  LET b == pbc_set_base_ms(s, ms) IN
         /\ Fits(b)
         /\ b.base_ms = pbc_clamp_base(ms)
         /\ b = [s EXCEPT !.base_ms = b.base_ms, !.offset_steps = b.offset_steps]
         /\ b.offset_steps <= s.offset_steps
         /\ s.base_ms = pbc_clamp_base(ms) => b.offset_steps = s.offset_steps
<1> DEFINE k == pbc_clamp_base(ms)
<1> DEFINE most == pbc_max_steps(k)
<1> DEFINE off == IF s.offset_steps > most THEN most ELSE s.offset_steps
<1>1. k \in PBC_MIN_MS .. PBC_MAX_MS /\ pbc_clamp_base(k) = k
  <2>1. k \in PBC_MIN_MS .. PBC_MAX_MS
    BY ClampRange
  <2>2. k \in Int
    BY <2>1
  <2> QED BY <2>1, <2>2, ClampRange
<1>2. most \in Nat /\ most <= pbc_max_steps(PBC_MIN_MS)
  BY <1>1, StepsBelowMaximum, MaxStepsAtMinimum
<1> HIDE DEF most
<1>3. pbc_set_base_ms(s, ms) = [s EXCEPT !.base_ms = k, !.offset_steps = off]
  BY DEF pbc_set_base_ms, most
<1>4. s \in Controllers /\ s.offset_steps \in Nat
      /\ s.offset_steps <= pbc_max_steps(s.base_ms)
      /\ (~s.adaptive => s.offset_steps = 0)
  BY DEF Fits, Controllers
<1> HIDE DEF k
<1>5. off \in 0 .. pbc_max_steps(PBC_MIN_MS) /\ off <= most
      /\ off <= s.offset_steps
  BY <1>2, <1>4 DEF Controllers
<1> DEFINE b == [s EXCEPT !.base_ms = k, !.offset_steps = off]
<1> HIDE DEF off
<1>6. b \in Controllers /\ b.base_ms = k /\ b.offset_steps = off
      /\ b.adaptive = s.adaptive
  BY <1>1, <1>4, <1>5 DEF Controllers
<1>7. Fits(b)
  BY <1>2, <1>4, <1>5, <1>6 DEF Fits, most
<1>8. s.base_ms = k => off = s.offset_steps
  BY <1>2, <1>4 DEF off, most
<1> QED BY <1>3, <1>5, <1>6, <1>7, <1>8 DEF k

(* Recoveries are counted up to the threshold and only grow with a recovery. *)
Counted(s) ==
  /\ s \in [adaptive : BOOLEAN, drain_at_ms : Time, drain_pending : BOOLEAN,
            base_ms : PBC_MIN_MS .. PBC_MAX_MS,
            offset_steps : 0 .. pbc_max_steps(PBC_MIN_MS), window_start_ms : Time,
            window_events : Nat, last_recovery_ms : Time,
            last_recovery_total : 0 .. TotalMod - 1, have_baseline : BOOLEAN]
  /\ s.offset_steps <= pbc_max_steps(s.base_ms)

SameButCounts(s, e) ==
  /\ e.adaptive = s.adaptive /\ e.have_baseline = s.have_baseline
  /\ e.drain_at_ms = s.drain_at_ms /\ e.drain_pending = s.drain_pending
  /\ e.base_ms = s.base_ms /\ e.last_recovery_total = s.last_recovery_total

LEMMA CountEventsFits ==
  ASSUME NEW s, Fits(s), NEW delta \in Nat, NEW t \in Time
  PROVE  LET e == CountEvents(s, delta, t) IN
         /\ Counted(e) /\ SameButCounts(s, e)
         /\ e.offset_steps = s.offset_steps
         /\ e.last_recovery_ms = IF delta > 0 THEN t ELSE s.last_recovery_ms
         /\ delta = 0 => e.window_events < PBC_RATE_THRESHOLD
<1>1. PBC_RATE_THRESHOLD \in Nat \ {0}
  BY PrebufferAssumption
<1> DEFINE expired == Since(t, s.window_start_ms) >= PBC_WINDOW_MS
<1> HIDE DEF expired
<1> DEFINE events == IF expired THEN delta ELSE s.window_events + delta
<1> DEFINE start == IF expired THEN t ELSE s.window_start_ms
<1> DEFINE last == IF delta > 0 THEN t ELSE s.last_recovery_ms
<1>2. s \in Controllers /\ s.window_events \in 0 .. PBC_RATE_THRESHOLD - 1
      /\ s.offset_steps <= pbc_max_steps(s.base_ms)
  BY DEF Fits, Controllers
<1>3. CountEvents(s, delta, t) =
        [s EXCEPT !.window_events = events, !.window_start_ms = start,
                  !.last_recovery_ms = last]
  BY <1>2 DEF CountEvents, expired, Controllers
<1>4. events \in Nat /\ (delta = 0 => events < PBC_RATE_THRESHOLD)
  BY <1>1, <1>2
<1>5. start \in Time /\ last \in Time
  BY <1>2 DEF Controllers
<1>6. PBC_RATE_THRESHOLD - 1 \in Nat
  BY <1>1
<1> HIDE DEF events, start
<1>7. SameButCounts(s, CountEvents(s, delta, t))
  BY <1>2, <1>3 DEF Controllers, SameButCounts
<1>8. Counted(CountEvents(s, delta, t))
  BY <1>2, <1>3, <1>4, <1>5 DEF Controllers, Counted
<1> QED BY <1>2, <1>3, <1>4, <1>7, <1>8 DEF Controllers

LEMMA GrowFits ==
  ASSUME NEW s, Counted(s), NEW t \in Time
  PROVE  LET g == Grow(s, t) IN
         /\ g \in Controllers /\ SameButCounts(s, g)
         /\ g.offset_steps <= pbc_max_steps(g.base_ms)
         /\ g.offset_steps \in {s.offset_steps, s.offset_steps + 1}
         /\ s.window_events < PBC_RATE_THRESHOLD => g = s
         /\ g.last_recovery_ms = s.last_recovery_ms
<1>1. PBC_RATE_THRESHOLD \in Nat \ {0}
  BY PrebufferAssumption
<1>2. pbc_max_steps(s.base_ms) \in Nat
      /\ pbc_max_steps(s.base_ms) <= pbc_max_steps(PBC_MIN_MS)
      /\ pbc_max_steps(PBC_MIN_MS) \in Nat
  <2>1. s.base_ms \in PBC_MIN_MS .. PBC_MAX_MS /\ PBC_MIN_MS \in PBC_MIN_MS .. PBC_MAX_MS
    BY PrebufferAssumption DEF Counted
  <2> QED BY <2>1, StepsBelowMaximum, MaxStepsAtMinimum
<1>3. CASE s.window_events < PBC_RATE_THRESHOLD
  BY <1>1, <1>3 DEF Grow, Counted, Controllers, SameButCounts
<1>4. CASE ~(s.window_events < PBC_RATE_THRESHOLD)
  <2> DEFINE off == IF s.offset_steps < pbc_max_steps(s.base_ms)
                    THEN s.offset_steps + 1 ELSE s.offset_steps
  <2>1. Grow(s, t) = [s EXCEPT !.offset_steps = off, !.window_events = 0,
                               !.window_start_ms = t]
    BY <1>4 DEF Grow, Counted
  <2>2. off \in 0 .. pbc_max_steps(PBC_MIN_MS)
        /\ off <= pbc_max_steps(s.base_ms)
        /\ off \in {s.offset_steps, s.offset_steps + 1}
    BY <1>2 DEF Counted
  <2>3. 0 \in 0 .. PBC_RATE_THRESHOLD - 1
    BY <1>1
  <2> HIDE DEF off
  <2> QED BY <1>4, <2>1, <2>2, <2>3 DEF Counted, Controllers, SameButCounts
<1> QED BY <1>3, <1>4

LEMMA DecayFits ==
  ASSUME NEW s \in Controllers, s.offset_steps <= pbc_max_steps(s.base_ms),
         NEW t \in Time
  PROVE  LET d == Decay(s, t) IN
         /\ d \in Controllers /\ SameButCounts(s, d)
         /\ d.offset_steps <= pbc_max_steps(d.base_ms)
         /\ \/ d = s
            \/ /\ d.offset_steps = s.offset_steps - 1 /\ d.last_recovery_ms = t
               /\ Since(t, s.last_recovery_ms) >= PBC_DECAY_QUIET_MS
<1>1. pbc_max_steps(s.base_ms) \in Nat /\ pbc_max_steps(PBC_MIN_MS) \in Nat
  <2>1. s.base_ms \in PBC_MIN_MS .. PBC_MAX_MS /\ PBC_MIN_MS \in PBC_MIN_MS .. PBC_MAX_MS
    BY PrebufferAssumption DEF Controllers
  <2> QED BY <2>1, StepsBelowMaximum
<1>2. CASE s.offset_steps > 0 /\ Since(t, s.last_recovery_ms) >= PBC_DECAY_QUIET_MS
  <2>1. Decay(s, t) = [s EXCEPT !.offset_steps = s.offset_steps - 1,
                                !.last_recovery_ms = t]
    BY <1>2 DEF Decay, Controllers
  <2>2. s.offset_steps - 1 \in 0 .. pbc_max_steps(PBC_MIN_MS)
    BY <1>1, <1>2 DEF Controllers
  <2> DEFINE d == [s EXCEPT !.offset_steps = s.offset_steps - 1,
                            !.last_recovery_ms = t]
  <2>3. d \in Controllers
    BY <2>2 DEF Controllers
  <2>4. /\ SameButCounts(s, d) /\ d.base_ms = s.base_ms
        /\ d.offset_steps = s.offset_steps - 1 /\ d.last_recovery_ms = t
    BY DEF Controllers, SameButCounts
  <2>5. s.offset_steps - 1 <= pbc_max_steps(s.base_ms)
    BY <1>1 DEF Controllers
  <2> HIDE DEF d
  <2>6. d.offset_steps <= pbc_max_steps(d.base_ms)
    BY <2>4, <2>5
  <2>7. Decay(s, t) = d
    BY <2>1 DEF d
  <2> QED BY <1>2, <2>3, <2>4, <2>6, <2>7
<1>3. CASE ~(s.offset_steps > 0 /\ Since(t, s.last_recovery_ms) >= PBC_DECAY_QUIET_MS)
  BY <1>3 DEF Decay, SameButCounts
<1> QED BY <1>2, <1>3

LEMMA TrackFits ==
  ASSUME NEW s, Fits(s), NEW sum \in 0 .. TotalMod - 1, NEW t \in Time
  PROVE  LET r == pbc_track_recoveries(s, sum, t)
             delta == (sum - s.last_recovery_total) % TotalMod
         IN
         /\ Fits(r)
         /\ r.adaptive = s.adaptive /\ r.base_ms = s.base_ms
         /\ r.drain_at_ms = s.drain_at_ms /\ r.drain_pending = s.drain_pending
         /\ r.have_baseline /\ r.last_recovery_total = sum
         /\ ~s.have_baseline => r.offset_steps = s.offset_steps
                                /\ r.last_recovery_ms = t
         /\ s.have_baseline /\ s.adaptive /\ delta > 0 =>
              r.last_recovery_ms = t /\ r.offset_steps >= s.offset_steps
         /\ s.have_baseline /\ s.adaptive /\ delta = 0 =>
              \/ /\ r.offset_steps = s.offset_steps
                 /\ r.last_recovery_ms = s.last_recovery_ms
              \/ /\ r.offset_steps = s.offset_steps - 1
                 /\ r.last_recovery_ms = t
                 /\ Since(t, s.last_recovery_ms) >= PBC_DECAY_QUIET_MS
<1> DEFINE r == pbc_track_recoveries(s, sum, t)
<1> DEFINE delta == (sum - s.last_recovery_total) % TotalMod
<1>0. s \in Controllers /\ s.offset_steps \in Nat
      /\ s.offset_steps <= pbc_max_steps(s.base_ms)
      /\ (~s.adaptive => s.offset_steps = 0)
  BY DEF Fits, Controllers
<1>1. CASE ~s.have_baseline
  <2>1. r = [s EXCEPT !.have_baseline = TRUE, !.last_recovery_total = sum,
                      !.window_start_ms = t, !.last_recovery_ms = t]
    BY <1>1 DEF pbc_track_recoveries, Baseline
  <2> HIDE DEF r
  <2> QED BY <1>0, <1>1, <2>1 DEF r, Fits, Controllers
<1>2. CASE s.have_baseline
  <2> DEFINE n == [s EXCEPT !.last_recovery_total = sum]
  <2>1. r = IF s.adaptive THEN Decay(Grow(CountEvents(n, delta, t), t), t) ELSE n
    BY <1>0, <1>2 DEF pbc_track_recoveries, Controllers
  <2>2. Fits(n)
    BY <1>0 DEF Fits, Controllers
  <2>3. /\ n.adaptive = s.adaptive /\ n.base_ms = s.base_ms
        /\ n.drain_at_ms = s.drain_at_ms /\ n.drain_pending = s.drain_pending
        /\ n.have_baseline = s.have_baseline /\ n.last_recovery_total = sum
        /\ n.offset_steps = s.offset_steps
        /\ n.last_recovery_ms = s.last_recovery_ms
    BY <1>0 DEF Controllers
  <2>4. delta \in Nat
    <3>1. sum - s.last_recovery_total \in Int /\ TotalMod \in Nat \ {0}
      BY <1>0, PrebufferAssumption DEF Controllers
    <3> QED BY <3>1, RemainderRange
  <2> HIDE DEF n, delta, r
  <2>5. CASE ~s.adaptive
    BY <1>2, <2>1, <2>2, <2>3, <2>5 DEF r, delta
  <2>6. CASE s.adaptive
    <3> DEFINE e == CountEvents(n, delta, t)
    <3> DEFINE g == Grow(e, t)
    <3> DEFINE d == Decay(g, t)
    <3>1. /\ Counted(e) /\ SameButCounts(n, e) /\ e.offset_steps = n.offset_steps
          /\ e.last_recovery_ms = IF delta > 0 THEN t ELSE n.last_recovery_ms
          /\ delta = 0 => e.window_events < PBC_RATE_THRESHOLD
      BY <2>2, <2>4, CountEventsFits
    <3> HIDE DEF e
    <3>2. /\ g \in Controllers /\ SameButCounts(e, g)
          /\ g.offset_steps <= pbc_max_steps(g.base_ms)
          /\ g.offset_steps \in {e.offset_steps, e.offset_steps + 1}
          /\ e.window_events < PBC_RATE_THRESHOLD => g = e
          /\ g.last_recovery_ms = e.last_recovery_ms
      BY <3>1, GrowFits
    <3> HIDE DEF g
    <3>3. /\ d \in Controllers /\ SameButCounts(g, d)
          /\ d.offset_steps <= pbc_max_steps(d.base_ms)
          /\ \/ d = g
             \/ /\ d.offset_steps = g.offset_steps - 1 /\ d.last_recovery_ms = t
                /\ Since(t, g.last_recovery_ms) >= PBC_DECAY_QUIET_MS
      BY <3>2, DecayFits
    <3> HIDE DEF d
    <3>4. r = d
      BY <2>1, <2>6 DEF d, g, e
    <3>5. Fits(d) /\ d.adaptive = s.adaptive /\ d.base_ms = s.base_ms
          /\ d.drain_at_ms = s.drain_at_ms /\ d.drain_pending = s.drain_pending
          /\ d.have_baseline /\ d.last_recovery_total = sum
      BY <1>2, <2>3, <2>6, <3>1, <3>2, <3>3 DEF SameButCounts, Fits
    <3>6. delta > 0 => d.last_recovery_ms = t /\ d.offset_steps >= s.offset_steps
      <4> SUFFICES ASSUME delta > 0
                   PROVE  d.last_recovery_ms = t /\ d.offset_steps >= s.offset_steps
        OBVIOUS
      <4>1. g.last_recovery_ms = t
        BY <3>1, <3>2
      <4>2. Since(t, t) = 0 /\ PBC_DECAY_QUIET_MS \in Nat \ {0}
        BY SinceItself, PrebufferAssumption
      <4>3. d = g
        BY <3>3, <4>1, <4>2
      <4>4. g.offset_steps >= s.offset_steps
        BY <1>0, <2>3, <3>1, <3>2
      <4> QED BY <4>1, <4>3, <4>4
    <3>7. delta = 0 =>
            \/ /\ d.offset_steps = s.offset_steps
               /\ d.last_recovery_ms = s.last_recovery_ms
            \/ /\ d.offset_steps = s.offset_steps - 1
               /\ d.last_recovery_ms = t
               /\ Since(t, s.last_recovery_ms) >= PBC_DECAY_QUIET_MS
      BY <2>3, <3>1, <3>2, <3>3
    <3> QED BY <1>2, <3>4, <3>5, <3>6, <3>7 DEF r, delta
  <2> QED BY <2>5, <2>6
<1> QED BY <1>0, <1>1, <1>2 DEF Fits, Controllers
-----------------------------------------------------------------------------
(* The start of a turn, whatever was polled *)
LEMMA PolledFits ==
  ASSUME PrebufferInv,
         NEW pause \in Pauses, NEW delta \in Recoveries, NEW ms \in Bases
  PROVE  LET r == Polled(pause, delta, ms)
             b == pbc_set_base_ms(c, ms)
             t == (now + pause) % ClockMod
         IN
         /\ Fits(r) /\ r.base_ms = pbc_clamp_base(ms)
         /\ r.adaptive = c.adaptive /\ r.have_baseline
         /\ r.drain_at_ms = c.drain_at_ms /\ r.drain_pending = c.drain_pending
         /\ r.last_recovery_total = (total + delta) % TotalMod
         /\ t \in Time /\ (total + delta) % TotalMod \in 0 .. TotalMod - 1
         /\ ms = base => b.offset_steps = c.offset_steps
         /\ r.offset_steps < b.offset_steps => c.have_baseline /\ delta = 0
                                               /\ c.adaptive
         /\ c.adaptive =>
              \/ /\ r.last_recovery_ms = t
                 /\ delta > 0 \/ ~c.have_baseline
                    \/ r.offset_steps < b.offset_steps
                 /\ r.offset_steps < b.offset_steps =>
                      /\ r.offset_steps = b.offset_steps - 1
                      /\ Since(t, c.last_recovery_ms) >= PBC_DECAY_QUIET_MS
              \/ /\ r.last_recovery_ms = c.last_recovery_ms
                 /\ r.offset_steps = b.offset_steps
                 /\ delta = 0 /\ c.have_baseline
<1> DEFINE b == pbc_set_base_ms(c, ms)
<1> DEFINE t == (now + pause) % ClockMod
<1> DEFINE sum == (total + delta) % TotalMod
<1> DEFINE r == pbc_track_recoveries(b, sum, t)
<1>1. pause \in Nat /\ delta \in 0 .. TotalMod - 1 /\ ms \in Int /\ now \in Time
      /\ total \in 0 .. TotalMod - 1
  <2>1. pause \in Nat /\ delta \in 0 .. TotalMod - 1 /\ ms \in Int
    BY PrebufferAssumption
  <2> QED BY <2>1 DEF PrebufferInv, TypeOK
<1>2. t \in Time
  BY <1>1, SinceAdvances
<1>3. sum \in 0 .. TotalMod - 1 /\ (sum - total) % TotalMod = delta
  BY <1>1, TotalAdvances
<1>4. /\ Fits(b) /\ b.base_ms = pbc_clamp_base(ms)
      /\ b = [c EXCEPT !.base_ms = b.base_ms, !.offset_steps = b.offset_steps]
      /\ c.base_ms = pbc_clamp_base(ms) => b.offset_steps = c.offset_steps
  BY <1>1, SetBaseFits DEF PrebufferInv
<1> HIDE DEF b, t, sum
<1>5. /\ b.adaptive = c.adaptive /\ b.have_baseline = c.have_baseline
      /\ b.drain_at_ms = c.drain_at_ms /\ b.drain_pending = c.drain_pending
      /\ b.last_recovery_ms = c.last_recovery_ms
      /\ b.last_recovery_total = c.last_recovery_total
  BY <1>4 DEF PrebufferInv, TypeOK, Controllers
<1>6. c.have_baseline => (sum - b.last_recovery_total) % TotalMod = delta
  BY <1>3, <1>5 DEF PrebufferInv, ClockInv
<1>7. /\ Fits(r)
      /\ r.adaptive = b.adaptive /\ r.base_ms = b.base_ms
      /\ r.drain_at_ms = b.drain_at_ms /\ r.drain_pending = b.drain_pending
      /\ r.have_baseline /\ r.last_recovery_total = sum
      /\ ~b.have_baseline => r.offset_steps = b.offset_steps
                             /\ r.last_recovery_ms = t
      /\ b.have_baseline /\ b.adaptive /\ delta > 0 =>
           r.last_recovery_ms = t /\ r.offset_steps >= b.offset_steps
      /\ b.have_baseline /\ b.adaptive /\ delta = 0 =>
           \/ /\ r.offset_steps = b.offset_steps
              /\ r.last_recovery_ms = b.last_recovery_ms
           \/ /\ r.offset_steps = b.offset_steps - 1
              /\ r.last_recovery_ms = t
              /\ Since(t, b.last_recovery_ms) >= PBC_DECAY_QUIET_MS
  BY <1>2, <1>3, <1>4, <1>5, <1>6, TrackFits
<1> HIDE DEF r
<1>8. Polled(pause, delta, ms) = r
  BY DEF Polled, r, b, sum, t
<1>9. r.offset_steps \in Nat /\ b.offset_steps \in Nat
  BY <1>4, <1>7 DEF Fits, Controllers
<1>10. ~c.adaptive => r.offset_steps = 0 /\ b.offset_steps = 0
  BY <1>4, <1>5, <1>7 DEF Fits
<1>11. ms = base => b.offset_steps = c.offset_steps
  BY <1>4 DEF PrebufferInv
<1>12. r.offset_steps < b.offset_steps => c.have_baseline /\ delta = 0 /\ c.adaptive
  BY <1>1, <1>5, <1>7, <1>9, <1>10
<1>13. c.adaptive =>
         \/ /\ r.last_recovery_ms = t
            /\ delta > 0 \/ ~c.have_baseline \/ r.offset_steps < b.offset_steps
            /\ r.offset_steps < b.offset_steps =>
                 /\ r.offset_steps = b.offset_steps - 1
                 /\ Since(t, c.last_recovery_ms) >= PBC_DECAY_QUIET_MS
         \/ /\ r.last_recovery_ms = c.last_recovery_ms
            /\ r.offset_steps = b.offset_steps
            /\ delta = 0 /\ c.have_baseline
  BY <1>1, <1>5, <1>7, <1>9
<1> QED BY <1>2, <1>3, <1>4, <1>5, <1>7, <1>8, <1>11, <1>12, <1>13 DEF b, t, sum

LEMMA ElapseFits ==
  ASSUME PrebufferInv,
         NEW pause \in Pauses, NEW delta \in Recoveries, NEW ms \in Bases,
         Elapse(pause, delta, ms)
  PROVE  LET r == Polled(pause, delta, ms) IN
         /\ now' = (now + pause) % ClockMod /\ now' \in Time
         /\ total' = r.last_recovery_total /\ total' \in 0 .. TotalMod - 1
         /\ base' = ms
         /\ recent' \in [1 .. PBC_RATE_THRESHOLD -> 0 .. PBC_WINDOW_MS]
         /\ quiet' \in 0 .. PBC_DECAY_QUIET_MS /\ drained' \in 0 .. ClockMod
         /\ r.adaptive /\ quiet' < PBC_DECAY_QUIET_MS =>
              Since(now', r.last_recovery_ms) = quiet'
         /\ IF c.drain_pending
            THEN drained' < ClockMod => Since(now', c.drain_at_ms) = drained'
            ELSE drained' = 0
<1> DEFINE r == Polled(pause, delta, ms)
<1> DEFINE back == r.offset_steps < pbc_set_base_ms(c, ms).offset_steps
<1> DEFINE t == (now + pause) % ClockMod
<1>1. /\ pause \in Nat \ {0} /\ delta \in Nat /\ now \in Time
      /\ quiet \in 0 .. PBC_DECAY_QUIET_MS /\ drained \in 0 .. ClockMod
      /\ recent \in [1 .. PBC_RATE_THRESHOLD -> 0 .. PBC_WINDOW_MS]
      /\ c \in Controllers
  <2>1. pause \in Nat \ {0} /\ delta \in Nat
    BY PrebufferAssumption
  <2> QED BY <2>1 DEF PrebufferInv, TypeOK
<1>2. /\ PBC_DECAY_QUIET_MS \in Nat \ {0} /\ PBC_RATE_THRESHOLD \in Nat \ {0}
      /\ PBC_WINDOW_MS \in Nat \ {0}
      /\ ClockMod \in Nat /\ ClockMod > PBC_DECAY_QUIET_MS
  BY PrebufferAssumption
<1>3. /\ t \in Time /\ r.last_recovery_total = (total + delta) % TotalMod
      /\ (total + delta) % TotalMod \in 0 .. TotalMod - 1
      /\ r.adaptive = c.adaptive
      /\ c.adaptive =>
           \/ /\ r.last_recovery_ms = t
              /\ delta > 0 \/ ~c.have_baseline \/ back
           \/ /\ r.last_recovery_ms = c.last_recovery_ms
              /\ ~back /\ delta = 0 /\ c.have_baseline
  <2>1. Fits(r) /\ Fits(pbc_set_base_ms(c, ms))
    <3>1. ms \in Int
      BY PrebufferAssumption
    <3> QED BY <3>1, PolledFits, SetBaseFits DEF PrebufferInv
  <2>2. r.offset_steps \in Nat /\ pbc_set_base_ms(c, ms).offset_steps \in Nat
    BY <2>1 DEF Fits, Controllers
  <2> QED BY <2>2, PolledFits
<1>4. /\ now' = t /\ total' = (total + delta) % TotalMod /\ base' = ms
      /\ quiet' = IF delta > 0 \/ ~c.have_baseline \/ back THEN 0
                  ELSE Capped(quiet + pause, PBC_DECAY_QUIET_MS)
      /\ drained' = IF c.drain_pending THEN Capped(drained + pause, ClockMod)
                    ELSE 0
  BY DEF Elapse
<1>5. recent' \in [1 .. PBC_RATE_THRESHOLD -> 0 .. PBC_WINDOW_MS]
  <2>1. recent' = [k \in 1 .. PBC_RATE_THRESHOLD |->
                     IF k <= delta THEN 0
                     ELSE Capped(recent[k - delta] + pause, PBC_WINDOW_MS)]
    BY <1>1 DEF Elapse
  <2>2. ASSUME NEW k \in 1 .. PBC_RATE_THRESHOLD, ~(k <= delta)
        PROVE  Capped(recent[k - delta] + pause, PBC_WINDOW_MS)
                 \in 0 .. PBC_WINDOW_MS
    <3>1. recent[k - delta] \in 0 .. PBC_WINDOW_MS
      BY <1>1, <1>2, <2>2
    <3> QED BY <1>1, <1>2, <3>1 DEF Capped
  <2> QED BY <1>2, <2>1, <2>2
<1> HIDE DEF r, back
<1>6. quiet' \in 0 .. PBC_DECAY_QUIET_MS
  BY <1>1, <1>2, <1>4 DEF Capped
<1>7. ASSUME c.adaptive, quiet' < PBC_DECAY_QUIET_MS
      PROVE  Since(t, r.last_recovery_ms) = quiet'
  <2>1. CASE delta > 0 \/ ~c.have_baseline \/ back
    <3>1. r.last_recovery_ms = t /\ quiet' = 0
      BY <1>1, <1>3, <1>4, <1>7, <2>1
    <3> QED BY <1>3, <3>1, SinceItself
  <2>2. CASE ~(delta > 0 \/ ~c.have_baseline \/ back)
    <3>1. r.last_recovery_ms = c.last_recovery_ms
      BY <1>3, <1>7, <2>2
    <3>2. quiet' = quiet + pause /\ quiet < PBC_DECAY_QUIET_MS
      BY <1>1, <1>2, <1>4, <1>7, <2>2 DEF Capped
    <3>3. Since(now, c.last_recovery_ms) = quiet
      BY <1>7, <2>2, <3>2 DEF PrebufferInv, ClockInv
    <3>4. c.last_recovery_ms \in Time
      BY <1>1 DEF Controllers
    <3>5. Since(t, c.last_recovery_ms) = (quiet + pause) % ClockMod
      BY <1>1, <3>3, <3>4, SinceAdvances
    <3>6. quiet + pause \in 0 .. ClockMod - 1
      BY <1>1, <1>2, <1>7, <3>2
    <3>7. (quiet + pause) % ClockMod = quiet + pause
      BY <1>2, <3>6
    <3> QED BY <3>1, <3>2, <3>5, <3>7
  <2> QED BY <2>1, <2>2
<1>8. ASSUME c.drain_pending, drained' < ClockMod
      PROVE  Since(t, c.drain_at_ms) = drained'
  <2>0. drained + pause < ClockMod /\ drained' = drained + pause
    BY <1>1, <1>2, <1>4, <1>8 DEF Capped
  <2>1. Since(now, c.drain_at_ms) = drained /\ c.drain_at_ms \in Time
    <3>1. drained < ClockMod
      BY <1>1, <1>2, <2>0
    <3> QED BY <1>1, <1>8, <3>1 DEF PrebufferInv, ClockInv, Controllers
  <2>2. Since(t, c.drain_at_ms) = (drained + pause) % ClockMod
    BY <1>1, <2>1, SinceAdvances
  <2>3. drained + pause \in 0 .. ClockMod - 1
    BY <1>1, <1>2, <2>0
  <2>4. (drained + pause) % ClockMod = drained + pause
    BY <1>2, <2>3
  <2> QED BY <2>0, <2>2, <2>4
<1>9. drained' \in 0 .. ClockMod
  BY <1>1, <1>2, <1>4 DEF Capped
<1> QED BY <1>3, <1>4, <1>5, <1>6, <1>7, <1>8, <1>9 DEF r

LEMMA PrebufferInit == Init => PrebufferInv
<1> SUFFICES ASSUME Init PROVE PrebufferInv
  OBVIOUS
<1>1. PICK adaptive \in Builds : c = pbc_set_base_ms(pbc_init(adaptive), base)
  BY DEF Init
<1> DEFINE s == pbc_init(adaptive)
<1>2. PBC_MIN_MS \in PBC_MIN_MS .. PBC_MAX_MS /\ base \in Int /\ adaptive \in BOOLEAN
      /\ PBC_RATE_THRESHOLD \in Nat \ {0} /\ TotalMod \in Nat \ {0}
      /\ ClockMod \in Nat \ {0} /\ 0 \in Time /\ ClockMod - 1 \in Time
  BY PrebufferAssumption DEF Init, Time
<1>3. pbc_max_steps(PBC_MIN_MS) \in Nat
  BY <1>2, StepsBelowMaximum
<1>4. Fits(s)
  BY <1>2, <1>3 DEF Fits, Controllers, pbc_init
<1>5. s.have_baseline = FALSE /\ s.drain_pending = FALSE
  BY DEF pbc_init
<1> HIDE DEF s
<1>6. /\ Fits(c) /\ c.base_ms = pbc_clamp_base(base)
      /\ c = [s EXCEPT !.base_ms = c.base_ms, !.offset_steps = c.offset_steps]
  BY <1>1, <1>2, <1>4, SetBaseFits DEF s
<1>7. c.have_baseline = FALSE /\ c.drain_pending = FALSE
  BY <1>4, <1>5, <1>6 DEF Fits, Controllers
<1>8. recent \in [1 .. PBC_RATE_THRESHOLD -> 0 .. PBC_WINDOW_MS]
  <2>1. PBC_WINDOW_MS \in 0 .. PBC_WINDOW_MS
    BY PrebufferAssumption
  <2> QED BY <2>1 DEF Init
<1>9. TypeOK
  BY <1>2, <1>6, <1>8, PrebufferAssumption DEF Init, TypeOK, Fits
<1> QED BY <1>6, <1>7, <1>9 DEF PrebufferInv, ClockInv

LEMMA PrebufferStep == PrebufferInv /\ [Next]_vars => PrebufferInv'
<1> SUFFICES ASSUME PrebufferInv, [Next]_vars PROVE PrebufferInv'
  OBVIOUS
<1>1. CASE UNCHANGED vars
  BY <1>1 DEF vars, PrebufferInv, TypeOK, ClockInv, Fits
<1>2. CASE Next
  <2>1. PICK pause \in Pauses, delta \in Recoveries, ms \in Bases :
          Turn(pause, delta, ms)
    BY <1>2 DEF Next
  <2> DEFINE r == Polled(pause, delta, ms)
  <2>2. /\ Elapse(pause, delta, ms)
        /\ \/ c' = r /\ prebuffering' = prebuffering
           \/ prebuffering /\ c' = pbc_on_refill(r) /\ prebuffering' = FALSE
           \/ ~prebuffering /\ c' = r /\ prebuffering' = TRUE
           \/ /\ ~prebuffering /\ prebuffering' = TRUE
              /\ c' = pbc_on_full_drain(r, (now + pause) % ClockMod)
    BY <2>1 DEF Turn, Wait, Refill, PartialFrame, FullDrain
  <2>3. /\ Fits(r) /\ r.base_ms = pbc_clamp_base(ms)
        /\ r.adaptive = c.adaptive /\ r.have_baseline
        /\ r.drain_at_ms = c.drain_at_ms /\ r.drain_pending = c.drain_pending
    BY PolledFits
  <2>4. /\ now' = (now + pause) % ClockMod /\ now' \in Time
        /\ total' = r.last_recovery_total /\ total' \in 0 .. TotalMod - 1
        /\ base' = ms
        /\ recent' \in [1 .. PBC_RATE_THRESHOLD -> 0 .. PBC_WINDOW_MS]
        /\ quiet' \in 0 .. PBC_DECAY_QUIET_MS /\ drained' \in 0 .. ClockMod
        /\ r.adaptive /\ quiet' < PBC_DECAY_QUIET_MS =>
             Since(now', r.last_recovery_ms) = quiet'
        /\ IF c.drain_pending
           THEN drained' < ClockMod => Since(now', c.drain_at_ms) = drained'
           ELSE drained' = 0
    BY <2>2, ElapseFits
  <2> HIDE DEF r
  <2>5. \/ c' = r /\ (c.drain_pending => prebuffering')
        \/ c' = [r EXCEPT !.drain_pending = FALSE]
        \/ /\ c' = [r EXCEPT !.drain_pending = TRUE, !.drain_at_ms = now']
           /\ prebuffering' /\ ~c.drain_pending
    BY <2>2, <2>4 DEF pbc_on_refill, pbc_on_full_drain, PrebufferInv, ClockInv
  <2>6. /\ Fits(c') /\ c'.base_ms = r.base_ms /\ c'.adaptive = r.adaptive
        /\ c'.have_baseline /\ c'.last_recovery_total = r.last_recovery_total
        /\ c'.last_recovery_ms = r.last_recovery_ms
        /\ c'.drain_pending =>
             /\ prebuffering'
             /\ \/ c.drain_pending /\ c'.drain_at_ms = c.drain_at_ms
                \/ ~c.drain_pending /\ c'.drain_at_ms = now'
    BY <2>3, <2>4, <2>5 DEF Fits, Controllers
  <2>7. TypeOK'
    BY <2>2, <2>4, <2>6 DEF TypeOK, Fits, PrebufferInv
  <2>8. c'.drain_pending /\ drained' < ClockMod =>
          Since(now', c'.drain_at_ms) = drained'
    BY <2>4, <2>6, SinceItself
  <2>9. c'.base_ms = pbc_clamp_base(base')
    BY <2>3, <2>4, <2>6
  <2>10. ClockInv'
    BY <2>4, <2>6, <2>8 DEF ClockInv
  <2>11. Fits(c)'
    BY <2>6 DEF Fits, Controllers
  <2> QED BY <2>7, <2>9, <2>10, <2>11 DEF PrebufferInv
<1> QED BY <1>1, <1>2

(* The number of steps after a turn is what tracking the recoveries left. *)
LEMMA TurnSteps ==
  ASSUME PrebufferInv, Next
  PROVE  \E pause \in Pauses, delta \in Recoveries, ms \in Bases :
           /\ base' = ms /\ now' = (now + pause) % ClockMod
           /\ c'.offset_steps = Polled(pause, delta, ms).offset_steps
           /\ c'.adaptive = c.adaptive
<1>1. PICK pause \in Pauses, delta \in Recoveries, ms \in Bases :
        Turn(pause, delta, ms)
  BY DEF Next
<1> DEFINE r == Polled(pause, delta, ms)
<1>2. base' = ms /\ now' = (now + pause) % ClockMod
  BY <1>1 DEF Turn, Wait, Refill, PartialFrame, FullDrain, Elapse
<1>3. r \in Controllers /\ r.adaptive = c.adaptive
  BY PolledFits DEF Fits
<1>4. \/ c' = r \/ c' = pbc_on_refill(r)
      \/ c' = pbc_on_full_drain(r, (now + pause) % ClockMod)
  BY <1>1 DEF Turn, Wait, Refill, PartialFrame, FullDrain
<1> HIDE DEF r
<1>5. c'.offset_steps = r.offset_steps /\ c'.adaptive = r.adaptive
  BY <1>3, <1>4 DEF pbc_on_refill, pbc_on_full_drain, Controllers
<1> QED BY <1>2, <1>3, <1>5 DEF r
-----------------------------------------------------------------------------
(* One poll and the window: it goes on, a new one starts, or the threshold was *)
(* reached and the depth grows by a step at most.                              *)
LEMMA TrackWindow ==
  ASSUME NEW s, Fits(s), NEW sum \in 0 .. TotalMod - 1, NEW t \in Time
  PROVE  LET r == pbc_track_recoveries(s, sum, t)
             delta == (sum - s.last_recovery_total) % TotalMod
             late == Since(t, s.window_start_ms) >= PBC_WINDOW_MS
             seen == IF late THEN delta ELSE s.window_events + delta
         IN
         /\ ~s.have_baseline => r.window_events = s.window_events
                                /\ r.window_start_ms = t
         /\ s.have_baseline /\ s.adaptive =>
              \/ /\ r.window_events = seen
                 /\ r.window_start_ms = IF late THEN t ELSE s.window_start_ms
                 /\ r.offset_steps <= s.offset_steps
              \/ /\ seen >= PBC_RATE_THRESHOLD
                 /\ r.window_events = 0 /\ r.window_start_ms = t
                 /\ r.offset_steps <= s.offset_steps + 1
<1> DEFINE r == pbc_track_recoveries(s, sum, t)
<1> DEFINE delta == (sum - s.last_recovery_total) % TotalMod
<1> DEFINE late == Since(t, s.window_start_ms) >= PBC_WINDOW_MS
<1> DEFINE seen == IF late THEN delta ELSE s.window_events + delta
<1> DEFINE start == IF late THEN t ELSE s.window_start_ms
<1>0. s \in Controllers /\ s.offset_steps \in Nat
      /\ s.window_events \in Nat /\ PBC_RATE_THRESHOLD \in Nat
  BY PrebufferAssumption DEF Fits, Controllers
<1>1. CASE ~s.have_baseline
  <2>1. r = [s EXCEPT !.have_baseline = TRUE, !.last_recovery_total = sum,
                      !.window_start_ms = t, !.last_recovery_ms = t]
    BY <1>1 DEF pbc_track_recoveries, Baseline
  <2> HIDE DEF r
  <2>2. r.window_events = s.window_events /\ r.window_start_ms = t
    BY <1>0, <2>1 DEF Controllers
  <2> QED BY <1>1, <2>2 DEF r
<1>2. CASE s.have_baseline /\ s.adaptive
  <2> DEFINE n == [s EXCEPT !.last_recovery_total = sum]
  <2> DEFINE e == CountEvents(n, delta, t)
  <2> DEFINE g == Grow(e, t)
  <2>1. r = Decay(g, t)
    BY <1>0, <1>2 DEF pbc_track_recoveries, Controllers
  <2>2. Fits(n)
    BY <1>0 DEF Fits, Controllers
  <2>3. /\ n.window_start_ms = s.window_start_ms
        /\ n.window_events = s.window_events
        /\ n.offset_steps = s.offset_steps
    BY <1>0 DEF Controllers
  <2>4. delta \in Nat
    <3>1. sum - s.last_recovery_total \in Int /\ TotalMod \in Nat \ {0}
      BY <1>0, PrebufferAssumption DEF Controllers
    <3> QED BY <3>1, RemainderRange
  <2> HIDE DEF n, delta, late
  <2>5. /\ Counted(e) /\ e.window_events = seen /\ e.window_start_ms = start
        /\ e.offset_steps = s.offset_steps
    <3>1. Counted(e) /\ e.offset_steps = n.offset_steps
      BY <2>2, <2>4, CountEventsFits
    <3>2. n \in Controllers
      BY <2>2 DEF Fits
    <3>3. late <=> Since(t, n.window_start_ms) >= PBC_WINDOW_MS
      BY <2>3 DEF late
    <3>4. e.window_events = seen /\ e.window_start_ms = start
      BY <2>3, <3>2, <3>3 DEF CountEvents, Controllers
    <3> QED BY <2>3, <3>1, <3>4
  <2> HIDE DEF e, seen, start
  <2>6. /\ g \in Controllers /\ g.offset_steps <= pbc_max_steps(g.base_ms)
        /\ g.offset_steps \in {e.offset_steps, e.offset_steps + 1}
        /\ e.window_events < PBC_RATE_THRESHOLD => g = e
    BY <2>5, GrowFits
  <2>7. ~(e.window_events < PBC_RATE_THRESHOLD) =>
           g.window_events = 0 /\ g.window_start_ms = t
    BY <2>5 DEF Grow, Counted
  <2> HIDE DEF g
  <2>8. /\ r.window_events = g.window_events
        /\ r.window_start_ms = g.window_start_ms
        /\ r.offset_steps <= g.offset_steps
    <3>1. g.offset_steps \in Nat
      BY <2>6 DEF Controllers
    <3> QED BY <2>1, <2>6, <3>1 DEF Decay, Controllers
  <2>9. seen \in Nat /\ g.offset_steps \in Nat /\ r.offset_steps \in Nat
    <3>1. e.window_events \in Nat
      BY <2>5 DEF Counted
    <3>2. g.offset_steps \in Nat
      BY <2>6 DEF Controllers
    <3>3. Fits(r)
      BY TrackFits
    <3>4. r.offset_steps \in Nat
      BY <3>3 DEF Fits, Controllers
    <3> QED BY <2>5, <3>1, <3>2, <3>4
  <2> HIDE DEF r
  <2>10. \/ /\ r.window_events = seen /\ r.window_start_ms = start
            /\ r.offset_steps <= s.offset_steps
         \/ /\ seen >= PBC_RATE_THRESHOLD
            /\ r.window_events = 0 /\ r.window_start_ms = t
            /\ r.offset_steps <= s.offset_steps + 1
    <3>1. CASE e.window_events < PBC_RATE_THRESHOLD
      BY <2>5, <2>6, <2>8, <3>1
    <3>2. CASE ~(e.window_events < PBC_RATE_THRESHOLD)
      BY <1>0, <2>5, <2>6, <2>7, <2>8, <2>9, <3>2
    <3> QED BY <3>1, <3>2
  <2> QED BY <1>2, <2>10 DEF r, seen, start, late, delta
<1>3. CASE s.have_baseline /\ ~s.adaptive
  BY <1>3
<1> QED BY <1>1, <1>2, <1>3

(* After a turn: what the window counts is younger than the window.            *)
LEMMA TurnWindow ==
  ASSUME PrebufferInv, WindowInv, Next
  PROVE  /\ WindowInv'
         /\ c'.adaptive = c.adaptive
         /\ StepsUp => /\ c'.offset_steps = c.offset_steps + 1
                       /\ recent'[PBC_RATE_THRESHOLD] < PBC_WINDOW_MS
<1>1. PICK pause \in Pauses, delta \in Recoveries, ms \in Bases :
        Turn(pause, delta, ms)
  BY DEF Next
<1> DEFINE b == pbc_set_base_ms(c, ms)
<1> DEFINE t == (now + pause) % ClockMod
<1> DEFINE sum == (total + delta) % TotalMod
<1> DEFINE r == pbc_track_recoveries(b, sum, t)
<1>2. /\ pause \in 1 .. ClockMod - PBC_WINDOW_MS /\ delta \in 0 .. TotalMod - 1
      /\ ms \in Int /\ now \in Time /\ total \in 0 .. TotalMod - 1
      /\ recent \in [1 .. PBC_RATE_THRESHOLD -> 0 .. PBC_WINDOW_MS]
      /\ c \in Controllers
  <2>1. pause \in 1 .. ClockMod - PBC_WINDOW_MS /\ delta \in 0 .. TotalMod - 1
        /\ ms \in Int
    BY PrebufferAssumption
  <2> QED BY <2>1 DEF PrebufferInv, TypeOK
<1>3. /\ PBC_RATE_THRESHOLD \in Nat \ {0} /\ PBC_WINDOW_MS \in Nat \ {0}
      /\ ClockMod \in Nat \ {0} /\ TotalMod \in Nat \ {0}
  BY PrebufferAssumption
<1>4. /\ now' = t /\ t \in Time /\ base' = ms /\ sum \in 0 .. TotalMod - 1
      /\ (sum - total) % TotalMod = delta
  <2>1. now' = t /\ base' = ms
    BY <1>1 DEF Turn, Wait, Refill, PartialFrame, FullDrain, Elapse
  <2>2. t \in Time
    BY <1>2, <1>3, SinceAdvances
  <2> QED BY <1>2, <2>1, <2>2, TotalAdvances
<1>5. \A k \in 1 .. PBC_RATE_THRESHOLD :
        recent'[k] = IF k <= delta THEN 0
                     ELSE Capped(recent[k - delta] + pause, PBC_WINDOW_MS)
  <2>1. DOMAIN recent = 1 .. PBC_RATE_THRESHOLD
    BY <1>2
  <2> QED BY <1>1, <2>1
          DEF Turn, Wait, Refill, PartialFrame, FullDrain, Elapse
<1>6. /\ Fits(b)
      /\ b = [c EXCEPT !.base_ms = b.base_ms, !.offset_steps = b.offset_steps]
      /\ c.base_ms = pbc_clamp_base(ms) => b.offset_steps = c.offset_steps
  BY <1>2, SetBaseFits DEF PrebufferInv
<1> HIDE DEF b, t, sum
<1>7. /\ b.adaptive = c.adaptive /\ b.have_baseline = c.have_baseline
      /\ b.window_start_ms = c.window_start_ms
      /\ b.window_events = c.window_events
      /\ b.last_recovery_total = c.last_recovery_total
  BY <1>2, <1>6 DEF Controllers
<1>8. c.have_baseline => (sum - b.last_recovery_total) % TotalMod = delta
  BY <1>4, <1>7 DEF PrebufferInv, ClockInv
<1> DEFINE late == Since(t, c.window_start_ms) >= PBC_WINDOW_MS
<1> DEFINE seen == IF late THEN delta ELSE c.window_events + delta
<1>9. /\ ~c.have_baseline => r.window_events = c.window_events
                             /\ r.window_start_ms = t
      /\ c.have_baseline /\ c.adaptive =>
           \/ /\ r.window_events = seen
              /\ r.window_start_ms = IF late THEN t ELSE c.window_start_ms
              /\ r.offset_steps <= b.offset_steps
           \/ /\ seen >= PBC_RATE_THRESHOLD
              /\ r.window_events = 0 /\ r.window_start_ms = t
              /\ r.offset_steps <= b.offset_steps + 1
  BY <1>4, <1>6, <1>7, <1>8, TrackWindow
<1>10. /\ Fits(r) /\ r.adaptive = c.adaptive /\ r.have_baseline
       /\ ~c.have_baseline => r.offset_steps = b.offset_steps
  BY <1>4, <1>6, <1>7, TrackFits
<1> HIDE DEF r
<1>11. /\ c'.window_events = r.window_events
       /\ c'.window_start_ms = r.window_start_ms
       /\ c'.offset_steps = r.offset_steps
       /\ c'.adaptive = c.adaptive /\ c'.have_baseline
  <2>1. \/ c' = r \/ c' = pbc_on_refill(r)
        \/ c' = pbc_on_full_drain(r, (now + pause) % ClockMod)
    <3>1. Polled(pause, delta, ms) = r
      BY DEF Polled, r, b, sum, t
    <3> QED BY <1>1, <3>1 DEF Turn, Wait, Refill, PartialFrame, FullDrain
  <2>2. r \in Controllers
    BY <1>10 DEF Fits
  <2> QED BY <1>10, <2>1, <2>2 DEF pbc_on_refill, pbc_on_full_drain, Controllers
<1>12. c.window_events \in 0 .. PBC_RATE_THRESHOLD - 1
       /\ c.window_start_ms \in Time
       /\ c.offset_steps \in Nat /\ b.offset_steps \in Nat /\ r.offset_steps \in Nat
       /\ r.window_events \in 0 .. PBC_RATE_THRESHOLD - 1
       /\ delta \in Nat /\ pause \in Nat
  <2>1. b \in Controllers /\ r \in Controllers
    BY <1>6, <1>10 DEF Fits
  <2>2. c.window_events \in 0 .. PBC_RATE_THRESHOLD - 1
        /\ c.window_start_ms \in Time /\ c.offset_steps \in Nat
    BY <1>2 DEF Controllers
  <2>3. b.offset_steps \in Nat
    BY <2>1 DEF Controllers
  <2>4. r.offset_steps \in Nat
        /\ r.window_events \in 0 .. PBC_RATE_THRESHOLD - 1
    BY <2>1 DEF Controllers
  <2>5. delta \in Nat /\ pause \in Nat
    BY <1>2, <1>3
  <2> QED BY <2>2, <2>3, <2>4, <2>5
<1>13. CASE c.have_baseline /\ c.adaptive
  <2> DEFINE age == Since(now, c.window_start_ms)
  <2>1. age \in 0 .. PBC_WINDOW_MS - 1
    <3>1. age \in Time /\ age < PBC_WINDOW_MS
      BY <1>2, <1>12, <1>13, SinceRange DEF WindowInv
    <3> QED BY <1>3, <3>1 DEF Time
  <2>2. Since(t, c.window_start_ms) = age + pause
    <3>1. Since(t, c.window_start_ms) = (age + pause) % ClockMod
      BY <1>2, <1>12, SinceAdvances DEF t
    <3>2. age + pause \in 0 .. ClockMod - 1
      BY <1>2, <1>3, <2>1
    <3> HIDE DEF age
    <3> QED BY <1>3, <3>1, <3>2
  <2>3. /\ seen \in Nat
        /\ \A k \in 1 .. PBC_RATE_THRESHOLD :
             /\ k <= delta => recent'[k] = 0
             /\ k <= seen /\ ~late => recent'[k] <= age + pause
             /\ recent'[k] \in Int
    <3>1. ASSUME NEW k \in 1 .. PBC_RATE_THRESHOLD
          PROVE  /\ k <= delta => recent'[k] = 0
                 /\ k <= seen /\ ~late => recent'[k] <= age + pause
                 /\ recent'[k] \in Int
      <4>1. CASE k <= delta
        BY <1>5, <1>12, <2>1, <4>1
      <4>2. CASE ~(k <= delta)
        <5>1. k - delta \in 1 .. PBC_RATE_THRESHOLD
          BY <1>3, <1>12, <4>2
        <5>2. recent[k - delta] \in 0 .. PBC_WINDOW_MS
          BY <1>2, <5>1
        <5>3. recent'[k] = Capped(recent[k - delta] + pause, PBC_WINDOW_MS)
          BY <1>5, <4>2
        <5>4. k <= seen /\ ~late => recent[k - delta] <= age
          <6>1. SUFFICES ASSUME k <= seen, ~late
                         PROVE  recent[k - delta] <= age
            OBVIOUS
          <6>2. k - delta \in 1 .. c.window_events
            BY <1>12, <5>1, <6>1
          <6> QED BY <1>13, <6>2 DEF WindowInv
        <5> HIDE DEF age, seen, late
        <5> QED BY <1>3, <1>12, <2>1, <4>2, <5>2, <5>3, <5>4 DEF Capped
      <4> QED BY <4>1, <4>2
    <3> HIDE DEF age, late
    <3> QED BY <1>12, <3>1
  <2>4. late <=> age + pause >= PBC_WINDOW_MS
    BY <2>2
  <2>5. Since(t, t) = 0
    BY <1>4, SinceItself
  <2> HIDE DEF age, late
  <2>6. WindowInv'
    <3>1. Since(now', c'.window_start_ms) < PBC_WINDOW_MS
      <4>1. CASE c'.window_start_ms = t
        BY <1>3, <1>4, <2>5, <4>1
      <4>2. CASE c'.window_start_ms = c.window_start_ms /\ ~late
        BY <1>3, <1>4, <1>12, <2>1, <2>2, <2>4, <4>2
      <4> QED BY <1>9, <1>11, <1>13, <4>1, <4>2
    <3>2. ASSUME NEW k \in 1 .. c'.window_events
          PROVE  recent'[k] <= Since(now', c'.window_start_ms)
      <4>1. k \in 1 .. PBC_RATE_THRESHOLD
        BY <1>3, <1>11, <1>12
      <4>2. /\ r.window_events = seen
            /\ r.window_start_ms = IF late THEN t ELSE c.window_start_ms
        BY <1>9, <1>11, <1>12, <1>13, <3>2
      <4>3. CASE late
        <5>1. k <= delta /\ c'.window_start_ms = t
          BY <1>11, <1>12, <4>2, <4>3
        <5> QED BY <1>4, <2>3, <2>5, <4>1, <5>1
      <4>4. CASE ~late
        <5>1. k <= seen /\ c'.window_start_ms = c.window_start_ms
          BY <1>11, <2>3, <4>2, <4>4
        <5> QED BY <1>4, <2>2, <2>3, <4>1, <4>4, <5>1
      <4> QED BY <4>3, <4>4
    <3> QED BY <1>11, <3>1, <3>2 DEF WindowInv
  <2>7. ASSUME StepsUp
        PROVE  /\ c'.offset_steps = c.offset_steps + 1
               /\ recent'[PBC_RATE_THRESHOLD] < PBC_WINDOW_MS
    <3>1. b.offset_steps = c.offset_steps
      BY <1>4, <1>6, <2>7 DEF StepsUp, PrebufferInv
    <3>2. r.offset_steps > b.offset_steps
      BY <1>11, <2>7, <3>1 DEF StepsUp
    <3>3. seen >= PBC_RATE_THRESHOLD /\ r.offset_steps <= b.offset_steps + 1
      BY <1>9, <1>12, <1>13, <3>2
    <3>4. PBC_RATE_THRESHOLD \in 1 .. PBC_RATE_THRESHOLD
      BY <1>3
    <3>5. recent'[PBC_RATE_THRESHOLD] < PBC_WINDOW_MS
      <4>1. CASE late
        <5>1. PBC_RATE_THRESHOLD <= delta
          BY <3>3, <4>1
        <5> QED BY <1>3, <2>3, <3>4, <5>1
      <4>2. CASE ~late
        <5>1. recent'[PBC_RATE_THRESHOLD] <= age + pause
          BY <1>3, <2>3, <3>3, <3>4, <4>2
        <5>2. age + pause < PBC_WINDOW_MS
          BY <1>3, <1>12, <2>1, <2>4, <4>2
        <5>3. recent'[PBC_RATE_THRESHOLD] \in Int
          BY <2>3, <3>4
        <5> QED BY <1>3, <1>12, <2>1, <5>1, <5>2, <5>3
      <4> QED BY <4>1, <4>2
    <3> QED BY <1>11, <1>12, <3>1, <3>2, <3>3, <3>5
  <2> QED BY <1>11, <2>6, <2>7
<1>14. CASE ~c.have_baseline
  <2>1. c'.window_events = 0 /\ c'.window_start_ms = now'
    BY <1>4, <1>9, <1>11, <1>14 DEF WindowInv
  <2>2. Since(now', now') = 0
    BY <1>4, SinceItself
  <2>3. WindowInv'
    BY <1>3, <1>11, <2>1, <2>2 DEF WindowInv
  <2>4. ~StepsUp
    <3>1. SUFFICES ASSUME StepsUp PROVE FALSE
      OBVIOUS
    <3>2. r.offset_steps = b.offset_steps /\ b.offset_steps = c.offset_steps
      BY <1>4, <1>6, <1>10, <1>14, <3>1 DEF StepsUp, PrebufferInv
    <3> QED BY <1>11, <1>12, <3>1, <3>2 DEF StepsUp
  <2> QED BY <1>11, <2>3, <2>4
<1>15. CASE ~c.adaptive /\ c.have_baseline
  <2>1. WindowInv'
    BY <1>11, <1>15 DEF WindowInv
  <2>2. r.offset_steps = 0
    BY <1>10, <1>15 DEF Fits
  <2>3. ~StepsUp
    BY <1>11, <1>12, <2>2 DEF StepsUp
  <2> QED BY <1>11, <2>1, <2>3
<1> QED BY <1>13, <1>14, <1>15
-----------------------------------------------------------------------------
(* In every state: the steps that are counted fit under the maximum, and the   *)
(* wrapped clock and counters stand for the times and sums they were read for. *)
THEOREM PrebufferInvariance == Spec => []PrebufferInv
BY PrebufferInit, PrebufferStep, PTL DEF Spec

(* Types of all variables of the controller and what it polls. *)
THEOREM PrebufferTypeOK == Spec => []TypeOK
<1>1. PrebufferInv => TypeOK
  BY DEF PrebufferInv
<1> QED BY <1>1, PrebufferInvariance, PTL

(* pbc_effective_ms stays within its bounds, and is the base alone when the    *)
(* controller is off.                                                         *)
THEOREM DepthInBoundsHolds == Spec => []DepthInBounds
<1>1. PrebufferInv => DepthInBounds
  <2> SUFFICES ASSUME PrebufferInv PROVE DepthInBounds
    OBVIOUS
  <2>1. /\ c.offset_steps \in Nat /\ c.adaptive \in BOOLEAN
        /\ ~c.adaptive => c.offset_steps = 0
    BY DEF PrebufferInv, Fits, Controllers
  <2>2. pbc_clamp_base(base) \in PBC_MIN_MS .. PBC_MAX_MS
    BY DEF PrebufferInv, TypeOK, Controllers
  <2>3. c.offset_steps * PBC_STEP_MS \in Nat
    BY <2>1, PrebufferAssumption
  <2> DEFINE deep == pbc_clamp_base(base) + c.offset_steps * PBC_STEP_MS
  <2>4. (IF deep > PBC_MAX_MS THEN PBC_MAX_MS ELSE deep) \in PBC_MIN_MS .. PBC_MAX_MS
    BY <2>2, <2>3, PrebufferAssumption
  <2>5. effective = IF ~c.adaptive THEN base
                    ELSE IF deep > PBC_MAX_MS THEN PBC_MAX_MS ELSE deep
    BY DEF effective, pbc_effective_ms
  <2> QED BY <2>1, <2>4, <2>5 DEF DepthInBounds
<1> QED BY <1>1, PrebufferInvariance, PTL

(* pbc_on_refill classifies a drain once, and a refill is a gap in speech if    *)
(* and only if it comes within the window, until the clock has come round.     *)
THEOREM OneVerdictPerDrainHolds == Spec => []OneVerdictPerDrain
<1>1. PrebufferInv => OneVerdictPerDrain
  BY DEF PrebufferInv, ClockInv, OneVerdictPerDrain, GapResume
<1> QED BY <1>1, PrebufferInvariance, PTL

(* Every step pbc_track_recoveries takes or takes back changes the depth. *)
THEOREM StepsChangeDepthHolds == Spec => StepsChangeDepth
<1> DEFINE Changes == /\ StepsUp => effective' > effective
                      /\ StepsDown => effective' < effective
<1>1. PrebufferInv /\ PrebufferInv' /\ [Next]_vars => [Changes]_vars
  <2> SUFFICES ASSUME PrebufferInv, PrebufferInv', Next PROVE Changes
    OBVIOUS
  <2> DEFINE b == pbc_clamp_base(base)
  <2> DEFINE k == c.offset_steps
  <2> DEFINE n == c'.offset_steps
  <2>1. c'.adaptive = c.adaptive
    BY TurnSteps
  <2>2. /\ k \in Nat /\ k <= pbc_max_steps(b) /\ (~c.adaptive => k = 0)
        /\ b \in PBC_MIN_MS .. PBC_MAX_MS
    BY DEF PrebufferInv, Fits, Controllers
  <2>3. base' = base => n \in Nat /\ n <= pbc_max_steps(b) /\ (~c.adaptive => n = 0)
    BY <2>1 DEF PrebufferInv, Fits, Controllers
  <2>4. PBC_STEP_MS \in Nat \ {0} /\ PBC_MAX_MS \in Nat /\ PBC_MIN_MS \in Nat
    BY PrebufferAssumption
  <2>5. /\ effective = IF ~c.adaptive THEN base
                       ELSE IF b + k * PBC_STEP_MS > PBC_MAX_MS THEN PBC_MAX_MS
                       ELSE b + k * PBC_STEP_MS
        /\ base' = base =>
             effective' = IF ~c.adaptive THEN base
                          ELSE IF b + n * PBC_STEP_MS > PBC_MAX_MS THEN PBC_MAX_MS
                          ELSE b + n * PBC_STEP_MS
    BY <2>1 DEF effective, pbc_effective_ms
  <2>6. \A i \in Nat : i < pbc_max_steps(b) => b + i * PBC_STEP_MS < PBC_MAX_MS
    BY <2>2, StepsBelowMaximum
  <2>7. \A i, j \in Nat : i < j => i * PBC_STEP_MS < j * PBC_STEP_MS
                                    /\ i * PBC_STEP_MS \in Nat
                                    /\ j * PBC_STEP_MS \in Nat
    BY <2>4
  <2>8. pbc_max_steps(b) \in Nat
    BY <2>2, StepsBelowMaximum
  <2> HIDE DEF b, k, n
  <2>9. ASSUME StepsUp PROVE effective' > effective
    <3>1. base' = base /\ k < n /\ n \in Nat /\ n <= pbc_max_steps(b) /\ c.adaptive
      BY <2>2, <2>3, <2>9 DEF StepsUp, k, n
    <3>2. b + k * PBC_STEP_MS < PBC_MAX_MS
      BY <2>2, <2>6, <2>8, <3>1
    <3>3. /\ k * PBC_STEP_MS < n * PBC_STEP_MS
          /\ k * PBC_STEP_MS \in Nat /\ n * PBC_STEP_MS \in Nat
      BY <2>2, <2>7, <3>1
    <3> QED BY <2>2, <2>4, <2>5, <3>1, <3>2, <3>3
  <2>10. ASSUME StepsDown PROVE effective' < effective
    <3>1. base' = base /\ n < k /\ n \in Nat /\ k <= pbc_max_steps(b) /\ c.adaptive
      BY <2>2, <2>3, <2>10 DEF StepsDown, k, n
    <3>2. b + n * PBC_STEP_MS < PBC_MAX_MS
      BY <2>2, <2>6, <2>8, <3>1
    <3>3. /\ n * PBC_STEP_MS < k * PBC_STEP_MS
          /\ k * PBC_STEP_MS \in Nat /\ n * PBC_STEP_MS \in Nat
      BY <2>2, <2>7, <3>1
    <3> QED BY <2>2, <2>4, <2>5, <3>1, <3>2, <3>3
  <2> QED BY <2>9, <2>10
<1> QED BY <1>1, PrebufferInvariance, PTL DEF Spec, StepsChangeDepth

(* pbc_track_recoveries takes a step back only after the quiet time, whatever  *)
(* the clock did meanwhile.                                                    *)
THEOREM DecaysAfterQuietHolds == Spec => DecaysAfterQuiet
<1> DEFINE Waited == StepsDown => /\ c'.offset_steps = c.offset_steps - 1
                                  /\ quiet + Since(now', now) >= PBC_DECAY_QUIET_MS
<1>1. PrebufferInv /\ [Next]_vars => [Waited]_vars
  <2> SUFFICES ASSUME PrebufferInv, Next, StepsDown
               PROVE  /\ c'.offset_steps = c.offset_steps - 1
                      /\ quiet + Since(now', now) >= PBC_DECAY_QUIET_MS
    OBVIOUS
  <2>1. PICK pause \in Pauses, delta \in Recoveries, ms \in Bases :
          /\ base' = ms /\ now' = (now + pause) % ClockMod
          /\ c'.offset_steps = Polled(pause, delta, ms).offset_steps
    BY TurnSteps
  <2> DEFINE t == (now + pause) % ClockMod
  <2>2. /\ c'.offset_steps = c.offset_steps - 1 /\ c.adaptive /\ c.have_baseline
        /\ Since(t, c.last_recovery_ms) >= PBC_DECAY_QUIET_MS
    <3>1. c'.offset_steps < c.offset_steps /\ ms = base
      BY <2>1 DEF StepsDown
    <3>2. c.offset_steps \in Nat
      BY DEF PrebufferInv, TypeOK, Controllers
    <3> QED BY <2>1, <3>1, <3>2, PolledFits
  <2>3. /\ now \in Time /\ pause \in 1 .. ClockMod - 1 /\ ClockMod \in Nat \ {0}
        /\ quiet \in 0 .. PBC_DECAY_QUIET_MS /\ c.last_recovery_ms \in Time
        /\ PBC_DECAY_QUIET_MS \in Nat /\ PBC_DECAY_QUIET_MS < ClockMod
    <3>1. now \in Time /\ quiet \in 0 .. PBC_DECAY_QUIET_MS
          /\ c.last_recovery_ms \in Time
      BY DEF PrebufferInv, TypeOK, Controllers
    <3> QED BY <3>1, PrebufferAssumption
  <2>4. Since(t, now) = pause
    <3>1. Since(t, now) = (0 + pause) % ClockMod
      BY <2>3, SinceItself, SinceAdvances
    <3> QED BY <2>3, <3>1
  <2>5. CASE quiet = PBC_DECAY_QUIET_MS
    BY <2>1, <2>2, <2>3, <2>4, <2>5
  <2>6. CASE quiet < PBC_DECAY_QUIET_MS
    <3>1. Since(t, c.last_recovery_ms) = (quiet + pause) % ClockMod
      <4>1. Since(now, c.last_recovery_ms) = quiet
        BY <2>2, <2>6 DEF PrebufferInv, ClockInv
      <4>2. pause \in Nat
        BY <2>3
      <4> QED BY <2>3, <4>1, <4>2, SinceAdvances
    <3>2. CASE quiet + pause < PBC_DECAY_QUIET_MS
      <4>1. quiet + pause \in 0 .. ClockMod - 1
        BY <2>3, <3>2
      <4>2. (quiet + pause) % ClockMod = quiet + pause
        BY <2>3, <4>1
      <4> QED BY <2>2, <2>3, <3>1, <3>2, <4>2
    <3>3. CASE ~(quiet + pause < PBC_DECAY_QUIET_MS)
      BY <2>1, <2>2, <2>3, <2>4, <3>3
    <3> QED BY <3>2, <3>3
  <2> QED BY <2>3, <2>5, <2>6
<1> QED BY <1>1, PrebufferInvariance, PTL DEF Spec, DecaysAfterQuiet

(* pbc_track_recoveries adds a step only for PBC_RATE_THRESHOLD recoveries     *)
(* seen within PBC_WINDOW_MS, over a wrap of the clock and of the totals.      *)
THEOREM GrowsAfterBurstHolds == Spec => GrowsAfterBurst
<1> DEFINE Burst == StepsUp => /\ c'.offset_steps = c.offset_steps + 1
                               /\ recent'[PBC_RATE_THRESHOLD] < PBC_WINDOW_MS
<1>1. Init => WindowInv
  <2> SUFFICES ASSUME Init PROVE WindowInv
    OBVIOUS
  <2>1. PICK adaptive \in Builds : c = pbc_set_base_ms(pbc_init(adaptive), base)
    BY DEF Init
  <2>2. c.have_baseline = FALSE /\ c.window_events = 0
    BY <2>1 DEF pbc_set_base_ms, pbc_init
  <2> QED BY <2>2 DEF WindowInv
<1>2. PrebufferInv /\ WindowInv /\ [Next]_vars => WindowInv' /\ [Burst]_vars
  <2>1. CASE UNCHANGED vars
    BY <2>1 DEF vars, WindowInv
  <2>2. CASE Next
    BY <2>2, TurnWindow
  <2> QED BY <2>1, <2>2
<1> QED BY <1>1, <1>2, PrebufferInvariance, PTL DEF Spec, GrowsAfterBurst
=============================================================================
