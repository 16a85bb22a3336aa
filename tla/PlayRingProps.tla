---------------------------- MODULE PlayRingProps ----------------------------
(***************************************************************************)
(* What the playback ring promises, with no lock between its tasks.         *)
(***************************************************************************)
EXTENDS PlayRing

Counter == 0 .. CounterMod - 1
Sample == [from : Producers \cup {"none"}, pos : Nat, loud : BOOLEAN]
Steps == [webrtc |-> {"idle", "count", "drop", "write", "publish"},
          http |-> {"idle", "count", "write", "publish"},
          playback |-> {"count", "pop", "release"},
          rtvi |-> {"idle", "count", "playing", "reset"}]

(* Every variable has its type; a push never exceeds the ring. *)
TypeOK ==
  /\ play_ring \in [0 .. PLAY_RING_SAMPLES - 1 -> Sample]
  /\ play_ring_head \in Counter /\ play_ring_tail \in Counter
  /\ play_ring_drops \in BOOLEAN /\ g_play_stat_underruns \in BOOLEAN
  /\ is_playing \in BOOLEAN /\ silence_count \in 0 .. workload.frames
  /\ DOMAIN pc = Tasks /\ \A t \in Tasks : pc[t] \in Steps[t]
  /\ head \in [Tasks -> Counter \cup {NotLoaded}]
  /\ tail \in [Tasks -> Counter \cup {NotLoaded}]
  /\ push \in [Producers -> [n : 0 .. PLAY_RING_SAMPLES,
                             done : 0 .. PLAY_RING_SAMPLES, loud : BOOLEAN]]
  /\ pushed \in [Producers -> Nat] /\ played \in Nat /\ seen \in Nat
  /\ workload \in Workloads
  /\ clips \in 0 .. workload.clips /\ frames \in 0 .. workload.frames
  /\ resets \in 0 .. workload.resets
  /\ prebuffering \in BOOLEAN
  /\ pop_buf \in Seq(Sample) /\ Len(pop_buf) <= PCM_SAMPLES_PER_FRAME

Occupancy == (play_ring_head - play_ring_tail) % CounterMod

(* As long as one task pushes and nothing was overrun, the frames handed to   *)
(* the I2S are the samples of that task, all of them, once and in order:      *)
(* whatever the producer is doing while the playback task copies, and however *)
(* the counters and the ring wrap.  The two sides share no lock, only the     *)
(* order in which samples and counters are written.                           *)
FramesIntact ==
  (pc["playback"] = "release" /\ ~play_ring_drops) =>
    \E t \in Producers : \A i \in 1 .. PCM_SAMPLES_PER_FRAME :
      pop_buf[i].from = t /\ pop_buf[i].pos = played + i

(* Decoded frames are as long as popped ones, so a partial frame can be left  *)
(* in the ring only by an overrun: on streamed audio the underruns counter    *)
(* does not move before the drops counter does, however starved the ring is.  *)
UnderrunMeansOverrun ==
  g_play_stat_underruns => play_ring_drops \/ clips > 0

(* The prebuffer withholds audio at the end of what was said.                 *)
Withheld ==
  /\ pc["webrtc"] = "idle" /\ ~is_playing
  /\ pc["playback"] = "count" /\ prebuffering
  /\ \E threshold \in Thresholds : Occupancy < threshold

(* The prebuffer does not cut the end of a reply, unless it is set deeper than *)
(* the silence gate: behind the last audible sample there is as much silence   *)
(* as the gate lets through, one frame less than it waits for (380 ms), after  *)
(* underruns and overruns too.  So it takes a threshold above that to withhold *)
(* a word until the next reply.  The default of 80 ms and the adaptive         *)
(* controller (PBC_MAX_MS is 160) stay below; the HTTP setting accepts up to   *)
(* 1000 ms, and there the end of a reply is withheld.                          *)
AudibleBehindSilence ==
  Withheld /\ clips = 0 =>
    \A i \in 0 .. Occupancy - 1 :
      play_ring[Slot(play_ring_tail, i)].loud =>
        Occupancy - i > (PLAYBACK_SILENCE_FRAMES - 1) * PCM_SAMPLES_PER_FRAME

(* The reset guard reads the ring and is_playing while both go on: the decoder *)
(* is still never reset before everything published when it read              *)
(* play_ring_head was played.                                                 *)
ResetAfterEarlierAudio ==
  (pc["rtvi"] = "reset" /\ ~play_ring_drops) => played >= seen

(* src/media.cpp: play_ring_tail is "free-running; consumer-owned".  A counter  *)
(* that only its owner moves only moves forward; going back replays samples     *)
(* that were already handed to the I2S.                                        *)
TailRunsForward ==
  [][(play_ring_tail' - play_ring_tail) % CounterMod <= PLAY_RING_SAMPLES]_vars
=============================================================================
