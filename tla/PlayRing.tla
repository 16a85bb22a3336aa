------------------------------- MODULE PlayRing -------------------------------
(***************************************************************************)
(* The playback ring of src/media.cpp and the four tasks that touch it,     *)
(* without a lock:                                                         *)
(*   webrtc    push_decoded_to_ring, for every frame that was decoded;      *)
(*   playback  pipecat_playback_task, which pops 20 ms frames for the I2S;  *)
(*   http      pipecat_play_selftest_clip, on POST /playback/selftest;      *)
(*   rtvi      pipecat_reset_audio_decoder, on bot-started-speaking.        *)
(* The steps are the loads and stores of the shared volatile counters; the  *)
(* access of one sample is one step.  play_ring_head - play_ring_tail       *)
(* leaves the order of its two loads open, and so does LoadHead/LoadTail.   *)
(* Samples are known by the producer that pushed them, by their position in *)
(* what it pushed, and by whether they are audible.                         *)
(***************************************************************************)
EXTENDS Integers, Sequences, FiniteSets

CONSTANTS
  PLAY_RING_SAMPLES,          \* 32768 in the code, a power of two; the mask
                              \* PLAY_RING_MASK is the remainder by it
  CounterMod,                 \* the free-running counters' 2^32
  PCM_SAMPLES_PER_FRAME,      \* 320, one 20 ms frame
  PLAYBACK_SILENCE_FRAMES,    \* 20
  Thresholds,   \* effective_ms * 16: what the HTTP setting and the adaptive
                \* controller may make of the prebuffer, in samples
  ClipSamples,                \* length of the embedded self-test clip
  Workloads     \* bounds on the inputs of one behaviour: how many frames,
                \* clips and resets there may be

ASSUME RingAssumption ==
  /\ PCM_SAMPLES_PER_FRAME \in Nat \ {0}
  /\ PLAY_RING_SAMPLES \in Nat
  /\ PLAY_RING_SAMPLES >= PCM_SAMPLES_PER_FRAME
  /\ CounterMod \in Nat
  /\ CounterMod % PLAY_RING_SAMPLES = 0
  /\ CounterMod > PLAY_RING_SAMPLES
  /\ PLAYBACK_SILENCE_FRAMES \in Nat \ {0}
  /\ Thresholds \subseteq PCM_SAMPLES_PER_FRAME .. PLAY_RING_SAMPLES
  /\ ClipSamples \in Nat
  /\ Workloads \subseteq [frames : Nat, clips : Nat, resets : Nat]

Producers == {"webrtc", "http"}
Tasks == Producers \cup {"playback", "rtvi"}
NotLoaded == -1

VARIABLES
  play_ring, play_ring_head, play_ring_tail,
  play_ring_drops,         \* some push found the ring full
  g_play_stat_underruns,   \* some poll found part of a frame
  is_playing, silence_count,
  pc,             \* what each task does next
  head, tail,     \* play_ring_head and _tail as a task loaded them
  push,           \* per producer: [n, done, loud] of the push under way
  pushed,         \* ghost, per producer: samples published
  clips,          \* self-test requests so far
  frames,         \* bound: decoded frames so far
  resets,         \* bound: bot-started-speaking messages so far
  workload,       \* bound: how many of them there may be
  prebuffering, pop_buf,   \* locals of the playback task
  played,         \* ghost: samples handed to the I2S
  seen            \* ghost: samples published when the reset guard loaded head

ring == <<play_ring, play_ring_head, play_ring_tail, play_ring_drops>>
gate == <<is_playing, silence_count>>
producer == <<push, pushed, frames, clips>>
playback == <<prebuffering, pop_buf, played, g_play_stat_underruns>>
rtvi == <<resets, seen, workload>>
regs == <<pc, head, tail>>
vars == <<ring, gate, producer, playback, rtvi, regs>>

NoPush == [n |-> 0, done |-> 0, loud |-> FALSE]
Silence == [from |-> "none", pos |-> 0, loud |-> FALSE]

(* play_ring_count() once both counters are loaded, in uint32_t arithmetic *)
Loaded(t) == head[t] # NotLoaded /\ tail[t] # NotLoaded
Count(t) == (head[t] - tail[t]) % CounterMod
(* Mutant: one sample more than there is. *)
FreeSpace_OneMore(t) == (PLAY_RING_SAMPLES + 1 - Count(t)) % CounterMod

FreeSpace(t) == (PLAY_RING_SAMPLES - Count(t)) % CounterMod

Slot(counter, i) == (counter + i) % PLAY_RING_SAMPLES

Published == pushed["webrtc"] + pushed["http"]

Goto(t, step) == pc' = [pc EXCEPT ![t] = step]
Forget(t) == /\ head' = [head EXCEPT ![t] = NotLoaded]
             /\ tail' = [tail EXCEPT ![t] = NotLoaded]

Init ==
  /\ play_ring = [s \in 0 .. PLAY_RING_SAMPLES - 1 |-> Silence]
  /\ play_ring_head = 0 /\ play_ring_tail = 0
  /\ play_ring_drops = FALSE /\ g_play_stat_underruns = FALSE
  /\ is_playing = FALSE /\ silence_count = 0
  /\ pc = [t \in Tasks |-> IF t = "playback" THEN "count" ELSE "idle"]
  /\ head = [t \in Tasks |-> NotLoaded]
  /\ tail = [t \in Tasks |-> NotLoaded]
  /\ push = [t \in Producers |-> NoPush]
  /\ pushed = [t \in Producers |-> 0]
  /\ clips = 0 /\ frames = 0 /\ resets = 0 /\ workload \in Workloads
  /\ prebuffering = TRUE /\ pop_buf = <<>>
  /\ played = 0 /\ seen = 0
-----------------------------------------------------------------------------
(* play_ring_count(), by any task *)
LoadHead(t) ==
  /\ pc[t] = "count" /\ head[t] = NotLoaded
  /\ head' = [head EXCEPT ![t] = play_ring_head]
  /\ seen' = IF t = "rtvi" THEN Published ELSE seen
  /\ UNCHANGED <<ring, gate, producer, playback, resets, workload, pc, tail>>

LoadTail(t) ==
  /\ pc[t] = "count" /\ tail[t] = NotLoaded
  /\ tail' = [tail EXCEPT ![t] = play_ring_tail]
  /\ UNCHANGED <<ring, gate, producer, playback, rtvi, pc, head>>
-----------------------------------------------------------------------------
(* update_is_playing: silence is counted, and enough of it ends the playing *)
SilenceAfter(loud) == IF loud THEN 0 ELSE silence_count + 1
(* Mutant: the first silent frame ends the playing. *)
PlayingAfter_NoHangover(loud) == loud

PlayingAfter(loud) ==
  IF SilenceAfter(loud) >= PLAYBACK_SILENCE_FRAMES THEN FALSE
  ELSE loud \/ is_playing

(* A frame was decoded.  Behind the gate it is pushed. *)
DecodedFrame(loud) ==
  /\ pc["webrtc"] = "idle"
  /\ frames < workload.frames
  /\ frames' = frames + 1
  /\ silence_count' = SilenceAfter(loud)
  /\ is_playing' = PlayingAfter(loud)
  /\ IF is_playing'
     THEN /\ Goto("webrtc", "count")
          /\ push' = [push EXCEPT !["webrtc"] =
                        [n |-> PCM_SAMPLES_PER_FRAME, done |-> 0, loud |-> loud]]
     ELSE UNCHANGED <<pc, push>>
  /\ UNCHANGED <<ring, pushed, clips, playback, rtvi, head, tail>>

PushFits ==
  /\ pc["webrtc"] = "count" /\ Loaded("webrtc")
  /\ FreeSpace("webrtc") >= push["webrtc"].n
  /\ Goto("webrtc", "write")
  /\ Forget("webrtc")
  /\ UNCHANGED <<ring, gate, producer, playback, rtvi>>

(* No room: play_ring_tail += n - free_space, a load and a store. *)
PushOverruns ==
  /\ pc["webrtc"] = "count" /\ Loaded("webrtc")
  /\ FreeSpace("webrtc") < push["webrtc"].n
  /\ Goto("webrtc", "drop")
  /\ tail' = [tail EXCEPT !["webrtc"] =
       (play_ring_tail + push["webrtc"].n - FreeSpace("webrtc")) % CounterMod]
  /\ UNCHANGED <<ring, gate, producer, playback, rtvi, head>>

DropOldest ==
  /\ pc["webrtc"] = "drop"
  /\ play_ring_tail' = tail["webrtc"]
  /\ play_ring_drops' = TRUE
  /\ Goto("webrtc", "write")
  /\ Forget("webrtc")
  /\ UNCHANGED <<play_ring, play_ring_head, gate, producer, playback, rtvi>>
-----------------------------------------------------------------------------
(* The self-test: as much of the clip as there is room for, then the rest. *)
RequestClip ==
  /\ pc["http"] = "idle"
  /\ clips < workload.clips
  /\ clips' = clips + 1
  /\ Goto("http", "count")
  /\ UNCHANGED <<ring, gate, push, pushed, frames, playback, rtvi, head, tail>>

(* pushed of the code: the clip's samples already in the ring *)
ClipDone == pushed["http"] - (clips - 1) * ClipSamples
ClipLeft == ClipSamples - ClipDone

ClipWaits ==
  /\ pc["http"] = "count" /\ Loaded("http")
  /\ FreeSpace("http") = 0
  /\ Forget("http")
  /\ UNCHANGED <<ring, gate, producer, playback, rtvi, pc>>

ClipFits ==
  /\ pc["http"] = "count" /\ Loaded("http")
  /\ FreeSpace("http") # 0
  /\ push' = [push EXCEPT !["http"] =
       [n |-> IF ClipLeft > FreeSpace("http") THEN FreeSpace("http")
              ELSE ClipLeft,
        done |-> 0, loud |-> TRUE]]
  /\ Goto("http", "write")
  /\ Forget("http")
  /\ UNCHANGED <<ring, gate, pushed, frames, clips, playback, rtvi>>
-----------------------------------------------------------------------------
(* Both producers: the samples, the barrier, play_ring_head += n *)
WriteSample(t) ==
  /\ pc[t] = "write"
  /\ push[t].done < push[t].n
  /\ play_ring' = [play_ring EXCEPT ![Slot(play_ring_head, push[t].done)] =
       [from |-> t, pos |-> pushed[t] + push[t].done + 1, loud |-> push[t].loud]]
  /\ push' = [push EXCEPT ![t].done = @ + 1]
  /\ UNCHANGED <<play_ring_head, play_ring_tail, play_ring_drops, gate, pushed,
                 frames, clips, playback, rtvi, regs>>

LoadForPublish(t) ==
  /\ pc[t] = "write"
  /\ push[t].done = push[t].n
  /\ head' = [head EXCEPT ![t] = (play_ring_head + push[t].n) % CounterMod]
  /\ Goto(t, "publish")
  /\ UNCHANGED <<ring, gate, producer, playback, rtvi, tail>>

Publish(t) ==
  /\ pc[t] = "publish"
  /\ play_ring_head' = head[t]
  /\ pushed' = [pushed EXCEPT ![t] = @ + push[t].n]
  /\ push' = [push EXCEPT ![t] = NoPush]
  /\ Goto(t, IF t = "http" /\ push[t].n < ClipLeft THEN "count" ELSE "idle")
  /\ Forget(t)
  /\ UNCHANGED <<play_ring, play_ring_tail, play_ring_drops, gate, frames,
                 clips, playback, rtvi>>
-----------------------------------------------------------------------------
(* The playback task polls the ring. *)
Prebuffer(threshold) ==
  /\ pc["playback"] = "count" /\ Loaded("playback")
  /\ prebuffering
  /\ Count("playback") < threshold
  /\ Forget("playback")
  /\ UNCHANGED <<ring, gate, producer, playback, rtvi, pc>>

(* Mutant: exactly one frame counts as too little. *)
Underrun_AtFrame ==
  /\ pc["playback"] = "count" /\ Loaded("playback")
  /\ ~prebuffering
  /\ Count("playback") <= PCM_SAMPLES_PER_FRAME
  /\ g_play_stat_underruns' = (g_play_stat_underruns \/ Count("playback") > 0)
  /\ prebuffering' = TRUE
  /\ Forget("playback")
  /\ UNCHANGED <<ring, gate, producer, pop_buf, played, rtvi, pc>>

Underrun ==
  /\ pc["playback"] = "count" /\ Loaded("playback")
  /\ ~prebuffering
  /\ Count("playback") < PCM_SAMPLES_PER_FRAME
  /\ g_play_stat_underruns' = (g_play_stat_underruns \/ Count("playback") > 0)
  /\ prebuffering' = TRUE
  /\ Forget("playback")
  /\ UNCHANGED <<ring, gate, producer, pop_buf, played, rtvi, pc>>

(* Every threshold is a frame or more, so a filled prebuffer holds one. *)
StartPop(threshold) ==
  /\ pc["playback"] = "count" /\ Loaded("playback")
  /\ Count("playback") >= IF prebuffering THEN threshold
                          ELSE PCM_SAMPLES_PER_FRAME
  /\ prebuffering' = FALSE
  /\ Goto("playback", "pop")
  /\ Forget("playback")
  /\ UNCHANGED <<ring, gate, producer, pop_buf, played, g_play_stat_underruns,
                 rtvi>>

(* Mutant: one sample too many, past the end of pop_buf. *)
PopSample_PastEnd ==
  /\ pc["playback"] = "pop"
  /\ Len(pop_buf) <= PCM_SAMPLES_PER_FRAME
  /\ pop_buf' = Append(pop_buf, play_ring[Slot(play_ring_tail, Len(pop_buf))])
  /\ UNCHANGED <<ring, gate, producer, prebuffering, played,
                 g_play_stat_underruns, rtvi, regs>>

PopSample ==
  /\ pc["playback"] = "pop"
  /\ Len(pop_buf) < PCM_SAMPLES_PER_FRAME
  /\ pop_buf' = Append(pop_buf, play_ring[Slot(play_ring_tail, Len(pop_buf))])
  /\ UNCHANGED <<ring, gate, producer, prebuffering, played,
                 g_play_stat_underruns, rtvi, regs>>

(* play_ring_tail += PCM_SAMPLES_PER_FRAME *)
LoadForPop ==
  /\ pc["playback"] = "pop"
  /\ Len(pop_buf) = PCM_SAMPLES_PER_FRAME
  /\ tail' = [tail EXCEPT !["playback"] =
                (play_ring_tail + PCM_SAMPLES_PER_FRAME) % CounterMod]
  /\ Goto("playback", "release")
  /\ UNCHANGED <<ring, gate, producer, playback, rtvi, head>>

(* The slots are free again and the frame goes to the I2S. *)
ReleaseFrame ==
  /\ pc["playback"] = "release"
  /\ play_ring_tail' = tail["playback"]
  /\ played' = played + PCM_SAMPLES_PER_FRAME
  /\ pop_buf' = <<>>
  /\ Goto("playback", "count")
  /\ Forget("playback")
  /\ UNCHANGED <<play_ring, play_ring_head, play_ring_drops, gate, producer,
                 prebuffering, g_play_stat_underruns, rtvi>>
-----------------------------------------------------------------------------
(* pipecat_reset_audio_decoder: a guard of three loads, then the reset *)
BotStartedSpeaking ==
  /\ pc["rtvi"] = "idle"
  /\ resets < workload.resets
  /\ resets' = resets + 1
  /\ Goto("rtvi", "count")
  /\ UNCHANGED <<ring, gate, producer, playback, seen, workload, head, tail>>

(* The ghost lasts as long as the guard and the reset it may lead to. *)
ForgetSeen == seen' = IF pc'["rtvi"] = "idle" THEN 0 ELSE seen

(* Mutant: the guard takes a frame that is left for empty. *)
GuardRing_FrameLeft ==
  /\ pc["rtvi"] = "count" /\ Loaded("rtvi")
  /\ Goto("rtvi", IF Count("rtvi") <= PCM_SAMPLES_PER_FRAME
                  THEN "playing" ELSE "idle")
  /\ ForgetSeen
  /\ Forget("rtvi")
  /\ UNCHANGED <<ring, gate, producer, playback, resets, workload>>

GuardRing ==
  /\ pc["rtvi"] = "count" /\ Loaded("rtvi")
  /\ Goto("rtvi", IF Count("rtvi") = 0 THEN "playing" ELSE "idle")
  /\ ForgetSeen
  /\ Forget("rtvi")
  /\ UNCHANGED <<ring, gate, producer, playback, resets, workload>>

GuardPlaying ==
  /\ pc["rtvi"] = "playing"
  /\ Goto("rtvi", IF is_playing THEN "idle" ELSE "reset")
  /\ ForgetSeen
  /\ UNCHANGED <<ring, gate, producer, playback, resets, workload, head, tail>>

(* OPUS_RESET_STATE and dl_init; the ladder is module Downlink's. *)
ResetDecoder ==
  /\ pc["rtvi"] = "reset"
  /\ Goto("rtvi", "idle")
  /\ ForgetSeen
  /\ UNCHANGED <<ring, gate, producer, playback, resets, workload, head, tail>>
-----------------------------------------------------------------------------
Next ==
  \/ \E t \in Tasks : LoadHead(t) \/ LoadTail(t)
  \/ \E loud \in BOOLEAN : DecodedFrame(loud)
  \/ PushFits \/ PushOverruns \/ DropOldest
  \/ RequestClip \/ ClipWaits \/ ClipFits
  \/ \E t \in Producers : WriteSample(t) \/ LoadForPublish(t) \/ Publish(t)
  \/ \E threshold \in Thresholds : Prebuffer(threshold) \/ StartPop(threshold)
  \/ Underrun \/ PopSample \/ LoadForPop \/ ReleaseFrame
  \/ BotStartedSpeaking \/ GuardRing \/ GuardPlaying \/ ResetDecoder

Spec == Init /\ [][Next]_vars
=============================================================================
