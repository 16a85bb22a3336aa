--------------------------------- MODULE Rtvi ---------------------------------
(***************************************************************************)
(* What becomes of a server's message: src/rtvi.cpp's queue between the     *)
(* WebRTC thread and the RTVI task, src/rtvi_callbacks.cpp, and the decode   *)
(* ladder both threads write (src/decode_ladder.c, src/media.cpp).  The     *)
(* WebRTC thread is the main task, which also decodes the audio.  The two    *)
(* interleave at their loads and stores.                                    *)
(***************************************************************************)
EXTENDS DecodeLadder, Sequences

CONSTANTS
  Message,      \* the messages the server sends
  QueueSize     \* 10

ASSUME RtviAssumption ==
  /\ Message \subseteq {"bot-started-speaking", "bot-stopped-speaking", "idle",
                        "waiting", "thinking", "speaking", "ping"}
  /\ QueueSize \in Nat \ {0}

VARIABLES
  main,             \* the WebRTC thread: [step, msg, read]
  rtvi_queue,
  rtvi,             \* the RTVI task: [step, msg]
  pending_gaps,     \* the decode ladder
  g_server_phase,   \* what the LED ring shows
  \* ghosts
  since,            \* slots deferred since the last reset or frame
  revived           \* slots a deferral brings back that overtook a reset

ladder == <<pending_gaps, since, revived>>
vars == <<main, rtvi_queue, rtvi, ladder, g_server_phase>>

Idle == [step |-> "idle", msg |-> "ping", read |-> 0]
AtRest == [step |-> "idle", msg |-> "ping"]

Init ==
  /\ main = Idle /\ rtvi_queue = <<>> /\ rtvi = AtRest
  /\ pending_gaps = dl_init /\ since = 0 /\ revived = 0
  /\ g_server_phase = "none"
-----------------------------------------------------------------------------
(* The WebRTC thread.  pipecat_rtvi_handle_message waits while the queue is    *)
(* full.                                                                      *)
MessageArrives(m) ==
  /\ main.step = "idle"
  /\ main' = [Idle EXCEPT !.step = "sending", !.msg = m]
  /\ UNCHANGED <<rtvi_queue, rtvi, ladder, g_server_phase>>

(* Mutant: a full queue drops the message. *)
QueueSend_NoWait ==
  /\ main.step = "sending"
  /\ rtvi_queue' = IF Len(rtvi_queue) < QueueSize
                   THEN Append(rtvi_queue, main.msg) ELSE rtvi_queue
  /\ main' = Idle
  /\ UNCHANGED <<rtvi, ladder, g_server_phase>>

QueueSend ==
  /\ main.step = "sending" /\ Len(rtvi_queue) < QueueSize
  /\ rtvi_queue' = Append(rtvi_queue, main.msg)
  /\ main' = Idle
  /\ UNCHANGED <<rtvi, ladder, g_server_phase>>

LoadLadder(step) ==
  /\ main.step = "idle"
  /\ main' = [Idle EXCEPT !.step = step, !.read = pending_gaps]
  /\ UNCHANGED <<rtvi_queue, rtvi, ladder, g_server_phase>>

(* dl_on_gap; without room nothing is stored and the slot concealed at once. *)
StoreGap ==
  /\ main.step = "gap"
  /\ pending_gaps' = IF GapDeferred(main.read) THEN dl_on_gap(main.read)
                     ELSE pending_gaps
  /\ since' = IF GapDeferred(main.read) THEN since + 1 ELSE since
  /\ main' = Idle
  /\ UNCHANGED <<rtvi_queue, rtvi, revived, g_server_phase>>

(* dl_on_frame, which counts down in a register; nothing deferred, no store. *)
StoreFrame ==
  /\ main.step = "frame"
  /\ pending_gaps' = IF main.read > 0 THEN 0 ELSE pending_gaps
  /\ since' = 0 /\ revived' = 0
  /\ main' = Idle
  /\ UNCHANGED <<rtvi_queue, rtvi, g_server_phase>>
-----------------------------------------------------------------------------
(* rtvi_task, rtvi_handle_message and the callbacks *)
LedPhase(m) ==
  CASE m = "bot-started-speaking" -> "speaking"
    [] m = "bot-stopped-speaking" -> "idle"
    [] m = "ping" -> "none"
    [] OTHER -> m

QueueReceive ==
  /\ rtvi.step = "idle" /\ rtvi_queue # <<>>
  /\ rtvi' = [step |-> "handling", msg |-> Head(rtvi_queue)]
  /\ rtvi_queue' = Tail(rtvi_queue)
  /\ UNCHANGED <<main, ladder, g_server_phase>>

(* Mutant: a ping is answered through the task's own queue. *)
HandlePing_Requeues ==
  /\ rtvi.step = "handling" /\ rtvi.msg = "ping"
  /\ rtvi_queue' = IF Len(rtvi_queue) < QueueSize
                   THEN Append(rtvi_queue, "ping") ELSE rtvi_queue
  /\ rtvi' = AtRest
  /\ UNCHANGED <<main, ladder, g_server_phase>>

(* The pong is DataChannel's. *)
HandlePing ==
  /\ rtvi.step = "handling" /\ rtvi.msg = "ping"
  /\ rtvi' = AtRest
  /\ UNCHANGED <<main, rtvi_queue, ladder, g_server_phase>>

(* The guard of the decoder reset, which PlayRing has: the ring is empty and   *)
(* nothing plays.                                                             *)
GuardReset ==
  /\ rtvi.step = "handling" /\ rtvi.msg = "bot-started-speaking"
  /\ \E idle \in BOOLEAN :
       rtvi' = [rtvi EXCEPT !.step = IF idle THEN "reset" ELSE "phase"]
  /\ UNCHANGED <<main, rtvi_queue, ladder, g_server_phase>>

Revived == IF main.step = "gap" /\ GapDeferred(main.read) THEN main.read ELSE 0

(* Mutant: the ladder is not reset with the decoder. *)
ResetDecoder_KeepsLadder ==
  /\ rtvi.step = "reset"
  /\ since' = 0
  /\ revived' = Revived
  /\ rtvi' = [rtvi EXCEPT !.step = "phase"]
  /\ UNCHANGED <<main, rtvi_queue, pending_gaps, g_server_phase>>

ResetDecoder ==
  /\ rtvi.step = "reset"
  /\ pending_gaps' = dl_init
  /\ since' = 0
  /\ revived' = Revived
  /\ rtvi' = [rtvi EXCEPT !.step = "phase"]
  /\ UNCHANGED <<main, rtvi_queue, g_server_phase>>

(* pipecat_led_set_phase, whose second store is LedRing's *)
SetPhase ==
  /\ \/ rtvi.step = "phase"
     \/ rtvi.step = "handling" /\ rtvi.msg \notin {"ping", "bot-started-speaking"}
  /\ g_server_phase' = LedPhase(rtvi.msg)
  /\ rtvi' = AtRest
  /\ UNCHANGED <<main, rtvi_queue, ladder>>
-----------------------------------------------------------------------------
Next ==
  \/ \E m \in Message : MessageArrives(m)
  \/ QueueSend
  \/ \E step \in {"gap", "frame"} : LoadLadder(step)
  \/ StoreGap \/ StoreFrame
  \/ QueueReceive \/ HandlePing \/ GuardReset \/ ResetDecoder \/ SetPhase

(* The RTVI task runs, and so does the WebRTC thread once the queue has room. *)
Fairness ==
  /\ WF_vars(QueueSend) /\ WF_vars(QueueReceive) /\ WF_vars(HandlePing)
  /\ WF_vars(GuardReset) /\ WF_vars(ResetDecoder) /\ WF_vars(SetPhase)

Spec == Init /\ [][Next]_vars /\ Fairness
=============================================================================
