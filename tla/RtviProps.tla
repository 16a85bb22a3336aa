------------------------------ MODULE RtviProps ------------------------------
(***************************************************************************)
(* What a server's messages do, however the two threads interleave.        *)
(***************************************************************************)
EXTENDS Rtvi

Phases == {"idle", "waiting", "thinking", "speaking"}

(* Every variable has its type; the ladder never holds more than the           *)
(* operations array of pipecat_audio_decode has room for.                      *)
TypeOK ==
  /\ main \in [step : {"idle", "sending", "gap", "frame"},
               msg : Message \cup {"ping"}, read : 0 .. DL_MAX_PENDING_GAPS]
  /\ rtvi_queue \in Seq(Message) /\ Len(rtvi_queue) <= QueueSize
  /\ rtvi \in [step : {"idle", "handling", "reset", "phase"},
               msg : Message \cup {"ping"}]
  /\ {pending_gaps, since, revived} \subseteq 0 .. DL_MAX_PENDING_GAPS
  /\ g_server_phase \in Phases \cup {"none"}

(* The decoder reset on the RTVI task and the WebRTC thread in the ladder:     *)
(* what waits for the next frame is every slot deferred since the reset and,   *)
(* if a half-done deferral overtook it, all those the reset was to drop and    *)
(* none of them otherwise.                                                    *)
ResetTakesOrIsUndone == main.step # "gap" => pending_gaps = since + revived

(* A full queue holds up the WebRTC thread, and the audio with it, but never   *)
(* for good.                                                                   *)
MainThreadReturns == main.step = "sending" ~> main.step = "idle"

(* What ServerCommands calls pending: the RTVI task's message until its phase  *)
(* is set, the queue, and the message the WebRTC thread is about to queue.     *)
InHand == IF rtvi.step = "idle" THEN <<>> ELSE <<rtvi.msg>>
Offered == IF main.step = "sending" THEN <<main.msg>> ELSE <<>>

Commands ==
  INSTANCE ServerCommands WITH
    Command <- Message, Phase <- Phases, NoPhase <- "none",
    PhaseOf <- [m \in Message |-> LedPhase(m)],
    pending <- InHand \o rtvi_queue \o Offered, phase <- g_server_phase

(* The queue, the task and the callbacks implement ServerCommands: messages    *)
(* are carried out once each and in order, however full the queue is.          *)
ImplementsServerCommands == Commands!Spec
=============================================================================
