----------------------------- MODULE UpdateProps -----------------------------
(***************************************************************************)
(* What an update promises, whatever is uploaded and whenever power fails.  *)
(***************************************************************************)
EXTENDS Update

OtaStates == {"UNDEFINED", "NEW", "PENDING_VERIFY", "VALID", "INVALID", "ABORTED"}

(* Every variable has its type. *)
TypeOK ==
  /\ slot \in [Slots -> Images \cup {Erased}]
  /\ otaState \in [Slots -> OtaStates]
  /\ bootSlot \in Slots /\ running \in Slots
  /\ nvs \in [sha : Images \cup {Erased}, label : Slots \cup {"none"}]
  /\ stage \in {"off", "wifi", "server", "webrtc", "loop"}
  /\ marking \in BOOLEAN /\ g_validation_confirmed \in BOOLEAN
  /\ g_wifi_connected \in BOOLEAN /\ rebooting \in BOOLEAN
  /\ ap \in BOOLEAN /\ unsaved \in BOOLEAN
  /\ link \in {"joining", "up", "down"} /\ s_retry_num \in 0 .. MAX_RETRY
  /\ watchdog \in {"none", "armed", "rolling", "done", "failed"}
  /\ http \in [step : {"idle", "writing", "ended", "sha", "saved"},
               target : Slots, image : Images \cup {Erased}]
  /\ uploads \in 0 .. MaxUploads /\ cuts \in 0 .. MaxCuts
  /\ apChanges \in 0 .. MaxApChanges /\ faults \in 0 .. MaxFaults
  /\ proven \subseteq Slots /\ stray \subseteq Slots

(* Whenever power fails, in the middle of an upload, between its steps or      *)
(* during the second upload that the server still takes while the reboot is    *)
(* pending, the bootloader finds an image to start.                            *)
NeverBricked == slot[BootChoice] # Erased

(* An image runs without a trial only if it passed the health check in that    *)
(* slot before, or if a rollback went to a slot whose last upload was          *)
(* completed but never switched to, of which otadata still says what it said   *)
(* of the image before.                                                        *)
UnprovenOnTrial ==
  stage # "off" /\ running \notin proven \cup stray => Pending

(* While an image is on trial the one it would be rolled back to is intact and *)
(* not rejected: the HTTP server, which is up before the trial is decided,     *)
(* cannot have begun to overwrite it.                                          *)
FallbackKept ==
  stage # "off" /\ Pending =>
    /\ slot[Other(running)] # Erased
    /\ ~Rejected(otaState[Other(running)])

(* The main task marks what it checked: esp_ota_mark_app_valid acts on the     *)
(* slot otadata prefers, which must still be the running one.                  *)
MarksWhatRuns == marking => Active(otaState) = running

(* GET /ota/status names the image that runs, across uploads that fail,        *)
(* rollbacks and power cuts, as long as the last image was saved with its      *)
(* hash and label.                                                             *)
ShaNamesRunning == stage # "off" /\ ~unsaved => ReportedSha = slot[running]

(* Nothing will roll the image back in this boot: the watchdog was not          *)
(* created, could not read the state or could not write the rollback, or one    *)
(* unreadable state had the image taken for confirmed.                          *)
Abandoned == watchdog = "failed" \/ (Pending /\ g_validation_confirmed)

(* An image that reaches the main loop on trial does not stay on trial: it is  *)
(* marked valid, rolled back by the watchdog, or aborted by the next boot.  A   *)
(* healthy one whatever fails; an unhealthy one unless a single error of flash  *)
(* or memory met the one watchdog, or the reading of the state in any turn of   *)
(* the main loop: then it stays, against docs/BUILD_AND_FLASH.md:173.           *)
TrialEnds ==
  (stage = "loop" /\ Pending)
    ~> (~Pending \/ (Abandoned /\ ~health_check_passes))

(* The device at its best: that its connection is gone over a lost link is      *)
(* always noticed, which module Connection does not promise.                    *)
SpecLossNoticed == Spec /\ WF_vars(link # "up" /\ LoseConnection)

(* README.md promises "Wi-Fi/WebRTC reconnect watchdogs": once the access      *)
(* point stays up and power does too, a satellite whose image can join is     *)
(* online again and again.                                                     *)
JoinsAgain == <>[]ap => []<>(link = "up")
=============================================================================
