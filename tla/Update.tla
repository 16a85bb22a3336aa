-------------------------------- MODULE Update --------------------------------
(***************************************************************************)
(* A satellite from power-up to its main loop and the firmware update it    *)
(* takes over HTTP: src/main.cpp's boot order, the Wi-Fi events of          *)
(* src/wifi.cpp, and src/ota.cpp's upload handler, validation, rollback and *)
(* rollback watchdog.  The HTTP server, the main task, the watchdog task,   *)
(* the reboot task and the Wi-Fi events interleave; power may fail between  *)
(* any two steps, and only flash survives.  The bootloader and the          *)
(* esp_ota_* calls are external: two slots, the state otadata keeps of      *)
(* each, and the slot it prefers.                                           *)
(***************************************************************************)
EXTENDS Integers, FiniteSets

CONSTANTS
  Images,      \* firmware images that may be uploaded
  Joins,       \* those that can join the access point
  Healthy,     \* those that also find the XVF3800
  Factory,     \* the image flashed over USB
  Erased,      \* no bootable image
  MAX_RETRY,   \* reconnections the Wi-Fi handler makes in one boot, 5
  MaxUploads, MaxCuts, MaxApChanges,   \* bounds on the environment
  MaxFaults    \* and on the errors that defeat a trial

ASSUME UpdateAssumption ==
  /\ Healthy \subseteq Joins /\ Joins \subseteq Images
  /\ Factory \in Healthy /\ Erased \notin Images
  /\ {MAX_RETRY, MaxUploads, MaxCuts, MaxApChanges, MaxFaults} \subseteq Nat

Slots == {"ota_0", "ota_1"}
Other(s) == CHOOSE o \in Slots : o # s

VARIABLES
  \* flash
  slot,        \* what each slot holds
  otaState,    \* esp_ota_img_states_t of each slot
  bootSlot,    \* the slot otadata was last told to boot
  nvs,         \* [sha, label] saved by the last uploads
  \* RAM
  stage,       \* how far app_main is
  running,     \* the slot that was booted
  link, s_retry_num, g_wifi_connected,
  g_validation_confirmed,
  marking,     \* the main task is about to mark the image valid
  watchdog,    \* the validation watchdog task
  http,        \* [step, target, image] of the upload handler
  rebooting,   \* the reboot task waits for OTA_REBOOT_DELAY_MS
  \* environment
  ap, uploads, cuts, apChanges, faults,
  \* ghosts
  proven,      \* slots whose image passed the health check in this slot
  stray,       \* slots rewritten since otadata last spoke of them
  unsaved      \* the last complete image's hash is not, or half, in NVS

flash == <<slot, otaState, bootSlot, nvs>>
wifi == <<link, s_retry_num, g_wifi_connected>>
main == <<stage, marking, g_validation_confirmed>>
ram == <<main, wifi, watchdog, http, rebooting>>
env == <<ap, uploads, cuts, apChanges, faults>>
ghosts == <<proven, stray, unsaved>>
vars == <<flash, running, ram, env, ghosts>>

NoUpload == [step |-> "idle", target |-> "ota_0", image |-> Erased]

Init ==
  /\ slot = [s \in Slots |-> IF s = "ota_0" THEN Factory ELSE Erased]
  /\ otaState = [s \in Slots |-> "UNDEFINED"]
  /\ bootSlot = "ota_0" /\ running = "ota_0"
  /\ nvs = [sha |-> Erased, label |-> "none"]
  /\ stage = "off" /\ marking = FALSE /\ g_validation_confirmed = FALSE
  /\ link = "joining" /\ s_retry_num = 0 /\ g_wifi_connected = FALSE
  /\ watchdog = "none" /\ http = NoUpload /\ rebooting = FALSE
  /\ ap = TRUE /\ uploads = 0 /\ cuts = 0 /\ apChanges = 0 /\ faults = 0
  /\ proven = {"ota_0"} /\ stray = {} /\ unsaved = FALSE

(* What a reset leaves of RAM. *)
Restart ==
  /\ stage' = "off" /\ marking' = FALSE /\ g_validation_confirmed' = FALSE
  /\ link' = "joining" /\ s_retry_num' = 0 /\ g_wifi_connected' = FALSE
  /\ watchdog' = "none" /\ http' = NoUpload /\ rebooting' = FALSE
  /\ UNCHANGED running
-----------------------------------------------------------------------------
(* The bootloader, with CONFIG_BOOTLOADER_APP_ROLLBACK_ENABLE *)
Rejected(state) == state \in {"INVALID", "ABORTED"}

(* The slot otadata stands for, once its rejected entries are left out. *)
Active(states) ==
  IF Rejected(states[bootSlot]) /\ ~Rejected(states[Other(bootSlot)])
  THEN Other(bootSlot) ELSE bootSlot

(* A second boot of an image still on trial ends the trial. *)
Decayed == [s \in Slots |-> IF otaState[s] = "PENDING_VERIFY" THEN "ABORTED"
                            ELSE otaState[s]]

(* An image that does not verify gives way to the other slot's. *)
BootChoice ==
  IF slot[Active(Decayed)] # Erased THEN Active(Decayed)
  ELSE Other(Active(Decayed))

Boot ==
  /\ stage = "off"
  /\ running' = BootChoice
  /\ otaState' = IF Decayed[Active(Decayed)] = "NEW"
                 THEN [Decayed EXCEPT ![Active(Decayed)] = "PENDING_VERIFY"]
                 ELSE Decayed
  /\ stage' = "wifi"
  /\ UNCHANGED <<slot, bootSlot, nvs, marking, g_validation_confirmed, wifi,
                 watchdog, http, rebooting, env, ghosts>>

PowerCut ==
  /\ cuts < MaxCuts /\ stage # "off"
  /\ cuts' = cuts + 1
  /\ Restart
  /\ UNCHANGED <<flash, ap, uploads, apChanges, faults, ghosts>>

Pending == otaState[running] = "PENDING_VERIFY"

(* An error of flash or memory. *)
Fault == faults < MaxFaults /\ faults' = faults + 1

(* get_running_ota_state: otadata cannot be read, and a state that cannot be   *)
(* read is UNDEFINED, like that of an image that was never on trial.           *)
StateUnread == Pending /\ Fault

(* esp_ota_mark_app_invalid_rollback_and_reboot, where it succeeds: of the     *)
(* active slot, and only if the other one can be booted                       *)
RollbackPossible ==
  LET fallback == Other(Active(otaState)) IN
  slot[fallback] # Erased /\ ~Rejected(otaState[fallback])

(* Mutant: esp_ota_mark_app_invalid_rollback, which does not reboot. *)
MarkInvalidAndReboot_Stays ==
  /\ RollbackPossible
  /\ otaState' = [otaState EXCEPT ![Active(otaState)] = "INVALID"]
  /\ UNCHANGED <<slot, bootSlot, nvs, running, ram, env, ghosts>>

MarkInvalidAndReboot ==
  /\ RollbackPossible
  /\ otaState' = [otaState EXCEPT ![Active(otaState)] = "INVALID"]
  /\ Restart
  /\ UNCHANGED <<slot, bootSlot, nvs, env, ghosts>>
-----------------------------------------------------------------------------
(* pipecat_event_handler *)
JoinSucceeds ==
  /\ stage # "off" /\ link = "joining"
  /\ ap /\ slot[running] \in Joins
  /\ link' = "up"
  /\ g_wifi_connected' = TRUE
  /\ UNCHANGED <<flash, running, main, s_retry_num, watchdog, http, rebooting,
                 env, ghosts>>

(* WIFI_EVENT_STA_DISCONNECTED, for a failed attempt and for a lost link *)
Disconnected ==
  /\ stage # "off"
  /\ link # "down" /\ ~(ap /\ slot[running] \in Joins)
  /\ IF s_retry_num < MAX_RETRY
     THEN link' = "joining" /\ s_retry_num' = s_retry_num + 1
     ELSE link' = "down" /\ UNCHANGED s_retry_num
  /\ UNCHANGED <<flash, running, main, g_wifi_connected, watchdog, http,
                 rebooting, env, ghosts>>

AccessPointChanges ==
  /\ apChanges < MaxApChanges
  /\ apChanges' = apChanges + 1
  /\ ap' = ~ap
  /\ UNCHANGED <<flash, running, ram, uploads, cuts, faults, ghosts>>
-----------------------------------------------------------------------------
(* app_main *)
pipecat_init_wifi ==      \* returns; mDNS and the HTTP server follow
  /\ stage = "wifi" /\ g_wifi_connected
  /\ stage' = "server"
  /\ UNCHANGED <<flash, running, marking, g_validation_confirmed, wifi,
                 watchdog, http, rebooting, env, ghosts>>

pipecat_start_ota_validation_watchdog ==
  /\ stage = "server"
  /\ stage' = "webrtc"
  /\ \/ /\ Pending
        /\ watchdog' = "armed"
        /\ UNCHANGED <<g_validation_confirmed, faults>>
     \/ /\ Pending /\ Fault              \* xTaskCreate fails
        /\ watchdog' = "failed"
        /\ UNCHANGED g_validation_confirmed
     \/ /\ StateUnread \/ (~Pending /\ UNCHANGED faults)
        /\ g_validation_confirmed' = TRUE
        /\ UNCHANGED watchdog
  /\ UNCHANGED <<flash, running, marking, wifi, http, rebooting, ap, uploads,
                 cuts, apChanges, ghosts>>

(* The HTTP server is up and mDNS registered before the first call. *)
health_check_passes == g_wifi_connected /\ slot[running] \in Healthy

ota_state_is_valid_for_status(state) == state \in {"VALID", "UNDEFINED", "NEW"}

(* pipecat_validate_ota_if_healthy, after pipecat_init_webrtc and in each turn *)
Validated ==
  /\ stage \in {"webrtc", "loop"} /\ ~Pending
  /\ g_validation_confirmed' = ota_state_is_valid_for_status(otaState[running])
  /\ stage' = "loop"
  /\ UNCHANGED <<flash, running, marking, wifi, watchdog, http, rebooting, env,
                 ghosts>>

(* The same turn, on trial: the image is taken for confirmed from here on. *)
ValidatedUnread ==
  /\ stage \in {"webrtc", "loop"} /\ ~marking
  /\ StateUnread
  /\ g_validation_confirmed' = ota_state_is_valid_for_status("UNDEFINED")
  /\ stage' = "loop"
  /\ UNCHANGED <<flash, running, marking, wifi, watchdog, http, rebooting, ap,
                 uploads, cuts, apChanges, ghosts>>

(* Mutant: the health check is left out. *)
StartMarking_Unhealthy ==
  /\ stage \in {"webrtc", "loop"} /\ ~marking
  /\ Pending
  /\ marking' = TRUE
  /\ UNCHANGED <<flash, running, stage, g_validation_confirmed, wifi, watchdog,
                 http, rebooting, env, ghosts>>

StartMarking ==
  /\ stage \in {"webrtc", "loop"} /\ ~marking
  /\ Pending /\ health_check_passes
  /\ marking' = TRUE
  /\ UNCHANGED <<flash, running, stage, g_validation_confirmed, wifi, watchdog,
                 http, rebooting, env, ghosts>>

Unhealthy ==
  /\ stage = "webrtc" /\ Pending /\ ~health_check_passes
  /\ stage' = "loop"
  /\ UNCHANGED <<flash, running, marking, g_validation_confirmed, wifi,
                 watchdog, http, rebooting, env, ghosts>>

(* esp_ota_mark_app_valid_cancel_rollback, of the active slot *)
MarkValid ==
  /\ marking
  /\ otaState' = [otaState EXCEPT ![Active(otaState)] = "VALID"]
  /\ g_validation_confirmed' = TRUE
  /\ marking' = FALSE /\ stage' = "loop"
  /\ proven' = IF health_check_passes THEN proven \cup {running} ELSE proven
  /\ UNCHANGED <<slot, bootSlot, nvs, running, wifi, watchdog, http, rebooting,
                 env, stray, unsaved>>

MarkFails ==
  /\ marking
  /\ marking' = FALSE /\ stage' = "loop"
  /\ UNCHANGED <<flash, running, g_validation_confirmed, wifi, watchdog, http,
                 rebooting, env, ghosts>>

(* The connection watchdog and the end of the connection: esp_restart, of which *)
(* module Connection says when.                                               *)
LoseConnection ==
  /\ stage = "loop"
  /\ Restart
  /\ UNCHANGED <<flash, env, ghosts>>
-----------------------------------------------------------------------------
(* Mutant: the watchdog takes its own trial for confirmed. *)
WatchdogReads_Inverted ==
  /\ watchdog = "armed"
  /\ \/ /\ watchdog' = IF g_validation_confirmed /\ Pending THEN "rolling"
                        ELSE "done"
        /\ UNCHANGED faults
     \/ StateUnread /\ watchdog' = "failed"
  /\ UNCHANGED <<flash, running, main, wifi, http, rebooting, ap, uploads, cuts,
                 apChanges, ghosts>>

(* ota_validation_watchdog_task: one reading and one attempt, then the task *)
(* deletes itself.                                                          *)
WatchdogReads ==
  /\ watchdog = "armed"
  /\ \/ /\ watchdog' = IF ~g_validation_confirmed /\ Pending THEN "rolling"
                        ELSE "done"
        /\ UNCHANGED faults
     \/ StateUnread /\ watchdog' = "failed"
  /\ UNCHANGED <<flash, running, main, wifi, http, rebooting, ap, uploads, cuts,
                 apChanges, ghosts>>

WatchdogRollsBack == watchdog = "rolling" /\ MarkInvalidAndReboot

WatchdogRefused ==
  /\ watchdog = "rolling" /\ ~RollbackPossible
  /\ watchdog' = "done"
  /\ UNCHANGED <<flash, running, main, wifi, http, rebooting, env, ghosts>>

(* The rollback fails on a flash write; its result is not looked at. *)
WatchdogFails ==
  /\ watchdog = "rolling" /\ RollbackPossible
  /\ Fault
  /\ watchdog' = "failed"
  /\ UNCHANGED <<flash, running, main, wifi, http, rebooting, ap, uploads, cuts,
                 apChanges, ghosts>>
-----------------------------------------------------------------------------
(* The HTTP server, one request at a time. *)
Serving == stage \in {"server", "webrtc", "loop"}

(* Mutant: always the same slot. *)
esp_ota_get_next_update_partition_Fixed == "ota_0"

esp_ota_get_next_update_partition == Other(running)

(* Mutant: an upload is taken while the running image is on trial. *)
BeginUpload_OnTrial(image) ==
  /\ Serving /\ link = "up"
  /\ http.step = "idle" /\ uploads < MaxUploads
  /\ uploads' = uploads + 1
  /\ http' = [step |-> "writing", target |-> esp_ota_get_next_update_partition,
              image |-> image]
  /\ slot' = [slot EXCEPT ![http'.target] = Erased]
  /\ proven' = proven \ {http'.target}
  /\ stray' = stray \cup {http'.target}
  /\ UNCHANGED <<otaState, bootSlot, nvs, running, main, wifi, watchdog,
                 rebooting, ap, cuts, apChanges, faults, unsaved>>

(* esp_ota_begin erases the slot, unless the running image is on trial. *)
BeginUpload(image) ==
  /\ Serving /\ link = "up"
  /\ http.step = "idle" /\ uploads < MaxUploads
  /\ ~Pending
  /\ uploads' = uploads + 1
  /\ http' = [step |-> "writing", target |-> esp_ota_get_next_update_partition,
              image |-> image]
  /\ slot' = [slot EXCEPT ![http'.target] = Erased]
  /\ proven' = proven \ {http'.target}
  /\ stray' = stray \cup {http'.target}
  /\ UNCHANGED <<otaState, bootSlot, nvs, running, main, wifi, watchdog,
                 rebooting, ap, cuts, apChanges, faults, unsaved>>

HttpStep(step) == http' = [http EXCEPT !.step = step]
OnlyHttp == UNCHANGED <<running, main, wifi, watchdog, env>>

(* A receive, a write, the verification or the switch of the slot fails. *)
UploadFails ==
  /\ http.step \in {"writing", "saved"}
  /\ http' = NoUpload
  /\ OnlyHttp /\ UNCHANGED <<flash, rebooting, ghosts>>

esp_ota_end ==
  /\ http.step = "writing"
  /\ slot' = [slot EXCEPT ![http.target] = http.image]
  /\ HttpStep("ended")
  /\ unsaved' = TRUE
  /\ OnlyHttp
  /\ UNCHANGED <<otaState, bootSlot, nvs, rebooting, proven, stray>>

(* save_uploaded_sha: two writes, whose failure is only logged *)
SaveSha ==
  /\ http.step = "ended"
  /\ nvs' = [nvs EXCEPT !.sha = http.image]
  /\ HttpStep("sha")
  /\ OnlyHttp /\ UNCHANGED <<slot, otaState, bootSlot, rebooting, ghosts>>

SaveLabel ==
  /\ http.step = "sha"
  /\ nvs' = [nvs EXCEPT !.label = http.target]
  /\ HttpStep("saved")
  /\ unsaved' = FALSE
  /\ OnlyHttp
  /\ UNCHANGED <<slot, otaState, bootSlot, rebooting, proven, stray>>

SaveFails ==
  /\ http.step \in {"ended", "sha"}
  /\ HttpStep("saved")
  /\ OnlyHttp /\ UNCHANGED <<flash, rebooting, ghosts>>

(* The reboot task may fail to be created: the next boot is left to chance. *)
esp_ota_set_boot_partition ==
  /\ http.step = "saved"
  /\ bootSlot' = http.target
  /\ otaState' = [otaState EXCEPT ![http.target] = "NEW"]
  /\ stray' = stray \ {http.target}
  /\ http' = NoUpload
  /\ rebooting' \in {rebooting, TRUE}
  /\ OnlyHttp /\ UNCHANGED <<slot, nvs, proven, unsaved>>

RebootTask ==
  /\ rebooting
  /\ Restart
  /\ UNCHANGED <<flash, env, ghosts>>

(* ota_rollback_handler; refused or failed, it changes nothing. *)
Rollback ==
  /\ Serving /\ link = "up" /\ http.step = "idle"
  /\ MarkInvalidAndReboot

(* Mutant: the saved hash is reported whatever slot it is of. *)
ReportedSha_AnySlot == IF nvs.sha # Erased THEN nvs.sha ELSE slot[running]

(* ota_status_handler; images are their own hashes. *)
ReportedSha == IF nvs.label = running THEN nvs.sha ELSE slot[running]
-----------------------------------------------------------------------------
Next ==
  \/ Boot \/ PowerCut
  \/ JoinSucceeds \/ Disconnected \/ AccessPointChanges
  \/ pipecat_init_wifi \/ pipecat_start_ota_validation_watchdog
  \/ Validated \/ ValidatedUnread \/ StartMarking \/ Unhealthy
  \/ MarkValid \/ MarkFails
  \/ LoseConnection
  \/ WatchdogReads \/ WatchdogRollsBack \/ WatchdogRefused \/ WatchdogFails
  \/ \E image \in Images : BeginUpload(image)
  \/ UploadFails \/ esp_ota_end \/ SaveSha \/ SaveLabel \/ SaveFails
  \/ esp_ota_set_boot_partition \/ RebootTask \/ Rollback

(* The tasks run, the bootloader boots, the access point answers a station it  *)
(* hears, and the main task's flash write, tried in every turn, succeeds in     *)
(* the end.  No error need ever happen, or be spared.  Power, clients and the   *)
(* access point may do as they like, and a connection may never be lost.        *)
Fairness ==
  /\ WF_vars(Boot) /\ WF_vars(JoinSucceeds) /\ WF_vars(Disconnected)
  /\ WF_vars(pipecat_init_wifi)
  /\ WF_vars(pipecat_start_ota_validation_watchdog)
  /\ WF_vars(Validated) /\ WF_vars(StartMarking) /\ WF_vars(Unhealthy)
  /\ SF_vars(MarkValid)
  /\ WF_vars(WatchdogReads) /\ WF_vars(WatchdogRollsBack)
  /\ WF_vars(WatchdogRefused) /\ WF_vars(RebootTask)

Spec == Init /\ [][Next]_vars /\ Fairness
=============================================================================
