---------------------------- MODULE UpdateProofs ----------------------------
(***************************************************************************)
(* For every set of images, number of uploads, power cuts, retries and      *)
(* errors: an image to boot, a fallback behind every trial, no unproven      *)
(* image off trial, and a truthful status.                                  *)
(***************************************************************************)
EXTENDS UpdateProps, TLAPS

(* The slot that is written is the one that does not run; what is known of its *)
(* image and hash at each step of the upload.                                 *)
UploadInv ==
  http.step # "idle" =>
    /\ stage # "off" /\ ~Pending
    /\ http.target = Other(running) /\ http.target \in stray
    /\ http.image \in Images
    /\ http.step # "writing" => slot[http.target] = http.image
    /\ http.step \in {"ended", "sha"} => unsaved
    /\ http.step = "sha" => nvs.sha = http.image

(* A saved hash is that of the image it names the slot of. *)
SavedInv ==
  \A s \in Slots :
    ~unsaved /\ nvs.label = s /\ slot[s] # Erased => nvs.sha = slot[s]

(* What the tasks are about to do was decided in this boot. *)
TaskInv ==
  /\ stage = "off" => watchdog = "none"
  /\ marking => stage # "off" /\ Pending /\ health_check_passes

(* While an image runs: it was not rejected, a trial is that of the slot       *)
(* otadata prefers and has something to fall back to, and a new image is the   *)
(* one to boot next.                                                          *)
RunInv ==
  stage # "off" =>
    /\ ~Rejected(otaState[running])
    /\ \A s \in Slots : otaState[s] = "PENDING_VERIFY" => Active(otaState) = s
    /\ \A s \in Slots : otaState[s] = "NEW" => s = Other(running) /\ bootSlot = s
    /\ Pending => /\ slot[Other(running)] # Erased
                  /\ ~Rejected(otaState[Other(running)])
    /\ running \notin proven \cup stray => Pending
    /\ Other(running) \notin proven \cup stray =>
         \/ slot[Other(running)] = Erased
         \/ Rejected(otaState[Other(running)])
         \/ otaState[Other(running)] \in {"NEW", "PENDING_VERIFY"}

(* With the power off the same of the states the bootloader will find, once it *)
(* has ended an unfinished trial.                                             *)
BootFinds ==
  /\ slot[BootChoice] # Erased /\ ~Rejected(Decayed[BootChoice])
  /\ Decayed[Active(Decayed)] = "NEW" =>
       /\ slot[Other(Active(Decayed))] # Erased
       /\ ~Rejected(Decayed[Other(Active(Decayed))])
  /\ Decayed[Other(Active(Decayed))] # "NEW"
  /\ \A s \in Slots \ (proven \cup stray) :
       slot[s] = Erased \/ Rejected(Decayed[s]) \/ Decayed[s] = "NEW"

OffInv == stage = "off" => BootFinds

UpdateInv ==
  /\ TypeOK /\ slot[running] # Erased
  /\ UploadInv /\ SavedInv /\ TaskInv /\ RunInv /\ OffInv
-----------------------------------------------------------------------------
LEMMA SlotFacts ==
  /\ \A s \in Slots : Other(s) \in Slots /\ Other(s) # s /\ Other(Other(s)) = s
  /\ \A s, t \in Slots : s = t \/ s = Other(t)
<1>1. Other("ota_0") = "ota_1" /\ Other("ota_1") = "ota_0"
  BY DEF Other, Slots
<1> QED BY <1>1 DEF Slots

(* The slot otadata prefers is one of the two, and not a rejected one if the   *)
(* other is not.                                                              *)
LEMMA ActiveFacts ==
  ASSUME NEW states \in [Slots -> OtaStates], bootSlot \in Slots
  PROVE  /\ Active(states) \in Slots
         /\ Rejected(states[Active(states)]) =>
              \A s \in Slots : Rejected(states[s])
         /\ \A s \in Slots :
              ~Rejected(states[s]) /\ (s = bootSlot \/ Rejected(states[Other(s)]))
                => Active(states) = s
  BY SlotFacts DEF Active

LEMMA DecayedFacts ==
  ASSUME otaState \in [Slots -> OtaStates]
  PROVE  /\ Decayed \in [Slots -> OtaStates]
         /\ \A s \in Slots :
              /\ Decayed[s] # "PENDING_VERIFY"
              /\ otaState[s] # "PENDING_VERIFY" => Decayed[s] = otaState[s]
              /\ otaState[s] = "PENDING_VERIFY" => Decayed[s] = "ABORTED"
  BY DEF Decayed, OtaStates

LEMMA UpdateInit == Init => UpdateInv
<1> SUFFICES ASSUME Init PROVE UpdateInv
  OBVIOUS
<1> USE DEF Init
<1>1. /\ slot["ota_0"] = Factory /\ Factory # Erased /\ Factory \in Images
      /\ {"ota_0", "ota_1"} = Slots
  BY UpdateAssumption DEF Slots
<1>2. TypeOK
  <2>1. /\ slot \in [Slots -> Images \cup {Erased}]
        /\ otaState \in [Slots -> OtaStates]
        /\ proven \subseteq Slots /\ stray \subseteq Slots
    BY <1>1 DEF OtaStates
  <2>2. nvs \in [sha : Images \cup {Erased}, label : Slots \cup {"none"}]
    OBVIOUS
  <2>3. http \in [step : {"idle", "writing", "ended", "sha", "saved"},
                  target : Slots, image : Images \cup {Erased}]
    BY DEF NoUpload, Slots
  <2>4. /\ uploads \in 0 .. MaxUploads /\ cuts \in 0 .. MaxCuts
        /\ apChanges \in 0 .. MaxApChanges /\ s_retry_num \in 0 .. MAX_RETRY
        /\ faults \in 0 .. MaxFaults
    BY UpdateAssumption
  <2> QED BY <1>1, <2>1, <2>2, <2>3, <2>4 DEF TypeOK
<1>3. UploadInv /\ SavedInv /\ TaskInv /\ RunInv
  BY DEF UploadInv, SavedInv, TaskInv, RunInv, NoUpload, Slots
<1>4. OffInv
  <2>1. \A s \in Slots : Decayed[s] = "UNDEFINED"
    BY DEF Decayed
  <2>2. Active(Decayed) = "ota_0" /\ BootChoice = "ota_0"
    BY <1>1, <2>1, SlotFacts DEF Active, Rejected, BootChoice
  <2>3. Other("ota_0") \in Slots
    BY SlotFacts DEF Slots
  <2> QED BY <1>1, <2>1, <2>2, <2>3 DEF OffInv, BootFinds, Rejected, Slots
<1> QED BY <1>1, <1>2, <1>3, <1>4 DEF UpdateInv
-----------------------------------------------------------------------------
(* What only RAM can change, a step that leaves flash alone keeps. *)
LEMMA FlashUntouched ==
  ASSUME UpdateInv, UNCHANGED <<flash, running, ghosts>>,
         stage' = "off" <=> stage = "off"
  PROVE  (slot[running] # Erased)' /\ SavedInv' /\ RunInv' /\ OffInv'
<1>1. /\ slot' = slot /\ otaState' = otaState /\ bootSlot' = bootSlot
      /\ nvs' = nvs /\ running' = running /\ proven' = proven
      /\ stray' = stray /\ unsaved' = unsaved
  BY DEF flash, ghosts
<1>2. /\ Decayed' = Decayed /\ \A st : Active(st)' = Active(st)
      /\ BootChoice' = BootChoice
  BY <1>1 DEF Decayed, Active, BootChoice
<1>3. SavedInv'
  BY <1>1 DEF UpdateInv, SavedInv
<1>4. RunInv'
  BY <1>1 DEF UpdateInv, RunInv, Pending, Active
<1>5. OffInv'
  BY <1>1 DEF UpdateInv, OffInv, BootFinds, Active, BootChoice, Decayed
<1> QED BY <1>1, <1>3, <1>4, <1>5 DEF UpdateInv

(* Whatever ends a boot, the bootloader finds an image, one with a fallback    *)
(* if it is new: in a trial the other image, and otherwise the running one or  *)
(* one that was uploaded since.                                               *)
LEMMA RestartFindsImage ==
  ASSUME UpdateInv, stage # "off" PROVE BootFinds
<1> DEFINE R == running
<1> DEFINE O == Other(running)
<1> DEFINE D == Decayed
<1>1. /\ otaState \in [Slots -> OtaStates] /\ bootSlot \in Slots
      /\ R \in Slots /\ O \in Slots /\ O # R /\ Other(O) = R
      /\ \A s \in Slots : s = R \/ s = O
  BY SlotFacts DEF UpdateInv, TypeOK
<1>2. /\ D \in [Slots -> OtaStates] /\ Active(D) \in Slots
  BY <1>1, DecayedFacts, ActiveFacts
<1>3. /\ slot[R] # Erased /\ ~Rejected(otaState[R]) /\ otaState[R] # "NEW"
  BY <1>1 DEF UpdateInv, RunInv
<1>4. otaState[O] = "NEW" => bootSlot = O /\ ~Rejected(otaState[O])
                             /\ Active(otaState) = O /\ Active(D) = O /\ D[O] = "NEW"
  BY <1>1, <1>2, ActiveFacts, DecayedFacts DEF UpdateInv, RunInv, Rejected
<1>5. O \notin proven \cup stray =>
        slot[O] = Erased \/ Rejected(D[O]) \/ D[O] = "NEW"
  BY <1>1, DecayedFacts DEF UpdateInv, RunInv, Rejected
<1>6. CASE Pending
  <2>1. /\ otaState[R] = "PENDING_VERIFY" /\ Active(otaState) = R
        /\ slot[O] # Erased /\ ~Rejected(otaState[O])
    BY <1>1, <1>6 DEF UpdateInv, RunInv, Pending
  <2>2. otaState[O] # "PENDING_VERIFY" /\ otaState[O] # "NEW"
    BY <1>1, <1>4, <2>1 DEF UpdateInv, RunInv
  <2>3. D[R] = "ABORTED" /\ D[O] = otaState[O]
    BY <1>1, <2>1, <2>2, DecayedFacts
  <2>4. Active(D) = O
    BY <1>1, <1>2, <2>1, <2>3, ActiveFacts DEF Rejected
  <2>5. BootChoice = O
    BY <2>1, <2>4 DEF BootChoice
  <2> QED BY <1>1, <1>5, <2>1, <2>2, <2>3, <2>4, <2>5 DEF BootFinds, Rejected
<1>7. CASE ~Pending
  <2>1. D[R] = otaState[R] /\ R \in proven \cup stray
    BY <1>1, <1>7, DecayedFacts DEF UpdateInv, RunInv, Pending
  <2>2. ~Rejected(D[R]) /\ D[R] # "NEW"
    BY <1>3, <2>1
  <2>3. CASE Active(D) = R
    <3>1. BootChoice = R
      BY <1>3, <2>3 DEF BootChoice
    <3>2. D[O] # "NEW"
      BY <1>1, <1>4, <2>3, DecayedFacts DEF OtaStates
    <3> QED BY <1>1, <1>3, <1>5, <2>1, <2>2, <2>3, <3>1, <3>2 DEF BootFinds
  <2>4. CASE Active(D) = O
    <3>1. ~Rejected(D[O])
      BY <1>1, <1>2, <2>2, <2>4, ActiveFacts
    <3>2. (BootChoice = O /\ slot[O] # Erased) \/ BootChoice = R
      BY <1>1, <2>4 DEF BootChoice
    <3> QED BY <1>1, <1>3, <1>5, <2>1, <2>2, <2>4, <3>1, <3>2 DEF BootFinds
  <2> QED BY <1>1, <1>2, <2>3, <2>4
<1> QED BY <1>6, <1>7

(* What is left after a reset: flash, and no task. *)
LEMMA RestartKeeps ==
  ASSUME UpdateInv, Restart, UNCHANGED <<flash, ghosts>>
  PROVE  /\ (slot[running] # Erased)' /\ UploadInv' /\ SavedInv' /\ TaskInv'
         /\ RunInv' /\ OffInv'
<1>1. /\ slot' = slot /\ otaState' = otaState /\ bootSlot' = bootSlot
      /\ nvs' = nvs /\ running' = running /\ proven' = proven
      /\ stray' = stray /\ unsaved' = unsaved
  BY DEF Restart, flash, ghosts
<1>2. (slot[running] # Erased)' /\ UploadInv' /\ TaskInv' /\ RunInv'
  BY <1>1 DEF Restart, NoUpload, UpdateInv, UploadInv, TaskInv, RunInv
<1>3. SavedInv'
  BY <1>1 DEF UpdateInv, SavedInv
<1>4. BootFinds
  BY RestartFindsImage DEF UpdateInv, OffInv
<1>5. BootFinds'
  BY <1>1, <1>4 DEF BootFinds, BootChoice, Decayed, Active
<1> QED BY <1>2, <1>3, <1>5 DEF OffInv

(* A rollback rejects the preferred slot, and leaves the other one to boot. *)
LEMMA RollbackKeeps ==
  ASSUME UpdateInv, stage # "off", MarkInvalidAndReboot
  PROVE  /\ (slot[running] # Erased)' /\ UploadInv' /\ SavedInv' /\ TaskInv'
         /\ RunInv' /\ OffInv' /\ otaState' \in [Slots -> OtaStates]
<1> DEFINE X == Active(otaState)
<1> DEFINE F == Other(X)
<1>1. /\ otaState \in [Slots -> OtaStates] /\ bootSlot \in Slots
      /\ running \in Slots
      /\ X \in Slots /\ F \in Slots /\ F # X /\ Other(F) = X
      /\ \A s \in Slots : s = X \/ s = F
  BY SlotFacts, ActiveFacts DEF UpdateInv, TypeOK
<1>2. slot[F] # Erased /\ ~Rejected(otaState[F])
  BY DEF MarkInvalidAndReboot, RollbackPossible
<1>3. otaState' = [otaState EXCEPT ![X] = "INVALID"]
  BY DEF MarkInvalidAndReboot
<1>4. /\ slot' = slot /\ bootSlot' = bootSlot /\ nvs' = nvs
      /\ running' = running /\ proven' = proven /\ stray' = stray
      /\ unsaved' = unsaved
  BY DEF MarkInvalidAndReboot, Restart, ghosts
<1>5. (slot[running] # Erased)' /\ UploadInv' /\ TaskInv' /\ RunInv'
  BY <1>4 DEF MarkInvalidAndReboot, Restart, NoUpload, UpdateInv, UploadInv,
              TaskInv, RunInv
<1>6. SavedInv'
  BY <1>4 DEF UpdateInv, SavedInv
<1>7. otaState' \in [Slots -> OtaStates]
  BY <1>1, <1>3 DEF OtaStates
<1>8. otaState[F] # "PENDING_VERIFY" /\ otaState[F] # "NEW"
  BY <1>1, <1>2, ActiveFacts DEF UpdateInv, RunInv
<1>9. Decayed'[X] = "INVALID" /\ Decayed'[F] = otaState[F]
  BY <1>1, <1>3, <1>8 DEF Decayed
<1>10. (Active(Decayed))' = F
  BY <1>1, <1>2, <1>4, <1>9, SlotFacts DEF Active, Rejected
<1>11. BootChoice' = F
  BY <1>2, <1>4, <1>10 DEF BootChoice
<1>12. F \in proven \cup stray
  <2>1. CASE F = running
    BY <1>8, <2>1 DEF UpdateInv, RunInv, Pending
  <2>2. CASE F = Other(running)
    BY <1>2, <1>8, <2>2 DEF UpdateInv, RunInv
  <2> QED BY <1>1, <2>1, <2>2, SlotFacts
<1>13. BootFinds'
  BY <1>1, <1>2, <1>4, <1>8, <1>9, <1>10, <1>11, <1>12 DEF BootFinds, Rejected
<1> QED BY <1>5, <1>6, <1>7, <1>13 DEF OffInv

(* The bootloader starts what it found, a new image on trial. *)
LEMMA BootKeeps ==
  ASSUME UpdateInv, Boot
  PROVE  /\ (slot[running] # Erased)' /\ UploadInv' /\ SavedInv' /\ TaskInv'
         /\ RunInv' /\ OffInv' /\ otaState' \in [Slots -> OtaStates]
         /\ running' \in Slots
<1> DEFINE D == Decayed
<1> DEFINE A == Active(D)
<1> DEFINE P == Other(A)
<1> DEFINE B == BootChoice
<1>1. /\ otaState \in [Slots -> OtaStates] /\ bootSlot \in Slots
  BY DEF UpdateInv, TypeOK
<1>2. /\ D \in [Slots -> OtaStates] /\ \A s \in Slots : D[s] # "PENDING_VERIFY"
  BY <1>1, DecayedFacts
<1>3. /\ A \in Slots /\ P \in Slots /\ P # A /\ Other(P) = A
      /\ \A s \in Slots : s = A \/ s = P
      /\ B \in {A, P}
  BY <1>1, <1>2, SlotFacts, ActiveFacts DEF BootChoice
<1>4. BootFinds
  BY DEF Boot, UpdateInv, OffInv
<1>5. /\ stage = "off" /\ stage' = "wifi" /\ running' = B
      /\ otaState' = IF D[A] = "NEW" THEN [D EXCEPT ![A] = "PENDING_VERIFY"] ELSE D
      /\ slot' = slot /\ bootSlot' = bootSlot /\ nvs' = nvs
      /\ proven' = proven /\ stray' = stray /\ unsaved' = unsaved
      /\ http' = http /\ watchdog' = watchdog /\ marking' = marking
  BY DEF Boot, ghosts
<1>6. (slot[running] # Erased)' /\ UploadInv' /\ TaskInv' /\ OffInv'
  BY <1>4, <1>5 DEF BootFinds, UpdateInv, UploadInv, TaskInv, OffInv
<1>7. SavedInv'
  BY <1>5 DEF UpdateInv, SavedInv
<1>8. /\ otaState' \in [Slots -> OtaStates]
      /\ otaState'[P] = D[P]
      /\ otaState'[A] = IF D[A] = "NEW" THEN "PENDING_VERIFY" ELSE D[A]
  BY <1>2, <1>3, <1>5 DEF OtaStates
<1>9. D[P] # "NEW" /\ slot[B] # Erased /\ ~Rejected(D[B])
  BY <1>4 DEF BootFinds
<1>10. RunInv'
  <2>1. ~Rejected(otaState'[B])
    BY <1>3, <1>8, <1>9 DEF Rejected
  <2>2. \A s \in Slots : otaState'[s] # "NEW"
    BY <1>3, <1>8, <1>9
  <2>3. ASSUME NEW s \in Slots, otaState'[s] = "PENDING_VERIFY"
        PROVE  s = A /\ D[A] = "NEW" /\ (Active(otaState))' = s
    <3>1. s = A /\ D[A] = "NEW"
      BY <1>2, <1>3, <1>8, <2>3
    <3>2. ~Rejected(otaState'[A])
      BY <2>3, <3>1 DEF Rejected
    <3>3. A = bootSlot \/ (P = bootSlot /\ Rejected(otaState'[P]))
      BY <1>1, <1>3, <1>8, SlotFacts DEF Active
    <3>4. (Active(otaState))' = A
      BY <1>3, <1>5, <3>2, <3>3 DEF Active
    <3> QED BY <3>1, <3>4
  <2>4. ASSUME otaState'[B] = "PENDING_VERIFY"
        PROVE  slot[Other(B)] # Erased /\ ~Rejected(otaState'[Other(B)])
    BY <1>3, <1>4, <1>8, <2>3, <2>4 DEF BootFinds
  <2>5. B \notin proven \cup stray => otaState'[B] = "PENDING_VERIFY"
    BY <1>3, <1>4, <1>8, <1>9 DEF BootFinds
  <2>6. Other(B) \in Slots
    BY <1>3
  <2>7. Other(B) \notin proven \cup stray =>
          \/ slot[Other(B)] = Erased \/ Rejected(otaState'[Other(B)])
          \/ otaState'[Other(B)] \in {"NEW", "PENDING_VERIFY"}
    BY <1>3, <1>4, <1>8, <2>6 DEF BootFinds, Rejected
  <2> HIDE DEF D, A, P, B
  <2> QED BY <1>5, <2>1, <2>2, <2>3, <2>4, <2>5, <2>7 DEF RunInv, Pending
<1> QED BY <1>3, <1>5, <1>6, <1>7, <1>8, <1>10
-----------------------------------------------------------------------------
(* The steps of one boot. *)
LEMMA MarkValidKeeps ==
  ASSUME UpdateInv, MarkValid PROVE UpdateInv'
<1> DEFINE R == running
<1> DEFINE O == Other(running)
<1>1. /\ stage # "off" /\ otaState[R] = "PENDING_VERIFY" /\ health_check_passes
      /\ R \in Slots /\ O \in Slots /\ O # R
      /\ \A s \in Slots : s = R \/ s = O
      /\ otaState \in [Slots -> OtaStates]
  BY SlotFacts DEF UpdateInv, TypeOK, TaskInv, MarkValid, Pending
<1>2. Active(otaState) = R
  BY <1>1 DEF UpdateInv, RunInv
<1>3. /\ otaState' = [otaState EXCEPT ![R] = "VALID"]
      /\ proven' = proven \cup {R} /\ marking' = FALSE /\ stage' = "loop"
      /\ g_validation_confirmed' = TRUE
      /\ UNCHANGED <<slot, bootSlot, nvs, running, wifi, watchdog, http,
                     rebooting, env, stray, unsaved>>
  BY <1>1, <1>2 DEF MarkValid
<1>4. /\ otaState' \in [Slots -> OtaStates] /\ otaState'[R] = "VALID"
      /\ otaState'[O] = otaState[O]
  BY <1>1, <1>3 DEF OtaStates
<1>5. otaState[O] # "PENDING_VERIFY" /\ otaState[O] # "NEW"
  BY <1>1, <1>2, ActiveFacts DEF UpdateInv, TypeOK, RunInv, Rejected
<1>6. TypeOK'
  <2>1. proven' \subseteq Slots
    BY <1>1, <1>3 DEF UpdateInv, TypeOK
  <2>2. /\ slot' = slot /\ bootSlot' = bootSlot /\ nvs' = nvs
        /\ running' = running /\ stage' = "loop" /\ marking' = FALSE
        /\ link' = link /\ s_retry_num' = s_retry_num
        /\ g_wifi_connected' = g_wifi_connected /\ watchdog' = watchdog
        /\ http' = http /\ rebooting' = rebooting /\ ap' = ap
        /\ uploads' = uploads /\ cuts' = cuts /\ apChanges' = apChanges
        /\ faults' = faults /\ stray' = stray /\ unsaved' = unsaved
    BY <1>3 DEF wifi, env
  <2>3. g_validation_confirmed' \in BOOLEAN /\ marking' \in BOOLEAN
    BY <1>3
  <2>4. otaState' \in [Slots -> OtaStates]
    BY <1>4
  <2> HIDE DEF R, O
  <2> QED BY <2>1, <2>2, <2>3, <2>4 DEF UpdateInv, TypeOK
<1>7. (slot[running] # Erased)' /\ UploadInv' /\ TaskInv' /\ OffInv'
  BY <1>1, <1>3, <1>4 DEF UpdateInv, UploadInv, TaskInv, OffInv, Pending
<1>8. SavedInv'
  BY <1>3 DEF UpdateInv, SavedInv
<1>9. RunInv'
  <2>1. /\ ~Rejected(otaState'[R]) /\ otaState'[R] # "PENDING_VERIFY"
        /\ otaState'[R] # "NEW" /\ R \in proven'
    BY <1>3, <1>4 DEF Rejected
  <2>2. O \notin proven' \cup stray =>
          slot[O] = Erased \/ Rejected(otaState[O])
    BY <1>1, <1>3, <1>5 DEF UpdateInv, RunInv
  <2> QED BY <1>1, <1>3, <1>4, <1>5, <2>1, <2>2 DEF RunInv, Pending
<1> QED BY <1>6, <1>7, <1>8, <1>9 DEF UpdateInv

(* The slot that does not run is erased; no trial is on. *)
LEMMA BeginUploadKeeps ==
  ASSUME UpdateInv, NEW image \in Images, BeginUpload(image) PROVE UpdateInv'
<1> DEFINE R == running
<1> DEFINE O == Other(running)
<1>1. /\ stage # "off" /\ ~Pending
      /\ R \in Slots /\ O \in Slots /\ O # R
      /\ \A s \in Slots : s = R \/ s = O
      /\ slot \in [Slots -> Images \cup {Erased}]
  BY SlotFacts DEF UpdateInv, TypeOK, BeginUpload, Serving
<1>2. /\ http' = [step |-> "writing", target |-> O, image |-> image]
      /\ slot' = [slot EXCEPT ![O] = Erased]
      /\ proven' = proven \ {O} /\ stray' = stray \cup {O}
      /\ uploads < MaxUploads /\ uploads' = uploads + 1
      /\ UNCHANGED <<otaState, bootSlot, nvs, running, main, wifi, watchdog,
                     rebooting, ap, cuts, apChanges, faults, unsaved>>
  BY DEF BeginUpload, esp_ota_get_next_update_partition
<1>3. slot'[O] = Erased /\ slot'[R] = slot[R] /\ slot' \in [Slots -> Images \cup {Erased}]
  BY <1>1, <1>2
<1>4. TypeOK'
  <2>1. uploads' \in 0 .. MaxUploads
    BY <1>2, UpdateAssumption DEF UpdateInv, TypeOK
  <2>2. http' \in [step : {"idle", "writing", "ended", "sha", "saved"},
                   target : Slots, image : Images \cup {Erased}]
    BY <1>1, <1>2
  <2>3. proven' \subseteq Slots /\ stray' \subseteq Slots
    BY <1>1, <1>2 DEF UpdateInv, TypeOK
  <2>4. /\ otaState' = otaState /\ bootSlot' = bootSlot /\ nvs' = nvs
        /\ running' = running /\ stage' = stage /\ marking' = marking
        /\ g_validation_confirmed' = g_validation_confirmed /\ link' = link
        /\ s_retry_num' = s_retry_num /\ g_wifi_connected' = g_wifi_connected
        /\ watchdog' = watchdog /\ rebooting' = rebooting /\ ap' = ap
        /\ cuts' = cuts /\ apChanges' = apChanges /\ faults' = faults
        /\ unsaved' = unsaved
    BY <1>2 DEF main, wifi
  <2> QED BY <1>3, <2>1, <2>2, <2>3, <2>4 DEF UpdateInv, TypeOK
<1>5. (slot[running] # Erased)' /\ UploadInv' /\ OffInv'
  BY <1>1, <1>2, <1>3 DEF UpdateInv, UploadInv, OffInv, main, Pending
<1>6. TaskInv'
  BY <1>1, <1>2, <1>3 DEF UpdateInv, TaskInv, main, wifi, Pending,
                         health_check_passes
<1>7. SavedInv'
  BY <1>1, <1>2, <1>3 DEF UpdateInv, SavedInv
<1>8. RunInv'
  BY <1>1, <1>2, <1>3 DEF UpdateInv, RunInv, Pending, Active, main
<1> QED BY <1>4, <1>5, <1>6, <1>7, <1>8 DEF UpdateInv

(* The image is complete, its hash not yet saved. *)
LEMMA EndKeeps ==
  ASSUME UpdateInv, esp_ota_end PROVE UpdateInv'
<1> DEFINE R == running
<1> DEFINE O == Other(running)
<1>1. /\ stage # "off" /\ ~Pending /\ http.target = O /\ O \in stray
      /\ http.image \in Images /\ Erased \notin Images
      /\ R \in Slots /\ O \in Slots /\ O # R
      /\ \A s \in Slots : s = R \/ s = O
      /\ slot \in [Slots -> Images \cup {Erased}]
      /\ http \in [step : {"idle", "writing", "ended", "sha", "saved"},
                   target : Slots, image : Images \cup {Erased}]
  BY SlotFacts, UpdateAssumption DEF UpdateInv, TypeOK, UploadInv, esp_ota_end
<1>2. /\ slot' = [slot EXCEPT ![O] = http.image]
      /\ http' = [http EXCEPT !.step = "ended"] /\ unsaved' = TRUE
      /\ UNCHANGED <<running, main, wifi, watchdog, env, otaState, bootSlot, nvs,
                     rebooting, proven, stray>>
  BY <1>1 DEF esp_ota_end, HttpStep, OnlyHttp
<1>3. /\ slot'[O] = http.image /\ slot'[R] = slot[R]
      /\ slot' \in [Slots -> Images \cup {Erased}]
      /\ http'.step = "ended" /\ http'.target = O /\ http'.image = http.image
  BY <1>1, <1>2
<1>4. TypeOK'
  <2>1. http' \in [step : {"idle", "writing", "ended", "sha", "saved"},
                   target : Slots, image : Images \cup {Erased}]
    BY <1>1, <1>2
  <2> QED BY <1>2, <1>3, <2>1 DEF UpdateInv, TypeOK, main, wifi, env
<1>5. (slot[running] # Erased)' /\ UploadInv' /\ OffInv' /\ SavedInv'
  BY <1>1, <1>2, <1>3 DEF UpdateInv, UploadInv, OffInv, SavedInv, main, Pending
<1>6. TaskInv'
  BY <1>1, <1>2, <1>3 DEF UpdateInv, TaskInv, main, wifi, Pending,
                         health_check_passes
<1>7. RunInv'
  BY <1>1, <1>2, <1>3 DEF UpdateInv, RunInv, Pending, Active, main
<1> QED BY <1>4, <1>5, <1>6, <1>7 DEF UpdateInv

(* Its hash and then its label are saved. *)
LEMMA SaveKeeps ==
  ASSUME UpdateInv, SaveSha \/ SaveLabel PROVE UpdateInv'
<1>1. /\ UNCHANGED <<running, main, wifi, watchdog, env, slot, otaState,
                     bootSlot, rebooting, proven, stray>>
      /\ stage # "off" /\ http.step \in {"ended", "sha"}
      /\ http.target \in Slots /\ http.image \in Images
      /\ http \in [step : {"idle", "writing", "ended", "sha", "saved"},
                   target : Slots, image : Images \cup {Erased}]
  BY DEF SaveSha, SaveLabel, HttpStep, OnlyHttp, ghosts, UpdateInv, UploadInv,
         TypeOK
<1>2. /\ http'.target = http.target /\ http'.image = http.image
      /\ http'.step \in {"sha", "saved"}
      /\ http' \in [step : {"idle", "writing", "ended", "sha", "saved"},
                   target : Slots, image : Images \cup {Erased}]
  BY <1>1 DEF SaveSha, SaveLabel, HttpStep
<1>3. /\ nvs' \in [sha : Images \cup {Erased}, label : Slots \cup {"none"}]
      /\ unsaved' \in BOOLEAN
  BY <1>1 DEF SaveSha, SaveLabel, ghosts, UpdateInv, TypeOK
<1>4. TypeOK'
  BY <1>1, <1>2, <1>3 DEF UpdateInv, TypeOK, main, wifi, env
<1>5. UploadInv'
  <2>1. CASE SaveSha
    BY <1>1, <1>2, <2>1 DEF SaveSha, HttpStep, ghosts, UpdateInv, UploadInv,
       TypeOK, main, Pending
  <2>2. CASE SaveLabel
    BY <1>1, <1>2, <2>2 DEF SaveLabel, HttpStep, UpdateInv, UploadInv, TypeOK,
       main, Pending
  <2> QED BY <2>1, <2>2
<1>6. SavedInv'
  <2>1. CASE SaveSha
    BY <1>1, <2>1 DEF SaveSha, ghosts, UpdateInv, UploadInv, SavedInv
  <2>2. CASE SaveLabel
    <3>1. nvs'.label = http.target /\ nvs'.sha = http.image
      BY <2>2 DEF SaveLabel, UpdateInv, UploadInv, TypeOK
    <3>2. slot[http.target] = http.image
      BY <1>1 DEF UpdateInv, UploadInv
    <3> QED BY <1>1, <3>1, <3>2 DEF SavedInv
  <2> QED BY <2>1, <2>2
<1>7. (slot[running] # Erased)' /\ OffInv' /\ TaskInv' /\ RunInv'
  BY <1>1 DEF UpdateInv, OffInv, TaskInv, RunInv, main, wifi, Pending,
     health_check_passes, Active
<1> QED BY <1>4, <1>5, <1>6, <1>7 DEF UpdateInv

(* otadata is told of it: new, and the next to boot. *)
LEMMA SetBootKeeps ==
  ASSUME UpdateInv, esp_ota_set_boot_partition PROVE UpdateInv'
<1> DEFINE R == running
<1> DEFINE O == Other(running)
<1>1. /\ stage # "off" /\ ~Pending /\ http.target = O
      /\ R \in Slots /\ O \in Slots /\ O # R
      /\ \A s \in Slots : s = R \/ s = O
      /\ otaState \in [Slots -> OtaStates]
  BY SlotFacts DEF UpdateInv, TypeOK, UploadInv, esp_ota_set_boot_partition
<1>2. /\ bootSlot' = O /\ otaState' = [otaState EXCEPT ![O] = "NEW"]
      /\ stray' = stray \ {O} /\ http' = NoUpload /\ rebooting' \in {rebooting, TRUE}
      /\ UNCHANGED <<running, main, wifi, watchdog, env, slot, nvs, proven,
                     unsaved>>
  BY <1>1 DEF esp_ota_set_boot_partition, OnlyHttp
<1>3. /\ otaState'[O] = "NEW" /\ otaState'[R] = otaState[R]
      /\ otaState' \in [Slots -> OtaStates]
  BY <1>1, <1>2 DEF OtaStates
<1>4. TypeOK'
  <2>1. http' \in [step : {"idle", "writing", "ended", "sha", "saved"},
                   target : Slots, image : Images \cup {Erased}]
    BY <1>2 DEF NoUpload, Slots
  <2>2. rebooting' \in BOOLEAN
    BY <1>2 DEF UpdateInv, TypeOK
  <2>3. /\ UNCHANGED <<running, main, wifi, watchdog, env, slot, nvs, proven,
                       unsaved>>
        /\ bootSlot' \in Slots /\ stray' \subseteq Slots
    BY <1>1, <1>2 DEF UpdateInv, TypeOK
  <2> HIDE DEF R, O
  <2> QED BY <1>3, <2>1, <2>2, <2>3 DEF UpdateInv, TypeOK, main, wifi, env
<1>5. (slot[running] # Erased)' /\ UploadInv' /\ OffInv' /\ SavedInv'
  BY <1>1, <1>2 DEF UpdateInv, UploadInv, OffInv, SavedInv, main, NoUpload
<1>6. TaskInv'
  BY <1>1, <1>2, <1>3 DEF UpdateInv, TaskInv, main, wifi, Pending,
                         health_check_passes
<1>7. RunInv'
  BY <1>1, <1>2, <1>3 DEF UpdateInv, RunInv, Pending, main
<1> QED BY <1>4, <1>5, <1>6, <1>7 DEF UpdateInv
-----------------------------------------------------------------------------
(* The steps that end a boot. *)
LEMMA EndOfBootKeeps ==
  ASSUME UpdateInv, PowerCut \/ LoseConnection \/ RebootTask PROVE UpdateInv'
<1>1. Restart /\ UNCHANGED <<flash, ghosts>>
  BY DEF PowerCut, LoseConnection, RebootTask
<1>2. /\ (slot[running] # Erased)' /\ UploadInv' /\ SavedInv' /\ TaskInv'
      /\ RunInv' /\ OffInv'
  BY <1>1, RestartKeeps
<1>3. TypeOK'
  <2>1. cuts' \in 0 .. MaxCuts /\ UNCHANGED <<ap, uploads, apChanges, faults>>
    BY UpdateAssumption DEF PowerCut, LoseConnection, RebootTask, env, UpdateInv,
       TypeOK
  <2>2. NoUpload \in [step : {"idle", "writing", "ended", "sha", "saved"},
                      target : Slots, image : Images \cup {Erased}]
    BY DEF NoUpload, Slots
  <2>3. 0 \in 0 .. MAX_RETRY
    BY UpdateAssumption
  <2> QED BY <1>1, <2>1, <2>2, <2>3 DEF Restart, flash, ghosts, UpdateInv, TypeOK
<1> QED BY <1>2, <1>3 DEF UpdateInv

LEMMA RollbackStepKeeps ==
  ASSUME UpdateInv, WatchdogRollsBack \/ Rollback PROVE UpdateInv'
<1>1. stage # "off" /\ MarkInvalidAndReboot
  BY DEF WatchdogRollsBack, Rollback, Serving, UpdateInv, TaskInv
<1>2. TypeOK'
  <2>1. NoUpload \in [step : {"idle", "writing", "ended", "sha", "saved"},
                      target : Slots, image : Images \cup {Erased}]
    BY DEF NoUpload, Slots
  <2>2. 0 \in 0 .. MAX_RETRY
    BY UpdateAssumption
  <2>3. otaState' \in [Slots -> OtaStates]
    BY <1>1, RollbackKeeps
  <2> QED BY <1>1, <2>1, <2>2, <2>3 DEF MarkInvalidAndReboot, Restart, env,
             ghosts, UpdateInv, TypeOK
<1> QED BY <1>1, <1>2, RollbackKeeps DEF UpdateInv

(* The steps that leave flash alone and stay in the boot: of the Wi-Fi link, *)
LEMMA WifiKeeps ==
  ASSUME UpdateInv, JoinSucceeds \/ Disconnected \/ AccessPointChanges
  PROVE  UpdateInv'
<1>1. /\ UNCHANGED <<flash, running, main, watchdog, http, rebooting, uploads,
                     cuts, faults, ghosts>>
      /\ g_wifi_connected => g_wifi_connected'
  BY DEF JoinSucceeds, Disconnected, AccessPointChanges, env, ram, wifi
<1>2. (slot[running] # Erased)' /\ SavedInv' /\ RunInv' /\ OffInv'
  BY <1>1, FlashUntouched DEF main
<1>3. /\ link' \in {"joining", "up", "down"} /\ s_retry_num' \in 0 .. MAX_RETRY
      /\ g_wifi_connected' \in BOOLEAN /\ ap' \in BOOLEAN
      /\ apChanges' \in 0 .. MaxApChanges
  <2>1. CASE JoinSucceeds
    BY <2>1 DEF JoinSucceeds, env, UpdateInv, TypeOK
  <2>2. CASE Disconnected
    BY <2>2, UpdateAssumption DEF Disconnected, env, UpdateInv, TypeOK
  <2>3. CASE AccessPointChanges
    <3>1. apChanges' \in 0 .. MaxApChanges /\ ap' = ~ap /\ UNCHANGED wifi
      BY <2>3, UpdateAssumption DEF AccessPointChanges, ram, UpdateInv, TypeOK
    <3> QED BY <3>1 DEF wifi, UpdateInv, TypeOK
  <2> QED BY <2>1, <2>2, <2>3
<1>4. TypeOK'
  BY <1>1, <1>3 DEF flash, main, ghosts, UpdateInv, TypeOK
<1>5. UploadInv' /\ TaskInv'
  BY <1>1 DEF flash, main, ghosts, UpdateInv, UploadInv, TaskInv, Pending,
              health_check_passes
<1> QED BY <1>2, <1>4, <1>5 DEF UpdateInv

(* of the main task and the watchdog, *)
LEMMA MainKeeps ==
  ASSUME UpdateInv,
         \/ pipecat_init_wifi \/ pipecat_start_ota_validation_watchdog
         \/ Validated \/ ValidatedUnread \/ StartMarking \/ Unhealthy \/ MarkFails
         \/ WatchdogReads \/ WatchdogRefused \/ WatchdogFails
  PROVE  UpdateInv'
<1> DEFINE TasksKept ==
      /\ stage' \in {"off", "wifi", "server", "webrtc", "loop"}
      /\ stage' = "off" <=> stage = "off"
      /\ marking' \in BOOLEAN /\ g_validation_confirmed' \in BOOLEAN
      /\ watchdog' \in {"none", "armed", "rolling", "done", "failed"}
      /\ faults' \in 0 .. MaxFaults
      /\ stage' = "off" => watchdog' = "none"
      /\ marking' => Pending /\ health_check_passes /\ stage # "off"
<1>1. UNCHANGED <<flash, running, wifi, http, rebooting, ap, uploads, cuts,
                  apChanges, ghosts>>
  BY DEF pipecat_init_wifi, pipecat_start_ota_validation_watchdog, Validated,
     ValidatedUnread, StartMarking, Unhealthy, MarkFails, WatchdogReads,
     WatchdogRefused, WatchdogFails, env
<1>2. TasksKept
  <2> USE DEF UpdateInv, TypeOK, TaskInv, main, env
  <2>0. Fault => faults' \in 0 .. MaxFaults
    BY UpdateAssumption DEF Fault
  <2>1. CASE pipecat_init_wifi
    BY <2>1 DEF pipecat_init_wifi
  <2>2. CASE pipecat_start_ota_validation_watchdog
    BY <2>0, <2>2 DEF pipecat_start_ota_validation_watchdog, StateUnread
  <2>3. CASE Validated
    BY <2>3 DEF Validated, ota_state_is_valid_for_status
  <2>4. CASE StartMarking
    BY <2>4 DEF StartMarking
  <2>5. CASE Unhealthy
    BY <2>5 DEF Unhealthy
  <2>6. CASE MarkFails
    BY <2>6 DEF MarkFails
  <2>7. CASE WatchdogReads
    BY <2>0, <2>7 DEF WatchdogReads, StateUnread
  <2>8. CASE WatchdogRefused
    BY <2>8 DEF WatchdogRefused
  <2>9. CASE ValidatedUnread
    BY <2>0, <2>9 DEF ValidatedUnread, StateUnread, ota_state_is_valid_for_status
  <2>10. CASE WatchdogFails
    BY <2>0, <2>10 DEF WatchdogFails
  <2> QED BY <2>1, <2>2, <2>3, <2>4, <2>5, <2>6, <2>7, <2>8, <2>9, <2>10
<1>3. (slot[running] # Erased)' /\ SavedInv' /\ RunInv' /\ OffInv'
  BY <1>1, <1>2, FlashUntouched
<1>4. TypeOK'
  BY <1>1, <1>2 DEF flash, wifi, ghosts, UpdateInv, TypeOK
<1>5. UploadInv' /\ TaskInv'
  BY <1>1, <1>2 DEF flash, wifi, ghosts, UpdateInv, UploadInv, TaskInv, Pending,
                   health_check_passes
<1> QED BY <1>3, <1>4, <1>5 DEF UpdateInv

(* and of an upload in which something fails. *)
LEMMA FailureKeeps ==
  ASSUME UpdateInv, UploadFails \/ SaveFails PROVE UpdateInv'
<1>1. UNCHANGED <<flash, running, main, wifi, watchdog, env, rebooting, ghosts>>
  BY DEF UploadFails, SaveFails, OnlyHttp
<1>2. (slot[running] # Erased)' /\ SavedInv' /\ RunInv' /\ OffInv'
  BY <1>1, FlashUntouched DEF main
<1>3. /\ UploadInv'
      /\ http' \in [step : {"idle", "writing", "ended", "sha", "saved"},
                    target : Slots, image : Images \cup {Erased}]
  <2>1. CASE UploadFails
    BY <2>1 DEF UploadFails, UploadInv, NoUpload, Slots
  <2>2. CASE SaveFails
    <3>1. /\ http' = [http EXCEPT !.step = "saved"]
          /\ http \in [step : {"idle", "writing", "ended", "sha", "saved"},
                       target : Slots, image : Images \cup {Erased}]
          /\ http.step \in {"ended", "sha"}
      BY <2>2 DEF SaveFails, HttpStep, UpdateInv, TypeOK
    <3> QED BY <1>1, <3>1 DEF UpdateInv, UploadInv, flash, main, ghosts, Pending
  <2> QED BY <2>1, <2>2
<1>4. TypeOK'
  BY <1>1, <1>3 DEF flash, main, wifi, env, ghosts, UpdateInv, TypeOK
<1>5. TaskInv'
  BY <1>1 DEF flash, main, wifi, UpdateInv, TaskInv, Pending, health_check_passes
<1> QED BY <1>2, <1>3, <1>4, <1>5 DEF UpdateInv

LEMMA UpdateStep == UpdateInv /\ [Next]_vars => UpdateInv'
<1> SUFFICES ASSUME UpdateInv, [Next]_vars PROVE UpdateInv'
  OBVIOUS
<1>1. CASE Boot
  <2>1. TypeOK'
    BY <1>1, BootKeeps DEF Boot, env, ghosts, wifi, UpdateInv, TypeOK
  <2> QED BY <1>1, <2>1, BootKeeps DEF UpdateInv
<1>2. CASE PowerCut \/ LoseConnection \/ RebootTask
  BY <1>2, EndOfBootKeeps
<1>3. CASE WatchdogRollsBack \/ Rollback
  BY <1>3, RollbackStepKeeps
<1>4. CASE \/ JoinSucceeds \/ Disconnected \/ AccessPointChanges
           \/ UploadFails \/ SaveFails
  BY <1>4, WifiKeeps, FailureKeeps
<1>11. CASE \/ pipecat_init_wifi \/ pipecat_start_ota_validation_watchdog
            \/ Validated \/ ValidatedUnread \/ StartMarking \/ Unhealthy
            \/ MarkFails \/ WatchdogReads \/ WatchdogRefused \/ WatchdogFails
  BY <1>11, MainKeeps
<1>5. CASE MarkValid
  BY <1>5, MarkValidKeeps
<1>6. ASSUME NEW image \in Images, BeginUpload(image) PROVE UpdateInv'
  BY <1>6, BeginUploadKeeps
<1>7. CASE esp_ota_end
  BY <1>7, EndKeeps
<1>8. CASE SaveSha \/ SaveLabel
  BY <1>8, SaveKeeps
<1>9. CASE esp_ota_set_boot_partition
  BY <1>9, SetBootKeeps
<1>10. CASE UNCHANGED vars
  <2> USE DEF vars, flash, ram, main, wifi, env, ghosts
  <2>1. (slot[running] # Erased)' /\ SavedInv' /\ RunInv' /\ OffInv'
    BY <1>10, FlashUntouched
  <2>2. TypeOK'
    BY <1>10 DEF UpdateInv, TypeOK
  <2>3. UploadInv' /\ TaskInv'
    BY <1>10 DEF UpdateInv, UploadInv, TaskInv, Pending, health_check_passes
  <2> QED BY <2>1, <2>2, <2>3 DEF UpdateInv
<1> QED
  BY <1>1, <1>2, <1>3, <1>4, <1>5, <1>6, <1>7, <1>8, <1>9, <1>10, <1>11
     DEF Next
-----------------------------------------------------------------------------
(* The inductive invariant of boot, upload, trial and rollback. *)
THEOREM UpdateInvariance == Spec => []UpdateInv
<1> QED BY UpdateInit, UpdateStep, PTL DEF Spec

(* Every variable has its type; the retries of a boot stay within MAX_RETRY. *)
THEOREM UpdateTypeOK == Spec => []TypeOK
<1>1. UpdateInv => TypeOK
  BY DEF UpdateInv
<1> QED BY <1>1, UpdateInvariance, PTL

(* However many uploads and power cuts there are, the bootloader finds an      *)
(* image: the running one is never erased, and so one of the two is left.      *)
THEOREM NeverBrickedHolds == Spec => []NeverBricked
<1>1. UpdateInv => NeverBricked
  <2> SUFFICES ASSUME UpdateInv PROVE slot[BootChoice] # Erased
    BY DEF NeverBricked
  <2>1. Active(Decayed) \in Slots
    BY ActiveFacts, DecayedFacts DEF UpdateInv, TypeOK
  <2>2. running \in Slots /\ slot[running] # Erased
    BY DEF UpdateInv, TypeOK
  <2> QED BY <2>1, <2>2, SlotFacts DEF BootChoice
<1> QED BY <1>1, UpdateInvariance, PTL

(* An image that runs without a trial was proven in its slot, or that slot was *)
(* rewritten without a word to otadata.                                       *)
THEOREM UnprovenOnTrialHolds == Spec => []UnprovenOnTrial
<1>1. UpdateInv => UnprovenOnTrial
  BY DEF UpdateInv, RunInv, UnprovenOnTrial
<1> QED BY <1>1, UpdateInvariance, PTL

(* Behind every trial there is an image to roll back to. *)
THEOREM FallbackKeptHolds == Spec => []FallbackKept
<1>1. UpdateInv => FallbackKept
  BY DEF UpdateInv, RunInv, FallbackKept
<1> QED BY <1>1, UpdateInvariance, PTL

(* The main task marks the image it checked. *)
THEOREM MarksWhatRunsHolds == Spec => []MarksWhatRuns
<1>1. UpdateInv => MarksWhatRuns
  BY DEF UpdateInv, TypeOK, TaskInv, RunInv, MarksWhatRuns, Pending
<1> QED BY <1>1, UpdateInvariance, PTL

(* The status names the running image whenever the last hash was saved. *)
THEOREM ShaNamesRunningHolds == Spec => []ShaNamesRunning
<1>1. UpdateInv => ShaNamesRunning
  BY DEF UpdateInv, TypeOK, SavedInv, ShaNamesRunning, ReportedSha
<1> QED BY <1>1, UpdateInvariance, PTL
=============================================================================
