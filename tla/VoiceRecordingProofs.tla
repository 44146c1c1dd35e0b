------------------------ MODULE VoiceRecordingProofs ------------------------
(***************************************************************************)
(* Proofs about the voice recorder, for any limit and any number of        *)
(* recordings and session changes.  MicrophoneOwned needs that a new       *)
(* recording starts only when no operation is active, which the code reads *)
(* off the status: StatusTruthful supplies it.  WithinLimits needs that a  *)
(* settled recording is never the active one again: generations are fresh. *)
(***************************************************************************)
EXTENDS VoiceRecording, TLAPS

(* The active operation was started, and has not settled; neither has one   *)
(* that is still to come.                                                   *)
Fresh ==
  /\ op \in 0..starts
  /\ \A g \in Recordings : (g = op \/ g > starts) => settled[g] = "pending"

RecorderInv == VoiceTypeOK /\ MicrophoneOwned /\ WithinLimits /\ StatusTruthful /\ Fresh

USE VoiceAssumption DEF Recordings, Busy

LEMMA InitInv == VoiceInit => RecorderInv
<1> SUFFICES ASSUME VoiceInit PROVE RecorderInv
  OBVIOUS
<1>1. VoiceTypeOK
  <2>1. disposed \in BOOLEAN
    BY DEF VoiceInit
  <2>2. /\ bytes \in [Recordings -> Nat]
        /\ limit \in [Recordings -> {Limit - 1, Limit}]
        /\ reason \in [Recordings -> {"none", "user", "duration", "size", "cancelled"}]
    BY DEF VoiceInit
  <2>3. QED
    BY <2>1, <2>2 DEF VoiceInit, VoiceTypeOK
<1>2. MicrophoneOwned /\ WithinLimits /\ Fresh
  BY DEF VoiceInit, MicrophoneOwned, WithinLimits, Fresh
<1>3. StatusTruthful
  BY DEF VoiceInit, StatusTruthful, InProgress
<1>4. QED
  BY <1>1, <1>2, <1>3 DEF RecorderInv

(* The part of VoiceTypeOK that stopping or failing a recording disturbs.        *)
StopTyped ==
  /\ status \in {"idle", "unavailable"} \union Busy
  /\ op \in {0} \union Recordings /\ disposed \in BOOLEAN
  /\ settled \in [Recordings -> {"pending", "recorded", "failed"}]
  /\ mic \in [Recordings -> {"none", "asked", "open", "closed"}]
  /\ recorder \in [Recordings -> {"none", "recording", "ending", "ended"}]
  /\ transcribing \subseteq Recordings

LEMMA SettleType ==
  ASSUME VoiceTypeOK, NEW g \in Recordings, NEW how \in {"recorded", "failed"}, Settle(g, how)
  PROVE  /\ op' = 0 /\ disposed' \in BOOLEAN
         /\ settled' \in [Recordings -> {"pending", "recorded", "failed"}]
         /\ mic' \in [Recordings -> {"none", "asked", "open", "closed"}]
  BY DEF VoiceTypeOK, Settle, CloseMic

LEMMA StopType ==
  ASSUME VoiceTypeOK, NEW g \in Recordings, StopRecorder(g)
  PROVE  StopTyped'
<1>1. CASE Fail(g) /\ UNCHANGED recorder
  BY <1>1, SettleType DEF Fail, VoiceTypeOK, StopTyped
<1>2. CASE ~(Fail(g) /\ UNCHANGED recorder)
  <2>1. recorder' \in [Recordings -> {"none", "recording", "ending", "ended"}]
    BY <1>2 DEF StopRecorder, VoiceTypeOK
  <2>2. status' \in {"idle", "unavailable"} \union Busy
    BY <1>2 DEF StopRecorder, Stopping, VoiceTypeOK
  <2>3. op' \in {0} \union Recordings /\ transcribing' \subseteq Recordings
    BY <1>2 DEF StopRecorder, VoiceTypeOK
  <2>4. /\ settled' \in [Recordings -> {"pending", "recorded", "failed"}]
        /\ mic' \in [Recordings -> {"none", "asked", "open", "closed"}]
    BY <1>2 DEF StopRecorder, VoiceTypeOK
  <2>5. disposed' \in BOOLEAN
    BY <1>2 DEF StopRecorder, VoiceTypeOK
  <2>6. QED
    BY <2>1, <2>2, <2>3, <2>4, <2>5, Zenon DEF StopTyped
<1>3. QED
  BY <1>1, <1>2

LEMMA StopOrFailType ==
  ASSUME VoiceTypeOK, NEW g \in Recordings, StopOrFail(g)
  PROVE  StopTyped'
<1>1. CASE recorder[g] = "none"
  BY <1>1, SettleType DEF StopOrFail, Fail, VoiceTypeOK, StopTyped
<1>2. CASE recorder[g] # "none"
  BY <1>2, StopType DEF StopOrFail
<1>3. QED
  BY <1>1, <1>2

LEMMA NextInv == RecorderInv /\ [VoiceNext]_voiceVars => RecorderInv'
<1> SUFFICES ASSUME RecorderInv, [VoiceNext]_voiceVars PROVE RecorderInv'
  OBVIOUS
<1> USE DEF RecorderInv
<1>1. CASE Start
  <2>1. VoiceTypeOK'
    BY <1>1 DEF VoiceTypeOK, Start, MayStart
  <2>2. MicrophoneOwned'
    BY <1>1 DEF VoiceTypeOK, MicrophoneOwned, StatusTruthful, Fresh, Start, MayStart
  <2>3. WithinLimits'
    BY <1>1 DEF VoiceTypeOK, WithinLimits, Fresh, Start, MayStart
  <2>4. StatusTruthful'
    BY <1>1 DEF VoiceTypeOK, StatusTruthful, InProgress, Start, MayStart
  <2>5. Fresh'
    BY <1>1 DEF VoiceTypeOK, Fresh, Start, MayStart
  <2>6. QED
    BY <2>1, <2>2, <2>3, <2>4, <2>5
<1>2. CASE StartUnavailable
  <2>1. VoiceTypeOK'
    BY <1>2 DEF VoiceTypeOK, StartUnavailable, MayStart, browserVars
  <2>2. MicrophoneOwned'
    BY <1>2 DEF VoiceTypeOK, MicrophoneOwned, StatusTruthful, Fresh, StartUnavailable, MayStart, browserVars
  <2>3. WithinLimits'
    BY <1>2 DEF VoiceTypeOK, WithinLimits, Fresh, StartUnavailable, MayStart, browserVars
  <2>4. StatusTruthful'
    BY <1>2 DEF VoiceTypeOK, StatusTruthful, InProgress, StartUnavailable, MayStart, browserVars
  <2>5. Fresh'
    BY <1>2 DEF VoiceTypeOK, Fresh, StartUnavailable, MayStart, browserVars
  <2>6. QED
    BY <2>1, <2>2, <2>3, <2>4, <2>5
<1>3. CASE ClickStop
  <2>1. VoiceTypeOK'
    <3>1. op \in Recordings
      BY <1>3 DEF StatusTruthful, VoiceTypeOK, ClickStop
    <3>2. StopTyped'
      BY <1>3, <3>1, StopOrFailType DEF ClickStop
    <3>3. QED
      BY <1>3, <3>1, <3>2 DEF ClickStop, VoiceTypeOK, StopTyped
  <2>2. MicrophoneOwned'
    BY <1>3 DEF VoiceTypeOK, MicrophoneOwned, StatusTruthful, Fresh, ClickStop, StopOrFail, StopRecorder, Fail, Settle, CloseMic, Stopping
  <2>3. WithinLimits'
    BY <1>3 DEF VoiceTypeOK, WithinLimits, Fresh, ClickStop, StopOrFail, StopRecorder, Fail, Settle, CloseMic, Stopping
  <2>4. StatusTruthful'
    BY <1>3 DEF VoiceTypeOK, StatusTruthful, InProgress, ClickStop, StopOrFail, StopRecorder, Fail, Settle, CloseMic, Stopping
  <2>5. Fresh'
    BY <1>3 DEF VoiceTypeOK, Fresh, ClickStop, StopOrFail, StopRecorder, Fail, Settle, CloseMic, Stopping
  <2>6. QED
    BY <2>1, <2>2, <2>3, <2>4, <2>5
<1>4. CASE SwitchSession
  <2>1. VoiceTypeOK'
    <3>1. /\ switches' \in 0..MaxSwitches
          /\ bytes' = bytes /\ limit' = limit /\ waited' = waited
          /\ delivered' = delivered /\ starts' = starts
      BY <1>4 DEF SwitchSession, VoiceTypeOK
    <3>2. voided' \subseteq Recordings
      BY <1>4 DEF SwitchSession, InProgress, VoiceTypeOK
    <3>3. reason' \in [Recordings -> {"none", "user", "duration", "size", "cancelled"}]
      BY <1>4 DEF SwitchSession, Cancel, VoiceTypeOK
    <3>4. StopTyped'
      <4>1. CASE transcribing = {} /\ op # 0
        BY <1>4, <4>1, StopOrFailType DEF SwitchSession, Cancel, VoiceTypeOK
      <4>2. CASE ~(transcribing = {} /\ op # 0)
        BY <1>4, <4>2 DEF SwitchSession, Cancel, Abort, VoiceTypeOK, StopTyped
      <4>3. QED
        BY <4>1, <4>2
    <3>5. QED
      BY <3>1, <3>2, <3>3, <3>4 DEF VoiceTypeOK, StopTyped
  <2>2. MicrophoneOwned'
    BY <1>4 DEF VoiceTypeOK, MicrophoneOwned, StatusTruthful, Fresh, SwitchSession, Cancel, Abort, StopOrFail, StopRecorder, Fail, Settle, CloseMic, Stopping
  <2>3. WithinLimits'
    BY <1>4 DEF VoiceTypeOK, WithinLimits, Fresh, SwitchSession, Cancel, Abort, StopOrFail, StopRecorder, Fail, Settle, CloseMic, Stopping
  <2>4. StatusTruthful'
    BY <1>4 DEF VoiceTypeOK, StatusTruthful, InProgress, SwitchSession, Cancel, Abort, StopOrFail, StopRecorder, Fail, Settle, CloseMic, Stopping
  <2>5. Fresh'
    BY <1>4 DEF VoiceTypeOK, Fresh, SwitchSession, Cancel, Abort, StopOrFail, StopRecorder, Fail, Settle, CloseMic, Stopping
  <2>6. QED
    BY <2>1, <2>2, <2>3, <2>4, <2>5
<1>5. CASE Destroy
  <2>1. VoiceTypeOK'
    <3>1. /\ voided' \subseteq Recordings /\ disposed' = TRUE /\ transcribing' = {}
          /\ status' = "idle" /\ bytes' = bytes /\ limit' = limit /\ waited' = waited
          /\ delivered' = delivered /\ starts' = starts /\ switches' = switches
      BY <1>5 DEF Destroy, Abort, InProgress, VoiceTypeOK
    <3>2. /\ op' \in {0} \union Recordings
          /\ reason' \in [Recordings -> {"none", "user", "duration", "size", "cancelled"}]
      BY <1>5 DEF Destroy, VoiceTypeOK
    <3>3. settled' \in [Recordings -> {"pending", "recorded", "failed"}]
      BY <1>5 DEF Destroy, VoiceTypeOK
    <3>4. mic' \in [Recordings -> {"none", "asked", "open", "closed"}]
      BY <1>5 DEF Destroy, CloseMic, VoiceTypeOK
    <3>5. recorder' \in [Recordings -> {"none", "recording", "ending", "ended"}]
      BY <1>5 DEF Destroy, VoiceTypeOK
    <3>6. QED
      BY <3>1, <3>2, <3>3, <3>4, <3>5 DEF VoiceTypeOK
  <2>2. MicrophoneOwned'
    <3>1. CASE op = 0
      BY <1>5, <3>1 DEF MicrophoneOwned, Destroy
    <3>2. CASE op # 0
      BY <1>5, <3>2 DEF VoiceTypeOK, MicrophoneOwned, Destroy, CloseMic
    <3>3. QED
      BY <3>1, <3>2
  <2>3. WithinLimits'
    BY <1>5 DEF VoiceTypeOK, WithinLimits, Fresh, Destroy, Abort, CloseMic
  <2>4. StatusTruthful'
    BY <1>5 DEF VoiceTypeOK, StatusTruthful, InProgress, Destroy, Abort, CloseMic
  <2>5. Fresh'
    BY <1>5 DEF VoiceTypeOK, Fresh, Destroy, Abort, CloseMic
  <2>6. QED
    BY <2>1, <2>2, <2>3, <2>4, <2>5
<1>6. ASSUME NEW g \in Recordings, Granted(g) PROVE RecorderInv'
  <2>1. VoiceTypeOK'
    BY <1>6 DEF VoiceTypeOK, Granted, controllerVars
  <2>2. MicrophoneOwned'
    BY <1>6 DEF VoiceTypeOK, MicrophoneOwned, StatusTruthful, Fresh, Granted, controllerVars
  <2>3. WithinLimits'
    BY <1>6 DEF VoiceTypeOK, WithinLimits, Fresh, Granted, controllerVars
  <2>4. StatusTruthful'
    BY <1>6 DEF VoiceTypeOK, StatusTruthful, InProgress, Granted, controllerVars
  <2>5. Fresh'
    BY <1>6 DEF VoiceTypeOK, Fresh, Granted, controllerVars
  <2>6. QED
    BY <2>1, <2>2, <2>3, <2>4, <2>5
<1>7. ASSUME NEW g \in Recordings, StartFails(g) PROVE RecorderInv'
  <2>1. VoiceTypeOK'
    BY <1>7 DEF VoiceTypeOK, StartFails
  <2>2. MicrophoneOwned'
    BY <1>7 DEF VoiceTypeOK, MicrophoneOwned, StatusTruthful, Fresh, StartFails
  <2>3. WithinLimits'
    BY <1>7 DEF VoiceTypeOK, WithinLimits, Fresh, StartFails
  <2>4. StatusTruthful'
    BY <1>7 DEF VoiceTypeOK, StatusTruthful, InProgress, StartFails
  <2>5. Fresh'
    BY <1>7 DEF VoiceTypeOK, Fresh, StartFails
  <2>6. QED
    BY <2>1, <2>2, <2>3, <2>4, <2>5
<1>8. ASSUME NEW g \in Recordings, DurationLimit(g) PROVE RecorderInv'
  <2>1. VoiceTypeOK'
    <3>1. StopTyped'
      BY <1>8, StopType DEF DurationLimit, RequestStop
    <3>2. QED
      BY <1>8, <3>1 DEF DurationLimit, RequestStop, VoiceTypeOK, StopTyped
  <2>2. MicrophoneOwned'
    BY <1>8 DEF VoiceTypeOK, MicrophoneOwned, StatusTruthful, Fresh, DurationLimit, RequestStop, StopRecorder, Fail, Settle, CloseMic, Stopping
  <2>3. WithinLimits'
    BY <1>8 DEF VoiceTypeOK, WithinLimits, Fresh, DurationLimit, RequestStop, StopRecorder, Fail, Settle, CloseMic, Stopping
  <2>4. StatusTruthful'
    BY <1>8 DEF VoiceTypeOK, StatusTruthful, InProgress, DurationLimit, RequestStop, StopRecorder, Fail, Settle, CloseMic, Stopping
  <2>5. Fresh'
    BY <1>8 DEF VoiceTypeOK, Fresh, DurationLimit, RequestStop, StopRecorder, Fail, Settle, CloseMic, Stopping
  <2>6. QED
    BY <2>1, <2>2, <2>3, <2>4, <2>5
<1>9. ASSUME NEW g \in Recordings, NEW narrower \in BOOLEAN, Data(g, narrower) PROVE RecorderInv'
  <2>1. VoiceTypeOK'
    <3>1. /\ bytes' \in [Recordings -> Nat]
          /\ limit' \in [Recordings -> {Limit - 1, Limit}]
      BY <1>9 DEF Data, LimitAfter, VoiceTypeOK
    <3>2. reason' \in [Recordings -> {"none", "user", "duration", "size", "cancelled"}]
      BY <1>9 DEF Data, RequestStop, VoiceTypeOK
    <3>3. StopTyped'
      <4>1. CASE StopRecorder(g)
        BY <4>1, StopType
      <4>2. CASE UNCHANGED <<status, op, disposed, settled, mic, recorder, transcribing>>
        BY <4>2 DEF VoiceTypeOK, StopTyped
      <4>3. QED
        BY <1>9, <4>1, <4>2 DEF Data, RequestStop
    <3>4. /\ waited' = waited /\ delivered' = delivered /\ voided' = voided
          /\ starts' = starts /\ switches' = switches
      BY <1>9 DEF Data
    <3>5. QED
      BY <3>1, <3>2, <3>3, <3>4 DEF VoiceTypeOK, StopTyped
  <2>2. MicrophoneOwned'
    BY <1>9 DEF VoiceTypeOK, MicrophoneOwned, StatusTruthful, Fresh, Data, LimitAfter, RequestStop, StopRecorder, Fail, Settle, CloseMic, Stopping
  <2>3. WithinLimits'
    BY <1>9 DEF VoiceTypeOK, WithinLimits, Fresh, Data, LimitAfter, RequestStop, StopRecorder, Fail, Settle, CloseMic, Stopping
  <2>4. StatusTruthful'
    BY <1>9 DEF VoiceTypeOK, StatusTruthful, InProgress, Data, LimitAfter, RequestStop, StopRecorder, Fail, Settle, CloseMic, Stopping
  <2>5. Fresh'
    BY <1>9 DEF VoiceTypeOK, Fresh, Data, LimitAfter, RequestStop, StopRecorder, Fail, Settle, CloseMic, Stopping
  <2>6. QED
    BY <2>1, <2>2, <2>3, <2>4, <2>5
<1>10. ASSUME NEW g \in Recordings, RecorderEnds(g) PROVE RecorderInv'
  <2>1. VoiceTypeOK'
    BY <1>10 DEF VoiceTypeOK, RecorderEnds, controllerVars, viewVars
  <2>2. MicrophoneOwned'
    BY <1>10 DEF VoiceTypeOK, MicrophoneOwned, StatusTruthful, Fresh, RecorderEnds, controllerVars, viewVars
  <2>3. WithinLimits'
    BY <1>10 DEF VoiceTypeOK, WithinLimits, Fresh, RecorderEnds, controllerVars, viewVars
  <2>4. StatusTruthful'
    BY <1>10 DEF VoiceTypeOK, StatusTruthful, InProgress, RecorderEnds, controllerVars, viewVars
  <2>5. Fresh'
    BY <1>10 DEF VoiceTypeOK, Fresh, RecorderEnds, controllerVars, viewVars
  <2>6. QED
    BY <2>1, <2>2, <2>3, <2>4, <2>5
<1>11. ASSUME NEW g \in Recordings, RecorderFails(g) PROVE RecorderInv'
  <2>1. VoiceTypeOK'
    BY <1>11 DEF VoiceTypeOK, RecorderFails, Fail, Settle, CloseMic
  <2>2. MicrophoneOwned'
    BY <1>11 DEF VoiceTypeOK, MicrophoneOwned, StatusTruthful, Fresh, RecorderFails, Fail, Settle, CloseMic
  <2>3. WithinLimits'
    BY <1>11 DEF VoiceTypeOK, WithinLimits, Fresh, RecorderFails, Fail, Settle, CloseMic
  <2>4. StatusTruthful'
    BY <1>11 DEF VoiceTypeOK, StatusTruthful, InProgress, RecorderFails, Fail, Settle, CloseMic
  <2>5. Fresh'
    BY <1>11 DEF VoiceTypeOK, Fresh, RecorderFails, Fail, Settle, CloseMic
  <2>6. QED
    BY <2>1, <2>2, <2>3, <2>4, <2>5
<1>12. ASSUME NEW g \in Recordings, RecorderStopped(g) PROVE RecorderInv'
  <2>1. VoiceTypeOK'
    <3>1. recorder' \in [Recordings -> {"none", "recording", "ending", "ended"}]
      BY <1>12 DEF RecorderStopped, VoiceTypeOK
    <3>2. CASE op # g
      BY <1>12, <3>1, <3>2 DEF RecorderStopped, VoiceTypeOK
    <3>3. CASE op = g /\ Fail(g)
      <4>1. /\ settled' \in [Recordings -> {"pending", "recorded", "failed"}]
            /\ mic' \in [Recordings -> {"none", "asked", "open", "closed"}]
            /\ op' = 0 /\ status' = "idle" /\ disposed' \in BOOLEAN
            /\ transcribing' = transcribing
        BY <3>3, SettleType DEF Fail
      <4>2. QED
        BY <1>12, <3>1, <4>1 DEF RecorderStopped, VoiceTypeOK
    <3>4. CASE op = g /\ Complete(g)
      <4>1. /\ settled' \in [Recordings -> {"pending", "recorded", "failed"}]
            /\ mic' \in [Recordings -> {"none", "asked", "open", "closed"}]
            /\ op' = 0 /\ disposed' \in BOOLEAN
        BY <3>4, SettleType DEF Complete
      <4>2. status' \in {"idle", "transcribing"} /\ transcribing' \subseteq Recordings
        BY <3>4 DEF Complete, VoiceTypeOK
      <4>3. QED
        BY <1>12, <3>1, <4>1, <4>2 DEF RecorderStopped, VoiceTypeOK
    <3>5. QED
      BY <1>12, <3>2, <3>3, <3>4 DEF RecorderStopped
  <2>2. MicrophoneOwned'
    BY <1>12 DEF VoiceTypeOK, MicrophoneOwned, StatusTruthful, Fresh, RecorderStopped, Admissible, Complete, Fail, Settle, CloseMic
  <2>3. WithinLimits'
    BY <1>12 DEF VoiceTypeOK, WithinLimits, Fresh, RecorderStopped, Admissible, Complete, Fail, Settle, CloseMic
  <2>4. StatusTruthful'
    <3>1. CASE op # g
      BY <1>12, <3>1 DEF VoiceTypeOK, StatusTruthful, InProgress, RecorderStopped
    <3>2. CASE op = g /\ Fail(g)
      BY <1>12, <3>2 DEF VoiceTypeOK, StatusTruthful, InProgress, RecorderStopped, Fail, Settle
    <3>3. CASE op = g /\ Complete(g)
      <4>1. op' = 0 /\ disposed' = disposed
        BY <3>3 DEF Complete, Settle
      <4>2. \/ status' = "idle" /\ transcribing' = transcribing
            \/ status' = "transcribing" /\ transcribing' = {g}
        BY <3>3 DEF Complete
      <4>3. ~disposed => transcribing = {}
        BY <3>3 DEF StatusTruthful, VoiceTypeOK
      <4>4. QED
        <5>1. CASE status' = "idle" /\ transcribing' = transcribing
          BY <4>1, <4>3, <5>1 DEF StatusTruthful, InProgress
        <5>2. CASE status' = "transcribing" /\ transcribing' = {g}
          BY <4>1, <5>2 DEF StatusTruthful, InProgress, VoiceTypeOK
        <5>3. QED
          BY <4>2, <5>1, <5>2
    <3>4. QED
      BY <1>12, <3>1, <3>2, <3>3 DEF RecorderStopped
  <2>5. Fresh'
    BY <1>12 DEF VoiceTypeOK, Fresh, RecorderStopped, Admissible, Complete, Fail, Settle, CloseMic
  <2>6. QED
    BY <2>1, <2>2, <2>3, <2>4, <2>5
<1>13. ASSUME NEW g \in Recordings, NEW understood \in BOOLEAN, Transcribed(g, understood)
       PROVE RecorderInv'
  <2>1. VoiceTypeOK'
    BY <1>13 DEF VoiceTypeOK, Transcribed, browserVars
  <2>2. MicrophoneOwned'
    BY <1>13 DEF VoiceTypeOK, MicrophoneOwned, StatusTruthful, Fresh, Transcribed, browserVars
  <2>3. WithinLimits'
    BY <1>13 DEF VoiceTypeOK, WithinLimits, Fresh, Transcribed, browserVars
  <2>4. StatusTruthful'
    BY <1>13 DEF VoiceTypeOK, StatusTruthful, InProgress, Transcribed, browserVars
  <2>5. Fresh'
    BY <1>13 DEF VoiceTypeOK, Fresh, Transcribed, browserVars
  <2>6. QED
    BY <2>1, <2>2, <2>3, <2>4, <2>5
<1>14. CASE UNCHANGED voiceVars
  <2>1. VoiceTypeOK'
    BY <1>14 DEF VoiceTypeOK, voiceVars, controllerVars, browserVars, viewVars
  <2>2. MicrophoneOwned'
    BY <1>14 DEF VoiceTypeOK, MicrophoneOwned, StatusTruthful, Fresh, voiceVars, controllerVars, browserVars, viewVars
  <2>3. WithinLimits'
    BY <1>14 DEF VoiceTypeOK, WithinLimits, Fresh, voiceVars, controllerVars, browserVars, viewVars
  <2>4. StatusTruthful'
    BY <1>14 DEF VoiceTypeOK, StatusTruthful, InProgress, voiceVars, controllerVars, browserVars, viewVars
  <2>5. Fresh'
    BY <1>14 DEF VoiceTypeOK, Fresh, voiceVars, controllerVars, browserVars, viewVars
  <2>6. QED
    BY <2>1, <2>2, <2>3, <2>4, <2>5
<1>15. QED
  BY <1>1, <1>2, <1>3, <1>4, <1>5, <1>6, <1>7, <1>8, <1>9, <1>10, <1>11, <1>12, <1>13, <1>14 DEF VoiceNext

(* An open microphone always belongs to the active recording, results are   *)
(* within their limits and the status is truthful, whatever the order in    *)
(* which prompts, recorder events and clicks arrive.                        *)
THEOREM Recorder == VoiceSpec => [](VoiceTypeOK /\ MicrophoneOwned /\ WithinLimits /\ StatusTruthful)
<1>1. RecorderInv => VoiceTypeOK /\ MicrophoneOwned /\ WithinLimits /\ StatusTruthful
  BY DEF RecorderInv
<1> QED
  BY InitInv, NextInv, <1>1, PTL DEF VoiceSpec

(* A recording that is delivered is within its limit and was not stopped by *)
(* one, also when the chunk that exceeds the size arrives after the user    *)
(* pressed stop (voice-input.ts:586, 613-632).                              *)
THEOREM LimitsKept == VoiceSpec => []WithinLimits
  BY Recorder, PTL

(* What was left behind is not being transcribed, and can end only as       *)
(* cancelled: no later reason replaces that one.                            *)
VoidedInv ==
  /\ \A g \in transcribing : g =< starts
  /\ \A g \in voided : /\ g =< starts /\ g \notin transcribing
                       /\ op = g => reason[g] = "cancelled"

LEMMA StopEffect ==
  \A g \in Recordings : StopRecorder(g) => op' \in {0, op} /\ transcribing' = transcribing
  BY DEF StopRecorder, Fail, Settle

LEMMA NextVoided == RecorderInv /\ VoidedInv /\ [VoiceNext]_voiceVars => VoidedInv'
<1> SUFFICES ASSUME RecorderInv, VoidedInv, [VoiceNext]_voiceVars PROVE VoidedInv'
  OBVIOUS
<1> USE DEF RecorderInv, VoiceTypeOK, StatusTruthful, Fresh, VoidedInv
<1>1. CASE Start
  BY <1>1 DEF Start, MayStart
<1>2. CASE StartUnavailable
  BY <1>2 DEF StartUnavailable, MayStart, browserVars
<1>3. CASE ClickStop
  <2>1. /\ voided' = voided /\ starts' = starts
        /\ reason' = [reason EXCEPT ![op] = IF @ = "none" THEN "user" ELSE @]
    BY <1>3 DEF ClickStop
  <2>2. op' \in {0, op} /\ transcribing' = transcribing
    BY <1>3 DEF ClickStop, StopOrFail, StopRecorder, Fail, Settle
  <2>3. QED
    BY <2>1, <2>2
<1>4. CASE SwitchSession
  <2>1. /\ voided' = voided \union InProgress /\ starts' = starts
        /\ transcribing' = {}
    BY <1>4 DEF SwitchSession, Cancel, Abort, StopOrFail, StopRecorder, Fail, Settle
  <2>2. \/ op' = 0
        \/ op' = op /\ transcribing # {} /\ UNCHANGED reason
        \/ op' = op /\ reason' = [reason EXCEPT ![op] = "cancelled"]
    BY <1>4 DEF SwitchSession, Cancel, StopOrFail, StopRecorder, Fail, Settle
  <2>3. \A g \in InProgress : g =< starts
    BY DEF InProgress
  <2>4. QED
    BY <1>4, <2>1, <2>2, <2>3 DEF SwitchSession, InProgress
<1>5. CASE Destroy
  BY <1>5 DEF Destroy, Abort, InProgress
<1>6. ASSUME NEW g \in Recordings, Granted(g) PROVE VoidedInv'
  BY <1>6 DEF Granted, controllerVars
<1>7. ASSUME NEW g \in Recordings, StartFails(g) PROVE VoidedInv'
  BY <1>7 DEF StartFails
<1>8. ASSUME NEW g \in Recordings, DurationLimit(g) PROVE VoidedInv'
  <2>1. /\ op' \in {0, op} /\ UNCHANGED <<transcribing, voided, starts>>
    BY <1>8, StopEffect DEF DurationLimit, RequestStop
  <2>2. \A h \in voided : reason'[h] = reason[h]
    BY <1>8 DEF DurationLimit, RequestStop
  <2>3. QED
    BY <2>1, <2>2
<1>9. ASSUME NEW g \in Recordings, NEW narrower \in BOOLEAN, Data(g, narrower) PROVE VoidedInv'
  <2>1. /\ op' \in {0, op} /\ UNCHANGED <<transcribing, voided, starts>>
    BY <1>9, StopEffect DEF Data, RequestStop
  <2>2. \A h \in voided : reason'[h] = reason[h]
    BY <1>9 DEF Data, RequestStop
  <2>3. QED
    BY <2>1, <2>2
<1>10. ASSUME NEW g \in Recordings, RecorderEnds(g) PROVE VoidedInv'
  BY <1>10 DEF RecorderEnds, controllerVars, viewVars
<1>11. ASSUME NEW g \in Recordings, RecorderFails(g) PROVE VoidedInv'
  BY <1>11 DEF RecorderFails, Fail, Settle
<1>12. ASSUME NEW g \in Recordings, RecorderStopped(g) PROVE VoidedInv'
  <2>1. CASE op # g \/ Fail(g)
    <3>1. op' \in {0, op} /\ UNCHANGED <<transcribing, reason, voided, starts>>
      BY <1>12, <2>1 DEF RecorderStopped, Fail, Settle
    <3>2. QED
      BY <3>1
  <2>2. CASE op = g /\ Admissible(g) /\ Complete(g)
    <3>1. op' = 0 /\ UNCHANGED <<reason, voided, starts>>
      BY <1>12, <2>2 DEF RecorderStopped, Complete, Settle
    <3>2. transcribing' \in {transcribing, {g}} /\ g \notin voided /\ g =< starts
      BY <2>2 DEF Complete, Admissible
    <3>3. QED
      BY <3>1, <3>2
  <2>3. QED
    BY <1>12, <2>1, <2>2 DEF RecorderStopped
<1>13. ASSUME NEW g \in Recordings, NEW understood \in BOOLEAN, Transcribed(g, understood)
       PROVE VoidedInv'
  BY <1>13 DEF Transcribed, browserVars
<1>14. CASE UNCHANGED voiceVars
  BY <1>14 DEF voiceVars, controllerVars, browserVars, viewVars
<1>15. QED
  BY <1>1, <1>2, <1>3, <1>4, <1>5, <1>6, <1>7, <1>8, <1>9, <1>10, <1>11, <1>12, <1>13, <1>14 DEF VoiceNext

(* Text of a recording that was in progress when the session changed or the *)
(* view closed never enters a composer: only a transcription delivers, and  *)
(* none of a voided recording is awaited.                                   *)
THEOREM NoVoidedText == VoiceSpec => NothingFromVoided
<1>1. VoiceInit => VoidedInv
  BY DEF VoiceInit, VoidedInv
<1>2. RecorderInv /\ VoidedInv /\ [VoiceNext]_voiceVars =>
        [ \A g \in voided : g \in delivered' => g \in delivered ]_voiceVars
  <2> SUFFICES ASSUME RecorderInv, VoidedInv, [VoiceNext]_voiceVars,
                      NEW g \in voided, g \in delivered'
               PROVE  g \in delivered
    OBVIOUS
  <2>1. CASE delivered' = delivered
    BY <2>1
  <2>2. ASSUME NEW h \in Recordings, NEW understood \in BOOLEAN, Transcribed(h, understood)
        PROVE g \in delivered
    BY <2>2 DEF Transcribed, VoidedInv
  <2>3. QED
    BY <2>1, <2>2 DEF VoiceNext, Start, StartUnavailable, ClickStop, SwitchSession, Destroy, Granted,
       StartFails, DurationLimit, Data, RecorderEnds, RecorderFails, RecorderStopped, voiceVars, viewVars
<1>3. QED
  BY InitInv, NextInv, NextVoided, <1>1, <1>2, PTL DEF VoiceSpec, NothingFromVoided
=============================================================================
