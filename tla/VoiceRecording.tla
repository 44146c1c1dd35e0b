--------------------------- MODULE VoiceRecording ---------------------------
(***************************************************************************)
(* Voice input of the Companion view: the browser recording state machine  *)
(* VoiceRecordingController (client/voice-input.ts) and the handlers of    *)
(* Companion.svelte that drive it.  Recordings are numbered by the         *)
(* controller's generation.                                                *)
(*                                                                         *)
(* A click, a browser event and an answered permission prompt each run to  *)
(* the end of their microtasks before the next, so each is one action,     *)
(* with the promise continuations it triggers.  The browser answers        *)
(* permission prompts in any order, and the recorder's events come later   *)
(* than the calls that cause them.                                         *)
(***************************************************************************)
EXTENDS Naturals

CONSTANTS
  Limit,       \* size limit of a recording, in chunks
  MaxStarts,   \* bound: recordings started
  MaxSwitches  \* bound: changes of the session the component shows

ASSUME VoiceAssumption ==
  Limit \in Nat \ {0} /\ MaxStarts \in Nat /\ MaxSwitches \in Nat

VARIABLES
  \* VoiceRecordingController
  status,
  op,          \* the active operation, 0 for none
  disposed,
  reason,      \* stopReason of each operation
  bytes, limit,
  settled,     \* the completion promise of each operation
  \* the browser
  mic,         \* the microphone stream of each operation
  recorder,    \* the MediaRecorder of each operation
  \* Companion
  waited,      \* recordings stopVoiceAndTranscribe awaits
  transcribing,\* recordings whose transcription is awaited, not aborted
  delivered,   \* recordings whose text entered the composer
  \* observers and bounds
  voided,      \* recordings in progress when the session changed or the view closed
  starts, switches

controllerVars == <<status, op, disposed, reason, bytes, limit, settled>>
browserVars == <<mic, recorder>>
viewVars == <<waited, transcribing, delivered>>
voiceVars == <<controllerVars, browserVars, viewVars, voided, starts, switches>>

Recordings == 1..MaxStarts
Busy == {"recording", "stopping", "transcribing"}

VoiceTypeOK ==
  /\ status \in {"idle", "unavailable"} \union Busy
  /\ op \in {0} \union Recordings
  /\ disposed \in BOOLEAN
  /\ reason \in [Recordings -> {"none", "user", "duration", "size", "cancelled"}]
  /\ bytes \in [Recordings -> Nat] /\ limit \in [Recordings -> {Limit - 1, Limit}]
  /\ settled \in [Recordings -> {"pending", "recorded", "failed"}]
  /\ mic \in [Recordings -> {"none", "asked", "open", "closed"}]
  /\ recorder \in [Recordings -> {"none", "recording", "ending", "ended"}]
  /\ waited \subseteq Recordings /\ transcribing \subseteq Recordings
  /\ delivered \subseteq Recordings /\ voided \subseteq Recordings
  /\ starts \in 0..MaxStarts /\ switches \in 0..MaxSwitches

VoiceInit ==
  /\ status = "idle" /\ op = 0 /\ disposed = FALSE
  /\ reason = [g \in Recordings |-> "none"]
  /\ bytes = [g \in Recordings |-> 0] /\ limit = [g \in Recordings |-> Limit]
  /\ settled = [g \in Recordings |-> "pending"]
  /\ mic = [g \in Recordings |-> "none"] /\ recorder = [g \in Recordings |-> "none"]
  /\ waited = {} /\ transcribing = {} /\ delivered = {} /\ voided = {}
  /\ starts = 0 /\ switches = 0

-----------------------------------------------------------------------------
\* stopTracks on the stream the operation holds.
CloseMic(g) == mic' = [mic EXCEPT ![g] = IF @ = "open" THEN "closed" ELSE @]

\* Mistaken: a failed recording keeps its microphone.
SettleKeepingMic(g, how) ==
  /\ op' = 0 /\ settled' = [settled EXCEPT ![g] = how]
  /\ UNCHANGED <<mic, disposed>>

\* What complete() and fail() share; both do nothing for a replaced operation.
Settle(g, how) ==
  /\ op' = 0 /\ settled' = [settled EXCEPT ![g] = how]
  /\ CloseMic(g)
  /\ UNCHANGED disposed

\* fail(): whoever awaits the completion catches the error.
Fail(g) ==
  /\ Settle(g, "failed") /\ status' = "idle"
  /\ UNCHANGED transcribing

\* complete(), and stopVoiceAndTranscribe after its await: markTranscribing.
Complete(g) ==
  /\ Settle(g, "recorded")
  /\ IF g \in waited /\ ~disposed
     THEN status' = "transcribing" /\ transcribing' = {g}
     ELSE status' = "idle" /\ UNCHANGED transcribing

Stopping == IF status = "recording" THEN "stopping" ELSE status

\* recorder.stop(): its events follow later; an inactive recorder may throw.
StopRecorder(g) ==
  \/ /\ recorder' = [recorder EXCEPT ![g] = IF @ = "recording" THEN "ending" ELSE @]
     /\ status' = Stopping
     /\ UNCHANGED <<op, disposed, settled, mic, transcribing>>
  \/ Fail(g) /\ UNCHANGED recorder

\* Without a recorder there is nothing to wait for.
StopOrFail(g) ==
  IF recorder[g] = "none" THEN Fail(g) /\ UNCHANGED recorder ELSE StopRecorder(g)

-----------------------------------------------------------------------------
(* toggleVoiceInput while no recording is in progress: start() up to its    *)
(* await of getUserMedia.                                                   *)
MayStart == ~disposed /\ status \notin Busy

Start ==
  /\ MayStart /\ starts < MaxStarts
  /\ starts' = starts + 1 /\ op' = starts + 1 /\ status' = "recording"
  /\ mic' = [mic EXCEPT ![starts + 1] = "asked"]
  /\ UNCHANGED <<disposed, reason, bytes, limit, settled, recorder, waited, transcribing,
                 delivered, voided, switches>>

\* No secure context, no recorder, or no provider-compatible media type.
StartUnavailable ==
  /\ MayStart /\ status # "unavailable"
  /\ status' = "unavailable"
  /\ UNCHANGED <<op, disposed, reason, bytes, limit, settled, browserVars, waited,
                 transcribing, delivered, voided, starts, switches>>

\* The prompt is answered: record, or release a stream nobody wants any more.
Granted(g) ==
  /\ mic[g] = "asked"
  /\ IF op = g /\ ~disposed
     THEN /\ mic' = [mic EXCEPT ![g] = "open"]
          /\ recorder' = [recorder EXCEPT ![g] = "recording"]
     ELSE /\ mic' = [mic EXCEPT ![g] = "closed"]
          /\ UNCHANGED recorder
  /\ UNCHANGED <<controllerVars, waited, transcribing, delivered, voided, starts, switches>>

\* Permission is denied, or the recorder cannot be set up on the stream.
StartFails(g) ==
  /\ mic[g] = "asked"
  /\ mic' = [mic EXCEPT ![g] = "closed"]
  /\ IF op = g
     THEN /\ op' = 0 /\ status' = "idle"
          /\ settled' = [settled EXCEPT ![g] = "failed"]
     ELSE UNCHANGED <<op, status, settled>>
  /\ UNCHANGED <<disposed, reason, bytes, limit, recorder, waited, transcribing, delivered,
                 voided, starts, switches>>

-----------------------------------------------------------------------------
\* toggleVoiceInput while recording: stopVoiceAndTranscribe and stopAndGet.
ClickStop ==
  /\ ~disposed /\ status = "recording"
  /\ waited' = waited \union {op}
  /\ reason' = [reason EXCEPT ![op] = IF @ = "none" THEN "user" ELSE @]
  /\ StopOrFail(op)
  /\ UNCHANGED <<bytes, limit, delivered, voided, starts, switches>>

\* requestStop: only the first reason to stop counts.
RequestStop(g, why) ==
  IF reason[g] # "none"
  THEN UNCHANGED <<reason, status, op, disposed, settled, mic, recorder, transcribing>>
  ELSE reason' = [reason EXCEPT ![g] = why] /\ StopRecorder(g)

\* The duration timer, armed from start() until the operation settles.
DurationLimit(g) ==
  /\ op = g /\ recorder[g] # "none" /\ reason[g] = "none"
  /\ RequestStop(g, "duration")
  /\ UNCHANGED <<bytes, limit, waited, delivered, voided, starts, switches>>

\* The emitted media type may have a lower limit than the requested one.
LimitAfter(g, narrower) == IF narrower THEN Limit - 1 ELSE limit[g]

(* ondataavailable.  Bound: a recording grows to one chunk over Limit.      *)
Data(g, narrower) ==
  /\ op = g /\ recorder[g] \in {"recording", "ending"} /\ bytes[g] =< Limit
  /\ bytes' = [bytes EXCEPT ![g] = @ + 1]
  /\ limit' = [limit EXCEPT ![g] = LimitAfter(g, narrower)]
  /\ IF bytes'[g] > limit'[g] THEN RequestStop(g, "size")
     ELSE UNCHANGED <<reason, status, op, disposed, settled, mic, recorder, transcribing>>
  /\ UNCHANGED <<waited, delivered, voided, starts, switches>>

\* The recorder stops on its own: the device is gone or its tracks were stopped.
RecorderEnds(g) ==
  /\ recorder[g] = "recording"
  /\ recorder' = [recorder EXCEPT ![g] = "ending"]
  /\ UNCHANGED <<controllerVars, mic, viewVars, voided, starts, switches>>

RecorderFails(g) ==
  /\ op = g /\ recorder[g] # "none"
  /\ Fail(g)
  /\ UNCHANGED <<reason, bytes, limit, recorder, waited, delivered, voided, starts, switches>>

\* Mistaken: only the recorded reason decides.
AdmissibleByReason(g) == reason[g] \in {"none", "user"} /\ bytes[g] > 0

\* finish() and validateVoiceRecording: what may become a recording.
Admissible(g) ==
  /\ reason[g] \in {"none", "user"}
  /\ bytes[g] > 0 /\ bytes[g] =< limit[g]

\* onstop; a recording of an unsupported media type is refused, too.
RecorderStopped(g) ==
  /\ recorder[g] = "ending"
  /\ recorder' = [recorder EXCEPT ![g] = "ended"]
  /\ IF op # g
     THEN UNCHANGED <<status, op, disposed, settled, mic, transcribing>>
     ELSE \/ Admissible(g) /\ Complete(g)
          \/ Fail(g)
  /\ UNCHANGED <<reason, bytes, limit, waited, delivered, voided, starts, switches>>

-----------------------------------------------------------------------------
\* The transcription resolves and its text joins the draft, or it is rejected.
Transcribed(g, understood) ==
  /\ g \in transcribing
  /\ transcribing' = transcribing \ {g}
  /\ delivered' = IF understood THEN delivered \union {g} ELSE delivered
  /\ status' = IF status = "transcribing" THEN "idle" ELSE status
  /\ UNCHANGED <<op, disposed, reason, bytes, limit, settled, browserVars, waited,
                 voided, starts, switches>>

\* cancel(): overrides any reason to stop; the recorder's end settles it.
Cancel ==
  IF op = 0
  THEN /\ status' = IF status = "transcribing" THEN "idle" ELSE status
       /\ UNCHANGED <<op, disposed, reason, settled, mic, recorder, transcribing>>
  ELSE /\ reason' = [reason EXCEPT ![op] = "cancelled"]
       /\ StopOrFail(op)

InProgress == transcribing \union { g \in Recordings : op = g }

\* Mistaken: the transcription goes on.
AbortNothing == UNCHANGED transcribing

\* voiceTranscriptionAbort.abort(): the request rejects at once.
Abort == transcribing' = {}

\* The session changes: cancelVoiceInput.
SwitchSession ==
  /\ ~disposed /\ switches < MaxSwitches
  /\ switches' = switches + 1
  /\ voided' = voided \union InProgress
  /\ IF transcribing = {} THEN Cancel
     ELSE /\ Abort /\ status' = "idle"
          /\ UNCHANGED <<op, disposed, reason, settled, mic, recorder>>
  /\ UNCHANGED <<bytes, limit, waited, delivered, starts>>

\* onDestroy and dispose().
Destroy ==
  /\ ~disposed
  /\ disposed' = TRUE /\ status' = "idle"
  /\ voided' = voided \union InProgress
  /\ Abort
  /\ IF op = 0 THEN UNCHANGED <<op, reason, settled, mic, recorder>>
     ELSE /\ reason' = [reason EXCEPT ![op] = "cancelled"]
          /\ IF recorder[op] = "none"
             THEN /\ op' = 0 /\ settled' = [settled EXCEPT ![op] = "failed"]
                  /\ CloseMic(op) /\ UNCHANGED recorder
             ELSE \/ /\ recorder' = [recorder EXCEPT ![op] = IF @ = "recording" THEN "ending" ELSE @]
                     /\ UNCHANGED <<op, settled, mic>>
                  \/ /\ op' = 0 /\ settled' = [settled EXCEPT ![op] = "failed"]
                     /\ CloseMic(op) /\ UNCHANGED recorder
  /\ UNCHANGED <<bytes, limit, waited, delivered, starts, switches>>

-----------------------------------------------------------------------------
VoiceNext ==
  \/ Start \/ StartUnavailable
  \/ ClickStop \/ SwitchSession \/ Destroy
  \/ \E g \in Recordings :
       \/ Granted(g) \/ StartFails(g)
       \/ DurationLimit(g)
       \/ \E narrower \in BOOLEAN : Data(g, narrower)
       \/ RecorderEnds(g) \/ RecorderFails(g) \/ RecorderStopped(g)
       \/ \E understood \in BOOLEAN : Transcribed(g, understood)

(* A recorder that was stopped fires its stop event.  Nothing makes the     *)
(* user click or answer a prompt, and nothing makes a transcription end.    *)
VoiceFairness == \A g \in Recordings : WF_voiceVars(RecorderStopped(g))

VoiceSpec == VoiceInit /\ [][VoiceNext]_voiceVars /\ VoiceFairness

-----------------------------------------------------------------------------
(* An open microphone belongs to the active recording: whatever was         *)
(* cancelled, replaced, failed or disposed while the permission prompt or   *)
(* the recorder was slow, no stream stays open (voice-input.ts:457-464,     *)
(* 657-682).                                                                *)
MicrophoneOwned == \A g \in Recordings : mic[g] = "open" => op = g

(* A result is within the limits and was not stopped by one: also when the  *)
(* chunk that exceeds the size arrives after the user pressed stop          *)
(* (voice-input.ts:586, 613-632).                                           *)
WithinLimits ==
  \A g \in Recordings : settled[g] = "recorded" =>
    bytes[g] \in 1..limit[g] /\ reason[g] \in {"none", "user"}

(* What the status shows is what happens, so that no second recording can   *)
(* start beside a first, or beside a transcription (voice-input.ts:393,     *)
(* 541-574; Companion.svelte:1070-1075).                                    *)
StatusTruthful ==
  ~disposed =>
    /\ op # 0 <=> status \in {"recording", "stopping"}
    /\ transcribing # {} <=> status = "transcribing"
    /\ \A g, h \in InProgress : g = h

(* Text of a recording that the user left behind by changing the session or *)
(* closing the view never enters a composer, not even after a return to     *)
(* the session (Companion.svelte:1014-1018, 1054, 1443-1445).               *)
NothingFromVoided ==
  [][ \A g \in voided : g \in delivered' => g \in delivered ]_voiceVars

(* A recording asked to stop settles, and a closed view gives the           *)
(* microphone back (voice-input.ts:520-580).                                *)
StopsEventually ==
  \A g \in Recordings :
    /\ reason[g] # "none" ~> settled[g] # "pending"
    /\ (disposed /\ mic[g] = "open") ~> mic[g] # "open"
=============================================================================
