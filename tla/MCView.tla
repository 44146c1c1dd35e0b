------------------------------- MODULE MCView -------------------------------
(* The page's two long-lived machines, for TLC: the recording and the       *)
(* outgoing messages with their previews.  A transcript enters the composer *)
(* as if it were typed, so they share no state; a behaviour is one of them. *)
EXTENDS VoiceRecording, Outbox

VARIABLE part

ViewInit == part \in {"recording", "messages"} /\ VoiceInit /\ Init

ViewNext ==
  /\ UNCHANGED part
  /\ \/ part = "recording" /\ VoiceNext /\ UNCHANGED vars
     \/ part = "messages" /\ Next /\ UNCHANGED voiceVars

ViewSpec == ViewInit /\ [][ViewNext]_<<part, voiceVars, vars>> /\ VoiceFairness /\ Fairness
=============================================================================
