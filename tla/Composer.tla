------------------------------- MODULE Composer -------------------------------
(***************************************************************************)
(* The text field a message is written in (composer.ts and the handlers of *)
(* Companion.svelte around it), as functions from its state and an event   *)
(* to its next state.  Text is a sequence of character classes: "/" and    *)
(* "c" make up the one command, "s" is white space, "a" anything else.     *)
(*                                                                         *)
(* `ime` is whether the input method composes, as the browser reports with *)
(* every key (event.isComposing); `composing` is what the page remembers.  *)
(***************************************************************************)
EXTENDS Integers, Sequences, SequencesExt

CONSTANT MaxText        \* MAX_MESSAGE_LENGTH, 16000 in the code

ASSUME ComposerAssumption == MaxText \in Nat \ {0}

Command == <<"/", "c">>
NoCommand == <<>>

Trimmed(text) ==
  LET ink == {i \in 1 .. Len(text) : text[i] # "s"}
  IN  IF ink = {} THEN <<>>
      ELSE SubSeq(text, CHOOSE i \in ink : \A j \in ink : i <= j,
                        CHOOSE i \in ink : \A j \in ink : j <= i)

CreateComposerState == [draft |-> <<>>, composing |-> FALSE, images |-> 0, ime |-> FALSE, sent |-> <<>>]

\* The command that completes what is typed, also when it is typed in full.
FindComposerCommand(draft) ==
  IF draft # <<>> /\ draft[1] = "/" /\ "s" \notin ToSet(draft) /\ IsPrefix(draft, Command)
  THEN Command ELSE NoCommand

CommandSuggestion(state) == IF state.images > 0 THEN NoCommand ELSE FindComposerCommand(state.draft)

ReduceComposer(state, event) ==
  CASE event.type = "input" -> [state EXCEPT !.draft = event.value]
    [] event.type = "compositionstart" -> [state EXCEPT !.composing = TRUE]
    [] event.type = "compositionend" -> [state EXCEPT !.composing = FALSE, !.draft = event.value]

\* Mistaken: only what the page remembers is looked at.
ShouldSubmitByMemory(event, composing) == event.key = "Enter" /\ ~event.shift /\ ~composing

ShouldSubmitEnter(event, composing) ==
  event.key = "Enter" /\ ~event.shift /\ ~event.isComposing /\ ~composing

\* submit: the draft and its images leave the composer together.
Submit(state) ==
  LET text == Trimmed(state.draft)
  IN  IF \/ Len(text) > MaxText
         \/ text = <<>> /\ state.images = 0
         \/ state.composing
      THEN state
      ELSE [state EXCEPT !.draft = <<>>, !.images = 0,
              !.sent = Append(@, [text |-> text, restore |-> state.draft, images |-> state.images])]

\* The button to send with; it does not know of the composition.
SendEnabled(state) ==
  LET text == Trimmed(state.draft) IN Len(text) <= MaxText /\ (text # <<>> \/ state.images > 0)

AcceptCommandSuggestion(state) ==
  IF CommandSuggestion(state) = NoCommand THEN state
  ELSE ReduceComposer(state, [type |-> "input", value |-> CommandSuggestion(state)])

OnKeydown(state, event) ==
  CASE /\ CommandSuggestion(state) # NoCommand /\ event.key \in {"Tab", "Enter"}
       /\ ~event.shift /\ ~event.isComposing /\ ~state.composing -> AcceptCommandSuggestion(state)
    [] OTHER -> IF ShouldSubmitEnter(event, state.composing) THEN Submit(state) ELSE state

\* A submission that failed comes back before what was typed since, and the
\* page forgets a composition that goes on.
RetireSubmission(state) ==
  LET failed == Last(state.sent)
  IN  [state EXCEPT !.draft = IF @ = <<>> THEN failed.restore ELSE failed.restore \o <<"s">> \o @,
         !.images = @ + failed.images, !.composing = FALSE, !.sent = Front(@)]

\* A transcript comes after what was typed.
OnTranscript(state, text) == [state EXCEPT !.draft = IF @ = <<>> THEN text ELSE @ \o <<"s">> \o text]

\* What the user and the browser can do next; anything else changes nothing.
Handle(state, event) ==
  CASE event.type = "input" -> ReduceComposer(state, event)
    [] event.type = "compositionstart" /\ ~state.ime -> ReduceComposer([state EXCEPT !.ime = TRUE], event)
    [] event.type = "compositionend" /\ state.ime -> ReduceComposer([state EXCEPT !.ime = FALSE], event)
    [] event.type = "key" -> OnKeydown(state, [key |-> event.key, shift |-> event.shift, isComposing |-> state.ime])
    [] event.type = "suggestion" -> AcceptCommandSuggestion(state)
    [] event.type = "send" /\ SendEnabled(state) -> Submit(state)
    [] event.type = "image" -> [state EXCEPT !.images = @ + 1]
    [] event.type = "failed" /\ state.sent # <<>> -> RetireSubmission(state)
    [] event.type = "transcript" -> OnTranscript(state, event.value)
    [] OTHER -> state
=============================================================================
