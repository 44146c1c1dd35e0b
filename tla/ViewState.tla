------------------------------ MODULE ViewState ------------------------------
(***************************************************************************)
(* Three small machines of Companion.svelte that outlive one event: the    *)
(* words shown while an answer takes long, the photo button with its long  *)
(* press, and the preview of an image with its entry in the browser's      *)
(* history.  Each is a function from a state and an event to a state; an   *)
(* event that cannot happen changes nothing.                               *)
(***************************************************************************)
EXTENDS Integers, Sequences, FiniteSets, SequencesExt

-----------------------------------------------------------------------------
(* The words of a long wait.  A timer is a number; `live` are those the    *)
(* browser will fire, `delay` and `rotation` what the page remembers.      *)

WaitMessages == <<"thinking", "words", "soon">>

NotWaiting == [cycle |-> "", copy |-> "", delay |-> 0, rotation |-> 0, live |-> {}, timers |-> 0]

\* An item is [id, side, kind, state].
LatestSettledReplyKey(items) ==
  LET settled == SelectSeq(items, LAMBDA item :
                   item.side = "incoming" /\ (item.kind # "image" \/ item.state \in {"ready", "failed"}))
  IN  IF settled = <<>> THEN "empty" ELSE Last(settled).id

ImageGenerationRunning(items) ==
  \E i \in 1 .. Len(items) : items[i].kind = "image" /\ items[i].state \in {"running", "loading"}

\* An answer is being written, and no image is being drawn for it.
TypingVisible(running, items) == running /\ ~ImageGenerationRunning(items)

\* Mistaken: the rotation goes on.
ClearWaitingDelay(s) == [s EXCEPT !.live = @ \ {s.delay}, !.delay = 0]

ClearWaitingTimers(s) == [s EXCEPT !.live = @ \ {s.delay, s.rotation}, !.delay = 0, !.rotation = 0]

\* Any other message than the one that is shown; n stands for the random choice.
RotateWaitingCopy(s, n) ==
  LET choices == SelectSeq(WaitMessages, LAMBDA message : message # s.copy)
  IN  [s EXCEPT !.copy = choices[1 + (n % Len(choices))]]

\* A new timer is numbered one more than the last.
WithTimer(s) == [s EXCEPT !.timers = @ + 1, !.live = @ \cup {s.timers + 1}]

\* The page's session is always the same and is left out of the key.
SyncWaitingState(s, typing, replyKey) ==
  LET cycle == IF typing THEN replyKey ELSE ""
      cleared == [ClearWaitingTimers(s) EXCEPT !.cycle = cycle, !.copy = ""]
  IN  IF cycle = s.cycle THEN s
      ELSE IF typing THEN [WithTimer(cleared) EXCEPT !.delay = s.timers + 1]
      ELSE cleared

\* The delay has passed: the first words, and from now on others every so often.
DelayFires(s, n) ==
  LET shown == RotateWaitingCopy([s EXCEPT !.live = @ \ {s.delay}], n)
  IN  [WithTimer(shown) EXCEPT !.rotation = s.timers + 1]

Wait(s, event) ==
  CASE event.type = "sync" ->
         SyncWaitingState(s, TypingVisible(event.running, event.items), LatestSettledReplyKey(event.items))
    [] event.type = "delay" /\ s.delay \in s.live -> DelayFires(s, event.n)
    [] event.type = "rotate" /\ s.live \ {s.delay} # {} -> RotateWaitingCopy(s, event.n)
    [] OTHER -> s

-----------------------------------------------------------------------------
(* The photo button: a touch held long enough opens the camera, a click    *)
(* the library.  The browser may or may not send a click after the touch.  *)

NoTouch == 0
Untouched == [pointer |-> NoTouch, suppress |-> FALSE, camera |-> 0, library |-> 0, ignored |-> 0]

OnPointerDown(s, id) == [s EXCEPT !.pointer = id]

\* Mistaken: whichever finger leaves ends the press.
OnPointerUpOfAny(s, id, held) ==
  IF s.pointer = NoTouch THEN s
  ELSE IF ~held THEN [s EXCEPT !.pointer = NoTouch]
  ELSE [s EXCEPT !.pointer = NoTouch, !.suppress = TRUE, !.camera = @ + 1]

OnPointerUp(s, id, held) ==
  IF s.pointer = NoTouch \/ s.pointer # id THEN s
  ELSE IF ~held THEN [s EXCEPT !.pointer = NoTouch]
  ELSE [s EXCEPT !.pointer = NoTouch, !.suppress = TRUE, !.camera = @ + 1]

ChoosePhoto(s) ==
  IF s.suppress THEN [s EXCEPT !.suppress = FALSE, !.ignored = @ + 1]
  ELSE [s EXCEPT !.library = @ + 1]

Press(s, event) ==
  CASE event.type = "down" -> OnPointerDown(s, event.id)
    [] event.type = "up" -> OnPointerUp(s, event.id, event.held)
    [] event.type = "cancel" -> [s EXCEPT !.pointer = NoTouch]
    [] event.type = "click" -> ChoosePhoto(s)

-----------------------------------------------------------------------------
(* The preview.  `entries` are the entries the page pushed that are below  *)
(* or at the current one, `travels` the steps back under way, the page's   *)
(* and the user's; `closing` is a close event of the dialog under way.     *)

NoPreview == [lightbox |-> FALSE, dialog |-> FALSE, fromHistory |-> FALSE, overlay |-> FALSE,
              closing |-> FALSE, entries |-> 0, travels |-> 0, crossed |-> FALSE]

\* Another entry, unless there is one, and the dialog at the next tick.
ShowLightbox(s) ==
  [s EXCEPT !.entries = IF s.overlay THEN @ ELSE @ + 1,
            !.overlay = TRUE, !.lightbox = TRUE, !.dialog = TRUE, !.crossed = @ \/ s.travels > 0]

\* What is still the page's own entry is left, if it was not left already.
FinishLightboxClose(s, fromHistory) ==
  LET closed == [s EXCEPT !.lightbox = FALSE, !.dialog = FALSE]
  IN  IF fromHistory \/ ~s.overlay THEN closed
      ELSE [closed EXCEPT !.overlay = FALSE, !.travels = @ + 1, !.crossed = @ \/ s.travels > 0]

CloseLightbox(s, fromHistory) ==
  IF ~s.lightbox THEN s
  ELSE IF s.dialog THEN [s EXCEPT !.fromHistory = fromHistory, !.dialog = FALSE, !.closing = TRUE]
  ELSE FinishLightboxClose([s EXCEPT !.fromHistory = fromHistory], fromHistory)

OnLightboxClose(s) == FinishLightboxClose([s EXCEPT !.fromHistory = FALSE, !.closing = FALSE], s.fromHistory)

\* Mistaken: the page goes on to believe that it has an entry.
PopStateForgetting(s) == IF s.lightbox THEN CloseLightbox(s, TRUE) ELSE s

OnPopState(s) ==
  LET popped == [s EXCEPT !.overlay = FALSE] IN IF s.lightbox THEN CloseLightbox(popped, TRUE) ELSE popped

\* The dialog is modal: nothing behind it is clicked.  Escape and the backdrop
\* close it without the page's doing.
Preview(s, event) ==
  CASE event = "show" /\ ~s.dialog /\ ~s.closing -> ShowLightbox(s)
    [] event = "button" /\ s.dialog -> CloseLightbox(s, FALSE)
    [] event = "escape" /\ s.dialog -> [s EXCEPT !.dialog = FALSE, !.closing = TRUE]
    [] event = "closed" /\ s.closing -> OnLightboxClose(s)
    [] event = "back" /\ s.entries > s.travels -> [s EXCEPT !.travels = @ + 1, !.crossed = @ \/ s.travels > 0]
    [] event = "arrives" /\ s.travels > 0 -> OnPopState([s EXCEPT !.travels = @ - 1, !.entries = @ - 1])
    [] OTHER -> s
=============================================================================
