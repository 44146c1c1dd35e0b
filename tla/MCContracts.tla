----------------------------- MODULE MCContracts -----------------------------
(***************************************************************************)
(* The functions of MediaLimits, Timeline, CompanionRules, Composer,       *)
(* ViewState and ReleaseNames, each on a bounded set of inputs: an initial *)
(* state, and one state per input.  A property states, for the inputs of   *)
(* its kind, what the function is for.                                     *)
(***************************************************************************)
EXTENDS MediaLimits, Timeline, CompanionRules, Composer, ViewState, ReleaseNames, TLC

VARIABLE case                \* [kind, ...]: the input under examination

Nothing == [kind |-> "nothing"]

-----------------------------------------------------------------------------
(* Recordings: sizes around the limit of each type, cut in two chunks.     *)

Type(length, trimmed, ok) ==
  [length |-> length, trimmed |-> trimmed, ascii |-> ok, wellFormed |-> TRUE, listed |-> TRUE]
Types == {Type(10, 10, TRUE), Type(24, 22, TRUE), Type(25, 24, TRUE), Type(255, 254, TRUE),
          Type(257, 10, TRUE), Type(10, 10, FALSE)}

RecordingSizes ==
  {1, 24575, 24576, 24577, 49152, 49153}
    \cup {3 * ((MaxVoiceDataUrlBytes - 13 - n) \div 4) + d : n \in {10, 22, 24, 254}, d \in -2 .. 3}
FirstChunks == {0, 1, 24576, 5000000}

Recordings ==
  {[kind |-> "recording", type |-> type, bytes |-> bytes, first |-> first] :
     type \in Types, first \in FirstChunks, bytes \in RecordingSizes}

Transcripts ==
  {[kind |-> "transcript", units |-> units, astral |-> astral, labels |-> labels] :
     units \in {0, 1, 15984, 15985, 16000, 16001}, astral \in {0, 8000},
     labels \in {<<>>, <<"calm">>, <<"calm", "happy", "sad">>}}

\* A recording that the browser takes is taken on the rest of its way, and the
\* limit the browser works with is the largest that is.  A transcript that the
\* provider returns is accepted by the browser, and if it leaves the sixteen units
\* of the sign and the label, fits a message by itself
\* (voice-contract.ts, voice-input.ts, server.ts:32-50, speech.ts).
RecordingsAgree ==
  /\ case.kind = "recording" =>
       LET type == case.type
           n == case.bytes
           chunks == IF case.first < n THEN <<case.first, n - case.first>> ELSE <<n>>
           most == MaxVoiceAudioBytes(type, MaxVoiceDataUrlBytes)
       IN  /\ BrowserAdmits(type, n, MaxSafeInteger) <=> RouteAdmits(type, chunks)
           /\ BrowserAdmits(type, n, MaxSafeInteger) <=> ProviderAdmits(type, n)
           /\ most # Undefined =>
                /\ BrowserAdmits(type, n, MaxSafeInteger) <=> n <= most
                /\ MaxVoiceBase64Chars(type, MaxVoiceDataUrlBytes) = Base64Chars(most)
           /\ EncodedChunks(n) = [length |-> Base64Chars(n), paddedInside |-> FALSE]
  /\ case.kind = "transcript" =>
       LET points == case.units - Smaller(case.astral, case.units \div 2)
           label == FirstExpression(case.labels)
       IN  ProviderReturns([bytes |-> 3 * case.units, units |-> case.units]) =>
             /\ BrowserAccepts(case.units, points)
             /\ case.units <= 15984 => VoiceTurnUnits(case.units, label) <= MaxMessageLength

-----------------------------------------------------------------------------
(* Images: one size for some of them and another for the rest, with every  *)
(* way the composer can come by them; texts of up to eight characters.     *)

Image(size, type, matches, clean, name) ==
  [size |-> size, type |-> type, matches |-> matches, clean |-> clean, name |-> name]
Several(n, split, a, b, type, matches, name) ==
  [i \in 1 .. n |-> Image(IF i <= split THEN a ELSE b, type, matches, TRUE, name)]
SomeTypes == {"image/png", "image/bmp"}
SomeSizes == {0, 1, 4194304, 5242879, 5242880, 5242881}

Attachments ==
  {[kind |-> "attachments", held |-> held, added |-> added, units |-> units,
    images |-> Several(held + added, split, a, b, type, matches, name)] :
     held \in 0 .. 3, added \in 0 .. 3, split \in {2, 4}, a \in SomeSizes, b \in SomeSizes,
     type \in SomeTypes, matches \in BOOLEAN,
     name \in {0, 160, 161}, units \in {0, 16000}}

ShortTexts == UNION {[1 .. n -> {"even", "odd", "pad", "other"}] : n \in {0, 3, 4}}
Openings == [1 .. 4 -> {"even", "odd"}]
Closings == [1 .. 4 -> {"odd", "even", "pad", "other"}]
LongTexts == {e \o f : e \in Openings, f \in Closings}
Texts == [kind : {"text"}, text : ShortTexts \cup LongTexts]

\* What an encoder writes: whole groups of four, padded only at the end and
\* with the unused bits of the last character clear.
Encoding(text) ==
  LET n == Len(text)
  IN  /\ n > 0 /\ n % 4 = 0
      /\ \E p \in 0 .. 2 : /\ \A i \in 1 .. n - p : text[i] \in Alphabet
                           /\ \A i \in n - p + 1 .. n : text[i] = "pad"
                           /\ p > 0 => text[n - p] = "even"

\* Requests to the image bridge: up to five sources around what is left.
Requests ==
  {[kind |-> "request", base |-> base, urls |-> [i \in 1 .. n |-> length], extra |-> extra] :
     base \in {40, 96000}, n \in 0 .. 5, length \in {26, 4194304, 6710886, 8388608}, extra \in -2 .. 5}

\* A message whose images the composer took is taken by the route whatever its
\* text is made of, unless an image is empty, is not what its type says or has
\* a name longer than the schema's; what the route takes is within the composer's
\* limits; and an image text is taken exactly when an encoder could have written
\* it, of which isCanonicalBase64 accepts at least as much.  A further source fits
\* a request to the bridge exactly when it is within the room remainingSourceBytes
\* reports (image-drafts.ts, images.ts:9-30, server.ts:9-17, 71, image-core.ts).
ImagesAgree ==
  /\ case.kind = "attachments" =>
       LET images == case.images
           Taken == /\ IntakeError(<<>>, SubSeq(images, 1, case.held)) = "none"
                    /\ IntakeError(SubSeq(images, 1, case.held),
                                   SubSeq(images, case.held + 1, Len(images))) = "none"
           Sound == \A i \in 1 .. Len(images) :
                      /\ images[i].size > 0 /\ images[i].matches
                      /\ images[i].name <= MaxNameLength
           Route == RouteTakes(case.units, images, 6)
       IN  /\ Taken /\ Sound /\ (case.units > 0 \/ images # <<>>) => Route
           /\ Route => Taken /\ Sound
  /\ case.kind = "text" =>
       /\ DecodesAsImage(case.text) <=> Encoding(case.text)
       /\ DecodesAsImage(case.text) => IsCanonicalBase64(case.text, Undefined)
  /\ case.kind = "request" =>
       LET room == RemainingSourceBytes(case.base, case.urls, 22)
           bytes == room + case.extra
       IN  Len(case.urls) < 5 /\ bytes > 0 =>
             (bytes <= room <=> BridgePayloadFits(case.base, Append(case.urls, 22 + Base64Chars(bytes))))

-----------------------------------------------------------------------------
(* Conversations of up to five rows, timelines of three messages with up   *)
(* to two markers, ledgers of up to three rows.                            *)

Rows(n) == {[i \in 1 .. n |-> [id |-> i, answered |-> answered[i], cost |-> cost[i]]] :
              answered \in [1 .. n -> BOOLEAN], cost \in [1 .. n -> {1, 3, 9}]}
Histories == {<<>>, <<"user">>, <<"user", "tool">>, <<"user", "assistant", "user", "tool">>, <<"tool">>}

Conversations ==
  {[kind |-> "rounds", rows |-> rows, phase |-> "pre_turn", roles |-> <<"user">>] : rows \in UNION {Rows(n) : n \in 0 .. 5}}
    \cup {[kind |-> "rounds", rows |-> rows, phase |-> "mid_turn", roles |-> roles] :
            rows \in Rows(2), roles \in Histories}

\* The messages that are loaded, those of them that have an answer, and the markers.
Markers ==
  {[kind |-> "markers", loaded |-> loaded, answered |-> answered,
    boundaries |-> [i \in 1 .. n |-> [id |-> 10 + i, anchor |-> anchor[i], position |-> position[i]]]] :
     loaded \in {{}, {1}, {2, 3}, {1, 2, 3}}, answered \in {{}, {2}, {1, 2}}, n \in 1 .. 2,
     anchor \in [1 .. 2 -> {None, 1, 2, 3}], position \in [1 .. 2 -> {"before", "after-user", "after"}]}

Units(loaded, answered) ==
  FlattenSeq([i \in 1 .. 3 |->
    IF i \notin loaded THEN <<>>
    ELSE <<[id |-> i, part |-> "user"]>>
           \o (IF i \in answered THEN <<[id |-> i, part |-> "answer"]>> ELSE <<>>)])

Ledgers ==
  {[kind |-> "ledger", changed |-> changed, values |-> values] :
     changed \in [1 .. 2 -> SUBSET {"mood", "affinity", "signature"}], values \in [1 .. 2 -> {0, 1}]}

Bubbles ==
  {[kind |-> "bubble", side |-> side, kinds |-> kinds] : side \in {"incoming", "outgoing"},
     kinds \in UNION {[1 .. n -> {"text", "image", "voice", "notice"}] : n \in 0 .. 5}}

\* The rows of a ledger: a seed, then each row the one before with its changes.
LedgerRow(ledger, n) ==
  LET Value(dimension, k) ==
        LET set == {i \in 1 .. k - 1 : dimension \in ledger.changed[i]}
        IN  IF set = {} THEN 5 ELSE ledger.values[Max(set)]
  IN  [seed |-> n = 1, changed |-> IF n = 1 THEN {} ELSE ledger.changed[n - 1],
       state |-> [dimension \in {"mood", "affinity", "signature"} |-> Value(dimension, n)]]

\* A compaction keeps the newest answered rounds, as many as its number and its
\* budget allow and the newest in any case, and the whole of an unfinished turn
\* (partner.ts:39-64); markers do not move the units, are lost only with their
\* message, stand on their side of it and keep their order (lib/continuity.ts);
\* a bubble shows every image, text and voice of its message once, images that
\* follow each other side by side (Companion.svelte:316-342); and the changes the
\* drawer lists lead from the seed to the current state (relationship-history.ts).
TimelineKept ==
  /\ case.kind = "rounds" =>
       LET rounds == SelectSeq(case.rows, LAMBDA row : row.answered)
           kept == Retained(case.rows)
           n == Len(kept)
           Cost(k) == MapThenSumSet(LAMBDA i : rounds[i].cost, Len(rounds) - k + 1 .. Len(rounds))
           history == [i \in 1 .. Len(case.roles) |-> [role |-> case.roles[i]]]
           suffix == Unfinished(case.phase, history)
       IN  /\ kept = Newest(rounds, n) /\ n <= RetainedRounds
           /\ rounds # <<>> => n >= 1
           /\ n > 1 => Cost(n) <= RetainedBudget
           /\ n < Len(rounds) /\ n < RetainedRounds => Cost(n + 1) > RetainedBudget
           /\ IsSuffix(suffix, Replacement(case.rows, case.phase, history))
           /\ case.phase = "mid_turn" /\ suffix # <<[role |-> "error"]>> =>
                /\ IsSuffix(suffix, history)
                /\ {i \in 1 .. Len(suffix) : suffix[i].role = "user"} = {1}
  /\ case.kind = "markers" =>
       LET units == Units(case.loaded, case.answered)
           shown == InsertCompactBoundaries(units, case.boundaries)
           At(id, part) == {i \in 1 .. Len(shown) : shown[i].id = id /\ shown[i].part = part}
       IN  /\ SelectSeq(shown, LAMBDA unit : unit.part # "marker") = units
           /\ \A i \in 1 .. Len(case.boundaries) :
                LET boundary == case.boundaries[i]
                    marker == At(boundary.id, "marker")
                    around == At(boundary.anchor, "user")
                IN  IF boundary.anchor # None /\ boundary.anchor \notin case.loaded THEN marker = {}
                    ELSE /\ Cardinality(marker) = 1
                         /\ \A m \in marker, u \in around :
                              boundary.position = "before" <=> m < u
                         /\ \A m \in marker, a \in At(boundary.anchor, "answer") :
                              boundary.position = "after" <=> m > a
                         /\ \A j \in 1 .. i - 1, m \in marker :
                              case.boundaries[j].anchor = boundary.anchor
                                /\ case.boundaries[j].position = boundary.position =>
                              \A k \in At(case.boundaries[j].id, "marker") : k < m
  /\ case.kind = "bubble" =>
       LET items == [i \in 1 .. Len(case.kinds) |-> [id |-> i, kind |-> case.kinds[i]]]
           parts == MessageContentParts(case.side, items)
           shown == FlattenSeq([i \in 1 .. Len(parts) |-> parts[i].items])
           Of(sequence, kinds) == SelectSeq(sequence, LAMBDA item : item.kind \in kinds)
       IN  /\ Of(shown, {"image"}) = Of(items, {"image"})
           /\ Of(shown, {"text", "voice"}) = Of(items, {"text", "voice"})
           /\ Len(shown) = Cardinality({i \in 1 .. Len(items) : items[i].kind # "notice"})
           /\ case.side = "incoming" => shown = Of(items, {"text", "image", "voice"})
           /\ \A i \in 1 .. Len(parts) - 1 : parts[i].kind = "images" => parts[i + 1].kind = "item"
           /\ \A i \in 1 .. Len(parts) :
                parts[i].kind = "images" <=> \E j \in 1 .. Len(parts[i].items) : parts[i].items[j].kind = "image"
  /\ case.kind = "ledger" =>
       \A dimension \in {"mood", "affinity", "signature"} :
         LET Told(n) == CompanionHistoryChanges(LedgerRow(case, n), IF n = 1 THEN <<>> ELSE <<LedgerRow(case, n - 1)>>)
             Of(n) == SelectSeq(Told(n), LAMBDA c : c.dimension = dimension)
             After(n) == IF Of(n) = <<>> THEN LedgerRow(case, n - 1).state[dimension] ELSE Of(n)[1].after
         IN  \A n \in 2 .. 3 : /\ After(n) = LedgerRow(case, n).state[dimension]
                              /\ Of(n) # <<>> => Of(n)[1].before = LedgerRow(case, n - 1).state[dimension]

-----------------------------------------------------------------------------
(* Text the model writes, of up to five characters, and numbers the page   *)
(* shows.                                                                  *)

Classes == {"a", "s", "n", "c", "l", "r", "<", ">"}
Writings == [kind : {"writing"}, text : UNION {[1 .. n -> Classes] : n \in 0 .. 4}
                                    \cup {<<"l">> \o t : t \in [1 .. 4 -> {"a", "s", "n", "c", "r"}]}]

Updates ==
  {[kind |-> "update", keys |-> keys, value |-> value, note |-> note, reason |-> reason, delta |-> delta] :
     keys \in SUBSET {"mood", "affinity", "other"}, value \in {"tired", "angry"},
     note \in {Absent, <<"s">>, <<"a", "n", "a">>, <<"a", "a", "a">>},
     reason \in {<<"s", "s">>, <<"a">>, <<"a", "a", "a", "a">>}, delta \in {-11, -10, 0, 10, 11}}

Tokens == [kind : {"tokens"}, n : {0, 49, 50, 949, 950, 999, 1000, 1499, 1500, 99499, 99500}]
            \cup [kind : {"affinity"}, n : 0 .. 99]
            \cup [kind : {"elapsed"}, n : {-1, 0, 999, 1000, 59999, 60000, 119999, 600000}]
            \cup [kind : {"capacity"}, window : {Absent, 0, 1, 3, 200}, projected : {Absent, -1, 0, 1, 199, 300},
                  pressure : {Absent, -1, 1, 150}]
Shapes == [kind : {"picture"}, width : {0, 1, 2, 5, 59, 60, 240, 241, 961, 5000},
           height : {0, 1, 3, 6, 60, 240, 241, 959, 5000}]
            \cup [kind : {"composer"}, scroll : {-1, 0, 10, 43, 150, 151}, least : {0, 43, 60}, most : {20, 60, 150}]
Throws == [kind : {"dice"}, count : {0, 1, 2, 101}, sides : {1, 2, 1000000}, modifier : {-1000000, 0, 3}]
Reads == [kind : {"page"}, keys : SUBSET {"limit", "before", "other"}, limit : {Absent, 0, 1, 20, 21},
          before : {Absent, -1, 0, 7}]

\* A signature is stored in its final form: reading it as a signature again
\* changes nothing, and no link or tag appears by what was taken out of it.  An
\* update is taken with every part it has, each within its limits, or not at all
\* (domain.ts).
StateTextSettled ==
  /\ case.kind = "writing" =>
       LET signature == CanonicalizeSignature(case.text)
           note == CanonicalizeMoodNote(case.text)
           reason == CanonicalizeChangeReason(case.text)
       IN  /\ signature # Invalid =>
                /\ CanonicalizeSignature(signature) = signature
                /\ Len(signature) <= MaxSignature
                /\ ~HasUrl(signature) /\ ~HasMarkup(signature)
                /\ \A i \in 1 .. Len(signature) : signature[i] \notin Control
           /\ note \notin {Invalid, Absent} =>
                Len(note) \in 1 .. MaxNote /\ \A i \in 1 .. Len(note) : note[i] \notin Control
           /\ reason # Invalid => Len(reason) \in 1 .. MaxReason
           /\ {i \in 1 .. Len(case.text) : case.text[i] \notin Blank \cup Control} = {}
                /\ (\A i \in 1 .. Len(case.text) : case.text[i] \in Blank) => reason = Invalid
  /\ case.kind = "update" =>
       LET part == [object |-> TRUE, keys |-> {"reason"}, value |-> case.value, note |-> case.note,
                    reason |-> case.reason, delta |-> case.delta]
           update == CanonicalizeRelationshipUpdate(
                       [object |-> TRUE, keys |-> case.keys, mood |-> part, affinity |-> part])
       IN  update # Invalid =>
             /\ DOMAIN update = case.keys /\ case.keys # {}
             /\ "affinity" \in case.keys => case.delta \in -10 .. 10
             /\ "mood" \in case.keys => case.value \in Moods
  /\ case.kind = "page" =>
       LET page == CanonicalizeHistoryPageRead(
                     [object |-> TRUE, keys |-> case.keys, limit |-> case.limit, before |-> case.before])
       IN  page # Invalid => page.limit \in 1 .. MaxHistoryLimit /\ page.before \in {Absent} \cup Nat

\* What the page rounds stays in its range and in order: the meter is a
\* percentage and hides malformed telemetry, a larger count is never shown
\* smaller, a picture stays within its cap and, up to one pixel, within four to
\* one without growing its long edge, the composer within its bounds, the dice
\* within what they can show, and a stage never falls as affinity rises
\* (continuity.ts, media.ts, composer.ts, dice-core.ts, domain.ts:339-353).
DisplayRounds ==
  /\ case.kind = "tokens" =>
       LET Shown(n) == LET f == FormatTokenCount(n) IN f.shown * (IF f.thousands THEN 1000 ELSE 1)
       IN  \A d \in {0, 1, 50, 1000} : Shown(case.n) <= Shown(case.n + d)
  /\ case.kind = "capacity" =>
       LET meter == ResolveContextCapacity(case.window, case.projected, case.pressure)
       IN  /\ meter # Absent => meter.percentage \in 0 .. 100 /\ meter.usedTokens >= 0
           /\ case.projected = -1 => meter = Absent
  /\ case.kind = "picture" =>
       LET size == ResolveImageDisplaySize(case.width, case.height, 240)
       IN  /\ size.width \in 1 .. 240 /\ size.height \in 1 .. 240
           /\ 4 * size.width >= size.height - 2 /\ 4 * size.height >= size.width - 2
           /\ case.width > 0 /\ case.height > 0 =>
                Larger(size.width, size.height) <= Larger(case.width, case.height)
  /\ case.kind = "composer" =>
       LET style == ResolveComposerHeight(case.scroll, case.least, case.most)
       IN  /\ style.height >= 43 /\ style.height <= 150
           /\ style.scrollable => style.height < case.scroll
           /\ ~style.scrollable => style.height >= case.scroll
  /\ case.kind = "dice" =>
       LET args == [keys |-> {}, count |-> case.count, sides |-> case.sides, modifier |-> case.modifier, label |-> 0]
           low == RollDice(args, [i \in 1 .. 100 |-> 1])
           high == RollDice(args, [i \in 1 .. 100 |-> case.sides])
       IN  low # Invalid => /\ low.total = case.modifier + case.count
                            /\ high.total = case.modifier + case.count * case.sides
  /\ case.kind = "elapsed" =>
       LET Ms(shown) == 60000 * shown.minutes + 1000 * shown.seconds
           shown == FormatVoiceElapsed(case.n)
       IN  shown.seconds \in 0 .. 59 /\ Ms(shown) <= Larger(0, case.n) /\ case.n < Ms(shown) + 1000
  /\ case.kind = "affinity" => AffinityStage(case.n) <= AffinityStage(case.n + 1)

-----------------------------------------------------------------------------
(* What happens at the composer, up to four events from an empty composer  *)
(* or from one where a message is on its way and another is being composed *)
(* with an input method.                                                   *)

Keys == [type : {"key"}, key : {"Enter", "Tab"}, shift : BOOLEAN] \ {[type |-> "key", key |-> "Tab", shift |-> TRUE]}
Happenings ==
  Keys \cup [type : {"compositionstart", "suggestion", "send", "image", "failed"}]
       \cup [type : {"input"}, value : {<<"/">>, <<"s", "a", "s">>, <<"a", "a", "a", "a">>}]
       \cup [type : {"compositionend"}, value : {<<"a">>, <<"s">>}]
       \cup [type : {"transcript"}, value : {<<"a", "a">>}]
Composing == [CreateComposerState EXCEPT !.draft = <<"a">>, !.composing = TRUE, !.ime = TRUE,
                !.sent = <<[text |-> <<"a">>, restore |-> <<"a", "s">>, images |-> 1]>>]
Typing ==
  \E n \in 1 .. 4, from \in {CreateComposerState, Composing} : \E events \in [1 .. n -> Happenings] :
    case' = [kind |-> "typing", from |-> from, events |-> events]

\* The composer does not get stuck or lose anything, whatever happened before.
\* Enter pressed while an input method composes never sends, also when the page
\* forgot of the composition; once nothing composes, the button sends what it
\* offers to send, and so does Enter unless it completes a command; what is sent
\* is what was written, without the space around it, within the limit and never
\* nothing; and what a failed message or a transcript brings back joins the
\* draft (composer.ts:65-100, Companion.svelte:457-479, 931-944, 1117-1156).
TypingKept ==
  case.kind = "typing" =>
    LET before == FoldLeft(Handle, case.from, Front(case.events))
        event == Last(case.events)
        state == Handle(before, event)
        enter == [type |-> "key", key |-> "Enter", shift |-> FALSE]
        Images(s) == s.images + FoldLeft(LAMBDA n, message : n + message.images, 0, s.sent)
        Sends(e) == LET after == Handle(state, e)
                    IN  Len(after.sent) = Len(state.sent) + 1 /\ after.draft = <<>> /\ after.images = 0
    IN  /\ state.composing => state.ime
        /\ Len(state.sent) > Len(before.sent) =>
             /\ event.type = "key" => ~before.ime
             /\ Last(state.sent).text = Trimmed(before.draft)
             /\ Len(Last(state.sent).text) <= MaxText
             /\ Last(state.sent).text # <<>> \/ Last(state.sent).images > 0
        /\ Images(state) = Images(before) + (IF event.type = "image" THEN 1 ELSE 0)
        /\ event.type = "failed" => IsSuffix(before.draft, state.draft)
        /\ Len(state.sent) < Len(before.sent) => IsPrefix(Last(before.sent).restore, state.draft)
        /\ event.type = "transcript" => IsPrefix(before.draft, state.draft) /\ IsSuffix(event.value, state.draft)
        /\ ~state.ime /\ SendEnabled(state) =>
             /\ Sends([type |-> "send"])
             /\ CommandSuggestion(state) = NoCommand => Sends(enter)
        /\ ~state.ime /\ CommandSuggestion(state) # NoCommand =>
             Handle(state, enter) = [state EXCEPT !.draft = Command]

-----------------------------------------------------------------------------
(* Waits of up to four events, presses of up to five, and previews of up   *)
(* to seven.                                                               *)

\* A projection may hold an image being drawn (projection.ts:28-32); the route
\* +page.svelte itself shows an image only with the answer it belongs to.
Item(id, side, kind, state) == [id |-> id, side |-> side, kind |-> kind, state |-> state]
Answered == <<Item("a", "incoming", "text", "done")>>
Asked == Answered \o <<Item("b", "outgoing", "text", "done")>>
Shown == {<<>>, Answered, Asked, <<Item("z", "incoming", "text", "done")>> \o Asked}
           \cup {Asked \o <<Item("c", "incoming", "image", state)>> : state \in {"running", "ready"}}
WaitEvents == [type : {"sync"}, running : BOOLEAN, items : Shown]
                \cup [type : {"delay", "rotate"}, n : {0, 1}]
Presses == [type : {"down"}, id : {1, 2}] \cup [type : {"up"}, id : {1, 2}, held : BOOLEAN]
             \cup [type : {"cancel", "click"}]
Viewing ==
  \/ \E n \in 1 .. 4 : \E events \in [1 .. n -> WaitEvents] : case' = [kind |-> "wait", events |-> events]
  \/ \E n \in 1 .. 5 : \E events \in [1 .. n -> Presses] : case' = [kind |-> "press", events |-> events]
  \/ \E events \in [1 .. 6 -> {"show", "button", "escape", "closed", "back", "arrives"}] :
       case' = [kind |-> "preview", events |-> <<"show">> \o events]

NewestAnswer(items) ==
  LET given == {i \in 1 .. Len(items) : items[i].side = "incoming" /\ items[i].state # "running"}
  IN  IF given = {} THEN {} ELSE {items[Max(given)].id}

\* A wait goes on while an answer is being written and no image is drawn for it,
\* until another answer is there: a message sent meanwhile and older history do
\* not begin it again, an image being drawn ends it.  Its words are shown exactly
\* when its own delay has passed, other words at each change, by the one timer it
\* has; no timer and no words outlive it
\* (Companion.svelte:268-284, 443-455, 485-490, 570-593).
WaitKept ==
  case.kind = "wait" =>
    LET n == Len(case.events)
        event == case.events[n]
        before == FoldLeft(Wait, NotWaiting, Front(case.events))
        state == Wait(before, event)
        Syncs == {i \in 1 .. n : case.events[i].type = "sync"}
        Going(i) == /\ case.events[i].running
                    /\ \A k \in 1 .. Len(case.events[i].items) : case.events[i].items[k].state # "running"
        Same(i, j) == NewestAnswer(case.events[i].items) = NewestAnswer(case.events[j].items)
        last == Max(Syncs \cup {0})
        start == Min({i \in Syncs : \A j \in Syncs : j >= i => Going(j) /\ Same(j, last)})
    IN  IF last = 0 \/ ~Going(last) THEN state.copy = "" /\ state.live = {}
        ELSE /\ Cardinality(state.live) = 1
             /\ state.copy # "" <=> \E d \in start + 1 .. n : case.events[d].type = "delay"
             /\ event.type = "rotate" /\ before.copy # "" => state.copy \notin {"", before.copy}

\* A long press opens the camera once, by the finger that began it, and costs at
\* most one click on the library (Companion.svelte:1209-1233).
PressKept ==
  case.kind = "press" =>
    LET Ups(n) == {i \in 1 .. n : case.events[i].type = "up" /\ case.events[i].held}
        state == FoldLeft(Press, Untouched, case.events)
        \* The camera is opened by a finger held since it was the last to come down.
        Opens(i) == \E j \in 1 .. i - 1 :
          /\ case.events[j] = [type |-> "down", id |-> case.events[i].id]
          /\ \A k \in j + 1 .. i - 1 :
               /\ case.events[k].type \notin {"down", "cancel"}
               /\ case.events[k].type = "up" => case.events[k].id # case.events[i].id
        clicks == {i \in 1 .. Len(case.events) : case.events[i].type = "click"}
    IN  /\ state.camera = Cardinality({i \in Ups(Len(case.events)) : Opens(i)})
        /\ state.library + state.ignored = Cardinality(clicks)
        /\ state.ignored <= state.camera

\* The preview has an entry of its own in the browser's history exactly while it
\* is shown, however it is closed: the step back never leaves the page, and none
\* is left over.  Only what crosses a step back that is still under way is
\* excepted (Companion.svelte:1316-1321, 1340-1372, 1393-1422).
PreviewKept ==
  case.kind = "preview" =>
    LET state == FoldLeft(Preview, NoPreview, case.events)
    IN  ~state.crossed =>
          /\ state.entries >= state.travels
          /\ state.lightbox /\ ~state.closing => state.dialog
          /\ ~state.closing /\ state.travels = 0 =>
               /\ state.entries = IF state.lightbox THEN 1 ELSE 0
               /\ state.overlay = state.lightbox /\ ~state.fromHistory

-----------------------------------------------------------------------------
(* Tags of two to four numbers, with something before and after them.      *)

Numbers == {<<>>, <<"0">>, <<"1">>, <<"0", "1">>, <<"1", "0">>, <<"x">>}
Joined(numbers) ==
  FlattenSeq([i \in 1 .. Len(numbers) |-> IF i = 1 THEN numbers[i] ELSE <<".">> \o numbers[i]])
Leads == {<<>>, <<"v">>, <<" ", "v">>, <<"v", "v">>}
Trails == {<<>>, <<" ">>, <<"-full">>}
Names ==
  {[kind |-> "tag", numbers |-> numbers, lead |-> lead, trail |-> trail, slash |-> slash] :
     numbers \in UNION {[1 .. n -> Numbers] : n \in 2 .. 4}, lead \in Leads, trail \in Trails, slash \in BOOLEAN}

\* A tag is taken exactly when a "v" and a version that is taken by itself make
\* it up, and two versions never share a reference, neither the rolling names nor
\* the full image of another version (dagger/src/release.ts).
ReleaseNamesDistinct ==
  case.kind = "tag" =>
    LET plain == Joined(case.numbers)
        tag == case.lead \o plain \o case.trail
        registry == <<"ghcr.io/lamplitisles">>
        release == ParseStableReleaseTag(tag)
        names == PublishReferences(tag, IF case.slash THEN Append(registry, "/") ELSE registry)
        Immutable(version) == LET r == ReferencesForVersion(version, registry)
                              IN  IF r = NoName THEN {} ELSE {r.core, r.full}
    IN  /\ release # NoName <=> /\ case.lead \in {<<"v">>, <<" ", "v">>}
                               /\ ParseVersion(plain) = plain /\ case.trail # <<"-full">>
        /\ release # NoName =>
             /\ release.version = plain /\ names = ReferencesForVersion(plain, registry)
             /\ Cardinality({names.core, names.full, names.rollingCore, names.rollingFull}) = 4
        /\ plain \o case.trail \notin {plain, plain \o <<" ">>} =>
             Immutable(plain) \cap Immutable(plain \o case.trail) = {}

\* What a model or an operator writes is taken in one form or not at all, what the
\* page makes of numbers keeps their order, and a photo button press has one
\* meaning.
RulesHold == StateTextSettled /\ DisplayRounds /\ PressKept /\ ReleaseNamesDistinct

-----------------------------------------------------------------------------
Init == case = Nothing

Media == case = Nothing /\ (case' \in Recordings \/ case' \in Transcripts \/ case' \in Attachments
                            \/ case' \in Texts \/ case' \in Requests)
Order == case = Nothing /\ (case' \in Conversations \/ case' \in Markers \/ case' \in Ledgers \/ case' \in Bubbles)
Rules == case = Nothing /\ (case' \in Writings \/ case' \in Updates \/ case' \in Tokens \/ case' \in Shapes
                            \/ case' \in Throws \/ case' \in Reads)

Uses == case = Nothing /\ (Typing \/ Viewing \/ case' \in Names)

Next == Media \/ Order \/ Rules \/ Uses
Spec == Init /\ [][Next]_case
=============================================================================
