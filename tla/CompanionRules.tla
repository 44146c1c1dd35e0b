--------------------------- MODULE CompanionRules ---------------------------
(***************************************************************************)
(* The rules of domain.ts for what a model may write into the companion's  *)
(* state, and the small arithmetic of what the page shows: the capacity of *)
(* the context (companion/continuity.ts), the size of a picture            *)
(* (media.ts), the height of the composer (composer.ts) and the dice       *)
(* (dice-core.ts).                                                         *)
(*                                                                         *)
(* Text is a sequence of the classes of characters the rules tell apart:   *)
(* "a" a letter, "s" a space, "n" a line break, "c" another control        *)
(* character, "l" and "r" the halves that side by side make a link, "<"    *)
(* and ">" the ends of a tag.  An unknown value is a record of the facts   *)
(* the checks look at; Invalid stands for a CompanionValidationError.      *)
(***************************************************************************)
EXTENDS Integers, Sequences, SequencesExt, FiniteSetsExt

CONSTANTS Invalid,         \* a value that is refused
          Absent           \* undefined

ASSUME ValueAssumption == Invalid # Absent

-----------------------------------------------------------------------------
(* Text.                                                                   *)

CONSTANTS MaxNote,         \* 40 in the code, as code points
          MaxReason,       \* 160
          MaxSignature     \* 80

ASSUME TextAssumption == {MaxNote, MaxReason, MaxSignature} \subseteq Nat

Blank == {"s", "n"}                      \* what trim() removes
Control == {"n", "c"}                    \* CONTROL_CHARACTERS

Trim(text) ==
  LET solid == {i \in 1 .. Len(text) : text[i] \notin Blank}
  IN  IF solid = {} THEN <<>> ELSE SubSeq(text, Min(solid), Max(solid))

WithoutControl(text) == SelectSeq(text, LAMBDA c : c \notin Control)

\* Every run of characters of `kind` becomes one space.
Collapse(text, kind) ==
  FoldLeft(LAMBDA out, c : IF c \notin kind THEN Append(out, c)
                           ELSE IF out # <<>> /\ Last(out) = "s" THEN out
                           ELSE Append(out, "s"),
           <<>>, text)

\* canonicalizeMoodNote: nothing is as good as an empty note.
CanonicalizeMoodNote(text) ==
  LET normalized == WithoutControl(Trim(text))
  IN  IF text = Absent \/ normalized = <<>> THEN Absent
      ELSE IF Len(normalized) > MaxNote THEN Invalid
      ELSE normalized

CanonicalizeChangeReason(text) ==
  LET normalized == WithoutControl(Trim(text))
  IN  IF normalized = <<>> \/ Len(normalized) > MaxReason THEN Invalid ELSE normalized

\* URL_PATTERN and MARKUP_PATTERN, on the classes of this module.
HasUrl(text) == \E i \in 1 .. Len(text) - 1 : text[i] = "l" /\ text[i + 1] = "r"
HasMarkup(text) == \E i \in 1 .. Len(text) : \E j \in i + 1 .. Len(text) : text[i] = "<" /\ text[j] = ">"

\* Mistaken: trimmed before the control characters are taken out.
SignatureTrimmedFirst(text) ==
  Collapse(WithoutControl(Collapse(Trim(text), {"n"})), {"s"})

SignatureText(text) ==
  Trim(Collapse(WithoutControl(Collapse(text, {"n"})), {"s"}))

CanonicalizeSignature(text) ==
  LET normalized == SignatureText(text)
  IN  IF HasUrl(normalized) \/ HasMarkup(normalized) \/ Len(normalized) > MaxSignature
      THEN Invalid ELSE normalized

-----------------------------------------------------------------------------
(* A relationship update as the model writes it: [object, keys, mood,      *)
(* affinity], where `keys` are the fields present and a part is itself     *)
(* [object, keys, ...].  The result is the update, or Invalid.             *)

Moods == {"neutral", "serene", "bright", "playful", "tender", "pensive", "tired", "low"}

\* A field that is absent is given as Absent by whoever reads it.
CanonicalizeMood(mood) ==
  LET note == CanonicalizeMoodNote(mood.note)
      reason == CanonicalizeChangeReason(mood.reason)
  IN  IF \/ ~mood.object \/ ~(mood.keys \subseteq {"value", "note", "reason"})
         \/ mood.value \notin Moods \/ note = Invalid \/ reason = Invalid
      THEN Invalid
      ELSE [value |-> mood.value, note |-> note, reason |-> reason]

CanonicalizeAffinity(affinity) ==
  LET reason == CanonicalizeChangeReason(affinity.reason)
  IN  IF \/ ~affinity.object \/ ~(affinity.keys \subseteq {"delta", "reason"})
         \/ affinity.delta \notin -10 .. 10 \/ reason = Invalid
      THEN Invalid
      ELSE [delta |-> affinity.delta, reason |-> reason]

CanonicalizeRelationshipUpdate(update) ==
  LET parts == update.keys \cap {"mood", "affinity"}
      Part(name) == IF name = "mood" THEN CanonicalizeMood(update.mood)
                    ELSE CanonicalizeAffinity(update.affinity)
  IN  IF \/ ~update.object \/ ~(update.keys \subseteq {"mood", "affinity"})
         \/ parts = {} \/ \E name \in parts : Part(name) = Invalid
      THEN Invalid
      ELSE [name \in parts |-> Part(name)]

DefaultHistoryLimit == 10
MaxHistoryLimit == 20

\* canonicalizeHistoryPageRead: a page of the history by its limit and the
\* exclusive position before which it ends.
CanonicalizeHistoryPageRead(read) ==
  LET limit == IF read.limit = Absent THEN DefaultHistoryLimit ELSE read.limit
  IN  IF \/ ~read.object \/ ~(read.keys \subseteq {"limit", "before"})
         \/ limit \notin 1 .. MaxHistoryLimit
         \/ read.before # Absent /\ read.before \notin Nat
      THEN Invalid
      ELSE [limit |-> limit, before |-> read.before]

AffinityStage(affinity) ==
  IF affinity < 20 THEN 1 ELSE IF affinity < 40 THEN 2
  ELSE IF affinity < 60 THEN 3 ELSE IF affinity < 80 THEN 4 ELSE 5

-----------------------------------------------------------------------------
(* What the page shows.                                                    *)

Smaller(a, b) == IF a < b THEN a ELSE b
Larger(a, b) == IF a > b THEN a ELSE b

Round(a, b) == (2 * a + b) \div (2 * b)            \* Math.round(a / b)

\* Mistaken: a projection beyond the window is shown as it is.
CapacityUnbounded(window, projected, pressure) ==
  LET selected == IF projected = Absent THEN pressure ELSE projected
  IN  IF window = Absent \/ window \notin Nat \ {0} \/ selected = Absent \/ selected \notin Nat
      THEN Absent
      ELSE [usedTokens |-> selected, contextWindow |-> window,
            percentage |-> Round(selected * 100, window)]

\* resolveContextCapacity: a projection that is present is used even when it is
\* malformed, which hides the meter.
ResolveContextCapacity(window, projected, pressure) ==
  LET selected == IF projected = Absent THEN pressure ELSE projected
  IN  IF window = Absent \/ window \notin Nat \ {0} \/ selected = Absent \/ selected \notin Nat
      THEN Absent
      ELSE [usedTokens |-> selected, contextWindow |-> window,
            percentage |-> Smaller(100, Larger(0, Round(selected * 100, window)))]

RoundTokenEstimate(tokens) ==
  LET unit == IF tokens >= 1000 THEN 1000 ELSE 100
  IN  Round(tokens, unit) * unit

\* The compact display, as the number it shows and whether it is followed by "k".
FormatTokenCount(tokens) ==
  LET rounded == RoundTokenEstimate(tokens)
  IN  IF rounded >= 1000 THEN [shown |-> Round(rounded, 1000), thousands |-> TRUE]
      ELSE [shown |-> rounded, thousands |-> FALSE]

\* resolveImageDisplaySize, in whole pixels.
ResolveImageDisplaySize(width, height, cap) ==
  LET long == Larger(width, height)
      Scaled(edge) == IF long <= cap THEN edge ELSE Larger(1, Round(edge * cap, long))
      w == Scaled(width)
      h == Scaled(height)
  IN  IF width <= 0 \/ height <= 0
      THEN [width |-> cap, height |-> Round(cap * 3, 4), cropped |-> FALSE]
      ELSE IF 4 * w < h THEN [width |-> Larger(1, Round(h, 4)), height |-> h, cropped |-> TRUE]
      ELSE IF w > 4 * h THEN [width |-> w, height |-> Larger(1, Round(w, 4)), cropped |-> TRUE]
      ELSE [width |-> w, height |-> h, cropped |-> FALSE]

\* resolveComposerHeight, of a measured height and the bounds of the style.
ResolveComposerHeight(scrollHeight, minHeight, maxHeight) ==
  LET minimum == IF minHeight > 0 THEN minHeight ELSE 43
      maximum == IF maxHeight >= minimum THEN maxHeight ELSE 150
      measured == IF scrollHeight > 0 THEN scrollHeight ELSE minimum
  IN  [height |-> Smaller(maximum, Larger(minimum, measured)), scrollable |-> measured > maximum]

\* formatVoiceElapsed, of milliseconds.
FormatVoiceElapsed(value) ==
  LET seconds == Larger(0, value \div 1000) IN [minutes |-> seconds \div 60, seconds |-> seconds % 60]

\* rollDice: the arguments within their ranges, then one draw per die.
DiceArguments(args) ==
  /\ args.keys \subseteq {"count", "sides", "modifier", "label"}
  /\ args.count \in 1 .. 100
  /\ args.sides \in 2 .. 1000000
  /\ args.modifier \in -1000000 .. 1000000
  /\ args.label <= 200

RollDice(args, draws) ==
  IF ~DiceArguments(args) THEN Invalid
  ELSE LET rolls == SubSeq(draws, 1, args.count)
       IN  [rolls |-> rolls, total |-> FoldLeft(LAMBDA a, b : a + b, args.modifier, rolls)]
=============================================================================
