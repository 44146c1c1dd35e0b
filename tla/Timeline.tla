------------------------------ MODULE Timeline ------------------------------
(***************************************************************************)
(* Pure functions that decide what a conversation looks like: which rounds *)
(* a compaction keeps (replacement in partner.ts), where the page puts the *)
(* compaction markers (insertCompactBoundaries in lib/continuity.ts), how  *)
(* a message's bubble is laid out (messageContentParts in                  *)
(* Companion.svelte), and what the drawer tells of a row of the            *)
(* relationship ledger (companionHistoryChanges).                          *)
(***************************************************************************)
EXTENDS Integers, Sequences, SequencesExt

CONSTANT None               \* null, or a value that is not known

-----------------------------------------------------------------------------
(* Retained rounds.  A row is [id, answered, cost]; the cost is the        *)
(* estimate of its text and answer in tokens.                              *)

CONSTANTS RetainedRounds,   \* 5 in the code
          RetainedBudget    \* 4000 in the code

ASSUME RetainedAssumption == RetainedRounds \in Nat \ {0} /\ RetainedBudget \in Nat

Newest(rows, n) == SubSeq(rows, IF Len(rows) > n THEN Len(rows) - n + 1 ELSE 1, Len(rows))

\* Mistaken: a round over the budget is passed over, and older ones still taken.
RetainedCheapest(rows) ==
  LET completed == Newest(SelectSeq(rows, LAMBDA row : row.answered), RetainedRounds)
      Step(kept, row) ==
        IF kept.rounds # <<>> /\ kept.budget + row.cost > RetainedBudget THEN kept
        ELSE [kept EXCEPT !.rounds = <<row>> \o @, !.budget = @ + row.cost]
  IN  FoldLeft(Step, [rounds |-> <<>>, budget |-> 0], Reverse(completed)).rounds

\* The loop from the newest round to the oldest, which ends at the first round
\* over the budget and always takes the newest.
Retained(rows) ==
  LET completed == Newest(SelectSeq(rows, LAMBDA row : row.answered), RetainedRounds)
      Step(kept, row) ==
        IF kept.ended THEN kept
        ELSE IF kept.rounds # <<>> /\ kept.budget + row.cost > RetainedBudget
        THEN [kept EXCEPT !.ended = TRUE]
        ELSE [kept EXCEPT !.rounds = <<row>> \o @, !.budget = @ + row.cost]
  IN  FoldLeft(Step, [rounds |-> <<>>, budget |-> 0, ended |-> FALSE], Reverse(completed)).rounds

\* In the middle of a turn the history from its last user message is kept as it is.
Unfinished(phase, history) ==
  LET users == {i \in 1 .. Len(history) : history[i].role = "user"}
  IN  IF phase # "mid_turn" THEN <<>>
      ELSE IF users = {} THEN <<[role |-> "error"]>>
      ELSE SubSeq(history, CHOOSE i \in users : \A j \in users : j <= i, Len(history))

\* The context that replaces the old one: the summary, then the retained rounds,
\* then the unfinished suffix.
Replacement(rows, phase, history) ==
  <<[role |-> "summary"]>>
    \o FlattenSeq([i \in 1 .. Len(Retained(rows)) |->
                     <<[role |-> "user", id |-> Retained(rows)[i].id],
                       [role |-> "assistant", id |-> Retained(rows)[i].id]>>])
    \o Unfinished(phase, history)

-----------------------------------------------------------------------------
(* Markers.  A unit of the timeline is [id, part] with part "user" or      *)
(* "answer"; a boundary is [id, anchor, position].                         *)

IndexOf(units, id, part) ==
  LET found == {i \in 1 .. Len(units) : units[i].id = id /\ units[i].part = part}
  IN  IF found = {} THEN 0 ELSE CHOOSE i \in found : \A j \in found : i <= j

\* The number of units before the marker, or -1 when its anchor is not visible.
Slot(units, boundary) ==
  LET user == IndexOf(units, boundary.anchor, "user")
      answer == IndexOf(units, boundary.anchor, "answer")
  IN  IF boundary.anchor = None THEN 0
      ELSE IF user = 0 THEN -1
      ELSE IF boundary.position = "before" THEN user - 1
      ELSE IF boundary.position = "after-user" \/ answer = 0 THEN user
      ELSE answer

InsertCompactBoundaries(units, boundaries) ==
  LET At(index) == SelectSeq(boundaries, LAMBDA b : Slot(units, b) = index)
      Marks(index) == [i \in 1 .. Len(At(index)) |-> [id |-> At(index)[i].id, part |-> "marker"]]
  IN  FlattenSeq([k \in 1 .. Len(units) + 1 |->
        Marks(k - 1) \o (IF k <= Len(units) THEN <<units[k]>> ELSE <<>>)])

-----------------------------------------------------------------------------
(* A bubble.  An item is [id, kind]; a part is one item, or images side by *)
(* side.                                                                   *)

Content(items) == SelectSeq(items, LAMBDA item : item.kind \in {"text", "image", "voice"})
Single(items) == [i \in 1 .. Len(items) |-> [kind |-> "item", items |-> <<items[i]>>]]

\* Images that follow each other stand side by side.
Grouped(items) ==
  LET Put(parts, item) ==
        CASE item.kind # "image" -> parts \o Single(<<item>>)
          [] parts # <<>> /\ Last(parts).kind = "images" ->
               Front(parts) \o <<[kind |-> "images", items |-> Append(Last(parts).items, item)]>>
          [] OTHER -> Append(parts, [kind |-> "images", items |-> <<item>>])
  IN  FoldLeft(Put, <<>>, items)

\* What the user sent shows all its images first.
MessageContentParts(side, items) ==
  LET images == SelectSeq(Content(items), LAMBDA item : item.kind = "image")
      rest == SelectSeq(Content(items), LAMBDA item : item.kind # "image")
  IN  IF side # "outgoing" THEN Grouped(Content(items))
      ELSE (IF images = <<>> THEN <<>> ELSE <<[kind |-> "images", items |-> images]>>) \o Single(rest)

-----------------------------------------------------------------------------
(* The drawer.  A row of the ledger is [seed, changed, state], with the    *)
(* set of the dimensions it changed and the whole state after it.          *)

Dimensions == <<"mood", "affinity", "signature">>

\* The changes of one row, in this order, with the value before when the row
\* before is known.
CompanionHistoryChanges(row, predecessor) ==
  IF row.seed THEN <<>>
  ELSE LET Change(dimension) ==
             [dimension |-> dimension,
              before    |-> IF predecessor = <<>> THEN None ELSE predecessor[1].state[dimension],
              after     |-> row.state[dimension]]
           changed == SelectSeq(Dimensions, LAMBDA dimension : dimension \in row.changed)
       IN  [i \in 1 .. Len(changed) |-> Change(changed[i])]
=============================================================================
