----------------------------- MODULE ToolProofs -----------------------------
(***************************************************************************)
(* Proofs about the state the model's tools write: the relationship ledger,*)
(* for every scale, stride, baseline and number of turns, and the images   *)
(* of a conversation, for any number of messages, image calls, deaths and  *)
(* removed files.                                                          *)
(***************************************************************************)
EXTENDS Relationship, Attachments, TLAPS

(***************************************************************************)
(* The ledger.  TurnBound is not inductive by itself: a call that only     *)
(* sets mood copies the last row, which lies in the turn's range only      *)
(* because the last row belongs to the same turn.  TurnsInOrder and        *)
(* CurrentIsNewest supply that.                                            *)
(***************************************************************************)

(* Turns never interleave in the ledger: its rows are in execution order.   *)
TurnsInOrder ==
  \A i, j \in DOMAIN history : i < j => history[i].operation =< history[j].operation

(* No row belongs to a later operation than the running one, nor than the   *)
(* one the process attributes calls to.                                     *)
CurrentIsNewest ==
  /\ current =< turn
  /\ \A i \in DOMAIN history :
       /\ history[i].operation =< turn
       /\ current # 0 => history[i].operation =< current

LedgerInv == TypeOK /\ TurnsInOrder /\ CurrentIsNewest

LEMMA RowType == TypeOK => \A i \in DOMAIN history : history[i] \in Entry
  BY DEF TypeOK

LEMMA LatestType == TypeOK => Latest \in 0..Ceiling
<1> SUFFICES ASSUME TypeOK PROVE Latest \in 0..Ceiling
  OBVIOUS
<1>1. CASE history = <<>>
  BY <1>1, LedgerAssumption DEF Latest
<1>2. CASE history # <<>>
  <2>1. history \in Seq(Entry) /\ Len(history) \in 1..Len(history)
    BY <1>2 DEF TypeOK
  <2>2. history[Len(history)] \in Entry
    BY <2>1
  <2> QED BY <1>2, <2>2 DEF Latest, Entry
<1> QED BY <1>1, <1>2

(* What one appended row looks like, in the terms the proofs use.           *)
LEMMA AppendedRow ==
  ASSUME TypeOK, NEW c \in Calls, NEW delta \in Deltas \union {NoDelta}, Update(c, delta)
  PROVE  \E entry \in Entry :
           /\ entry.operation = current /\ entry.call = c /\ entry.previous = Latest
           /\ history' = Append(history, entry)
           /\ Len(history') = Len(history) + 1
           /\ \A i \in 1..Len(history) : history'[i] = history[i]
           /\ history'[Len(history) + 1] = entry
           /\ reply' = <<current, c, entry.affinity>>
           /\ \/ delta = NoDelta /\ entry.affinity = Latest
              \/ /\ delta \in Deltas
                 /\ \E base \in Bases(current) : entry.affinity = Moved(base, delta)
<1>1. PICK base \in Bases(current) :
        LET affinity == IF delta = NoDelta THEN Latest ELSE Moved(base, delta)
        IN /\ history' = Append(history, [operation |-> current, call |-> c,
                                          previous |-> Latest, affinity |-> affinity])
           /\ reply' = <<current, c, affinity>>
  BY DEF Update
<1> DEFINE affinity == IF delta = NoDelta THEN Latest ELSE Moved(base, delta)
           entry == [operation |-> current, call |-> c, previous |-> Latest, affinity |-> affinity]
<1>2. Latest \in 0..Ceiling
  BY LatestType
<1>3. base \in Int
  <2>1. \A i \in Firsts(current) : history[i].previous \in 0..Ceiling
    BY RowType DEF Entry, Firsts
  <2> QED BY <1>2, <2>1, LedgerAssumption DEF Bases
<1>4. affinity \in 0..Ceiling
  BY <1>2, <1>3, LedgerAssumption DEF Moved, ClampAffinity, AtLeast, AtMost
<1>5. entry \in Entry
  BY <1>2, <1>4 DEF Entry, TypeOK, Update
<1>6. history \in Seq(Entry) /\ history' = Append(history, entry)
  BY <1>1 DEF TypeOK
<1>7. /\ Len(history') = Len(history) + 1
      /\ \A i \in 1..Len(history) : history'[i] = history[i]
      /\ history'[Len(history) + 1] = entry
  BY <1>5, <1>6
<1>8. \/ delta = NoDelta /\ entry.affinity = Latest
      \/ /\ delta \in Deltas
         /\ entry.affinity = Moved(base, delta)
  OBVIOUS
<1> QED BY <1>1, <1>5, <1>6, <1>7, <1>8

-----------------------------------------------------------------------------
(* The ledger stays well typed, in range, in turn order.                    *)
LEMMA LedgerInvariant == Spec => []LedgerInv
<1>1. Init => LedgerInv
  <2> SUFFICES ASSUME Init PROVE LedgerInv
    OBVIOUS
  <2>1. TypeOK
    BY LedgerAssumption DEF Init, TypeOK
  <2>2. TurnsInOrder /\ CurrentIsNewest
    BY DEF Init, TurnsInOrder, CurrentIsNewest
  <2> QED BY <2>1, <2>2 DEF LedgerInv
<1>2. LedgerInv /\ [Next]_vars => LedgerInv'
  <2> SUFFICES ASSUME LedgerInv, [Next]_vars PROVE LedgerInv'
    OBVIOUS
  <2> USE DEF LedgerInv
  <2>1. CASE ResolveContext
    BY <2>1, LedgerAssumption DEF ResolveContext, TypeOK, TurnsInOrder, CurrentIsNewest
  <2>2. ASSUME NEW c \in Calls, RepeatUpdate(c)
        PROVE  LedgerInv'
    <3>1. reply' \in (1..MaxTurns) \X Calls \X (0..Ceiling)
      BY <2>2, RowType DEF RepeatUpdate, Rows, Entry, TypeOK
    <3> QED BY <2>2, <3>1 DEF RepeatUpdate, TypeOK, TurnsInOrder, CurrentIsNewest
  <2>3. ASSUME NEW c \in Calls, NEW delta \in Deltas \union {NoDelta}, Update(c, delta)
        PROVE  LedgerInv'
    <3>1. PICK entry \in Entry :
            /\ entry.operation = current /\ entry.call = c
            /\ history' = Append(history, entry)
            /\ Len(history') = Len(history) + 1
            /\ \A i \in 1..Len(history) : history'[i] = history[i]
            /\ history'[Len(history) + 1] = entry
            /\ reply' = <<current, c, entry.affinity>>
      BY <2>3, AppendedRow
    <3>2. UNCHANGED <<turn, current>> /\ current # 0
      BY <2>3 DEF Update
    <3>3. TypeOK'
      BY <3>1, <3>2 DEF TypeOK, Entry
    <3>4. /\ DOMAIN history = 1..Len(history) /\ Len(history) \in Nat
          /\ DOMAIN history' = 1..(Len(history) + 1)
      BY <3>1, <3>3 DEF TypeOK
    <3>5. TurnsInOrder'
      BY <3>1, <3>2, <3>4 DEF TurnsInOrder, CurrentIsNewest
    <3>6. CurrentIsNewest'
      BY <3>1, <3>2, <3>4 DEF CurrentIsNewest, TypeOK
    <3> QED BY <3>3, <3>5, <3>6
  <2>4. CASE NextTurn
    <3>1. \A i \in DOMAIN history : history[i].operation \in Int
      BY RowType DEF Entry
    <3> QED BY <2>4, <3>1, LedgerAssumption DEF NextTurn, TypeOK, TurnsInOrder, CurrentIsNewest
  <2>5. CASE Crash
    <3>1. TypeOK'
      BY <2>5, LedgerAssumption DEF Crash, TypeOK
    <3>2. TurnsInOrder' /\ CurrentIsNewest'
      BY <2>5, LedgerAssumption DEF Crash, TypeOK, TurnsInOrder, CurrentIsNewest
    <3> QED BY <3>1, <3>2
  <2>6. CASE UNCHANGED vars
    BY <2>6 DEF vars, TypeOK, TurnsInOrder, CurrentIsNewest, Entry, NoReply
  <2> QED BY <2>1, <2>2, <2>3, <2>4, <2>5, <2>6 DEF Next
<1> QED BY <1>1, <1>2, PTL DEF Spec

(* Type correctness, with affinity always within 0..Ceiling.                *)
THEOREM TypeCorrect == Spec => []TypeOK
<1>1. LedgerInv => TypeOK
  BY DEF LedgerInv
<1> QED BY <1>1, LedgerInvariant, PTL

-----------------------------------------------------------------------------
(* The row an update appends lies within Stride of its turn's base.  The    *)
(* base itself is in range, so clamping to 0..Ceiling cannot leave the      *)
(* turn's interval.                                                         *)
LEMMA MovedInRange ==
  ASSUME NEW base \in 0..Ceiling, NEW delta \in Int, TypeOK
  PROVE  /\ Moved(base, delta) =< base + Stride
         /\ Moved(base, delta) >= base - Stride
BY LatestType, LedgerAssumption DEF Moved, ClampAffinity, AtLeast, AtMost

(* When the turn already has a row, the last row is one of its own.         *)
LEMMA LastRowIsCurrent ==
  ASSUME LedgerInv, current # 0,
         NEW i \in DOMAIN history, history[i].operation = current
  PROVE  /\ Len(history) \in DOMAIN history
         /\ history[Len(history)].operation = current
         /\ Latest = history[Len(history)].affinity
<1>1. /\ DOMAIN history = 1..Len(history) /\ Len(history) \in Nat
      /\ Len(history) \in DOMAIN history
  BY DEF LedgerInv, TypeOK
<1>2. /\ history[Len(history)].operation \in Int
      /\ history[i].operation \in Int
      /\ current \in Int
  <2>1. TypeOK /\ \A k \in DOMAIN history : history[k] \in Entry
    BY RowType DEF LedgerInv
  <2>2. history[Len(history)] \in Entry /\ history[i] \in Entry
    BY <1>1, <2>1
  <2>3. \A entry \in Entry : entry.operation \in Int
    BY LedgerAssumption DEF Entry
  <2>4. current \in Int
    BY <2>1, LedgerAssumption DEF TypeOK
  <2> QED BY <2>2, <2>3, <2>4
<1>3. /\ history[i].operation =< history[Len(history)].operation
      /\ history[Len(history)].operation =< current
  BY <1>1, <1>2 DEF LedgerInv, TurnsInOrder, CurrentIsNewest
<1> QED BY <1>1, <1>2, <1>3 DEF Latest

(* The per-turn bound, for every stride, scale and pattern of retries.      *)
THEOREM TurnBounded == Spec => []TurnBound
<1>1. Init => TurnBound
  BY DEF Init, TurnBound
<1>2. LedgerInv /\ TurnBound /\ [Next]_vars => TurnBound'
  <2> SUFFICES ASSUME LedgerInv, TurnBound, [Next]_vars PROVE TurnBound'
    OBVIOUS
  <2>1. CASE UNCHANGED history
    BY <2>1 DEF TurnBound, Firsts
  <2>2. ASSUME NEW c \in Calls, NEW delta \in Deltas \union {NoDelta}, Update(c, delta)
        PROVE  TurnBound'
    <3> DEFINE n == Len(history) + 1
    <3>0. TypeOK /\ current # 0
      BY <2>2 DEF LedgerInv, Update
    <3>1. PICK entry \in Entry :
            /\ entry.operation = current /\ entry.call = c /\ entry.previous = Latest
            /\ history' = Append(history, entry)
            /\ Len(history') = n
            /\ \A i \in 1..Len(history) : history'[i] = history[i]
            /\ history'[n] = entry
            /\ reply' = <<current, c, entry.affinity>>
            /\ \/ delta = NoDelta /\ entry.affinity = Latest
               \/ /\ delta \in Deltas
                  /\ \E base \in Bases(current) : entry.affinity = Moved(base, delta)
      BY <2>2, <3>0, AppendedRow
    <3>2. /\ DOMAIN history = 1..Len(history) /\ Len(history) \in Nat
          /\ DOMAIN history' = 1..n
      BY <3>0, <3>1 DEF TypeOK
    <3> SUFFICES ASSUME NEW j \in DOMAIN history', NEW i \in Firsts(history[j].operation)'
                 PROVE  /\ history'[j].affinity =< history'[i].previous + Stride
                        /\ history'[j].affinity >= history'[i].previous - Stride
      BY DEF TurnBound
    <3>3. /\ i \in 1..n /\ history'[i].operation = history'[j].operation
          /\ \A k \in 1..(i - 1) : history'[k].operation # history'[j].operation
      BY <3>2 DEF Firsts
    <3>4. i =< j
      BY <3>2, <3>3
    <3>5. CASE j # n
      <4>1. /\ j \in DOMAIN history /\ i \in DOMAIN history
            /\ history'[j] = history[j] /\ history'[i] = history[i]
            /\ \A k \in 1..(i - 1) : history'[k] = history[k]
        BY <3>1, <3>2, <3>3, <3>4, <3>5
      <4>2. i \in Firsts(history[j].operation)
        BY <3>3, <4>1 DEF Firsts
      <4> QED BY <4>1, <4>2 DEF TurnBound
    <3>6. CASE j = n /\ i = n
      <4>1. Firsts(current) = {}
        BY <3>1, <3>2, <3>3, <3>6 DEF Firsts
      <4>2. Latest \in 0..Ceiling
        BY <3>0, LatestType
      <4>3. CASE delta = NoDelta /\ entry.affinity = Latest
        BY <3>1, <3>6, <4>2, <4>3, LedgerAssumption
      <4>4. CASE delta \in Deltas /\ entry.affinity = Moved(Latest, delta)
        BY <3>0, <3>1, <3>6, <4>2, <4>4, LedgerAssumption, MovedInRange
      <4> QED BY <3>1, <4>1, <4>3, <4>4 DEF Bases
    <3>7. CASE j = n /\ i # n
      <4>1. /\ i \in DOMAIN history /\ history[i].operation = current
            /\ history'[i] = history[i]
        BY <3>1, <3>2, <3>3, <3>7
      <4>2. i \in Firsts(current)
        BY <3>1, <3>2, <3>3, <3>7, <4>1 DEF Firsts
      <4>3. /\ Len(history) \in DOMAIN history
            /\ history[Len(history)].operation = current
            /\ Latest = history[Len(history)].affinity
        BY <3>0, <4>1, LastRowIsCurrent
      <4>4. /\ Latest =< history[i].previous + Stride
            /\ Latest >= history[i].previous - Stride
        BY <4>2, <4>3 DEF TurnBound
      <4>5. CASE delta = NoDelta /\ entry.affinity = Latest
        BY <3>1, <3>7, <4>1, <4>4, <4>5
      <4>6. ASSUME NEW base \in Bases(current), delta \in Deltas, entry.affinity = Moved(base, delta)
            PROVE  /\ entry.affinity =< history[i].previous + Stride
                   /\ entry.affinity >= history[i].previous - Stride
        <5>1. PICK first \in Firsts(current) : base = history[first].previous
          BY <4>2, <4>6 DEF Bases
        <5>2. first = i
          BY <4>2, <3>2 DEF Firsts
        <5>3. base \in 0..Ceiling /\ base = history[i].previous
          BY <3>0, <4>1, <5>1, <5>2, RowType DEF Entry
        <5> QED BY <3>0, <4>6, <5>3, MovedInRange, LedgerAssumption
      <4> QED BY <3>1, <3>7, <4>1, <4>5, <4>6
    <3> QED BY <3>2, <3>3, <3>5, <3>6, <3>7
  <2>3. [Next]_vars => \/ UNCHANGED history
                       \/ \E c \in Calls : \E delta \in Deltas \union {NoDelta} : Update(c, delta)
    BY DEF Next, vars, ResolveContext, RepeatUpdate, NextTurn, Crash
  <2> QED BY <2>1, <2>2, <2>3
<1> QED BY <1>1, <1>2, LedgerInvariant, PTL DEF Spec

-----------------------------------------------------------------------------
(* A call repeated after a restart never writes a second row.               *)
THEOREM RetriesCountOnce == Spec => []CallsApplyOnce
<1>1. Init => CallsApplyOnce
  BY DEF Init, CallsApplyOnce
<1>2. TypeOK /\ CallsApplyOnce /\ [Next]_vars => CallsApplyOnce'
  <2> SUFFICES ASSUME TypeOK, CallsApplyOnce, [Next]_vars PROVE CallsApplyOnce'
    OBVIOUS
  <2>1. CASE UNCHANGED history
    BY <2>1 DEF CallsApplyOnce
  <2>2. ASSUME NEW c \in Calls, NEW delta \in Deltas \union {NoDelta}, Update(c, delta)
        PROVE  CallsApplyOnce'
    <3>1. PICK entry \in Entry :
            /\ entry.operation = current /\ entry.call = c
            /\ history' = Append(history, entry)
            /\ Len(history') = Len(history) + 1
            /\ \A i \in 1..Len(history) : history'[i] = history[i]
            /\ history'[Len(history) + 1] = entry
      BY <2>2, AppendedRow
    <3>2. /\ DOMAIN history = 1..Len(history) /\ Len(history) \in Nat
          /\ DOMAIN history' = 1..(Len(history) + 1)
      BY <3>1 DEF TypeOK
    <3>3. \A i \in DOMAIN history : ~(history[i].operation = current /\ history[i].call = c)
      BY <2>2 DEF Update, Rows
    <3> QED BY <3>1, <3>2, <3>3 DEF CallsApplyOnce
  <2>3. [Next]_vars => \/ UNCHANGED history
                       \/ \E c \in Calls : \E delta \in Deltas \union {NoDelta} : Update(c, delta)
    BY DEF Next, vars, ResolveContext, RepeatUpdate, NextTurn, Crash
  <2> QED BY <2>1, <2>2, <2>3
<1> QED BY <1>1, <1>2, TypeCorrect, PTL DEF Spec

-----------------------------------------------------------------------------
(* An answer is the state of the call's own row, given by the step that     *)
(* wrote the row or found again after a restart; later rows do not touch it *)
(* (store.ts:112, 129).                                                     *)
THEOREM RepliesMatchRows == Spec => []ReplyMatchesLedger
<1>1. Init => ReplyMatchesLedger
  BY DEF Init, ReplyMatchesLedger
<1>2. TypeOK /\ ReplyMatchesLedger /\ [Next]_vars => ReplyMatchesLedger'
  <2> SUFFICES ASSUME TypeOK, ReplyMatchesLedger, [Next]_vars PROVE ReplyMatchesLedger'
    OBVIOUS
  <2>1. CASE UNCHANGED <<history, reply>>
    BY <2>1 DEF ReplyMatchesLedger, NoReply
  <2>2. ASSUME NEW c \in Calls, RepeatUpdate(c) PROVE ReplyMatchesLedger'
    <3>1. PICK i \in Rows(current, c) : reply' = <<current, c, history[i].affinity>>
      BY <2>2 DEF RepeatUpdate
    <3>2. /\ i \in DOMAIN history'
          /\ reply' = <<history'[i].operation, history'[i].call, history'[i].affinity>>
      BY <2>2, <3>1 DEF RepeatUpdate, Rows
    <3> QED BY <3>2 DEF ReplyMatchesLedger
  <2>3. ASSUME NEW c \in Calls, NEW delta \in Deltas \union {NoDelta}, Update(c, delta)
        PROVE  ReplyMatchesLedger'
    <3>1. PICK entry \in Entry :
            /\ entry.operation = current /\ entry.call = c
            /\ history' = Append(history, entry)
            /\ Len(history') = Len(history) + 1
            /\ history'[Len(history) + 1] = entry
            /\ reply' = <<current, c, entry.affinity>>
      BY <2>3, AppendedRow
    <3>2. Len(history) + 1 \in DOMAIN history'
      BY <3>1 DEF TypeOK
    <3> QED BY <3>1, <3>2 DEF ReplyMatchesLedger
  <2>4. CASE Crash
    BY <2>4 DEF Crash, ReplyMatchesLedger, NoReply
  <2>5. \/ UNCHANGED <<history, reply>> \/ Crash
        \/ \E c \in Calls : RepeatUpdate(c)
        \/ \E c \in Calls : \E delta \in Deltas \union {NoDelta} : Update(c, delta)
    BY DEF Next, vars, ResolveContext, NextTurn
  <2> QED BY <2>1, <2>2, <2>3, <2>4, <2>5
<1> QED BY <1>1, <1>2, TypeCorrect, PTL DEF Spec

(* A repeated call neither moves affinity again nor is answered with        *)
(* anything but its own row.                                                *)
THEOREM RetriesAgreed == Spec => []RetriesAgree
<1>1. CallsApplyOnce /\ ReplyMatchesLedger => RetriesAgree
  BY DEF RetriesAgree
<1> QED BY <1>1, RetriesCountOnce, RepliesMatchRows, PTL

-----------------------------------------------------------------------------
(***************************************************************************)
(* The images.  What the model was told of stays in the store because a    *)
(* handler answers only after its write (AnswersSaved) and a message is    *)
(* prompted only after its row is there (SubmittingSaved).  That a start   *)
(* leaves every file in place needs the order it works in: it stops at the *)
(* first number without a row, which is past every row only because rows   *)
(* have no gaps (RowsGapless).                                             *)
(***************************************************************************)

AttachmentTypes ==
  /\ rows \in SUBSET Operations /\ finished \in SUBSET Operations
  /\ DOMAIN images \subseteq Drawn
  /\ prompted \in SUBSET Operations /\ ended \in SUBSET Operations
  /\ files \in [Operations -> {"absent", "torn", "whole"}]
  /\ stage \in {"down", "starting", "serving"} /\ row \in Nat
  /\ submitting \in {0} \union Operations /\ pen \in {0} \union Operations
  /\ running \in {0} \union Operations
  /\ calls \in [Drawn -> {"idle", "asked", "drawn", "saved", "over"}]
  /\ paid \in [Drawn -> Nat]

\* A handler about to answer has its image in the store.
AnswersSaved == \A i \in Drawn : calls[i] = "saved" => i \in DOMAIN images

\* A message is submitted, or prompted, with its row and image in the store.
SubmittingSaved == prompted \subseteq rows /\ (submitting # 0 => submitting \in rows)

\* Rows are numbered without gaps, and startup counts from the first.
RowsGapless ==
  /\ \A o \in rows : \A p \in Operations : p < o => p \in rows
  /\ stage = "starting" => row > 0

AttachmentsInv ==
  /\ AttachmentTypes /\ AnswersSaved /\ SubmittingSaved /\ RowsGapless
  /\ ImagesKept /\ AttachmentsRestored

-----------------------------------------------------------------------------
(* What each step changes: readings of the whole next-state relation.       *)
USE DEF AttachmentsNext, attachedVars, storeVars, engineVars, progressVars, toolVars, boundVars,
        EndWrite, Start, StartRow, Serve, Die, StartWrite, FileFault, Remove, Submit, SubmitEnds,
        FinishRow, Resolve, TurnEnds, CallImage, CallFails, SaveImage, AnswerModel, Answered

(* The steps that read or write the files, the rows or the stage.           *)
LEMMA FileChanges ==
  [AttachmentsNext]_attachedVars =>
    \/ UNCHANGED <<files, stage, row, removed, rows, prompted, submitting>>
    \/ EndWrite \/ Start \/ StartRow \/ Serve \/ Die
    \/ \E o \in Operations : StartWrite(o) \/ FileFault(o) \/ Remove(o) \/ Submit(o) \/ SubmitEnds(o)
  OBVIOUS

(* The steps that draw, save or name an image.                              *)
LEMMA ImageChanges ==
  [AttachmentsNext]_attachedVars =>
    \/ UNCHANGED <<images, given, calls>> /\ rows \subseteq rows'
    \/ StartRow \/ Die
    \/ \E o \in Operations : SubmitEnds(o) \/ \E cancelled \in BOOLEAN : TurnEnds(o, cancelled)
    \/ \E c \in ImageCalls : CallImage(c) \/ CallFails(c)
    \/ \E i \in Drawn : SaveImage(i) \/ AnswerModel(i) \/ \E drawn \in BOOLEAN : Answered(i, drawn)
  OBVIOUS

(* Only a call without an image in the store is paid for.                   *)
LEMMA PaidChanges ==
  [AttachmentsNext]_attachedVars => UNCHANGED paid \/ \E c \in ImageCalls : CallImage(c)
  OBVIOUS

HIDE DEF AttachmentsNext, attachedVars, storeVars, engineVars, progressVars, toolVars, boundVars,
         EndWrite, Start, StartRow, Serve, Die, StartWrite, FileFault, Remove, Submit, SubmitEnds,
         FinishRow, Resolve, TurnEnds, CallImage, CallFails, SaveImage, AnswerModel, Answered

-----------------------------------------------------------------------------
(* Every step keeps the types.                                              *)
LEMMA TypesStep == AttachmentTypes /\ [AttachmentsNext]_attachedVars => AttachmentTypes'
<1> SUFFICES ASSUME AttachmentTypes, [AttachmentsNext]_attachedVars PROVE AttachmentTypes'
  OBVIOUS
<1> USE DEF AttachmentTypes, storeVars, engineVars, progressVars, toolVars, boundVars
<1>1. CASE EndWrite
  BY <1>1 DEF EndWrite
<1>2. CASE Start
  BY <1>2 DEF Start
<1>3. CASE StartRow
  <2>1. row' \in Nat
    BY <1>3 DEF StartRow
  <2>2. ended' = ended /\ (prompted' = prompted \/ prompted' = prompted \union {row})
    BY <1>3 DEF StartRow
  <2>3. prompted' \in SUBSET Operations
    <3>1. row \in Operations
      BY <1>3 DEF StartRow
    <3> QED BY <2>2, <3>1
  <2> QED BY <1>3, <2>1, <2>2, <2>3 DEF StartRow
<1>4. CASE Serve
  BY <1>4 DEF Serve
<1>5. CASE Die
  BY <1>5 DEF Die
<1>6. ASSUME NEW o \in Operations,
             StartWrite(o) \/ FileFault(o) \/ Remove(o) \/ Submit(o) \/ SubmitEnds(o)
             \/ FinishRow(o) \/ Resolve(o)
      PROVE  AttachmentTypes'
  BY <1>6 DEF StartWrite, FileFault, Remove, Submit, SubmitEnds, FinishRow, Resolve
<1>7. ASSUME NEW o \in Operations, NEW cancelled \in BOOLEAN, TurnEnds(o, cancelled)
      PROVE  AttachmentTypes'
  BY <1>7 DEF TurnEnds
<1>8. ASSUME NEW c \in ImageCalls, CallImage(c) \/ CallFails(c) PROVE AttachmentTypes'
  <2>1. running # 0 => <<running, c>> \in Drawn
    BY DEF Drawn
  <2> QED BY <1>8, <2>1 DEF CallImage, CallFails, Moving
<1>9. ASSUME NEW i \in Drawn, SaveImage(i) \/ AnswerModel(i) \/ \E drawn \in BOOLEAN : Answered(i, drawn)
      PROVE  AttachmentTypes'
  BY <1>9 DEF SaveImage, AnswerModel, Answered, Moving
<1>10. CASE UNCHANGED attachedVars
  BY <1>10 DEF attachedVars
<1> QED BY <1>1, <1>2, <1>3, <1>4, <1>5, <1>6, <1>7, <1>8, <1>9, <1>10 DEF AttachmentsNext

(* Every step keeps what the model was told of in the store.                *)
LEMMA ImagesStep ==
  AttachmentsInv /\ [AttachmentsNext]_attachedVars => AnswersSaved' /\ ImagesKept'
<1> SUFFICES ASSUME AttachmentsInv, [AttachmentsNext]_attachedVars
             PROVE  AnswersSaved' /\ ImagesKept'
  OBVIOUS
<1> DEFINE Goal == AnswersSaved /\ ImagesKept
<1>1. /\ AnswersSaved /\ given \subseteq Openable /\ \A i \in DOMAIN images : images[i] = i[1]
      /\ calls \in [Drawn -> {"idle", "asked", "drawn", "saved", "over"}]
      /\ rows \in SUBSET Operations
  BY DEF AttachmentsInv, AttachmentTypes, ImagesKept
<1>2. CASE UNCHANGED <<images, given, calls>> /\ rows \subseteq rows'
  BY <1>1, <1>2 DEF AnswersSaved, ImagesKept, Openable
<1>3. ASSUME NEW o \in rows, given' = given \union {Attached(o)}, UNCHANGED <<images, calls, rows>>
      PROVE  Goal'
  BY <1>1, <1>3 DEF AnswersSaved, ImagesKept, Openable
<1>4. ASSUME NEW o \in Operations, SubmitEnds(o) PROVE Goal'
  BY <1>3, <1>4 DEF SubmitEnds, AttachmentsInv, SubmittingSaved, storeVars, toolVars
<1>5. CASE StartRow
  <2>1. CASE given' = given
    BY <1>1, <1>5, <2>1 DEF StartRow, storeVars, toolVars, AnswersSaved, ImagesKept, Openable
  <2>2. CASE given' = given \union {Attached(row)}
    BY <1>3, <1>5, <2>2 DEF StartRow, storeVars, toolVars
  <2> QED BY <1>5, <2>1, <2>2 DEF StartRow, engineVars
<1>6. ASSUME UNCHANGED <<images, rows>>,
             given' \subseteq given \union DOMAIN images,
             \A i \in Drawn : calls'[i] = "saved" => calls[i] = "saved"
      PROVE  Goal'
  BY <1>1, <1>6 DEF AnswersSaved, ImagesKept, Openable
<1>7. CASE Die
  BY <1>1, <1>6, <1>7 DEF Die, storeVars, engineVars
<1>8. ASSUME NEW o \in Operations, NEW cancelled \in BOOLEAN, TurnEnds(o, cancelled) PROVE Goal'
  BY <1>1, <1>6, <1>8 DEF TurnEnds, storeVars
<1>9. ASSUME NEW c \in ImageCalls, CallImage(c) \/ CallFails(c) PROVE Goal'
  BY <1>1, <1>6, <1>9 DEF CallImage, CallFails, Moving, Existing, storeVars, engineVars
<1>10. ASSUME NEW i \in Drawn, AnswerModel(i) \/ \E drawn \in BOOLEAN : Answered(i, drawn)
       PROVE  Goal'
  BY <1>1, <1>6, <1>10 DEF AnswerModel, MayAnswer, Answered, Moving, storeVars, engineVars, AnswersSaved
<1>11. ASSUME NEW i \in Drawn, SaveImage(i) PROVE Goal'
  <2>1. UNCHANGED <<rows, given>>
    BY <1>11 DEF SaveImage, engineVars
  <2>2. CASE i \in DOMAIN images
    BY <1>1, <1>6, <1>11, <2>1, <2>2 DEF SaveImage, Moving
  <2>3. CASE i \notin DOMAIN images
    <3>1. /\ DOMAIN images' = DOMAIN images \union {i}
          /\ \A j \in DOMAIN images' : images'[j] = j[1]
      BY <1>1, <1>11, <2>3 DEF SaveImage, Owner
    <3>2. \A j \in Drawn \ {i} : calls'[j] = calls[j]
      BY <1>1, <1>11, <2>3 DEF SaveImage, Moving
    <3> QED BY <1>1, <2>1, <3>1, <3>2 DEF AnswersSaved, ImagesKept, Openable
  <2> QED BY <2>2, <2>3
<1> QED BY <1>2, <1>4, <1>5, <1>7, <1>8, <1>9, <1>10, <1>11, ImageChanges

(* Every step keeps rows gapless and the files of prompted messages there.  *)
LEMMA FilesStep ==
  AttachmentsInv /\ [AttachmentsNext]_attachedVars
  => (SubmittingSaved /\ RowsGapless /\ AttachmentsRestored)'
<1> SUFFICES ASSUME AttachmentsInv, [AttachmentsNext]_attachedVars
             PROVE  (SubmittingSaved /\ RowsGapless /\ AttachmentsRestored)'
  OBVIOUS
<1> DEFINE Goal == SubmittingSaved /\ RowsGapless /\ AttachmentsRestored
<1>1. AttachmentTypes /\ SubmittingSaved /\ RowsGapless /\ AttachmentsRestored
  BY DEF AttachmentsInv
<1> USE DEF SubmittingSaved, RowsGapless, AttachmentsRestored, Owned
<1>2. CASE UNCHANGED <<files, stage, row, removed, rows, prompted, submitting>>
  BY <1>1, <1>2
<1>3. ASSUME UNCHANGED <<rows, prompted, removed>>, stage' = stage \/ stage' = "down",
             row' = row, submitting' \in {0, submitting},
             \A o \in Operations : files[o] # "absent" => files'[o] # "absent"
      PROVE  Goal'
  BY <1>1, <1>3 DEF AttachmentTypes
<1>4. CASE EndWrite
  BY <1>1, <1>3, <1>4 DEF EndWrite, storeVars, engineVars, AttachmentTypes
<1>5. CASE Die
  BY <1>1, <1>3, <1>5 DEF Die, storeVars, engineVars
<1>6. ASSUME NEW o \in Operations, StartWrite(o) PROVE Goal'
  BY <1>1, <1>3, <1>6 DEF StartWrite, storeVars, engineVars, AttachmentTypes
<1>7. ASSUME NEW o \in Operations, FileFault(o) PROVE Goal'
  BY <1>1, <1>3, <1>7 DEF FileFault, storeVars, engineVars
<1>8. CASE Start
  <2>1. \A o \in Operations : ~(o < 1)
    BY AttachmentsAssumption DEF Operations
  <2> QED BY <1>1, <1>8, <2>1 DEF Start, storeVars, engineVars, AttachmentTypes
<1>9. CASE StartRow
  <2>1. /\ row \in rows /\ row' = row + 1 /\ files[row] # "absent" /\ stage = "starting"
        /\ prompted' \in {prompted, prompted \union {row}}
        /\ UNCHANGED <<rows, files, stage, removed, submitting>>
    BY <1>9 DEF StartRow, Materialised, storeVars, engineVars
  <2>2. \A o \in Operations : o < row + 1 => o < row \/ o = row
    BY <1>1, AttachmentsAssumption DEF Operations, AttachmentTypes
  <2> QED BY <1>1, <2>1, <2>2 DEF AttachmentTypes
<1>10. CASE Serve
  <2>1. \A o \in rows : o < row
    <3>1. ASSUME NEW o \in rows, ~(o < row) PROVE FALSE
      <4>1. o \in 1..MaxMessages /\ row \in Nat /\ row > 0
        BY <1>1, <1>10 DEF Serve, AttachmentTypes, Operations
      <4>2. row \in Operations /\ (row < o \/ row = o)
        BY <3>1, <4>1, AttachmentsAssumption DEF Operations
      <4> QED BY <1>1, <1>10, <3>1, <4>2 DEF Serve
    <3> QED BY <3>1
  <2> QED BY <1>1, <1>10, <2>1 DEF Serve, storeVars, engineVars, AttachmentTypes
<1>11. ASSUME NEW o \in Operations, Remove(o) PROVE Goal'
  BY <1>1, <1>11 DEF Remove, storeVars, engineVars, progressVars, AttachmentTypes
<1>12. ASSUME NEW o \in Operations, Submit(o) PROVE Goal'
  <2>1. \A p, q \in Operations : p < q /\ q < o => p < o
    BY AttachmentsAssumption DEF Operations
  <2> QED BY <1>1, <1>12, <2>1 DEF Submit, engineVars, AttachmentTypes
<1>13. ASSUME NEW o \in Operations, SubmitEnds(o) PROVE Goal'
  BY <1>1, <1>13 DEF SubmitEnds, Materialised, storeVars, AttachmentTypes
<1> QED BY <1>2, <1>4, <1>5, <1>6, <1>7, <1>8, <1>9, <1>10, <1>11, <1>12, <1>13, FileChanges

-----------------------------------------------------------------------------
(* The strengthened invariant holds initially and is kept by every step.    *)
LEMMA AttachmentsInvariant == AttachmentsSpec => []AttachmentsInv
<1>1. AttachmentsInit => AttachmentsInv
  <2> SUFFICES ASSUME AttachmentsInit PROVE AttachmentsInv
    OBVIOUS
  <2>1. AttachmentTypes
    BY DEF AttachmentsInit, AttachmentTypes
  <2> QED BY <2>1 DEF AttachmentsInit, AttachmentsInv, AnswersSaved, SubmittingSaved, RowsGapless,
                      ImagesKept, AttachmentsRestored, Drawn
<1>2. AttachmentsInv /\ [AttachmentsNext]_attachedVars => AttachmentsInv'
  BY TypesStep, ImagesStep, FilesStep DEF AttachmentsInv
<1> QED BY <1>1, <1>2, PTL DEF AttachmentsSpec

(* Every image the model was told of can be opened again, and belongs to    *)
(* the message whose turn asked for it (tools/index.ts:44, 66).             *)
THEOREM ToldIsKept == AttachmentsSpec => []ImagesKept
  BY AttachmentsInvariant, PTL DEF AttachmentsInv

(* After every start the files of every prompted message are there, unless  *)
(* they were removed since (images.ts:35-44, partner.ts:136-139).           *)
THEOREM FilesRestored == AttachmentsSpec => []AttachmentsRestored
  BY AttachmentsInvariant, PTL DEF AttachmentsInv

(* A repeated call asks for no image that was saved (tools/index.ts:46-48). *)
THEOREM NoSecondPayment == AttachmentsSpec => PaidOnce
<1> DEFINE PaidKept == \A i \in DOMAIN images : paid'[i] = paid[i]
<1>1. AttachmentTypes /\ [AttachmentsNext]_attachedVars => [PaidKept]_attachedVars
  <2> SUFFICES ASSUME AttachmentTypes, [AttachmentsNext]_attachedVars PROVE PaidKept
    OBVIOUS
  <2>1. ASSUME NEW c \in ImageCalls, CallImage(c) PROVE PaidKept
    BY <2>1 DEF CallImage, Existing, AttachmentTypes
  <2> QED BY <2>1, PaidChanges
<1>2. AttachmentsInv => AttachmentTypes
  BY DEF AttachmentsInv
<1> QED BY <1>1, <1>2, AttachmentsInvariant, PTL DEF AttachmentsSpec, PaidOnce
=============================================================================
