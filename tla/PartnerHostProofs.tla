------------------------- MODULE PartnerHostProofs -------------------------
(***************************************************************************)
(* Proofs about the Partner host, for any set of messages and contents and *)
(* any number of calls, crashes and faults.                                *)
(*                                                                         *)
(* That the row's outcome is the engine's is not inductive by itself: an   *)
(* answer is saved long after the operation completed, by an owner that    *)
(* only remembers that it did (DrainCompleted), and a prompt reaches the   *)
(* engine through a queue (InboxMatches) filled by a call that admitted    *)
(* its row earlier (CallerSaved).                                          *)
(*                                                                         *)
(* The second half is about runs without a fault.  That no message is      *)
(* orphaned rests on who owns a row at every moment (Owned); that messages *)
(* run in the order they are displayed rests on it too, on the places rows *)
(* and operations are given (Places), and on a clock that does not step    *)
(* back (Ordered).                                                         *)
(***************************************************************************)
EXTENDS PartnerHost, FiniteSetTheorems, TLAPS

\* A row is saved with its content, and has an outcome or is open, from then on.
RowsComplete ==
  \A i \in Ids : /\ rowid[i] # 0 <=> display[i] # "none"
                 /\ rowid[i] # 0 => text[i] \in Texts

\* What was handed to the engine is what the row holds.
InboxMatches ==
  \A k \in DOMAIN inbox : /\ rowid[inbox[k].id] # 0
                          /\ inbox[k].text = text[inbox[k].id]

\* A call past admission has its row, with its content.
CallerSaved ==
  /\ admission = <<>> => step = "waiting"
  /\ step # "waiting" => rowid[Caller.id] # 0 /\ text[Caller.id] = Caller.text

\* Whoever drains before saving an answer saw the operation complete.
DrainCompleted == \A i \in Ids : task[i] = "drain" => op[i] = "completed"

\* An operation is cancelled only because a user asked.
CancelAsked == \A i \in Ids : op[i] = "cancelled" => i \in asked

SavedInv == RowsComplete /\ InboxMatches /\ CallerSaved /\ PromptMatchesRow
OutcomeInv == DrainCompleted /\ OutcomeAgrees /\ CancelAsked
HostInv == TypeOK /\ SavedInv /\ OutcomeInv

\* Rows and operations have distinct, gapless places; a later row is not dated earlier.
Places ==
  /\ \A i \in Ids : op[i] = "absent" <=> turn[i] = 0
  /\ \A i \in Ids : rowid[i] =< Cardinality(Rows) /\ turn[i] =< Cardinality(Accepted)
  /\ \A i, j \in Rows : rowid[i] = rowid[j] => i = j
  /\ \A i, j \in Rows : ClockStepsBack \/ (rowid[i] < rowid[j] => created[i] =< created[j])

\* An open row has an owner, or startup has still to reach it, or its call has.
Owners ==
  \A i \in Ids :
    /\ task[i] = "caught" => display[i] \in Settled \/ op[i] \in {"failed", "cancelled"}
    /\ task[i] # "none" => op[i] # "absent" \/ i \in Waiting
    /\ phase # "down" /\ display[i] = "open"
       => task[i] # "none" \/ i \in todo \/ (BeingSubmitted(i) /\ op[i] = "absent")

\* A prompt is queued once, has its owner, and is new to the engine.
OncePrompted == \A k, l \in DOMAIN inbox : inbox[k].id = inbox[l].id => k = l
Queued ==
  /\ \A i \in Waiting : task[i] = "result" /\ (op[i] = "absent" \/ display[i] \in Settled)
  /\ OncePrompted

\* What each phase of an incarnation starts from.
Phases ==
  /\ phase # "aborting"
  /\ phase \in {"down", "recovering"} => admission = <<>>
  /\ phase = "down" => inbox = <<>> /\ \A i \in Ids : task[i] = "none"
  /\ todo # {} => phase = "recovering"
  /\ \A i \in todo : i \in Rows /\ task[i] = "none"
  /\ known => Serving /\ display[Caller.id] \in Settled
  /\ ~poisoned

Owned == faults = 0 => Owners /\ Queued /\ Phases

\* The engine has the operation, or its prompt.
Prompted(i) == op[i] # "absent" \/ i \in Waiting

\* Rows, prompts and operations come in one order.
InOrder ==
  /\ \A i, j \in Rows : rowid[i] < rowid[j] /\ Prompted(j) => Prompted(i)
  /\ \A i, j \in Rows : rowid[i] < rowid[j] /\ op[j] # "absent" => op[i] # "absent"
  /\ \A k, l \in DOMAIN inbox :
       k < l /\ op[inbox[k].id] = "absent" /\ op[inbox[l].id] = "absent"
       => rowid[inbox[k].id] < rowid[inbox[l].id]
  /\ \A i, j \in Accepted : rowid[i] < rowid[j] => turn[i] < turn[j]

Ordered == faults = 0 => InOrder

\* The steps a run without a fault takes, apart from those no row depends on.
callVars == <<admission, step, known>>
progress == <<phase, todo, callVars, inbox, task, op, turn, rowid, created, display>>

CallEnds ==
  /\ Serving /\ EndCall
  /\ step # "saved" \/ known \/ task[Caller.id] # "none"
  /\ UNCHANGED <<phase, todo, inbox, task, op, turn, rowid, created, display>>

OperationMoves(i) ==
  /\ op[i] \in Unfinished
  /\ \E s \in (Unfinished \union Terminal) \ {"pending"} : op' = [op EXCEPT ![i] = s]
  /\ UNCHANGED <<phase, todo, callVars, inbox, task, turn, rowid, created, display>>

-----------------------------------------------------------------------------
\* There are finitely many rows and operations, so the next place is a number.
LEMMA NextPlace == /\ Cardinality(Rows) \in Nat
                   /\ Cardinality(Accepted) \in Nat
  BY HostAssumption, FS_Subset, FS_CardinalityType DEF Rows, Accepted

\* The queue operations the host uses.
LEMMA Queue ==
  ASSUME NEW S, NEW s \in Seq(S)
  PROVE  /\ \A e \in S : /\ Append(s, e) \in Seq(S) /\ Append(s, e) # <<>>
                         /\ s # <<>> => Head(Append(s, e)) = Head(s)
                         /\ \A k \in DOMAIN Append(s, e) :
                              \/ Append(s, e)[k] = e
                              \/ k \in DOMAIN s /\ Append(s, e)[k] = s[k]
         /\ s # <<>> => /\ Head(s) \in S /\ Tail(s) \in Seq(S)
                        /\ 1 \in DOMAIN s /\ Head(s) = s[1]
                        /\ \A k \in DOMAIN Tail(s) :
                             k + 1 \in DOMAIN s /\ Tail(s)[k] = s[k + 1]
  OBVIOUS

LEMMA CallerType ==
  ASSUME TypeOK, Serving
  PROVE  /\ Caller \in Call /\ Caller.id \in Ids /\ Caller.text \in Texts
         /\ Tail(admission) \in Seq(Call)
<1>1. Caller \in Call /\ Tail(admission) \in Seq(Call)
  BY Queue DEF TypeOK, Serving, Caller
<1> QED BY <1>1 DEF Call

LEMMA PromptType ==
  ASSUME TypeOK, inbox # <<>>
  PROVE  /\ Head(inbox) \in Call /\ Head(inbox).id \in Ids /\ Head(inbox).text \in Texts
         /\ Tail(inbox) \in Seq(Call)
<1>1. Head(inbox) \in Call /\ Tail(inbox) \in Seq(Call)
  BY Queue DEF TypeOK
<1> QED BY <1>1 DEF Call

LEMMA AppendType ==
  ASSUME NEW s \in Seq(Call), NEW e \in Call
  PROVE  Append(s, e) \in Seq(Call)
  OBVIOUS

-----------------------------------------------------------------------------
(* Every step keeps the types.                                              *)
LEMMA TypeStep == HostInv /\ [Next]_vars => TypeOK'
<1> SUFFICES ASSUME HostInv, [Next]_vars PROVE TypeOK'
  OBVIOUS
<1> USE DEF HostInv, TypeOK, storeVars, engineVars, hostVars, submitVars, ownVars, eventVars,
            observers, bounds
<1>1. ASSUME NEW i \in Ids, NEW t \in Texts, Submit(i, t) PROVE TypeOK'
  BY <1>1, AppendType, HostAssumption DEF Submit, Call
<1>2. CASE RejectUnavailable
  BY <1>2, CallerType DEF RejectUnavailable, Reject, EndCall
<1>3. ASSUME NEW now \in Times, AdmitNew(now) PROVE TypeOK'
  <2>1. Caller.id \in Ids /\ Caller.text \in Texts
    BY <1>3, CallerType DEF AdmitNew, CanAdmit
  <2>2. now \in Nat /\ Cardinality(Rows) + 1 \in Nat
    BY NextPlace, HostAssumption
  <2>3. rowid' \in [Ids -> Nat] /\ created' \in [Ids -> Nat]
    BY <1>3, <2>1, <2>2 DEF AdmitNew
  <2>4. text' \in [Ids -> Texts \union {NoText}] /\ display' \in [Ids -> {"none", "open"} \union Settled]
    BY <1>3, <2>1 DEF AdmitNew
  <2> QED BY <1>3, <2>3, <2>4 DEF AdmitNew
<1>4. CASE AdmitRetry
  BY <1>4 DEF AdmitRetry, CanAdmit
<1>5. CASE AdmitConflict
  BY <1>5, CallerType DEF AdmitConflict, CanAdmit, Reject, EndCall
<1>6. CASE SubmitFault
  <2>1. Serving
    BY <1>6 DEF SubmitFault, CanAdmit
  <2>2. calls' \in 0..MaxCalls /\ crashes' \in 0..MaxCrashes /\ faults' \in 0..MaxFaults
    BY <1>6, HostAssumption DEF SubmitFault, Fault
  <2> QED BY <1>6, <2>1, <2>2, CallerType DEF SubmitFault, Reject, EndCall
<1>7. CASE SubmitDone
  BY <1>7, CallerType DEF SubmitDone, Resolve, EndCall
<1>8. CASE SubmitPrompt
  BY <1>8, CallerType, AppendType DEF SubmitPrompt, Own
<1>9. CASE SubmitSettle
  BY <1>9, CallerType DEF SubmitSettle, Resolve, Reject, EndCall
<1>10. CASE EngineAccept
  <2> DEFINE j == Head(inbox).id
  <2>1. /\ j \in Ids /\ Head(inbox).text \in Texts /\ Tail(inbox) \in Seq(Call)
    BY <1>10, PromptType DEF EngineAccept
  <2>2. /\ op' = [op EXCEPT ![j] = "pending"]
        /\ turn' = [turn EXCEPT ![j] = Cardinality(Accepted) + 1]
        /\ prompted' = [prompted EXCEPT ![j] = Head(inbox).text]
    BY <1>10 DEF EngineAccept
  <2>3. /\ op' \in [Ids -> {"absent"} \union Unfinished \union Terminal]
        /\ prompted' \in [Ids -> Texts \union {NoText}]
    BY <2>1, <2>2 DEF Unfinished
  <2>4. turn' \in [Ids -> Nat]
    <3>1. Cardinality(Accepted) + 1 \in Nat
      BY NextPlace
    <3> HIDE DEF Accepted
    <3> QED BY <2>2, <3>1
  <2>5. step' \in {"waiting", "saved", "accepting", "accepted", "refused"} /\ backlog' \in Nat
    BY <1>10 DEF EngineAccept, AcceptanceReaches, Emit
  <2> QED BY <1>10, <2>1, <2>3, <2>4, <2>5 DEF EngineAccept, Emit
<1>11. CASE EngineAttach
  BY <1>11, PromptType DEF EngineAttach, AcceptanceReaches
<1>12. CASE EngineRefuse
  <2>1. bounds' = bounds \/ (faults < MaxFaults /\ faults' = faults + 1 /\ UNCHANGED <<calls, crashes>>)
    BY <1>12 DEF EngineRefuse, Fault
  <2>2. calls' \in 0..MaxCalls /\ crashes' \in 0..MaxCrashes /\ faults' \in 0..MaxFaults
    BY <2>1, HostAssumption
  <2>3. task' \in [Ids -> {"none", "result", "drain", "caught"}] /\ ahead' \in [Ids -> Nat]
    BY <1>12 DEF EngineRefuse, Catch
  <2>4. inbox' \in Seq(Call) /\ step' \in {"waiting", "saved", "accepting", "accepted", "refused"}
    BY <1>12, PromptType DEF EngineRefuse, AcceptanceReaches
  <2> QED BY <1>12, <2>2, <2>3, <2>4 DEF EngineRefuse
<1>13. ASSUME NEW i \in Ids, EngineActivate(i) PROVE TypeOK'
  BY <1>13 DEF EngineActivate, Emit, Unfinished
<1>14. ASSUME NEW i \in Ids, NEW o \in {"completed", "failed"}, EngineFinish(i, o) PROVE TypeOK'
  BY <1>14 DEF EngineFinish, Emit, Terminal
<1>15. ASSUME NEW i \in Ids, Cancel(i) PROVE TypeOK'
  BY <1>15 DEF Cancel, Emit, Terminal
<1>16. ASSUME NEW i \in Ids, OwnResult(i) PROVE TypeOK'
  BY <1>16 DEF OwnResult, Catch
<1>17. ASSUME NEW i \in Ids, OwnRejected(i) PROVE TypeOK'
  BY <1>17 DEF OwnRejected, Catch
<1>18. ASSUME NEW i \in Ids, OwnSave(i) PROVE TypeOK'
  BY <1>18 DEF OwnSave, Disown, Settled
<1>19. ASSUME NEW i \in Ids, OwnCatch(i) PROVE TypeOK'
  BY <1>19 DEF OwnCatch, Disown, Settled
<1>20. CASE EventHandled
  BY <1>20 DEF EventHandled, Handled
<1>21. CASE Start
  BY <1>21 DEF Start, Rows
<1>22. CASE Serve
  BY <1>22 DEF Serve
<1>23. CASE Close
  BY <1>23 DEF Close
<1>24. CASE Release
  <2>1. <<>> \in Seq(Call)
    OBVIOUS
  <2> QED BY <1>24, <2>1 DEF Release, Ended
<1>25. CASE Crash
  <2>1. <<>> \in Seq(Call)
    OBVIOUS
  <2>2. calls' \in 0..MaxCalls /\ crashes' \in 0..MaxCrashes /\ faults' \in 0..MaxFaults
    BY <1>25, HostAssumption DEF Crash
  <2>3. Ended
    BY <1>25 DEF Crash
  <2> HIDE <1>25
  <2> QED BY <2>1, <2>2, <2>3 DEF Ended
<1>26. ASSUME NEW i \in Ids, RecoverSettled(i) PROVE TypeOK'
  BY <1>26 DEF RecoverSettled, NextRow
<1>27. ASSUME NEW i \in Ids, RecoverOutcome(i) PROVE TypeOK'
  BY <1>27 DEF RecoverOutcome, NextRow, Settled
<1>28. ASSUME NEW i \in Ids, RecoverResume(i) PROVE TypeOK'
  BY <1>28 DEF RecoverResume, NextRow, Own
<1>29. ASSUME NEW i \in Ids, RecoverPrompt(i) PROVE TypeOK'
  BY <1>29, AppendType DEF RecoverPrompt, NextRow, Own, Call, SavedInv, RowsComplete
<1>30. CASE EventLogFault
  BY <1>30, HostAssumption DEF EventLogFault, Fault, Handled
<1>31. CASE EventTouchFault
  BY <1>31, HostAssumption DEF EventTouchFault, Fault
<1>32. CASE RecoverFault
  BY <1>32, HostAssumption DEF RecoverFault, Fault
<1>33. ASSUME NEW i \in Ids, OwnInterrupted(i) PROVE TypeOK'
  BY <1>33, HostAssumption DEF OwnInterrupted, Fault, Catch
<1>34. ASSUME NEW i \in Ids, OwnSaveFault(i) PROVE TypeOK'
  BY <1>34, HostAssumption DEF OwnSaveFault, Fault, Catch
<1>35. ASSUME NEW i \in Ids, OwnCatchFault(i) PROVE TypeOK'
  BY <1>35, HostAssumption DEF OwnCatchFault, Fault, Disown
<1>36. CASE UNCHANGED vars
  BY <1>36 DEF vars
<1> QED BY <1>1, <1>2, <1>3, <1>4, <1>5, <1>6, <1>7, <1>8, <1>9, <1>10, <1>11, <1>12, <1>13,
          <1>14, <1>15, <1>16, <1>17, <1>18, <1>19, <1>20, <1>21, <1>22, <1>23, <1>24, <1>25,
          <1>26, <1>27, <1>28, <1>29, <1>30, <1>31, <1>32, <1>33, <1>34, <1>35, <1>36
       DEF Next, SubmitStep, OwnStep, RecoverStep, EngineStep, Failure

-----------------------------------------------------------------------------
(* Which steps touch what: eight readings of the whole next-state relation.   *)
USE DEF Next, vars, storeVars, engineVars, hostVars, submitVars, ownVars, eventVars, observers,
        bounds, SubmitStep, OwnStep, RecoverStep, EngineStep, Failure, Submit,
        RejectUnavailable, Reject, Resolve, EndCall, CanAdmit, AdmitNew, AdmitRetry, AdmitConflict,
        SubmitFault, SubmitDone, SubmitPrompt, SubmitSettle, EngineAccept, EngineAttach,
        EngineRefuse, AcceptanceReaches, EngineActivate, EngineFinish, Cancel, OwnResult,
        OwnRejected, OwnSave, OwnCatch, EventHandled, Start, Serve, Close, Release, Crash,
        Ended, RecoverSettled, RecoverOutcome, RecoverResume, RecoverPrompt, NextRow,
        EventLogFault, EventTouchFault, RecoverFault, OwnInterrupted, OwnSaveFault,
        OwnCatchFault

(* Only admission writes a row's content.                                   *)
LEMMA RowChanges ==
  [Next]_vars => UNCHANGED <<rowid, text, created>> \/ \E now \in Times : AdmitNew(now)
  OBVIOUS

(* Prompts are queued by a submit call or by startup, taken by the engine,  *)
(* and lost with the process.                                               *)
LEMMA InboxChanges ==
  [Next]_vars =>
    \/ UNCHANGED inbox
    \/ SubmitPrompt \/ \E i \in Ids : RecoverPrompt(i)
    \/ inbox # <<>> /\ inbox' = Tail(inbox)
    \/ inbox' = <<>>
  OBVIOUS

(* The call being served moves past admission, or ends; others wait.        *)
LEMMA CallChanges ==
  [Next]_vars =>
    \/ UNCHANGED admission /\ (step # "waiting" <=> step' # "waiting")
    \/ \E i \in Ids, t \in Texts : Submit(i, t)
    \/ step' = "waiting"
    \/ \E now \in Times : AdmitNew(now)
    \/ AdmitRetry
  OBVIOUS

(* The input of an operation is fixed when the engine accepts it.           *)
LEMMA PromptChanges ==
  [Next]_vars =>
    \/ UNCHANGED <<op, turn, prompted>>
    \/ EngineAccept
    \/ /\ UNCHANGED <<turn, prompted>>
       /\ \E i \in Ids :
            /\ op[i] \in Unfinished
            /\ \E s \in (Unfinished \union Terminal) \ {"pending"} : op' = [op EXCEPT ![i] = s]
  BY DEF Unfinished, Terminal

(* An outcome is written by an owner or by startup.                         *)
LEMMA DisplayChanges ==
  [Next]_vars => \/ UNCHANGED display
                 \/ \E now \in Times : AdmitNew(now)
                 \/ \E i \in Ids : OwnSave(i) \/ OwnCatch(i) \/ RecoverOutcome(i)
  OBVIOUS

(* The steps a user of the conversation can notice.                         *)
LEMMA PromiseChanges ==
  [Next]_vars => \/ UNCHANGED <<rowid, display, acked, asked>>
                 \/ \E now \in Times : AdmitNew(now)
                 \/ \E i \in Ids : OwnSave(i) \/ OwnCatch(i) \/ RecoverOutcome(i)
                 \/ \E i \in Ids : Cancel(i)
                 \/ SubmitDone \/ SubmitSettle
  OBVIOUS

(* The process leaves "down" behind by a start, and reaches it by a release *)
(* or a crash.                                                              *)
LEMMA DownReached ==
  [Next]_vars => phase' # "down" \/ UNCHANGED phase \/ Release \/ Crash
  OBVIOUS

(* Without a fault, a step is one of these, and the notifications chain     *)
(* stays sound.                                                             *)
LEMMA FaultFreeMoves ==
  [Next]_vars /\ HostInv /\ faults' = 0 =>
    /\ faults = 0 /\ (poisoned' => poisoned)
    /\ \/ UNCHANGED progress
       \/ \E i \in Ids, t \in Texts : Submit(i, t)
       \/ CallEnds
       \/ (\E now \in Times : AdmitNew(now)) \/ AdmitRetry \/ SubmitPrompt
       \/ EngineAccept \/ EngineAttach \/ EngineRefuse
       \/ \E i \in Ids : OperationMoves(i)
       \/ \E i \in Ids : OwnResult(i) \/ OwnRejected(i) \/ OwnSave(i) \/ OwnCatch(i)
       \/ Start \/ Serve \/ Close \/ Ended
       \/ \E i \in Ids : RecoverStep(i)
<1> SUFFICES ASSUME [Next]_vars, HostInv, faults' = 0 PROVE FaultFreeMoves!2
  OBVIOUS
<1>1. faults \in Nat
  BY HostAssumption DEF HostInv, TypeOK
<1>2. ~Fault
  BY <1>1, HostAssumption DEF Fault
<1>3. faults = 0 /\ ~Failure
  <2> HIDE DEF SubmitFault, EventLogFault, EventTouchFault, RecoverFault, OwnInterrupted, OwnSaveFault, OwnCatchFault
  <2>1. ~SubmitFault /\ ~EventLogFault /\ ~EventTouchFault /\ ~RecoverFault
    BY <1>2 DEF SubmitFault, EventLogFault, EventTouchFault, RecoverFault
  <2>2. \A i \in Ids : ~OwnInterrupted(i) /\ ~OwnSaveFault(i) /\ ~OwnCatchFault(i)
    BY <1>2 DEF OwnInterrupted, OwnSaveFault, OwnCatchFault
  <2>3. ~Failure
    BY <2>1, <2>2
  <2>4. faults = 0
    BY <1>2, <2>3
  <2> QED BY <2>3, <2>4
<1>4. ASSUME SubmitStep PROVE CallEnds \/ (\E now \in Times : AdmitNew(now)) \/ AdmitRetry \/ SubmitPrompt
  BY <1>4 DEF CallEnds, callVars
<1>5. ASSUME NEW i \in Ids, EngineStep(i) \/ Cancel(i) PROVE OperationMoves(i)
  BY <1>5 DEF OperationMoves, callVars, Terminal, Unfinished
<1>6. poisoned' => poisoned
  BY <1>3 DEF Emit
<1> HIDE DEF SubmitStep, EngineStep, Cancel, Failure
<1> QED BY <1>3, <1>4, <1>5, <1>6 DEF progress, callVars

HIDE DEF Next, vars, storeVars, engineVars, hostVars, submitVars, ownVars, eventVars, observers,
         bounds, SubmitStep, OwnStep, RecoverStep, EngineStep, Failure, Submit,
         RejectUnavailable, Reject, Resolve, EndCall, CanAdmit, AdmitNew, AdmitRetry, AdmitConflict,
         SubmitFault, SubmitDone, SubmitPrompt, SubmitSettle, EngineAccept, EngineAttach,
         EngineRefuse, AcceptanceReaches, EngineActivate, EngineFinish, Cancel, OwnResult,
         OwnRejected, OwnSave, OwnCatch, EventHandled, Start, Serve, Close, Release, Crash,
         Ended, RecoverSettled, RecoverOutcome, RecoverResume, RecoverPrompt, NextRow,
         EventLogFault, EventTouchFault, RecoverFault, OwnInterrupted, OwnSaveFault,
         OwnCatchFault

-----------------------------------------------------------------------------
(* A saved row keeps its content.                                           *)
RowsKept == \A i \in Ids : rowid[i] # 0 => rowid'[i] = rowid[i] /\ text'[i] = text[i]

LEMMA SavedRowsKept == HostInv /\ [Next]_vars => RowsKept
<1> SUFFICES ASSUME HostInv, [Next]_vars PROVE RowsKept
  OBVIOUS
<1>1. CASE UNCHANGED <<rowid, text>>
  BY <1>1 DEF RowsKept
<1>2. ASSUME NEW now \in Times, AdmitNew(now) PROVE RowsKept
  BY <1>2 DEF AdmitNew, RowsKept, HostInv, TypeOK
<1> QED BY <1>1, <1>2, RowChanges

(* An outcome is saved for an open row only, and "cancelled" only when the  *)
(* user asked for it.                                                       *)
SettlesOnce(i) ==
  \/ UNCHANGED display
  \/ \E o \in Settled : /\ display[i] = "open"
                        /\ o = "cancelled" => i \in asked
                        /\ display' = [display EXCEPT ![i] = o]

(* Whoever saves an outcome finds the row open, or writes what it holds.    *)
LEMMA SettledOnce ==
  ASSUME HostInv, NEW i \in Ids, OwnSave(i) \/ OwnCatch(i) \/ RecoverOutcome(i)
  PROVE  /\ UNCHANGED <<rowid, text, acked, asked>>
         /\ SettlesOnce(i)
<1> USE DEF HostInv, OutcomeInv, SavedInv, DrainCompleted, OutcomeAgrees, CancelAsked,
            PromptMatchesRow, RowsComplete, Settled, SettlesOnce
<1>1. op[i] # "absent" => display[i] \in {"open", "answered", "failed", "cancelled"}
  BY DEF TypeOK
<1>2. UNCHANGED <<rowid, text, acked, asked>>
  BY DEF OwnSave, OwnCatch, RecoverOutcome, NextRow, observers
<1>3. CASE OwnSave(i)
  <2>1. op[i] = "completed" /\ display' = [display EXCEPT ![i] = "answered"]
    BY <1>3 DEF OwnSave
  <2>2. display[i] = "open" \/ display[i] = "answered"
    BY <1>1, <2>1
  <2> QED BY <1>2, <2>1, <2>2 DEF TypeOK
<1>4. ASSUME op[i] \in {"failed", "cancelled"}, display' = [display EXCEPT ![i] = op[i]]
      PROVE  SettlesOnce(i)
  <2>1. display[i] = "open" \/ display[i] = op[i]
    BY <1>1, <1>4
  <2>2. CASE display[i] = op[i]
    <3>1. UNCHANGED display
      BY <1>4, <2>2 DEF TypeOK
    <3> QED BY <3>1
  <2>3. CASE display[i] = "open"
    <3>1. op[i] = "cancelled" => i \in asked
      OBVIOUS
    <3> QED BY <1>4, <2>3, <3>1
  <2> QED BY <2>1, <2>2, <2>3
<1>5. CASE OwnCatch(i)
  BY <1>2, <1>4, <1>5 DEF OwnCatch
<1>6. CASE RecoverOutcome(i)
  BY <1>2, <1>4, <1>6 DEF RecoverOutcome
<1> QED BY <1>3, <1>5, <1>6

(* Rows stay complete.                                                      *)
LEMMA RowsStep == HostInv /\ [Next]_vars => RowsComplete'
<1> SUFFICES ASSUME HostInv, [Next]_vars PROVE RowsComplete'
  OBVIOUS
<1>1. /\ rowid \in [Ids -> Nat] /\ text \in [Ids -> Texts \union {NoText}]
      /\ display \in [Ids -> {"none", "open"} \union Settled]
      /\ RowsComplete
  BY DEF HostInv, SavedInv, TypeOK
<1>2. CASE UNCHANGED <<rowid, text, display>>
  BY <1>1, <1>2 DEF RowsComplete
<1>3. ASSUME NEW now \in Times, AdmitNew(now) PROVE RowsComplete'
  <2>1. /\ Caller.id \in Ids /\ Caller.text \in Texts /\ Cardinality(Rows) + 1 # 0
    BY <1>3, CallerType, NextPlace DEF AdmitNew, CanAdmit, HostInv
  <2> QED BY <1>1, <1>3, <2>1 DEF AdmitNew, RowsComplete
<1>4. ASSUME NEW i \in Ids, OwnSave(i) \/ OwnCatch(i) \/ RecoverOutcome(i)
      PROVE  RowsComplete'
  <2>1. UNCHANGED <<rowid, text>> /\ SettlesOnce(i)
    BY <1>4, SettledOnce
  <2>2. CASE UNCHANGED display
    BY <1>1, <2>1, <2>2 DEF RowsComplete
  <2>3. ASSUME NEW o \in Settled, display[i] = "open", display' = [display EXCEPT ![i] = o]
        PROVE  RowsComplete'
    <3>1. o # "none"
      BY DEF Settled
    <3>2. \A j \in Ids : display'[j] = "none" <=> display[j] = "none"
      BY <1>1, <2>3, <3>1
    <3> QED BY <1>1, <2>1, <3>2 DEF RowsComplete
  <2> QED BY <2>1, <2>2, <2>3 DEF SettlesOnce
<1> QED BY <1>2, <1>3, <1>4, RowChanges, DisplayChanges

(* What waits in the queue still matches the rows: they keep their content. *)
LEMMA InboxStep == HostInv /\ [Next]_vars => InboxMatches'
<1> SUFFICES ASSUME HostInv, [Next]_vars PROVE InboxMatches'
  OBVIOUS
<1> USE DEF HostInv, SavedInv, InboxMatches
<1>1. inbox \in Seq(Call) /\ \A k \in DOMAIN inbox : inbox[k].id \in Ids
  <2>1. inbox \in Seq(Call)
    BY DEF TypeOK
  <2>2. \A k \in DOMAIN inbox : inbox[k] \in Call
    BY <2>1
  <2> QED BY <2>1, <2>2 DEF Call
<1>2. \A k \in DOMAIN inbox : rowid'[inbox[k].id] # 0 /\ inbox[k].text = text'[inbox[k].id]
  BY <1>1, SavedRowsKept DEF RowsKept
<1>3. ASSUME NEW e \in Call, inbox' = Append(inbox, e), rowid'[e.id] # 0, e.text = text'[e.id]
      PROVE  InboxMatches'
  BY <1>1, <1>2, <1>3, Queue
<1>4. CASE UNCHANGED inbox
  BY <1>2, <1>4
<1>5. CASE SubmitPrompt
  <2>1. Caller \in Call /\ rowid[Caller.id] # 0 /\ text[Caller.id] = Caller.text
    BY <1>5, CallerType DEF SubmitPrompt, CallerSaved
  <2>2. inbox' = Append(inbox, Caller) /\ UNCHANGED <<rowid, text>>
    BY <1>5 DEF SubmitPrompt, storeVars
  <2> QED BY <1>3, <2>1, <2>2
<1>6. ASSUME NEW i \in Ids, RecoverPrompt(i) PROVE InboxMatches'
  <2> DEFINE e == [id |-> i, text |-> text[i]]
  <2>1. rowid[i] # 0 /\ text[i] \in Texts
    BY <1>6 DEF RecoverPrompt, RowsComplete
  <2>2. e \in Call /\ inbox' = Append(inbox, e) /\ UNCHANGED <<rowid, text>>
    BY <1>6, <2>1 DEF RecoverPrompt, NextRow, Call
  <2> QED BY <1>3, <2>1, <2>2
<1>7. CASE inbox # <<>> /\ inbox' = Tail(inbox)
  BY <1>1, <1>2, <1>7, Queue
<1>8. CASE inbox' = <<>>
  BY <1>8
<1> QED BY <1>4, <1>5, <1>6, <1>7, <1>8, InboxChanges

(* The call being served keeps its row; a queued call does not displace it. *)
LEMMA CallerStep == HostInv /\ [Next]_vars => CallerSaved'
<1> SUFFICES ASSUME HostInv, [Next]_vars PROVE CallerSaved'
  OBVIOUS
<1> USE DEF HostInv, SavedInv, CallerSaved
<1>1. TypeOK
  OBVIOUS
<1>2. ASSUME step # "waiting"
      PROVE  admission # <<>> /\ Caller.id \in Ids
             /\ rowid'[Caller.id] # 0 /\ text'[Caller.id] = Caller.text
  <2>1. admission # <<>> /\ Caller.id \in Ids
    BY <1>1, <1>2, CallerType DEF Serving
  <2> QED BY <1>2, <2>1, SavedRowsKept DEF RowsKept
<1>3. CASE UNCHANGED admission /\ (step # "waiting" <=> step' # "waiting")
  BY <1>2, <1>3 DEF Caller
<1>4. ASSUME NEW i \in Ids, NEW t \in Texts, Submit(i, t) PROVE CallerSaved'
  <2> DEFINE e == [id |-> i, text |-> t]
  <2>1. e \in Call /\ admission' = Append(admission, e) /\ UNCHANGED <<step, rowid, text>>
    BY <1>4 DEF Submit, Call, storeVars
  <2>2. admission' # <<>> /\ (admission # <<>> => Head(admission') = Head(admission))
    <3>1. admission \in Seq(Call)
      BY <1>1 DEF TypeOK
    <3> QED BY <2>1, <3>1, Queue
  <2> QED BY <1>2, <2>1, <2>2 DEF Caller
<1>5. CASE step' = "waiting"
  BY <1>5
<1>6. ASSUME NEW now \in Times, AdmitNew(now) PROVE CallerSaved'
  <2>1. /\ Caller.id \in Ids /\ Cardinality(Rows) + 1 # 0
        /\ admission # <<>> /\ UNCHANGED admission
    BY <1>6, CallerType, NextPlace DEF AdmitNew, CanAdmit, Serving
  <2>2. rowid'[Caller.id] # 0 /\ text'[Caller.id] = Caller.text
    BY <1>6, <2>1 DEF AdmitNew, TypeOK
  <2> QED BY <2>1, <2>2 DEF Caller
<1>7. CASE AdmitRetry
  BY <1>7 DEF AdmitRetry, CanAdmit, Serving, Caller, storeVars
<1> QED BY <1>3, <1>4, <1>5, <1>6, <1>7, CallChanges

(* The engine is given what the queue holds, and the queue matches the rows.*)
LEMMA PromptStep == HostInv /\ [Next]_vars => PromptMatchesRow'
<1> SUFFICES ASSUME HostInv, [Next]_vars PROVE PromptMatchesRow'
  OBVIOUS
<1> USE DEF HostInv, SavedInv, PromptMatchesRow
<1>1. \A i \in Ids : op[i] # "absent" => rowid'[i] # 0 /\ prompted[i] = text'[i]
  BY SavedRowsKept DEF RowsKept
<1>2. CASE UNCHANGED <<op, prompted>>
  BY <1>1, <1>2
<1>3. CASE EngineAccept
  <2>1. /\ Head(inbox).id \in Ids
        /\ rowid[Head(inbox).id] # 0 /\ text[Head(inbox).id] = Head(inbox).text
    <3>1. inbox # <<>> /\ inbox \in Seq(Call)
      BY <1>3 DEF EngineAccept, TypeOK
    <3>2. 1 \in DOMAIN inbox /\ Head(inbox) = inbox[1]
      BY <3>1, Queue
    <3> QED BY <3>1, <3>2, PromptType DEF InboxMatches
  <2>2. /\ op' = [op EXCEPT ![Head(inbox).id] = "pending"]
        /\ prompted' = [prompted EXCEPT ![Head(inbox).id] = Head(inbox).text]
        /\ UNCHANGED <<rowid, text>>
    BY <1>3 DEF EngineAccept, storeVars
  <2> QED BY <2>1, <2>2 DEF TypeOK
<1>4. ASSUME UNCHANGED prompted,
             NEW i \in Ids, op[i] # "absent",
             NEW s \in Unfinished \union Terminal, op' = [op EXCEPT ![i] = s]
      PROVE  PromptMatchesRow'
  BY <1>1, <1>4 DEF TypeOK
<1>5. "absent" \notin Unfinished
  BY DEF Unfinished
<1> QED BY <1>2, <1>3, <1>4, <1>5, PromptChanges

(* The outcomes agree after every step.                                     *)
LEMMA OutcomeStep == HostInv /\ [Next]_vars => OutcomeInv'
<1> SUFFICES ASSUME HostInv, [Next]_vars PROVE OutcomeInv'
  OBVIOUS
<1> USE DEF HostInv, OutcomeInv, DrainCompleted, OutcomeAgrees, CancelAsked, TypeOK, storeVars,
            engineVars, hostVars, submitVars, ownVars, eventVars, observers, bounds
<1>1. ASSUME NEW i \in Ids, NEW t \in Texts, Submit(i, t) PROVE OutcomeInv'
  BY <1>1 DEF Submit, Call
<1>2. CASE RejectUnavailable
  BY <1>2, CallerType DEF RejectUnavailable, Reject, EndCall
<1>3. ASSUME NEW now \in Times, AdmitNew(now) PROVE OutcomeInv'
  BY <1>3, CallerType DEF AdmitNew, CanAdmit
<1>4. CASE AdmitRetry
  BY <1>4 DEF AdmitRetry, CanAdmit
<1>5. CASE AdmitConflict
  BY <1>5, CallerType DEF AdmitConflict, CanAdmit, Reject, EndCall
<1>6. CASE SubmitFault
  BY <1>6, CallerType DEF SubmitFault, CanAdmit, Fault, Reject, EndCall
<1>7. CASE SubmitDone
  BY <1>7, CallerType DEF SubmitDone, Resolve, EndCall
<1>8. CASE SubmitPrompt
  BY <1>8, CallerType DEF SubmitPrompt, Own
<1>9. CASE SubmitSettle
  BY <1>9, CallerType DEF SubmitSettle, Resolve, Reject, EndCall
<1>10. CASE EngineAccept
  BY <1>10, PromptType DEF EngineAccept, Emit, AcceptanceReaches, Unfinished
<1>11. CASE EngineAttach
  BY <1>11, PromptType DEF EngineAttach, AcceptanceReaches
<1>12. CASE EngineRefuse
  BY <1>12, PromptType DEF EngineRefuse, Fault, AcceptanceReaches, Catch
<1>13. ASSUME NEW i \in Ids, EngineActivate(i) PROVE OutcomeInv'
  BY <1>13 DEF EngineActivate, Emit, Unfinished
<1>14. ASSUME NEW i \in Ids, NEW o \in {"completed", "failed"}, EngineFinish(i, o) PROVE OutcomeInv'
  BY <1>14 DEF EngineFinish, Emit, Terminal
<1>15. ASSUME NEW i \in Ids, Cancel(i) PROVE OutcomeInv'
  BY <1>15 DEF Cancel, Emit, Terminal, Unfinished
<1>16. ASSUME NEW i \in Ids, OwnResult(i) PROVE OutcomeInv'
  BY <1>16 DEF OwnResult, Catch
<1>17. ASSUME NEW i \in Ids, OwnRejected(i) PROVE OutcomeInv'
  BY <1>17 DEF OwnRejected, Catch
<1>18. ASSUME NEW i \in Ids, OwnSave(i) PROVE OutcomeInv'
  BY <1>18 DEF OwnSave, Disown, Settled
<1>19. ASSUME NEW i \in Ids, OwnCatch(i) PROVE OutcomeInv'
  BY <1>19 DEF OwnCatch, Disown, Settled
<1>20. CASE EventHandled
  BY <1>20 DEF EventHandled, Handled
<1>21. CASE Start
  BY <1>21 DEF Start, Rows
<1>22. CASE Serve
  BY <1>22 DEF Serve
<1>23. CASE Close
  BY <1>23 DEF Close
<1>24. CASE Release
  BY <1>24 DEF Release, Ended
<1>25. CASE Crash
  BY <1>25 DEF Crash, Ended
<1>26. ASSUME NEW i \in Ids, RecoverSettled(i) PROVE OutcomeInv'
  BY <1>26 DEF RecoverSettled, NextRow
<1>27. ASSUME NEW i \in Ids, RecoverOutcome(i) PROVE OutcomeInv'
  BY <1>27 DEF RecoverOutcome, NextRow, Settled
<1>28. ASSUME NEW i \in Ids, RecoverResume(i) PROVE OutcomeInv'
  BY <1>28 DEF RecoverResume, NextRow, Own
<1>29. ASSUME NEW i \in Ids, RecoverPrompt(i) PROVE OutcomeInv'
  BY <1>29 DEF RecoverPrompt, NextRow, Own, Call, RowsComplete
<1>30. CASE EventLogFault
  BY <1>30 DEF EventLogFault, Fault, Handled
<1>31. CASE EventTouchFault
  BY <1>31 DEF EventTouchFault, Fault
<1>32. CASE RecoverFault
  BY <1>32 DEF RecoverFault, Fault
<1>33. ASSUME NEW i \in Ids, OwnInterrupted(i) PROVE OutcomeInv'
  BY <1>33 DEF OwnInterrupted, Fault, Catch
<1>34. ASSUME NEW i \in Ids, OwnSaveFault(i) PROVE OutcomeInv'
  BY <1>34 DEF OwnSaveFault, Fault, Catch
<1>35. ASSUME NEW i \in Ids, OwnCatchFault(i) PROVE OutcomeInv'
  BY <1>35 DEF OwnCatchFault, Fault, Disown
<1>36. CASE UNCHANGED vars
  BY <1>36 DEF vars
<1> QED BY <1>1, <1>2, <1>3, <1>4, <1>5, <1>6, <1>7, <1>8, <1>9, <1>10, <1>11, <1>12, <1>13,
          <1>14, <1>15, <1>16, <1>17, <1>18, <1>19, <1>20, <1>21, <1>22, <1>23, <1>24, <1>25,
          <1>26, <1>27, <1>28, <1>29, <1>30, <1>31, <1>32, <1>33, <1>34, <1>35, <1>36
       DEF Next, SubmitStep, OwnStep, RecoverStep, EngineStep, Failure

(* The strengthened invariant holds initially and is kept by every step.    *)
LEMMA HostInvariant == Safety => []HostInv
<1>1. Init => HostInv
  <2> SUFFICES ASSUME Init PROVE HostInv
    OBVIOUS
  <2>1. <<>> \in Seq(Call)
    OBVIOUS
  <2>2. TypeOK
    <3>1. 0 \in 0..MaxCalls /\ 0 \in 0..MaxCrashes /\ 0 \in 0..MaxFaults
      BY HostAssumption
    <3> QED BY <2>1, <3>1 DEF Init, TypeOK
  <2>3. SavedInv
    BY DEF Init, SavedInv, RowsComplete, InboxMatches, CallerSaved, PromptMatchesRow
  <2>4. OutcomeInv
    BY DEF Init, OutcomeInv, DrainCompleted, OutcomeAgrees, CancelAsked
  <2> QED BY <2>2, <2>3, <2>4 DEF HostInv
<1>2. HostInv /\ [Next]_vars => HostInv'
  BY TypeStep, RowsStep, InboxStep, CallerStep, PromptStep, OutcomeStep DEF HostInv, SavedInv
<1> QED BY <1>1, <1>2, PTL DEF Safety

-----------------------------------------------------------------------------
(* The host's state is well typed in every reachable state (partner.ts,     *)
(* store.ts:25-27).                                                         *)
THEOREM TypeCorrect == Safety => []TypeOK
  BY HostInvariant, PTL DEF HostInv

(* The row's outcome is always the engine's, over every interleaving of     *)
(* owners, cancellations, failed writes and restarts (partner.ts:116-132).  *)
THEOREM OutcomesAgree == Safety => []OutcomeAgrees
  BY HostInvariant, PTL DEF HostInv, OutcomeInv

(* The engine never runs content the row does not show (store.ts:84-89).    *)
THEOREM PromptsMatchRows == Safety => []PromptMatchesRow
  BY HostInvariant, PTL DEF HostInv, SavedInv

-----------------------------------------------------------------------------
(* Each step a user notices is the step of Conversation it is meant to be.  *)
LEMMA PromiseStep == HostInv /\ [Next]_vars => [Promise!Step]_(Promise!cvars)
<1> SUFFICES ASSUME HostInv, [Next]_vars PROVE [Promise!Step]_(Promise!cvars)
  OBVIOUS
<1> USE DEF Promise!Step, Promise!cvars
<1>1. CASE UNCHANGED <<rowid, display, acked, asked>>
  BY <1>1
<1>2. ASSUME NEW now \in Times, AdmitNew(now) PROVE [Promise!Step]_(Promise!cvars)
  <2>1. Caller.id \in Ids
    BY <1>2, CallerType DEF AdmitNew, CanAdmit, HostInv
  <2>2. Promise!Say(Caller.id)
    <3> DEFINE Placed == { n \in Ids : rowid[n] # 0 }
    <3>1. rowid' = [rowid EXCEPT ![Caller.id] = Cardinality(Placed) + 1]
      BY <1>2 DEF AdmitNew, Rows
    <3>2. Promise!Cardinality(Placed) = Cardinality(Placed)
      BY DEF Cardinality, Promise!Cardinality
    <3>3. /\ rowid[Caller.id] = 0 /\ UNCHANGED <<acked, asked>>
          /\ display' = [display EXCEPT ![Caller.id] = "open"]
      BY <1>2 DEF AdmitNew, observers
    <3> QED BY <3>1, <3>2, <3>3 DEF Promise!Say
  <2> QED BY <2>1, <2>2
<1>3. ASSUME NEW i \in Ids, OwnSave(i) \/ OwnCatch(i) \/ RecoverOutcome(i)
      PROVE  [Promise!Step]_(Promise!cvars)
  <2>1. UNCHANGED <<rowid, acked, asked>> /\ SettlesOnce(i)
    BY <1>3, SettledOnce
  <2>2. ASSUME NEW o \in Settled, display[i] = "open", o = "cancelled" => i \in asked,
               display' = [display EXCEPT ![i] = o]
        PROVE  \E p \in Promise!Outcomes : Promise!Settle(i, p)
    <3>1. o \in Promise!Outcomes
      BY DEF Settled, Promise!Outcomes
    <3>2. Promise!Settle(i, o)
      BY <2>1, <2>2 DEF Promise!Settle
    <3> QED BY <3>1, <3>2
  <2> QED BY <2>1, <2>2 DEF SettlesOnce
<1>4. ASSUME NEW i \in Ids, Cancel(i) PROVE [Promise!Step]_(Promise!cvars)
  <2>1. display[i] = "open"
    <3>1. op[i] \notin Terminal /\ op[i] # "absent"
      BY <1>4 DEF Cancel, Unfinished, Terminal
    <3>2. display[i] # "none" /\ display[i] \notin Settled
      BY <3>1 DEF HostInv, SavedInv, OutcomeInv, PromptMatchesRow, RowsComplete,
                  OutcomeAgrees, Settled, Terminal
    <3> QED BY <3>2 DEF HostInv, TypeOK
  <2>2. Promise!Stop(i)
    BY <1>4, <2>1 DEF Cancel, Promise!Stop, storeVars
  <2> QED BY <2>2
<1>5. ASSUME Serving, step # "waiting", UNCHANGED <<rowid, display>>, Resolve
      PROVE  [Promise!Step]_(Promise!cvars)
  <2>1. Caller.id \in Ids /\ rowid[Caller.id] # 0
    BY <1>5, CallerType DEF HostInv, SavedInv, CallerSaved
  <2>2. Promise!Confirm(Caller.id)
    BY <1>5, <2>1 DEF Resolve, Promise!Confirm
  <2> QED BY <2>1, <2>2
<1>6. CASE SubmitDone
  BY <1>5, <1>6 DEF SubmitDone, storeVars
<1>7. CASE SubmitSettle
  <2>1. CASE Resolve
    BY <1>5, <1>7, <2>1 DEF SubmitSettle, storeVars
  <2>2. CASE Reject
    BY <1>7, <2>2 DEF SubmitSettle, Reject, storeVars, observers
  <2> QED BY <1>7, <2>1, <2>2 DEF SubmitSettle
<1> QED BY <1>1, <1>2, <1>3, <1>4, <1>6, <1>7, PromiseChanges

(* The host, with its retries, its engine, its crashes and its failures,    *)
(* implements Conversation (partner.ts:116-147, 156-201).                   *)
THEOREM Implements == Safety => KeepsPromises
<1>1. Init => Promise!Start0
  BY DEF Init, Promise!Start0
<1>2. HostInv /\ [Next]_vars => [Promise!Step]_(Promise!cvars)
  BY PromiseStep
<1> QED BY <1>1, <1>2, HostInvariant, PTL DEF Safety, KeepsPromises, Promise!SafetySpec

-----------------------------------------------------------------------------
(* A new row comes after all others, and so does a new operation.           *)
LEMMA PlacesStep == HostInv /\ Places /\ [Next]_vars => Places'
<1> SUFFICES ASSUME HostInv, Places, [Next]_vars PROVE Places'
  OBVIOUS
<1>0. /\ rowid \in [Ids -> Nat] /\ turn \in [Ids -> Nat] /\ created \in [Ids -> Nat]
      /\ op \in [Ids -> {"absent"} \union Unfinished \union Terminal]
      /\ IsFiniteSet(Ids) /\ Times \subseteq Nat
      /\ Cardinality(Rows) \in Nat /\ Cardinality(Accepted) \in Nat
  BY HostAssumption, NextPlace DEF HostInv, TypeOK
<1> DEFINE RowPlaces == 
      /\ \A i \in Ids : rowid[i] =< Cardinality(Rows)
      /\ \A i, j \in Rows : rowid[i] = rowid[j] => i = j
      /\ \A i, j \in Rows : ClockStepsBack \/ (rowid[i] < rowid[j] => created[i] =< created[j])
    TurnPlaces ==
      /\ \A i \in Ids : op[i] = "absent" <=> turn[i] = 0
      /\ \A i \in Ids : turn[i] =< Cardinality(Accepted)
<1>1. RowPlaces'
  <2>1. CASE UNCHANGED <<rowid, created>>
    <3>1. UNCHANGED Rows
      BY <2>1 DEF Rows
    <3> QED BY <2>1, <3>1 DEF Places
  <2>2. ASSUME NEW now \in Times, AdmitNew(now) PROVE RowPlaces'
    <3> DEFINE n == Cardinality(Rows) + 1
    <3>1. /\ Caller.id \in Ids \ Rows /\ rowid' = [rowid EXCEPT ![Caller.id] = n]
          /\ created' = [created EXCEPT ![Caller.id] = now]
          /\ ClockStepsBack \/ \A i \in Rows : created[i] =< now
      BY <2>2, CallerType DEF AdmitNew, CanAdmit, Rows, HostInv
    <3>2. Rows' = Rows \union {Caller.id}
      BY <1>0, <3>1 DEF Rows
    <3>3. Cardinality(Rows') = n
      <4>1. IsFiniteSet(Rows)
        BY <1>0, FS_Subset DEF Rows
      <4> QED BY <3>1, <3>2, <4>1, FS_AddElement
    <3>4. \A i \in Rows : /\ i \in Ids /\ rowid[i] =< Cardinality(Rows)
                          /\ rowid'[i] = rowid[i] /\ created'[i] = created[i]
      BY <1>0, <3>1 DEF Rows, Places
    <3>5. rowid'[Caller.id] = n /\ created'[Caller.id] = now
      BY <1>0, <3>1
    <3>6. \A i \in Ids : rowid'[i] =< n
      BY <1>0, <3>1 DEF Places
    <3> HIDE DEF Rows
    <3> QED BY <1>0, <3>1, <3>2, <3>3, <3>4, <3>5, <3>6 DEF Places
  <2> QED BY <2>1, <2>2, RowChanges
<1>2. TurnPlaces'
  <2>1. CASE UNCHANGED <<op, turn>>
    <3>1. UNCHANGED Accepted
      BY <2>1 DEF Accepted
    <3> QED BY <2>1, <3>1 DEF Places
  <2>2. CASE EngineAccept
    <3> DEFINE n == Cardinality(Accepted) + 1
               h == Head(inbox).id
    <3>1. /\ h \in Ids \ Accepted /\ turn' = [turn EXCEPT ![h] = n]
          /\ op' = [op EXCEPT ![h] = "pending"]
      BY <2>2, PromptType DEF EngineAccept, HostInv, Accepted, Places
    <3>2. Accepted' = Accepted \union {h}
      BY <1>0, <3>1 DEF Accepted
    <3>3. Cardinality(Accepted') = n
      <4>1. IsFiniteSet(Accepted)
        BY <1>0, FS_Subset DEF Accepted
      <4> QED BY <3>1, <3>2, <4>1, FS_AddElement
    <3> QED BY <1>0, <3>1, <3>3 DEF Places
  <2>3. ASSUME UNCHANGED turn, NEW i \in Ids, op[i] \in Unfinished,
               NEW s \in (Unfinished \union Terminal) \ {"pending"}, op' = [op EXCEPT ![i] = s]
        PROVE  TurnPlaces'
    <3>1. UNCHANGED Accepted
      BY <2>3 DEF Accepted
    <3>2. s # "absent" /\ op[i] # "absent"
      BY <2>3 DEF Unfinished, Terminal
    <3> QED BY <1>0, <2>3, <3>1, <3>2 DEF Places
  <2> QED BY <2>1, <2>2, <2>3, PromptChanges
<1> QED BY <1>1, <1>2 DEF Places

(* A prompt joins the end of the queue.                                     *)
LEMMA Enqueued ==
  ASSUME inbox \in Seq(Call), NEW e \in Call, inbox' = Append(inbox, e)
  PROVE  /\ Waiting' = Waiting \union {e.id}
         /\ \A k \in DOMAIN inbox' : \/ k \in DOMAIN inbox /\ inbox'[k] = inbox[k]
                                     \/ inbox'[k] = e /\ \A l \in DOMAIN inbox : l < k
         /\ OncePrompted /\ e.id \notin Waiting => OncePrompted'
<1>1. /\ DOMAIN inbox' = 1..(Len(inbox) + 1) /\ DOMAIN inbox = 1..Len(inbox) /\ Len(inbox) \in Nat
      /\ \A k \in DOMAIN inbox : inbox'[k] = inbox[k]
      /\ inbox'[Len(inbox) + 1] = e
  OBVIOUS
<1>2. ASSUME NEW x PROVE x \in Waiting' <=> x \in Waiting \union {e.id}
  BY <1>1 DEF Waiting
<1>3. \A k \in DOMAIN inbox' : k \in DOMAIN inbox \/ k = Len(inbox) + 1
  BY <1>1
<1>4. ASSUME OncePrompted, e.id \notin Waiting PROVE OncePrompted'
  <2>1. \A k \in DOMAIN inbox : inbox[k].id # e.id
    BY <1>4 DEF Waiting
  <2> QED BY <1>1, <1>3, <1>4, <2>1 DEF OncePrompted
<1>5. \A l \in DOMAIN inbox : l < Len(inbox) + 1
  BY <1>1
<1> QED BY <1>1, <1>2, <1>3, <1>4, <1>5

(* The engine takes the first prompt of the queue.                          *)
LEMMA Dequeued ==
  ASSUME inbox \in Seq(Call), inbox # <<>>, inbox' = Tail(inbox)
  PROVE  /\ 1 \in DOMAIN inbox /\ Head(inbox) = inbox[1]
         /\ Waiting = Waiting' \union {Head(inbox).id}
         /\ \A k \in DOMAIN inbox' : k \in Nat /\ k + 1 \in DOMAIN inbox /\ inbox'[k] = inbox[k + 1]
         /\ OncePrompted => OncePrompted' /\ Head(inbox).id \notin Waiting'
<1>1. /\ DOMAIN inbox' = 1..(Len(inbox) - 1) /\ DOMAIN inbox = 1..Len(inbox) /\ Len(inbox) \in Nat \ {0}
      /\ \A k \in DOMAIN inbox' : inbox'[k] = inbox[k + 1]
      /\ Head(inbox) = inbox[1]
  OBVIOUS
<1>2. \A k \in DOMAIN inbox : k = 1 \/ (k - 1 \in DOMAIN inbox' /\ inbox'[k - 1] = inbox[k])
  BY <1>1
<1>3. \A k \in DOMAIN inbox' : k \in Nat /\ k + 1 \in DOMAIN inbox /\ k + 1 # 1
  BY <1>1
<1>4. ASSUME NEW x PROVE x \in Waiting <=> x \in Waiting' \union {Head(inbox).id}
  BY <1>1, <1>2, <1>3 DEF Waiting
<1>5. ASSUME OncePrompted PROVE OncePrompted' /\ Head(inbox).id \notin Waiting'
  <2>1. \A k, l \in DOMAIN inbox' : inbox'[k].id = inbox'[l].id => k + 1 = l + 1
    BY <1>1, <1>3, <1>5 DEF OncePrompted
  <2>2. \A k \in DOMAIN inbox' : inbox'[k].id # Head(inbox).id
    BY <1>1, <1>3, <1>5 DEF OncePrompted
  <2> QED BY <1>3, <2>1, <2>2 DEF OncePrompted, Waiting
<1> QED BY <1>1, <1>3, <1>4, <1>5

(* Ownership passes from the call to the owner, and from startup to it.     *)
LEMMA OwnedStep == HostInv /\ Owned /\ [Next]_vars => Owned'
<1> SUFFICES ASSUME HostInv, Owned, [Next]_vars, faults' = 0
             PROVE  (Owners /\ Queued /\ Phases)'
  BY DEF Owned
<1> DEFINE Goal == Owners /\ Queued /\ Phases
<1>1. Owners /\ Queued /\ Phases /\ ~poisoned'
  BY FaultFreeMoves DEF Owned, Phases
<1>2. /\ TypeOK /\ Waiting \subseteq Ids
      /\ \A i \in Ids : display[i] # "none" <=> i \in Rows
      /\ Serving => Caller.id \in Ids
  <2>1. TypeOK
    BY DEF HostInv
  <2>2. \A k \in DOMAIN inbox : inbox[k] \in Call
    BY <2>1 DEF TypeOK
  <2> QED BY <2>1, <2>2, CallerType DEF Call, Waiting, Rows, HostInv, SavedInv, RowsComplete
<1>3. CASE UNCHANGED progress
  BY <1>1, <1>3 DEF progress, callVars, Owners, Queued, Phases, OncePrompted, Waiting,
                    BeingSubmitted, Serving, Caller, Rows
(* Moves of submit calls. *)
<1>4. ASSUME NEW i \in Ids, NEW t \in Texts, Submit(i, t) PROVE Goal'
  <2>1. /\ Serving => Serving' /\ Caller' = Caller
        /\ UNCHANGED <<phase, todo, step, known, inbox, task, op, rowid, display>>
        /\ phase = "running"
    <3>1. [id |-> i, text |-> t] \in Call /\ admission \in Seq(Call)
      BY <1>2 DEF Call, TypeOK
    <3>2. admission' = Append(admission, [id |-> i, text |-> t])
      BY <1>4 DEF Submit
    <3>3. admission' # <<>> /\ (admission # <<>> => Head(admission') = Head(admission))
      BY <3>1, <3>2, Queue
    <3> QED BY <1>4, <3>3 DEF Submit, Serving, Caller, hostVars, ownVars, engineVars, storeVars
  <2>2. ~Serving => ~known
    BY <1>1 DEF Phases
  <2>3. Owners' /\ Queued'
    BY <1>1, <2>1 DEF Owners, Queued, OncePrompted, Waiting, BeingSubmitted
  <2>4. Phases'
    BY <1>1, <2>1, <2>2 DEF Phases, Rows
  <2> QED BY <2>3, <2>4
<1>5. CASE CallEnds
  BY <1>1, <1>5 DEF CallEnds, EndCall, Owners, Queued, OncePrompted, Phases, Waiting, BeingSubmitted,
                    Serving, Rows
<1>6. ASSUME NEW now \in Times, AdmitNew(now) PROVE Goal'
  <2>1. /\ Caller.id \in Ids \ Rows /\ Serving /\ phase = "running" /\ todo = {}
        /\ display' = [display EXCEPT ![Caller.id] = "open"]
        /\ UNCHANGED <<phase, todo, admission, inbox, task, op>>
        /\ step = "waiting" /\ step' = "saved" /\ known' = FALSE
    BY <1>1, <1>2, <1>6 DEF AdmitNew, CanAdmit, Rows, engineVars, hostVars, ownVars, Phases
  <2>2. \A j \in Waiting : j # Caller.id
    BY <2>1 DEF Waiting, HostInv, SavedInv, InboxMatches, Rows
  <2>3. op[Caller.id] = "absent" /\ task[Caller.id] = "none"
    BY <1>1, <2>1, <2>2 DEF Owners, HostInv, SavedInv, PromptMatchesRow, Rows
  <2>4. Owners'
    BY <1>1, <1>2, <2>1, <2>2, <2>3 DEF Owners, Waiting, BeingSubmitted, Serving, Caller, TypeOK
  <2>5. Queued'
    <3>1. Waiting' = Waiting /\ OncePrompted'
      BY <1>1, <2>1 DEF Waiting, Queued, OncePrompted
    <3> QED BY <1>1, <1>2, <2>1, <2>2, <3>1 DEF Queued, TypeOK
  <2>6. Phases'
    BY <1>1, <2>1 DEF Phases
  <2> QED BY <2>4, <2>5, <2>6
<1>7. CASE AdmitRetry
  <2>1. /\ Serving /\ phase = "running" /\ todo = {} /\ step = "waiting" /\ step' = "saved"
        /\ known' = (display[Caller.id] \in Settled)
        /\ UNCHANGED <<phase, todo, admission, inbox, task, op, rowid, display>>
    BY <1>1, <1>7 DEF AdmitRetry, CanAdmit, storeVars, engineVars, hostVars, ownVars, Phases
  <2> QED BY <1>1, <2>1 DEF Owners, Queued, OncePrompted, Phases, Waiting, BeingSubmitted, Serving, Caller
<1>8. CASE SubmitPrompt
  <2> DEFINE c == Caller.id
  <2>1. /\ c \in Ids /\ Serving /\ ~known /\ step = "saved" /\ task[c] = "none"
        /\ inbox' = Append(inbox, Caller) /\ step' = "accepting"
        /\ task' = [task EXCEPT ![c] = "result"]
        /\ UNCHANGED <<phase, todo, admission, known, op, rowid, display>>
    BY <1>2, <1>8 DEF SubmitPrompt, Own, storeVars, engineVars, hostVars
  <2>2. todo = {} /\ phase \notin {"down", "recovering"} /\ c \notin Waiting
    BY <1>1, <2>1 DEF Phases, Queued, Serving
  <2>3. Waiting' = Waiting \union {c} /\ OncePrompted'
    BY <1>1, <1>2, <2>1, <2>2, CallerType, Enqueued DEF Queued, TypeOK
  <2>4. op[c] = "absent" \/ display[c] \in Settled
    <3>1. display[c] # "none"
      BY <2>1 DEF HostInv, SavedInv, CallerSaved, RowsComplete
    <3> QED BY <1>1, <1>2, <2>1, <2>2, <3>1 DEF Owners, TypeOK
  <2>5. Queued'
    BY <1>1, <1>2, <2>1, <2>3, <2>4 DEF Queued, TypeOK
  <2>6. Owners'
    BY <1>1, <1>2, <2>1, <2>2, <2>3 DEF Owners, BeingSubmitted, Serving, Caller, TypeOK
  <2>7. Phases'
    BY <1>1, <2>1, <2>2 DEF Phases, Serving, Caller
  <2> QED BY <2>5, <2>6, <2>7
(* Moves of the engine. *)
<1>9. CASE EngineAccept
  <2> DEFINE h == Head(inbox).id
  <2>1. /\ h \in Ids /\ op[h] = "absent" /\ op' = [op EXCEPT ![h] = "pending"]
        /\ inbox # <<>> /\ inbox' = Tail(inbox)
        /\ (step = "saved" <=> step' = "saved")
        /\ UNCHANGED <<phase, todo, admission, known, task, rowid, display>>
    BY <1>2, <1>9, PromptType DEF EngineAccept, AcceptanceReaches, storeVars, hostVars, ownVars
  <2>2. h \in Waiting /\ h \notin Waiting' /\ Waiting = Waiting' \union {h} /\ OncePrompted'
    BY <1>1, <1>2, <2>1, Dequeued DEF Queued, TypeOK
  <2>3. Queued'
    BY <1>1, <1>2, <2>1, <2>2 DEF Queued, TypeOK
  <2>4. Owners'
    BY <1>1, <1>2, <2>1, <2>2 DEF Owners, Queued, BeingSubmitted, Serving, Caller, TypeOK
  <2>5. Phases'
    BY <1>1, <2>1 DEF Phases, Serving, Caller, Rows
  <2> QED BY <2>3, <2>4, <2>5
<1>10. CASE EngineAttach
  <2> DEFINE h == Head(inbox).id
  <2>1. /\ h \in Ids /\ op[h] # "absent" /\ inbox # <<>> /\ inbox' = Tail(inbox)
        /\ (step = "saved" <=> step' = "saved")
        /\ UNCHANGED <<phase, todo, admission, known, task, op, rowid, display>>
    BY <1>2, <1>10, PromptType DEF EngineAttach, AcceptanceReaches, storeVars, engineVars, hostVars, ownVars
  <2>2. Waiting = Waiting' \union {h} /\ OncePrompted'
    BY <1>1, <1>2, <2>1, Dequeued DEF Queued, TypeOK
  <2>3. Queued'
    BY <1>1, <2>1, <2>2 DEF Queued
  <2>4. Owners'
    BY <1>1, <2>1, <2>2 DEF Owners, BeingSubmitted, Serving, Caller
  <2>5. Phases'
    BY <1>1, <2>1 DEF Phases, Serving, Caller, Rows
  <2> QED BY <2>3, <2>4, <2>5
<1>11. CASE EngineRefuse
  <2> DEFINE h == Head(inbox).id
  <2>1. /\ h \in Ids /\ op[h] # "absent" /\ task' = [task EXCEPT ![h] = "caught"]
        /\ inbox # <<>> /\ inbox' = Tail(inbox)
        /\ (step = "saved" <=> step' = "saved")
        /\ UNCHANGED <<phase, todo, admission, known, op, rowid, display>>
    <3>1. ~Fault
      BY <1>2, HostAssumption DEF Fault, TypeOK
    <3> QED BY <1>2, <1>11, <3>1, PromptType
            DEF EngineRefuse, AcceptanceReaches, Catch, storeVars, engineVars, hostVars
  <2>2. /\ h \in Waiting /\ h \notin Waiting' /\ Waiting = Waiting' \union {h} /\ OncePrompted'
        /\ display[h] \in Settled /\ task[h] = "result"
    BY <1>1, <1>2, <2>1, Dequeued DEF Queued, TypeOK
  <2>3. Queued'
    BY <1>1, <1>2, <2>1, <2>2 DEF Queued, TypeOK
  <2>4. Owners'
    BY <1>1, <1>2, <2>1, <2>2 DEF Owners, BeingSubmitted, Serving, Caller, TypeOK
  <2>5. Phases'
    BY <1>1, <1>2, <2>1, <2>2 DEF Phases, Serving, Caller, Rows, TypeOK
  <2> QED BY <2>3, <2>4, <2>5
<1>12. ASSUME NEW i \in Ids, OperationMoves(i) PROVE Goal'
  <2>1. /\ op[i] # "absent" /\ op'[i] # "absent" /\ op[i] \in Unfinished
        /\ \A j \in Ids \ {i} : op'[j] = op[j]
        /\ UNCHANGED <<phase, todo, admission, step, known, inbox, task, rowid, display>>
    BY <1>2, <1>12 DEF OperationMoves, callVars, Unfinished, Terminal, TypeOK
  <2>2. op[i] \notin {"failed", "cancelled"}
    BY <2>1 DEF Unfinished
  <2>3. Owners'
    BY <1>1, <2>1, <2>2 DEF Owners, Waiting, BeingSubmitted, Serving, Caller
  <2> QED BY <1>1, <1>2, <2>1, <2>3 DEF Queued, OncePrompted, Waiting, Phases, Serving, Caller, Rows
(* Moves of owners. *)
<1>13. ASSUME NEW i \in Ids, OwnResult(i) \/ OwnRejected(i) \/ OwnSave(i) \/ OwnCatch(i)
       PROVE  Goal'
  <2>1. /\ UNCHANGED <<phase, todo, admission, step, known, inbox, op, rowid>>
        /\ i \notin Waiting /\ task[i] # "none"
    BY <1>1, <1>13 DEF OwnResult, OwnRejected, OwnSave, OwnCatch, Driven, Queued, engineVars, hostVars,
                       submitVars, storeVars
  <2>2. \A j \in Ids \ {i} : task'[j] = task[j] /\ display'[j] = display[j]
    BY <1>2, <1>13 DEF OwnResult, OwnRejected, OwnSave, OwnCatch, Catch, Disown, storeVars, TypeOK
  <2>3. /\ display[i] \in Settled => display'[i] \in Settled
        /\ task'[i] = "caught" => display'[i] \in Settled \/ op[i] \in {"failed", "cancelled"}
        /\ task'[i] = "none" => display'[i] # "open"
        /\ display[i] # "open" => display'[i] # "open"
    <3>1. CASE OwnResult(i)
      BY <1>1, <1>2, <3>1 DEF OwnResult, storeVars, Phases, TypeOK
    <3>2. CASE OwnRejected(i)
      BY <1>2, <3>2 DEF OwnRejected, Catch, storeVars, Terminal, TypeOK
    <3>3. CASE OwnSave(i)
      BY <1>2, <3>3 DEF OwnSave, Disown, Settled, TypeOK
    <3>4. CASE OwnCatch(i)
      BY <1>1, <1>2, <3>4 DEF OwnCatch, Disown, Settled, Owners, TypeOK
    <3> QED BY <1>13, <3>1, <3>2, <3>3, <3>4
  <2>4. phase # "down" /\ i \notin todo
    BY <1>1, <2>1 DEF Phases
  <2>5. Waiting' = Waiting /\ OncePrompted'
    BY <1>1, <2>1 DEF Waiting, OncePrompted, Queued
  <2>6. Owners'
    BY <1>1, <2>1, <2>2, <2>3, <2>4, <2>5 DEF Owners, BeingSubmitted, Serving, Caller
  <2>7. Queued'
    BY <1>1, <1>2, <2>1, <2>2, <2>5 DEF Queued
  <2>8. Phases'
    BY <1>1, <1>2, <2>1, <2>2, <2>3, <2>4 DEF Phases, Serving, Caller, Rows
  <2> QED BY <2>6, <2>7, <2>8
(* Moves of startup and shutdown. *)
<1>14. CASE Start
  BY <1>1, <1>2, <1>14 DEF Start, storeVars, engineVars, submitVars, ownVars, Owners, Queued, OncePrompted,
                           Phases, Waiting, BeingSubmitted, Serving, Caller, Rows
<1>15. CASE Serve \/ Close
  BY <1>1, <1>15 DEF Serve, Close, storeVars, engineVars, submitVars, ownVars, Owners, Queued, OncePrompted,
                     Phases, Waiting, BeingSubmitted, Serving, Caller, Rows
<1>16. CASE Ended
  BY <1>1, <1>16 DEF Ended, storeVars, engineVars, Owners, Queued, OncePrompted, Phases, Waiting,
                     BeingSubmitted, Serving, Caller, Rows
<1>17. ASSUME NEW i \in Ids, RecoverSettled(i) \/ RecoverOutcome(i) PROVE Goal'
  <2>1. /\ i \in todo /\ todo' = todo \ {i} /\ phase = "recovering"
        /\ UNCHANGED <<phase, admission, step, known, inbox, task, op, rowid>>
    BY <1>17 DEF RecoverSettled, RecoverOutcome, NextRow, engineVars, submitVars, ownVars
  <2>2. /\ \A j \in Ids \ {i} : display'[j] = display[j]
        /\ display'[i] \in Settled
    BY <1>2, <1>17 DEF RecoverSettled, RecoverOutcome, Settled, TypeOK
  <2>3. Waiting' = Waiting /\ OncePrompted' /\ ~Serving /\ ~Serving'
    BY <1>1, <2>1 DEF Waiting, Phases, Serving, Queued, OncePrompted
  <2>4. Owners'
    BY <1>1, <1>2, <2>1, <2>2, <2>3 DEF Owners, BeingSubmitted, Settled
  <2>5. Queued'
    BY <1>1, <1>2, <2>1, <2>2, <2>3 DEF Queued
  <2>6. Phases'
    BY <1>1, <2>1, <2>3 DEF Phases, Rows
  <2> QED BY <2>4, <2>5, <2>6
<1>18. ASSUME NEW i \in Ids, RecoverResume(i) PROVE Goal'
  <2>1. /\ i \in todo /\ todo' = todo \ {i} /\ phase = "recovering" /\ op[i] # "absent"
        /\ task' = [task EXCEPT ![i] = "result"]
        /\ UNCHANGED <<phase, admission, step, known, inbox, op, rowid, display>>
    BY <1>18 DEF RecoverResume, Own, NextRow, engineVars, submitVars, Unfinished
  <2>2. Waiting' = Waiting /\ OncePrompted' /\ ~Serving /\ ~Serving'
    BY <1>1, <2>1 DEF Waiting, Phases, Serving, Queued, OncePrompted
  <2>3. Owners' /\ Queued'
    BY <1>1, <1>2, <2>1, <2>2 DEF Owners, Queued, BeingSubmitted, TypeOK
  <2>4. Phases'
    BY <1>1, <1>2, <2>1, <2>2 DEF Phases, Rows, TypeOK
  <2> QED BY <2>3, <2>4
<1>19. ASSUME NEW i \in Ids, RecoverPrompt(i) PROVE Goal'
  <2> DEFINE e == [id |-> i, text |-> text[i]]
  <2>1. /\ i \in todo /\ todo' = todo \ {i} /\ phase = "recovering" /\ op[i] = "absent"
        /\ inbox' = Append(inbox, e) /\ task' = [task EXCEPT ![i] = "result"]
        /\ UNCHANGED <<phase, admission, step, known, op, rowid, display>>
    BY <1>19 DEF RecoverPrompt, NextRow, Own, engineVars, submitVars
  <2>2. e \in Call /\ e.id = i /\ inbox \in Seq(Call)
    <3>1. text[i] \in Texts
      BY <1>1, <2>1 DEF Phases, Rows, HostInv, SavedInv, RowsComplete
    <3> QED BY <1>2, <3>1 DEF Call, TypeOK
  <2>3. task[i] = "none" /\ i \notin Waiting
    BY <1>1, <2>1 DEF Phases, Queued
  <2>4. Waiting' = Waiting \union {i} /\ OncePrompted' /\ ~Serving /\ ~Serving'
    <3> HIDE DEF e
    <3> QED BY <1>1, <2>1, <2>2, <2>3, Enqueued DEF Phases, Serving, Queued
  <2>5. Queued'
    BY <1>1, <1>2, <2>1, <2>4 DEF Queued, TypeOK
  <2>6. Owners'
    BY <1>1, <1>2, <2>1, <2>4 DEF Owners, BeingSubmitted, TypeOK
  <2>7. Phases'
    BY <1>1, <1>2, <2>1, <2>4 DEF Phases, Rows, TypeOK
  <2> QED BY <2>5, <2>6, <2>7
<1> QED BY <1>3, <1>4, <1>5, <1>6, <1>7, <1>8, <1>9, <1>10, <1>11, <1>12, <1>13, <1>14, <1>15,
          <1>16, <1>17, <1>18, <1>19, FaultFreeMoves DEF RecoverStep

(* A row is prompted after every earlier one, by its call or by startup.    *)
LEMMA OrderedStep ==
  ASSUME HostInv, Places, Owned, Ordered, [Next]_vars, ClockStepsBack = FALSE
  PROVE  Ordered'
<1> SUFFICES ASSUME faults' = 0 PROVE InOrder'
  BY DEF Ordered
<1>1. Owners /\ Queued /\ Phases /\ InOrder /\ faults = 0
  BY FaultFreeMoves DEF Owned, Ordered
<1>2. /\ TypeOK /\ Waiting \subseteq Rows
      /\ \A k \in DOMAIN inbox : inbox[k].id \in Waiting
      /\ Accepted \subseteq Rows
      /\ \A i \in Ids : display[i] \in Settled => op[i] # "absent"
      /\ \A i \in Ids : i \in Accepted <=> op[i] # "absent"
  <2>1. TypeOK
    BY DEF HostInv
  <2>2. \A k \in DOMAIN inbox : inbox[k] \in Call
    BY <2>1 DEF TypeOK
  <2>3. \A i \in Ids : i \in Accepted <=> op[i] # "absent"
    BY DEF Accepted, Places
  <2>4. \A i \in Ids : display[i] \in Settled => op[i] # "absent"
    BY DEF HostInv, OutcomeInv, OutcomeAgrees, Settled
  <2> QED BY <2>1, <2>2, <2>3, <2>4
          DEF Call, Waiting, Accepted, Rows, HostInv, SavedInv, InboxMatches, PromptMatchesRow
<1>3. /\ \A i \in Ids : rowid[i] \in Nat /\ turn[i] \in Nat
      /\ Cardinality(Rows) \in Nat /\ Cardinality(Accepted) \in Nat
  BY <1>2, NextPlace DEF TypeOK
(* Nothing the order depends on changes.                                    *)
<1>4. ASSUME UNCHANGED <<rowid, turn, inbox>>, 
             \A i \in Ids : op'[i] = "absent" <=> op[i] = "absent"
      PROVE  InOrder'
  <2>1. Rows' = Rows /\ Waiting' = Waiting /\ Accepted' = Accepted
    BY <1>4 DEF Rows, Waiting, Accepted
  <2>2. \A i \in Rows : Prompted(i)' <=> Prompted(i)
    BY <1>4, <2>1 DEF Prompted, Rows
  <2>3. \A k \in DOMAIN inbox : op'[inbox[k].id] = "absent" <=> op[inbox[k].id] = "absent"
    BY <1>2, <1>4 DEF Rows
  <2> QED BY <1>1, <1>4, <2>1, <2>2, <2>3 DEF InOrder, Rows
<1>5. ASSUME NEW now \in Times, AdmitNew(now) PROVE InOrder'
  <2> DEFINE c == Caller.id
  <2>1. /\ c \in Ids \ Rows /\ rowid' = [rowid EXCEPT ![c] = Cardinality(Rows) + 1]
        /\ UNCHANGED <<op, turn, inbox>>
    BY <1>2, <1>5, CallerType DEF AdmitNew, CanAdmit, Rows, engineVars
  <2> HIDE DEF c
  <2>2. /\ rowid'[c] = Cardinality(Rows) + 1
        /\ \A i \in Ids \ {c} : rowid'[i] = rowid[i]
    BY <1>2, <2>1 DEF TypeOK
  <2>3. Rows' = Rows \union {c} /\ Waiting' = Waiting /\ Accepted' = Accepted
    <3>1. Rows' = Rows \union {c}
      BY <1>3, <2>1, <2>2 DEF Rows
    <3> QED BY <2>1, <3>1 DEF Waiting, Accepted
  <2>8. \A i \in Rows : rowid'[i] = rowid[i] /\ rowid[i] < rowid'[c]
    BY <1>3, <2>1, <2>2 DEF Places, Rows
  <2>9. \A i \in Ids : Prompted(i)' <=> Prompted(i)
    BY <2>1, <2>3 DEF Prompted
  <2>4. ~Prompted(c) /\ op[c] = "absent"
    BY <1>2, <2>1 DEF Prompted, HostInv, SavedInv, PromptMatchesRow, Rows
  <2>5. \A i \in Rows : rowid[i] \in Nat /\ rowid'[c] \in Nat
    BY <1>3, <2>1, <2>2 DEF Rows
  <2>6. /\ \A i, j \in Rows' : rowid'[i] < rowid'[j] /\ Prompted(j)' => Prompted(i)'
        /\ \A i, j \in Rows' : rowid'[i] < rowid'[j] /\ op'[j] # "absent" => op'[i] # "absent"
    BY <1>1, <2>1, <2>3, <2>4, <2>5, <2>8, <2>9 DEF InOrder, Rows
  <2>7. \A i \in Waiting \union Accepted : rowid'[i] = rowid[i]
    BY <1>2, <2>8
  <2> QED BY <1>1, <1>2, <2>1, <2>3, <2>6, <2>7 DEF InOrder
(* A row is queued after every earlier one.                                 *)
<1>6. ASSUME NEW e \in Call, inbox' = Append(inbox, e), UNCHANGED <<op, turn, rowid>>,
             e.id \in Rows, \A j \in Rows : rowid[j] < rowid[e.id] => Prompted(j),
             e.id \notin Waiting
      PROVE  InOrder'
  <2>1. /\ Waiting' = Waiting \union {e.id} /\ OncePrompted'
        /\ \A k \in DOMAIN inbox' : \/ k \in DOMAIN inbox /\ inbox'[k] = inbox[k]
                                    \/ inbox'[k] = e /\ \A l \in DOMAIN inbox : l < k
    BY <1>1, <1>2, <1>6, Enqueued DEF Queued, TypeOK
  <2>2. Rows' = Rows /\ Accepted' = Accepted
    BY <1>6 DEF Rows, Accepted
  <2>3. \A i, j \in Rows' : rowid'[i] < rowid'[j] /\ Prompted(j)' => Prompted(i)'
    BY <1>1, <1>6, <2>1, <2>2 DEF InOrder, Prompted
  <2>4. \A i \in Waiting : op[e.id] = "absent" => rowid[i] < rowid[e.id]
    <3>1. ASSUME NEW i \in Waiting, op[e.id] = "absent", ~(rowid[i] < rowid[e.id]) PROVE FALSE
      <4>1. i \in Rows /\ i # e.id /\ Prompted(i) /\ ~Prompted(e.id)
        BY <1>2, <1>6, <3>1 DEF Prompted
      <4>2. rowid[i] # rowid[e.id]
        BY <1>6, <4>1 DEF Places
      <4>3. rowid[e.id] < rowid[i]
        BY <1>3, <1>6, <3>1, <4>1, <4>2 DEF Rows
      <4> QED BY <1>1, <1>6, <4>1, <4>3 DEF InOrder
    <3> QED BY <3>1
  <2>5. ASSUME NEW k \in DOMAIN inbox', NEW l \in DOMAIN inbox', k < l,
               op[inbox'[k].id] = "absent", op[inbox'[l].id] = "absent"
        PROVE  rowid[inbox'[k].id] < rowid[inbox'[l].id]
    <3>1. DOMAIN inbox' \subseteq Nat /\ DOMAIN inbox \subseteq Nat
      <4>1. inbox \in Seq(Call) /\ inbox' \in Seq(Call)
        BY <1>2, <1>6, AppendType DEF TypeOK
      <4> QED BY <4>1
    <3>2. CASE l \in DOMAIN inbox /\ inbox'[l] = inbox[l]
      <4>1. k \in DOMAIN inbox /\ inbox'[k] = inbox[k]
        BY <2>1, <2>5, <3>1, <3>2
      <4> QED BY <1>1, <2>5, <3>2, <4>1 DEF InOrder
    <3>3. CASE inbox'[l] = e
      <4>1. inbox'[k].id # e.id
        BY <2>1, <2>5, <3>1, <3>3 DEF OncePrompted
      <4>2. k \in DOMAIN inbox /\ inbox'[k] = inbox[k]
        BY <2>1, <4>1
      <4> QED BY <1>2, <2>4, <2>5, <3>3, <4>2
    <3> QED BY <2>1, <3>2, <3>3
  <2>6. \A i, j \in Accepted' : rowid'[i] < rowid'[j] => turn'[i] < turn'[j]
    BY <1>1, <1>6, <2>2 DEF InOrder
  <2>7. \A i, j \in Rows' : rowid'[i] < rowid'[j] /\ op'[j] # "absent" => op'[i] # "absent"
    BY <1>1, <1>6, <2>2 DEF InOrder
  <2> QED BY <1>6, <2>3, <2>5, <2>6, <2>7 DEF InOrder
<1>7. CASE SubmitPrompt
  <2> DEFINE c == Caller.id
  <2>1. /\ c \in Rows /\ Caller \in Call /\ inbox' = Append(inbox, Caller)
        /\ UNCHANGED <<op, turn, rowid>> /\ c \notin Waiting /\ Serving
    BY <1>1, <1>2, <1>7, CallerType
       DEF SubmitPrompt, Rows, HostInv, SavedInv, CallerSaved, Queued, storeVars, engineVars
  <2>2. phase # "down" /\ todo = {}
    BY <1>1, <2>1 DEF Phases, Serving
  <2>3. ASSUME NEW j \in Rows, rowid[j] < rowid[c], ~Prompted(j) PROVE FALSE
    <3>1. display[j] = "open" /\ task[j] = "none"
      BY <1>1, <1>2, <2>3 DEF Prompted, Owners, TypeOK, Rows, HostInv, SavedInv, RowsComplete
    <3>2. j = c
      BY <1>1, <2>2, <2>3, <3>1 DEF Owners, BeingSubmitted, Rows
    <3> QED BY <1>3, <2>3, <3>2 DEF Rows
  <2> QED BY <1>6, <2>1, <2>3
<1>8. ASSUME NEW i \in Ids, RecoverPrompt(i) PROVE InOrder'
  <2> DEFINE e == [id |-> i, text |-> text[i]]
  <2>1. /\ i \in todo /\ phase = "recovering" /\ \A j \in todo : Precedes(i, j)
        /\ inbox' = Append(inbox, e) /\ UNCHANGED <<op, turn, rowid>>
    BY <1>8 DEF RecoverPrompt, NextRow, engineVars
  <2>2. i \in Rows /\ task[i] = "none" /\ i \notin Waiting /\ admission = <<>>
    BY <1>1, <2>1 DEF Phases, Queued
  <2>3. e \in Call /\ e.id = i
    BY <2>2 DEF Call, Rows, HostInv, SavedInv, RowsComplete
  <2>4. ASSUME NEW j \in Rows, rowid[j] < rowid[i], ~Prompted(j) PROVE FALSE
    <3>1. display[j] = "open" /\ task[j] = "none"
      BY <1>1, <1>2, <2>4 DEF Prompted, Owners, TypeOK, Rows, HostInv, SavedInv, RowsComplete
    <3>2. j \in todo
      BY <1>1, <2>1, <2>2, <3>1 DEF Owners, BeingSubmitted, Serving, Rows
    <3>3. created[j] =< created[i]
      BY <2>2, <2>4 DEF Places
    <3>4. rowid[i] \in Nat /\ rowid[j] \in Nat /\ created[i] \in Nat /\ created[j] \in Nat
      BY <1>2 DEF TypeOK, Rows
    <3> QED BY <2>1, <2>4, <3>2, <3>3, <3>4 DEF Precedes
  <2> HIDE DEF e
  <2> QED BY <1>6, <2>1, <2>2, <2>3, <2>4
(* The engine accepts the earliest row of the queue.                        *)
<1>9. CASE EngineAccept
  <2> DEFINE h == Head(inbox).id
  <2>1. /\ h \in Ids /\ op[h] = "absent" /\ op' = [op EXCEPT ![h] = "pending"]
        /\ inbox # <<>> /\ inbox' = Tail(inbox) /\ inbox \in Seq(Call)
        /\ turn' = [turn EXCEPT ![h] = Cardinality(Accepted) + 1]
        /\ UNCHANGED rowid
    BY <1>2, <1>9, PromptType DEF EngineAccept, storeVars, TypeOK
  <2>2. /\ 1 \in DOMAIN inbox /\ inbox[1].id = h /\ Waiting = Waiting' \union {h}
        /\ \A k \in DOMAIN inbox' : k \in Nat /\ k + 1 \in DOMAIN inbox /\ inbox'[k] = inbox[k + 1]
        /\ h \notin Waiting'
    BY <1>1, <2>1, Dequeued DEF Queued
  <2>3. Rows' = Rows /\ Accepted' = Accepted \union {h} /\ h \in Rows \ Accepted
    <3>1. turn'[h] = Cardinality(Accepted) + 1 /\ \A i \in Ids \ {h} : turn'[i] = turn[i]
      BY <1>2, <2>1 DEF TypeOK
    <3>2. Accepted' = Accepted \union {h}
      <4>1. turn'[h] # 0
        BY <1>3, <3>1
      <4> HIDE DEF h
      <4> QED BY <2>1, <3>1, <4>1 DEF Accepted
    <3>3. h \in Rows \ Accepted
      BY <1>2, <2>1, <2>2
    <3> QED BY <2>1, <3>2, <3>3 DEF Rows
  <2>4. \A i \in Ids : Prompted(i)' <=> Prompted(i)
    BY <1>2, <2>1, <2>2 DEF Prompted, TypeOK
  <2>5. \A i \in Rows : rowid[i] < rowid[h] => op[i] # "absent"
    <3>1. ASSUME NEW i \in Rows, rowid[i] < rowid[h], op[i] = "absent" PROVE FALSE
      <4>1. i \in Waiting
        BY <1>1, <2>2, <2>3, <3>1 DEF InOrder, Prompted
      <4>2. PICK k \in DOMAIN inbox : inbox[k].id = i
        BY <4>1 DEF Waiting
      <4>3. i # h /\ rowid[i] \in Nat /\ rowid[h] \in Nat
        BY <1>3, <2>1, <3>1 DEF Rows
      <4>4. k \in Nat /\ k > 1
        BY <2>1, <2>2, <4>2, <4>3
      <4>5. rowid[h] < rowid[i]
        BY <1>1, <2>1, <2>2, <3>1, <4>2, <4>4 DEF InOrder
      <4> QED BY <3>1, <4>3, <4>5
    <3> QED BY <3>1
  <2>6. \A i, j \in Rows : rowid[i] < rowid[j] /\ op'[j] # "absent" => op'[i] # "absent"
    BY <1>1, <1>2, <2>1, <2>5 DEF InOrder, Rows, TypeOK
  <2>7. ASSUME NEW k \in DOMAIN inbox', NEW l \in DOMAIN inbox', k < l,
               op'[inbox'[k].id] = "absent", op'[inbox'[l].id] = "absent"
        PROVE  rowid[inbox'[k].id] < rowid[inbox'[l].id]
    <3>1. /\ k + 1 \in DOMAIN inbox /\ l + 1 \in DOMAIN inbox /\ k + 1 < l + 1
          /\ inbox'[k] = inbox[k + 1] /\ inbox'[l] = inbox[l + 1]
      BY <2>2, <2>7
    <3>2. op[inbox[k + 1].id] = "absent" /\ op[inbox[l + 1].id] = "absent"
      BY <1>2, <2>1, <2>7, <3>1 DEF TypeOK, Rows
    <3> QED BY <1>1, <3>1, <3>2 DEF InOrder
  <2>8. ASSUME NEW i \in Accepted', NEW j \in Accepted', rowid[i] < rowid[j]
        PROVE  turn'[i] < turn'[j]
    <3>1. i # h
      <4>1. SUFFICES ASSUME i = h PROVE FALSE
        OBVIOUS
      <4>2. j \in Accepted /\ j \in Rows /\ h \in Rows
        BY <1>2, <1>3, <2>3, <2>8, <4>1 DEF Rows
      <4> QED BY <1>1, <1>2, <2>1, <2>8, <4>1, <4>2 DEF InOrder, Rows
    <3>2. i \in Accepted /\ turn'[i] = turn[i]
      BY <1>2, <2>1, <2>3, <3>1 DEF TypeOK, Accepted
    <3>3. CASE j = h
      <4>1. turn'[h] = Cardinality(Accepted) + 1
        BY <1>2, <2>1 DEF TypeOK
      <4>2. turn[i] \in Nat /\ turn[i] =< Cardinality(Accepted)
        BY <1>3, <3>2 DEF Places, Accepted
      <4> QED BY <1>3, <3>2, <3>3, <4>1, <4>2
    <3>4. CASE j # h
      <4>1. j \in Accepted /\ turn'[j] = turn[j]
        BY <1>2, <2>1, <2>3, <3>4 DEF TypeOK, Accepted
      <4> QED BY <1>1, <2>8, <3>2, <4>1 DEF InOrder
    <3> QED BY <3>3, <3>4
  <2>9. \A i, j \in Rows : rowid[i] < rowid[j] /\ Prompted(j)' => Prompted(i)'
    BY <1>1, <2>4 DEF InOrder, Rows
  <2> QED BY <2>1, <2>3, <2>6, <2>7, <2>8, <2>9 DEF InOrder
<1>10. ASSUME inbox # <<>>, inbox' = Tail(inbox), UNCHANGED <<op, turn, rowid>>,
              op[Head(inbox).id] # "absent"
       PROVE  InOrder'
  <2>1. /\ Waiting = Waiting' \union {Head(inbox).id}
        /\ \A k \in DOMAIN inbox' : k \in Nat /\ k + 1 \in DOMAIN inbox /\ inbox'[k] = inbox[k + 1]
    BY <1>2, <1>10, Dequeued DEF TypeOK
  <2>2. Rows' = Rows /\ Accepted' = Accepted
    BY <1>10 DEF Rows, Accepted
  <2>3. \A i \in Ids : Prompted(i)' <=> Prompted(i)
    BY <1>10, <2>1 DEF Prompted
  <2>4. ASSUME NEW k \in DOMAIN inbox', NEW l \in DOMAIN inbox', k < l,
               op[inbox'[k].id] = "absent", op[inbox'[l].id] = "absent"
        PROVE  rowid[inbox'[k].id] < rowid[inbox'[l].id]
    <3>1. k + 1 < l + 1
      BY <2>1, <2>4
    <3> QED BY <1>1, <2>1, <2>4, <3>1 DEF InOrder
  <2> QED BY <1>1, <1>10, <2>2, <2>3, <2>4 DEF InOrder, Rows
<1>11. CASE Ended
  <2>1. inbox' = <<>> /\ UNCHANGED <<op, turn, rowid>>
    BY <1>11 DEF Ended, engineVars, storeVars
  <2>2. Rows' = Rows /\ Accepted' = Accepted /\ Waiting' = {}
    BY <2>1 DEF Rows, Accepted, Waiting
  <2> QED BY <1>1, <2>1, <2>2 DEF InOrder, Prompted
<1>12. ASSUME NEW i \in Ids, OperationMoves(i) PROVE InOrder'
  BY <1>2, <1>4, <1>12 DEF OperationMoves, Unfinished, Terminal, TypeOK
<1>13. CASE EngineAttach
  BY <1>10, <1>13 DEF EngineAttach, storeVars, engineVars
<1>14. CASE EngineRefuse
  <2>1. ~Fault
    BY <1>2, HostAssumption DEF Fault, TypeOK
  <2> QED BY <1>10, <1>14, <2>1 DEF EngineRefuse, storeVars, engineVars
<1>15. ASSUME UNCHANGED <<rowid, turn, inbox, op>> PROVE InOrder'
  BY <1>4, <1>15
<1>16. CASE UNCHANGED progress \/ CallEnds \/ AdmitRetry \/ Start \/ Serve \/ Close
  BY <1>15, <1>16 DEF progress, CallEnds, AdmitRetry, Start, Serve, Close, storeVars, engineVars
<1>17. ASSUME NEW i \in Ids, OwnResult(i) \/ OwnRejected(i) \/ OwnSave(i) \/ OwnCatch(i)
       PROVE  InOrder'
  BY <1>15, <1>17 DEF OwnResult, OwnRejected, OwnSave, OwnCatch, storeVars, engineVars
<1>18. ASSUME NEW i \in Ids, RecoverSettled(i) \/ RecoverOutcome(i) \/ RecoverResume(i)
       PROVE  InOrder'
  BY <1>15, <1>18 DEF RecoverSettled, RecoverOutcome, RecoverResume, NextRow, engineVars
<1>19. ASSUME NEW i \in Ids, NEW t \in Texts, Submit(i, t) PROVE InOrder'
  BY <1>15, <1>19 DEF Submit, storeVars, engineVars
<1> QED BY <1>5, <1>7, <1>8, <1>9, <1>11, <1>12, <1>13, <1>14, <1>16, <1>17, <1>18, <1>19,
           FaultFreeMoves DEF RecoverStep

-----------------------------------------------------------------------------
(* Who owns what is settled initially and kept by every step.               *)
LEMMA OwnedInvariant == Safety => [](HostInv /\ Places /\ Owned)
<1>1. Init => Places /\ Owned
  <2> SUFFICES ASSUME Init PROVE Places /\ Owned
    OBVIOUS
  <2>1. Rows = {} /\ Accepted = {} /\ Waiting = {} /\ ~Serving
    BY DEF Init, Rows, Accepted, Waiting, Serving
  <2>2. Places
    BY <2>1, NextPlace DEF Init, Places
  <2>3. Owners /\ Queued /\ Phases
    BY <2>1 DEF Init, Owners, Queued, OncePrompted, Phases
  <2> QED BY <2>2, <2>3 DEF Owned
<1>2. HostInv /\ Places /\ Owned /\ [Next]_vars => (Places /\ Owned)'
  BY PlacesStep, OwnedStep
<1> QED BY <1>1, <1>2, HostInvariant, PTL DEF Safety

(* While the process serves and no write failed, no message without an      *)
(* outcome is left without somebody who will give it one                    *)
(* (partner.ts:133-147, 182-195).                                           *)
THEOREM OrphansNobody == Safety => []NothingOrphaned
<1>1. HostInv /\ Owned => NothingOrphaned
  BY DEF Owned, Owners, Phases, NothingOrphaned
<1> QED BY <1>1, OwnedInvariant, PTL

(* A regular stop leaves no message without its outcome unless a write      *)
(* failed: close() waits for every owner, and the owners were all there     *)
(* were (partner.ts:202-209).                                               *)
THEOREM ClosesDrained == Safety => CloseDrains
<1> DEFINE Drains ==
      phase = "closing" /\ phase' = "down" /\ crashes' = crashes /\ faults = 0
      => \A i \in Ids : display[i] # "open"
<1>1. HostInv /\ Owned /\ [Next]_vars => [Drains]_vars
  <2> SUFFICES ASSUME HostInv, Owned, [Next]_vars, phase = "closing", phase' = "down",
                      crashes' = crashes, faults = 0
               PROVE  \A i \in Ids : display[i] # "open"
    OBVIOUS
  <2>1. crashes \in Nat
    BY HostAssumption DEF HostInv, TypeOK
  <2>2. Release
    BY <2>1, DownReached DEF Crash
  <2> QED BY <2>2 DEF Release, Owned, Owners, Phases, BeingSubmitted
<1> QED BY <1>1, OwnedInvariant, PTL DEF Safety, CloseDrains

(* As long as the clock does not step back and no write fails, the engine   *)
(* accepts messages in the order they are displayed, also after a crash     *)
(* between saving a row and prompting it: startup prompts the rows the      *)
(* engine does not know before any newer one (partner.ts:136, 183).         *)
THEOREM OrderKept == ClockStepsBack = FALSE => (Safety => []RunsInDisplayOrder)
<1> SUFFICES ASSUME ClockStepsBack = FALSE PROVE Safety => []RunsInDisplayOrder
  OBVIOUS
<1>1. Init => Ordered
  BY DEF Init, Ordered, InOrder, Rows, Accepted
<1>2. HostInv /\ Places /\ Owned /\ Ordered /\ [Next]_vars => Ordered'
  BY OrderedStep
<1>3. Ordered => RunsInDisplayOrder
  BY DEF Ordered, InOrder, RunsInDisplayOrder
<1> QED BY <1>1, <1>2, <1>3, OwnedInvariant, PTL DEF Safety
=============================================================================
