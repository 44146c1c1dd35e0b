---------------------------- MODULE PartnerHost ----------------------------
(***************************************************************************)
(* The Partner process (apps/partner/runtime/partner.ts) over its SQLite   *)
(* store (runtime/store.ts) and the durable execution engine it embeds     *)
(* (the nanocodex SDK, outside this repository: its actions are the ones   *)
(* partner.ts relies on).                                                  *)
(*                                                                         *)
(* JavaScript runs one segment at a time, so an action is the code between *)
(* two awaits.  Every write is one serialized SQLite transaction and is    *)
(* atomic.  The store and the engine's operations survive a crash; all     *)
(* else belongs to one incarnation of the process.                         *)
(***************************************************************************)
EXTENDS Naturals, Sequences, FiniteSets

CONSTANTS
  Ids,         \* message identifiers, each also the id of an engine operation
  Texts,       \* message contents (text and images together)
  NoText,      \* not a content
  Times,       \* readings of Date.now()
  ClockStepsBack, \* whether a reading may be earlier than a previous one
  MaxCalls,    \* bound: submit calls
  MaxCrashes,  \* bound: process deaths
  MaxFaults    \* bound: failures of storage, the file system or the engine

ASSUME HostAssumption ==
  /\ IsFiniteSet(Ids)
  /\ NoText \notin Texts
  /\ Times \subseteq Nat /\ ClockStepsBack \in BOOLEAN
  /\ MaxCalls \in Nat /\ MaxCrashes \in Nat /\ MaxFaults \in Nat

VARIABLES
  \* the messages table, durable
  rowid,      \* position in admission order, 0 while there is no row
  created,    \* the row's created column
  text,       \* the row's input column and its input_images
  display,    \* the answer and error columns, as one outcome
  \* the engine, durable
  op,         \* status of the operation
  turn,       \* position in acceptance order, 0 while there is none
  prompted,   \* the input the operation was accepted with
  \* one incarnation of the process
  phase,
  todo,       \* rows startup has still to reconcile
  admission,  \* submit calls in order; the first is being served
  step,       \* how far the first submit call has come
  known,      \* its row already had an outcome when admit read it
  inbox,      \* prompts handed to the engine and not yet accepted
  task,       \* own(id): what the owner of the operation's result awaits
  ahead,      \* events an owner in "drain" still awaits
  backlog,    \* events queued on the notifications chain
  poisoned,   \* the notifications chain is rejected
  storageError,
  \* observers
  acked,      \* ids whose submit call was resolved (HTTP 202)
  asked,      \* ids a cancel call reached while their operation was running
  calls, crashes, faults

storeVars  == <<rowid, created, text, display>>
engineVars == <<op, turn, prompted>>
submitVars == <<admission, step, known>>
ownVars    == <<task, ahead>>
eventVars  == <<backlog, poisoned>>
hostVars   == <<phase, todo, storageError>>
observers  == <<acked, asked>>
bounds     == <<calls, crashes, faults>>

vars == <<storeVars, engineVars, hostVars, submitVars, inbox, ownVars, eventVars,
          observers, bounds>>

Settled  == {"answered", "failed", "cancelled"}
Terminal == {"completed", "failed", "cancelled"}
Unfinished == {"pending", "active"}
Call     == [id: Ids, text: Texts]

TypeOK ==
  /\ rowid \in [Ids -> Nat] /\ created \in [Ids -> Nat]
  /\ text \in [Ids -> Texts \union {NoText}]
  /\ display \in [Ids -> {"none", "open"} \union Settled]
  /\ op \in [Ids -> {"absent"} \union Unfinished \union Terminal]
  /\ turn \in [Ids -> Nat]
  /\ prompted \in [Ids -> Texts \union {NoText}]
  /\ phase \in {"down", "recovering", "aborting", "running", "closing"}
  /\ todo \in SUBSET Ids
  /\ admission \in Seq(Call) /\ inbox \in Seq(Call)
  /\ step \in {"waiting", "saved", "accepting", "accepted", "refused"}
  /\ known \in BOOLEAN /\ poisoned \in BOOLEAN /\ storageError \in BOOLEAN
  /\ task \in [Ids -> {"none", "result", "drain", "caught"}]
  /\ ahead \in [Ids -> Nat] /\ backlog \in Nat
  /\ acked \in SUBSET Ids /\ asked \in SUBSET Ids
  /\ calls \in 0..MaxCalls /\ crashes \in 0..MaxCrashes /\ faults \in 0..MaxFaults

Init ==
  /\ rowid = [i \in Ids |-> 0] /\ created = [i \in Ids |-> 0]
  /\ text = [i \in Ids |-> NoText] /\ display = [i \in Ids |-> "none"]
  /\ op = [i \in Ids |-> "absent"] /\ turn = [i \in Ids |-> 0]
  /\ prompted = [i \in Ids |-> NoText]
  /\ phase = "down" /\ todo = {} /\ storageError = FALSE
  /\ admission = <<>> /\ step = "waiting" /\ known = FALSE
  /\ inbox = <<>>
  /\ task = [i \in Ids |-> "none"] /\ ahead = [i \in Ids |-> 0]
  /\ backlog = 0 /\ poisoned = FALSE
  /\ acked = {} /\ asked = {}
  /\ calls = 0 /\ crashes = 0 /\ faults = 0

-----------------------------------------------------------------------------
Fault == faults < MaxFaults /\ faults' = faults + 1 /\ UNCHANGED <<calls, crashes>>

\* SQLite's next rowid, and the engine's next place in its durable queue.
Rows == { i \in Ids : rowid[i] # 0 }
Accepted == { i \in Ids : turn[i] # 0 }

\* An execution.state event joins the notifications chain.
Emit == backlog' = (IF poisoned THEN 0 ELSE backlog + 1) /\ UNCHANGED poisoned

Serving == admission # <<>>
Caller == Head(admission)

\* The first submit call settles and the next one may start.
EndCall ==
  /\ admission' = Tail(admission)
  /\ step' = "waiting" /\ known' = FALSE

Resolve == EndCall /\ acked' = acked \union {Caller.id} /\ UNCHANGED asked
Reject  == EndCall /\ UNCHANGED observers

\* own(id): someone now awaits the operation's result.
Own(i) == task' = [task EXCEPT ![i] = "result"] /\ ahead' = [ahead EXCEPT ![i] = 0]
Disown(i) == task' = [task EXCEPT ![i] = "none"] /\ UNCHANGED ahead
Catch(i) == task' = [task EXCEPT ![i] = "caught"] /\ UNCHANGED ahead

-----------------------------------------------------------------------------
(* submit(): calls are chained on `admission` and served one at a time.     *)
(* A call made while the process is closing is rejected without a trace,    *)
(* so only calls made before are modelled.                                  *)
Submit(i, t) ==
  /\ phase = "running" /\ calls < MaxCalls
  /\ admission' = Append(admission, [id |-> i, text |-> t])
  /\ calls' = calls + 1
  /\ UNCHANGED <<storeVars, engineVars, hostVars, step, known, inbox, ownVars, eventVars,
                 observers, crashes, faults>>

RejectUnavailable ==
  /\ Serving /\ step = "waiting"
  /\ phase = "closing" \/ storageError
  /\ Reject
  /\ UNCHANGED <<storeVars, engineVars, hostVars, inbox, ownVars, eventVars, bounds>>

CanAdmit == Serving /\ step = "waiting" /\ phase = "running" /\ ~storageError

\* Mistaken: INSERT OR REPLACE gives a retried message a new row.
AdmitReplacing(now) ==
  /\ CanAdmit
  /\ ClockStepsBack \/ \A i \in Rows : created[i] =< now
  /\ rowid' = [rowid EXCEPT ![Caller.id] = Cardinality(Rows) + 1]
  /\ created' = [created EXCEPT ![Caller.id] = now]
  /\ text' = [text EXCEPT ![Caller.id] = Caller.text]
  /\ display' = [display EXCEPT ![Caller.id] = "open"]
  /\ step' = "saved" /\ known' = FALSE
  /\ UNCHANGED <<engineVars, hostVars, admission, inbox, ownVars, eventVars, observers, bounds>>

\* store.admit: a new row with its images.
AdmitNew(now) ==
  /\ CanAdmit /\ rowid[Caller.id] = 0
  /\ ClockStepsBack \/ \A i \in Rows : created[i] =< now
  /\ rowid' = [rowid EXCEPT ![Caller.id] = Cardinality(Rows) + 1]
  /\ created' = [created EXCEPT ![Caller.id] = now]
  /\ text' = [text EXCEPT ![Caller.id] = Caller.text]
  /\ display' = [display EXCEPT ![Caller.id] = "open"]
  /\ step' = "saved" /\ known' = FALSE
  /\ UNCHANGED <<engineVars, hostVars, admission, inbox, ownVars, eventVars, observers, bounds>>

\* Mistaken: a retry is recognised by its id alone.
AdmitById ==
  /\ CanAdmit /\ rowid[Caller.id] # 0
  /\ step' = "saved" /\ known' = (display[Caller.id] \in Settled)
  /\ UNCHANGED <<storeVars, engineVars, hostVars, admission, inbox, ownVars, eventVars,
                 observers, bounds>>

\* store.admit: a retry; the row it returns is a copy made now.
AdmitRetry ==
  /\ CanAdmit /\ rowid[Caller.id] # 0
  /\ text[Caller.id] = Caller.text
  /\ step' = "saved" /\ known' = (display[Caller.id] \in Settled)
  /\ UNCHANGED <<storeVars, engineVars, hostVars, admission, inbox, ownVars, eventVars,
                 observers, bounds>>

\* store.admit: the id belongs to different content.
AdmitConflict ==
  /\ CanAdmit /\ rowid[Caller.id] # 0
  /\ text[Caller.id] # Caller.text
  /\ Reject
  /\ UNCHANGED <<storeVars, engineVars, hostVars, inbox, ownVars, eventVars, bounds>>

\* The admitting transaction rolls back, or writing the images' files fails.
SubmitFault ==
  /\ CanAdmit \/ (Serving /\ step = "saved")
  /\ Fault /\ Reject
  /\ UNCHANGED <<storeVars, engineVars, hostVars, inbox, ownVars, eventVars>>

\* After materializeImages: nothing is left to do for this id.
SubmitDone ==
  /\ Serving /\ step = "saved"
  /\ known \/ task[Caller.id] # "none"
  /\ Resolve
  /\ UNCHANGED <<storeVars, engineVars, hostVars, inbox, ownVars, eventVars, bounds>>

\* After materializeImages: prompt the engine and own the result.
SubmitPrompt ==
  /\ Serving /\ step = "saved"
  /\ ~known /\ task[Caller.id] = "none"
  /\ inbox' = Append(inbox, Caller)
  /\ Own(Caller.id)
  /\ step' = "accepting"
  /\ UNCHANGED <<storeVars, engineVars, hostVars, admission, known, eventVars, observers, bounds>>

\* turn.accepted() has settled.
SubmitSettle ==
  /\ Serving
  /\ \/ step = "accepted" /\ Resolve
     \/ step = "refused" /\ Reject
  /\ UNCHANGED <<storeVars, engineVars, hostVars, inbox, ownVars, eventVars, bounds>>

-----------------------------------------------------------------------------
(* The engine accepts prompts in the order they were handed to it.  Its     *)
(* answer reaches the submit call that waits for it; startup does not wait. *)
AcceptanceReaches(i, outcome) ==
  step' = IF Serving /\ step = "accepting" /\ Caller.id = i THEN outcome ELSE step

EngineAccept ==
  /\ inbox # <<>>
  /\ LET i == Head(inbox).id IN
       /\ op[i] = "absent"
       /\ op' = [op EXCEPT ![i] = "pending"]
       /\ turn' = [turn EXCEPT ![i] = Cardinality(Accepted) + 1]
       /\ prompted' = [prompted EXCEPT ![i] = Head(inbox).text]
       /\ AcceptanceReaches(i, "accepted")
  /\ inbox' = Tail(inbox)
  /\ Emit
  /\ UNCHANGED <<storeVars, hostVars, admission, known, ownVars, observers, bounds>>

\* The id already has an operation: the prompt attaches to it.
EngineAttach ==
  /\ inbox # <<>>
  /\ op[Head(inbox).id] # "absent"
  /\ AcceptanceReaches(Head(inbox).id, "accepted")
  /\ inbox' = Tail(inbox)
  /\ UNCHANGED <<storeVars, engineVars, hostVars, admission, known, ownVars, eventVars,
                 observers, bounds>>

\* The prompt is not taken: the id is in use, or the engine cannot persist it.
EngineRefuse ==
  /\ inbox # <<>>
  /\ IF op[Head(inbox).id] = "absent" THEN Fault ELSE UNCHANGED bounds
  /\ AcceptanceReaches(Head(inbox).id, "refused")
  /\ Catch(Head(inbox).id)
  /\ inbox' = Tail(inbox)
  /\ UNCHANGED <<storeVars, engineVars, hostVars, admission, known, eventVars, observers>>

\* The operation is driven: its owner attached to it in this incarnation.
Waiting == { inbox[k].id : k \in DOMAIN inbox }
Driven(i) == task[i] = "result" /\ i \notin Waiting

\* Operations run one at a time, in acceptance order.
EngineActivate(i) ==
  /\ op[i] = "pending" /\ Driven(i)
  /\ \A j \in Ids : op[j] \in Unfinished => turn[i] =< turn[j]
  /\ op' = [op EXCEPT ![i] = "active"]
  /\ Emit
  /\ UNCHANGED <<storeVars, turn, prompted, hostVars, submitVars, inbox, ownVars, observers, bounds>>

EngineFinish(i, outcome) ==
  /\ op[i] = "active" /\ Driven(i)
  /\ op' = [op EXCEPT ![i] = outcome]
  /\ Emit
  /\ UNCHANGED <<storeVars, turn, prompted, hostVars, submitVars, inbox, ownVars, observers, bounds>>

\* cancel(id) of an operation that has not finished; any other cancel does nothing.
Cancel(i) ==
  /\ phase \in {"running", "closing"}
  /\ op[i] \in Unfinished
  /\ op' = [op EXCEPT ![i] = "cancelled"]
  /\ asked' = asked \union {i}
  /\ Emit
  /\ UNCHANGED <<storeVars, turn, prompted, hostVars, submitVars, inbox, ownVars, acked, bounds>>

-----------------------------------------------------------------------------
(* own(id): turn.result() resolves once the operation completed, and then   *)
(* the events queued so far are awaited; it rejects on any other outcome.   *)
OwnResult(i) ==
  /\ Driven(i) /\ op[i] = "completed"
  /\ IF poisoned THEN Catch(i)
     ELSE /\ task' = [task EXCEPT ![i] = "drain"]
          /\ ahead' = [ahead EXCEPT ![i] = backlog]
  /\ UNCHANGED <<storeVars, engineVars, hostVars, submitVars, inbox, eventVars, observers, bounds>>

OwnRejected(i) ==
  /\ Driven(i) /\ op[i] \in Terminal \ {"completed"}
  /\ Catch(i)
  /\ UNCHANGED <<storeVars, engineVars, hostVars, submitVars, inbox, eventVars, observers, bounds>>

\* The engine gives up on an unfinished operation; the operation stays durable.
OwnInterrupted(i) ==
  /\ Driven(i) /\ op[i] \in Unfinished
  /\ Fault
  /\ Catch(i)
  /\ UNCHANGED <<storeVars, engineVars, hostVars, submitVars, inbox, eventVars, observers>>

\* The observation and the answer are saved, unless a write fails.
OwnSave(i) ==
  /\ task[i] = "drain" /\ ahead[i] = 0
  /\ display' = [display EXCEPT ![i] = "answered"]
  /\ Disown(i)
  /\ UNCHANGED <<rowid, created, text, engineVars, hostVars, submitVars, inbox, eventVars,
                 observers, bounds>>

OwnSaveFault(i) ==
  /\ task[i] = "drain" /\ ahead[i] = 0
  /\ Fault
  /\ Catch(i)
  /\ UNCHANGED <<storeVars, engineVars, hostVars, submitVars, inbox, eventVars, observers>>

\* Mistaken: whatever was caught is recorded as a failure.
OwnCatchAsFailed(i) ==
  /\ task[i] = "caught"
  /\ display' = [display EXCEPT ![i] = "failed"]
  /\ Disown(i)
  /\ UNCHANGED <<rowid, created, text, engineVars, hostVars, submitVars, inbox, eventVars,
                 observers, bounds>>

\* The catch: only a failed or cancelled operation has its outcome saved.
OwnCatch(i) ==
  /\ task[i] = "caught"
  /\ display' = IF op[i] \in {"failed", "cancelled"}
                THEN [display EXCEPT ![i] = op[i]] ELSE display
  /\ Disown(i)
  /\ UNCHANGED <<rowid, created, text, engineVars, hostVars, submitVars, inbox, eventVars,
                 observers, bounds>>

\* Reading the state or saving the outcome fails inside the catch.
OwnCatchFault(i) ==
  /\ task[i] = "caught"
  /\ Fault
  /\ storageError' = TRUE
  /\ Disown(i)
  /\ UNCHANGED <<storeVars, engineVars, phase, todo, submitVars, inbox, eventVars, observers>>

-----------------------------------------------------------------------------
(* The notifications chain handles one event: log it, touch its message.    *)
Handled == [i \in Ids |-> IF ahead[i] = 0 THEN 0 ELSE ahead[i] - 1]

EventHandled ==
  /\ backlog > 0
  /\ backlog' = backlog - 1 /\ ahead' = Handled
  /\ UNCHANGED <<storeVars, engineVars, hostVars, submitVars, inbox, task, poisoned,
                 observers, bounds>>

\* The log write fails: reported, and the event is handled all the same.
EventLogFault ==
  /\ backlog > 0 /\ Fault
  /\ storageError' = TRUE
  /\ backlog' = backlog - 1 /\ ahead' = Handled
  /\ UNCHANGED <<storeVars, engineVars, phase, todo, submitVars, inbox, task, poisoned, observers>>

\* Touching the message fails: nothing catches it, the chain stays rejected.
EventTouchFault ==
  /\ backlog > 0 /\ Fault
  /\ backlog' = 0 /\ poisoned' = TRUE
  /\ task' = [i \in Ids |-> IF task[i] = "drain" /\ ahead[i] > 0 THEN "caught" ELSE task[i]]
  /\ ahead' = [i \in Ids |-> 0]
  /\ UNCHANGED <<storeVars, engineVars, hostVars, submitVars, inbox, observers>>

-----------------------------------------------------------------------------
(* Startup reads the rows once, ordered by created and rowid, and           *)
(* reconciles those without an outcome against the engine's state.          *)
Start ==
  /\ phase = "down"
  /\ phase' = "recovering" /\ todo' = Rows
  /\ UNCHANGED <<storeVars, engineVars, storageError, submitVars, inbox, ownVars, eventVars,
                 observers, bounds>>

\* Mistaken: newest first.
NewestFirst(i, j) == rowid[i] >= rowid[j]

Precedes(i, j) ==
  created[i] < created[j] \/ (created[i] = created[j] /\ rowid[i] =< rowid[j])

NextRow(i) ==
  /\ phase = "recovering" /\ i \in todo
  /\ \A j \in todo : Precedes(i, j)
  /\ todo' = todo \ {i}
  /\ UNCHANGED <<rowid, created, text, engineVars, phase, storageError, submitVars, eventVars,
                 observers, bounds>>

RecoverSettled(i) ==
  /\ NextRow(i) /\ display[i] \in Settled
  /\ UNCHANGED <<display, inbox, ownVars>>

RecoverOutcome(i) ==
  /\ NextRow(i) /\ display[i] = "open" /\ op[i] \in {"failed", "cancelled"}
  /\ display' = [display EXCEPT ![i] = op[i]]
  /\ UNCHANGED <<inbox, ownVars>>

\* Mistaken: a completed operation needs nobody to fetch its answer.
RecoverUnfinished(i) ==
  /\ NextRow(i) /\ display[i] = "open" /\ op[i] \in Unfinished \union {"completed"}
  /\ IF op[i] = "completed" THEN UNCHANGED ownVars ELSE Own(i)
  /\ UNCHANGED <<display, inbox>>

RecoverResume(i) ==
  /\ NextRow(i) /\ display[i] = "open" /\ op[i] \in Unfinished \union {"completed"}
  /\ Own(i)
  /\ UNCHANGED <<display, inbox>>

\* Mistaken: a message the engine never heard of is passed over.
RecoverKnownOnly(i) ==
  /\ NextRow(i) /\ display[i] = "open" /\ op[i] = "absent"
  /\ UNCHANGED <<display, inbox, ownVars>>

RecoverPrompt(i) ==
  /\ NextRow(i) /\ display[i] = "open" /\ op[i] = "absent"
  /\ inbox' = Append(inbox, [id |-> i, text |-> text[i]])
  /\ Own(i)
  /\ UNCHANGED display

\* A step fails: the session shuts down, which rejects every awaited result.
RecoverFault ==
  /\ phase = "recovering" /\ todo # {} /\ Fault
  /\ phase' = "aborting" /\ todo' = {} /\ inbox' = <<>>
  /\ task' = [i \in Ids |-> IF task[i] = "result" THEN "caught" ELSE task[i]]
  /\ UNCHANGED <<storeVars, engineVars, storageError, submitVars, ahead, eventVars, observers>>

Serve ==
  /\ phase = "recovering" /\ todo = {}
  /\ phase' = "running"
  /\ UNCHANGED <<storeVars, engineVars, todo, storageError, submitVars, inbox, ownVars,
                 eventVars, observers, bounds>>

Close ==
  /\ phase = "running"
  /\ phase' = "closing"
  /\ UNCHANGED <<storeVars, engineVars, todo, storageError, submitVars, inbox, ownVars,
                 eventVars, observers, bounds>>

\* Everything volatile goes with the process.
Ended ==
  /\ phase' = "down" /\ todo' = {} /\ storageError' = FALSE
  /\ admission' = <<>> /\ step' = "waiting" /\ known' = FALSE
  /\ inbox' = <<>>
  /\ task' = [i \in Ids |-> "none"] /\ ahead' = [i \in Ids |-> 0]
  /\ backlog' = 0 /\ poisoned' = FALSE
  /\ UNCHANGED <<storeVars, engineVars, observers>>

\* Mistaken: the results still awaited are left behind.
ReleaseAtOnce ==
  /\ phase \in {"closing", "aborting"}
  /\ ~Serving /\ backlog = 0
  /\ Ended
  /\ UNCHANGED bounds

\* close() and a failed startup wait for the calls, the owners and the events.
Release ==
  /\ phase \in {"closing", "aborting"}
  /\ ~Serving /\ \A i \in Ids : task[i] = "none"
  /\ backlog = 0
  /\ Ended
  /\ UNCHANGED bounds

Crash ==
  /\ phase # "down" /\ crashes < MaxCrashes
  /\ crashes' = crashes + 1 /\ UNCHANGED <<calls, faults>>
  /\ Ended

-----------------------------------------------------------------------------
SubmitStep ==
  \/ RejectUnavailable
  \/ \E now \in Times : AdmitNew(now)
  \/ AdmitRetry \/ AdmitConflict
  \/ SubmitDone \/ SubmitPrompt \/ SubmitSettle

OwnStep(i) == OwnResult(i) \/ OwnRejected(i) \/ OwnSave(i) \/ OwnCatch(i)

RecoverStep(i) == RecoverSettled(i) \/ RecoverOutcome(i) \/ RecoverResume(i) \/ RecoverPrompt(i)

EngineStep(i) == EngineActivate(i) \/ \E outcome \in {"completed", "failed"} : EngineFinish(i, outcome)

Failure ==
  \/ SubmitFault \/ EventLogFault \/ EventTouchFault \/ RecoverFault
  \/ \E i \in Ids : OwnInterrupted(i) \/ OwnSaveFault(i) \/ OwnCatchFault(i)

Next ==
  \/ \E i \in Ids, t \in Texts : Submit(i, t)
  \/ SubmitStep
  \/ EngineAccept \/ EngineAttach \/ EngineRefuse
  \/ \E i \in Ids : EngineStep(i)
  \/ \E i \in Ids : Cancel(i)
  \/ \E i \in Ids : OwnStep(i)
  \/ EventHandled
  \/ Start \/ Serve \/ Close \/ Release \/ Crash
  \/ \E i \in Ids : RecoverStep(i)
  \/ Failure

(* The event loop runs every ready continuation, the engine drives what it  *)
(* accepted, the provider answers or fails, and a supervisor starts the     *)
(* process again.  Nothing makes a user submit, cancel or stop the process, *)
(* and nothing makes a fault or a crash happen.                             *)
Fairness ==
  /\ WF_vars(SubmitStep)
  /\ WF_vars(EngineAccept \/ EngineAttach)
  /\ \A i \in Ids : WF_vars(EngineStep(i)) /\ WF_vars(OwnStep(i)) /\ WF_vars(RecoverStep(i))
  /\ WF_vars(EventHandled)
  /\ WF_vars(Start) /\ WF_vars(Serve) /\ WF_vars(Release)

Safety == Init /\ [][Next]_vars
Spec == Safety /\ Fairness

-----------------------------------------------------------------------------
(* The displayed outcome is the engine's: across retries, cancellations,    *)
(* failed writes and restarts no row shows an answer to an operation that   *)
(* failed, or a failure for one that completed (partner.ts:116-132,         *)
(* 139-143).                                                                *)
OutcomeAgrees ==
  \A i \in Ids :
    /\ display[i] = "answered" => op[i] = "completed"
    /\ display[i] \in {"failed", "cancelled"} => op[i] = display[i]

(* The engine runs exactly what the row shows: a retry under the same id    *)
(* with different content never reaches an operation, whatever became of    *)
(* the first attempt (store.ts:84-89).                                      *)
PromptMatchesRow ==
  \A i \in Ids : op[i] # "absent" => rowid[i] # 0 /\ prompted[i] = text[i]

(* Without a fault nothing is orphaned: while the process serves, a row     *)
(* without an outcome is owned by a task, or its submit call is still       *)
(* between admit and prompt (partner.ts:182-195, 133-147).                  *)
BeingSubmitted(i) == Serving /\ Caller.id = i /\ step = "saved" /\ ~known
NothingOrphaned ==
  (phase \in {"running", "closing"} /\ faults = 0) =>
    \A i \in Ids : display[i] = "open" => task[i] # "none" \/ BeingSubmitted(i)

(* Messages run in the order they are displayed, also over crashes between  *)
(* saving a row and prompting it, as long as no write fails and the clock   *)
(* does not step back (partner.ts:136, 183; docs/adr/0007:36-37).           *)
RunsInDisplayOrder ==
  faults = 0 =>
    \A i, j \in Accepted : rowid[i] < rowid[j] => turn[i] < turn[j]

(* A regular stop drains: without a fault, when close() has released the    *)
(* process every message has its outcome (docs/partner-runtime.md:52-54,    *)
(* partner.ts:202-209).                                                     *)
CloseDrains ==
  [][ (phase = "closing" /\ phase' = "down" /\ crashes' = crashes /\ faults = 0)
      => \A i \in Ids : display[i] # "open" ]_vars

(* Every admitted message gets an outcome, over crashes, cancellations and  *)
(* regular stops, as long as no write fails (partner.ts:116-147).           *)
EveryMessageSettles ==
  \A i \in Ids : display[i] = "open" ~> (display[i] \in Settled \/ faults > 0)

(* The Partner keeps the promises of Conversation.                          *)
Promise == INSTANCE Conversation WITH
  Messages <- Ids, place <- rowid, outcome <- display, confirmed <- acked, stopped <- asked

KeepsPromises == Promise!SafetySpec

(* Startup repairs what faults left behind: a start after the last fault    *)
(* gives every row an outcome, those included whose owner gave up silently  *)
(* or whose prompt was never accepted (partner.ts:122-127, 133-147).        *)
Restarted == phase = "recovering" /\ todo = Rows /\ faults = MaxFaults
StartupRepairs ==
  \A i \in Ids : (Restarted /\ display[i] = "open") ~> display[i] \in Settled
=============================================================================
