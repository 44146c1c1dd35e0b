----------------------------- MODULE Continuity -----------------------------
(***************************************************************************)
(* What the user sees of compaction: the engine's events, their way into   *)
(* the diagnostics table (createPartner's watcher), the stored context     *)
(* observation (observeContext), the timeline markers and the lifecycle    *)
(* projected from the table (projectContinuity), and the quiet status line *)
(* of the page (syncContinuityStatus).                                     *)
(*                                                                         *)
(* Messages are admitted up front and numbered in admission order.  The    *)
(* engine (an external library) runs them in that order, compacts before   *)
(* or within a turn or on request, and tells the host by events.  Events   *)
(* wait in memory and are handled one after another; a crash loses those   *)
(* not yet handled.  The size of the context is a version number, zero     *)
(* while the engine of this process has not loaded it.                     *)
(*                                                                         *)
(* The host projects the whole table at every snapshot; the projection is  *)
(* a fold, so the model folds each row when it is written.                 *)
(***************************************************************************)
EXTENDS Integers, Sequences, FiniteSets

CONSTANTS
  MaxOps,          \* bound: messages of the conversation
  MaxTurns,        \* bound: messages the engine gets to run
  MaxCompactions,  \* bound: compactions the engine starts
  MaxCrashes,      \* bound: deaths of the process
  MaxLag           \* bound: notifications waiting when the engine goes on

ASSUME ContinuityAssumption ==
  /\ MaxOps \in Nat /\ MaxTurns \in Nat /\ MaxCompactions \in Nat /\ MaxCrashes \in Nat
  /\ MaxLag \in Nat \ {0}

VARIABLES
  status,      \* the engine's durable state of each operation
  lastRun,     \* the operation that last left the active state, 0 for none
  compacting,  \* the compaction the engine is working on: [op, phase]
  installed,   \* the compactions the engine installed, where they happened
  version,     \* the durable context: raised by each turn and each compaction
  live,        \* the context as the engine of this process knows it, 0 while cold
  events,      \* the chain of notifications still to be handled
  cursor,      \* the last row about a compaction in the diagnostics table
  view,        \* the rows of the table folded by projectContinuity
  starts,      \* compactions started so far, for the bound
  observed,    \* context_observation, 0 while there is none
  saved,       \* the generation that saved a message's outcome, 0 for none
  ran,         \* the generation in which an operation completed
  owner,       \* what createPartner.own is doing for a message
  compactor,   \* what createPartner.compact is doing
  generation,  \* the running process
  lost,        \* operations whose last event a crash took away unhandled
  page         \* the status line: the lifecycle it reflects and whether it shows

engine == <<status, lastRun, compacting, starts, installed, version, live, ran>>
host == <<observed, saved, owner, compactor>>
table == <<cursor, view>>
vars == <<engine, events, table, host, generation, lost, page>>

Ops == 1..MaxOps
Terminal == {"completed", "failed", "cancelled"}
Waiting == {"pending", "interrupted"}
NoCompaction == [op |-> 0, phase |-> "none"]
NoLifecycle == [id |-> 0, status |-> "none", end |-> 0]
Nothing == [active |-> 0, completed |-> 0, latest |-> NoLifecycle, gen |-> 0, markers |-> <<>>]

Init ==
  /\ status = [o \in Ops |-> "pending"]
  /\ lastRun = 0 /\ compacting = NoCompaction /\ installed = <<>>
  /\ version = 0 /\ live = 0 /\ ran = [o \in Ops |-> 0]
  /\ events = <<>> /\ cursor = 0 /\ view = Nothing /\ starts = 0 /\ observed = 0
  /\ saved = [o \in Ops |-> 0]
  /\ owner = [o \in Ops |-> "waiting"] /\ compactor = "none"
  /\ generation = 1 /\ lost = {}
  /\ page = [key |-> NoLifecycle, shown |-> FALSE]

-----------------------------------------------------------------------------
(* What the engine says, and what is queued behind it.                      *)
Event(type, o, state, phase, value) ==
  [type |-> type, op |-> o, status |-> state, phase |-> phase, value |-> value]

State(o, state) == Event("execution.state", o, state, "none", 0)
Started(c) == Event("started", 0, "none", c.phase, 0)
Replaced(c, v) == Event("replaced", 0, "none", c.phase, v)
Failed == Event("failed", 0, "none", "none", 0)
RunEnded(o) == Event("run.ended", o, "none", "none", 0)
Observation(v) == Event("observe", 0, "none", "none", v)
(* `await notifications`: the caller goes on after what is queued by now.    *)
Continue(o) == Event("continue", o, "none", "none", 0)

-----------------------------------------------------------------------------
(* The projection of the table, row by row.                                 *)
\* Mistaken: a queued cancellation becomes the last dialogue.
ProjectStateAny(row) ==
  IF row.status = "active" THEN [view EXCEPT !.active = row.op]
  ELSE [view EXCEPT !.completed = row.op, !.active = IF @ = row.op THEN 0 ELSE @]

ProjectState(row) ==
  IF row.status = "active" THEN [view EXCEPT !.active = row.op]
  ELSE [view EXCEPT !.completed = IF view.active = row.op \/ row.status = "completed" THEN row.op ELSE @,
                    !.active = IF @ = row.op THEN 0 ELSE @]

Boundary(row, id) ==
  [id |-> id, value |-> row.value,
   anchor |-> IF view.active # 0 THEN view.active ELSE view.completed,
   position |-> IF view.active = 0 THEN "after"
                ELSE IF row.phase = "mid_turn" THEN "after-user" ELSE "before"]

ProjectReplaced(row, at) ==
  LET id == IF view.latest.status = "running" THEN view.latest.id ELSE at
  IN [view EXCEPT !.markers = Append(@, Boundary(row, id)),
                  !.latest = [id |-> id, status |-> "complete", end |-> at]]

\* Mistaken: only the engine's own failure event ends a running compaction.
ProjectRowFailed(row, at) ==
  CASE row.type = "execution.state" -> ProjectState(row)
    [] row.type = "started" ->
         [view EXCEPT !.latest = [id |-> at, status |-> "running", end |-> 0],
                      !.gen = generation]
    [] row.type = "replaced" -> ProjectReplaced(row, at)
    [] row.type = "failed" /\ view.latest.status = "running" ->
         [view EXCEPT !.latest.status = "failed", !.latest.end = at]
    [] OTHER -> view

ProjectRow(row, at) ==
  CASE row.type = "execution.state" -> ProjectState(row)
    [] row.type = "started" ->
         [view EXCEPT !.latest = [id |-> at, status |-> "running", end |-> 0],
                      !.gen = generation]
    [] row.type = "replaced" -> ProjectReplaced(row, at)
    [] row.type \in {"failed", "companion.failed", "run.ended"} /\ view.latest.status = "running" ->
         [view EXCEPT !.latest.status = "failed", !.latest.end = at]
    [] OTHER -> view

Write(row) ==
  /\ cursor' = IF row.type = "execution.state" THEN cursor ELSE cursor + 1
  /\ view' = ProjectRow(row, cursor')

\* Mistaken: what the previous process left running still counts as running.
LifecycleAnyProcess == view.latest

(* A compaction another process started ended with that process.            *)
Lifecycle ==
  IF view.latest.status = "running" /\ view.gen # generation
  THEN [view.latest EXCEPT !.status = "failed"]
  ELSE view.latest

-----------------------------------------------------------------------------
(* The engine.                                                              *)
Active == { o \in Ops : status[o] = "active" }
Begun == compacting # NoCompaction
Keeps == Len(events) < MaxLag

Activate(o) ==
  /\ Keeps
  /\ ~Begun /\ Active = {}
  /\ Cardinality({ p \in Ops : status[p] \notin {"pending", "cancelled"} } \union {o}) =< MaxTurns
  /\ status[o] \in Waiting /\ \A p \in 1..(o - 1) : status[p] \in Terminal
  /\ status' = [status EXCEPT ![o] = "active"]
  /\ events' = Append(events, State(o, "active"))
  /\ UNCHANGED <<starts, lastRun, compacting, installed, version, live, ran, table, host, generation, lost, page>>

Starts(c) ==
  /\ starts < MaxCompactions /\ starts' = starts + 1
  /\ compacting' = c
  /\ events' = Append(events, Started(c))

(* Before the turn's first model call, or between two of them.              *)
CompactTurn(o, phase) ==
  /\ Keeps
  /\ ~Begun /\ status[o] = "active"
  /\ Starts([op |-> o, phase |-> phase])
  /\ UNCHANGED <<status, lastRun, installed, version, live, ran, table, host, generation, lost, page>>

Where(c) ==
  IF c.op # 0 THEN [anchor |-> c.op, position |-> IF c.phase = "mid_turn" THEN "after-user" ELSE "before"]
  ELSE [anchor |-> lastRun, position |-> "after"]

Install ==
  /\ Keeps
  /\ Begun
  /\ version' = version + 1 /\ live' = version'
  /\ installed' = Append(installed, [value |-> version', at |-> Where(compacting)])
  /\ events' = Append(events, Replaced(compacting, version'))
               \o IF compacting.op = 0 THEN <<Continue(0)>> ELSE <<>>
  /\ compactor' = IF compacting.op = 0 THEN "flushing" ELSE compactor
  /\ compacting' = NoCompaction
  /\ UNCHANGED <<starts, status, lastRun, ran, table, observed, saved, owner, generation, lost, page>>

CompactionFails ==
  /\ Keeps
  /\ Begun
  /\ events' = Append(events, Failed)
  /\ compactor' = IF compacting.op = 0 THEN "failed" ELSE compactor
  /\ compacting' = NoCompaction
  /\ UNCHANGED <<starts, status, lastRun, installed, version, live, ran, table, observed, saved, owner, generation, lost, page>>

Complete(o) ==
  /\ Keeps
  /\ ~Begun /\ status[o] = "active"
  /\ status' = [status EXCEPT ![o] = "completed"]
  /\ lastRun' = o /\ ran' = [ran EXCEPT ![o] = generation]
  /\ version' = version + 1 /\ live' = version'
  /\ events' = Append(events, State(o, "completed"))
  /\ UNCHANGED <<starts, compacting, installed, table, host, generation, lost, page>>

(* A turn that fails takes its compaction along; one that is cancelled      *)
(* while it runs differs by a word only.                                    *)
Break(o) ==
  /\ Keeps
  /\ status[o] = "active"
  /\ status' = [status EXCEPT ![o] = "failed"]
  /\ lastRun' = o
  /\ compacting' = NoCompaction
  /\ events' = events \o <<RunEnded(o), State(o, "failed")>>
  /\ UNCHANGED <<starts, installed, version, live, ran, table, host, generation, lost, page>>

CancelQueued(o) ==
  /\ Keeps
  /\ status[o] = "pending"
  /\ status' = [status EXCEPT ![o] = "cancelled"]
  /\ events' = Append(events, State(o, "cancelled"))
  /\ UNCHANGED <<starts, lastRun, compacting, installed, version, live, ran, table, host, generation, lost, page>>

-----------------------------------------------------------------------------
(* The host.                                                                *)
(* The watcher's next notification: the row is written, then the size of an *)
(* installed context; a caller waiting at this place goes on.               *)
Log == LET e == Head(events)
       IN /\ e.type \notin {"observe", "continue"}
          /\ Write(e)
          /\ events' = IF e.type = "replaced" THEN <<Observation(e.value)>> \o Tail(events) ELSE Tail(events)
          /\ UNCHANGED <<observed, owner, compactor>>

StoreReplaced ==
  /\ Head(events).type = "observe"
  /\ observed' = Head(events).value
  /\ events' = Tail(events)
  /\ UNCHANGED <<table, owner, compactor>>

GoOn ==
  /\ Head(events).type = "continue"
  /\ LET o == Head(events).op
     IN IF o = 0 THEN compactor' = "flushed" /\ owner' = owner
                 ELSE owner' = [owner EXCEPT ![o] = "flushed"] /\ compactor' = compactor
  /\ events' = Tail(events)
  /\ UNCHANGED <<table, observed>>

Handle ==
  /\ events # <<>>
  /\ Log \/ StoreReplaced \/ GoOn
  /\ UNCHANGED <<engine, saved, generation, lost, page>>

\* Mistaken: the size is read while older notifications are still queued.
OwnResultAtOnce(o) ==
  /\ owner[o] = "waiting" /\ status[o] = "completed"
  /\ owner' = [owner EXCEPT ![o] = "flushed"]
  /\ UNCHANGED <<engine, events, table, observed, saved, compactor, generation, lost, page>>

(* turn.result() has answered; what was said until now is handled first.    *)
OwnResult(o) ==
  /\ owner[o] = "waiting" /\ status[o] = "completed"
  /\ owner' = [owner EXCEPT ![o] = "flushing"]
  /\ events' = Append(events, Continue(o))
  /\ UNCHANGED <<engine, table, observed, saved, compactor, generation, lost, page>>

(* The size is read and its write is queued at once.  The zero of an engine *)
(* that has not loaded the conversation is no size.                         *)
Known == IF live > 0 THEN live ELSE observed

\* Mistaken: the answer is saved before the size is.
OwnObservesLate(o) ==
  /\ owner[o] = "flushed"
  /\ saved' = [saved EXCEPT ![o] = generation]
  /\ owner' = [owner EXCEPT ![o] = "saving"]
  /\ UNCHANGED <<engine, events, table, observed, compactor, generation, lost, page>>

OwnObserves(o) ==
  /\ owner[o] = "flushed"
  /\ observed' = Known
  /\ owner' = [owner EXCEPT ![o] = "saving"]
  /\ UNCHANGED <<engine, events, table, saved, compactor, generation, lost, page>>

OwnSaves(o) ==
  /\ \/ owner[o] = "saving"
     \/ owner[o] = "waiting" /\ status[o] \in {"failed", "cancelled"}
  /\ saved' = [saved EXCEPT ![o] = generation]
  /\ owner' = [owner EXCEPT ![o] = "none"]
  /\ UNCHANGED <<engine, events, table, observed, compactor, generation, lost, page>>

(* The user asks for a compaction; the engine takes it between two turns,   *)
(* an interrupted one being resumed first.                                  *)
Compact ==
  /\ Keeps
  /\ compactor = "none" /\ ~Begun /\ Active = {}
  /\ \A o \in Ops : status[o] # "interrupted"
  /\ Starts([op |-> 0, phase |-> "manual"])
  /\ compactor' = "running"
  /\ UNCHANGED <<status, lastRun, installed, version, live, ran, table, observed, saved, owner, generation, lost, page>>

CompactObserves ==
  /\ compactor = "flushed"
  /\ observed' = Known
  /\ compactor' = "none"
  /\ UNCHANGED <<engine, events, table, saved, owner, generation, lost, page>>

(* The rejection is written at once, past the queued notifications.         *)
CompactRejects ==
  /\ compactor = "failed"
  /\ Write(Event("companion.failed", 0, "none", "none", 0))
  /\ compactor' = "none"
  /\ UNCHANGED <<engine, events, observed, saved, owner, generation, lost, page>>

(* The process dies and the next one starts: what was queued in memory is   *)
(* gone, the active operation is interrupted until the engine resumes it,   *)
(* and every message without an outcome has an owner.                      *)
Crash ==
  /\ generation =< MaxCrashes
  /\ generation' = generation + 1
  /\ lost' = lost \union { e.op : e \in { f \in { events[i] : i \in DOMAIN events } :
                                           f.type = "execution.state" /\ f.status \in Terminal } }
  /\ events' = <<>>
  /\ status' = [o \in Ops |-> IF status[o] = "active" THEN "interrupted" ELSE status[o]]
  /\ compacting' = NoCompaction /\ live' = 0 /\ compactor' = "none"
  /\ owner' = [o \in Ops |-> IF saved[o] = 0 THEN "waiting" ELSE "none"]
  /\ UNCHANGED <<starts, lastRun, installed, version, ran, table, observed, saved, page>>

-----------------------------------------------------------------------------
(* The page.                                                                *)
(* A snapshot arrives.  A lifecycle already reflected is left alone; a      *)
(* running one shows, one that has ended shows unless that was more than    *)
(* eight seconds ago.                                                       *)
Fetch ==
  /\ Lifecycle # page.key
  /\ \E shown \in IF Lifecycle.status = "running" THEN {TRUE} ELSE BOOLEAN :
       page' = [key |-> Lifecycle, shown |-> shown]
  /\ UNCHANGED <<engine, events, table, host, generation, lost>>

(* The timer set when an ended compaction was shown.                        *)
Hide ==
  /\ page.shown /\ page.key.status # "running"
  /\ page' = [page EXCEPT !.shown = FALSE]
  /\ UNCHANGED <<engine, events, table, host, generation, lost>>

-----------------------------------------------------------------------------
Own(o) == OwnResult(o) \/ OwnObserves(o) \/ OwnSaves(o)

Next ==
  \/ \E o \in Ops :
       \/ Activate(o) \/ Complete(o) \/ Break(o) \/ CancelQueued(o) \/ Own(o)
       \/ \E phase \in {"pre_turn", "mid_turn"} : CompactTurn(o, phase)
  \/ Install \/ CompactionFails
  \/ Handle
  \/ Compact \/ CompactObserves \/ CompactRejects
  \/ Fetch \/ Hide
  \/ Crash

Spec ==
  /\ Init /\ [][Next]_vars
  /\ WF_vars(Handle) /\ WF_vars(Install \/ CompactionFails)
  /\ WF_vars(Fetch) /\ WF_vars(Hide)

-----------------------------------------------------------------------------
(* Every marker on the timeline stands for a compaction the engine really   *)
(* installed, once, and where it happened: at the turn it belonged to, or   *)
(* after the last turn that ran (docs/partner-runtime.md:102).  Only a      *)
(* crash that takes the end of that turn away unhandled may misplace it.    *)
MarkersAnchored ==
  LET markers == view.markers
  IN \A i \in DOMAIN markers :
       /\ \A j \in DOMAIN markers : markers[i].id = markers[j].id => i = j
       /\ \E n \in DOMAIN installed :
            /\ installed[n].value = markers[i].value
            /\ \/ installed[n].at = [anchor |-> markers[i].anchor, position |-> markers[i].position]
               \/ installed[n].at.anchor \in lost

(* A compaction is called running only while this process is working on it  *)
(* or its end is on the way: none stays running over a restart, a failed    *)
(* turn or a rejected request.                                              *)
RunningIsLive ==
  Lifecycle.status = "running" =>
    Begun \/ \E i \in DOMAIN events : events[i].type \in {"replaced", "failed", "run.ended"}

(* An answer saved by the process that ran the turn is never without a      *)
(* stored size, so the next start has one to show.                          *)
AnswersObserved ==
  \A o \in Ops : ran[o] # 0 /\ saved[o] = ran[o] => observed # 0

(* When nothing is on its way, a process that has loaded its context has    *)
(* stored its newest size, whatever overlapped before, unless a turn broke  *)
(* off.                                                                     *)
SettledObservation ==
  (/\ events = <<>> /\ compactor = "none" /\ live # 0
   /\ \A o \in Ops : owner[o] \in {"none", "waiting"} /\ status[o] \in Waiting \union {"completed"}
   /\ \A o \in Ops : owner[o] = "waiting" => status[o] \in Waiting)
  => observed = live

(* The stored size is there with every answer this process saved, and is    *)
(* the live one once its three writers are done (partner.ts:97-111, 120).   *)
ObservationKept == AnswersObserved /\ SettledObservation

(* The status line never stays: what it shows about a compaction, running   *)
(* or over, goes away again.                                                *)
StatusPasses == page.shown ~> ~page.shown
=============================================================================
