-------------------------- MODULE ContinuityProofs --------------------------
(***************************************************************************)
(* Proofs about compaction as the user sees it, for any number of messages,*)
(* compactions, crashes and notifications under way: the stored size is    *)
(* the live one once all is handled, nothing is shown running that is not, *)
(* and every marker stands where the compaction happened.                  *)
(***************************************************************************)
EXTENDS Continuity, TLAPS

Phases == {"none", "pre_turn", "mid_turn", "manual"}
Places == [anchor : 0..MaxOps, position : {"before", "after-user", "after"}]
Statuses == {"pending", "active", "interrupted"} \union Terminal
Types == {"execution.state", "started", "replaced", "failed", "companion.failed", "run.ended",
          "observe", "continue"}
Lifecycles == [id : Nat, status : {"none", "running", "complete", "failed"}, end : Nat]
Markers == [id : Nat, value : Nat, anchor : 0..MaxOps, position : {"before", "after-user", "after"}]
Views == [active : 0..MaxOps, completed : 0..MaxOps, latest : Lifecycles, gen : Nat,
          markers : Seq(Markers)]
Entry(e) ==
  /\ e \in [type : Types, op : 0..MaxOps, status : Statuses \union {"none"}, phase : Phases,
            value : Nat]
  /\ e.type = "execution.state" => e.op # 0 /\ e.status \in {"active"} \union Terminal
Entries == { e \in [type : Types, op : 0..MaxOps, status : Statuses \union {"none"},
                    phase : Phases, value : Nat] : Entry(e) }

ContinuityTypes ==
  /\ status \in [Ops -> Statuses] /\ lastRun \in 0..MaxOps
  /\ compacting \in [op : 0..MaxOps, phase : Phases]
  /\ installed \in Seq([value : Nat, at : Places])
  /\ version \in Nat /\ live \in Nat /\ ran \in [Ops -> Nat]
  /\ events \in Seq(Entries) /\ cursor \in Nat /\ view \in Views
  /\ observed \in Nat /\ saved \in [Ops -> Nat]
  /\ owner \in [Ops -> {"waiting", "flushing", "flushed", "saving", "none"}]
  /\ compactor \in {"none", "running", "flushing", "flushed", "failed"}
  /\ generation \in Nat \ {0} /\ lost \subseteq Ops

-----------------------------------------------------------------------------
(* The queue.                                                               *)
\* x was said: it waits behind everything else.
Queued(q, r, x) ==
  /\ Len(r) = Len(q) + 1 /\ r[Len(q) + 1] = x /\ \A i \in 1..Len(q) : r[i] = q[i]

LEMMA Said ==
  ASSUME NEW S, NEW q \in Seq(S), NEW x \in S
  PROVE  Append(q, x) \in Seq(S) /\ Queued(q, Append(q, x), x)
  BY DEF Queued

LEMMA SaidTwice ==
  ASSUME NEW S, NEW q \in Seq(S), NEW x \in S, NEW y \in S
  PROVE  /\ q \o <<x, y>> = Append(Append(q, x), y)
         /\ Append(q, x) \o <<y>> = Append(Append(q, x), y)
<1> DEFINE u == q \o <<x, y>>
           w == Append(Append(q, x), y)
<1>1. /\ u \in Seq(S) /\ w \in Seq(S) /\ Len(u) = Len(q) + 2 /\ Len(w) = Len(q) + 2
      /\ Len(q) \in Nat
  OBVIOUS
<1>2. \A i \in 1..(Len(q) + 2) : u[i] = w[i]
  OBVIOUS
<1>3. u = w
  <2> HIDE DEF u, w
  <2> QED BY <1>1, <1>2
<1>4. Append(q, x) \o <<y>> = Append(Append(q, x), y)
  OBVIOUS
<1> QED BY <1>3, <1>4

LEMMA Tailed ==
  ASSUME NEW S, NEW q \in Seq(S), q # <<>>
  PROVE  /\ Head(q) = q[1] /\ q[1] \in S /\ Len(q) \in Nat /\ Len(q) >= 1
         /\ Tail(q) \in Seq(S) /\ Len(Tail(q)) = Len(q) - 1
         /\ \A i \in 1..(Len(q) - 1) : Tail(q)[i] = q[i + 1]
  OBVIOUS

LEMMA Swapped ==
  ASSUME NEW S, NEW q \in Seq(S), q # <<>>, NEW x \in S
  PROVE  /\ <<x>> \o Tail(q) \in Seq(S) /\ Len(<<x>> \o Tail(q)) = Len(q)
         /\ (<<x>> \o Tail(q))[1] = x
         /\ \A i \in 2..Len(q) : (<<x>> \o Tail(q))[i] = q[i]
<1> DEFINE t == Tail(q)
           r == <<x>> \o t
<1>1. t \in Seq(S) /\ Len(t) = Len(q) - 1 /\ \A i \in 1..(Len(q) - 1) : t[i] = q[i + 1]
  BY Tailed
<1>2. Len(q) \in Nat /\ Len(q) >= 1
  BY Tailed
<1> HIDE DEF t
<1>3. /\ r \in Seq(S) /\ Len(r) = 1 + Len(t) /\ r[1] = x
      /\ \A i \in 2..(1 + Len(t)) : r[i] = t[i - 1]
  BY <1>1
<1> HIDE DEF r
<1>4. ASSUME NEW i \in 2..Len(q) PROVE r[i] = q[i]
  <2>1. PICK j \in 1..(Len(q) - 1) : j = i - 1 /\ j + 1 = i
    BY <1>2
  <2> QED BY <1>1, <1>2, <1>3, <2>1
<1> QED BY <1>1, <1>2, <1>3, <1>4 DEF r, t

\* The first notification is handled, and maybe its size is to be stored next.
Pops == /\ Len(events') = Len(events) - 1
        /\ \A i \in 1..(Len(events) - 1) : events'[i] = events[i + 1]
Swaps == /\ Len(events') = Len(events) /\ events'[1] = Observation(events[1].value)
         /\ \A i \in 2..Len(events) : events'[i] = events[i]
Logs(e) ==
  /\ e.type \notin {"observe", "continue"}
  /\ Write(e)
  /\ IF e.type = "replaced" THEN Swaps ELSE Pops
  /\ UNCHANGED <<observed, owner, compactor>>
Stores(e) ==
  /\ e.type = "observe" /\ observed' = e.value /\ Pops
  /\ UNCHANGED <<table, owner, compactor>>
Resumes(e) ==
  /\ e.type = "continue" /\ Pops
  /\ IF e.op = 0 THEN compactor' = "flushed" /\ owner' = owner
                 ELSE owner' = [owner EXCEPT ![e.op] = "flushed"] /\ compactor' = compactor
  /\ UNCHANGED <<table, observed>>
Handles(e) ==
  /\ Len(events) >= 1 /\ e = events[1] /\ Entry(e) /\ events' \in Seq(Entries)
  /\ Logs(e) \/ Stores(e) \/ Resumes(e)
  /\ UNCHANGED <<engine, saved, generation, lost, page>>

(* Notifications are well formed.                                           *)
LEMMA Noted ==
  ASSUME NEW v \in Nat
  PROVE  /\ Observation(v) \in Entries /\ Failed \in Entries
         /\ \A o \in Ops, state \in {"active"} \union Terminal : State(o, state) \in Entries
         /\ \A o \in Ops : RunEnded(o) \in Entries
         /\ \A o \in 0..MaxOps : Continue(o) \in Entries
         /\ \A c \in [op : 0..MaxOps, phase : Phases] :
              Started(c) \in Entries /\ Replaced(c, v) \in Entries
<1>1. 0 \in 0..MaxOps /\ Ops \subseteq 0..MaxOps /\ 0 \notin Ops
  BY ContinuityAssumption DEF Ops
<1> QED BY <1>1 DEF Observation, Failed, State, RunEnded, Continue, Started, Replaced, Event,
                    Entries, Entry, Types, Statuses, Phases, Terminal

LEMMA HandleEffect ==
  ASSUME ContinuityTypes, Handle
  PROVE  \E e : Handles(e)
<1> DEFINE e == events[1]
<1>1. events \in Seq(Entries) /\ events # <<>>
  BY DEF ContinuityTypes, Handle
<1>2. /\ Head(events) = e /\ e \in Entries /\ Len(events) >= 1
      /\ Tail(events) \in Seq(Entries) /\ Len(Tail(events)) = Len(events) - 1
      /\ \A i \in 1..(Len(events) - 1) : Tail(events)[i] = events[i + 1]
  BY <1>1, Tailed
<1>3. Entry(e)
  BY <1>2 DEF Entries
<1>4. Observation(e.value) \in Entries
  BY <1>3, Noted DEF Entry
<1>5. UNCHANGED <<engine, saved, generation, lost, page>>
  BY DEF Handle
<1> HIDE DEF e
<1>6. CASE Log
  <2>1. /\ e.type \notin {"observe", "continue"} /\ Write(e)
        /\ events' = IF e.type = "replaced" THEN <<Observation(e.value)>> \o Tail(events)
                                            ELSE Tail(events)
        /\ UNCHANGED <<observed, owner, compactor>>
    BY <1>2, <1>6 DEF Log
  <2>2. CASE e.type = "replaced"
    BY <1>1, <1>2, <1>3, <1>4, <1>5, <2>1, <2>2, Swapped DEF Handles, Logs, Swaps, e
  <2>3. CASE e.type # "replaced"
    BY <1>2, <1>3, <1>5, <2>1, <2>3 DEF Handles, Logs, Pops, e
  <2> QED BY <2>2, <2>3
<1>7. CASE StoreReplaced
  BY <1>2, <1>3, <1>5, <1>7 DEF StoreReplaced, Handles, Stores, Pops, e
<1>8. CASE GoOn
  BY <1>2, <1>3, <1>5, <1>8 DEF GoOn, Handles, Resumes, Pops, e
<1> QED BY <1>6, <1>7, <1>8 DEF Handle

-----------------------------------------------------------------------------
(* A row and the projection.                                                *)
NextActive(A, e) ==
  IF e.type # "execution.state" THEN A
  ELSE IF e.status = "active" THEN e.op ELSE IF A = e.op THEN 0 ELSE A
NextCompleted(A, C, e) ==
  IF e.type = "execution.state" /\ e.status # "active" /\ (A = e.op \/ e.status = "completed")
  THEN e.op ELSE C

\* What a row changes of the lifecycle.
Runs(e, at) == /\ e.type = "started" /\ view'.gen = generation
               /\ view'.latest.id = at /\ view'.latest.status = "running"
Ended == view'.latest.status # "running" /\ view'.latest.id =< cursor' /\ view'.gen = view.gen
Marks(e, at) ==
  LET id == IF view.latest.status = "running" THEN view.latest.id ELSE at
  IN view'.markers = Append(view.markers, Boundary(e, id))

LEMMA Written ==
  ASSUME ContinuityTypes, NEW e, Entry(e), Write(e), view.latest.id =< cursor
  PROVE  /\ cursor' \in Nat /\ view' \in Views /\ cursor' >= cursor
         /\ e.type # "execution.state" => cursor' = cursor + 1
         /\ view'.active = NextActive(view.active, e)
         /\ view'.completed = NextCompleted(view.active, view.completed, e)
         /\ \/ Runs(e, cursor') \/ (e.type # "started" /\ Ended)
            \/ /\ e.type \notin {"started", "replaced", "failed", "companion.failed", "run.ended"}
               /\ view'.latest = view.latest /\ view'.gen = view.gen
         /\ IF e.type = "replaced" THEN Marks(e, cursor') ELSE view'.markers = view.markers
         /\ view'.latest.id =< cursor'
<1>1. view \in Views /\ cursor \in Nat /\ generation \in Nat
  BY DEF ContinuityTypes
<1>2. /\ view.active \in 0..MaxOps /\ view.completed \in 0..MaxOps /\ view.gen \in Nat
      /\ view.latest \in Lifecycles /\ view.markers \in Seq(Markers)
      /\ view.latest.id \in Nat /\ view.latest.end \in Nat
      /\ view.latest.status \in {"none", "running", "complete", "failed"}
  BY <1>1 DEF Views, Lifecycles
<1>3. /\ cursor' = IF e.type = "execution.state" THEN cursor ELSE cursor + 1
      /\ view' = ProjectRow(e, cursor')
  BY DEF Write
<1>4. cursor' \in Nat /\ cursor' >= cursor
  BY <1>1, <1>3
<1>5. e.op \in 0..MaxOps /\ e.value \in Nat /\ e.type \in Types
  BY DEF Entry
<1>6. CASE e.type = "execution.state"
  <2>1. view' = ProjectState(e)
    BY <1>3, <1>6 DEF ProjectRow
  <2> DEFINE A == NextActive(view.active, e)
             C == NextCompleted(view.active, view.completed, e)
  <2>3. view' = [view EXCEPT !.active = A, !.completed = C]
    BY <1>1, <1>6, <2>1 DEF ProjectState, NextActive, NextCompleted, Views
  <2>4. A \in 0..MaxOps /\ C \in 0..MaxOps
    BY <1>2, <1>5, ContinuityAssumption DEF NextActive, NextCompleted
  <2> HIDE DEF A, C
  <2>2. /\ view'.active = A /\ view'.completed = C
        /\ view'.latest = view.latest /\ view'.gen = view.gen /\ view'.markers = view.markers
        /\ view' \in Views
    BY <1>1, <1>2, <2>3, <2>4 DEF Views
  <2> USE DEF A, C
  <2> QED BY <1>3, <1>4, <1>6, <2>2
<1>7. CASE e.type = "started"
  <2>1. view' = [view EXCEPT !.latest = [id |-> cursor', status |-> "running", end |-> 0],
                             !.gen = generation]
    BY <1>3, <1>7 DEF ProjectRow
  <2>2. [id |-> cursor', status |-> "running", end |-> 0] \in Lifecycles
    BY <1>4 DEF Lifecycles
  <2>3. /\ view'.latest = [id |-> cursor', status |-> "running", end |-> 0]
        /\ view'.active = view.active /\ view'.completed = view.completed
        /\ view'.gen = generation /\ view'.markers = view.markers /\ view' \in Views
    BY <1>1, <1>2, <2>1, <2>2 DEF Views
  <2> QED BY <1>3, <1>4, <1>7, <2>3 DEF Runs, NextActive, NextCompleted
<1>8. CASE e.type = "replaced"
  <2> DEFINE id == IF view.latest.status = "running" THEN view.latest.id ELSE cursor'
             l == [id |-> id, status |-> "complete", end |-> cursor']
  <2>1. id \in Nat /\ id =< cursor'
    BY <1>1, <1>2, <1>4
  <2>2. view' = [view EXCEPT !.markers = Append(@, Boundary(e, id)), !.latest = l]
    BY <1>3, <1>8 DEF ProjectRow, ProjectReplaced
  <2> HIDE DEF id
  <2>3. l \in Lifecycles /\ l.id = id /\ l.status = "complete"
    BY <1>4, <2>1 DEF Lifecycles
  <2>4. Boundary(e, id) \in Markers
    BY <1>2, <1>5, <2>1 DEF Boundary, Markers
  <2> HIDE DEF l
  <2>5. Append(view.markers, Boundary(e, id)) \in Seq(Markers)
    BY <1>2, <2>4
  <2>6. /\ view'.latest = l /\ view'.markers = Append(view.markers, Boundary(e, id))
        /\ view'.active = view.active /\ view'.completed = view.completed /\ view'.gen = view.gen
        /\ view' \in Views
    BY <1>1, <1>2, <2>2, <2>3, <2>5 DEF Views
  <2> QED BY <1>3, <1>4, <1>8, <2>1, <2>3, <2>6 DEF Ended, Marks, NextActive, NextCompleted, id
<1>9. CASE /\ e.type \in {"failed", "companion.failed", "run.ended"}
           /\ view.latest.status = "running"
  <2>1. view' = [view EXCEPT !.latest.status = "failed", !.latest.end = cursor']
    BY <1>3, <1>9 DEF ProjectRow
  <2>2. /\ view'.latest.id = view.latest.id /\ view'.latest.status = "failed"
        /\ view'.latest \in Lifecycles /\ view'.markers = view.markers
        /\ view'.active = view.active /\ view'.completed = view.completed /\ view'.gen = view.gen
        /\ view' \in Views
    BY <1>1, <1>2, <1>4, <2>1 DEF Views, Lifecycles
  <2> QED BY <1>1, <1>2, <1>3, <1>4, <1>9, <2>2 DEF Ended, NextActive, NextCompleted
<1>10. CASE /\ e.type \notin {"execution.state", "started", "replaced"}
            /\ ~(/\ e.type \in {"failed", "companion.failed", "run.ended"}
                 /\ view.latest.status = "running")
  <2>1. view' = view
    BY <1>3, <1>10 DEF ProjectRow
  <2> QED BY <1>1, <1>2, <1>3, <1>4, <1>10, <2>1 DEF Ended, NextActive, NextCompleted
<1> QED BY <1>6, <1>7, <1>8, <1>9, <1>10

-----------------------------------------------------------------------------
(* Types.                                                                   *)
USE DEF engine, host, table

\* The queue is extended, by x or by x and what waits for it to be handled.
Says(x) == x \in Entries /\ events' = Append(events, x)
SaysBoth(x, y) == x \in Entries /\ y \in Entries /\ events' = Append(Append(events, x), y)

LEMMA Sayings ==
  ASSUME ContinuityTypes
  PROVE  /\ \A o \in Ops : Activate(o) => Says(State(o, "active"))
         /\ \A o \in Ops, phase \in {"pre_turn", "mid_turn"} :
              CompactTurn(o, phase) => Says(Started([op |-> o, phase |-> phase]))
         /\ Compact => Says(Started([op |-> 0, phase |-> "manual"]))
         /\ CompactionFails => Says(Failed)
         /\ \A o \in Ops : Complete(o) => Says(State(o, "completed"))
         /\ \A o \in Ops : Break(o) => SaysBoth(RunEnded(o), State(o, "failed"))
         /\ \A o \in Ops : CancelQueued(o) => Says(State(o, "cancelled"))
         /\ \A o \in Ops : OwnResult(o) => Says(Continue(o))
         /\ Install => IF compacting.op = 0
                       THEN SaysBoth(Replaced(compacting, version'), Continue(0))
                       ELSE Says(Replaced(compacting, version'))
<1>1. events \in Seq(Entries) /\ compacting \in [op : 0..MaxOps, phase : Phases]
      /\ version \in Nat
  BY DEF ContinuityTypes
<1>2. /\ Failed \in Entries
      /\ \A o \in Ops, state \in {"active"} \union Terminal : State(o, state) \in Entries
      /\ \A o \in Ops : RunEnded(o) \in Entries
      /\ \A o \in 0..MaxOps : Continue(o) \in Entries
      /\ \A c \in [op : 0..MaxOps, phase : Phases], v \in Nat :
           Started(c) \in Entries /\ Replaced(c, v) \in Entries
  BY Noted
<1>3. 0 \in 0..MaxOps /\ Ops \subseteq 0..MaxOps
  BY ContinuityAssumption DEF Ops
<1>4. {"active", "completed", "failed", "cancelled"} \subseteq {"active"} \union Terminal
  BY DEF Terminal
<1>5. \A o \in 0..MaxOps, phase \in {"pre_turn", "mid_turn", "manual"} :
        Started([op |-> o, phase |-> phase]) \in Entries
  BY <1>2 DEF Phases
<1>6. \A o \in Ops : Activate(o) => Says(State(o, "active"))
  BY <1>2, <1>4 DEF Activate, Says
<1>7. \A o \in Ops, phase \in {"pre_turn", "mid_turn"} :
        CompactTurn(o, phase) => Says(Started([op |-> o, phase |-> phase]))
  BY <1>3, <1>5 DEF CompactTurn, Starts, Says
<1>8. Compact => Says(Started([op |-> 0, phase |-> "manual"]))
  BY <1>3, <1>5 DEF Compact, Starts, Says
<1>9. CompactionFails => Says(Failed)
  BY <1>2 DEF CompactionFails, Says
<1>10. \A o \in Ops : /\ Complete(o) => Says(State(o, "completed"))
                      /\ CancelQueued(o) => Says(State(o, "cancelled"))
                      /\ OwnResult(o) => Says(Continue(o))
  BY <1>2, <1>3, <1>4 DEF Complete, CancelQueued, OwnResult, Says
<1>11. \A o \in Ops : Break(o) => SaysBoth(RunEnded(o), State(o, "failed"))
  BY <1>1, <1>2, <1>4, SaidTwice DEF Break, SaysBoth
<1>12. ASSUME Install
       PROVE  IF compacting.op = 0 THEN SaysBoth(Replaced(compacting, version'), Continue(0))
                                   ELSE Says(Replaced(compacting, version'))
  <2> DEFINE x == Replaced(compacting, version')
  <2>1. x \in Entries /\ Continue(0) \in Entries
    BY <1>1, <1>2, <1>3, <1>12 DEF Install
  <2>2. events' = Append(events, x) \o IF compacting.op = 0 THEN <<Continue(0)>> ELSE <<>>
    BY <1>12 DEF Install
  <2> HIDE DEF x
  <2>3. Append(events, x) \o <<>> = Append(events, x)
    BY <1>1, <2>1
  <2>4. Append(events, x) \o <<Continue(0)>> = Append(Append(events, x), Continue(0))
    BY <1>1, <2>1, SaidTwice
  <2> QED BY <2>1, <2>2, <2>3, <2>4 DEF Says, SaysBoth, x
<1> QED BY <1>6, <1>7, <1>8, <1>9, <1>10, <1>11, <1>12

LEMMA SaidEffect ==
  ASSUME ContinuityTypes
  PROVE  /\ \A x : Says(x) => events' \in Seq(Entries) /\ Queued(events, events', x)
         /\ \A x, y : SaysBoth(x, y) =>
              /\ events' \in Seq(Entries) /\ Len(events') = Len(events) + 2
              /\ events'[Len(events) + 1] = x /\ events'[Len(events) + 2] = y
              /\ \A i \in 1..Len(events) : events'[i] = events[i]
<1>1. events \in Seq(Entries) /\ Len(events) \in Nat
  BY DEF ContinuityTypes
<1>2. \A x : Says(x) => events' \in Seq(Entries) /\ Queued(events, events', x)
  BY <1>1, Said DEF Says
<1>3. ASSUME NEW x, NEW y, SaysBoth(x, y)
      PROVE  /\ events' \in Seq(Entries) /\ Len(events') = Len(events) + 2
             /\ events'[Len(events) + 1] = x /\ events'[Len(events) + 2] = y
             /\ \A i \in 1..Len(events) : events'[i] = events[i]
  <2> DEFINE q == Append(events, x)
  <2>1. x \in Entries /\ y \in Entries /\ events' = Append(q, y)
    BY <1>3 DEF SaysBoth
  <2>2. q \in Seq(Entries) /\ Queued(events, q, x)
    BY <1>1, <2>1, Said
  <2> HIDE DEF q
  <2>3. events' \in Seq(Entries) /\ Queued(q, events', y)
    BY <2>1, <2>2, Said
  <2> QED BY <1>1, <2>2, <2>3 DEF Queued
<1> QED BY <1>2, <1>3

LEMMA TypesStep ==
  ASSUME ContinuityTypes, view.latest.id =< cursor, [Next]_vars
  PROVE  ContinuityTypes'
<1>0. /\ \A x : Says(x) => events' \in Seq(Entries)
      /\ \A x, y : SaysBoth(x, y) => events' \in Seq(Entries)
  BY SaidEffect
<1>a. /\ {"active", "completed", "failed", "cancelled", "interrupted"} \subseteq Statuses
      /\ {"pre_turn", "mid_turn", "manual", "none"} \subseteq Phases
      /\ 0 \in 0..MaxOps /\ Ops \subseteq 0..MaxOps
      /\ NoCompaction \in [op : 0..MaxOps, phase : Phases]
  BY ContinuityAssumption DEF Statuses, Terminal, Phases, Ops, NoCompaction
<1>1. ASSUME NEW o \in Ops, Activate(o) PROVE ContinuityTypes'
  BY <1>0, <1>a, <1>1, Sayings DEF Activate, ContinuityTypes
<1>2. ASSUME NEW o \in Ops, Complete(o) PROVE ContinuityTypes'
  <2>1. events' \in Seq(Entries)
    BY <1>0, <1>2, Sayings
  <2>2. status' \in [Ops -> Statuses] /\ ran' \in [Ops -> Nat] /\ lastRun' \in 0..MaxOps
    BY <1>a, <1>2 DEF Complete, ContinuityTypes
  <2>3. version' \in Nat /\ live' \in Nat
    BY <1>2 DEF Complete, ContinuityTypes
  <2>4. UNCHANGED <<compacting, installed, cursor, view, observed, saved, owner, compactor,
                    generation, lost>>
    BY <1>2 DEF Complete
  <2> QED BY <2>1, <2>2, <2>3, <2>4 DEF ContinuityTypes
<1>3. ASSUME NEW o \in Ops, Break(o) PROVE ContinuityTypes'
  BY <1>0, <1>a, <1>3, Sayings DEF Break, ContinuityTypes
<1>4. ASSUME NEW o \in Ops, CancelQueued(o) PROVE ContinuityTypes'
  BY <1>0, <1>a, <1>4, Sayings DEF CancelQueued, ContinuityTypes
<1>5. ASSUME NEW o \in Ops, NEW phase \in {"pre_turn", "mid_turn"}, CompactTurn(o, phase)
      PROVE  ContinuityTypes'
  BY <1>0, <1>a, <1>5, Sayings DEF CompactTurn, Starts, ContinuityTypes
<1>6. CASE Compact
  BY <1>0, <1>a, <1>6, Sayings DEF Compact, Starts, ContinuityTypes
<1>7. CASE Install
  <2>1. events' \in Seq(Entries)
    BY <1>0, <1>7, Sayings
  <2>2. version' \in Nat /\ live' \in Nat
    BY <1>7 DEF Install, ContinuityTypes
  <2>3. Where(compacting) \in Places
    BY DEF Where, ContinuityTypes, Places
  <2>4. [value |-> version', at |-> Where(compacting)] \in [value : Nat, at : Places]
    BY <2>2, <2>3
  <2>5. installed' \in Seq([value : Nat, at : Places])
    <3>1. PICK x : x = [value |-> version', at |-> Where(compacting)]
      OBVIOUS
    <3>2. installed' = Append(installed, x)
      BY <1>7, <3>1 DEF Install
    <3> QED BY <2>4, <3>1, <3>2 DEF ContinuityTypes
  <2> QED BY <1>a, <1>7, <2>1, <2>2, <2>5 DEF Install, ContinuityTypes
<1>8. CASE CompactionFails
  BY <1>0, <1>a, <1>8, Sayings DEF CompactionFails, ContinuityTypes
<1>9. CASE Handle
  <2>1. PICK e : Handles(e)
    BY <1>9, HandleEffect
  <2>2. Entry(e) /\ e.value \in Nat /\ e.op \in 0..MaxOps
    BY <2>1 DEF Handles, Entry
  <2>3. CASE Logs(e)
    <3>1. cursor' \in Nat /\ view' \in Views
      BY <2>2, <2>3, Written DEF Logs
    <3> QED BY <2>1, <2>3, <3>1 DEF Handles, Logs, ContinuityTypes
  <2>4. CASE Stores(e)
    BY <2>1, <2>2, <2>4 DEF Handles, Stores, ContinuityTypes
  <2>5. CASE Resumes(e)
    BY <2>1, <2>2, <2>5 DEF Handles, Resumes, ContinuityTypes
  <2> QED BY <2>1, <2>3, <2>4, <2>5 DEF Handles
<1>10. ASSUME NEW o \in Ops, Own(o) PROVE ContinuityTypes'
  <2>1. CASE OwnResult(o)
    BY <1>0, <2>1, Sayings DEF OwnResult, ContinuityTypes
  <2>2. CASE OwnObserves(o)
    BY <2>2 DEF OwnObserves, Known, ContinuityTypes
  <2>3. CASE OwnSaves(o)
    BY <2>3 DEF OwnSaves, ContinuityTypes
  <2> QED BY <1>10, <2>1, <2>2, <2>3 DEF Own
<1>11. CASE CompactObserves
  BY <1>11 DEF CompactObserves, Known, ContinuityTypes
<1>12. CASE CompactRejects
  <2> DEFINE e == Event("companion.failed", 0, "none", "none", 0)
  <2>1. Entry(e)
    BY <1>a DEF Entry, Event, Types, Statuses, Phases
  <2>2. cursor' \in Nat /\ view' \in Views
    BY <1>12, <2>1, Written DEF CompactRejects
  <2> QED BY <1>12, <2>2 DEF CompactRejects, ContinuityTypes
<1>13. CASE Fetch \/ Hide \/ UNCHANGED vars
  BY <1>13 DEF Fetch, Hide, vars, ContinuityTypes
<1>14. CASE Crash
  <2>1. lost' \subseteq Ops
    <3>1. ASSUME NEW i \in DOMAIN events, events[i].type = "execution.state",
                 events[i].status \in Terminal
          PROVE  events[i].op \in Ops
      <4>1. events[i] \in Entries
        BY DEF ContinuityTypes
      <4> QED BY <3>1, <4>1 DEF Entries, Entry, Ops
    <3> QED BY <1>14, <3>1 DEF Crash, ContinuityTypes
  <2>2. status' \in [Ops -> Statuses]
    BY <1>a, <1>14 DEF Crash, ContinuityTypes
  <2>3. events' \in Seq(Entries)
    BY <1>14 DEF Crash
  <2> QED BY <1>a, <1>14, <2>1, <2>2, <2>3 DEF Crash, ContinuityTypes
<1> QED BY <1>1, <1>2, <1>3, <1>4, <1>5, <1>6, <1>7, <1>8, <1>9, <1>10, <1>11, <1>12, <1>13, <1>14
        DEF Next

-----------------------------------------------------------------------------
(* The end of a compaction.                                                 *)
Ends == {"replaced", "failed", "run.ended"}
EndsAfter(q, i) == \E j \in 1..Len(q) : j > i /\ q[j].type \in Ends

(* A compaction the table knows to be running, or will be told of, is being *)
(* worked on, or the queue holds its end behind its start.                  *)
RunInv ==
  /\ view.gen =< generation
  /\ view.latest.status = "running" /\ view.gen = generation => Begun \/ EndsAfter(events, 0)
  /\ \A i \in 1..Len(events) : events[i].type = "started" => Begun \/ EndsAfter(events, i)

LEMMA RunGrown ==
  ASSUME ContinuityTypes, RunInv, events' \in Seq(Entries), Len(events') >= Len(events),
         \A i \in 1..Len(events) : events'[i] = events[i],
         \A i \in 1..Len(events') : i > Len(events) /\ events'[i].type = "started" => Begun',
         Begun => Begun' \/ \E j \in 1..Len(events') : j > Len(events) /\ events'[j].type \in Ends,
         view' = view, generation' = generation
  PROVE  RunInv'
<1>1. Len(events) \in Nat /\ Len(events') \in Nat
  BY DEF ContinuityTypes
<1>2. ASSUME NEW i \in 0..Len(events), Begun \/ EndsAfter(events, i)
      PROVE  Begun' \/ EndsAfter(events, i)'
  <2>1. CASE EndsAfter(events, i)
    BY <1>1, <2>1 DEF EndsAfter
  <2>2. CASE Begun
    BY <1>1, <2>2 DEF EndsAfter
  <2> QED BY <1>2, <2>1, <2>2
<1>3. (view.latest.status = "running" /\ view.gen = generation => Begun \/ EndsAfter(events, 0))'
  BY <1>1, <1>2 DEF RunInv
<1>4. ASSUME NEW i \in 1..Len(events'), events'[i].type = "started"
      PROVE  Begun' \/ EndsAfter(events, i)'
  <2>1. CASE i > Len(events)
    BY <1>4, <2>1
  <2>2. CASE i =< Len(events)
    BY <1>1, <1>2, <1>4, <2>2 DEF RunInv
  <2> QED BY <1>1, <2>1, <2>2
<1> QED BY <1>3, <1>4 DEF RunInv

LEMMA RunStep ==
  ASSUME ContinuityTypes, RunInv, view.latest.id =< cursor, [Next]_vars
  PROVE  RunInv'
<1>0. Len(events) \in Nat /\ generation \in Nat /\ view.gen \in Nat
  BY DEF ContinuityTypes, Views
<1>a. ASSUME NEW x, Says(x), x.type # "started", UNCHANGED <<compacting, view, generation>>
      PROVE  RunInv'
  BY <1>0, <1>a, SaidEffect, RunGrown DEF Queued, Begun
<1>b. ASSUME NEW x, Says(x), Begun', UNCHANGED <<view, generation>>
      PROVE  RunInv'
  BY <1>0, <1>b, SaidEffect, RunGrown DEF Queued
<1>c. ASSUME NEW x, Says(x), x.type \in Ends, UNCHANGED <<view, generation>>
      PROVE  RunInv'
  <2>1. x.type # "started"
    BY <1>c DEF Ends
  <2> QED BY <1>0, <1>c, <2>1, SaidEffect, RunGrown DEF Queued
<1>d. ASSUME NEW x, NEW y, SaysBoth(x, y), x.type \in Ends, y.type # "started",
             UNCHANGED <<view, generation>>
      PROVE  RunInv'
  <2>1. x.type # "started"
    BY <1>d DEF Ends
  <2> QED BY <1>0, <1>d, <2>1, SaidEffect, RunGrown
<1>e. ASSUME UNCHANGED <<events, compacting, view, generation>> PROVE RunInv'
  BY <1>e DEF RunInv, EndsAfter, Begun
<1>1. ASSUME NEW o \in Ops, Activate(o) \/ Complete(o) \/ CancelQueued(o) \/ OwnResult(o)
      PROVE  RunInv'
  <2>1. \E x \in {State(o, "active"), State(o, "completed"), State(o, "cancelled"), Continue(o)} :
          Says(x)
    BY <1>1, Sayings
  <2>2. PICK x : Says(x) /\ x.type # "started"
    BY <2>1 DEF State, Continue, Event
  <2> QED BY <1>1, <1>a, <2>2 DEF Activate, Complete, CancelQueued, OwnResult
<1>2. ASSUME NEW o \in Ops, Break(o) PROVE RunInv'
  <2>1. SaysBoth(RunEnded(o), State(o, "failed"))
    BY <1>2, Sayings
  <2>2. RunEnded(o).type \in Ends /\ State(o, "failed").type # "started"
    BY DEF State, RunEnded, Event, Ends
  <2> QED BY <1>2, <1>d, <2>1, <2>2 DEF Break
<1>3. ASSUME NEW o \in Ops, NEW phase \in {"pre_turn", "mid_turn"}, CompactTurn(o, phase)
      PROVE  RunInv'
  <2>1. Says(Started([op |-> o, phase |-> phase]))
    BY <1>3, Sayings
  <2>2. compacting' = [op |-> o, phase |-> phase] /\ UNCHANGED <<view, generation>>
    BY <1>3 DEF CompactTurn, Starts
  <2>3. Begun'
    BY <2>2 DEF Begun, NoCompaction
  <2> QED BY <1>b, <2>1, <2>2, <2>3
<1>4. CASE Compact
  <2>1. Says(Started([op |-> 0, phase |-> "manual"]))
    BY <1>4, Sayings
  <2>2. compacting' = [op |-> 0, phase |-> "manual"] /\ UNCHANGED <<view, generation>>
    BY <1>4 DEF Compact, Starts
  <2>3. Begun'
    BY <2>2 DEF Begun, NoCompaction
  <2> QED BY <1>b, <2>1, <2>2, <2>3
<1>5. CASE Install
  <2>1. Replaced(compacting, version').type \in Ends /\ Continue(0).type # "started"
    BY DEF Replaced, Continue, Event, Ends
  <2> QED BY <1>5, <1>c, <1>d, <2>1, Sayings DEF Install
<1>6. CASE CompactionFails
  <2>1. Failed.type \in Ends
    BY DEF Failed, Event, Ends
  <2> QED BY <1>6, <1>c, <2>1, Sayings DEF CompactionFails
<1>7. CASE Handle
  <2>1. PICK e : Handles(e)
    BY <1>7, HandleEffect
  <2>2. /\ e = events[1] /\ Entry(e) /\ Len(events) >= 1 /\ Len(events') \in Nat
        /\ UNCHANGED <<compacting, generation>>
    BY <2>1 DEF Handles
  <2>3. ASSUME Pops PROVE \A i \in 1..Len(events) : EndsAfter(events, i) => EndsAfter(events, i - 1)'
    <3>1. ASSUME NEW i \in 1..Len(events), NEW j \in 1..Len(events), j > i, events[j].type \in Ends
          PROVE  EndsAfter(events, i - 1)'
      <4>1. PICK k \in 1..Len(events') : k = j - 1 /\ events'[k] = events[j]
        BY <1>0, <2>2, <2>3, <3>1 DEF Pops
      <4> QED BY <1>0, <3>1, <4>1 DEF EndsAfter
    <3> QED BY <3>1 DEF EndsAfter
  <2>4. ASSUME Pops PROVE \A i \in 1..Len(events') : events'[i].type = "started" =>
                            (Begun \/ EndsAfter(events, i))'
    <3>1. ASSUME NEW i \in 1..Len(events'), events'[i].type = "started"
          PROVE  (Begun \/ EndsAfter(events, i))'
      <4>1. PICK k \in 1..Len(events) : k = i + 1 /\ events'[i] = events[k]
        BY <1>0, <2>2, <2>4 DEF Pops
      <4>2. Begun \/ EndsAfter(events, k)
        BY <3>1, <4>1 DEF RunInv
      <4>3. k - 1 = i
        BY <4>1
      <4> QED BY <2>2, <2>3, <2>4, <4>2, <4>3 DEF Begun
    <3> QED BY <3>1
  <2>5. ASSUME Pops, e.type \notin Ends, UNCHANGED <<view>> PROVE RunInv'
    <3>1. EndsAfter(events, 0) => EndsAfter(events, 1)
      BY <1>0, <2>2, <2>5 DEF EndsAfter
    <3>2. EndsAfter(events, 1) => EndsAfter(events, 0)'
      BY <2>2, <2>3, <2>5
    <3>3. Begun' = Begun
      BY <2>2 DEF Begun
    <3> QED BY <2>2, <2>4, <2>5, <3>1, <3>2, <3>3 DEF RunInv
  <2>6. CASE Logs(e)
    <3> DEFINE R == view'.latest.status = "running" /\ view'.gen = generation'
                    => (Begun \/ EndsAfter(events, 0))'
    <3>1. /\ \/ Runs(e, cursor') \/ (e.type # "started" /\ Ended)
             \/ /\ e.type \notin {"started", "replaced", "failed", "companion.failed", "run.ended"}
                /\ view'.latest = view.latest /\ view'.gen = view.gen
          /\ view' \in Views
      BY <2>2, <2>6, Written DEF Logs
    <3>2. view'.gen =< generation'
      BY <1>0, <2>2, <3>1 DEF Runs, Ended, RunInv
    <3>3. ASSUME Pops, e.type # "replaced" PROVE RunInv'
      <4>1. CASE Runs(e, cursor')
        <5>1. Begun \/ EndsAfter(events, 1)
          BY <2>2, <4>1 DEF Runs, RunInv
        <5>2. EndsAfter(events, 1) => EndsAfter(events, 0)'
          BY <2>2, <2>3, <3>3
        <5> QED BY <2>2, <2>4, <3>2, <3>3, <5>1, <5>2 DEF RunInv, Begun
      <4>2. CASE Ended
        BY <2>4, <3>2, <3>3, <4>2 DEF RunInv, Ended
      <4>3. CASE /\ e.type \notin {"started", "replaced", "failed", "companion.failed", "run.ended"}
                 /\ view'.latest = view.latest /\ view'.gen = view.gen
        <5>1. EndsAfter(events, 0) => EndsAfter(events, 1)
          BY <1>0, <2>2, <4>3 DEF EndsAfter, Ends
        <5>2. EndsAfter(events, 1) => EndsAfter(events, 0)'
          BY <2>2, <2>3, <3>3
        <5>3. Begun' = Begun
          BY <2>2 DEF Begun
        <5> QED BY <2>2, <2>4, <3>2, <3>3, <4>3, <5>1, <5>2, <5>3 DEF RunInv
      <4> QED BY <3>1, <4>1, <4>2, <4>3
    <3>4. ASSUME Swaps, e.type = "replaced" PROVE RunInv'
      <4>1. Ended
        BY <3>1, <3>4 DEF Runs
      <4>2. events'[1].type # "started" /\ events'[1].type \notin Ends
        BY <3>4 DEF Swaps, Observation, Event, Ends
      <4>3. \A i \in 1..Len(events) : EndsAfter(events, i) => EndsAfter(events, i)'
        BY <1>0, <3>4 DEF Swaps, EndsAfter
      <4>4. \A i \in 1..Len(events') : events'[i].type = "started" => (Begun \/ EndsAfter(events, i))'
        BY <1>0, <2>2, <3>4, <4>2, <4>3 DEF Swaps, RunInv, Begun
      <4> QED BY <3>2, <4>1, <4>4 DEF RunInv, Ended
    <3> QED BY <2>6, <3>3, <3>4 DEF Logs
  <2>7. CASE Stores(e) \/ Resumes(e)
    BY <2>5, <2>7 DEF Stores, Resumes, Ends
  <2> QED BY <2>1, <2>6, <2>7 DEF Handles
<1>8. CASE CompactRejects
  <2> DEFINE e == Event("companion.failed", 0, "none", "none", 0)
  <2>1. Entry(e) /\ e.type = "companion.failed"
    BY ContinuityAssumption DEF Entry, Event, Types, Statuses, Phases
  <2>2. Ended
    BY <1>8, <2>1, Written DEF CompactRejects, Runs
  <2> QED BY <1>8, <2>2 DEF CompactRejects, RunInv, Ended, EndsAfter, Begun
<1>9. CASE Crash
  <2>1. Len(events') = 0
    BY <1>9 DEF Crash
  <2>2. view'.gen = view.gen /\ generation' = generation + 1 /\ view.gen =< generation
    BY <1>9 DEF Crash, RunInv
  <2> QED BY <1>0, <2>1, <2>2 DEF RunInv
<1>10. CASE \/ \E o \in Ops : OwnObserves(o) \/ OwnSaves(o)
            \/ CompactObserves \/ Fetch \/ Hide \/ UNCHANGED vars
  BY <1>e, <1>10 DEF OwnObserves, OwnSaves, CompactObserves, Fetch, Hide, vars
<1> QED BY <1>1, <1>2, <1>3, <1>4, <1>5, <1>6, <1>7, <1>8, <1>9, <1>10 DEF Next, Own

-----------------------------------------------------------------------------
(* Who owns a message, and the size stored with its answer.                 *)
Owns(o) ==
  /\ ran[o] # 0 <=> status[o] = "completed"
  /\ ran[o] =< generation /\ (ran[o] = generation => live # 0)
  /\ owner[o] \in {"flushing", "flushed", "saving"} => status[o] = "completed"
  /\ owner[o] = "none" => status[o] \in Terminal
  /\ saved[o] # 0 => status[o] \in Terminal
  /\ owner[o] = "saving" /\ ran[o] = generation => observed # 0
  /\ ran[o] # 0 /\ saved[o] = ran[o] => observed # 0

\* A queued size is one, and only an owner of a completed message waits.
Sound(e) ==
  /\ e.type \in {"replaced", "observe"} => e.value # 0
  /\ e.type = "continue" /\ e.op # 0 => status[e.op] = "completed"

OwnInv ==
  /\ \A o \in Ops : Owns(o)
  /\ \A i \in 1..Len(events) : Sound(events[i])

LEMMA SoundSaid ==
  ASSUME ContinuityTypes, OwnInv, [Next]_vars,
         \A o \in Ops : status[o] = "completed" => status'[o] = "completed"
  PROVE  /\ \A x : Says(x) /\ Sound(x)' => (\A i \in 1..Len(events) : Sound(events[i]))'
         /\ \A x, y : SaysBoth(x, y) /\ Sound(x)' /\ Sound(y)' =>
              (\A i \in 1..Len(events) : Sound(events[i]))'
<1>1. Len(events) \in Nat /\ \A i \in 1..Len(events) : Entry(events[i]) /\ Sound(events[i])
  BY DEF ContinuityTypes, OwnInv, Entries
<1>2. ASSUME NEW i \in 1..Len(events), events'[i] = events[i] PROVE Sound(events[i])'
  <2>1. events[i].op \in 0..MaxOps
    BY <1>1 DEF Entry
  <2> QED BY <1>1, <1>2, <2>1, ContinuityAssumption DEF Sound, Ops
<1>3. ASSUME NEW x, Says(x), Sound(x)' PROVE (\A i \in 1..Len(events) : Sound(events[i]))'
  <2>1. Queued(events, events', x)
    BY <1>3, SaidEffect
  <2>2. ASSUME NEW i \in 1..Len(events') PROVE Sound(events[i])'
    <3>1. CASE i =< Len(events)
      BY <1>1, <1>2, <2>1, <3>1 DEF Queued
    <3>2. CASE i = Len(events) + 1
      <4>1. x = events'[i]
        BY <2>1, <3>2 DEF Queued
      <4> QED BY <1>3, <4>1 DEF Sound
    <3> QED BY <1>1, <2>1, <3>1, <3>2 DEF Queued
  <2> QED BY <2>2
<1>4. ASSUME NEW x, NEW y, SaysBoth(x, y), Sound(x)', Sound(y)'
      PROVE  (\A i \in 1..Len(events) : Sound(events[i]))'
  <2>1. /\ Len(events') = Len(events) + 2
        /\ events'[Len(events) + 1] = x /\ events'[Len(events) + 2] = y
        /\ \A i \in 1..Len(events) : events'[i] = events[i]
    BY <1>4, SaidEffect
  <2>2. ASSUME NEW i \in 1..Len(events') PROVE Sound(events[i])'
    <3>1. CASE i =< Len(events)
      BY <1>1, <1>2, <2>1, <3>1
    <3>2. CASE i = Len(events) + 1
      <4>1. x = events'[i]
        BY <2>1, <3>2
      <4> QED BY <1>4, <4>1 DEF Sound
    <3>3. CASE i = Len(events) + 2
      <4>1. y = events'[i]
        BY <2>1, <3>3
      <4> QED BY <1>4, <4>1 DEF Sound
    <3> QED BY <1>1, <2>1, <3>1, <3>2, <3>3
  <2> QED BY <2>2
<1> QED BY <1>3, <1>4

LEMMA OwnStep ==
  ASSUME ContinuityTypes, OwnInv, view.latest.id =< cursor, [Next]_vars
  PROVE  OwnInv'
<1> DEFINE Q == (\A i \in 1..Len(events) : Sound(events[i]))'
           O == (\A o \in Ops : Owns(o))'
<1>0. /\ generation \in Nat \ {0} /\ live \in Nat /\ version \in Nat /\ observed \in Nat
      /\ ran \in [Ops -> Nat] /\ saved \in [Ops -> Nat] /\ status \in [Ops -> Statuses]
      /\ owner \in [Ops -> {"waiting", "flushing", "flushed", "saving", "none"}]
      /\ Len(events) \in Nat
      /\ \A i \in 1..Len(events) : Entry(events[i]) /\ Sound(events[i])
      /\ \A o \in Ops : Owns(o)
  BY DEF ContinuityTypes, OwnInv, Entries
<1>a. ASSUME \A o \in Ops : status[o] = "completed" => status'[o] = "completed"
      PROVE  /\ \A x : Says(x) /\ Sound(x)' => Q
             /\ \A x, y : SaysBoth(x, y) /\ Sound(x)' /\ Sound(y)' => Q
  BY <1>a, SoundSaid
<1>b. /\ \A o, state : Sound(State(o, state))'
      /\ \A o : Sound(RunEnded(o))'
      /\ \A c : Sound(Started(c))'
      /\ Sound(Failed)' /\ Sound(Continue(0))'
      /\ \A o : status'[o] = "completed" => Sound(Continue(o))'
      /\ \A c, v : v # 0 => Sound(Replaced(c, v))'
  BY DEF Sound, State, RunEnded, Started, Failed, Continue, Replaced, Event
<1>c. ASSUME UNCHANGED <<events, status>> PROVE Q
  BY <1>0, <1>c DEF Sound
<1>d. ASSUME UNCHANGED <<ran, status, generation, live, owner, saved, observed>> PROVE O
  BY <1>0, <1>d DEF Owns
<1>e. Q /\ O => OwnInv'
  BY DEF OwnInv
<1>f. UNCHANGED status => \A o \in Ops : status[o] = "completed" => status'[o] = "completed"
  OBVIOUS
<1>g. ASSUME NEW o \in Ops, NEW s \in Statuses \ {"completed"}, status' = [status EXCEPT ![o] = s],
             status[o] \notin Terminal, UNCHANGED <<ran, generation, live, owner, saved, observed>>
      PROVE  O
  <2>1. ASSUME NEW p \in Ops PROVE Owns(p)'
    <3>1. CASE p = o
      BY <1>0, <1>g, <3>1 DEF Owns, Terminal
    <3>2. CASE p # o
      BY <1>0, <1>g, <3>2 DEF Owns
    <3> QED BY <3>1, <3>2
  <2> QED BY <2>1
<1>h. {"active", "failed", "cancelled"} \subseteq Statuses \ {"completed"}
      /\ Waiting \intersect Terminal = {} /\ "active" \notin Terminal /\ "pending" \notin Terminal
  BY DEF Statuses, Terminal, Waiting
<1> HIDE DEF Q, O
<1>1. ASSUME NEW o \in Ops, Activate(o) \/ CancelQueued(o) PROVE OwnInv'
  <2>1. \A p \in Ops : status[p] = "completed" => status'[p] = "completed"
    BY <1>0, <1>1 DEF Activate, CancelQueued, Waiting
  <2>2. Q
    BY <1>1, <1>a, <1>b, <2>1, Sayings
  <2>3. PICK s \in Statuses \ {"completed"} : status' = [status EXCEPT ![o] = s]
    BY <1>1, <1>h DEF Activate, CancelQueued
  <2>4. status[o] \notin Terminal /\ UNCHANGED <<ran, generation, live, owner, saved, observed>>
    BY <1>1, <1>h DEF Activate, CancelQueued
  <2>5. O
    BY <1>g, <2>3, <2>4
  <2> QED BY <1>e, <2>2, <2>5
<1>2. ASSUME NEW o \in Ops, Break(o) PROVE OwnInv'
  <2>1. \A p \in Ops : status[p] = "completed" => status'[p] = "completed"
    BY <1>0, <1>2 DEF Break
  <2>2. Q
    BY <1>2, <1>a, <1>b, <2>1, Sayings
  <2>3. O
    BY <1>g, <1>h, <1>2 DEF Break
  <2> QED BY <1>e, <2>2, <2>3
<1>3. ASSUME NEW o \in Ops, Complete(o) PROVE OwnInv'
  <2>1. /\ status[o] = "active" /\ status' = [status EXCEPT ![o] = "completed"]
        /\ ran' = [ran EXCEPT ![o] = generation] /\ live' # 0
        /\ UNCHANGED <<generation, owner, saved, observed>>
    BY <1>0, <1>3 DEF Complete
  <2>2. Q
    <3>1. \A p \in Ops : status[p] = "completed" => status'[p] = "completed"
      BY <1>0, <2>1
    <3>2. Says(State(o, "completed"))
      BY <1>3, Sayings
    <3> QED BY <1>a, <1>b, <3>1, <3>2
  <2>3. ASSUME NEW p \in Ops PROVE Owns(p)'
    <3>1. CASE p = o
      BY <1>0, <2>1, <3>1 DEF Owns, Terminal
    <3>2. CASE p # o
      BY <1>0, <2>1, <3>2 DEF Owns
    <3> QED BY <3>1, <3>2
  <2> QED BY <1>e, <2>2, <2>3 DEF O
<1>4. ASSUME CompactionFails \/ Compact
             \/ \E o \in Ops, phase \in {"pre_turn", "mid_turn"} : CompactTurn(o, phase)
      PROVE  OwnInv'
  <2>1. UNCHANGED <<ran, status, generation, live, owner, saved, observed>>
    BY <1>4 DEF CompactionFails, Compact, CompactTurn
  <2>2. Q
    BY <1>4, <1>a, <1>b, <1>f, <2>1, Sayings
  <2> QED BY <1>d, <1>e, <2>1, <2>2
<1>5. CASE Install
  <2>1. version' # 0 /\ live' # 0 /\ UNCHANGED <<ran, status, generation, owner, saved, observed>>
    BY <1>0, <1>5 DEF Install
  <2>2. Q
    BY <1>5, <1>a, <1>b, <1>f, <2>1, Sayings
  <2>3. O
    BY <1>0, <2>1 DEF Owns, O
  <2> QED BY <1>e, <2>2, <2>3
<1>6. CASE Handle
  <2>1. PICK e : Handles(e)
    BY <1>6, HandleEffect
  <2>2. /\ e = events[1] /\ Entry(e) /\ Sound(e) /\ Len(events) >= 1 /\ Len(events') \in Nat
        /\ UNCHANGED <<ran, status, generation, live, saved>>
    BY <1>0, <2>1 DEF Handles
  <2>3. ASSUME Pops PROVE Q
    <3>1. ASSUME NEW i \in 1..Len(events') PROVE Sound(events[i])'
      <4>1. PICK k \in 1..Len(events) : events'[i] = events[k]
        BY <1>0, <2>2, <2>3 DEF Pops
      <4> QED BY <1>0, <2>2, <4>1 DEF Sound
    <3> QED BY <3>1 DEF Q
  <2>4. CASE Logs(e)
    <3>1. Q
      <4>1. CASE e.type = "replaced"
        <5>1. /\ Len(events') = Len(events) /\ events'[1] = Observation(e.value)
              /\ \A i \in 2..Len(events) : events'[i] = events[i]
          BY <2>2, <2>4, <4>1 DEF Logs, Swaps
        <5>2. events'[1].value # 0 /\ events'[1].type = "observe"
          BY <2>2, <4>1, <5>1 DEF Sound, Observation, Event
        <5>3. ASSUME NEW i \in 1..Len(events') PROVE Sound(events[i])'
          <6>1. CASE i = 1
            BY <5>2, <6>1 DEF Sound
          <6>2. CASE i # 1
            BY <1>0, <2>2, <5>1, <6>2 DEF Sound
          <6> QED BY <6>1, <6>2
        <5> QED BY <5>3 DEF Q
      <4>2. CASE e.type # "replaced"
        BY <2>3, <2>4, <4>2 DEF Logs
      <4> QED BY <4>1, <4>2
    <3> QED BY <1>d, <1>e, <2>2, <2>4, <3>1 DEF Logs
  <2>5. CASE Stores(e)
    <3>1. observed' # 0 /\ UNCHANGED owner
      BY <2>2, <2>5 DEF Stores, Sound
    <3>2. O
      BY <1>0, <2>2, <3>1 DEF O, Owns
    <3> QED BY <1>e, <2>3, <2>5, <3>2 DEF Stores
  <2>6. CASE Resumes(e)
    <3>1. /\ UNCHANGED observed
          /\ e.op = 0 => owner' = owner
          /\ e.op # 0 => owner' = [owner EXCEPT ![e.op] = "flushed"]
      BY <2>6 DEF Resumes
    <3>2. e.op # 0 => status[e.op] = "completed"
      BY <2>2, <2>6 DEF Resumes, Sound
    <3>3. O
      BY <1>0, <2>2, <3>1, <3>2 DEF O, Owns
    <3> QED BY <1>e, <2>3, <2>6, <3>3 DEF Resumes
  <2> QED BY <2>1, <2>4, <2>5, <2>6 DEF Handles
<1>7. ASSUME NEW o \in Ops, OwnResult(o) PROVE OwnInv'
  <2>1. /\ status[o] = "completed" /\ owner' = [owner EXCEPT ![o] = "flushing"]
        /\ UNCHANGED <<ran, status, generation, live, saved, observed>>
    BY <1>7 DEF OwnResult
  <2>2. Q
    BY <1>7, <1>a, <1>b, <1>f, <2>1, Sayings
  <2>3. O
    BY <1>0, <2>1 DEF O, Owns
  <2> QED BY <1>e, <2>2, <2>3
<1>8. ASSUME NEW o \in Ops, OwnObserves(o) PROVE OwnInv'
  <2>1. /\ owner[o] = "flushed" /\ owner' = [owner EXCEPT ![o] = "saving"]
        /\ observed' = (IF live > 0 THEN live ELSE observed)
        /\ UNCHANGED <<ran, status, generation, live, saved, events>>
    BY <1>8 DEF OwnObserves, Known
  <2>2. O
    BY <1>0, <2>1 DEF O, Owns
  <2> QED BY <1>c, <1>e, <2>1, <2>2
<1>9. ASSUME NEW o \in Ops, OwnSaves(o) PROVE OwnInv'
  <2>1. /\ saved' = [saved EXCEPT ![o] = generation] /\ owner' = [owner EXCEPT ![o] = "none"]
        /\ UNCHANGED <<ran, status, generation, live, observed, events>>
    BY <1>9 DEF OwnSaves
  <2>2. owner[o] = "saving" \/ status[o] \in {"failed", "cancelled"}
    BY <1>9 DEF OwnSaves
  <2>3. ASSUME NEW p \in Ops PROVE Owns(p)'
    <3>1. CASE p = o
      BY <1>0, <2>1, <2>2, <3>1 DEF Owns, Terminal
    <3>2. CASE p # o
      BY <1>0, <2>1, <3>2 DEF Owns
    <3> QED BY <3>1, <3>2
  <2> QED BY <1>c, <1>e, <2>1, <2>3 DEF O
<1>10. CASE CompactObserves
  <2>1. /\ observed' = (IF live > 0 THEN live ELSE observed)
        /\ UNCHANGED <<ran, status, generation, live, saved, events, owner>>
    BY <1>10 DEF CompactObserves, Known
  <2>2. O
    BY <1>0, <2>1 DEF O, Owns
  <2> QED BY <1>c, <1>e, <2>1, <2>2
<1>11. CASE CompactRejects \/ Fetch \/ Hide \/ UNCHANGED vars
  <2>1. UNCHANGED <<ran, status, generation, live, owner, saved, observed, events>>
    BY <1>11 DEF CompactRejects, Fetch, Hide, vars
  <2> QED BY <1>c, <1>d, <1>e, <2>1
<1>12. CASE Crash
  <2>1. /\ generation' = generation + 1 /\ UNCHANGED <<ran, saved, observed>> /\ Len(events') = 0
        /\ status' = [o \in Ops |-> IF status[o] = "active" THEN "interrupted" ELSE status[o]]
        /\ owner' = [o \in Ops |-> IF saved[o] = 0 THEN "waiting" ELSE "none"]
    BY <1>12 DEF Crash
  <2>2. Q
    BY <2>1 DEF Q
  <2>3. ASSUME NEW p \in Ops PROVE Owns(p)'
    BY <1>0, <2>1 DEF Owns, Terminal
  <2> QED BY <1>e, <2>2, <2>3 DEF O
<1> QED BY <1>1, <1>2, <1>3, <1>4, <1>5, <1>6, <1>7, <1>8, <1>9, <1>10, <1>11, <1>12 DEF Next, Own

-----------------------------------------------------------------------------
(* Who waits for the queue.                                                 *)
Resuming(e, o) == e.type = "continue" /\ e.op = o

\* The requested compaction is followed by one caller at most, and whoever
\* waits in the queue owns what it waits for.
ContinueInv ==
  /\ Begun /\ compacting.op = 0 => compactor = "running"
  /\ \A i \in 1..Len(events) : Resuming(events[i], 0) =>
       compactor = "flushing" /\ \A j \in 1..Len(events) : Resuming(events[j], 0) => j = i
  /\ \A i \in 1..Len(events), o \in Ops : Resuming(events[i], o) => owner[o] # "waiting"

\* The queue is the old one, and maybe more behind it.
Grown == /\ events' \in Seq(Entries) /\ Len(events') >= Len(events)
         /\ \A i \in 1..Len(events) : events'[i] = events[i]

LEMMA GrownSaid ==
  ASSUME ContinuityTypes
  PROVE  /\ UNCHANGED events => Grown /\ Len(events') = Len(events)
         /\ \A x : Says(x) => Grown /\ Len(events') = Len(events) + 1
                              /\ events'[Len(events) + 1] = x
         /\ \A x, y : SaysBoth(x, y) =>
              /\ Grown /\ Len(events') = Len(events) + 2
              /\ events'[Len(events) + 1] = x /\ events'[Len(events) + 2] = y
<1>1. events \in Seq(Entries) /\ Len(events) \in Nat
  BY DEF ContinuityTypes
<1>2. UNCHANGED events => Grown /\ Len(events') = Len(events)
  BY <1>1 DEF Grown
<1>3. \A x : Says(x) => Grown /\ Len(events') = Len(events) + 1 /\ events'[Len(events) + 1] = x
  BY <1>1, SaidEffect DEF Grown, Queued
<1>4. \A x, y : SaysBoth(x, y) =>
        /\ Grown /\ Len(events') = Len(events) + 2
        /\ events'[Len(events) + 1] = x /\ events'[Len(events) + 2] = y
  BY <1>1, SaidEffect DEF Grown
<1> QED BY <1>2, <1>3, <1>4

LEMMA ContinueGrown ==
  ASSUME ContinuityTypes, ContinueInv, Grown,
         \A o \in Ops : owner[o] # "waiting" => owner'[o] # "waiting",
         compactor = "flushing" => compactor' = "flushing",
         Begun' /\ compacting'.op = 0 => compactor' = "running",
         \A i \in 1..Len(events') : i > Len(events) /\ Resuming(events'[i], 0) =>
           /\ compactor # "flushing" /\ compactor' = "flushing"
           /\ \A j \in 1..Len(events') : j > Len(events) /\ Resuming(events'[j], 0) => j = i,
         \A i \in 1..Len(events'), o \in Ops :
           i > Len(events) /\ Resuming(events'[i], o) => owner'[o] # "waiting"
  PROVE  ContinueInv'
<1>1. Len(events) \in Nat /\ Len(events') \in Nat
  BY DEF ContinuityTypes, Grown
<1>2. ASSUME NEW i \in 1..Len(events'), Resuming(events'[i], 0)
      PROVE  compactor' = "flushing" /\ \A j \in 1..Len(events') : Resuming(events'[j], 0) => j = i
  <2>1. CASE i > Len(events)
    <3>1. ASSUME NEW j \in 1..Len(events'), Resuming(events'[j], 0) PROVE j > Len(events)
      BY <1>1, <1>2, <2>1, <3>1 DEF Grown, ContinueInv
    <3> QED BY <1>2, <2>1, <3>1
  <2>2. CASE i =< Len(events)
    <3>1. i \in 1..Len(events) /\ Resuming(events[i], 0) /\ compactor = "flushing"
      BY <1>1, <1>2, <2>2 DEF Grown, ContinueInv
    <3>2. ASSUME NEW j \in 1..Len(events'), Resuming(events'[j], 0) PROVE j = i
      <4>1. j \in 1..Len(events) /\ Resuming(events[j], 0)
        BY <1>1, <3>1, <3>2 DEF Grown
      <4> QED BY <3>1, <4>1 DEF ContinueInv
    <3> QED BY <3>1, <3>2
  <2> QED BY <1>1, <2>1, <2>2
<1>3. ASSUME NEW i \in 1..Len(events'), NEW o \in Ops, Resuming(events'[i], o)
      PROVE  owner'[o] # "waiting"
  <2>1. CASE i =< Len(events)
    BY <1>1, <1>3, <2>1 DEF Grown, ContinueInv
  <2> QED BY <1>1, <1>3, <2>1
<1> QED BY <1>2, <1>3 DEF ContinueInv, Resuming

LEMMA ContinueStep ==
  ASSUME ContinuityTypes, ContinueInv, view.latest.id =< cursor, [Next]_vars
  PROVE  ContinueInv'
<1>0. /\ Len(events) \in Nat /\ 0 \notin Ops
      /\ owner \in [Ops -> {"waiting", "flushing", "flushed", "saving", "none"}]
      /\ Begun /\ compacting.op = 0 => compactor = "running"
  BY DEF ContinuityTypes, ContinueInv, Ops
<1>a. ASSUME NEW x, Says(x), x.type # "continue", UNCHANGED <<owner, compactor>>,
             Begun' /\ compacting'.op = 0 => compactor' = "running"
      PROVE  ContinueInv'
  <2>1. /\ Grown /\ Len(events') = Len(events) + 1 /\ events'[Len(events) + 1] = x
    BY <1>a, GrownSaid
  <2>2. \A i \in 1..Len(events') : i > Len(events) => events'[i].type # "continue"
    BY <1>0, <1>a, <2>1
  <2> QED BY <1>a, <2>1, <2>2, ContinueGrown DEF Resuming
<1>b. ASSUME UNCHANGED events,
             \A o \in Ops : owner[o] # "waiting" => owner'[o] # "waiting",
             compactor = "flushing" => compactor' = "flushing",
             Begun' /\ compacting'.op = 0 => compactor' = "running"
      PROVE  ContinueInv'
  <2>1. Grown /\ Len(events') = Len(events)
    BY <1>b, GrownSaid
  <2>2. \A i \in 1..Len(events') : ~(i > Len(events))
    BY <1>0, <2>1
  <2> QED BY <1>b, <2>1, <2>2, ContinueGrown
<1>1. ASSUME NEW o \in Ops, Activate(o) \/ Complete(o) \/ CancelQueued(o)
      PROVE  ContinueInv'
  <2>1. \E x \in {State(o, "active"), State(o, "completed"), State(o, "cancelled")} : Says(x)
    BY <1>1, Sayings
  <2>2. PICK x : Says(x) /\ x.type # "continue"
    BY <2>1 DEF State, Event
  <2>3. UNCHANGED <<owner, compactor, compacting>>
    BY <1>1 DEF Activate, Complete, CancelQueued
  <2> QED BY <1>0, <1>a, <2>2, <2>3 DEF Begun
<1>2. ASSUME NEW o \in Ops, Break(o) PROVE ContinueInv'
  <2>1. /\ Grown /\ Len(events') = Len(events) + 2
        /\ events'[Len(events) + 1] = RunEnded(o) /\ events'[Len(events) + 2] = State(o, "failed")
    BY <1>2, Sayings, GrownSaid
  <2>2. \A i \in 1..Len(events') : i > Len(events) => events'[i].type # "continue"
    <3>1. RunEnded(o).type # "continue" /\ State(o, "failed").type # "continue"
      BY DEF State, RunEnded, Event
    <3>2. \A i \in 1..Len(events') : i > Len(events) => i = Len(events) + 1 \/ i = Len(events) + 2
      BY <1>0, <2>1
    <3> QED BY <2>1, <3>1, <3>2
  <2>3. ~Begun' /\ UNCHANGED <<owner, compactor>>
    BY <1>2 DEF Break, Begun
  <2> QED BY <2>1, <2>2, <2>3, ContinueGrown DEF Resuming
<1>3. ASSUME NEW o \in Ops, NEW phase \in {"pre_turn", "mid_turn"}, CompactTurn(o, phase)
      PROVE  ContinueInv'
  <2>1. Says(Started([op |-> o, phase |-> phase]))
    BY <1>3, Sayings
  <2>2. Started([op |-> o, phase |-> phase]).type # "continue"
    BY DEF Started, Event
  <2>3. compacting'.op # 0 /\ UNCHANGED <<owner, compactor>>
    BY <1>0, <1>3 DEF CompactTurn, Starts
  <2> QED BY <1>a, <2>1, <2>2, <2>3
<1>4. CASE Compact
  <2>1. Says(Started([op |-> 0, phase |-> "manual"]))
    BY <1>4, Sayings
  <2>2. Started([op |-> 0, phase |-> "manual"]).type # "continue"
    BY DEF Started, Event
  <2>3. compactor = "none" /\ compactor' = "running" /\ UNCHANGED owner
    BY <1>4 DEF Compact
  <2>4. /\ Grown /\ Len(events') = Len(events) + 1
        /\ events'[Len(events) + 1] = Started([op |-> 0, phase |-> "manual"])
    BY <2>1, GrownSaid
  <2>5. \A i \in 1..Len(events') : i > Len(events) => events'[i].type # "continue"
    BY <1>0, <2>2, <2>4
  <2> QED BY <2>3, <2>4, <2>5, ContinueGrown DEF Resuming
<1>5. CASE Install
  <2> DEFINE x == Replaced(compacting, version')
  <2>1. /\ Begun /\ ~Begun' /\ UNCHANGED owner
        /\ compactor' = IF compacting.op = 0 THEN "flushing" ELSE compactor
    BY <1>5 DEF Install, Begun
  <2>2. x.type # "continue" /\ Continue(0).op = 0
    BY DEF Replaced, Continue, Event
  <2>3. CASE compacting.op # 0
    BY <1>5, <1>a, <2>1, <2>2, <2>3, Sayings
  <2>4. CASE compacting.op = 0
    <3>1. /\ Grown /\ Len(events') = Len(events) + 2
          /\ events'[Len(events) + 1] = x /\ events'[Len(events) + 2] = Continue(0)
      BY <1>5, <2>4, Sayings, GrownSaid
    <3>2. \A i \in 1..Len(events') : i > Len(events) => i = Len(events) + 1 \/ i = Len(events) + 2
      BY <1>0, <3>1
    <3>3. \A i \in 1..Len(events') : i > Len(events) /\ events'[i].type = "continue" =>
            i = Len(events) + 2 /\ events'[i].op = 0
      BY <2>2, <3>1, <3>2
    <3>4. compactor = "running" /\ compactor' = "flushing"
      BY <1>0, <2>1, <2>4
    <3> HIDE DEF x
    <3> QED BY <1>0, <2>1, <3>1, <3>3, <3>4, ContinueGrown DEF Resuming
  <2> QED BY <2>3, <2>4
<1>6. CASE CompactionFails
  <2>1. /\ Begun /\ ~Begun' /\ UNCHANGED owner
        /\ compactor' = IF compacting.op = 0 THEN "failed" ELSE compactor
    BY <1>6 DEF CompactionFails, Begun
  <2>2. Grown /\ Len(events') = Len(events) + 1 /\ events'[Len(events) + 1] = Failed
    BY <1>6, Sayings, GrownSaid
  <2>3. \A i \in 1..Len(events') : i > Len(events) => events'[i].type # "continue"
    BY <1>0, <2>2 DEF Failed, Event
  <2>4. compactor = "flushing" => compactor' = "flushing"
    BY <1>0, <2>1
  <2> QED BY <2>1, <2>2, <2>3, <2>4, ContinueGrown DEF Resuming
<1>7. CASE Handle
  <2>1. PICK e : Handles(e)
    BY <1>7, HandleEffect
  <2>2. /\ e = events[1] /\ Entry(e) /\ Len(events) >= 1 /\ Len(events') \in Nat
        /\ UNCHANGED <<compacting>> /\ Begun' = Begun
    BY <2>1 DEF Handles, Begun
  <2>3. ASSUME Pops,
               \A o \in Ops : owner[o] # "waiting" => owner'[o] # "waiting",
               Begun /\ compacting.op = 0 => compactor' = "running",
               \A i \in 2..Len(events) : Resuming(events[i], 0) => compactor' = "flushing"
        PROVE  ContinueInv'
    <3>1. ASSUME NEW i \in 1..Len(events') PROVE i + 1 \in 2..Len(events) /\ events'[i] = events[i + 1]
      BY <1>0, <2>2, <2>3 DEF Pops
    <3>2. ASSUME NEW i \in 1..Len(events'), Resuming(events'[i], 0)
          PROVE  compactor' = "flushing" /\ \A j \in 1..Len(events') : Resuming(events'[j], 0) => j = i
      <4>1. compactor' = "flushing"
        BY <2>3, <3>1, <3>2
      <4>2. ASSUME NEW j \in 1..Len(events'), Resuming(events'[j], 0) PROVE j = i
        <5>1. /\ i + 1 \in 1..Len(events) /\ j + 1 \in 1..Len(events)
              /\ Resuming(events[i + 1], 0) /\ Resuming(events[j + 1], 0)
          BY <3>1, <3>2, <4>2
        <5>2. i + 1 = j + 1
          BY <5>1 DEF ContinueInv
        <5> QED BY <5>2
      <4> QED BY <4>1, <4>2
    <3>3. ASSUME NEW i \in 1..Len(events'), NEW o \in Ops, Resuming(events'[i], o)
          PROVE  owner'[o] # "waiting"
      <4>1. i + 1 \in 1..Len(events) /\ Resuming(events[i + 1], o)
        BY <3>1, <3>3
      <4> QED BY <2>3, <4>1 DEF ContinueInv
    <3> QED BY <2>2, <2>3, <3>2, <3>3 DEF ContinueInv, Resuming
  <2>4. ASSUME UNCHANGED compactor
        PROVE  /\ Begun /\ compacting.op = 0 => compactor' = "running"
               /\ \A i \in 2..Len(events) : Resuming(events[i], 0) => compactor' = "flushing"
    BY <1>0, <2>4 DEF ContinueInv
  <2>5. CASE Logs(e)
    <3>1. UNCHANGED <<owner, compactor>>
      BY <2>5 DEF Logs
    <3>2. CASE e.type # "replaced"
      BY <2>3, <2>4, <2>5, <3>1, <3>2 DEF Logs
    <3>3. CASE e.type = "replaced"
      <4>1. Swaps
        BY <2>5, <3>3 DEF Logs
      <4>2. ASSUME NEW i \in 1..Len(events'), NEW o, Resuming(events'[i], o)
            PROVE  i \in 1..Len(events) /\ Resuming(events[i], o)
        BY <1>0, <4>1, <4>2 DEF Swaps, Resuming, Observation, Event
      <4>3. ASSUME NEW i \in 1..Len(events'), Resuming(events'[i], 0)
            PROVE  compactor' = "flushing" /\ \A j \in 1..Len(events') : Resuming(events'[j], 0) => j = i
        BY <3>1, <4>2, <4>3 DEF ContinueInv
      <4>4. ASSUME NEW i \in 1..Len(events'), NEW o \in Ops, Resuming(events'[i], o)
            PROVE  owner'[o] # "waiting"
        BY <3>1, <4>2, <4>4 DEF ContinueInv
      <4> QED BY <1>0, <2>2, <3>1, <4>3, <4>4 DEF ContinueInv, Resuming
    <3> QED BY <3>2, <3>3
  <2>6. CASE Stores(e)
    BY <2>3, <2>4, <2>6 DEF Stores
  <2>7. CASE Resumes(e)
    <3>1. CASE e.op = 0
      <4>1. Pops /\ UNCHANGED owner
        BY <2>7, <3>1 DEF Resumes
      <4>2. /\ compactor = "flushing"
            /\ \A j \in 1..Len(events) : Resuming(events[j], 0) => j = 1
        BY <1>0, <2>2, <2>7, <3>1 DEF Resumes, ContinueInv, Resuming
      <4> QED BY <1>0, <2>2, <2>3, <4>1, <4>2
    <3>2. CASE e.op # 0
      <4>1. Pops /\ UNCHANGED compactor /\ owner' = [owner EXCEPT ![e.op] = "flushed"]
        BY <2>7, <3>2 DEF Resumes
      <4>2. \A o \in Ops : owner[o] # "waiting" => owner'[o] # "waiting"
        BY <1>0, <4>1
      <4> QED BY <2>3, <2>4, <4>1, <4>2
    <3> QED BY <3>1, <3>2
  <2> QED BY <2>1, <2>5, <2>6, <2>7 DEF Handles
<1>8. ASSUME NEW o \in Ops, OwnResult(o) PROVE ContinueInv'
  <2>1. Grown /\ Len(events') = Len(events) + 1 /\ events'[Len(events) + 1] = Continue(o)
    BY <1>8, Sayings, GrownSaid
  <2>2. /\ owner' = [owner EXCEPT ![o] = "flushing"] /\ UNCHANGED <<compactor, compacting>>
    BY <1>8 DEF OwnResult
  <2>3. \A i \in 1..Len(events') : i > Len(events) => events'[i].op = o
    BY <1>0, <2>1 DEF Continue, Event
  <2> QED BY <1>0, <2>1, <2>2, <2>3, ContinueGrown DEF Resuming, Begun
<1>9. ASSUME NEW o \in Ops, OwnObserves(o) \/ OwnSaves(o) PROVE ContinueInv'
  <2>1. /\ UNCHANGED <<events, compactor, compacting>>
        /\ \E s \in {"saving", "none"} : owner' = [owner EXCEPT ![o] = s]
    BY <1>9 DEF OwnObserves, OwnSaves
  <2> QED BY <1>0, <1>b, <2>1 DEF Begun
<1>10. CASE CompactObserves \/ CompactRejects
  <2>1. UNCHANGED <<events, owner, compacting>> /\ compactor \notin {"flushing", "running"}
    BY <1>10 DEF CompactObserves, CompactRejects
  <2> QED BY <1>0, <1>b, <2>1 DEF Begun
<1>11. CASE Fetch \/ Hide \/ UNCHANGED vars
  <2>1. UNCHANGED <<events, owner, compactor, compacting>>
    BY <1>11 DEF Fetch, Hide, vars
  <2> QED BY <1>0, <1>b, <2>1 DEF Begun
<1>12. CASE Crash
  <2>1. Len(events') = 0 /\ ~Begun'
    BY <1>12 DEF Crash, Begun
  <2> QED BY <2>1 DEF ContinueInv
<1> QED BY <1>1, <1>2, <1>3, <1>4, <1>5, <1>6, <1>7, <1>8, <1>9, <1>10, <1>11, <1>12 DEF Next, Own

-----------------------------------------------------------------------------
(* The stored size.                                                         *)
Sizes == {"replaced", "observe"}
\* A notification behind the i-th that brings a size or somebody who reads one.
SizeAfter(i) ==
  \E j \in 1..Len(events) : j > i /\ events[j].type \in Sizes \union {"continue"}
Calm == observed = live \/ compactor = "flushed" \/ \E o \in Ops : owner[o] = "flushed"
\* A completed message has not been taken up by its owner.
Waits == \E o \in Ops : owner[o] = "waiting" /\ status[o] = "completed"

(* The stored size is the live one, or somebody who will store it is still  *)
(* to come; the last of the queued sizes is the live one under the same     *)
(* condition.                                                               *)
SizeInv ==
  live # 0 =>
    /\ Calm \/ Waits \/ SizeAfter(0)
    /\ \A i \in 1..Len(events) : events[i].type \in Sizes =>
         events[i].value = live \/ Waits \/ SizeAfter(i)

LEMMA SizeGrown ==
  ASSUME ContinuityTypes, SizeInv, Grown,
         \A i \in 1..Len(events') : i > Len(events) /\ events'[i].type \in Sizes =>
           events'[i].value = live',
         live' # 0 =>
           \/ \E j \in 1..Len(events') : j > Len(events) /\ events'[j].type \in Sizes \union {"continue"}
           \/ Waits'
           \/ live' = live /\ (Waits => Waits') /\ (Calm => Calm')
  PROVE  SizeInv'
<1>1. Len(events) \in Nat /\ Len(events') \in Nat /\ Len(events') >= Len(events)
  BY DEF ContinuityTypes, Grown
<1>2. CASE \E j \in 1..Len(events') : j > Len(events) /\ events'[j].type \in Sizes \union {"continue"}
  <2>1. ASSUME NEW i \in 0..Len(events) PROVE SizeAfter(i)'
    BY <1>1, <1>2 DEF SizeAfter
  <2>2. ASSUME NEW i \in 1..Len(events'), events'[i].type \in Sizes
        PROVE  events'[i].value = live' \/ SizeAfter(i)'
    <3>1. CASE i > Len(events)
      BY <2>2, <3>1
    <3>2. CASE i =< Len(events)
      BY <1>1, <2>1, <3>2
    <3> QED BY <1>1, <3>1, <3>2
  <2> QED BY <1>1, <2>1, <2>2 DEF SizeInv
<1>3. CASE Waits'
  BY <1>3 DEF SizeInv
<1>4. CASE live' # 0 /\ live' = live /\ (Waits => Waits') /\ (Calm => Calm')
  <2>1. ASSUME NEW i \in 0..Len(events), SizeAfter(i) PROVE SizeAfter(i)'
    BY <1>1, <2>1 DEF SizeAfter, Grown
  <2>2. ASSUME NEW i \in 1..Len(events'), events'[i].type \in Sizes
        PROVE  events'[i].value = live' \/ Waits' \/ SizeAfter(i)'
    <3>1. CASE i > Len(events)
      BY <2>2, <3>1
    <3>2. CASE i =< Len(events)
      <4>1. i \in 1..Len(events) /\ events'[i] = events[i]
        BY <1>1, <3>2 DEF Grown
      <4> QED BY <1>4, <2>1, <2>2, <4>1 DEF SizeInv
    <3> QED BY <1>1, <3>1, <3>2
  <2> QED BY <1>1, <1>4, <2>1, <2>2 DEF SizeInv
<1>5. CASE live' = 0
  BY <1>5 DEF SizeInv
<1> QED BY <1>2, <1>3, <1>4, <1>5

LEMMA SizeStep ==
  ASSUME ContinuityTypes, SizeInv, ContinueInv, OwnInv, view.latest.id =< cursor, [Next]_vars
  PROVE  SizeInv'
<1>0. /\ Len(events) \in Nat /\ version \in Nat /\ live \in Nat
      /\ status \in [Ops -> Statuses] /\ 0 \notin Ops
      /\ owner \in [Ops -> {"waiting", "flushing", "flushed", "saving", "none"}]
      /\ Begun /\ compacting.op = 0 => compactor = "running"
  BY DEF ContinuityTypes, ContinueInv, Ops
<1>a. ASSUME NEW x, Says(x), x.type \notin Sizes, live' = live, Waits => Waits', Calm => Calm'
      PROVE  SizeInv'
  <2>1. /\ Grown /\ Len(events') = Len(events) + 1 /\ events'[Len(events) + 1] = x
    BY <1>a, GrownSaid
  <2>2. \A i \in 1..Len(events') : i > Len(events) => events'[i].type \notin Sizes
    BY <1>0, <1>a, <2>1
  <2> QED BY <1>a, <2>1, <2>2, SizeGrown
<1>b. ASSUME UNCHANGED <<events, live>>, Waits => Waits', Calm => Calm'
      PROVE  SizeInv'
  <2>1. Grown /\ Len(events') = Len(events)
    BY <1>b, GrownSaid
  <2>2. \A i \in 1..Len(events') : ~(i > Len(events))
    BY <1>0, <2>1
  <2> QED BY <1>b, <2>1, <2>2, SizeGrown
<1>c. /\ \A o, state : State(o, state).type \notin Sizes
      /\ \A o : RunEnded(o).type \notin Sizes /\ Continue(o).type = "continue"
      /\ \A c : Started(c).type \notin Sizes
      /\ Failed.type \notin Sizes /\ "continue" \notin Sizes
      /\ \A c, v : Replaced(c, v).type \in Sizes /\ Replaced(c, v).value = v
  BY DEF State, RunEnded, Continue, Started, Failed, Replaced, Event, Sizes
<1>d. UNCHANGED <<owner, compactor, observed, live>> => (Calm => Calm')
  BY DEF Calm
<1>e. UNCHANGED owner /\ (\A o \in Ops : status[o] = "completed" => status'[o] = "completed")
        => (Waits => Waits')
  BY DEF Waits
<1>1. ASSUME NEW o \in Ops, Activate(o) \/ CancelQueued(o)
      PROVE  SizeInv'
  <2>1. \E x \in {State(o, "active"), State(o, "cancelled")} : Says(x)
    BY <1>1, Sayings
  <2>2. PICK x : Says(x) /\ x.type \notin Sizes
    BY <1>c, <2>1
  <2>3. UNCHANGED <<owner, compactor, observed, live>>
    BY <1>1 DEF Activate, CancelQueued
  <2>4. \A p \in Ops : status[p] = "completed" => status'[p] = "completed"
    BY <1>0, <1>1 DEF Activate, CancelQueued, Waiting
  <2> QED BY <1>a, <1>d, <1>e, <2>2, <2>3, <2>4
<1>2. ASSUME NEW o \in Ops, Break(o) PROVE SizeInv'
  <2>1. /\ Grown /\ Len(events') = Len(events) + 2
        /\ events'[Len(events) + 1] = RunEnded(o) /\ events'[Len(events) + 2] = State(o, "failed")
    BY <1>2, Sayings, GrownSaid
  <2>2. \A i \in 1..Len(events') : i > Len(events) => events'[i].type \notin Sizes
    <3>1. \A i \in 1..Len(events') : i > Len(events) => i = Len(events) + 1 \/ i = Len(events) + 2
      BY <1>0, <2>1
    <3> QED BY <1>c, <2>1, <3>1
  <2>3. UNCHANGED <<owner, compactor, observed, live>>
    BY <1>2 DEF Break
  <2>4. \A p \in Ops : status[p] = "completed" => status'[p] = "completed"
    BY <1>0, <1>2 DEF Break
  <2> QED BY <1>d, <1>e, <2>1, <2>2, <2>3, <2>4, SizeGrown
<1>3. ASSUME NEW o \in Ops, Complete(o) PROVE SizeInv'
  <2>1. Grown /\ Len(events') = Len(events) + 1 /\ events'[Len(events) + 1] = State(o, "completed")
    BY <1>3, Sayings, GrownSaid
  <2>2. \A i \in 1..Len(events') : i > Len(events) => events'[i].type \notin Sizes
    BY <1>0, <1>c, <2>1
  <2>3. owner[o] = "waiting"
    BY <1>0, <1>3 DEF Complete, OwnInv, Owns, Terminal
  <2>4. Waits'
    BY <1>0, <1>3, <2>3 DEF Complete, Waits
  <2> QED BY <2>1, <2>2, <2>4, SizeGrown
<1>4. ASSUME NEW o \in Ops, NEW phase \in {"pre_turn", "mid_turn"}, CompactTurn(o, phase)
      PROVE  SizeInv'
  <2>1. UNCHANGED <<owner, compactor, observed, live, status>>
    BY <1>4 DEF CompactTurn
  <2> QED BY <1>4, <1>a, <1>c, <1>d, <1>e, <2>1, Sayings
<1>5. CASE Compact
  <2>1. UNCHANGED <<owner, observed, live, status>> /\ compactor = "none"
    BY <1>5 DEF Compact
  <2>2. Calm => Calm'
    BY <2>1 DEF Calm
  <2> QED BY <1>5, <1>a, <1>c, <1>e, <2>1, <2>2, Sayings
<1>6. CASE Install
  <2>1. PICK x : x = Replaced(compacting, version')
    OBVIOUS
  <2>2. /\ Grown /\ Len(events') > Len(events) /\ events'[Len(events) + 1] = x
        /\ \A i \in 1..Len(events') : i > Len(events) =>
             i = Len(events) + 1 \/ events'[i] = Continue(0)
    <3>1. CASE compacting.op = 0
      <4>1. /\ Grown /\ Len(events') = Len(events) + 2
            /\ events'[Len(events) + 1] = x /\ events'[Len(events) + 2] = Continue(0)
        BY <1>6, <2>1, <3>1, Sayings, GrownSaid
      <4>2. \A i \in 1..Len(events') : i > Len(events) => i = Len(events) + 1 \/ i = Len(events) + 2
        BY <1>0, <4>1
      <4> QED BY <1>0, <4>1, <4>2
    <3>2. CASE compacting.op # 0
      BY <1>0, <1>6, <2>1, <3>2, Sayings, GrownSaid
    <3> QED BY <3>1, <3>2
  <2>3. live' = version'
    BY <1>6 DEF Install
  <2>4. x.type \in Sizes /\ x.value = live'
    <3>1. PICK v : v = version'
      OBVIOUS
    <3> QED BY <1>c, <2>1, <2>3, <3>1
  <2>5. Continue(0).type \notin Sizes
    BY <1>c
  <2>6. Len(events) + 1 \in 1..Len(events')
    BY <1>0, <2>2 DEF Grown
  <2> QED BY <1>0, <2>2, <2>4, <2>5, <2>6, SizeGrown
<1>7. CASE CompactionFails
  <2>1. /\ UNCHANGED <<owner, observed, live, status>> /\ Begun
        /\ compactor' = IF compacting.op = 0 THEN "failed" ELSE compactor
    BY <1>7 DEF CompactionFails
  <2>2. Calm => Calm'
    BY <1>0, <2>1 DEF Calm
  <2> QED BY <1>7, <1>a, <1>c, <1>e, <2>1, <2>2, Sayings
<1>8. ASSUME NEW o \in Ops, OwnResult(o) PROVE SizeInv'
  <2>1. Grown /\ Len(events') = Len(events) + 1 /\ events'[Len(events) + 1] = Continue(o)
    BY <1>8, Sayings, GrownSaid
  <2>2. \A i \in 1..Len(events') : i > Len(events) => events'[i].type \notin Sizes
    BY <1>0, <1>c, <2>1
  <2>3. \E j \in 1..Len(events') : j > Len(events) /\ events'[j].type \in Sizes \union {"continue"}
    BY <1>0, <1>c, <2>1
  <2> QED BY <2>1, <2>2, <2>3, SizeGrown
<1>9. ASSUME (\E o \in Ops : OwnObserves(o)) \/ CompactObserves PROVE SizeInv'
  <2>1. CASE live = 0
    BY <1>9, <2>1 DEF OwnObserves, CompactObserves, SizeInv
  <2>2. CASE live # 0
    <3>1. /\ UNCHANGED <<events, live, status>> /\ observed' = live
          /\ owner' = owner \/ \E o \in Ops : owner[o] = "flushed" /\ owner' = [owner EXCEPT ![o] = "saving"]
      BY <1>0, <1>9, <2>2 DEF OwnObserves, CompactObserves, Known
    <3>2. Calm' /\ (Waits => Waits')
      BY <1>0, <3>1 DEF Calm, Waits
    <3> QED BY <1>b, <3>1, <3>2
  <2> QED BY <2>1, <2>2
<1>10. ASSUME NEW o \in Ops, OwnSaves(o) PROVE SizeInv'
  <2>1. /\ UNCHANGED <<events, live, status, observed, compactor>>
        /\ owner' = [owner EXCEPT ![o] = "none"]
        /\ owner[o] # "flushed" /\ ~(owner[o] = "waiting" /\ status[o] = "completed")
    BY <1>10 DEF OwnSaves
  <2>2. (Waits => Waits') /\ (Calm => Calm')
    BY <1>0, <2>1 DEF Waits, Calm
  <2> QED BY <1>b, <2>1, <2>2
<1>11. CASE CompactRejects \/ Fetch \/ Hide \/ UNCHANGED vars
  <2>1. UNCHANGED <<events, live, status, observed, owner>>
        /\ (compactor = "flushed" => compactor' = "flushed")
    BY <1>11 DEF CompactRejects, Fetch, Hide, vars
  <2>2. (Waits => Waits') /\ (Calm => Calm')
    BY <2>1 DEF Waits, Calm
  <2> QED BY <1>b, <2>1, <2>2
<1>12. CASE Crash
  <2>1. live' = 0
    BY <1>12 DEF Crash
  <2> QED BY <2>1 DEF SizeInv
<1>13. CASE Handle
  <2>1. PICK e : Handles(e)
    BY <1>13, HandleEffect
  <2>2. /\ e = events[1] /\ Entry(e) /\ Len(events) >= 1 /\ Len(events') \in Nat
        /\ UNCHANGED <<live, status>>
    BY <2>1 DEF Handles
  <2>3. ASSUME Pops, NEW i \in 1..Len(events), SizeAfter(i) PROVE SizeAfter(i - 1)'
    <3>1. PICK j \in 1..Len(events) : j > i /\ events[j].type \in Sizes \union {"continue"}
      BY <2>3 DEF SizeAfter
    <3>2. PICK k \in 1..Len(events') : k = j - 1 /\ events'[k] = events[j]
      BY <1>0, <2>2, <2>3, <3>1 DEF Pops
    <3> QED BY <1>0, <3>1, <3>2 DEF SizeAfter
  <2>4. ASSUME Pops, Waits => Waits', live # 0 => Calm' \/ Waits' \/ SizeAfter(1) PROVE SizeInv'
    <3>1. ASSUME NEW i \in 1..Len(events'), events'[i].type \in Sizes, live # 0
          PROVE  events'[i].value = live \/ Waits' \/ SizeAfter(i)'
      <4>1. PICK k \in 1..Len(events) : k = i + 1 /\ k - 1 = i /\ events'[i] = events[k]
        BY <1>0, <2>2, <2>4 DEF Pops
      <4>2. events[k].value = live \/ Waits \/ SizeAfter(k)
        BY <3>1, <4>1 DEF SizeInv
      <4>3. SizeAfter(k) => SizeAfter(i)'
        BY <2>3, <2>4, <4>1
      <4> QED BY <2>4, <4>1, <4>2, <4>3
    <3>2. SizeAfter(1) => SizeAfter(0)'
      BY <2>2, <2>3, <2>4
    <3> QED BY <2>2, <2>4, <3>1, <3>2 DEF SizeInv
  <2>5. CASE Logs(e)
    <3>1. UNCHANGED <<owner, compactor, observed>>
      BY <2>5 DEF Logs
    <3>2. (Waits => Waits') /\ (Calm => Calm')
      BY <1>d, <1>e, <2>2, <3>1
    <3>3. CASE e.type # "replaced"
      <4>1. SizeAfter(0) => SizeAfter(1)
        BY <1>0, <2>2, <2>5, <3>3 DEF SizeAfter, Logs, Sizes
      <4> QED BY <2>4, <2>5, <3>2, <3>3, <4>1 DEF Logs, SizeInv
    <3>4. CASE e.type = "replaced"
      <4>1. /\ Len(events') = Len(events) /\ events'[1] = Observation(e.value)
            /\ \A i \in 2..Len(events) : events'[i] = events[i]
        BY <2>2, <2>5, <3>4 DEF Logs, Swaps
      <4>2. /\ events'[1].type \in Sizes /\ events'[1].value = events[1].value
            /\ events[1].type \in Sizes
        BY <2>2, <3>4, <4>1 DEF Observation, Event, Sizes
      <4>3. ASSUME NEW i \in 0..Len(events), SizeAfter(i) PROVE SizeAfter(i)'
        BY <1>0, <4>1, <4>2, <4>3 DEF SizeAfter
      <4>4. ASSUME NEW i \in 1..Len(events'), events'[i].type \in Sizes, live # 0
            PROVE  events'[i].value = live \/ Waits' \/ SizeAfter(i)'
        <5>1. events'[i].value = events[i].value /\ events[i].type \in Sizes /\ i \in 1..Len(events)
          BY <1>0, <4>1, <4>2, <4>4
        <5> QED BY <3>2, <4>3, <4>4, <5>1 DEF SizeInv
      <4> QED BY <1>0, <2>2, <3>2, <4>3, <4>4 DEF SizeInv
    <3> QED BY <3>3, <3>4
  <2>6. CASE Stores(e)
    <3>1. Pops /\ UNCHANGED <<owner, compactor>> /\ observed' = events[1].value
          /\ events[1].type \in Sizes
      BY <2>2, <2>6 DEF Stores, Sizes
    <3>2. Waits => Waits'
      BY <1>e, <2>2, <3>1
    <3>3. live # 0 => events[1].value = live \/ Waits \/ SizeAfter(1)
      BY <1>0, <2>2, <3>1 DEF SizeInv
    <3>4. events[1].value = live => Calm'
      BY <2>2, <3>1 DEF Calm
    <3> QED BY <2>4, <3>1, <3>2, <3>3, <3>4
  <2>7. CASE Resumes(e)
    <3>1. Pops /\ e.type = "continue"
      BY <2>7 DEF Resumes
    <3>2. CASE e.op = 0
      <4>1. compactor' = "flushed" /\ UNCHANGED owner
        BY <2>7, <3>2 DEF Resumes
      <4>2. Calm' /\ (Waits => Waits')
        BY <1>e, <2>2, <4>1 DEF Calm
      <4> QED BY <2>4, <3>1, <4>2
    <3>3. CASE e.op # 0
      <4>1. e.op \in Ops /\ owner' = [owner EXCEPT ![e.op] = "flushed"]
        BY <2>2, <2>7, <3>3, ContinuityAssumption DEF Resumes, Entry, Ops
      <4>2. owner[e.op] # "waiting"
        BY <1>0, <2>2, <3>1, <4>1 DEF ContinueInv, Resuming
      <4>3. Calm' /\ (Waits => Waits')
        BY <1>0, <2>2, <4>1, <4>2 DEF Calm, Waits
      <4> QED BY <2>4, <3>1, <4>3
    <3> QED BY <3>2, <3>3
  <2> QED BY <2>1, <2>5, <2>6, <2>7 DEF Handles
<1> QED BY <1>1, <1>2, <1>3, <1>4, <1>5, <1>6, <1>7, <1>8, <1>9, <1>10, <1>11, <1>12, <1>13 DEF Next, Own

-----------------------------------------------------------------------------
(* What the table will say once the queue is handled.                       *)
\* a and c: the active operation and the last dialogue after each notification.
Folded(q, a, c) ==
  /\ a \in [0..Len(q) -> 0..MaxOps] /\ c \in [0..Len(q) -> 0..MaxOps]
  /\ \A k \in 1..Len(q) : /\ a[k] = NextActive(a[k - 1], q[k])
                          /\ c[k] = NextCompleted(a[k - 1], c[k - 1], q[k])

\* The engine installed v at the place w, unless a crash took that turn's end away.
Stands(v, w) ==
  \E n \in DOMAIN installed :
    installed[n].value = v /\ (installed[n].at = w \/ installed[n].at.anchor \in lost)
Place(A, C, e) ==
  [anchor |-> IF A # 0 THEN A ELSE C,
   position |-> IF A = 0 THEN "after" ELSE IF e.phase = "mid_turn" THEN "after-user" ELSE "before"]

\* A notification finds the projection where the engine was when it spoke.
Fits(A, C, e) ==
  /\ e.type = "replaced" => Stands(e.value, Place(A, C, e))
  /\ e.type = "execution.state" /\ e.status \in {"completed", "failed"} => A = e.op
  /\ e.type = "execution.state" /\ e.status = "cancelled" => A # e.op

Replay(a, c) ==
  /\ Folded(events, a, c) /\ a[0] = view.active /\ c[0] = view.completed
  /\ \A k \in 1..Len(events) : Fits(a[k - 1], c[k - 1], events[k])
  /\ \A k \in 0..Len(events) : a[k] # 0 => status[a[k]] # "pending"

Stuck == {"active", "interrupted"}
\* The table's last word is the engine's own.
Settled(A, C) ==
  /\ \A o \in Ops : status[o] = "active" => A = o
  /\ A # 0 => status[A] \in Stuck \/ lastRun \in lost
  /\ A = 0 => C = lastRun \/ lastRun \in lost

ReplayInv == \E a, c : Replay(a, c) /\ Settled(a[Len(events)], c[Len(events)])

LEMMA NextTypes ==
  ASSUME NEW A \in 0..MaxOps, NEW C \in 0..MaxOps, NEW e, Entry(e)
  PROVE  NextActive(A, e) \in 0..MaxOps /\ NextCompleted(A, C, e) \in 0..MaxOps
<1>1. e.op \in 0..MaxOps /\ 0 \in 0..MaxOps
  BY ContinuityAssumption DEF Entry
<1> QED BY <1>1 DEF NextActive, NextCompleted

LEMMA FoldedAppend ==
  ASSUME NEW q \in Seq(Entries), NEW a, NEW c, Folded(q, a, c), NEW x \in Entries
  PROVE  \E b, d : /\ Folded(Append(q, x), b, d)
                   /\ \A k \in 0..Len(q) : b[k] = a[k] /\ d[k] = c[k]
                   /\ b[Len(q) + 1] = NextActive(a[Len(q)], x)
                   /\ d[Len(q) + 1] = NextCompleted(a[Len(q)], c[Len(q)], x)
<1> DEFINE n == Len(q)
           r == Append(q, x)
           A == NextActive(a[n], x)
           C == NextCompleted(a[n], c[n], x)
           b == [k \in 0..(n + 1) |-> IF k =< n THEN a[k] ELSE A]
           d == [k \in 0..(n + 1) |-> IF k =< n THEN c[k] ELSE C]
<1>1. n \in Nat /\ Len(r) = n + 1 /\ r[n + 1] = x /\ \A i \in 1..n : r[i] = q[i]
  BY Said DEF Queued
<1>2. /\ a \in [0..n -> 0..MaxOps] /\ c \in [0..n -> 0..MaxOps]
      /\ \A k \in 1..n : a[k] = NextActive(a[k - 1], q[k])
                         /\ c[k] = NextCompleted(a[k - 1], c[k - 1], q[k])
  BY DEF Folded
<1>3. A \in 0..MaxOps /\ C \in 0..MaxOps
  <2> HIDE DEF n
  <2>1. Entry(x)
    BY DEF Entries
  <2>2. a[n] \in 0..MaxOps /\ c[n] \in 0..MaxOps
    BY <1>1, <1>2
  <2> QED BY <2>1, <2>2, NextTypes
<1> HIDE DEF n, r, A, C
<1>4. b \in [0..(n + 1) -> 0..MaxOps] /\ d \in [0..(n + 1) -> 0..MaxOps]
  BY <1>1, <1>2, <1>3
<1>5. /\ \A k \in 0..n : b[k] = a[k] /\ d[k] = c[k]
      /\ b[n + 1] = A /\ d[n + 1] = C
  BY <1>1
<1> HIDE DEF b, d
<1>6. ASSUME NEW k \in 1..(n + 1)
      PROVE  b[k] = NextActive(b[k - 1], r[k]) /\ d[k] = NextCompleted(b[k - 1], d[k - 1], r[k])
  <2>1. k - 1 \in 0..n
    BY <1>1
  <2>2. CASE k = n + 1
    <3>1. k - 1 = n
      BY <1>1, <2>2
    <3> QED BY <1>1, <1>5, <2>1, <2>2, <3>1 DEF A, C
  <2>3. CASE k # n + 1
    <3>1. k \in 1..n /\ k \in 0..n
      BY <1>1, <2>3
    <3> QED BY <1>1, <1>2, <1>5, <2>1, <3>1
  <2> QED BY <2>2, <2>3
<1>7. Folded(r, b, d)
  BY <1>1, <1>4, <1>6 DEF Folded
<1> QED BY <1>5, <1>7 DEF n, r, A, C

LEMMA StandsKept ==
  ASSUME ContinuityTypes, [Next]_vars
  PROVE  \A v, w : Stands(v, w) => Stands(v, w)'
<1>1. /\ lost \subseteq lost'
      /\ \A n \in DOMAIN installed : n \in DOMAIN installed' /\ installed'[n] = installed[n]
  <2>1. CASE Install
    <3>1. PICK x : x = [value |-> version', at |-> Where(compacting)]
      OBVIOUS
    <3>2. installed' = Append(installed, x) /\ lost' = lost
      BY <2>1, <3>1 DEF Install
    <3>3. installed \in Seq([value : Nat, at : Places])
      BY DEF ContinuityTypes
    <3>4. x \in [value : Nat, at : Places]
      <4>1. version' \in Nat
        BY <2>1 DEF Install, ContinuityTypes
      <4>2. Where(compacting) \in Places
        BY DEF Where, ContinuityTypes, Places
      <4> QED BY <3>1, <4>1, <4>2
    <3>5. installed' \in Seq([value : Nat, at : Places]) /\ Queued(installed, installed', x)
      BY <3>2, <3>3, <3>4, Said
    <3>6. DOMAIN installed = 1..Len(installed) /\ DOMAIN installed' = 1..Len(installed')
      BY <3>3, <3>5
    <3> QED BY <3>2, <3>3, <3>5, <3>6 DEF Queued
  <2>2. CASE ~Install
    <3>1. installed' = installed /\ (lost' = lost \/ Crash)
      BY <2>2 DEF Next, vars, Activate, Complete, Break, CancelQueued, Own, OwnResult, OwnObserves,
                  OwnSaves, CompactTurn, CompactionFails, Handle, Compact, CompactObserves,
                  CompactRejects, Fetch, Hide, Crash
    <3>2. Crash => lost \subseteq lost'
      BY DEF Crash
    <3> QED BY <3>1, <3>2
  <2> QED BY <2>1, <2>2
<1> QED BY <1>1 DEF Stands

LEMMA StatusKept ==
  ASSUME ContinuityTypes, [Next]_vars
  PROVE  \A o \in Ops : /\ status[o] # "pending" => status'[o] # "pending"
                        /\ status[o] \in Terminal => status'[o] = status[o]
<1>1. status \in [Ops -> Statuses]
  BY DEF ContinuityTypes
<1>2. CASE UNCHANGED status
  BY <1>2
<1>3. CASE \E o \in Ops : Activate(o) \/ Complete(o) \/ Break(o) \/ CancelQueued(o)
  BY <1>1, <1>3 DEF Activate, Complete, Break, CancelQueued, Waiting, Terminal
<1>4. CASE Crash
  BY <1>1, <1>4 DEF Crash, Terminal
<1> QED BY <1>2, <1>3, <1>4
        DEF Next, vars, Own, OwnResult, OwnObserves, OwnSaves, CompactTurn, Install,
            CompactionFails, Handle, Compact, CompactObserves, CompactRejects, Fetch, Hide

LEMMA ReplayGrown ==
  ASSUME ContinuityTypes, [Next]_vars, Grown,
         NEW a, NEW c, Replay(a, c), NEW b, NEW d, Folded(events', b, d),
         \A k \in 0..Len(events) : b[k] = a[k] /\ d[k] = c[k],
         view'.active = view.active, view'.completed = view.completed,
         \A k \in 1..Len(events') : \A e :
           k > Len(events) /\ e = events'[k] => Fits(b[k - 1], d[k - 1], e)',
         \A k \in 0..Len(events') : k > Len(events) /\ b[k] # 0 => status'[b[k]] # "pending"
  PROVE  Replay(b, d)'
<1>1. Len(events) \in Nat /\ Len(events') \in Nat /\ Len(events') >= Len(events)
  BY DEF ContinuityTypes, Grown
<1>2. ASSUME NEW k \in 1..Len(events') PROVE Fits(b[k - 1], d[k - 1], events[k])'
  <2>1. PICK e : e = events'[k]
    OBVIOUS
  <2>2. CASE k > Len(events)
    <3>1. Fits(b[k - 1], d[k - 1], e)'
      BY <2>1, <2>2
    <3> QED BY <2>1, <3>1 DEF Fits, Place
  <2>3. CASE k =< Len(events)
    <3>1. k \in 1..Len(events) /\ k - 1 \in 0..Len(events) /\ e = events[k]
      BY <1>1, <2>1, <2>3 DEF Grown
    <3>2. Fits(b[k - 1], d[k - 1], e)
      BY <3>1 DEF Replay
    <3> QED BY <2>1, <3>2, StandsKept DEF Fits, Place
  <2> QED BY <1>1, <2>2, <2>3
<1>3. ASSUME NEW k \in 0..Len(events'), b[k] # 0 PROVE status'[b[k]] # "pending"
  <2>1. CASE k =< Len(events)
    <3>1. k \in 0..Len(events) /\ b[k] = a[k] /\ a[k] \in 0..MaxOps
      BY <1>1, <2>1 DEF Replay, Folded
    <3>2. b[k] \in Ops /\ status[b[k]] # "pending"
      BY <1>3, <3>1, ContinuityAssumption DEF Replay, Ops
    <3> QED BY <3>2, StatusKept
  <2> QED BY <1>1, <1>3, <2>1
<1>4. b[0] = view'.active /\ d[0] = view'.completed
  BY <1>1 DEF Replay
<1> QED BY <1>2, <1>3, <1>4 DEF Replay

-----------------------------------------------------------------------------
(* What the queue says of the engine.                                       *)
\* A compaction belongs to the active turn, or to none that could still go on.
BegunInv ==
  Begun => IF compacting.op = 0 THEN \A o \in Ops : status[o] \notin Stuck
           ELSE compacting.op \in Ops /\ status[compacting.op] = "active"

LEMMA BegunStep ==
  ASSUME ContinuityTypes, BegunInv, [Next]_vars
  PROVE  BegunInv'
<1>1. status \in [Ops -> Statuses] /\ 0 \notin Ops
  BY DEF ContinuityTypes, Ops
<1>2. CASE UNCHANGED <<status, compacting>>
  BY <1>2 DEF BegunInv, Begun
<1>3. CASE ~Begun'
  BY <1>3 DEF BegunInv
<1>4. CASE Compact
  <2>1. compacting'.op = 0 /\ UNCHANGED status
    BY <1>4 DEF Compact, Starts
  <2>2. \A o \in Ops : status[o] \notin Stuck
    BY <1>4 DEF Compact, Active, Stuck
  <2> QED BY <2>1, <2>2 DEF BegunInv
<1>5. ASSUME NEW o \in Ops, NEW phase \in {"pre_turn", "mid_turn"}, CompactTurn(o, phase)
      PROVE  BegunInv'
  <2>1. compacting'.op = o /\ UNCHANGED status /\ status[o] = "active"
    BY <1>5 DEF CompactTurn, Starts
  <2> QED BY <1>1, <2>1 DEF BegunInv
<1>6. ASSUME NEW o \in Ops, CancelQueued(o) PROVE BegunInv'
  <2>1. /\ UNCHANGED compacting /\ status[o] = "pending"
        /\ status' = [status EXCEPT ![o] = "cancelled"]
    BY <1>6 DEF CancelQueued
  <2> QED BY <1>1, <2>1 DEF BegunInv, Begun, Stuck
<1>7. ASSUME NEW o \in Ops, Activate(o) \/ Complete(o) \/ Break(o) PROVE ~Begun'
  BY <1>7 DEF Activate, Complete, Break, Begun
<1>8. Install \/ CompactionFails \/ Crash => ~Begun'
  BY DEF Install, CompactionFails, Crash, Begun
<1> QED BY <1>2, <1>3, <1>4, <1>5, <1>6, <1>7, <1>8
        DEF Next, vars, Own, OwnResult, OwnObserves, OwnSaves, Handle, CompactObserves,
            CompactRejects, Fetch, Hide

IsEnd(e, o) == e.type = "execution.state" /\ e.op = o /\ e.status \in {"completed", "failed"}
\* Behind the i-th notification the end of the last turn is told.
Over(i) == \E j \in 1..Len(events) : j > i /\ IsEnd(events[j], lastRun)

(* A queued end is one; a queued start is of a turn that still runs, or its *)
(* end is told behind it.                                                   *)
QueueInv ==
  \A i \in 1..Len(events) : events[i].type = "execution.state" =>
    /\ events[i].status \in Terminal => status[events[i].op] \in Terminal
    /\ events[i].status = "active" => status[events[i].op] = "active" \/ Over(i)

(* The table already says how the last turn ended, or will be told, unless  *)
(* a crash took that away or a turn is under way.                           *)
HeadInv ==
  \/ lastRun \in lost \/ Over(0)
  \/ view.active # 0 /\ status[view.active] \in Stuck
  \/ view.active = 0 /\ view.completed = lastRun

LEMMA SpokenGrown ==
  ASSUME ContinuityTypes, QueueInv, HeadInv, Grown, [Next]_vars,
         view'.active = view.active, view'.completed = view.completed, lost' = lost,
         \A i \in 1..Len(events') : i > Len(events) /\ events'[i].type = "execution.state" =>
           /\ events'[i].status \in Terminal => status'[events'[i].op] \in Terminal
           /\ events'[i].status = "active" => status'[events'[i].op] = "active",
         \/ /\ lastRun' = lastRun
            /\ \A o \in Ops : /\ status[o] = "active" => status'[o] = "active"
                              /\ status[o] \in Stuck => status'[o] \in Stuck
         \/ \E j \in 1..Len(events') : j > Len(events) /\ IsEnd(events'[j], lastRun')
  PROVE  QueueInv' /\ HeadInv'
<1>1. /\ Len(events) \in Nat /\ Len(events') \in Nat /\ Len(events') >= Len(events)
      /\ \A i \in 1..Len(events) : Entry(events[i]) /\ events'[i] = events[i]
      /\ view.active \in 0..MaxOps
  <2>1. /\ Len(events) \in Nat /\ Len(events') \in Nat /\ Len(events') >= Len(events)
        /\ \A i \in 1..Len(events) : events'[i] = events[i]
    BY DEF ContinuityTypes, Grown
  <2>2. \A i \in 1..Len(events) : Entry(events[i])
    BY DEF ContinuityTypes, Entries
  <2>3. view.active \in 0..MaxOps
    BY DEF ContinuityTypes, Views
  <2> QED BY <2>1, <2>2, <2>3
<1>2. \A i \in 1..Len(events) : events[i].type = "execution.state" => events[i].op \in Ops
  BY <1>1, ContinuityAssumption DEF Entry, Ops
<1>3. view.active # 0 => view.active \in Ops
  BY <1>1, ContinuityAssumption DEF Ops
<1>4. \A o \in Ops : status[o] \in Terminal => status'[o] = status[o]
  BY StatusKept
<1>5. CASE \E j \in 1..Len(events') : j > Len(events) /\ IsEnd(events'[j], lastRun')
  <2>1. \A i \in 0..Len(events) : Over(i)'
    BY <1>1, <1>5 DEF Over
  <2>2. ASSUME NEW i \in 1..Len(events'), events'[i].type = "execution.state"
        PROVE  /\ events'[i].status \in Terminal => status'[events'[i].op] \in Terminal
               /\ events'[i].status = "active" => status'[events'[i].op] = "active" \/ Over(i)'
    <3>1. CASE i > Len(events)
      BY <2>2, <3>1
    <3>2. CASE i =< Len(events)
      <4>1. i \in 1..Len(events) /\ i \in 0..Len(events) /\ events'[i] = events[i]
        BY <1>1, <3>2
      <4> QED BY <1>2, <1>4, <2>1, <2>2, <4>1 DEF QueueInv
    <3> QED BY <1>1, <3>1, <3>2
  <2> QED BY <1>1, <2>1, <2>2 DEF QueueInv, HeadInv
<1>6. CASE /\ lastRun' = lastRun
           /\ \A o \in Ops : /\ status[o] = "active" => status'[o] = "active"
                             /\ status[o] \in Stuck => status'[o] \in Stuck
  <2>1. \A i \in 0..Len(events) : Over(i) => Over(i)'
    BY <1>1, <1>6 DEF Over
  <2>2. ASSUME NEW i \in 1..Len(events'), events'[i].type = "execution.state"
        PROVE  /\ events'[i].status \in Terminal => status'[events'[i].op] \in Terminal
               /\ events'[i].status = "active" => status'[events'[i].op] = "active" \/ Over(i)'
    <3>1. CASE i > Len(events)
      BY <2>2, <3>1
    <3>2. CASE i =< Len(events)
      <4>1. i \in 1..Len(events) /\ i \in 0..Len(events) /\ events'[i] = events[i]
        BY <1>1, <3>2
      <4> QED BY <1>2, <1>4, <1>6, <2>1, <2>2, <4>1 DEF QueueInv
    <3> QED BY <1>1, <3>1, <3>2
  <2>3. HeadInv'
    BY <1>1, <1>3, <1>6, <2>1 DEF HeadInv
  <2> QED BY <2>2, <2>3 DEF QueueInv
<1> QED BY <1>5, <1>6

LEMMA SpokenStep ==
  ASSUME ContinuityTypes, QueueInv, HeadInv, ReplayInv, view.latest.id =< cursor, [Next]_vars
  PROVE  QueueInv' /\ HeadInv'
<1>0. /\ Len(events) \in Nat /\ status \in [Ops -> Statuses]
      /\ view.active \in 0..MaxOps
      /\ view.active # 0 => view.active \in Ops
  BY ContinuityAssumption DEF ContinuityTypes, Views, Ops
<1>1. \A i \in 1..Len(events) : Entry(events[i])
  BY DEF ContinuityTypes, Entries
<1>2. \A i \in 1..Len(events) : events[i].type = "execution.state" => events[i].op \in Ops
  BY <1>1, ContinuityAssumption DEF Entry, Ops
<1>a. ASSUME UNCHANGED <<events, status, lastRun, lost>>,
             view'.active = view.active, view'.completed = view.completed
      PROVE  QueueInv' /\ HeadInv'
  BY <1>a DEF QueueInv, HeadInv, Over
<1>b. ASSUME NEW x, Says(x), x.type # "execution.state", UNCHANGED <<view, status, lastRun, lost>>
      PROVE  QueueInv' /\ HeadInv'
  <2>1. Grown /\ Len(events') = Len(events) + 1 /\ events'[Len(events) + 1] = x
    BY <1>b, GrownSaid
  <2>2. \A i \in 1..Len(events') : i > Len(events) => events'[i].type # "execution.state"
    BY <1>0, <1>b, <2>1
  <2> QED BY <1>b, <2>1, <2>2, SpokenGrown
<1>3. ASSUME NEW o \in Ops, Activate(o) \/ CancelQueued(o) PROVE QueueInv' /\ HeadInv'
  <2>1. PICK state \in {"active", "cancelled"} :
          /\ Says(State(o, state)) /\ status' = [status EXCEPT ![o] = state]
          /\ state = "cancelled" => status[o] = "pending"
    BY <1>3, Sayings DEF Activate, CancelQueued
  <2>2. UNCHANGED <<view, lastRun, lost>> /\ status[o] \in {"pending", "interrupted"}
    BY <1>3 DEF Activate, CancelQueued, Waiting
  <2>3. /\ Grown /\ Len(events') = Len(events) + 1 /\ events'[Len(events) + 1] = State(o, state)
    BY <2>1, GrownSaid
  <2>4. \A i \in 1..Len(events') : i > Len(events) =>
          events'[i].op = o /\ events'[i].status = state
    BY <1>0, <2>3 DEF State, Event
  <2>5. \A i \in 1..Len(events') : i > Len(events) /\ events'[i].type = "execution.state" =>
          /\ events'[i].status \in Terminal => status'[events'[i].op] \in Terminal
          /\ events'[i].status = "active" => status'[events'[i].op] = "active"
    BY <1>0, <2>1, <2>4
  <2>6. \A p \in Ops : /\ status[p] = "active" => status'[p] = "active"
                       /\ status[p] \in Stuck => status'[p] \in Stuck
    BY <1>0, <2>1, <2>2 DEF Stuck
  <2> QED BY <2>2, <2>3, <2>5, <2>6, SpokenGrown
<1>4. ASSUME NEW o \in Ops, Complete(o) PROVE QueueInv' /\ HeadInv'
  <2>1. /\ Grown /\ Len(events') = Len(events) + 1 /\ events'[Len(events) + 1] = State(o, "completed")
    BY <1>4, Sayings, GrownSaid
  <2>2. /\ UNCHANGED <<view, lost>> /\ lastRun' = o /\ status' = [status EXCEPT ![o] = "completed"]
    BY <1>4 DEF Complete
  <2>3. IsEnd(State(o, "completed"), o) /\ State(o, "completed").status = "completed"
        /\ State(o, "completed").op = o
    BY DEF IsEnd, State, Event
  <2>4. \A i \in 1..Len(events') : i > Len(events) => events'[i] = State(o, "completed")
    BY <1>0, <2>1
  <2>5. status'[o] = "completed" /\ "completed" \in Terminal
    BY <1>0, <2>2 DEF Terminal
  <2>6. \E j \in 1..Len(events') : j > Len(events) /\ IsEnd(events'[j], lastRun')
    BY <1>0, <2>1, <2>2, <2>3
  <2>7. \A i \in 1..Len(events') : i > Len(events) /\ events'[i].type = "execution.state" =>
          /\ events'[i].status \in Terminal => status'[events'[i].op] \in Terminal
          /\ events'[i].status = "active" => status'[events'[i].op] = "active"
    BY <2>3, <2>4, <2>5
  <2> QED BY <2>1, <2>2, <2>6, <2>7, SpokenGrown
<1>5. ASSUME NEW o \in Ops, Break(o) PROVE QueueInv' /\ HeadInv'
  <2>1. /\ Grown /\ Len(events') = Len(events) + 2
        /\ events'[Len(events) + 1] = RunEnded(o) /\ events'[Len(events) + 2] = State(o, "failed")
    BY <1>5, Sayings, GrownSaid
  <2>2. /\ UNCHANGED <<view, lost>> /\ lastRun' = o /\ status' = [status EXCEPT ![o] = "failed"]
    BY <1>5 DEF Break
  <2>3. IsEnd(State(o, "failed"), o) /\ State(o, "failed").status = "failed"
        /\ State(o, "failed").op = o /\ RunEnded(o).type # "execution.state"
    BY DEF IsEnd, State, RunEnded, Event
  <2>4. \A i \in 1..Len(events') : i > Len(events) =>
          events'[i] = State(o, "failed") \/ events'[i] = RunEnded(o)
    <3>1. \A i \in 1..Len(events') : i > Len(events) => i = Len(events) + 1 \/ i = Len(events) + 2
      BY <1>0, <2>1
    <3> QED BY <2>1, <3>1
  <2>5. status'[o] = "failed" /\ "failed" \in Terminal
    BY <1>0, <2>2 DEF Terminal
  <2>6. \E j \in 1..Len(events') : j > Len(events) /\ IsEnd(events'[j], lastRun')
    BY <1>0, <2>1, <2>2, <2>3
  <2>7. \A i \in 1..Len(events') : i > Len(events) /\ events'[i].type = "execution.state" =>
          /\ events'[i].status \in Terminal => status'[events'[i].op] \in Terminal
          /\ events'[i].status = "active" => status'[events'[i].op] = "active"
    BY <2>3, <2>4, <2>5
  <2> QED BY <2>1, <2>2, <2>6, <2>7, SpokenGrown
<1>6. ASSUME NEW o \in Ops, NEW phase \in {"pre_turn", "mid_turn"}, CompactTurn(o, phase)
      PROVE  QueueInv' /\ HeadInv'
  <2>1. Says(Started([op |-> o, phase |-> phase]))
    BY <1>6, Sayings
  <2>2. Started([op |-> o, phase |-> phase]).type # "execution.state"
    BY DEF Started, Event
  <2> QED BY <1>6, <1>b, <2>1, <2>2 DEF CompactTurn
<1>7. CASE Compact
  <2>1. Says(Started([op |-> 0, phase |-> "manual"]))
    BY <1>7, Sayings
  <2>2. Started([op |-> 0, phase |-> "manual"]).type # "execution.state"
    BY DEF Started, Event
  <2> QED BY <1>7, <1>b, <2>1, <2>2 DEF Compact
<1>8. CASE CompactionFails
  <2>1. Says(Failed) /\ Failed.type # "execution.state"
    BY <1>8, Sayings DEF Failed, Event
  <2> QED BY <1>8, <1>b, <2>1 DEF CompactionFails
<1>9. ASSUME NEW o \in Ops, OwnResult(o) PROVE QueueInv' /\ HeadInv'
  <2>1. Says(Continue(o)) /\ Continue(o).type # "execution.state"
    BY <1>9, Sayings DEF Continue, Event
  <2> QED BY <1>9, <1>b, <2>1 DEF OwnResult
<1>10. CASE Install
  <2>1. UNCHANGED <<view, status, lastRun, lost>>
    BY <1>10 DEF Install
  <2>a. Replaced(compacting, version').type # "execution.state"
    BY DEF Replaced, Event
  <2>2. PICK x : x = Replaced(compacting, version') /\ x.type # "execution.state"
    BY <2>a
  <2>3. Continue(0).type # "execution.state"
    BY DEF Continue, Event
  <2>4. CASE compacting.op # 0
    BY <1>10, <1>b, <2>1, <2>2, <2>4, Sayings
  <2>5. CASE compacting.op = 0
    <3>1. /\ Grown /\ Len(events') = Len(events) + 2
          /\ events'[Len(events) + 1] = x /\ events'[Len(events) + 2] = Continue(0)
      BY <1>10, <2>2, <2>5, Sayings, GrownSaid
    <3>2. \A i \in 1..Len(events') : i > Len(events) => i = Len(events) + 1 \/ i = Len(events) + 2
      BY <1>0, <3>1
    <3>3. \A i \in 1..Len(events') : i > Len(events) => events'[i].type # "execution.state"
      BY <2>2, <2>3, <3>1, <3>2
    <3> QED BY <2>1, <3>1, <3>3, SpokenGrown
  <2> QED BY <2>4, <2>5
<1>11. CASE Handle
  <2>1. PICK e : Handles(e)
    BY <1>11, HandleEffect
  <2>2. /\ e = events[1] /\ Entry(e) /\ Len(events) >= 1 /\ Len(events') \in Nat
        /\ UNCHANGED <<status, lastRun, lost>>
    BY <2>1 DEF Handles
  <2>3. Fits(view.active, view.completed, e)
    <3>1. PICK a, c : Replay(a, c)
      BY DEF ReplayInv
    <3>2. a[0] = view.active /\ c[0] = view.completed /\ 1 - 1 = 0 /\ 1 \in 1..Len(events)
      BY <1>0, <2>2, <3>1 DEF Replay
    <3>3. \A k \in 1..Len(events) : Fits(a[k - 1], c[k - 1], events[k])
      BY <3>1 DEF Replay
    <3> QED BY <2>2, <3>2, <3>3
  <2>4. ASSUME Pops, NEW i \in 1..Len(events), Over(i) PROVE Over(i - 1)'
    <3>1. PICK j \in 1..Len(events) : j > i /\ IsEnd(events[j], lastRun)
      BY <2>4 DEF Over
    <3>2. PICK k \in 1..Len(events') : k = j - 1 /\ events'[k] = events[j]
      BY <1>0, <2>2, <2>4, <3>1 DEF Pops
    <3> QED BY <1>0, <2>2, <3>1, <3>2 DEF Over
  <2>5. ASSUME Pops PROVE QueueInv'
    <3>1. ASSUME NEW i \in 1..Len(events'), events'[i].type = "execution.state"
          PROVE  /\ events'[i].status \in Terminal => status'[events'[i].op] \in Terminal
                 /\ events'[i].status = "active" => status'[events'[i].op] = "active" \/ Over(i)'
      <4>1. PICK k \in 1..Len(events) : k = i + 1 /\ k - 1 = i /\ events'[i] = events[k]
        BY <1>0, <2>2, <2>5 DEF Pops
      <4>2. /\ events[k].status \in Terminal => status[events[k].op] \in Terminal
            /\ events[k].status = "active" => status[events[k].op] = "active" \/ Over(k)
        BY <3>1, <4>1 DEF QueueInv
      <4>3. Over(k) => Over(i)'
        BY <2>4, <2>5, <4>1
      <4> QED BY <2>2, <4>1, <4>2, <4>3
    <3> QED BY <3>1 DEF QueueInv
  <2>6. ASSUME Pops PROVE Over(1) => Over(0)'
    BY <2>2, <2>4, <2>6
  <2>7. CASE e.type # "execution.state" /\ Pops
    <3>1. view'.active = view.active /\ view'.completed = view.completed
      BY <2>1, <2>2, <2>7, Written DEF Handles, Logs, Stores, Resumes, NextActive, NextCompleted
    <3>2. Over(0) => Over(1)
      BY <1>0, <2>2, <2>7 DEF Over, IsEnd
    <3>3. HeadInv'
      BY <2>2, <2>6, <2>7, <3>1, <3>2 DEF HeadInv
    <3> QED BY <2>5, <2>7, <3>3
  <2>8. CASE Logs(e) /\ e.type = "replaced"
    <3>1. /\ Len(events') = Len(events) /\ events'[1].type = "observe"
          /\ \A i \in 2..Len(events) : events'[i] = events[i]
      BY <2>2, <2>8 DEF Logs, Swaps, Observation, Event
    <3>2. view'.active = view.active /\ view'.completed = view.completed
      BY <2>2, <2>8, Written DEF Logs, NextActive, NextCompleted
    <3>3. ASSUME NEW i \in 0..Len(events), Over(i) PROVE Over(i)'
      <4>1. PICK j \in 1..Len(events) : j > i /\ IsEnd(events[j], lastRun)
        BY <3>3 DEF Over
      <4>2. j # 1
        BY <2>2, <2>8, <4>1 DEF IsEnd
      <4> QED BY <1>0, <2>2, <3>1, <4>1, <4>2 DEF Over
    <3>4. ASSUME NEW i \in 1..Len(events'), events'[i].type = "execution.state"
          PROVE  /\ events'[i].status \in Terminal => status'[events'[i].op] \in Terminal
                 /\ events'[i].status = "active" => status'[events'[i].op] = "active" \/ Over(i)'
      <4>1. i \in 1..Len(events) /\ i \in 0..Len(events) /\ events'[i] = events[i]
        BY <1>0, <3>1, <3>4
      <4> QED BY <2>2, <3>3, <3>4, <4>1 DEF QueueInv
    <3>5. HeadInv'
      BY <1>0, <2>2, <3>2, <3>3 DEF HeadInv
    <3> QED BY <3>4, <3>5 DEF QueueInv
  <2>9. CASE e.type = "execution.state"
    <3>1. Logs(e) /\ Pops
      BY <2>1, <2>9 DEF Handles, Logs, Stores, Resumes
    <3>2. /\ view'.active = NextActive(view.active, e)
          /\ view'.completed = NextCompleted(view.active, view.completed, e)
      BY <2>2, <3>1, Written DEF Logs
    <3>3. e.op \in Ops /\ e.op # 0 /\ e.status \in {"active", "completed", "failed", "cancelled"}
      BY <1>1, <1>2, <2>2, <2>9 DEF Entry, Terminal
    <3>4. /\ e.status \in Terminal => status[e.op] \in Terminal
          /\ e.status = "active" => status[e.op] = "active" \/ Over(1)
      BY <1>0, <2>2, <2>9 DEF QueueInv
    <3>5. CASE e.status = "active"
      <4>1. view'.active = e.op
        BY <2>9, <3>2, <3>5 DEF NextActive
      <4> QED BY <2>2, <2>5, <2>6, <3>1, <3>3, <3>4, <3>5, <4>1 DEF HeadInv, Stuck
    <3>6. CASE e.status \in {"completed", "failed"}
      <4>1. view.active = e.op /\ view'.active = 0 /\ view'.completed = e.op
        BY <2>3, <2>9, <3>2, <3>6 DEF Fits, NextActive, NextCompleted
      <4>2. status[e.op] \notin Stuck
        BY <3>4, <3>6 DEF Terminal, Stuck
      <4>3. lastRun # e.op => (Over(0) => Over(1))
        BY <1>0, <2>2 DEF Over, IsEnd
      <4>4. HeadInv'
        BY <2>2, <2>6, <3>1, <3>3, <4>1, <4>2, <4>3 DEF HeadInv
      <4> QED BY <2>5, <3>1, <4>4
    <3>7. CASE e.status = "cancelled"
      <4>1. Over(0) => Over(1)
        BY <1>0, <2>2, <3>7 DEF Over, IsEnd
      <4>2. view'.active = view.active /\ view'.completed = view.completed
        BY <2>3, <2>9, <3>2, <3>7 DEF Fits, NextActive, NextCompleted
      <4>3. HeadInv'
        BY <2>2, <2>6, <3>1, <4>1, <4>2 DEF HeadInv
      <4> QED BY <2>5, <3>1, <4>3
    <3> QED BY <3>3, <3>5, <3>6, <3>7
  <2> QED BY <2>1, <2>7, <2>8, <2>9 DEF Handles, Logs, Stores, Resumes
<1>12. ASSUME NEW o \in Ops, OwnObserves(o) \/ OwnSaves(o) PROVE QueueInv' /\ HeadInv'
  BY <1>12, <1>a DEF OwnObserves, OwnSaves
<1>13. CASE CompactObserves \/ Fetch \/ Hide \/ UNCHANGED vars
  BY <1>13, <1>a DEF CompactObserves, Fetch, Hide, vars
<1>14. CASE CompactRejects
  <2> DEFINE e == Event("companion.failed", 0, "none", "none", 0)
  <2>1. Entry(e) /\ e.type = "companion.failed"
    BY ContinuityAssumption DEF Entry, Event, Types, Statuses, Phases
  <2>2. view'.active = view.active /\ view'.completed = view.completed
    BY <1>14, <2>1, Written DEF CompactRejects, NextActive, NextCompleted
  <2> QED BY <1>14, <1>a, <2>2 DEF CompactRejects
<1>15. CASE Crash
  <2>1. /\ Len(events') = 0 /\ UNCHANGED <<view, lastRun>> /\ lost \subseteq lost'
        /\ status' = [o \in Ops |-> IF status[o] = "active" THEN "interrupted" ELSE status[o]]
    BY <1>15 DEF Crash
  <2>2. Over(0) => lastRun \in lost'
    <3>1. ASSUME NEW j \in 1..Len(events), IsEnd(events[j], lastRun) PROVE lastRun \in lost'
      <4>1. j \in DOMAIN events
        BY <3>1 DEF ContinuityTypes
      <4>2. events[j].type = "execution.state" /\ events[j].op = lastRun /\ events[j].status \in Terminal
        BY <3>1 DEF IsEnd, Terminal
      <4> QED BY <1>15, <4>1, <4>2 DEF Crash
    <3> QED BY <3>1 DEF Over
  <2>3. view.active # 0 /\ status[view.active] \in Stuck => status'[view.active] \in Stuck
    BY <1>0, <2>1 DEF Stuck
  <2> QED BY <2>1, <2>2, <2>3 DEF QueueInv, HeadInv
<1> QED BY <1>3, <1>4, <1>5, <1>6, <1>7, <1>8, <1>9, <1>10, <1>11, <1>12, <1>13, <1>14, <1>15
        DEF Next, Own

\* One more notification, or two, and the table's last word after them.
LEMMA ReplaySaid ==
  ASSUME ContinuityTypes, [Next]_vars, NEW a, NEW c, Replay(a, c),
         NEW A, A = a[Len(events)], NEW C, C = c[Len(events)],
         view'.active = view.active, view'.completed = view.completed,
         NEW x, Says(x), Fits(A, C, x)',
         NextActive(A, x) # 0 => status'[NextActive(A, x)] # "pending",
         Settled(NextActive(A, x), NextCompleted(A, C, x))'
  PROVE  ReplayInv'
<1>1. /\ events \in Seq(Entries) /\ Len(events) \in Nat /\ x \in Entries
      /\ events' = Append(events, x) /\ Folded(events, a, c)
  BY DEF ContinuityTypes, Says, Replay
<1>2. PICK b, d : /\ Folded(events', b, d)
                  /\ \A k \in 0..Len(events) : b[k] = a[k] /\ d[k] = c[k]
                  /\ b[Len(events) + 1] = NextActive(A, x)
                  /\ d[Len(events) + 1] = NextCompleted(A, C, x)
  BY <1>1, FoldedAppend
<1>3. Grown /\ Len(events') = Len(events) + 1 /\ events'[Len(events) + 1] = x
  BY GrownSaid
<1>4. Replay(b, d)'
  <2>1. ASSUME NEW k \in 1..Len(events'), NEW e, k > Len(events), e = events'[k]
        PROVE  Fits(b[k - 1], d[k - 1], e)'
    <3>1. k = Len(events) + 1 /\ k - 1 = Len(events) /\ e = x
      BY <1>1, <1>3, <2>1
    <3>2. b[k - 1] = A /\ d[k - 1] = C
      BY <1>1, <1>2, <3>1
    <3> QED BY <3>1, <3>2
  <2>2. ASSUME NEW k \in 0..Len(events'), k > Len(events), b[k] # 0
        PROVE  status'[b[k]] # "pending"
    <3>1. k = Len(events) + 1
      BY <1>1, <1>3, <2>2
    <3> QED BY <1>2, <2>2, <3>1
  <2> QED BY <1>2, <1>3, <2>1, <2>2, ReplayGrown
<1>5. Settled(b[Len(events)], d[Len(events)])'
  <2>1. b[Len(events')] = NextActive(A, x) /\ d[Len(events')] = NextCompleted(A, C, x)
    BY <1>2, <1>3
  <2> QED BY <2>1 DEF Settled
<1> QED BY <1>4, <1>5 DEF ReplayInv

LEMMA ReplaySaidBoth ==
  ASSUME ContinuityTypes, [Next]_vars, NEW a, NEW c, Replay(a, c),
         NEW A, A = a[Len(events)], NEW C, C = c[Len(events)],
         view'.active = view.active, view'.completed = view.completed,
         NEW x, NEW y, SaysBoth(x, y), x.type # "execution.state", Fits(A, C, x)', Fits(A, C, y)',
         A # 0 => status'[A] # "pending",
         NextActive(A, y) # 0 => status'[NextActive(A, y)] # "pending",
         Settled(NextActive(A, y), NextCompleted(A, C, y))'
  PROVE  ReplayInv'
<1>1. /\ events \in Seq(Entries) /\ Len(events) \in Nat /\ x \in Entries /\ y \in Entries
      /\ events' = Append(Append(events, x), y) /\ Folded(events, a, c)
  BY DEF ContinuityTypes, SaysBoth, Replay
<1>2. PICK q \in Seq(Entries) : q = Append(events, x) /\ Len(q) = Len(events) + 1
  <2>1. Append(events, x) \in Seq(Entries) /\ Len(Append(events, x)) = Len(events) + 1
    BY <1>1, Said DEF Queued
  <2> QED BY <2>1
<1>3. NextActive(A, x) = A /\ NextCompleted(A, C, x) = C
  BY DEF NextActive, NextCompleted
<1>4. PICK u, w : /\ Folded(q, u, w)
                  /\ \A k \in 0..Len(events) : u[k] = a[k] /\ w[k] = c[k]
                  /\ u[Len(events) + 1] = A /\ w[Len(events) + 1] = C
  BY <1>1, <1>2, <1>3, FoldedAppend
<1>5. PICK f, g : /\ Folded(events', f, g)
                  /\ \A k \in 0..Len(q) : f[k] = u[k] /\ g[k] = w[k]
                  /\ f[Len(q) + 1] = NextActive(A, y) /\ g[Len(q) + 1] = NextCompleted(A, C, y)
  <2>1. u[Len(q)] = A /\ w[Len(q)] = C
    BY <1>2, <1>4
  <2>2. events' = Append(q, y)
    BY <1>1, <1>2
  <2>3. \E f, g : /\ Folded(Append(q, y), f, g)
                  /\ \A k \in 0..Len(q) : f[k] = u[k] /\ g[k] = w[k]
                  /\ f[Len(q) + 1] = NextActive(u[Len(q)], y)
                  /\ g[Len(q) + 1] = NextCompleted(u[Len(q)], w[Len(q)], y)
    <3>1. q \in Seq(Entries) /\ Folded(q, u, w) /\ y \in Entries
      BY <1>1, <1>2, <1>4
    <3> QED BY <3>1, FoldedAppend
  <2> QED BY <2>1, <2>2, <2>3
<1>6. /\ Grown /\ Len(events') = Len(events) + 2
      /\ events'[Len(events) + 1] = x /\ events'[Len(events) + 2] = y
  BY GrownSaid
<1>7. /\ \A k \in 0..Len(events) : f[k] = a[k] /\ g[k] = c[k]
      /\ f[Len(events) + 1] = A /\ g[Len(events) + 1] = C
      /\ f[Len(events) + 2] = NextActive(A, y) /\ g[Len(events) + 2] = NextCompleted(A, C, y)
  <2>1. \A k \in 0..Len(events) : k \in 0..Len(q)
    BY <1>1, <1>2
  <2>2. Len(events) + 1 \in 0..Len(q) /\ Len(q) + 1 = Len(events) + 2
    BY <1>1, <1>2
  <2> QED BY <1>4, <1>5, <2>1, <2>2
<1>8. Replay(f, g)'
  <2>1. \A k \in 0..Len(events') : k > Len(events) => k = Len(events) + 1 \/ k = Len(events) + 2
    BY <1>1, <1>6
  <2>2. ASSUME NEW k \in 1..Len(events'), NEW e, k > Len(events), e = events'[k]
        PROVE  Fits(f[k - 1], g[k - 1], e)'
    <3>1. CASE k = Len(events) + 1
      <4>1. k - 1 = Len(events) /\ k - 1 \in 0..Len(events) /\ e = x
        BY <1>1, <1>6, <2>2, <3>1
      <4>2. f[k - 1] = A /\ g[k - 1] = C
        BY <1>7, <4>1
      <4> QED BY <4>1, <4>2
    <3>2. CASE k = Len(events) + 2
      <4>1. k - 1 = Len(events) + 1 /\ e = y
        BY <1>1, <1>6, <2>2, <3>2
      <4>2. f[k - 1] = A /\ g[k - 1] = C
        BY <1>7, <4>1
      <4> QED BY <4>1, <4>2
    <3>3. k \in 0..Len(events')
      OBVIOUS
    <3> QED BY <2>1, <2>2, <3>1, <3>2, <3>3
  <2>3. ASSUME NEW k \in 0..Len(events'), k > Len(events), f[k] # 0
        PROVE  status'[f[k]] # "pending"
    BY <1>7, <2>1, <2>3
  <2> QED BY <1>5, <1>6, <1>7, <2>2, <2>3, ReplayGrown
<1>9. Settled(f[Len(events)], g[Len(events)])'
  <2>1. f[Len(events')] = NextActive(A, y) /\ g[Len(events')] = NextCompleted(A, C, y)
    BY <1>6, <1>7
  <2> QED BY <2>1 DEF Settled
<1> QED BY <1>8, <1>9 DEF ReplayInv

LEMMA ReplayPopped ==
  ASSUME ContinuityTypes, Len(events) >= 1, events' \in Seq(Entries), Pops,
         NEW a, NEW c, Replay(a, c), Settled(a[Len(events)], c[Len(events)]),
         view'.active = a[1], view'.completed = c[1],
         UNCHANGED <<status, installed, lost, lastRun>>
  PROVE  ReplayInv'
<1>1. PICK n \in Nat : /\ Len(events) \in Nat /\ n + 1 = Len(events) /\ Len(events') = n
                       /\ \A k \in 1..n : events'[k] = events[k + 1]
  <2>1. Len(events) \in Nat /\ Len(events) - 1 \in Nat /\ (Len(events) - 1) + 1 = Len(events)
    BY DEF ContinuityTypes
  <2> QED BY <2>1 DEF Pops
<1>2. \A k \in 0..n : k + 1 \in 0..Len(events) /\ k + 1 \in 1..Len(events) /\ (k + 1) - 1 = k
  BY <1>1
<1>3. /\ a \in [0..Len(events) -> 0..MaxOps] /\ c \in [0..Len(events) -> 0..MaxOps]
      /\ \A k \in 1..Len(events) : /\ a[k] = NextActive(a[k - 1], events[k])
                                   /\ c[k] = NextCompleted(a[k - 1], c[k - 1], events[k])
                                   /\ Fits(a[k - 1], c[k - 1], events[k])
      /\ \A k \in 0..Len(events) : a[k] # 0 => status[a[k]] # "pending"
  BY DEF Replay, Folded
<1>4. PICK b \in [0..n -> 0..MaxOps], d \in [0..n -> 0..MaxOps] :
        \A k \in 0..n : b[k] = a[k + 1] /\ d[k] = c[k + 1]
  <2>1. \E b \in [0..n -> 0..MaxOps] : \A k \in 0..n : b[k] = a[k + 1]
    <3> DEFINE u == [k \in 0..n |-> a[k + 1]]
    <3>1. u \in [0..n -> 0..MaxOps] /\ \A k \in 0..n : u[k] = a[k + 1]
      BY <1>2, <1>3
    <3> QED BY <3>1
  <2>2. \E d \in [0..n -> 0..MaxOps] : \A k \in 0..n : d[k] = c[k + 1]
    <3> DEFINE u == [k \in 0..n |-> c[k + 1]]
    <3>1. u \in [0..n -> 0..MaxOps] /\ \A k \in 0..n : u[k] = c[k + 1]
      BY <1>2, <1>3
    <3> QED BY <3>1
  <2> QED BY <2>1, <2>2
<1>5. ASSUME NEW k \in 1..n
      PROVE  /\ b[k] = NextActive(b[k - 1], events'[k])
             /\ d[k] = NextCompleted(b[k - 1], d[k - 1], events'[k])
             /\ Fits(b[k - 1], d[k - 1], events[k])'
  <2>1. /\ k \in 0..n /\ k - 1 \in 0..n /\ (k - 1) + 1 = k
        /\ k + 1 \in 1..Len(events) /\ (k + 1) - 1 = k
    BY <1>1
  <2>2. /\ b[k] = a[k + 1] /\ d[k] = c[k + 1] /\ b[k - 1] = a[k] /\ d[k - 1] = c[k]
        /\ events'[k] = events[k + 1]
    BY <1>1, <1>4, <2>1
  <2>3. /\ a[k + 1] = NextActive(a[k], events[k + 1])
        /\ c[k + 1] = NextCompleted(a[k], c[k], events[k + 1])
        /\ Fits(a[k], c[k], events[k + 1])
    BY <1>3, <2>1
  <2>4. Fits(b[k - 1], d[k - 1], events[k])'
    BY <2>2, <2>3 DEF Fits, Stands, Place
  <2> QED BY <2>2, <2>3, <2>4
<1>6. \A k \in 0..n : b[k] # 0 => status'[b[k]] # "pending"
  BY <1>2, <1>3, <1>4
<1>7. b[0] = view'.active /\ d[0] = view'.completed
  BY <1>1, <1>4
<1>8. Folded(events', b, d)
  BY <1>1, <1>4, <1>5 DEF Folded
<1>9. Replay(b, d)'
  BY <1>1, <1>5, <1>6, <1>7, <1>8 DEF Replay
<1>10. Settled(b[Len(events)], d[Len(events)])'
  <2>1. b[n] = a[Len(events)] /\ d[n] = c[Len(events)]
    <3>1. n \in 0..n /\ n + 1 = Len(events)
      BY <1>1
    <3> QED BY <1>4, <3>1
  <2> QED BY <1>1, <2>1 DEF Settled
<1> QED BY <1>9, <1>10 DEF ReplayInv

LEMMA ReplayStep ==
  ASSUME ContinuityTypes, ReplayInv, HeadInv, BegunInv, view.latest.id =< cursor, [Next]_vars
  PROVE  ReplayInv'
<1>1. PICK a, c : Replay(a, c) /\ Settled(a[Len(events)], c[Len(events)])
  BY DEF ReplayInv
<1>2. PICK A, C : A = a[Len(events)] /\ C = c[Len(events)]
  OBVIOUS
<1>3. /\ Len(events) \in Nat /\ status \in [Ops -> Statuses] /\ 0 \notin Ops
      /\ events \in Seq(Entries)
  BY DEF ContinuityTypes, Ops
<1>4. /\ A \in 0..MaxOps /\ C \in 0..MaxOps /\ Settled(A, C) /\ a[0] = view.active /\ c[0] = view.completed
      /\ A # 0 => A \in Ops /\ status[A] # "pending" /\ status'[A] # "pending"
  <2>1. A \in 0..MaxOps /\ C \in 0..MaxOps
    BY <1>1, <1>2, <1>3 DEF Replay, Folded
  <2>2. A # 0 => A \in Ops /\ status[A] # "pending"
    BY <1>1, <1>2, <1>3, <2>1, ContinuityAssumption DEF Replay, Ops
  <2>3. a[0] = view.active /\ c[0] = view.completed
    BY <1>1 DEF Replay
  <2> QED BY <1>1, <1>2, <2>1, <2>2, <2>3, StatusKept
<1>a. ASSUME NEW x, Says(x), x.type \notin {"execution.state", "replaced"},
             UNCHANGED <<view, status, lastRun, lost>>
      PROVE  ReplayInv'
  <2>1. NextActive(A, x) = A /\ NextCompleted(A, C, x) = C /\ Fits(A, C, x)'
    BY <1>a DEF NextActive, NextCompleted, Fits
  <2>2. Settled(A, C)'
    BY <1>4, <1>a DEF Settled
  <2> QED BY <1>1, <1>2, <1>4, <1>a, <2>1, <2>2, ReplaySaid
<1>b. ASSUME UNCHANGED <<events, lastRun>>, lost \subseteq lost',
             view'.active = view.active, view'.completed = view.completed, UNCHANGED status
      PROVE  ReplayInv'
  <2>1. Grown /\ Len(events') = Len(events) /\ Folded(events', a, c)
    BY <1>1, <1>b, GrownSaid DEF Replay
  <2>2. Replay(a, c)'
    BY <1>1, <1>3, <1>b, <2>1, ReplayGrown
  <2>3. Settled(A, C)'
    BY <1>4, <1>b DEF Settled
  <2>4. Settled(a[Len(events)], c[Len(events)])'
    BY <1>2, <2>1, <2>3 DEF Settled
  <2> QED BY <2>2, <2>4 DEF ReplayInv
<1>5. ASSUME NEW o \in Ops, Activate(o) PROVE ReplayInv'
  <2> DEFINE x == State(o, "active")
  <2>1. Says(x) /\ x.type = "execution.state" /\ x.op = o /\ x.status = "active"
    BY <1>5, Sayings DEF State, Event
  <2>2. /\ UNCHANGED <<view, lastRun, lost>> /\ status' = [status EXCEPT ![o] = "active"]
        /\ \A p \in Ops : status[p] # "active"
    BY <1>5 DEF Activate, Active
  <2> HIDE DEF x
  <2>3. NextActive(A, x) = o /\ NextCompleted(A, C, x) = C /\ Fits(A, C, x)'
    BY <2>1 DEF NextActive, NextCompleted, Fits
  <2>4. Settled(o, C)' /\ status'[o] # "pending"
    BY <1>3, <2>2 DEF Settled, Stuck
  <2> QED BY <1>1, <1>2, <2>1, <2>2, <2>3, <2>4, ReplaySaid
<1>6. ASSUME NEW o \in Ops, Complete(o) PROVE ReplayInv'
  <2> DEFINE x == State(o, "completed")
  <2>1. Says(x) /\ x.type = "execution.state" /\ x.op = o /\ x.status = "completed"
    BY <1>6, Sayings DEF State, Event
  <2>2. /\ UNCHANGED <<view, lost>> /\ lastRun' = o /\ status' = [status EXCEPT ![o] = "completed"]
        /\ status[o] = "active"
    BY <1>6 DEF Complete
  <2>3. A = o
    BY <1>4, <2>2 DEF Settled
  <2> HIDE DEF x
  <2>4. NextActive(A, x) = 0 /\ NextCompleted(A, C, x) = o /\ Fits(A, C, x)'
    BY <2>1, <2>3 DEF NextActive, NextCompleted, Fits
  <2>5. Settled(0, o)'
    BY <1>3, <1>4, <2>2, <2>3 DEF Settled
  <2> QED BY <1>1, <1>2, <2>1, <2>2, <2>4, <2>5, ReplaySaid
<1>7. ASSUME NEW o \in Ops, CancelQueued(o) PROVE ReplayInv'
  <2> DEFINE x == State(o, "cancelled")
  <2>1. Says(x) /\ x.type = "execution.state" /\ x.op = o /\ x.status = "cancelled"
    BY <1>7, Sayings DEF State, Event
  <2>2. /\ UNCHANGED <<view, lost, lastRun>> /\ status' = [status EXCEPT ![o] = "cancelled"]
        /\ status[o] = "pending"
    BY <1>7 DEF CancelQueued
  <2>3. A # o
    BY <1>3, <1>4, <2>2
  <2> HIDE DEF x
  <2>4. NextActive(A, x) = A /\ NextCompleted(A, C, x) = C /\ Fits(A, C, x)'
    BY <2>1, <2>3 DEF NextActive, NextCompleted, Fits
  <2>5. Settled(A, C)'
    BY <1>3, <1>4, <2>2, <2>3 DEF Settled
  <2> QED BY <1>1, <1>2, <1>4, <2>1, <2>2, <2>4, <2>5, ReplaySaid
<1>8. ASSUME NEW o \in Ops, Break(o) PROVE ReplayInv'
  <2> DEFINE x == RunEnded(o)
             y == State(o, "failed")
  <2>1. /\ SaysBoth(x, y) /\ x.type = "run.ended"
        /\ y.type = "execution.state" /\ y.op = o /\ y.status = "failed"
    BY <1>8, Sayings DEF State, RunEnded, Event
  <2>2. /\ UNCHANGED <<view, lost>> /\ lastRun' = o /\ status' = [status EXCEPT ![o] = "failed"]
        /\ status[o] = "active"
    BY <1>8 DEF Break
  <2>3. A = o
    BY <1>4, <2>2 DEF Settled
  <2> HIDE DEF x, y
  <2>4. NextActive(A, y) = 0 /\ NextCompleted(A, C, y) = o /\ Fits(A, C, x)' /\ Fits(A, C, y)'
    BY <2>1, <2>3 DEF NextActive, NextCompleted, Fits
  <2>5. Settled(0, o)'
    BY <1>3, <1>4, <2>2, <2>3 DEF Settled
  <2> QED BY <1>1, <1>2, <1>4, <2>1, <2>2, <2>4, <2>5, ReplaySaidBoth
<1>9. ASSUME NEW o \in Ops, NEW phase \in {"pre_turn", "mid_turn"}, CompactTurn(o, phase)
      PROVE  ReplayInv'
  <2>1. Says(Started([op |-> o, phase |-> phase]))
    BY <1>9, Sayings
  <2>2. Started([op |-> o, phase |-> phase]).type \notin {"execution.state", "replaced"}
    BY DEF Started, Event
  <2> QED BY <1>9, <1>a, <2>1, <2>2 DEF CompactTurn
<1>10. CASE Compact
  <2>1. Says(Started([op |-> 0, phase |-> "manual"]))
    BY <1>10, Sayings
  <2>2. Started([op |-> 0, phase |-> "manual"]).type \notin {"execution.state", "replaced"}
    BY DEF Started, Event
  <2> QED BY <1>10, <1>a, <2>1, <2>2 DEF Compact
<1>11. CASE CompactionFails
  <2>1. Says(Failed) /\ Failed.type \notin {"execution.state", "replaced"}
    BY <1>11, Sayings DEF Failed, Event
  <2> QED BY <1>11, <1>a, <2>1 DEF CompactionFails
<1>12. ASSUME NEW o \in Ops, OwnResult(o) PROVE ReplayInv'
  <2>1. Says(Continue(o)) /\ Continue(o).type \notin {"execution.state", "replaced"}
    BY <1>12, Sayings DEF Continue, Event
  <2> QED BY <1>12, <1>a, <2>1 DEF OwnResult
<1>13. ASSUME NEW o \in Ops, OwnObserves(o) \/ OwnSaves(o) PROVE ReplayInv'
  BY <1>13, <1>b DEF OwnObserves, OwnSaves
<1>14. CASE CompactObserves \/ Fetch \/ Hide \/ UNCHANGED vars
  BY <1>14, <1>b DEF CompactObserves, Fetch, Hide, vars
<1>15. CASE CompactRejects
  <2> DEFINE e == Event("companion.failed", 0, "none", "none", 0)
  <2>1. Entry(e) /\ e.type = "companion.failed"
    BY ContinuityAssumption DEF Entry, Event, Types, Statuses, Phases
  <2>2. view'.active = view.active /\ view'.completed = view.completed
    BY <1>15, <2>1, Written DEF CompactRejects, NextActive, NextCompleted
  <2> QED BY <1>15, <1>b, <2>2 DEF CompactRejects
<1>16. CASE Install
  <2>1. UNCHANGED <<view, status, lastRun, lost>> /\ Begun
    BY <1>16 DEF Install
  <2>2. PICK v : v = version'
    OBVIOUS
  <2>3. PICK x : x = Replaced(compacting, v)
    OBVIOUS
  <2>4. x.type = "replaced" /\ x.value = v /\ x.phase = compacting.phase
    BY <2>3 DEF Replaced, Event
  <2>5. NextActive(A, x) = A /\ NextCompleted(A, C, x) = C
    BY <2>4 DEF NextActive, NextCompleted
  <2>6. Stands(v, Place(A, C, x))'
    <3>1. PICK i : i = [value |-> v, at |-> Where(compacting)]
      OBVIOUS
    <3>2. installed' = Append(installed, i) /\ installed \in Seq([value : Nat, at : Places])
      BY <1>16, <2>2, <3>1 DEF Install, ContinuityTypes
    <3>3. i \in [value : Nat, at : Places]
      <4>1. v \in Nat
        BY <1>16, <2>2 DEF Install, ContinuityTypes
      <4>2. Where(compacting) \in Places
        BY DEF Where, ContinuityTypes, Places
      <4> QED BY <3>1, <4>1, <4>2
    <3>4. PICK n \in DOMAIN installed' : installed'[n] = i
      <4>a. installed' \in Seq([value : Nat, at : Places]) /\ Queued(installed, installed', i)
        BY <3>2, <3>3, Said
      <4>1. /\ installed' \in Seq([value : Nat, at : Places]) /\ Queued(installed, installed', i)
            /\ Len(installed) \in Nat
        BY <3>2, <4>a
      <4>2. Len(installed) + 1 \in 1..Len(installed') /\ installed'[Len(installed) + 1] = i
        BY <4>1 DEF Queued
      <4>3. DOMAIN installed' = 1..Len(installed')
        BY <4>1
      <4> QED BY <4>2, <4>3
    <3>5. Place(A, C, x) = Where(compacting) \/ Where(compacting).anchor \in lost
      <4>1. CASE compacting.op # 0
        <5>1. A = compacting.op
          BY <1>4, <2>1, <4>1 DEF BegunInv, Settled
        <5> QED BY <2>4, <4>1, <5>1 DEF Place, Where
      <4>2. CASE compacting.op = 0
        <5>1. \A o \in Ops : status[o] \notin Stuck
          BY <2>1, <4>2 DEF BegunInv
        <5>2. A # 0 => lastRun \in lost
          BY <1>4, <5>1 DEF Settled
        <5>3. Where(compacting) = [anchor |-> lastRun, position |-> "after"]
          BY <4>2 DEF Where
        <5>4. A = 0 => Place(A, C, x) = [anchor |-> C, position |-> "after"]
          BY DEF Place
        <5>5. A = 0 => C = lastRun \/ lastRun \in lost
          BY <1>4 DEF Settled
        <5> QED BY <5>2, <5>3, <5>4, <5>5
      <4> QED BY <4>1, <4>2
    <3>6. i.value = v /\ i.at = Where(compacting)
      BY <3>1
    <3>7. \A w : w = Place(A, C, x) => Stands(v, w)'
      BY <2>1, <3>4, <3>5, <3>6 DEF Stands
    <3> QED BY <3>7 DEF Place
  <2>7. Fits(A, C, x)'
    BY <2>4, <2>6 DEF Fits, Place
  <2>8. Settled(A, C)'
    BY <1>4, <2>1 DEF Settled
  <2>9. CASE compacting.op # 0
    <3>1. Says(x)
      BY <1>16, <2>2, <2>3, <2>9, Sayings
    <3> QED BY <1>1, <1>2, <1>4, <2>1, <2>5, <2>7, <2>8, <3>1, ReplaySaid
  <2>10. CASE compacting.op = 0
    <3>1. PICK y : SaysBoth(x, y) /\ y = Continue(0)
      BY <1>16, <2>2, <2>3, <2>10, Sayings
    <3>2. y.type = "continue"
      BY <3>1 DEF Continue, Event
    <3>3. NextActive(A, y) = A /\ NextCompleted(A, C, y) = C /\ Fits(A, C, y)'
      BY <3>2 DEF NextActive, NextCompleted, Fits
    <3>4. x.type # "execution.state"
      BY <2>4
    <3> QED BY <1>1, <1>2, <1>4, <2>1, <2>7, <2>8, <3>1, <3>3, <3>4, ReplaySaidBoth
  <2> QED BY <2>9, <2>10
<1>17. CASE Handle
  <2>1. PICK e : Handles(e)
    BY <1>17, HandleEffect
  <2>2. /\ e = events[1] /\ Entry(e) /\ Len(events) >= 1 /\ events' \in Seq(Entries)
        /\ UNCHANGED <<status, lastRun, lost, installed>>
    BY <2>1 DEF Handles
  <2>3. a[1] = NextActive(view.active, e) /\ c[1] = NextCompleted(view.active, view.completed, e)
    <3>1. 1 \in 1..Len(events) /\ 1 - 1 = 0
      BY <1>3, <2>2
    <3>2. \A k \in 1..Len(events) : /\ a[k] = NextActive(a[k - 1], events[k])
                                    /\ c[k] = NextCompleted(a[k - 1], c[k - 1], events[k])
      BY <1>1 DEF Replay, Folded
    <3> QED BY <1>4, <2>2, <3>1, <3>2
  <2>4. /\ view'.active = NextActive(view.active, e)
        /\ view'.completed = NextCompleted(view.active, view.completed, e)
    <3>1. CASE Logs(e)
      BY <2>2, <3>1, Written DEF Logs
    <3>2. CASE Stores(e) \/ Resumes(e)
      BY <3>2 DEF Stores, Resumes, NextActive, NextCompleted
    <3> QED BY <2>1, <3>1, <3>2 DEF Handles
  <2>5. CASE Pops
    BY <1>1, <2>2, <2>3, <2>4, <2>5, ReplayPopped
  <2>6. CASE e.type = "replaced" /\ Swaps
    <3>1. /\ Len(events') = Len(events) /\ events'[1].type = "observe"
          /\ \A i \in 2..Len(events) : events'[i] = events[i]
      BY <2>6 DEF Swaps, Observation, Event
    <3>2. ASSUME NEW k \in 1..Len(events), NEW m, NEW n
          PROVE  /\ NextActive(m, events'[k]) = NextActive(m, events[k])
                 /\ NextCompleted(m, n, events'[k]) = NextCompleted(m, n, events[k])
                 /\ Fits(m, n, events[k]) => Fits(m, n, events[k])'
      <4>1. CASE k = 1
        BY <2>2, <2>6, <3>1, <4>1 DEF NextActive, NextCompleted, Fits
      <4>2. CASE k # 1
        <5>1. PICK h : h = events[k] /\ events'[k] = h
          BY <1>3, <3>1, <4>2
        <5>2. Fits(m, n, h) => Fits(m, n, h)'
          BY StandsKept DEF Fits, Place
        <5>3. Fits(m, n, h)' => Fits(m, n, events[k])'
          BY <5>1 DEF Fits, Place
        <5> QED BY <5>1, <5>2, <5>3
      <4> QED BY <4>1, <4>2
    <3>3. Folded(events', a, c)
      <4>1. Folded(events, a, c)
        BY <1>1 DEF Replay
      <4>2. ASSUME NEW k \in 1..Len(events)
            PROVE  /\ a[k] = NextActive(a[k - 1], events'[k])
                   /\ c[k] = NextCompleted(a[k - 1], c[k - 1], events'[k])
        <5>1. PICK m, n : m = a[k - 1] /\ n = c[k - 1]
          OBVIOUS
        <5>2. a[k] = NextActive(m, events[k]) /\ c[k] = NextCompleted(m, n, events[k])
          BY <4>1, <5>1 DEF Folded
        <5> QED BY <3>2, <5>1, <5>2
      <4> QED BY <3>1, <4>1, <4>2 DEF Folded
    <3>4. \A k \in 1..Len(events) : Fits(a[k - 1], c[k - 1], events[k])'
      BY <1>1, <3>2 DEF Replay
    <3>5. view'.active = view.active /\ view'.completed = view.completed
      BY <2>4, <2>6 DEF NextActive, NextCompleted
    <3>6. Replay(a, c)'
      BY <1>1, <2>2, <3>1, <3>3, <3>4, <3>5 DEF Replay
    <3>7. Settled(a[Len(events)], c[Len(events)])'
      BY <1>1, <2>2, <3>1 DEF Settled
    <3> QED BY <3>6, <3>7 DEF ReplayInv
  <2> QED BY <2>1, <2>5, <2>6 DEF Handles, Logs, Stores, Resumes
<1>18. CASE Crash
  <2>1. /\ events' = <<>> /\ Len(events') = 0 /\ UNCHANGED <<view, lastRun>> /\ lost \subseteq lost'
        /\ status' = [o \in Ops |-> IF status[o] = "active" THEN "interrupted" ELSE status[o]]
    BY <1>18 DEF Crash
  <2>2. Over(0) => lastRun \in lost'
    <3>1. ASSUME NEW j \in 1..Len(events), IsEnd(events[j], lastRun) PROVE lastRun \in lost'
      <4>1. j \in DOMAIN events
        BY <1>3, <3>1
      <4>2. events[j].type = "execution.state" /\ events[j].op = lastRun /\ events[j].status \in Terminal
        BY <3>1 DEF IsEnd, Terminal
      <4> QED BY <1>18, <4>1, <4>2 DEF Crash
    <3> QED BY <3>1 DEF Over
  <2>3. /\ view.active \in 0..MaxOps /\ view.completed \in 0..MaxOps
        /\ view.active # 0 => view.active \in Ops /\ status[view.active] # "pending"
    <3>1. view.active \in 0..MaxOps /\ view.completed \in 0..MaxOps
      BY DEF ContinuityTypes, Views
    <3>2. 0 \in 0..Len(events)
      BY <1>3
    <3>3. a[0] # 0 => status[a[0]] # "pending"
      BY <1>1, <3>2 DEF Replay
    <3> QED BY <1>4, <3>1, <3>3, ContinuityAssumption DEF Ops
  <2>4. Settled(view.active, view.completed)'
    BY <1>3, <2>1, <2>2, <2>3 DEF Settled, HeadInv, Stuck
  <2> DEFINE b == [k \in 0..0 |-> view.active]
             d == [k \in 0..0 |-> view.completed]
  <2>5. PICK f, g : /\ f \in [0..0 -> 0..MaxOps] /\ g \in [0..0 -> 0..MaxOps]
                    /\ f[0] = view.active /\ g[0] = view.completed
    <3>1. /\ b \in [0..0 -> 0..MaxOps] /\ d \in [0..0 -> 0..MaxOps]
          /\ b[0] = view.active /\ d[0] = view.completed
      BY <2>3
    <3> QED BY <3>1
  <2>6. Folded(events', f, g)
    BY <2>1, <2>5 DEF Folded
  <2>7. f[0] # 0 => status'[f[0]] # "pending"
    BY <1>3, <2>1, <2>3, <2>5
  <2>8. Replay(f, g)'
    BY <2>1, <2>5, <2>6, <2>7 DEF Replay
  <2>9. Settled(f[Len(events)], g[Len(events)])'
    BY <2>1, <2>4, <2>5 DEF Settled
  <2> QED BY <2>8, <2>9 DEF ReplayInv
<1> QED BY <1>5, <1>6, <1>7, <1>8, <1>9, <1>10, <1>11, <1>12, <1>13, <1>14, <1>15, <1>16, <1>17, <1>18
        DEF Next, Own

-----------------------------------------------------------------------------
(* The markers.                                                             *)
MarksInv ==
  /\ view.latest.id =< cursor
  /\ \A i \in 1..Len(view.markers) : \A m : m = view.markers[i] =>
       /\ m.id =< cursor /\ (view.latest.status = "running" => m.id # view.latest.id)
       /\ Stands(m.value, [anchor |-> m.anchor, position |-> m.position])
       /\ \A j \in 1..Len(view.markers) : view.markers[j].id = m.id => j = i

LEMMA MarksWritten ==
  ASSUME ContinuityTypes, MarksInv, [Next]_vars, NEW e, Entry(e), Write(e),
         Fits(view.active, view.completed, e)
  PROVE  MarksInv'
<1>1. /\ view.markers \in Seq(Markers) /\ Len(view.markers) \in Nat
      /\ cursor \in Nat /\ view.latest.id \in Nat
      /\ \A i \in 1..Len(view.markers) : view.markers[i].id \in Nat
  <2>1. view.markers \in Seq(Markers) /\ view.latest \in Lifecycles /\ cursor \in Nat
    BY DEF ContinuityTypes, Views
  <2>2. \A i \in 1..Len(view.markers) : view.markers[i] \in Markers
    BY <2>1
  <2> QED BY <2>1, <2>2 DEF Markers, Lifecycles
<1>2. /\ cursor' \in Nat /\ cursor' >= cursor
      /\ e.type # "execution.state" => cursor' = cursor + 1
      /\ \/ Runs(e, cursor') \/ (e.type # "started" /\ Ended)
         \/ /\ e.type \notin {"started", "replaced", "failed", "companion.failed", "run.ended"}
            /\ view'.latest = view.latest /\ view'.gen = view.gen
      /\ IF e.type = "replaced" THEN Marks(e, cursor') ELSE view'.markers = view.markers
      /\ view'.latest.id =< cursor'
  BY Written DEF MarksInv
<1>3. ASSUME NEW i \in 1..Len(view.markers), NEW m, m = view.markers[i]
      PROVE  /\ m.id \in Nat /\ m.id =< cursor /\ m.id =< cursor'
             /\ view.latest.status = "running" => m.id # view.latest.id
             /\ Stands(m.value, [anchor |-> m.anchor, position |-> m.position])'
             /\ \A j \in 1..Len(view.markers) : view.markers[j].id = m.id => j = i
  <2>1. /\ m.id \in Nat /\ m.id =< cursor
        /\ view.latest.status = "running" => m.id # view.latest.id
        /\ Stands(m.value, [anchor |-> m.anchor, position |-> m.position])
        /\ \A j \in 1..Len(view.markers) : view.markers[j].id = m.id => j = i
    BY <1>1, <1>3 DEF MarksInv
  <2> QED BY <1>1, <1>2, <2>1, StandsKept
<1>b. ASSUME NEW i \in 1..Len(view.markers)
      PROVE  /\ view.markers[i].id \in Nat /\ view.markers[i].id =< cursor
             /\ view.latest.status = "running" => view.markers[i].id # view.latest.id
  <2>1. PICK m : m = view.markers[i]
    OBVIOUS
  <2> QED BY <1>3, <2>1
<1>4. CASE e.type # "replaced"
  <2>1. view'.markers = view.markers
    BY <1>2, <1>4
  <2>2. ASSUME NEW i \in 1..Len(view.markers), view'.latest.status = "running"
        PROVE  view.markers[i].id # view'.latest.id
    <3>1. CASE Runs(e, cursor')
      <4>1. view'.latest.id = cursor' /\ cursor' = cursor + 1
        BY <1>2, <3>1 DEF Runs
      <4> QED BY <1>1, <1>b, <4>1
    <3>2. CASE view'.latest = view.latest
      BY <1>3, <2>2, <3>2
    <3> QED BY <1>2, <2>2, <3>1, <3>2 DEF Ended
  <2>3. ASSUME NEW i \in 1..Len(view'.markers), NEW m, m = view'.markers[i]
        PROVE  /\ m.id =< cursor' /\ (view'.latest.status = "running" => m.id # view'.latest.id)
               /\ Stands(m.value, [anchor |-> m.anchor, position |-> m.position])'
               /\ \A j \in 1..Len(view'.markers) : view'.markers[j].id = m.id => j = i
    BY <1>3, <2>1, <2>2, <2>3
  <2> QED BY <1>2, <2>3 DEF MarksInv
<1>5. CASE e.type = "replaced"
  <2>1. PICK id : id = IF view.latest.status = "running" THEN view.latest.id ELSE cursor'
    OBVIOUS
  <2>2. PICK b : b = Boundary(e, id)
    OBVIOUS
  <2>3. view'.markers = Append(view.markers, b)
    BY <1>2, <1>5, <2>1, <2>2 DEF Marks
  <2>4. /\ b.id = id /\ b.value = e.value
        /\ [anchor |-> b.anchor, position |-> b.position] = Place(view.active, view.completed, e)
    BY <2>2 DEF Boundary, Place
  <2>5. id =< cursor' /\ \A i \in 1..Len(view.markers) : view.markers[i].id # id
    BY <1>1, <1>2, <1>b, <1>5, <2>1 DEF MarksInv
  <2>6. Stands(b.value, [anchor |-> b.anchor, position |-> b.position])'
    <3>1. PICK w : w = Place(view.active, view.completed, e)
      OBVIOUS
    <3>2. Stands(e.value, w)
      BY <1>5, <3>1 DEF Fits
    <3>3. Stands(e.value, w)'
      BY <3>2, StandsKept
    <3> QED BY <2>4, <3>1, <3>3
  <2>7. view'.latest.status # "running"
    BY <1>2, <1>5 DEF Ended, Runs
  <2>8. /\ Len(view'.markers) = Len(view.markers) + 1
        /\ view'.markers[Len(view.markers) + 1] = b
        /\ \A i \in 1..Len(view.markers) : view'.markers[i] = view.markers[i]
    BY <1>1, <2>3
  <2>9. ASSUME NEW i \in 1..Len(view'.markers), NEW m, m = view'.markers[i]
        PROVE  /\ m.id =< cursor'
               /\ Stands(m.value, [anchor |-> m.anchor, position |-> m.position])'
               /\ \A j \in 1..Len(view'.markers) : view'.markers[j].id = m.id => j = i
    <3>1. \A j \in 1..Len(view'.markers) : j \in 1..Len(view.markers) \/ j = Len(view.markers) + 1
      BY <1>1, <2>8
    <3>2. CASE i = Len(view.markers) + 1
      BY <2>4, <2>5, <2>6, <2>8, <2>9, <3>1, <3>2
    <3>3. CASE i \in 1..Len(view.markers)
      <4>1. m = view.markers[i]
        BY <2>8, <2>9, <3>3
      <4> QED BY <1>3, <2>4, <2>5, <2>8, <3>1, <3>3, <4>1
    <3> QED BY <3>1, <3>2, <3>3
  <2> QED BY <1>2, <2>7, <2>9 DEF MarksInv
<1> QED BY <1>4, <1>5

LEMMA MarksStep ==
  ASSUME ContinuityTypes, MarksInv, ReplayInv, [Next]_vars
  PROVE  MarksInv'
<1>1. CASE UNCHANGED <<view, cursor>>
  <2>1. \A v, w : Stands(v, w) => Stands(v, w)'
    BY StandsKept
  <2> QED BY <1>1, <2>1 DEF MarksInv
<1>2. CASE Handle
  <2>1. PICK e : Handles(e)
    BY <1>2, HandleEffect
  <2>2. CASE Logs(e)
    <3>1. PICK a, c : Replay(a, c)
      BY DEF ReplayInv
    <3>2. e = events[1] /\ 1 \in 1..Len(events) /\ 1 - 1 = 0 /\ Entry(e)
      BY <2>1 DEF Handles, ContinuityTypes
    <3>3. \A k \in 1..Len(events) : Fits(a[k - 1], c[k - 1], events[k])
      BY <3>1 DEF Replay
    <3>4. a[0] = view.active /\ c[0] = view.completed
      BY <3>1 DEF Replay
    <3>5. Fits(view.active, view.completed, e)
      BY <3>2, <3>3, <3>4
    <3> QED BY <2>2, <3>2, <3>5, MarksWritten DEF Logs
  <2>3. CASE Stores(e) \/ Resumes(e)
    BY <1>1, <2>3 DEF Stores, Resumes
  <2> QED BY <2>1, <2>2, <2>3 DEF Handles
<1>3. CASE CompactRejects
  <2> DEFINE e == Event("companion.failed", 0, "none", "none", 0)
  <2>1. Entry(e) /\ e.type = "companion.failed"
    BY ContinuityAssumption DEF Entry, Event, Types, Statuses, Phases
  <2>2. Fits(view.active, view.completed, e)
    BY <2>1 DEF Fits
  <2> QED BY <1>3, <2>1, <2>2, MarksWritten DEF CompactRejects
<1>4. ASSUME NEW o \in Ops,
             Activate(o) \/ Complete(o) \/ Break(o) \/ CancelQueued(o) \/ Own(o)
             \/ \E phase \in {"pre_turn", "mid_turn"} : CompactTurn(o, phase)
      PROVE  MarksInv'
  BY <1>1, <1>4 DEF Activate, Complete, Break, CancelQueued, Own, OwnResult, OwnObserves, OwnSaves,
                    CompactTurn
<1>5. ASSUME Install \/ CompactionFails \/ Compact \/ CompactObserves \/ Fetch \/ Hide \/ Crash
             \/ UNCHANGED vars
      PROVE  MarksInv'
  BY <1>1, <1>5 DEF Install, CompactionFails, Compact, CompactObserves, Fetch, Hide, Crash, vars
<1> QED BY <1>2, <1>3, <1>4, <1>5 DEF Next

-----------------------------------------------------------------------------
(* The invariant of the specification.                                      *)
ContinuityInv ==
  /\ ContinuityTypes /\ MarksInv /\ ReplayInv /\ HeadInv /\ QueueInv /\ BegunInv
  /\ RunInv /\ OwnInv /\ ContinueInv /\ SizeInv

LEMMA ContinuityInit == Init => ContinuityInv
<1> SUFFICES ASSUME Init PROVE ContinuityInv
  OBVIOUS
<1>1. /\ events = <<>> /\ Len(events) = 0 /\ view = Nothing /\ view.active = 0 /\ view.completed = 0
      /\ view.latest = NoLifecycle /\ view.latest.status = "none" /\ view.latest.id = 0
      /\ view.gen = 0 /\ view.markers = <<>> /\ Len(view.markers) = 0
      /\ cursor = 0 /\ lastRun = 0 /\ lost = {} /\ generation = 1 /\ live = 0 /\ ~Begun
      /\ \A o \in Ops : status[o] = "pending" /\ owner[o] = "waiting" /\ ran[o] = 0 /\ saved[o] = 0
  BY DEF Init, Nothing, NoLifecycle, Begun
<1>2. ContinuityTypes
  <2>1. 0 \in 0..MaxOps
    BY ContinuityAssumption
  <2>2. view \in Views
    BY <2>1 DEF Init, Nothing, NoLifecycle, Views, Lifecycles
  <2>3. NoCompaction \in [op : 0..MaxOps, phase : Phases]
    BY <2>1 DEF NoCompaction, Phases
  <2> QED BY <2>1, <2>2, <2>3 DEF Init, ContinuityTypes, Statuses
<1>3. MarksInv /\ HeadInv /\ QueueInv /\ BegunInv /\ ContinueInv /\ SizeInv /\ RunInv
  BY <1>1 DEF MarksInv, HeadInv, QueueInv, BegunInv, ContinueInv, SizeInv, RunInv
<1>4. OwnInv
  BY <1>1 DEF OwnInv, Owns
<1>5. ReplayInv
  <2> DEFINE z == [k \in 0..0 |-> 0]
  <2>1. z \in [0..0 -> 0..MaxOps] /\ z[0] = 0
    BY ContinuityAssumption
  <2>2. Folded(events, z, z)
    BY <1>1, <2>1 DEF Folded
  <2>3. Replay(z, z)
    BY <1>1, <2>1, <2>2 DEF Replay
  <2>4. Settled(0, 0)
    BY <1>1 DEF Settled
  <2> HIDE DEF z
  <2>5. Settled(z[Len(events)], z[Len(events)])
    BY <1>1, <2>1, <2>4
  <2> QED BY <2>3, <2>5 DEF ReplayInv
<1> QED BY <1>2, <1>3, <1>4, <1>5 DEF ContinuityInv

LEMMA ContinuityStep == ContinuityInv /\ [Next]_vars => ContinuityInv'
<1> SUFFICES ASSUME ContinuityInv, [Next]_vars PROVE ContinuityInv'
  OBVIOUS
<1>1. /\ ContinuityTypes /\ MarksInv /\ ReplayInv /\ HeadInv /\ QueueInv /\ BegunInv
      /\ RunInv /\ OwnInv /\ ContinueInv /\ SizeInv
  BY DEF ContinuityInv
<1>2. view.latest.id =< cursor
  BY <1>1 DEF MarksInv
<1>3. ContinuityTypes' /\ RunInv' /\ OwnInv' /\ ContinueInv' /\ SizeInv'
  BY <1>1, <1>2, TypesStep, RunStep, OwnStep, ContinueStep, SizeStep
<1>4. MarksInv' /\ ReplayInv' /\ HeadInv' /\ QueueInv' /\ BegunInv'
  BY <1>1, <1>2, MarksStep, ReplayStep, SpokenStep, BegunStep
<1> QED BY <1>3, <1>4 DEF ContinuityInv

LEMMA ContinuityKept == Spec => []ContinuityInv
  BY ContinuityInit, ContinuityStep, PTL DEF Spec

(* Every marker on the timeline stands for a compaction the engine really   *)
(* installed, once, and where it happened, unless a crash took the end of   *)
(* the turn before it away unhandled: projectContinuity follows the engine  *)
(* through any queue of notifications.                                      *)
THEOREM MarkersKept == Spec => []MarkersAnchored
<1>1. ASSUME ContinuityInv PROVE MarkersAnchored
  <2>1. DOMAIN view.markers = 1..Len(view.markers)
    <3>1. view.markers \in Seq(Markers)
      BY <1>1 DEF ContinuityInv, ContinuityTypes, Views
    <3> QED BY <3>1
  <2>2. ASSUME NEW i \in DOMAIN view.markers, NEW m, m = view.markers[i]
        PROVE  /\ \A j \in DOMAIN view.markers : m.id = view.markers[j].id => i = j
               /\ \E n \in DOMAIN installed :
                    /\ installed[n].value = m.value
                    /\ \/ installed[n].at = [anchor |-> m.anchor, position |-> m.position]
                       \/ installed[n].at.anchor \in lost
    BY <1>1, <2>1, <2>2 DEF ContinuityInv, MarksInv, Stands
  <2> QED BY <2>2 DEF MarkersAnchored
<1> QED BY <1>1, ContinuityKept, PTL

(* A compaction is called running only while this process works on it or    *)
(* its end is on the way, over restarts, broken turns and rejected requests.*)
THEOREM RunningKept == Spec => []RunningIsLive
<1>1. ASSUME ContinuityInv PROVE RunningIsLive
  <2>1. DOMAIN events = 1..Len(events)
    BY <1>1 DEF ContinuityInv, ContinuityTypes
  <2>2. ASSUME Lifecycle.status = "running"
        PROVE  view.latest.status = "running" /\ view.gen = generation
    <3>1. view.latest \in Lifecycles
      BY <1>1 DEF ContinuityInv, ContinuityTypes, Views
    <3>2. [view.latest EXCEPT !.status = "failed"].status = "failed"
      BY <3>1 DEF Lifecycles
    <3> QED BY <2>2, <3>2 DEF Lifecycle
  <2>3. Lifecycle.status = "running" => Begun \/ EndsAfter(events, 0)
    BY <1>1, <2>2 DEF ContinuityInv, RunInv
  <2> QED BY <2>1, <2>3 DEF RunningIsLive, EndsAfter, Ends
<1> QED BY <1>1, ContinuityKept, PTL

(* An answer saved by the process that ran the turn is never without a      *)
(* stored size: the owner stores the size before the answer, and a size     *)
(* once stored is never replaced by none.                                   *)
THEOREM SizesKept == Spec => []AnswersObserved
<1>1. ContinuityInv => AnswersObserved
  BY DEF ContinuityInv, OwnInv, Owns, AnswersObserved
<1> QED BY <1>1, ContinuityKept, PTL

(* When nothing is on its way, a process that has loaded its context has    *)
(* stored its newest size, whatever overlapped before.                      *)
THEOREM SettledKept == Spec => []SettledObservation
<1>1. ASSUME ContinuityInv PROVE SettledObservation
  <2>1. SUFFICES ASSUME events = <<>>, compactor = "none", live # 0,
                        \A o \in Ops : owner[o] \in {"none", "waiting"},
                        \A o \in Ops : owner[o] = "waiting" => status[o] \in Waiting
                 PROVE  observed = live
    BY DEF SettledObservation
  <2>2. ~SizeAfter(0)
    BY <2>1 DEF SizeAfter
  <2>3. ~Waits
    BY <2>1 DEF Waits, Waiting
  <2>4. Calm
    BY <1>1, <2>1, <2>2, <2>3 DEF ContinuityInv, SizeInv
  <2> QED BY <2>1, <2>4 DEF Calm
<1> QED BY <1>1, ContinuityKept, PTL

(* The stored context size is there whenever an answer is, and settles on   *)
(* the newest one, for every overlap of its writers.                        *)
THEOREM ObservationsKept == Spec => []ObservationKept
<1>1. AnswersObserved /\ SettledObservation => ObservationKept
  BY DEF ObservationKept
<1> QED BY <1>1, SizesKept, SettledKept, PTL
=============================================================================
