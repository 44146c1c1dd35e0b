---------------------------- MODULE MessageFeed ----------------------------
(***************************************************************************)
(* How the conversation reaches the page: the revisions the store assigns  *)
(* (apps/partner/runtime/store.ts), the snapshots the Partner assembles    *)
(* from them (runtime/partner.ts), the event stream that only says         *)
(* "changed" (runtime/server.ts), and the page that fetches change batches *)
(* and older history and merges both (src/routes/+page.svelte,             *)
(* src/lib/message-pages.ts).                                              *)
(*                                                                         *)
(* A reply is any outcome of a message, its answer or its error; live is   *)
(* its operation's status in the engine, which no revision records until   *)
(* the event was handled.  A cancelled operation is a failed one here.     *)
(***************************************************************************)
EXTENDS Naturals, Sequences, FiniteSets

CONSTANTS
  Messages,
  History,      \* messages already answered when the revisions were introduced
  PageSize,     \* rows of one page; LIMIT asks for one more
  MaxRevision,  \* bound: changes of the messages table
  MaxBreaks,    \* bound: event streams lost
  MaxFailures,  \* bound: requests that fail on a running server
  MaxRestarts   \* bound: deaths of the process

ASSUME FeedAssumption ==
  /\ IsFiniteSet(Messages)
  /\ History \in 0..Cardinality(Messages) /\ History =< MaxRevision
  /\ PageSize \in Nat \ {0}
  /\ MaxRevision \in Nat /\ MaxBreaks \in Nat /\ MaxFailures \in Nat /\ MaxRestarts \in Nat

VARIABLES
  \* the server
  sequence,     \* a message's rowid, 0 while there is no row
  revision,     \* its row of message_revisions, 0 while there is none
  replied,      \* its answer or its error is saved
  live,         \* the engine's status of its operation
  touches,      \* execution.state events on the notifications chain
  \* the connection
  stream,       \* the page's event source
  changed,      \* an undelivered "changed" is on its way
  request,      \* the two requests the page may have in flight
  \* the page
  refreshing, refreshAgain,
  loaded, cursor,       \* the cursor is undefined until the first batch
  before, hasMore,      \* the oldest loaded row, and whether there are older ones
  shown,                \* session.messages, by message
  cancellable,          \* session.cancellable
  \* observers and bounds
  owed,         \* no snapshot asked for since the last reconnect has arrived yet
  breaks, failures, restarts

server == <<sequence, revision, replied, live, touches>>
wire   == <<stream, changed>>
window == <<before, hasMore>>
page   == <<loaded, cursor, window, shown, cancellable>>
loop   == <<refreshing, refreshAgain>>
bounds == <<breaks, failures, restarts>>
vars   == <<server, wire, request, loop, page, owed, bounds>>

Ended == {"completed", "failed"}
Statuses == {"absent", "pending", "active"} \union Ended
Row == [revision: Nat, replied: BOOLEAN, status: Statuses]
Unseen == [revision |-> 0, replied |-> FALSE, status |-> "absent"]

\* A request: how far it has come, its rows, and the rest of the batch.
Channels == {"refresh", "older"}
Stages == {"idle", "sent", "paged", "ready", "lost"}
Idle == [stage |-> "idle", wait |-> 0, fresh |-> FALSE, rows |-> <<>>, cursor |-> 0,
         before |-> 0, more |-> FALSE, cancellable |-> {}]

TypeOK ==
  /\ sequence \in [Messages -> Nat] /\ revision \in [Messages -> 0..MaxRevision]
  /\ replied \in [Messages -> BOOLEAN] /\ live \in [Messages -> Statuses]
  /\ touches \in Seq(Messages)
  /\ stream \in {"closed", "open"} /\ changed \in BOOLEAN
  /\ \A c \in Channels :
       /\ request[c].stage \in Stages /\ request[c].wait \in Nat
       /\ DOMAIN request[c].rows \subseteq Messages
       /\ request[c].cancellable \subseteq Messages
  /\ refreshing \in BOOLEAN /\ refreshAgain \in BOOLEAN
  /\ loaded \in BOOLEAN /\ cursor \in 0..MaxRevision
  /\ before \in Nat /\ hasMore \in BOOLEAN
  /\ shown \in [Messages -> Row] /\ cancellable \subseteq Messages
  /\ owed \in BOOLEAN

\* Opening the store gives the rows it already has their revisions, in order.
Upgraded ==
  /\ sequence \in [Messages -> 0..History]
  /\ \A n \in 1..History : Cardinality({ m \in Messages : sequence[m] = n }) = 1
  /\ revision = sequence
  /\ replied = [m \in Messages |-> sequence[m] # 0]
  /\ live \in [Messages -> Ended \union {"absent"}]
  /\ \A m \in Messages : live[m] = "absent" <=> sequence[m] = 0

Init ==
  /\ Upgraded
  /\ touches = <<>>
  /\ stream = "closed" /\ changed = FALSE
  /\ request = [c \in Channels |-> Idle]
  /\ refreshing = FALSE /\ refreshAgain = FALSE
  /\ loaded = FALSE /\ cursor = 0 /\ before = 0 /\ hasMore = FALSE
  /\ shown = [m \in Messages |-> Unseen] /\ cancellable = {}
  /\ owed = FALSE
  /\ breaks = 0 /\ failures = 0 /\ restarts = 0

-----------------------------------------------------------------------------
(* The store.  An insert or an update replaces the message's revision by    *)
(* the next one, and listeners learn that something changed.                *)
Saved == { m \in Messages : sequence[m] # 0 }
Latest == CHOOSE r \in 0..MaxRevision :
            /\ \A m \in Messages : revision[m] =< r
            /\ r = 0 \/ \E m \in Messages : revision[m] = r

Revise(m) == revision' = [revision EXCEPT ![m] = Latest + 1]
Notify == changed' = (stream = "open") /\ UNCHANGED stream

\* The revisions taken and those the queued events and accepted prompts will take.
Unprompted == { m \in Saved : live[m] = "absent" }
Taken == Latest + Len(touches) + Cardinality(Unprompted)

\* store.admit tells nobody; the accepted prompt does.
Admit(m) ==
  /\ sequence[m] = 0 /\ Taken + 1 < MaxRevision
  /\ sequence' = [sequence EXCEPT ![m] = Cardinality(Saved) + 1]
  /\ Revise(m)
  /\ UNCHANGED <<replied, live, touches, wire, request, loop, page, owed, bounds>>

Accept(m) ==
  /\ sequence[m] # 0 /\ live[m] = "absent"
  /\ live' = [live EXCEPT ![m] = "pending"]
  /\ touches' = Append(touches, m)
  /\ Notify
  /\ UNCHANGED <<sequence, revision, replied, request, loop, page, owed, bounds>>

\* The engine moves an operation on and emits execution.state.
Advance == { <<"pending", "active">>, <<"pending", "failed">> } \union ({"active"} \X Ended)
EngineMoves(m, status) ==
  /\ <<live[m], status>> \in Advance /\ Taken < MaxRevision
  /\ live' = [live EXCEPT ![m] = status]
  /\ touches' = Append(touches, m)
  /\ UNCHANGED <<sequence, revision, replied, wire, request, loop, page, owed, bounds>>

\* Mistaken: the event is handled without touching its message.
HandleOnly ==
  /\ touches # <<>>
  /\ Notify
  /\ touches' = Tail(touches)
  /\ request' = [c \in Channels |->
       IF request[c].wait = 0 THEN request[c] ELSE [request[c] EXCEPT !.wait = @ - 1]]
  /\ UNCHANGED <<sequence, revision, replied, live, loop, page, owed, bounds>>

\* touchMessage, and with it one less event to await for a snapshot.
Touch ==
  /\ touches # <<>>
  /\ Revise(Head(touches)) /\ Notify
  /\ touches' = Tail(touches)
  /\ request' = [c \in Channels |->
       IF request[c].wait = 0 THEN request[c] ELSE [request[c] EXCEPT !.wait = @ - 1]]
  /\ UNCHANGED <<sequence, replied, live, loop, page, owed, bounds>>

\* finish: an answer is saved once the operation's events were awaited, an
\* error (in the catch of its owner, or when the Partner starts) at once.
Finish(m) ==
  /\ live[m] \in Ended /\ ~replied[m] /\ Taken < MaxRevision
  /\ live[m] = "completed" => \A k \in DOMAIN touches : touches[k] # m
  /\ replied' = [replied EXCEPT ![m] = TRUE]
  /\ Revise(m) /\ Notify
  /\ UNCHANGED <<sequence, live, touches, request, loop, page, owed, bounds>>

-----------------------------------------------------------------------------
(* snapshot(): the queued events, then the page, then the engine's status.  *)
FirstBy(S, key) == { m \in S : Cardinality({ n \in S : key[n] < key[m] }) < PageSize }

Newer == { m \in Saved : revision[m] > cursor }
Older == { m \in Saved : before = 0 \/ sequence[m] < before }

ChangePage == FirstBy(Newer, revision)
HistoryPage(S) == FirstBy(S, [m \in S |-> Cardinality(Saved) - sequence[m]])

RowsOf(P) == [m \in P |-> [revision |-> revision[m], replied |-> replied[m], status |-> "absent"]]

OldestOf(P) == IF P = {} THEN 0
               ELSE CHOOSE s \in { sequence[m] : m \in P } : \A m \in P : s =< sequence[m]

NewestRevision(P) == CHOOSE r \in { revision[m] : m \in P } : \A m \in P : revision[m] =< r

\* Mistaken: the cursor of the whole table although changes remain.
CursorOfTable(P) == Latest

\* The cursor is the last row's revision only when changes remain.
NextCursor(P) == IF P # Newer THEN NewestRevision(P) ELSE Latest

ChangesRead ==
  LET P == ChangePage IN
    [request["refresh"] EXCEPT !.stage = "paged", !.rows = RowsOf(P), !.more = (P # Newer),
       !.cursor = NextCursor(P)]

HistoryRead(c, S) ==
  LET P == HistoryPage(S) IN
    [request[c] EXCEPT !.stage = "paged", !.rows = RowsOf(P), !.more = (P # S),
       !.cursor = Latest, !.before = OldestOf(P)]

ReadPage(c) ==
  /\ request[c].stage = "sent" /\ request[c].wait = 0
  /\ request' = [request EXCEPT ![c] =
       IF c = "older" THEN HistoryRead(c, Older)
       ELSE IF loaded THEN ChangesRead ELSE HistoryRead(c, Saved)]
  /\ UNCHANGED <<server, wire, loop, page, owed, bounds>>

\* statuses.get(id) ?? (answer or error saved ? its outcome : 'pending')
StatusOf(m) == IF live[m] # "absent" THEN live[m] ELSE "pending"
Cancellable == { m \in Messages : live[m] \in {"pending", "active"} }

ReadStatus(c) ==
  /\ request[c].stage = "paged"
  /\ request' = [request EXCEPT ![c].stage = "ready", ![c].cancellable = Cancellable,
       ![c].rows = [m \in DOMAIN request[c].rows |->
                     [request[c].rows[m] EXCEPT !.status = StatusOf(m)]]]
  /\ UNCHANGED <<server, wire, loop, page, owed, bounds>>

-----------------------------------------------------------------------------
(* refresh(): one request at a time; a call meanwhile asks for another.     *)
Sent(isFresh) == [Idle EXCEPT !.stage = "sent", !.wait = Len(touches), !.fresh = isFresh]

\* Mistaken: a call during a request is dropped.
RefreshOrDrop(requests) ==
  IF refreshing
  THEN request' = requests /\ UNCHANGED loop
  ELSE /\ refreshing' = TRUE /\ refreshAgain' = FALSE
       /\ request' = [requests EXCEPT !["refresh"] = Sent(TRUE)]

Refresh(requests) ==
  IF refreshing
  THEN refreshAgain' = TRUE /\ request' = requests /\ UNCHANGED refreshing
  ELSE /\ refreshing' = TRUE /\ refreshAgain' = FALSE
       /\ request' = [requests EXCEPT !["refresh"] = Sent(TRUE)]

\* onopen; the server greets every stream with "changed".
Connect ==
  /\ stream = "closed"
  /\ stream' = "open" /\ changed' = TRUE /\ owed' = TRUE
  /\ Refresh([c \in Channels |-> [request[c] EXCEPT !.fresh = FALSE]])
  /\ UNCHANGED <<server, page, bounds>>

\* onmessage
Wake ==
  /\ changed /\ changed' = FALSE
  /\ Refresh(request)
  /\ UNCHANGED <<server, stream, page, owed, bounds>>

\* Mistaken: the last row to arrive wins.
MergeLast(rows) ==
  shown' = [m \in Messages |-> IF m \in DOMAIN rows THEN rows[m] ELSE shown[m]]

\* mergeMessages: a row replaces what is shown unless that is newer.
Merge(rows) ==
  shown' = [m \in Messages |->
    IF m \in DOMAIN rows /\ rows[m].revision >= shown[m].revision THEN rows[m] ELSE shown[m]]

Arrive ==
  LET batch == request["refresh"] IN
  /\ batch.stage = "ready"
  /\ IF loaded THEN UNCHANGED window
     ELSE before' = batch.before /\ hasMore' = batch.more
  /\ Merge(batch.rows)
  /\ cancellable' = batch.cancellable
  /\ cursor' = batch.cursor /\ loaded' = TRUE
  /\ LET again == refreshAgain \/ (loaded /\ batch.more) IN
       /\ refreshing' = again /\ refreshAgain' = FALSE
       /\ request' = [request EXCEPT !["refresh"] = IF again THEN Sent(TRUE) ELSE Idle]
  /\ owed' = (owed /\ ~batch.fresh)
  /\ UNCHANGED <<server, wire, bounds>>

\* The catch of refresh(): the loop ends, whatever was asked meanwhile.
RefreshFails ==
  /\ refreshing' = FALSE /\ UNCHANGED refreshAgain
  /\ request' = [request EXCEPT !["refresh"] = Idle]
  /\ owed' = (owed /\ ~request["refresh"].fresh)

OlderFails ==
  /\ request' = [request EXCEPT !["older"] = Idle]
  /\ UNCHANGED <<loop, owed>>

LoadOlder ==
  /\ request["older"].stage = "idle" /\ hasMore /\ before # 0
  /\ request' = [request EXCEPT !["older"] = Sent(FALSE)]
  /\ UNCHANGED <<server, wire, loop, page, owed, bounds>>

OlderArrives ==
  LET older == request["older"] IN
  /\ older.stage = "ready"
  /\ Merge(older.rows)
  /\ before' = older.before /\ hasMore' = older.more
  /\ request' = [request EXCEPT !["older"] = Idle]
  /\ UNCHANGED <<server, wire, loop, loaded, cursor, cancellable, owed, bounds>>

-----------------------------------------------------------------------------
(* The network and the process.                                             *)
FailsIn(c) == IF c = "refresh" THEN RefreshFails ELSE OlderFails

Fail(c) ==
  /\ request[c].stage \in {"sent", "paged", "ready"} /\ failures < MaxFailures
  /\ FailsIn(c)
  /\ failures' = failures + 1
  /\ UNCHANGED <<server, wire, page, breaks, restarts>>

Lost(c) ==
  /\ request[c].stage = "lost"
  /\ FailsIn(c)
  /\ UNCHANGED <<server, wire, page, bounds>>

Break ==
  /\ stream = "open" /\ breaks < MaxBreaks
  /\ stream' = "closed" /\ changed' = FALSE
  /\ breaks' = breaks + 1
  /\ UNCHANGED <<server, request, loop, page, owed, failures, restarts>>

\* The events not yet handled die with the process; the engine's state does not.
Restart ==
  /\ restarts < MaxRestarts
  /\ restarts' = restarts + 1
  /\ touches' = <<>>
  /\ stream' = "closed" /\ changed' = FALSE
  /\ request' = [c \in Channels |->
       IF request[c].stage = "idle" THEN Idle ELSE [Idle EXCEPT !.stage = "lost", !.fresh = request[c].fresh]]
  /\ UNCHANGED <<sequence, revision, replied, live, loop, page, owed, breaks, failures>>

Next ==
  \/ \E m \in Messages : Admit(m) \/ Accept(m) \/ Finish(m)
  \/ \E m \in Messages, status \in Statuses : EngineMoves(m, status)
  \/ Touch
  \/ Connect \/ Wake \/ Arrive \/ LoadOlder \/ OlderArrives
  \/ \E c \in Channels : ReadPage(c) \/ ReadStatus(c) \/ Lost(c) \/ Fail(c)
  \/ Break \/ Restart

(* The engine accepts what it is handed, the server handles its events and  *)
(* answers requests, the browser runs its callbacks, delivers messages and  *)
(* reconnects a lost event source.                                          *)
Fairness ==
  /\ \A m \in Messages : WF_vars(Accept(m))
  /\ WF_vars(Touch) /\ WF_vars(Connect) /\ WF_vars(Wake) /\ WF_vars(Arrive)
  /\ \A c \in Channels : WF_vars(ReadPage(c)) /\ WF_vars(ReadStatus(c)) /\ WF_vars(Lost(c))

Safety == Init /\ [][Next]_vars
Spec == Safety /\ Fairness

-----------------------------------------------------------------------------
(* The page misses nothing it has moved past: every message in the loaded   *)
(* window whose last change the cursor covers is shown as it is now saved,  *)
(* although change batches are cut at a page and older history arrives      *)
(* independently (docs/partner-runtime.md:120-131, store.ts:66-76).         *)
InWindow(m) == hasMore => sequence[m] >= before
Complete ==
  loaded => \A m \in Saved :
    (revision[m] =< cursor /\ InWindow(m)) =>
      shown[m].revision = revision[m] /\ shown[m].replied = replied[m]

(* Nothing shown ever goes back: no batch, late or repeated, replaces a row *)
(* by an earlier one or takes a reply away (message-pages.ts:1-9).          *)
NeverRegresses ==
  [][\A m \in Messages : /\ shown'[m].revision >= shown[m].revision
                         /\ shown[m].replied => shown'[m].replied]_shown

(* Once the page has caught up, what no revision records is current too:    *)
(* each status, and what can be cancelled, because a snapshot reads the     *)
(* page before the engine (partner.ts:162-168).  A process that died may    *)
(* have lost an event, even of an error already saved (partner.ts:122-127); *)
(* then this holds once the replies are saved.                              *)
CaughtUp == loaded /\ cursor = Latest /\ touches = <<>>
CurrentWhenCaughtUp ==
  (CaughtUp /\ (restarts = 0 \/ \A m \in Saved : replied[m])) =>
    /\ cancellable = Cancellable
    /\ \A m \in Messages : shown[m].revision # 0 => shown[m].status = StatusOf(m)

(* As long as no request fails every change reaches the page, over batches  *)
(* cut at a page, coalesced wake-ups and lost streams                       *)
(* (+page.svelte:58-74, server.ts:82-95).                                   *)
EveryChangeArrives ==
  \A r \in 1..MaxRevision : (Latest >= r) ~> ((loaded /\ cursor >= r) \/ failures > 0)

(* "Reconnect always obtains an authoritative snapshot" (server.ts:85-86):  *)
(* a stream that stays open is followed by a snapshot asked for since,      *)
(* unless that very request fails.                                          *)
ReconnectRefreshes == owed ~> (~owed \/ stream = "closed")
=============================================================================
