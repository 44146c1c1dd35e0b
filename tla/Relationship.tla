---------------------------- MODULE Relationship ----------------------------
(***************************************************************************)
(* The relationship ledger of the Partner: Store.updateRelationship        *)
(* (apps/partner/runtime/store.ts) as it is driven by the Companion tools  *)
(* (runtime/tools/companion.ts) during conversation turns.                 *)
(*                                                                         *)
(* Each tool call appends one row inside one SQLite transaction, keyed by  *)
(* `operation:callId`.  A turn interrupted by a crash is run again by the  *)
(* engine under the same operation and may repeat its calls.  Mood and     *)
(* signature are carried from row to row and never influence affinity;     *)
(* they are left out, and a call that only sets them has no delta.         *)
(***************************************************************************)
EXTENDS Integers, Sequences, FiniteSets

CONSTANTS
  Calls,      \* tool call identifiers the engine hands out within a turn
  Deltas,     \* affinity deltas the tool schema lets through
  Ceiling,    \* the largest affinity, 100 in the program (the smallest is 0)
  Baseline,   \* the affinity before any row exists, 50 in the program
  Stride,     \* the movement allowed per turn, 10 in the program
  NoDelta,    \* the call sets mood or signature only
  MaxTurns    \* bound: number of conversation turns

ASSUME LedgerAssumption ==
  /\ Ceiling \in Nat /\ Baseline \in 0..Ceiling /\ Stride \in Nat
  /\ Deltas \subseteq Int /\ NoDelta \notin Int
  /\ MaxTurns \in Nat \ {0}

VARIABLES
  history,   \* the relationship table in rowid order
  turn,      \* the operation the engine is executing; survives a restart
  current,   \* currentOperationId of the process, 0 while it is ''
  reply      \* the last answer a tool call received: <<operation, call, affinity>>

vars == <<history, turn, current, reply>>

Entry == [operation: 1..MaxTurns, call: Calls, previous: 0..Ceiling, affinity: 0..Ceiling]

NoReply == <<>>

TypeOK ==
  /\ history \in Seq(Entry)
  /\ turn \in 1..MaxTurns
  /\ current \in 0..MaxTurns
  /\ reply = NoReply \/ reply \in (1..MaxTurns) \X Calls \X (0..Ceiling)

Init ==
  /\ history = <<>>
  /\ turn = 1
  /\ current = 0
  /\ reply = NoReply

-----------------------------------------------------------------------------
AtLeast(low, value) == IF value < low THEN low ELSE value
AtMost(high, value) == IF value > high THEN high ELSE value

\* The range affinity is held to; the value is already an integer here.
ClampAffinity(value) == AtLeast(0, AtMost(Ceiling, value))

\* The affinity the next row starts from: the last row's, or the default state.
Latest == IF history = <<>> THEN Baseline ELSE history[Len(history)].affinity

\* Positions of the first row an operation wrote (none, or one).
Firsts(o) == { i \in DOMAIN history :
                 /\ history[i].operation = o
                 /\ \A j \in 1..(i - 1) : history[j].operation # o }

\* Mistaken: movement is measured from the last row, call by call.
BasesPerCall(o) == {Latest}

\* The affinity the movement of operation o is measured from.
Bases(o) == IF Firsts(o) = {} THEN {Latest} ELSE { history[i].previous : i \in Firsts(o) }

Moved(base, delta) ==
  ClampAffinity(AtLeast(base - Stride, AtMost(base + Stride, Latest + delta)))

\* Mistaken: call ids are looked up in the last row only.
LastRow(o, c) == { i \in {Len(history)} \cap DOMAIN history :
                     history[i].operation = o /\ history[i].call = c }

Rows(o, c) == { i \in DOMAIN history : history[i].operation = o /\ history[i].call = c }

-----------------------------------------------------------------------------
(* A model call of the running operation begins: resolveContext publishes   *)
(* the operation to the tools.                                              *)
ResolveContext ==
  /\ current' = turn
  /\ UNCHANGED <<history, turn, reply>>

\* Mistaken: a repeated call is answered with the newest state.
RepeatWithLatest(c) ==
  /\ current # 0
  /\ Rows(current, c) # {} /\ reply' = <<current, c, Latest>>
  /\ UNCHANGED <<history, turn, current>>

\* The call was applied before: its stored state is returned, nothing is written.
RepeatUpdate(c) ==
  /\ current # 0
  /\ \E i \in Rows(current, c) : reply' = <<current, c, history[i].affinity>>
  /\ UNCHANGED <<history, turn, current>>

\* A first call: one row is appended, its affinity held to the turn's range.
Update(c, delta) ==
  /\ current # 0
  /\ Rows(current, c) = {}
  /\ \E base \in Bases(current) :
       LET affinity == IF delta = NoDelta THEN Latest ELSE Moved(base, delta)
       IN /\ history' = Append(history, [operation |-> current, call |-> c,
                                         previous |-> Latest, affinity |-> affinity])
          /\ reply' = <<current, c, affinity>>
  /\ UNCHANGED <<turn, current>>

(* The engine finishes an operation and starts the next one it has queued.  *)
(* Until that one reaches its first model call the process still holds the  *)
(* previous operation's id.                                                 *)
NextTurn ==
  /\ turn < MaxTurns
  /\ turn' = turn + 1
  /\ UNCHANGED <<history, current, reply>>

\* The process dies: the committed rows and the running operation remain.
Crash ==
  /\ current' = 0
  /\ reply' = NoReply
  /\ UNCHANGED <<history, turn>>

Next ==
  \/ ResolveContext
  \/ \E c \in Calls : RepeatUpdate(c)
  \/ \E c \in Calls : \E delta \in Deltas \union {NoDelta} : Update(c, delta)
  \/ NextTurn
  \/ Crash

Spec == Init /\ [][Next]_vars

-----------------------------------------------------------------------------
(* Per-turn movement: whatever calls a turn makes, repeated or retried after *)
(* a crash, every row it writes stays within Stride of the affinity before   *)
(* its first row (docs/partner-runtime.md:63, tools/companion.ts:15).        *)
TurnBound ==
  \A j \in DOMAIN history : \A i \in Firsts(history[j].operation) :
    /\ history[j].affinity =< history[i].previous + Stride
    /\ history[j].affinity >= history[i].previous - Stride

(* Retries count once: no operation has two rows for one call, so a call the *)
(* engine repeats after a restart never moves affinity a second time.        *)
CallsApplyOnce ==
  \A i, j \in DOMAIN history :
    /\ history[i].operation = history[j].operation
    /\ history[i].call = history[j].call
    => i = j

(* A tool call is answered with the state its own row holds, also when the   *)
(* answer comes from an earlier incarnation of the process.                  *)
ReplyMatchesLedger ==
  reply # NoReply =>
    \E i \in DOMAIN history :
      reply = <<history[i].operation, history[i].call, history[i].affinity>>

(* Whatever is repeated after a crash, a call moves the ledger once and is   *)
(* always answered with what it did then (store.ts:112, 124-129).            *)
RetriesAgree == CallsApplyOnce /\ ReplyMatchesLedger
=============================================================================
