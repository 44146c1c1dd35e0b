---------------------------- MODULE Conversation ----------------------------
(***************************************************************************)
(* What the Partner promises about a message, without its process, store   *)
(* or engine.  A message takes the next place in the conversation and      *)
(* keeps it.  It gets one outcome, which never changes.  A delivery is     *)
(* confirmed only for a message that has its place, and "cancelled" is the *)
(* outcome of a message only after the user asked to stop it.              *)
(***************************************************************************)
EXTENDS Naturals, FiniteSets

CONSTANT Messages

VARIABLES
  place,      \* position in the conversation, 0 before it is part of it
  outcome,    \* "none", "open", or how it ended
  confirmed,  \* messages whose delivery was confirmed to the sender
  stopped     \* messages the user asked to stop

cvars == <<place, outcome, confirmed, stopped>>

Outcomes == {"answered", "failed", "cancelled"}

Start0 ==
  /\ place = [m \in Messages |-> 0]
  /\ outcome = [m \in Messages |-> "none"]
  /\ confirmed = {} /\ stopped = {}

Say(m) ==
  /\ place[m] = 0
  /\ place' = [place EXCEPT ![m] = Cardinality({ n \in Messages : place[n] # 0 }) + 1]
  /\ outcome' = [outcome EXCEPT ![m] = "open"]
  /\ UNCHANGED <<confirmed, stopped>>

Confirm(m) ==
  /\ place[m] # 0
  /\ confirmed' = confirmed \union {m}
  /\ UNCHANGED <<place, outcome, stopped>>

Stop(m) ==
  /\ outcome[m] = "open"
  /\ stopped' = stopped \union {m}
  /\ UNCHANGED <<place, outcome, confirmed>>

Settle(m, o) ==
  /\ outcome[m] = "open"
  /\ o = "cancelled" => m \in stopped
  /\ outcome' = [outcome EXCEPT ![m] = o]
  /\ UNCHANGED <<place, confirmed, stopped>>

Step ==
  \E m \in Messages :
    \/ Say(m) \/ Confirm(m) \/ Stop(m)
    \/ \E o \in Outcomes : Settle(m, o)

SafetySpec == Start0 /\ [][Step]_cvars
=============================================================================
