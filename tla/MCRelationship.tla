--------------------------- MODULE MCRelationship ---------------------------
(* What the tools of a turn keep, for TLC: a behaviour is one of the        *)
(* relationship ledger or one of the images, which share no state.          *)
(* Two calls per turn and three turns: a turn can exhaust its movement with *)
(* its first call and try again with its second, and three upward turns     *)
(* reach the ceiling.  The scale is reduced from 0..100, 50 and 10.         *)
EXTENDS Relationship, Attachments

ScaledDeltas == {-2, 1, 2}

VARIABLE part

PartInit == part \in {"ledger", "images"} /\ Init /\ AttachmentsInit

PartNext ==
  /\ UNCHANGED part
  /\ \/ part = "ledger" /\ Next /\ UNCHANGED attachedVars
     \/ part = "images" /\ AttachmentsNext /\ UNCHANGED vars

PartSpec == PartInit /\ [][PartNext]_<<part, vars, attachedVars>>
=============================================================================
