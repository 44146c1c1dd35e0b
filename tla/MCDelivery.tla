----------------------------- MODULE MCDelivery -----------------------------
(* Delivery, for TLC: the dependency update, the publication of images and  *)
(* the container that runs one are three systems that share no state while  *)
(* they run; a behaviour is a behaviour of one of them.                     *)
EXTENDS Publication, Container

VARIABLE part

Init ==
  /\ part \in {"update", "publication", "container"}
  /\ UpdateInit /\ PublicationInit /\ ContainerInit
  /\ part # "container" => volume = {}

Next ==
  /\ UNCHANGED part
  /\ \/ part = "update" /\ UpdateNext /\ UNCHANGED <<publicationVars, containerVars>>
     \/ part = "publication" /\ PublicationNext /\ UNCHANGED <<updateVars, containerVars>>
     \/ part = "container" /\ ContainerNext /\ UNCHANGED <<updateVars, publicationVars>>

Spec == Init /\ [][Next]_<<part, updateVars, publicationVars, containerVars>> /\ ContainerFairness
=============================================================================
