--------------------------- MODULE MCMessageFeed ---------------------------
(* Instances of MessageFeed for TLC.                                        *)
EXTENDS MessageFeed, TLC

\* The messages are interchangeable in the safety runs.
Symmetry == Permutations(Messages)
=============================================================================
