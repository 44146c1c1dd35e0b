---------------------------- MODULE MCPartnerHost ----------------------------
(* Instances of PartnerHost: two messages and three submit calls, so that a   *)
(* message is retried while another one is queued.                           *)
EXTENDS PartnerHost, TLC

Symmetry == Permutations(Ids) \union Permutations(Texts)
=============================================================================
