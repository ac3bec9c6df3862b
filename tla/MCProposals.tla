---------------------------- MODULE MCProposals ----------------------------
(* Proposals on small instances.  Calls of one kind are interchangeable,      *)
(* except the proposals: Init names one of them.                             *)
EXTENDS Proposals, TLC

CallSymmetry == Permutations(WriteReq) \cup Permutations(MergeReq)
==============================================================================
