---------------------------- MODULE ProposalsFsck ----------------------------
(***************************************************************************)
(* The part of `ubiqo fsck' (cmd/ubiqo/ops.go) that looks at proposals, a  *)
(* process beside the server of module Proposals: it lists the branches,   *)
(* then the open rows, and prints the rows that name no branch it listed.  *)
(* It takes no lock and changes neither git nor the database.              *)
(***************************************************************************)
EXTENDS Proposals

VARIABLES
  fsckPC,
  have,     \* the branches listed
  orphans,  \* the proposals it has printed as ORPHAN
  alone     \* for the property: no call has taken a step since it began

fsckVars == <<fsckPC, have, orphans, alone>>

FsckInit == Init /\ fsckPC = "idle" /\ have = {} /\ orphans = {} /\ alone = FALSE

\* Git.Branches; on an error the project is left at that.
FsckBranches ==
  /\ fsckPC = "idle"
  /\ \/ fsckPC' = "listed" /\ have' = {b \in Branch : branch[b].live}
     \/ fsckPC' = "skipped" /\ UNCHANGED have
  /\ alone' = TRUE
  /\ UNCHANGED <<vars, orphans>>

\* DB.ListProposals of the open rows, and what is printed.
FsckReport ==
  /\ fsckPC = "listed"
  /\ fsckPC' = "done"
  /\ orphans' = {p \in ProposeReq : prop[p].status = "open" /\ prop[p].branch \notin have}
  /\ UNCHANGED <<vars, have, alone>>

FsckNext ==
  \/ FsckBranches
  \/ FsckReport
  \/ Next /\ alone' = FALSE /\ UNCHANGED <<fsckPC, have, orphans>>

FsckSpec == FsckInit /\ [][FsckNext]_<<vars, fsckVars>>

-----------------------------------------------------------------------------
(* Properties.                                                              *)

Quiet == \A r \in Request : req[r].pc \in Ended \cup {"idle"}
Landed(p) == \E m \in MergeReq \cap main.log : req[m].prop = p

\* "Rebuildable via `ubiqo fsck`": when fsck ends, and no call was under way
\* while it ran, no row waits to be merged whose proposal is merged in git.
FsckRebuildsRows ==
  [][fsckPC = "listed" /\ fsckPC' = "done" /\ alone /\ Quiet =>
       \A p \in ProposeReq : Landed(p) => prop'[p].status = "merged"]_<<vars, fsckVars>>
==============================================================================
