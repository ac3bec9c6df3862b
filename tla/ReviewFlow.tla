------------------------------ MODULE ReviewFlow ------------------------------
(***************************************************************************)
(* What the review flow of a project promises, without saying how: changes *)
(* wait on a branch; they reach main together, all that wait on the branch *)
(* at once and nothing else; only a branch that was merged is ever emptied *)
(* otherwise; and a proposal is marked merged only when its branch was.    *)
(* Module Proposals implements this with git, a mutex and a table.         *)
(***************************************************************************)
CONSTANTS
  Change,     \* what callers write
  Topic,      \* the branches changes wait on
  Proposal    \* requests to merge a branch

VARIABLES
  landed,     \* the changes on main
  waiting,    \* per branch, its changes that are not on main
  merged,     \* the branches that were merged at least once
  proposed,   \* per proposal, its branch and status
  direct      \* solo mode: changes go to main and nothing waits

flow == <<landed, waiting, merged, proposed, direct>>

FlowInit ==
  /\ landed = {} /\ merged = {} /\ direct \in BOOLEAN
  /\ waiting = [t \in Topic |-> {}]
  /\ \A p \in Proposal : proposed[p].status = "none"

Contribute(t, c) ==
  /\ ~direct /\ c \notin landed /\ \A u \in Topic : c \notin waiting[u]
  /\ waiting' = [waiting EXCEPT ![t] = @ \cup {c}]
  /\ UNCHANGED <<landed, merged, proposed, direct>>

Commit(c) ==
  /\ direct /\ c \notin landed
  /\ landed' = landed \cup {c}
  /\ UNCHANGED <<waiting, merged, proposed, direct>>

Open(p, t) ==
  /\ ~direct /\ proposed[p].status = "none"
  /\ proposed' = [proposed EXCEPT ![p] = [status |-> "open", branch |-> t]]
  /\ UNCHANGED <<landed, waiting, merged, direct>>

Land(t) ==
  /\ \E p \in Proposal : proposed[p].status # "none" /\ proposed[p].branch = t
  /\ landed' = landed \cup waiting[t]
  /\ waiting' = [waiting EXCEPT ![t] = {}]
  /\ merged' = merged \cup {t}
  /\ UNCHANGED <<proposed, direct>>

\* A branch is deleted after its merge, with what came in between.
Discard(t) ==
  /\ t \in merged
  /\ waiting' = [waiting EXCEPT ![t] = {}]
  /\ UNCHANGED <<landed, merged, proposed, direct>>

\* Any answer may be recorded of a proposal that was opened, merged only of a
\* merged branch.
Mark(p, status) ==
  /\ proposed[p].status # "none"
  /\ status = "merged" => proposed[p].branch \in merged
  /\ proposed' = [proposed EXCEPT ![p].status = status]
  /\ UNCHANGED <<landed, waiting, merged, direct>>

FlowNext ==
  \/ \E c \in Change : Commit(c) \/ \E t \in Topic : Contribute(t, c)
  \/ \E t \in Topic : Land(t) \/ Discard(t)
  \/ \E p \in Proposal : \/ \E t \in Topic : Open(p, t)
                         \/ \E status \in {"merged", "conflicted"} : Mark(p, status)

FlowSpec == FlowInit /\ [][FlowNext]_flow
==============================================================================
