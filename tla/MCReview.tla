------------------------------ MODULE MCReview ------------------------------
(* Proposals from the middle of a review, where two branches have changed    *)
(* the same file: the shortest behaviours that matter here are long.         *)
EXTENDS MCProposals

CONSTANT Both   \* what a file says once two changes of it are reconciled

\* Two branches have changed the same file since the project was empty.  The
\* proposal of the first is merged and its branch deleted; the proposal of
\* the second has the given status, and the calls of told, which tried to
\* merge it, were answered with the conflict.  Thirteen steps without a failure
\* lead from Init to it (sixteen with a call in told); starting here leaves
\* calls for what follows.
TwoBranches(status, told) ==
  \E v, w \in WriteReq, p, q \in ProposeReq, m \in MergeReq \ told, b, c \in Branch,
     x, y \in Content \ {Blank, Both} :
    /\ v # w /\ p # q /\ b # c /\ x # y
    /\ solo = FALSE
    /\ main = [log |-> {v, m}, files |-> [f \in File |-> x]]
    /\ branch = [NoBranches EXCEPT ![c] = [live |-> TRUE, log |-> {w}, base |-> NoFiles,
                                           files |-> [f \in File |-> y]]]
    /\ prop = [NoRows EXCEPT ![p] = [status |-> "merged", branch |-> b],
                             ![q] = [status |-> status, branch |-> c]]
    /\ req = [r \in Request |->
                CASE r \in {v, m} -> [IdleReq EXCEPT !.pc = "acked", !.branch = b, !.prop = p]
                  [] r = w        -> [IdleReq EXCEPT !.pc = "acked", !.branch = c]
                  [] r \in {p, q} -> [IdleReq EXCEPT !.pc = "acked"]
                  [] r \in told   -> [IdleReq EXCEPT !.pc = "conflict", !.branch = c, !.prop = q]
                  [] OTHER        -> IdleReq]
    /\ lock = None

InReview == TwoBranches("open", {})
InReviewSpec == InReview /\ [][Next]_vars

InConflict == \E d \in MergeReq : TwoBranches("conflicted", {d})
InConflictSpec == InConflict /\ [][Next]_vars

\* "reconcile whole files with ubiqo_write_artifact, then merge again": once
\* the proposer has replaced the conflicting files by what main and the branch
\* say together, a merge meets no conflict.
ReconcileThenMerge ==
  \A m \in MergeReq :
    At(m, "reporting") => \E f \in File : branch[req[m].branch].files[f] # Both
==============================================================================
