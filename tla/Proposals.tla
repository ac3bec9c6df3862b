------------------------------ MODULE Proposals ------------------------------
(***************************************************************************)
(* The shared plane of one project: its git repository (internal/gitstore) *)
(* with main and one proposal branch per user and artifact, the table      *)
(* merge_proposals, and the calls that change them (internal/core):        *)
(* WriteArtifact, ProposeMerge and MergeProposal.                          *)
(*                                                                         *)
(* A mutation of the repository holds the repository's mutex from the      *)
(* clone to the push.  MergeProposal is longer than that: it reads the     *)
(* row before it takes the mutex, and marks the row and deletes the branch *)
(* after it released it (DeleteBranch takes it again).  A call may end     *)
(* between any two steps: git or the database fails, the client goes away  *)
(* and its context kills git, or the server dies.                          *)
(*                                                                         *)
(* A commit is named by the call that made it, and a ref is the set of     *)
(* commits reachable from it with the tree at its tip.  A "file" is what   *)
(* git merges as one piece: it conflicts when main and the branch both     *)
(* changed it since their merge base, and not to the same content.         *)
(***************************************************************************)
EXTENDS Authz

CONSTANTS
  WriteReq,    \* calls of ubiqo_write_artifact
  ProposeReq,  \* calls of ubiqo_propose_merge; each names the row it inserts
  MergeReq,    \* calls of ubiqo_merge_proposal
  Branch,      \* the branches u/<user>/<artifact>
  File, Content, Blank,  \* Blank is the content of a file that is not there
  None         \* no call holds the mutex

Request == WriteReq \cup ProposeReq \cup MergeReq

ASSUME RequestAssumption ==
  /\ WriteReq \cap ProposeReq = {} /\ WriteReq \cap MergeReq = {}
  /\ ProposeReq \cap MergeReq = {} /\ None \notin Request
ASSUME DataAssumption ==
  Blank \in Content /\ Branch # {} /\ ProposeReq # {}

VARIABLES
  solo,    \* database: the project's mode, fixed when it is created
  main,    \* git: refs/heads/main
  branch,  \* git: the proposal branches
  prop,    \* database: the rows of merge_proposals
  req,     \* the calls and where each stands
  lock     \* the repository's mutex: the call that holds it, or None

vars == <<solo, main, branch, prop, req, lock>>

Tree == [File -> Content]
NoFiles == [f \in File |-> Blank]

\* A clone with its own commit: the commits and the tree to push.  base is
\* the tree at the merge base of main and the branch.
Clone == [log : SUBSET Request, base : Tree, files : Tree]
NoClone == [log |-> {}, base |-> NoFiles, files |-> NoFiles]

BranchState == [live : BOOLEAN, log : SUBSET Request, base : Tree, files : Tree]
NoBranch == [live |-> FALSE, log |-> {}, base |-> NoFiles, files |-> NoFiles]

Status == {"none", "open", "merged", "conflicted"}
Row == [status : Status, branch : Branch]

\* "acked" and "conflict" are answers to the caller, "failed" is an error.
Ended == {"acked", "conflict", "failed"}
ReqPC == {"idle", "waiting", "pushing", "recording", "reporting", "deleting"} \cup Ended

\* files: what a write was asked to write; prop: the proposal to merge.
ReqState ==
  [pc : ReqPC, branch : Branch, files : Tree, prop : ProposeReq, tmp : Clone]

AnyBranch == CHOOSE b \in Branch : TRUE
IdleReq == [pc |-> "idle", branch |-> AnyBranch, files |-> NoFiles,
            prop |-> CHOOSE p \in ProposeReq : TRUE, tmp |-> NoClone]
NoBranches == [b \in Branch |-> NoBranch]
NoRows == [p \in ProposeReq |-> [status |-> "none", branch |-> AnyBranch]]

Init ==
  /\ solo \in BOOLEAN
  /\ main = [log |-> {}, files |-> NoFiles]
  /\ branch = NoBranches
  /\ prop = NoRows
  /\ req = [r \in Request |-> IdleReq]
  /\ lock = None

At(r, pc) == req[r].pc = pc
Go(r, pc) == req' = [req EXCEPT ![r].pc = pc]
\* A call leaves the git store with its temporary clone removed.
Return(r, pc) == req' = [req EXCEPT ![r].pc = pc, ![r].tmp = NoClone, ![r].files = NoFiles]

\* Variants that are wrong, to see which properties notice: a mutex that is
\* not waited for, and one that an error leaves locked.
LockAtOnce(r) == lock' = r
UnlockForgotten(r) == UNCHANGED lock

Lock(r) == lock = None /\ lock' = r
Unlock(r) == lock' = IF lock = r THEN None ELSE lock

\* projectCtx and gate, for some caller.
MayPass(action) ==
  \E o \in OrgRole, p \in ProjectRole : Can(EffectiveRole(o, p), action)

-----------------------------------------------------------------------------
(* WriteArtifact: Git.WriteFiles on the caller's branch, or on main in solo *)
(* mode.                                                                    *)

\* The files that are written overwrite whole files of the tree.
Overwrite(tree, files) == [f \in File |-> IF files[f] # Blank THEN files[f] ELSE tree[f]]

WriteBegin(w, b, files) ==
  /\ At(w, "idle") /\ MayPass("artifact.write")
  /\ \E f \in File : files[f] # Blank
  /\ req' = [req EXCEPT ![w].pc = "waiting", ![w].branch = b, ![w].files = files]
  /\ UNCHANGED <<solo, main, branch, prop, lock>>

MainTip == [log |-> main.log, base |-> main.files, files |-> main.files]
BranchTip(b) ==
  [log |-> branch[b].log, base |-> branch[b].base, files |-> branch[b].files]

\* What clone may start from: it takes every failure to clone the branch for
\* a branch that is not there yet, and begins it anew from main.
Tips(b) == IF solo \/ ~branch[b].live THEN {MainTip} ELSE {BranchTip(b), MainTip}

\* The mutex, the clone, the files and the commit.
WriteClone(w) ==
  /\ At(w, "waiting") /\ Lock(w)
  /\ \E tip \in Tips(req[w].branch) :
       req' = [req EXCEPT ![w].pc = "pushing",
                 ![w].tmp = [log |-> tip.log \cup {w}, base |-> tip.base,
                             files |-> Overwrite(tip.files, req[w].files)]]
  /\ UNCHANGED <<solo, main, branch, prop>>

\* Wrong: the mode forgotten, in one way and in the other, and the push forced.
WriteToMain(w) ==
  LET c == req[w].tmp
  IN  /\ At(w, "pushing")
      /\ main' = [log |-> c.log, files |-> c.files]
      /\ Return(w, "acked") /\ Unlock(w)
      /\ UNCHANGED <<solo, branch, prop>>

WriteToBranch(w) ==
  LET b == req[w].branch
      c == req[w].tmp
  IN  /\ At(w, "pushing")
      /\ branch' = [branch EXCEPT ![b] =
                      [live |-> TRUE, log |-> c.log, base |-> c.base, files |-> c.files]]
      /\ Return(w, "acked") /\ Unlock(w)
      /\ UNCHANGED <<solo, main, prop>>

\* The push, and the end of the call: events are best effort.  git refuses the
\* push of a write that began an existing branch anew.  The git process may be
\* killed once the ref is updated: the caller gets an error.
WritePush(w) ==
  LET b == req[w].branch
      c == req[w].tmp
      old == IF solo THEN main.log ELSE branch[b].log
  IN  /\ At(w, "pushing")
      /\ \/ /\ old \subseteq c.log
            /\ Return(w, "acked") \/ Return(w, "failed")
            /\ IF solo
               THEN main' = [log |-> c.log, files |-> c.files] /\ UNCHANGED branch
               ELSE /\ branch' = [branch EXCEPT ![b] = [live |-> TRUE, log |-> c.log,
                                                        base |-> c.base, files |-> c.files]]
                    /\ UNCHANGED main
         \/ ~(old \subseteq c.log) /\ Return(w, "failed") /\ UNCHANGED <<main, branch>>
      /\ Unlock(w)
      /\ UNCHANGED <<solo, prop>>

-----------------------------------------------------------------------------
(* ProposeMerge: one row.  Neither the branch nor another row is looked at. *)

Propose(p, b) ==
  /\ At(p, "idle") /\ MayPass("proposal.create")
  /\ IF solo
     THEN Return(p, "failed") /\ UNCHANGED prop
     ELSE /\ prop' = [prop EXCEPT ![p] = [status |-> "open", branch |-> b]]
          /\ Return(p, "acked") \/ Return(p, "failed")
  /\ UNCHANGED <<solo, main, branch, lock>>

-----------------------------------------------------------------------------
(* MergeProposal.                                                          *)

\* Wrong: the status is left to whoever merges.
MergeBeginUnchecked(m, p) ==
  /\ At(m, "idle") /\ MayPass("proposal.merge")
  /\ IF prop[p].status # "none"
     THEN req' = [req EXCEPT ![m].pc = "waiting", ![m].prop = p, ![m].branch = prop[p].branch]
     ELSE Return(m, "failed")
  /\ UNCHANGED <<solo, main, branch, prop, lock>>

\* gate, DB.GetProposal and the check of the status.
MergeBegin(m, p) ==
  /\ At(m, "idle") /\ MayPass("proposal.merge")
  /\ IF prop[p].status \in {"open", "conflicted"}
     THEN req' = [req EXCEPT ![m].pc = "waiting", ![m].prop = p, ![m].branch = prop[p].branch]
     ELSE Return(m, "failed")
  /\ UNCHANGED <<solo, main, branch, prop, lock>>

Conflicts(ours, theirs, base) ==
  {f \in File : ours[f] # base[f] /\ theirs[f] # base[f] /\ ours[f] # theirs[f]}

Merged(ours, theirs, base) ==
  [f \in File |-> IF theirs[f] = base[f] THEN ours[f] ELSE theirs[f]]

\* Wrong: the branch wins (git merge -X theirs).
TheirsWin(b) == {}

\* The files `git merge' of branch b into main leaves unmerged.
UnmergedFiles(b) == Conflicts(main.files, branch[b].files, branch[b].base)

\* Git.Merge up to the push: the mutex, a clone of main, and `git merge
\* --no-ff origin/<branch>', which makes a commit unless the branch is an
\* ancestor of main already.  Without the branch it is an error; conflicts
\* are aborted and returned.  Both release the mutex.
MergeClone(m) ==
  LET t == branch[req[m].branch]
      upToDate == t.log \subseteq main.log
      unmerged == UnmergedFiles(req[m].branch)
  IN  /\ At(m, "waiting") /\ lock = None
      /\ \/ /\ ~t.live
            /\ Return(m, "failed") /\ UNCHANGED lock
         \/ /\ t.live /\ ~upToDate /\ unmerged # {}
            /\ Return(m, "reporting") /\ UNCHANGED lock
         \/ /\ t.live /\ upToDate
            /\ Lock(m)
            /\ req' = [req EXCEPT ![m].pc = "pushing",
                         ![m].tmp = [log |-> main.log, base |-> t.files, files |-> main.files]]
         \/ /\ t.live /\ ~upToDate /\ unmerged = {}
            /\ Lock(m)
            /\ req' = [req EXCEPT ![m].pc = "pushing",
                         ![m].tmp = [log |-> main.log \cup t.log \cup {m}, base |-> t.files,
                                     files |-> Merged(main.files, t.files, t.base)]]
      /\ UNCHANGED <<solo, main, branch, prop>>

\* Wrong: the error of the push ignored.
MergePushBestEffort(m) ==
  LET c == req[m].tmp
  IN  /\ At(m, "pushing")
      /\ main' = [log |-> c.log, files |-> c.files] \/ UNCHANGED main
      /\ Go(m, "recording") /\ Unlock(m)
      /\ UNCHANGED <<solo, branch, prop>>

\* Wrong: a squash merge, whose commit has no parent on the branch.
MergePushSquashed(m) ==
  /\ At(m, "pushing")
  /\ main' = [log |-> main.log \cup {m}, files |-> req[m].tmp.files]
  /\ Go(m, "recording") /\ Unlock(m)
  /\ UNCHANGED <<solo, branch, prop>>

\* The push to main, after which the merged tip of the branch is the merge
\* base; the mutex is released.  As in WritePush, an error may hide a push.
MergePush(m) ==
  LET b == req[m].branch
      c == req[m].tmp
  IN  /\ At(m, "pushing") /\ main.log \subseteq c.log
      /\ main' = [log |-> c.log, files |-> c.files]
      /\ branch' = [branch EXCEPT ![b] = IF @.live THEN [@ EXCEPT !.base = c.base] ELSE @]
      /\ Go(m, "recording") \/ Return(m, "failed")
      /\ Unlock(m)
      /\ UNCHANGED <<solo, prop>>

\* Wrong: a status the table's CHECK does not list.
SetResolved(p, status) == prop' = [prop EXCEPT ![p].status = "resolved"]

SetStatus(p, status) == prop' = [prop EXCEPT ![p].status = status]

\* DB.ResolveProposal by id, whatever the row says by now; its error, and
\* that of the event, are ignored.
RecordConflict(m) ==
  /\ At(m, "reporting")
  /\ SetStatus(req[m].prop, "conflicted") \/ UNCHANGED prop
  /\ Return(m, "conflict")
  /\ UNCHANGED <<solo, main, branch, lock>>

RecordMerged(m) ==
  /\ At(m, "recording")
  /\ SetStatus(req[m].prop, "merged") \/ UNCHANGED prop
  /\ Go(m, "deleting")
  /\ UNCHANGED <<solo, main, branch, lock>>

\* Git.DeleteBranch: the mutex again, and `git branch -D', which does not ask
\* whether the branch is merged.  Its error is ignored.
DeleteBranch(m) ==
  /\ At(m, "deleting") /\ lock = None
  /\ branch' = [branch EXCEPT ![req[m].branch] = NoBranch] \/ UNCHANGED branch
  /\ Return(m, "acked")
  /\ UNCHANGED <<solo, main, prop, lock>>

-----------------------------------------------------------------------------
(* Failures.                                                               *)

\* A call refused by the gate, or one of git's or the database's commands
\* fails without effect: the deferred unlock runs and the error is returned.
Fail(r) ==
  /\ req[r].pc \in {"idle", "waiting", "pushing"}
  /\ Return(r, "failed")
  /\ Unlock(r)
  /\ UNCHANGED <<solo, main, branch, prop>>

\* The server dies and is started again: no call of before ends, and the
\* mutex is new.  Temporary clones are of no consequence.
Crash ==
  /\ \E r \in Request : req[r].pc \notin Ended \cup {"idle"}
  /\ req' = [r \in Request |->
               IF req[r].pc \in Ended \cup {"idle"} THEN req[r]
               ELSE [req[r] EXCEPT !.pc = "failed", !.tmp = NoClone, !.files = NoFiles]]
  /\ lock' = None
  /\ UNCHANGED <<solo, main, branch, prop>>

-----------------------------------------------------------------------------

WriteStep(w) == WriteClone(w) \/ WritePush(w)
MergeStep(m) ==
  MergeClone(m) \/ MergePush(m) \/ RecordConflict(m) \/ RecordMerged(m) \/ DeleteBranch(m)

Next ==
  \/ \E w \in WriteReq : \/ \E b \in Branch, files \in Tree : WriteBegin(w, b, files)
                         \/ WriteStep(w)
  \/ \E p \in ProposeReq, b \in Branch : Propose(p, b)
  \/ \E m \in MergeReq : \/ \E p \in ProposeReq : MergeBegin(m, p)
                         \/ MergeStep(m)
  \/ \E r \in Request : Fail(r)
  \/ Crash

\* Go's scheduler runs every goroutine, git and the database answer within
\* the request's deadline, and the mutex goes to each waiter in turn.
Fairness ==
  /\ \A w \in WriteReq : SF_vars(WriteClone(w)) /\ WF_vars(WritePush(w))
  /\ \A m \in MergeReq :
       /\ SF_vars(MergeClone(m)) /\ SF_vars(DeleteBranch(m))
       /\ WF_vars(MergePush(m)) /\ WF_vars(RecordConflict(m)) /\ WF_vars(RecordMerged(m))

Spec == Init /\ [][Next]_vars
FairSpec == Spec /\ Fairness

-----------------------------------------------------------------------------
(* Properties.                                                              *)

\* Every variable keeps its type.
TypeOK ==
  /\ solo \in BOOLEAN
  /\ main \in [log : SUBSET Request, files : Tree]
  /\ branch \in [Branch -> BranchState]
  /\ prop \in [ProposeReq -> Row]
  /\ req \in [Request -> ReqState]
  /\ lock \in Request \cup {None}

\* The mutex does its work: from the clone of a call to its push no other
\* call moves a ref or deletes one, so the push replaces what was cloned.
RefsStayUnderClone ==
  [][\A r \in Request : At(r, "pushing") /\ At(r, "pushing")' => UNCHANGED <<main, branch>>]_vars

\* ADR-0004, git first: a row says merged only when a merge of its branch is
\* part of main, whichever call marked it and whatever failed before.
MergedIsOnMain ==
  \A p \in ProposeReq : prop[p].status = "merged" =>
    \E m \in MergeReq \cap main.log : prop[req[m].prop].branch = prop[p].branch

\* In team mode a write comes to main in one way: in the push of a merge that
\* holds the mutex, together with the branch that merge is of, which is the
\* write's own and was named by the opened row the merge acts on.  It may have
\* been pushed to that branch after the row was opened or looked at: the merge
\* takes the branch as it finds it, and no commit is pinned.
OnlyMergesReachMain ==
  [][~solo =>
       \A w \in WriteReq \cap (main'.log \ main.log) :
         \E m \in MergeReq :
           /\ At(m, "pushing") /\ lock = m /\ ~At(m, "pushing")'
           /\ prop[req[m].prop].status # "none"
           /\ prop[req[m].prop].branch = req[w].branch
           /\ w \in branch[req[w].branch].log]_vars

\* A merge that changes a file of main overwrites no change made to it on
\* main since the branch started: that is a conflict, and main stays as it is.
NoSilentOverwrite ==
  [][\A m \in MergeReq : At(m, "pushing") /\ main' # main /\ lock = m =>
       \A f \in File : main'.files[f] # main.files[f] =>
         /\ main.files[f] = branch[req[m].branch].base[f]
         /\ main'.files[f] = branch[req[m].branch].files[f]]_vars

Reachable(c) == c \in main.log \/ \E b \in Branch : c \in branch[b].log

\* The only step that makes a commit unreachable deletes the branch of a
\* merge that went through, and then it is a commit that merge had not seen.
OnlyDeletionForgets ==
  [][\A w \in WriteReq : Reachable(w) /\ ~Reachable(w)' =>
       \E m \in MergeReq :
         /\ At(m, "deleting") /\ At(m, "acked")'
         /\ req[m].tmp.log # {} /\ req[m].tmp.log \subseteq main.log
         /\ w \notin req[m].tmp.log]_vars

\* A row that says merged while no call merges it says so for good: only calls
\* that were let past the check of the status before can take it back.
Settled(p) ==
  /\ prop[p].status = "merged"
  /\ \A m \in MergeReq : req[m].prop = p => req[m].pc \in Ended \cup {"idle"}
MergedSettles == [][\A p \in ProposeReq : Settled(p) => Settled(p)']_vars

\* In solo mode a write that was acknowledged is on main for good.
SoloWriteKept == solo => \A w \in WriteReq : At(w, "acked") => w \in main.log

\* Every call that waits for the mutex is answered, although calls fail or
\* are abandoned while they hold it.
CallsEnd == \A r \in Request : At(r, "waiting") ~> req[r].pc \in Ended

\* The calls implement the review flow: each step of theirs lets one change
\* wait, lands one branch whole, marks one row, or does nothing to the flow,
\* however calls race, fail and crash.
Review == INSTANCE ReviewFlow WITH
  Change <- WriteReq, Topic <- Branch, Proposal <- ProposeReq,
  landed <- main.log \cap WriteReq,
  waiting <- [b \in Branch |-> (branch[b].log \ main.log) \cap WriteReq],
  merged <- {req[m].branch : m \in main.log \cap MergeReq},
  proposed <- prop, direct <- solo

ImplementsReview == Review!FlowSpec

(* What documents and comments say, and the code does not do.               *)

\* "changes are on your branch": a write that was acknowledged is on its
\* branch or, once merged, on main.
AckedWriteKept == \A w \in WriteReq : At(w, "acked") => Reachable(w)

\* "only open or conflicted proposals can be merged": merged is final.
MergedIsFinal ==
  [][\A p \in ProposeReq : prop[p].status = "merged" => prop'[p].status = "merged"]_vars
==============================================================================
