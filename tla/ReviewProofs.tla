----------------------------- MODULE ReviewProofs -----------------------------
(***************************************************************************)
(* Theorems of module Proposals about what reaches main, for any sets of   *)
(* calls, branches, files and contents: only merges of opened proposals    *)
(* bring writes to main, what is marked merged is on main, a merge         *)
(* overwrites nothing silently, and the calls implement module ReviewFlow. *)
(* All rest on the mutex (module ProposalsProofs): refs stay as they are   *)
(* while a call is about to push.                                          *)
(***************************************************************************)
EXTENDS ProposalsProofs

\* The branches that a merge on main is of.
MergedBranches == {req[m].branch : m \in main.log \cap MergeReq}

\* A commit is in the repository only once its call has pushed.
Pushed == \A r \in Request : Reachable(r) => req[r].pc \notin {"idle", "waiting", "pushing"}

\* A merge that has begun names a row that was opened, and that row's branch.
Named(m) == prop[req[m].prop].status # "none" /\ prop[req[m].prop].branch = req[m].branch
Active == {"waiting", "pushing", "recording", "reporting", "deleting"}
RowsNamed ==
  /\ \A p \in ProposeReq : At(p, "idle") => prop[p].status = "none"
  /\ \A m \in MergeReq : req[m].pc \in Active \/ Reachable(m) => Named(m)

\* What a write is about to push: main or its branch as they are now, and its
\* own commit.
WriteClones ==
  \A w \in WriteReq : At(w, "pushing") =>
    LET log == req[w].tmp.log
    IN  \/ log = main.log \cup {w}
        \/ ~solo /\ log = branch[req[w].branch].log \cup {w}

\* What a merge is about to push: main and the branch as they are now, and its
\* own commit unless nothing is new; a file it changes is as the branch has it,
\* and was not changed on main.
MergeClones ==
  \A m \in MergeReq : At(m, "pushing") =>
    LET t == branch[req[m].branch]
        c == req[m].tmp
    IN  /\ t.live
        /\ \/ c.log = main.log \cup t.log \cup {m}
           \/ c.log = main.log /\ t.log \subseteq main.log
        /\ \A f \in File : c.files[f] # main.files[f] =>
             main.files[f] = t.base[f] /\ c.files[f] = t.files[f]

\* A branch exists in team mode only and holds a write of its own; all it
\* holds beyond main are writes of its own.
OwnWrites ==
  \A b \in Branch :
    /\ branch[b].live => ~solo /\ \E w \in WriteReq \cap branch[b].log : req[w].branch = b
    /\ \A w \in WriteReq \cap branch[b].log : req[w].branch = b \/ w \in main.log
    /\ branch[b].log \cap MergeReq \subseteq main.log

\* In team mode a write is on main through a merge of its branch.
ThroughMerge == ~solo => \A w \in WriteReq \cap main.log : req[w].branch \in MergedBranches

\* What a merge pushed stays on main, and so does a merge of its branch.
Landed ==
  \A m \in MergeReq : req[m].pc \in {"recording", "deleting"} =>
    /\ req[m].branch \in MergedBranches
    /\ req[m].tmp.log # {} /\ req[m].tmp.log \subseteq main.log

MarkedMerged == \A p \in ProposeReq : prop[p].status = "merged" => prop[p].branch \in MergedBranches

\* The inductive invariant.
FlowInv ==
  /\ IInv /\ Pushed /\ RowsNamed /\ WriteClones /\ MergeClones
  /\ OwnWrites /\ ThroughMerge /\ Landed /\ MarkedMerged /\ SoloWriteKept

-----------------------------------------------------------------------------
(* What a step does to a call, to the refs and to the rows.                 *)

LEMMA Kinds ==
  /\ WriteReq \subseteq Request /\ ProposeReq \subseteq Request /\ MergeReq \subseteq Request
  /\ WriteReq \cap MergeReq = {} /\ ProposeReq \cap MergeReq = {}
  /\ WriteReq \cap ProposeReq = {} /\ None \notin Request
  BY RequestAssumption DEF Request

\* A call never goes back, and keeps its branch and proposal from its start.
Onward(r) ==
  /\ req[r].pc # "idle" =>
       /\ req'[r].pc # "idle"
       /\ req'[r].branch = req[r].branch /\ req'[r].prop = req[r].prop
  /\ req[r].pc \notin {"idle", "waiting"} => req'[r].pc \notin {"idle", "waiting"}
  /\ req[r].pc \notin {"idle", "waiting", "pushing"} =>
       req'[r].pc \notin {"idle", "waiting", "pushing"}

\* What a call brings with it into the states that matter below.
Enters(r) ==
  /\ req'[r].pc = "pushing" =>
       req'[r] = req[r] \/ (r \in WriteReq /\ WriteClone(r)) \/ (r \in MergeReq /\ MergeClone(r))
  /\ req'[r].pc = "recording" => req'[r] = req[r] \/ (r \in MergeReq /\ MergePush(r))
  /\ req'[r].pc = "deleting" => req'[r] = req[r] \/ (r \in MergeReq /\ RecordMerged(r))
  /\ req'[r].pc \in Active =>
       \/ req[r].pc \in Active
       \/ r \in WriteReq
       \/ r \in MergeReq /\ \E p \in ProposeReq : MergeBegin(r, p)
  /\ r \in WriteReq /\ req'[r].pc = "acked" => req[r].pc = "acked" \/ WritePush(r)
  /\ req'[r].pc = "idle" => req[r].pc = "idle"

LEMMA CallStep ==
  ASSUME TypeOK, [Next]_vars, NEW r \in Request
  PROVE  Onward(r) /\ Enters(r)
<1>0. req \in [Request -> ReqState] /\ Request = WriteReq \cup ProposeReq \cup MergeReq
  BY DEF TypeOK, Request
<1> USE <1>0, Kinds DEF At, Go, Return, Onward, Enters, Active
<1>1. ASSUME NEW w \in WriteReq, NEW b \in Branch, NEW files \in Tree, WriteBegin(w, b, files)
      PROVE  Onward(r) /\ Enters(r)
  BY <1>1 DEF WriteBegin, ReqState
<1>2. ASSUME NEW w \in WriteReq, WriteClone(w)
      PROVE  Onward(r) /\ Enters(r)
  <2>1. req[w].pc = "waiting" /\ req'[w].pc = "pushing"
        /\ req'[w].branch = req[w].branch /\ req'[w].prop = req[w].prop
        /\ \A q \in Request : q # w => req'[q] = req[q]
    BY <1>2 DEF WriteClone, ReqState
  <2> QED BY <1>2, <2>1
<1>3. ASSUME NEW w \in WriteReq, WritePush(w)
      PROVE  Onward(r) /\ Enters(r)
  <2>1. Return(w, "acked") \/ Return(w, "failed")
    BY <1>3 DEF WritePush
  <2>2. req[w].pc = "pushing" /\ req'[w].pc \in {"acked", "failed"}
        /\ req'[w].branch = req[w].branch /\ req'[w].prop = req[w].prop
        /\ \A q \in Request : q # w => req'[q] = req[q]
    BY <1>3, <2>1 DEF WritePush, ReqState
  <2> QED BY <1>3, <2>2
<1>4. ASSUME NEW p \in ProposeReq, NEW b \in Branch, Propose(p, b)
      PROVE  Onward(r) /\ Enters(r)
  BY <1>4 DEF Propose, ReqState
<1>5. ASSUME NEW m \in MergeReq, NEW p \in ProposeReq, MergeBegin(m, p)
      PROVE  Onward(r) /\ Enters(r)
  <2>1. req[m].pc = "idle" /\ req'[m].pc \in {"waiting", "failed"}
        /\ \A q \in Request : q # m => req'[q] = req[q]
    BY <1>5 DEF MergeBegin, ReqState
  <2> QED BY <1>5, <2>1
<1>6. ASSUME NEW m \in MergeReq, MergeClone(m)
      PROVE  Onward(r) /\ Enters(r)
  <2>1. PICK c :
          \/ Return(m, "failed") \/ Return(m, "reporting")
          \/ req' = [req EXCEPT ![m].pc = "pushing", ![m].tmp = c]
    BY <1>6 DEF MergeClone
  <2>2. req[m].pc = "waiting"
    BY <1>6 DEF MergeClone
  <2>3. req'[m].pc \in {"pushing", "reporting", "failed"}
        /\ req'[m].branch = req[m].branch /\ req'[m].prop = req[m].prop
        /\ \A q \in Request : q # m => req'[q] = req[q]
    BY <2>1 DEF ReqState
  <2> QED BY <1>6, <2>2, <2>3
<1>7. ASSUME NEW m \in MergeReq, MergePush(m)
      PROVE  Onward(r) /\ Enters(r)
  <2>1. req[m].pc = "pushing" /\ req'[m].pc \in {"recording", "failed"}
        /\ req'[m].branch = req[m].branch /\ req'[m].prop = req[m].prop
        /\ \A q \in Request : q # m => req'[q] = req[q]
    BY <1>7 DEF MergePush, ReqState
  <2> QED BY <1>7, <2>1
<1>8. ASSUME NEW m \in MergeReq, RecordConflict(m) \/ RecordMerged(m) \/ DeleteBranch(m)
      PROVE  Onward(r) /\ Enters(r)
  BY <1>8 DEF RecordConflict, RecordMerged, DeleteBranch, ReqState
<1>9. ASSUME NEW q \in Request, Fail(q)
      PROVE  Onward(r) /\ Enters(r)
  BY <1>9 DEF Fail, ReqState
<1>10. CASE Crash
  <2>1. \/ req'[r] = req[r]
        \/ /\ req[r].pc # "idle" /\ req'[r].pc = "failed"
           /\ req'[r].branch = req[r].branch /\ req'[r].prop = req[r].prop
    <3>1. req'[r] = IF req[r].pc \in Ended \cup {"idle"} THEN req[r]
                    ELSE [req[r] EXCEPT !.pc = "failed", !.tmp = NoClone, !.files = NoFiles]
      BY <1>10 DEF Crash
    <3> QED BY <3>1 DEF ReqState
  <2> QED BY <2>1
<1>11. CASE UNCHANGED vars
  BY <1>11 DEF vars
<1> QED BY <1>1, <1>2, <1>3, <1>4, <1>5, <1>6, <1>7, <1>8, <1>9, <1>10, <1>11
        DEF Next, WriteStep, MergeStep

\* A push of a write, as it changes the refs.
PushesWrite(w) ==
  /\ At(w, "pushing") /\ req'[w].pc \in {"acked", "failed"} /\ UNCHANGED <<solo, prop>>
  /\ IF solo
     THEN /\ main'.log = req[w].tmp.log /\ main.log \subseteq req[w].tmp.log
          /\ UNCHANGED branch
     ELSE /\ branch[req[w].branch].log \subseteq req[w].tmp.log
          /\ branch' = [branch EXCEPT ![req[w].branch] =
                          [live |-> TRUE, log |-> req[w].tmp.log,
                           base |-> req[w].tmp.base, files |-> req[w].tmp.files]]
          /\ UNCHANGED main

\* A branch that is deleted: the call may also fail to.
Deletes(m) == DeleteBranch(m) /\ branch' = [branch EXCEPT ![req[m].branch] = NoBranch]

\* The refs and the mode change in no other way than these.
LEMMA RefStep ==
  ASSUME TypeOK, [Next]_vars
  PROVE  \/ UNCHANGED <<solo, main, branch>>
         \/ \E w \in WriteReq : WritePush(w) /\ PushesWrite(w)
         \/ \E m \in MergeReq : MergePush(m)
         \/ \E m \in MergeReq : Deletes(m)
<1>1. ASSUME NEW w \in WriteReq, WritePush(w)
      PROVE  UNCHANGED <<solo, main, branch>> \/ PushesWrite(w)
  <2>1. Return(w, "acked") \/ Return(w, "failed")
    BY <1>1 DEF WritePush
  <2>2. req'[w].pc \in {"acked", "failed"}
    BY <2>1, Kinds DEF Return, TypeOK, ReqState
  <2> QED BY <1>1, <2>2 DEF WritePush, PushesWrite
<1> QED BY <1>1
        DEF Next, WriteStep, MergeStep, WriteBegin, WriteClone, Propose, MergeBegin,
            MergeClone, RecordConflict, RecordMerged, DeleteBranch, Deletes, Fail, Crash, vars

\* main only grows, and the mode stays.
LEMMA MainGrows ==
  ASSUME TypeOK, [Next]_vars
  PROVE  main.log \subseteq main'.log /\ solo' = solo
<1>1. \A m \in MergeReq : MergePush(m) => main.log \subseteq main'.log /\ solo' = solo
  BY DEF MergePush
<1>2. \A m \in MergeReq : Deletes(m) => UNCHANGED <<solo, main>>
  BY DEF Deletes, DeleteBranch
<1> QED BY <1>1, <1>2, RefStep DEF PushesWrite

\* A row is inserted by its own call, and then its branch stays.
LEMMA PropStep ==
  ASSUME TypeOK, [Next]_vars, NEW p \in ProposeReq
  PROVE  \/ prop'[p] = prop[p]
         \/ /\ At(p, "idle") /\ ~solo /\ req'[p].pc # "idle"
            /\ \E b \in Branch : prop'[p] = [status |-> "open", branch |-> b]
         \/ /\ prop'[p].branch = prop[p].branch /\ prop'[p].status = "conflicted"
            /\ \E m \in MergeReq : RecordConflict(m) /\ req[m].prop = p
         \/ /\ prop'[p].branch = prop[p].branch /\ prop'[p].status = "merged"
            /\ \E m \in MergeReq : RecordMerged(m) /\ req[m].prop = p
<1>0. prop \in [ProposeReq -> Row] /\ req \in [Request -> ReqState]
  BY DEF TypeOK
<1>1. ASSUME NEW q \in ProposeReq, NEW b \in Branch, Propose(q, b)
      PROVE  \/ prop'[p] = prop[p]
             \/ /\ At(p, "idle") /\ ~solo /\ req'[p].pc # "idle"
                /\ prop'[p] = [status |-> "open", branch |-> b]
  <2>1. CASE q = p
    <3>1. req'[p].pc # "idle"
      BY <1>0, <1>1, <2>1, Kinds DEF Propose, Return, ReqState
    <3> QED BY <1>0, <1>1, <2>1, <3>1 DEF Propose
  <2>2. CASE q # p
    BY <1>0, <1>1, <2>2 DEF Propose
  <2> QED BY <2>1, <2>2
<1>2. ASSUME NEW m \in MergeReq, RecordConflict(m), prop'[p] # prop[p]
      PROVE  /\ req[m].prop = p
             /\ prop'[p].branch = prop[p].branch /\ prop'[p].status = "conflicted"
  BY <1>0, <1>2 DEF RecordConflict, SetStatus, Row
<1>3. ASSUME NEW m \in MergeReq, RecordMerged(m), prop'[p] # prop[p]
      PROVE  /\ req[m].prop = p
             /\ prop'[p].branch = prop[p].branch /\ prop'[p].status = "merged"
  BY <1>0, <1>3 DEF RecordMerged, SetStatus, Row
<1> QED BY <1>1, <1>2, <1>3
        DEF Next, WriteStep, MergeStep, WriteBegin, WriteClone, WritePush, MergeBegin,
            MergeClone, MergePush, DeleteBranch, Fail, Crash, vars

-----------------------------------------------------------------------------
(* Each part of the invariant is kept.                                      *)

\* A commit enters the repository with the push of its own call.
LEMMA Reaches ==
  ASSUME FlowInv, [Next]_vars, NEW r \in Request, Reachable(r)'
  PROVE  \/ Reachable(r)
         \/ r \in WriteReq /\ PushesWrite(r)
         \/ r \in MergeReq /\ MergePush(r)
<1>0. TypeOK /\ branch \in [Branch -> BranchState] /\ req \in [Request -> ReqState]
  BY DEF FlowInv, IInv, TypeOK
<1>1. CASE UNCHANGED <<main, branch>>
  BY <1>1 DEF Reachable
<1>2. ASSUME NEW w \in WriteReq, PushesWrite(w)
      PROVE  Reachable(r) \/ r = w
  <2>1. req[w].branch \in Branch
    BY <1>0, Kinds DEF ReqState
  <2>2. r \in req[w].tmp.log => Reachable(r) \/ r = w
    BY <1>2, <2>1 DEF PushesWrite, FlowInv, WriteClones, Reachable
  <2>3. CASE solo
    BY <1>2, <2>2, <2>3 DEF PushesWrite, Reachable
  <2>4. CASE ~solo
    <3>1. \A b \in Branch : r \in branch'[b].log => r \in branch[b].log \/ r \in req[w].tmp.log
      BY <1>0, <1>2, <2>4 DEF PushesWrite
    <3> QED BY <1>2, <2>2, <2>4, <3>1 DEF PushesWrite, Reachable
  <2> QED BY <2>3, <2>4
<1>3. ASSUME NEW m \in MergeReq, MergePush(m)
      PROVE  Reachable(r) \/ r = m
  <2>1. req[m].branch \in Branch
    BY <1>0, Kinds DEF ReqState
  <2>2. r \in req[m].tmp.log => Reachable(r) \/ r = m
    BY <1>3, <2>1 DEF MergePush, FlowInv, MergeClones, Reachable
  <2>3. main'.log = req[m].tmp.log /\ \A b \in Branch : branch'[b].log = branch[b].log
    BY <1>0, <1>3 DEF MergePush, BranchState
  <2> QED BY <2>2, <2>3 DEF Reachable
<1>4. ASSUME NEW m \in MergeReq, Deletes(m)
      PROVE  Reachable(r)
  <2>1. \A b \in Branch : branch'[b].log \subseteq branch[b].log
    BY <1>0, <1>4 DEF Deletes, NoBranch
  <2> QED BY <1>4, <2>1 DEF Deletes, DeleteBranch, Reachable
<1> QED BY <1>0, <1>1, <1>2, <1>3, <1>4, RefStep

LEMMA PushedStep == FlowInv /\ [Next]_vars => Pushed'
<1> SUFFICES ASSUME FlowInv, [Next]_vars, NEW r \in Request, Reachable(r)'
             PROVE  req'[r].pc \notin {"idle", "waiting", "pushing"}
  BY DEF Pushed
<1>0. Onward(r) /\ req \in [Request -> ReqState]
  BY CallStep DEF FlowInv, IInv, TypeOK
<1>1. CASE Reachable(r)
  BY <1>0, <1>1 DEF FlowInv, Pushed, Onward
<1>2. CASE r \in WriteReq /\ PushesWrite(r)
  BY <1>2 DEF PushesWrite
<1>3. CASE r \in MergeReq /\ MergePush(r)
  BY <1>0, <1>3 DEF MergePush, Go, Return, ReqState
<1> QED BY <1>1, <1>2, <1>3, Reaches

LEMMA RowsNamedStep == FlowInv /\ [Next]_vars => RowsNamed'
<1> SUFFICES ASSUME FlowInv, [Next]_vars PROVE RowsNamed'
  OBVIOUS
<1>0. TypeOK /\ RowsNamed /\ Pushed
  BY DEF FlowInv, IInv
<1>1. ASSUME NEW p \in ProposeReq, req'[p].pc = "idle"
      PROVE  prop'[p].status = "none"
  <2>1. At(p, "idle") /\ prop[p].status = "none"
    BY <1>0, <1>1, CallStep, Kinds DEF Enters, At, RowsNamed
  <2>2. ~(\E m \in MergeReq : RecordConflict(m) /\ req[m].prop = p)
        /\ ~(\E m \in MergeReq : RecordMerged(m) /\ req[m].prop = p)
    BY <1>0, <2>1 DEF RowsNamed, Named, RecordConflict, RecordMerged, At, Active
  <2> QED BY <1>0, <1>1, <2>1, <2>2, PropStep
<1>2. ASSUME NEW m \in MergeReq, req[m].pc \in Active \/ Reachable(m)
      PROVE  Named(m)'
  <2>1. Named(m) /\ req[m].pc # "idle" /\ req[m].prop \in ProposeReq
    BY <1>0, <1>2, Kinds DEF RowsNamed, Pushed, Active, TypeOK, ReqState
  <2>2. req'[m].branch = req[m].branch /\ req'[m].prop = req[m].prop
    BY <1>0, <2>1, CallStep, Kinds DEF Onward
  <2>3. ~At(req[m].prop, "idle")
    BY <1>0, <2>1 DEF RowsNamed, Named
  <2>4. prop'[req[m].prop].branch = prop[req[m].prop].branch
        /\ prop'[req[m].prop].status # "none"
    BY <1>0, <2>1, <2>3, PropStep DEF Named
  <2> QED BY <2>1, <2>2, <2>4 DEF Named
<1>3. ASSUME NEW m \in MergeReq, NEW p \in ProposeReq, MergeBegin(m, p), req'[m].pc \in Active
      PROVE  Named(m)'
  <2>1. req \in [Request -> ReqState] /\ m \in Request
    BY <1>0, Kinds DEF TypeOK
  <2>2. prop[p].status \in {"open", "conflicted"}
    BY <1>3, <2>1 DEF MergeBegin, Return, Active, ReqState
  <2>3. req'[m].prop = p /\ req'[m].branch = prop[p].branch
    BY <1>3, <2>1, <2>2 DEF MergeBegin, ReqState
  <2> QED BY <1>3, <2>2, <2>3 DEF MergeBegin, Named
<1>4. ASSUME NEW m \in MergeReq, req'[m].pc \in Active \/ Reachable(m)'
      PROVE  Named(m)'
  <2>1. CASE req'[m].pc \in Active
    BY <1>0, <1>2, <1>3, <2>1, CallStep, Kinds DEF Enters
  <2>2. CASE Reachable(m)'
    <3>1. Reachable(m) \/ At(m, "pushing")
      BY <2>2, Reaches, Kinds DEF MergePush
    <3> QED BY <1>2, <3>1 DEF At, Active
  <2> QED BY <1>4, <2>1, <2>2
<1> QED BY <1>1, <1>4 DEF RowsNamed, At

\* While a call is about to push it and the refs stay as they are, or it has
\* just cloned.
LEMMA PushingStep ==
  ASSUME FlowInv, [Next]_vars, NEW r \in Request, req'[r].pc = "pushing"
  PROVE  \/ At(r, "pushing") /\ req'[r] = req[r] /\ UNCHANGED <<solo, main, branch>>
         \/ r \in WriteReq /\ WriteClone(r)
         \/ r \in MergeReq /\ MergeClone(r)
<1>0. TypeOK /\ IInv
  BY DEF FlowInv, IInv
<1>1. CASE req'[r] = req[r]
  <2>1. At(r, "pushing") /\ At(r, "pushing")'
    BY <1>1 DEF At
  <2> QED BY <1>0, <1>1, <2>1, RefsStep, MainGrows
<1> QED BY <1>0, <1>1, CallStep DEF Enters

LEMMA WriteClonesStep == FlowInv /\ [Next]_vars => WriteClones'
<1> SUFFICES ASSUME FlowInv, [Next]_vars, NEW w \in WriteReq, req'[w].pc = "pushing"
             PROVE  \/ req'[w].tmp.log = main'.log \cup {w}
                    \/ ~solo' /\ req'[w].tmp.log = branch'[req'[w].branch].log \cup {w}
  BY DEF WriteClones, At
<1>0. req \in [Request -> ReqState] /\ w \in Request /\ w \notin MergeReq
  BY Kinds DEF FlowInv, IInv, TypeOK
<1>1. CASE At(w, "pushing") /\ req'[w] = req[w] /\ UNCHANGED <<solo, main, branch>>
  BY <1>1 DEF FlowInv, WriteClones
<1>2. CASE WriteClone(w)
  <2>1. PICK tip \in Tips(req[w].branch) :
          req' = [req EXCEPT ![w].pc = "pushing",
                    ![w].tmp = [log |-> tip.log \cup {w}, base |-> tip.base,
                                files |-> Overwrite(tip.files, req[w].files)]]
    BY <1>2 DEF WriteClone
  <2>2. req'[w].tmp.log = tip.log \cup {w} /\ req'[w].branch = req[w].branch
    BY <1>0, <2>1 DEF ReqState
  <2>3. tip.log = main.log \/ (~solo /\ tip.log = branch[req[w].branch].log)
    <3>1. tip = MainTip \/ (~solo /\ tip = BranchTip(req[w].branch))
      BY <2>1 DEF Tips
    <3> QED BY <3>1 DEF MainTip, BranchTip
  <2> QED BY <1>2, <2>2, <2>3 DEF WriteClone
<1> QED BY <1>0, <1>1, <1>2, PushingStep

LEMMA MergeClonesStep == FlowInv /\ [Next]_vars => MergeClones'
<1> SUFFICES ASSUME FlowInv, [Next]_vars, NEW m \in MergeReq, req'[m].pc = "pushing"
             PROVE  LET t == branch'[req'[m].branch]
                        c == req'[m].tmp
                    IN  /\ t.live
                        /\ \/ c.log = main'.log \cup t.log \cup {m}
                           \/ c.log = main'.log /\ t.log \subseteq main'.log
                        /\ \A f \in File : c.files[f] # main'.files[f] =>
                             main'.files[f] = t.base[f] /\ c.files[f] = t.files[f]
  BY DEF MergeClones, At
<1>0. req \in [Request -> ReqState] /\ m \in Request /\ m \notin WriteReq
  BY Kinds DEF FlowInv, IInv, TypeOK
<1>1. CASE At(m, "pushing") /\ req'[m] = req[m] /\ UNCHANGED <<solo, main, branch>>
  BY <1>1 DEF FlowInv, MergeClones
<1>2. CASE MergeClone(m)
  <2> DEFINE t == branch[req[m].branch]
             same == [log |-> main.log, base |-> t.files, files |-> main.files]
             new == [log |-> main.log \cup t.log \cup {m}, base |-> t.files,
                     files |-> Merged(main.files, t.files, t.base)]
  <2>1. t.live /\ UNCHANGED <<main, branch>> /\ req'[m].branch = req[m].branch
        /\ \/ t.log \subseteq main.log /\ req'[m].tmp = same
           \/ UnmergedFiles(req[m].branch) = {} /\ req'[m].tmp = new
    <3>1. req'[m].branch = req[m].branch /\ UNCHANGED <<main, branch>>
      BY <1>0, <1>2 DEF MergeClone, Return, ReqState
    <3>2. ~Return(m, "failed") /\ ~Return(m, "reporting")
      BY <1>0 DEF Return, ReqState
    <3>3. \A c : req' = [req EXCEPT ![m].pc = "pushing", ![m].tmp = c] => req'[m].tmp = c
      BY <1>0 DEF ReqState
    <3>4. \/ /\ t.live /\ t.log \subseteq main.log
             /\ req' = [req EXCEPT ![m].pc = "pushing", ![m].tmp = same]
          \/ /\ t.live /\ UnmergedFiles(req[m].branch) = {}
             /\ req' = [req EXCEPT ![m].pc = "pushing", ![m].tmp = new]
      BY <1>2, <3>2 DEF MergeClone
    <3> HIDE DEF same, new, t
    <3> QED BY <3>1, <3>3, <3>4
  <2>2. CASE t.log \subseteq main.log /\ req'[m].tmp = same
    BY <2>1, <2>2
  <2>3. CASE UnmergedFiles(req[m].branch) = {} /\ req'[m].tmp = new
    <3>1. ASSUME NEW f \in File, new.files[f] # main.files[f]
          PROVE  main.files[f] = t.base[f] /\ new.files[f] = t.files[f]
      <4>1. t.files[f] # t.base[f] /\ new.files[f] = t.files[f]
        BY <3>1 DEF Merged
      <4>2. f \notin Conflicts(main.files, t.files, t.base)
        BY <2>3 DEF UnmergedFiles
      <4> QED BY <3>1, <4>1, <4>2 DEF Conflicts
    <3>2. new.log = main.log \cup t.log \cup {m}
      OBVIOUS
    <3> HIDE DEF new
    <3> QED BY <2>1, <2>3, <3>1, <3>2
  <2> QED BY <2>1, <2>2, <2>3
<1> QED BY <1>0, <1>1, <1>2, PushingStep

\* A commit in the repository keeps the branch it was made for.
LEMMA BranchKept ==
  ASSUME FlowInv, [Next]_vars, NEW r \in Request, Reachable(r)
  PROVE  req'[r].branch = req[r].branch
  BY CallStep DEF FlowInv, IInv, Pushed, Onward

LEMMA MergedGrows == FlowInv /\ [Next]_vars => MergedBranches \subseteq MergedBranches'
<1> SUFFICES ASSUME FlowInv, [Next]_vars, NEW m \in main.log \cap MergeReq
             PROVE  req[m].branch \in MergedBranches'
  BY DEF MergedBranches
<1>1. m \in main'.log /\ Reachable(m) /\ m \in Request
  BY MainGrows, Kinds DEF FlowInv, IInv, Reachable
<1> QED BY <1>1, BranchKept DEF MergedBranches

\* After the push of a merge, a merge of its branch is on main: this one, or
\* the one that brought the branch there before.
LEMMA MergedNow ==
  ASSUME FlowInv, [Next]_vars, NEW m \in MergeReq, MergePush(m)
  PROVE  req[m].branch \in MergedBranches'
<1> DEFINE t == branch[req[m].branch]
<1>0. TypeOK /\ m \in Request /\ At(m, "pushing") /\ main'.log = req[m].tmp.log
      /\ req[m].branch \in Branch
  BY Kinds DEF MergePush, FlowInv, IInv, TypeOK, ReqState
<1>1. CASE m \in req[m].tmp.log
  <2>1. req'[m].branch = req[m].branch
    BY <1>0, CallStep DEF Onward, At
  <2> QED BY <1>0, <1>1, <2>1 DEF MergedBranches
<1>2. CASE t.live /\ t.log \subseteq main.log
  <2>1. ~solo /\ \E w \in WriteReq \cap t.log : req[w].branch = req[m].branch
    BY <1>0, <1>2 DEF FlowInv, OwnWrites
  <2>2. req[m].branch \in MergedBranches
    BY <1>2, <2>1 DEF FlowInv, ThroughMerge
  <2> QED BY <2>2, MergedGrows
<1> QED BY <1>0, <1>1, <1>2 DEF FlowInv, MergeClones

\* What a step does to one branch.
LEMMA BranchStep ==
  ASSUME FlowInv, [Next]_vars, NEW b \in Branch
  PROVE  \/ branch'[b].live = branch[b].live /\ branch'[b].log = branch[b].log
         \/ \E w \in WriteReq : /\ PushesWrite(w) /\ ~solo /\ req[w].branch = b
                                /\ branch'[b].live /\ branch'[b].log = req[w].tmp.log
         \/ /\ ~branch'[b].live /\ branch'[b].log = {} /\ UNCHANGED main
            /\ \E m \in MergeReq : Deletes(m) /\ req[m].branch = b
<1>0. TypeOK /\ branch \in [Branch -> BranchState]
  BY DEF FlowInv, IInv, TypeOK
<1>1. ASSUME NEW w \in WriteReq, PushesWrite(w)
      PROVE  \/ branch'[b] = branch[b]
             \/ /\ ~solo /\ req[w].branch = b
                /\ branch'[b].live /\ branch'[b].log = req[w].tmp.log
  BY <1>0, <1>1 DEF PushesWrite
<1>2. ASSUME NEW m \in MergeReq, MergePush(m)
      PROVE  branch'[b].live = branch[b].live /\ branch'[b].log = branch[b].log
  BY <1>0, <1>2 DEF MergePush, BranchState
<1>3. ASSUME NEW m \in MergeReq, Deletes(m)
      PROVE  \/ branch'[b] = branch[b]
             \/ /\ ~branch'[b].live /\ branch'[b].log = {} /\ UNCHANGED main
                /\ req[m].branch = b
  BY <1>0, <1>3 DEF Deletes, DeleteBranch, NoBranch
<1> QED BY <1>0, <1>1, <1>2, <1>3, RefStep

LEMMA OwnWritesStep == FlowInv /\ [Next]_vars => OwnWrites'
<1> SUFFICES ASSUME FlowInv, [Next]_vars, NEW b \in Branch
             PROVE  /\ branch'[b].live =>
                         ~solo' /\ \E w \in WriteReq \cap branch'[b].log : req'[w].branch = b
                    /\ \A w \in WriteReq \cap branch'[b].log : req'[w].branch = b \/ w \in main'.log
                    /\ branch'[b].log \cap MergeReq \subseteq main'.log
  BY DEF OwnWrites
<1>0. /\ TypeOK /\ main.log \subseteq main'.log /\ solo' = solo
      /\ branch[b].live => ~solo /\ \E w \in WriteReq \cap branch[b].log : req[w].branch = b
      /\ \A w \in WriteReq \cap branch[b].log : req[w].branch = b \/ w \in main.log
      /\ branch[b].log \cap MergeReq \subseteq main.log
  BY MainGrows DEF FlowInv, IInv, OwnWrites
<1>1. \A w \in branch[b].log \cap WriteReq : req'[w].branch = req[w].branch
  BY BranchKept, Kinds DEF Reachable
<1>2. CASE branch'[b].live = branch[b].live /\ branch'[b].log = branch[b].log
  BY <1>0, <1>1, <1>2
<1>3. ASSUME NEW w \in WriteReq, PushesWrite(w), ~solo, req[w].branch = b,
             branch'[b].live, branch'[b].log = req[w].tmp.log
      PROVE  /\ w \in branch'[b].log /\ req'[w].branch = b
             /\ branch'[b].log \subseteq main.log \cup branch[b].log \cup {w}
  <2>1. At(w, "pushing") /\ w \in Request
    BY <1>3, Kinds DEF PushesWrite
  <2>2. req'[w].branch = b
    BY <1>0, <1>3, <2>1, CallStep DEF Onward, At
  <2> QED BY <1>3, <2>1, <2>2 DEF FlowInv, WriteClones
<1>4. CASE ~branch'[b].live /\ branch'[b].log = {}
  BY <1>4
<1> QED BY <1>0, <1>1, <1>2, <1>3, <1>4, BranchStep, Kinds

LEMMA ThroughMergeStep == FlowInv /\ [Next]_vars => ThroughMerge'
<1> SUFFICES ASSUME FlowInv, [Next]_vars, ~solo', NEW w \in WriteReq, w \in main'.log
             PROVE  req'[w].branch \in MergedBranches'
  BY DEF ThroughMerge
<1>0. TypeOK /\ ~solo /\ req \in [Request -> ReqState] /\ w \in Request
  BY MainGrows, Kinds DEF FlowInv, IInv, TypeOK
<1>1. CASE w \in main.log
  <2>1. req[w].branch \in MergedBranches /\ req'[w].branch = req[w].branch
    BY <1>0, <1>1, BranchKept DEF FlowInv, ThroughMerge, Reachable
  <2> QED BY <2>1, MergedGrows
<1>2. ASSUME w \notin main.log, NEW m \in MergeReq, MergePush(m)
      PROVE  req'[w].branch \in MergedBranches'
  <2>1. At(m, "pushing") /\ main'.log = req[m].tmp.log /\ req[m].branch \in Branch
    BY <1>0, <1>2, Kinds DEF MergePush, ReqState
  <2>2. w \in branch[req[m].branch].log
    BY <1>2, <2>1, Kinds DEF FlowInv, MergeClones
  <2>3. req[w].branch = req[m].branch
    BY <1>2, <2>1, <2>2 DEF FlowInv, OwnWrites
  <2>4. req'[w].branch = req[w].branch
    BY <1>0, <2>1, <2>2, BranchKept DEF Reachable
  <2> QED BY <1>2, <2>3, <2>4, MergedNow
<1>3. w \in main.log \/ \E m \in MergeReq : MergePush(m)
  BY <1>0, RefStep DEF PushesWrite, Deletes, DeleteBranch
<1> QED BY <1>1, <1>2, <1>3

LEMMA LandedStep == FlowInv /\ [Next]_vars => Landed'
<1> SUFFICES ASSUME FlowInv, [Next]_vars, NEW m \in MergeReq, req'[m].pc \in {"recording", "deleting"}
             PROVE  /\ req'[m].branch \in MergedBranches'
                    /\ req'[m].tmp.log # {} /\ req'[m].tmp.log \subseteq main'.log
  BY DEF Landed
<1>0. TypeOK /\ req \in [Request -> ReqState] /\ m \in Request /\ m \notin WriteReq
      /\ main.log \subseteq main'.log
  BY MainGrows, Kinds DEF FlowInv, IInv, TypeOK
<1>1. CASE req'[m] = req[m]
  BY <1>0, <1>1, MergedGrows DEF FlowInv, Landed
<1>2. CASE MergePush(m)
  <2>1. At(m, "pushing") /\ main'.log = req[m].tmp.log
    BY <1>2 DEF MergePush
  <2>2. req'[m].branch = req[m].branch /\ req'[m].tmp = req[m].tmp
    <3>1. ~Return(m, "failed")
      BY <1>0 DEF Return, ReqState
    <3> QED BY <1>0, <1>2, <3>1 DEF MergePush, Go, ReqState
  <2>3. req[m].tmp.log # {}
    <3> DEFINE t == branch[req[m].branch]
    <3>1. req[m].branch \in Branch
      BY <1>0 DEF ReqState
    <3>2. t.live => t.log # {}
      BY <3>1 DEF FlowInv, OwnWrites
    <3> QED BY <2>1, <3>2 DEF FlowInv, MergeClones
  <2> QED BY <1>2, <2>1, <2>2, <2>3, MergedNow
<1>3. CASE RecordMerged(m)
  <2>1. req[m].pc = "recording" /\ req'[m].branch = req[m].branch /\ req'[m].tmp = req[m].tmp
    BY <1>0, <1>3 DEF RecordMerged, At, Go, ReqState
  <2> QED BY <1>0, <2>1, MergedGrows DEF FlowInv, Landed
<1> QED BY <1>0, <1>1, <1>2, <1>3, CallStep DEF Enters

LEMMA MarkedMergedStep == FlowInv /\ [Next]_vars => MarkedMerged'
<1> SUFFICES ASSUME FlowInv, [Next]_vars, NEW p \in ProposeReq, prop'[p].status = "merged"
             PROVE  prop'[p].branch \in MergedBranches'
  BY DEF MarkedMerged
<1>1. ASSUME NEW m \in MergeReq, RecordMerged(m), req[m].prop = p
      PROVE  prop[p].branch \in MergedBranches
  <2>1. Named(m)
    BY <1>1 DEF RecordMerged, At, FlowInv, RowsNamed, Active
  <2> QED BY <1>1, <2>1 DEF RecordMerged, At, FlowInv, Landed, Named
<1>2. CASE prop'[p] = prop[p]
  BY <1>2, MergedGrows DEF FlowInv, MarkedMerged
<1>3. ASSUME NEW m \in MergeReq, RecordMerged(m), req[m].prop = p,
             prop'[p].branch = prop[p].branch
      PROVE  prop'[p].branch \in MergedBranches'
  BY <1>1, <1>3, MergedGrows
<1>4. ASSUME NEW b \in Branch, prop'[p] = [status |-> "open", branch |-> b]
      PROVE  FALSE
  <2>1. prop'[p].status = "open"
    BY <1>4
  <2> QED BY <2>1
<1> QED BY <1>2, <1>3, <1>4, PropStep DEF FlowInv, IInv

LEMMA SoloStep == FlowInv /\ [Next]_vars => SoloWriteKept'
<1> SUFFICES ASSUME FlowInv, [Next]_vars, solo', NEW w \in WriteReq, req'[w].pc = "acked"
             PROVE  w \in main'.log
  BY DEF SoloWriteKept, At
<1>0. TypeOK /\ solo /\ main.log \subseteq main'.log /\ req \in [Request -> ReqState]
      /\ w \in Request
  BY MainGrows, Kinds DEF FlowInv, IInv, TypeOK
<1>1. CASE req[w].pc = "acked"
  BY <1>0, <1>1 DEF FlowInv, SoloWriteKept, At
<1>2. CASE WritePush(w)
  <2>1. ~Return(w, "failed")
    BY <1>0 DEF Return, ReqState
  <2>2. At(w, "pushing") /\ main'.log = req[w].tmp.log
    BY <1>0, <1>2, <2>1 DEF WritePush
  <2> QED BY <1>0, <2>2 DEF FlowInv, WriteClones
<1> QED BY <1>0, <1>1, <1>2, CallStep DEF Enters

-----------------------------------------------------------------------------

LEMMA FlowInit == Init => FlowInv
<1> SUFFICES ASSUME Init PROVE FlowInv
  OBVIOUS
<1>1. /\ \A r \in Request : req[r].pc = "idle"
      /\ main.log = {} /\ \A b \in Branch : branch[b].log = {} /\ ~branch[b].live
      /\ \A p \in ProposeReq : prop[p].status = "none"
  <2>1. main.log = {} /\ \A b \in Branch : branch[b].log = {} /\ ~branch[b].live
    BY DEF Init, NoBranches, NoBranch
  <2>2. \A p \in ProposeReq : prop[p].status = "none"
    BY DEF Init, NoRows
  <2>3. \A r \in Request : req[r].pc = "idle"
    BY DEF Init, IdleReq
  <2> QED BY <2>1, <2>2, <2>3
<1>2. \A r \in Request : ~Reachable(r)
  BY <1>1 DEF Reachable
<1> QED BY <1>1, <1>2, InitIInv, Kinds
        DEF FlowInv, Pushed, RowsNamed, WriteClones, MergeClones, OwnWrites, ThroughMerge,
            Landed, MarkedMerged, SoloWriteKept, At, Active

LEMMA FlowStep == FlowInv /\ [Next]_vars => FlowInv'
  BY NextIInv, PushedStep, RowsNamedStep, WriteClonesStep, MergeClonesStep, OwnWritesStep,
     ThroughMergeStep, LandedStep, MarkedMergedStep, SoloStep DEF FlowInv

\* The inductive invariant of the review flow holds throughout.
THEOREM FlowInvariant == Spec => []FlowInv
  BY FlowInit, FlowStep, PTL DEF Spec

\* A merge on main, and the row it was for.
LEMMA MergeOnMain ==
  ASSUME FlowInv, NEW b \in MergedBranches
  PROVE  \E m \in MergeReq \cap main.log :
           /\ req[m].branch = b /\ req[m].prop \in ProposeReq
           /\ prop[req[m].prop].status # "none" /\ prop[req[m].prop].branch = b
<1> PICK m \in MergeReq \cap main.log : req[m].branch = b
  BY DEF MergedBranches
<1>1. Reachable(m) /\ req[m].prop \in ProposeReq
  BY Kinds DEF Reachable, FlowInv, IInv, TypeOK, ReqState
<1>2. Named(m)
  BY <1>1 DEF FlowInv, RowsNamed
<1> QED BY <1>1, <1>2 DEF Named

\* ADR-0004, git first: no row of merge_proposals says merged before a merge of
\* its branch is on main, for any number of racing merges, failures and crashes.
THEOREM MergedFirst == Spec => []MergedIsOnMain
<1>1. FlowInv => MergedIsOnMain
  BY MergeOnMain DEF FlowInv, MarkedMerged, MergedIsOnMain
<1> QED BY <1>1, FlowInvariant, PTL

\* In team mode every write on main came there in the push of a merge whose row
\* had been opened for the write's branch, with the tip that branch then had.
THEOREM MergesOnly == Spec => OnlyMergesReachMain
<1> DEFINE Sound ==
      ~solo =>
        \A w \in WriteReq \cap (main'.log \ main.log) :
          \E m \in MergeReq :
            /\ At(m, "pushing") /\ lock = m /\ ~At(m, "pushing")'
            /\ prop[req[m].prop].status # "none"
            /\ prop[req[m].prop].branch = req[w].branch
            /\ w \in branch[req[w].branch].log
<1>1. FlowInv /\ [Next]_vars => Sound
  <2> SUFFICES ASSUME FlowInv, [Next]_vars, ~solo,
                      NEW w \in WriteReq, w \in main'.log, w \notin main.log
               PROVE  \E m \in MergeReq :
                        /\ At(m, "pushing") /\ lock = m /\ ~At(m, "pushing")'
                        /\ prop[req[m].prop].status # "none"
                        /\ prop[req[m].prop].branch = req[w].branch
                        /\ w \in branch[req[w].branch].log
    OBVIOUS
  <2>1. PICK m \in MergeReq : MergePush(m)
    BY RefStep DEF PushesWrite, Deletes, DeleteBranch, FlowInv, IInv
  <2>2. At(m, "pushing") /\ main'.log = req[m].tmp.log
    BY <2>1 DEF MergePush
  <2>3. m \in Request /\ m # w /\ req \in [Request -> ReqState] /\ req[m].branch \in Branch
    BY Kinds DEF FlowInv, IInv, TypeOK, ReqState
  \* The merge brings its branch, and what it holds beyond main is its own.
  <2>4. w \in branch[req[m].branch].log
    BY <2>2, <2>3 DEF FlowInv, MergeClones
  <2>5. req[w].branch = req[m].branch
    BY <2>3, <2>4 DEF FlowInv, OwnWrites
  <2>6. Named(m)
    BY <2>2 DEF FlowInv, RowsNamed, Active, At
  <2>7. lock = m
    BY <2>2, <2>3 DEF FlowInv, IInv, HoldsMutex
  <2>8. ~At(m, "pushing")'
    BY <2>1, <2>3 DEF MergePush, Go, Return, At, ReqState
  <2> QED BY <2>2, <2>4, <2>5, <2>6, <2>7, <2>8 DEF Named
<1>2. FlowInv /\ [Next]_vars => [Sound]_vars
  BY <1>1
<1> QED BY <1>2, FlowInvariant, PTL DEF Spec, OnlyMergesReachMain

\* In solo mode an acknowledged write is on main, and stays there.
THEOREM SoloKept == Spec => []SoloWriteKept
<1>1. FlowInv => SoloWriteKept
  BY DEF FlowInv
<1> QED BY <1>1, FlowInvariant, PTL

\* A merge that goes through changes only files that main has had unchanged
\* since the branch started, and to what the branch says.
THEOREM NothingOverwritten == Spec => NoSilentOverwrite
<1> DEFINE Sound ==
      \A m \in MergeReq : At(m, "pushing") /\ main' # main /\ lock = m =>
        \A f \in File : main'.files[f] # main.files[f] =>
          /\ main.files[f] = branch[req[m].branch].base[f]
          /\ main'.files[f] = branch[req[m].branch].files[f]
<1>1. FlowInv /\ [Next]_vars => Sound
  <2> SUFFICES ASSUME FlowInv, [Next]_vars, NEW m \in MergeReq,
                      At(m, "pushing"), main' # main, lock = m,
                      NEW f \in File, main'.files[f] # main.files[f]
               PROVE  /\ main.files[f] = branch[req[m].branch].base[f]
                      /\ main'.files[f] = branch[req[m].branch].files[f]
    OBVIOUS
  \* Who pushes holds the mutex, and that is m.
  <2>1. \A r \in Request : At(r, "pushing") => r = m
    BY DEF FlowInv, IInv, HoldsMutex
  <2>2. MergePush(m)
    BY <2>1, RefStep, Kinds DEF PushesWrite, MergePush, Deletes, DeleteBranch, FlowInv, IInv
  <2>3. main'.files = req[m].tmp.files
    BY <2>2 DEF MergePush
  <2> QED BY <2>3 DEF FlowInv, MergeClones
<1>2. FlowInv /\ [Next]_vars => [Sound]_vars
  BY <1>1
<1> QED BY <1>2, FlowInvariant, PTL DEF Spec, NoSilentOverwrite

\* A commit is lost in one way only: with a branch that is deleted after its
\* merge, when it came too late for that merge.
THEOREM OnlyDeletion == Spec => OnlyDeletionForgets
<1> DEFINE Sound ==
      \A w \in WriteReq : Reachable(w) /\ ~Reachable(w)' =>
        \E m \in MergeReq :
          /\ At(m, "deleting") /\ At(m, "acked")'
          /\ req[m].tmp.log # {} /\ req[m].tmp.log \subseteq main.log
          /\ w \notin req[m].tmp.log
<1>1. FlowInv /\ [Next]_vars => Sound
  <2> SUFFICES ASSUME FlowInv, [Next]_vars, NEW w \in WriteReq, Reachable(w), ~Reachable(w)'
               PROVE  \E m \in MergeReq :
                        /\ At(m, "deleting") /\ At(m, "acked")'
                        /\ req[m].tmp.log # {} /\ req[m].tmp.log \subseteq main.log
                        /\ w \notin req[m].tmp.log
    OBVIOUS
  <2>1. w \notin main.log /\ w \notin main'.log
    BY MainGrows DEF Reachable, FlowInv, IInv
  <2>2. PICK b \in Branch : w \in branch[b].log /\ w \notin branch'[b].log
    BY <2>1 DEF Reachable
  <2>3. ASSUME NEW v \in WriteReq, PushesWrite(v), ~solo, req[v].branch = b,
               branch'[b].log = req[v].tmp.log
        PROVE  FALSE
    BY <2>2, <2>3 DEF PushesWrite
  <2>4. PICK m \in MergeReq : DeleteBranch(m)
    BY <2>2, <2>3, BranchStep DEF Deletes
  <2>5. At(m, "deleting") /\ At(m, "acked")'
    BY <2>4, Kinds DEF DeleteBranch, Return, At, FlowInv, IInv, TypeOK, ReqState
  <2>6. req[m].tmp.log # {} /\ req[m].tmp.log \subseteq main.log
    BY <2>5 DEF FlowInv, Landed, At
  <2> QED BY <2>1, <2>5, <2>6
<1>2. FlowInv /\ [Next]_vars => [Sound]_vars
  BY <1>1
<1> QED BY <1>2, FlowInvariant, PTL DEF Spec, OnlyDeletionForgets

\* A row is not taken back once the calls that merge it have ended: none can
\* begin, and the row's own call has gone by.  A merged row that is reopened is
\* the doing of a call that was under way when it was marked.
LEMMA SettledStep ==
  ASSUME FlowInv, [Next]_vars, NEW p \in ProposeReq, Settled(p)
  PROVE  Settled(p)'
<1>0. /\ TypeOK /\ RowsNamed /\ req \in [Request -> ReqState] /\ MergeReq \subseteq Request
      /\ p \in Request
  BY Kinds DEF FlowInv, IInv, TypeOK
<1>1. \A m \in MergeReq : req[m].prop = p => req[m].pc \notin Active
  BY DEF Settled, Active, Ended
<1>2. prop'[p].status = "merged"
  <2>1. ~At(p, "idle")
    BY <1>0 DEF RowsNamed, Settled
  <2>2. \A m \in MergeReq : RecordConflict(m) => req[m].prop # p
    BY <1>1 DEF RecordConflict, At, Active
  <2> QED BY <1>0, <2>1, <2>2, PropStep DEF Settled
<1>3. ASSUME NEW m \in MergeReq, req'[m].prop = p, req'[m].pc \in Active
      PROVE  FALSE
  <2>1. CASE req[m].pc \in Active
    <3>1. req'[m].prop = req[m].prop
      BY <1>0, <2>1, CallStep DEF Onward, Active
    <3> QED BY <1>1, <1>3, <2>1, <3>1
  <2>2. ASSUME NEW q \in ProposeReq, MergeBegin(m, q), req[m].pc \notin Active
        PROVE  FALSE
    <3>1. ~Return(m, "failed")
      BY <1>0, <1>3 DEF Return, ReqState, Active
    <3>2. prop[q].status \in {"open", "conflicted"} /\ req'[m].prop = q
      BY <1>0, <2>2, <3>1 DEF MergeBegin, ReqState
    <3> QED BY <1>3, <3>2 DEF Settled
  <2> QED BY <1>0, <1>3, <2>1, <2>2, CallStep, Kinds DEF Enters
<1>4. TypeOK'
  BY FlowStep DEF FlowInv, IInv
<1>5. \A m \in MergeReq : req'[m].prop = p => req'[m].pc \in Ended \cup {"idle"}
  BY <1>0, <1>3, <1>4 DEF TypeOK, ReqState, ReqPC, Active
<1> QED BY <1>2, <1>5 DEF Settled

\* What holds of "only open or conflicted proposals can be merged": a row that
\* says merged while no call merges it says so for good.
THEOREM MergedSettled == Spec => MergedSettles
<1>1. FlowInv /\ [Next]_vars => [\A p \in ProposeReq : Settled(p) => Settled(p)']_vars
  BY SettledStep
<1> QED BY <1>1, FlowInvariant, PTL DEF Spec, MergedSettles

\* Where a write that was acknowledged is: on main, on its own branch, or its
\* branch was merged and deleted.
AckedWriteAccounted ==
  \A w \in WriteReq : At(w, "acked") =>
    \/ w \in main.log
    \/ w \in branch[req[w].branch].log
    \/ req[w].branch \in MergedBranches

\* A write that was acknowledged is lost in no other way than with a branch of
\* which a merge is on main, whatever fails and however calls race.
THEOREM AckedAccounted == Spec => []AckedWriteAccounted
<1>1. Init => AckedWriteAccounted
  <2>1. Init => \A w \in WriteReq : ~At(w, "acked")
    BY Kinds DEF Init, IdleReq, At
  <2> QED BY <2>1 DEF AckedWriteAccounted
<1>2. FlowInv /\ AckedWriteAccounted /\ [Next]_vars => AckedWriteAccounted'
  <2> SUFFICES ASSUME FlowInv, AckedWriteAccounted, [Next]_vars,
                      NEW w \in WriteReq, req'[w].pc = "acked"
               PROVE  \/ w \in main'.log
                      \/ w \in branch'[req'[w].branch].log
                      \/ req'[w].branch \in MergedBranches'
    BY DEF AckedWriteAccounted, At
  <2> DEFINE b == req[w].branch
  <2>0. /\ TypeOK /\ w \in Request /\ b \in Branch /\ req \in [Request -> ReqState]
        /\ main.log \subseteq main'.log /\ MergedBranches \subseteq MergedBranches'
    BY Kinds, MainGrows, MergedGrows DEF FlowInv, IInv, TypeOK, ReqState
  <2>1. req'[w].branch = b
    BY <2>0, CallStep DEF Onward, Enters, WritePush, At
  <2>2. CASE req[w].pc = "acked"
    <3>1. CASE w \in branch[b].log
      <4>1. ASSUME NEW v \in WriteReq, PushesWrite(v), ~solo, req[v].branch = b,
                   branch'[b].log = req[v].tmp.log
            PROVE  w \in branch'[b].log
        BY <3>1, <4>1 DEF PushesWrite
      <4>2. ASSUME NEW m \in MergeReq, Deletes(m), req[m].branch = b
            PROVE  b \in MergedBranches
        BY <4>2 DEF Deletes, DeleteBranch, At, FlowInv, Landed
      <4> QED BY <2>0, <2>1, <3>1, <4>1, <4>2, BranchStep
    <3> QED BY <2>0, <2>1, <2>2, <3>1 DEF AckedWriteAccounted, At
  <2>3. CASE WritePush(w)
    <3>1. ~Return(w, "failed")
      BY <2>0 DEF Return, ReqState
    <3>2. At(w, "pushing") /\ IF solo THEN main'.log = req[w].tmp.log
                              ELSE branch'[b].log = req[w].tmp.log
      BY <2>0, <2>3, <3>1 DEF WritePush, TypeOK
    <3>3. w \in req[w].tmp.log
      BY <3>2 DEF FlowInv, WriteClones
    <3> QED BY <2>1, <3>2, <3>3
  <2> QED BY <2>0, <2>2, <2>3, CallStep DEF Enters
<1> QED BY <1>1, <1>2, FlowInvariant, PTL DEF Spec

\* What is pushed has all of what it replaces, save the push of a write that
\* began an existing branch anew: git refuses nothing else.
PushesForward ==
  /\ \A m \in MergeReq : At(m, "pushing") => main.log \subseteq req[m].tmp.log
  /\ \A w \in WriteReq : At(w, "pushing") =>
       IF solo THEN main.log \subseteq req[w].tmp.log
       ELSE branch[req[w].branch].log \subseteq req[w].tmp.log \/ req[w].tmp.log = main.log \cup {w}

\* A merge's push to main and a solo write's are never refused as not
\* fast-forward, however many calls race: with MutexReturned and CallsAdvance,
\* what CallsEnd rests on.
THEOREM PushesAccepted == Spec => []PushesForward
<1>1. FlowInv => PushesForward
  BY DEF FlowInv, WriteClones, MergeClones, PushesForward
<1> QED BY <1>1, FlowInvariant, PTL
-----------------------------------------------------------------------------
(* Refinement: the calls implement the review flow.                         *)

Waiting == [b \in Branch |-> (branch[b].log \ main.log) \cap WriteReq]

\* A row is inserted.
Opens(p, b) ==
  At(p, "idle") /\ ~solo /\ prop' = [prop EXCEPT ![p] = [status |-> "open", branch |-> b]]

\* The rows change in these ways only, and never together with a ref.
LEMMA RowsStep ==
  ASSUME [Next]_vars
  PROVE  \/ UNCHANGED prop
         \/ UNCHANGED <<solo, main, branch>> /\ \E p \in ProposeReq, b \in Branch : Opens(p, b)
         \/ /\ UNCHANGED <<solo, main, branch>>
            /\ \E m \in MergeReq : \/ RecordConflict(m) /\ SetStatus(req[m].prop, "conflicted")
                                   \/ RecordMerged(m) /\ SetStatus(req[m].prop, "merged")
<1>1. ASSUME NEW p \in ProposeReq, NEW b \in Branch, Propose(p, b)
      PROVE  \/ UNCHANGED prop
             \/ UNCHANGED <<solo, main, branch>> /\ Opens(p, b)
  BY <1>1 DEF Propose, Opens
<1>2. ASSUME NEW m \in MergeReq, RecordConflict(m)
      PROVE  \/ UNCHANGED prop
             \/ UNCHANGED <<solo, main, branch>> /\ SetStatus(req[m].prop, "conflicted")
  BY <1>2 DEF RecordConflict
<1>3. ASSUME NEW m \in MergeReq, RecordMerged(m)
      PROVE  \/ UNCHANGED prop
             \/ UNCHANGED <<solo, main, branch>> /\ SetStatus(req[m].prop, "merged")
  BY <1>3 DEF RecordMerged
<1> QED BY <1>1, <1>2, <1>3
        DEF Next, WriteStep, MergeStep, WriteBegin, WriteClone, WritePush, MergeBegin,
            MergeClone, MergePush, DeleteBranch, Fail, Crash, vars

LEMMA MergedSame ==
  ASSUME FlowInv, [Next]_vars, main'.log \cap MergeReq = main.log \cap MergeReq
  PROVE  UNCHANGED MergedBranches
<1>1. \A m \in main.log \cap MergeReq : req'[m].branch = req[m].branch
  BY BranchKept, Kinds DEF Reachable
<1> QED BY <1>1 DEF MergedBranches

\* A write that is pushed lands in solo mode, and waits on its branch in team
\* mode.
LEMMA PushContributes ==
  ASSUME FlowInv, [Next]_vars, NEW w \in WriteReq, PushesWrite(w)
  PROVE  Review!Commit(w) \/ Review!Contribute(req[w].branch, w)
<1> DEFINE b == req[w].branch
           log == req[w].tmp.log
<1>0. /\ b \in Branch /\ w \in Request /\ w \notin MergeReq
      /\ branch \in [Branch -> BranchState] /\ UNCHANGED <<solo, prop>>
  BY Kinds DEF PushesWrite, FlowInv, IInv, TypeOK, ReqState
<1>1. w \notin main.log /\ \A c \in Branch : w \notin branch[c].log
  BY <1>0 DEF PushesWrite, At, FlowInv, Pushed, Reachable
<1>2. CASE solo
  <2>1. main'.log = main.log \cup {w} /\ UNCHANGED branch
    BY <1>2 DEF PushesWrite, FlowInv, WriteClones
  <2>2. (main.log \cap WriteReq)' = (main.log \cap WriteReq) \cup {w} /\ UNCHANGED Waiting
    BY <1>1, <2>1 DEF Waiting
  <2>3. UNCHANGED MergedBranches
    BY <1>0, <2>1, MergedSame
  <2> QED BY <1>0, <1>1, <1>2, <2>2, <2>3 DEF Review!Commit, Waiting, MergedBranches
<1>3. CASE ~solo
  <2>1. /\ log = main.log \cup {w} \/ log = branch[b].log \cup {w}
        /\ branch[b].log \subseteq log /\ UNCHANGED main
        /\ branch'[b].log = log /\ \A c \in Branch : c # b => branch'[c] = branch[c]
    BY <1>0, <1>3 DEF PushesWrite, FlowInv, WriteClones
  <2>2. (log \ main.log) \cap WriteReq = ((branch[b].log \ main.log) \cap WriteReq) \cup {w}
    BY <1>1, <2>1
  <2>3. Waiting' = [Waiting EXCEPT ![b] = @ \cup {w}]
    BY <1>0, <2>1, <2>2 DEF Waiting
  <2>4. UNCHANGED MergedBranches
    BY <2>1, MergedSame
  <2>5. \A u \in Branch : w \notin Waiting[u]
    BY <1>1 DEF Waiting
  <2> QED BY <1>0, <1>1, <1>3, <2>1, <2>3, <2>4, <2>5 DEF Review!Contribute, Waiting, MergedBranches
<1> QED BY <1>2, <1>3

\* A merge that is pushed lands what waits on its branch, all of it and
\* nothing else.
LEMMA MergeLands ==
  ASSUME FlowInv, [Next]_vars, NEW m \in MergeReq, MergePush(m), NEW b, b = req[m].branch
  PROVE  b \in Branch /\ Review!Land(b)
<1> DEFINE log == req[m].tmp.log
<1>0. /\ b \in Branch /\ m \in Request /\ m \notin WriteReq /\ At(m, "pushing")
      /\ branch \in [Branch -> BranchState] /\ UNCHANGED <<solo, prop>>
      /\ main'.log = log /\ req[m].prop \in ProposeReq
  BY Kinds DEF MergePush, FlowInv, IInv, TypeOK, ReqState
<1>1. Named(m)
  BY <1>0 DEF At, Active, FlowInv, RowsNamed
<1>2. /\ log \cap WriteReq = (main.log \cup branch[b].log) \cap WriteReq
      /\ log \subseteq main.log \cup branch[b].log \cup {m}
      /\ main.log \subseteq log
  BY <1>0 DEF FlowInv, MergeClones
<1>3. \A c \in Branch : branch'[c].log = branch[c].log
  BY <1>0 DEF MergePush, BranchState
<1>4. Waiting' = [Waiting EXCEPT ![b] = {}]
  <2>1. Waiting'[b] = {}
    BY <1>0, <1>2, <1>3 DEF Waiting
  \* No other branch holds a write of this one that is not on main.
  <2>2. ASSUME NEW c \in Branch, c # b
        PROVE  Waiting'[c] = Waiting[c]
    <3>1. branch[b].log \cap branch[c].log \cap WriteReq \subseteq main.log
      BY <1>0, <2>2 DEF FlowInv, OwnWrites
    <3> QED BY <1>0, <1>2, <1>3, <3>1 DEF Waiting
  <2> QED BY <1>0, <2>1, <2>2 DEF Waiting
<1>5. (main.log \cap WriteReq)' = (main.log \cap WriteReq) \cup Waiting[b]
  BY <1>0, <1>2 DEF Waiting
<1>6. MergedBranches' = MergedBranches \cup {b}
  <2>1. log \cap MergeReq \subseteq main.log \cup {m}
    BY <1>0, <1>2 DEF FlowInv, OwnWrites
  <2>2. \A k \in main.log \cap MergeReq : req'[k].branch = req[k].branch
    BY BranchKept, Kinds DEF Reachable
  <2>3. req'[m].branch = b
    BY <1>0, CallStep DEF Onward, At, FlowInv, IInv
  <2>4. MergedBranches' \subseteq MergedBranches \cup {b}
    BY <1>0, <2>1, <2>2, <2>3 DEF MergedBranches
  <2> QED BY <2>4, MergedGrows, MergedNow
<1>7. \E p \in ProposeReq : prop[p].status # "none" /\ prop[p].branch = b
  BY <1>0, <1>1 DEF Named
<1> QED BY <1>0, <1>4, <1>5, <1>6, <1>7 DEF Review!Land, Waiting, MergedBranches

\* A branch is deleted after a merge of it.
LEMMA DeleteDiscards ==
  ASSUME FlowInv, [Next]_vars, NEW m \in MergeReq, Deletes(m), NEW b, b = req[m].branch
  PROVE  b \in Branch /\ Review!Discard(b)
<1>0. /\ b \in Branch /\ branch \in [Branch -> BranchState] /\ UNCHANGED <<solo, main, prop>>
  BY Kinds DEF Deletes, DeleteBranch, FlowInv, IInv, TypeOK, ReqState
<1>1. Waiting' = [Waiting EXCEPT ![b] = {}]
  BY <1>0 DEF Deletes, Waiting, NoBranch
<1>2. UNCHANGED MergedBranches
  BY <1>0, MergedSame
<1>3. b \in MergedBranches
  BY DEF Deletes, DeleteBranch, At, FlowInv, Landed
<1> QED BY <1>0, <1>1, <1>2, <1>3 DEF Review!Discard, Waiting, MergedBranches

\* Each step is a step of the flow, or none.
LEMMA ReviewStep == FlowInv /\ [Next]_vars => [Review!FlowNext]_(Review!flow)
<1> SUFFICES ASSUME FlowInv, [Next]_vars
             PROVE  [Review!FlowNext]_(Review!flow)
  OBVIOUS
<1>a. \A t \in Branch : Review!Land(t) \/ Review!Discard(t) => Review!FlowNext
  BY DEF Review!FlowNext
<1>b. \A p \in ProposeReq, t \in Branch : Review!Open(p, t) => Review!FlowNext
  BY DEF Review!FlowNext
<1>c. \A c \in WriteReq, t \in Branch :
        Review!Commit(c) \/ Review!Contribute(t, c) => Review!FlowNext
  BY DEF Review!FlowNext
<1>0. TypeOK
  BY DEF FlowInv, IInv
<1>1. CASE UNCHANGED <<solo, main, branch>>
  <2>1. UNCHANGED <<MergedBranches, Waiting, main.log \cap WriteReq>>
    BY <1>1, MergedSame DEF Waiting
  <2>2. CASE UNCHANGED prop
    BY <1>1, <2>1, <2>2 DEF Review!flow, Waiting, MergedBranches
  <2>3. ASSUME NEW p \in ProposeReq, NEW b \in Branch, Opens(p, b)
        PROVE  Review!Open(p, b)
    <3>1. prop[p].status = "none"
      BY <2>3 DEF Opens, FlowInv, RowsNamed
    <3> QED BY <1>1, <2>1, <2>3, <3>1 DEF Opens, Review!Open, Waiting, MergedBranches
  <2>4. ASSUME NEW m \in MergeReq, NEW status \in {"merged", "conflicted"},
               SetStatus(req[m].prop, status),
               \/ RecordConflict(m) /\ status = "conflicted"
               \/ RecordMerged(m) /\ status = "merged"
        PROVE  req[m].prop \in ProposeReq /\ Review!Mark(req[m].prop, status)
    <3>1. Named(m) /\ req[m].prop \in ProposeReq
      BY <1>0, <2>4, Kinds DEF RecordConflict, RecordMerged, At, Active, FlowInv, RowsNamed,
                               TypeOK, ReqState
    <3>2. status = "merged" => req[m].branch \in MergedBranches
      BY <2>4 DEF RecordMerged, At, FlowInv, Landed
    <3> QED BY <1>1, <2>1, <2>4, <3>1, <3>2
            DEF Review!Mark, SetStatus, Named, Waiting, MergedBranches
  <2>5. \A m \in MergeReq :
          /\ RecordConflict(m) /\ SetStatus(req[m].prop, "conflicted") => Review!FlowNext
          /\ RecordMerged(m) /\ SetStatus(req[m].prop, "merged") => Review!FlowNext
    BY <2>4 DEF Review!FlowNext
  <2> QED BY <1>b, <2>2, <2>3, <2>5, RowsStep
<1>2. ASSUME NEW w \in WriteReq, PushesWrite(w)
      PROVE  Review!FlowNext
  <2>1. req[w].branch \in Branch
    BY <1>0, Kinds DEF TypeOK, ReqState
  <2>2. Review!Commit(w) \/ Review!Contribute(req[w].branch, w)
    BY <1>2, PushContributes
  <2> QED BY <1>c, <2>1, <2>2
<1>3. ASSUME NEW m \in MergeReq, MergePush(m) \/ Deletes(m)
      PROVE  Review!FlowNext
  <2> PICK b : b = req[m].branch
    OBVIOUS
  <2> QED BY <1>3, <1>a, MergeLands, DeleteDiscards
<1> QED BY <1>0, <1>1, <1>2, <1>3, RefStep

\* The calls, with any number of them racing, failing and crashing, implement
\* the review flow: changes land through merges of their branch, whole.
THEOREM ImplementsFlow == Spec => ImplementsReview
<1>1. Init => Review!FlowInit
  <2> SUFFICES ASSUME Init PROVE Review!FlowInit
    OBVIOUS
  <2>1. main.log = {} /\ (\A b \in Branch : branch[b].log = {}) /\ solo \in BOOLEAN
    BY DEF Init, NoBranches, NoBranch
  <2>2. \A p \in ProposeReq : prop[p].status = "none"
    BY DEF Init, NoRows
  <2> QED BY <2>1, <2>2 DEF Review!FlowInit
<1> QED BY <1>1, ReviewStep, FlowInvariant, PTL DEF Spec, ImplementsReview, Review!FlowSpec
=============================================================================
