--------------------------- MODULE ProposalsProofs ---------------------------
(***************************************************************************)
(* Theorems of module Proposals, for any sets of calls, branches, files    *)
(* and contents, in team mode and in solo mode.                            *)
(***************************************************************************)
EXTENDS Proposals, Naturals, TLAPS

LEMMA NoneIsNoCall == None \notin Request /\ WriteReq \cap MergeReq = {}
  BY RequestAssumption

LEMMA IdleType ==
  /\ AnyBranch \in Branch /\ NoFiles \in Tree /\ NoClone \in Clone
  /\ NoBranch \in BranchState /\ IdleReq \in ReqState
<1>1. AnyBranch \in Branch
  BY DataAssumption DEF AnyBranch
<1>2. NoFiles \in Tree
  BY DataAssumption DEF NoFiles, Tree
<1>3. (CHOOSE p \in ProposeReq : TRUE) \in ProposeReq
  BY DataAssumption
<1> QED BY <1>1, <1>2, <1>3 DEF NoClone, Clone, NoBranch, BranchState, IdleReq, ReqState, ReqPC

LEMMA TreeOps ==
  ASSUME NEW s \in Tree, NEW t \in Tree, NEW u \in Tree
  PROVE  Overwrite(s, t) \in Tree /\ Merged(s, t, u) \in Tree
  BY DEF Tree, Overwrite, Merged

\* A call that is about to push holds the mutex, so no two are.
HoldsMutex == \A r \in Request : At(r, "pushing") => lock = r

IInv == TypeOK /\ HoldsMutex

\* Whoever holds the mutex is about to push.
MutexInUse == lock # None => At(lock, "pushing")

-----------------------------------------------------------------------------

\* Ending a call, or moving it on, keeps the type of the calls.
LEMMA ReqMoves ==
  ASSUME TypeOK, NEW r \in Request, NEW pc \in ReqPC, Go(r, pc) \/ Return(r, pc)
  PROVE  req' \in [Request -> ReqState]
<1>0. req \in [Request -> ReqState] /\ NoClone \in Clone /\ NoFiles \in Tree
  BY IdleType DEF TypeOK
<1>1. CASE Go(r, pc)
  BY <1>0, <1>1 DEF Go, ReqState
<1>2. CASE Return(r, pc)
  <2>1. [[[req[r] EXCEPT !.pc = pc] EXCEPT !.tmp = NoClone] EXCEPT !.files = NoFiles] \in ReqState
    BY <1>0 DEF ReqState
  <2> QED BY <1>0, <1>2, <2>1 DEF Return
<1> QED BY <1>1, <1>2

LEMMA TypeStep == TypeOK /\ [Next]_vars => TypeOK'
<1> SUFFICES ASSUME TypeOK, [Next]_vars PROVE TypeOK'
  OBVIOUS
<1>0. /\ main.log \in SUBSET Request /\ main.files \in Tree
      /\ \A b \in Branch : branch[b] \in BranchState
      /\ \A r \in Request : req[r] \in ReqState /\ req[r].tmp \in Clone
      /\ {"waiting", "pushing", "recording", "reporting", "deleting", "acked",
          "conflict", "failed"} \subseteq ReqPC
  BY DEF TypeOK, ReqState, ReqPC, Ended
<1>1. ASSUME NEW w \in WriteReq, NEW b \in Branch, NEW files \in Tree, WriteBegin(w, b, files)
      PROVE  TypeOK'
  <2>1. w \in Request
    BY DEF Request
  <2> QED BY <1>0, <1>1, <2>1 DEF WriteBegin, TypeOK, ReqState
<1>2. ASSUME NEW w \in WriteReq, WriteClone(w)
      PROVE  TypeOK'
  <2>1. w \in Request /\ req[w].branch \in Branch /\ req[w].files \in Tree
    BY <1>0 DEF Request, ReqState
  <2>2. PICK tip \in Tips(req[w].branch) :
          req' = [req EXCEPT ![w].pc = "pushing",
                    ![w].tmp = [log |-> tip.log \cup {w}, base |-> tip.base,
                                files |-> Overwrite(tip.files, req[w].files)]]
    BY <1>2 DEF WriteClone
  <2>3. tip \in Clone
    BY <1>0, <2>1 DEF Tips, MainTip, BranchTip, Clone, BranchState
  <2>4. [log |-> tip.log \cup {w}, base |-> tip.base,
         files |-> Overwrite(tip.files, req[w].files)] \in Clone
    BY <2>1, <2>3, TreeOps DEF Clone
  <2>5. req' \in [Request -> ReqState]
    BY <1>0, <2>1, <2>2, <2>4 DEF TypeOK, ReqState
  <2> QED BY <1>2, <2>1, <2>5 DEF WriteClone, Lock, TypeOK
<1>3. ASSUME NEW w \in WriteReq, WritePush(w)
      PROVE  TypeOK'
  <2> DEFINE b == req[w].branch
             c == req[w].tmp
  <2>1. w \in Request /\ b \in Branch /\ c \in Clone
    BY <1>0 DEF Request, ReqState
  <2>2. req' \in [Request -> ReqState]
    BY <1>0, <1>3, <2>1, ReqMoves DEF WritePush
  <2>3. main' \in [log : SUBSET Request, files : Tree]
    BY <1>3, <2>1 DEF WritePush, TypeOK, Clone
  <2>4. branch' \in [Branch -> BranchState]
    <3>1. [live |-> TRUE, log |-> c.log, base |-> c.base, files |-> c.files] \in BranchState
      BY <2>1 DEF Clone, BranchState
    <3>2. \/ branch' = branch
          \/ branch' = [branch EXCEPT ![b] =
                          [live |-> TRUE, log |-> c.log, base |-> c.base, files |-> c.files]]
      BY <1>3 DEF WritePush
    <3> QED BY <3>1, <3>2 DEF TypeOK
  <2>5. lock' \in Request \cup {None}
    BY <1>3 DEF WritePush, Unlock, TypeOK
  <2> QED BY <1>3, <2>2, <2>3, <2>4, <2>5 DEF WritePush, TypeOK
<1>4. ASSUME NEW p \in ProposeReq, NEW b \in Branch, Propose(p, b)
      PROVE  TypeOK'
  <2>1. p \in Request
    BY DEF Request
  <2>2. req' \in [Request -> ReqState]
    BY <1>0, <1>4, <2>1, ReqMoves DEF Propose
  <2>3. prop' \in [ProposeReq -> Row]
    BY <1>4 DEF Propose, TypeOK, Row, Status
  <2> QED BY <1>4, <2>2, <2>3 DEF Propose, TypeOK
<1>5. ASSUME NEW m \in MergeReq, NEW p \in ProposeReq, MergeBegin(m, p)
      PROVE  TypeOK'
  <2>1. m \in Request /\ prop[p].branch \in Branch
    BY DEF Request, TypeOK, Row
  <2>2. req' \in [Request -> ReqState]
    <3>1. CASE prop[p].status \in {"open", "conflicted"}
      BY <1>0, <1>5, <2>1, <3>1 DEF MergeBegin, TypeOK, ReqState
    <3>2. CASE prop[p].status \notin {"open", "conflicted"}
      BY <1>0, <1>5, <2>1, <3>2, ReqMoves DEF MergeBegin
    <3> QED BY <3>1, <3>2
  <2> QED BY <1>5, <2>2 DEF MergeBegin, TypeOK
<1>6. ASSUME NEW m \in MergeReq, MergeClone(m)
      PROVE  TypeOK'
  <2> DEFINE t == branch[req[m].branch]
             same == [log |-> main.log, base |-> t.files, files |-> main.files]
             new == [log |-> main.log \cup t.log \cup {m}, base |-> t.files,
                     files |-> Merged(main.files, t.files, t.base)]
  <2>1. m \in Request /\ t \in BranchState
    BY <1>0 DEF Request, ReqState
  <2>2. same \in Clone /\ new \in Clone
    BY <1>0, <2>1, TreeOps DEF Clone, BranchState
  <2>3. \/ Return(m, "failed") /\ UNCHANGED lock
        \/ Return(m, "reporting") /\ UNCHANGED lock
        \/ Lock(m) /\ req' = [req EXCEPT ![m].pc = "pushing", ![m].tmp = same]
        \/ Lock(m) /\ req' = [req EXCEPT ![m].pc = "pushing", ![m].tmp = new]
    BY <1>6 DEF MergeClone
  <2>4. req' \in [Request -> ReqState]
    <3>1. CASE Return(m, "failed") \/ Return(m, "reporting")
      BY <1>0, <2>1, <3>1, ReqMoves
    <3>2. CASE req' = [req EXCEPT ![m].pc = "pushing", ![m].tmp = same]
      BY <1>0, <2>1, <2>2, <3>2 DEF TypeOK, ReqState
    <3>3. CASE req' = [req EXCEPT ![m].pc = "pushing", ![m].tmp = new]
      BY <1>0, <2>1, <2>2, <3>3 DEF TypeOK, ReqState
    <3> QED BY <2>3, <3>1, <3>2, <3>3
  <2>5. lock' \in Request \cup {None}
    BY <2>1, <2>3 DEF Lock, TypeOK
  <2> QED BY <1>6, <2>4, <2>5 DEF MergeClone, TypeOK
<1>7. ASSUME NEW m \in MergeReq, MergePush(m)
      PROVE  TypeOK'
  <2>1. m \in Request /\ req[m].tmp \in Clone /\ req[m].branch \in Branch
    BY <1>0 DEF Request, ReqState
  <2>2. req' \in [Request -> ReqState]
    BY <1>0, <1>7, <2>1, ReqMoves DEF MergePush
  <2>3. main' \in [log : SUBSET Request, files : Tree]
    BY <1>7, <2>1 DEF MergePush, Clone
  <2>4. branch' \in [Branch -> BranchState]
    BY <1>7, <2>1 DEF MergePush, TypeOK, Clone, BranchState
  <2>5. lock' \in Request \cup {None}
    BY <1>7 DEF MergePush, Unlock, TypeOK
  <2> QED BY <1>7, <2>2, <2>3, <2>4, <2>5 DEF MergePush, TypeOK
<1>8. ASSUME NEW m \in MergeReq, RecordConflict(m) \/ RecordMerged(m)
      PROVE  TypeOK'
  <2>1. m \in Request /\ req[m].prop \in ProposeReq
    BY <1>0 DEF Request, ReqState
  <2>2. req' \in [Request -> ReqState]
    BY <1>0, <1>8, <2>1, ReqMoves DEF RecordConflict, RecordMerged
  <2>3. prop' \in [ProposeReq -> Row]
    BY <1>8, <2>1 DEF RecordConflict, RecordMerged, SetStatus, TypeOK, Row, Status
  <2> QED BY <1>8, <2>2, <2>3 DEF RecordConflict, RecordMerged, TypeOK
<1>9. ASSUME NEW m \in MergeReq, DeleteBranch(m)
      PROVE  TypeOK'
  <2>1. m \in Request /\ req[m].branch \in Branch
    BY <1>0 DEF Request, ReqState
  <2>2. req' \in [Request -> ReqState]
    BY <1>0, <1>9, <2>1, ReqMoves DEF DeleteBranch
  <2>3. branch' \in [Branch -> BranchState]
    BY <1>9, <2>1, IdleType DEF DeleteBranch, TypeOK
  <2> QED BY <1>9, <2>2, <2>3 DEF DeleteBranch, TypeOK
<1>10. ASSUME NEW r \in Request, Fail(r)
       PROVE  TypeOK'
  <2>1. req' \in [Request -> ReqState]
    BY <1>0, <1>10, ReqMoves DEF Fail
  <2> QED BY <1>10, <2>1 DEF Fail, Unlock, TypeOK
<1>11. CASE Crash
  <2>1. req' \in [Request -> ReqState]
    BY <1>0, <1>11, IdleType DEF Crash, TypeOK, ReqState
  <2> QED BY <1>11, <2>1 DEF Crash, TypeOK
<1>12. CASE UNCHANGED vars
  BY <1>12 DEF vars, TypeOK
<1> QED BY <1>1, <1>2, <1>3, <1>4, <1>5, <1>6, <1>7, <1>8, <1>9, <1>10, <1>11, <1>12
        DEF Next, WriteStep, MergeStep

-----------------------------------------------------------------------------

LEMMA HolderStep == IInv /\ [Next]_vars => HoldsMutex'
<1> SUFFICES ASSUME IInv, [Next]_vars PROVE HoldsMutex'
  OBVIOUS
<1>0. /\ HoldsMutex /\ req \in [Request -> ReqState]
      /\ WriteReq \subseteq Request /\ MergeReq \subseteq Request
      /\ ProposeReq \subseteq Request
  BY DEF IInv, TypeOK, Request
\* A call that is not about to push afterwards, and whose step takes the mutex
\* from no other call.
<1>a. ASSUME NEW q \in Request, ~At(q, "pushing")', Unlock(q) \/ UNCHANGED lock,
             \A r \in Request : r # q => req'[r] = req[r]
      PROVE  HoldsMutex'
  BY <1>0, <1>a DEF HoldsMutex, At, Unlock
\* A step that takes the mutex while it is free.
<1>b. ASSUME NEW q \in Request, Lock(q), \A r \in Request : r # q => req'[r] = req[r]
      PROVE  HoldsMutex'
  <2>1. \A r \in Request : ~At(r, "pushing")
    BY <1>0, <1>b, NoneIsNoCall DEF HoldsMutex, Lock
  <2> QED BY <1>b, <2>1 DEF HoldsMutex, At, Lock
<1>1. ASSUME NEW w \in WriteReq, NEW b \in Branch, NEW files \in Tree, WriteBegin(w, b, files)
      PROVE  HoldsMutex'
  BY <1>0, <1>1, <1>a DEF WriteBegin, At, ReqState
<1>2. ASSUME NEW w \in WriteReq, WriteClone(w)
      PROVE  HoldsMutex'
  <2>1. \A r \in Request : r # w => req'[r] = req[r]
    BY <1>0, <1>2 DEF WriteClone
  <2> QED BY <1>0, <1>2, <1>b, <2>1 DEF WriteClone
<1>3. ASSUME NEW w \in WriteReq, WritePush(w)
      PROVE  HoldsMutex'
  <2>1. Return(w, "acked") \/ Return(w, "failed")
    BY <1>3 DEF WritePush
  <2>2. ~At(w, "pushing")' /\ \A r \in Request : r # w => req'[r] = req[r]
    BY <1>0, <2>1 DEF Return, At, ReqState
  <2> QED BY <1>0, <1>3, <1>a, <2>2 DEF WritePush
<1>4. ASSUME NEW p \in ProposeReq, NEW b \in Branch, Propose(p, b)
      PROVE  HoldsMutex'
  BY <1>0, <1>4, <1>a DEF Propose, At, Return, ReqState
<1>5. ASSUME NEW m \in MergeReq, NEW p \in ProposeReq, MergeBegin(m, p)
      PROVE  HoldsMutex'
  BY <1>0, <1>5, <1>a DEF MergeBegin, At, Return, ReqState
<1>6. ASSUME NEW m \in MergeReq, MergeClone(m)
      PROVE  HoldsMutex'
  <2>1. \A r \in Request : r # m => req'[r] = req[r]
    BY <1>0, <1>6 DEF MergeClone, Return
  <2>2. CASE Lock(m)
    BY <1>0, <1>b, <2>1, <2>2
  <2>3. CASE (Return(m, "failed") \/ Return(m, "reporting")) /\ UNCHANGED lock
    BY <1>0, <1>a, <2>1, <2>3 DEF Return, At, ReqState
  <2> QED BY <1>6, <2>2, <2>3 DEF MergeClone
<1>7. ASSUME NEW m \in MergeReq, MergePush(m)
      PROVE  HoldsMutex'
  BY <1>0, <1>7, <1>a DEF MergePush, At, Return, Go, ReqState
<1>8. ASSUME NEW m \in MergeReq, RecordConflict(m) \/ RecordMerged(m) \/ DeleteBranch(m)
      PROVE  HoldsMutex'
  BY <1>0, <1>8, <1>a DEF RecordConflict, RecordMerged, DeleteBranch, At, Return, Go, ReqState
<1>9. ASSUME NEW q \in Request, Fail(q)
      PROVE  HoldsMutex'
  BY <1>0, <1>9, <1>a DEF Fail, At, Return, ReqState
<1>10. CASE Crash
  <2>1. ASSUME NEW r \in Request
        PROVE  ~At(r, "pushing")'
    <3>1. req'[r] = IF req[r].pc \in Ended \cup {"idle"} THEN req[r]
                    ELSE [req[r] EXCEPT !.pc = "failed", !.tmp = NoClone, !.files = NoFiles]
      BY <1>10 DEF Crash
    <3>2. CASE req[r].pc \in Ended \cup {"idle"}
      BY <3>1, <3>2 DEF Ended, At
    <3>3. CASE req[r].pc \notin Ended \cup {"idle"}
      BY <1>0, <3>1, <3>3 DEF ReqState, At
    <3> QED BY <3>2, <3>3
  <2> QED BY <2>1 DEF HoldsMutex, At
<1>11. CASE UNCHANGED vars
  BY <1>0, <1>11 DEF vars, HoldsMutex, At
<1> QED BY <1>1, <1>2, <1>3, <1>4, <1>5, <1>6, <1>7, <1>8, <1>9, <1>10, <1>11
        DEF Next, WriteStep, MergeStep

LEMMA RefsStep ==
  IInv /\ [Next]_vars =>
    \A r \in Request : At(r, "pushing") /\ At(r, "pushing")' => UNCHANGED <<main, branch>>
<1> SUFFICES ASSUME IInv, [Next]_vars,
                    NEW r \in Request, At(r, "pushing"), At(r, "pushing")'
             PROVE  UNCHANGED <<main, branch>>
  OBVIOUS
<1>0. /\ lock = r /\ req \in [Request -> ReqState]
      /\ WriteReq \subseteq Request /\ MergeReq \subseteq Request
  BY DEF IInv, HoldsMutex, TypeOK, Request
\* The call that pushes is r, and its push ends it.
<1>1. ASSUME NEW w \in WriteReq, WritePush(w)
      PROVE  FALSE
  <2>1. w = r
    BY <1>0, <1>1 DEF WritePush, IInv, HoldsMutex
  <2>2. Return(w, "acked") \/ Return(w, "failed")
    BY <1>1 DEF WritePush
  <2> QED BY <1>0, <2>1, <2>2 DEF Return, At, ReqState
<1>2. ASSUME NEW m \in MergeReq, MergePush(m)
      PROVE  FALSE
  <2>1. m = r
    BY <1>0, <1>2 DEF MergePush, IInv, HoldsMutex
  <2> QED BY <1>0, <1>2, <2>1 DEF MergePush, Return, Go, At, ReqState
\* A branch is deleted while the mutex is free.
<1>3. ASSUME NEW m \in MergeReq, DeleteBranch(m)
      PROVE  FALSE
  BY <1>0, <1>3, NoneIsNoCall DEF DeleteBranch
<1> QED BY <1>1, <1>2, <1>3
        DEF Next, WriteStep, MergeStep, WriteBegin, WriteClone, Propose, MergeBegin,
            MergeClone, RecordConflict, RecordMerged, Fail, Crash, vars

-----------------------------------------------------------------------------

LEMMA InitIInv == Init => IInv
<1> SUFFICES ASSUME Init PROVE IInv
  OBVIOUS
<1>1. TypeOK
  BY IdleType DEF Init, TypeOK, NoBranches, NoRows, Row, Status
<1>2. HoldsMutex
  BY DEF Init, HoldsMutex, At, IdleReq
<1> QED BY <1>1, <1>2 DEF IInv

LEMMA NextIInv == IInv /\ [Next]_vars => IInv'
  BY TypeStep, HolderStep DEF IInv

THEOREM Invariant == Spec => []IInv
  BY InitIInv, NextIInv, PTL DEF Spec

\* Every variable keeps its type (refs, rows, calls and the mutex).
THEOREM TypeCorrect == Spec => []TypeOK
<1>1. IInv => TypeOK
  BY DEF IInv
<1> QED BY <1>1, Invariant, PTL

\* The mutex of a repository is enough: nothing moves under a clone that is
\* about to be pushed, for any number of writers and mergers, with calls
\* failing and the server dying anywhere.
THEOREM MutexSuffices == Spec => RefsStayUnderClone
<1>1. IInv /\ [Next]_vars =>
        [\A r \in Request : At(r, "pushing") /\ At(r, "pushing")' => UNCHANGED <<main, branch>>]_vars
  BY RefsStep
<1> QED BY <1>1, Invariant, PTL DEF Spec, RefsStayUnderClone

\* A call that ended, failed or died has given the mutex back.
LEMMA InUseStep == TypeOK /\ MutexInUse /\ [Next]_vars => MutexInUse'
<1> SUFFICES ASSUME TypeOK, MutexInUse, [Next]_vars PROVE MutexInUse'
  OBVIOUS
<1>0. /\ req \in [Request -> ReqState] /\ lock \in Request \cup {None} /\ None \notin Request
      /\ WriteReq \subseteq Request /\ MergeReq \subseteq Request /\ ProposeReq \subseteq Request
  BY NoneIsNoCall DEF TypeOK, Request
\* A step of a call that gives the mutex back, or has not got it.
<1>a. ASSUME NEW q \in Request, Unlock(q) \/ (~At(q, "pushing") /\ UNCHANGED lock),
             \A r \in Request : r # q => req'[r] = req[r]
      PROVE  MutexInUse'
  BY <1>0, <1>a DEF MutexInUse, At, Unlock
\* A step that takes the mutex in order to push.
<1>b. ASSUME NEW q \in Request, Lock(q), At(q, "pushing")'
      PROVE  MutexInUse'
  BY <1>b DEF MutexInUse, At, Lock
<1>c. ASSUME NEW q \in Request, NEW pc, Go(q, pc) \/ Return(q, pc)
      PROVE  \A r \in Request : r # q => req'[r] = req[r]
  BY <1>0, <1>c DEF Go, Return
<1>1. ASSUME NEW w \in WriteReq, NEW b \in Branch, NEW files \in Tree, WriteBegin(w, b, files)
      PROVE  MutexInUse'
  BY <1>0, <1>1, <1>a DEF WriteBegin, At
<1>2. ASSUME NEW w \in WriteReq, WriteClone(w)
      PROVE  MutexInUse'
  <2>1. PICK c : req' = [req EXCEPT ![w].pc = "pushing", ![w].tmp = c]
    BY <1>2 DEF WriteClone
  <2>2. At(w, "pushing")'
    BY <1>0, <2>1 DEF At, ReqState
  <2> QED BY <1>0, <1>2, <1>b, <2>2 DEF WriteClone
<1>3. ASSUME NEW w \in WriteReq, WritePush(w)
      PROVE  MutexInUse'
  BY <1>0, <1>3, <1>a, <1>c DEF WritePush
<1>4. ASSUME NEW p \in ProposeReq, NEW b \in Branch, Propose(p, b)
      PROVE  MutexInUse'
  BY <1>0, <1>4, <1>a, <1>c DEF Propose, At
<1>5. ASSUME NEW m \in MergeReq, NEW p \in ProposeReq, MergeBegin(m, p)
      PROVE  MutexInUse'
  BY <1>0, <1>5, <1>a, <1>c DEF MergeBegin, At
<1>6. ASSUME NEW m \in MergeReq, MergeClone(m)
      PROVE  MutexInUse'
  <2>1. CASE (Return(m, "failed") \/ Return(m, "reporting")) /\ UNCHANGED lock
    <3>1. ~At(m, "pushing")
      BY <1>6 DEF MergeClone, At
    <3> QED BY <1>0, <1>a, <1>c, <2>1, <3>1
  <2>2. CASE Lock(m) /\ \E c : req' = [req EXCEPT ![m].pc = "pushing", ![m].tmp = c]
    <3>1. At(m, "pushing")'
      BY <1>0, <2>2 DEF At, ReqState
    <3> QED BY <1>0, <1>b, <2>2, <3>1
  <2> QED BY <1>6, <2>1, <2>2 DEF MergeClone
<1>7. ASSUME NEW m \in MergeReq, MergePush(m)
      PROVE  MutexInUse'
  BY <1>0, <1>7, <1>a, <1>c DEF MergePush
<1>8. ASSUME NEW m \in MergeReq, RecordConflict(m) \/ RecordMerged(m) \/ DeleteBranch(m)
      PROVE  MutexInUse'
  BY <1>0, <1>8, <1>a, <1>c DEF RecordConflict, RecordMerged, DeleteBranch, At
<1>9. ASSUME NEW q \in Request, Fail(q)
      PROVE  MutexInUse'
  BY <1>0, <1>9, <1>a, <1>c DEF Fail
<1>10. CASE Crash
  BY <1>10 DEF Crash, MutexInUse
<1>11. CASE UNCHANGED vars
  BY <1>11 DEF vars, MutexInUse, At
<1> QED BY <1>1, <1>2, <1>3, <1>4, <1>5, <1>6, <1>7, <1>8, <1>9, <1>10, <1>11
        DEF Next, WriteStep, MergeStep

\* No call leaves the mutex locked behind it: it is free, or held by a call
\* that is about to push, whatever failed, was abandoned or died before.  This is
\* the safety that CallsEnd rests on.
THEOREM MutexReturned == Spec => []MutexInUse
<1>1. Init => MutexInUse
  BY DEF Init, MutexInUse
<1>2. TypeOK /\ MutexInUse /\ [Next]_vars => MutexInUse'
  BY InUseStep
<1> QED BY <1>1, <1>2, TypeCorrect, PTL DEF Spec
-----------------------------------------------------------------------------
(* Termination.                                                             *)

\* How far a call has come.
Stage(pc) ==
  IF pc = "idle" THEN 0
  ELSE IF pc = "waiting" THEN 1
  ELSE IF pc = "pushing" THEN 2
  ELSE IF pc \in {"recording", "reporting"} THEN 3
  ELSE IF pc = "deleting" THEN 4
  ELSE 5
Advances(r) == Stage(req'[r].pc) > Stage(req[r].pc)

\* Some call gets further and none goes back.
Progress ==
  /\ \E r \in Request : Advances(r)
  /\ \A r \in Request : req'[r] = req[r] \/ Advances(r)

LEMMA ProgressStep == TypeOK /\ Next => Progress
<1> SUFFICES ASSUME TypeOK, Next PROVE Progress
  OBVIOUS
<1>0. /\ req \in [Request -> ReqState]
      /\ WriteReq \subseteq Request /\ MergeReq \subseteq Request /\ ProposeReq \subseteq Request
  BY DEF TypeOK, Request
<1>a. ASSUME NEW q \in Request, \A r \in Request : r # q => req'[r] = req[r], Advances(q)
      PROVE  Progress
  BY <1>a DEF Progress
<1>b. ASSUME NEW q \in Request, NEW pc, Go(q, pc) \/ Return(q, pc),
             Stage(pc) > Stage(req[q].pc)
      PROVE  Progress
  <2>1. req'[q].pc = pc /\ \A r \in Request : r # q => req'[r] = req[r]
    BY <1>0, <1>b DEF Go, Return, ReqState
  <2> QED BY <1>a, <1>b, <2>1 DEF Advances
<1>c. ASSUME NEW q \in Request, At(q, "waiting"), NEW c,
             req' = [req EXCEPT ![q].pc = "pushing", ![q].tmp = c]
      PROVE  Progress
  <2>1. req'[q].pc = "pushing" /\ \A r \in Request : r # q => req'[r] = req[r]
    BY <1>0, <1>c DEF ReqState
  <2>2. Advances(q)
    BY <1>c, <2>1 DEF Advances, At, Stage
  <2> QED BY <1>a, <2>1, <2>2
<1>1. ASSUME NEW w \in WriteReq, NEW b \in Branch, NEW files \in Tree, WriteBegin(w, b, files)
      PROVE  Progress
  <2>1. /\ At(w, "idle") /\ req'[w].pc = "waiting"
        /\ \A r \in Request : r # w => req'[r] = req[r]
    <3>1. /\ req[w] \in ReqState
          /\ req'[w] = [req[w] EXCEPT !.pc = "waiting", !.branch = b, !.files = files]
          /\ \A r \in Request : r # w => req'[r] = req[r]
      BY <1>0, <1>1 DEF WriteBegin
    <3>2. At(w, "idle")
      BY <1>1 DEF WriteBegin
    <3> QED BY <3>1, <3>2 DEF ReqState
  <2> QED BY <1>0, <1>a, <2>1 DEF Advances, At, Stage
<1>2. ASSUME NEW w \in WriteReq, WriteClone(w)
      PROVE  Progress
  BY <1>0, <1>2, <1>c DEF WriteClone
<1>3. ASSUME NEW w \in WriteReq, WritePush(w)
      PROVE  Progress
  <2>1. At(w, "pushing") /\ (Return(w, "acked") \/ Return(w, "failed"))
    BY <1>3 DEF WritePush
  <2> QED BY <1>0, <1>b, <2>1 DEF At, Stage
<1>4. ASSUME NEW p \in ProposeReq, NEW b \in Branch, Propose(p, b)
      PROVE  Progress
  <2>1. At(p, "idle") /\ (Return(p, "acked") \/ Return(p, "failed"))
    BY <1>4 DEF Propose
  <2> QED BY <1>0, <1>b, <2>1 DEF At, Stage
<1>5. ASSUME NEW m \in MergeReq, NEW p \in ProposeReq, MergeBegin(m, p)
      PROVE  Progress
  <2>1. /\ At(m, "idle")
        /\ \/ Return(m, "failed")
           \/ /\ req'[m].pc = "waiting"
              /\ \A r \in Request : r # m => req'[r] = req[r]
    BY <1>0, <1>5 DEF MergeBegin, ReqState
  <2> QED BY <1>0, <1>a, <1>b, <2>1 DEF Advances, At, Stage
<1>6. ASSUME NEW m \in MergeReq, MergeClone(m)
      PROVE  Progress
  <2>1. At(m, "waiting") /\ \/ Return(m, "failed") \/ Return(m, "reporting")
                            \/ \E c : req' = [req EXCEPT ![m].pc = "pushing", ![m].tmp = c]
    BY <1>6 DEF MergeClone
  <2> QED BY <1>0, <1>b, <1>c, <2>1 DEF At, Stage
<1>7. ASSUME NEW m \in MergeReq, MergePush(m)
      PROVE  Progress
  <2>1. At(m, "pushing") /\ (Go(m, "recording") \/ Return(m, "failed"))
    BY <1>7 DEF MergePush
  <2> QED BY <1>0, <1>b, <2>1 DEF At, Stage
<1>8. ASSUME NEW m \in MergeReq, RecordConflict(m) \/ RecordMerged(m) \/ DeleteBranch(m)
      PROVE  Progress
  <2>1. \/ At(m, "reporting") /\ Return(m, "conflict")
        \/ At(m, "recording") /\ Go(m, "deleting")
        \/ At(m, "deleting") /\ Return(m, "acked")
    BY <1>8 DEF RecordConflict, RecordMerged, DeleteBranch
  <2> QED BY <1>0, <1>b, <2>1 DEF At, Stage
<1>9. ASSUME NEW q \in Request, Fail(q)
      PROVE  Progress
  BY <1>9, <1>b DEF Fail, Stage
<1>10. CASE Crash
  <2>1. ASSUME NEW r \in Request
        PROVE  IF req[r].pc \in Ended \cup {"idle"} THEN req'[r] = req[r] ELSE Advances(r)
    <3>1. req'[r] = IF req[r].pc \in Ended \cup {"idle"} THEN req[r]
                    ELSE [req[r] EXCEPT !.pc = "failed", !.tmp = NoClone, !.files = NoFiles]
      BY <1>10, <2>1 DEF Crash
    <3>2. req[r] \in ReqState
      BY <1>0
    <3>3. req[r].pc \in Ended \cup {"idle"} \/ req'[r].pc = "failed"
      BY <3>1, <3>2 DEF ReqState
    <3> QED BY <3>1, <3>2, <3>3 DEF Advances, Stage, ReqState, ReqPC
  <2>2. PICK r \in Request : req[r].pc \notin Ended \cup {"idle"}
    BY <1>10 DEF Crash
  <2> QED BY <2>1, <2>2 DEF Progress
<1> QED BY <1>1, <1>2, <1>3, <1>4, <1>5, <1>6, <1>7, <1>8, <1>9, <1>10
        DEF Next, WriteStep, MergeStep

\* Each step takes a call further and none back, a crash of the server
\* included: a call takes five steps at most, and with them all calls come to
\* an end unless they are kept from the mutex, which MutexReturned excludes.
THEOREM CallsAdvance == Spec => [][Progress]_vars
<1>1. TypeOK /\ [Next]_vars => [Progress]_vars
  BY ProgressStep
<1> QED BY <1>1, TypeCorrect, PTL DEF Spec
==============================================================================
