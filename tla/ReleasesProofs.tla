--------------------------- MODULE ReleasesProofs ---------------------------
(***************************************************************************)
(* Theorems of module Releases, for any set of requests and any non-empty  *)
(* set of artifacts.                                                       *)
(***************************************************************************)
EXTENDS Releases, TLAPS

\* A bump yields a version, and a higher one than it started from.
LEMMA BumpHigher ==
  ASSUME NEW cur \in Version, NEW kind \in BumpKind
  PROVE  Bump(cur, kind) \in Version /\ Higher(Bump(cur, kind), cur)
  BY DEF Version, BumpKind, Bump, V, Higher

\* Latest yields a version, whatever it is given.
LEMMA LatestType ==
  ASSUME NEW S \in SUBSET Version
  PROVE  Latest(S) \in Version
<1> DEFINE highest == {v \in S : \A w \in S : Compare(w, v) <= 0}
<1>1. CASE highest = {}
  BY <1>1 DEF Latest, Zero, V, Version
<1>2. CASE highest # {}
  <2>1. (CHOOSE v \in highest : TRUE) \in highest
    BY <1>2
  <2>2. Latest(S) = CHOOSE v \in highest : TRUE
    BY <1>2 DEF Latest
  <2> QED BY <2>1, <2>2
<1> QED BY <1>1, <1>2

\* What a request that got past `git tag' has made so far: its tag, and, from
\* the answer of CreateRelease on, its row.
Progress ==
  \A r \in Request :
    /\ Won(r) => Has(tags, req[r].artifact, req[r].next)
    /\ req[r].pc \in {"reporting", "done"} => Has(rows, req[r].artifact, req[r].next)

\* fsck ensures rows only for tags it has seen.
FsckSeesTags == fsck.pc = "version" => \A v \in fsck.todo : Has(tags, fsck.art, v)

\* Version v of artifact a has a row, is among those fsck has still to visit,
\* or is of an artifact that fsck passes over.
Served(a, v) ==
  a \in fsck.listed \ fsck.skipped =>
    \/ Has(rows, a, v)
    \/ a \in fsck.arts
    \/ fsck.pc = "version" /\ a = fsck.art /\ v \in fsck.todo

\* fsck forgets none of the tags that existed when it began.
FsckOwes ==
  /\ fsck.pc = "done" => fsck.arts = {}
  /\ fsck.pc # "idle" =>
       \A o \in fsck.owed : Has(tags, o[1], o[2]) /\ Served(o[1], o[2])

\* The tags of an artifact have a highest version.
TagsHaveHighest ==
  \A t \in tags : \E u \in tags :
    /\ u.artifact = t.artifact
    /\ \A w \in tags : w.artifact = t.artifact => ~Higher(w.version, u.version)

IInv ==
  /\ TypeOK /\ RowHasTag /\ Progress /\ VersionWonOnce
  /\ FsckSeesTags /\ FsckOwes /\ TagsHaveHighest

-----------------------------------------------------------------------------

LEMMA IdleType == AnyArtifact \in Artifact /\ IdleReq \in ReqState /\ FailedReq \in ReqState
                  /\ IdleFsck \in FsckState
<1>1. AnyArtifact \in Artifact
  BY ArtifactAssumption DEF AnyArtifact
<1>2. Zero \in Version
  BY DEF Zero, V, Version
<1> QED BY <1>1, <1>2 DEF IdleReq, FailedReq, IdleFsck, ReqState, FsckState, ReqPC, Running

\* Every step keeps the types.
LEMMA TypeStep == TypeOK /\ [Next]_vars => TypeOK'
<1> SUFFICES ASSUME TypeOK, [Next]_vars PROVE TypeOK'
  OBVIOUS
<1> USE IdleType DEF TypeOK, Go, Return, At
<1>1. ASSUME NEW r \in Request, NEW a \in Artifact, NEW kind \in Kind, Gate(r, a, kind)
      PROVE  TypeOK'
  <2>1. req' \in [Request -> ReqState]
    <3>1. CASE req' = [req EXCEPT ![r] = [@ EXCEPT !.pc = "gated", !.artifact = a, !.kind = kind]]
      BY <3>1, KindAssumption DEF ReqState, ReqPC, Running
    <3>2. CASE Return(r)
      BY <3>2
    <3> QED BY <1>1, <3>1, <3>2 DEF Gate
  <2> QED BY <1>1, <2>1 DEF Gate
<1>2. ASSUME NEW r \in Request, ReadVersions(r)
      PROVE  TypeOK'
  <2> DEFINE S == VersionsOf(tags, req[r].artifact)
  <2>1. S \in SUBSET Version
    BY DEF VersionsOf, Release
  <2>2. req' \in [Request -> ReqState]
    <3>1. CASE req[r].kind \in BumpKind
      <4>1. Bump(Latest(S), req[r].kind) \in Version
        BY <2>1, <3>1, LatestType, BumpHigher
      <4>2. req' = [req EXCEPT ![r].pc = "tagging", ![r].next = Bump(Latest(S), req[r].kind)]
        BY <1>2, <3>1 DEF ReadVersions
      <4> QED BY <4>1, <4>2 DEF ReqState, ReqPC, Running
    <3>2. CASE req[r].kind \notin BumpKind
      BY <1>2, <3>2 DEF ReadVersions
    <3> QED BY <3>1, <3>2
  <2> QED BY <1>2, <2>2 DEF ReadVersions
<1>3. ASSUME NEW r \in Request, TagMain(r)
      PROVE  TypeOK'
  <2>1. req[r].artifact \in Artifact /\ req[r].next \in Version
    BY DEF ReqState
  <2>2. req' \in [Request -> ReqState]
    BY <1>3 DEF TagMain, ReqState, ReqPC, Running
  <2>3. tags' \in SUBSET Release /\ clock' \in Nat
    BY <1>3, <2>1 DEF TagMain, AddTag, Release
  <2> QED BY <1>3, <2>2, <2>3 DEF TagMain
<1>4. ASSUME NEW r \in Request, CreateRelease(r)
      PROVE  TypeOK'
  <2>1. req[r].artifact \in Artifact /\ req[r].next \in Version
    BY DEF ReqState
  <2>2. req' \in [Request -> ReqState]
    BY <1>4 DEF CreateRelease, ReqState, ReqPC, Running
  <2>3. rows' \in SUBSET Release /\ clock' \in Nat
    BY <1>4, <2>1 DEF CreateRelease, AddRow, Release
  <2> QED BY <1>4, <2>2, <2>3 DEF CreateRelease
<1>5. ASSUME NEW r \in Request, Report(r) \/ Fail(r)
      PROVE  TypeOK'
  <2>1. CASE Report(r)
    BY <2>1 DEF Report, ReqState, ReqPC, Running
  <2>2. CASE Fail(r)
    BY <2>2 DEF Fail
  <2> QED BY <1>5, <2>1, <2>2
<1>6. ASSUME Crash
      PROVE  TypeOK'
  BY <1>6 DEF Crash
<1>7. ASSUME NEW a \in Artifact, MainGains(a)
      PROVE  TypeOK'
  BY <1>7 DEF MainGains
<1>8. ASSUME FsckStart \/ FsckVersions
      PROVE  TypeOK'
  <2>1. \A a \in Artifact : VersionsOf(tags, a) \in SUBSET Version
    BY DEF VersionsOf, Release
  <2>2. {<<t.artifact, t.version>> : t \in tags} \in SUBSET (Artifact \X Version)
    BY DEF Release
  <2>3. fsck' \in FsckState
    <3>1. CASE FsckStart
      <4> PICK known \in {onMain, {}} :
            fsck' = [IdleFsck EXCEPT !.pc = "artifact", !.arts = known, !.listed = onMain,
                       !.owed = {<<t.artifact, t.version>> : t \in tags},
                       !.skipped = onMain \ known]
        BY <3>1 DEF FsckStart
      <4>1. known \in SUBSET Artifact /\ onMain \ known \in SUBSET Artifact
        OBVIOUS
      <4> QED BY <4>1, <2>2 DEF FsckState
    <3>2. CASE FsckVersions
      <4> PICK a \in fsck.arts :
            \/ fsck' = [fsck EXCEPT !.pc = "version", !.arts = @ \ {a}, !.art = a,
                          !.todo = VersionsOf(tags, a)]
            \/ fsck' = [fsck EXCEPT !.arts = @ \ {a}, !.skipped = @ \cup {a}]
        BY <3>2 DEF FsckVersions
      <4>1. a \in Artifact /\ VersionsOf(tags, a) \in SUBSET Version
        BY <2>1 DEF FsckState
      <4>2. CASE fsck' = [fsck EXCEPT !.pc = "version", !.arts = @ \ {a}, !.art = a,
                            !.todo = VersionsOf(tags, a)]
        BY <4>1, <4>2 DEF FsckState
      <4>3. CASE fsck' = [fsck EXCEPT !.arts = @ \ {a}, !.skipped = @ \cup {a}]
        BY <4>1, <4>3 DEF FsckState
      <4> QED BY <4>2, <4>3
    <3> QED BY <1>8, <3>1, <3>2
  <2> QED BY <1>8, <2>3 DEF FsckStart, FsckVersions
<1>9. ASSUME FsckEnsure
      PROVE  TypeOK'
  <2> PICK v \in fsck.todo :
        /\ IF Has(rows, fsck.art, v) THEN UNCHANGED <<rows, clock>> ELSE AddRow(fsck.art, v)
        /\ fsck' = [fsck EXCEPT !.todo = @ \ {v}]
    BY <1>9 DEF FsckEnsure
  <2>1. fsck.art \in Artifact /\ v \in Version
    BY DEF FsckState
  <2>2. rows' \in SUBSET Release /\ clock' \in Nat
    BY <2>1 DEF AddRow, Release
  <2>3. fsck' \in FsckState
    BY DEF FsckState
  <2> QED BY <1>9, <2>2, <2>3 DEF FsckEnsure
<1>10. ASSUME FsckNext \/ FsckDies
       PROVE  TypeOK'
  BY <1>10 DEF FsckNext, FsckDies, FsckState
<1>11. CASE UNCHANGED vars
  BY <1>11 DEF vars
<1> QED BY <1>1, <1>2, <1>3, <1>4, <1>5, <1>6, <1>7, <1>8, <1>9, <1>10, <1>11
        DEF Next, RequestStep, FsckStep

-----------------------------------------------------------------------------

\* A tag or a row once there stays there.
LEMMA Grow == [Next]_vars => tags \subseteq tags' /\ rows \subseteq rows'
<1> SUFFICES ASSUME [Next]_vars PROVE tags \subseteq tags' /\ rows \subseteq rows'
  OBVIOUS
<1>1. ASSUME NEW r \in Request, RequestStep(r)
      PROVE  tags \subseteq tags' /\ rows \subseteq rows'
  BY <1>1 DEF RequestStep, Gate, ReadVersions, TagMain, AddTag, CreateRelease, AddRow, Report, Fail
<1>2. CASE FsckStep
  BY <1>2 DEF FsckStep, FsckStart, FsckVersions, FsckEnsure, FsckNext, FsckDies, AddRow
<1>3. CASE Crash \/ \E a \in Artifact : MainGains(a)
  BY <1>3 DEF Crash, MainGains
<1>4. CASE UNCHANGED vars
  BY <1>4 DEF vars
<1> QED BY <1>1, <1>2, <1>3, <1>4 DEF Next

LEMMA HasMono ==
  ASSUME NEW S, NEW T, S \subseteq T, NEW a, NEW v, Has(S, a, v)
  PROVE  Has(T, a, v)
  BY DEF Has

LEMMA HasAdded ==
  ASSUME NEW S, NEW a, NEW v, NEW n
  PROVE  Has(S \cup {[artifact |-> a, version |-> v, at |-> n]}, a, v)
<1> DEFINE t == [artifact |-> a, version |-> v, at |-> n]
<1>1. t \in S \cup {t} /\ t.artifact = a /\ t.version = v
  OBVIOUS
<1> QED BY <1>1 DEF Has

\* A request that has won in the next state had won already, with the same
\* version, or it creates its tag in this step, where none had this name.
LEMMA WinStep ==
  ASSUME TypeOK, [Next]_vars, NEW r \in Request, Won(r)'
  PROVE  /\ req'[r].artifact = req[r].artifact /\ req'[r].next = req[r].next
         /\ \/ Won(r)
            \/ /\ ~Has(tags, req[r].artifact, req[r].next)
               /\ AddTag(req[r].artifact, req[r].next)
               /\ \A s \in Request : s # r => req'[s] = req[s]
<1> DEFINE P == /\ req'[r].artifact = req[r].artifact /\ req'[r].next = req[r].next
                /\ \/ Won(r)
                   \/ /\ ~Has(tags, req[r].artifact, req[r].next)
                      /\ AddTag(req[r].artifact, req[r].next)
                      /\ \A s \in Request : s # r => req'[s] = req[s]
<1>0. req \in [Request -> ReqState]
  BY DEF TypeOK
<1> USE <1>0 DEF Won, Go, Return, At, FailedReq, IdleReq
<1>1. ASSUME NEW q \in Request, RequestStep(q)
      PROVE  P
  <2>1. CASE \E a \in Artifact, kind \in Kind : Gate(q, a, kind)
    <3>1. PICK a, kind :
            \/ req' = [req EXCEPT ![q] = [@ EXCEPT !.pc = "gated", !.artifact = a, !.kind = kind]]
            \/ req' = [req EXCEPT ![q] = FailedReq]
      BY <2>1 DEF Gate
    <3>2. req'[q].pc \in {"gated", "failed"} /\ \A s \in Request : s # q => req'[s] = req[s]
      BY <3>1 DEF ReqState
    <3> QED BY <3>2
  <2>2. CASE ReadVersions(q)
    <3>1. PICK next :
            \/ req' = [req EXCEPT ![q].pc = "tagging", ![q].next = next]
            \/ req' = [req EXCEPT ![q] = FailedReq]
      BY <2>2 DEF ReadVersions
    <3>2. req'[q].pc \in {"tagging", "failed"} /\ \A s \in Request : s # q => req'[s] = req[s]
      BY <3>1 DEF ReqState
    <3> QED BY <3>2
  <2>3. CASE TagMain(q)
    BY <2>3 DEF TagMain, ReqState
  <2>4. CASE CreateRelease(q)
    BY <2>4 DEF CreateRelease, ReqState
  <2>5. CASE Report(q) \/ Fail(q)
    BY <2>5 DEF Report, Fail, ReqState
  <2> QED BY <1>1, <2>1, <2>2, <2>3, <2>4, <2>5 DEF RequestStep
<1>2. CASE Crash
  BY <1>2 DEF Crash, Running
<1>3. CASE FsckStep \/ \E a \in Artifact : MainGains(a)
  BY <1>3 DEF FsckStep, FsckStart, FsckVersions, FsckEnsure, FsckNext, FsckDies, MainGains
<1>4. CASE UNCHANGED vars
  BY <1>4 DEF vars
<1> QED BY <1>1, <1>2, <1>3, <1>4 DEF Next

\* The same for the row of a request that is past CreateRelease.
LEMMA RowStep ==
  ASSUME TypeOK, [Next]_vars, NEW r \in Request, req'[r].pc \in {"reporting", "done"}
  PROVE  \/ req[r].pc \in {"reporting", "done"}
         \/ AddRow(req[r].artifact, req[r].next)
<1>0. req \in [Request -> ReqState]
  BY DEF TypeOK
<1> USE <1>0 DEF Go, Return, At, FailedReq, IdleReq
<1>1. ASSUME NEW q \in Request, RequestStep(q)
      PROVE  \/ req[r].pc \in {"reporting", "done"}
             \/ AddRow(req[r].artifact, req[r].next)
  <2>1. CASE \E a \in Artifact, kind \in Kind : Gate(q, a, kind)
    BY <2>1 DEF Gate, ReqState
  <2>2. CASE ReadVersions(q)
    BY <2>2 DEF ReadVersions, ReqState
  <2>3. CASE TagMain(q)
    BY <2>3 DEF TagMain, ReqState
  <2>4. CASE CreateRelease(q)
    BY <2>4 DEF CreateRelease, ReqState
  <2>5. CASE Report(q) \/ Fail(q)
    BY <2>5 DEF Report, Fail, ReqState
  <2> QED BY <1>1, <2>1, <2>2, <2>3, <2>4, <2>5 DEF RequestStep
<1>2. CASE Crash
  BY <1>2 DEF Crash, Running
<1>3. CASE FsckStep \/ \E a \in Artifact : MainGains(a)
  BY <1>3 DEF FsckStep, FsckStart, FsckVersions, FsckEnsure, FsckNext, FsckDies, MainGains
<1>4. CASE UNCHANGED vars
  BY <1>4 DEF vars
<1> QED BY <1>1, <1>2, <1>3, <1>4 DEF Next

\* A row is inserted only for a tag: by the request that made the tag, or by
\* fsck, which has seen it.
LEMMA RowHasTagStep == IInv /\ [Next]_vars => RowHasTag'
<1> SUFFICES ASSUME IInv, [Next]_vars, NEW w \in rows'
             PROVE  Has(tags', w.artifact, w.version)
  BY DEF RowHasTag
<1>1. w \in rows \/ Has(tags, w.artifact, w.version)
  <2>1. ASSUME NEW r \in Request, RequestStep(r)
        PROVE  w \in rows \/ Has(tags, w.artifact, w.version)
    <3>1. CASE CreateRelease(r)
      <4>1. Has(tags, req[r].artifact, req[r].next)
        BY <3>1 DEF CreateRelease, IInv, Progress, Won, At
      <4> QED BY <3>1, <4>1 DEF CreateRelease, AddRow
    <3>2. CASE ~CreateRelease(r)
      BY <2>1, <3>2 DEF RequestStep, Gate, ReadVersions, TagMain, Report, Fail
    <3> QED BY <3>1, <3>2
  <2>2. CASE FsckStep
    <3>1. CASE FsckEnsure
      BY <3>1 DEF FsckEnsure, AddRow, IInv, FsckSeesTags
    <3>2. CASE ~FsckEnsure
      BY <2>2, <3>2 DEF FsckStep, FsckStart, FsckVersions, FsckNext, FsckDies
    <3> QED BY <3>1, <3>2
  <2>3. CASE Crash \/ \E a \in Artifact : MainGains(a)
    BY <2>3 DEF Crash, MainGains
  <2>4. CASE UNCHANGED vars
    BY <2>4 DEF vars
  <2> QED BY <2>1, <2>2, <2>3, <2>4 DEF Next
<1>2. Has(tags, w.artifact, w.version)
  BY <1>1 DEF IInv, RowHasTag
<1> QED BY <1>2, Grow, HasMono

LEMMA ProgressStep == IInv /\ [Next]_vars => Progress'
<1> SUFFICES ASSUME IInv, [Next]_vars, NEW r \in Request
             PROVE  /\ Won(r)' => Has(tags', req'[r].artifact, req'[r].next)
                    /\ req'[r].pc \in {"reporting", "done"} =>
                         Has(rows', req'[r].artifact, req'[r].next)
  BY DEF Progress
<1>0. TypeOK /\ tags \subseteq tags' /\ rows \subseteq rows'
  BY Grow DEF IInv
<1>1. ASSUME Won(r)'
      PROVE  Has(tags', req'[r].artifact, req'[r].next)
  <2>1. CASE Won(r)
    <3>1. Has(tags, req[r].artifact, req[r].next)
      BY <2>1 DEF IInv, Progress
    <3> QED BY <1>0, <1>1, <3>1, HasMono, WinStep
  <2>2. CASE AddTag(req[r].artifact, req[r].next)
    <3>1. Has(tags', req[r].artifact, req[r].next)
      BY <2>2, HasAdded DEF AddTag
    <3> QED BY <1>0, <1>1, <3>1, WinStep
  <2> QED BY <1>0, <1>1, <2>1, <2>2, WinStep
<1>2. ASSUME req'[r].pc \in {"reporting", "done"}
      PROVE  Has(rows', req'[r].artifact, req'[r].next)
  <2>1. req'[r].artifact = req[r].artifact /\ req'[r].next = req[r].next
    BY <1>0, <1>2, WinStep DEF Won
  <2>2. CASE req[r].pc \in {"reporting", "done"}
    <3>1. Has(rows, req[r].artifact, req[r].next)
      BY <2>2 DEF IInv, Progress
    <3> QED BY <1>0, <2>1, <3>1, HasMono
  <2>3. CASE AddRow(req[r].artifact, req[r].next)
    <3>1. Has(rows', req[r].artifact, req[r].next)
      BY <2>3, HasAdded DEF AddRow
    <3> QED BY <2>1, <3>1
  <2> QED BY <1>0, <1>2, <2>2, <2>3, RowStep
<1> QED BY <1>1, <1>2

\* Of two requests with one version, the second finds the tag of the first.
LEMMA WonOnceStep == IInv /\ [Next]_vars => VersionWonOnce'
<1> SUFFICES ASSUME IInv, [Next]_vars, NEW r \in Request, NEW s \in Request,
                    Won(r)', Won(s)', req'[r].artifact = req'[s].artifact,
                    req'[r].next = req'[s].next, r # s
             PROVE  FALSE
  BY DEF VersionWonOnce
<1>0. TypeOK
  BY DEF IInv
<1>1. /\ req[r].artifact = req[s].artifact /\ req[r].next = req[s].next
      /\ Won(r) \/ Won(s)
  BY <1>0, WinStep DEF Won
<1>2. Has(tags, req[r].artifact, req[r].next)
  BY <1>1 DEF IInv, Progress
<1>3. Won(r) /\ Won(s)
  BY <1>0, <1>1, <1>2, WinStep
<1> QED BY <1>1, <1>3 DEF IInv, VersionWonOnce

LEMMA FsckSeesTagsStep == IInv /\ [Next]_vars => FsckSeesTags'
<1> SUFFICES ASSUME IInv, [Next]_vars, fsck'.pc = "version", NEW v \in fsck'.todo
             PROVE  Has(tags', fsck'.art, v)
  BY DEF FsckSeesTags
<1>0. fsck \in FsckState
  BY DEF IInv, TypeOK
<1>1. Has(tags, fsck'.art, v)
  <2>1. CASE UNCHANGED fsck
    BY <2>1 DEF IInv, FsckSeesTags
  <2>2. CASE FsckVersions
    <3> PICK a \in fsck.arts :
          \/ fsck' = [fsck EXCEPT !.pc = "version", !.arts = @ \ {a}, !.art = a,
                        !.todo = VersionsOf(tags, a)]
          \/ fsck' = [fsck EXCEPT !.arts = @ \ {a}, !.skipped = @ \cup {a}]
      BY <2>2 DEF FsckVersions
    <3>1. fsck' = [fsck EXCEPT !.pc = "version", !.arts = @ \ {a}, !.art = a,
                     !.todo = VersionsOf(tags, a)]
      BY <1>0, <2>2 DEF FsckVersions, FsckState
    <3>2. v \in VersionsOf(tags, a) /\ fsck'.art = a
      BY <1>0, <3>1 DEF FsckState
    <3> QED BY <3>2 DEF VersionsOf, Has
  <2>3. CASE FsckEnsure
    BY <1>0, <2>3 DEF FsckEnsure, FsckState, IInv, FsckSeesTags
  <2>4. CASE FsckStart \/ FsckNext \/ FsckDies
    <3>1. CASE FsckStart
      BY <1>0, <3>1 DEF FsckStart, IdleFsck
    <3>2. CASE FsckNext
      BY <1>0, <3>2 DEF FsckNext, FsckState
    <3>3. CASE FsckDies
      BY <1>0, <3>3 DEF FsckDies, IdleFsck
    <3> QED BY <2>4, <3>1, <3>2, <3>3
  <2> QED BY <2>1, <2>2, <2>3, <2>4
          DEF Next, FsckStep, RequestStep, Gate, ReadVersions, TagMain, CreateRelease,
              Report, Fail, Crash, MainGains, vars
<1> QED BY <1>1, Grow, HasMono

\* What fsck still owes a tag it goes on owing, or pays with the row.
LEMMA ServedStep ==
  ASSUME IInv, [Next]_vars, NEW a, NEW v, Has(tags, a, v), Served(a, v),
         fsck.pc # "idle", ~FsckStart, ~FsckDies
  PROVE  Served(a, v)' /\ fsck'.owed = fsck.owed
<1>0. fsck \in FsckState /\ (fsck.pc = "done" => fsck.arts = {})
  BY DEF IInv, TypeOK, FsckOwes
<1>1. Has(rows, a, v) => Has(rows', a, v)
  BY Grow, HasMono
<1>2. CASE UNCHANGED fsck
  BY <1>1, <1>2 DEF Served
<1>3. CASE FsckVersions
  <2> PICK b \in fsck.arts :
        \/ fsck' = [fsck EXCEPT !.pc = "version", !.arts = @ \ {b}, !.art = b,
                      !.todo = VersionsOf(tags, b)]
        \/ fsck' = [fsck EXCEPT !.arts = @ \ {b}, !.skipped = @ \cup {b}]
    BY <1>3 DEF FsckVersions
  <2>1. fsck.pc = "artifact"
    BY <1>3 DEF FsckVersions
  <2>2. CASE fsck' = [fsck EXCEPT !.pc = "version", !.arts = @ \ {b}, !.art = b,
                        !.todo = VersionsOf(tags, b)]
    <3>1. /\ fsck'.pc = "version" /\ fsck'.arts = fsck.arts \ {b} /\ fsck'.art = b
          /\ fsck'.todo = VersionsOf(tags, b) /\ fsck'.owed = fsck.owed
          /\ fsck'.listed = fsck.listed /\ fsck'.skipped = fsck.skipped
      BY <1>0, <2>2 DEF FsckState
    <3>2. v \in VersionsOf(tags, a)
      BY DEF Has, VersionsOf
    <3> QED BY <1>1, <2>1, <3>1, <3>2 DEF Served
  <2>3. CASE fsck' = [fsck EXCEPT !.arts = @ \ {b}, !.skipped = @ \cup {b}]
    <3>1. /\ fsck'.pc = "artifact" /\ fsck'.arts = fsck.arts \ {b}
          /\ fsck'.owed = fsck.owed /\ fsck'.listed = fsck.listed
          /\ fsck'.skipped = fsck.skipped \cup {b}
      BY <1>0, <2>1, <2>3 DEF FsckState
    <3> QED BY <1>1, <2>1, <3>1 DEF Served
  <2> QED BY <2>2, <2>3
<1>4. CASE FsckEnsure
  <2> PICK w \in fsck.todo :
        /\ IF Has(rows, fsck.art, w) THEN UNCHANGED <<rows, clock>> ELSE AddRow(fsck.art, w)
        /\ fsck' = [fsck EXCEPT !.todo = @ \ {w}]
    BY <1>4 DEF FsckEnsure
  <2>1. fsck.pc = "version"
    BY <1>4 DEF FsckEnsure
  <2>2. /\ fsck'.pc = "version" /\ fsck'.arts = fsck.arts /\ fsck'.art = fsck.art
        /\ fsck'.todo = fsck.todo \ {w} /\ fsck'.owed = fsck.owed
        /\ fsck'.listed = fsck.listed /\ fsck'.skipped = fsck.skipped
    BY <1>0, <2>1 DEF FsckState
  <2>3. Has(rows', fsck.art, w)
    <3>1. CASE Has(rows, fsck.art, w)
      BY <3>1
    <3>2. CASE AddRow(fsck.art, w)
      BY <3>2, HasAdded DEF AddRow
    <3> QED BY <3>1, <3>2
  <2> QED BY <1>1, <2>1, <2>2, <2>3 DEF Served
<1>5. CASE FsckNext
  <2>1. /\ fsck'.owed = fsck.owed /\ fsck'.listed = fsck.listed /\ fsck'.arts = fsck.arts
        /\ fsck'.skipped = fsck.skipped
        /\ \/ fsck.pc = "version" /\ fsck.todo = {}
           \/ fsck.pc = "artifact" /\ fsck.arts = {}
    BY <1>0, <1>5 DEF FsckNext, FsckState
  <2> QED BY <1>1, <2>1 DEF Served
<1> QED BY <1>2, <1>3, <1>4, <1>5
        DEF Next, FsckStep, RequestStep, Gate, ReadVersions, TagMain, CreateRelease,
            Report, Fail, Crash, MainGains, vars

\* A run of fsck that is done has visited all.
LEMMA DoneStep == IInv /\ [Next]_vars => (fsck'.pc = "done" => fsck'.arts = {})
<1> SUFFICES ASSUME IInv, [Next]_vars, fsck'.pc = "done" PROVE fsck'.arts = {}
  OBVIOUS
<1>0. fsck \in FsckState /\ (fsck.pc = "done" => fsck.arts = {})
  BY DEF IInv, TypeOK, FsckOwes
<1>1. CASE UNCHANGED fsck
  BY <1>0, <1>1
<1>2. CASE FsckNext
  BY <1>0, <1>2 DEF FsckNext, FsckState
<1>3. ~FsckStart /\ ~FsckDies
  <2>1. ASSUME FsckStart PROVE FALSE
    <3>1. fsck'.pc = "artifact"
      BY <2>1 DEF FsckStart, IdleFsck
    <3> QED BY <3>1
  <2>2. ASSUME FsckDies PROVE FALSE
    <3>1. fsck'.pc = "idle"
      BY <2>2 DEF FsckDies, IdleFsck
    <3> QED BY <3>1
  <2> QED BY <2>1, <2>2
<1>4. ~FsckVersions
  BY <1>0 DEF FsckVersions, FsckState
<1>5. ~FsckEnsure
  BY <1>0 DEF FsckEnsure, FsckState
<1> QED BY <1>1, <1>2, <1>3, <1>4, <1>5
        DEF Next, FsckStep, RequestStep, Gate, ReadVersions, TagMain, CreateRelease,
            Report, Fail, Crash, MainGains, vars

\* What fsck owes it has yet to visit, or has given its row.
LEMMA FsckOwesStep == IInv /\ [Next]_vars => FsckOwes'
<1> SUFFICES ASSUME IInv, [Next]_vars, fsck'.pc # "idle", NEW o \in fsck'.owed
             PROVE  Has(tags', o[1], o[2]) /\ Served(o[1], o[2])'
  BY DoneStep DEF FsckOwes
<1>1. CASE FsckStart
  <2>0. PICK known \in {onMain, {}} :
          fsck' = [IdleFsck EXCEPT !.pc = "artifact", !.arts = known, !.listed = onMain,
                     !.owed = {<<t.artifact, t.version>> : t \in tags},
                     !.skipped = onMain \ known]
    BY <1>1 DEF FsckStart
  <2>1. fsck'.pc = "artifact" /\ fsck'.listed \ fsck'.skipped \subseteq fsck'.arts
        /\ fsck'.owed = {<<t.artifact, t.version>> : t \in tags} /\ tags' = tags
    BY <1>1, <2>0 DEF FsckStart, IdleFsck
  <2>2. Has(tags, o[1], o[2])
    BY <2>1 DEF Has
  <2> QED BY <2>1, <2>2 DEF Served
<1>2. CASE FsckDies
  BY <1>2 DEF FsckDies, IdleFsck
<1>3. CASE ~FsckStart /\ ~FsckDies
  <2>1. fsck.pc # "idle"
    BY <1>3 DEF Next, FsckStep, FsckVersions, FsckEnsure, FsckNext, RequestStep, Gate,
        ReadVersions, TagMain, CreateRelease, Report, Fail, Crash, MainGains, vars
  <2>2. fsck'.owed = fsck.owed
    BY <1>3 DEF Next, FsckStep, FsckVersions, FsckEnsure, FsckNext, RequestStep, Gate,
        ReadVersions, TagMain, CreateRelease, Report, Fail, Crash, MainGains, vars,
        IInv, TypeOK, FsckState
  <2>3. Has(tags, o[1], o[2]) /\ Served(o[1], o[2])
    BY <2>1, <2>2 DEF IInv, FsckOwes
  <2> QED BY <1>3, <2>1, <2>3, ServedStep, Grow, HasMono
<1> QED BY <1>1, <1>2, <1>3

LEMMA HigherOrder ==
  ASSUME NEW u \in Version, NEW v \in Version, NEW w \in Version
  PROVE  /\ Higher(u, v) /\ Higher(v, w) => Higher(u, w)
         /\ Higher(u, v) => ~Higher(v, u)
         /\ Higher(u, v) /\ ~Higher(w, v) => Higher(u, w)
  BY DEF Version, Higher

\* A step adds one tag at most.
LEMMA OneTag ==
  ASSUME [Next]_vars
  PROVE  UNCHANGED tags \/ \E r \in Request : AddTag(req[r].artifact, req[r].next)
  BY DEF Next, FsckStep, FsckStart, FsckVersions, FsckEnsure, FsckNext, FsckDies, RequestStep,
         Gate, ReadVersions, TagMain, CreateRelease, Report, Fail, Crash, MainGains, vars

\* A new tag is the highest of its artifact, or leaves the highest as it is.
LEMMA HighestStep == IInv /\ [Next]_vars => TagsHaveHighest'
<1> SUFFICES ASSUME IInv, [Next]_vars PROVE TagsHaveHighest'
  OBVIOUS
<1>0. tags \subseteq Release /\ TagsHaveHighest /\ TypeOK
  BY DEF IInv, TypeOK
<1>1. CASE UNCHANGED tags
  BY <1>0, <1>1 DEF TagsHaveHighest
<1>2. ASSUME NEW r \in Request, AddTag(req[r].artifact, req[r].next)
      PROVE  TagsHaveHighest'
  <2> PICK new : /\ new \in Release /\ new.artifact = req[r].artifact
                 /\ tags' = tags \cup {new}
    <3> DEFINE new == [artifact |-> req[r].artifact, version |-> req[r].next, at |-> clock]
    <3>1. new \in Release
      BY <1>0 DEF TypeOK, ReqState, Release
    <3> QED BY <1>2, <3>1 DEF AddTag
  <2>1. \A t \in Release : t.version \in Version
    BY DEF Release
  <2>2. ASSUME NEW t \in tags'
        PROVE  \E u \in tags' :
                 /\ u.artifact = t.artifact
                 /\ \A w \in tags' : w.artifact = t.artifact => ~Higher(w.version, u.version)
    <3>1. CASE \A w \in tags : w.artifact # t.artifact
      <4>1. ~Higher(new.version, new.version)
        BY <2>1, HigherOrder
      <4> QED BY <3>1, <4>1
    <3>2. ASSUME NEW w \in tags, w.artifact = t.artifact
          PROVE  \E u \in tags' :
                   /\ u.artifact = t.artifact
                   /\ \A x \in tags' : x.artifact = t.artifact => ~Higher(x.version, u.version)
      <4> PICK u \in tags :
            /\ u.artifact = t.artifact
            /\ \A x \in tags : x.artifact = t.artifact => ~Higher(x.version, u.version)
        BY <1>0, <3>2 DEF TagsHaveHighest
      <4>1. CASE new.artifact = t.artifact /\ Higher(new.version, u.version)
        <5>1. \A x \in tags : x.artifact = t.artifact => ~Higher(x.version, new.version)
          BY <1>0, <2>1, <4>1, HigherOrder
        <5>2. ~Higher(new.version, new.version)
          BY <2>1, HigherOrder
        <5> QED BY <4>1, <5>1, <5>2
      <4>2. CASE ~(new.artifact = t.artifact /\ Higher(new.version, u.version))
        BY <4>2
      <4> QED BY <4>1, <4>2
    <3> QED BY <3>1, <3>2
  <2> QED BY <2>2 DEF TagsHaveHighest
<1> QED BY <1>1, <1>2, OneTag

-----------------------------------------------------------------------------

LEMMA InitIInv == Init => IInv
<1> SUFFICES ASSUME Init PROVE IInv
  OBVIOUS
<1>1. TypeOK
  BY IdleType DEF Init, TypeOK, Release
<1>2. /\ \A r \in Request : req[r].pc = "idle"
      /\ fsck.pc = "idle" /\ rows = {} /\ tags = {}
  BY DEF Init, IdleReq, IdleFsck
<1> QED BY <1>1, <1>2
        DEF IInv, RowHasTag, Progress, VersionWonOnce, FsckSeesTags, FsckOwes, TagsHaveHighest, Won

LEMMA NextIInv == IInv /\ [Next]_vars => IInv'
  BY TypeStep, RowHasTagStep, ProgressStep, WonOnceStep, FsckSeesTagsStep, FsckOwesStep,
     HighestStep DEF IInv

\* The inductive invariant of the release flow holds throughout.
THEOREM Invariant == Spec => []IInv
  BY InitIInv, NextIInv, PTL DEF Spec

\* Every variable keeps its type (releases, their tags and rows, requests and
\* the fsck process).
THEOREM TypeCorrect == Spec => []TypeOK
<1>1. IInv => TypeOK
  BY DEF IInv
<1> QED BY <1>1, Invariant, PTL

\* ADR-0004, git first: the releases table never names a tag that does not
\* exist, for any number of requests, failures, crashes and fsck runs.
THEOREM GitFirst == Spec => []RowHasTag
<1>1. IInv => RowHasTag
  BY DEF IInv
<1> QED BY <1>1, Invariant, PTL

\* Requests that race for a version: one at most gets it.
THEOREM OneWinner == Spec => []VersionWonOnce
<1>1. IInv => VersionWonOnce
  BY DEF IInv
<1> QED BY <1>1, Invariant, PTL

\* An acknowledged release stays in git and in the table.
THEOREM Acknowledged == Spec => []AckedIsPublished
<1>1. IInv => AckedIsPublished
  BY DEF IInv, AckedIsPublished, Progress, Won, At
<1> QED BY <1>1, Invariant, PTL

\* No step moves or removes a release tag.
THEOREM Immutable == Spec => TagsImmutable
<1>1. [Next]_vars => [tags \subseteq tags']_vars
  BY Grow
<1> QED BY <1>1, PTL DEF Spec, TagsImmutable

\* A run of fsck that ends leaves no tag without its row that it owed one; it
\* owes none where git failed to list the artifacts, or their tags.
THEOREM FsckRepairs == Spec => []FsckComplete
<1>1. IInv => FsckComplete
  BY DEF IInv, FsckOwes, Served, FsckComplete
<1> QED BY <1>1, Invariant, PTL

\* Of versions that have a highest one, Latest yields one that none is above.
LEMMA LatestIsHighest ==
  ASSUME NEW S \in SUBSET Version, NEW u \in S, \A w \in S : ~Higher(w, u)
  PROVE  \A w \in S : ~Higher(w, Latest(S))
<1> DEFINE highest == {v \in S : \A w \in S : Compare(w, v) <= 0}
<1>1. \A v \in S, w \in S : Compare(w, v) <= 0 <=> ~Higher(w, v)
  BY HigherOrder DEF Compare
<1>2. u \in highest
  BY <1>1
<1>3. (CHOOSE v \in highest : TRUE) \in highest
  BY <1>2
<1>4. Latest(S) \in highest
  BY <1>2, <1>3 DEF Latest
<1> QED BY <1>1, <1>4

\* A caller is given a version above all that were acknowledged before.
THEOREM AboveAcked == Spec => ChosenAboveAcked
<1> DEFINE Sound ==
      \A r, s \in Request :
        At(r, "gated") /\ req'[r].pc = "tagging" /\ At(s, "done")
          /\ req[s].artifact = req[r].artifact
        => Higher(req'[r].next, req[s].next)
<1>1. IInv /\ [Next]_vars => Sound
  <2> SUFFICES ASSUME IInv, [Next]_vars, NEW r \in Request, NEW s \in Request,
                      At(r, "gated"), req'[r].pc = "tagging", At(s, "done"),
                      req[s].artifact = req[r].artifact
               PROVE  Higher(req'[r].next, req[s].next)
    OBVIOUS
  <2> DEFINE S == VersionsOf(tags, req[r].artifact)
  <2>0. TypeOK /\ req \in [Request -> ReqState] /\ tags \subseteq Release
    BY DEF IInv, TypeOK
  <2>1. ReadVersions(r)
    BY <2>0 DEF Next, FsckStep, FsckStart, FsckVersions, FsckEnsure, FsckNext, FsckDies,
                RequestStep, Gate, ReadVersions, TagMain, CreateRelease, Report, Fail, Crash,
                MainGains, Go, Return, At, FailedReq, IdleReq, Running, ReqState, vars
  <2>2. req[r].kind \in BumpKind /\ req'[r].next = Bump(Latest(S), req[r].kind)
    BY <2>0, <2>1 DEF ReadVersions, Return, FailedReq, IdleReq, ReqState
  <2>3. S \in SUBSET Version /\ req[s].next \in S
    BY <2>0 DEF VersionsOf, Release, IInv, Progress, Won, At, Has
  <2>4. PICK u \in S : \A w \in S : ~Higher(w, u)
    <3>1. PICK t \in tags : t.artifact = req[r].artifact
      BY <2>3 DEF VersionsOf
    <3>2. PICK u \in tags : /\ u.artifact = t.artifact
                            /\ \A w \in tags : w.artifact = t.artifact
                                              => ~Higher(w.version, u.version)
      BY <3>1 DEF IInv, TagsHaveHighest
    <3>3. u.version \in S
      BY <3>1, <3>2 DEF VersionsOf
    <3>4. \A w \in S : \E t2 \in tags : t2.artifact = req[r].artifact /\ t2.version = w
      BY DEF VersionsOf
    <3> QED BY <3>1, <3>2, <3>3, <3>4
  <2>5. ~Higher(req[s].next, Latest(S))
    BY <2>3, <2>4, LatestIsHighest
  <2>6. Latest(S) \in Version
    BY <2>3, LatestType
  <2>7. Bump(Latest(S), req[r].kind) \in Version /\ Higher(Bump(Latest(S), req[r].kind), Latest(S))
    BY <2>2, <2>6, BumpHigher
  <2> QED BY <2>2, <2>3, <2>5, <2>6, <2>7, HigherOrder
<1>2. IInv /\ [Next]_vars => [Sound]_vars
  BY <1>1
<1> QED BY <1>2, Invariant, PTL DEF Spec, ChosenAboveAcked

-----------------------------------------------------------------------------
(* Refinement: the flow implements the ledger.                             *)

TellsAll == [r \in Request |-> TellsOf(req[r])]

\* A pair is in the ledger exactly when a tag, or a row, has it.
LEMMA PairsHas ==
  ASSUME NEW S, NEW a, NEW v
  PROVE  <<a, v>> \in Pairs(S) <=> Has(S, a, v)
  BY DEF Pairs, Has

\* Adding one tag or row adds its pair.
LEMMA PairsAdded ==
  ASSUME NEW S, NEW t
  PROVE  Pairs(S \cup {t}) = Pairs(S) \cup {<<t.artifact, t.version>>}
  BY DEF Pairs

\* What a step tells: one caller, at Report, or nobody.
LEMMA TellsStep ==
  ASSUME TypeOK, [Next]_vars
  PROVE  \/ UNCHANGED TellsAll
         \/ \E r \in Request : Report(r)
<1>0. req \in [Request -> ReqState]
  BY DEF TypeOK
<1> USE <1>0 DEF Go, Return, At, FailedReq, IdleReq, TellsAll, TellsOf
<1>1. ASSUME NEW q \in Request, RequestStep(q), ~Report(q)
      PROVE  UNCHANGED TellsAll
  <2>1. \A r \in Request : r # q => req'[r] = req[r]
    BY <1>1 DEF RequestStep, Gate, ReadVersions, TagMain, CreateRelease, Fail, ReqState
  <2>2. req[q].pc # "done" /\ req'[q].pc # "done"
    BY <1>1 DEF RequestStep, Gate, ReadVersions, TagMain, CreateRelease, Fail, ReqState
  <2> QED BY <2>1, <2>2
<1>2. CASE Crash
  <2>1. \A r \in Request : req'[r] = req[r] \/ (req[r].pc # "done" /\ req'[r].pc # "done")
    BY <1>2 DEF Crash, Running
  <2> QED BY <2>1
<1>3. CASE FsckStep \/ \E a \in Artifact : MainGains(a)
  BY <1>3 DEF FsckStep, FsckStart, FsckVersions, FsckEnsure, FsckNext, FsckDies, MainGains
<1>4. CASE UNCHANGED vars
  BY <1>4 DEF vars
<1> QED BY <1>1, <1>2, <1>3, <1>4 DEF Next

\* A step adds one tag or one row, of a name that was not there, or none.
New(S, t) == ~Has(S, t.artifact, t.version)

LEMMA AddsOne ==
  ASSUME [Next]_vars
  PROVE  \/ UNCHANGED <<tags, rows>>
         \/ \E t : New(tags, t) /\ tags' = tags \cup {t} /\ UNCHANGED rows
         \/ \E w : New(rows, w) /\ rows' = rows \cup {w} /\ UNCHANGED tags
<1> DEFINE entry(a, v) == [artifact |-> a, version |-> v, at |-> clock]
<1>1. \A a, v : /\ AddTag(a, v) /\ ~Has(tags, a, v) =>
                     New(tags, entry(a, v)) /\ tags' = tags \cup {entry(a, v)}
                /\ AddRow(a, v) /\ ~Has(rows, a, v) =>
                     New(rows, entry(a, v)) /\ rows' = rows \cup {entry(a, v)}
  BY DEF AddTag, AddRow, New
<1> HIDE DEF entry
<1>2. ASSUME NEW r \in Request, RequestStep(r)
      PROVE  \/ UNCHANGED <<tags, rows>>
             \/ \E t : New(tags, t) /\ tags' = tags \cup {t} /\ UNCHANGED rows
             \/ \E w : New(rows, w) /\ rows' = rows \cup {w} /\ UNCHANGED tags
  <2>1. CASE TagMain(r)
    BY <1>1, <2>1 DEF TagMain
  <2>2. CASE CreateRelease(r)
    BY <1>1, <2>2 DEF CreateRelease
  <2> QED BY <1>2, <2>1, <2>2 DEF RequestStep, Gate, ReadVersions, Report, Fail
<1>3. CASE FsckStep
  <2>1. CASE FsckEnsure
    BY <1>1, <2>1 DEF FsckEnsure
  <2> QED BY <1>3, <2>1 DEF FsckStep, FsckStart, FsckVersions, FsckNext, FsckDies
<1>4. CASE Crash \/ \E a \in Artifact : MainGains(a)
  BY <1>4 DEF Crash, MainGains
<1>5. CASE UNCHANGED vars
  BY <1>5 DEF vars
<1> QED BY <1>2, <1>3, <1>4, <1>5 DEF Next

\* Each step is a step of the ledger, or none.
LEMMA LedgerStep == IInv /\ IInv' /\ [Next]_vars => [Ledger!LedgerNext]_(Ledger!ledger)
<1> SUFFICES ASSUME IInv, IInv', [Next]_vars
             PROVE  [Ledger!LedgerNext]_(Ledger!ledger)
  OBVIOUS
<1>0. TypeOK
  BY DEF IInv
<1>1. CASE UNCHANGED <<tags, rows>> /\ UNCHANGED TellsAll
  BY <1>1 DEF Ledger!ledger, TellsAll
<1>2. CASE \E r \in Request : Report(r)
  <2> PICK r \in Request : Report(r)
    BY <1>2
  <2> DEFINE e == <<req[r].artifact, req[r].next>>
  <2>1. UNCHANGED <<tags, rows>>
    BY DEF Report
  <2>2. e \in Pairs(tags) \cap Pairs(rows)
    <3>1. Has(tags, req[r].artifact, req[r].next) /\ Has(rows, req[r].artifact, req[r].next)
      BY DEF Report, At, IInv, Progress, Won
    <3> QED BY <3>1, PairsHas
  <2>3. TellsAll[r] = <<>> /\ \A d \in Request : TellsAll[d] # e
    <3>1. \A d \in Request : req[d].pc = "done" =>
            <<req[d].artifact, req[d].next>> # e
      BY DEF Report, At, IInv, VersionWonOnce, Won
    <3>2. <<>> # e
      OBVIOUS
    <3>3. req[r].pc # "done"
      BY DEF Report, At
    <3> QED BY <3>1, <3>2, <3>3 DEF TellsAll, TellsOf
  <2>4. TellsAll' = [TellsAll EXCEPT ![r] = e]
    <3>1. req' = [req EXCEPT ![r].pc = "done"] /\ req \in [Request -> ReqState]
      BY <1>0 DEF Report, Go, TypeOK
    <3>2. TellsOf(req[r])' = e /\ \A d \in Request : d # r => req'[d] = req[d]
      BY <3>1 DEF TellsOf, ReqState
    <3> QED BY <3>2 DEF TellsAll, TellsOf
  <2>5. TellsAll'[r] = e
    BY <2>4 DEF TellsAll
  <2>6. Ledger!Tell(r, TellsAll'[r])
    BY <2>1, <2>2, <2>3, <2>4, <2>5 DEF Ledger!Tell, TellsAll
  <2> QED BY <2>6 DEF Ledger!LedgerNext, TellsAll
<1>3. ASSUME UNCHANGED TellsAll, NEW t,
             New(tags, t), tags' = tags \cup {t}, UNCHANGED rows
      PROVE  Ledger!LedgerNext
  <2> DEFINE e == <<t.artifact, t.version>>
  <2>1. e \notin Pairs(tags) /\ Pairs(tags') = Pairs(tags) \cup {e}
    BY <1>3, PairsHas, PairsAdded DEF New
  <2>2. Ledger!Cut(e) /\ e \in Pairs(tags')
    BY <1>3, <2>1 DEF Ledger!Cut, TellsAll
  <2> QED BY <2>2 DEF Ledger!LedgerNext
<1>4. ASSUME UNCHANGED TellsAll, NEW w,
             New(rows, w), rows' = rows \cup {w}, UNCHANGED tags
      PROVE  Ledger!LedgerNext
  <2> DEFINE e == <<w.artifact, w.version>>
  <2>1. e \notin Pairs(rows) /\ Pairs(rows') = Pairs(rows) \cup {e}
    BY <1>4, PairsHas, PairsAdded DEF New
  <2>2. e \in Pairs(tags)
    <3>1. Has(tags, w.artifact, w.version)
      BY <1>4 DEF IInv, RowHasTag, Has
    <3> QED BY <3>1, PairsHas
  <2>3. Ledger!List(e) /\ e \in Pairs(rows')
    BY <1>4, <2>1, <2>2 DEF Ledger!List, TellsAll
  <2> QED BY <2>3 DEF Ledger!LedgerNext
<1>5. (\E r \in Request : Report(r)) => UNCHANGED <<tags, rows>>
  BY DEF Report
<1> QED BY <1>0, <1>1, <1>2, <1>3, <1>4, AddsOne, TellsStep

\* ADR-0004 as a whole: the flow of ReleaseArtifact and fsck, with any number of
\* racing requests, failures and crashes, implements the ledger of releases
\* that are cut once, listed when cut, told to one caller when listed, and
\* never taken back.
THEOREM Implements == Spec => ImplementsLedger
<1>1. Init => Ledger!LedgerInit
  BY DEF Init, Ledger!LedgerInit, Pairs, TellsOf, IdleReq
<1> QED BY <1>1, LedgerStep, Invariant, PTL DEF Spec, ImplementsLedger, Ledger!LedgerSpec
=============================================================================
