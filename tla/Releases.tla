------------------------------ MODULE Releases ------------------------------
(***************************************************************************)
(* Cutting releases of a project's artifacts: ReleaseArtifact of           *)
(* internal/core/core.go over the tags of the project's git repository and *)
(* the releases table of the database, and the part of `ubiqo fsck`        *)
(* (cmd/ubiqo/ops.go) that rebuilds the table from the tags.               *)
(*                                                                         *)
(* Git and the database share no transaction.  A request reads the tags    *)
(* without a lock, creates one tag, then inserts one row; it may stop      *)
(* between any two of these, when its client goes away (git is killed      *)
(* through the request's context), when git or the database fails or when  *)
(* the server dies.  fsck is another process: it runs at any time, shares  *)
(* no lock with the server and takes one row at a time.                    *)
(*                                                                         *)
(* `git tag' is one atomic step that fails when the name is taken, so the  *)
(* repository's lock, held around that single command, adds nothing here   *)
(* (module Proposals models it).  Tagger dates and created_at columns are  *)
(* drawn from one counter: only their order is used, and two of the same   *)
(* instant are left out.                                                   *)
(***************************************************************************)
EXTENDS Semver, Authz

CONSTANTS
  Request,   \* the calls of ubiqo_release_artifact, each made once
  Artifact,  \* the artifacts of the project
  Kind       \* the bumps callers ask for; "other" is any string that is none

ASSUME ArtifactAssumption == Artifact # {}
ASSUME KindAssumption == Kind \subseteq BumpKind \cup {"other"}

VARIABLES
  tags,      \* git: the release tags artifacts/<artifact>/<version>
  rows,      \* database: the releases table
  onMain,    \* git: the artifacts that have a directory shared/<a> on main
  req,       \* the requests and where each stands
  fsck,      \* the fsck process
  clock      \* the next tagger date or created_at

vars == <<tags, rows, onMain, req, fsck, clock>>

Release == [artifact : Artifact, version : Version, at : Nat]

\* "done" is the only state in which the caller has seen a success.
Running == {"gated", "tagging", "inserting", "reporting"}
ReqPC == Running \cup {"idle", "done", "failed"}

ReqState ==
  [pc : ReqPC, artifact : Artifact, kind : BumpKind \cup {"other"}, next : Version]

\* arts: artifacts still to visit; art, todo: the one being visited and its
\* versions still to ensure.  For the properties: owed, what was tagged when
\* the run began; listed, the artifacts then on main; skipped, those of them
\* passed over because git failed to list the artifacts, or their tags.
FsckState ==
  [pc : {"idle", "artifact", "version", "done"}, arts : SUBSET Artifact,
   art : Artifact, todo : SUBSET Version, owed : SUBSET (Artifact \X Version),
   listed : SUBSET Artifact, skipped : SUBSET Artifact]

VersionsOf(S, a) == {t.version : t \in {u \in S : u.artifact = a}}
Has(S, a, v) == \E t \in S : t.artifact = a /\ t.version = v

AnyArtifact == CHOOSE a \in Artifact : TRUE

IdleFsck == [pc |-> "idle", arts |-> {}, art |-> AnyArtifact, todo |-> {},
             owed |-> {}, listed |-> {}, skipped |-> {}]

IdleReq == [pc |-> "idle", artifact |-> AnyArtifact, kind |-> "other", next |-> Zero]

\* A request that ended without a success: its local variables are gone.
FailedReq == [IdleReq EXCEPT !.pc = "failed"]

At(r, from) == req[r].pc = from
Go(r, to) == req' = [req EXCEPT ![r].pc = to]
Return(r) == req' = [req EXCEPT ![r] = FailedReq]

Init ==
  /\ tags = {} /\ rows = {} /\ clock = 0
  /\ onMain = {}
  /\ req = [r \in Request |-> IdleReq]
  /\ fsck = IdleFsck

-----------------------------------------------------------------------------
(* One release request: core.go ReleaseArtifact.                           *)

\* projectCtx and gate: the caller's role must grant release.create.
Gate(r, a, kind) ==
  /\ At(r, "idle")
  /\ \E o \in OrgRole, p \in ProjectRole :
       IF Can(EffectiveRole(o, p), "release.create")
       THEN req' = [req EXCEPT ![r] = [@ EXCEPT !.pc = "gated", !.artifact = a, !.kind = kind]]
       ELSE Return(r)
  /\ UNCHANGED <<tags, rows, onMain, fsck, clock>>

\* Git.Versions without the lock, semver.Latest, semver.Bump.
ReadVersions(r) ==
  /\ At(r, "gated")
  /\ LET q == req[r]
         cur == Latest(VersionsOf(tags, q.artifact))
     IN  IF q.kind \in BumpKind
         THEN req' = [req EXCEPT ![r].pc = "tagging", ![r].next = Bump(cur, q.kind)]
         ELSE Return(r)
  /\ UNCHANGED <<tags, rows, onMain, fsck, clock>>

AddTag(a, v) ==
  /\ tags' = tags \cup {[artifact |-> a, version |-> v, at |-> clock]}
  /\ clock' = clock + 1

\* Wrong: `git tag -f', which takes the name from the older tag.
TagForced(r) ==
  LET a == req[r].artifact
      v == req[r].next
  IN  /\ At(r, "tagging")
      /\ tags' = {t \in tags : t.artifact # a \/ t.version # v}
                   \cup {[artifact |-> a, version |-> v, at |-> clock]}
      /\ clock' = clock + 1
      /\ Go(r, "inserting") \/ Return(r)
      /\ UNCHANGED <<rows, onMain, fsck>>

\* Wrong: the error of Git.Tag ignored, as the one of AppendEvent is.
TagBestEffort(r) ==
  /\ At(r, "tagging")
  /\ \/ /\ ~Has(tags, req[r].artifact, req[r].next)
        /\ AddTag(req[r].artifact, req[r].next)
     \/ UNCHANGED <<tags, clock>>
  /\ Go(r, "inserting")
  /\ UNCHANGED <<rows, onMain, fsck>>

\* Git.Tag: refused when the name exists.  The git process may be killed
\* after it created the tag, and the caller is then told of a failure.
TagMain(r) ==
  LET a == req[r].artifact
      v == req[r].next
  IN  /\ At(r, "tagging")
      /\ \/ /\ ~Has(tags, a, v)
            /\ AddTag(a, v)
            /\ Go(r, "inserting") \/ Return(r)
         \/ /\ Has(tags, a, v)
            /\ Return(r)
            /\ UNCHANGED <<tags, clock>>
      /\ UNCHANGED <<rows, onMain, fsck>>

AddRow(a, v) ==
  /\ rows' = rows \cup {[artifact |-> a, version |-> v, at |-> clock]}
  /\ clock' = clock + 1

\* Wrong: the error of CreateRelease ignored.
RowBestEffort(r) ==
  /\ At(r, "inserting")
  /\ \/ /\ ~Has(rows, req[r].artifact, req[r].next)
        /\ AddRow(req[r].artifact, req[r].next)
     \/ UNCHANGED <<rows, clock>>
  /\ Go(r, "reporting")
  /\ UNCHANGED <<tags, onMain, fsck>>

\* DB.CreateRelease: the table's unique (project, artifact, version) refuses
\* a second row.  The connection may be lost after the row was committed.
CreateRelease(r) ==
  LET a == req[r].artifact
      v == req[r].next
  IN  /\ At(r, "inserting")
      /\ \/ /\ ~Has(rows, a, v)
            /\ AddRow(a, v)
            /\ Go(r, "reporting") \/ Return(r)
         \/ /\ Has(rows, a, v)
            /\ Return(r)
            /\ UNCHANGED <<rows, clock>>
      /\ UNCHANGED <<tags, onMain, fsck>>

\* DB.AppendEvent, whose outcome is ignored, and the answer to the caller.
Report(r) ==
  /\ At(r, "reporting")
  /\ Go(r, "done")
  /\ UNCHANGED <<tags, rows, onMain, fsck, clock>>

\* A step fails without effect (git or database error, client gone).  Past
\* CreateRelease no error is looked at.
Fail(r) ==
  /\ req[r].pc \in {"gated", "tagging", "inserting"}
  /\ Return(r)
  /\ UNCHANGED <<tags, rows, onMain, fsck, clock>>

\* The server dies: nobody answers the requests it was working on.
Crash ==
  /\ \E r \in Request : req[r].pc \in Running
  /\ req' = [r \in Request |->
               IF req[r].pc \in Running THEN FailedReq ELSE req[r]]
  /\ UNCHANGED <<tags, rows, onMain, fsck, clock>>

\* The push of a merge, or of a solo write, brings the first file of artifact
\* a to main (module Proposals).
MainGains(a) ==
  /\ a \notin onMain
  /\ onMain' = onMain \cup {a}
  /\ UNCHANGED <<tags, rows, req, fsck, clock>>

-----------------------------------------------------------------------------
(* ubiqo fsck: ops.go cmdFsck, for one project.                            *)

\* Git.ListArtifacts: the directories on main, read once.  On an error fsck
\* prints a warning, does none of them and goes on to its summary.
FsckStart ==
  /\ fsck.pc \in {"idle", "done"}
  /\ \E known \in {onMain, {}} :
       fsck' = [IdleFsck EXCEPT !.pc = "artifact", !.arts = known, !.listed = onMain,
                  !.owed = {<<t.artifact, t.version>> : t \in tags},
                  !.skipped = onMain \ known]
  /\ UNCHANGED <<tags, rows, onMain, req, clock>>

\* Wrong: the latest version of an artifact instead of all.
FsckLatestOnly ==
  /\ fsck.pc = "artifact"
  /\ \E a \in fsck.arts :
       fsck' = [fsck EXCEPT !.pc = "version", !.arts = @ \ {a}, !.art = a,
                  !.todo = {Latest(VersionsOf(tags, a))} \cap VersionsOf(tags, a)]
  /\ UNCHANGED <<tags, rows, onMain, req, clock>>

\* Git.Versions of the next artifact; on an error the artifact is skipped.
FsckVersions ==
  /\ fsck.pc = "artifact"
  /\ \E a \in fsck.arts :
       \/ fsck' = [fsck EXCEPT !.pc = "version", !.arts = @ \ {a}, !.art = a,
                     !.todo = VersionsOf(tags, a)]
       \/ fsck' = [fsck EXCEPT !.arts = @ \ {a}, !.skipped = @ \cup {a}]
  /\ UNCHANGED <<tags, rows, onMain, req, clock>>

\* DB.EnsureRelease of the next version in the order git lists the tags.
FsckEnsure ==
  /\ fsck.pc = "version"
  /\ \E v \in fsck.todo :
       /\ \A w \in fsck.todo : ~ListedBefore(w, v)
       /\ IF Has(rows, fsck.art, v) THEN UNCHANGED <<rows, clock>> ELSE AddRow(fsck.art, v)
       /\ fsck' = [fsck EXCEPT !.todo = @ \ {v}]
  /\ UNCHANGED <<tags, onMain, req>>

\* The end of the loop over the versions, then of that over the artifacts.
FsckNext ==
  /\ \/ fsck.pc = "version" /\ fsck.todo = {} /\ fsck' = [fsck EXCEPT !.pc = "artifact"]
     \/ fsck.pc = "artifact" /\ fsck.arts = {} /\ fsck' = [fsck EXCEPT !.pc = "done"]
  /\ UNCHANGED <<tags, rows, onMain, req, clock>>

\* The process stops: a database error ends it, or the operator does.
FsckDies ==
  /\ fsck.pc \in {"artifact", "version"}
  /\ fsck' = IdleFsck
  /\ UNCHANGED <<tags, rows, onMain, req, clock>>

-----------------------------------------------------------------------------

RequestStep(r) ==
  \/ \E a \in Artifact, kind \in Kind : Gate(r, a, kind)
  \/ ReadVersions(r) \/ TagMain(r) \/ CreateRelease(r) \/ Report(r) \/ Fail(r)

FsckStep == FsckStart \/ FsckVersions \/ FsckEnsure \/ FsckNext \/ FsckDies

Next ==
  \/ \E r \in Request : RequestStep(r)
  \/ Crash
  \/ \E a \in Artifact : MainGains(a)
  \/ FsckStep

Spec == Init /\ [][Next]_vars

-----------------------------------------------------------------------------
(* What ubiqo_list_artifacts shows (DB.LatestReleases): per artifact, the   *)
(* row created last.                                                        *)
LatestRelease(a) ==
  LET of == {w \in rows : w.artifact = a}
  IN  CHOOSE w \in of : \A u \in of : u.at <= w.at

(* Properties.                                                              *)

\* Every variable keeps its type.
TypeOK ==
  /\ tags \in SUBSET Release /\ rows \in SUBSET Release
  /\ onMain \in SUBSET Artifact
  /\ req \in [Request -> ReqState]
  /\ fsck \in FsckState
  /\ clock \in Nat

\* ADR-0004, git first: a row of the releases table names a tag that exists,
\* whoever inserted it and whatever failed or crashed on the way.
RowHasTag == \A w \in rows : Has(tags, w.artifact, w.version)

\* Of all requests, those that read the same tags included, one at most gets
\* past `git tag' with a given version of an artifact; so no version is ever
\* acknowledged to two callers.
Won(r) == req[r].pc \in {"inserting", "reporting", "done"}
VersionWonOnce ==
  \A r, s \in Request :
    Won(r) /\ Won(s) /\ req[r].artifact = req[s].artifact /\ req[r].next = req[s].next => r = s

\* A caller that was told of a release can read it back from both planes, in
\* git and in the table, from then on.
AckedIsPublished ==
  \A r \in Request : At(r, "done") =>
    /\ Has(tags, req[r].artifact, req[r].next)
    /\ Has(rows, req[r].artifact, req[r].next)

\* A run of fsck that ends has given a row to every tag that existed when it
\* began, of each artifact then on main, unless git failed it: unless it could
\* not list the artifacts (a warning) or the tags of this one (no word of it).
FsckComplete ==
  fsck.pc = "done" =>
    \A o \in fsck.owed :
      o[1] \in fsck.listed \ fsck.skipped => Has(rows, o[1], o[2])

\* A release is an immutable snapshot: no step moves or removes a tag.
TagsImmutable == [][tags \subseteq tags']_vars

\* A version is chosen above every version acknowledged before the choice.
\* (Of two requests that choose at the same time, the one that tags last may
\* have the lower version.)
ChosenAboveAcked ==
  [][\A r, s \in Request :
       At(r, "gated") /\ req'[r].pc = "tagging" /\ At(s, "done") /\ req[s].artifact = req[r].artifact
         => Higher(req'[r].next, req[s].next)]_vars

\* The flow implements the ledger: whatever races, fails or crashes, each step
\* cuts one new release, lists one that is cut, or tells one caller of one
\* that is cut and listed and that no other caller was told of.
Pairs(S) == {<<t.artifact, t.version>> : t \in S}
TellsOf(q) == IF q.pc = "done" THEN <<q.artifact, q.next>> ELSE <<>>

Ledger == INSTANCE ReleaseLedger WITH
  Caller <- Request, Nothing <- <<>>,
  tagged <- Pairs(tags), listed <- Pairs(rows),
  told <- [r \in Request |-> TellsOf(req[r])]

ImplementsLedger == Ledger!LedgerSpec

(* What documents and comments say, and the code does not do.               *)

\* "List the project's shared artifacts with their latest release tags": no
\* released version is both higher and tagged later than the one listed.
ListedIsLatest ==
  \A w \in rows : LatestRelease(w.artifact) # w =>
    \A t, u \in tags :
      /\ t.artifact = w.artifact /\ t.version = w.version
      /\ u.artifact = w.artifact /\ u.version = LatestRelease(w.artifact).version
      => ~(t.at > u.at /\ Higher(t.version, u.version))
=============================================================================
