------------------------------ MODULE Restore ------------------------------
(***************************************************************************)
(* Backup and restore of a whole plane: the processes of module Projects,  *)
(* the releases of its projects (their promise, ReleaseLedger) and the     *)
(* review of one of them (its promise, ReviewFlow), `ubiqo backup'         *)
(* beside a running server (cmd/ubiqo/ops.go, gitstore.BundleAll), and the *)
(* procedure of docs/runbooks/restore.md.                                  *)
(*                                                                         *)
(* Git and the database are saved one after the other and restored from    *)
(* two different moments.  The histories told and made (what callers were  *)
(* told) go back to the moment of the dump: that is what a backup keeps.   *)
(* The runbook stops the server only: `ubiqo project create' and `ubiqo    *)
(* backup' that are under way may go on through the restore.               *)
(***************************************************************************)
EXTENDS Projects

CONSTANTS
  Caller,       \* who asks for releases
  Version,      \* the versions of the one artifact each project releases
  Followed,     \* the project whose review flow is followed
  Change, Topic, Proposal,   \* see ReviewFlow
  MaxRestores   \* bound: restores in one behaviour

ASSUME FollowedAssumption == Followed \in Project /\ Topic # {}
ASSUME ToolAssumption == Tool # {}
ASSUME VersionAssumption == Version \subseteq Nat /\ MaxRestores \in Nat

VARIABLES
  tagged, listed, told,                 \* see ReleaseLedger
  landed, waiting, merged, proposed,    \* see ReviewFlow
  made,      \* the projects whose creation was reported
  upset,     \* the projects a restore found or left half made
  backup,    \* per backup: its phase, the dump and the bundles
  restore    \* the operator: phase, the backup taken, restores so far; the
             \* commands that were under way (strays); whether every backup
             \* restored was taken while nothing was being restored (sound)

flows == <<tagged, listed, told, landed, waiting, merged, proposed, made, upset>>
saving == <<backup, restore>>
vars == <<plane, flows, saving>>

Nothing == <<>>
Entry == Project \X Version

Ledger == INSTANCE ReleaseLedger
Review == INSTANCE ReviewFlow WITH direct <- rows[Followed] = "solo"

\* The two planes as a backup holds them.
ProposalState == [status : {"none", "open", "merged", "conflicted"}, branch : Topic]
NewDump == [schema |-> schema, rows |-> rows, listed |-> listed, proposed |-> proposed,
            told |-> told, made |-> made]
NoBundles == [repos |-> [q \in Project |-> "none"], tagged |-> {}, landed |-> {},
              waiting |-> [t \in Topic |-> {}], merged |-> {}]

NoBackup == [phase |-> "none", db |-> <<>>, todo |-> {}, git |-> NoBundles]

Init ==
  /\ PlaneInit
  /\ tagged = {} /\ listed = {} /\ told = [c \in Caller |-> Nothing]
  /\ landed = {} /\ waiting = [t \in Topic |-> {}] /\ merged = {}
  /\ proposed = [p \in Proposal |-> [status |-> "none", branch |-> CHOOSE t \in Topic : TRUE]]
  /\ made = {} /\ upset = {}
  /\ backup = [b \in Tool |-> NoBackup]
  /\ restore = [phase |-> "none", from |-> CHOOSE b \in Tool : TRUE, count |-> 0,
                 strays |-> {}, sound |-> TRUE]

-----------------------------------------------------------------------------
(* What goes on while the server runs.                                     *)

\* No server runs and no command starts while the operator restores.
Running == restore.phase = "none"

\* A request finds the project's row and a repository with a main.
Usable(q) == rows[q] # "none" /\ repo[q] = "ready"
Served(q) == Usable(q) /\ \E s \in Server : At(s, "serving")

\* The next version: the one above all that are tagged.
NextVersion(q) == {v \in Version : \A w \in Version : <<q, w>> \in tagged <=> w < v}

Releasing ==
  /\ Running
  /\ \/ \E q \in Project : Served(q) /\ \E v \in NextVersion(q) : Ledger!Cut(<<q, v>>)
     \/ \E e \in Entry : Usable(e[1]) /\ Ledger!List(e)
     \/ \E c \in Caller, e \in Entry : Served(e[1]) /\ Ledger!Tell(c, e)
  /\ UNCHANGED <<plane, landed, waiting, merged, proposed, made, upset, saving>>

Reviewing ==
  /\ Running /\ Served(Followed)
  /\ UNCHANGED <<plane, tagged, listed, told, made, upset, saving>>
  /\ Review!FlowNext

\* A creator that ends with success reports its project.
Coming ==
  /\ \/ Running /\ PlaneNext
     \/ ~Running /\ \E c \in Creator : ~At(c, "idle") /\ CreatorMoves(c)
  /\ made' = made \cup {proc[p].project : p \in
       {c \in Creator : ~At(c, "done") /\ proc'[c].pc = "done"}}
  /\ UNCHANGED <<tagged, listed, told, landed, waiting, merged, proposed, upset, saving>>

-----------------------------------------------------------------------------
(* ubiqo backup: ops.go cmdBackup.                                         *)

Phase(b, phase) == backup[b].phase = phase

\* pg_dump, one snapshot of the database.
PgDump(b) ==
  /\ Running /\ Phase(b, "none") /\ At(b, "idle")
  /\ backup' = [backup EXCEPT ![b].phase = "dumped", ![b].db = NewDump]
  /\ UNCHANGED <<plane, flows, restore>>

\* withService migrates, like any command; only pg_dump came before it.
BackupOpens(b) ==
  /\ Phase(b, "dumped") /\ MigrateStep(b)
  /\ UNCHANGED <<flows, saving>>

\* BundleAll: the directories that end in .git, listed once.
Walk(b) ==
  /\ Phase(b, "dumped") /\ At(b, "open")
  /\ backup' = [backup EXCEPT ![b].phase = "bundling",
                  ![b].todo = {q \in Project : repo[q] # "none"}]
  /\ UNCHANGED <<plane, flows, restore>>

WithRepo(g, q) ==
  [repos |-> [g.repos EXCEPT ![q] = repo[q]],
   tagged |-> {e \in g.tagged : e[1] # q} \cup {e \in tagged : e[1] = q},
   landed |-> IF q = Followed THEN landed ELSE g.landed,
   waiting |-> IF q = Followed THEN waiting ELSE g.waiting,
   merged |-> IF q = Followed THEN merged ELSE g.merged]

\* Wrong: `git bundle create --branches', which leaves the tags out.
BundleBranches(b, q) ==
  /\ Phase(b, "bundling") /\ q \in backup[b].todo
  /\ repo[q] \in {"branched", "ready"}
  /\ backup' = [backup EXCEPT ![b].todo = @ \ {q},
                  ![b].git = [WithRepo(@, q) EXCEPT !.tagged = {}]]
  /\ UNCHANGED <<plane, flows, restore>>

\* `git bundle create --all': every ref of one repository at one moment.  It
\* refuses a repository without a ref, and that ends the whole backup.
Bundle(b, q) ==
  /\ Phase(b, "bundling") /\ q \in backup[b].todo
  /\ IF repo[q] \in {"branched", "ready"}
     THEN /\ backup' = [backup EXCEPT ![b].todo = @ \ {q}, ![b].git = WithRepo(@, q)]
          /\ UNCHANGED <<proc, faults>>
     ELSE /\ backup' = [backup EXCEPT ![b] = NoBackup]
          /\ Exit(b) /\ NoFault
  /\ UNCHANGED <<schema, rows, repo, flows, restore>>

\* Wrong: the database dumped after the bundles.
DumpLast(b) ==
  /\ Phase(b, "bundling") /\ backup[b].todo = {}
  /\ backup' = [backup EXCEPT ![b].phase = "whole", ![b].db = NewDump]
  /\ Succeed(b) /\ NoFault
  /\ UNCHANGED <<schema, rows, repo, flows, restore>>

\* manifest.json, and the report to the operator.
BackupDone(b) ==
  /\ Phase(b, "bundling") /\ backup[b].todo = {}
  /\ backup' = [backup EXCEPT ![b].phase = "whole"]
  /\ Succeed(b) /\ NoFault
  /\ UNCHANGED <<schema, rows, repo, flows, restore>>

BackupDies(b) ==
  /\ backup[b].phase \in {"dumped", "bundling"} /\ ~At(b, "failed")
  /\ backup' = [backup EXCEPT ![b] = NoBackup]
  /\ Exit(b) /\ Fault
  /\ UNCHANGED <<schema, rows, repo, flows, restore>>
-----------------------------------------------------------------------------
(* docs/runbooks/restore.md, in its order.                                 *)

UnderWay ==
  {c \in Creator : proc[c].pc \in Opening \cup Making}
    \cup {b \in Tool : backup[b].phase \in {"dumped", "bundling"}}

\* The server is stopped; any command that is under way may go on.
Stop(b) ==
  /\ restore.phase = "none" /\ restore.count < MaxRestores /\ Phase(b, "whole")
  /\ \E kept \in SUBSET UnderWay :
       /\ restore' = [phase |-> "stopped", from |-> b, count |-> restore.count + 1,
                      strays |-> restore.strays \cup kept,
                      sound |-> restore.sound /\ b \notin restore.strays]
       /\ proc' = [p \in Process |-> IF p \in kept \/ At(p, "idle") \/ At(p, "done")
                                     THEN proc[p] ELSE [IdleProc EXCEPT !.pc = "failed"]]
       /\ backup' = [c \in Tool |-> IF Phase(c, "whole") \/ c \in kept THEN backup[c]
                                     ELSE NoBackup]
  /\ UNCHANGED <<schema, rows, repo, faults, flows>>

\* `git clone --bare' of every bundle, into a fresh directory.
GitFromBundles ==
  LET g == backup[restore.from].git
  IN  /\ restore.phase = "stopped"
      /\ repo' = g.repos
      /\ tagged' = g.tagged /\ landed' = g.landed
      /\ waiting' = g.waiting /\ merged' = g.merged
      /\ restore' = [restore EXCEPT !.phase = "git"]
      /\ UNCHANGED <<schema, rows, proc, faults, listed, told, proposed, made, upset, backup>>

\* The projects between their row and their main: of a creator that goes on,
\* or of one whose repository came back without a main.
HalfMade ==
  {q \in Project : repo[q] \notin {"none", "ready"}}
    \cup {proc[c].project : c \in {d \in Creator : proc[d].pc \in Making \ {"inserting"}}}

\* `drop schema' and `psql -f db.sql'.
DbFromDump ==
  LET db == backup[restore.from].db
  IN  /\ restore.phase = "git"
      /\ schema' = db.schema /\ rows' = db.rows /\ listed' = db.listed
      /\ proposed' = db.proposed /\ told' = db.told /\ made' = db.made
      /\ upset' = upset \cup HalfMade
      /\ restore' = [restore EXCEPT !.phase = "none"]
      /\ UNCHANGED <<repo, proc, faults, tagged, landed, waiting, merged, backup>>

BackupStep(b) ==
  PgDump(b) \/ BackupOpens(b) \/ Walk(b) \/ BackupDone(b) \/ BackupDies(b)
    \/ \E q \in Project : Bundle(b, q)
RestoreStep == GitFromBundles \/ DbFromDump \/ \E b \in Tool : Stop(b)

Next ==
  \/ Coming
  \/ Releasing
  \/ Reviewing
  \/ \E b \in Tool : BackupStep(b)
  \/ RestoreStep

\* The operating system runs a server that can run, the container restarts
\* it whenever it stops, and an operator who stopped it finishes.
ServerStep(s) ==
  Running /\ (MigrateStep(s) \/ Restart(s)) /\ UNCHANGED <<flows, saving>>
Fairness ==
  /\ \A s \in Server : WF_vars(ServerStep(s))
  /\ WF_vars(GitFromBundles \/ DbFromDump)

Spec == Init /\ [][Next]_vars /\ Fairness

-----------------------------------------------------------------------------
(* Properties.                                                              *)

DumpType ==
  [schema : [made : SUBSET (1..Migrations), recorded : SUBSET (1..Migrations)],
   rows : [Project -> Mode \cup {"none"}], listed : SUBSET Entry,
   proposed : [Proposal -> ProposalState], told : [Caller -> Entry \cup {Nothing}],
   made : SUBSET Project]
BundlesType ==
  [repos : [Project -> RepoState], tagged : SUBSET Entry, landed : SUBSET Change,
   waiting : [Topic -> SUBSET Change], merged : SUBSET Topic]

\* Every variable keeps its type, the loop over the migrations included.
TypeOK ==
  /\ PlaneTypeOK
  /\ NewDump \in DumpType
  /\ tagged \subseteq Entry /\ landed \subseteq Change /\ merged \subseteq Topic
  /\ waiting \in [Topic -> SUBSET Change]
  /\ \A b \in Tool :
       /\ backup[b].phase \in {"none", "dumped", "bundling", "whole"}
       /\ Phase(b, "none") \/ backup[b].db \in DumpType
       /\ backup[b].git \in BundlesType /\ backup[b].todo \subseteq Project
  /\ upset \subseteq Project
  /\ restore \in [phase : {"none", "stopped", "git"}, from : Tool, count : 0..MaxRestores,
                  strays : SUBSET (Creator \cup Tool), sound : BOOLEAN]

\* Both planes are there, and come from backups that no restore ran into.
Whole == restore.phase # "git" /\ restore.sound

\* Rows are projections of git (ADR-0004) across a backup taken beside a
\* running server and restored: a release that is listed has its tag, and a
\* proposal marked merged had its branch merged.
RowsBehindGit ==
  Whole =>
    /\ listed \subseteq tagged
    /\ \A p \in Proposal : proposed[p].status = "merged" => proposed[p].branch \in merged

\* A project reported as created has its row and a repository with a main,
\* whoever else created it, wrote to it early, failed at it or restored it;
\* after a restore, the projects reported before the dump.  Out of it are only
\* those a restore found or left half made.
CreatedIsUsable == Whole => \A q \in made \ upset : Usable(q)

\* A release its caller was told of is in both planes; after a restore, the
\* releases told of before the dump, although git was saved after it.
ToldIsRestored ==
  Whole => \A c \in Caller : told[c] # Nothing => told[c] \in tagged \cap listed

\* Whoever is past store.Migrate works on every table, whichever process made
\* them and however many restores have put an older schema in their place: a
\* server always, a command unless it was under way when a server was stopped.
OpenHasTables ==
  \A p \in Process \ restore.strays :
    proc[p].pc \in {"serving", "open"} \cup Making => HasTables

\* Whatever fails, and although a second process may fail on the tables of
\* the first, the server comes up in the end: no start leaves a schema that
\* no later start can work with, and neither does a restored dump.
ServerComesUp == \A s \in Server : At(s, "failed") ~> At(s, "serving")
=============================================================================
