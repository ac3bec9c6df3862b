# ubiqo in TLA+

ubiqo is a server through which teams share artifacts, releases, memory and
context with their coding agents.  This directory specifies its shared plane:
what happens to branches, tags and database rows when several callers work on a
project at once, calls fail half way and the server dies; how a plane comes up, is
backed up and restored; who may do what meanwhile; and what the hooks on the
clients' machines do while the server is away.

Names are those of the source: an action named `TagMain` or `DeleteBranch`
models the code that `PROJECT.json` ("map") gives for it.

## 1. The system

One server process (`ubiqo serve`) answers MCP tools and a few HTTP routes.
Every request runs in a goroutine of its own, calls one method of
`core.Service`, and that calls two stores that share no transaction:

* **git**: one bare repository per project.  `internal/gitstore` runs the `git`
  program; each mutation clones the repository, works in the clone and pushes,
  under a mutex per repository that lives in the server's memory.  A process is
  killed when its request's context ends.
* **PostgreSQL**: `internal/store`, one statement per operation, no transaction
  except in migrations.

Git is meant to be the source of truth for artifacts, proposals and releases, and
their rows to be projections of it (ADR-0004): mutations go to git first.  The
commands `ubiqo fsck`, `backup`, `seed`, `setup` and the administration verbs are
other processes on the same repositories and database; they do not know the
server's mutex.

### Components

| Component | State | Operations | Hard part | Correct when |
|---|---|---|---|---|
| Proposal flow: `core` over `gitstore` and `merge_proposals` | main, branches `u/<user>/<artifact>`, rows, the mutex | WriteArtifact, ProposeMerge, MergeProposal | the row is read before the mutex is taken, written and the branch deleted after it is released; calls end anywhere | statuses follow git; in team mode only merges of proposals reach main; no change is overwritten or forgotten silently; every call is answered |
| Release flow: `core` over `gitstore` and `releases` | release tags, rows | ReleaseArtifact, LatestReleases | the tags are read without a lock; tag and row are two steps | a version has one release, a row has a tag, an acknowledged release is in both |
| `ubiqo fsck` | none of its own | rows from tags; report of orphans | runs beside the server, stops on any database error | what git has, the tables have after it |
| `semver` | none | Compare, Bump, Latest | git lists tags by bytes | the highest version, and the next one |
| `authz` | none | Can, OrgCanManage, effective role | the organisation's fallback role | one rule decides a request and lists the projects |
| Repository creation (`EnsureRepo`, project create) | directories, project rows | create | the row comes before the repository, and the existence of a directory stands for a finished one; writes may come before main does | a project reported as created can be used |
| Migrations | `schema_migrations` | Migrate at every start | concurrent starts, a process killed between two statements | the server comes up in the end |
| Tokens, HTTP authentication | token rows | issue, authenticate, revoke | the role in the organisation and the one on the project are read by two statements | a request is decided by a role its caller has |
| Setup and administration | organisations, users, memberships | setup, user, project and device commands | seven statements without a transaction | a token that is shown works |
| Memory, activity | append-only rows | remember, recall, events | which rows of one table a caller sees, under a limit that cuts by age or by rank | memories are recalled by those they are for, and by nobody else |
| Context bundle, compiler | none | GetContext, Compile | several reads without a snapshot | (not modelled) |
| Client hooks | spool directory, cache file | session-start, session-end, drain | several hooks on the same files without a lock; the host's time limit; posts whose answer is lost; errors of files that nobody looks at | a report vanishes, is sent twice or is torn only in the known ways; a session starts with one whole, current bundle |
| Backup, restore | dump and bundles | backup; the runbook | database and git are copied one after the other beside a running server; commands go on through a restore | what was reported before the dump is there after the restore, and rows stay behind git |
| MCP server, configuration, seed, deployment | none | adapters, static files | | |

`PROJECT.json` lists all of them with their status, and under "hazards" where in
the code the hard parts are, each with the properties that watch it or the
reason why none does.

## 2. The modules

| Module | What it is |
|---|---|
| `Semver` | versions, bumps, the highest version, the order git lists tags in |
| `SemverScan`, `ScanProofs` | the loop of `semver.Latest`, one round per step, and its theorems |
| `Authz` | roles, grants, the role a request acts under |
| `ReleaseLedger`, `ReviewFlow` | what the release flow and the proposal flow promise, abstractly |
| `Releases` | ReleaseArtifact and the release part of fsck (extends `Semver`, `Authz`) |
| `MCReleases` | its instances, and those of `SemverScan` |
| `ReleasesProofs` | its theorems |
| `Proposals` | WriteArtifact, ProposeMerge, MergeProposal (extends `Authz`) |
| `ProposalsFsck` | fsck's report on proposals, beside `Proposals` |
| `MCProposals`, `MCReview` | instances from the empty project, and from the middle of a review |
| `ProposalsProofs` | types, mutex and progress of `Proposals` |
| `ReviewProofs` | its review: the properties, and the refinement (extends `ProposalsProofs`) |
| `Projects` | processes that open the database, migrate it, then serve or create a project |
| `Restore` | `Projects` with releases (`ReleaseLedger`) and a review (`ReviewFlow`) going on, `ubiqo backup` beside them, and a restore |
| `RestoreProofs` | its theorems |
| `Access` | setup and administration, tokens, roles, memory, activity, whoami (extends `Authz`) |
| `MCAccess` | its instances |
| `AccessProofs` | its theorems |
| `Sessions` | the session-end hook, its spool, and the route that takes reports |
| `ContextCache` | the session-start hook and its cache |
| `MCSessions` | both hooks' instances |
| `SessionsProofs`, `CacheProofs` | their theorems; the second extends the first and is also about both together |

`Releases` implements `ReleaseLedger` and `Proposals` implements `ReviewFlow`
(properties `ImplementsLedger` and `ImplementsReview`, with the mappings beside
them).  `Restore` then instantiates the two abstract specifications instead of
the detailed ones: a backup sees refs and rows and no program counter, so what it
can copy is exactly their state, and any order of steps the flows can take is one
theirs can take.

Operators commented "Wrong" (`TagForced`, `LockAtOnce`, ...) are faulty variants
of the definition that follows them.  No specification uses them: put in the place
of the right one, each makes TLC report the property it is paired with in
`PROJECT.json` ("mutants"), so no property here is one that nothing could break.

### Releases

`tags` and `rows` are sets of (artifact, version, time); tagger dates and
`created_at` share the counter `clock`, of which only the order is used.  A
request goes through the program counters

    idle -Gate-> gated -ReadVersions-> tagging -TagMain-> inserting
         -CreateRelease-> reporting -Report-> done

and to `failed` from anywhere before `reporting` (`Fail`), at a crash, and also from
`TagMain` and `CreateRelease` *after* their effect: git may be killed and the
connection lost once the tag or the row exists.  The repository's mutex is not in
this module, because it encloses exactly one atomic command here.  fsck reads the artifacts on main once, then the tags of each artifact, then
ensures one row at a time; it may be run again, and stops anywhere.  Either reading may fail, and
fsck goes on to its summary without the artifacts, or without the tags of one.

`MCReleases` runs a request's flow or, in behaviours of their own, the loop of `SemverScan`.

### Proposals

A commit is named by the call that made it.  `main` is the set of commits
reachable from it and the tree at its tip; a branch also has `base`, the tree at its
merge base with main, which is what a three-way merge needs.  A "file" is what git
merges as one piece: it conflicts when both sides changed it to different contents.
`Conflicts`, `Merged` and the fast-forward rule of a push are git's, the rest is the
program's.

    write:  idle -WriteBegin-> waiting -WriteClone-> pushing -WritePush-> acked
    merge:  idle -MergeBegin-> waiting -MergeClone-> pushing -MergePush-> recording
                 -RecordMerged-> deleting -DeleteBranch-> acked
            or  waiting -MergeClone-> reporting -RecordConflict-> conflict

`lock` is the mutex; it is held in `pushing` only, because a clone, its failure and the
release of the mutex are one step.  `DeleteBranch` takes and releases it in one step,
and `RecordMerged` happens without it, as in `MergeProposal`.  Errors of
`ResolveProposal`, `DeleteBranch` and `AppendEvent` are ignored by the code and
therefore have no `failed` branch.  `WriteClone` may begin an existing branch anew
from main: `gitstore.clone` takes every failure of `git clone --branch` for a missing
branch.  Deletion and recreation of a branch is possible and used by the properties.
`solo` is a variable that no step changes, so each run covers both modes.

`ProposalsFsck` adds the process of fsck, whose two reads are two steps.

`ReviewFlow` knows the changes on main and those waiting on a branch.  Proposals
maps the commits on main to `landed`, the commits a live branch has beyond main to `waiting`, and
rows to themselves.  A merge lands all that waits on the branch at once, a deletion
discards what waits on a merged branch, and nothing else takes anything away.

### Projects and Restore

A process of `Projects` goes

    idle -Start-> migrating -CheckMigration-> (applying -Apply-> migrating)* -> serving | inserting | open
    inserting -Insert-> stat -Stat-> mkdir -Mkdir-> init -GitInit-> push -PushInitial-> done

and to `failed` at an error or a kill (`Die`); a server is restarted.  `schema` holds
what a migration has made and which are recorded, which differ only
if the transaction is broken.  `Apply` fails on tables that another process has
made, as `create table` does.  `repo` says how far a repository has come.
`FirstWrite` is a write that finds the bare repository of a project being
created, whose clone works: in solo mode its push makes main before `PushInitial`
does, in team mode it makes the contributor's branch without a main ("branched").

`Restore` adds the backup: `PgDump` (one snapshot of the database), the start of a
service (`BackupOpens`: it migrates, after the dump), `Walk` and one `Bundle` per
repository, `BackupDone`.  A repository without a ref cannot be bundled and ends the backup,
as in `BundleAll`; one with a contributor's branch and no main can.  `Stop`,
`GitFromBundles` and `DbFromDump` are the steps of
docs/runbooks/restore.md.  What callers were told goes back, with the database,
to the moment of the dump: that is the promise a backup can keep.

The runbook's "Stop the server" stops no command, so `Stop` ends the server, and of the
`project create` and `backup` under way any number go on (`restore.strays`), on a database and a
data directory that are replaced under them.  Three things are then out of anybody's promise, and each is
a conjunct that the properties name: a backup that a restore ran into may hold a dump of one plane and bundles
of another (restoring from it ends `restore.sound`); a project that the restore finds or leaves between its row and its
main (`upset`); and a stray on a schema without its tables.  TLC finds a counterexample to the properties
without any one of the three.  No *new* command starts during a restore, and dropping and
loading the database is one step.

### Access

One action per statement of a request and of `setup`; every other command looks up
rows that are never deleted and then writes one, and is one step; `user create` writes two,
`UserCreate` and `UserJoin`, the second with its error ignored.  `Recall` answers with the newest
memories; `Search`, a recall with a query, with any that match, as many as the limit allows: the limit cuts
by rank there, so an older memory may take the place of a newer one.  A request takes
its role in the organisation from its authentication and keeps it, while its role on
the project is read by `Resolve`.  `before` and `acked` record, for the
properties, what roles and memories there were at the authentication.

### Sessions and ContextCache

A hook of `Sessions` goes

    idle -List-> drain -Read-> sending -Resend-> removing -Remove-> drain ...
      drain -Drained-> post -Post-> done | spooling -Create-> writing -Write-> done

and is `killed` by the host when a post would end after its limit; each post takes no time or all
of its client's timeout.  It may also die between any two steps (`Die`), an accepted post and the removal of its file
among them.  A post may be stored although the client hears of an error.  A file that cannot be
read is passed over and one that cannot be removed stays, as the code ignores both errors; `left`
records them, and `doubtful` the reports whose file stayed although they were accepted.
A file is `torn` between its creation and its writing, when a draining hook cannot decode
it and removes it.  In `ContextCache` a text is a pair of halves, so that a body that
was cut and a file two hooks wrote at once can be told from a whole one.  The file is truncated before it is
written; a write that then fails, or whose hook dies, leaves it empty or partial (`Unwritten`).

## 3. The runs

| Run | Question | Bounds |
|---|---|---|
| `releases` | is a version won once, do rows follow tags, is an acknowledged release readable, does fsck complete, is the ledger implemented; does the scan of tags find the highest version, is a bump the next one? | 3 requests, 1 artifact, bumps minor, patch, invalid; lists of up to 3 tags, parts 0..1, tags that do not parse, repetitions |
| `releases_listed` | is the release listed the latest? (no) | 2 requests |
| `proposals` | statuses, what may change a merged row, what may reach main, no silent overwrite, nothing forgotten; is the review flow implemented? | 2 writes, 2 proposals, 2 merges, 2 branches, 1 file, 2 contents |
| `proposals_end` | is every waiting call answered? | 2 writes, 1 proposal, 2 merges, 1 branch |
| `proposals_lost` | does an acknowledged write stay on its branch or main? (no) | 2 writes, 1 proposal, 1 merge |
| `proposals_final` | is merged final? (no) | from a project in review: 3 writes, 2 proposals, 3 merges |
| `proposals_reconcile` | can a conflict be reconciled as the answer says? (no) | the same, from a conflict |
| `proposals_fsck` | does fsck rebuild the rows of proposals? (no) | 1 write, 1 proposal, 1 merge |
| `restore` | does the server come up, on a schema with all tables, is a created project usable, are rows behind git and reported releases there, before and after a restore that commands go on through? | 1 server, 2 creators, 1 backup, 1 project in either mode, 1 migration, 1 failure or kill, 1 release, 1 change, 1 proposal, 1 restore |
| `sessions` | what may happen to a report, and to the text a session starts with? | 2 end hooks, 2 reports spooled before; 3 start hooks, 2 bundles |
| `access` | roles decided by, memories recalled, count and digest, whoami, the token setup shows | 2 organisations, 2 users, 1 slug, 3 requests, limit 1, setup and 2 commands |
| `access_owner` | is an owner of the organisation maintainer on every project? (no) | the same, 1 request |

Every call happens at most once, so all models are finite; retries are further
calls.  Two racing calls of a kind show every pairwise race; a third request in
`releases` leaves one to act after a race.  One artifact is enough there, since
requests for two share only the clock.  One file is enough, since the mutex and the
refs know nothing of files, and a merge treats each file on its own.  Two contents
are enough to differ.  `MCReview` starts where a review stands after thirteen steps
from the empty project (sixteen when a conflict was told); both starts are
reachable states of `Proposals`, and starting there leaves calls for what follows.
Permuting calls of one kind is sound: no action and no property names one, except that `Init` names one
proposal (and one artifact in `Releases`), which are therefore not permuted.
The runs allow deadlock because calls are finitely many and all end.

In `restore` two creators and a server are three processes on one schema, enough for
one that is second, and one that comes back after it failed; one failure leaves each
half-made state behind, and the second creator meets it; one project is enough because
projects share only the schema and the server.  Two spooled reports and two
hooks make a hook find up to three files, so a time limit of five seconds, with the
two and three seconds of the code, kills hooks both in the drain and at their own
report; the code's limit of ten does the same with six and four files.  The file of
one hook sorts before an old one and the other after it.  A behaviour of `sessions` runs either kind of
hook, since they share no file.  In `access`, `FewRequests` (a constraint) allows
one request before setup has succeeded, two at a time after it, and a third
alone when all are of memories or all of events; a limit of one is
reached by the second memory or event.  Two users in two organisations give every
relation: the same, a colleague, a stranger with the same slug.

What the six violated properties show:

* **An acknowledged write is lost** (`AckedWriteKept`).  A merge pushes main and
  releases the mutex; a write adds to the branch and is acknowledged; the merge deletes the
  branch with `branch -D`.  `OnlyDeletionForgets` shows that this is the only way.
* **A merged proposal becomes conflicted** (`MergedIsFinal`).  A merge meets a
  conflict, another removes its cause and merges, the first then writes its
  outcome: the update has no condition on the status.  `MergedSettles` shows that it takes such
  a merge, one that was let past the check before: once no call merges the row, it says merged for good.
* **Reconciling does not help** (`ReconcileThenMerge`).  The branch gets a plain
  commit; git compares again with the old merge base and finds the same conflict.
  Only a branch that says exactly what main says merges.
* **fsck does not rebuild proposals** (`FsckRebuildsRows`).  A server that dies
  between the push and the row, or loses the update, leaves an open row forever.
* **The release listed is not the latest** (`ListedIsLatest`).
* **An owner need not be a maintainer** (`ManagersMaintain`).  "org owners/admins get maintainer on every project"
  (internal/core/core.go:53), but the fallback is for callers without a role on the project only: an owner
  who was added to it as a viewer acts as one.  `RoleWasHeld` states the rule the code has.

Four things that look like properties and do not hold.  Concurrent
requests may tag the lower of two versions later.  fsck gives no row to a tag of
an artifact that has no directory on main.  What a maintainer looked at is not what a merge merges: the merge takes the
tip the branch has under the mutex, and no commit is pinned (`OnlyMergesReachMain` says what does hold).
And the runbook's "Stop the server" is not enough for a restore: a command that opened the database
before goes on with a schema that lacks its tables, which is why `OpenHasTables` speaks of servers, and of
commands that were not under way.

### Fairness

`CallsEnd` assumes weak fairness of every step of a call that is past the mutex
(Go runs each goroutine; git and PostgreSQL answer or fail) and strong fairness of
the steps that take the mutex: Go's `sync.Mutex` hands the mutex to a waiter that
starved for a millisecond.  No fairness is assumed of failures, crashes and new
calls.

`ServerComesUp` assumes that the operating system runs a server that can take its next
step of starting, that the container restarts it whenever it stops (`restart:
unless-stopped`), and that an operator who stopped it to restore goes on to the end;
failures and kills are bounded by `MaxFaults`.  Serving itself, commands and backups
need no fairness.  All other properties are safety properties and assume nothing.

## 4. The theorems

Every invariant and every action property that a passing run checks is also a
theorem, as is the refinement of both abstract specifications; what is left to TLC
is at the end of this section.  The theorems hold for every value of the constants
under the assumptions named in the modules: kinds of calls, processes and projects are disjoint or not
empty as the code has them; bounds are natural numbers; `None` and its like are no calls.
Three say more.  The reports of `Sessions` and the requests of `Access` are
finite sets, because their proofs count; any real execution has finitely many.  `Tool`
of `Restore`, the backups, is not empty, since `restore.from` names one of them
even while nothing is restored.

Each module of theorems has one inductive invariant, which TLC checked on the
component's run before it was proved, and one lemma per action.
Where a lemma speaks of one request, it says first which fields of it
the action changes, and the parts of the invariant follow from that.

**Releases** (`ReleasesProofs`).  `IInv` joins the types with these facts: a row has a
tag; a request past `git tag` has its tag, and one past the insert its row; two
such requests never share artifact and version; every version fsck is about to
ensure is tagged (`FsckSeesTags`); each tag fsck owes a row has one, is still
ahead of it, or is of an artifact it skipped (`FsckOwes`); and of the tags of an
artifact one is highest (`TagsHaveHighest`).  `FsckSeesTags` makes `RowHasTag` inductive: fsck inserts rows
from a list it read earlier, which is sound because tags are never removed.
`TagsHaveHighest` is what `Latest` needs: it says that the version chosen is above *all* of
them, for a set of any size, without an induction over it.  `WinStep`, `RowStep` and
`HasMono` carry the argument: tags and rows only grow, so what was there stays.
From it follow `TypeCorrect`, `GitFirst` (RowHasTag), `OneWinner` (VersionWonOnce), `Acknowledged`
(AckedIsPublished), `Immutable` (TagsImmutable), `FsckRepairs` (FsckComplete)
and `AboveAcked` (ChosenAboveAcked).

`Implements` (ImplementsLedger) shows the refinement on top of `IInv`: a step adds at most one
tag or one row, of a name not there before (`AddsOne`), and tells a caller only at
`Report` (`TellsStep`).  A new tag is a `Cut`; a new row is a `List`, its tag
being there by `RowHasTag` in the next state; a report is a `Tell`, tag and
row being there by `Progress` and nobody else having been told by
`VersionWonOnce`.

**Proposals** (`ProposalsProofs`).  `IInv` joins the types with `HoldsMutex`: a call that
is about to push holds the mutex.  A call takes it only while it is free, hence while no other is about to
push; and only the holder, or `DeleteBranch` while it is free, changes a ref.  This gives
`TypeCorrect` and `MutexSuffices` (RefsStayUnderClone).  The converse, that whoever holds the mutex
is about to push (`MutexInUse`), is `MutexReturned`: no error path leaves it locked.
`CallsAdvance` numbers the program counters (`Stage`): each step takes some call further and
none back, so that a call takes five steps at most.

**Review** (`ReviewProofs`).  `FlowInv` adds to it what the mutex is good for: what a call in
`pushing` has in its clone is still main, or main merged with its branch, as
they are now (`WriteClones`, `MergeClones`).  This is inductive only thanks to
`HoldsMutex`, for any other push would make it false.  Around
it stand: a merge names a row that was opened and its branch (`RowsNamed`); a commit is reachable only once
its call has pushed (`Pushed`); a branch holds, beyond main, writes of its own only
(`OwnWrites`); in team mode a write is on main through a merge of its branch (`ThroughMerge`); and what
was merged stays (`Landed`, `MarkedMerged`).  From these follow `MergedFirst`, `MergesOnly`
(OnlyMergesReachMain: a write can enter main only by the push of a merge that holds the mutex), `SoloKept`, `NothingOverwritten` and `OnlyDeletion`.  `ImplementsFlow`
(ImplementsReview) maps each step to a step of `ReviewFlow`: a push of a write adds a waiting
change (or lands it, in solo mode), a push of a merge lands all that waits on the
branch, `DeleteBranch` discards what waits on a merged branch, and the row's
updates are those of the row.

Three theorems say what does hold next to the violated properties and to `CallsEnd`.  `MergedSettled`
(MergedSettles): a row that says merged is changed only by a merge that had begun while it did
not; the proof splits the steps by whose row they write, and a merge that begins now is refused.
`AckedAccounted`: an acknowledged write is on main, on its own branch, or its branch was
merged; it is inductive because a branch only gains until it is deleted, git refusing a push
that leaves out what is there, and is deleted after a merge only.  `PushesAccepted`: a merge's or a solo write's push has all of what it replaces,
so that git never refuses it for another in between.

**Restore** (`RestoreProofs`).  The central notion is that a dump is *behind* a git (`Behind`):
what it lists is tagged there, what it marks merged was merged, and a project whose
creation it remembers as reported, unless a restore upset it, has a row in it and a repository with a main there.
`RestoreInv` joins the types with `Quiet` (while the operator restores, only strays run) and, as long as every backup
restored was one that no restore ran into, with `Good`: the database is behind git (`NowBehind`); only a
repository with a main has tags or merges (`Rooted`); and a backup's dump stays behind git while its bundles are
written one by one, because git only gains, and is behind the part already bundled (`Covered`), so that in a whole backup
it is behind the bundles (`BackupsSound`, of backups that are no strays).  While git alone has been restored
the database may be ahead of it; the invariant then knows which backup git
is of (`GitBack`), to which a stray may only add a main, and loading that backup's dump puts the database behind again.
`OneMaker`, that the one who
inserted a project's row is alone in making its repository unless a restore came between, is what makes a reported
project usable.  Theorems: `PlaneTyped`, `BehindGit`, `CreatedUsable`, `ToldRestored`.

`SchemaInvariant` is the safety under `ServerComesUp`.  A migration is made exactly when it is recorded, in the
database and in every dump (`InStep`), and a process that is no stray knows of the migrations before its place in the
loop that they are recorded (`Seen`).  So whoever starts, after any deaths and restores, finds the
next migration either recorded or not made, and `OpenComplete` (OpenHasTables): whoever is past
the loop has every table.  A restore may put an older schema in place, which is sound because strays alone are
in the loop or past it then, and what a stray applies to it is in a transaction too.

**Access** (`AccessProofs`).  `AccessInv` says of each request that what it goes by was its caller's
(`Authentic`); of setup, what it has left behind at each statement, its token among it (`Progress`); of
each memory, which request wrote it (`Remembered`); and that the tables are as long as the
requests that wrote them are many (`Tally`), which bounds what is counted.  `Found`
rests on a pigeonhole: when a memory is not among the newest `Limit` visible ones, those
are `Limit` many (`NewestFull`); with a query the answer holds `Limit` of those that match, or all.  `UsableListed` carries the projects usable at the
authentication through the loop of whoami, during which roles may change and are never taken away.
Theorems: `AccessTyped`, `Isolated`, `Found`, `DigestCovers`, `UsableListed`, `TokenWorks`, `HeldRole`.

**Sessions and ContextCache** (`SessionsProofs`, `CacheProofs`).  `SessionsInv` says of each report whether it is
stored, in the spool, in a hook's hands or given up (`Kept`), that a report beyond
doubt is in one hook's hands at most (`Once`), that a hook has every file
it found ahead of it, at hand, gone, or left because it could not be read, posted or removed (`Tried`), and that it spent no more
than one timeout on each it is done with (`TimeSpent`), which yields
`KilledWhenFull` for any values of the timeouts.  `StoredByEach` bounds the copies
of a report by the hooks that may have posted it, from which the type follows.  `CacheInv` says what a
hook has in hand between the answer and the file (`Bodies`) and what the file holds while at
most one writes and every write ends (`OneWriter`).  Theorems: `SessionsTyped`, `ReportsKept`, `KilledWhenFull`,
`DuplicatesExplained`, `AllTried`; `CacheTyped`, `LoadedCurrent`, `OfflineWhole`.

`HooksEnd` is a measure of termination: a hook has, three for each file ahead of it and up to six for the
one at hand and its own report, fewer steps left after each of them (`StepsLeft`), and the others as
many as before, although hooks add to the directory that others drain.

The run `sessions` checks both hooks under one next-state relation.  They share no variable, so
each of its steps is one of one hook that the other stutters at; `HooksApart` says so, and carries what is
proved of each to both: `HooksTyped` (TypeOK) and `HooksSafe` (the other six properties of the run).

**SemverScan** (`ScanProofs`).  The loop of `semver.Latest`, for lists of any length: `ScanInv` says
that after string *i* - 1 the loop holds the highest of the versions seen, and knows whether
there is one.  `HigherOrder` (versions are totally ordered) and `BetterBest` (a round keeps
the highest) give `LatestScanned`, and `BumpNext` gives `BumpedNext`.

### Only model-checked

`CallsEnd` and `ServerComesUp`: liveness under fairness is beyond the proof
system, which has no ENABLED.  Proved is the safety under them: of the first, that the mutex is
returned, that calls only advance and that pushes are not refused (`MutexReturned`,
`CallsAdvance`, `PushesAccepted`); of the second, that no start or restore leaves a schema that a later
start fails on for good (`SchemaInvariant`).  Every other property of a passing run is a theorem.

The six violated properties are refuted by their runs, and have nothing to prove.  The parts of
`Semver` that say how git orders tags as text are used by `ListedIsLatest` only.

## 5. What is abstracted

Contents of files, messages, trailers, notes and the wording of answers; validation
of slugs, paths and refs (a refused input is `Fail`); events of the flows (best effort, never read
by them); git objects below refs, trees and merge bases; criss-cross
merges, which need a branch that merges main and no operation makes one; two
timestamps of the same instant; more than one project in the flows (they share nothing but
tables keyed by project); last_seen_at of a token; what a query of Recall matches and how its matches are ranked, which `Search`
leaves open; in `Restore`, what is on the branch an early write of a contributor made, which has no ancestor in
common with main, so that git refuses to merge it; in `Proposals`, whose repository is made before the first call, that branch
altogether; a summary of blanks, which the server takes and does not store.

### Not modelled

* GetContext and the compiler: reads of tables and refs the modules above hold, put into a
  text with a hash.  Nothing is changed, no doc promises a snapshot, and a torn
  bundle is replaced at the next session.
* The MCP server, configuration, `login` and `init`: adapters and settings.
* `org` and `project set-instructions`, `device list`, ReadFile, ListTree, DiffStat: one
  statement or git command each, on which no decision rests.
* `seed`: demonstration data.
* `ubiqo fsck` under way when a server is stopped for a restore: it could insert the row of a tag read
  from the git before the restore.  fsck beside a running server is in `Releases`.

## 6. What is left

1. Runs for the questions the list of hazards leaves open, first among them the commands that
   work on a repository beside the server, without its mutex (internal/gitstore/gitstore.go:49), and fsck's two reads of
   refs and rows (cmd/ubiqo/ops.go:189).
2. Theorems that join what is proved of each flow: between two restores, and once its project exists, what
   `Restore` does with tags, rows and refs is a behaviour of `ReleaseLedger` and of `ReviewFlow`.  The
   actions of `Restore` are written with theirs, so what is missing is the composition only.
3. `GetContext`, should its hash come to be relied on as the mark of a snapshot.
