------------------------------ MODULE Projects ------------------------------
(***************************************************************************)
(* How a plane comes up: the processes of cmd/ubiqo that open one database *)
(* and one data directory, migrate the schema each time they start         *)
(* (store.Migrate), and then serve, or create a project: a row first, then *)
(* its repository (gitstore.EnsureRepo).                                   *)
(*                                                                         *)
(* A process may fail or be killed at any step; the container restarts the *)
(* server, an operator repeats a command as another process.  EnsureRepo's *)
(* mutex is in the memory of one process, which makes one repository, so   *)
(* it keeps nobody out and is not modelled.                                *)
(***************************************************************************)
EXTENDS Naturals

CONSTANTS
  Server,      \* the processes `ubiqo serve'
  Creator,     \* the commands `ubiqo project create', each run once
  Tool,        \* the commands `ubiqo backup', each run once (module Restore)
  Project,     \* slugs of projects
  Migrations,  \* how many files internal/store/migrations has
  MaxFaults    \* bound: failures and kills in one behaviour

Process == Server \cup Creator \cup Tool

ASSUME ProcessAssumption ==
  /\ Server \cap Creator = {} /\ Server \cap Tool = {} /\ Creator \cap Tool = {}
ASSUME ProjectAssumption == Project # {}
ASSUME BoundAssumption == Migrations \in Nat /\ MaxFaults \in Nat

VARIABLES
  schema,   \* database: the migrations applied; [made, recorded]
  rows,     \* database: the projects table, with the mode of each
  repo,     \* git: how far each repository has come
  proc,     \* the processes and where each stands
  faults    \* how many have failed so far

plane == <<schema, rows, repo, proc, faults>>

\* "dir": an empty directory; "bare": no commit; "branched": a contributor's
\* branch and no main; "ready": main is there.
Mode == {"solo", "team"}
RepoState == {"none", "dir", "bare", "branched", "ready"}

Opening == {"migrating", "applying"}
Making == {"inserting", "stat", "mkdir", "init", "push"}
PC == {"idle", "failed", "serving", "done", "open"} \cup Opening \cup Making
ProcState == [pc : PC, at : 1..(Migrations + 1), project : Project]

AnyProject == CHOOSE q \in Project : TRUE
IdleProc == [pc |-> "idle", at |-> 1, project |-> AnyProject]

PlaneInit ==
  /\ schema = [made |-> {}, recorded |-> {}]
  /\ rows = [q \in Project |-> "none"]
  /\ repo = [q \in Project |-> "none"]
  /\ proc = [p \in Process |-> IdleProc]
  /\ faults = 0

At(p, pc) == proc[p].pc = pc
Go(p, pc) == proc' = [proc EXCEPT ![p].pc = pc]
Succeed(p) == proc' = [proc EXCEPT ![p] = [IdleProc EXCEPT !.pc = "done"]]
Exit(p) == proc' = [proc EXCEPT ![p] = [IdleProc EXCEPT !.pc = "failed"]]

\* A step that fails with its effect undone, or is told of a failure after it.
Fault == faults < MaxFaults /\ faults' = faults + 1
NoFault == UNCHANGED faults

-----------------------------------------------------------------------------
(* store.Open and store.Migrate.                                           *)

\* store.Open and `create table if not exists schema_migrations'.
Start(p) ==
  /\ At(p, "idle")
  /\ Go(p, "migrating") /\ NoFault
  /\ UNCHANGED <<schema, rows, repo>>

\* What a process does once the schema is up to date.
FirstStep(p) ==
  IF p \in Server THEN "serving" ELSE IF p \in Creator THEN "inserting" ELSE "open"

\* Wrong: the loop goes one past the last file.
CheckPastEnd(p) ==
  LET i == proc[p].at
  IN  /\ At(p, "migrating")
      /\ proc' = [proc EXCEPT ![p] =
           IF i > Migrations + 1 THEN [@ EXCEPT !.pc = FirstStep(p)]
           ELSE IF i \in schema.recorded THEN [@ EXCEPT !.at = i + 1]
           ELSE [@ EXCEPT !.pc = "applying"]]
      /\ NoFault
      /\ UNCHANGED <<schema, rows, repo>>

\* The round of the loop: is the migration recorded?
CheckMigration(p) ==
  LET i == proc[p].at
  IN  /\ At(p, "migrating")
      /\ proc' = [proc EXCEPT ![p] =
           IF i > Migrations THEN [@ EXCEPT !.pc = FirstStep(p)]
           ELSE IF i \in schema.recorded THEN [@ EXCEPT !.at = i + 1]
           ELSE [@ EXCEPT !.pc = "applying"]]
      /\ NoFault
      /\ UNCHANGED <<schema, rows, repo>>

\* Wrong: the migration applied and recorded without a transaction.
ApplyWithoutTx(p) ==
  LET i == proc[p].at
  IN  /\ At(p, "applying")
      /\ \/ /\ i \notin schema.made
            /\ schema' = [made |-> schema.made \cup {i}, recorded |-> schema.recorded \cup {i}]
            /\ proc' = [proc EXCEPT ![p].pc = "migrating", ![p].at = i + 1] /\ NoFault
         \/ /\ i \notin schema.made
            /\ schema' = [schema EXCEPT !.made = @ \cup {i}]
            /\ Exit(p) /\ Fault
         \/ /\ i \in schema.made
            /\ Exit(p) /\ NoFault /\ UNCHANGED schema
      /\ UNCHANGED <<rows, repo>>

\* Wrong: the migration recorded, then applied, each on its own.
ApplyRecordsFirst(p) ==
  LET i == proc[p].at
  IN  /\ At(p, "applying")
      /\ \/ /\ i \notin schema.made
            /\ schema' = [made |-> schema.made \cup {i}, recorded |-> schema.recorded \cup {i}]
            /\ proc' = [proc EXCEPT ![p].pc = "migrating", ![p].at = i + 1] /\ NoFault
         \/ /\ schema' = [schema EXCEPT !.recorded = @ \cup {i}]
            /\ Exit(p) /\ Fault
         \/ /\ i \in schema.made
            /\ Exit(p) /\ NoFault /\ UNCHANGED schema
      /\ UNCHANGED <<rows, repo>>

\* The transaction: the file's statements and the record.  `create table'
\* fails for whoever comes second, and ends that process; the connection may
\* be lost once the transaction is committed.
Apply(p) ==
  LET i == proc[p].at
  IN  /\ At(p, "applying")
      /\ \/ /\ i \notin schema.made
            /\ schema' = [made |-> schema.made \cup {i}, recorded |-> schema.recorded \cup {i}]
            /\ \/ proc' = [proc EXCEPT ![p].pc = "migrating", ![p].at = i + 1] /\ NoFault
               \/ Exit(p) /\ Fault
         \/ /\ i \in schema.made
            /\ Exit(p) /\ NoFault /\ UNCHANGED schema
      /\ UNCHANGED <<rows, repo>>

-----------------------------------------------------------------------------
(* ubiqo project create: main.go cmdAdmin, store.CreateProject and          *)
(* gitstore.EnsureRepo.                                                     *)

\* Wrong: a row that is there is taken for one's own (on conflict do nothing).
InsertOrTake(p, q, mode) ==
  /\ At(p, "inserting")
  /\ rows' = [rows EXCEPT ![q] = IF @ = "none" THEN mode ELSE @]
  /\ proc' = [proc EXCEPT ![p].pc = "stat", ![p].project = q]
  /\ NoFault
  /\ UNCHANGED <<schema, repo>>

\* The row: unique (org_id, slug) refuses a second one, and there is none
\* without the table.
HasTables == schema.made = 1..Migrations
Insert(p, q, mode) ==
  /\ At(p, "inserting")
  /\ \/ /\ HasTables /\ rows[q] = "none"
        /\ rows' = [rows EXCEPT ![q] = mode]
        /\ \/ proc' = [proc EXCEPT ![p].pc = "stat", ![p].project = q] /\ NoFault
           \/ Exit(p) /\ Fault
     \/ (~HasTables \/ rows[q] # "none") /\ Exit(p) /\ NoFault /\ UNCHANGED rows
  /\ UNCHANGED <<schema, repo>>

\* EnsureRepo: a directory that exists is a finished repository.
Stat(p) ==
  /\ At(p, "stat")
  /\ IF repo[proc[p].project] = "none" THEN Go(p, "mkdir") ELSE Succeed(p)
  /\ NoFault
  /\ UNCHANGED <<schema, rows, repo>>

Mkdir(p) ==
  /\ At(p, "mkdir")
  /\ repo' = [repo EXCEPT ![proc[p].project] = IF @ = "none" THEN "dir" ELSE @]
  /\ Go(p, "init") /\ NoFault
  /\ UNCHANGED <<schema, rows>>

\* `git init --bare' makes what is missing and leaves alone what is there.
GitInit(p) ==
  /\ At(p, "init")
  /\ repo' = [repo EXCEPT ![proc[p].project] = IF @ \in {"none", "dir"} THEN "bare" ELSE @]
  /\ Go(p, "push") /\ NoFault
  /\ UNCHANGED <<schema, rows>>

\* Clone, empty commit and push of main.  A write may have brought main into
\* being: before the clone, the commit goes on top of it; after it, the push is
\* refused.
PushInitial(p) ==
  LET q == proc[p].project
  IN  /\ At(p, "push")
      /\ \/ /\ repo[q] \in {"bare", "branched"}
            /\ repo' = [repo EXCEPT ![q] = "ready"]
            /\ \/ Succeed(p) /\ NoFault
               \/ Exit(p) /\ Fault
         \/ repo[q] = "ready" /\ Succeed(p) /\ NoFault /\ UNCHANGED repo
         \/ repo[q] \notin {"bare", "branched"} /\ Exit(p) /\ NoFault /\ UNCHANGED repo
      /\ UNCHANGED <<schema, rows>>

-----------------------------------------------------------------------------
(* The environment.                                                        *)

\* A write to a project that is still being made: the clone of an empty
\* repository works, and the push brings the branch into being, main in solo
\* mode and the contributor's own in team mode, without a common ancestor with
\* the main that is to come.
FirstWrite(q) ==
  /\ \E s \in Server : At(s, "serving")
  /\ \/ rows[q] = "solo" /\ repo[q] \in {"bare", "branched"} /\ repo' = [repo EXCEPT ![q] = "ready"]
     \/ rows[q] = "team" /\ repo[q] = "bare" /\ repo' = [repo EXCEPT ![q] = "branched"]
  /\ UNCHANGED <<schema, rows, proc, faults>>

\* A step fails without effect, or the process is killed.
Die(p) ==
  /\ proc[p].pc \in Opening \cup Making \cup {"serving"}
  /\ Exit(p) /\ Fault
  /\ UNCHANGED <<schema, rows, repo>>

\* The container's restart policy.
Restart(s) ==
  /\ At(s, "failed")
  /\ proc' = [proc EXCEPT ![s] = IdleProc] /\ NoFault
  /\ UNCHANGED <<schema, rows, repo>>

MigrateStep(p) == Start(p) \/ CheckMigration(p) \/ Apply(p)
EnsureStep(p) == Stat(p) \/ Mkdir(p) \/ GitInit(p) \/ PushInitial(p)

ServerMoves(s) == MigrateStep(s) \/ Die(s) \/ Restart(s)
CreatorMoves(c) ==
  \/ MigrateStep(c) \/ Die(c) \/ EnsureStep(c)
  \/ \E q \in Project, mode \in Mode : Insert(c, q, mode)

\* The steps of the servers and creators; those of the tools are in Restore.
PlaneNext ==
  \/ \E s \in Server : ServerMoves(s)
  \/ \E c \in Creator : CreatorMoves(c)
  \/ \E q \in Project : FirstWrite(q)

PlaneTypeOK ==
  /\ schema \in [made : SUBSET (1..Migrations), recorded : SUBSET (1..Migrations)]
  /\ rows \in [Project -> Mode \cup {"none"}]
  /\ repo \in [Project -> RepoState]
  /\ proc \in [Process -> ProcState]
  /\ faults \in 0..MaxFaults
=============================================================================
