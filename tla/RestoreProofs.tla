----------------------------- MODULE RestoreProofs -----------------------------
(***************************************************************************)
(* Proofs about Restore, for any processes, projects, releases, proposals,  *)
(* migrations, faults and restores.                                         *)
(***************************************************************************)
EXTENDS Restore, TLAPS

BackupState ==
  [phase : {"none", "dumped", "bundling", "whole"}, db : DumpType \cup {<<>>},
   todo : SUBSET Project, git : BundlesType]

RestoreState ==
  [phase : {"none", "stopped", "git"}, from : Tool, count : 0..MaxRestores,
   strays : SUBSET (Creator \cup Tool), sound : BOOLEAN]

\* A migration that is applied is one there is.
ApplyBound == \A p \in Process : At(p, "applying") => proc[p].at \in 1..Migrations

Types ==
  /\ TypeOK /\ ApplyBound
  /\ backup \in [Tool -> BackupState]

Ready == {q \in Project : repo[q] = "ready"}
ReadyIn(g) == {q \in Project : g.repos[q] = "ready"}

\* The rows of database d are behind a git with the tags T, the merged
\* branches M and the repositories R, but for the projects U.
Behind(d, T, M, R, U) ==
  /\ d.listed \subseteq T
  /\ \A c \in Caller : d.told[c] # Nothing => d.told[c] \in d.listed
  /\ \A p \in Proposal : d.proposed[p].status = "merged" => d.proposed[p].branch \in M
  /\ \A q \in d.made \ U : d.rows[q] # "none" /\ q \in R

\* The database is behind git, save while git alone has been restored.
NowBehind == restore.phase # "git" => Behind(NewDump, tagged, merged, Ready, upset)

\* Only a repository with a main has tags or merges.
RootedIn(T, M, R) == (\A e \in T : e[1] \in R) /\ (M # {} => Followed \in R)
Rooted == RootedIn(tagged, merged, Ready)

\* The bundles of backup k hold what its dump has of the projects saved so far.
Covered(k, U) ==
  /\ \A e \in k.db.listed : e[1] \notin k.todo => e \in k.git.tagged
  /\ Followed \notin k.todo => \A p \in Proposal :
       k.db.proposed[p].status = "merged" => k.db.proposed[p].branch \in k.git.merged
  /\ \A q \in k.db.made \ U : q \notin k.todo => q \in ReadyIn(k.git)

\* Backup k beside the git it is taken of: its dump stays behind that git,
\* which only gains, and ends up behind the bundles.
Sound(k, T, M, R, U) ==
  /\ k.phase \in {"dumped", "bundling"} => Behind(k.db, T, M, R, U)
  /\ k.phase = "bundling" => Covered(k, U)
  /\ k.phase = "whole" => Behind(k.db, k.git.tagged, k.git.merged, ReadyIn(k.git), U)
  /\ RootedIn(k.git.tagged, k.git.merged, ReadyIn(k.git))
BackupsSound == \A b \in Tool \ restore.strays : Sound(backup[b], tagged, merged, Ready, upset)

\* While the operator restores, only strays run.
Quiet ==
  restore.phase # "none" =>
    /\ \A p \in Process \ restore.strays : proc[p].pc \in {"idle", "done", "failed"}
    /\ \A b \in Tool \ restore.strays : backup[b].phase \in {"none", "whole"}
    /\ backup[restore.from].phase = "whole"

\* Git comes from the bundles, and a stray may add a main.
FromBundles(g) == tagged = g.tagged /\ merged = g.merged /\ ReadyIn(g) \subseteq Ready
GitBack ==
  restore.phase # "none" =>
    /\ restore.from \notin restore.strays
    /\ restore.phase = "git" => FromBundles(backup[restore.from].git)

\* The creator that inserted a project's row is alone in making its repository,
\* unless a restore came between.
IsMaking(c, q) == proc[c].pc \in {"stat", "mkdir", "init", "push"} /\ proc[c].project = q
Makers ==
  /\ \A q \in Project \ upset : rows[q] = "none" => repo[q] \in {"none", "ready"}
  /\ \A c \in Creator, q \in Project \ upset : IsMaking(c, q) =>
       /\ rows[q] # "none"
       /\ \A d \in Creator : IsMaking(d, q) => c = d
       /\ At(c, "stat") => repo[q] \in {"none", "ready"}
OneMaker == restore.phase # "git" => Makers

\* What holds as long as no backup is restored that a restore ran into.
Good == NowBehind /\ Rooted /\ BackupsSound /\ GitBack /\ OneMaker
RestoreInv == Types /\ Quiet /\ (restore.sound => Good)

-----------------------------------------------------------------------------
(* Types.                                                                   *)

\* Process p alone moves, to pc.
Moves(p, pc) ==
  /\ proc' \in [Process -> ProcState]
  /\ \A o \in Process \ {p} : proc'[o] = proc[o]
  /\ proc'[p].pc = pc

LEMMA IdleProcType == IdleProc \in ProcState /\ IdleProc.pc = "idle"
                      /\ \A pc \in PC : [IdleProc EXCEPT !.pc = pc] \in ProcState
<1>1. AnyProject \in Project
  BY ProjectAssumption DEF AnyProject
<1>2. 1 \in 1..(Migrations + 1)
  BY BoundAssumption
<1> QED BY <1>1, <1>2 DEF IdleProc, ProcState, PC, Opening, Making

LEMMA GoMoves ==
  ASSUME PlaneTypeOK, NEW p \in Process, NEW pc \in PC, Go(p, pc)
  PROVE  Moves(p, pc) /\ proc'[p].project = proc[p].project
<1>1. proc' = [proc EXCEPT ![p].pc = pc] /\ proc \in [Process -> ProcState]
  BY DEF Go, PlaneTypeOK
<1>2. proc' \in [Process -> ProcState]
  BY <1>1 DEF ProcState
<1>3. proc'[p].pc = pc /\ proc'[p].project = proc[p].project
  BY <1>1 DEF ProcState
<1> QED BY <1>1, <1>2, <1>3 DEF Moves

LEMMA EndMoves ==
  ASSUME PlaneTypeOK, NEW p \in Process
  PROVE  /\ Succeed(p) => Moves(p, "done")
         /\ Exit(p) => Moves(p, "failed")
<1>0. proc \in [Process -> ProcState]
  BY DEF PlaneTypeOK
<1>1. ASSUME NEW pc \in PC, NEW x, x = [IdleProc EXCEPT !.pc = pc], proc' = [proc EXCEPT ![p] = x]
      PROVE  Moves(p, pc)
  <2>1. x \in ProcState
    BY <1>1, IdleProcType
  <2>2. x.pc = pc
    BY <1>1 DEF IdleProc
  <2> QED BY <1>0, <1>1, <2>1, <2>2 DEF Moves
<1> QED BY <1>1 DEF Succeed, Exit, PC

LEMMA MigrateMoves ==
  ASSUME PlaneTypeOK, ApplyBound, NEW p \in Process, MigrateStep(p)
  PROVE  /\ PlaneTypeOK' /\ ApplyBound' /\ UNCHANGED <<rows, repo>>
         /\ proc[p].pc \in {"idle", "migrating", "applying"}
         /\ \E pc \in {"migrating", "applying", "failed", FirstStep(p)} : Moves(p, pc)
<1>0. /\ proc \in [Process -> ProcState] /\ proc[p] \in ProcState
      /\ schema \in [made : SUBSET (1..Migrations), recorded : SUBSET (1..Migrations)]
      /\ FirstStep(p) \in PC /\ {"migrating", "applying", "failed"} \subseteq PC
  BY DEF PlaneTypeOK, FirstStep, PC, Opening, Making
<1>9. ASSUME NEW pc \in PC \ {"applying"}, Moves(p, pc) PROVE ApplyBound'
  BY <1>9 DEF Moves, ApplyBound, At
<1>1. CASE Start(p)
  <2>1. Moves(p, "migrating")
    BY <1>0, <1>1, GoMoves DEF Start
  <2>2. proc[p].pc = "idle" /\ UNCHANGED <<schema, rows, repo, faults>>
    BY <1>1 DEF Start, At, NoFault
  <2>3. ApplyBound'
    BY <1>0, <1>9, <2>1
  <2>4. PlaneTypeOK'
    BY <2>1, <2>2 DEF PlaneTypeOK, Moves
  <2> QED BY <2>1, <2>2, <2>3, <2>4
<1> DEFINE i == proc[p].at
<1>2. i \in 1..(Migrations + 1)
  BY <1>0 DEF ProcState
<1>3. CASE CheckMigration(p)
  <2> DEFINE next == IF i > Migrations THEN [proc[p] EXCEPT !.pc = FirstStep(p)]
                     ELSE IF i \in schema.recorded THEN [proc[p] EXCEPT !.at = i + 1]
                     ELSE [proc[p] EXCEPT !.pc = "applying"]
  <2>1. proc' = [proc EXCEPT ![p] = next] /\ proc[p].pc = "migrating"
        /\ UNCHANGED <<schema, rows, repo, faults>>
    BY <1>3 DEF CheckMigration, At, NoFault
  <2>2. next \in ProcState /\ next.pc \in {"migrating", "applying", FirstStep(p)}
    <3>1. CASE i > Migrations
      BY <1>0, <3>1 DEF ProcState
    <3>2. CASE ~(i > Migrations) /\ i \in schema.recorded
      <4>1. i + 1 \in 1..(Migrations + 1)
        BY <1>2, <3>2, BoundAssumption
      <4> QED BY <1>0, <2>1, <3>2, <4>1 DEF ProcState
    <3>3. CASE ~(i > Migrations) /\ i \notin schema.recorded
      BY <1>0, <3>3 DEF ProcState
    <3> QED BY <3>1, <3>2, <3>3
  <2>3. next.pc = "applying" => next.at \in 1..Migrations
    <3>1. CASE i > Migrations
      BY <1>0, <3>1 DEF ProcState, FirstStep
    <3>2. CASE ~(i > Migrations) /\ i \in schema.recorded
      BY <1>0, <2>1, <3>2 DEF ProcState
    <3>3. CASE ~(i > Migrations) /\ i \notin schema.recorded
      BY <1>0, <1>2, <3>3, BoundAssumption DEF ProcState
    <3> QED BY <3>1, <3>2, <3>3
  <2> HIDE DEF next
  <2>4. Moves(p, next.pc) /\ proc'[p] = next
    BY <1>0, <2>1, <2>2 DEF Moves
  <2>5. ApplyBound'
    BY <2>3, <2>4 DEF Moves, ApplyBound, At
  <2> QED BY <1>0, <2>1, <2>2, <2>4, <2>5 DEF PlaneTypeOK, Moves
<1>4. CASE Apply(p)
  <2>0. proc[p].pc = "applying" /\ UNCHANGED <<rows, repo>> /\ i \in 1..Migrations
    BY <1>4 DEF Apply, At, ApplyBound
  <2>1. ASSUME proc' = [proc EXCEPT ![p].pc = "migrating", ![p].at = i + 1]
        PROVE  Moves(p, "migrating")
    <3>1. i + 1 \in 1..(Migrations + 1)
      BY <2>0, BoundAssumption
    <3> DEFINE next == [proc[p] EXCEPT !.pc = "migrating", !.at = i + 1]
    <3>2. next \in ProcState /\ next.pc = "migrating"
      BY <1>0, <3>1 DEF ProcState
    <3>3. proc' = [proc EXCEPT ![p] = next]
      BY <2>1
    <3> HIDE DEF next
    <3> QED BY <1>0, <3>2, <3>3 DEF Moves
  <2>3. Moves(p, "migrating") \/ Moves(p, "failed")
    BY <1>4, <2>1, EndMoves DEF Apply
  <2>4. ApplyBound'
    BY <1>0, <1>9, <2>3
  <2>5. schema' \in [made : SUBSET (1..Migrations), recorded : SUBSET (1..Migrations)]
    BY <1>0, <1>4, <2>0 DEF Apply
  <2>6. faults' \in 0..MaxFaults
    BY <1>4, BoundAssumption DEF Apply, Fault, NoFault, PlaneTypeOK
  <2> QED BY <2>0, <2>3, <2>4, <2>5, <2>6 DEF PlaneTypeOK, Moves
<1> QED BY <1>1, <1>3, <1>4 DEF MigrateStep

-----------------------------------------------------------------------------
(* What the processes of a plane do to rows and repositories.               *)

\* Git and the rows only grow, and types are kept.
Grows ==
  /\ PlaneTypeOK' /\ ApplyBound'
  /\ Ready \subseteq Ready'
  /\ \A q \in Project : rows[q] # "none" => rows'[q] = rows[q]

\* A creator that has just succeeded made a project that can be used.
SucceedsUsable ==
  \A c \in Creator : ~At(c, "done") /\ proc'[c].pc = "done" /\ proc[c].project \notin upset =>
    rows[proc[c].project] # "none" /\ proc[c].project \in Ready'
KeepsMakers == Makers => SucceedsUsable /\ Makers'

\* A step that leaves rows and repositories alone, and whose process ends up
\* outside the making of a repository.
LEMMA QuietStep ==
  ASSUME PlaneTypeOK, UNCHANGED upset, NEW p \in Process,
         NEW pc \in PC \ {"stat", "mkdir", "init", "push", "done"}, Moves(p, pc),
         UNCHANGED <<rows, repo>>, PlaneTypeOK', ApplyBound'
  PROVE  Grows /\ KeepsMakers
<1>1. Grows
  BY DEF Grows, Ready
<1>2. Creator \subseteq Process
  BY DEF Process
<1>3. SucceedsUsable
  BY <1>2 DEF SucceedsUsable, Moves, At
<1>4. \A c \in Creator, q \in Project : IsMaking(c, q)' => IsMaking(c, q) /\ proc'[c] = proc[c]
  BY <1>2 DEF IsMaking, Moves
<1>5. Makers => Makers'
  BY <1>4 DEF Makers, At
<1> QED BY <1>1, <1>3, <1>5 DEF KeepsMakers

LEMMA DieQuiet ==
  ASSUME PlaneTypeOK, ApplyBound, UNCHANGED upset, NEW p \in Process, Die(p)
  PROVE  Grows /\ KeepsMakers
<1>1. Moves(p, "failed") /\ UNCHANGED <<schema, rows, repo>>
  BY EndMoves DEF Die
<1>2. faults' \in 0..MaxFaults
  BY BoundAssumption DEF Die, Fault, PlaneTypeOK
<1>3. PlaneTypeOK' /\ ApplyBound'
  BY <1>1, <1>2 DEF PlaneTypeOK, ApplyBound, Moves, At
<1> QED BY <1>1, <1>3, QuietStep DEF PC

LEMMA RestartQuiet ==
  ASSUME PlaneTypeOK, ApplyBound, UNCHANGED upset, NEW p \in Process, Restart(p)
  PROVE  Grows /\ KeepsMakers
<1>1. Moves(p, "idle") /\ UNCHANGED <<schema, rows, repo, faults>>
  <2>1. proc' = [proc EXCEPT ![p] = IdleProc] /\ proc \in [Process -> ProcState]
    BY DEF Restart, PlaneTypeOK
  <2> QED BY <2>1, IdleProcType DEF Moves, Restart, NoFault
<1>2. PlaneTypeOK' /\ ApplyBound'
  BY <1>1 DEF PlaneTypeOK, ApplyBound, Moves, At
<1> QED BY <1>1, <1>2, QuietStep DEF PC

LEMMA MigrateQuiet ==
  ASSUME PlaneTypeOK, ApplyBound, UNCHANGED upset, NEW p \in Process, MigrateStep(p)
  PROVE  Grows /\ KeepsMakers
<1>1. PICK pc \in {"migrating", "applying", "failed", FirstStep(p)} : Moves(p, pc)
  BY MigrateMoves
<1>2. pc \in PC \ {"stat", "mkdir", "init", "push", "done"}
  BY DEF PC, Opening, Making, FirstStep
<1>3. PlaneTypeOK' /\ ApplyBound' /\ UNCHANGED <<rows, repo>>
  BY MigrateMoves
<1> QED BY <1>1, <1>2, <1>3, QuietStep

\* A creator that was not making a project takes up q, and nobody else is.
LEMMA InsertMakes ==
  ASSUME PlaneTypeOK, ApplyBound, UNCHANGED upset, NEW c \in Creator, NEW q \in Project,
         NEW mode \in Mode, Insert(c, q, mode)
  PROVE  Grows /\ KeepsMakers
<1>0. /\ c \in Process /\ Creator \subseteq Process /\ proc \in [Process -> ProcState]
      /\ proc[c].pc = "inserting" /\ proc[c] \in ProcState
      /\ rows \in [Project -> Mode \cup {"none"}] /\ repo \in [Project -> RepoState]
      /\ UNCHANGED <<schema, repo>>
  BY DEF Process, PlaneTypeOK, Insert, At
<1>1. mode # "none"
  BY DEF Mode
<1>2. faults' \in 0..MaxFaults
  BY BoundAssumption DEF Insert, Fault, NoFault, PlaneTypeOK
<1>3. CASE Exit(c) /\ UNCHANGED rows
  <2>1. Moves(c, "failed")
    BY <1>0, <1>3, EndMoves
  <2>2. PlaneTypeOK' /\ ApplyBound'
    BY <1>0, <1>2, <1>3, <2>1 DEF PlaneTypeOK, ApplyBound, Moves, At
  <2> QED BY <1>0, <1>3, <2>1, <2>2, QuietStep DEF PC
<1>4. CASE rows[q] = "none" /\ rows' = [rows EXCEPT ![q] = mode]
           /\ (Exit(c) \/ proc' = [proc EXCEPT ![c].pc = "stat", ![c].project = q])
  <2>1. rows' \in [Project -> Mode \cup {"none"}]
        /\ rows'[q] # "none" /\ \A r \in Project : r # q => rows'[r] = rows[r]
    BY <1>0, <1>1, <1>4
  <2>2. \E pc \in {"failed", "stat"} : Moves(c, pc) /\ (pc = "stat" => proc'[c].project = q)
    <3>1. CASE Exit(c)
      BY <1>0, <3>1, EndMoves
    <3>2. CASE proc' = [proc EXCEPT ![c].pc = "stat", ![c].project = q]
      <4> DEFINE next == [proc[c] EXCEPT !.pc = "stat", !.project = q]
      <4>1. next \in ProcState /\ next.pc = "stat" /\ next.project = q
        BY <1>0 DEF ProcState, PC, Opening, Making
      <4>2. proc' = [proc EXCEPT ![c] = next]
        BY <3>2
      <4> HIDE DEF next
      <4> QED BY <1>0, <4>1, <4>2 DEF Moves
    <3> QED BY <1>4, <3>1, <3>2
  <2>3. PlaneTypeOK' /\ ApplyBound'
    BY <1>0, <1>2, <2>1, <2>2 DEF PlaneTypeOK, ApplyBound, Moves, At
  <2>4. Grows
    BY <1>0, <1>4, <2>1, <2>3 DEF Grows, Ready
  <2>5. SucceedsUsable
    BY <1>0, <2>2 DEF SucceedsUsable, Moves, At
  <2> SUFFICES ASSUME Makers PROVE Makers'
    BY <2>4, <2>5 DEF KeepsMakers
  <2>6. q \notin upset => \A d \in Creator : ~IsMaking(d, q)
    BY <1>4 DEF Makers
  <2>7. \A d \in Creator, r \in Project : IsMaking(d, r)' =>
          \/ d # c /\ IsMaking(d, r) /\ proc'[d] = proc[d] /\ (r # q \/ q \in upset)
          \/ d = c /\ r = q /\ proc'[d].pc = "stat"
    BY <1>0, <2>2, <2>6 DEF IsMaking, Moves
  <2>8. q \notin upset => repo[q] \in {"none", "ready"}
    BY <1>4 DEF Makers
  <2> QED BY <1>0, <2>1, <2>7, <2>8 DEF Makers, At
<1> QED BY <1>3, <1>4 DEF Insert

\* A creator that makes project q moves on with it, and q alone changes.
Makes(c, q, pc, state) ==
  /\ Moves(c, pc)
  /\ pc \in {"mkdir", "init", "push"} => proc'[c].project = q
  /\ repo' \in [Project -> RepoState] /\ repo'[q] = state
  /\ \A r \in Project : r # q => repo'[r] = repo[r]
  /\ UNCHANGED <<schema, rows>> /\ faults' \in 0..MaxFaults

LEMMA MakesGrows ==
  ASSUME PlaneTypeOK, ApplyBound, UNCHANGED upset, NEW c \in Creator, NEW q \in Project, IsMaking(c, q),
         NEW pc \in {"mkdir", "init", "push", "done", "failed"}, NEW state \in RepoState,
         Makes(c, q, pc, state),
         repo[q] = "ready" => state = "ready",
         Makers /\ pc = "done" /\ q \notin upset => state = "ready"
  PROVE  Grows /\ KeepsMakers
<1>0. c \in Process /\ Creator \subseteq Process
  BY DEF Process
<1>1. PlaneTypeOK' /\ ApplyBound'
  BY <1>0 DEF PlaneTypeOK, ApplyBound, Makes, Moves, At
<1>2. Grows
  BY <1>1 DEF Grows, Ready, Makes
<1> SUFFICES ASSUME Makers PROVE SucceedsUsable /\ Makers'
  BY <1>2 DEF KeepsMakers
<1>3. q \notin upset => rows[q] # "none" /\ \A d \in Creator : IsMaking(d, q) => c = d
  BY DEF Makers
<1>4. SucceedsUsable
  <2> SUFFICES ASSUME NEW d \in Creator, ~At(d, "done"), proc'[d].pc = "done",
                      proc[d].project \notin upset
               PROVE  rows[proc[d].project] # "none" /\ proc[d].project \in Ready'
    BY DEF SucceedsUsable
  <2>1. d = c /\ pc = "done"
    BY <1>0 DEF Makes, Moves, At
  <2> QED BY <1>3, <2>1 DEF IsMaking, Makes, Ready
<1>5. \A d \in Creator, r \in Project : IsMaking(d, r)' =>
        \/ d # c /\ IsMaking(d, r) /\ proc'[d] = proc[d] /\ (r # q \/ q \in upset)
        \/ d = c /\ r = q /\ proc'[d].pc # "stat"
  BY <1>0, <1>3 DEF IsMaking, Makes, Moves
<1>6. Makers'
  <2>1. \A r \in Project \ upset : rows'[r] = "none" => repo'[r] \in {"none", "ready"}
    BY <1>3 DEF Makers, Makes
  <2>2. ASSUME NEW d \in Creator, NEW r \in Project \ upset, IsMaking(d, r)'
        PROVE  /\ rows'[r] # "none"
               /\ \A e \in Creator : IsMaking(e, r)' => d = e
               /\ At(d, "stat")' => repo'[r] \in {"none", "ready"}
    <3>1. CASE d # c /\ IsMaking(d, r) /\ proc'[d] = proc[d] /\ r # q
      BY <1>5, <3>1 DEF Makers, Makes, At
    <3>2. CASE d = c /\ r = q /\ proc'[d].pc # "stat"
      BY <1>3, <1>5, <3>2 DEF Makes, At
    <3> QED BY <1>5, <2>2, <3>1, <3>2
  <2> QED BY <2>1, <2>2 DEF Makers
<1> QED BY <1>4, <1>6

LEMMA EnsureGrows ==
  ASSUME PlaneTypeOK, ApplyBound, UNCHANGED upset, NEW c \in Creator, EnsureStep(c)
  PROVE  Grows /\ KeepsMakers
<1> DEFINE q == proc[c].project
<1>0. /\ c \in Process /\ proc[c] \in ProcState /\ q \in Project
      /\ repo \in [Project -> RepoState] /\ repo[q] \in RepoState
      /\ faults \in 0..MaxFaults /\ {"mkdir", "init", "push"} \subseteq PC
      /\ {"none", "dir", "bare", "branched", "ready"} = RepoState
  BY DEF Process, PlaneTypeOK, ProcState, PC, Making, RepoState
<1>1. IsMaking(c, q)
  BY DEF EnsureStep, Stat, Mkdir, GitInit, PushInitial, IsMaking, At
<1>2. CASE Stat(c)
  <2>1. UNCHANGED <<schema, rows, repo, faults>>
    BY <1>2 DEF Stat, NoFault
  <2>2. CASE repo[q] = "none"
    <3>1. Makes(c, q, "mkdir", "none")
      BY <1>0, <1>2, <2>1, <2>2, GoMoves DEF Stat, Makes
    <3> QED BY <1>0, <1>1, <2>2, <3>1, MakesGrows
  <2>3. CASE repo[q] # "none"
    <3>1. Makers /\ q \notin upset => repo[q] = "ready"
      <4>1. At(c, "stat")
        BY <1>2 DEF Stat
      <4>2. Makers /\ q \notin upset => repo[q] \in {"none", "ready"}
        BY <1>0, <1>1, <4>1 DEF Makers
      <4> QED BY <2>3, <4>2
    <3>2. Succeed(c)
      BY <1>2, <2>3 DEF Stat
    <3>3. Makes(c, q, "done", repo[q])
      BY <1>0, <2>1, <3>2, EndMoves DEF Makes
    <3> QED BY <1>0, <1>1, <3>1, <3>3, MakesGrows
  <2> QED BY <2>2, <2>3
<1>3. CASE Mkdir(c)
  <2> DEFINE state == IF repo[q] = "none" THEN "dir" ELSE repo[q]
  <2>1. repo' = [repo EXCEPT ![q] = state] /\ Go(c, "init") /\ UNCHANGED <<schema, rows, faults>>
    BY <1>3 DEF Mkdir, NoFault
  <2>2. state \in RepoState /\ (repo[q] = "ready" => state = "ready")
    BY <1>0
  <2> HIDE DEF state
  <2>3. Makes(c, q, "init", state)
    BY <1>0, <2>1, <2>2, GoMoves DEF Makes
  <2> QED BY <1>0, <1>1, <2>2, <2>3, MakesGrows
<1>4. CASE GitInit(c)
  <2> DEFINE state == IF repo[q] \in {"none", "dir"} THEN "bare" ELSE repo[q]
  <2>1. repo' = [repo EXCEPT ![q] = state] /\ Go(c, "push") /\ UNCHANGED <<schema, rows, faults>>
    BY <1>4 DEF GitInit, NoFault
  <2>2. state \in RepoState /\ (repo[q] = "ready" => state = "ready")
    BY <1>0
  <2> HIDE DEF state
  <2>3. Makes(c, q, "push", state)
    BY <1>0, <2>1, <2>2, GoMoves DEF Makes
  <2> QED BY <1>0, <1>1, <2>2, <2>3, MakesGrows
<1>5. CASE PushInitial(c)
  <2>1. UNCHANGED <<schema, rows>> /\ faults' \in 0..MaxFaults
    BY <1>0, <1>5, BoundAssumption DEF PushInitial, Fault, NoFault
  <2>2. CASE repo' = [repo EXCEPT ![q] = "ready"] /\ (Succeed(c) \/ Exit(c))
    <3>1. Makes(c, q, "done", "ready") \/ Makes(c, q, "failed", "ready")
      BY <1>0, <2>1, <2>2, EndMoves DEF Makes
    <3> QED BY <1>0, <1>1, <3>1, MakesGrows
  <2>3. CASE UNCHANGED repo /\ (Exit(c) \/ (Succeed(c) /\ repo[q] = "ready"))
    <3>1. \/ Makes(c, q, "failed", repo[q])
          \/ Makes(c, q, "done", repo[q]) /\ repo[q] = "ready"
      BY <1>0, <2>1, <2>3, EndMoves DEF Makes
    <3> QED BY <1>0, <1>1, <3>1, MakesGrows
  <2> QED BY <1>5, <2>2, <2>3 DEF PushInitial
<1> QED BY <1>2, <1>3, <1>4, <1>5 DEF EnsureStep

LEMMA FirstWriteGrows ==
  ASSUME PlaneTypeOK, ApplyBound, UNCHANGED upset, NEW q \in Project, FirstWrite(q)
  PROVE  Grows /\ KeepsMakers
<1>1. /\ rows[q] # "none" /\ repo[q] \in {"bare", "branched"}
      /\ repo \in [Project -> RepoState] /\ UNCHANGED <<schema, rows, proc, faults>>
  BY DEF FirstWrite, PlaneTypeOK
<1>2. PICK state \in {"branched", "ready"} : repo' = [repo EXCEPT ![q] = state]
  BY DEF FirstWrite
<1>3. Grows
  <2>1. repo' \in [Project -> RepoState]
    BY <1>1, <1>2 DEF RepoState
  <2>2. PlaneTypeOK' /\ ApplyBound'
    BY <1>1, <2>1 DEF PlaneTypeOK, ApplyBound, At
  <2> QED BY <1>1, <1>2, <2>2 DEF Grows, Ready
<1>4. SucceedsUsable
  BY <1>1 DEF SucceedsUsable, At
<1>5. Makers => Makers'
  BY <1>1, <1>2 DEF Makers, IsMaking, At
<1> QED BY <1>3, <1>4, <1>5 DEF KeepsMakers

\* A creator that moves had not ended, and moves alone.
LEMMA CreatorAlone ==
  ASSUME PlaneTypeOK, NEW c \in Creator, CreatorMoves(c)
  PROVE  /\ proc[c].pc \notin {"done", "failed"}
         /\ \A o \in Process \ {c} : proc'[o] = proc[o]
<1>1. proc \in [Process -> ProcState]
  BY DEF PlaneTypeOK
<1>2. CASE MigrateStep(c)
  BY <1>1, <1>2 DEF MigrateStep, Start, CheckMigration, Apply, Exit, Go, At
<1>3. CASE Die(c)
  BY <1>1, <1>3 DEF Die, Exit, Opening, Making
<1>4. CASE EnsureStep(c)
  BY <1>1, <1>4 DEF EnsureStep, Stat, Mkdir, GitInit, PushInitial, Succeed, Exit, Go, At
<1>5. CASE \E q \in Project, mode \in Mode : Insert(c, q, mode)
  BY <1>1, <1>5 DEF Insert, Exit, At
<1> QED BY <1>2, <1>3, <1>4, <1>5 DEF CreatorMoves

LEMMA CreatorGrows ==
  ASSUME PlaneTypeOK, ApplyBound, UNCHANGED upset, NEW c \in Creator, CreatorMoves(c)
  PROVE  Grows /\ KeepsMakers
<1>0. c \in Process
  BY DEF Process
<1> QED BY <1>0, MigrateQuiet, DieQuiet, EnsureGrows, InsertMakes DEF CreatorMoves

LEMMA PlaneGrows ==
  ASSUME PlaneTypeOK, ApplyBound, UNCHANGED upset, PlaneNext
  PROVE  Grows /\ KeepsMakers
<1>0. Server \subseteq Process
  BY DEF Process
<1>1. CASE \E s \in Server : ServerMoves(s)
  BY <1>0, <1>1, MigrateQuiet, DieQuiet, RestartQuiet DEF ServerMoves
<1>2. CASE \E c \in Creator : CreatorMoves(c)
  BY <1>2, CreatorGrows
<1>3. CASE \E q \in Project : FirstWrite(q)
  BY <1>3, FirstWriteGrows
<1> QED BY <1>1, <1>2, <1>3 DEF PlaneNext

-----------------------------------------------------------------------------
(* What goes on while the server runs.                                      *)

LEMMA BehindGrows ==
  ASSUME NEW d, NEW T, NEW M, NEW R, NEW U, NEW T1, NEW M1, NEW R1, NEW U1,
         Behind(d, T, M, R, U), T \subseteq T1, M \subseteq M1, R \subseteq R1, U \subseteq U1
  PROVE  Behind(d, T1, M1, R1, U1)
BY DEF Behind

\* A backup that is left alone stays sound while git grows.
LEMMA SoundGrows ==
  ASSUME NEW k, Sound(k, tagged, merged, Ready, upset), upset \subseteq upset',
         tagged \subseteq tagged', merged \subseteq merged', Ready \subseteq Ready'
  PROVE  Sound(k, tagged', merged', Ready', upset')
<1>1. Behind(k.db, tagged, merged, Ready, upset) => Behind(k.db, tagged', merged', Ready', upset')
  BY BehindGrows
<1>2. k.phase = "whole" => Behind(k.db, k.git.tagged, k.git.merged, ReadyIn(k.git), upset')
  BY BehindGrows DEF Sound
<1>3. k.phase = "bundling" => Covered(k, upset')
  BY DEF Sound, Covered
<1> QED BY <1>1, <1>2, <1>3 DEF Sound

\* The database as a dump would have it.
LEMMA DumpFields ==
  /\ NewDump.schema = schema /\ NewDump.rows = rows /\ NewDump.listed = listed
  /\ NewDump.proposed = proposed /\ NewDump.told = told /\ NewDump.made = made
  /\ NewDump'.schema = schema' /\ NewDump'.rows = rows' /\ NewDump'.listed = listed'
  /\ NewDump'.proposed = proposed' /\ NewDump'.told = told' /\ NewDump'.made = made'
BY DEF NewDump

\* Types, part by part.
LEMMA TypesNow ==
  ASSUME Types
  PROVE  /\ PlaneTypeOK /\ ApplyBound
         /\ listed \subseteq Entry /\ proposed \in [Proposal -> ProposalState]
         /\ told \in [Caller -> Entry \cup {Nothing}] /\ made \subseteq Project
         /\ tagged \subseteq Entry /\ landed \subseteq Change /\ merged \subseteq Topic
         /\ waiting \in [Topic -> SUBSET Change] /\ upset \subseteq Project
         /\ NewDump \in DumpType /\ backup \in [Tool -> BackupState]
         /\ \A b \in Tool : backup[b].phase = "none" \/ backup[b].db \in DumpType
         /\ restore \in RestoreState
<1>1. NewDump \in DumpType
  BY DEF Types, TypeOK
<1>2. /\ listed \subseteq Entry /\ proposed \in [Proposal -> ProposalState]
      /\ told \in [Caller -> Entry \cup {Nothing}] /\ made \subseteq Project
  BY <1>1 DEF NewDump, DumpType
<1> QED BY <1>1, <1>2 DEF Types, TypeOK, Phase, RestoreState

LEMMA TypesAfter ==
  ASSUME PlaneTypeOK', ApplyBound',
         listed' \subseteq Entry, proposed' \in [Proposal -> ProposalState],
         told' \in [Caller -> Entry \cup {Nothing}], made' \subseteq Project,
         tagged' \subseteq Entry, landed' \subseteq Change, merged' \subseteq Topic,
         waiting' \in [Topic -> SUBSET Change], upset' \subseteq Project, backup' \in [Tool -> BackupState],
         \A b \in Tool : backup'[b].phase = "none" \/ backup'[b].db \in DumpType,
         restore' \in RestoreState
  PROVE  Types'
<1>1. rows' \in [Project -> Mode \cup {"none"}]
      /\ schema' \in [made : SUBSET (1..Migrations), recorded : SUBSET (1..Migrations)]
  BY DEF PlaneTypeOK
<1>2. NewDump' \in DumpType
  BY <1>1 DEF NewDump, DumpType
<1>3. \A b \in Tool :
        /\ backup'[b].phase \in {"none", "dumped", "bundling", "whole"}
        /\ backup'[b].git \in BundlesType /\ backup'[b].todo \subseteq Project
  BY DEF BackupState
<1> QED BY <1>2, <1>3 DEF Types, TypeOK, Phase, RestoreState

\* A step that leaves the backups and the operator alone, and keeps the
\* database behind a git that grows.
LEMMA LiveStep ==
  ASSUME RestoreInv, UNCHANGED <<saving, upset>>, Types',
         tagged \subseteq tagged', merged \subseteq merged', Ready \subseteq Ready',
         restore.phase # "none" =>
           /\ UNCHANGED <<tagged, merged>>
           /\ \A p \in Process \ restore.strays : proc'[p] = proc[p],
         Good => NowBehind' /\ Rooted' /\ OneMaker'
  PROVE  RestoreInv'
<1>1. UNCHANGED <<backup, restore>>
  BY DEF saving
<1>2. Quiet'
  BY <1>1 DEF RestoreInv, Quiet
<1>3. Good => BackupsSound'
  BY <1>1, SoundGrows DEF Good, BackupsSound
<1>4. Good => GitBack'
  BY <1>1 DEF Good, GitBack, FromBundles
<1> QED BY <1>1, <1>2, <1>3, <1>4 DEF RestoreInv, Good

LEMMA ComingStep ==
  ASSUME RestoreInv, Coming
  PROVE  RestoreInv'
<1>0. Types /\ PlaneTypeOK /\ ApplyBound /\ proc \in [Process -> ProcState]
  BY TypesNow DEF RestoreInv, PlaneTypeOK
<1>1. UNCHANGED <<tagged, listed, told, landed, waiting, merged, proposed, upset, saving>>
  BY DEF Coming
<1>2. Grows /\ KeepsMakers
  BY <1>0, <1>1, PlaneGrows, CreatorGrows DEF Coming
<1> DEFINE new == {proc[p].project : p \in {c \in Creator : ~At(c, "done") /\ proc'[c].pc = "done"}}
<1>3. made' = made \cup new
  BY DEF Coming
<1>4. /\ \A q \in new : q \in Project
      /\ Makers => \A q \in new \ upset : rows[q] # "none" /\ q \in Ready'
  BY <1>0, <1>2 DEF KeepsMakers, SucceedsUsable, ProcState, Process
<1> HIDE DEF new
<1>5. Types'
  <2>1. made' \subseteq Project
    BY <1>0, <1>3, <1>4, TypesNow
  <2>2. PlaneTypeOK' /\ ApplyBound'
    BY <1>2 DEF Grows
  <2>3. UNCHANGED <<backup, restore>>
    BY <1>1 DEF saving
  <2> QED BY <1>0, <1>1, <2>1, <2>2, <2>3, TypesNow, TypesAfter
<1>6. restore.phase # "none" => \A p \in Process \ restore.strays : proc'[p] = proc[p]
  <2> SUFFICES ASSUME restore.phase # "none"
               PROVE  \A p \in Process \ restore.strays : proc'[p] = proc[p]
    OBVIOUS
  <2>1. PICK c \in Creator : ~At(c, "idle") /\ CreatorMoves(c)
    BY DEF Coming, Running
  <2>2. c \in Process /\ proc[c].pc \notin {"idle", "done", "failed"}
    BY <1>0, <2>1, CreatorAlone DEF At, Process
  <2>3. c \in restore.strays
    BY <2>2 DEF RestoreInv, Quiet
  <2> QED BY <1>0, <2>1, <2>3, CreatorAlone
<1>7. ASSUME Good PROVE NowBehind' /\ Rooted' /\ OneMaker'
  <2>0. UNCHANGED restore
    BY <1>1 DEF saving
  <2>1. Rooted'
    BY <1>1, <1>2, <1>7 DEF Good, Rooted, RootedIn, Grows
  <2>2. CASE restore.phase = "git"
    BY <2>0, <2>1, <2>2 DEF NowBehind, OneMaker
  <2>3. CASE restore.phase # "git"
    <3>0. Behind(NewDump, tagged, merged, Ready, upset) /\ Makers
      BY <1>7, <2>3 DEF Good, NowBehind, OneMaker
    <3>1. \A q \in made' \ upset' : rows'[q] # "none" /\ q \in Ready'
      <4>1. \A q \in made \ upset : q \in Project /\ rows[q] # "none" /\ q \in Ready
        BY <1>0, <3>0, DumpFields, TypesNow DEF Behind
      <4> QED BY <1>1, <1>2, <1>3, <1>4, <3>0, <4>1 DEF Grows
    <3>2. Behind(NewDump', tagged', merged', Ready', upset')
      BY <1>1, <3>0, <3>1, DumpFields DEF Behind
    <3> QED BY <1>2, <2>1, <3>0, <3>2 DEF NowBehind, OneMaker, KeepsMakers
  <2> QED BY <2>2, <2>3
<1> QED BY <1>1, <1>2, <1>5, <1>6, <1>7, LiveStep DEF Grows

LEMMA ReleasingStep ==
  ASSUME RestoreInv, Releasing
  PROVE  RestoreInv'
<1>0. /\ restore.phase = "none" /\ Types
      /\ Good => Makers /\ Rooted /\ Behind(NewDump, tagged, merged, Ready, upset)
      /\ PlaneTypeOK /\ ApplyBound /\ NewDump \in DumpType /\ tagged \subseteq Entry
  BY TypesNow DEF RestoreInv, Good, OneMaker, NowBehind, Releasing, Running
<1>1. UNCHANGED <<schema, rows, repo, proc, faults, landed, waiting, merged, proposed, made, upset, backup, restore>>
  BY DEF Releasing, plane, saving
<1>2. /\ Ready' = Ready /\ (Makers => Makers') /\ PlaneTypeOK' /\ ApplyBound'
  BY <1>0, <1>1 DEF Ready, Makers, IsMaking, At, PlaneTypeOK, ApplyBound
<1>3. /\ tagged \subseteq tagged' /\ \A e \in tagged' \ tagged : e \in Entry /\ e[1] \in Ready
      /\ listed \subseteq listed' /\ \A e \in listed' \ listed : e \in Entry /\ e \in tagged
      /\ \A c \in Caller : told'[c] # told[c] => told'[c] \in listed
      /\ told' \in [Caller -> Entry \cup {Nothing}]
  <2>0. told \in [Caller -> Entry \cup {Nothing}] /\ listed \subseteq Entry
    BY <1>0, TypesNow
  <2>1. ASSUME NEW q \in Project, Served(q), NEW v \in NextVersion(q), Ledger!Cut(<<q, v>>)
        PROVE  /\ tagged' = tagged \cup {<<q, v>>} /\ <<q, v>> \in Entry /\ q \in Ready
               /\ UNCHANGED <<listed, told>>
    BY <2>1 DEF Ledger!Cut, Served, Usable, Ready, NextVersion, Entry
  <2>2. ASSUME NEW e \in Entry, Ledger!List(e)
        PROVE  listed' = listed \cup {e} /\ e \in tagged /\ UNCHANGED <<tagged, told>>
    BY <2>2 DEF Ledger!List
  <2>3. ASSUME NEW c \in Caller, NEW e \in Entry, Ledger!Tell(c, e)
        PROVE  told' = [told EXCEPT ![c] = e] /\ e \in listed /\ UNCHANGED <<tagged, listed>>
    BY <2>3 DEF Ledger!Tell
  <2>4. CASE \E q \in Project : Served(q) /\ \E v \in NextVersion(q) : Ledger!Cut(<<q, v>>)
    BY <2>0, <2>1, <2>4
  <2>5. CASE \E e \in Entry : Usable(e[1]) /\ Ledger!List(e)
    BY <2>0, <2>2, <2>5
  <2>6. CASE \E c \in Caller, e \in Entry : Served(e[1]) /\ Ledger!Tell(c, e)
    BY <2>0, <2>3, <2>6
  <2> QED BY <2>4, <2>5, <2>6 DEF Releasing
<1>4. Types'
  <2>1. tagged' \subseteq Entry /\ listed' \subseteq Entry
    BY <1>0, <1>3, TypesNow
  <2> QED BY <1>0, <1>1, <1>2, <1>3, <2>1, TypesNow, TypesAfter
<1>5. ASSUME Good PROVE NowBehind'
  <2>1. listed' \subseteq tagged'
    BY <1>0, <1>3, <1>5, DumpFields DEF Behind
  <2>2. \A c \in Caller : told'[c] # Nothing => told'[c] \in listed'
    BY <1>0, <1>3, <1>5, DumpFields DEF Behind
  <2>3. Behind(NewDump', tagged', merged', Ready', upset')
    BY <1>0, <1>1, <1>2, <1>5, <2>1, <2>2, DumpFields DEF Behind
  <2> QED BY <2>3 DEF NowBehind
<1>6. Good => Rooted' /\ OneMaker'
  BY <1>0, <1>1, <1>2, <1>3 DEF Rooted, RootedIn, OneMaker
<1> QED BY <1>0, <1>1, <1>2, <1>3, <1>4, <1>5, <1>6, LiveStep DEF saving

LEMMA ReviewingStep ==
  ASSUME RestoreInv, Reviewing
  PROVE  RestoreInv'
<1>0. /\ restore.phase = "none" /\ Types
      /\ Good => Makers /\ Rooted /\ Behind(NewDump, tagged, merged, Ready, upset)
      /\ PlaneTypeOK /\ ApplyBound /\ NewDump \in DumpType
      /\ landed \subseteq Change /\ merged \subseteq Topic /\ waiting \in [Topic -> SUBSET Change]
      /\ proposed \in [Proposal -> ProposalState]
  BY TypesNow DEF RestoreInv, Good, OneMaker, NowBehind, Reviewing, Running
<1>1. UNCHANGED <<schema, rows, repo, proc, faults, tagged, listed, told, made, upset, backup, restore>>
      /\ Review!FlowNext /\ Followed \in Ready
  BY FollowedAssumption DEF Reviewing, plane, saving, Served, Usable, Ready
<1>2. /\ Ready' = Ready /\ (Makers => Makers') /\ PlaneTypeOK' /\ ApplyBound'
  BY <1>0, <1>1 DEF Ready, Makers, IsMaking, At, PlaneTypeOK, ApplyBound
<1>3. /\ landed' \subseteq Change /\ waiting' \in [Topic -> SUBSET Change]
      /\ merged \subseteq merged' /\ merged' \subseteq Topic
  BY <1>0, <1>1 DEF Review!FlowNext, Review!Commit, Review!Contribute, Review!Land,
     Review!Discard, Review!Open, Review!Mark
<1>4. /\ proposed' \in [Proposal -> ProposalState]
      /\ \A p \in Proposal : proposed'[p].status = "merged" =>
           \/ proposed[p].status = "merged" /\ proposed'[p].branch = proposed[p].branch
           \/ proposed'[p].branch \in merged
  <2>1. CASE UNCHANGED proposed
    BY <1>0, <2>1
  <2>2. ASSUME NEW p \in Proposal, NEW x \in ProposalState, proposed' = [proposed EXCEPT ![p] = x],
               x.status = "merged" => x.branch \in merged
        PROVE  <1>4!1 /\ <1>4!2
    BY <1>0, <2>2
  <2>3. ASSUME NEW p \in Proposal, NEW t \in Topic, Review!Open(p, t)
        PROVE  <1>4!1 /\ <1>4!2
    <3>1. PICK x : x = [status |-> "open", branch |-> t]
      OBVIOUS
    <3>2. x \in ProposalState /\ x.status # "merged"
      BY <3>1 DEF ProposalState
    <3>3. proposed' = [proposed EXCEPT ![p] = x]
      BY <2>3, <3>1 DEF Review!Open
    <3> QED BY <2>2, <3>2, <3>3
  <2>4. ASSUME NEW p \in Proposal, NEW status \in {"merged", "conflicted"}, Review!Mark(p, status)
        PROVE  <1>4!1 /\ <1>4!2
    <3>1. PICK x : x = [proposed[p] EXCEPT !.status = status]
      OBVIOUS
    <3>2. x \in ProposalState /\ (x.status = "merged" => x.branch \in merged)
      BY <1>0, <2>4, <3>1 DEF ProposalState, Review!Mark
    <3>3. proposed' = [proposed EXCEPT ![p] = x]
      BY <2>4, <3>1 DEF Review!Mark
    <3> QED BY <2>2, <3>2, <3>3
  <2>5. UNCHANGED proposed \/ (\E p \in Proposal : \/ \E t \in Topic : Review!Open(p, t)
                               \/ \E status \in {"merged", "conflicted"} : Review!Mark(p, status))
    BY <1>1 DEF Review!FlowNext, Review!Commit, Review!Contribute, Review!Land, Review!Discard
  <2> QED BY <2>1, <2>3, <2>4, <2>5
<1>5. Types'
  BY <1>0, <1>1, <1>2, <1>3, <1>4, TypesNow, TypesAfter
<1>6. ASSUME Good PROVE NowBehind'
  <2>1. \A p \in Proposal : proposed'[p].status = "merged" => proposed'[p].branch \in merged'
    BY <1>0, <1>3, <1>4, <1>6, DumpFields DEF Behind
  <2>2. Behind(NewDump', tagged', merged', Ready', upset')
    BY <1>0, <1>1, <1>2, <1>6, <2>1, DumpFields DEF Behind
  <2> QED BY <2>2 DEF NowBehind
<1>7. Good => Rooted' /\ OneMaker'
  BY <1>0, <1>1, <1>2 DEF Rooted, RootedIn, OneMaker
<1> QED BY <1>0, <1>1, <1>2, <1>3, <1>5, <1>6, <1>7, LiveStep DEF saving

LEMMA BackupOpensStep ==
  ASSUME RestoreInv, NEW b \in Tool, BackupOpens(b)
  PROVE  RestoreInv'
<1>0. /\ Types /\ PlaneTypeOK /\ ApplyBound /\ NewDump \in DumpType /\ b \in Process
  BY TypesNow DEF RestoreInv, Process
<1>1. /\ UNCHANGED <<tagged, listed, told, landed, waiting, merged, proposed, made, upset, backup, restore>>
      /\ MigrateStep(b) /\ backup[b].phase = "dumped"
  BY DEF BackupOpens, flows, saving, Phase
<1>2. /\ Grows /\ KeepsMakers /\ UNCHANGED <<rows, repo>>
      /\ \A p \in Process \ {b} : proc'[p] = proc[p]
  BY <1>0, <1>1, MigrateQuiet, MigrateMoves DEF Moves
<1>3. Ready' = Ready
  BY <1>2 DEF Ready
<1>4. Types'
  <2>1. PlaneTypeOK' /\ ApplyBound'
    BY <1>2 DEF Grows
  <2> QED BY <1>0, <1>1, <2>1, TypesNow, TypesAfter
<1>5. restore.phase # "none" => b \in restore.strays
  BY <1>1 DEF RestoreInv, Quiet
<1>6. Good => NowBehind' /\ Rooted' /\ OneMaker'
  BY <1>1, <1>2, <1>3, DumpFields
     DEF Good, NowBehind, Behind, Rooted, RootedIn, OneMaker, KeepsMakers
<1> QED BY <1>1, <1>2, <1>3, <1>4, <1>5, <1>6, LiveStep DEF saving

-----------------------------------------------------------------------------
(* A backup.                                                                *)

\* A step of backup b that leaves both planes alone and is sound afterwards.
LEMMA SavesStep ==
  ASSUME RestoreInv, NEW b \in Tool, NEW x \in BackupState,
         x.phase = "none" \/ x.db \in DumpType, backup[b].phase # "whole",
         restore.phase # "none" => b \in restore.strays,
         Good /\ b \notin restore.strays => Sound(x, tagged, merged, Ready, upset),
         backup' = [backup EXCEPT ![b] = x],
         UNCHANGED <<schema, rows, repo, flows, restore>>, faults' \in 0..MaxFaults,
         UNCHANGED proc \/ Moves(b, "done") \/ Moves(b, "failed")
  PROVE  RestoreInv'
<1>0. /\ Types /\ PlaneTypeOK /\ ApplyBound /\ backup \in [Tool -> BackupState] /\ b \in Process
  BY TypesNow DEF RestoreInv, Process
<1>1. UNCHANGED <<schema, rows, repo, tagged, listed, told, landed, waiting, merged, proposed, made, upset, restore>>
  BY DEF flows
<1>2. Ready' = Ready /\ NewDump' = NewDump
  BY <1>1 DEF Ready, NewDump
<1>3. /\ \A c \in Creator : proc'[c] = proc[c]
      /\ \A p \in Process \ {b} : proc'[p] = proc[p]
  BY ProcessAssumption DEF Moves, Process
<1>4. PlaneTypeOK' /\ ApplyBound'
  BY <1>0, <1>1 DEF PlaneTypeOK, ApplyBound, Moves, At
<1>5. Makers => Makers'
  BY <1>0, <1>1, <1>3 DEF Makers, IsMaking, At
<1>6. backup' \in [Tool -> BackupState] /\ backup'[b] = x
      /\ \A c \in Tool : c # b => backup'[c] = backup[c]
  BY <1>0
<1>7. Types'
  <2>1. \A c \in Tool : backup'[c].phase = "none" \/ backup'[c].db \in DumpType
    BY <1>0, <1>6, TypesNow
  <2> QED BY <1>0, <1>1, <1>4, <1>6, <2>1, TypesNow, TypesAfter
<1>8. Quiet' /\ (Good => GitBack')
  <2>1. restore.from \in Tool
    BY <1>0, TypesNow DEF RestoreState
  <2>2. restore.phase # "none" => restore.from # b
    BY DEF RestoreInv, Quiet
  <2> QED BY <1>1, <1>2, <1>3, <1>6, <2>1, <2>2 DEF RestoreInv, Quiet, Good, GitBack, FromBundles
<1>9. Good => BackupsSound'
  <2> SUFFICES ASSUME Good, NEW c \in Tool \ restore.strays
               PROVE  Sound(backup'[c], tagged', merged', Ready', upset')
    BY <1>1 DEF BackupsSound
  <2> QED BY <1>1, <1>2, <1>6 DEF Good, BackupsSound
<1>10. Good => NowBehind' /\ Rooted' /\ OneMaker'
  BY <1>1, <1>2, <1>5 DEF Good, NowBehind, Rooted, OneMaker
<1> QED BY <1>1, <1>7, <1>8, <1>9, <1>10 DEF RestoreInv, Good

\* Before it has begun, and once it was given up, a backup is sound.
LEMMA NoBackupSound ==
  ASSUME NEW T, NEW M, NEW R, NEW U
  PROVE  NoBackup \in BackupState /\ NoBackup.phase = "none" /\ Sound(NoBackup, T, M, R, U)
<1>1. NoBundles \in BundlesType /\ NoBundles.tagged = {} /\ NoBundles.merged = {}
  BY DEF NoBundles, BundlesType, RepoState
<1>2. /\ NoBackup.phase = "none" /\ NoBackup.db = <<>> /\ NoBackup.todo = {}
      /\ NoBackup.git = NoBundles /\ NoBackup \in BackupState
  <2>1. NoBackup = [phase |-> "none", db |-> <<>>, todo |-> {}, git |-> NoBundles]
    BY DEF NoBackup
  <2> HIDE DEF NoBackup
  <2> QED BY <1>1, <2>1 DEF BackupState
<1>3. Sound(NoBackup, T, M, R, U)
  BY <1>1, <1>2 DEF Sound, RootedIn
<1> QED BY <1>2, <1>3

\* What is known of a backup that takes a step.
LEMMA SavedNow ==
  ASSUME RestoreInv, NEW b \in Tool
  PROVE  /\ backup[b] \in BackupState
         /\ Good /\ b \notin restore.strays => Sound(backup[b], tagged, merged, Ready, upset)
         /\ backup[b].phase = "none" \/ backup[b].db \in DumpType
         /\ backup[b].phase \in {"dumped", "bundling"} /\ restore.phase # "none" => b \in restore.strays
         /\ faults \in 0..MaxFaults /\ PlaneTypeOK /\ b \in Process
         /\ backup[b].todo \subseteq Project /\ backup[b].git \in BundlesType
  BY TypesNow DEF RestoreInv, Good, BackupsSound, Quiet, PlaneTypeOK, BackupState, Process

LEMMA PgDumpStep ==
  ASSUME RestoreInv, NEW b \in Tool, PgDump(b)
  PROVE  RestoreInv'
<1>1. PICK x : x = [backup[b] EXCEPT !.phase = "dumped", !.db = NewDump]
  OBVIOUS
<1>2. /\ NewDump \in DumpType /\ restore.phase = "none" /\ backup[b].phase # "whole"
      /\ Good => Behind(NewDump, tagged, merged, Ready, upset)
  BY TypesNow DEF RestoreInv, Good, NowBehind, PgDump, Running, Phase
<1>3. /\ x \in BackupState /\ x.phase = "dumped" /\ x.db = NewDump /\ x.git = backup[b].git
  BY <1>1, <1>2, SavedNow DEF BackupState
<1>4. Good /\ b \notin restore.strays => Sound(x, tagged, merged, Ready, upset)
  BY <1>2, <1>3, SavedNow DEF Sound
<1>5. backup' = [backup EXCEPT ![b] = x]
  BY <1>1 DEF PgDump
<1> QED BY <1>2, <1>3, <1>4, <1>5, SavesStep, SavedNow DEF PgDump, plane

\* Projects that have no repository when they are listed have no tag and no
\* merge, and were not reported.
LEMMA WalkStep ==
  ASSUME RestoreInv, NEW b \in Tool, Walk(b)
  PROVE  RestoreInv'
<1> DEFINE todo == {q \in Project : repo[q] # "none"}
<1>0. backup[b].phase = "dumped" /\ backup[b].db \in DumpType
  BY SavedNow DEF Walk, Phase
<1>1. PICK x : x = [backup[b] EXCEPT !.phase = "bundling", !.todo = todo]
  OBVIOUS
<1>2. /\ x \in BackupState /\ x.phase = "bundling" /\ x.todo = todo
      /\ x.db = backup[b].db /\ x.git = backup[b].git
  <2>1. todo \in SUBSET Project
    OBVIOUS
  <2> HIDE DEF todo
  <2> QED BY <1>1, <2>1, SavedNow DEF BackupState
<1>3. Ready \subseteq todo
  BY DEF Ready
<1>4. backup' = [backup EXCEPT ![b] = x]
  BY <1>1 DEF Walk
<1> HIDE DEF todo
<1>5. ASSUME Good, b \notin restore.strays PROVE Sound(x, tagged, merged, Ready, upset)
  <2>0. Sound(backup[b], tagged, merged, Ready, upset)
    BY <1>5, SavedNow
  <2>1. Behind(x.db, tagged, merged, Ready, upset)
    BY <1>0, <1>2, <2>0 DEF Sound
  <2>2. \A e \in x.db.listed : e[1] \in todo
    BY <1>3, <1>5, <2>1 DEF Behind, Good, Rooted, RootedIn
  <2>3. Followed \notin todo => \A p \in Proposal : x.db.proposed[p].status # "merged"
    BY <1>3, <1>5, <2>1 DEF Behind, Good, Rooted, RootedIn
  <2>4. \A q \in x.db.made \ upset : q \in todo
    BY <1>3, <2>1 DEF Behind
  <2>5. Covered(x, upset)
    BY <1>2, <2>2, <2>3, <2>4 DEF Covered
  <2> QED BY <1>2, <2>0, <2>1, <2>5 DEF Sound
<1> QED BY <1>0, <1>2, <1>4, <1>5, SavesStep, SavedNow DEF Walk, plane

\* One bundle has all tags, and the merges, of the repository it is of.
LEMMA WithRepoFields ==
  ASSUME NEW g \in BundlesType, NEW q \in Project, Types
  PROVE  LET h == WithRepo(g, q)
         IN  /\ h \in BundlesType
             /\ \A r \in Project : r \in ReadyIn(h) <=> r \in (IF r = q THEN Ready ELSE ReadyIn(g))
             /\ h.tagged = {e \in g.tagged : e[1] # q} \cup {e \in tagged : e[1] = q}
             /\ h.merged = IF q = Followed THEN merged ELSE g.merged
<1> DEFINE r == [g.repos EXCEPT ![q] = repo[q]]
           t == {e \in g.tagged : e[1] # q} \cup {e \in tagged : e[1] = q}
           l == IF q = Followed THEN landed ELSE g.landed
           w == IF q = Followed THEN waiting ELSE g.waiting
           m == IF q = Followed THEN merged ELSE g.merged
           h == WithRepo(g, q)
<1>0. g.repos \in [Project -> RepoState] /\ repo[q] \in RepoState
  BY TypesNow DEF BundlesType, PlaneTypeOK
<1>1. h = [repos |-> r, tagged |-> t, landed |-> l, waiting |-> w, merged |-> m]
  BY DEF WithRepo
<1>2. /\ t \subseteq Entry /\ l \subseteq Change /\ w \in [Topic -> SUBSET Change] /\ m \subseteq Topic
      /\ r \in [Project -> RepoState]
  BY <1>0, TypesNow DEF BundlesType
<1>3. /\ h.repos = r /\ h.tagged = t /\ h.merged = m
  BY <1>1
<1>4. \A p \in Project : r[p] = IF p = q THEN repo[q] ELSE g.repos[p]
  BY <1>0
<1> HIDE DEF r, t, l, w, m, h
<1>5. h \in BundlesType
  BY <1>1, <1>2 DEF BundlesType
<1>6. \A p \in Project : p \in ReadyIn(h) <=> p \in (IF p = q THEN Ready ELSE ReadyIn(g))
  BY <1>3, <1>4 DEF ReadyIn, Ready
<1> QED BY <1>3, <1>5, <1>6 DEF t, m, h

LEMMA BundleStep ==
  ASSUME RestoreInv, NEW b \in Tool, NEW q \in Project, Bundle(b, q)
  PROVE  RestoreInv'
<1>0. backup[b].phase = "bundling" /\ Types
  BY DEF Bundle, Phase, RestoreInv
<1>1. UNCHANGED <<schema, rows, repo, flows, restore>>
  BY DEF Bundle
<1>2. CASE repo[q] \in {"branched", "ready"}
  <2>1. PICK k : k = backup[b]
    OBVIOUS
  <2>2. PICK h : h = WithRepo(k.git, q)
    OBVIOUS
  <2>3. PICK x : x = [k EXCEPT !.todo = k.todo \ {q}, !.git = h]
    OBVIOUS
  <2>4. /\ h \in BundlesType
        /\ \A r \in Project : r \in ReadyIn(h) <=> r \in (IF r = q THEN Ready ELSE ReadyIn(k.git))
        /\ h.tagged = {e \in k.git.tagged : e[1] # q} \cup {e \in tagged : e[1] = q}
        /\ h.merged = IF q = Followed THEN merged ELSE k.git.merged
    BY <1>0, <2>1, <2>2, SavedNow, WithRepoFields
  <2>5. k \in BackupState /\ k.phase = "bundling" /\ k.db \in DumpType /\ k.todo \subseteq Project
    BY <1>0, <2>1, SavedNow
  <2>6. /\ x \in BackupState /\ x.phase = "bundling" /\ x.db = k.db
        /\ x.todo = k.todo \ {q} /\ x.git = h
    <3>1. k.todo \ {q} \in SUBSET Project
      BY <2>5
    <3> QED BY <2>3, <2>4, <2>5, <3>1 DEF BackupState
  <2>7. ASSUME Good, b \notin restore.strays PROVE Sound(x, tagged, merged, Ready, upset)
    <3>0. /\ Behind(k.db, tagged, merged, Ready, upset) /\ Covered(k, upset)
          /\ RootedIn(k.git.tagged, k.git.merged, ReadyIn(k.git)) /\ RootedIn(tagged, merged, Ready)
      BY <2>1, <2>5, <2>7, SavedNow DEF Sound, Good, Rooted
    <3>1. \A e \in x.db.listed : e[1] \notin x.todo => e \in h.tagged
      BY <2>4, <2>6, <3>0 DEF Covered, Behind
    <3>2. Followed \notin x.todo => \A p \in Proposal :
            x.db.proposed[p].status = "merged" => x.db.proposed[p].branch \in h.merged
      <4>1. CASE q = Followed
        BY <2>4, <2>6, <3>0, <4>1 DEF Behind
      <4>2. CASE q # Followed
        BY <2>4, <2>6, <3>0, <4>2 DEF Covered
      <4> QED BY <4>1, <4>2
    <3>3. \A p \in x.db.made \ upset : p \notin x.todo => p \in ReadyIn(h)
      <4> SUFFICES ASSUME NEW p \in x.db.made \ upset, p \notin x.todo PROVE p \in ReadyIn(h)
        OBVIOUS
      <4>1. p \in Project
        BY <2>5, <2>6 DEF DumpType
      <4>2. CASE p = q
        BY <2>4, <2>6, <3>0, <4>1, <4>2 DEF Behind
      <4>3. CASE p # q
        BY <2>4, <2>6, <3>0, <4>1, <4>3 DEF Covered
      <4> QED BY <4>2, <4>3
    <3>4. RootedIn(h.tagged, h.merged, ReadyIn(h))
      <4>1. \A e \in h.tagged : e[1] \in Project
        BY <1>0, <2>1, <2>4, SavedNow, TypesNow DEF BundlesType, Entry
      <4>2. \A e \in h.tagged : e[1] \in ReadyIn(h)
        BY <2>4, <3>0, <4>1 DEF RootedIn
      <4>3. h.merged # {} => Followed \in ReadyIn(h)
        BY <2>4, <3>0, FollowedAssumption DEF RootedIn
      <4> QED BY <4>2, <4>3 DEF RootedIn
    <3> QED BY <2>6, <3>0, <3>1, <3>2, <3>3, <3>4 DEF Sound, Covered
  <2>8. backup' = [backup EXCEPT ![b] = x] /\ UNCHANGED <<proc, faults>>
    BY <1>2, <2>1, <2>2, <2>3 DEF Bundle
  <2> QED BY <1>0, <1>1, <2>5, <2>6, <2>7, <2>8, SavesStep, SavedNow
<1>3. CASE repo[q] \notin {"branched", "ready"}
  <2>1. backup' = [backup EXCEPT ![b] = NoBackup] /\ Exit(b) /\ UNCHANGED faults
    BY <1>3 DEF Bundle, NoFault
  <2>2. Moves(b, "failed")
    BY <2>1, SavedNow, EndMoves
  <2> QED BY <1>0, <1>1, <2>1, <2>2, SavesStep, SavedNow, NoBackupSound
<1> QED BY <1>2, <1>3

\* With no repository left to save, the dump is behind the bundles.
LEMMA BackupDoneStep ==
  ASSUME RestoreInv, NEW b \in Tool, BackupDone(b)
  PROVE  RestoreInv'
<1>0. /\ backup[b].phase = "bundling" /\ backup[b].todo = {} /\ backup[b].db \in DumpType
  BY SavedNow DEF BackupDone, Phase
<1>1. PICK x : x = [backup[b] EXCEPT !.phase = "whole"]
  OBVIOUS
<1>2. /\ x \in BackupState /\ x.phase = "whole" /\ x.db = backup[b].db /\ x.git = backup[b].git
  BY <1>1, SavedNow DEF BackupState
<1>3. ASSUME Good, b \notin restore.strays PROVE Sound(x, tagged, merged, Ready, upset)
  <2>1. /\ Behind(x.db, tagged, merged, Ready, upset)
        /\ RootedIn(x.git.tagged, x.git.merged, ReadyIn(x.git)) /\ Covered(backup[b], upset)
    BY <1>0, <1>2, <1>3, SavedNow DEF Sound
  <2>2. Behind(x.db, x.git.tagged, x.git.merged, ReadyIn(x.git), upset)
    BY <1>0, <1>2, <2>1 DEF Behind, Covered
  <2> QED BY <1>2, <2>1, <2>2 DEF Sound
<1>4. backup' = [backup EXCEPT ![b] = x] /\ UNCHANGED faults /\ Moves(b, "done")
  BY <1>1, SavedNow, EndMoves DEF BackupDone, NoFault
<1> QED BY <1>0, <1>2, <1>3, <1>4, SavesStep, SavedNow DEF BackupDone

LEMMA BackupDiesStep ==
  ASSUME RestoreInv, NEW b \in Tool, BackupDies(b)
  PROVE  RestoreInv'
<1>1. /\ backup' = [backup EXCEPT ![b] = NoBackup] /\ Moves(b, "failed")
      /\ backup[b].phase \in {"dumped", "bundling"}
  BY SavedNow, EndMoves DEF BackupDies
<1>2. faults' \in 0..MaxFaults
  BY SavedNow, BoundAssumption DEF BackupDies, Fault
<1> QED BY <1>1, <1>2, SavesStep, SavedNow, NoBackupSound DEF BackupDies

-----------------------------------------------------------------------------
(* A restore.                                                               *)

LEMMA StopStep ==
  ASSUME RestoreInv, NEW b \in Tool, Stop(b)
  PROVE  RestoreInv'
<1>0. /\ Types /\ PlaneTypeOK /\ ApplyBound /\ restore \in RestoreState /\ backup \in [Tool -> BackupState]
      /\ restore.phase = "none" /\ restore.count < MaxRestores /\ backup[b].phase = "whole"
      /\ proc \in [Process -> ProcState]
  BY TypesNow DEF RestoreInv, Stop, Phase, PlaneTypeOK
<1>1. UNCHANGED <<schema, rows, repo, faults, tagged, listed, told, landed, waiting, merged, proposed, made, upset>>
  BY DEF Stop, flows
<1> DEFINE stopped == [IdleProc EXCEPT !.pc = "failed"]
<1>2. PICK kept \in SUBSET UnderWay :
        /\ restore' = [phase |-> "stopped", from |-> b, count |-> restore.count + 1,
                       strays |-> restore.strays \cup kept,
                       sound |-> restore.sound /\ b \notin restore.strays]
        /\ proc' = [p \in Process |-> IF p \in kept \/ At(p, "idle") \/ At(p, "done")
                                      THEN proc[p] ELSE stopped]
        /\ backup' = [c \in Tool |-> IF Phase(c, "whole") \/ c \in kept THEN backup[c]
                                      ELSE NoBackup]
  BY DEF Stop
<1>3. stopped \in ProcState /\ stopped.pc = "failed"
  <2>1. stopped.pc = "failed"
    BY DEF IdleProc
  <2> QED BY <2>1, IdleProcType DEF PC
<1> HIDE DEF stopped
<1>4. kept \subseteq Creator \cup Tool /\ b \notin kept
  BY <1>0, ProcessAssumption DEF UnderWay
<1>5. /\ restore' \in RestoreState /\ restore'.phase = "stopped" /\ restore'.from = b
      /\ restore'.strays = restore.strays \cup kept
      /\ restore'.sound = (restore.sound /\ b \notin restore.strays)
  <2>1. restore.count + 1 \in 0..MaxRestores
    BY <1>0, VersionAssumption DEF RestoreState
  <2>2. restore.strays \cup kept \in SUBSET (Creator \cup Tool)
    BY <1>0, <1>4 DEF RestoreState
  <2> QED BY <1>2, <2>1, <2>2 DEF RestoreState
<1>6. /\ proc' \in [Process -> ProcState]
      /\ \A p \in Process : proc'[p] = proc[p] \/ proc'[p].pc = "failed"
      /\ \A p \in Process \ restore'.strays : proc'[p].pc \in {"idle", "done", "failed"}
  BY <1>0, <1>2, <1>3, <1>5 DEF At
<1>7. /\ backup' \in [Tool -> BackupState]
      /\ \A c \in Tool : backup'[c] = backup[c] \/ backup'[c] = NoBackup
      /\ \A c \in Tool \ restore'.strays : backup'[c].phase \in {"none", "whole"}
      /\ backup'[b] = backup[b]
  BY <1>0, <1>2, <1>5, NoBackupSound DEF Phase
<1>8. Types'
  <2>1. PlaneTypeOK' /\ ApplyBound'
    BY <1>0, <1>1, <1>6 DEF PlaneTypeOK, ApplyBound, At
  <2>2. \A c \in Tool : backup'[c].phase = "none" \/ backup'[c].db \in DumpType
    BY <1>0, <1>7, NoBackupSound, TypesNow
  <2> QED BY <1>0, <1>1, <1>5, <1>7, <2>1, <2>2, TypesNow, TypesAfter
<1>9. Quiet'
  BY <1>0, <1>5, <1>6, <1>7 DEF Quiet
<1>10. ASSUME restore'.sound PROVE Good'
  <2>0. Good /\ b \notin restore'.strays
    BY <1>4, <1>5, <1>10 DEF RestoreInv
  <2>1. Ready' = Ready /\ NewDump' = NewDump
    BY <1>1 DEF Ready, NewDump
  <2>2. BackupsSound'
    <3> SUFFICES ASSUME NEW c \in Tool \ restore'.strays
                 PROVE  Sound(backup'[c], tagged', merged', Ready', upset')
      BY DEF BackupsSound
    <3>1. Sound(backup[c], tagged, merged, Ready, upset)
      BY <1>5, <2>0 DEF Good, BackupsSound
    <3> QED BY <1>1, <1>7, <2>1, <3>1, NoBackupSound
  <2>3. OneMaker'
    <3>1. Makers
      BY <1>0, <2>0 DEF Good, OneMaker
    <3>2. \A c \in Creator, q \in Project : IsMaking(c, q)' => IsMaking(c, q) /\ proc'[c] = proc[c]
      BY <1>6 DEF IsMaking, Process
    <3> QED BY <1>1, <3>1, <3>2 DEF OneMaker, Makers, At
  <2>4. NowBehind' /\ Rooted' /\ GitBack'
    BY <1>0, <1>1, <1>5, <2>0, <2>1 DEF Good, NowBehind, Rooted, GitBack
  <2> QED BY <2>2, <2>3, <2>4 DEF Good
<1> QED BY <1>8, <1>9, <1>10 DEF RestoreInv

\* The dump is not looked at yet; the bundles are sound by themselves.
LEMMA GitStep ==
  ASSUME RestoreInv, GitFromBundles
  PROVE  RestoreInv'
<1> DEFINE f == restore.from
           g == backup[restore.from].git
<1>0. /\ Types /\ PlaneTypeOK /\ ApplyBound /\ f \in Tool /\ restore \in RestoreState
      /\ restore.phase = "stopped" /\ backup[f].phase = "whole" /\ g \in BundlesType /\ Quiet
      /\ Good => f \notin restore.strays /\ Sound(backup[f], tagged, merged, Ready, upset)
  <2>1. f \in Tool /\ Quiet /\ restore.phase = "stopped" /\ restore \in RestoreState
    BY TypesNow DEF RestoreInv, GitFromBundles, RestoreState
  <2> QED BY <2>1, TypesNow, SavedNow DEF RestoreInv, Quiet, Good, GitBack
<1>1. /\ UNCHANGED <<schema, rows, proc, faults, listed, told, proposed, made, upset, backup>>
      /\ tagged' = g.tagged /\ landed' = g.landed /\ waiting' = g.waiting /\ merged' = g.merged
      /\ repo' = g.repos
      /\ restore' = [restore EXCEPT !.phase = "git"]
  BY DEF GitFromBundles
<1>2. /\ g.repos \in [Project -> RepoState] /\ g.tagged \subseteq Entry /\ g.landed \subseteq Change
      /\ g.waiting \in [Topic -> SUBSET Change] /\ g.merged \subseteq Topic
  BY <1>0 DEF BundlesType
<1>3. Ready' = ReadyIn(g)
  BY <1>1 DEF Ready, ReadyIn
<1>4. /\ restore' \in RestoreState /\ restore'.phase = "git" /\ restore'.from = f
      /\ restore'.strays = restore.strays /\ restore'.sound = restore.sound
  BY <1>0, <1>1 DEF RestoreState
<1>5. Types'
  <2>1. PlaneTypeOK' /\ ApplyBound'
    BY <1>0, <1>1, <1>2 DEF PlaneTypeOK, ApplyBound, At
  <2> HIDE DEF g
  <2> QED BY <1>0, <1>1, <1>2, <1>4, <2>1, TypesNow, TypesAfter
<1>6. Quiet'
  BY <1>0, <1>1, <1>4 DEF Quiet
<1>7. ASSUME Good PROVE Good'
  <2>1. Rooted'
    BY <1>0, <1>1, <1>3, <1>7 DEF Rooted, Sound
  <2>2. BackupsSound'
    <3> SUFFICES ASSUME NEW c \in Tool \ restore.strays
                 PROVE  Sound(backup'[c], tagged', merged', Ready', upset')
      BY <1>4 DEF BackupsSound
    <3>1. Sound(backup[c], tagged, merged, Ready, upset) /\ backup[c].phase \in {"none", "whole"}
      BY <1>0, <1>7 DEF Good, BackupsSound, Quiet
    <3> QED BY <1>1, <3>1 DEF Sound
  <2>3. GitBack'
    <3>1. backup'[restore'.from].git = g
      BY <1>1, <1>4
    <3>2. FromBundles(backup[restore.from].git)'
      BY <1>1, <1>3, <3>1 DEF FromBundles
    <3> QED BY <1>0, <1>4, <1>7, <3>2 DEF GitBack
  <2> QED BY <1>4, <2>1, <2>2, <2>3 DEF Good, NowBehind, OneMaker
<1> QED BY <1>4, <1>5, <1>6, <1>7 DEF RestoreInv

\* The dump comes back beside the bundles of the same backup.
LEMMA DbStep ==
  ASSUME RestoreInv, DbFromDump
  PROVE  RestoreInv'
<1> DEFINE f == restore.from
           g == backup[restore.from].git
           d == backup[restore.from].db
<1>0. /\ Types /\ PlaneTypeOK /\ ApplyBound /\ f \in Tool /\ restore \in RestoreState
      /\ restore.phase = "git" /\ backup[f].phase = "whole" /\ d \in DumpType
      /\ Good => /\ FromBundles(g) /\ Sound(backup[f], tagged, merged, Ready, upset)
  <2>1. f \in Tool /\ Quiet /\ restore.phase = "git" /\ restore \in RestoreState
    BY TypesNow DEF RestoreInv, DbFromDump, RestoreState
  <2> QED BY <2>1, TypesNow, SavedNow DEF RestoreInv, Quiet, Good, GitBack
<1>1. /\ UNCHANGED <<repo, proc, faults, tagged, landed, waiting, merged, backup>>
      /\ schema' = d.schema /\ rows' = d.rows /\ listed' = d.listed
      /\ proposed' = d.proposed /\ told' = d.told /\ made' = d.made
      /\ upset' = upset \cup HalfMade
      /\ restore' = [restore EXCEPT !.phase = "none"]
  BY DEF DbFromDump
<1>2. /\ d.schema \in [made : SUBSET (1..Migrations), recorded : SUBSET (1..Migrations)]
      /\ d.rows \in [Project -> Mode \cup {"none"}] /\ d.listed \subseteq Entry
      /\ d.proposed \in [Proposal -> ProposalState] /\ d.told \in [Caller -> Entry \cup {Nothing}]
      /\ d.made \subseteq Project
  BY <1>0 DEF DumpType
<1>3. /\ restore' \in RestoreState /\ restore'.phase = "none"
      /\ restore'.strays = restore.strays /\ restore'.sound = restore.sound
  BY <1>0, <1>1 DEF RestoreState
<1>4. HalfMade \subseteq Project
  BY <1>0 DEF HalfMade, PlaneTypeOK, ProcState, Process
<1>5. Types'
  <2>1. PlaneTypeOK' /\ ApplyBound'
    BY <1>0, <1>1, <1>2 DEF PlaneTypeOK, ApplyBound, At
  <2>2. upset' \subseteq Project
    BY <1>0, <1>1, <1>4, TypesNow
  <2> HIDE DEF d, g
  <2> QED BY <1>0, <1>1, <1>2, <1>3, <2>1, <2>2, TypesNow, TypesAfter
<1>6. Quiet'
  BY <1>3 DEF Quiet
<1>7. ASSUME Good PROVE Good'
  <2>1. Ready' = Ready
    BY <1>1 DEF Ready
  <2>2. NowBehind'
    <3>1. Behind(d, g.tagged, g.merged, ReadyIn(g), upset)
      BY <1>0, <1>7 DEF Sound
    <3>2. Behind(d, tagged', merged', Ready', upset')
      BY <1>0, <1>1, <1>7, <2>1, <3>1, BehindGrows DEF FromBundles
    <3> HIDE DEF d
    <3>3. Behind(NewDump', tagged', merged', Ready', upset')
      BY <1>1, <3>2, DumpFields DEF Behind
    <3> QED BY <3>3 DEF NowBehind
  <2>3. BackupsSound'
    <3> SUFFICES ASSUME NEW c \in Tool \ restore.strays
                 PROVE  Sound(backup[c], tagged', merged', Ready', upset')
      BY <1>1, <1>3 DEF BackupsSound
    <3>1. Sound(backup[c], tagged, merged, Ready, upset)
      BY <1>7 DEF Good, BackupsSound
    <3> QED BY <1>1, <2>1, <3>1, SoundGrows
  <2>4. OneMaker'
    <3>1. \A q \in Project \ upset' : repo'[q] \in {"none", "ready"}
      BY <1>1 DEF HalfMade
    <3>2. \A c \in Creator, q \in Project \ upset' : ~IsMaking(c, q)'
      BY <1>1 DEF HalfMade, IsMaking, Making
    <3> QED BY <3>1, <3>2 DEF OneMaker, Makers
  <2>5. Rooted' /\ GitBack'
    BY <1>1, <1>3, <1>7, <2>1 DEF Good, Rooted, GitBack
  <2> QED BY <2>2, <2>3, <2>4, <2>5 DEF Good
<1> QED BY <1>3, <1>5, <1>6, <1>7 DEF RestoreInv

-----------------------------------------------------------------------------
(* The invariant.                                                           *)

LEMMA InitInv == Init => RestoreInv
<1> SUFFICES ASSUME Init PROVE RestoreInv
  OBVIOUS
<1>1. /\ schema = [made |-> {}, recorded |-> {}] /\ rows = [q \in Project |-> "none"]
      /\ repo = [q \in Project |-> "none"] /\ proc = [p \in Process |-> IdleProc] /\ faults = 0
      /\ tagged = {} /\ listed = {} /\ told = [c \in Caller |-> Nothing]
      /\ landed = {} /\ waiting = [t \in Topic |-> {}] /\ merged = {} /\ made = {} /\ upset = {}
      /\ backup = [b \in Tool |-> NoBackup]
      /\ restore = [phase |-> "none", from |-> CHOOSE b \in Tool : TRUE, count |-> 0,
                    strays |-> {}, sound |-> TRUE]
  BY DEF Init, PlaneInit
<1>2. /\ proposed \in [Proposal -> ProposalState]
      /\ \A p \in Proposal : proposed[p].status # "merged"
  <2>1. PICK x : x = [status |-> "none", branch |-> CHOOSE t \in Topic : TRUE]
    OBVIOUS
  <2>2. x \in ProposalState /\ x.status = "none"
    BY <2>1, FollowedAssumption DEF ProposalState
  <2>3. proposed = [p \in Proposal |-> x]
    BY <2>1 DEF Init
  <2> QED BY <2>2, <2>3
<1>3. restore \in RestoreState /\ restore.phase = "none"
  <2>1. (CHOOSE b \in Tool : TRUE) \in Tool /\ 0 \in 0..MaxRestores
    BY ToolAssumption, VersionAssumption
  <2> QED BY <1>1, <2>1 DEF RestoreState
<1>4. /\ PlaneTypeOK /\ ApplyBound
  <2>1. \A p \in Process : proc[p].pc = "idle"
    BY <1>1, IdleProcType
  <2>2. faults \in 0..MaxFaults /\ proc \in [Process -> ProcState]
    BY <1>1, BoundAssumption, IdleProcType
  <2> QED BY <1>1, <2>1, <2>2 DEF PlaneTypeOK, ApplyBound, At, RepoState
<1>5. Types
  <2>1. /\ backup \in [Tool -> BackupState] /\ \A b \in Tool : backup[b].phase = "none"
    BY <1>1, NoBackupSound
  <2>2. NewDump \in DumpType
    BY <1>1, <1>2, <1>4 DEF NewDump, DumpType, PlaneTypeOK
  <2>3. \A b \in Tool :
          /\ backup[b].phase \in {"none", "dumped", "bundling", "whole"}
          /\ backup[b].git \in BundlesType /\ backup[b].todo \subseteq Project
    BY <2>1 DEF BackupState
  <2> QED BY <1>1, <1>3, <1>4, <2>1, <2>2, <2>3 DEF Types, TypeOK, Phase, RestoreState
<1>6. NowBehind
  BY <1>1, <1>2, DumpFields DEF NowBehind, Behind
<1>7. Rooted
  BY <1>1 DEF Rooted, RootedIn
<1>8. BackupsSound
  BY <1>1, NoBackupSound DEF BackupsSound
<1>9. Quiet /\ GitBack /\ OneMaker
  <2>1. \A p \in Process : proc[p].pc = "idle"
    BY <1>1, IdleProcType
  <2> QED BY <1>1, <1>3, <2>1 DEF Quiet, GitBack, OneMaker, Makers, IsMaking, Process
<1> QED BY <1>5, <1>6, <1>7, <1>8, <1>9 DEF RestoreInv, Good

LEMMA NextInv == RestoreInv /\ [Next]_vars => RestoreInv'
<1> SUFFICES ASSUME RestoreInv, [Next]_vars PROVE RestoreInv'
  OBVIOUS
<1>1. CASE Coming
  BY <1>1, ComingStep
<1>2. CASE Releasing
  BY <1>2, ReleasingStep
<1>3. CASE Reviewing
  BY <1>3, ReviewingStep
<1>4. ASSUME NEW b \in Tool, BackupStep(b) PROVE RestoreInv'
  BY <1>4, PgDumpStep, BackupOpensStep, WalkStep, BackupDoneStep, BackupDiesStep, BundleStep
     DEF BackupStep
<1>5. CASE RestoreStep
  BY <1>5, GitStep, DbStep, StopStep DEF RestoreStep
<1>6. CASE UNCHANGED vars
  <2>1. UNCHANGED <<schema, rows, repo, proc, faults, tagged, listed, told, landed, waiting,
                    merged, proposed, made, upset, backup, restore>>
    BY <1>6 DEF vars, plane, flows, saving
  <2>2. NewDump' = NewDump /\ Ready' = Ready
    BY <2>1 DEF NewDump, Ready
  <2>3. Types'
    BY <2>1, <2>2 DEF RestoreInv, Types, TypeOK, PlaneTypeOK, ApplyBound, At, Phase
  <2>4. Good => NowBehind' /\ Rooted' /\ BackupsSound'
    BY <2>1, <2>2 DEF Good, NowBehind, Rooted, BackupsSound
  <2>5. Quiet' /\ (Good => GitBack' /\ OneMaker')
    BY <2>1, <2>2 DEF RestoreInv, Quiet, Good, GitBack, FromBundles, OneMaker, Makers, IsMaking, At
  <2> QED BY <2>1, <2>3, <2>4, <2>5 DEF RestoreInv, Good
<1> QED BY <1>1, <1>2, <1>3, <1>4, <1>5, <1>6 DEF Next

\* RestoreInv holds in every state: database, git, backups and the operator
\* agree as the comments of its parts say, also while commands that were under
\* way go on through a restore (cmd/ubiqo/ops.go cmdBackup,
\* gitstore.BundleAll, docs/runbooks/restore.md).
THEOREM RestoreInvariant == Spec => []RestoreInv
<1> QED BY InitInv, NextInv, PTL DEF Spec

\* Every variable keeps its type, the loop of store.Migrate and the contents
\* of backups included.
THEOREM PlaneTyped == Spec => []TypeOK
<1>1. RestoreInv => TypeOK
  BY DEF RestoreInv, Types
<1> QED BY <1>1, RestoreInvariant, PTL

\* Rows are projections of git (ADR-0004) across backups taken beside a
\* running server and restored, however many: what is listed is tagged, and
\* what is marked merged was merged.
THEOREM BehindGit == Spec => []RowsBehindGit
<1>1. RestoreInv => RowsBehindGit
  BY DumpFields DEF RestoreInv, Good, Whole, NowBehind, Behind, RowsBehindGit
<1> QED BY <1>1, RestoreInvariant, PTL

\* A project whose creation was reported has a row and a repository with a
\* main, whoever competes for it, writes to it before it has a main, fails at
\* it or restores it, unless a restore found or left it half made.
THEOREM CreatedUsable == Spec => []CreatedIsUsable
<1>1. RestoreInv => CreatedIsUsable
  BY DumpFields, TypesNow DEF RestoreInv, Good, Whole, NowBehind, Behind, CreatedIsUsable, Usable, Ready
<1> QED BY <1>1, RestoreInvariant, PTL

\* A release told of before the dump is in both planes after the restore.
THEOREM ToldRestored == Spec => []ToldIsRestored
<1>1. RestoreInv => ToldIsRestored
  BY DumpFields DEF RestoreInv, Good, Whole, NowBehind, Behind, ToldIsRestored
<1> QED BY <1>1, RestoreInvariant, PTL

-----------------------------------------------------------------------------
(* The schema.                                                              *)

\* A process that is past store.Migrate.
Past == {"serving", "open"} \cup Making

\* A migration is recorded together with its statements.
InStep(sch) == sch.made = sch.recorded

\* What process state x knows of schema sch: the migrations before its place in the loop
\* are recorded, and past the loop all are.
Seen(x, sch) ==
  /\ x.pc = "idle" => x.at = 1
  /\ x.pc \in Opening => \A i \in 1..Migrations : i < x.at => i \in sch.recorded
  /\ x.pc \in Past => 1..Migrations \subseteq sch.recorded

\* Dumps are of schemas that were in step, however old; a command that went on
\* through a restore knows nothing of the schema that came back.
SchemaInv ==
  /\ InStep(schema)
  /\ \A b \in Tool : backup[b].phase # "none" => InStep(backup[b].db.schema)
  /\ \A p \in Process \ restore.strays : Seen(proc[p], schema)

\* Nobody has less to know: the schema only gains, and a process that moves
\* knows what it needs.
LEMMA SchemaKept ==
  ASSUME SchemaInv, UNCHANGED <<backup, restore>>, InStep(schema'),
         schema.recorded \subseteq schema'.recorded,
         \A p \in Process \ restore.strays : proc'[p] = proc[p] \/ Seen(proc'[p], schema')
  PROVE  SchemaInv'
<1>1. \A p \in Process : Seen(proc[p], schema) => Seen(proc[p], schema')
  BY DEF Seen
<1>2. \A p \in Process \ restore.strays : Seen(proc'[p], schema')
  BY <1>1 DEF SchemaInv
<1> QED BY <1>2 DEF SchemaInv

LEMMA EndSees ==
  ASSUME PlaneTypeOK, NEW p \in Process, Succeed(p) \/ Exit(p)
  PROVE  \A o \in Process : proc'[o] = proc[o] \/ Seen(proc'[o], schema')
<1>1. Moves(p, "done") \/ Moves(p, "failed")
  BY EndMoves
<1> QED BY <1>1 DEF Moves, Seen, Opening, Past, Making

\* The loop of store.Migrate.
LEMMA MigrateSchema ==
  ASSUME PlaneTypeOK, ApplyBound, SchemaInv, NEW p \in Process, MigrateStep(p),
         UNCHANGED <<backup, restore>>
  PROVE  SchemaInv'
<1> DEFINE i == proc[p].at
<1>0. /\ proc \in [Process -> ProcState] /\ proc[p] \in ProcState /\ i \in 1..(Migrations + 1)
      /\ InStep(schema) /\ (p \notin restore.strays => Seen(proc[p], schema)) /\ Migrations \in Nat
      /\ schema \in [made : SUBSET (1..Migrations), recorded : SUBSET (1..Migrations)]
      /\ FirstStep(p) \in {"serving", "inserting", "open"}
  BY BoundAssumption DEF PlaneTypeOK, ProcState, SchemaInv, FirstStep
\* The process moves to state x of its own.
<1>a. ASSUME NEW x, proc' = [proc EXCEPT ![p] = x], p \notin restore.strays => Seen(x, schema'),
             InStep(schema'), schema.recorded \subseteq schema'.recorded
      PROVE  SchemaInv'
  <2>1. \A o \in Process \ restore.strays : proc'[o] = proc[o] \/ Seen(proc'[o], schema')
    BY <1>0, <1>a
  <2> QED BY <1>a, <2>1, SchemaKept
<1>1. CASE Start(p)
  <2> DEFINE next == [proc[p] EXCEPT !.pc = "migrating"]
  <2>1. proc' = [proc EXCEPT ![p] = next] /\ schema' = schema /\ proc[p].pc = "idle"
    BY <1>1 DEF Start, Go, At
  <2>2. next.pc = "migrating" /\ next.at = i
    BY <1>0 DEF ProcState
  <2> HIDE DEF next
  <2>3. p \notin restore.strays => Seen(next, schema)
    BY <1>0, <2>1, <2>2 DEF Seen, Past, Making
  <2> QED BY <1>0, <1>a, <2>1, <2>3
<1>2. CASE CheckMigration(p)
  <2> DEFINE next == IF i > Migrations THEN [proc[p] EXCEPT !.pc = FirstStep(p)]
                     ELSE IF i \in schema.recorded THEN [proc[p] EXCEPT !.at = i + 1]
                     ELSE [proc[p] EXCEPT !.pc = "applying"]
  <2>1. proc' = [proc EXCEPT ![p] = next] /\ proc[p].pc = "migrating" /\ schema' = schema
    BY <1>2 DEF CheckMigration, At
  <2>2. p \notin restore.strays => \A j \in 1..Migrations : j < i => j \in schema.recorded
    BY <1>0, <2>1 DEF Seen, Opening
  <2>3. ASSUME p \notin restore.strays PROVE Seen(next, schema)
    <3>1. CASE i > Migrations
      <4>1. next.pc = FirstStep(p)
        BY <1>0, <3>1 DEF ProcState
      <4>2. 1..Migrations \subseteq schema.recorded
        BY <1>0, <2>2, <2>3, <3>1
      <4> QED BY <1>0, <4>1, <4>2 DEF Seen, Opening
    <3>2. CASE ~(i > Migrations) /\ i \in schema.recorded
      <4>1. next.pc = "migrating" /\ next.at = i + 1
        BY <1>0, <2>1, <3>2 DEF ProcState
      <4>2. \A j \in 1..Migrations : j < i + 1 => j \in schema.recorded
        BY <1>0, <2>2, <2>3, <3>2
      <4> QED BY <4>1, <4>2 DEF Seen, Past, Making
    <3>3. CASE ~(i > Migrations) /\ i \notin schema.recorded
      <4>1. next.pc = "applying" /\ next.at = i
        BY <1>0, <3>3 DEF ProcState
      <4> QED BY <2>2, <2>3, <4>1 DEF Seen, Past, Making
    <3> QED BY <3>1, <3>2, <3>3
  <2> HIDE DEF next
  <2> QED BY <1>0, <1>a, <2>1, <2>3
<1>3. CASE Apply(p)
  <2>0. At(p, "applying") /\ i \in 1..Migrations
    BY <1>3 DEF Apply, ApplyBound
  <2>1. CASE i \in schema.made /\ Exit(p) /\ UNCHANGED schema
    BY <1>0, <2>1, EndSees, SchemaKept
  <2>2. CASE schema' = [made |-> schema.made \cup {i}, recorded |-> schema.recorded \cup {i}]
    <3>1. /\ InStep(schema') /\ schema'.recorded = schema.recorded \cup {i}
          /\ schema.recorded \subseteq schema'.recorded
      BY <1>0, <2>2 DEF InStep
    <3>2. CASE Exit(p)
      BY <3>1, <3>2, EndSees, SchemaKept
    <3>3. CASE proc' = [proc EXCEPT ![p].pc = "migrating", ![p].at = i + 1]
      <4> DEFINE next == [proc[p] EXCEPT !.pc = "migrating", !.at = i + 1]
      <4>1. proc' = [proc EXCEPT ![p] = next]
        BY <3>3
      <4>2. next.pc = "migrating" /\ next.at = i + 1
        BY <1>0 DEF ProcState
      <4> HIDE DEF next
      <4>3. ASSUME p \notin restore.strays
            PROVE  \A j \in 1..Migrations : j < i + 1 => j \in schema'.recorded
        <5>1. \A j \in 1..Migrations : j < i => j \in schema.recorded
          BY <1>0, <2>0, <4>3 DEF Seen, Opening, At
        <5> QED BY <1>0, <3>1, <5>1
      <4>4. p \notin restore.strays => Seen(next, schema')
        BY <4>2, <4>3 DEF Seen, Past, Making
      <4> QED BY <1>a, <3>1, <4>1, <4>4
    <3> QED BY <1>3, <2>0, <2>2, <3>2, <3>3 DEF Apply
  <2> QED BY <1>3, <2>1, <2>2 DEF Apply
<1> QED BY <1>1, <1>2, <1>3 DEF MigrateStep

\* Making a project, dying and starting again leave the schema as it is.
LEMMA PlaneSchema ==
  ASSUME PlaneTypeOK, ApplyBound, SchemaInv, UNCHANGED <<backup, restore>>,
         PlaneNext \/ \E c \in Creator : CreatorMoves(c)
  PROVE  SchemaInv'
<1>0. /\ proc \in [Process -> ProcState] /\ InStep(schema)
      /\ Server \subseteq Process /\ Creator \subseteq Process
  BY DEF PlaneTypeOK, SchemaInv, Process
<1>a. ASSUME UNCHANGED schema,
             \A p \in Process \ restore.strays : proc'[p] = proc[p] \/ Seen(proc'[p], schema')
      PROVE  SchemaInv'
  BY <1>0, <1>a, SchemaKept
\* A creator goes on with its project.
<1>b. ASSUME NEW p \in Creator, NEW pc \in Making, Moves(p, pc), proc[p].pc \in Making,
             UNCHANGED schema
      PROVE  SchemaInv'
  <2>1. p \notin restore.strays => Seen(proc[p], schema)
    BY <1>0 DEF SchemaInv
  <2>2. p \notin restore.strays => Seen(proc'[p], schema')
    BY <1>b, <2>1 DEF Seen, Moves, Past, Making, Opening
  <2> QED BY <1>a, <1>b, <2>2 DEF Moves
<1>c. ASSUME NEW p \in Process, Exit(p) \/ Succeed(p), UNCHANGED schema
      PROVE  SchemaInv'
  BY <1>a, <1>c, EndSees
<1>1. ASSUME NEW p \in Server \cup Creator, MigrateStep(p) PROVE SchemaInv'
  BY <1>0, <1>1, MigrateSchema
<1>2. ASSUME NEW p \in Server \cup Creator, Die(p) PROVE SchemaInv'
  BY <1>0, <1>2, <1>c DEF Die
<1>3. ASSUME NEW p \in Creator, EnsureStep(p) PROVE SchemaInv'
  <2>1. \/ Succeed(p) \/ Exit(p)
        \/ \E pc \in {"mkdir", "init", "push"} : Go(p, pc)
    BY <1>3 DEF EnsureStep, Stat, Mkdir, GitInit, PushInitial
  <2>2. UNCHANGED schema /\ proc[p].pc \in Making
    BY <1>3 DEF EnsureStep, Stat, Mkdir, GitInit, PushInitial, At, Making
  <2>3. {"mkdir", "init", "push"} \subseteq Making /\ Making \subseteq PC
    BY DEF Making, PC
  <2> QED BY <1>0, <1>b, <1>c, <2>1, <2>2, <2>3, GoMoves
<1>4. ASSUME NEW p \in Creator, NEW q \in Project, NEW mode \in Mode, Insert(p, q, mode)
      PROVE  SchemaInv'
  <2>1. UNCHANGED schema /\ proc[p].pc = "inserting"
    BY <1>4 DEF Insert, At
  <2>2. CASE proc' = [proc EXCEPT ![p].pc = "stat", ![p].project = q]
    <3> DEFINE next == [proc[p] EXCEPT !.pc = "stat", !.project = q]
    <3>1. next \in ProcState /\ next.pc = "stat"
      BY <1>0 DEF ProcState, PC, Making
    <3>2. proc' = [proc EXCEPT ![p] = next]
      BY <2>2
    <3> HIDE DEF next
    <3>3. Moves(p, "stat")
      BY <1>0, <3>1, <3>2 DEF Moves
    <3> QED BY <1>b, <2>1, <3>3 DEF Making
  <2> QED BY <1>0, <1>4, <1>c, <2>1, <2>2 DEF Insert
<1>5. ASSUME NEW s \in Server, Restart(s) PROVE SchemaInv'
  <2>1. proc' = [proc EXCEPT ![s] = IdleProc] /\ UNCHANGED schema
    BY <1>5 DEF Restart
  <2>2. Seen(IdleProc, schema)
    BY DEF Seen, IdleProc, Opening, Past, Making
  <2> QED BY <1>0, <1>a, <2>1, <2>2
<1>6. ASSUME NEW q \in Project, FirstWrite(q) PROVE SchemaInv'
  BY <1>6, <1>a DEF FirstWrite
<1> QED BY <1>1, <1>2, <1>3, <1>4, <1>5, <1>6 DEF PlaneNext, ServerMoves, CreatorMoves

\* A backup starts with a dump of the schema as it is and keeps it until it is
\* given up; process states that are not known to need less are kept.
LEMMA BackupSchema ==
  ASSUME SchemaInv, UNCHANGED schema,
         \A b \in Tool : \/ backup'[b].phase = "none"
                         \/ backup[b].phase # "none" /\ backup'[b].db = backup[b].db
                         \/ backup'[b].db.schema = schema,
         restore.strays \subseteq restore'.strays,
         \A p \in Process \ restore.strays : proc'[p] = proc[p] \/ Seen(proc'[p], schema')
  PROVE  SchemaInv'
<1>1. \A b \in Tool : backup'[b].phase # "none" => InStep(backup'[b].db.schema)
  BY DEF SchemaInv
<1>2. \A p \in Process \ restore'.strays : Seen(proc'[p], schema')
  BY DEF SchemaInv
<1> QED BY <1>1, <1>2 DEF SchemaInv

LEMMA ToolSchema ==
  ASSUME RestoreInv, SchemaInv, NEW b \in Tool, BackupStep(b)
  PROVE  SchemaInv'
<1>0. /\ PlaneTypeOK /\ ApplyBound /\ b \in Process /\ backup \in [Tool -> BackupState]
      /\ proc \in [Process -> ProcState] /\ NoBackup.phase = "none"
  BY TypesNow DEF RestoreInv, Process, PlaneTypeOK, NoBackup
<1>1. CASE BackupOpens(b)
  BY <1>0, <1>1, MigrateSchema DEF BackupOpens, saving
<1>a. ASSUME NEW k, backup' = [backup EXCEPT ![b] = k], UNCHANGED <<schema, restore>>,
             k.phase = "none" \/ (backup[b].phase # "none" /\ k.db = backup[b].db) \/ k.db.schema = schema,
             UNCHANGED proc \/ Succeed(b) \/ Exit(b)
      PROVE  SchemaInv'
  <2>1. \A p \in Process : proc'[p] = proc[p] \/ Seen(proc'[p], schema')
    BY <1>0, <1>a, EndSees
  <2>2. \A c \in Tool : \/ backup'[c].phase = "none"
                        \/ backup[c].phase # "none" /\ backup'[c].db = backup[c].db
                        \/ backup'[c].db.schema = schema
                        \/ backup'[c] = backup[c] /\ backup[c].phase # "none"
    BY <1>0, <1>a DEF BackupState
  <2> QED BY <1>a, <2>1, <2>2, BackupSchema
<1>2. CASE PgDump(b)
  <2> DEFINE k == [backup[b] EXCEPT !.phase = "dumped", !.db = NewDump]
  <2>1. backup' = [backup EXCEPT ![b] = k] /\ UNCHANGED <<schema, proc, restore>>
    BY <1>0, <1>2 DEF PgDump, plane
  <2>2. k.db = NewDump
    BY <1>0 DEF BackupState
  <2>3. NewDump.schema = schema
    BY DEF NewDump
  <2> HIDE DEF k
  <2> QED BY <1>a, <2>1, <2>2, <2>3
<1>3. CASE Walk(b)
  <2> DEFINE k == [backup[b] EXCEPT !.phase = "bundling",
                     !.todo = {q \in Project : repo[q] # "none"}]
  <2>1. backup' = [backup EXCEPT ![b] = k] /\ UNCHANGED <<schema, proc, restore>>
        /\ backup[b].phase # "none"
    BY <1>0, <1>3 DEF Walk, plane, Phase
  <2>2. k.db = backup[b].db
    BY <1>0 DEF BackupState
  <2> HIDE DEF k
  <2> QED BY <1>a, <2>1, <2>2
<1>4. ASSUME NEW q \in Project, Bundle(b, q) PROVE SchemaInv'
  <2>0. UNCHANGED <<schema, restore>> /\ backup[b].phase # "none"
    BY <1>4 DEF Bundle, Phase
  <2>1. CASE repo[q] \in {"branched", "ready"}
    <3> DEFINE k == [backup[b] EXCEPT !.todo = backup[b].todo \ {q}, !.git = WithRepo(backup[b].git, q)]
    <3>1. backup' = [backup EXCEPT ![b] = k] /\ UNCHANGED proc
      BY <1>4, <2>1 DEF Bundle
    <3>2. k.db = backup[b].db
      BY <1>0 DEF BackupState
    <3> HIDE DEF k
    <3> QED BY <1>a, <2>0, <3>1, <3>2
  <2>2. CASE repo[q] \notin {"branched", "ready"}
    BY <1>0, <1>4, <1>a, <2>0, <2>2 DEF Bundle
  <2> QED BY <2>1, <2>2
<1>5. CASE BackupDone(b)
  <2> DEFINE k == [backup[b] EXCEPT !.phase = "whole"]
  <2>1. /\ backup' = [backup EXCEPT ![b] = k] /\ UNCHANGED <<schema, restore>> /\ Succeed(b)
        /\ backup[b].phase # "none"
    BY <1>5 DEF BackupDone, Phase
  <2>2. k.db = backup[b].db
    BY <1>0 DEF BackupState
  <2> HIDE DEF k
  <2> QED BY <1>a, <2>1, <2>2
<1>6. CASE BackupDies(b)
  BY <1>0, <1>6, <1>a DEF BackupDies
<1> QED BY <1>1, <1>2, <1>3, <1>4, <1>5, <1>6 DEF BackupStep

\* The old schema comes back when nobody is left who has seen another, but for
\* the strays.
LEMMA RestoreSchema ==
  ASSUME RestoreInv, SchemaInv, RestoreStep
  PROVE  SchemaInv'
<1>0. /\ restore \in RestoreState /\ restore.from \in Tool /\ Quiet
      /\ backup \in [Tool -> BackupState] /\ NoBackup.phase = "none"
  BY TypesNow DEF RestoreInv, NoBackup, RestoreState
<1>1. CASE GitFromBundles
  <2>1. UNCHANGED <<schema, proc, backup>> /\ restore'.strays = restore.strays
    BY <1>0, <1>1 DEF GitFromBundles, RestoreState
  <2> QED BY <2>1 DEF SchemaInv
<1>2. CASE DbFromDump
  <2>1. /\ UNCHANGED <<proc, backup>> /\ schema' = backup[restore.from].db.schema
        /\ restore.phase = "git" /\ restore'.strays = restore.strays
    BY <1>0, <1>2 DEF DbFromDump, RestoreState
  <2>2. InStep(schema')
    BY <1>0, <2>1 DEF Quiet, SchemaInv
  <2>3. \A p \in Process \ restore.strays :
          Seen(proc[p], schema) /\ proc[p].pc \in {"idle", "done", "failed"}
    BY <1>0, <2>1 DEF Quiet, SchemaInv
  <2>4. \A p \in Process \ restore.strays : Seen(proc[p], schema')
    BY <2>3 DEF Seen, Opening, Past, Making
  <2> QED BY <2>1, <2>2, <2>4 DEF SchemaInv
<1>3. ASSUME NEW b \in Tool, Stop(b) PROVE SchemaInv'
  <2> DEFINE stopped == [IdleProc EXCEPT !.pc = "failed"]
  <2>0. PICK kept \in SUBSET UnderWay :
          /\ restore'.strays = restore.strays \cup kept
          /\ proc' = [p \in Process |-> IF p \in kept \/ At(p, "idle") \/ At(p, "done")
                                        THEN proc[p] ELSE stopped]
          /\ backup' = [c \in Tool |-> IF Phase(c, "whole") \/ c \in kept THEN backup[c]
                                        ELSE NoBackup]
    BY <1>3 DEF Stop
  <2>2. stopped.pc = "failed"
    BY DEF IdleProc
  <2> HIDE DEF stopped
  <2>3. \A p \in Process : proc'[p] = proc[p] \/ Seen(proc'[p], schema')
    BY <2>0, <2>2 DEF Seen, Opening, Past, Making
  <2>4. \A c \in Tool : backup'[c].phase = "none" \/ (backup'[c] = backup[c] /\ backup[c].phase # "none")
    BY <1>0, <2>0
  <2> QED BY <1>3, <2>0, <2>3, <2>4, BackupSchema DEF Stop
<1> QED BY <1>1, <1>2, <1>3 DEF RestoreStep

\* Statements and record are one transaction: what is not recorded is not
\* there, in the database and in every dump, so that every start can go on from
\* where the schema is (store.Migrate); and whoever was not under way through a
\* restore knows what is recorded before its place in the loop.
THEOREM SchemaInvariant == Spec => []SchemaInv
<1>1. Init => SchemaInv
  <2> SUFFICES ASSUME Init PROVE SchemaInv
    OBVIOUS
  <2>1. /\ schema.made = {} /\ schema.recorded = {}
        /\ \A p \in Process : proc[p].pc = "idle" /\ proc[p].at = 1
        /\ \A b \in Tool : backup[b].phase = "none"
    BY DEF Init, PlaneInit, IdleProc, NoBackup
  <2> QED BY <2>1 DEF SchemaInv, InStep, Seen, Opening, Past, Making
<1>2. RestoreInv /\ SchemaInv /\ [Next]_vars => SchemaInv'
  <2> SUFFICES ASSUME RestoreInv, SchemaInv, [Next]_vars PROVE SchemaInv'
    OBVIOUS
  <2>0. PlaneTypeOK /\ ApplyBound
    BY TypesNow DEF RestoreInv
  <2>1. CASE Coming
    BY <2>0, <2>1, PlaneSchema DEF Coming, saving
  <2>2. CASE Releasing \/ Reviewing \/ UNCHANGED vars
    <3>1. UNCHANGED <<schema, proc, backup, restore>>
      BY <2>2 DEF Releasing, Reviewing, vars, plane, saving
    <3> QED BY <3>1 DEF SchemaInv
  <2> QED BY <2>1, <2>2, ToolSchema, RestoreSchema DEF Next
<1> QED BY <1>1, <1>2, RestoreInvariant, PTL DEF Spec

\* Whoever is past store.Migrate works on every table, across any number of
\* processes, failures and restores of older schemas: every server, and every
\* command that was not under way when a server was stopped for a restore.
THEOREM OpenComplete == Spec => []OpenHasTables
<1>1. RestoreInv /\ SchemaInv => OpenHasTables
  <2> SUFFICES ASSUME RestoreInv, SchemaInv, NEW p \in Process \ restore.strays, proc[p].pc \in Past
               PROVE  schema.made = 1..Migrations
    BY DEF OpenHasTables, Past, HasTables
  <2>1. schema.made = schema.recorded /\ 1..Migrations \subseteq schema.recorded
    BY DEF SchemaInv, InStep, Seen
  <2>2. schema.made \subseteq 1..Migrations
    BY TypesNow DEF RestoreInv, PlaneTypeOK
  <2> QED BY <2>1, <2>2
<1> QED BY <1>1, RestoreInvariant, SchemaInvariant, PTL
=============================================================================
