------------------------------- MODULE Access -------------------------------
(***************************************************************************)
(* Who may do what, while an operator changes it: the organisations, users,*)
(* projects, memberships and device tokens of internal/store, the commands *)
(* of cmd/ubiqo/main.go that write them, and the requests that are decided *)
(* by them: authentication (internal/httpapi auth), projectCtx and gate of *)
(* internal/core, and memory, activity and whoami on top of these.         *)
(*                                                                         *)
(* Nothing in these tables is ever deleted, so a command that looks up its *)
(* rows and then writes one is a single step; `user create' writes two and *)
(* `setup' seven, and may fail or be killed between any two.  A request    *)
(* reads one statement at a time.  A project is named by its organisation  *)
(* and slug, as slugs repeat between organisations.  The tokens of one     *)
(* user in one organisation do not differ but in their labels: they are    *)
(* counted as one, "live" as long as one of them is not revoked.           *)
(***************************************************************************)
EXTENDS Authz, Sequences, FiniteSets, Naturals

CONSTANTS
  Org, User, Slug,
  NewOrg, NewOwner,     \* what `ubiqo setup' is run for
  OldOrg, OldOwner,     \* an organisation that is there already
  Request,              \* the requests, each answered once
  Limit,                \* how many memories or events an answer holds
  MaxCommands           \* bound: commands in one behaviour, setup aside

ASSUME OrgAssumption == NewOrg \in Org /\ OldOrg \in Org \ {NewOrg}
ASSUME OwnerAssumption == NewOwner \in User /\ OldOwner \in User \ {NewOwner}
ASSUME SlugAssumption == Slug # {}
ASSUME RequestAssumption == IsFiniteSet(Request)
ASSUME AccessBoundAssumption == Limit \in Nat /\ MaxCommands \in Nat

VARIABLES
  orgs,      \* database: organisations
  users,     \* database: users, of the whole plane
  orgRole,   \* database: org_memberships
  projects,  \* database: projects
  role,      \* database: project_memberships
  tokens,    \* database: device_tokens
  memories,  \* database: memories, in the order of their creation
  events,    \* database: how many events each project has
  setup,     \* the setup command: how far it is
  joining,   \* `user create': users made, and not yet in their organisation
  req,       \* the requests and where each stands
  commands   \* how many other commands have run

control == <<orgs, users, orgRole, projects, role, tokens>>
content == <<memories, events>>
vars == <<control, content, setup, joining, req, commands>>

Project == Org \X Slug
OrgOf(p) == p[1]
Identity == Org \X User        \* whom a token stands for
TokenState == {"none", "live", "revoked"}

\* The scope of a memory is "user" or "project"; no operation makes one for a
\* whole organisation.  The column that does not apply is null.
Null == "null"
Memory == [org : Org, scope : {"user", "project"}, user : User \cup {Null},
           project : Project \cup {Null}, from : Request]

AnySlug == CHOOSE s \in Slug : TRUE

SetupPC == {"org", "user", "owner", "token", "project", "maintainer", "print", "printed", "failed"}

\* A recall without a query is "recall", one with a query is "search".
Op == {"remember user", "remember project", "recall", "search", "activity", "report", "whoami"}
Recalls == {"recall", "search"}
ReqPC == {"idle", "asked", "resolved", "counted", "listing", "done"}

\* who, org, project: the caller, its role in the organisation when it was
\* authenticated, and what is asked for; role: the one it is decided by; count,
\* shown: the answer.  For the properties: before, the roles a caller of whoami
\* had when it was authenticated; acked, the memories there were by then;
\* matches, those that a recall is about.
ReqState ==
  [pc : ReqPC, op : Op, who : Identity, org : OrgRole, project : Project, role : ProjectRole,
   count : Nat, shown : SUBSET (1..Cardinality(Request)),
   matches : SUBSET (1..Cardinality(Request)), listed : SUBSET Project,
   todo : SUBSET Project, before : [Project -> ProjectRole], acked : Nat]

\* The role of an identity, whose role in the organisation is org, on a project.
RoleOn(who, org, p) ==
  IF OrgOf(p) = who[1] /\ p \in projects THEN EffectiveRole(org, role[<<p, who[2]>>]) ELSE "none"
Effective(who, p) == RoleOn(who, orgRole[who], p)

IdleReq ==
  [pc |-> "idle", op |-> "recall", who |-> <<OldOrg, OldOwner>>, org |-> "none", project |-> <<OldOrg, AnySlug>>,
   role |-> "none", count |-> 0, shown |-> {}, matches |-> {}, listed |-> {}, todo |-> {},
   before |-> [p \in Project |-> "none"], acked |-> 0]

Init ==
  /\ orgs = {OldOrg} /\ users = {OldOwner}
  /\ orgRole = [i \in Identity |-> IF i = <<OldOrg, OldOwner>> THEN "owner" ELSE "none"]
  /\ projects = {<<OldOrg, AnySlug>>}
  /\ role = [i \in Project \X User |->
               IF i = <<<<OldOrg, AnySlug>>, OldOwner>> THEN "maintainer" ELSE "none"]
  /\ tokens = [i \in Identity |-> IF i = <<OldOrg, OldOwner>> THEN "live" ELSE "none"]
  /\ memories = <<>> /\ events = [p \in Project |-> 0]
  /\ setup = "org" /\ joining = {}
  /\ req = [r \in Request |-> IdleReq]
  /\ commands = 0

-----------------------------------------------------------------------------
(* ubiqo setup: main.go cmdSetup, with --project.                          *)

First == <<NewOrg, NewOwner>>
FirstProject == <<NewOrg, AnySlug>>

\* The next statement, or its failure.  A failure ends the command, with what
\* it wrote left behind; the token of a setup that failed is never shown.
Setup(from, to) == setup = from /\ setup' \in {to, "failed"}

SetupOrg ==
  /\ Setup("org", "user") /\ NewOrg \notin orgs
  /\ orgs' = orgs \cup {NewOrg}
  /\ UNCHANGED <<users, orgRole, projects, role, tokens, content, joining, req, commands>>

\* Usernames are unique in the plane: `user create' may have taken this one.
SetupUser ==
  /\ setup = "user"
  /\ IF NewOwner \in users
     THEN setup' = "failed" /\ UNCHANGED users
     ELSE setup' \in {"owner", "failed"} /\ users' = users \cup {NewOwner}
  /\ UNCHANGED <<orgs, orgRole, projects, role, tokens, content, joining, req, commands>>

\* Wrong: the error of AddOrgMember ignored, as in `user create'.
SetupOwnerBestEffort ==
  /\ Setup("owner", "token")
  /\ orgRole' \in {orgRole, [orgRole EXCEPT ![First] = "owner"]}
  /\ UNCHANGED <<orgs, users, projects, role, tokens, content, joining, req, commands>>

SetupOwner ==
  /\ Setup("owner", "token")
  /\ orgRole' = [orgRole EXCEPT ![First] = "owner"]
  /\ UNCHANGED <<orgs, users, projects, role, tokens, content, joining, req, commands>>

SetupToken ==
  /\ Setup("token", "project")
  /\ tokens' = [tokens EXCEPT ![First] = "live"]
  /\ UNCHANGED <<orgs, users, orgRole, projects, role, content, joining, req, commands>>

\* Unique (org_id, slug): `project create' may have taken it.
SetupProject ==
  /\ setup = "project"
  /\ IF FirstProject \in projects
     THEN setup' = "failed" /\ UNCHANGED projects
     ELSE setup' \in {"maintainer", "failed"} /\ projects' = projects \cup {FirstProject}
  /\ UNCHANGED <<orgs, users, orgRole, role, tokens, content, joining, req, commands>>

SetupMaintainer ==
  /\ Setup("maintainer", "print")
  /\ role' = [role EXCEPT ![<<FirstProject, NewOwner>>] = "maintainer"]
  /\ UNCHANGED <<orgs, users, orgRole, projects, tokens, content, joining, req, commands>>

\* gitstore.EnsureRepo (module Projects), and the token is shown, once.
SetupPrint ==
  /\ Setup("print", "printed")
  /\ UNCHANGED <<control, content, joining, req, commands>>

\* A statement fails without effect.
SetupFails ==
  /\ setup \notin {"printed", "failed"}
  /\ setup' = "failed"
  /\ UNCHANGED <<control, content, joining, req, commands>>

-----------------------------------------------------------------------------
(* The other commands: main.go cmdAdmin.  Each may also fail without effect.*)

Command == commands < MaxCommands /\ commands' = commands + 1

\* The user, whether the organisation named is found or not.
UserCreate(o, u) ==
  /\ Command
  /\ u \notin users
  /\ users' = users \cup {u}
  /\ joining' = joining \cup ({o} \cap orgs) \X {u}
  /\ UNCHANGED <<orgs, orgRole, projects, role, tokens, content, setup, req>>

\* AddOrgMember.  Its failure is not looked at, the command may be killed before
\* it, and no other command adds a membership.
UserJoin(i) ==
  /\ i \in joining
  /\ joining' = joining \ {i}
  /\ orgRole' \in {orgRole, [orgRole EXCEPT ![i] = "member"]}
  /\ UNCHANGED <<orgs, users, projects, role, tokens, content, setup, req, commands>>

ProjectCreate(p) ==
  /\ Command
  /\ OrgOf(p) \in orgs /\ p \notin projects
  /\ projects' = projects \cup {p}
  /\ UNCHANGED <<orgs, users, orgRole, role, tokens, content, setup, joining, req>>

\* Any user of the plane may join any project; a role may be changed, not taken.
AddMember(p, u, to) ==
  /\ Command
  /\ p \in projects /\ u \in users /\ role[<<p, u>>] # to
  /\ role' = [role EXCEPT ![<<p, u>>] = to]
  /\ UNCHANGED <<orgs, users, orgRole, projects, tokens, content, setup, joining, req>>

\* Wrong: neither the organisation nor the user is looked up.
DeviceForAnyone(o, u) ==
  /\ Command
  /\ tokens[<<o, u>>] # "live"
  /\ tokens' = [tokens EXCEPT ![<<o, u>>] = "live"]
  /\ UNCHANGED <<orgs, users, orgRole, projects, role, content, setup, joining, req>>

DeviceCreate(o, u) ==
  /\ Command
  /\ o \in orgs /\ u \in users /\ tokens[<<o, u>>] # "live"
  /\ tokens' = [tokens EXCEPT ![<<o, u>>] = "live"]
  /\ UNCHANGED <<orgs, users, orgRole, projects, role, content, setup, joining, req>>

DeviceRevoke(i) ==
  /\ Command
  /\ tokens[i] = "live"
  /\ tokens' = [tokens EXCEPT ![i] = "revoked"]
  /\ UNCHANGED <<orgs, users, orgRole, projects, role, content, setup, joining, req>>

-----------------------------------------------------------------------------
(* One request.                                                            *)

At(r, pc) == req[r].pc = pc
Go(r, pc) == req' = [req EXCEPT ![r].pc = pc]
Fail(r) == req' = [req EXCEPT ![r] = IdleReq]    \* and may be made again
Untouched == UNCHANGED <<control, setup, joining, commands>>

\* store.Authenticate: the token, its user and the role in its organisation in
\* one statement.  That role is kept for the whole request, while the one on the
\* project is read anew.
Authenticate(r, who, slug, op) ==
  /\ At(r, "idle") /\ tokens[who] = "live"
  /\ req' = [req EXCEPT ![r] =
       [@ EXCEPT !.pc = "asked", !.op = op, !.who = who, !.org = orgRole[who],
                 !.project = <<who[1], slug>>,
                 !.before = [p \in Project |-> IF op = "whoami" THEN Effective(who, p) ELSE "none"],
                 !.acked = IF op \in Recalls THEN Len(memories) ELSE 0]]
  /\ Untouched /\ UNCHANGED content

Needs(op) == CASE op \in {"remember user", "remember project"} -> "memory.write"
               [] op \in Recalls -> "memory.read"
               [] op \in {"activity", "report"} -> "activity.read"

\* Wrong: the fallback for all members of the organisation.
ResolveMemberFallback(r) ==
  LET q == req[r]
      own == role[<<q.project, q.who[2]>>]
      as == IF own = "none" /\ q.org # "none" THEN "maintainer" ELSE own
  IN  /\ At(r, "asked") /\ q.op # "whoami"
      /\ IF q.project \in projects /\ Can(as, Needs(q.op))
         THEN req' = [req EXCEPT ![r].pc = "resolved", ![r].role = as]
         ELSE Fail(r)
      /\ Untouched /\ UNCHANGED content

\* projectCtx and gate.  The slug is looked up in the caller's organisation.
Resolve(r) ==
  LET q == req[r]
      as == EffectiveRole(q.org, role[<<q.project, q.who[2]>>])
  IN  /\ At(r, "asked") /\ q.op # "whoami"
      /\ IF q.project \in projects /\ Can(as, Needs(q.op))
         THEN req' = [req EXCEPT ![r].pc = "resolved", ![r].role = as]
         ELSE Fail(r)
      /\ Untouched /\ UNCHANGED content

\* Remember: the row belongs to the caller or to the project.
Remember(r) ==
  LET q == req[r]
      own == q.op = "remember user"
  IN  /\ At(r, "resolved") /\ q.op \in {"remember user", "remember project"}
      /\ memories' = Append(memories,
           [org |-> q.who[1], scope |-> IF own THEN "user" ELSE "project",
            user |-> IF own THEN q.who[2] ELSE Null,
            project |-> IF own THEN Null ELSE q.project, from |-> r])
      /\ Go(r, "done")
      /\ Untouched /\ UNCHANGED events

\* Wrong: private memories are found from every organisation.
VisibleAnyOrg(m, who, p) ==
  \/ m.scope = "user" /\ m.user = who[2]
  \/ m.org = who[1] /\ m.scope = "project" /\ m.project = p

\* store.Recall: the memories that the caller may see.
Visible(m, who, p) ==
  /\ m.org = who[1]
  /\ \/ m.scope = "user" /\ m.user = who[2]
     \/ m.scope = "project" /\ m.project = p

VisibleTo(q) == {i \in DOMAIN memories : Visible(memories[i], q.who, q.project)}

\* Without a query the newest of those come first ...
Newest(I) == {i \in I : Cardinality({j \in I : j > i}) < Limit}

\* ... and with one, those it matches best, in whatever order ts_rank puts them.
BestRanked(I, S) ==
  /\ S \subseteq I
  /\ Cardinality(S) = IF Cardinality(I) > Limit THEN Limit ELSE Cardinality(I)

RecallAnswers(r, matches, shown) ==
  /\ req' = [req EXCEPT ![r].pc = "done", ![r].matches = matches, ![r].shown = shown]
  /\ Untouched /\ UNCHANGED content

\* Wrong: the limit is taken before the filter.
RecallLimitFirst(r) ==
  /\ At(r, "resolved") /\ req[r].op = "recall"
  /\ RecallAnswers(r, VisibleTo(req[r]), Newest(DOMAIN memories) \cap VisibleTo(req[r]))

Recall(r) ==
  /\ At(r, "resolved") /\ req[r].op = "recall"
  /\ RecallAnswers(r, VisibleTo(req[r]), Newest(VisibleTo(req[r])))

\* Recall with a query: some of the memories match it.
Search(r) ==
  /\ At(r, "resolved") /\ req[r].op = "search"
  /\ \E matches \in SUBSET VisibleTo(req[r]) :
       \E shown \in SUBSET matches :
         BestRanked(matches, shown) /\ RecallAnswers(r, matches, shown)

\* RecordSessionEnd and AppendEvent.
Report(r) ==
  /\ At(r, "resolved") /\ req[r].op = "report"
  /\ events' = [events EXCEPT ![req[r].project] = @ + 1]
  /\ Go(r, "done")
  /\ Untouched /\ UNCHANGED memories

AtMostLimit(n) == IF n > Limit THEN Limit ELSE n

\* Wrong: all events are counted.
CountAll(r) ==
  /\ At(r, "resolved") /\ req[r].op = "activity"
  /\ req' = [req EXCEPT ![r].pc = "counted", ![r].count = events[req[r].project]]
  /\ Untouched /\ UNCHANGED content

\* Activity reads the events for the count ...
Count(r) ==
  /\ At(r, "resolved") /\ req[r].op = "activity"
  /\ req' = [req EXCEPT ![r].pc = "counted", ![r].count = AtMostLimit(events[req[r].project])]
  /\ Untouched /\ UNCHANGED content

\* ... and again for the digest; an answer to the caller.
Digest(r) ==
  /\ At(r, "counted")
  /\ req' = [req EXCEPT ![r].pc = "done", ![r].shown = 1..AtMostLimit(events[req[r].project])]
  /\ Untouched /\ UNCHANGED content

\* WhoAmI lists the projects of the organisation ...
ListProjects(r) ==
  /\ At(r, "asked") /\ req[r].op = "whoami"
  /\ req' = [req EXCEPT ![r].pc = "listing", ![r].todo = {p \in projects : OrgOf(p) = req[r].who[1]}]
  /\ Untouched /\ UNCHANGED content

\* Wrong: the members' own roles only.
ListOwnRole(r, p) ==
  /\ At(r, "listing") /\ p \in req[r].todo
  /\ req' = [req EXCEPT ![r].todo = @ \ {p},
                ![r].listed = IF role[<<p, req[r].who[2]>>] = "none" THEN @ ELSE @ \cup {p}]
  /\ Untouched /\ UNCHANGED content

\* ... and looks up the caller's role on each, by slug.
ListRole(r, p) ==
  /\ At(r, "listing") /\ p \in req[r].todo
  /\ req' = [req EXCEPT ![r].todo = @ \ {p},
                ![r].listed = IF RoleOn(req[r].who, req[r].org, p) = "none" THEN @ ELSE @ \cup {p}]
  /\ Untouched /\ UNCHANGED content

Listed(r) ==
  /\ At(r, "listing") /\ req[r].todo = {}
  /\ Go(r, "done")
  /\ Untouched /\ UNCHANGED content

\* The database fails, or the client goes away.
RequestFails(r) ==
  /\ req[r].pc \in {"asked", "resolved", "counted", "listing"}
  /\ Fail(r)
  /\ Untouched /\ UNCHANGED content

-----------------------------------------------------------------------------

SetupStep ==
  \/ SetupOrg \/ SetupUser \/ SetupOwner \/ SetupToken \/ SetupProject \/ SetupMaintainer
  \/ SetupPrint \/ SetupFails

CommandStep ==
  \/ \E o \in Org, u \in User : UserCreate(o, u) \/ DeviceCreate(o, u)
  \/ \E p \in Project : ProjectCreate(p)
  \/ \E p \in Project, u \in User, to \in ProjectRole \ {"none"} : AddMember(p, u, to)
  \/ \E i \in Identity : UserJoin(i) \/ DeviceRevoke(i)

RequestStep(r) ==
  \/ \E who \in Identity, slug \in Slug, op \in Op : Authenticate(r, who, slug, op)
  \/ Resolve(r) \/ Remember(r) \/ Recall(r) \/ Search(r) \/ Report(r) \/ Count(r) \/ Digest(r)
  \/ ListProjects(r) \/ Listed(r) \/ RequestFails(r)
  \/ \E p \in Project : ListRole(r, p)

Next == SetupStep \/ CommandStep \/ \E r \in Request : RequestStep(r)

Spec == Init /\ [][Next]_vars

-----------------------------------------------------------------------------
(* Properties.                                                              *)

\* Every variable keeps its type; projects and tokens are of organisations
\* and users that exist.
TypeOK ==
  /\ orgs \subseteq Org /\ users \subseteq User
  /\ orgRole \in [Identity -> OrgRole]
  /\ projects \subseteq {p \in Project : OrgOf(p) \in orgs}
  /\ role \in [Project \X User -> ProjectRole]
  /\ tokens \in [Identity -> TokenState]
  /\ \A i \in Identity : tokens[i] # "none" => i[1] \in orgs /\ i[2] \in users
  /\ joining \subseteq {i \in Identity : i[1] \in orgs /\ i[2] \in users}
  /\ memories \in Seq(Memory) /\ Len(memories) <= Cardinality(Request)
  /\ events \in [Project -> 0..Cardinality(Request)]
  /\ setup \in SetupPC
  /\ req \in [Request -> ReqState]
  /\ commands \in 0..MaxCommands

\* A request is decided by the role its caller has at that moment: the one it
\* was given on the project or, only if it was given none, maintainer, because
\* it is an owner or an admin of the organisation still, although that was read
\* by an earlier statement.  (An owner who was given a lower role is held to it,
\* against a comment of the code: ManagersMaintain, below.)
RoleWasHeld ==
  [][\A r \in Request : At(r, "asked") /\ req'[r].pc = "resolved" =>
       LET who == req[r].who
           own == role[<<req[r].project, who[2]>>]
       IN  IF own # "none" THEN req'[r].role = own
                           ELSE req'[r].role = "maintainer" /\ OrgCanManage(orgRole[who])]_vars

\* What a caller recalls was remembered in the same organisation, either by
\* the caller, or for the team of the project that is asked about.
RecallIsolated ==
  \A r \in Request : At(r, "done") /\ req[r].op \in Recalls =>
    \A i \in req[r].shown :
      LET by == req[memories[i].from]
      IN  /\ by.who[1] = req[r].who[1]
          /\ \/ by.op = "remember user" /\ by.who = req[r].who
             \/ by.op = "remember project" /\ by.project = req[r].project

\* What was remembered before the request began, is for its caller to see and
\* matches its query, if it has one, is recalled, unless the answer is full: of
\* newer memories without a query, of others that match, old or new, with one.
RememberedIsFound ==
  \A r \in Request : At(r, "done") /\ req[r].op \in Recalls =>
    \A i \in 1..req[r].acked :
      /\ Visible(memories[i], req[r].who, req[r].project)
      /\ req[r].op = "search" => i \in req[r].matches
      => \/ i \in req[r].shown
         \/ /\ Cardinality(req[r].shown) = Limit
            /\ \A j \in req[r].shown : IF req[r].op = "search" THEN j \in req[r].matches ELSE j > i

\* The digest has at least as many events as the count beside it says,
\* although the table was read twice.
DigestCoversCount ==
  \A r \in Request : At(r, "done") /\ req[r].op = "activity" =>
    req[r].count <= Cardinality(req[r].shown)

\* "ubiqo_whoami lists your projects": each project the caller could use when
\* it asked is listed, by the same rule that projectCtx decides by.
UsableIsListed ==
  \A r \in Request : At(r, "done") /\ req[r].op = "whoami" =>
    \A p \in projects : req[r].before[p] # "none" => p \in req[r].listed

\* A setup that showed its token left that token in the table, revoked at most,
\* and an owner who can use the new project with it, whatever failed on the way
\* and whatever other commands ran meanwhile.
ShownTokenWorks ==
  setup = "printed" =>
    /\ tokens[First] # "none"
    /\ NewOwner \in users /\ OrgCanManage(orgRole[First])
    /\ FirstProject \in projects /\ Effective(First, FirstProject) # "none"

(* What a comment says, and the code does not do.                           *)

\* "org owners/admins get maintainer on every project": a request of an owner
\* or an admin is decided as one of a maintainer.
ManagersMaintain ==
  \A r \in Request : At(r, "resolved") /\ OrgCanManage(req[r].org) => req[r].role = "maintainer"
=============================================================================
