------------------------------ MODULE AccessProofs ------------------------------
(***************************************************************************)
(* Proofs about Access, for any organisations, users, projects, commands   *)
(* and limits, and any finite set of requests.                              *)
(***************************************************************************)
EXTENDS Access, FiniteSetTheorems, TLAPS

ControlType ==
  /\ orgs \subseteq Org /\ users \subseteq User
  /\ orgRole \in [Identity -> OrgRole]
  /\ projects \subseteq {p \in Project : OrgOf(p) \in orgs}
  /\ role \in [Project \X User -> ProjectRole]
  /\ tokens \in [Identity -> TokenState]
  /\ \A i \in Identity : tokens[i] # "none" => i[1] \in orgs /\ i[2] \in users
  /\ joining \subseteq {i \in Identity : i[1] \in orgs /\ i[2] \in users}
  /\ setup \in SetupPC /\ commands \in 0..MaxCommands

\* What setup has left behind when it comes to its next statement.  Whoever
\* rules an organisation is a user, and no `user create' is about to make it a
\* plain member (AddOrgMember would overwrite the role).
Progress ==
  /\ setup \notin {"org", "failed"} => NewOrg \in orgs
  /\ setup \notin {"org", "user", "failed"} => NewOwner \in users
  /\ setup \notin {"org", "user", "owner", "failed"} => orgRole[First] = "owner"
  /\ setup \in {"project", "maintainer", "print", "printed"} => tokens[First] # "none"
  /\ setup \in {"maintainer", "print", "printed"} => FirstProject \in projects
  /\ setup \notin {"org", "user", "failed"} => First \notin joining
  /\ \A i \in Identity : OrgCanManage(orgRole[i]) => i[2] \in users /\ i \notin joining

\* One row was written by each request that was made to write one.
Writers == {r \in Request : At(r, "done") /\ req[r].op \in {"remember user", "remember project"}}
Reporters(p) == {r \in Request : At(r, "done") /\ req[r].op = "report" /\ req[r].project = p}
Tally ==
  /\ memories \in Seq(Memory) /\ Len(memories) = Cardinality(Writers)
  /\ events \in [Project -> Nat] /\ \A p \in Project : events[p] = Cardinality(Reporters(p))

\* Memory m is what request q was made to remember.
IsFrom(m, q) ==
  /\ q.pc = "done" /\ m.org = q.who[1]
  /\ m.scope = "user" => q.op = "remember user" /\ m.user = q.who[2]
  /\ m.scope = "project" => q.op = "remember project" /\ m.project = q.project
Remembered == \A i \in 1..Len(memories) : IsFrom(memories[i], req[memories[i].from])

\* What request q goes by is its caller's: a project of its organisation, and
\* the role in it of a user who exists, which was not taken away since.
Authentic(q, U, O) ==
  /\ q.project[1] = q.who[1]
  /\ OrgCanManage(q.org) => q.who[2] \in U /\ OrgCanManage(O[q.who])
  /\ q.pc = "counted" => q.op = "activity"
  /\ q.pc = "listing" => q.op = "whoami"

\* The projects that q's caller could use when it was authenticated can still
\* be used, are listed or are still to come.
Usables(q, P, R) ==
  \A p \in Project : q.before[p] # "none" =>
    /\ p \in P /\ OrgOf(p) = q.who[1] /\ EffectiveRole(q.org, R[<<p, q.who[2]>>]) # "none"
    /\ q.pc = "listing" => p \in q.todo \cup q.listed
    /\ q.pc = "done" /\ q.op = "whoami" => p \in q.listed

\* The answer to a recall, from the memories M that there were.
FullAt(q, i) ==
  /\ Cardinality(q.shown) = Limit
  /\ \A j \in q.shown : IF q.op = "search" THEN j \in q.matches ELSE j > i
Recalled(q, M) ==
  /\ q.acked <= Len(M)
  /\ q.pc = "done" /\ q.op \in Recalls =>
       /\ \A i \in q.shown : i \in 1..Len(M) /\ Visible(M[i], q.who, q.project)
       /\ \A i \in 1..q.acked :
            Visible(M[i], q.who, q.project) /\ (q.op = "search" => i \in q.matches) =>
              i \in q.shown \/ FullAt(q, i)

\* The count of an activity digest, from the events E that there were.
Counted(q, E) ==
  /\ q.pc = "counted" => q.count <= AtMostLimit(E[q.project])
  /\ q.pc = "done" /\ q.op = "activity" => q.count <= Cardinality(q.shown)

Answers ==
  /\ req \in [Request -> ReqState]
  /\ \A r \in Request :
       /\ Authentic(req[r], users, orgRole) /\ Usables(req[r], projects, role)
       /\ Recalled(req[r], memories) /\ Counted(req[r], events)

AccessInv == ControlType /\ Progress /\ Tally /\ Remembered /\ Answers

-----------------------------------------------------------------------------
(* What operators return.                                                   *)

\* Newest takes the Limit greatest of a set that has more.
LEMMA NewestFull ==
  ASSUME NEW I \in SUBSET Nat, IsFiniteSet(I), NEW i \in I, i \notin Newest(I)
  PROVE  Cardinality(Newest(I)) = Limit /\ \A j \in Newest(I) : j > i
<1> DEFINE Above(j) == {k \in I : k > j}
           n == Cardinality(I)
           f == [j \in I |-> Cardinality(Above(j))]
           N == Newest(I)
<1>0. n \in Nat /\ Limit \in Nat /\ n - 1 \in Int /\ Limit - 1 \in Int
  BY FS_CardinalityType, AccessBoundAssumption
<1> HIDE DEF n
<1>1. ASSUME NEW j \in I
      PROVE  IsFiniteSet(Above(j)) /\ Cardinality(Above(j)) \in 0..(n - 1)
  <2>1. IsFiniteSet(I \ {j}) /\ Cardinality(I \ {j}) = n - 1
    BY FS_RemoveElement DEF n
  <2>2. Above(j) \in SUBSET (I \ {j})
    OBVIOUS
  <2>3. IsFiniteSet(Above(j)) /\ Cardinality(Above(j)) <= n - 1
    BY <2>1, <2>2, FS_Subset
  <2> QED BY <1>0, <2>3, FS_CardinalityType
<1>2. ASSUME NEW j \in I, NEW k \in I, k > j
      PROVE  f[k] < f[j]
  <2>0. k \notin Above(k) /\ \A l \in Above(k) : l \in Above(j)
    BY <1>2
  <2>2. Above(k) \cup {k} \in SUBSET Above(j)
    BY <1>2, <2>0
  <2>1. Cardinality(Above(k) \cup {k}) = Cardinality(Above(k)) + 1
    <3>1. IsFiniteSet(Above(k))
      BY <1>1
    <3> HIDE DEF Above
    <3> QED BY <2>0, <3>1, FS_AddElement
  <2>3. Cardinality(Above(k) \cup {k}) <= Cardinality(Above(j))
    BY <1>1, <2>2, FS_Subset
  <2> HIDE DEF Above
  <2> QED BY <1>0, <1>1, <2>1, <2>3
<1>3. f \in [I -> 0..(n - 1)]
  BY <1>1
<1>4. N = {j \in I : f[j] < Limit}
  BY DEF Newest
<1>5. IsFiniteSet(0..(n - 1)) /\ Cardinality(0..(n - 1)) = n
  <2>1. IsFiniteSet(0..(n - 1))
        /\ Cardinality(0..(n - 1)) = IF 0 > n - 1 THEN 0 ELSE (n - 1) - 0 + 1
    BY <1>0, FS_Interval
  <2> QED BY <1>0, <2>1
<1> HIDE DEF f, N
<1>6. \A j, k \in I : f[j] = f[k] => j = k
  BY <1>0, <1>2, <1>3
<1>7. f \in Injection(I, 0..(n - 1))
  BY <1>3, <1>6 DEF Injection, IsInjective
<1>8. \A t \in 0..(n - 1) : \E s \in I : f[s] = t
  <2>1. Cardinality(I) = n
    BY DEF n
  <2>2. f \in Surjection(I, 0..(n - 1))
    BY <1>5, <1>7, <2>1, FS_Injection
  <2> QED BY <2>2 DEF Surjection
<1>9. f[i] >= Limit /\ f[i] \in 0..(n - 1)
  BY <1>0, <1>3, <1>4 DEF N
<1>10. Cardinality(N) = Limit
  <2> DEFINE g == [j \in N |-> f[j]]
  <2>1. g \in [N -> 0..(Limit - 1)]
    <3>1. \A j \in N : f[j] \in 0..(n - 1) /\ f[j] < Limit
      BY <1>3, <1>4
    <3>2. \A j \in N : f[j] \in 0..(Limit - 1)
      BY <1>0, <3>1
    <3> QED BY <3>2
  <2>2. g \in Injection(N, 0..(Limit - 1))
    BY <1>4, <1>6, <2>1 DEF Injection, IsInjective
  <2>3. g \in Surjection(N, 0..(Limit - 1))
    <3>1. ASSUME NEW t \in 0..(Limit - 1) PROVE \E s \in N : g[s] = t
      <4>1. t \in 0..(n - 1) /\ t < Limit
        BY <1>0, <1>9
      <4>2. PICK s \in I : f[s] = t
        BY <1>8, <4>1
      <4> QED BY <1>4, <4>1, <4>2
    <3> QED BY <2>1, <3>1 DEF Surjection
  <2>4. IsFiniteSet(0..(Limit - 1)) /\ Cardinality(0..(Limit - 1)) = Limit
    <3>1. IsFiniteSet(0..(Limit - 1))
          /\ Cardinality(0..(Limit - 1)) = IF 0 > Limit - 1 THEN 0 ELSE (Limit - 1) - 0 + 1
      BY <1>0, FS_Interval
    <3> QED BY <1>0, <3>1
  <2> HIDE DEF g
  <2> QED BY <2>2, <2>3, <2>4, FS_Injection
<1>11. \A j \in N : j > i
  <2> SUFFICES ASSUME NEW j \in N PROVE j > i
    OBVIOUS
  <2>1. j \in I /\ f[j] < Limit /\ f[j] \in 0..(n - 1)
    BY <1>3, <1>4
  <2>2. j # i /\ ~(i > j)
    BY <1>0, <1>2, <1>9, <2>1
  <2> QED BY <2>1, <2>2
<1> QED BY <1>10, <1>11 DEF N

\* A role on a project, once given, is not nothing any more.
LEMMA RoleStays ==
  ASSUME NEW org, NEW a, NEW b, EffectiveRole(org, a) # "none", a # "none" => b # "none"
  PROVE  EffectiveRole(org, b) # "none"
BY DEF EffectiveRole

-----------------------------------------------------------------------------
(* The operator's commands.                                                 *)

\* Nothing is taken away, but tokens; content and requests are left alone.
ControlGrows ==
  /\ users \subseteq users' /\ projects \subseteq projects'
  /\ \A i \in Identity : i[2] \in users /\ OrgCanManage(orgRole[i]) => OrgCanManage(orgRole'[i])
  /\ \A i \in Project \X User : role[i] # "none" => role'[i] # "none"
  /\ UNCHANGED <<memories, events, req>>

LEMMA ConstantTypes ==
  /\ First \in Identity /\ FirstProject \in Project
  /\ <<OldOrg, OldOwner>> \in Identity /\ <<OldOrg, AnySlug>> \in Project
  /\ OrgOf(FirstProject) = NewOrg /\ OrgOf(<<OldOrg, AnySlug>>) = OldOrg
<1>1. AnySlug \in Slug
  BY SlugAssumption DEF AnySlug
<1> QED BY <1>1, OrgAssumption, OwnerAssumption DEF First, FirstProject, Identity, Project, OrgOf

LEMMA SetupKeeps ==
  ASSUME ControlType, Progress, SetupStep
  PROVE  ControlType' /\ Progress' /\ ControlGrows
<1>0. setup \in SetupPC /\ NewOrg \in Org /\ NewOwner \in User /\ First[2] = NewOwner
  BY OrgAssumption, OwnerAssumption DEF ControlType, First
<1>1. CASE SetupOrg
  BY <1>0, <1>1 DEF SetupOrg, Setup, ControlType, Progress, ControlGrows, content, SetupPC
<1>2. CASE SetupUser
  BY <1>0, <1>2 DEF SetupUser, ControlType, Progress, ControlGrows, content, SetupPC
<1>3. CASE SetupOwner
  <2>1. /\ setup = "owner" /\ setup' \in {"token", "failed"} /\ orgRole' = [orgRole EXCEPT ![First] = "owner"]
        /\ UNCHANGED <<orgs, users, projects, role, tokens, memories, events, joining, req, commands>>
    BY <1>3 DEF SetupOwner, Setup, content
  <2>2. orgRole \in [Identity -> OrgRole] /\ "owner" \in OrgRole
    BY DEF ControlType, OrgRole
  <2>3. orgRole' \in [Identity -> OrgRole] /\ orgRole'[First] = "owner"
        /\ \A i \in Identity : i # First => orgRole'[i] = orgRole[i]
    BY <2>1, <2>2, ConstantTypes
  <2>4. ControlType'
    BY <2>1, <2>3 DEF ControlType, SetupPC
  <2>6. Progress'
    <3>1. /\ NewOrg \in orgs /\ NewOwner \in users /\ First \notin joining
          /\ \A i \in Identity : OrgCanManage(orgRole[i]) => i[2] \in users /\ i \notin joining
      BY <2>1 DEF Progress
    <3>2. \A i \in Identity : OrgCanManage(orgRole'[i]) => i[2] \in users /\ i \notin joining
      BY <1>0, <2>3, <3>1
    <3> QED BY <2>1, <2>3, <3>1, <3>2 DEF Progress
  <2>5. ControlGrows
    BY <2>1, <2>3 DEF ControlGrows, OrgCanManage
  <2> QED BY <2>4, <2>5, <2>6
<1>4. CASE SetupToken
  <2>1. First[1] \in orgs /\ First[2] \in users /\ First \in Identity
    BY <1>4, ConstantTypes DEF SetupToken, Setup, Progress, First
  <2>2. /\ setup = "token" /\ setup' \in {"project", "failed"}
        /\ tokens' = [tokens EXCEPT ![First] = "live"]
        /\ UNCHANGED <<orgs, users, orgRole, projects, role, memories, events, joining, req, commands>>
    BY <1>4 DEF SetupToken, Setup, content
  <2>3. tokens \in [Identity -> TokenState] /\ "live" \in TokenState
    BY DEF ControlType, TokenState
  <2>4. tokens' \in [Identity -> TokenState] /\ tokens'[First] = "live"
        /\ \A i \in Identity : i # First => tokens'[i] = tokens[i]
    BY <2>1, <2>2, <2>3
  <2>5. ControlType'
    BY <2>1, <2>2, <2>4 DEF ControlType, SetupPC
  <2>6. Progress'
    BY <2>2, <2>4 DEF Progress
  <2> QED BY <2>2, <2>5, <2>6 DEF ControlGrows
<1>5. CASE SetupProject
  <2>1. FirstProject \in Project /\ OrgOf(FirstProject) \in orgs
    BY <1>5, ConstantTypes DEF SetupProject, Progress
  <2> QED BY <1>0, <1>5, <2>1 DEF SetupProject, ControlType, Progress, ControlGrows, content, SetupPC
<1>6. CASE SetupMaintainer
  <2>1. /\ setup = "maintainer" /\ setup' \in {"print", "failed"}
        /\ role' = [role EXCEPT ![<<FirstProject, NewOwner>>] = "maintainer"]
        /\ UNCHANGED <<orgs, users, orgRole, projects, tokens, memories, events, joining, req, commands>>
    BY <1>6 DEF SetupMaintainer, Setup, content
  <2>2. role \in [Project \X User -> ProjectRole] /\ "maintainer" \in ProjectRole
    BY DEF ControlType, ProjectRole
  <2>3. role' \in [Project \X User -> ProjectRole]
        /\ \A i \in Project \X User : role[i] # "none" => role'[i] # "none"
    BY <2>1, <2>2
  <2> QED BY <2>1, <2>3 DEF ControlType, Progress, ControlGrows, SetupPC
<1>7. CASE SetupPrint
  BY <1>0, <1>7 DEF SetupPrint, Setup, ControlType, Progress, ControlGrows, control, content, SetupPC
<1>8. CASE SetupFails
  BY <1>0, <1>8 DEF SetupFails, ControlType, Progress, ControlGrows, control, content, SetupPC
<1> QED BY <1>1, <1>2, <1>3, <1>4, <1>5, <1>6, <1>7, <1>8 DEF SetupStep

\* The token of identity i, an organisation and a user that exist, becomes to.
TokensMove(i, to) == to \in TokenState \ {"none"} /\ tokens' = [tokens EXCEPT ![i] = to]

LEMMA TokensMoved ==
  ASSUME ControlType, Progress, NEW i \in Identity, NEW to, TokensMove(i, to),
         i[1] \in orgs, i[2] \in users, commands' \in 0..MaxCommands,
         UNCHANGED <<orgs, users, orgRole, projects, role, memories, events, setup, joining, req>>
  PROVE  ControlType' /\ Progress' /\ ControlGrows
<1>1. tokens \in [Identity -> TokenState]
  BY DEF ControlType
<1>2. /\ tokens' \in [Identity -> TokenState] /\ tokens'[i] # "none"
      /\ \A k \in Identity : k # i => tokens'[k] = tokens[k]
  BY <1>1 DEF TokensMove
<1>3. ControlType'
  BY <1>2 DEF ControlType
<1>4. Progress'
  BY <1>2, ConstantTypes DEF Progress
<1> QED BY <1>3, <1>4 DEF ControlGrows

LEMMA CommandKeeps ==
  ASSUME ControlType, Progress, CommandStep
  PROVE  ControlType' /\ Progress' /\ ControlGrows
<1>0. /\ orgRole \in [Identity -> OrgRole] /\ role \in [Project \X User -> ProjectRole]
      /\ First \in Identity /\ First[2] = NewOwner
  BY ConstantTypes DEF ControlType, First
<1>1. ASSUME Command PROVE commands' \in 0..MaxCommands
  BY <1>1, AccessBoundAssumption DEF Command, ControlType
<1>2. ASSUME NEW o \in Org, NEW u \in User, UserCreate(o, u)
      PROVE  ControlType' /\ Progress' /\ ControlGrows
  <2>1. /\ u \notin users /\ users' = users \cup {u}
        /\ joining' = joining \cup ({o} \cap orgs) \X {u}
        /\ UNCHANGED <<orgs, orgRole, projects, role, tokens, memories, events, setup, req>>
        /\ commands' \in 0..MaxCommands
    BY <1>1, <1>2 DEF UserCreate, content
  <2>2. \A i \in joining' : i \in joining \/ (i \in Identity /\ i[1] \in orgs /\ i[2] = u)
    BY <2>1 DEF Identity
  <2>3. ControlType'
    <3>1. joining' \subseteq {i \in Identity : i[1] \in orgs /\ i[2] \in users'}
      BY <2>1, <2>2 DEF ControlType
    <3> QED BY <2>1, <3>1 DEF ControlType
  <2>4. Progress'
    BY <1>0, <2>1, <2>2 DEF Progress
  <2> QED BY <2>1, <2>3, <2>4 DEF ControlGrows
<1>3. ASSUME NEW o \in Org, NEW u \in User, DeviceCreate(o, u)
      PROVE  ControlType' /\ Progress' /\ ControlGrows
  <2>1. <<o, u>> \in Identity /\ <<o, u>>[1] = o /\ <<o, u>>[2] = u
    BY DEF Identity
  <2>2. /\ o \in orgs /\ u \in users /\ tokens' = [tokens EXCEPT ![<<o, u>>] = "live"]
        /\ UNCHANGED <<orgs, users, orgRole, projects, role, memories, events, setup, joining, req>>
        /\ commands' \in 0..MaxCommands
    BY <1>1, <1>3 DEF DeviceCreate, content
  <2>3. TokensMove(<<o, u>>, "live")
    BY <2>1, <2>2 DEF TokensMove, TokenState
  <2> QED BY <2>1, <2>2, <2>3, TokensMoved
<1>4. ASSUME NEW p \in Project, ProjectCreate(p)
      PROVE  ControlType' /\ Progress' /\ ControlGrows
  BY <1>1, <1>4 DEF ProjectCreate, ControlType, Progress, ControlGrows, content
<1>5. ASSUME NEW p \in Project, NEW u \in User, NEW to \in ProjectRole \ {"none"}, AddMember(p, u, to)
      PROVE  ControlType' /\ Progress' /\ ControlGrows
  <2>1. /\ role' = [role EXCEPT ![<<p, u>>] = to] /\ commands' \in 0..MaxCommands
        /\ UNCHANGED <<orgs, users, orgRole, projects, tokens, memories, events, setup, joining, req>>
    BY <1>1, <1>5 DEF AddMember, content
  <2>2. role' \in [Project \X User -> ProjectRole]
        /\ \A i \in Project \X User : role[i] # "none" => role'[i] # "none"
    BY <1>0, <2>1
  <2> QED BY <2>1, <2>2 DEF ControlType, Progress, ControlGrows
<1>6. ASSUME NEW i \in Identity, DeviceRevoke(i)
      PROVE  ControlType' /\ Progress' /\ ControlGrows
  <2>1. /\ tokens[i] = "live" /\ tokens' = [tokens EXCEPT ![i] = "revoked"]
        /\ UNCHANGED <<orgs, users, orgRole, projects, role, memories, events, setup, joining, req>>
        /\ commands' \in 0..MaxCommands
    BY <1>1, <1>6 DEF DeviceRevoke, content
  <2>2. i[1] \in orgs /\ i[2] \in users
    BY <2>1 DEF ControlType
  <2>3. TokensMove(i, "revoked")
    BY <2>1 DEF TokensMove, TokenState
  <2> QED BY <2>1, <2>2, <2>3, TokensMoved
<1>7. ASSUME NEW i \in Identity, UserJoin(i)
      PROVE  ControlType' /\ Progress' /\ ControlGrows
  <2>1. /\ i \in joining /\ joining' = joining \ {i}
        /\ orgRole' = orgRole \/ orgRole' = [orgRole EXCEPT ![i] = "member"]
        /\ UNCHANGED <<orgs, users, projects, role, tokens, memories, events, setup, req, commands>>
    BY <1>7 DEF UserJoin, content
  <2>2. "member" \in OrgRole /\ ~OrgCanManage("member")
    BY DEF OrgRole, OrgCanManage
  <2>3. /\ orgRole' \in [Identity -> OrgRole]
        /\ \A k \in Identity : k # i => orgRole'[k] = orgRole[k]
        /\ orgRole'[i] \in {orgRole[i], "member"}
    BY <1>0, <2>1, <2>2
  <2>4. ControlType'
    BY <2>1, <2>3 DEF ControlType
  <2>5. \A k \in Identity : OrgCanManage(orgRole[k]) => k # i
    BY <2>1 DEF Progress
  <2>6. Progress'
    <3>1. setup \notin {"org", "user", "failed"} => First # i
      BY <2>1 DEF Progress
    <3>2. ASSUME NEW k \in Identity, OrgCanManage(orgRole'[k])
          PROVE  k[2] \in users /\ k \notin joining'
      <4>1. orgRole'[k] = orgRole[k]
        <5>1. CASE k = i
          BY <2>3, <3>2, <5>1 DEF OrgCanManage
        <5>2. CASE k # i
          BY <2>3, <5>2
        <5> QED BY <5>1, <5>2
      <4>2. k[2] \in users /\ k \notin joining
        BY <3>2, <4>1 DEF Progress
      <4> QED BY <2>1, <4>2
    <3>3. ASSUME setup \notin {"org", "user", "owner", "failed"}
          PROVE  orgRole'[First] = "owner"
      <4>1. orgRole[First] = "owner"
        BY <3>3 DEF Progress
      <4>2. orgRole'[First] = orgRole[First]
        BY <1>0, <2>3, <3>1, <3>3
      <4> QED BY <4>1, <4>2
    <3> QED BY <2>1, <3>1, <3>2, <3>3 DEF Progress
  <2>7. \A k \in Identity : OrgCanManage(orgRole[k]) => OrgCanManage(orgRole'[k])
    BY <2>3, <2>5
  <2> QED BY <2>1, <2>4, <2>6, <2>7 DEF ControlGrows
<1> QED BY <1>2, <1>3, <1>4, <1>5, <1>6, <1>7 DEF CommandStep

-----------------------------------------------------------------------------
(* What the commands leave true of the requests.                            *)

LEMMA ControlKeeps ==
  ASSUME AccessInv, ControlType', Progress', ControlGrows
  PROVE  AccessInv'
<1>1. UNCHANGED <<memories, events, req>>
  BY DEF ControlGrows
<1>2. Tally' /\ Remembered'
  BY <1>1 DEF AccessInv, Tally, Writers, Reporters, Remembered, At
<1>3. ASSUME NEW q \in ReqState, Authentic(q, users, orgRole)
      PROVE  Authentic(q, users', orgRole')
  <2>1. q.who \in Identity
    BY DEF ReqState
  <2> QED BY <1>3, <2>1 DEF Authentic, ControlGrows
<1>4. ASSUME NEW q \in ReqState, Usables(q, projects, role)
      PROVE  Usables(q, projects', role')
  <2> SUFFICES ASSUME NEW p \in Project, q.before[p] # "none"
               PROVE  /\ p \in projects' /\ OrgOf(p) = q.who[1]
                      /\ EffectiveRole(q.org, role'[<<p, q.who[2]>>]) # "none"
                      /\ q.pc = "listing" => p \in q.todo \cup q.listed
                      /\ q.pc = "done" /\ q.op = "whoami" => p \in q.listed
    BY DEF Usables
  <2>1. q.who[2] \in User
    BY DEF ReqState, Identity
  <2>2. <<p, q.who[2]>> \in Project \X User
    BY <2>1
  <2>3. role[<<p, q.who[2]>>] # "none" => role'[<<p, q.who[2]>>] # "none"
    BY <2>2 DEF ControlGrows
  <2>4. /\ p \in projects /\ OrgOf(p) = q.who[1]
        /\ EffectiveRole(q.org, role[<<p, q.who[2]>>]) # "none"
        /\ q.pc = "listing" => p \in q.todo \cup q.listed
        /\ q.pc = "done" /\ q.op = "whoami" => p \in q.listed
    BY <1>4 DEF Usables
  <2>5. EffectiveRole(q.org, role'[<<p, q.who[2]>>]) # "none"
    BY <2>3, <2>4, RoleStays
  <2> QED BY <2>4, <2>5 DEF ControlGrows
<1>5. Answers'
  <2>1. req' \in [Request -> ReqState]
    BY <1>1 DEF AccessInv, Answers
  <2>2. ASSUME NEW r \in Request
        PROVE  /\ Authentic(req'[r], users', orgRole') /\ Usables(req'[r], projects', role')
               /\ Recalled(req'[r], memories') /\ Counted(req'[r], events')
    <3>1. req[r] \in ReqState
      BY DEF AccessInv, Answers
    <3> QED BY <1>1, <1>3, <1>4, <3>1 DEF AccessInv, Answers
  <2> QED BY <2>1, <2>2 DEF Answers
<1> QED BY <1>2, <1>5 DEF AccessInv

-----------------------------------------------------------------------------
(* The requests.                                                            *)

\* Request r, which was not answered yet, becomes x, and nobody else moves.
Turn(r, x) ==
  /\ req[r].pc # "done" /\ x \in ReqState
  /\ req' = [req EXCEPT ![r] = x]
  /\ Untouched

Writes(x) == x.pc = "done" /\ x.op \in {"remember user", "remember project"}
Reports(x) == x.pc = "done" /\ x.op = "report"

\* x is as AccessInv has it of a request.
Fits(x) ==
  /\ Authentic(x, users, orgRole) /\ Usables(x, projects, role)
  /\ Recalled(x, memories) /\ Counted(x, events)

LEMMA Bounds ==
  ASSUME Tally
  PROVE  /\ Cardinality(Request) \in Nat
         /\ Len(memories) \in 0..Cardinality(Request) /\ DOMAIN memories = 1..Len(memories)
         /\ events \in [Project -> 0..Cardinality(Request)]
         /\ IsFiniteSet(Writers) /\ \A p \in Project : IsFiniteSet(Reporters(p))
<1>1. Cardinality(Request) \in Nat
  BY RequestAssumption, FS_CardinalityType
<1>2. IsFiniteSet(Writers) /\ Cardinality(Writers) <= Cardinality(Request)
  BY RequestAssumption, FS_Subset DEF Writers
<1>3. ASSUME NEW p \in Project
      PROVE  IsFiniteSet(Reporters(p)) /\ Cardinality(Reporters(p)) <= Cardinality(Request)
  BY RequestAssumption, FS_Subset DEF Reporters
<1>4. Len(memories) \in Nat /\ DOMAIN memories = 1..Len(memories)
  BY DEF Tally
<1>5. Len(memories) \in 0..Cardinality(Request)
  BY <1>1, <1>2, <1>4 DEF Tally
<1>6. \A p \in Project : events[p] \in 0..Cardinality(Request)
  BY <1>1, <1>3 DEF Tally
<1>7. events \in [Project -> 0..Cardinality(Request)]
  BY <1>6 DEF Tally
<1> QED BY <1>1, <1>2, <1>3, <1>4, <1>5, <1>7

\* Who has written, after a turn.
LEMMA TurnWriters ==
  ASSUME Answers, NEW r \in Request, NEW x, Turn(r, x)
  PROVE  /\ \A o \in Request : req'[o] = IF o = r THEN x ELSE req[o]
         /\ r \notin Writers /\ Writers' = IF Writes(x) THEN Writers \cup {r} ELSE Writers
         /\ \A p \in Project :
              /\ r \notin Reporters(p)
              /\ Reporters(p)' = IF Reports(x) /\ x.project = p THEN Reporters(p) \cup {r}
                                 ELSE Reporters(p)
<1>1. \A o \in Request : req'[o] = IF o = r THEN x ELSE req[o]
  BY DEF Turn, Answers
<1>2. req[r].pc # "done"
  BY DEF Turn
<1>3. r \notin Writers /\ Writers' = IF Writes(x) THEN Writers \cup {r} ELSE Writers
  BY <1>1, <1>2 DEF Writers, Writes, At
<1>4. ASSUME NEW p \in Project
      PROVE  /\ r \notin Reporters(p)
             /\ Reporters(p)' = IF Reports(x) /\ x.project = p THEN Reporters(p) \cup {r}
                                ELSE Reporters(p)
  BY <1>1, <1>2 DEF Reporters, Reports, At
<1> QED BY <1>1, <1>3, <1>4

\* What was remembered is there for good, as is who remembered it.
LEMMA TurnRemembered ==
  ASSUME AccessInv, NEW r \in Request, NEW x, Turn(r, x), NEW i \in 1..Len(memories)
  PROVE  IsFrom(memories[i], req'[memories[i].from])
<1> DEFINE o == memories[i].from
<1>1. o \in Request
  <2>1. memories[i] \in Memory
    BY DEF AccessInv, Tally
  <2> QED BY <2>1 DEF Memory
<1>2. IsFrom(memories[i], req[o])
  BY DEF AccessInv, Remembered
<1>3. req[o].pc = "done"
  BY <1>2 DEF IsFrom
<1>4. o # r
  BY <1>3 DEF Turn
<1>5. req'[o] = req[o]
  BY <1>1, <1>4, TurnWriters DEF AccessInv
<1> QED BY <1>2, <1>5

\* Content only grows.
ContentGrows ==
  /\ Len(memories') \in Nat /\ Len(memories) <= Len(memories')
  /\ \A i \in 1..Len(memories) : memories'[i] = memories[i]
  /\ \A p \in Project : events[p] \in Nat /\ events'[p] \in Nat /\ events[p] <= events'[p]

LEMMA TurnAnswers ==
  ASSUME AccessInv, NEW r \in Request, NEW x, Turn(r, x), ContentGrows,
         Authentic(x, users, orgRole), Usables(x, projects, role),
         Recalled(x, memories'), Counted(x, events')
  PROVE  Answers'
<1>1. UNCHANGED <<users, orgRole, projects, role>>
  BY DEF Turn, Untouched, control
<1>2. req' \in [Request -> ReqState] /\ \A o \in Request : req'[o] = IF o = r THEN x ELSE req[o]
  BY TurnWriters DEF AccessInv, Answers, Turn
<1>3. ASSUME NEW q \in ReqState, Recalled(q, memories)
      PROVE  Recalled(q, memories')
  <2>1. q.acked \in Nat /\ Len(memories) \in Nat
    BY DEF ReqState, AccessInv, Tally
  <2>2. \A i \in 1..q.acked : i \in 1..Len(memories)
    BY <1>3, <2>1 DEF Recalled
  <2>3. \A i \in 1..Len(memories) : i \in 1..Len(memories') /\ memories'[i] = memories[i]
    BY <2>1 DEF ContentGrows
  <2>4. q.acked <= Len(memories')
    BY <1>3, <2>1 DEF Recalled, ContentGrows
  <2> QED BY <1>3, <2>2, <2>3, <2>4 DEF Recalled
<1>4. ASSUME NEW q \in ReqState, Counted(q, events)
      PROVE  Counted(q, events')
  <2>1. q.project \in Project /\ q.count \in Nat /\ Limit \in Nat
    BY AccessBoundAssumption DEF ReqState
  <2> QED BY <1>4, <2>1 DEF Counted, AtMostLimit, ContentGrows
<1>5. ASSUME NEW o \in Request
      PROVE  /\ Authentic(req'[o], users', orgRole') /\ Usables(req'[o], projects', role')
             /\ Recalled(req'[o], memories') /\ Counted(req'[o], events')
  <2>1. req[o] \in ReqState
    BY DEF AccessInv, Answers
  <2> QED BY <1>1, <1>2, <1>3, <1>4, <2>1 DEF AccessInv, Answers
<1> QED BY <1>2, <1>5 DEF Answers

\* A turn that writes nothing.
LEMMA PlainTurn ==
  ASSUME AccessInv, NEW r \in Request, NEW x, Turn(r, x), UNCHANGED content,
         ~Writes(x), ~Reports(x), Fits(x)
  PROVE  AccessInv'
<1>0. UNCHANGED <<memories, events>> /\ Tally
  BY DEF content, AccessInv
<1>1. UNCHANGED <<orgs, users, orgRole, projects, role, tokens, setup, joining, commands>>
  BY DEF Turn, Untouched, control
<1>2. ControlType' /\ Progress'
  BY <1>1 DEF AccessInv, ControlType, Progress
<1>3. Tally'
  <2>1. Writers' = Writers /\ \A p \in Project : Reporters(p)' = Reporters(p)
    BY TurnWriters DEF AccessInv
  <2> QED BY <1>0, <2>1 DEF Tally
<1>4. Remembered'
  BY <1>0, TurnRemembered DEF Remembered
<1>5. ContentGrows
  BY <1>0, Bounds DEF ContentGrows
<1>6. Answers'
  BY <1>0, <1>5, TurnAnswers DEF Fits
<1> QED BY <1>2, <1>3, <1>4, <1>6 DEF AccessInv

\* A turn that remembers m.
LEMMA RememberTurn ==
  ASSUME AccessInv, NEW r \in Request, NEW x, Turn(r, x), Writes(x), ~Reports(x), Fits(x),
         NEW m \in Memory, m.from = r, IsFrom(m, x),
         memories' = Append(memories, m), UNCHANGED events
  PROVE  AccessInv'
<1>0. Tally /\ memories \in Seq(Memory)
  BY DEF AccessInv, Tally
<1>1. UNCHANGED <<orgs, users, orgRole, projects, role, tokens, setup, joining, commands>>
  BY DEF Turn, Untouched, control
<1>2. ControlType' /\ Progress'
  BY <1>1 DEF AccessInv, ControlType, Progress
<1>3. /\ memories' \in Seq(Memory) /\ Len(memories') = Len(memories) + 1
      /\ memories'[Len(memories) + 1] = m
      /\ \A i \in 1..Len(memories) : memories'[i] = memories[i]
  BY <1>0
<1>4. Tally'
  <2>1. Writers' = Writers \cup {r} /\ r \notin Writers
        /\ \A p \in Project : Reporters(p)' = Reporters(p)
    BY TurnWriters DEF AccessInv
  <2>2. Cardinality(Writers') = Cardinality(Writers) + 1
    BY <1>0, <2>1, Bounds, FS_AddElement
  <2> QED BY <1>0, <1>3, <2>1, <2>2 DEF Tally
<1>5. Remembered'
  <2> SUFFICES ASSUME NEW i \in 1..Len(memories')
               PROVE  IsFrom(memories'[i], req'[memories'[i].from])
    BY DEF Remembered
  <2>1. CASE i \in 1..Len(memories)
    BY <1>3, <2>1, TurnRemembered
  <2>2. CASE i = Len(memories) + 1
    BY <1>3, <2>2, TurnWriters DEF AccessInv
  <2>3. Len(memories) \in Nat
    BY <1>0
  <2> QED BY <1>3, <2>1, <2>2, <2>3
<1>6. ContentGrows
  BY <1>0, <1>3, Bounds DEF ContentGrows
<1>7. Recalled(x, memories')
  <2>1. x.op \notin Recalls
    BY DEF Writes, Recalls
  <2>2. x.acked \in Nat
    BY DEF Turn, ReqState
  <2>3. x.acked <= Len(memories) /\ Len(memories) \in Nat
    BY <1>0 DEF Fits, Recalled
  <2> QED BY <1>3, <2>1, <2>2, <2>3 DEF Recalled
<1>8. Answers'
  BY <1>6, <1>7, TurnAnswers DEF Fits
<1> QED BY <1>2, <1>4, <1>5, <1>8 DEF AccessInv

\* A turn that reports an event.
LEMMA ReportTurn ==
  ASSUME AccessInv, NEW r \in Request, NEW x, Turn(r, x), ~Writes(x), Reports(x), Fits(x),
         events' = [events EXCEPT ![x.project] = events[x.project] + 1], UNCHANGED memories
  PROVE  AccessInv'
<1>0. Tally /\ x.project \in Project /\ events \in [Project -> Nat]
  BY DEF AccessInv, Tally, Turn, ReqState
<1>1. UNCHANGED <<orgs, users, orgRole, projects, role, tokens, setup, joining, commands>>
  BY DEF Turn, Untouched, control
<1>2. ControlType' /\ Progress'
  BY <1>1 DEF AccessInv, ControlType, Progress
<1>3. /\ events' \in [Project -> Nat] /\ events'[x.project] = events[x.project] + 1
      /\ \A p \in Project : p # x.project => events'[p] = events[p]
  BY <1>0
<1>4. Tally'
  <2>1. Writers' = Writers
    BY TurnWriters DEF AccessInv
  <2>2. ASSUME NEW p \in Project PROVE events'[p] = Cardinality(Reporters(p)')
    <3>1. CASE p = x.project
      <4>1. Reporters(p)' = Reporters(p) \cup {r} /\ r \notin Reporters(p)
        BY <3>1, TurnWriters DEF AccessInv
      <4>2. IsFiniteSet(Reporters(p))
        BY <1>0, Bounds
      <4>3. Cardinality(Reporters(p) \cup {r}) = Cardinality(Reporters(p)) + 1
        BY <4>1, <4>2, FS_AddElement
      <4> QED BY <1>0, <1>3, <3>1, <4>1, <4>3 DEF Tally
    <3>2. CASE p # x.project
      <4>1. Reporters(p)' = Reporters(p)
        BY <3>2, TurnWriters DEF AccessInv
      <4> QED BY <1>0, <1>3, <3>2, <4>1 DEF Tally
    <3> QED BY <3>1, <3>2
  <2> QED BY <1>0, <1>3, <2>1, <2>2 DEF Tally
<1>5. Remembered'
  BY TurnRemembered DEF Remembered
<1>6. ContentGrows
  BY <1>0, <1>3, Bounds DEF ContentGrows
<1>7. Counted(x, events')
  BY DEF Counted, Reports
<1>8. Answers'
  BY <1>6, <1>7, TurnAnswers DEF Fits
<1> QED BY <1>2, <1>4, <1>5, <1>8 DEF AccessInv

-----------------------------------------------------------------------------
(* Each step of a request.                                                  *)

\* x goes on with what request q was authenticated with.
GoesOn(q, x) ==
  /\ x.op = q.op /\ x.who = q.who /\ x.org = q.org /\ x.project = q.project
  /\ x.before = q.before /\ x.acked = q.acked

LEMMA GoesOnAuthentic ==
  ASSUME NEW q, NEW x, NEW U, NEW O, Authentic(q, U, O), GoesOn(q, x),
         x.pc = "counted" => q.op = "activity", x.pc = "listing" => q.op = "whoami"
  PROVE  Authentic(x, U, O)
BY DEF Authentic, GoesOn

LEMMA GoesOnUsables ==
  ASSUME NEW q, NEW x, NEW P, NEW R, Usables(q, P, R), GoesOn(q, x), x.pc # "listing",
         ~(x.pc = "done" /\ x.op = "whoami")
  PROVE  Usables(x, P, R)
BY DEF Usables, GoesOn

\* A request that has not come to its answer yet has none to be wrong.
LEMMA GoesOnUnanswered ==
  ASSUME NEW q, NEW x, NEW M, Recalled(q, M), GoesOn(q, x), ~(x.pc = "done" /\ x.op \in Recalls)
  PROVE  Recalled(x, M)
BY DEF Recalled, GoesOn

LEMMA NotCounted ==
  ASSUME NEW x, NEW E, x.pc # "counted", ~(x.pc = "done" /\ x.op = "activity")
  PROVE  Counted(x, E)
BY DEF Counted

\* What is known of a request that takes a step.
LEMMA RequestNow ==
  ASSUME AccessInv, NEW r \in Request
  PROVE  /\ req[r] \in ReqState /\ req \in [Request -> ReqState] /\ Fits(req[r])
         /\ Tally /\ Len(memories) \in Nat /\ Len(memories) <= Cardinality(Request)
         /\ DOMAIN memories = 1..Len(memories) /\ Cardinality(Request) \in Nat
BY Bounds DEF AccessInv, Answers, Fits

LEMMA IdleType ==
  /\ IdleReq \in ReqState /\ IdleReq.pc = "idle" /\ IdleReq.org = "none" /\ IdleReq.acked = 0
  /\ IdleReq.who = <<OldOrg, OldOwner>> /\ IdleReq.project = <<OldOrg, AnySlug>>
  /\ \A p \in Project : IdleReq.before[p] = "none"
<1>1. PICK x : x = IdleReq
  OBVIOUS
<1>2. x = [pc |-> "idle", op |-> "recall", who |-> <<OldOrg, OldOwner>>, org |-> "none",
           project |-> <<OldOrg, AnySlug>>, role |-> "none", count |-> 0, shown |-> {},
           matches |-> {}, listed |-> {}, todo |-> {}, before |-> [p \in Project |-> "none"], acked |-> 0]
  BY <1>1 DEF IdleReq
<1>3. [p \in Project |-> "none"] \in [Project -> ProjectRole]
  BY DEF ProjectRole
<1>4. "idle" \in ReqPC /\ "recall" \in Op /\ "none" \in OrgRole /\ "none" \in ProjectRole
  BY DEF ReqPC, Op, OrgRole, ProjectRole
<1>5. x \in ReqState
  BY <1>2, <1>3, <1>4, ConstantTypes DEF ReqState
<1> QED BY <1>1, <1>2, <1>5

LEMMA IdleFits ==
  ASSUME AccessInv
  PROVE  Fits(IdleReq)
<1>1. Authentic(IdleReq, users, orgRole)
  BY IdleType DEF Authentic, OrgCanManage
<1>2. Usables(IdleReq, projects, role)
  BY IdleType DEF Usables
<1>3. Len(memories) \in Nat
  BY DEF AccessInv, Tally
<1>4. Recalled(IdleReq, memories)
  BY <1>3, IdleType DEF Recalled
<1>5. Counted(IdleReq, events)
  BY IdleType, NotCounted
<1> QED BY <1>1, <1>2, <1>4, <1>5 DEF Fits

LEMMA FailKeeps ==
  ASSUME AccessInv, NEW r \in Request, Fail(r), Untouched, UNCHANGED content, req[r].pc # "done"
  PROVE  AccessInv'
<1>1. PICK x : x = IdleReq
  OBVIOUS
<1>2. Turn(r, x) /\ x.pc = "idle" /\ Fits(x)
  BY <1>1, IdleFits, IdleType DEF Turn, Fail
<1>3. ~Writes(x) /\ ~Reports(x)
  BY <1>2 DEF Writes, Reports
<1> QED BY <1>2, <1>3, PlainTurn

\* What the caller could use is noted under the very tables it is looked up in.
LEMMA AuthenticateKeeps ==
  ASSUME AccessInv, NEW r \in Request, NEW who \in Identity, NEW slug \in Slug, NEW op \in Op,
         Authenticate(r, who, slug, op)
  PROVE  AccessInv'
<1> DEFINE before == [p \in Project |-> IF op = "whoami" THEN Effective(who, p) ELSE "none"]
           acked == IF op \in Recalls THEN Len(memories) ELSE 0
<1>1. PICK x : x = [req[r] EXCEPT !.pc = "asked", !.op = op, !.who = who, !.org = orgRole[who],
                    !.project = <<who[1], slug>>, !.before = before, !.acked = acked]
  OBVIOUS
<1>2. req' = [req EXCEPT ![r] = x] /\ req[r].pc = "idle" /\ tokens[who] # "none"
      /\ Untouched /\ UNCHANGED content
  BY <1>1 DEF Authenticate, At
<1>3. orgRole[who] \in OrgRole /\ <<who[1], slug>> \in Project /\ who[2] \in users
      /\ acked \in Nat /\ acked <= Len(memories)
  BY <1>2, RequestNow DEF AccessInv, ControlType, Identity, Project
<1>4. before \in [Project -> ProjectRole]
  <2> SUFFICES ASSUME NEW p \in Project PROVE Effective(who, p) \in ProjectRole
    BY DEF ProjectRole
  <2>1. role[<<p, who[2]>>] \in ProjectRole
    BY DEF AccessInv, ControlType, Identity
  <2> QED BY <2>1 DEF Effective, RoleOn, EffectiveRole, ProjectRole
<1>5. \A p \in Project : before[p] # "none" =>
        /\ p \in projects /\ OrgOf(p) = who[1]
        /\ EffectiveRole(orgRole[who], role[<<p, who[2]>>]) # "none"
  BY DEF Effective, RoleOn
<1> HIDE DEF before, acked
<1>6. /\ x \in ReqState /\ x.pc = "asked" /\ x.op = op /\ x.who = who /\ x.org = orgRole[who]
      /\ x.project = <<who[1], slug>> /\ x.before = before /\ x.acked = acked
  <2>1. req[r] \in ReqState /\ "asked" \in ReqPC
    BY RequestNow DEF ReqPC
  <2>2. orgRole[who] \in OrgRole /\ <<who[1], slug>> \in Project /\ acked \in Nat
    BY <1>3
  <2> QED BY <1>1, <1>4, <2>1, <2>2 DEF ReqState
<1>7. Authentic(x, users, orgRole)
  BY <1>3, <1>6 DEF Authentic
<1>8. Usables(x, projects, role)
  BY <1>5, <1>6 DEF Usables
<1>9. Recalled(x, memories) /\ Counted(x, events)
  BY <1>3, <1>6, NotCounted DEF Recalled
<1>10. Turn(r, x) /\ ~Writes(x) /\ ~Reports(x)
  BY <1>2, <1>6 DEF Turn, Writes, Reports
<1> QED BY <1>2, <1>7, <1>8, <1>9, <1>10, PlainTurn DEF Fits

LEMMA ResolveKeeps ==
  ASSUME AccessInv, NEW r \in Request, Resolve(r)
  PROVE  AccessInv'
<1> DEFINE q == req[r]
           as == EffectiveRole(q.org, role[<<q.project, q.who[2]>>])
<1>1. q.pc = "asked" /\ Untouched /\ UNCHANGED content
  BY DEF Resolve, At
<1>2. CASE Fail(r)
  BY <1>1, <1>2, FailKeeps
<1>3. CASE req' = [req EXCEPT ![r].pc = "resolved", ![r].role = as]
  <2>1. PICK x : x = [q EXCEPT !.pc = "resolved", !.role = as]
    OBVIOUS
  <2>2. as \in ProjectRole
    <3>1. <<q.project, q.who[2]>> \in Project \X User
      BY RequestNow DEF ReqState, Identity
    <3>2. role[<<q.project, q.who[2]>>] \in ProjectRole
      BY <3>1 DEF AccessInv, ControlType
    <3> QED BY <3>2 DEF EffectiveRole, ProjectRole
  <2>3. req' = [req EXCEPT ![r] = x]
    BY <1>3, <2>1
  <2> HIDE DEF as
  <2>4. x \in ReqState /\ x.pc = "resolved" /\ GoesOn(q, x)
    BY <2>1, <2>2, RequestNow DEF ReqState, ReqPC, GoesOn
  <2>5. Fits(x)
    BY <2>4, RequestNow, GoesOnAuthentic, GoesOnUsables, GoesOnUnanswered, NotCounted DEF Fits
  <2>6. Turn(r, x) /\ ~Writes(x) /\ ~Reports(x)
    BY <1>1, <2>3, <2>4 DEF Turn, Writes, Reports
  <2> QED BY <1>1, <2>5, <2>6, PlainTurn
<1> QED BY <1>2, <1>3 DEF Resolve

LEMMA RememberKeeps ==
  ASSUME AccessInv, NEW r \in Request, Remember(r)
  PROVE  AccessInv'
<1> DEFINE q == req[r]
           own == q.op = "remember user"
<1>1. PICK x : x = [q EXCEPT !.pc = "done"]
  OBVIOUS
<1>2. PICK m : m = [org |-> q.who[1], scope |-> IF own THEN "user" ELSE "project",
                    user |-> IF own THEN q.who[2] ELSE Null,
                    project |-> IF own THEN Null ELSE q.project, from |-> r]
  OBVIOUS
<1>3. /\ req' = [req EXCEPT ![r] = x] /\ memories' = Append(memories, m) /\ UNCHANGED events
      /\ Untouched /\ q.pc = "resolved" /\ q.op \in {"remember user", "remember project"}
  BY <1>1, <1>2 DEF Remember, At, Go
<1>4. x \in ReqState /\ x.pc = "done" /\ GoesOn(q, x)
  BY <1>1, RequestNow DEF ReqState, ReqPC, GoesOn
<1>5. /\ m.from = r /\ m.org = q.who[1] /\ m.scope = IF own THEN "user" ELSE "project"
      /\ (own => m.user = q.who[2]) /\ (~own => m.project = q.project)
  BY <1>2
<1>6. m \in Memory
  <2>1. q.who[1] \in Org /\ q.who[2] \in User /\ q.project \in Project
    BY RequestNow DEF ReqState, Identity
  <2>2. (IF own THEN q.who[2] ELSE Null) \in User \cup {Null}
        /\ (IF own THEN Null ELSE q.project) \in Project \cup {Null}
        /\ (IF own THEN "user" ELSE "project") \in {"user", "project"}
    BY <2>1
  <2> HIDE DEF own
  <2> QED BY <1>2, <2>1, <2>2 DEF Memory
<1>7. IsFrom(m, x)
  BY <1>3, <1>4, <1>5 DEF IsFrom, GoesOn
<1>8. Writes(x) /\ ~Reports(x) /\ x.op \notin Recalls /\ x.op # "whoami" /\ x.op # "activity"
  BY <1>3, <1>4 DEF Writes, Reports, GoesOn, Recalls
<1>9. Fits(x)
  BY <1>4, <1>8, RequestNow, GoesOnAuthentic, GoesOnUsables, GoesOnUnanswered, NotCounted DEF Fits
<1>10. Turn(r, x)
  BY <1>3, <1>4 DEF Turn
<1> QED BY <1>3, <1>5, <1>6, <1>7, <1>8, <1>9, <1>10, RememberTurn

\* Answers to a recall: what is shown and matches is what its caller may see,
\* and what is left out leaves the answer full.
LEMMA AnswerKeeps ==
  ASSUME AccessInv, NEW r \in Request, At(r, "resolved"), req[r].op \in Recalls,
         NEW matches \in SUBSET VisibleTo(req[r]), NEW shown \in SUBSET matches,
         RecallAnswers(r, matches, shown),
         \A i \in VisibleTo(req[r]) : (req[r].op = "search" => i \in matches) /\ i \notin shown =>
           /\ Cardinality(shown) = Limit
           /\ \A j \in shown : IF req[r].op = "search" THEN j \in matches ELSE j > i
  PROVE  AccessInv'
<1> DEFINE q == req[r]
<1>1. PICK x : x = [q EXCEPT !.pc = "done", !.matches = matches, !.shown = shown]
  OBVIOUS
<1>2. /\ req' = [req EXCEPT ![r] = x] /\ Untouched /\ UNCHANGED content
      /\ q.pc = "resolved" /\ q.op \in Recalls
  BY <1>1 DEF RecallAnswers, At
<1>3. VisibleTo(q) \subseteq 1..Cardinality(Request)
  <2>1. Len(memories) \in Nat /\ Cardinality(Request) \in Nat /\ Len(memories) <= Cardinality(Request)
    BY RequestNow
  <2>2. 1..Len(memories) \subseteq 1..Cardinality(Request)
    BY <2>1
  <2> QED BY <2>2, RequestNow DEF VisibleTo
<1>4. \A i \in 1..Len(memories) : Visible(memories[i], q.who, q.project) <=> i \in VisibleTo(q)
  BY RequestNow DEF VisibleTo
<1>5. VisibleTo(q) \subseteq 1..Len(memories)
  BY RequestNow DEF VisibleTo
<1>6. /\ x \in ReqState /\ x.pc = "done" /\ x.matches = matches /\ x.shown = shown /\ GoesOn(q, x)
  <2>1. matches \in SUBSET (1..Cardinality(Request)) /\ shown \in SUBSET (1..Cardinality(Request))
    BY <1>3
  <2> QED BY <1>1, <2>1, RequestNow DEF ReqState, ReqPC, GoesOn
<1>7. Recalled(x, memories)
  <2>1. x.acked <= Len(memories) /\ x.acked \in Nat /\ Len(memories) \in Nat
    BY <1>6, RequestNow DEF Fits, Recalled, GoesOn, ReqState
  <2>2. x.who = q.who /\ x.project = q.project /\ x.op = q.op
    BY <1>6 DEF GoesOn
  <2>3. \A i \in x.shown : i \in 1..Len(memories) /\ Visible(memories[i], x.who, x.project)
    BY <1>4, <1>5, <1>6, <2>2
  <2>4. ASSUME NEW i \in 1..x.acked, Visible(memories[i], x.who, x.project),
               x.op = "search" => i \in x.matches, i \notin x.shown
        PROVE  FullAt(x, i)
    <3>1. i \in 1..Len(memories)
      BY <2>1
    <3>2. i \in VisibleTo(q)
      BY <1>4, <2>2, <2>4, <3>1
    <3> QED BY <1>6, <2>2, <2>4, <3>2 DEF FullAt
  <2> QED BY <2>1, <2>3, <2>4 DEF Recalled
<1>8. Fits(x) /\ ~Writes(x) /\ ~Reports(x)
  <2>1. x.op \in Recalls
    BY <1>2, <1>6 DEF GoesOn
  <2>2. x.op # "whoami" /\ x.op # "activity" /\ ~Writes(x) /\ ~Reports(x)
    BY <2>1 DEF Recalls, Writes, Reports
  <2> QED BY <1>6, <1>7, <2>2, RequestNow, GoesOnAuthentic, GoesOnUsables, NotCounted DEF Fits
<1>9. Turn(r, x)
  BY <1>2, <1>6 DEF Turn
<1> QED BY <1>2, <1>8, <1>9, PlainTurn

\* There are finitely many memories to see.
LEMMA VisibleFinite ==
  ASSUME AccessInv, NEW r \in Request
  PROVE  VisibleTo(req[r]) \in SUBSET Nat /\ IsFiniteSet(VisibleTo(req[r]))
<1>1. VisibleTo(req[r]) \in SUBSET (1..Len(memories)) /\ Len(memories) \in Nat
  BY RequestNow DEF VisibleTo
<1>2. IsFiniteSet(1..Len(memories)) /\ 1..Len(memories) \subseteq Nat
  BY <1>1, FS_Interval
<1>3. IsFiniteSet(VisibleTo(req[r]))
  BY <1>1, <1>2, FS_Subset
<1> QED BY <1>1, <1>2, <1>3

\* Without a query: all that is visible, or the Limit newest of it.
LEMMA RecallKeeps ==
  ASSUME AccessInv, NEW r \in Request, Recall(r)
  PROVE  AccessInv'
<1> DEFINE I == VisibleTo(req[r])
<1>1. At(r, "resolved") /\ req[r].op = "recall" /\ RecallAnswers(r, I, Newest(I))
  BY DEF Recall
<1>2. I \in SUBSET Nat /\ IsFiniteSet(I)
  BY VisibleFinite
<1> HIDE DEF I
<1>3. Newest(I) \in SUBSET I
  BY DEF Newest
<1>4. \A i \in I : i \notin Newest(I) => Cardinality(Newest(I)) = Limit /\ \A j \in Newest(I) : j > i
  BY <1>2, NewestFull
<1> QED BY <1>1, <1>3, <1>4, AnswerKeeps DEF I, Recalls

\* With a query: all that matches, or Limit of it.
LEMMA SearchKeeps ==
  ASSUME AccessInv, NEW r \in Request, Search(r)
  PROVE  AccessInv'
<1>1. At(r, "resolved") /\ req[r].op = "search"
  BY DEF Search
<1>2. PICK matches \in SUBSET VisibleTo(req[r]) : \E shown \in SUBSET matches :
        /\ BestRanked(matches, shown)
        /\ RecallAnswers(r, matches, shown)
  BY DEF Search
<1>3. PICK shown \in SUBSET matches :
        /\ BestRanked(matches, shown)
        /\ RecallAnswers(r, matches, shown)
  BY <1>2
<1>4. IsFiniteSet(matches) /\ IsFiniteSet(shown)
  BY VisibleFinite, FS_Subset
<1>5. ASSUME NEW i \in matches, i \notin shown PROVE Cardinality(shown) = Limit
  <2>1. matches # shown
    BY <1>5
  <2>2. Cardinality(matches) # Cardinality(shown)
    BY <1>4, <2>1, FS_Subset
  <2> QED BY <1>3, <2>2 DEF BestRanked
<1> QED BY <1>1, <1>3, <1>5, AnswerKeeps DEF Recalls

LEMMA ReportKeeps ==
  ASSUME AccessInv, NEW r \in Request, Report(r)
  PROVE  AccessInv'
<1> DEFINE q == req[r]
<1>1. PICK x : x = [q EXCEPT !.pc = "done"]
  OBVIOUS
<1>2. /\ req' = [req EXCEPT ![r] = x] /\ Untouched /\ UNCHANGED memories
      /\ q.pc = "resolved" /\ q.op = "report"
      /\ events' = [events EXCEPT ![q.project] = events[q.project] + 1]
  BY <1>1 DEF Report, At, Go
<1>3. x \in ReqState /\ x.pc = "done" /\ GoesOn(q, x)
  BY <1>1, RequestNow DEF ReqState, ReqPC, GoesOn
<1>4. x.op = "report" /\ x.project = q.project
  BY <1>2, <1>3 DEF GoesOn
<1>5. Fits(x)
  BY <1>3, <1>4, RequestNow, GoesOnAuthentic, GoesOnUsables, GoesOnUnanswered, NotCounted
     DEF Fits, Recalls
<1>6. Turn(r, x) /\ ~Writes(x) /\ Reports(x)
  BY <1>2, <1>3, <1>4 DEF Turn, Writes, Reports
<1> QED BY <1>2, <1>4, <1>5, <1>6, ReportTurn

LEMMA AtMostLimitType ==
  ASSUME NEW n \in Nat
  PROVE  AtMostLimit(n) \in Nat /\ AtMostLimit(n) <= n
BY AccessBoundAssumption DEF AtMostLimit

LEMMA CountKeeps ==
  ASSUME AccessInv, NEW r \in Request, Count(r)
  PROVE  AccessInv'
<1> DEFINE q == req[r]
           n == AtMostLimit(events[q.project])
<1>1. PICK x : x = [q EXCEPT !.pc = "counted", !.count = n]
  OBVIOUS
<1>2. /\ req' = [req EXCEPT ![r] = x] /\ Untouched /\ UNCHANGED content
      /\ q.pc = "resolved" /\ q.op = "activity"
  BY <1>1 DEF Count, At
<1>3. n \in Nat
  <2>1. q.project \in Project
    BY RequestNow DEF ReqState
  <2>2. events[q.project] \in Nat
    BY <2>1 DEF AccessInv, Tally
  <2> QED BY <2>2, AtMostLimitType
<1>4. x \in ReqState /\ x.pc = "counted" /\ x.count = n /\ GoesOn(q, x)
  <2> HIDE DEF n
  <2> QED BY <1>1, <1>3, RequestNow DEF ReqState, ReqPC, GoesOn
<1>5. x.op = "activity" /\ x.project = q.project
  BY <1>2, <1>4 DEF GoesOn
<1>6. Counted(x, events)
  BY <1>3, <1>4, <1>5 DEF Counted
<1>7. Fits(x)
  BY <1>2, <1>4, <1>5, <1>6, RequestNow, GoesOnAuthentic, GoesOnUsables, GoesOnUnanswered DEF Fits
<1>8. Turn(r, x) /\ ~Writes(x) /\ ~Reports(x)
  BY <1>2, <1>4 DEF Turn, Writes, Reports
<1> QED BY <1>2, <1>7, <1>8, PlainTurn

\* There are no fewer events than when they were counted.
LEMMA DigestKeeps ==
  ASSUME AccessInv, NEW r \in Request, Digest(r)
  PROVE  AccessInv'
<1> DEFINE q == req[r]
           n == AtMostLimit(events[q.project])
<1>1. PICK x : x = [q EXCEPT !.pc = "done", !.shown = 1..n]
  OBVIOUS
<1>2. /\ req' = [req EXCEPT ![r] = x] /\ Untouched /\ UNCHANGED content /\ q.pc = "counted"
  BY <1>1 DEF Digest, At
<1>3. q.op = "activity" /\ q.count <= n
  BY <1>2, RequestNow DEF Fits, Authentic, Counted
<1>4. n \in Nat /\ 1..n \subseteq 1..Cardinality(Request) /\ Cardinality(1..n) = n
  <2>1. q.project \in Project
    BY RequestNow DEF ReqState
  <2>2. events[q.project] \in Nat /\ events[q.project] <= Cardinality(Request)
        /\ Cardinality(Request) \in Nat
    BY <2>1, Bounds DEF AccessInv
  <2>3. n \in Nat /\ n <= events[q.project]
    BY <2>2, AtMostLimitType
  <2> HIDE DEF n
  <2>4. Cardinality(1..n) = IF 1 > n THEN 0 ELSE n - 1 + 1
    BY <2>3, FS_Interval
  <2> QED BY <2>2, <2>3, <2>4
<1>5. x \in ReqState /\ x.pc = "done" /\ x.shown = 1..n /\ x.count = q.count /\ GoesOn(q, x)
  <2> HIDE DEF n
  <2> QED BY <1>1, <1>4, RequestNow DEF ReqState, ReqPC, GoesOn
<1> HIDE DEF n
<1>6. x.op = "activity"
  BY <1>3, <1>5 DEF GoesOn
<1>7. Counted(x, events)
  BY <1>3, <1>4, <1>5 DEF Counted
<1>8. Fits(x)
  BY <1>5, <1>6, <1>7, RequestNow, GoesOnAuthentic, GoesOnUsables, GoesOnUnanswered
     DEF Fits, Recalls
<1>9. Turn(r, x) /\ ~Writes(x) /\ ~Reports(x)
  BY <1>2, <1>5, <1>6 DEF Turn, Writes, Reports
<1> QED BY <1>2, <1>8, <1>9, PlainTurn

\* What was usable is among the projects of the organisation.
LEMMA ListProjectsKeeps ==
  ASSUME AccessInv, NEW r \in Request, ListProjects(r)
  PROVE  AccessInv'
<1> DEFINE q == req[r]
           todo == {p \in projects : OrgOf(p) = q.who[1]}
<1>1. PICK x : x = [q EXCEPT !.pc = "listing", !.todo = todo]
  OBVIOUS
<1>2. /\ req' = [req EXCEPT ![r] = x] /\ Untouched /\ UNCHANGED content
      /\ q.pc = "asked" /\ q.op = "whoami"
  BY <1>1 DEF ListProjects, At
<1>3. todo \subseteq Project
  BY DEF AccessInv, ControlType
<1>4. \A p \in projects : OrgOf(p) = q.who[1] => p \in todo
  OBVIOUS
<1> HIDE DEF todo
<1>5. x \in ReqState /\ x.pc = "listing" /\ x.todo = todo /\ GoesOn(q, x)
  BY <1>1, <1>3, RequestNow DEF ReqState, ReqPC, GoesOn
<1>6. Usables(x, projects, role)
  BY <1>4, <1>5, RequestNow DEF Fits, Usables, GoesOn
<1>7. Fits(x)
  BY <1>2, <1>5, <1>6, RequestNow, GoesOnAuthentic, GoesOnUnanswered, NotCounted DEF Fits
<1>8. Turn(r, x) /\ ~Writes(x) /\ ~Reports(x)
  BY <1>2, <1>5 DEF Turn, Writes, Reports
<1> QED BY <1>2, <1>7, <1>8, PlainTurn

\* A project is left out only when its caller has no role on it now, and so
\* had none before.
LEMMA ListRoleKeeps ==
  ASSUME AccessInv, NEW r \in Request, NEW p \in Project, ListRole(r, p)
  PROVE  AccessInv'
<1> DEFINE q == req[r]
           listed == IF RoleOn(q.who, q.org, p) = "none" THEN q.listed ELSE q.listed \cup {p}
<1>1. PICK x : x = [q EXCEPT !.todo = q.todo \ {p}, !.listed = listed]
  OBVIOUS
<1>2. /\ req' = [req EXCEPT ![r] = x] /\ Untouched /\ UNCHANGED content /\ q.pc = "listing"
  BY <1>1 DEF ListRole, At
<1>3. /\ listed \subseteq Project /\ q.listed \subseteq listed
      /\ q.todo \ {p} \subseteq Project
      /\ RoleOn(q.who, q.org, p) # "none" => p \in listed
  BY RequestNow DEF ReqState
<1> HIDE DEF listed
<1>4. x \in ReqState /\ x.pc = "listing" /\ x.todo = q.todo \ {p} /\ x.listed = listed /\ GoesOn(q, x)
  BY <1>1, <1>2, <1>3, RequestNow DEF ReqState, GoesOn
<1>5. Usables(x, projects, role)
  <2> SUFFICES ASSUME NEW o \in Project, x.before[o] # "none"
               PROVE  /\ o \in projects /\ OrgOf(o) = x.who[1]
                      /\ EffectiveRole(x.org, role[<<o, x.who[2]>>]) # "none"
                      /\ o \in x.todo \cup x.listed
    BY <1>4 DEF Usables
  <2>1. /\ x.who = q.who /\ x.org = q.org /\ x.before = q.before
    BY <1>4 DEF GoesOn
  <2>2. /\ o \in projects /\ OrgOf(o) = q.who[1]
        /\ EffectiveRole(q.org, role[<<o, q.who[2]>>]) # "none" /\ o \in q.todo \cup q.listed
    BY <1>2, <2>1, RequestNow DEF Fits, Usables
  <2>3. RoleOn(q.who, q.org, o) # "none"
    BY <2>2 DEF RoleOn
  <2>4. o \in x.todo \cup x.listed
    BY <1>3, <1>4, <2>2, <2>3
  <2> QED BY <2>1, <2>2, <2>4
<1>6. Fits(x)
  <2>1. q.op = "whoami"
    BY <1>2, RequestNow DEF Fits, Authentic
  <2> QED BY <1>4, <1>5, <2>1, RequestNow, GoesOnAuthentic, GoesOnUnanswered, NotCounted DEF Fits
<1>7. Turn(r, x) /\ ~Writes(x) /\ ~Reports(x)
  BY <1>2, <1>4 DEF Turn, Writes, Reports
<1> QED BY <1>2, <1>6, <1>7, PlainTurn

LEMMA ListedKeeps ==
  ASSUME AccessInv, NEW r \in Request, Listed(r)
  PROVE  AccessInv'
<1> DEFINE q == req[r]
<1>1. PICK x : x = [q EXCEPT !.pc = "done"]
  OBVIOUS
<1>2. /\ req' = [req EXCEPT ![r] = x] /\ Untouched /\ UNCHANGED content
      /\ q.pc = "listing" /\ q.todo = {}
  BY <1>1 DEF Listed, At, Go
<1>3. x \in ReqState /\ x.pc = "done" /\ x.listed = q.listed /\ GoesOn(q, x)
  BY <1>1, RequestNow DEF ReqState, ReqPC, GoesOn
<1>4. x.op = "whoami"
  BY <1>2, <1>3, RequestNow DEF Fits, Authentic, GoesOn
<1>5. Usables(x, projects, role)
  BY <1>2, <1>3, RequestNow DEF Fits, Usables, GoesOn
<1>6. Fits(x)
  BY <1>3, <1>4, <1>5, RequestNow, GoesOnAuthentic, GoesOnUnanswered, NotCounted DEF Fits, Recalls
<1>7. Turn(r, x) /\ ~Writes(x) /\ ~Reports(x)
  BY <1>2, <1>3, <1>4 DEF Turn, Writes, Reports
<1> QED BY <1>2, <1>6, <1>7, PlainTurn

LEMMA RequestKeeps ==
  ASSUME AccessInv, NEW r \in Request, RequestStep(r)
  PROVE  AccessInv'
<1>1. CASE RequestFails(r)
  BY <1>1, FailKeeps DEF RequestFails
<1> QED BY <1>1, AuthenticateKeeps, ResolveKeeps, RememberKeeps, RecallKeeps, SearchKeeps, ReportKeeps, CountKeeps,
        DigestKeeps, ListProjectsKeeps, ListedKeeps, ListRoleKeeps DEF RequestStep

-----------------------------------------------------------------------------
(* The invariant.                                                           *)

LEMMA InitInv == Init => AccessInv
<1> SUFFICES ASSUME Init PROVE AccessInv
  OBVIOUS
<1>1. /\ orgs = {OldOrg} /\ users = {OldOwner} /\ projects = {<<OldOrg, AnySlug>>}
      /\ orgRole = [i \in Identity |-> IF i = <<OldOrg, OldOwner>> THEN "owner" ELSE "none"]
      /\ role = [i \in Project \X User |->
                   IF i = <<<<OldOrg, AnySlug>>, OldOwner>> THEN "maintainer" ELSE "none"]
      /\ tokens = [i \in Identity |-> IF i = <<OldOrg, OldOwner>> THEN "live" ELSE "none"]
      /\ memories = <<>> /\ events = [p \in Project |-> 0] /\ joining = {}
      /\ setup = "org" /\ req = [r \in Request |-> IdleReq] /\ commands = 0
  BY DEF Init
<1>2. ControlType
  <2>1. orgRole \in [Identity -> OrgRole] /\ role \in [Project \X User -> ProjectRole]
    BY <1>1 DEF OrgRole, ProjectRole
  <2>2. /\ tokens \in [Identity -> TokenState] /\ joining = {}
        /\ \A i \in Identity : tokens[i] # "none" => i[1] \in orgs /\ i[2] \in users
    BY <1>1, ConstantTypes DEF TokenState
  <2>3. orgs \subseteq Org /\ users \subseteq User /\ projects \subseteq {p \in Project : OrgOf(p) \in orgs}
    BY <1>1, ConstantTypes, OrgAssumption, OwnerAssumption
  <2>4. setup \in SetupPC /\ commands \in 0..MaxCommands
    BY <1>1, AccessBoundAssumption DEF SetupPC
  <2> QED BY <2>1, <2>2, <2>3, <2>4 DEF ControlType
<1>3. Progress
  <2>1. \A i \in Identity : OrgCanManage(orgRole[i]) => i = <<OldOrg, OldOwner>>
    BY <1>1 DEF OrgCanManage
  <2> QED BY <1>1, <2>1 DEF Progress
<1>4. \A r \in Request : req[r].pc = "idle"
  BY <1>1, IdleType
<1>5. Tally
  <2>1. Writers = {} /\ \A p \in Project : Reporters(p) = {}
    BY <1>4 DEF Writers, Reporters, At
  <2>2. Cardinality(Writers) = 0 /\ \A p \in Project : Cardinality(Reporters(p)) = 0
    BY <2>1, FS_EmptySet
  <2>3. memories \in Seq(Memory) /\ Len(memories) = 0
    BY <1>1
  <2>4. events \in [Project -> Nat] /\ \A p \in Project : events[p] = 0
    BY <1>1
  <2> QED BY <2>2, <2>3, <2>4 DEF Tally
<1>6. Remembered
  BY <1>1 DEF Remembered
<1>7. Answers
  <2>1. Authentic(IdleReq, users, orgRole)
    BY IdleType DEF Authentic, OrgCanManage
  <2>2. Usables(IdleReq, projects, role) /\ Counted(IdleReq, events)
    BY IdleType, NotCounted DEF Usables
  <2>3. Recalled(IdleReq, memories)
    BY <1>1, IdleType DEF Recalled
  <2> QED BY <1>1, <2>1, <2>2, <2>3, IdleType DEF Answers
<1> QED BY <1>2, <1>3, <1>5, <1>6, <1>7 DEF AccessInv

LEMMA NextInv == AccessInv /\ [Next]_vars => AccessInv'
<1> SUFFICES ASSUME AccessInv, [Next]_vars PROVE AccessInv'
  OBVIOUS
<1>1. CASE SetupStep
  BY <1>1, SetupKeeps, ControlKeeps DEF AccessInv
<1>2. CASE CommandStep
  BY <1>2, CommandKeeps, ControlKeeps DEF AccessInv
<1>3. CASE \E r \in Request : RequestStep(r)
  BY <1>3, RequestKeeps
<1>4. CASE UNCHANGED vars
  <2>1. UNCHANGED <<orgs, users, orgRole, projects, role, tokens, memories, events, setup, joining, req, commands>>
    BY <1>4 DEF vars, control, content
  <2>2. ControlType' /\ Progress' /\ ControlGrows
    BY <2>1 DEF AccessInv, ControlType, Progress, ControlGrows
  <2> QED BY <2>2, ControlKeeps
<1> QED BY <1>1, <1>2, <1>3, <1>4 DEF Next

\* AccessInv holds in every state: the tables of internal/store, setup and the
\* requests agree as the comments of its parts say.
THEOREM AccessInvariant == Spec => []AccessInv
<1> QED BY InitInv, NextInv, PTL DEF Spec

\* Every variable keeps its type; projects and tokens are of organisations
\* and users that exist (internal/store).
THEOREM AccessTyped == Spec => []TypeOK
<1>1. AccessInv => TypeOK
  <2> SUFFICES ASSUME AccessInv PROVE TypeOK
    OBVIOUS
  <2>1. Len(memories) \in 0..Cardinality(Request) /\ events \in [Project -> 0..Cardinality(Request)]
        /\ Cardinality(Request) \in Nat
    BY Bounds DEF AccessInv
  <2>2. memories \in Seq(Memory) /\ Len(memories) <= Cardinality(Request)
    BY <2>1 DEF AccessInv, Tally
  <2> QED BY <2>1, <2>2 DEF AccessInv, ControlType, Answers, TypeOK
<1> QED BY <1>1, AccessInvariant, PTL

\* What is recalled was remembered in the same organisation, by its caller or
\* for the project that is asked about (internal/store Recall).
THEOREM Isolated == Spec => []RecallIsolated
<1>1. AccessInv => RecallIsolated
  <2> SUFFICES ASSUME AccessInv, NEW r \in Request, At(r, "done"), req[r].op \in Recalls,
                      NEW i \in req[r].shown
               PROVE  LET by == req[memories[i].from]
                      IN  /\ by.who[1] = req[r].who[1]
                          /\ \/ by.op = "remember user" /\ by.who = req[r].who
                             \/ by.op = "remember project" /\ by.project = req[r].project
    BY DEF RecallIsolated
  <2>1. PICK m : m = memories[i]
    OBVIOUS
  <2>2. PICK by : by = req[m.from]
    OBVIOUS
  <2>3. i \in 1..Len(memories) /\ Visible(m, req[r].who, req[r].project)
    BY <2>1, RequestNow DEF Fits, Recalled, At
  <2>4. IsFrom(m, by) /\ m \in Memory
    BY <2>1, <2>2, <2>3 DEF AccessInv, Remembered, Tally
  <2>5. by \in ReqState
    BY <2>2, <2>4, RequestNow DEF Memory
  <2>6. by.who \in Identity /\ req[r].who \in Identity
    BY <2>5, RequestNow DEF ReqState
  <2>7. by.who[1] = req[r].who[1]
    BY <2>3, <2>4 DEF IsFrom, Visible
  <2>8. \/ by.op = "remember user" /\ by.who[2] = req[r].who[2]
        \/ by.op = "remember project" /\ by.project = req[r].project
    BY <2>3, <2>4 DEF IsFrom, Visible
  <2>9. by.who[2] = req[r].who[2] => by.who = req[r].who
    BY <2>6, <2>7 DEF Identity
  <2> QED BY <2>1, <2>2, <2>7, <2>8, <2>9
<1> QED BY <1>1, AccessInvariant, PTL

\* What was remembered before a recall began is in its answer, if it matches
\* the query, or the answer is full, for any limit: without a query of newer
\* memories, with one of others that match (internal/store Recall).
THEOREM Found == Spec => []RememberedIsFound
<1>1. AccessInv => RememberedIsFound
  BY RequestNow DEF RememberedIsFound, Fits, Recalled, FullAt, At
<1> QED BY <1>1, AccessInvariant, PTL

\* A digest shows as many events as the count beside it, although the table
\* was read twice (internal/core Activity).
THEOREM DigestCovers == Spec => []DigestCoversCount
<1>1. AccessInv => DigestCoversCount
  BY RequestNow DEF DigestCoversCount, Fits, Counted, At
<1> QED BY <1>1, AccessInvariant, PTL

\* whoami lists every project its caller could use when it asked
\* (internal/core WhoAmI and projectCtx).
THEOREM UsableListed == Spec => []UsableIsListed
<1>1. AccessInv => UsableIsListed
  <2> SUFFICES ASSUME AccessInv, NEW r \in Request, At(r, "done"), req[r].op = "whoami",
                      NEW p \in projects, req[r].before[p] # "none"
               PROVE  p \in req[r].listed
    BY DEF UsableIsListed
  <2>1. p \in Project
    BY DEF AccessInv, ControlType
  <2> QED BY <2>1, RequestNow DEF Fits, Usables, At
<1> QED BY <1>1, AccessInvariant, PTL

\* A setup that showed its token left an owner who can use the new project,
\* whatever failed and whichever commands ran meanwhile (cmd/ubiqo cmdSetup).
THEOREM TokenWorks == Spec => []ShownTokenWorks
<1>1. AccessInv => ShownTokenWorks
  <2> SUFFICES ASSUME AccessInv, setup = "printed"
               PROVE  /\ tokens[First] # "none"
                      /\ NewOwner \in users /\ OrgCanManage(orgRole[First])
                      /\ FirstProject \in projects /\ Effective(First, FirstProject) # "none"
    BY DEF ShownTokenWorks
  <2>1. /\ tokens[First] # "none"
        /\ NewOwner \in users /\ orgRole[First] = "owner" /\ FirstProject \in projects
    BY DEF AccessInv, Progress
  <2>2. OrgOf(FirstProject) = First[1]
    BY ConstantTypes DEF First
  <2>3. Effective(First, FirstProject) = EffectiveRole("owner", role[<<FirstProject, First[2]>>])
    BY <2>1, <2>2 DEF Effective, RoleOn
  <2> QED BY <2>1, <2>3 DEF EffectiveRole, OrgCanManage
<1> QED BY <1>1, AccessInvariant, PTL

\* A request that was asked is resolved by its own step, and no other.
LEMMA ResolvedByResolve ==
  ASSUME AccessInv, [Next]_vars, NEW r \in Request, At(r, "asked"), req'[r].pc = "resolved"
  PROVE  Resolve(r) /\ ~Fail(r)
<1>0. req \in [Request -> ReqState] /\ req[r].pc = "asked" /\ req'[r] # req[r]
  BY RequestNow DEF At
<1>1. ~Fail(r)
  BY <1>0, IdleType DEF Fail
<1>2. ~SetupStep /\ ~CommandStep /\ ~(UNCHANGED vars)
  BY <1>0, SetupKeeps, CommandKeeps DEF AccessInv, ControlGrows, vars
<1>3. PICK o \in Request : RequestStep(o)
  BY <1>2 DEF Next
<1>4. \E x : req' = [req EXCEPT ![o] = x]
  BY <1>3 DEF RequestStep, Authenticate, Resolve, Remember, Recall, Search, RecallAnswers, Report, Count, Digest, ListProjects,
     ListRole, Listed, RequestFails, Fail, Go
<1>5. o = r
  BY <1>0, <1>4
<1>6. ~ListProjects(r)
  <2>1. ASSUME ListProjects(r) PROVE req'[r].pc = "listing"
    BY <1>0, <2>1 DEF ListProjects, ReqState
  <2> QED BY <2>1
<1>7. Resolve(r)
  BY <1>0, <1>1, <1>3, <1>5, <1>6 DEF RequestStep, Authenticate, Remember, Recall, Search, RecallAnswers, Report, Count, Digest,
     ListRole, Listed, RequestFails, At
<1> QED BY <1>1, <1>7

\* A request is decided by the role its caller has when it is read: the one on
\* the project, or, without one, maintainer for those who rule the organisation
\* still, although that was read earlier (internal/core projectCtx and gate).
THEOREM HeldRole == Spec => RoleWasHeld
<1> DEFINE Held(r) ==
      LET who == req[r].who
          own == role[<<req[r].project, who[2]>>]
      IN  IF own # "none" THEN req'[r].role = own
                          ELSE req'[r].role = "maintainer" /\ OrgCanManage(orgRole[who])
<1>1. ASSUME AccessInv, [Next]_vars, NEW r \in Request, At(r, "asked"), req'[r].pc = "resolved"
      PROVE  Held(r)
  <2> DEFINE q == req[r]
             own == role[<<q.project, q.who[2]>>]
             as == EffectiveRole(q.org, own)
  <2>1. /\ Can(as, Needs(q.op))
        /\ req' = [req EXCEPT ![r].pc = "resolved", ![r].role = as]
    BY <1>1, ResolvedByResolve DEF Resolve
  <2>2. req'[r].role = as
    <3> HIDE DEF as
    <3> QED BY <1>1, <2>1, RequestNow DEF ReqState
  <2>3. as # "none"
    <3>1. as # "none" \/ Can("none", Needs(q.op))
      BY <2>1
    <3>2. ~Can("none", Needs(q.op))
      BY DEF Can, Grants, ProjectRole
    <3> QED BY <3>1, <3>2
  <2>4. OrgCanManage(q.org) => OrgCanManage(orgRole[q.who])
    BY <1>1, RequestNow DEF Fits, Authentic
  <2>5. IF own # "none" THEN as = own ELSE as = "maintainer" /\ OrgCanManage(q.org)
    BY <2>3 DEF EffectiveRole
  <2> HIDE DEF as
  <2> QED BY <2>2, <2>4, <2>5
<1>2. AccessInv /\ [Next]_vars =>
        [\A r \in Request : At(r, "asked") /\ req'[r].pc = "resolved" => Held(r)]_vars
  BY <1>1
<1> QED BY <1>2, AccessInvariant, PTL DEF Spec, RoleWasHeld

=============================================================================
