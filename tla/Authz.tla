-------------------------------- MODULE Authz --------------------------------
(***************************************************************************)
(* Roles and what they permit (internal/authz/authz.go), and the role that *)
(* a request acts under (projectCtx in internal/core/core.go): the         *)
(* caller's role on the project, or, for a caller without one, maintainer  *)
(* when the role in the organisation is owner or admin.                    *)
(***************************************************************************)

ProjectRole == {"none", "viewer", "contributor", "maintainer"}
OrgRole == {"none", "guest", "member", "admin", "owner"}

ReadActions == {"context.read", "artifact.read", "memory.read", "activity.read"}
ContributorActions == {"artifact.write", "proposal.create", "memory.write"}
MaintainerActions == {"proposal.merge", "release.create", "project.admin"}

Grants ==
  [role \in ProjectRole |->
     CASE role = "none"        -> {}
       [] role = "viewer"      -> ReadActions
       [] role = "contributor" -> ReadActions \cup ContributorActions
       [] role = "maintainer"  -> ReadActions \cup ContributorActions \cup MaintainerActions]

Can(role, action) == action \in Grants[role]

OrgCanManage(orgRole) == orgRole \in {"admin", "owner"}

EffectiveRole(orgRole, role) ==
  IF role = "none" /\ OrgCanManage(orgRole) THEN "maintainer" ELSE role
==============================================================================
