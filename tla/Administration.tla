---------------------------- MODULE Administration ----------------------------
(***************************************************************************)
(* The administrators of the platform (apps/admin_dashboard): accounts,    *)
(* their roles and permissions, who may change them, and the audit log.    *)
(* An administrator does one thing at a time; each request checks first    *)
(* and writes later, without a lock.                                       *)
(***************************************************************************)
EXTENDS Naturals, FiniteSets

CONSTANTS
  Account,            \* the accounts that can exist
  Founder,            \* the super admin the system starts with
  Role,               \* the roles that can exist
  SuperRole,          \* the role seeded with the code super_admin
  Perm,               \* the permissions
  Grants,             \* the sets of permissions a role can be given
  Seeded,             \* per role: the permissions it starts with
  MaxRequests         \* bound: requests begun in all

(* The permissions that this model distinguishes. *)
Needed == {"admins", "roles", "users"}

ASSUME AdministrationAssumption ==
  /\ Founder \in Account /\ SuperRole \in Role
  /\ IsFiniteSet(Account)
  /\ Needed \subseteq Perm
  /\ Grants \subseteq SUBSET Perm
  /\ Seeded \in [Role -> SUBSET Perm] /\ Seeded[SuperRole] = Perm
  /\ MaxRequests \in Nat

VARIABLES
  account,            \* User rows, or NoAccount
  role,               \* AdminRole rows, or NoRole
  assigned,           \* AdminUserRole: per account its active roles
  errand,             \* per account: the request it has open, or Idle
  begun,              \* requests begun so far
  granted,            \* history: accounts a super admin made super admin
  recoded,            \* history: roles that took the code super_admin, renamed or new
  unguarded,          \* history: super admins went without the count of DELETE
  audited,            \* history: accounts with an "admin.deleted" entry
  unlogged            \* history: an entry could not be written

rbac == <<account, role, assigned>>
adminHistory == <<granted, recoded, unguarded, audited, unlogged>>
adminVars == <<rbac, errand, begun, adminHistory>>

(* A deletion marks the row; is_superuser and is_active stay as they were. *)
AccountRow == [alive : BOOLEAN, active : BOOLEAN, super : BOOLEAN]
NoAccount == [alive |-> FALSE]
(* Codes are unique; all but super_admin are alike. *)
Code == {"super_admin", "other"}
RoleRow == [active : BOOLEAN, perms : SUBSET Perm, code : Code]
NoRole == [active |-> FALSE, code |-> "none"]

Idle == [op |-> "idle"]
Errand ==
  [op : {"save"}, target : Account, row : AccountRow, bysuper : BOOLEAN] \cup
  [op : {"delete"}, target : Account] \cup
  [op : {"replace", "add"}, target : Account, roles : SUBSET Role, bysuper : BOOLEAN] \cup
  [op : {"role"}, role : Role, row : RoleRow]

AdminTypeOK ==
  /\ account \in [Account -> AccountRow \cup {NoAccount}]
  /\ role \in [Role -> RoleRow \cup {NoRole}]
  /\ assigned \in [Account -> SUBSET Role]
  /\ errand \in [Account -> Errand \cup {Idle}]
  /\ begun \in 0..MaxRequests
  /\ granted \subseteq Account /\ audited \subseteq Account /\ recoded \subseteq Role
  /\ unguarded \in BOOLEAN /\ unlogged \in BOOLEAN

(* The role super_admin as seeded, with every permission, other roles as made
   since, and the first account. *)
AdminInit ==
  /\ account = [u \in Account |->
       IF u = Founder THEN [alive |-> TRUE, active |-> TRUE, super |-> TRUE] ELSE NoAccount]
  /\ role = [r \in Role |-> [active |-> TRUE, perms |-> Seeded[r],
                              code |-> IF r = SuperRole THEN "super_admin" ELSE "other"]]
  /\ assigned = [u \in Account |-> IF u = Founder THEN {SuperRole} ELSE {}]
  /\ errand = [u \in Account |-> Idle]
  /\ begun = 0
  /\ granted = {Founder} /\ recoded = {} /\ audited = {}
  /\ unguarded = FALSE /\ unlogged = FALSE

-----------------------------------------------------------------------------
Enabled(u) == account[u].alive /\ account[u].active
ActiveRoles(u) == {r \in assigned[u] : role[r].active}

(* Super admins are recognised by the code of their roles. *)
HasSuperCode(r) == role[r].code = "super_admin"

(* is_super_admin_user *)
IsSuper(u) == Enabled(u) /\ (account[u].super \/ \E r \in ActiveRoles(u) : HasSuperCode(r))
Supers == {u \in Account : IsSuper(u)}

(* get_user_admin_permissions *)
Permissions(u) ==
  IF IsSuper(u) THEN Perm
  ELSE IF Enabled(u) THEN UNION {role[r].perms : r \in ActiveRoles(u)}
  ELSE {}

(* count_super_admins: whether the role is active is not asked. *)
Counted ==
  {u \in Account : Enabled(u) /\ (account[u].super \/ \E r \in assigned[u] : HasSuperCode(r))}

(* An account opens a request that its permissions allow. *)
Undertake(u, perm, e) ==
  /\ errand[u] = Idle /\ perm \in Permissions(u)
  /\ begun < MaxRequests /\ begun' = begun + 1
  /\ errand' = [errand EXCEPT ![u] = e]
Done(u) == errand' = [errand EXCEPT ![u] = Idle] /\ UNCHANGED begun

(* Super admins lost in this step other than by a counted deletion. *)
Loosened == unguarded' = (unguarded \/ ~(Supers \subseteq Supers'))

-----------------------------------------------------------------------------
(* PATCH of an administrator: with is_active and is_superuser as given. *)
BeginUpdateAdmin(u, t, active, super) ==
  /\ Undertake(u, "admins", [op |-> "save", target |-> t, bysuper |-> IsSuper(u),
        row |-> [account[t] EXCEPT !.active = active, !.super = super]])
  /\ account[t].alive
  /\ IsSuper(t) => IsSuper(u)
  /\ super # account[t].super => IsSuper(u)
  /\ UNCHANGED <<rbac, adminHistory>>

(* PATCH of a managed user: any account, without regard to its roles. *)
BeginUpdateUser(u, t, active) ==
  /\ Undertake(u, "users", [op |-> "save", target |-> t, bysuper |-> IsSuper(u),
        row |-> [account[t] EXCEPT !.active = active]])
  /\ account[t].alive
  /\ UNCHANGED <<rbac, adminHistory>>

(* PATCH of users/me by any account (apps/users): its own row, as read. *)
BeginUpdateMe(u) ==
  /\ Enabled(u)
  /\ errand[u] = Idle
  /\ begun < MaxRequests /\ begun' = begun + 1
  /\ errand' = [errand EXCEPT ![u] =
       [op |-> "save", target |-> u, row |-> account[u], bysuper |-> FALSE]]
  /\ UNCHANGED <<rbac, adminHistory>>

(* save() of every column, is_deleted too: an account deleted meanwhile lives
   again. *)
FinishSave(u) ==
  LET e == errand[u] IN
  /\ e.op = "save"
  /\ Done(u)
  /\ account' = [account EXCEPT ![e.target] = e.row]
  /\ granted' = IF e.row.super /\ e.bysuper THEN granted \cup {e.target} ELSE granted
  /\ UNCHANGED <<role, assigned, recoded, audited, unlogged>>
  /\ Loosened

(* suspend and activate: the one column. *)
SetActive(u, t, b) ==
  /\ Undertake(u, "users", Idle)
  /\ account[t].alive
  /\ account' = [account EXCEPT ![t].active = b]
  /\ UNCHANGED <<role, assigned, granted, recoded, audited, unlogged>>
  /\ Loosened

(* "Cannot delete the last Super Admin." *)
MayDelete(u, t) ==
  /\ t # u
  /\ IsSuper(t) => IsSuper(u) /\ Counted \ {t} # {}

Deleting == {u \in Account : errand[u].op = "delete"}

(* Mutant: the entry is written by the deletion. *)
BeginDeleteUnlogged(u, t) ==
  /\ Undertake(u, "admins", [op |-> "delete", target |-> t])
  /\ account[t].alive
  /\ MayDelete(u, t)
  /\ unguarded' = (unguarded \/ Deleting # {})
  /\ UNCHANGED <<rbac, granted, recoded, audited, unlogged>>

(* DELETE of an administrator: checked, entered in the log, and then deleted.
   log_admin_action swallows its errors. *)
BeginDeleteAdmin(u, t) ==
  /\ Undertake(u, "admins", [op |-> "delete", target |-> t])
  /\ account[t].alive
  /\ MayDelete(u, t)
  /\ unguarded' = (unguarded \/ Deleting # {})
  /\ \/ audited' = audited \cup {t} /\ UNCHANGED unlogged
     \/ unlogged' = TRUE /\ UNCHANGED audited
  /\ UNCHANGED <<rbac, granted, recoded>>

FinishDeleteAdmin(u) ==
  LET e == errand[u] IN
  /\ e.op = "delete"
  /\ Done(u)
  /\ account' = [account EXCEPT ![e.target].alive = FALSE]
  /\ UNCHANGED <<role, assigned, adminHistory>>

-----------------------------------------------------------------------------
(* Mutant: only the permissions of the roles are compared. *)
MayAssignByPermissions(u, R) ==
  /\ \A r \in R : role[r].active
  /\ \A r \in R : role[r].perms \subseteq Permissions(u)

(* Which roles u can give: one with the code super_admin only as a super admin,
   others if it has their permissions itself. *)
MayAssign(u, R) ==
  /\ \A r \in R : role[r].active
  /\ IsSuper(u) \/ \A r \in R : ~HasSuperCode(r) /\ role[r].perms \subseteq Permissions(u)

BeginAssignRoles(u, t, R) ==
  /\ Undertake(u, "admins", [op |-> "replace", target |-> t, roles |-> R, bysuper |-> IsSuper(u)])
  /\ account[t].alive /\ R # {}
  /\ IsSuper(t) => IsSuper(u)
  /\ MayAssign(u, R)
  /\ UNCHANGED <<rbac, adminHistory>>

(* POST of an administrator: the row, and then its roles. *)
CreateAdmin(u, t, R, super) ==
  /\ Undertake(u, "admins", [op |-> "replace", target |-> t, roles |-> R, bysuper |-> IsSuper(u)])
  /\ account[t] = NoAccount
  /\ super => IsSuper(u)
  /\ MayAssign(u, R)
  /\ account' = [account EXCEPT ![t] = [alive |-> TRUE, active |-> TRUE, super |-> super]]
  /\ granted' = IF super THEN granted \cup {t} ELSE granted
  /\ UNCHANGED <<role, assigned, recoded, unguarded, audited, unlogged>>

(* assign_roles_to_user, in no transaction: first the other roles end, ... *)
EndOtherRoles(u) ==
  LET e == errand[u] IN
  /\ e.op = "replace"
  /\ assigned' = [assigned EXCEPT ![e.target] = @ \cap e.roles]
  /\ errand' = [errand EXCEPT ![u].op = "add"]
  /\ UNCHANGED <<account, role, begun, granted, recoded, audited, unlogged>>
  /\ Loosened

(* ... and then the roles given start, one by one; one deleted meanwhile fails
   the request. *)
StartRole(u, r) ==
  LET e == errand[u] IN
  /\ e.op = "add" /\ r \in e.roles
  /\ UNCHANGED <<account, role, begun, recoded, unguarded, audited, unlogged>>
  /\ IF role[r] = NoRole
     THEN /\ errand' = [errand EXCEPT ![u] = Idle]
          /\ UNCHANGED <<assigned, granted>>
     ELSE /\ errand' = [errand EXCEPT ![u] =
               IF e.roles = {r} THEN Idle ELSE [e EXCEPT !.roles = @ \ {r}]]
          /\ assigned' = [assigned EXCEPT ![e.target] = @ \cup {r}]
          /\ granted' = IF HasSuperCode(r) /\ e.bysuper THEN granted \cup {e.target} ELSE granted

-----------------------------------------------------------------------------
(* The code is unique, for the serializer and for the table. *)
CodeFree(r, code) ==
  code = "super_admin" => \A q \in Role \ {r} : ~HasSuperCode(q)

(* A row is saved with its code, which may be the one of super admins. *)
SaveRole(r, row) ==
  /\ role' = [role EXCEPT ![r] = row]
  /\ recoded' = IF row.code = "super_admin" /\ ~HasSuperCode(r) THEN recoded \cup {r} ELSE recoded

(* PATCH of a role.  Only a super admin may change one whose code is
   super_admin; the code it is given is not compared. *)
BeginUpdateRole(u, r, active, P, code) ==
  /\ Undertake(u, "roles", [op |-> "role", role |-> r,
        row |-> [active |-> active, perms |-> P, code |-> code]])
  /\ role[r] # NoRole
  /\ HasSuperCode(r) => IsSuper(u)
  /\ r = SuperRole => P # {}
  /\ CodeFree(r, code)
  /\ UNCHANGED <<rbac, adminHistory>>

(* save(): fails when the code was taken meanwhile; a role deleted meanwhile is
   inserted again, with no accounts. *)
FinishUpdateRole(u) ==
  LET e == errand[u] IN
  /\ e.op = "role"
  /\ Done(u)
  /\ IF CodeFree(e.role, e.row.code) THEN SaveRole(e.role, e.row) ELSE UNCHANGED <<role, recoded>>
  /\ UNCHANGED <<account, assigned, granted, audited, unlogged>>
  /\ Loosened

(* POST of a role, with any code that is free. *)
CreateRole(u, r, P, code) ==
  /\ Undertake(u, "roles", Idle)
  /\ role[r] = NoRole
  /\ CodeFree(r, code)
  /\ SaveRole(r, [active |-> TRUE, perms |-> P, code |-> code])
  /\ UNCHANGED <<account, assigned, granted, unguarded, audited, unlogged>>

(* "System roles cannot be deleted.", nor super_admin; the assignments of
   others go along. *)
DeleteRole(u, r) ==
  /\ Undertake(u, "roles", Idle)
  /\ role[r] # NoRole /\ r # SuperRole /\ ~HasSuperCode(r)
  /\ role' = [role EXCEPT ![r] = NoRole]
  /\ assigned' = [t \in Account |-> assigned[t] \ {r}]
  /\ UNCHANGED <<account, adminHistory>>

LoseErrand(u) ==
  /\ errand[u] # Idle
  /\ Done(u)
  /\ UNCHANGED <<rbac, adminHistory>>

-----------------------------------------------------------------------------
AccountStep(u) ==
  \/ \E t \in Account, b, super \in BOOLEAN : BeginUpdateAdmin(u, t, b, super)
  \/ \E t \in Account, b \in BOOLEAN : BeginUpdateUser(u, t, b) \/ SetActive(u, t, b)
  \/ \E t \in Account : BeginDeleteAdmin(u, t)
  \/ \E t \in Account, R \in SUBSET Role :
       BeginAssignRoles(u, t, R) \/ (\E super \in BOOLEAN : CreateAdmin(u, t, R, super))
  \/ BeginUpdateMe(u) \/ FinishSave(u) \/ FinishDeleteAdmin(u)
  \/ EndOtherRoles(u) \/ (\E r \in Role : StartRole(u, r))

RoleStep(u) ==
  \/ \E r \in Role, b \in BOOLEAN, P \in Grants, code \in Code : BeginUpdateRole(u, r, b, P, code)
  \/ \E r \in Role, P \in Grants, code \in Code : CreateRole(u, r, P, code)
  \/ \E r \in Role : DeleteRole(u, r)
  \/ FinishUpdateRole(u)

AdminNext == \E u \in Account : AccountStep(u) \/ RoleStep(u) \/ LoseErrand(u)

AdminSpec == AdminInit /\ [][AdminNext]_adminVars

-----------------------------------------------------------------------------
(* Whoever is a super admin was made one by a super admin, founded the
   platform, or has a role that took the code super_admin by a rename or as a
   new role, for which the code asks no super admin: no chain of suspensions,
   activations, stale saves, role edits and half-done assignments by others
   leads there otherwise. *)
SuperAdminsWereGranted ==
  \A u \in Supers : u \in granted \/ \E r \in ActiveRoles(u) \cap recoded : HasSuperCode(r)

(* Deletions alone, one at a time, leave a super admin: only overlapping
   deletions, or the operations that do not count, can end the last one. *)
LastSuperAdminKept == Supers = {} => unguarded

(* An administrator who was deleted has an entry in the log, unless writing it
   failed: the entry comes first, so a crash between the two loses none. *)
DeletionsLogged ==
  unlogged \/ \A u \in Account : account[u] \in AccountRow /\ ~account[u].alive => u \in audited

(* A deletion of an administrator costs the platform neither its last super
   admin nor the record of it, wherever it is interrupted. *)
AdminDeletionsSound == LastSuperAdminKept /\ DeletionsLogged
=============================================================================
