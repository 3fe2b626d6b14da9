------------------------------- MODULE Access -------------------------------
(***************************************************************************)
(* Users, roles, role grants and privileges, and the check that a          *)
(* statement of a session passes before it runs.                           *)
(* Source: pkg/identity/service.go, pkg/metadata/identity_repository.go,   *)
(* pkg/metadata/object_privilege_repository.go, pkg/query/                 *)
(* identity_processor.go, pkg/query/object_authorization.go and            *)
(* server/handlers/statement_access.go.                                    *)
(*                                                                         *)
(* An identity statement resolves its names first and then writes by id in *)
(* one transaction.  Transactions are serialized, the reads before them    *)
(* are not, so what was read may be gone or changed when it is written.    *)
(* The check of a session's statement is a row of reads: the user, his     *)
(* roles, the role hierarchy, and then the hierarchy and the privileges    *)
(* once more.                                                              *)
(*                                                                         *)
(* There is one user name, one object to hold a privilege on, and the      *)
(* system roles are PUBLIC and ACCOUNTADMIN with the reserved hierarchy    *)
(* between them.                                                           *)
(***************************************************************************)
EXTENDS Integers, FiniteSets

CONSTANTS
    Admins,      \* clients that run identity statements
    Names,       \* names of custom roles
    MaxRole,     \* bound: greatest id of a custom role
    MaxUser,     \* bound: users created under the one name
    NoUser

VARIABLES
    user,        \* the row of _metadata_users, or NoUser
    lastUser,
    role,        \* the id of the role of each name, 0 when there is none
    lastRole,
    members,     \* _metadata_user_role_grants: <<user, role>>
    edges,       \* _metadata_role_role_grants: <<child, parent>>, custom roles
    privileges,  \* roles with a row for the object's privilege
    req,         \* the identity statement of an admin between reads and write
    session,     \* the session's user id and active role
    stmt,        \* the session's statement and what its check has read
    was          \* history: grants present while the check of stmt reads them

userVars == <<user, lastUser, members>>
roleVars == <<role, lastRole, edges>>
sessionVars == <<session, stmt>>
vars == <<userVars, roleVars, privileges, req, sessionVars, was>>
-----------------------------------------------------------------------------
Public == 0
AccountAdmin == 1
CustomRoles == 2 .. MaxRole
RoleIds == {Public, AccountAdmin} \cup CustomRoles
UserIds == 1 .. MaxUser
AllNames == Names \cup {"PUBLIC", "ACCOUNTADMIN"}
Users == [id : UserIds, default : RoleIds, disabled : BOOLEAN]

ASSUME AccessAssumption ==
    /\ MaxUser \in Nat \ {0} /\ MaxRole \in Nat \ {0, 1}
    /\ NoUser \notin Users
    /\ {"PUBLIC", "ACCOUNTADMIN", ""} \cap Names = {}

SystemEdges == {<<Public, AccountAdmin>>}
Live == {Public, AccountAdmin} \cup ({role[n] : n \in Names} \ {0})
IdOf(n) == CASE n = "PUBLIC" -> Public [] n = "ACCOUNTADMIN" -> AccountAdmin
             [] OTHER -> role[n]
Exists(n) == n \in Names => role[n] # 0

\* The roles of R and every role granted to one of them, directly or not: the
\* least set of roles that holds R and, with a parent, its children.
Inherited(R, E) ==
    LET closed == {S \in SUBSET RoleIds : R \subseteq S /\ \A e \in E : e[2] \in S => e[1] \in S}
    IN  {r \in RoleIds : \A S \in closed : r \in S}

DirectRoles(u) == {r \in RoleIds : <<u, r>> \in members}
-----------------------------------------------------------------------------
\* The rows that the present part of the statement's check reads: first the
\* user's roles and the hierarchy, then the hierarchy and the privileges.
Links(step, m, e, p) ==
    CASE step \in {"direct", "role"} ->
           ({"edge"} \X e) \cup ({"member"} \X {r \in RoleIds : \E u \in UserIds : <<u, r>> \in m})
      [] step = "privileges" -> ({"edge"} \X e) \cup ({"privilege"} \X p)
      [] OTHER -> {}

\* They are collected until the part ends.
Remember ==
    LET begins == stmt'.step # stmt.step /\ stmt'.step \in {"direct", "privileges"}
    IN  was' = IF stmt'.op # "stmt" THEN {}
               ELSE (IF begins THEN {} ELSE was)
                        \cup Links(stmt'.step, members', edges', privileges')

Idle == [op |-> "idle", user |-> NoUser, role |-> Public, parent |-> Public,
         set |-> ""]
NoStmt == [op |-> "none", step |-> "", user |-> 0, name |-> "PUBLIC",
           role |-> Public, direct |-> {}, effective |-> {}]
NoSession == [user |-> 0, name |-> "PUBLIC", role |-> Public]
-----------------------------------------------------------------------------
\* What an identity statement takes from its reads to its write, for every
\* statement that gets that far.  None of them names ACCOUNTADMIN, which the
\* demonstration administrator holds from the start.

Known == {"PUBLIC"} \cup {n \in Names : role[n] # 0}

CreateUserConfigured ==
    {[Idle EXCEPT !.op = "create_user", !.role = IdOf(n)] : n \in Known}

\* ALTER USER sets disabled, default_role or one of the rest (password and
\* comment) in a copy of the row.  Bound: the default it sets is a custom role.
AlterUser ==
    {[Idle EXCEPT !.op = "alter_user", !.user = u, !.set = "disabled"] :
        u \in {[user EXCEPT !.disabled = d] : d \in BOOLEAN}}
    \cup {[Idle EXCEPT !.op = "alter_user", !.user = u, !.set = "default"] :
        u \in {[user EXCEPT !.default = role[n]] : n \in Known \cap Names}}
    \cup {[Idle EXCEPT !.op = "alter_user", !.user = user, !.set = "rest"]}

DeleteUser == {[Idle EXCEPT !.op = "drop_user", !.user = user]}

\* PUBLIC is implicit: it is neither granted nor revoked.
RoleOfUser(op) ==
    {[Idle EXCEPT !.op = op, !.user = user, !.role = IdOf(n)] : n \in Known \ {"PUBLIC"}}

\* System roles are not dropped.
DeleteRole == {[Idle EXCEPT !.op = "drop_role", !.role = role[n]] : n \in Known \cap Names}

\* Mutant: the system hierarchy is open to grants.
RoleOfAnyRole(op) ==
    {[Idle EXCEPT !.op = op, !.role = IdOf(p[1]), !.parent = IdOf(p[2])] :
        p \in {q \in Known \X Known : op = "grant_role" => q[1] # q[2]}}

\* The system hierarchy is reserved, and a role is not granted to itself.
RoleOfRole(op) ==
    {[Idle EXCEPT !.op = op, !.role = role[p[1]], !.parent = role[p[2]]] :
        p \in {q \in (Known \cap Names) \X (Known \cap Names) :
                 op = "grant_role" => q[1] # q[2]}}

\* A grant looks for the object and the role first, a revoke for the role.
\* Bound: privileges are granted to custom roles.
PrivilegeOf(op) == {[Idle EXCEPT !.op = op, !.role = role[n]] : n \in Known \cap Names}

Identity ==
    CreateUserConfigured \cup DeleteRole
        \cup RoleOfRole("grant_role") \cup RoleOfRole("revoke_role")
        \cup IF user = NoUser THEN {}
              ELSE AlterUser \cup DeleteUser
                       \cup RoleOfUser("grant_user") \cup RoleOfUser("revoke_user")
-----------------------------------------------------------------------------
\* The write of request r, by the ids it holds.  A transaction that is refused
\* changes nothing and is not an action here: see Refused.

CreateUserWithRoleRecord(r) ==
    /\ r.op = "create_user" /\ user = NoUser /\ r.role \in Live /\ lastUser < MaxUser
    /\ lastUser' = lastUser + 1
    /\ user' = [id |-> lastUser', default |-> r.role, disabled |-> FALSE]
    /\ members' = members \cup {<<lastUser', r.role>>}
    /\ UNCHANGED <<roleVars, privileges>>

OfUser(r) == user # NoUser /\ user.id = r.user.id

\* Mutant: UpdateUserRecord, which does not grant the default role.
UpdateUserRecord(r) ==
    /\ r.op = "alter_user" /\ OfUser(r) /\ r.user.default \in Live
    /\ user' = r.user
    /\ UNCHANGED <<lastUser, members, roleVars, privileges>>

\* Every mutable field is written, the default role is granted.
UpdateUserConfigurationRecord(r) ==
    /\ r.op = "alter_user" /\ OfUser(r) /\ r.user.default \in Live
    /\ user' = r.user
    /\ members' = members \cup {<<user.id, r.user.default>>}
    /\ UNCHANGED <<lastUser, roleVars, privileges>>

DeleteUserRecord(r) ==
    /\ r.op = "drop_user" /\ OfUser(r)
    /\ user' = NoUser
    /\ members' = {m \in members : m[1] # r.user.id}
    /\ UNCHANGED <<lastUser, roleVars, privileges>>

GrantRoleToUserRecord(r) ==
    /\ r.op = "grant_user" /\ OfUser(r) /\ r.role \in Live
    /\ members' = members \cup {<<r.user.id, r.role>>}
    /\ UNCHANGED <<user, lastUser, roleVars, privileges>>

RevokeRoleFromUserRecord(r) ==
    /\ r.op = "revoke_user" /\ OfUser(r) /\ user.default # r.role
    /\ members' = members \ {<<r.user.id, r.role>>}
    /\ UNCHANGED <<user, lastUser, roleVars, privileges>>

\* Mutant: the hierarchy is not counted.
InUseByUser(id) ==
    \/ user # NoUser /\ user.default = id
    \/ \E m \in members : m[2] = id

\* A default role, a member or an edge of the hierarchy refers to role id.
InUse(id) ==
    \/ user # NoUser /\ user.default = id
    \/ \E m \in members : m[2] = id
    \/ \E e \in edges : id \in {e[1], e[2]}

DeleteRoleRecord(r) ==
    /\ r.op = "drop_role" /\ r.role \in Live /\ ~InUse(r.role)
    /\ role' = [n \in Names |-> IF role[n] = r.role THEN 0 ELSE role[n]]
    /\ privileges' = privileges \ {r.role}
    /\ UNCHANGED <<userVars, lastRole, edges>>

\* Mutant: no look at the ancestors.
GrantRoleUnchecked(r) ==
    /\ r.op = "grant_role" /\ {r.role, r.parent} \subseteq Live
    /\ edges' = edges \cup {<<r.role, r.parent>>}
    /\ UNCHANGED <<userVars, role, lastRole, privileges>>

\* The child must not be an ancestor of the parent.
GrantRoleToRoleRecord(r) ==
    /\ r.op = "grant_role"
    /\ {r.role, r.parent} \subseteq Live /\ r.parent \notin Inherited({r.role}, edges)
    /\ edges' = edges \cup {<<r.role, r.parent>>}
    /\ UNCHANGED <<userVars, role, lastRole, privileges>>

RevokeRoleFromRoleRecord(r) ==
    /\ r.op = "revoke_role"
    /\ edges' = edges \ {<<r.role, r.parent>>}
    /\ UNCHANGED <<userVars, role, lastRole, privileges>>

\* The role is not looked at again.
GrantObjectPrivilegeRecord(r) ==
    /\ r.op = "grant"
    /\ privileges' = privileges \cup {r.role}
    /\ UNCHANGED <<userVars, roleVars>>

RevokeObjectPrivilegeRecord(r) ==
    /\ r.op = "revoke"
    /\ privileges' = privileges \ {r.role}
    /\ UNCHANGED <<userVars, roleVars>>

Write(r) ==
    \/ CreateUserWithRoleRecord(r) \/ UpdateUserConfigurationRecord(r)
    \/ DeleteUserRecord(r) \/ GrantRoleToUserRecord(r) \/ RevokeRoleFromUserRecord(r)
    \/ DeleteRoleRecord(r) \/ GrantRoleToRoleRecord(r) \/ RevokeRoleFromRoleRecord(r)
    \/ GrantObjectPrivilegeRecord(r) \/ RevokeObjectPrivilegeRecord(r)
-----------------------------------------------------------------------------
\* The clients.  Bound: from the login on an identity statement is undivided;
\* the session's check sees the rows, never what an administrator has read.

LoggingIn == session # NoSession \/ stmt # NoStmt

Read(a) ==
    /\ ~LoggingIn /\ req[a] = Idle
    /\ \E r \in Identity : req' = [req EXCEPT ![a] = r]
    /\ UNCHANGED <<userVars, roleVars, privileges, sessionVars>>

WriteRead(a) ==
    /\ Write(req[a])
    /\ req' = [req EXCEPT ![a] = Idle]
    /\ UNCHANGED sessionVars

Undivided ==
    /\ LoggingIn
    /\ \E r \in Identity \cup PrivilegeOf("grant") \cup PrivilegeOf("revoke") : Write(r)
    /\ UNCHANGED <<req, sessionVars>>

\* The transaction is rolled back.
Refused(a) ==
    /\ req[a] # Idle
    /\ req' = [req EXCEPT ![a] = Idle]
    /\ UNCHANGED <<userVars, roleVars, privileges, sessionVars>>

\* CREATE ROLE is a single insert: a name that is taken violates its UNIQUE
\* constraint.
CreateRoleRecord(n) ==
    /\ role[n] = 0 /\ lastRole < MaxRole
    /\ lastRole' = lastRole + 1
    /\ role' = [role EXCEPT ![n] = lastRole']
    /\ UNCHANGED <<userVars, edges, privileges, req, sessionVars>>

\* The object is dropped, and the privileges on it in the same transaction.
DropObject ==
    /\ privileges' = {}
    /\ UNCHANGED <<userVars, roleVars, req, sessionVars>>
-----------------------------------------------------------------------------
\* The session: login (without a role, or with a custom one), USE ROLE and
\* statements.  ResolveActiveRole reads the user by id, then his roles by name,
\* then the hierarchy.

\* "" is a login without a role: it asks for the user's default role.
Send(op, n) ==
    /\ stmt = NoStmt /\ \A a \in Admins : req[a] = Idle
    /\ (op = "login") = (session = NoSession)
    /\ stmt' = [NoStmt EXCEPT !.op = op, !.step = "user", !.name = n,
                              !.user = session.user,
                              !.role = IF op = "stmt" THEN session.role ELSE Public]
    /\ UNCHANGED <<userVars, roleVars, privileges, req, session>>

Login(n) == n \in Names \cup {""} /\ Send("login", n)
UseRole(n) == n \in AllNames /\ Send("use", n)
Submit == Send("stmt", session.name)

Advance(changed) ==
    /\ stmt' = changed
    /\ UNCHANGED <<userVars, roleVars, privileges, req, session>>

NameOf(id) == CHOOSE n \in AllNames : Exists(n) /\ IdOf(n) = id

\* The session's user, who must not be disabled; a login authenticates him.
ResolveUser ==
    /\ stmt.step = "user"
    /\ Advance(IF \/ user = NoUser
                  \/ stmt.op # "login" /\ user.id # stmt.user
                  \/ user.disabled
               THEN NoStmt
               ELSE [stmt EXCEPT !.step = "direct", !.user = user.id,
                         !.name = IF @ = "" THEN NameOf(user.default) ELSE @])

ResolveDirect ==
    /\ stmt.step = "direct"
    /\ Advance(IF user = NoUser THEN NoStmt
               ELSE [stmt EXCEPT !.step = "role", !.direct = DirectRoles(user.id)])

\* PUBLIC is effective for every user.
EffectiveRoles == (Inherited(stmt.direct, edges \cup SystemEdges) \cap Live) \cup {Public}

\* The requested role, when the user may assume it.
Granted == Exists(stmt.name) /\ IdOf(stmt.name) \in EffectiveRoles

\* Login and USE ROLE set the session's role.
SetActiveRole ==
    /\ stmt.op # "stmt"
    /\ stmt' = NoStmt
    /\ session' = IF Granted
                  THEN [user |-> stmt.user, name |-> stmt.name, role |-> IdOf(stmt.name)]
                  ELSE session
    /\ UNCHANGED <<userVars, roleVars, privileges, req>>

Authorizing == [stmt EXCEPT !.step = "authorize", !.direct = {}]

\* Mutant: a statement trusts the role its session was given.
ResolveRoleOnce ==
    /\ stmt.step = "role"
    /\ SetActiveRole \/ (stmt.op = "stmt" /\ Advance(Authorizing))

\* A statement goes on only when the role of its session's role name is
\* granted and still has the id that the session holds.
ResolveRole ==
    /\ stmt.step = "role"
    /\ \/ SetActiveRole
       \/ /\ stmt.op = "stmt"
          /\ Advance(IF Granted /\ IdOf(stmt.name) = stmt.role THEN Authorizing ELSE NoStmt)

\* AuthorizeObject: ACCOUNTADMIN passes, any other role inherits privileges.
AuthorizeRole ==
    /\ stmt.step = "authorize"
    /\ Advance(IF stmt.role \notin Live THEN NoStmt
               ELSE IF stmt.role = AccountAdmin THEN [stmt EXCEPT !.step = "accepted"]
               ELSE [stmt EXCEPT !.step = "privileges",
                         !.effective = Inherited({stmt.role}, edges \cup SystemEdges)])

AuthorizePrivilege ==
    /\ stmt.step = "privileges"
    /\ Advance(IF stmt.effective \cap privileges # {}
               THEN [stmt EXCEPT !.step = "accepted", !.effective = {}] ELSE NoStmt)

\* It runs.
Execute == stmt.step = "accepted" /\ Advance(NoStmt)

\* The process restarts: BootstrapIdentity adds the demonstration
\* administrator when there is no user.  Sessions survive.
BootstrapIdentity ==
    /\ stmt = NoStmt
    /\ req' = [a \in Admins |-> Idle]
    /\ IF user = NoUser /\ lastUser < MaxUser
       THEN /\ lastUser' = lastUser + 1
            /\ user' = [id |-> lastUser', default |-> AccountAdmin, disabled |-> FALSE]
            /\ members' = members \cup {<<lastUser', AccountAdmin>>}
       ELSE UNCHANGED userVars
    /\ UNCHANGED <<roleVars, privileges, sessionVars>>
-----------------------------------------------------------------------------
Init ==
    /\ user = [id |-> 1, default |-> AccountAdmin, disabled |-> FALSE] /\ lastUser = 1
    /\ role = [n \in Names |-> 0] /\ lastRole = AccountAdmin
    /\ members = {<<1, AccountAdmin>>} /\ edges = {}
    /\ privileges = {}
    /\ req = [a \in Admins |-> Idle]
    /\ session = NoSession /\ stmt = NoStmt /\ was = {}

SessionStep ==
    \/ \E n \in AllNames \cup {""} : Login(n) \/ UseRole(n)
    \/ Submit \/ ResolveUser \/ ResolveDirect \/ ResolveRole
    \/ AuthorizeRole \/ AuthorizePrivilege \/ Execute

Next ==
    /\ \/ \E a \in Admins : Read(a) \/ WriteRead(a) \/ Refused(a)
       \/ Undivided \/ \E n \in Names : CreateRoleRecord(n)
       \/ DropObject \/ SessionStep \/ BootstrapIdentity
    /\ Remember

Spec == Init /\ [][Next]_vars
-----------------------------------------------------------------------------
TypeOK ==
    /\ user \in Users \cup {NoUser} /\ lastUser \in UserIds
    /\ role \in [Names -> {0} \cup CustomRoles] /\ lastRole \in RoleIds
    /\ members \subseteq UserIds \X RoleIds
    /\ edges \subseteq CustomRoles \X CustomRoles
    /\ privileges \subseteq RoleIds
    /\ \A a \in Admins : req[a].user \in Users \cup {NoUser} /\ req[a].role \in RoleIds
    /\ session.role \in RoleIds /\ stmt.role \in RoleIds
    /\ stmt.direct \subseteq RoleIds /\ stmt.effective \subseteq RoleIds

\* No grant, default role or edge of the hierarchy refers to a user or a role
\* that was dropped, although the ids are read before the transaction that
\* writes them and another client may drop the role in between.
GrantsAreLive ==
    /\ \A m \in members : user # NoUser /\ m[1] = user.id /\ m[2] \in Live
    /\ \A e \in edges : {e[1], e[2]} \subseteq Live
    /\ user # NoUser => user.default \in Live

\* A user's default role is granted to him: changing the default, revoking a
\* role and writing back a stale row of the user race, and none of them leaves
\* a default the user may not log in with.
DefaultRoleIsGranted == user # NoUser => <<user.id, user.default>> \in members

\* Two grants that each look harmless do not close a cycle in the hierarchy.
RolesAcyclic == \A e \in edges : e[2] \notin Inherited({e[1]}, edges)

\* A statement is let through only along grants that existed while they were
\* read: a role or a privilege revoked before the statement was sent is not
\* used, whatever the session remembers.
AcceptedAlongGrants ==
    LET seen(kind) == {l[2] : l \in {k \in was : k[1] = kind}}
        hierarchy == seen("edge") \cup SystemEdges
    IN  /\ stmt.step = "authorize" =>
             stmt.role \in Inherited(seen("member") \cup {Public}, hierarchy)
        /\ stmt.step = "accepted" =>
             \/ stmt.role = AccountAdmin
             \/ Inherited({stmt.role}, hierarchy) \cap seen("privilege") # {}

\* ALTER USER leaves the fields it does not name unchanged (service.go:126).
\* The code writes back the whole row it read.
UnsetFieldsUnchanged ==
    [][\A a \in Admins :
         (UpdateUserConfigurationRecord(req[a]) /\ req[a].set # "disabled")
             => user'.disabled = user.disabled]_vars
=============================================================================
