----------------------------- MODULE AccessProofs -----------------------------
(***************************************************************************)
(* The safety of Access for any set of administrators and role names and   *)
(* any bounds on the ids: what the grants refer to, that the hierarchy of  *)
(* roles has no cycle, and along which grants a statement is let through.  *)
(*                                                                         *)
(* The rows keep their invariants under every transaction, whatever was    *)
(* read before it (RowsInv needs of a request only that it is one that     *)
(* some statement makes).  The check of a session's statement is a row of  *)
(* reads; ChecksSeen says at each of them that what the statement carries  *)
(* on follows from grants that were there while it read.                   *)
(***************************************************************************)
EXTENDS Access, TLAPS

\* A request as some identity statement makes it.
Made(r) ==
    /\ r.user \in Users \cup {NoUser} /\ r.role \in RoleIds
    /\ r.op = "alter_user" => r.user \in Users
    /\ r.op = "grant_role" => {r.role, r.parent} \subseteq CustomRoles

RequestsMade == DOMAIN req = Admins /\ \A a \in Admins : Made(req[a])

\* What the rows promise each other.
RowsInv ==
    /\ user \in Users \cup {NoUser} /\ lastUser \in UserIds
    /\ role \in [Names -> {0} \cup CustomRoles] /\ lastRole \in RoleIds \ {Public}
    /\ members \subseteq UserIds \X RoleIds
    /\ edges \subseteq CustomRoles \X CustomRoles
    /\ privileges \subseteq RoleIds
    /\ GrantsAreLive
    /\ DefaultRoleIsGranted
    /\ RolesAcyclic

Stmts == [op : {"none", "login", "use", "stmt"},
          step : {"", "user", "direct", "role", "authorize", "privileges", "accepted"},
          user : UserIds \cup {0}, name : AllNames \cup {""}, role : RoleIds,
          direct : SUBSET RoleIds, effective : SUBSET RoleIds]

SessionType ==
    /\ session \in [user : UserIds \cup {0}, name : AllNames \cup {""}, role : RoleIds]
    /\ stmt \in Stmts

Seen(w, kind) == {l[2] : l \in {k \in w : k[1] = kind}}
Hierarchy(w) == Seen(w, "edge") \cup SystemEdges

\* The rows a statement is reading are among those it was.
Covers(w, step, m, e, p) == Links(step, m, e, p) \subseteq w
ReadsSeen == stmt.op = "stmt" => Covers(was, stmt.step, members, edges, privileges)

\* What statement s took from rows it read follows from w.
Promised(s, w) ==
    /\ s.step \in {"authorize", "privileges", "accepted"} => s.op = "stmt"
    /\ s.op = "stmt" /\ s.step = "role" => s.direct \subseteq Seen(w, "member")
    /\ s.step = "authorize" => s.role \in Inherited(Seen(w, "member") \cup {Public}, Hierarchy(w))
    /\ s.step = "privileges" => s.effective \subseteq Inherited({s.role}, Hierarchy(w))
    /\ s.step = "accepted" =>
          \/ s.role = AccountAdmin
          \/ Inherited({s.role}, Hierarchy(w)) \cap Seen(w, "privilege") # {}

ChecksSeen == ReadsSeen /\ Promised(stmt, was)

\* The inductive invariant.
AInv == RowsInv /\ RequestsMade /\ SessionType /\ ChecksSeen
-----------------------------------------------------------------------------
(***************************************************************************)
(* Facts about the closure.                                                *)
(***************************************************************************)

\* It holds the roles it starts from.
LEMMA InheritedContains ==
    ASSUME NEW R, NEW E
    PROVE  R \cap RoleIds \subseteq Inherited(R, E) /\ Inherited(R, E) \subseteq RoleIds
  BY DEF Inherited

\* With a parent, it holds the children.
LEMMA InheritedClosed ==
    ASSUME NEW R, NEW E, NEW e \in E, e[1] \in RoleIds, e[2] \in Inherited(R, E)
    PROVE  e[1] \in Inherited(R, E)
  BY DEF Inherited

\* It is inside every set that does so.
Closed(S, R, E) ==
    S \in SUBSET RoleIds /\ R \subseteq S /\ \A e \in E : e[2] \in S => e[1] \in S

LEMMA InheritedLeast ==
    ASSUME NEW R, NEW E, NEW S, Closed(S, R, E)
    PROVE  Inherited(R, E) \subseteq S
  BY DEF Inherited, Closed

\* More roles and more grants give no less.
LEMMA InheritedMonotonic ==
    ASSUME NEW R1, NEW R2, NEW E1, NEW E2, R1 \subseteq R2, E1 \subseteq E2
    PROVE  Inherited(R1, E1) \subseteq Inherited(R2, E2)
<1>1. \A S \in SUBSET RoleIds :
         /\ R2 \subseteq S /\ \A e \in E2 : e[2] \in S => e[1] \in S
         => R1 \subseteq S /\ \A e \in E1 : e[2] \in S => e[1] \in S
  OBVIOUS
<1> QED
  BY <1>1 DEF Inherited

\* A grant whose parent does not inherit from its child closes no cycle: of
\* the two closures that could now reach further, the one of the new child
\* does not, and any other gains only what the new child inherits.
LEMMA NewEdgeKeepsAcyclic ==
    ASSUME NEW E \in SUBSET (RoleIds \X RoleIds), NEW c \in RoleIds, NEW p \in RoleIds,
           p \notin Inherited({c}, E),
           \A e \in E : e[2] \notin Inherited({e[1]}, E),
           NEW e \in E \cup {<<c, p>>}
    PROVE  e[2] \notin Inherited({e[1]}, E \cup {<<c, p>>})
<1> DEFINE A == Inherited({e[1]}, E)
           C == Inherited({c}, E)
<1>1. e[1] \in RoleIds /\ e[2] \in RoleIds /\ \A f \in E : f[1] \in RoleIds
  OBVIOUS
<1>2. /\ A \in SUBSET RoleIds /\ e[1] \in A /\ \A f \in E : f[2] \in A => f[1] \in A
      /\ C \in SUBSET RoleIds /\ c \in C /\ \A f \in E : f[2] \in C => f[1] \in C
  BY <1>1, InheritedContains, InheritedClosed
<1>3. e[2] \notin A
  OBVIOUS
<1>4. CASE p \notin A
  <2>1. Closed(A, {e[1]}, E \cup {<<c, p>>})
    BY <1>2, <1>4 DEF Closed
  <2>2. Inherited({e[1]}, E \cup {<<c, p>>}) \subseteq A
    BY <2>1, InheritedLeast
  <2> QED
    BY <1>3, <2>2
<1>5. CASE p \in A
  <2>1. e \in E
    BY <1>5
  <2>2. e[2] \notin C
    <3>1. SUFFICES ASSUME e[2] \in C
                   PROVE  FALSE
      OBVIOUS
    <3>2. e[1] \in C
      BY <1>2, <2>1, <3>1
    <3>3. Closed(C, {e[1]}, E)
      BY <1>2, <3>2 DEF Closed
    <3>4. A \subseteq C
      BY <3>3, InheritedLeast
    <3> QED
      BY <1>5, <3>4
  <2>3. Closed(A \cup C, {e[1]}, E \cup {<<c, p>>})
    <3> HIDE DEF A, C
    <3>1. ASSUME NEW f \in E \cup {<<c, p>>}, f[2] \in A \cup C
          PROVE  f[1] \in A \cup C
      BY <1>2, <3>1
    <3> QED
      BY <1>2, <3>1 DEF Closed
  <2>4. Inherited({e[1]}, E \cup {<<c, p>>}) \subseteq A \cup C
    BY <2>3, InheritedLeast
  <2> QED
    BY <1>3, <2>2, <2>4
<1> QED
  BY <1>4, <1>5
-----------------------------------------------------------------------------
(***************************************************************************)
(* Types of what the requests carry.                                       *)
(***************************************************************************)

\* Roles that exist are ids, and so is what a name stands for.
LEMMA IdsOK ==
    ASSUME RowsInv
    PROVE  /\ Live \subseteq RoleIds
           /\ \A n \in Names : role[n] \in RoleIds
           /\ \A n \in AllNames : IdOf(n) \in RoleIds
           /\ \A n \in Names \cap Known : role[n] \in CustomRoles
           /\ \A n \in Names : IdOf(n) = role[n]
  BY AccessAssumption
     DEF RowsInv, Live, RoleIds, CustomRoles, IdOf, AllNames, Known, Public, AccountAdmin

\* Every identity statement makes a request of the kind its write expects.
LEMMA IdentityOK ==
    ASSUME RowsInv, NEW r \in Identity \cup PrivilegeOf("grant") \cup PrivilegeOf("revoke")
    PROVE  Made(r)
<1>1. /\ Public \in RoleIds /\ \A n \in Known : IdOf(n) \in RoleIds
      /\ \A n \in Known \cap Names : role[n] \in CustomRoles /\ role[n] \in RoleIds
  BY IdsOK DEF Known, AllNames, RoleIds
<1>2. ASSUME r \in CreateUserConfigured
      PROVE  Made(r)
  <2>1. PICK n \in Known : r = [Idle EXCEPT !.op = "create_user", !.role = IdOf(n)]
    BY <1>2 DEF CreateUserConfigured
  <2> QED
    BY <1>1, <2>1 DEF Idle, Made
<1>3. ASSUME r \in DeleteRole \cup PrivilegeOf("grant") \cup PrivilegeOf("revoke")
      PROVE  Made(r)
  <2>1. PICK n \in Known \cap Names, op \in {"drop_role", "grant", "revoke"} :
           r = [Idle EXCEPT !.op = op, !.role = role[n]]
    BY <1>3 DEF DeleteRole, PrivilegeOf
  <2> QED
    BY <1>1, <2>1 DEF Idle, Made
<1>4. ASSUME r \in RoleOfRole("grant_role") \cup RoleOfRole("revoke_role")
      PROVE  Made(r)
  <2>1. PICK n \in Known \cap Names, m \in Known \cap Names, op \in {"grant_role", "revoke_role"} :
           r = [Idle EXCEPT !.op = op, !.role = role[n], !.parent = role[m]]
    BY <1>4 DEF RoleOfRole
  <2> QED
    BY <1>1, <2>1 DEF Idle, Made
<1>5. ASSUME user # NoUser, r \in AlterUser \cup DeleteUser
      PROVE  Made(r)
  <2>1. user \in Users
    BY <1>5 DEF RowsInv
  <2>2. {[user EXCEPT !.disabled = d] : d \in BOOLEAN} \subseteq Users
    BY <2>1 DEF Users
  <2>3. {[user EXCEPT !.default = role[n]] : n \in Known \cap Names} \subseteq Users
    BY <1>1, <2>1 DEF Users
  <2>4. \/ \E u \in Users, set \in {"disabled", "default", "rest"} :
             r = [Idle EXCEPT !.op = "alter_user", !.user = u, !.set = set]
        \/ r = [Idle EXCEPT !.op = "drop_user", !.user = user]
    <3>1. CASE r \in DeleteUser
      BY <3>1 DEF DeleteUser
    <3>2. CASE r \in AlterUser
      BY <2>1, <2>2, <2>3, <3>2 DEF AlterUser
    <3> QED
      BY <1>5, <3>1, <3>2
  <2>5. r.user \in Users /\ r.role = Public /\ r.op \in {"alter_user", "drop_user"}
    BY <2>1, <2>4 DEF Idle
  <2> QED
    BY <1>1, <2>5 DEF Made
<1>6. ASSUME user # NoUser, r \in RoleOfUser("grant_user") \cup RoleOfUser("revoke_user")
      PROVE  Made(r)
  <2>1. PICK n \in Known, op \in {"grant_user", "revoke_user"} :
           r = [Idle EXCEPT !.op = op, !.user = user, !.role = IdOf(n)]
    BY <1>6 DEF RoleOfUser
  <2>2. user \in Users
    BY <1>6 DEF RowsInv
  <2> QED
    BY <1>1, <2>1, <2>2 DEF Idle, Made
<1> QED
  BY <1>2, <1>3, <1>4, <1>5, <1>6 DEF Identity
-----------------------------------------------------------------------------
(***************************************************************************)
(* The rows keep their promises, one lemma per transaction.                *)
(***************************************************************************)

\* The next id of a user is one.
LEMMA NextUser ==
    ASSUME RowsInv, lastUser < MaxUser, NEW d \in RoleIds,
           user' = [id |-> lastUser', default |-> d, disabled |-> FALSE],
           lastUser' = lastUser + 1
    PROVE  /\ lastUser' \in UserIds /\ user' \in Users /\ user' # NoUser
           /\ user'.id = lastUser' /\ user'.default = d
<1>1. lastUser' \in UserIds
  <2>1. MaxUser \in Nat /\ lastUser \in 1 .. MaxUser
    BY AccessAssumption DEF RowsInv, UserIds
  <2> QED
    BY <2>1 DEF UserIds
<1>2. user' \in Users
  BY <1>1 DEF Users
<1> QED
  BY <1>1, <1>2, AccessAssumption

LEMMA CreateUserKeepsRows ==
    ASSUME RowsInv, NEW r, Made(r), CreateUserWithRoleRecord(r)
    PROVE  RowsInv'
<1>1. members = {} /\ r.role \in RoleIds
  BY DEF RowsInv, GrantsAreLive, Made, CreateUserWithRoleRecord
<1>2. /\ lastUser' \in UserIds /\ user' \in Users /\ user' # NoUser
      /\ user'.id = lastUser' /\ user'.default = r.role
  BY <1>1, NextUser DEF CreateUserWithRoleRecord
<1> USE DEF CreateUserWithRoleRecord, roleVars
<1>3. Live' = Live /\ members' = {<<lastUser', r.role>>}
  BY <1>1 DEF Live
<1>4. GrantsAreLive'
  BY <1>2, <1>3 DEF GrantsAreLive, RowsInv
<1>5. DefaultRoleIsGranted'
  BY <1>2, <1>3 DEF DefaultRoleIsGranted
<1>6. RolesAcyclic'
  BY DEF RolesAcyclic, RowsInv
<1> QED
  BY <1>1, <1>2, <1>3, <1>4, <1>5, <1>6 DEF RowsInv

LEMMA UpdateUserKeepsRows ==
    ASSUME RowsInv, NEW r, Made(r), UpdateUserConfigurationRecord(r)
    PROVE  RowsInv'
<1> USE DEF UpdateUserConfigurationRecord, roleVars, OfUser
<1>1. user \in Users /\ user' \in Users /\ user' # NoUser /\ user'.id = user.id
  BY AccessAssumption DEF Made, RowsInv
<1>2. members' = members \cup {<<user'.id, user'.default>>} /\ user'.default \in Live'
  BY <1>1 DEF Live
<1>3. GrantsAreLive' /\ DefaultRoleIsGranted'
  BY <1>1, <1>2 DEF GrantsAreLive, DefaultRoleIsGranted, RowsInv, Live
<1>4. RolesAcyclic'
  BY DEF RolesAcyclic, RowsInv
<1> QED
  BY <1>1, <1>2, <1>3, <1>4 DEF RowsInv, Users

LEMMA DeleteUserKeepsRows ==
    ASSUME RowsInv, NEW r, DeleteUserRecord(r)
    PROVE  RowsInv'
<1> USE DEF DeleteUserRecord, roleVars, OfUser
<1>1. members' = {} /\ Live' = Live
  BY DEF RowsInv, GrantsAreLive, Live
<1>2. GrantsAreLive' /\ DefaultRoleIsGranted'
  BY <1>1 DEF GrantsAreLive, DefaultRoleIsGranted, RowsInv
<1>3. RolesAcyclic'
  BY DEF RolesAcyclic, RowsInv
<1> QED
  BY <1>1, <1>2, <1>3 DEF RowsInv

LEMMA GrantToUserKeepsRows ==
    ASSUME RowsInv, NEW r, Made(r), GrantRoleToUserRecord(r)
    PROVE  RowsInv'
<1> USE DEF GrantRoleToUserRecord, roleVars, OfUser
<1>1. user \in Users /\ <<r.user.id, r.role>> \in UserIds \X RoleIds /\ Live' = Live
  BY DEF RowsInv, Users, Made, Live
<1>2. GrantsAreLive' /\ DefaultRoleIsGranted'
  BY <1>1 DEF GrantsAreLive, DefaultRoleIsGranted, RowsInv
<1>3. RolesAcyclic'
  BY DEF RolesAcyclic, RowsInv
<1> QED
  BY <1>1, <1>2, <1>3 DEF RowsInv

\* The default role is not the one that is revoked.
LEMMA RevokeFromUserKeepsRows ==
    ASSUME RowsInv, NEW r, RevokeRoleFromUserRecord(r)
    PROVE  RowsInv'
<1> USE DEF RevokeRoleFromUserRecord, roleVars, OfUser
<1>1. Live' = Live
  BY DEF Live
<1>2. GrantsAreLive' /\ DefaultRoleIsGranted'
  BY <1>1 DEF GrantsAreLive, DefaultRoleIsGranted, RowsInv
<1>3. RolesAcyclic'
  BY DEF RolesAcyclic, RowsInv
<1> QED
  BY <1>1, <1>2, <1>3 DEF RowsInv

\* A role that something refers to is not dropped, so what is referred to is
\* still there.
LEMMA DeleteRoleKeepsRows ==
    ASSUME RowsInv, NEW r, DeleteRoleRecord(r)
    PROVE  RowsInv'
<1> USE DEF DeleteRoleRecord, userVars
<1>1. \A id \in Live : id # r.role => id \in Live'
  BY DEF Live, RowsInv
<1>2. GrantsAreLive' /\ DefaultRoleIsGranted'
  BY <1>1 DEF GrantsAreLive, DefaultRoleIsGranted, RowsInv, InUse
<1>3. RolesAcyclic'
  BY DEF RolesAcyclic, RowsInv
<1> QED
  BY <1>2, <1>3 DEF RowsInv

LEMMA GrantToRoleKeepsRows ==
    ASSUME RowsInv, NEW r, Made(r), GrantRoleToRoleRecord(r)
    PROVE  RowsInv'
<1> USE DEF GrantRoleToRoleRecord, userVars
<1>1. /\ edges \in SUBSET (RoleIds \X RoleIds) /\ r.role \in RoleIds /\ r.parent \in RoleIds
      /\ edges' \subseteq CustomRoles \X CustomRoles
  BY DEF RowsInv, Made, RoleIds
<1>2. GrantsAreLive' /\ DefaultRoleIsGranted'
  BY DEF GrantsAreLive, DefaultRoleIsGranted, RowsInv, Live
<1>3. RolesAcyclic'
  BY <1>1, NewEdgeKeepsAcyclic DEF RolesAcyclic, RowsInv
<1> QED
  BY <1>1, <1>2, <1>3 DEF RowsInv

LEMMA RevokeFromRoleKeepsRows ==
    ASSUME RowsInv, NEW r, RevokeRoleFromRoleRecord(r)
    PROVE  RowsInv'
<1> USE DEF RevokeRoleFromRoleRecord, userVars
<1>1. GrantsAreLive' /\ DefaultRoleIsGranted'
  BY DEF GrantsAreLive, DefaultRoleIsGranted, RowsInv, Live
<1>2. RolesAcyclic'
  <2>1. edges' \subseteq edges
    OBVIOUS
  <2>2. \A e \in edges' : Inherited({e[1]}, edges') \subseteq Inherited({e[1]}, edges)
    BY <2>1, InheritedMonotonic
  <2> QED
    BY <2>1, <2>2 DEF RolesAcyclic, RowsInv
<1> QED
  BY <1>1, <1>2 DEF RowsInv

LEMMA CreateRoleKeepsRows ==
    ASSUME RowsInv, NEW n \in Names, CreateRoleRecord(n)
    PROVE  RowsInv'
<1> USE DEF CreateRoleRecord, userVars
<1>1. lastRole' \in CustomRoles /\ lastRole' \in RoleIds \ {Public}
  <2>1. lastRole \in {AccountAdmin} \cup CustomRoles
    BY DEF RowsInv, RoleIds
  <2>2. MaxRole \in Nat /\ lastRole < MaxRole /\ lastRole' = lastRole + 1
    BY AccessAssumption
  <2> QED
    BY <2>1, <2>2 DEF CustomRoles, RoleIds, Public, AccountAdmin
<1>2. role' \in [Names -> {0} \cup CustomRoles]
  BY <1>1 DEF RowsInv
<1>3. Live \subseteq Live'
  BY DEF Live, RowsInv
<1>4. GrantsAreLive' /\ DefaultRoleIsGranted'
  BY <1>3 DEF GrantsAreLive, DefaultRoleIsGranted, RowsInv
<1>5. RolesAcyclic'
  BY DEF RolesAcyclic, RowsInv
<1> QED
  BY <1>1, <1>2, <1>4, <1>5 DEF RowsInv

LEMMA BootstrapKeepsRows ==
    ASSUME RowsInv, BootstrapIdentity
    PROVE  RowsInv'
<1>1. UNCHANGED roleVars /\ UNCHANGED privileges
  BY DEF BootstrapIdentity
<1>2. RolesAcyclic' /\ Live' = Live
  BY <1>1 DEF RolesAcyclic, RowsInv, Live, roleVars
<1>3. CASE user = NoUser /\ lastUser < MaxUser
  <2>1. members = {} /\ AccountAdmin \in RoleIds /\ AccountAdmin \in Live
    BY <1>3 DEF RowsInv, GrantsAreLive, RoleIds, Live
  <2>2. /\ lastUser' = lastUser + 1
        /\ user' = [id |-> lastUser', default |-> AccountAdmin, disabled |-> FALSE]
        /\ members' = {<<lastUser', AccountAdmin>>}
    BY <1>3, <2>1 DEF BootstrapIdentity
  <2>3. /\ lastUser' \in UserIds /\ user' \in Users /\ user' # NoUser
        /\ user'.id = lastUser' /\ user'.default = AccountAdmin
    BY <1>3, <2>1, <2>2, NextUser
  <2>4. GrantsAreLive'
    BY <1>1, <1>2, <2>1, <2>2, <2>3 DEF GrantsAreLive, RowsInv, roleVars
  <2>5. DefaultRoleIsGranted'
    BY <2>2, <2>3 DEF DefaultRoleIsGranted
  <2> QED
    BY <1>1, <1>2, <2>1, <2>2, <2>3, <2>4, <2>5 DEF RowsInv, roleVars
<1>4. CASE ~(user = NoUser /\ lastUser < MaxUser)
  <2>1. UNCHANGED userVars
    BY <1>4 DEF BootstrapIdentity
  <2> QED
    BY <1>1, <1>2, <2>1 DEF RowsInv, userVars, roleVars, GrantsAreLive, DefaultRoleIsGranted
<1> QED
  BY <1>3, <1>4

\* No write breaks a promise of the rows, however old what it was decided on.
LEMMA WritesKeepRows ==
    ASSUME RowsInv, NEW r, Made(r), Write(r)
    PROVE  RowsInv'
<1>1. CASE GrantObjectPrivilegeRecord(r) \/ RevokeObjectPrivilegeRecord(r)
  <2>1. UNCHANGED <<userVars, roleVars>> /\ privileges' \subseteq RoleIds
    BY <1>1 DEF GrantObjectPrivilegeRecord, RevokeObjectPrivilegeRecord, RowsInv, Made
  <2> QED
    BY <2>1 DEF RowsInv, userVars, roleVars, GrantsAreLive, DefaultRoleIsGranted, RolesAcyclic,
                Live
<1> QED
  BY <1>1, CreateUserKeepsRows, UpdateUserKeepsRows, DeleteUserKeepsRows, GrantToUserKeepsRows,
     RevokeFromUserKeepsRows, DeleteRoleKeepsRows, GrantToRoleKeepsRows, RevokeFromRoleKeepsRows
     DEF Write

LEMMA OthersKeepRows ==
    ASSUME RowsInv, UNCHANGED <<userVars, roleVars>>, privileges' \in {privileges, {}}
    PROVE  RowsInv'
  BY DEF RowsInv, userVars, roleVars, GrantsAreLive, DefaultRoleIsGranted, RolesAcyclic, Live
-----------------------------------------------------------------------------
(***************************************************************************)
(* The check of a session's statement.                                     *)
(***************************************************************************)

\* What follows from some rows follows from more.
LEMMA PromisedGrows ==
    ASSUME NEW s, NEW v, NEW w, Promised(s, v), s.op = "stmt" => v \subseteq w
    PROVE  Promised(s, w)
<1>1. CASE s.op # "stmt"
  BY <1>1 DEF Promised
<1>2. CASE s.op = "stmt"
  <2>1. \A kind : Seen(v, kind) \subseteq Seen(w, kind)
    BY <1>2 DEF Seen
  <2>2. /\ Hierarchy(v) \subseteq Hierarchy(w)
        /\ Seen(v, "member") \cup {Public} \subseteq Seen(w, "member") \cup {Public}
    BY <2>1 DEF Hierarchy
  <2>3. /\ Inherited({s.role}, Hierarchy(v)) \subseteq Inherited({s.role}, Hierarchy(w))
        /\ Inherited(Seen(v, "member") \cup {Public}, Hierarchy(v))
             \subseteq Inherited(Seen(w, "member") \cup {Public}, Hierarchy(w))
    BY <2>2, InheritedMonotonic
  <2> QED
    BY <2>1, <2>3 DEF Promised
<1> QED
  BY <1>1, <1>2

\* The rows of the present part of the check are seen.
LEMMA LinksAreSeen ==
    ASSUME NEW step, NEW m, NEW e, NEW p, NEW w, Covers(w, step, m, e, p)
    PROVE  /\ step \in {"direct", "role", "privileges"} => e \subseteq Seen(w, "edge")
           /\ step \in {"direct", "role"} =>
                 \A u \in UserIds : {r \in RoleIds : <<u, r>> \in m} \subseteq Seen(w, "member")
           /\ step = "privileges" => p \subseteq Seen(w, "privilege")
<1>1. ASSUME step \in {"direct", "role", "privileges"}, NEW x \in e
      PROVE  x \in Seen(w, "edge")
  <2>1. <<"edge", x>> \in w
    BY <1>1 DEF Covers, Links
  <2> QED
    BY <2>1 DEF Seen
<1>2. ASSUME step \in {"direct", "role"}, NEW u \in UserIds, NEW r \in RoleIds, <<u, r>> \in m
      PROVE  r \in Seen(w, "member")
  <2>1. <<"member", r>> \in w
    BY <1>2 DEF Covers, Links
  <2> QED
    BY <2>1 DEF Seen
<1>3. ASSUME step = "privileges", NEW x \in p
      PROVE  x \in Seen(w, "privilege")
  <2>1. <<"privilege", x>> \in w
    BY <1>3 DEF Covers, Links
  <2> QED
    BY <2>1 DEF Seen
<1> QED
  BY <1>1, <1>2, <1>3

\* The rows at the end of a step are remembered, and those before it unless a
\* part of the check begins.
LEMMA StepsRemember ==
    ASSUME Remember, stmt'.op = "stmt"
    PROVE  /\ Covers(was', stmt'.step, members', edges', privileges')
           /\ stmt'.step = stmt.step \/ stmt'.step \notin {"direct", "privileges"}
                => was \subseteq was'
  BY DEF Remember, Covers

\* A step that leaves the statement alone leaves it its promises.
LEMMA OthersKeepChecks ==
    ASSUME ChecksSeen, Remember, UNCHANGED stmt
    PROVE  ChecksSeen'
<1>1. ReadsSeen'
  BY StepsRemember DEF ReadsSeen
<1>2. PICK s, v, w : s = stmt /\ v = was /\ w = was'
  OBVIOUS
<1>3. Promised(s, v) /\ (s.op = "stmt" => v \subseteq w)
  BY <1>2, StepsRemember DEF ChecksSeen
<1>4. Promised(s, w)
  BY <1>3, PromisedGrows
<1> QED
  BY <1>1, <1>2, <1>4 DEF ChecksSeen

\* Nothing is promised of no statement.
LEMMA NoStmtOK ==
    ASSUME stmt' = NoStmt
    PROVE  stmt' \in Stmts /\ Promised(stmt', was')
<1>1. "PUBLIC" \in AllNames /\ Public \in RoleIds
  BY DEF AllNames, RoleIds
<1>2. Promised(NoStmt, was')
  BY DEF Promised, NoStmt
<1> QED
  BY <1>1, <1>2 DEF NoStmt, Stmts

\* A role that is there has a name.
LEMMA NameOfLive ==
    ASSUME RowsInv, NEW id \in Live
    PROVE  NameOf(id) \in AllNames
<1>1. \E n \in AllNames : Exists(n) /\ IdOf(n) = id
  <2>1. CASE id \in {Public, AccountAdmin}
    <3>1. /\ "PUBLIC" \in AllNames /\ Exists("PUBLIC") /\ IdOf("PUBLIC") = Public
          /\ "ACCOUNTADMIN" \in AllNames /\ Exists("ACCOUNTADMIN")
          /\ IdOf("ACCOUNTADMIN") = AccountAdmin
      BY AccessAssumption DEF AllNames, Exists, IdOf
    <3> QED
      BY <2>1, <3>1
  <2>2. CASE id \notin {Public, AccountAdmin}
    <3>1. PICK n \in Names : role[n] = id /\ id # 0
      BY <2>2 DEF Live
    <3>2. n \in AllNames /\ Exists(n) /\ IdOf(n) = id
      BY <3>1, IdsOK DEF AllNames, Exists
    <3> QED
      BY <3>2
  <2> QED
    BY <2>1, <2>2
<1> QED
  BY <1>1 DEF NameOf

LEMMA SendOK ==
    ASSUME SessionType, NEW op \in {"login", "use", "stmt"}, NEW n \in AllNames \cup {""},
           Send(op, n)
    PROVE  stmt' \in Stmts /\ Promised(stmt', was')
<1>1. PICK u \in UserIds \cup {0}, r \in RoleIds :
         stmt' = [NoStmt EXCEPT !.op = op, !.step = "user", !.name = n, !.user = u, !.role = r]
  <2>1. Public \in RoleIds /\ session.role \in RoleIds /\ session.user \in UserIds \cup {0}
    BY DEF SessionType, RoleIds
  <2> QED
    BY <2>1 DEF Send
<1>2. stmt' \in Stmts
  BY <1>1 DEF NoStmt, Stmts
<1>3. stmt'.step = "user"
  BY <1>1 DEF NoStmt
<1> QED
  BY <1>2, <1>3 DEF Promised

LEMMA ResolveUserOK ==
    ASSUME RowsInv, SessionType, ResolveUser
    PROVE  stmt' \in Stmts /\ Promised(stmt', was')
<1>1. CASE stmt' = NoStmt
  BY <1>1, NoStmtOK
<1>2. CASE stmt' # NoStmt
  <2>1. user \in Users /\ user.default \in Live
    BY <1>2 DEF ResolveUser, Advance, RowsInv, GrantsAreLive
  <2>2. PICK u \in UserIds, n \in AllNames \cup {""} :
           stmt' = [stmt EXCEPT !.step = "direct", !.user = u, !.name = n]
    <3>1. user.id \in UserIds /\ NameOf(user.default) \in AllNames
      BY <2>1, NameOfLive DEF Users
    <3>2. stmt.name \in AllNames \cup {""}
      BY DEF SessionType, Stmts
    <3>3. stmt' = [stmt EXCEPT !.step = "direct", !.user = user.id,
                       !.name = IF stmt.name = "" THEN NameOf(user.default) ELSE stmt.name]
      BY <1>2 DEF ResolveUser, Advance, SessionType, Stmts
    <3> QED
      BY <3>1, <3>2, <3>3
  <2>3. stmt' \in Stmts /\ stmt'.step = "direct"
    BY <2>2 DEF SessionType, Stmts
  <2> QED
    BY <2>3 DEF Promised
<1> QED
  BY <1>1, <1>2

LEMMA ResolveDirectOK ==
    ASSUME RowsInv, SessionType, Remember, ResolveDirect
    PROVE  stmt' \in Stmts /\ Promised(stmt', was')
<1>1. CASE stmt' = NoStmt
  BY <1>1, NoStmtOK
<1>2. CASE stmt' # NoStmt
  <2>1. user \in Users /\ UNCHANGED members
    BY <1>2 DEF ResolveDirect, Advance, RowsInv, userVars
  <2>2. stmt' = [stmt EXCEPT !.step = "role", !.direct = DirectRoles(user.id)]
    BY <1>2 DEF ResolveDirect, Advance
  <2>3. DirectRoles(user.id) \subseteq RoleIds
    BY DEF DirectRoles
  <2>4. /\ stmt' \in Stmts /\ stmt'.step = "role" /\ stmt'.direct = DirectRoles(user.id)
    BY <2>2, <2>3 DEF SessionType, Stmts
  <2>5. ASSUME stmt'.op = "stmt"
        PROVE  stmt'.direct \subseteq Seen(was', "member")
    <3>1. PICK u \in UserIds : u = user.id
      BY <2>1 DEF Users
    <3>2. PICK m, e, p, w : m = members' /\ e = edges' /\ p = privileges' /\ w = was'
      OBVIOUS
    <3>3. Covers(w, "role", m, e, p)
      BY <2>4, <2>5, <3>2, StepsRemember
    <3>4. {r \in RoleIds : <<u, r>> \in m} \subseteq Seen(w, "member")
      BY <3>3, LinksAreSeen
    <3> QED
      BY <2>1, <2>4, <3>1, <3>2, <3>4 DEF DirectRoles
  <2> QED
    BY <2>4, <2>5 DEF Promised
<1> QED
  BY <1>1, <1>2

\* The role that a statement goes on with is granted along what was seen.
LEMMA ResolveRoleOK ==
    ASSUME SessionType, ChecksSeen, Remember, ResolveRole
    PROVE  stmt' \in Stmts /\ Promised(stmt', was')
<1>1. CASE stmt' = NoStmt
  BY <1>1, NoStmtOK
<1>2. CASE stmt' # NoStmt
  <2>1. /\ stmt.step = "role" /\ stmt.op = "stmt" /\ Granted /\ IdOf(stmt.name) = stmt.role
        /\ stmt' = [stmt EXCEPT !.step = "authorize", !.direct = {}]
    BY <1>2 DEF ResolveRole, SetActiveRole, Advance, Authorizing
  <2>2. /\ stmt' \in Stmts /\ stmt'.step = "authorize" /\ stmt'.op = "stmt"
        /\ stmt'.role = stmt.role /\ stmt.role \in RoleIds
    BY <2>1 DEF SessionType, Stmts
  <2>3. PICK d, e, v, w, m, p : /\ d = stmt.direct /\ e = edges /\ v = was /\ w = was'
                                /\ m = members /\ p = privileges
    OBVIOUS
  <2>4. v \subseteq w
    BY <2>2, <2>3, StepsRemember
  <2>5. Covers(v, "role", m, e, p) /\ d \subseteq Seen(v, "member")
    BY <2>1, <2>3 DEF ChecksSeen, ReadsSeen, Promised
  <2>6. e \subseteq Seen(v, "edge")
    BY <2>5, LinksAreSeen
  <2>7. d \subseteq Seen(w, "member") \cup {Public} /\ e \cup SystemEdges \subseteq Hierarchy(w)
    BY <2>4, <2>5, <2>6 DEF Hierarchy, Seen
  <2>8. Inherited(d, e \cup SystemEdges) \subseteq Inherited(Seen(w, "member") \cup {Public}, Hierarchy(w))
    BY <2>7, InheritedMonotonic
  <2>9. Public \in Inherited(Seen(w, "member") \cup {Public}, Hierarchy(w))
    BY InheritedContains DEF RoleIds
  <2>10. stmt.role \in Inherited(d, e \cup SystemEdges) \cup {Public}
    BY <2>1, <2>3 DEF Granted, EffectiveRoles
  <2>11. stmt'.role \in Inherited(Seen(was', "member") \cup {Public}, Hierarchy(was'))
    BY <2>2, <2>3, <2>8, <2>9, <2>10
  <2> QED
    BY <2>2, <2>11 DEF Promised
<1> QED
  BY <1>1, <1>2

\* What the active role inherits is inherited along the hierarchy just read.
LEMMA AuthorizeRoleOK ==
    ASSUME SessionType, ChecksSeen, Remember, AuthorizeRole
    PROVE  stmt' \in Stmts /\ Promised(stmt', was')
<1>1. CASE stmt' = NoStmt
  BY <1>1, NoStmtOK
<1>2. CASE stmt.role = AccountAdmin /\ stmt' = [stmt EXCEPT !.step = "accepted"]
  <2>1. stmt' \in Stmts /\ stmt'.step = "accepted" /\ stmt'.role = AccountAdmin
    BY <1>2 DEF SessionType, Stmts
  <2>2. stmt.op = "stmt" /\ stmt'.op = "stmt"
    BY <1>2 DEF AuthorizeRole, ChecksSeen, Promised, SessionType, Stmts
  <2> QED
    BY <2>1, <2>2 DEF Promised
<1>3. CASE stmt' = [stmt EXCEPT !.step = "privileges",
                        !.effective = Inherited({stmt.role}, edges \cup SystemEdges)]
  <2>1. PICK r, e, w, m, p : /\ r = stmt.role /\ e = edges' /\ w = was' /\ m = members'
                             /\ p = privileges'
    OBVIOUS
  <2>2. UNCHANGED edges
    BY DEF AuthorizeRole, Advance, roleVars
  <2>3. Inherited({r}, e \cup SystemEdges) \subseteq RoleIds
    BY InheritedContains
  <2>4. /\ stmt' \in Stmts /\ stmt'.step = "privileges" /\ stmt'.role = r
        /\ stmt'.effective = Inherited({r}, e \cup SystemEdges)
    BY <1>3, <2>1, <2>2, <2>3 DEF SessionType, Stmts
  <2>5. stmt.op = "stmt" /\ stmt'.op = "stmt"
    BY <1>3 DEF AuthorizeRole, ChecksSeen, Promised, SessionType, Stmts
  <2>6. Covers(w, "privileges", m, e, p)
    BY <2>1, <2>4, <2>5, StepsRemember
  <2>7. e \subseteq Seen(w, "edge")
    BY <2>6, LinksAreSeen
  <2>8. e \cup SystemEdges \subseteq Hierarchy(w)
    BY <2>7 DEF Hierarchy
  <2>9. Inherited({r}, e \cup SystemEdges) \subseteq Inherited({r}, Hierarchy(w))
    BY <2>8, InheritedMonotonic
  <2> QED
    BY <2>1, <2>4, <2>5, <2>9 DEF Promised
<1> QED
  BY <1>1, <1>2, <1>3 DEF AuthorizeRole, Advance

\* A privilege that lets a statement through is one of those seen.
LEMMA AuthorizePrivilegeOK ==
    ASSUME SessionType, ChecksSeen, Remember, AuthorizePrivilege
    PROVE  stmt' \in Stmts /\ Promised(stmt', was')
<1>1. CASE stmt' = NoStmt
  BY <1>1, NoStmtOK
<1>2. CASE stmt' # NoStmt
  <2>1. /\ stmt.step = "privileges" /\ stmt.effective \cap privileges # {}
        /\ stmt' = [stmt EXCEPT !.step = "accepted", !.effective = {}]
    BY <1>2 DEF AuthorizePrivilege, Advance
  <2>2. stmt.op = "stmt"
    BY <2>1 DEF ChecksSeen, Promised
  <2>3. stmt' \in Stmts /\ stmt'.step = "accepted" /\ stmt'.role = stmt.role /\ stmt'.op = "stmt"
    BY <2>1, <2>2 DEF SessionType, Stmts
  <2>4. PICK f, r, e, v, w, m, p : /\ f = stmt.effective /\ r = stmt.role /\ e = edges /\ v = was
                                   /\ w = was' /\ m = members /\ p = privileges
    OBVIOUS
  <2>5. v \subseteq w
    BY <2>3, <2>4, StepsRemember
  <2>6. Covers(v, "privileges", m, e, p) /\ f \subseteq Inherited({r}, Hierarchy(v))
    BY <2>1, <2>2, <2>4 DEF ChecksSeen, ReadsSeen, Promised
  <2>7. p \subseteq Seen(v, "privilege")
    BY <2>6, LinksAreSeen
  <2>8. Seen(v, "privilege") \subseteq Seen(w, "privilege") /\ Hierarchy(v) \subseteq Hierarchy(w)
    BY <2>5 DEF Seen, Hierarchy
  <2>9. Inherited({r}, Hierarchy(v)) \subseteq Inherited({r}, Hierarchy(w))
    BY <2>8, InheritedMonotonic
  <2>10. Inherited({r}, Hierarchy(w)) \cap Seen(w, "privilege") # {}
    BY <2>1, <2>4, <2>6, <2>7, <2>8, <2>9
  <2> QED
    BY <2>3, <2>4, <2>10 DEF Promised
<1> QED
  BY <1>1, <1>2
-----------------------------------------------------------------------------
(***************************************************************************)
(* The steps.                                                              *)
(***************************************************************************)

\* A request is taken from rows that keep their promises, and is left as made.
LEMMA ReadOK ==
    ASSUME AInv, NEW a \in Admins, Read(a)
    PROVE  RequestsMade'
<1>1. PICK r \in Identity : req' = [req EXCEPT ![a] = r]
  BY DEF Read
<1>2. Made(r)
  BY IdentityOK DEF AInv
<1> QED
  BY <1>1, <1>2 DEF AInv, RequestsMade

LEMMA IdleOK ==
    ASSUME AInv, NEW a \in Admins, req' = [req EXCEPT ![a] = Idle]
    PROVE  RequestsMade'
<1>1. Made(Idle)
  BY DEF Made, Idle, RoleIds
<1> QED
  BY <1>1 DEF AInv, RequestsMade

LEMMA SetActiveRoleOK ==
    ASSUME RowsInv, SessionType, SetActiveRole
    PROVE  session' \in [user : UserIds \cup {0}, name : AllNames \cup {""}, role : RoleIds]
<1>1. CASE Granted
  <2>1. /\ stmt.user \in UserIds \cup {0} /\ stmt.name \in AllNames \cup {""}
    BY DEF SessionType, Stmts
  <2>2. IdOf(stmt.name) \in RoleIds
    BY <1>1, IdsOK DEF Granted, EffectiveRoles, RoleIds
  <2> QED
    BY <1>1, <2>1, <2>2 DEF SetActiveRole
<1>2. CASE ~Granted
  BY <1>2 DEF SetActiveRole, SessionType
<1> QED
  BY <1>1, <1>2

\* The session's steps leave the rows and the requests alone.
LEMMA SessionStepOK ==
    ASSUME AInv, Remember, SessionStep
    PROVE  AInv'
<1> USE DEF AInv
<1>1. UNCHANGED <<userVars, roleVars, privileges, req>>
  BY DEF SessionStep, Login, UseRole, Submit, Send, ResolveUser, ResolveDirect, ResolveRole,
         SetActiveRole, AuthorizeRole, AuthorizePrivilege, Execute, Advance
<1>2. RowsInv' /\ RequestsMade'
  BY <1>1, OthersKeepRows DEF RequestsMade
<1>3. stmt' \in Stmts /\ Promised(stmt', was')
  <2>1. ASSUME NEW n \in AllNames \cup {""}, Login(n) \/ UseRole(n)
        PROVE  stmt' \in Stmts /\ Promised(stmt', was')
    BY <2>1, SendOK DEF Login, UseRole
  <2>2. CASE Submit
    <3>1. PICK n \in AllNames \cup {""} : n = session.name
      BY DEF SessionType
    <3>2. Send("stmt", n)
      BY <2>2, <3>1 DEF Submit
    <3> QED
      BY <3>2, SendOK
  <2>3. CASE Execute
    BY <2>3, NoStmtOK DEF Execute, Advance
  <2> QED
    BY <2>1, <2>2, <2>3, ResolveUserOK, ResolveDirectOK, ResolveRoleOK, AuthorizeRoleOK,
       AuthorizePrivilegeOK DEF SessionStep
<1>4. session' \in [user : UserIds \cup {0}, name : AllNames \cup {""}, role : RoleIds]
  <2>1. CASE UNCHANGED session
    BY <2>1 DEF SessionType
  <2>2. CASE SetActiveRole
    BY <2>2, SetActiveRoleOK
  <2> QED
    BY <2>1, <2>2 DEF SessionStep, Login, UseRole, Submit, Send, ResolveUser, ResolveDirect,
         ResolveRole, AuthorizeRole, AuthorizePrivilege, Execute, Advance
<1>5. ReadsSeen'
  BY StepsRemember DEF ReadsSeen
<1> QED
  BY <1>2, <1>3, <1>4, <1>5 DEF SessionType, ChecksSeen

\* What leaves the session alone keeps the invariant if the rows and the
\* requests keep their parts.
LEMMA OutsideSession ==
    ASSUME AInv, Remember, UNCHANGED sessionVars, RowsInv', RequestsMade'
    PROVE  AInv'
  BY OthersKeepChecks DEF AInv, SessionType, sessionVars

LEMMA AdminStepOK ==
    ASSUME AInv, Remember, NEW a \in Admins, Read(a) \/ WriteRead(a) \/ Refused(a)
    PROVE  AInv'
<1>1. CASE Read(a)
  <2>1. RowsInv' /\ UNCHANGED sessionVars
    BY <1>1, OthersKeepRows DEF Read, AInv
  <2> QED
    BY <1>1, <2>1, ReadOK, OutsideSession
<1>2. CASE WriteRead(a)
  <2>1. PICK r : r = req[a]
    OBVIOUS
  <2>2. Made(r) /\ Write(r)
    BY <1>2, <2>1 DEF AInv, RequestsMade, WriteRead
  <2>3. RowsInv'
    BY <2>2, WritesKeepRows DEF AInv
  <2> QED
    BY <1>2, <2>3, IdleOK, OutsideSession DEF WriteRead
<1>3. CASE Refused(a)
  <2>1. RowsInv' /\ UNCHANGED sessionVars
    BY <1>3, OthersKeepRows DEF Refused, AInv
  <2> QED
    BY <1>3, <2>1, IdleOK, OutsideSession DEF Refused
<1> QED
  BY <1>1, <1>2, <1>3

LEMMA UndividedOK ==
    ASSUME AInv, Remember, Undivided
    PROVE  AInv'
<1>1. PICK r \in Identity \cup PrivilegeOf("grant") \cup PrivilegeOf("revoke") : Write(r)
  BY DEF Undivided
<1>2. Made(r)
  BY IdentityOK DEF AInv
<1>3. RowsInv'
  BY <1>1, <1>2, WritesKeepRows DEF AInv
<1>4. RequestsMade' /\ UNCHANGED sessionVars
  BY DEF Undivided, AInv, RequestsMade
<1> QED
  BY <1>3, <1>4, OutsideSession

LEMMA BootstrapOK ==
    ASSUME AInv, Remember, BootstrapIdentity
    PROVE  AInv'
<1>1. RowsInv'
  BY BootstrapKeepsRows DEF AInv
<1>2. RequestsMade' /\ UNCHANGED sessionVars
  <2>1. Made(Idle)
    BY DEF Made, Idle, RoleIds
  <2> QED
    BY <2>1 DEF BootstrapIdentity, RequestsMade
<1> QED
  BY <1>1, <1>2, OutsideSession

LEMMA OtherStepsOK ==
    ASSUME AInv, Remember, DropObject \/ \E n \in Names : CreateRoleRecord(n)
    PROVE  AInv'
<1>1. RequestsMade' /\ UNCHANGED sessionVars
  BY DEF DropObject, CreateRoleRecord, AInv, RequestsMade
<1>2. CASE DropObject
  <2>1. RowsInv'
    BY <1>2, OthersKeepRows DEF DropObject, AInv
  <2> QED
    BY <1>1, <2>1, OutsideSession
<1>3. CASE \E n \in Names : CreateRoleRecord(n)
  <2>1. RowsInv'
    BY <1>3, CreateRoleKeepsRows DEF AInv
  <2> QED
    BY <1>1, <2>1, OutsideSession
<1> QED
  BY <1>2, <1>3

LEMMA InitInvariant ==
    ASSUME Init
    PROVE  AInv
<1> USE DEF Init
<1>1. 1 \in UserIds /\ AccountAdmin \in Live /\ AccountAdmin \in RoleIds
      /\ AccountAdmin # Public /\ 0 \in RoleIds
  <2>1. MaxUser \in Nat \ {0}
    BY AccessAssumption
  <2> QED
    BY <2>1 DEF UserIds, Live, RoleIds, AccountAdmin, Public
<1>2. user \in Users /\ user.id = 1 /\ user.default = AccountAdmin
  BY <1>1 DEF Users
<1>3. RowsInv
  <2>1. GrantsAreLive
    <3>1. user # NoUser
      BY <1>2, AccessAssumption
    <3> QED
      BY <1>1, <1>2, <3>1 DEF GrantsAreLive
  <2>2. DefaultRoleIsGranted /\ RolesAcyclic
    BY <1>2 DEF DefaultRoleIsGranted, RolesAcyclic
  <2>3. /\ lastUser \in UserIds /\ lastRole \in RoleIds \ {Public}
        /\ members \subseteq UserIds \X RoleIds /\ role \in [Names -> {0} \cup CustomRoles]
    BY <1>1
  <2> QED
    BY <1>2, <2>1, <2>2, <2>3 DEF RowsInv
<1>4. RequestsMade
  BY <1>1 DEF RequestsMade, Made, Idle, Public
<1>5. SessionType
  BY <1>1 DEF SessionType, Stmts, NoSession, NoStmt, AllNames, Public
<1>6. ChecksSeen
  BY DEF ChecksSeen, ReadsSeen, Promised, NoStmt
<1> QED
  BY <1>3, <1>4, <1>5, <1>6 DEF AInv

LEMMA NextInvariant ==
    ASSUME AInv, [Next]_vars
    PROVE  AInv'
<1>1. CASE Next
  BY <1>1, AdminStepOK, UndividedOK, BootstrapOK, OtherStepsOK, SessionStepOK DEF Next
<1>2. CASE UNCHANGED vars
  <2>1. UNCHANGED <<userVars, roleVars, privileges, req, sessionVars, was>>
    BY <1>2 DEF vars
  <2>2. RowsInv'
    BY <2>1, OthersKeepRows DEF AInv
  <2> QED
    BY <2>1, <2>2 DEF AInv, RequestsMade, SessionType, ChecksSeen, ReadsSeen, Covers, userVars,
                      roleVars, sessionVars
<1> QED
  BY <1>1, <1>2
-----------------------------------------------------------------------------
(***************************************************************************)
(* The theorems.                                                           *)
(***************************************************************************)

\* The rows keep their promises and every check of a statement follows from
\* rows that were there while it read.
THEOREM AccessInvariant == Spec => []AInv
<1>1. Init => AInv
  BY InitInvariant
<1>2. AInv /\ [Next]_vars => AInv'
  BY NextInvariant
<1> QED
  BY <1>1, <1>2, PTL DEF Spec

\* Rows, requests, sessions and statements hold values of their types.
THEOREM AccessTypeOK == Spec => []TypeOK
<1>1. AInv => TypeOK
  BY DEF AInv, RowsInv, RequestsMade, Made, SessionType, Stmts, TypeOK
<1> QED
  BY <1>1, AccessInvariant, PTL

\* No grant, default role or edge of the hierarchy refers to a user or a role
\* that was dropped, however many administrators write from whatever they read.
THEOREM AccessGrantsAreLive == Spec => []GrantsAreLive
<1>1. AInv => GrantsAreLive
  BY DEF AInv, RowsInv
<1> QED
  BY <1>1, AccessInvariant, PTL

\* A user's default role is always one he may log in with.
THEOREM AccessDefaultRoleIsGranted == Spec => []DefaultRoleIsGranted
<1>1. AInv => DefaultRoleIsGranted
  BY DEF AInv, RowsInv
<1> QED
  BY <1>1, AccessInvariant, PTL

\* No sequence of grants and revocations closes a cycle of roles of any length.
THEOREM AccessRolesAcyclic == Spec => []RolesAcyclic
<1>1. AInv => RolesAcyclic
  BY DEF AInv, RowsInv
<1> QED
  BY <1>1, AccessInvariant, PTL

\* A statement passes its check only along grants that were there while the
\* check read them, whatever is granted, revoked or dropped between the reads.
THEOREM AccessAcceptedAlongGrants == Spec => []AcceptedAlongGrants
<1>1. AInv => AcceptedAlongGrants
  BY DEF AInv, ChecksSeen, Promised, Hierarchy, Seen, AcceptedAlongGrants
<1> QED
  BY <1>1, AccessInvariant, PTL
=============================================================================
