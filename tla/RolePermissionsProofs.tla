----------------------- MODULE RolePermissionsProofs -----------------------
(***************************************************************************)
(* Theorems about RolePermissions, for any number of roles, features,      *)
(* administrators and tokens, and any bounds.                              *)
(*                                                                         *)
(* A token that grants too much is tolerated for as long as somebody is    *)
(* bound to sign the user out.  Who is bound to is the invariant: whoever  *)
(* has the user on the list for a sign-out, and whoever has changed the    *)
(* role that the user holds and is still to ask who holds it.              *)
(***************************************************************************)
EXTENDS RolePermissions, TLAPS

Bound(a) ==
    /\ task[a] # "deleteRole"
    /\ \/ apc[a] = "signOut" /\ listed[a] = TRUE
       \/ apc[a] \in {"bump", "holders"} /\ access = "active" /\ holds = role[a]

AdminsInv ==
    /\ apc \in [Admins -> {"idle", "set", "bump", "holders", "change", "signOut", "delete"}]
    /\ task \in [Admins -> RoleTasks \cup UserTasks \cup {"none"}]
    /\ role \in [Admins -> Roles \cup {None}]
    /\ seen \in [Admins -> Nat]
    /\ listed \in [Admins -> BOOLEAN]
    /\ \A a \in Admins :
          /\ apc[a] \in {"set", "bump"} => seen[a] + 1 \in 1..MaxVersion /\ task[a] # "deleteRole"
          /\ apc[a] = "change" => listed[a] = TRUE /\ task[a] # "deleteRole"

TypeInv == TypeOK /\ AdminsInv /\ \A t \in Tokens : readAt[t] <= now

PermissionsInv ==
    \A t \in Outdated : t \in unended \/ readAt[t] <= revokeBefore \/ \E a \in Admins : Bound(a)

USE RolesAssumption

-----------------------------------------------------------------------------
\* Every step keeps the types.
LEMMA TypeStep == TypeInv /\ [Next]_vars => TypeInv'
<1> SUFFICES ASSUME TypeInv, [Next]_vars PROVE TypeInv'
  OBVIOUS
<1> USE DEF RoleTasks, UserTasks, Goto, Finish, roleVars, userVars, adminVars, tokenVars
\* What becomes of the one whose step it is.
<1>f. ASSUME NEW a \in Admins, Finish(a) PROVE AdminsInv'
  BY <1>f DEF TypeInv, AdminsInv
<1>g. ASSUME NEW a \in Admins, NEW label \in {"bump", "holders", "signOut", "delete"},
             Goto(a, label), UNCHANGED <<task, role, seen, listed>>,
             label = "bump" => apc[a] = "set"
      PROVE  AdminsInv'
  BY <1>g DEF TypeInv, AdminsInv
<1>u. UNCHANGED adminVars => AdminsInv'
  BY DEF TypeInv, AdminsInv
<1>o. Outdated \subseteq Tokens /\ Outdated' \subseteq Tokens
  BY DEF Outdated
\* What a request's step leaves of the rest.
<1>k. AdminsInv' /\ tokenVars' = tokenVars /\ now' = now
         /\ (/\ revokeBefore \in 0..MaxTime
             /\ present \in SUBSET Roles
             /\ version \in [Roles -> 1..MaxVersion]
             /\ grants \in [Roles -> SUBSET Features]
             /\ access \in {"none", "active", "inactive"}
             /\ rowNo \in 1..MaxRows
             /\ holds \in present \cup {None}
             /\ direct \in [Features -> {"none", "granted", "denied"}]
             /\ unended \in SUBSET Tokens)'
         => TypeInv'
  BY DEF TypeInv, TypeOK, AdminsInv
<1>1. ASSUME NEW a \in Admins, NEW r \in Roles, NEW o \in RoleTasks, FindRole(a, r, o)
      PROVE  TypeInv'
  <2>1. CASE o = "updateRole" BY <1>1, <2>1 DEF TypeInv, TypeOK, AdminsInv, FindRole
  <2>2. CASE o = "setRoleFeatures" BY <1>1, <2>2 DEF TypeInv, TypeOK, AdminsInv, FindRole
  <2>3. CASE o = "deleteRole" BY <1>1, <2>3 DEF TypeInv, TypeOK, AdminsInv, FindRole
  <2> QED BY <2>1, <2>2, <2>3
<1>2. ASSUME NEW a \in Admins, NEW o \in UserTasks, FindUserApp(a, o) PROVE TypeInv'
  BY <1>2 DEF TypeInv, TypeOK, AdminsInv, FindUserApp
<1>3. ASSUME NEW a \in Admins, SetRoleFeatures(a) PROVE TypeInv'
  <2>1. AdminsInv'
    BY <1>3, <1>f, <1>g DEF SetRoleFeatures
  <2>2. grants' \in [Roles -> SUBSET Features]
    BY <1>3 DEF SetRoleFeatures, TypeInv, TypeOK
  <2> QED BY <1>3, <2>1, <2>2, <1>k DEF SetRoleFeatures, TypeInv, TypeOK
<1>4. ASSUME NEW a \in Admins, Bump(a) PROVE TypeInv'
  <2>1. AdminsInv'
    BY <1>4, <1>f, <1>g DEF Bump
  <2>2. version' \in [Roles -> 1..MaxVersion]
    <3>1. seen[a] + 1 \in 1..MaxVersion
      BY <1>4 DEF Bump, TypeInv, AdminsInv
    <3> QED BY <1>4, <3>1 DEF Bump, TypeInv, TypeOK
  <2>3. unended' \in SUBSET Tokens
    BY <1>4, <1>o DEF Bump, TypeInv, TypeOK
  <2> QED BY <1>4, <2>1, <2>2, <2>3, <1>k DEF Bump, TypeInv, TypeOK
<1>5. ASSUME NEW a \in Admins, Holders(a) PROVE TypeInv'
  BY <1>5 DEF TypeInv, TypeOK, AdminsInv, Holders
<1>6. ASSUME NEW a \in Admins, SignOut(a) PROVE TypeInv'
  <2>1. AdminsInv'
    BY <1>6, <1>f, <1>g DEF SignOut
  <2>2. revokeBefore' \in 0..MaxTime
    BY <1>6 DEF SignOut, TypeInv, TypeOK
  <2> QED BY <1>6, <2>1, <2>2, <1>k DEF SignOut, TypeInv, TypeOK
<1>7. ASSUME NEW a \in Admins, DeleteRole(a) PROVE TypeInv'
  <2>1. AdminsInv'
    BY <1>7, <1>f DEF DeleteRole
  <2>2. grants' \in [Roles -> SUBSET Features] /\ present' \in SUBSET Roles
        /\ holds' \in present' \cup {None}
    BY <1>7 DEF DeleteRole, TypeInv, TypeOK
  <2>3. unended' \in SUBSET Tokens
    BY <1>7, <1>o DEF DeleteRole, TypeInv, TypeOK
  <2> QED BY <1>7, <2>1, <2>2, <2>3, <1>k DEF DeleteRole, TypeInv, TypeOK
<1>8. ASSUME NEW a \in Admins, UpdateUserApp(a) PROVE TypeInv'
  <2>1. AdminsInv'
    BY <1>8, <1>f, <1>g DEF UpdateUserApp
  <2> QED BY <1>8, <2>1, <1>k DEF UpdateUserApp, TypeInv, TypeOK
<1>9. ASSUME NEW a \in Admins, DeleteUserApp(a) PROVE TypeInv'
  <2>1. AdminsInv'
    BY <1>9, <1>f, <1>g DEF DeleteUserApp
  <2>2. direct' \in [Features -> {"none", "granted", "denied"}]
        /\ access' \in {"none", "active", "inactive"} /\ holds' \in present \cup {None}
    BY <1>9 DEF DeleteUserApp, TypeInv, TypeOK
  <2> QED BY <1>9, <2>1, <2>2, <1>k DEF DeleteUserApp, TypeInv, TypeOK
<1>10. ASSUME NEW a \in Admins, SetDirectFeatures(a) PROVE TypeInv'
  <2>1. AdminsInv'
    BY <1>10, <1>f, <1>g DEF SetDirectFeatures
  <2> QED BY <1>10, <2>1, <1>k DEF SetDirectFeatures, TypeInv, TypeOK
<1>11. ASSUME NEW a \in Admins, Fail(a) PROVE TypeInv'
  <2>1. AdminsInv'
    BY <1>11, <1>f DEF Fail
  <2>2. unended' \in SUBSET Tokens
    BY <1>11, <1>o DEF Fail, TypeInv, TypeOK
  <2> QED BY <1>11, <2>1, <2>2, <1>k DEF Fail, TypeInv, TypeOK
<1>12. ASSUME NEW r \in present \cup {None}, AssignUserToApp(r) PROVE TypeInv'
  BY <1>12, <1>u, <1>k DEF AssignUserToApp, TypeInv, TypeOK
<1>13. ASSUME NEW f \in Features, RemoveFeature(f) PROVE TypeInv'
  <2>1. grants' \in [Roles -> SUBSET Features]
        /\ direct' \in [Features -> {"none", "granted", "denied"}]
    BY <1>13 DEF RemoveFeature, TypeInv, TypeOK
  <2>2. unended' \in SUBSET Tokens
    BY <1>13, <1>o DEF RemoveFeature, TypeInv, TypeOK
  <2> QED BY <1>13, <2>1, <2>2, <1>u, <1>k DEF RemoveFeature, TypeInv, TypeOK
<1>14. ASSUME NEW t \in Tokens, Resolve(t) PROVE TypeInv'
  <2>1. Resolved \in [role : Roles \cup {None}, version : 0..MaxVersion,
                      features : SUBSET Features]
    BY DEF Resolved, Effective, TypeInv, TypeOK
  <2>2. NoCopy \in [role : Roles \cup {None}, version : 0..MaxVersion,
                    features : SUBSET Features]
    BY DEF NoCopy
  <2> QED BY <1>14, <2>1, <2>2, <1>u DEF Resolve, TypeInv, TypeOK
<1>15. ASSUME NEW t \in Tokens, Sign(t) PROVE TypeInv'
  BY <1>15, <1>u DEF Sign, TypeInv, TypeOK
<1>16. CASE Tick
  BY <1>16, <1>u DEF Tick, TypeInv, TypeOK
<1>17. CASE UNCHANGED vars
  BY <1>17, <1>u DEF vars, TypeInv, TypeOK
<1> QED
  BY <1>1, <1>2, <1>3, <1>4, <1>5, <1>6, <1>7, <1>8, <1>9, <1>10, <1>11, <1>12, <1>13, <1>14,
     <1>15, <1>16, <1>17 DEF Next, Continue

-----------------------------------------------------------------------------
\* Whatever makes a token outdated binds its administrator, or is one of the
\* changes that end no session; whoever is no longer bound has signed the user
\* out, or has handed the duty on, or has failed.
LEMMA PermissionsStep == TypeInv /\ PermissionsInv /\ [Next]_vars => PermissionsInv'
<1> SUFFICES ASSUME TypeInv, PermissionsInv, [Next]_vars, NEW t \in Tokens,
                    (t \in Outdated)', (t \notin unended)'
             PROVE  (readAt[t] <= revokeBefore \/ \E a \in Admins : Bound(a))'
  BY DEF PermissionsInv, Outdated
<1>t. /\ apc \in [Admins -> {"idle", "set", "bump", "holders", "change", "signOut", "delete"}]
      /\ task \in [Admins -> RoleTasks \cup UserTasks \cup {"none"}]
      /\ role \in [Admins -> Roles \cup {None}]
      /\ listed \in [Admins -> BOOLEAN]
      /\ readAt[t] \in Int /\ revokeBefore \in Int /\ now \in Int /\ readAt[t] <= now
      /\ \A a \in Admins : apc[a] = "change" => listed[a] = TRUE /\ task[a] # "deleteRole"
      /\ \A a \in Admins : apc[a] \in {"set", "bump"} => task[a] # "deleteRole"
  BY DEF TypeInv, TypeOK, AdminsInv
<1>i. t \in Outdated /\ t \notin unended
         => readAt[t] <= revokeBefore \/ \E a \in Admins : Bound(a)
  BY DEF PermissionsInv
<1> DEFINE Safe == readAt[t] <= revokeBefore \/ \E a \in Admins : Bound(a)
<1> USE DEF Goto, Finish, roleVars, userVars, adminVars, tokenVars
\* A step of one administrator after which the user has what he had, and which
\* leaves him bound if he was.
<1>q. ASSUME NEW a \in Admins, UNCHANGED <<access, holds, stage, copy, readAt, revokeBefore>>,
             t \in Outdated, t \notin unended,
             \A b \in Admins \ {a} : apc'[b] = apc[b] /\ task'[b] = task[b]
                                        /\ role'[b] = role[b] /\ listed'[b] = listed[b],
             Bound(a) => Bound(a)'
      PROVE  Safe'
  BY <1>q, <1>i DEF Bound
<1>1. ASSUME NEW a \in Admins, NEW r \in Roles, NEW o \in RoleTasks, FindRole(a, r, o)
      PROVE  Safe'
  <2>1. t \in Outdated /\ t \notin unended
    BY <1>1 DEF FindRole, Outdated, Effective
  <2>2. ~Bound(a)
    BY <1>1 DEF FindRole, Bound
  <2> QED BY <1>1, <2>1, <2>2, <1>q, <1>t DEF FindRole
<1>2. ASSUME NEW a \in Admins, NEW o \in UserTasks, FindUserApp(a, o) PROVE Safe'
  <2>1. t \in Outdated /\ t \notin unended
    BY <1>2 DEF FindUserApp, Outdated, Effective
  <2>2. ~Bound(a)
    BY <1>2 DEF FindUserApp, Bound
  <2> QED BY <1>2, <2>1, <2>2, <1>q, <1>t DEF FindUserApp
<1>3. ASSUME NEW a \in Admins, SetRoleFeatures(a) PROVE Safe'
  <2>1. CASE access = "active" /\ holds = role[a] /\ role[a] \in present
    <3>1. Bound(a)'
      BY <1>3, <2>1, <1>t DEF SetRoleFeatures, Bound, TypeInv, TypeOK
    <3> QED BY <3>1
  <2>2. CASE ~(access = "active" /\ holds = role[a] /\ role[a] \in present)
    <3>1. Effective' = Effective
      <4>1. CASE access # "active"
        BY <1>3, <4>1 DEF SetRoleFeatures, Effective
      <4>2. CASE access = "active"
        <5>1. holds = None \/ grants'[holds] = grants[holds]
          BY <1>3, <2>2, <4>2 DEF SetRoleFeatures, TypeInv, TypeOK
        <5> QED BY <1>3, <5>1 DEF SetRoleFeatures, Effective
      <4> QED BY <4>1, <4>2
    <3>2. t \in Outdated /\ t \notin unended
      BY <1>3, <3>1 DEF SetRoleFeatures, Outdated
    <3>3. ~Bound(a)
      BY <1>3 DEF SetRoleFeatures, Bound
    <3> QED BY <1>3, <3>2, <3>3, <1>q, <1>t DEF SetRoleFeatures
  <2> QED BY <2>1, <2>2
<1>4. ASSUME NEW a \in Admins, Bump(a) PROVE Safe'
  <2>1. t \in Outdated /\ t \notin unended
    BY <1>4 DEF Bump, Outdated, Effective
  <2>2. role[a] \in present
    BY <1>4, <2>1 DEF Bump
  <2>3. Bound(a) => Bound(a)'
    BY <1>4, <2>2, <1>t DEF Bump, Bound
  <2> QED BY <1>4, <2>1, <2>2, <2>3, <1>q, <1>t DEF Bump
<1>5. ASSUME NEW a \in Admins, Holders(a) PROVE Safe'
  <2>1. t \in Outdated /\ t \notin unended
    BY <1>5 DEF Holders, Outdated, Effective
  <2>2. Bound(a) => Bound(a)'
    BY <1>5, <1>t DEF Holders, Bound
  <2> QED BY <1>5, <2>1, <2>2, <1>q, <1>t DEF Holders
<1>6. ASSUME NEW a \in Admins, SignOut(a) PROVE Safe'
  <2>1. CASE listed[a] = TRUE
    BY <1>6, <2>1, <1>t DEF SignOut
  <2>2. CASE listed[a] = FALSE
    <3>1. t \in Outdated /\ t \notin unended
      BY <1>6 DEF SignOut, Outdated, Effective
    <3>2. ~Bound(a)
      BY <1>6, <2>2 DEF SignOut, Bound
    <3>3. UNCHANGED <<access, holds, stage, copy, readAt, revokeBefore>>
      BY <1>6, <2>2 DEF SignOut
    <3> QED BY <1>6, <3>1, <3>2, <3>3, <1>q, <1>t DEF SignOut
  <2> QED BY <2>1, <2>2, <1>t
<1>7. ASSUME NEW a \in Admins, DeleteRole(a) PROVE Safe'
  BY <1>7 DEF DeleteRole
<1>8. ASSUME NEW a \in Admins, UpdateUserApp(a) \/ DeleteUserApp(a) \/ SetDirectFeatures(a)
      PROVE  Safe'
  <2>1. CASE apc'[a] = "signOut"
    <3>1. Bound(a)'
      BY <1>8, <2>1, <1>t DEF UpdateUserApp, DeleteUserApp, SetDirectFeatures, Bound
    <3> QED BY <3>1
  <2>2. CASE apc'[a] # "signOut"
    <3>1. UNCHANGED <<userVars, grants, tokenVars, revokeBefore, unended>> /\ Finish(a)
      BY <1>8, <2>2, <1>t DEF UpdateUserApp, DeleteUserApp, SetDirectFeatures
    <3>2. t \in Outdated /\ t \notin unended
      BY <3>1 DEF Outdated, Effective
    <3>3. ~Bound(a)
      BY <1>8 DEF UpdateUserApp, DeleteUserApp, SetDirectFeatures, Bound
    <3> QED BY <3>1, <3>2, <3>3, <1>q, <1>t
  <2> QED BY <2>1, <2>2
<1>9. ASSUME NEW a \in Admins, Fail(a) PROVE Safe'
  <2>1. t \in Outdated /\ t \notin unended
    BY <1>9 DEF Fail, Outdated, Effective
  <2>2. ~Bound(a)
    BY <1>9, <2>1 DEF Fail, Bound
  <2> QED BY <1>9, <2>1, <2>2, <1>q, <1>t DEF Fail
<1>10. ASSUME NEW r \in present \cup {None}, AssignUserToApp(r) PROVE Safe'
  <2>1. Effective = {} /\ t \notin unended /\ t \in Outdated
    BY <1>10 DEF AssignUserToApp, Effective, Outdated
  <2>2. \A a \in Admins : Bound(a) => Bound(a)'
    BY <1>10 DEF AssignUserToApp, Bound
  <2> QED BY <1>10, <2>1, <2>2, <1>i DEF AssignUserToApp
<1>11. ASSUME NEW f \in Features, RemoveFeature(f) PROVE Safe'
  BY <1>11 DEF RemoveFeature
<1>12. ASSUME NEW u \in Tokens, Resolve(u) PROVE Safe'
  <2>1. UNCHANGED <<userVars, grants, adminVars, unended, revokeBefore>>
    BY <1>12 DEF Resolve
  <2>2. Effective' = Effective
    BY <2>1 DEF Effective
  <2>3. u # t
    BY <1>12, <2>2 DEF Resolve, Resolved, NoCopy, Outdated, TypeInv, TypeOK
  <2>4. t \in Outdated /\ readAt'[t] = readAt[t]
    BY <1>12, <2>2, <2>3 DEF Resolve, Outdated, TypeInv, TypeOK
  <2> QED BY <2>1, <2>4, <1>i DEF Bound
<1>13. ASSUME NEW u \in Tokens, Sign(u) PROVE Safe'
  <2>1. UNCHANGED <<userVars, grants, adminVars, unended, revokeBefore, copy, readAt>>
    BY <1>13 DEF Sign
  <2>2. t \in Outdated
    BY <1>13, <2>1 DEF Sign, Outdated, Effective, TypeInv, TypeOK
  <2> QED BY <2>1, <2>2, <1>i DEF Bound
<1>14. CASE Tick \/ UNCHANGED vars
  BY <1>14, <1>i DEF Tick, vars, Outdated, Effective, Bound
<1> QED
  BY <1>1, <1>2, <1>3, <1>4, <1>5, <1>6, <1>7, <1>8, <1>9, <1>10, <1>11, <1>12, <1>13, <1>14
  DEF Next, Continue

-----------------------------------------------------------------------------
\* Nothing is outdated before anything has been resolved.
LEMMA Invariant == Spec => [](TypeInv /\ PermissionsInv)
<1>1. Init => TypeInv /\ PermissionsInv
  BY DEF Init, TypeInv, TypeOK, AdminsInv, PermissionsInv, Outdated, NoCopy, RoleTasks, UserTasks,
     RolesAssumption
<1> QED BY <1>1, TypeStep, PermissionsStep, PTL DEF Spec

\* Roles, access, requests and tokens keep their types.
THEOREM TypeCorrect == Spec => []TypeOK
<1>1. TypeInv => TypeOK
  BY DEF TypeInv
<1> QED BY <1>1, Invariant, PTL

\* However many administrators change roles, access and features at once, no
\* token resolved after the last sign-out grants too much once they are done.
THEOREM OutdatedSignedOut == Spec => []OutdatedOnlyInFlight
<1>1. PermissionsInv => OutdatedOnlyInFlight
  <2> SUFFICES ASSUME PermissionsInv, Quiet, NEW t \in Outdated \ unended
               PROVE  readAt[t] <= revokeBefore
    BY DEF OutdatedOnlyInFlight
  <2>1. \A a \in Admins : ~Bound(a)
    BY DEF Quiet, Bound
  <2> QED BY <2>1 DEF PermissionsInv
<1> QED BY <1>1, Invariant, PTL

=============================================================================
