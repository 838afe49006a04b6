------------------------ MODULE TokenSessionsProofs ------------------------
(***************************************************************************)
(* Theorems about TokenSessions, for any number of grants and concurrent   *)
(* requests and for any token lifetimes.                                   *)
(***************************************************************************)
EXTENDS TokenSessions, FiniteSetTheorems, TLAPS

-----------------------------------------------------------------------------
\* The strengthening.

Retired(g) == refresh[g] \in {"revoked", "erased"}

\* A request still at the door knows what it was sent for.
Routed ==
    \A p \in Requests :
        /\ pc[p] \in {"blacklist", "cutoff"} => op[p] \in BearerOps
        /\ pc[p] \in {"blacklist", "cutoff"} \cup Admitted => own[p] \in Grants
        /\ body[p] # None =>
              \/ pc[p] \in Issuing \cup {"logout", "logoutFind", "logoutRevoke"}
              \/ pc[p] \in {"blacklist", "cutoff"} /\ op[p] = "logout"

\* A request that is about to issue owns a reserved grant, and no one else
\* owns that grant.
FreshOwned ==
    \A p \in Requests :
        /\ pc[p] \in Issuing <=> fresh[p] # None
        /\ fresh[p] # None => refresh[fresh[p]] = "reserved"
        /\ \A q \in Requests : fresh[p] # None /\ fresh[p] = fresh[q] => p = q

\* A refresh token named in a request body was handed out before, and once an
\* exchange has passed its update the token exchanged is dead.
BodyDelivered ==
    \A p \in Requests :
        /\ body[p] # None => Delivered(body[p])
        /\ own[p] # None => Delivered(own[p])
BodyRetired ==
    \A p \in Requests :
        pc[p] \in {"owner", "sign", "store"} /\ body[p] # None => Retired(body[p])

RotationInv ==
    TypeOK /\ Routed /\ FreshOwned /\ BodyDelivered /\ BodyRetired /\ RotationRetiresParent

USE NoneAssumption, TtlAssumption, FaultAssumption

\* At the start no token has been issued, so nothing has been exchanged.
LEMMA RotationInit == Init => RotationInv
BY DEF Init, RotationInv, TypeOK, Routed, FreshOwned, BodyDelivered, BodyRetired,
       RotationRetiresParent, Labels, Issuing, Admitted, BearerOps

\* What the ending of a request does to the types, once for all the actions
\* that end one.
LEMMA DropTyped ==
    ASSUME TypeOK, NEW p \in Requests, Drop(p)
    PROVE  /\ refresh' \in [Grants -> {"unused", "reserved", "live", "revoked", "erased"}]
           /\ iat' \in [Grants -> Nat]
           /\ parent' \in [Grants -> Grants \cup {None}]
BY DEF TypeOK, Drop

\* Finish leaves the fields of the request empty and of their types.
LEMMA FinishTyped ==
    ASSUME TypeOK, NEW p \in Requests, Finish(p)
    PROVE  /\ pc' \in [Requests -> Labels]
           /\ op' \in [Requests -> BearerOps \cup {"none"}]
           /\ own' \in [Requests -> Grants \cup {None}]
           /\ body' \in [Requests -> Grants \cup {None}]
           /\ fresh' \in [Requests -> Grants \cup {None}]
           /\ stale' \in [Requests -> BOOLEAN]
BY DEF TypeOK, Finish, Dismiss, Goto, Labels

\* The types, and where a request's fields are in use, are kept by every
\* action.
LEMMA TypeStep == TypeOK /\ Routed /\ [Next]_vars => TypeOK' /\ Routed'
<1> SUFFICES ASSUME TypeOK, Routed, [Next]_vars PROVE TypeOK' /\ Routed'
  OBVIOUS
<1> USE DEF TypeOK, Routed, Labels, Issuing, Admitted, BearerOps,
            Goto, Finish, Dismiss, Drop, Delivered,
            tokenVars, redisVars, requestVars, historyVars
<1>1. ASSUME NEW p \in Requests, LoginLookup(p) PROVE TypeOK' /\ Routed'
  BY <1>1 DEF LoginLookup, Reserve
<1>2. ASSUME NEW p \in Requests, Rotate(p) PROVE TypeOK' /\ Routed'
  <2>1. CASE refresh[body[p]] = "erased"
    <3>1. TypeOK'
      BY <1>2, <2>1, DropTyped, FinishTyped DEF Rotate
    <3>2. Routed'
      BY <1>2, <2>1 DEF Rotate
    <3> QED
      BY <3>1, <3>2
  <2>2. CASE ~(refresh[body[p]] = "erased")
    BY <1>2, <2>2 DEF Rotate
  <2> QED
    BY <2>1, <2>2
<1>3. ASSUME NEW p \in Requests, CheckOwner(p) PROVE TypeOK' /\ Routed'
  <2>1. CASE account # "active"
    <3>1. TypeOK'
      BY <1>3, <2>1, DropTyped, FinishTyped DEF CheckOwner
    <3>2. Routed'
      BY <1>3, <2>1 DEF CheckOwner
    <3> QED
      BY <3>1, <3>2
  <2>2. CASE ~(account # "active")
    BY <1>3, <2>2 DEF CheckOwner
  <2> QED
    BY <2>1, <2>2
<1>4. ASSUME NEW p \in Requests, Sign(p) PROVE TypeOK' /\ Routed'
  <2>0. now \in Nat
    OBVIOUS
  <2>1. iat' \in [Grants -> Nat]
    BY <1>4, <2>0 DEF Sign
  <2>2. parent' \in [Grants -> Grants \cup {None}]
    BY <1>4 DEF Sign
  <2> QED
    BY <1>4, <2>1, <2>2 DEF Sign
<1>5. ASSUME NEW p \in Requests, Store(p) PROVE TypeOK' /\ Routed'
  BY <1>5 DEF Store
<1>6. ASSUME NEW p \in Requests, CheckBlacklist(p) PROVE TypeOK' /\ Routed'
  <2>1. CASE Finish(p)
    <3>1. TypeOK'
      BY <1>6, <2>1, FinishTyped DEF CheckBlacklist
    <3>2. Routed'
      BY <1>6, <2>1 DEF CheckBlacklist
    <3> QED
      BY <3>1, <3>2
  <2>2. CASE Goto(p, "cutoff") /\ UNCHANGED <<op, own, body, fresh, historyVars>>
    BY <1>6, <2>2 DEF CheckBlacklist
  <2> QED
    BY <1>6, <2>1, <2>2 DEF CheckBlacklist
<1>7. ASSUME NEW p \in Requests, CheckCutoff(p) PROVE TypeOK' /\ Routed'
  <2>1. CASE Finish(p)
    <3>1. TypeOK'
      BY <1>7, <2>1, FinishTyped DEF CheckCutoff
    <3>2. Routed'
      BY <1>7, <2>1 DEF CheckCutoff
    <3> QED
      BY <3>1, <3>2
  <2>2. CASE /\ Goto(p, IF op[p] = "access" THEN "serve" ELSE op[p])
             /\ UNCHANGED <<op, own, body, fresh, historyVars>>
    <3>1. op[p] \in BearerOps
      BY <1>7 DEF CheckCutoff
    <3> QED
      BY <1>7, <2>2, <3>1 DEF CheckCutoff
  <2> QED
    BY <1>7, <2>1, <2>2 DEF CheckCutoff
<1>8. ASSUME NEW p \in Requests, Serve(p) PROVE TypeOK' /\ Routed'
  BY <1>8 DEF Serve
<1>9. ASSUME NEW p \in Requests, Logout(p) PROVE TypeOK' /\ Routed'
  <2>1. blacklist' \in [Grants -> Nat]
    BY <1>9 DEF Logout, Blacklist, RemainingTtl, AccessExpiry
  <2>2. ended' \in SUBSET Grants
    BY <1>9 DEF Logout, SetRevocationTime, Older
  <2> QED
    BY <1>9, <2>1, <2>2 DEF Logout
<1>10. ASSUME NEW p \in Requests, LogoutFind(p) PROVE TypeOK' /\ Routed'
  <2>1. CASE refresh[body[p]] = "live"
    BY <1>10, <2>1 DEF LogoutFind
  <2>2. CASE ~(refresh[body[p]] = "live")
    <3>1. TypeOK'
      BY <1>10, <2>2, FinishTyped DEF LogoutFind
    <3>2. Routed'
      BY <1>10, <2>2 DEF LogoutFind
    <3> QED
      BY <3>1, <3>2
  <2> QED
    BY <2>1, <2>2
<1>11. ASSUME NEW p \in Requests, LogoutRevoke(p) PROVE TypeOK' /\ Routed'
  BY <1>11 DEF LogoutRevoke
<1>12. ASSUME NEW p \in Requests, LogoutAll(p) PROVE TypeOK' /\ Routed'
  <2>1. blacklist' \in [Grants -> Nat]
    BY <1>12 DEF LogoutAll, Blacklist, RemainingTtl, AccessExpiry
  <2>2. revokeBefore' \in Nat /\ revokeUntil' \in Nat /\ ended' \in SUBSET Grants
    BY <1>12 DEF LogoutAll, SetRevocationTime, Older
  <2> QED
    BY <1>12, <2>1, <2>2 DEF LogoutAll
<1>13. ASSUME NEW p \in Requests, ChangePassword(p) PROVE TypeOK' /\ Routed'
  BY <1>13 DEF ChangePassword
<1>14. ASSUME NEW p \in Requests, RevokeAll(p) PROVE TypeOK' /\ Routed'
  BY <1>14 DEF RevokeAll
<1>15. ASSUME NEW p \in Requests, Cut(p) PROVE TypeOK' /\ Routed'
  BY <1>15 DEF Cut, SetRevocationTime, Older
<1>16. ASSUME NEW p \in Requests, ResetPassword(p) PROVE TypeOK' /\ Routed'
  BY <1>16 DEF ResetPassword
<1>17. ASSUME NEW p \in Requests, Suspend(p) PROVE TypeOK' /\ Routed'
  BY <1>17 DEF Suspend
<1>18. ASSUME NEW p \in Requests, Fail(p) PROVE TypeOK' /\ Routed'
  BY <1>18 DEF Fail
<1>19. ASSUME NEW p \in Requests, NEW r \in Grants, RefreshLookup(p, r) PROVE TypeOK' /\ Routed'
  BY <1>19 DEF RefreshLookup, Reserve
<1>20. ASSUME NEW p \in Requests, NEW g \in Grants, NEW o \in BearerOps,
              NEW r \in Grants \cup {None}, Present(p, g, o, r)
       PROVE  TypeOK' /\ Routed'
  BY <1>20 DEF Present
<1>21. CASE Activate
  BY <1>21 DEF Activate
<1>22. CASE Delete
  BY <1>22 DEF Delete
<1>23. CASE Tick
  BY <1>23 DEF Tick
<1>24. CASE UNCHANGED vars
  BY <1>24 DEF vars
<1>25. QED
  BY <1>1, <1>2, <1>3, <1>4, <1>5, <1>6, <1>7, <1>8, <1>9, <1>10, <1>11, <1>12,
     <1>13, <1>14, <1>15, <1>16, <1>17, <1>18, <1>19, <1>20, <1>21, <1>22,
     <1>23, <1>24
     DEF Next, Begin, Continue

\* Two requests never issue the same grant, and nobody else touches a grant
\* that is reserved.
LEMMA FreshStep == TypeOK /\ BodyDelivered /\ FreshOwned /\ [Next]_vars => FreshOwned'
<1> SUFFICES ASSUME TypeOK, BodyDelivered, FreshOwned, [Next]_vars PROVE FreshOwned'
  OBVIOUS
<1> USE DEF TypeOK, FreshOwned, BodyDelivered, Labels, Issuing, Admitted, BearerOps,
            Goto, Finish, Dismiss, Drop, Delivered,
            tokenVars, redisVars, requestVars, historyVars
<1>1. ASSUME NEW p \in Requests, LoginLookup(p) PROVE FreshOwned'
  BY <1>1 DEF LoginLookup, Reserve
<1>2. ASSUME NEW p \in Requests, Rotate(p) PROVE FreshOwned'
  BY <1>2 DEF Rotate
<1>3. ASSUME NEW p \in Requests, CheckOwner(p) PROVE FreshOwned'
  BY <1>3 DEF CheckOwner
<1>4. ASSUME NEW p \in Requests, Sign(p) PROVE FreshOwned'
  BY <1>4 DEF Sign
<1>5. ASSUME NEW p \in Requests, Store(p) PROVE FreshOwned'
  BY <1>5 DEF Store
<1>6. ASSUME NEW p \in Requests, CheckBlacklist(p) PROVE FreshOwned'
  BY <1>6 DEF CheckBlacklist
<1>7. ASSUME NEW p \in Requests, CheckCutoff(p) PROVE FreshOwned'
  BY <1>7 DEF CheckCutoff
<1>8. ASSUME NEW p \in Requests, Serve(p) PROVE FreshOwned'
  BY <1>8 DEF Serve
<1>9. ASSUME NEW p \in Requests, Logout(p) PROVE FreshOwned'
  BY <1>9 DEF Logout, Blacklist, RemainingTtl, AccessExpiry
<1>10. ASSUME NEW p \in Requests, LogoutFind(p) PROVE FreshOwned'
  BY <1>10 DEF LogoutFind
<1>11. ASSUME NEW p \in Requests, LogoutRevoke(p) PROVE FreshOwned'
  BY <1>11 DEF LogoutRevoke
<1>12. ASSUME NEW p \in Requests, LogoutAll(p) PROVE FreshOwned'
  BY <1>12 DEF LogoutAll, Blacklist, SetRevocationTime, Older, RemainingTtl, AccessExpiry
<1>13. ASSUME NEW p \in Requests, ChangePassword(p) PROVE FreshOwned'
  BY <1>13 DEF ChangePassword
<1>14. ASSUME NEW p \in Requests, RevokeAll(p) PROVE FreshOwned'
  BY <1>14 DEF RevokeAll
<1>15. ASSUME NEW p \in Requests, Cut(p) PROVE FreshOwned'
  BY <1>15 DEF Cut, SetRevocationTime, Older
<1>16. ASSUME NEW p \in Requests, ResetPassword(p) PROVE FreshOwned'
  BY <1>16 DEF ResetPassword
<1>17. ASSUME NEW p \in Requests, Suspend(p) PROVE FreshOwned'
  BY <1>17 DEF Suspend
<1>18. ASSUME NEW p \in Requests, Fail(p) PROVE FreshOwned'
  BY <1>18 DEF Fail
<1>19. ASSUME NEW p \in Requests, NEW r \in Grants, RefreshLookup(p, r) PROVE FreshOwned'
  BY <1>19 DEF RefreshLookup, Reserve
<1>20. ASSUME NEW p \in Requests, NEW g \in Grants, NEW o \in BearerOps,
              NEW r \in Grants \cup {None}, Present(p, g, o, r)
       PROVE  FreshOwned'
  BY <1>20 DEF Present
<1>21. CASE Activate
  BY <1>21 DEF Activate
<1>22. CASE Delete
  BY <1>22 DEF Delete
<1>23. CASE Tick
  BY <1>23 DEF Tick
<1>24. CASE UNCHANGED vars
  BY <1>24 DEF vars
<1>25. QED
  BY <1>1, <1>2, <1>3, <1>4, <1>5, <1>6, <1>7, <1>8, <1>9, <1>10, <1>11, <1>12,
     <1>13, <1>14, <1>15, <1>16, <1>17, <1>18, <1>19, <1>20, <1>21, <1>22,
     <1>23, <1>24
     DEF Next, Begin, Continue

\* The tokens a request carries stay delivered, and one whose exchange is past
\* its update stays dead: no action brings a dead row back to life.
LEMMA BodyStep == TypeOK /\ Routed /\ FreshOwned /\ BodyDelivered /\ BodyRetired /\ [Next]_vars => BodyDelivered' /\ BodyRetired'
<1> SUFFICES ASSUME TypeOK, Routed, FreshOwned, BodyDelivered, BodyRetired, [Next]_vars PROVE BodyDelivered' /\ BodyRetired'
  OBVIOUS
<1> USE DEF TypeOK, Routed, BearerOps, FreshOwned, BodyDelivered, BodyRetired, Retired, Issuing,
            Goto, Finish, Dismiss, Drop, Delivered,
            tokenVars, redisVars, requestVars, historyVars
<1>1. ASSUME NEW p \in Requests, LoginLookup(p) PROVE BodyDelivered' /\ BodyRetired'
  <2>1. BodyDelivered'
    BY <1>1 DEF LoginLookup, Reserve
  <2>2. \A g \in Grants : Retired(g) => Retired(g)'
    BY <1>1 DEF LoginLookup, Reserve
  <2>3. BodyRetired'
    BY <1>1, <2>2 DEF LoginLookup
  <2> QED
    BY <2>1, <2>3
<1>2. ASSUME NEW p \in Requests, Rotate(p) PROVE BodyDelivered' /\ BodyRetired'
  <2>1. CASE refresh[body[p]] = "erased"
    <3>1. \A g \in Grants : Delivered(g) \/ Retired(g) => refresh'[g] = refresh[g]
      BY <1>2, <2>1 DEF Rotate
    <3> QED
      BY <1>2, <2>1, <3>1 DEF Rotate
  <2>2. CASE ~(refresh[body[p]] = "erased")
    <3>1. /\ \A g \in Grants : Delivered(g) => Delivered(g)'
          /\ \A g \in Grants : Retired(g) => Retired(g)'
          /\ body[p] # None => Retired(body[p])'
      BY <1>2, <2>2 DEF Rotate
    <3>2. body' = body /\ own' = own /\ pc' = [pc EXCEPT ![p] = "owner"]
      BY <1>2, <2>2 DEF Rotate
    <3> QED
      BY <3>1, <3>2
  <2> QED
    BY <2>1, <2>2
<1>3. ASSUME NEW p \in Requests, CheckOwner(p) PROVE BodyDelivered' /\ BodyRetired'
  BY <1>3 DEF CheckOwner
<1>4. ASSUME NEW p \in Requests, Sign(p) PROVE BodyDelivered' /\ BodyRetired'
  BY <1>4 DEF Sign
<1>5. ASSUME NEW p \in Requests, Store(p) PROVE BodyDelivered' /\ BodyRetired'
  BY <1>5 DEF Store
<1>6. ASSUME NEW p \in Requests, CheckBlacklist(p) PROVE BodyDelivered' /\ BodyRetired'
  BY <1>6 DEF CheckBlacklist
<1>7. ASSUME NEW p \in Requests, CheckCutoff(p) PROVE BodyDelivered' /\ BodyRetired'
  <2>1. /\ refresh' = refresh
        /\ \A q \in Requests : body'[q] \in {body[q], None} /\ own'[q] \in {own[q], None}
    BY <1>7 DEF CheckCutoff
  <2>2. \A q \in Requests : pc'[q] \in {"owner", "sign", "store"} => pc'[q] = pc[q]
    BY <1>7 DEF CheckCutoff
  <2> QED
    BY <2>1, <2>2
<1>8. ASSUME NEW p \in Requests, Serve(p) PROVE BodyDelivered' /\ BodyRetired'
  BY <1>8 DEF Serve
<1>9. ASSUME NEW p \in Requests, Logout(p) PROVE BodyDelivered' /\ BodyRetired'
  BY <1>9 DEF Logout, Blacklist, RemainingTtl, AccessExpiry
<1>10. ASSUME NEW p \in Requests, LogoutFind(p) PROVE BodyDelivered' /\ BodyRetired'
  BY <1>10 DEF LogoutFind
<1>11. ASSUME NEW p \in Requests, LogoutRevoke(p) PROVE BodyDelivered' /\ BodyRetired'
  BY <1>11 DEF LogoutRevoke
<1>12. ASSUME NEW p \in Requests, LogoutAll(p) PROVE BodyDelivered' /\ BodyRetired'
  BY <1>12 DEF LogoutAll, Blacklist, SetRevocationTime, Older, RemainingTtl, AccessExpiry
<1>13. ASSUME NEW p \in Requests, ChangePassword(p) PROVE BodyDelivered' /\ BodyRetired'
  BY <1>13 DEF ChangePassword
<1>14. ASSUME NEW p \in Requests, RevokeAll(p) PROVE BodyDelivered' /\ BodyRetired'
  BY <1>14 DEF RevokeAll
<1>15. ASSUME NEW p \in Requests, Cut(p) PROVE BodyDelivered' /\ BodyRetired'
  BY <1>15 DEF Cut, SetRevocationTime, Older
<1>16. ASSUME NEW p \in Requests, ResetPassword(p) PROVE BodyDelivered' /\ BodyRetired'
  BY <1>16 DEF ResetPassword
<1>17. ASSUME NEW p \in Requests, Suspend(p) PROVE BodyDelivered' /\ BodyRetired'
  BY <1>17 DEF Suspend
<1>18. ASSUME NEW p \in Requests, Fail(p) PROVE BodyDelivered' /\ BodyRetired'
  BY <1>18 DEF Fail
<1>19. ASSUME NEW p \in Requests, NEW r \in Grants, RefreshLookup(p, r) PROVE BodyDelivered' /\ BodyRetired'
  BY <1>19 DEF RefreshLookup, Reserve
<1>20. ASSUME NEW p \in Requests, NEW g \in Grants, NEW o \in BearerOps,
              NEW r \in Grants \cup {None}, Present(p, g, o, r)
       PROVE  BodyDelivered' /\ BodyRetired'
  BY <1>20 DEF Present
<1>21. CASE Activate
  BY <1>21 DEF Activate
<1>22. CASE Delete
  BY <1>22 DEF Delete
<1>23. CASE Tick
  BY <1>23 DEF Tick
<1>24. CASE UNCHANGED vars
  BY <1>24 DEF vars
<1>25. QED
  BY <1>1, <1>2, <1>3, <1>4, <1>5, <1>6, <1>7, <1>8, <1>9, <1>10, <1>11, <1>12,
     <1>13, <1>14, <1>15, <1>16, <1>17, <1>18, <1>19, <1>20, <1>21, <1>22,
     <1>23, <1>24
     DEF Next, Begin, Continue

\* Only Sign records a parent, and the body it records is dead by then.
LEMMA ParentStep == TypeOK /\ FreshOwned /\ BodyDelivered /\ BodyRetired /\ RotationRetiresParent /\ [Next]_vars => RotationRetiresParent'
<1> SUFFICES ASSUME TypeOK, FreshOwned, BodyDelivered, BodyRetired, RotationRetiresParent, [Next]_vars PROVE RotationRetiresParent'
  OBVIOUS
<1> USE DEF TypeOK, FreshOwned, BodyDelivered, BodyRetired, Retired, Issuing,
            RotationRetiresParent, Goto, Finish, Dismiss, Drop, Delivered,
            tokenVars, redisVars, requestVars, historyVars
<1>1. ASSUME NEW p \in Requests, LoginLookup(p) PROVE RotationRetiresParent'
  BY <1>1 DEF LoginLookup, Reserve
<1>2. ASSUME NEW p \in Requests, Rotate(p) PROVE RotationRetiresParent'
  BY <1>2 DEF Rotate
<1>3. ASSUME NEW p \in Requests, CheckOwner(p) PROVE RotationRetiresParent'
  BY <1>3 DEF CheckOwner
<1>4. ASSUME NEW p \in Requests, Sign(p) PROVE RotationRetiresParent'
  BY <1>4 DEF Sign
<1>5. ASSUME NEW p \in Requests, Store(p) PROVE RotationRetiresParent'
  BY <1>5 DEF Store
<1>6. ASSUME NEW p \in Requests, CheckBlacklist(p) PROVE RotationRetiresParent'
  BY <1>6 DEF CheckBlacklist
<1>7. ASSUME NEW p \in Requests, CheckCutoff(p) PROVE RotationRetiresParent'
  BY <1>7 DEF CheckCutoff
<1>8. ASSUME NEW p \in Requests, Serve(p) PROVE RotationRetiresParent'
  BY <1>8 DEF Serve
<1>9. ASSUME NEW p \in Requests, Logout(p) PROVE RotationRetiresParent'
  BY <1>9 DEF Logout, Blacklist, RemainingTtl, AccessExpiry
<1>10. ASSUME NEW p \in Requests, LogoutFind(p) PROVE RotationRetiresParent'
  BY <1>10 DEF LogoutFind
<1>11. ASSUME NEW p \in Requests, LogoutRevoke(p) PROVE RotationRetiresParent'
  BY <1>11 DEF LogoutRevoke
<1>12. ASSUME NEW p \in Requests, LogoutAll(p) PROVE RotationRetiresParent'
  BY <1>12 DEF LogoutAll, Blacklist, SetRevocationTime, Older, RemainingTtl, AccessExpiry
<1>13. ASSUME NEW p \in Requests, ChangePassword(p) PROVE RotationRetiresParent'
  BY <1>13 DEF ChangePassword
<1>14. ASSUME NEW p \in Requests, RevokeAll(p) PROVE RotationRetiresParent'
  BY <1>14 DEF RevokeAll
<1>15. ASSUME NEW p \in Requests, Cut(p) PROVE RotationRetiresParent'
  BY <1>15 DEF Cut, SetRevocationTime, Older
<1>16. ASSUME NEW p \in Requests, ResetPassword(p) PROVE RotationRetiresParent'
  BY <1>16 DEF ResetPassword
<1>17. ASSUME NEW p \in Requests, Suspend(p) PROVE RotationRetiresParent'
  BY <1>17 DEF Suspend
<1>18. ASSUME NEW p \in Requests, Fail(p) PROVE RotationRetiresParent'
  BY <1>18 DEF Fail
<1>19. ASSUME NEW p \in Requests, NEW r \in Grants, RefreshLookup(p, r) PROVE RotationRetiresParent'
  BY <1>19 DEF RefreshLookup, Reserve
<1>20. ASSUME NEW p \in Requests, NEW g \in Grants, NEW o \in BearerOps,
              NEW r \in Grants \cup {None}, Present(p, g, o, r)
       PROVE  RotationRetiresParent'
  BY <1>20 DEF Present
<1>21. CASE Activate
  BY <1>21 DEF Activate
<1>22. CASE Delete
  BY <1>22 DEF Delete
<1>23. CASE Tick
  BY <1>23 DEF Tick
<1>24. CASE UNCHANGED vars
  BY <1>24 DEF vars
<1>25. QED
  BY <1>1, <1>2, <1>3, <1>4, <1>5, <1>6, <1>7, <1>8, <1>9, <1>10, <1>11, <1>12,
     <1>13, <1>14, <1>15, <1>16, <1>17, <1>18, <1>19, <1>20, <1>21, <1>22,
     <1>23, <1>24
     DEF Next, Begin, Continue

\* What a client holds it keeps: a delivered grant stays delivered, and its
\* issue time is fixed.
Kept == \A g \in Grants : Delivered(g) => Delivered(g)' /\ iat'[g] = iat[g]

\* A token handed out stays handed out, with the issue time it was signed with.
LEMMA DeliveredStays == TypeOK /\ FreshOwned /\ BodyDelivered /\ [Next]_vars => Kept
<1> SUFFICES ASSUME TypeOK, FreshOwned, BodyDelivered, [Next]_vars PROVE Kept
  OBVIOUS
<1> USE DEF Kept, TypeOK, FreshOwned, BodyDelivered, Issuing,
            Goto, Finish, Dismiss, Drop, Delivered,
            tokenVars, redisVars, requestVars, historyVars
<1>1. ASSUME NEW p \in Requests, LoginLookup(p) PROVE Kept
  BY <1>1 DEF LoginLookup, Reserve
<1>2. ASSUME NEW p \in Requests, Rotate(p) PROVE Kept
  BY <1>2 DEF Rotate
<1>3. ASSUME NEW p \in Requests, CheckOwner(p) PROVE Kept
  BY <1>3 DEF CheckOwner
<1>4. ASSUME NEW p \in Requests, Sign(p) PROVE Kept
  BY <1>4 DEF Sign
<1>5. ASSUME NEW p \in Requests, Store(p) PROVE Kept
  BY <1>5 DEF Store
<1>6. ASSUME NEW p \in Requests, CheckBlacklist(p) PROVE Kept
  BY <1>6 DEF CheckBlacklist
<1>7. ASSUME NEW p \in Requests, CheckCutoff(p) PROVE Kept
  BY <1>7 DEF CheckCutoff
<1>8. ASSUME NEW p \in Requests, Serve(p) PROVE Kept
  BY <1>8 DEF Serve
<1>9. ASSUME NEW p \in Requests, Logout(p) PROVE Kept
  BY <1>9 DEF Logout, Blacklist, RemainingTtl, AccessExpiry
<1>10. ASSUME NEW p \in Requests, LogoutFind(p) PROVE Kept
  BY <1>10 DEF LogoutFind
<1>11. ASSUME NEW p \in Requests, LogoutRevoke(p) PROVE Kept
  BY <1>11 DEF LogoutRevoke
<1>12. ASSUME NEW p \in Requests, LogoutAll(p) PROVE Kept
  BY <1>12 DEF LogoutAll, Blacklist, SetRevocationTime, Older, RemainingTtl, AccessExpiry
<1>13. ASSUME NEW p \in Requests, ChangePassword(p) PROVE Kept
  BY <1>13 DEF ChangePassword
<1>14. ASSUME NEW p \in Requests, RevokeAll(p) PROVE Kept
  BY <1>14 DEF RevokeAll
<1>15. ASSUME NEW p \in Requests, Cut(p) PROVE Kept
  BY <1>15 DEF Cut, SetRevocationTime, Older
<1>16. ASSUME NEW p \in Requests, ResetPassword(p) PROVE Kept
  BY <1>16 DEF ResetPassword
<1>17. ASSUME NEW p \in Requests, Suspend(p) PROVE Kept
  BY <1>17 DEF Suspend
<1>18. ASSUME NEW p \in Requests, Fail(p) PROVE Kept
  BY <1>18 DEF Fail
<1>19. ASSUME NEW p \in Requests, NEW r \in Grants, RefreshLookup(p, r) PROVE Kept
  BY <1>19 DEF RefreshLookup, Reserve
<1>20. ASSUME NEW p \in Requests, NEW g \in Grants, NEW o \in BearerOps,
              NEW r \in Grants \cup {None}, Present(p, g, o, r)
       PROVE  Kept
  BY <1>20 DEF Present
<1>21. CASE Activate
  BY <1>21 DEF Activate
<1>22. CASE Delete
  BY <1>22 DEF Delete
<1>23. CASE Tick
  BY <1>23 DEF Tick
<1>24. CASE UNCHANGED vars
  BY <1>24 DEF vars
<1>25. QED
  BY <1>1, <1>2, <1>3, <1>4, <1>5, <1>6, <1>7, <1>8, <1>9, <1>10, <1>11, <1>12,
     <1>13, <1>14, <1>15, <1>16, <1>17, <1>18, <1>19, <1>20, <1>21, <1>22,
     <1>23, <1>24
     DEF Next, Begin, Continue

-----------------------------------------------------------------------------
\* Entry, while Redis answers.

\* The access token of g is shut out until it expires.
CutOff(g) == iat[g] < revokeBefore /\ revokeUntil >= AccessExpiry(g)
ShutOut(g) == blacklist[g] >= AccessExpiry(g) \/ CutOff(g)

InstantPast == revokeBefore <= now

EndedShutOut ==
    \A g \in ended : Delivered(g) /\ (now < AccessExpiry(g) => ShutOut(g))

\* A request whose token had ended may pass the blacklist, never the cutoff.
StaleBearers ==
    \A p \in Requests :
        /\ stale[p] => own[p] \in ended
        /\ pc[p] = "cutoff" /\ stale[p] /\ now < AccessExpiry(own[p]) => CutOff(own[p])
        
EntryInv == InstantPast /\ EndedShutOut /\ StaleBearers /\ NoEntryOnceEnded

\* The instant is never ahead of the clock, so overwriting it raises it.
LEMMA InstantStep == TypeOK /\ InstantPast /\ [Next]_vars => InstantPast' /\ revokeBefore' >= revokeBefore
<1> SUFFICES ASSUME TypeOK, InstantPast, [Next]_vars PROVE InstantPast' /\ revokeBefore' >= revokeBefore
  OBVIOUS
<1> USE DEF TypeOK, InstantPast,
            Goto, Finish, Dismiss, Drop, Delivered,
            tokenVars, redisVars, requestVars, historyVars
<1>1. ASSUME NEW p \in Requests, LoginLookup(p) PROVE InstantPast' /\ revokeBefore' >= revokeBefore
  BY <1>1 DEF LoginLookup, Reserve
<1>2. ASSUME NEW p \in Requests, Rotate(p) PROVE InstantPast' /\ revokeBefore' >= revokeBefore
  BY <1>2 DEF Rotate
<1>3. ASSUME NEW p \in Requests, CheckOwner(p) PROVE InstantPast' /\ revokeBefore' >= revokeBefore
  BY <1>3 DEF CheckOwner
<1>4. ASSUME NEW p \in Requests, Sign(p) PROVE InstantPast' /\ revokeBefore' >= revokeBefore
  BY <1>4 DEF Sign
<1>5. ASSUME NEW p \in Requests, Store(p) PROVE InstantPast' /\ revokeBefore' >= revokeBefore
  BY <1>5 DEF Store
<1>6. ASSUME NEW p \in Requests, CheckBlacklist(p) PROVE InstantPast' /\ revokeBefore' >= revokeBefore
  BY <1>6 DEF CheckBlacklist
<1>7. ASSUME NEW p \in Requests, CheckCutoff(p) PROVE InstantPast' /\ revokeBefore' >= revokeBefore
  BY <1>7 DEF CheckCutoff
<1>8. ASSUME NEW p \in Requests, Serve(p) PROVE InstantPast' /\ revokeBefore' >= revokeBefore
  BY <1>8 DEF Serve
<1>9. ASSUME NEW p \in Requests, Logout(p) PROVE InstantPast' /\ revokeBefore' >= revokeBefore
  BY <1>9 DEF Logout, Blacklist, RemainingTtl, AccessExpiry
<1>10. ASSUME NEW p \in Requests, LogoutFind(p) PROVE InstantPast' /\ revokeBefore' >= revokeBefore
  BY <1>10 DEF LogoutFind
<1>11. ASSUME NEW p \in Requests, LogoutRevoke(p) PROVE InstantPast' /\ revokeBefore' >= revokeBefore
  BY <1>11 DEF LogoutRevoke
<1>12. ASSUME NEW p \in Requests, LogoutAll(p) PROVE InstantPast' /\ revokeBefore' >= revokeBefore
  BY <1>12 DEF LogoutAll, Blacklist, SetRevocationTime, Older, RemainingTtl, AccessExpiry
<1>13. ASSUME NEW p \in Requests, ChangePassword(p) PROVE InstantPast' /\ revokeBefore' >= revokeBefore
  BY <1>13 DEF ChangePassword
<1>14. ASSUME NEW p \in Requests, RevokeAll(p) PROVE InstantPast' /\ revokeBefore' >= revokeBefore
  BY <1>14 DEF RevokeAll
<1>15. ASSUME NEW p \in Requests, Cut(p) PROVE InstantPast' /\ revokeBefore' >= revokeBefore
  BY <1>15 DEF Cut, SetRevocationTime, Older
<1>16. ASSUME NEW p \in Requests, ResetPassword(p) PROVE InstantPast' /\ revokeBefore' >= revokeBefore
  BY <1>16 DEF ResetPassword
<1>17. ASSUME NEW p \in Requests, Suspend(p) PROVE InstantPast' /\ revokeBefore' >= revokeBefore
  BY <1>17 DEF Suspend
<1>18. ASSUME NEW p \in Requests, Fail(p) PROVE InstantPast' /\ revokeBefore' >= revokeBefore
  BY <1>18 DEF Fail
<1>19. ASSUME NEW p \in Requests, NEW r \in Grants, RefreshLookup(p, r) PROVE InstantPast' /\ revokeBefore' >= revokeBefore
  BY <1>19 DEF RefreshLookup, Reserve
<1>20. ASSUME NEW p \in Requests, NEW g \in Grants, NEW o \in BearerOps,
              NEW r \in Grants \cup {None}, Present(p, g, o, r)
       PROVE  InstantPast' /\ revokeBefore' >= revokeBefore
  BY <1>20 DEF Present
<1>21. CASE Activate
  BY <1>21 DEF Activate
<1>22. CASE Delete
  BY <1>22 DEF Delete
<1>23. CASE Tick
  BY <1>23 DEF Tick
<1>24. CASE UNCHANGED vars
  BY <1>24 DEF vars
<1>25. QED
  BY <1>1, <1>2, <1>3, <1>4, <1>5, <1>6, <1>7, <1>8, <1>9, <1>10, <1>11, <1>12,
     <1>13, <1>14, <1>15, <1>16, <1>17, <1>18, <1>19, <1>20, <1>21, <1>22,
     <1>23, <1>24
     DEF Next, Begin, Continue

\* Whatever ends a token shuts it out until it expires.
LEMMA EndedStep == ~RedisMayFail /\ TypeOK /\ Routed /\ BodyDelivered /\ InstantPast /\ EndedShutOut /\ Kept /\ [Next]_vars => EndedShutOut'
<1> SUFFICES ASSUME ~RedisMayFail, TypeOK, Routed, BodyDelivered, InstantPast, EndedShutOut, Kept, [Next]_vars PROVE EndedShutOut'
  OBVIOUS
<1> USE DEF TypeOK, InstantPast, EndedShutOut, Kept, CutOff, ShutOut, AccessExpiry,
            Routed, Admitted, Goto, Finish, Dismiss, Drop, Delivered,
            tokenVars, redisVars, requestVars, historyVars
<1>1. ASSUME NEW p \in Requests, LoginLookup(p) PROVE EndedShutOut'
  BY <1>1 DEF LoginLookup, Reserve
<1>2. ASSUME NEW p \in Requests, Rotate(p) PROVE EndedShutOut'
  BY <1>2 DEF Rotate
<1>3. ASSUME NEW p \in Requests, CheckOwner(p) PROVE EndedShutOut'
  BY <1>3 DEF CheckOwner
<1>4. ASSUME NEW p \in Requests, Sign(p) PROVE EndedShutOut'
  BY <1>4 DEF Sign
<1>5. ASSUME NEW p \in Requests, Store(p) PROVE EndedShutOut'
  BY <1>5 DEF Store
<1>6. ASSUME NEW p \in Requests, CheckBlacklist(p) PROVE EndedShutOut'
  BY <1>6 DEF CheckBlacklist
<1>7. ASSUME NEW p \in Requests, CheckCutoff(p) PROVE EndedShutOut'
  BY <1>7 DEF CheckCutoff
<1>8. ASSUME NEW p \in Requests, Serve(p) PROVE EndedShutOut'
  BY <1>8 DEF Serve
<1>9. ASSUME NEW p \in Requests, Logout(p) PROVE EndedShutOut'
  <2>1. /\ now' = now /\ iat' = iat /\ refresh' = refresh
        /\ revokeBefore' = revokeBefore /\ revokeUntil' = revokeUntil
        /\ ended' = ended \cup {own[p]}
        /\ own[p] \in Grants /\ Delivered(own[p])
    BY <1>9 DEF Logout, BodyDelivered
  <2>2. now < AccessExpiry(own[p]) => blacklist'[own[p]] >= AccessExpiry(own[p])
    BY <1>9, <2>1 DEF Logout, Blacklist, RemainingTtl
  <2>3. \A g \in Grants : blacklist[g] >= AccessExpiry(g) => blacklist'[g] >= AccessExpiry(g)
    BY <1>9, <2>1 DEF Logout, Blacklist, RemainingTtl
  <2> QED
    BY <2>1, <2>2, <2>3
<1>10. ASSUME NEW p \in Requests, LogoutFind(p) PROVE EndedShutOut'
  BY <1>10 DEF LogoutFind
<1>11. ASSUME NEW p \in Requests, LogoutRevoke(p) PROVE EndedShutOut'
  BY <1>11 DEF LogoutRevoke
<1>12. ASSUME NEW p \in Requests, LogoutAll(p) PROVE EndedShutOut'
  <2>1. /\ now' = now /\ iat' = iat /\ refresh' = refresh
        /\ ended' = ended \cup Older \cup {own[p]}
        /\ own[p] \in Grants /\ Delivered(own[p])
    BY <1>12 DEF LogoutAll, BodyDelivered
  <2>2. now < AccessExpiry(own[p]) => blacklist'[own[p]] >= AccessExpiry(own[p])
    BY <1>12, <2>1 DEF LogoutAll, Blacklist, RemainingTtl
  <2>3. \A g \in Grants : blacklist[g] >= AccessExpiry(g) => blacklist'[g] >= AccessExpiry(g)
    BY <1>12, <2>1 DEF LogoutAll, Blacklist, RemainingTtl
  <2>4. revokeBefore' = now /\ revokeUntil' = now + RevocationTtl
    BY <1>12 DEF LogoutAll, SetRevocationTime
  <2>5. \A g \in Grants : iat[g] < now => CutOff(g)'
    BY <2>1, <2>4, RevocationOutlivesAccess
  <2> QED
    BY <2>1, <2>2, <2>3, <2>5 DEF Older
<1>13. ASSUME NEW p \in Requests, ChangePassword(p) PROVE EndedShutOut'
  BY <1>13 DEF ChangePassword
<1>14. ASSUME NEW p \in Requests, RevokeAll(p) PROVE EndedShutOut'
  BY <1>14 DEF RevokeAll
<1>15. ASSUME NEW p \in Requests, Cut(p) PROVE EndedShutOut'
  <2>1. /\ now' = now /\ iat' = iat /\ refresh' = refresh /\ blacklist' = blacklist
        /\ ended' = ended \cup Older
        /\ revokeBefore' = now /\ revokeUntil' = now + RevocationTtl
    BY <1>15 DEF Cut, SetRevocationTime
  <2>2. \A g \in Grants : iat[g] < now => CutOff(g)'
    BY <2>1, RevocationOutlivesAccess
  <2> QED
    BY <2>1, <2>2 DEF Older
<1>16. ASSUME NEW p \in Requests, ResetPassword(p) PROVE EndedShutOut'
  BY <1>16 DEF ResetPassword
<1>17. ASSUME NEW p \in Requests, Suspend(p) PROVE EndedShutOut'
  BY <1>17 DEF Suspend
<1>18. ASSUME NEW p \in Requests, Fail(p) PROVE EndedShutOut'
  BY <1>18 DEF Fail
<1>19. ASSUME NEW p \in Requests, NEW r \in Grants, RefreshLookup(p, r) PROVE EndedShutOut'
  BY <1>19 DEF RefreshLookup, Reserve
<1>20. ASSUME NEW p \in Requests, NEW g \in Grants, NEW o \in BearerOps,
              NEW r \in Grants \cup {None}, Present(p, g, o, r)
       PROVE  EndedShutOut'
  BY <1>20 DEF Present
<1>21. CASE Activate
  BY <1>21 DEF Activate
<1>22. CASE Delete
  BY <1>22 DEF Delete
<1>23. CASE Tick
  BY <1>23 DEF Tick
<1>24. CASE UNCHANGED vars
  BY <1>24 DEF vars
<1>25. QED
  BY <1>1, <1>2, <1>3, <1>4, <1>5, <1>6, <1>7, <1>8, <1>9, <1>10, <1>11, <1>12,
     <1>13, <1>14, <1>15, <1>16, <1>17, <1>18, <1>19, <1>20, <1>21, <1>22,
     <1>23, <1>24
     DEF Next, Begin, Continue

\* A request that bears an ended token is stopped by one of the two reads: if
\* the blacklist key does not stop it, the token was ended by a cutoff, and
\* that key is still there when the second read comes.
LEMMA BearerStep == ~RedisMayFail /\ TypeOK /\ Routed /\ EndedShutOut /\ Kept /\ InstantPast /\ StaleBearers /\ NoEntryOnceEnded /\ [Next]_vars => StaleBearers' /\ NoEntryOnceEnded'
<1> SUFFICES ASSUME ~RedisMayFail, TypeOK, Routed, EndedShutOut, Kept, InstantPast, StaleBearers, NoEntryOnceEnded, [Next]_vars PROVE StaleBearers' /\ NoEntryOnceEnded'
  OBVIOUS
<1> USE DEF TypeOK, InstantPast, EndedShutOut, Kept, CutOff, ShutOut, AccessExpiry,
            StaleBearers, NoEntryOnceEnded, Routed, Admitted, Goto, Finish, Dismiss, Drop, Delivered,
            tokenVars, redisVars, requestVars, historyVars
<1>1. ASSUME NEW p \in Requests, LoginLookup(p) PROVE StaleBearers' /\ NoEntryOnceEnded'
  BY <1>1 DEF LoginLookup, Reserve
<1>2. ASSUME NEW p \in Requests, Rotate(p) PROVE StaleBearers' /\ NoEntryOnceEnded'
  BY <1>2 DEF Rotate
<1>3. ASSUME NEW p \in Requests, CheckOwner(p) PROVE StaleBearers' /\ NoEntryOnceEnded'
  BY <1>3 DEF CheckOwner
<1>4. ASSUME NEW p \in Requests, Sign(p) PROVE StaleBearers' /\ NoEntryOnceEnded'
  BY <1>4 DEF Sign
<1>5. ASSUME NEW p \in Requests, Store(p) PROVE StaleBearers' /\ NoEntryOnceEnded'
  BY <1>5 DEF Store
<1>6. ASSUME NEW p \in Requests, CheckBlacklist(p) PROVE StaleBearers' /\ NoEntryOnceEnded'
  <2>1. CASE Finish(p)
    BY <1>6, <2>1 DEF CheckBlacklist
  <2>2. CASE ~Blacklisted(own[p]) /\ Goto(p, "cutoff")
    <3>1. stale[p] /\ now < AccessExpiry(own[p]) => CutOff(own[p])
      BY <1>6, <2>2 DEF CheckBlacklist, Blacklisted
    <3> QED
      BY <1>6, <2>2, <3>1 DEF CheckBlacklist
  <2> QED
    BY <1>6, <2>1, <2>2 DEF CheckBlacklist
<1>7. ASSUME NEW p \in Requests, CheckCutoff(p) PROVE StaleBearers' /\ NoEntryOnceEnded'
  <2>1. CASE Finish(p)
    BY <1>7, <2>1 DEF CheckCutoff
  <2>2. CASE ~BeforeCutoff(own[p])
    <3>1. now < AccessExpiry(own[p]) => ~stale[p]
      BY <1>7, <2>2 DEF CheckCutoff, BeforeCutoff
    <3> QED
      BY <1>7, <2>2, <3>1 DEF CheckCutoff
  <2> QED
    BY <1>7, <2>1, <2>2 DEF CheckCutoff
<1>8. ASSUME NEW p \in Requests, Serve(p) PROVE StaleBearers' /\ NoEntryOnceEnded'
  BY <1>8 DEF Serve
<1>9. ASSUME NEW p \in Requests, Logout(p) PROVE StaleBearers' /\ NoEntryOnceEnded'
  BY <1>9 DEF Logout, Blacklist, RemainingTtl, AccessExpiry
<1>10. ASSUME NEW p \in Requests, LogoutFind(p) PROVE StaleBearers' /\ NoEntryOnceEnded'
  BY <1>10 DEF LogoutFind
<1>11. ASSUME NEW p \in Requests, LogoutRevoke(p) PROVE StaleBearers' /\ NoEntryOnceEnded'
  BY <1>11 DEF LogoutRevoke
<1>12. ASSUME NEW p \in Requests, LogoutAll(p) PROVE StaleBearers' /\ NoEntryOnceEnded'
  <2>1. revokeBefore' = now /\ revokeUntil' = now + RevocationTtl
    BY <1>12 DEF LogoutAll, SetRevocationTime
  <2>2. now' = now /\ iat' = iat /\ stale' = stale /\ own' = own
    BY <1>12 DEF LogoutAll
  <2>3. \A g \in Grants : CutOff(g) => CutOff(g)'
    BY <2>1, <2>2, RevocationOutlivesAccess
  <2>4. StaleBearers'
    BY <1>12, <2>2, <2>3 DEF LogoutAll
  <2>5. NoEntryOnceEnded'
    BY <1>12, <2>2 DEF LogoutAll
  <2> QED
    BY <2>4, <2>5
<1>13. ASSUME NEW p \in Requests, ChangePassword(p) PROVE StaleBearers' /\ NoEntryOnceEnded'
  BY <1>13 DEF ChangePassword
<1>14. ASSUME NEW p \in Requests, RevokeAll(p) PROVE StaleBearers' /\ NoEntryOnceEnded'
  BY <1>14 DEF RevokeAll
<1>15. ASSUME NEW p \in Requests, Cut(p) PROVE StaleBearers' /\ NoEntryOnceEnded'
  <2>1. revokeBefore' = now /\ revokeUntil' = now + RevocationTtl
    BY <1>15 DEF Cut, SetRevocationTime
  <2>2. now' = now /\ iat' = iat
    BY <1>15 DEF Cut
  <2>3. \A g \in Grants : CutOff(g) => CutOff(g)'
    BY <2>1, <2>2, RevocationOutlivesAccess
  <2>4. StaleBearers'
    BY <1>15, <2>2, <2>3 DEF Cut
  <2>5. NoEntryOnceEnded'
    BY <1>15, <2>2 DEF Cut
  <2> QED
    BY <2>4, <2>5
<1>16. ASSUME NEW p \in Requests, ResetPassword(p) PROVE StaleBearers' /\ NoEntryOnceEnded'
  BY <1>16 DEF ResetPassword
<1>17. ASSUME NEW p \in Requests, Suspend(p) PROVE StaleBearers' /\ NoEntryOnceEnded'
  BY <1>17 DEF Suspend
<1>18. ASSUME NEW p \in Requests, Fail(p) PROVE StaleBearers' /\ NoEntryOnceEnded'
  BY <1>18 DEF Fail
<1>19. ASSUME NEW p \in Requests, NEW r \in Grants, RefreshLookup(p, r) PROVE StaleBearers' /\ NoEntryOnceEnded'
  BY <1>19 DEF RefreshLookup, Reserve
<1>20. ASSUME NEW p \in Requests, NEW g \in Grants, NEW o \in BearerOps,
              NEW r \in Grants \cup {None}, Present(p, g, o, r)
       PROVE  StaleBearers' /\ NoEntryOnceEnded'
  BY <1>20 DEF Present
<1>21. CASE Activate
  BY <1>21 DEF Activate
<1>22. CASE Delete
  BY <1>22 DEF Delete
<1>23. CASE Tick
  BY <1>23 DEF Tick
<1>24. CASE UNCHANGED vars
  BY <1>24 DEF vars
<1>25. QED
  BY <1>1, <1>2, <1>3, <1>4, <1>5, <1>6, <1>7, <1>8, <1>9, <1>10, <1>11, <1>12,
     <1>13, <1>14, <1>15, <1>16, <1>17, <1>18, <1>19, <1>20, <1>21, <1>22,
     <1>23, <1>24
     DEF Next, Begin, Continue

-----------------------------------------------------------------------------
\* How often a refresh token is exchanged.  Nobody begins an exchange of a
\* token that has a successor, as that token is dead; so the successors and
\* the exchanges under way together never outnumber the requests.
Successors(r) == {g \in Grants : parent[g] = r}
Exchanging(r) == {p \in Requests : pc[p] \in {"rotate", "owner", "sign"} /\ body[p] = r}

ExchangesPromised ==
    \A r \in Grants :
        Cardinality(Successors(r)) + Cardinality(Exchanging(r)) <= Cardinality(Requests)

\* Both are finite, and a part is no larger than the whole.
LEMMA ExchangeSizes ==
    /\ \A S \in SUBSET Grants : IsFiniteSet(S) /\ Cardinality(S) \in Nat
    /\ \A S \in SUBSET Requests :
          /\ IsFiniteSet(S) /\ Cardinality(S) \in Nat
          /\ Cardinality(S) <= Cardinality(Requests)
    /\ Cardinality(Requests) \in Nat
BY FiniteAssumption, FS_Subset, FS_CardinalityType

\* The steps that issue nothing: no grant gets a parent and no request begins
\* an exchange.
Quiet ==
    /\ \A g \in Grants : parent'[g] \in {parent[g], None}
    /\ \A p \in Requests :
          pc'[p] \in {"rotate", "owner", "sign"} /\ body'[p] # None =>
              pc[p] \in {"rotate", "owner", "sign"} /\ body'[p] = body[p]

LEMMA QuietKeepsExchanges == ExchangesPromised /\ Quiet => ExchangesPromised'
<1> SUFFICES ASSUME ExchangesPromised, Quiet, NEW r \in Grants
             PROVE  Cardinality(Successors(r)') + Cardinality(Exchanging(r)') <= Cardinality(Requests)
  BY DEF ExchangesPromised
<1>1. r # None
  BY NoneAssumption
<1>2. Successors(r)' \subseteq Successors(r) /\ Exchanging(r)' \subseteq Exchanging(r)
  BY <1>1 DEF Quiet, Successors, Exchanging
<1>3. Successors(r) \in SUBSET Grants /\ Exchanging(r) \in SUBSET Requests
  BY DEF Successors, Exchanging
<1>4. /\ Cardinality(Successors(r)') <= Cardinality(Successors(r))
      /\ Cardinality(Exchanging(r)') <= Cardinality(Exchanging(r))
  BY <1>2, <1>3, ExchangeSizes, FS_Subset
<1>5. /\ Cardinality(Successors(r)') \in Nat /\ Cardinality(Successors(r)) \in Nat
      /\ Cardinality(Exchanging(r)') \in Nat /\ Cardinality(Exchanging(r)) \in Nat
      /\ Cardinality(Requests) \in Nat
  BY <1>2, <1>3, ExchangeSizes
<1>6. Cardinality(Successors(r)) + Cardinality(Exchanging(r)) <= Cardinality(Requests)
  BY DEF ExchangesPromised
<1> QED BY ONLY <1>4, <1>5, <1>6

\* Signing makes one successor, and ends one exchange of the same token.
LEMMA SignKeepsExchanges ==
    ASSUME TypeOK, ExchangesPromised, NEW p \in Requests, Sign(p), fresh[p] \in Grants
    PROVE  ExchangesPromised'
<1> SUFFICES ASSUME NEW r \in Grants
             PROVE  Cardinality(Successors(r)') + Cardinality(Exchanging(r)') <= Cardinality(Requests)
  BY DEF ExchangesPromised
<1>1. /\ pc[p] = "sign" /\ pc' = [pc EXCEPT ![p] = "store"] /\ body' = body
      /\ parent' = [parent EXCEPT ![fresh[p]] = body[p]]
  BY DEF Sign, Goto
<1>2. Successors(r) \in SUBSET Grants /\ Exchanging(r) \in SUBSET Requests
  BY DEF Successors, Exchanging
<1>3. Exchanging(r)' = Exchanging(r) \ {p}
  BY <1>1 DEF Exchanging, TypeOK
<1>4. Exchanging(r)' \in SUBSET Requests
  BY <1>2, <1>3
<1>5. Cardinality(Successors(r)) + Cardinality(Exchanging(r)) <= Cardinality(Requests)
  BY DEF ExchangesPromised
<1>6. CASE body[p] = r
  <2>1. Successors(r)' = Successors(r) \cup {fresh[p]}
    BY <1>1, <1>6 DEF Successors, TypeOK
  <2>2. /\ Cardinality(Successors(r)') \in Nat
        /\ Cardinality(Successors(r)') <= Cardinality(Successors(r)) + 1
    <3>1. /\ IsFiniteSet(Successors(r)) /\ Cardinality(Successors(r)) \in Nat
          /\ Successors(r)' \in SUBSET Grants
      BY <2>1, <1>2, ExchangeSizes
    <3>2. CASE fresh[p] \in Successors(r)
      <4>1. Successors(r)' = Successors(r)
        BY <2>1, <3>2
      <4> QED BY <3>1, <4>1
    <3>3. CASE fresh[p] \notin Successors(r)
      <4>1. Cardinality(Successors(r) \cup {fresh[p]}) = Cardinality(Successors(r)) + 1
        BY <3>1, <3>3, FS_AddElement
      <4> QED BY <2>1, <3>1, <4>1
    <3> QED BY <3>2, <3>3
  <2>3. p \in Exchanging(r)
    BY <1>1, <1>6 DEF Exchanging
  <2>4. Cardinality(Exchanging(r)') = Cardinality(Exchanging(r)) - 1
    BY <1>2, <1>3, <2>3, ExchangeSizes, FS_RemoveElement
  <2>5. /\ Cardinality(Successors(r)) \in Nat /\ Cardinality(Exchanging(r)) \in Nat
        /\ Cardinality(Requests) \in Nat
    BY <1>2, ExchangeSizes
  <2> QED BY ONLY <1>5, <2>2, <2>4, <2>5
<1>7. CASE body[p] # r
  <2>1. Successors(r)' \subseteq Successors(r) /\ Exchanging(r)' \subseteq Exchanging(r)
    BY <1>1, <1>3, <1>7 DEF Successors, TypeOK
  <2>2. /\ Cardinality(Successors(r)') <= Cardinality(Successors(r))
        /\ Cardinality(Exchanging(r)') <= Cardinality(Exchanging(r))
    BY <2>1, <1>2, ExchangeSizes, FS_Subset
  <2>3. /\ Cardinality(Successors(r)') \in Nat /\ Cardinality(Successors(r)) \in Nat
        /\ Cardinality(Exchanging(r)') \in Nat /\ Cardinality(Exchanging(r)) \in Nat
        /\ Cardinality(Requests) \in Nat
    BY <2>1, <1>2, ExchangeSizes
  <2> QED BY ONLY <1>5, <2>2, <2>3
<1> QED BY <1>6, <1>7

\* A token is exchanged only while it is live, and has no successor then.
LEMMA LookupKeepsExchanges ==
    ASSUME TypeOK, RotationRetiresParent, ExchangesPromised,
           NEW p \in Requests, NEW t \in Grants, RefreshLookup(p, t)
    PROVE  ExchangesPromised'
<1> SUFFICES ASSUME NEW r \in Grants
             PROVE  Cardinality(Successors(r)') + Cardinality(Exchanging(r)') <= Cardinality(Requests)
  BY DEF ExchangesPromised
<1>1. /\ refresh[t] = "live" /\ parent' = parent
      /\ pc' = [pc EXCEPT ![p] = "rotate"] /\ body' = [body EXCEPT ![p] = t]
  BY DEF RefreshLookup, Goto
<1>2. Successors(r) \in SUBSET Grants /\ Exchanging(r) \in SUBSET Requests
  BY DEF Successors, Exchanging
<1>3. Successors(r)' = Successors(r) /\ Exchanging(r)' \in SUBSET Requests
  BY <1>1 DEF Successors, Exchanging
<1>4. CASE r = t
  <2>1. Successors(r) = {}
    BY <1>1, <1>4, NoneAssumption DEF Successors, RotationRetiresParent
  <2>2. Cardinality(Successors(r)') = 0
    BY <1>3, <2>1, FS_EmptySet
  <2>3. /\ Cardinality(Exchanging(r)') \in Nat /\ Cardinality(Requests) \in Nat
        /\ Cardinality(Exchanging(r)') <= Cardinality(Requests)
    BY <1>3, ExchangeSizes
  <2> QED BY ONLY <2>2, <2>3
<1>5. CASE r # t
  <2>1. Exchanging(r)' \subseteq Exchanging(r)
    BY <1>1, <1>5 DEF Exchanging, TypeOK
  <2>2. Cardinality(Exchanging(r)') <= Cardinality(Exchanging(r))
    BY <2>1, <1>2, ExchangeSizes, FS_Subset
  <2>3. /\ Cardinality(Successors(r)') = Cardinality(Successors(r))
        /\ Cardinality(Successors(r)) \in Nat /\ Cardinality(Requests) \in Nat
        /\ Cardinality(Exchanging(r)') \in Nat /\ Cardinality(Exchanging(r)) \in Nat
    BY <1>2, <1>3, ExchangeSizes
  <2>4. Cardinality(Successors(r)) + Cardinality(Exchanging(r)) <= Cardinality(Requests)
    BY DEF ExchangesPromised
  <2> QED BY ONLY <2>2, <2>3, <2>4
<1> QED BY <1>4, <1>5

LEMMA ExchangesStep ==
    TypeOK /\ Routed /\ FreshOwned /\ RotationRetiresParent /\ ExchangesPromised /\ [Next]_vars
    => ExchangesPromised'
<1> SUFFICES ASSUME TypeOK, Routed, FreshOwned, RotationRetiresParent, ExchangesPromised, [Next]_vars
             PROVE  ExchangesPromised'
  OBVIOUS
<1>1. ASSUME NEW p \in Requests, Sign(p) PROVE ExchangesPromised'
  <2>1. fresh[p] \in Grants
    BY <1>1 DEF Sign, FreshOwned, TypeOK, Issuing
  <2> QED BY <1>1, <2>1, SignKeepsExchanges
<1>2. ASSUME NEW p \in Requests, NEW r \in Grants, RefreshLookup(p, r) PROVE ExchangesPromised'
  BY <1>2, LookupKeepsExchanges
<1> USE DEF Quiet, TypeOK, Goto, tokenVars, redisVars, requestVars, historyVars
<1>3. ASSUME NEW p \in Requests, LoginLookup(p) PROVE Quiet
  <2>1. body[p] = None
    BY <1>3 DEF LoginLookup, Routed, Issuing
  <2> QED BY <1>3, <2>1 DEF LoginLookup, Reserve
<1>4. ASSUME NEW p \in Requests,
             Rotate(p) \/ CheckOwner(p) \/ Store(p) \/ Fail(p)
      PROVE  Quiet
  BY <1>4 DEF Rotate, CheckOwner, Store, Fail, Finish, Dismiss, Drop
<1>5. ASSUME NEW p \in Requests,
             CheckBlacklist(p) \/ Serve(p) \/ Logout(p) \/ LogoutFind(p) \/ LogoutRevoke(p)
      PROVE  Quiet
  BY <1>5 DEF CheckBlacklist, Serve, Logout, LogoutFind, LogoutRevoke, Finish, Dismiss
<1>6. ASSUME NEW p \in Requests, CheckCutoff(p) PROVE Quiet
  BY <1>6 DEF CheckCutoff, Finish, Dismiss, Routed, BearerOps
<1>7. ASSUME NEW p \in Requests,
             LogoutAll(p) \/ ChangePassword(p) \/ RevokeAll(p) \/ Cut(p)
                \/ ResetPassword(p) \/ Suspend(p)
      PROVE  Quiet
  BY <1>7 DEF LogoutAll, ChangePassword, RevokeAll, Cut, ResetPassword, Suspend, Finish, Dismiss
<1>8. ASSUME NEW p \in Requests, NEW g \in Grants, NEW o \in BearerOps,
             NEW r \in Grants \cup {None}, Present(p, g, o, r)
      PROVE  Quiet
  BY <1>8 DEF Present
<1>9. ASSUME Activate \/ Delete \/ Tick \/ UNCHANGED vars PROVE Quiet
  BY <1>9 DEF Activate, Delete, Tick, vars
<1> HIDE DEF Quiet, TypeOK, Goto, tokenVars, redisVars, requestVars, historyVars
<1>10. Quiet => ExchangesPromised'
  BY QuietKeepsExchanges
<1> QED
  BY <1>1, <1>2, <1>3, <1>4, <1>5, <1>6, <1>7, <1>8, <1>9, <1>10 DEF Next, Begin, Continue

-----------------------------------------------------------------------------
\* The theorems.

\* The types, the routing of requests and the fate of exchanged tokens hold
\* together in every reachable state.
LEMMA RotationInvariant == Spec => []RotationInv
<1>1. RotationInv /\ [Next]_vars => RotationInv'
  BY TypeStep, FreshStep, BodyStep, ParentStep DEF RotationInv
<1>2. QED
  BY <1>1, RotationInit, PTL DEF Spec

\* Every variable keeps its type: in particular no key is written with a
\* negative lifetime and no request is routed to a handler that is not there.
THEOREM TypeCorrect == Spec => []TypeOK
<1>1. RotationInv => TypeOK
  BY DEF RotationInv
<1>2. QED
  BY <1>1, RotationInvariant, PTL

\* A refresh token that has been exchanged is dead before its successor
\* exists, whatever the interleaving, the failures and the Redis outages.
THEOREM RotationSafe == Spec => []RotationRetiresParent
<1>1. RotationInv => RotationRetiresParent
  BY DEF RotationInv
<1>2. QED
  BY <1>1, RotationInvariant, PTL

\* Overlapping exchanges of one refresh token may all succeed, but no more of
\* them than requests are served at once, ever: once one has got its tokens,
\* no other begins.
THEOREM ExchangesSafe == Spec => []SuccessorsBounded
<1>1. Init => ExchangesPromised
  <2> SUFFICES ASSUME Init, NEW r \in Grants
               PROVE  Cardinality(Successors(r)) + Cardinality(Exchanging(r)) <= Cardinality(Requests)
    BY DEF ExchangesPromised
  <2>1. Successors(r) = {} /\ Exchanging(r) = {}
    BY NoneAssumption DEF Init, Successors, Exchanging
  <2> QED BY <2>1, FS_EmptySet, ExchangeSizes
<1>2. RotationInv /\ ExchangesPromised /\ [Next]_vars => ExchangesPromised'
  BY ExchangesStep DEF RotationInv
<1>3. ExchangesPromised => SuccessorsBounded
  <2> SUFFICES ASSUME ExchangesPromised, NEW r \in Grants
               PROVE  Cardinality(Successors(r)) <= Cardinality(Requests)
    BY DEF SuccessorsBounded, Successors
  <2>1. Successors(r) \in SUBSET Grants /\ Exchanging(r) \in SUBSET Requests
    BY DEF Successors, Exchanging
  <2>2. /\ Cardinality(Successors(r)) \in Nat /\ Cardinality(Exchanging(r)) \in Nat
        /\ Cardinality(Requests) \in Nat
    BY <2>1, ExchangeSizes
  <2>3. Cardinality(Successors(r)) + Cardinality(Exchanging(r)) <= Cardinality(Requests)
    BY DEF ExchangesPromised
  <2> QED BY ONLY <2>2, <2>3
<1> QED
  BY <1>1, <1>2, <1>3, RotationInvariant, PTL DEF Spec

\* However many requests set it at once, an account's revocation instant only
\* moves forward.
THEOREM RevocationMonotone == Spec => RevocationNeverMovesBack
<1>1. Init => InstantPast
  BY DEF Init, InstantPast
<1>2. RotationInv /\ InstantPast /\ [Next]_vars => InstantPast'
  BY InstantStep DEF RotationInv
<1>3. RotationInv /\ InstantPast /\ [Next]_vars => [revokeBefore' >= revokeBefore]_vars
  BY InstantStep DEF RotationInv
<1>4. QED
  BY <1>1, <1>2, <1>3, RotationInvariant, PTL DEF Spec, RevocationNeverMovesBack

\* The instant on record, the keys and the bearers that have passed the door
\* hold together while Redis answers.
LEMMA EntryInvariant == ASSUME ~RedisMayFail PROVE Spec => [](RotationInv /\ EntryInv)
<1>1. Init => EntryInv
  BY DEF Init, EntryInv, InstantPast, EndedShutOut, StaleBearers, NoEntryOnceEnded
<1>2. RotationInv /\ EntryInv /\ [Next]_vars => EntryInv'
  BY ~RedisMayFail, DeliveredStays, InstantStep, EndedStep, BearerStep
     DEF RotationInv, EntryInv
<1>3. QED
  BY <1>1, <1>2, RotationInvariant, PTL DEF Spec

\* While Redis answers, an access token that a logout, a logout-all, a password
\* change or a suspension has ended is refused to the end of its life.
THEOREM EndedStaysRefused == ASSUME ~RedisMayFail PROVE Spec => []EndedRefused
<1>1. RotationInv /\ EntryInv => EndedRefused
  <2> SUFFICES ASSUME RotationInv, EntryInv, NEW g \in ended, now < AccessExpiry(g)
               PROVE  Refused(g)
    BY DEF EndedRefused
  <2>1. /\ now \in Nat /\ AccessExpiry(g) \in Nat
        /\ blacklist[g] \in Nat /\ revokeUntil \in Nat
    BY DEF RotationInv, TypeOK, AccessExpiry
  <2>2. ShutOut(g)
    BY DEF EntryInv, EndedShutOut
  <2> QED BY <2>1, <2>2 DEF ShutOut, CutOff, Refused, Blacklisted, BeforeCutoff
<1>2. QED
  BY <1>1, EntryInvariant, PTL

\* While Redis answers, nobody enters on an unexpired access token that had
\* been ended before it was presented.
THEOREM EntrySafe == ASSUME ~RedisMayFail PROVE Spec => []NoEntryOnceEnded
<1>1. EntryInv => NoEntryOnceEnded
  BY DEF EntryInv
<1>2. QED
  BY <1>1, EntryInvariant, PTL

=============================================================================
