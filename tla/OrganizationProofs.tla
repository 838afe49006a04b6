------------------------- MODULE OrganizationProofs -------------------------
(***************************************************************************)
(* Theorems about the parts of PlatformParts that belong to organizations  *)
(* and their administrators: secrets, members, the audit log and the       *)
(* notifications, for any number of requests, organizations, tokens,       *)
(* users, logs, plans and calls.  They are laid out as in PlatformProofs.  *)
(***************************************************************************)
EXTENDS PlatformParts, FiniteSetTheorems, WellFoundedInduction, TLAPS

-----------------------------------------------------------------------------
\* Secrets.  A request that has passed a test carries it for as long as it is
\* under way, so the right it read was there that many ticks ago at the most.
KeysInv ==
    /\ keyRow \in {"live", "expired", "gone"} /\ ownerActive \in BOOLEAN
    /\ keyPc \in [Handlers -> {"idle", "owner", "act"}]
    /\ keyFlight \in [Handlers -> 0..MaxFlight]
    /\ sinceValid \in 0..CR!Linger /\ sinceActive \in 0..CR!Linger
    /\ keyRow = "live" => sinceValid = 0
    /\ ownerActive => sinceActive = 0
    /\ \A p \in Handlers :
          /\ keyPc[p] \in {"owner", "act"} => sinceValid <= keyFlight[p]
          /\ keyPc[p] = "act" => sinceActive <= keyFlight[p]

LEMMA KeysStep == KeysInv /\ CR!Next => KeysInv'
<1> SUFFICES ASSUME KeysInv, CR!Next PROVE KeysInv'
  OBVIOUS
<1> USE KeyConstants
    DEF CR!CredentialsAssumption, KeysInv, CR!Linger, CR!Valid, CR!Goto, CR!rowVars, CR!SetRow
<1>1. ASSUME NEW p \in Handlers, CR!AuthenticateKey(p) PROVE KeysInv'
  BY <1>1 DEF CR!AuthenticateKey
<1>2. ASSUME NEW p \in Handlers, CR!AuthenticateSecret(p) PROVE KeysInv'
  BY <1>2 DEF CR!AuthenticateSecret
<1>3. ASSUME NEW p \in Handlers, CR!FindOwner(p) PROVE KeysInv'
  BY <1>3 DEF CR!FindOwner
<1>4. ASSUME NEW p \in Handlers, CR!Act(p) PROVE KeysInv'
  BY <1>4 DEF CR!Act
<1>5. ASSUME CR!CreateKey \/ CR!UpdateKey \/ CR!RevokeKey \/ CR!ExpireKey \/ CR!RegenerateSecret
      PROVE  KeysInv'
  BY <1>5 DEF CR!CreateKey, CR!UpdateKey, CR!RevokeKey, CR!ExpireKey, CR!RegenerateSecret
<1>6. ASSUME NEW on \in BOOLEAN, CR!SetActive(on) PROVE KeysInv'
  BY <1>6 DEF CR!SetActive
<1>7. CASE CR!Tick BY <1>7 DEF CR!Tick
<1> QED BY <1>1, <1>2, <1>3, <1>4, <1>5, <1>6, <1>7 DEF CR!Next

LEMMA KeysInvariant == PlatformSpec => []KeysInv
<1>1. PlatformInit => KeysInv
  BY KeyConstants DEF PlatformInit, CR!Init, KeysInv, CR!CredentialsAssumption, CR!Linger
<1>2. KeysInv /\ [PlatformNext]_platformVars => KeysInv'
  <2>1. KeysInv /\ UNCHANGED keyVars => KeysInv'
    BY DEF KeysInv, keyVars
  <2>2. [PlatformNext]_platformVars => CR!Next \/ UNCHANGED keyVars
    BY DEF PlatformNext, platformVars
  <2> QED BY <2>1, <2>2, KeysStep
<1> QED BY <1>1, <1>2, PTL DEF PlatformSpec

\* A step of a credential is one of each of the two rights.
LEMMA KeysRights ==
    KeysInv /\ KeysInv' /\ (CR!Next \/ UNCHANGED keyVars)
    => /\ [CR!SecretRight!Next]_(CR!SecretRight!vars)
       /\ [CR!OwnerRight!Next]_(CR!OwnerRight!vars)
<1> SUFFICES ASSUME KeysInv, KeysInv', CR!Next \/ UNCHANGED keyVars
             PROVE  /\ [CR!SecretRight!Next]_(CR!SecretRight!vars)
                    /\ [CR!OwnerRight!Next]_(CR!OwnerRight!vars)
  OBVIOUS
<1>1. CR!SecretRight!Within /\ CR!OwnerRight!Within
  BY KeyConstants
  DEF CR!CredentialsAssumption, KeysInv, CR!Linger, CR!Acting, CR!SecretRight!Within,
      CR!OwnerRight!Within
<1> DEFINE Right1 == \/ CR!SecretRight!Grant \/ CR!SecretRight!Withdraw
                     \/ CR!SecretRight!Pass \/ CR!SecretRight!Use
           Right2 == \/ CR!OwnerRight!Grant \/ CR!OwnerRight!Withdraw
                     \/ CR!OwnerRight!Pass \/ CR!OwnerRight!Use
<1>2. Right1 /\ Right2
  <2> USE KeyConstants
      DEF CR!CredentialsAssumption, KeysInv, CR!Linger, CR!Valid,
          CR!SecretRight!Grant, CR!SecretRight!Withdraw, CR!SecretRight!Pass, CR!SecretRight!Use,
          CR!OwnerRight!Grant, CR!OwnerRight!Withdraw, CR!OwnerRight!Pass, CR!OwnerRight!Use
  <2>1. ASSUME NEW p \in Handlers, \/ CR!AuthenticateKey(p) \/ CR!AuthenticateSecret(p)
                                   \/ CR!FindOwner(p) \/ CR!Act(p)
        PROVE  Right1 /\ Right2
    BY <2>1 DEF CR!AuthenticateKey, CR!AuthenticateSecret, CR!FindOwner, CR!Act, CR!rowVars
  <2>2. ASSUME CR!CreateKey \/ CR!UpdateKey \/ CR!RevokeKey \/ CR!ExpireKey \/ CR!RegenerateSecret
        PROVE  Right1 /\ Right2
    BY <2>2
    DEF CR!CreateKey, CR!UpdateKey, CR!RevokeKey, CR!ExpireKey, CR!RegenerateSecret, CR!SetRow
  <2>3. ASSUME NEW on \in BOOLEAN, CR!SetActive(on) PROVE Right1 /\ Right2
    BY <2>3 DEF CR!SetActive
  <2>4. CASE CR!Tick BY <2>4 DEF CR!Tick
  <2>5. CASE UNCHANGED keyVars BY <2>5 DEF keyVars
  <2> QED BY <2>1, <2>2, <2>3, <2>4, <2>5 DEF CR!Next
<1> QED BY <1>1, <1>2 DEF CR!SecretRight!Next, CR!OwnerRight!Next

\* However many requests come with a secret at once, one that was revoked,
\* replaced or has expired, or whose owner was suspended, is used only by
\* those that were being served.
THEOREM SecretsLapse == PlatformSpec => SecretLapses
<1>1. PlatformInit => CR!SecretRight!Init /\ CR!OwnerRight!Init
  BY DEF PlatformInit, CR!Init, CR!SecretRight!Init, CR!OwnerRight!Init, CR!Valid, CR!Acting
<1>2. KeysInv /\ KeysInv' /\ [PlatformNext]_platformVars
      => /\ [CR!SecretRight!Next]_(CR!SecretRight!vars)
         /\ [CR!OwnerRight!Next]_(CR!OwnerRight!vars)
  <2>1. [PlatformNext]_platformVars => CR!Next \/ UNCHANGED keyVars
    BY DEF PlatformNext, platformVars
  <2> QED BY <2>1, KeysRights
<1> QED
  BY <1>1, <1>2, KeysInvariant, PTL
  DEF PlatformSpec, SecretLapses, CR!SecretLapses, CR!SecretRight!Spec, CR!OwnerRight!Spec

-----------------------------------------------------------------------------
\* Members.  The time since somebody administered anything is the least of the
\* times since he administered each organization.
LEMMA LessThan == OpToRel(<, Nat) = {ss \in Nat \X Nat : ss[1] < ss[2]}
BY DEF OpToRel

LEMMA SmallestIn ==
    ASSUME NEW S, S \subseteq Nat, S # {}
    PROVE  \E n \in S : \A m \in S : n <= m
<1>1. PICK n \in S : \A m \in S : ~(<<m, n>> \in OpToRel(<, Nat))
  BY NatLessThanWellFounded, WFMin
<1>2. \A m \in S : ~(m < n)
  BY <1>1, LessThan
<1> QED BY <1>2

Least(f) == CHOOSE n \in {f[o] : o \in Orgs} : \A o \in Orgs : n <= f[o]

LEMMA LeastIs ==
    ASSUME NEW f, \A o \in Orgs : f[o] \in Nat
    PROVE  /\ Least(f) \in Nat
           /\ \E o \in Orgs : Least(f) = f[o]
           /\ \A o \in Orgs : Least(f) <= f[o]
<1> DEFINE S == {f[o] : o \in Orgs}
<1>1. S \subseteq Nat /\ S # {}
  BY AccessConstants DEF OA!AccessAssumption
<1>2. PICK n \in S : \A m \in S : n <= m
  BY <1>1, SmallestIn
<1>3. \A o \in Orgs : n <= f[o]
  BY <1>2
<1>4. Least(f) \in S /\ \A o \in Orgs : Least(f) <= f[o]
  BY <1>2, <1>3 DEF Least
<1> QED BY <1>1, <1>4

\* A token lives, and a login takes, no longer than the time since somebody
\* administered what they hand on.
MembersInv ==
    /\ member \in [Orgs -> OA!Roles]
    /\ claim \in [Tokens -> OA!Roles] /\ left \in [Tokens -> 0..Ttl]
    /\ rolePc \in [Handlers -> {"idle", "sign"}]
    /\ read \in [Handlers -> OA!Roles] /\ flight \in [Handlers -> 0..MaxFlight]
    /\ since \in [Orgs -> 0..OA!Linger]
    /\ \A o \in Orgs : member[o] = "ADMIN" => since[o] = 0
    /\ \A p \in Handlers :
          rolePc[p] = "sign" /\ read[p] = "ADMIN" => \E o \in Orgs : since[o] <= flight[p]
    /\ \A t \in Tokens :
          OA!Admits(t) => \E o \in Orgs : since[o] + left[t] <= OA!Linger

LEMMA MembersStep == MembersInv /\ OA!Next => MembersInv'
<1> SUFFICES ASSUME MembersInv, OA!Next PROVE MembersInv'
  OBVIOUS
<1> USE AccessConstants
    DEF OA!AccessAssumption, MembersInv, OA!Linger, OA!Roles, OA!Admits, OA!tokenVars,
        OA!requestVars
<1>1. ASSUME NEW p \in Handlers, OA!FindMember(p) PROVE MembersInv'
  <2>1. PICK r \in OA!RolesFound : read' = [read EXCEPT ![p] = r]
    BY <1>1 DEF OA!FindMember
  <2>2. r \in OA!Roles /\ (r = "ADMIN" => \E o \in Orgs : member[o] = "ADMIN")
    BY DEF OA!RolesFound, OA!Memberships
  <2>3. r = "ADMIN" => \E o \in Orgs : since[o] <= flight[p]
    BY <2>2
  <2> QED BY <1>1, <2>1, <2>2, <2>3 DEF OA!FindMember
<1>2. ASSUME NEW p \in Handlers, OA!Sign(p) PROVE MembersInv'
  <2>1. PICK t \in Tokens : /\ claim' = [claim EXCEPT ![t] = read[p]]
                            /\ left' = [left EXCEPT ![t] = Ttl]
    BY <1>2 DEF OA!Sign
  <2>2. read[p] = "ADMIN" => \E o \in Orgs : since[o] + Ttl <= OA!Linger
    BY <1>2 DEF OA!Sign
  <2> QED BY <1>2, <2>1, <2>2 DEF OA!Sign
<1>3. ASSUME NEW o \in Orgs, OA!RemoveMember(o) PROVE MembersInv'
  BY <1>3 DEF OA!RemoveMember
<1>4. ASSUME NEW o \in Orgs, NEW r \in OA!Roles \ {"none"}, OA!AddMember(o, r) PROVE MembersInv'
  BY <1>4 DEF OA!AddMember
<1>5. CASE OA!Tick
  <2>1. /\ member' = member /\ rolePc' = rolePc /\ read' = read
        /\ claim' \in [Tokens -> OA!Roles] /\ left' \in [Tokens -> 0..Ttl]
        /\ flight' \in [Handlers -> 0..MaxFlight] /\ since' \in [Orgs -> 0..OA!Linger]
        /\ \A o \in Orgs : since'[o] <= since[o] + 1 /\ (member[o] = "ADMIN" => since'[o] = 0)
    <3>1. member' = member /\ rolePc' = rolePc /\ read' = read BY <1>5 DEF OA!Tick
    <3>2. claim' \in [Tokens -> OA!Roles] BY <1>5 DEF OA!Tick
    <3>3. left' \in [Tokens -> 0..Ttl] BY <1>5 DEF OA!Tick
    <3>4. flight' \in [Handlers -> 0..MaxFlight] BY <1>5 DEF OA!Tick
    <3>5. since' \in [Orgs -> 0..OA!Linger] BY <1>5 DEF OA!Tick
    <3>6. \A o \in Orgs : since'[o] <= since[o] + 1 /\ (member[o] = "ADMIN" => since'[o] = 0)
      BY <1>5 DEF OA!Tick
    <3> QED BY <3>1, <3>2, <3>3, <3>4, <3>5, <3>6
  <2>2. ASSUME NEW p \in Handlers, rolePc[p] = "sign", read[p] = "ADMIN"
        PROVE  \E o \in Orgs : since'[o] <= flight'[p]
    BY <1>5, <2>1, <2>2 DEF OA!Tick
  <2>3. ASSUME NEW t \in Tokens, left'[t] > 0, claim'[t] = "ADMIN"
        PROVE  \E o \in Orgs : since'[o] + left'[t] <= OA!Linger
    <3>1. left[t] > 1 /\ left'[t] = left[t] - 1 /\ claim[t] = "ADMIN"
      BY <1>5, <2>3 DEF OA!Tick
    <3>2. PICK o \in Orgs : since[o] + left[t] <= OA!Linger
      BY <3>1
    <3> QED BY <2>1, <3>1, <3>2
  <2> QED BY <2>1, <2>2, <2>3
<1> QED BY <1>1, <1>2, <1>3, <1>4, <1>5 DEF OA!Next

LEMMA MembersInvariant == PlatformSpec => []MembersInv
<1>1. PlatformInit => MembersInv
  BY AccessConstants
  DEF PlatformInit, OA!Init, MembersInv, OA!AccessAssumption, OA!Linger, OA!Roles, OA!Admits
<1>2. MembersInv /\ [PlatformNext]_platformVars => MembersInv'
  <2>1. MembersInv /\ UNCHANGED memberVars => MembersInv'
    BY DEF MembersInv, memberVars, OA!Admits
  <2>2. [PlatformNext]_platformVars => OA!Next \/ UNCHANGED memberVars
    BY DEF PlatformNext, platformVars
  <2> QED BY <2>1, <2>2, MembersStep
<1> QED BY <1>1, <1>2, PTL DEF PlatformSpec

\* A step of the members is one of the right to administer.
LEMMA MembersRight ==
    MembersInv /\ MembersInv' /\ (OA!Next \/ UNCHANGED memberVars)
    => [OA!Right!Next]_(OA!Right!vars)
<1> SUFFICES ASSUME MembersInv, MembersInv', OA!Next \/ UNCHANGED memberVars
             PROVE  [OA!Right!Next]_(OA!Right!vars)
  OBVIOUS
<1> DEFINE Holds == \E o \in Orgs : member[o] = "ADMIN"
           Usable == \E t \in Tokens : OA!Admits(t)
<1>1. /\ \A o \in Orgs : since[o] \in Nat /\ since'[o] \in Nat
      /\ \A o \in Orgs : since[o] <= OA!Linger /\ since'[o] <= OA!Linger
      /\ OA!Linger \in Nat
  BY AccessConstants DEF MembersInv, OA!Linger, OA!AccessAssumption
<1>2. /\ Least(since) \in Nat
      /\ \E o \in Orgs : Least(since) = since[o]
      /\ \A o \in Orgs : Least(since) <= since[o]
  BY <1>1, LeastIs
<1>3. /\ Least(since') \in Nat
      /\ \E o \in Orgs : Least(since') = since'[o]
      /\ \A o \in Orgs : Least(since') <= since'[o]
  BY <1>1, LeastIs
<1>4. Usable' => Least(since') < OA!Linger
  <2> SUFFICES ASSUME NEW t \in Tokens, OA!Admits(t)' PROVE Least(since') < OA!Linger
    OBVIOUS
  <2>1. PICK o \in Orgs : since'[o] + left'[t] <= OA!Linger
    BY DEF MembersInv
  <2>2. left'[t] \in Nat /\ left'[t] > 0
    BY AccessConstants DEF MembersInv, OA!Admits, OA!AccessAssumption
  <2> QED BY <1>1, <1>3, <2>1, <2>2
<1>5. /\ Holds => Least(since) = 0
      /\ Holds' => Least(since') = 0
  BY <1>1, <1>2, <1>3 DEF MembersInv
<1> DEFINE Change == \/ Holds' /\ Least(since') = 0
                     \/ Holds /\ ~Holds' /\ Least(since') = 0
                     \/ /\ ~Holds /\ ~Holds' /\ Least(since) < OA!Linger
                        /\ Least(since') = Least(since) + 1
                     \/ (Holds' <=> Holds) /\ Least(since') = Least(since)
<1>6. ASSUME OA!Tick PROVE Change
  <2>1. Holds' <=> Holds BY <1>6 DEF OA!Tick
  <2>2. CASE Holds BY <1>5, <2>1, <2>2
  <2>3. CASE ~Holds
    <3>1. \A o \in Orgs : since'[o] = IF since[o] = OA!Linger THEN since[o] ELSE since[o] + 1
      BY <1>6, <2>3 DEF OA!Tick, MembersInv
    <3>2. \/ Least(since') = Least(since) + 1 /\ Least(since) < OA!Linger
          \/ Least(since') = Least(since)
      BY <1>1, <1>2, <1>3, <3>1
    <3> QED BY <2>1, <2>3, <3>2
  <2> QED BY <2>2, <2>3
<1>7. ASSUME NEW o \in Orgs, OA!RemoveMember(o) PROVE Change
  <2>1. Least(since') = Least(since) BY <1>7 DEF OA!RemoveMember
  <2>2. Holds' => Holds BY <1>7 DEF OA!RemoveMember, MembersInv
  <2> QED BY <1>5, <2>1, <2>2
<1>8. ASSUME NEW o \in Orgs, NEW r \in OA!Roles \ {"none"}, OA!AddMember(o, r) PROVE Change
  <2>1. CASE r = "ADMIN"
    <3>1. Holds' BY <1>8, <2>1 DEF OA!AddMember, MembersInv
    <3> QED BY <1>5, <3>1
  <2>2. CASE r # "ADMIN"
    <3>1. Least(since') = Least(since) BY <1>8, <2>2 DEF OA!AddMember, MembersInv
    <3>2. Holds' <=> Holds BY <1>8, <2>2 DEF OA!AddMember, MembersInv
    <3> QED BY <3>1, <3>2
  <2> QED BY <2>1, <2>2
<1>9. ASSUME \/ UNCHANGED memberVars
             \/ \E p \in Handlers : OA!FindMember(p) \/ OA!Sign(p)
      PROVE  Change
  BY <1>9 DEF memberVars, OA!FindMember, OA!Sign
<1>10. Change
  BY <1>6, <1>7, <1>8, <1>9 DEF OA!Next
<1> QED
  BY <1>4, <1>10
  DEF Change, Least, OA!Right!Next, OA!Right!vars, OA!Right!Within, OA!Right!Grant,
      OA!Right!Withdraw, OA!Right!Pass, OA!Right!Use

\* However many organizations, tokens and logins there are, who was removed from
\* the last organization he administered passes requireOrgAdmin no longer than
\* a token lives after its role was read.
THEOREM RoleLapses == PlatformSpec => AdminRightLapses
<1>1. PlatformInit => OA!Right!Init
  <2> SUFFICES ASSUME PlatformInit PROVE OA!Right!Init
    OBVIOUS
  <2>1. /\ \A o \in Orgs : member[o] = "none" /\ since[o] = OA!Linger
        /\ \A t \in Tokens : left[t] = 0
        /\ OA!Linger \in Nat
    BY AccessConstants DEF PlatformInit, OA!Init, OA!Linger, OA!AccessAssumption
  <2>2. Least(since) = OA!Linger
    BY <2>1, LeastIs
  <2>3. ~(\E o \in Orgs : member[o] = "ADMIN") /\ ~(\E t \in Tokens : OA!Admits(t))
    BY <2>1 DEF OA!Admits
  <2> QED BY <2>2, <2>3 DEF OA!Right!Init, Least
<1>2. MembersInv /\ MembersInv' /\ [PlatformNext]_platformVars => [OA!Right!Next]_(OA!Right!vars)
  <2>1. [PlatformNext]_platformVars => OA!Next \/ UNCHANGED memberVars
    BY DEF PlatformNext, platformVars
  <2> QED BY <2>1, MembersRight
<1> QED
  BY <1>1, <1>2, MembersInvariant, PTL
  DEF PlatformSpec, AdminRightLapses, OA!AdminRightLapses, OA!Right!Spec

-----------------------------------------------------------------------------
\* The audit log.  Whoever the cleanup has found had, at some time of this run,
\* the plan it is about to treat.
AuditInv ==
    /\ exists \subseteq Users
    /\ plan \in [Users -> Nat] /\ least \in [Users -> Nat]
    /\ age \in [Logs -> Int] /\ log \in [Logs -> {"unwritten", "kept", "purged"}]
    /\ found \subseteq Users
    /\ \A u \in Users : least[u] <= plan[u]
    /\ \A u \in found : AR!Min(plansLeft) \in Nat /\ least[u] <= AR!Min(plansLeft)

LEMMA GreatestIn ==
    ASSUME NEW S, S \subseteq Nat, S # {}, IsFiniteSet(S)
    PROVE  \E n \in S : \A m \in S : m <= n
<1> DEFINE HasGreatest(U) == \E n \in U : \A m \in U : m <= n
           T == {U \in FiniteSubsetsOf(S) : U # {} /\ ~HasGreatest(U)}
<1> SUFFICES ASSUME T # {} PROVE FALSE
  BY DEF FiniteSubsetsOf
<1>1. PICK U \in T : \A V \in T : ~(<<V, U>> \in StrictSubsetOrdering(S))
  <2>1. T \subseteq FiniteSubsetsOf(S)
    OBVIOUS
  <2> HIDE DEF T
  <2> QED BY <2>1, FS_StrictSubsetOrderingWellFounded, WFMin
<1>2. U \subseteq S /\ IsFiniteSet(U) /\ U # {} /\ ~HasGreatest(U)
  BY DEF FiniteSubsetsOf
<1>3. PICK x \in U : TRUE
  BY <1>2
<1>4. CASE U = {x} BY <1>2, <1>4
<1>5. CASE U # {x}
  <2> DEFINE V == U \ {x}
  <2>1. V # {} /\ V \subseteq S /\ IsFiniteSet(V)
    BY <1>2, <1>5, FS_RemoveElement
  <2>2. <<V, U>> \in StrictSubsetOrdering(S)
    BY <1>2, <1>3 DEF StrictSubsetOrdering
  <2>3. PICK n \in V : \A m \in V : m <= n
    BY <1>1, <2>1, <2>2 DEF FiniteSubsetsOf
  <2>4. n \in Nat /\ x \in Nat
    BY <1>2, <2>1
  <2>5. CASE x <= n BY <1>2, <2>3, <2>5
  <2>6. CASE n <= x
    <3>1. \A m \in U : m <= x BY <1>2, <2>3, <2>4, <2>6
    <3> QED BY <1>2, <3>1
  <2> QED BY <2>4, <2>5, <2>6
<1> QED BY <1>4, <1>5

LEMMA LongestIs == AR!Longest \in Nat
<1>1. /\ Plans \subseteq Nat /\ Plans # {} /\ IsFiniteSet(Plans)
  BY AuditConstants DEF AR!RetentionAssumption, AR!IsFiniteSet, IsFiniteSet
<1>2. \E n \in Plans : \A m \in Plans : n >= m
  BY <1>1, GreatestIn
<1> QED BY <1>1, <1>2 DEF AR!Longest, AR!Max

LEMMA LesserOfTwo ==
    ASSUME NEW m \in Int, NEW n \in Int
    PROVE  AR!Min({m, n}) \in {m, n} /\ AR!Min({m, n}) <= m /\ AR!Min({m, n}) <= n
<1>1. \E k \in {m, n} : \A l \in {m, n} : k <= l
  <2>1. CASE m <= n BY <2>1
  <2>2. CASE n <= m BY <2>2
  <2> QED BY <2>1, <2>2
<1> QED BY <1>1 DEF AR!Min

LEMMA AuditStep == AuditInv /\ AR!Next => AuditInv'
<1> SUFFICES ASSUME AuditInv, AR!Next PROVE AuditInv'
  OBVIOUS
<1>0. Plans \subseteq Nat BY AuditConstants DEF AR!RetentionAssumption
<1> USE <1>0 DEF AuditInv, AR!userVars, AR!logVars, AR!runVars, AR!NextPlan, AR!Disturb
<1>1. CASE AR!FindUsers BY <1>1 DEF AR!FindUsers
<1>2. ASSUME NEW ls, AR!Purge(ls) PROVE /\ age' \in [Logs -> Int]
                                             /\ log' \in [Logs -> {"unwritten", "kept", "purged"}]
  BY <1>2 DEF AR!Purge
<1>3. CASE AR!DeleteLogs BY <1>2, <1>3 DEF AR!DeleteLogs
<1>4. CASE AR!DeleteOrphans BY <1>2, <1>4 DEF AR!DeleteOrphans
<1>5. CASE AR!QueryFails BY <1>5 DEF AR!QueryFails
<1>6. CASE AR!Restart BY <1>6 DEF AR!Restart
<1>7. ASSUME NEW u \in Users, NEW days \in Plans, AR!SetPlan(u, days) PROVE AuditInv'
  <2> DEFINE k == AR!Min({least[u], days})
  <2>1. least[u] \in Nat /\ days \in Nat
    OBVIOUS
  <2>2. least[u] \in Int /\ days \in Int
    BY <2>1
  <2>3. k \in {least[u], days} /\ k <= least[u] /\ k <= days
    BY ONLY <2>2, LesserOfTwo
  <2>4. least' = [least EXCEPT ![u] = k] /\ plan' = [plan EXCEPT ![u] = days]
        /\ UNCHANGED <<exists, AR!logVars, AR!runVars>>
    BY <1>7 DEF AR!SetPlan
  <2> HIDE DEF k
  <2>5. k \in Nat /\ k <= least[u] /\ k <= days
    BY <2>1, <2>3
  <2> QED BY <2>4, <2>5
<1>8. ASSUME NEW u \in Users, AR!DeleteUser(u) PROVE AuditInv'
  BY <1>8 DEF AR!DeleteUser
<1>9. ASSUME NEW l \in Logs, NEW us, AR!Log(l, us) PROVE AuditInv'
  BY <1>9 DEF AR!Log
<1>10. CASE AR!Tick
  <2>1. ASSUME NEW l \in Logs PROVE AR!Min({age[l] + 1, AR!Longest + 1}) \in Int
    <3>1. age[l] + 1 \in Int /\ AR!Longest + 1 \in Int BY LongestIs
    <3>2. AR!Min({age[l] + 1, AR!Longest + 1}) \in {age[l] + 1, AR!Longest + 1}
      BY ONLY <3>1, LesserOfTwo
    <3> QED BY <3>1, <3>2
  <2> QED BY <1>10, <2>1 DEF AR!Tick
<1> QED
  BY <1>1, <1>3, <1>4, <1>5, <1>6, <1>7, <1>8, <1>9, <1>10 DEF AR!Next, AR!Cleanup

LEMMA AuditInvariant == PlatformSpec => []AuditInv
<1>1. PlatformInit => AuditInv
  <2>1. Plans \subseteq Nat
    BY AuditConstants DEF AR!RetentionAssumption
  <2>2. AR!Init => plan \in [Users -> Nat] /\ least = plan
    BY <2>1 DEF AR!Init
  <2>3. plan \in [Users -> Nat] /\ least = plan => \A u \in Users : least[u] <= plan[u]
    OBVIOUS
  <2>4. AR!Init => AuditInv
    BY <2>2, <2>3 DEF AR!Init, AuditInv
  <2> QED BY <2>4 DEF PlatformInit
<1>2. AuditInv /\ [PlatformNext]_platformVars => AuditInv'
  <2>1. AuditInv /\ UNCHANGED auditVars => AuditInv'
    BY DEF AuditInv, auditVars
  <2>2. [PlatformNext]_platformVars => AR!Next \/ UNCHANGED auditVars
    BY DEF PlatformNext, platformVars
  <2> QED BY <2>1, <2>2, AuditStep
<1> QED BY <1>1, <1>2, PTL DEF PlatformSpec

\* Whatever the plans, and whoever changes them or is deleted in the middle of a
\* run, no entry is purged before a retention its user had during that run.
THEOREM PurgesInTime == PlatformSpec => NothingPurgedEarly
<1>1. ASSUME AuditInv, [PlatformNext]_platformVars, NEW l \in Logs,
             log[l] = "kept", log'[l] = "purged"
      PROVE  IF owner[l] = {} THEN age[l] > AR!Longest
             ELSE \E u \in owner[l] : age[l] > least[u]
  <2>1. AR!Next
    <3>1. AR!Next \/ UNCHANGED auditVars BY <1>1 DEF PlatformNext, platformVars
    <3>2. log' # log BY <1>1
    <3> QED BY <3>1, <3>2 DEF auditVars
  <2>2. AR!DeleteLogs \/ AR!DeleteOrphans
    BY <1>1, <2>1
    DEF AR!Next, AR!Cleanup, AR!FindUsers, AR!QueryFails, AR!Restart, AR!Tick, AR!DeleteUser,
        AR!SetPlan, AR!Log, AR!logVars, AuditInv
  <2>3. CASE AR!DeleteLogs
    <3>1. age[l] > AR!Min(plansLeft) /\ owner[l] \cap found # {}
      BY <1>1, <2>3 DEF AR!DeleteLogs, AR!Purge, AR!PastCutoff
    <3>2. PICK u \in owner[l] : u \in found
      BY <3>1
    <3>3. /\ AR!Min(plansLeft) \in Nat /\ least[u] <= AR!Min(plansLeft)
          /\ least[u] \in Nat /\ age[l] \in Int
      BY <1>1, <3>2 DEF AuditInv
    <3>4. age[l] > least[u]
      BY <3>1, <3>3
    <3> QED BY <3>2, <3>4
  <2>4. CASE AR!DeleteOrphans
    BY <1>1, <2>4 DEF AR!DeleteOrphans, AR!Purge, AR!PastCutoff
  <2> QED BY <2>2, <2>3, <2>4
<1>2. AuditInv /\ [PlatformNext]_platformVars =>
          [\A l \in Logs :
              log[l] = "kept" /\ log'[l] = "purged" =>
                  IF owner[l] = {} THEN age[l] > AR!Longest
                  ELSE \E u \in owner[l] : age[l] > least[u]]_(AR!vars)
  BY <1>1
<1> QED
  BY <1>2, AuditInvariant, PTL DEF PlatformSpec, NothingPurgedEarly, AR!NothingPurgedEarly

-----------------------------------------------------------------------------
\* Notifications.  A call has made no row and no mail before its insert, and
\* from then on a mail of each is sent or still to be sent; a dispatch found
\* only administrators who were there, so one it misses has overtaken it.
Counts == [Admins -> Nat]

NoticeInv(d) ==
    /\ call[d] = "new" => d \notin dispatched
    /\ call[d] = "lost" /\ d \in dispatched => d \in failed \cup overtaken
    /\ \A a \in Admins :
          /\ d \in dispatched => addressed[d][a] <= 1
          /\ d \in dispatched /\ call[d] = "create" /\ addressed[d][a] > 0
                => a \in admins \/ d \in overtaken
          /\ mails[d][a] + toMail[d][a] <= addressed[d][a]
          /\ call[d] \in {"mail", "done"} /\ a \in admins => rows[d][a] = addressed[d][a]
          /\ call[d] \in {"new", "create", "lost"} =>
                rows[d][a] = 0 /\ mails[d][a] = 0 /\ toMail[d][a] = 0

NoticesInv ==
    /\ subs \subseteq admins \X NO!Scopes /\ dispatched \subseteq Notices
    /\ call \in [Notices -> {"new", "create", "mail", "done", "lost"}]
    /\ addressed \in [Notices -> Counts] /\ toMail \in [Notices -> Counts]
    /\ rows \in [Notices -> Counts] /\ mails \in [Notices -> Counts]
    /\ \A d \in Notices : NoticeInv(d)

\* Both ways to name those to notify.
LEMMA AddressStep ==
    ASSUME NoticesInv, NEW d \in Notices, NEW names \in Counts, call[d] = "new",
           NO!Address(d, names),
           \/ dispatched' = dispatched
           \/ /\ dispatched' = dispatched \cup {d}
              /\ \A a \in Admins : names[a] <= 1 /\ (names[a] > 0 => a \in admins)
    PROVE  NoticesInv'
<1> USE DEF NoticesInv, Counts, NO!Address
<1>1. /\ addressed' \in [Notices -> Counts]
      /\ call' \in [Notices -> {"new", "create", "mail", "done", "lost"}]
      /\ dispatched' \subseteq Notices
  OBVIOUS
<1>2. NoticeInv(d)'
  <2>1. addressed'[d] = names /\ call'[d] \in {"create", "done"}
    OBVIOUS
  <2>2. call'[d] = "done" => \A a \in Admins : names[a] = 0
    BY DEF NO!Nobody
  <2>3. \A a \in Admins : rows[d][a] = 0 /\ mails[d][a] = 0 /\ toMail[d][a] = 0
    BY DEF NoticeInv
  <2>4. d \notin dispatched
    BY DEF NoticeInv
  <2> QED BY <2>1, <2>2, <2>3, <2>4 DEF NoticeInv
<1>3. ASSUME NEW e \in Notices, e # d PROVE NoticeInv(e)'
  <2>1. /\ addressed'[e] = addressed[e] /\ call'[e] = call[e]
        /\ e \in dispatched' <=> e \in dispatched
    BY <1>3
  <2> QED BY <2>1 DEF NoticeInv
<1> QED BY <1>1, <1>2, <1>3

LEMMA NoticesStep == NoticesInv /\ NO!Next => NoticesInv'
<1> SUFFICES ASSUME NoticesInv, NO!Next PROVE NoticesInv'
  OBVIOUS
<1> USE NoticeConstants DEF NO!NotificationsAssumption
<1>1. ASSUME NEW d \in Notices, NO!FindSubscribedAdminIds(d) PROVE NoticesInv'
  <2> DEFINE names == [a \in Admins |-> IF \E s \in NO!Scopes : <<a, s>> \in subs THEN 1 ELSE 0]
  <2>1. names \in Counts /\ \A a \in Admins : names[a] <= 1 /\ (names[a] > 0 => a \in admins)
    <3>1. names \in Counts BY DEF Counts
    <3>2. \A a \in Admins : (\E s \in NO!Scopes : <<a, s>> \in subs) => a \in admins
      BY DEF NoticesInv
    <3>3. \A a \in Admins : names[a] = IF \E s \in NO!Scopes : <<a, s>> \in subs THEN 1 ELSE 0
      OBVIOUS
    <3> HIDE DEF names
    <3>4. \A a \in Admins : names[a] <= 1 /\ (names[a] > 0 => a \in admins) BY <3>2, <3>3
    <3> QED BY <3>1, <3>4
  <2>2. call[d] = "new" /\ NO!Address(d, names) /\ dispatched' = dispatched \cup {d}
    BY <1>1 DEF NO!FindSubscribedAdminIds
  <2> HIDE DEF names
  <2> QED BY <2>1, <2>2, AddressStep
<1>2. ASSUME NEW d \in Notices, NEW names \in [Admins -> 0..MaxRepeat], NO!SendDirect(d, names)
      PROVE  NoticesInv'
  <2>1. names \in Counts
    BY DEF Counts
  <2> QED BY <1>2, <2>1, AddressStep DEF NO!SendDirect
<1> USE DEF NoticesInv, NoticeInv, Counts, NO!Nobody, NO!callVars
<1>3. ASSUME NEW d \in Notices, NO!CreateMany(d) PROVE NoticesInv'
  <2>1. call[d] = "create" /\ UNCHANGED <<admins, subs, dispatched, addressed, mails, failed, overtaken>>
    BY <1>3 DEF NO!CreateMany
  <2>2. ASSUME NEW e \in Notices, e # d PROVE NoticeInv(e)'
    <3>1. rows'[e] = rows[e] /\ toMail'[e] = toMail[e] /\ call'[e] = call[e]
      BY <1>3, <2>2 DEF NO!CreateMany
    <3> QED BY <2>1, <3>1
  <2>3. CASE \A a \in Admins : addressed[d][a] > 0 => a \in admins
    <3>1. rows'[d] = addressed[d] /\ toMail'[d] = addressed[d] /\ call'[d] = "mail"
      BY <1>3, <2>3 DEF NO!CreateMany
    <3>2. \A a \in Admins : mails[d][a] = 0 /\ addressed[d][a] \in Nat
      BY <2>1
    <3>3. NoticeInv(d)' BY <2>1, <3>1, <3>2
    <3>4. rows' \in [Notices -> Counts] /\ toMail' \in [Notices -> Counts]
          /\ call' \in [Notices -> {"new", "create", "mail", "done", "lost"}]
      BY <1>3, <2>3 DEF NO!CreateMany
    <3> QED BY <2>1, <2>2, <3>3, <3>4
  <2>4. CASE ~(\A a \in Admins : addressed[d][a] > 0 => a \in admins)
    <3>1. d \in dispatched => d \in overtaken
      BY <2>1, <2>4
    <3>2. call' = [call EXCEPT ![d] = "lost"] /\ UNCHANGED <<rows, toMail>>
      BY <1>3, <2>4 DEF NO!CreateMany
    <3>3. NoticeInv(d)' BY <2>1, <3>1, <3>2
    <3> QED BY <2>1, <2>2, <3>2, <3>3
  <2> QED BY <2>3, <2>4
<1>4. ASSUME NEW d \in Notices, NO!QueryFails(d) PROVE NoticesInv'
  <2>1. /\ failed' = failed \cup {d}
        /\ UNCHANGED <<admins, subs, dispatched, addressed, rows, mails, overtaken>>
    BY <1>4 DEF NO!QueryFails
  <2>2. CASE call[d] \in {"new", "create"}
    <3>1. call' = [call EXCEPT ![d] = "lost"] /\ UNCHANGED toMail
      BY <1>4, <2>2 DEF NO!QueryFails
    <3>2. NoticeInv(d)' BY <2>1, <2>2, <3>1
    <3>3. \A e \in Notices : e # d => NoticeInv(e)' BY <2>1, <3>1
    <3> QED BY <2>1, <3>1, <3>2, <3>3
  <2>3. CASE call[d] = "mail"
    <3>1. PICK a \in Admins : toMail[d][a] > 0 /\ toMail' = [toMail EXCEPT ![d][a] = @ - 1]
      BY <1>4, <2>3 DEF NO!QueryFails
    <3>2. toMail' \in [Notices -> Counts] /\ \A e \in Notices, b \in Admins : toMail'[e][b] <= toMail[e][b]
      BY <3>1
    <3>3. \/ call' = [call EXCEPT ![d] = "done"] \/ call' = [call EXCEPT ![d] = "mail"]
      BY <1>4, <2>3 DEF NO!QueryFails
    <3>4. \A e \in Notices : e # d => toMail'[e] = toMail[e]
      BY <3>1
    <3>5. NoticeInv(d)' BY <2>1, <2>3, <3>2, <3>3
    <3>6. ASSUME NEW e \in Notices, e # d PROVE NoticeInv(e)'
      <4>1. toMail'[e] = toMail[e] /\ call'[e] = call[e] BY <3>3, <3>4, <3>6
      <4>2. e \in failed => e \in failed' BY <2>1
      <4> QED BY <2>1, <4>1, <4>2
    <3> QED BY <2>1, <3>2, <3>3, <3>5, <3>6
  <2> QED BY <1>4, <2>2, <2>3 DEF NO!QueryFails
<1>5. ASSUME NEW d \in Notices, NEW a \in Admins, NO!SendEmailToAdmin(d, a) PROVE NoticesInv'
  BY <1>5 DEF NO!SendEmailToAdmin
<1>6. ASSUME NEW p, NEW as, NEW s, NO!FindMissing(p, as, s) PROVE NoticesInv'
  BY <1>6 DEF NO!FindMissing
<1>7. ASSUME NEW p, NO!InsertSubs(p) PROVE NoticesInv'
  BY <1>7 DEF NO!InsertSubs
<1>8. ASSUME NEW a, NEW ds, NO!MarkRead(a, ds) PROVE NoticesInv'
  BY <1>8 DEF NO!MarkRead
<1>9. ASSUME NEW a, NEW s, NO!DeleteSub(a, s) PROVE NoticesInv'
  BY <1>9 DEF NO!DeleteSub
<1>10. ASSUME NEW a \in Admins, NO!DeleteAdmin(a) PROVE NoticesInv'
  BY <1>10 DEF NO!DeleteAdmin
<1> QED
  BY <1>1, <1>2, <1>3, <1>4, <1>5, <1>6, <1>7, <1>8, <1>9, <1>10 DEF NO!Next

LEMMA NoticesInvariant == PlatformSpec => []NoticesInv
<1>1. NO!Init => NoticesInv
  BY DEF NO!Init, NoticesInv, NoticeInv, Counts, NO!Nobody
<1>2. NoticesInv /\ [PlatformNext]_platformVars => NoticesInv'
  <2>1. NoticesInv /\ UNCHANGED noticeVars => NoticesInv'
    BY DEF NoticesInv, NoticeInv, noticeVars
  <2>2. [PlatformNext]_platformVars => NO!Next \/ UNCHANGED noticeVars
    BY DEF PlatformNext, platformVars
  <2> QED BY <2>1, <2>2, NoticesStep
<1> QED BY <1>1, <1>2, PTL DEF PlatformSpec, PlatformInit

\* However many calls, administrators and subscriptions there are and whatever
\* fails, a call notifies everyone it names, or nobody, and mails nobody twice
\* for it.
THEOREM AllOrNobody == PlatformSpec => []NotifiesAllOrNobody
<1>1. NoticesInv => NotifiesAllOrNobody
  BY DEF NoticesInv, NoticeInv, Counts, NotifiesAllOrNobody, NO!NotifiesAllOrNobody
<1> QED BY <1>1, NoticesInvariant, PTL

\* However subscriptions, deletions and calls overlap, a dispatch loses its
\* event only to a deletion between its queries or to a query that failed.
THEOREM LossesExplained == PlatformSpec => []LostOnlyIfOvertaken
<1>1. NoticesInv => LostOnlyIfOvertaken
  BY DEF NoticesInv, NoticeInv, LostOnlyIfOvertaken, NO!LostOnlyIfOvertaken
<1> QED BY <1>1, NoticesInvariant, PTL

=============================================================================
