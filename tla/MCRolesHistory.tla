--------------------------- MODULE MCRolesHistory ---------------------------
\* RolePermissions with the tokens that were resolved before the features of
\* their role were last replaced.
EXTENDS RolePermissions

VARIABLE behind

HInit == Init /\ behind = {}

HNext ==
    /\ Next
    /\ behind' = behind \cup
          {t \in Tokens : /\ stage[t] # "none" /\ copy[t].role # None
                          /\ grants'[copy[t].role] # grants[copy[t].role]
                          /\ \E a \in Admins : SetRoleFeatures(a)}

HSpec == HInit /\ [][HNext]_<<vars, behind>>

\* "S2S token verify returns app-scoped permissions with stale detection": once
\* no change is under way, a token with the permissions that the role gave
\* before its features were replaced is reported as stale (or not accepted).
RoleChangeDetected ==
    Quiet => \A t \in behind :
        Accepted(t) /\ access = "active" /\ holds = copy[t].role => Stale(t)

=============================================================================
