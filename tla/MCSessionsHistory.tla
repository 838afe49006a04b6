------------------------- MODULE MCSessionsHistory -------------------------
(***************************************************************************)
(* TokenSessions for TLC, with one more history variable: which requests   *)
(* were about to issue tokens when all sessions of the account were        *)
(* revoked.                                                                *)
(***************************************************************************)
EXTENDS TokenSessions, TLC

VARIABLE overtaken

HInit == Init /\ overtaken = {}

HNext ==
    /\ Next
    /\ overtaken' = {p \in Requests :
                        /\ pc'[p] \in Issuing
                        /\ p \in overtaken \/ \E q \in Requests : RevokeAll(q)}

HSpec == HInit /\ [][HNext]_<<vars, overtaken>>

\* "Revoke all sessions": once logout-all, a password change or a suspension
\* has revoked the refresh tokens, no session comes alive on the strength of
\* credentials that were checked before.
RevokedSessionsStayRevoked ==
    [][\A p \in overtaken : ~(Store(p) /\ account # "deleted")]_<<vars, overtaken>>

=============================================================================
