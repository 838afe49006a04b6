--------------------------- MODULE Notifications ---------------------------
(***************************************************************************)
(* Notifications of one event type to administrators.  dispatch finds the  *)
(* administrators subscribed to the app or to all apps, inserts a          *)
(* notification for each in one statement, and then mails each without     *)
(* waiting; sendDirect does the same for a list it is given.  Subscribing  *)
(* looks for what is there and inserts what is missing.  An administrator  *)
(* who is deleted takes subscriptions and notifications along.             *)
(***************************************************************************)
EXTENDS Integers, FiniteSets

CONSTANTS
    Admins,
    Calls,             \* calls of dispatch and sendDirect that can be made
    Requests,          \* requests to subscribe being served at the same time
    MaxRepeat,         \* bound on how often a list names an administrator
    QueriesMayFail

NotificationsAssumption == MaxRepeat \in Nat \ {0} /\ QueriesMayFail \in BOOLEAN

\* Scopes of other apps do not concern the events of this one.
Scopes == {"GLOBAL", "app"}

VARIABLES
    exists,       \* the administrators that have not been deleted
    subs,         \* the subscriptions: administrator and scope
    call,         \* where each call stands
    dispatched,   \* the calls that are calls of dispatch
    addressed,    \* how often it names each administrator
    toMail,       \* the mails it has still to send to each
    rows,         \* the notifications it has made for each
    unread,       \* whose notifications from it are unread
    mails,        \* history: the mails it has queued for each
    failed,       \* history: the calls of which the database refused a query
    overtaken,    \* history: the calls that named someone deleted before the insert
    want          \* of each request: the subscriptions it found missing

callVars == <<call, dispatched, addressed, toMail, rows, unread, mails>>
vars == <<exists, subs, callVars, failed, overtaken, want>>

Nobody == [a \in Admins |-> 0]

TypeOK ==
    /\ exists \in SUBSET Admins
    /\ subs \in SUBSET (exists \X Scopes)
    /\ call \in [Calls -> {"new", "create", "mail", "done", "lost"}]
    /\ dispatched \in SUBSET Calls
    /\ addressed \in [Calls -> [Admins -> Nat]] /\ toMail \in [Calls -> [Admins -> Nat]]
    /\ rows \in [Calls -> [Admins -> Nat]] /\ mails \in [Calls -> [Admins -> Nat]]
    /\ unread \in [Calls -> SUBSET exists]
    /\ \A d \in Calls : unread[d] \subseteq {a \in Admins : rows[d][a] > 0}
    /\ failed \in SUBSET Calls /\ overtaken \in SUBSET Calls
    /\ want \in [Requests -> SUBSET (Admins \X Scopes)]

Init ==
    /\ exists = Admins
    /\ subs = {}
    /\ call = [d \in Calls |-> "new"]
    /\ dispatched = {}
    /\ addressed = [d \in Calls |-> Nobody]
    /\ toMail = [d \in Calls |-> Nobody]
    /\ rows = [d \in Calls |-> Nobody]
    /\ unread = [d \in Calls |-> {}]
    /\ mails = [d \in Calls |-> Nobody]
    /\ failed = {} /\ overtaken = {}
    /\ want = [p \in Requests |-> {}]

-----------------------------------------------------------------------------
Address(d, names) ==
    /\ addressed' = [addressed EXCEPT ![d] = names]
    /\ call' = [call EXCEPT ![d] = IF names = Nobody THEN "done" ELSE "create"]
    /\ UNCHANGED <<exists, subs, toMail, rows, unread, mails, failed, overtaken, want>>

\* Mutant: one row per subscription instead of per administrator.
FindAllSubscriptions(d) ==
    /\ call[d] = "new"
    /\ dispatched' = dispatched \cup {d}
    /\ Address(d, [a \in Admins |-> Cardinality({s \in Scopes : <<a, s>> \in subs})])

\* dispatch: the distinct administrators with a subscription of either scope.
FindSubscribedAdminIds(d) ==
    /\ call[d] = "new"
    /\ dispatched' = dispatched \cup {d}
    /\ Address(d, [a \in Admins |-> IF \E s \in Scopes : <<a, s>> \in subs THEN 1 ELSE 0])

\* sendDirect: any list of ids.
SendDirect(d, names) ==
    /\ call[d] = "new"
    /\ names # Nobody
    /\ Address(d, names)
    /\ UNCHANGED dispatched

\* createMany: one statement, which fails as a whole when one of those it
\* names is gone; the error is caught and logged.
CreateMany(d) ==
    /\ call[d] = "create"
    /\ IF \A a \in Admins : addressed[d][a] > 0 => a \in exists
       THEN /\ call' = [call EXCEPT ![d] = "mail"]
            /\ rows' = [rows EXCEPT ![d] = addressed[d]]
            /\ toMail' = [toMail EXCEPT ![d] = addressed[d]]
            /\ unread' = [unread EXCEPT ![d] = {a \in Admins : addressed[d][a] > 0}]
       ELSE /\ call' = [call EXCEPT ![d] = "lost"]
            /\ UNCHANGED <<rows, toMail, unread>>
    /\ UNCHANGED <<exists, subs, dispatched, addressed, mails, failed, overtaken, want>>

\* sendEmailToAdmin: a mail is queued if the row is still there.
SendEmailToAdmin(d, a) ==
    /\ call[d] = "mail" /\ toMail[d][a] > 0
    /\ toMail' = [toMail EXCEPT ![d][a] = @ - 1]
    /\ mails' = [mails EXCEPT ![d][a] = @ + IF a \in exists THEN 1 ELSE 0]
    /\ call' = [call EXCEPT ![d] = IF toMail'[d] = Nobody THEN "done" ELSE "mail"]
    /\ UNCHANGED <<exists, subs, dispatched, addressed, rows, unread, failed, overtaken, want>>

\* A query of a call fails: before the insert nobody is notified, after it
\* one mail is not sent.
QueryFails(d) ==
    /\ QueriesMayFail
    /\ failed' = failed \cup {d}
    /\ \/ /\ call[d] \in {"new", "create"}
          /\ call' = [call EXCEPT ![d] = "lost"]
          /\ UNCHANGED toMail
       \/ \E a \in Admins :
             /\ call[d] = "mail" /\ toMail[d][a] > 0
             /\ toMail' = [toMail EXCEPT ![d][a] = @ - 1]
             /\ call' = [call EXCEPT ![d] = IF toMail'[d] = Nobody THEN "done" ELSE "mail"]
    /\ UNCHANGED <<exists, subs, dispatched, addressed, rows, unread, mails, overtaken, want>>

-----------------------------------------------------------------------------
\* createSub (one administrator) and bulkCreateSubs (any) find what is missing ...
FindMissing(p, as, s) ==
    /\ want[p] = {}
    /\ want' = [want EXCEPT ![p] = {<<a, s>> : a \in as} \ subs]
    /\ want'[p] # {}
    /\ UNCHANGED <<exists, subs, callVars, failed, overtaken>>

\* Mutant: subscriptions of users who are gone are not refused.
InsertAny(p) ==
    /\ want[p] # {}
    /\ subs' = subs \cup want[p]
    /\ want' = [want EXCEPT ![p] = {}]
    /\ UNCHANGED <<exists, callVars, failed, overtaken>>

\* ... and insert it, all of it or, when one is there by now, or its
\* administrator gone, nothing.
InsertSubs(p) ==
    /\ want[p] # {}
    /\ IF want[p] \cap subs = {} /\ want[p] \subseteq exists \X Scopes
       THEN subs' = subs \cup want[p] ELSE UNCHANGED subs
    /\ want' = [want EXCEPT ![p] = {}]
    /\ UNCHANGED <<exists, callVars, failed, overtaken>>

DeleteSub(a, s) ==
    /\ <<a, s>> \in subs
    /\ subs' = subs \ {<<a, s>>}
    /\ UNCHANGED <<exists, callVars, failed, overtaken, want>>

\* markRead and markAllRead.
MarkRead(a, ds) ==
    /\ \E d \in ds : a \in unread[d]
    /\ unread' = [d \in Calls |-> IF d \in ds THEN unread[d] \ {a} ELSE unread[d]]
    /\ UNCHANGED <<exists, subs, call, dispatched, addressed, toMail, rows, mails, failed, overtaken, want>>

\* deleteUser; the schema removes subscriptions and notifications.
DeleteAdmin(a) ==
    /\ a \in exists
    /\ exists' = exists \ {a}
    /\ subs' = {s \in subs : s[1] # a}
    /\ rows' = [d \in Calls |-> [rows[d] EXCEPT ![a] = 0]]
    /\ unread' = [d \in Calls |-> unread[d] \ {a}]
    /\ overtaken' = overtaken \cup {d \in Calls : call[d] = "create" /\ addressed[d][a] > 0}
    /\ UNCHANGED <<call, dispatched, addressed, toMail, mails, failed, want>>

Next ==
    \/ \E d \in Calls :
          \/ FindSubscribedAdminIds(d) \/ CreateMany(d) \/ QueryFails(d)
          \/ \E names \in [Admins -> 0..MaxRepeat] : SendDirect(d, names)
          \/ \E a \in Admins : SendEmailToAdmin(d, a)
    \/ \E p \in Requests :
          \/ \E as \in SUBSET Admins, s \in Scopes : FindMissing(p, as, s)
          \/ InsertSubs(p)
    \/ \E a \in Admins :
          \/ DeleteAdmin(a) \/ MarkRead(a, Calls)
          \/ \E s \in Scopes : DeleteSub(a, s)
          \/ \E d \in Calls : MarkRead(a, {d})

Spec == Init /\ [][Next]_vars

-----------------------------------------------------------------------------
\* A call notifies everyone it names, as often as it names them, or nobody; a
\* dispatch names each administrator once, however many subscriptions match;
\* and mails go out only after the insert and no more often than that.
NotifiesAllOrNobody ==
    \A d \in Calls, a \in Admins :
        /\ mails[d][a] + toMail[d][a] <= addressed[d][a]
        /\ d \in dispatched => addressed[d][a] <= 1
        /\ IF call[d] \in {"mail", "done"}
           THEN a \in exists => rows[d][a] = addressed[d][a]
           ELSE rows[d][a] = 0 /\ mails[d][a] = 0

\* An event is lost to all subscribers only if one of them was deleted between
\* the two queries of its dispatch, or a query failed: no subscription that is
\* left over, or was inserted late, makes every dispatch fail.
LostOnlyIfOvertaken ==
    \A d \in dispatched : call[d] = "lost" => d \in failed \cup overtaken

=============================================================================
