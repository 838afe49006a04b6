# Formal models of authy

TLA+ models of the authentication service in this repository: a single
Node/Express process (`src/index.ts`, `src/app.ts`) in front of Postgres
(Prisma) and Redis (cache, token revocation, BullMQ queues). Paths below are
relative to the service's own `src/` directory.

    tlc -workers 2 -config SessionsEntry.cfg MCSessions.tla     one run
    tlapm TokenSessionsProofs.tla                               the proofs

`PROJECT.json` lists the runs, the code lines each definition models, the
mutation that each property catches, the hazards and the theorems.

## 1. The system

| component | state | operations | hard behaviour |
|---|---|---|---|
| sessions (`services/auth`, `services/token`, `middleware/auth`, `services/cache`) | `RefreshToken` rows; Redis `blacklist:<jti>` and `revoke_before:<user>`; `User.isActive` | login, refresh, logout, logout-all, change/reset password, suspend, activate, delete, authenticate | rotation and revocation in several queries; two Redis keys read at different moments; second-granular clocks; Redis failing open |
| login lockout (`auth.login`, `user.repository`) | `failedLoginAttempts`, `lockedUntil`, `isVerified`, `isActive` | login, force-activate, verify, suspend | a counter and a lock written by overlapping logins that read the row before a slow password comparison |
| mailed links (`auth`, `token.service`, `token.repository`) | `EmailVerification`, `PasswordReset` rows, the user's flags | register, resend, forgot, verify, reset | find, mark, write in separate queries; invalidate and insert in separate queries |
| password history (`auth.changePassword`, `auth.resetPassword`, `user.repository.addPasswordHistory`) | `PasswordHistory` rows, the password | change, reset, the trimming transaction | check and use apart; transactions at READ COMMITTED; which rows the trim keeps |
| job queues (`services/queue`, BullMQ) | jobs in Redis, the worker in the process | add, take, complete, retry, stall, close | crashes and restarts in the middle of a job |
| webhook deliveries (`webhook.service`, `webhook-worker.service`, `webhook.repository`) | `OrgWebhook`, `WebhookDelivery` rows | sendTest, process, delete | at-least-once delivery and a log whose key is per delivery, not per attempt |
| emails (`services/email`) | none of its own | enqueue, send | an error after the server took the mail |
| user cache (`cache.service`, `auth.getMe`) | Redis `user:<id>` | getMe, every update of the row | read-through cache beside writes; lost deletes |
| plan limits (`constants/plans`, `middleware/quota`, the `create` operations) | row counts, Redis `api_calls:<org>:<day>` | create, delete, count a call | count and insert apart; a counter read on one day and raised on the next |
| roles and permissions (`acl.service`, `app.repository`) | roles with versions, user apps, the permissions copied into tokens | update role, set features, delete role, assign, update, remove, direct features, remove feature | versions computed from a value read earlier; change, listing of the holders and sign-out apart |
| permission checks (`check.controller`, `cache.service`) | Redis `perm:` keys for 60 s | check, batch check | a cache keyed by a version that never changes; an id passed for another |
| feature sync (`acl.service`, `app.repository`) | sync requests, features, the app's status | submit, approve, reject, add, update and remove features | two administrators at once; an approval that fails halfway |
| OAuth codes (`oauth.service`, `oauth.repository`) | codes, the app with its redirect URIs, the user's flags | authorize, exchange, expire, update and delete the app | check and mark apart; an app deleted under a request |
| org users (`org.service.registerUser`, `loginUser`) | `User` rows of one email | register, log in, delete | a user created in two writes; a unique email that another organization may take in between |
| members (`org.service`, `middleware/org-admin`, `auth.issueTokens`) | `OrgMember` rows, the `orgRole` in tokens | add, remove, log in, use | a role copied into tokens that nothing recalls |
| API keys, org and app secrets (`org-api-key`, `org`, `acl`, `oauth` services, `middleware/org-api-key`) | the hash rows with expiry, the owner's status | create, update, revoke, regenerate, suspend, reactivate, authenticate | secret and owner read in two queries, used after both |
| audit log (`audit.service`, `services/audit-cleanup`) | `AuditLog` rows, users, plans | write, the daily cleanup | plans and users change between the queries of one cleanup; restarts in its middle |
| notifications (`notification.service`) | subscriptions, notifications, the mails they queue | subscribe, unsubscribe, dispatch, send directly, mark read, delete an administrator | an administrator deleted between lookup and insert |
| process lifecycle (`index.ts`, `app.ts`) | server, workers, clients of the stores | bootstrap, signal, drain, close, forced exit, restart | a second signal, or one during bootstrap; jobs and requests in progress |
| statistics | none | aggregate queries | |
| HTTP layer, validation, rate limits, configuration | none | | stateless or a library's |

How they interact: routes call a middleware chain (`authenticate`, org admin,
API key, quota), then a controller, then services, which call repositories
(Postgres) and `cache.service` (Redis). Services put emails and webhook jobs
into the queues without waiting; the workers run in the same process and are
closed in `shutdown`. `acl.service` also dispatches notifications and most services
write audit entries, whose errors they swallow. The sessions are what most other components act upon:
password, suspension and role changes all end in `revokeAllUserRefreshTokens`
and `setUserRevocationTime`, and all updates of a user delete `user:<id>`.

There are no locks and few transactions. One process serves many requests, and
a request gives way to the others at every `await`. The models therefore use
one grain throughout: **an action is the code between two awaits, together with
the query or command it then waits for**. `pc` says at which await a request
stands, its other variables hold what it has read. The order of awaits and every
early return is the code's.

## 2. The modules

| module | models |
|---|---|
| `TokenSessions` | the sessions of one account |
| `LoginLockout` | the lockout of one account |
| `OneTimeTokens` | the mailed links of one account, both kinds |
| `PasswordHistory` | the password and its history |
| `UserCache` | the cached profile of one user |
| `AccountParts` | these five side by side, with the runs' properties |
| `JobContract` | abstract: what whoever enqueues a job may count on |
| `JobQueue` | a BullMQ queue and worker as the code configures them |
| `WebhookDelivery`, `EmailDelivery` | the two processors, on top of `JobQueue` |
| `Queues` | the two side by side, shown to implement `JobContract` |
| `RolePermissions` | one user's permissions in one app and the tokens they are copied into |
| `PlanQuota` | counted creation and the daily call quota |
| `FeatureSync` | the feature catalogue of one app and the requests to change it |
| `OAuthCode` | the authorization codes of one app and one user |
| `OrgUsers` | the users of one email, registered over the Org API |
| `RevocableRight` | abstract: a right that lapses within a given time of its withdrawal |
| `OrgAccess` | one user's memberships and the role in tokens, shown to implement `RevocableRight` |
| `Credentials` | one secret and its owner, shown to implement `RevocableRight` twice |
| `AuditRetention` | audit entries and the daily cleanup |
| `Notifications` | subscriptions, notifications and their mails |
| `Lifecycle` | bootstrap, shutdown and restart of the process |
| `PlatformParts` | `PlanQuota` to `Lifecycle` side by side, with the runs' properties |
| `PermissionCheck` | the permission checks of one user and one calling organization |
| `MCSessions`, `MCRoles`, `MCPlatform` | symmetry and constants for TLC |
| `MCSessionsHistory`, `MCRolesHistory` | `TokenSessions` and `RolePermissions` with one more history variable |
| `TokenSessionsProofs`, `AccountProofs`, `QueueProofs`, `RolePermissionsProofs` | theorems about the modules they are named after and the sums that contain them |
| `PlanQuotaProofs`, `PlatformProofs`, `OrganizationProofs`, `PlatformTypeProofs` | theorems about the parts of `PlatformParts`: the quota; sync, codes, org users and process; members, secrets, audit log and notifications; the types of all of them |

`AccountParts`, `Queues` and `PlatformParts` are sums. Protocols that neither read
nor write each other's variables cannot affect each other's properties, so
exploring their product would only multiply states; a behaviour picks one of them
at the start and leaves the variables of the others alone. Their properties are
re-exported under the same names. Where a component does act on another's rows
(a user is deleted, an app or organization is suspended, the process restarts),
each part has that as an action of its own.

### TokenSessions

One account; a *grant* is the pair of tokens issued together. `refresh[g]` is the
row of the refresh token (`reserved` stands for a grant about to be issued whose
row is not stored yet, `erased` for a row deleted with the account), `parent[g]`
the refresh token it was exchanged for. `blacklist`, `revokeBefore`,
`revokeUntil` are the Redis keys with their expiry. `ended` and `stale` are
history: which access tokens an operation has put an end to, and whether a
request's token was among them when it was presented.

| action | code |
|---|---|
| `LoginLookup`, `RefreshLookup`, `Rotate`, `CheckOwner`, `Sign`, `Store` | `auth.login`, `auth.refreshTokens` with `verifyAndConsumeRefreshToken`, `auth.issueTokens` |
| `Present`, `CheckBlacklist`, `CheckCutoff`, `Serve` | `authenticate`, `isAccessTokenRevoked`, `verifyTokenInternal` |
| `Logout`, `LogoutFind`, `LogoutRevoke` | `auth.logout` |
| `LogoutAll`, `ChangePassword`, `ResetPassword`, `Suspend`, `RevokeAll`, `Cut` | the mass revocations: which of the two writes comes first differs between them, as in the code |
| `Activate`, `Delete` | `activateUser`, `deleteUser` |
| `Fail` | an error or a restart at any await; what is written stays |
| `Tick` | the clock, in whole seconds, as the tokens' `iat` and the revocation instant are |

With `RedisMayFail` a write may be lost and a read may find nothing, which is
what `cache.service` makes of an error.

### AccountParts: LoginLockout, OneTimeTokens, PasswordHistory, UserCache

The fifth part is `TokenSessions` itself, for its liveness property.
`LoginLockout`: `Lookup` reads the row and tests flags and lock, `Compare` is the
password comparison, `Increment` the atomic increment whose result decides,
`Lock` the write of `lockedUntil`, `Reset` the successful end. Times are ticks
left. `spared` and `lost` are history. `OneTimeTokens`: `Invalidate` and `Insert`
issue, `Lookup`, `MarkUsed`, `Owner`, `MarkVerified`/`SetPassword` redeem;
`redeemed` counts. `PasswordHistory`: the check, the update, and the three
statements of the transaction at READ COMMITTED (a statement sees what was
committed when it starts, and what its own transaction did): `Insert`, `Trim`,
which finds the rows beyond the limit, and `Commit`, which deletes those it found. A
row is known by its place in the order of `createdAt`; `kept` are the committed ones,
`own` the one an open transaction has made, `doomed` those it has found. `past` is
the history of passwords the user has had.
`UserCache`: a row is known by how often each half of it was written, which is
all that "stale" needs.

### Queues: JobContract, JobQueue, WebhookDelivery, EmailDelivery

`JobQueue` models BullMQ by what the source relies on: jobs survive the process,
an attempt that throws is retried until `attempts` are used up, a job whose
worker has gone is found stalled and runs again once (`maxStalledCount` is left
at its default). `Close`, `Exit`, `Crash`, `Restart` are `closeQueues`,
`shutdown` with its ten-second limit, and `bootstrap`. `JobContract` hides all
of it: a job is open until it is done or dropped; it is sent again only on
account of a failure or an interruption; it is dropped only after `MaxAttempts`
failures or a second interruption; and it is settled in the end. The refinement
maps the queue's states to these phases and counts an active job without a
worker as interrupted before BullMQ has noticed.

In `WebhookDelivery` the steps `Post`, `ReadBody`, `Log`, `Settle` are
`processWebhookJob`. What the endpoint does and what the worker learns of it are
two things: after a `fetch` that was aborted or lost its connection, the endpoint may
have accepted the delivery (outcome `unheard`) or not (`network`), and the code treats
the two alike. `confirmed` is history and counts the 2xx answers that reached the
worker. So a delivery may be repeated after an acceptance in two ways, by an answer
that went unheard and by an interruption, and `RepeatsHaveCause` says that there is
no third: a confirmed delivery is retried only after an interruption. `EmailDelivery` makes the same
distinction for mail (`SendMail`).

### RolePermissions

One user and one app. `present`, `version`, `grants` are the roles, `access`,
`holds`, `direct` the `UserApp` row with its features, `rowNo` its id. `FindRole`
and `FindUserApp` begin an administrator's request; `SetRoleFeatures`, `Bump`,
`Holders`, `SignOut`, `DeleteRole` are the queries of the role operations, and
`UpdateUserApp`, `DeleteUserApp`, `SetDirectFeatures`, `SignOut` those of the
access operations, each in the order of `acl.service`. `Resolve` and `Sign` are
`issueTokens`. The sign-out is reduced to the revocation instant: the refresh
tokens it revokes are the business of `TokenSessions`, and a token refreshed
later is resolved again. `unended` is history: tokens outdated by a change that
no sign-out follows.

### PlanQuota

One organization. `CountByOrg` and `Create` are the two queries of each create
operation; `ReadCalls` and `CountCall` the two Redis commands of the call quota,
each with the key of the day at which it runs; `blind` counts calls let through
because Redis did not answer.

### FeatureSync

`status` and `features` are the sync requests, `catalogue` the app's `Feature`
rows. `CreateSyncRequest` is `submitSyncRequest` after `FindActiveApp`;
`FindPending` begins `approveSyncRequest` and `rejectSyncRequest`,
`UpsertFeature` is one round of the approval's loop, and `Approve` and `Reject`
write the decision without looking at the status again. `AddFeature`,
`UpdateFeature`, `RemoveFeature` and `SetAppActive` run beside them, and `Fail`
ends a request at any await. History: how often a request was decided, which keys
were removed since it was submitted, and which approvals failed halfway or
overlapped another decision (`torn`).

### OAuthCode

`FindClient`, `FindUser`, `CreateAuthCode` are the three queries of `authorize`;
`Authenticate`, `FindAuthCode`, `MarkAuthCodeUsed` and `Grant` those of
`exchangeCode`, with the tests between them (secret, expiry, use, redirect URI,
client) in `Acceptable`. `UpdateApp`, `DeleteApp` (which takes the codes along),
`SetUser` and `Expire` act meanwhile.

### OrgUsers

The rows one email may have over time. `FindInOrg` looks within the organization;
`Create` inserts the row, unverified and inactive, or meets the unique email;
`Activate` is the second write. `FindToLogin` and `Compare` are `loginUser`.
`RegisterElsewhere`, `Verify`, `SetActive`, `Delete` are what others do to the
row.

### RevocableRight, OrgAccess, Credentials

`RevocableRight` says what a check can promise that is made once and not at every
use: the right is `usable` only while less than `Linger` has passed since it was
last held.

`OrgAccess`: `FindMember` is `findMemberByUserId`, which returns any one of the
memberships, `Sign` puts the role into a token, and a token that names an
administrator lets its bearer through `requireOrgAdmin` as long as it lives.
`AddMember` and `RemoveMember` change rows and end no token. The right is that of
administering some organization, and `Linger` the life of a token plus the time a
login may take.

`Credentials`: an API key is found by its hash and tested for expiry
(`AuthenticateKey`), and its organization read in a second query (`FindOwner`);
for the secret of an organization or an app the status stands in the same row
(`AuthenticateSecret`). `Act` is the handler. Both the validity of the secret and
the status of its owner are revocable rights, with the duration of one request as
`Linger`.

### AuditRetention

`FindUsers` and `DeleteLogs` are the two queries per plan, `DeleteOrphans` the
last one, `QueryFails` an error (which costs this plan its turn) and `Restart` a new
process, which begins a run at once. `Tick` is a day, which begins the next run;
it waits for the run before, as a run takes minutes. `SetPlan`, `DeleteUser` and
`Log` happen between any two queries. `least` is history: the shortest retention
each user had during this run.

### Notifications

`FindSubscribedAdminIds` and `SendDirect` determine whom a call names, `CreateMany`
is the one insert for all of them, which fails as a whole when one of them is
gone, and `SendEmailToAdmin` queues one mail. `FindMissing`
and `InsertSubs` are `subscribe`; `DeleteSub`, `MarkRead` and `DeleteAdmin` the
rest.

### Lifecycle

`ConnectDatabase`, `ConnectRedis` are the awaits of `bootstrap`, which then starts
the workers and listens; `Signal` begins a shutdown beside any that is under
way; `ServerClosed` calls back once the last request is served; `CloseWorker`,
`WorkerClosed`, `CloseFails` are `closeQueues`, beside `DisconnectDatabase` and
`DisconnectRedis`; `ExitCleanly` waits for all of them, `ForceExit` for ten seconds,
and `Die` and `Restart` are a crash and the container's answer to an exit. `cut`
is history: the requests and workers a process ended with in its hands. A
signal while `bootstrap` waits finds no server to close: its shutdown never gets
beyond `close`, the server opens nevertheless, and the timer ends the process.

### PermissionCheck

`GetPermissions` reads the Redis key, `Resolve` is `resolveFeatures` with the id it is
given, `SetPermissions` fills the key for 60 s, `Answer` compares. `Change` is
any change of the user's features in an app.

## 3. Runs

| run | module | shows |
|---|---|---|
| `SessionsEntry` | `MCSessions` | `NoEntryOnceEnded`: nobody enters on an unexpired access token that was ended before it was presented. `RevocationNeverMovesBack`. Redis up |
| `SessionsOutage` | `MCSessions` | `RotationRetiresParent`: an exchanged refresh token is dead before its successor is signed, Redis and requests failing anywhere |
| `AccountSafety` | `AccountParts` | `AttemptsBounded`, `LockStopsLaterLogins`, `LiveLinksBounded`, `RedemptionsBounded`, `HistoryBounded`, and the types of these four protocols |
| `AccountLiveness` | `AccountParts` | `TimedRelease`, `RedemptionTakesEffect`, `CacheConverges`; `RevocationTakesHold`: a password change, reset or suspension that has begun to revoke goes on to shut older access tokens out (two grants) |
| `Queues` | `Queues` | `KeepsContract` (refinement, liveness included), `SuccessOnRecordIsReal`, `SettledIsOnRecord`; `RepeatsHaveCause`: an endpoint gets again what it has accepted only if its answer went unheard or the process went down |
| `Roles` | `MCRoles` | `OutdatedOnlyInFlight`: a token that grants what the user has lost and is still accepted was being issued during the last sign-out, unless the change ends no session |
| `Platform` | `MCPlatform` | see below |

`Platform` asks of its nine parts:

| part | properties |
|---|---|
| plan limits | `OvershootBounded`, `CallsOvershootBounded`: limits are exceeded by less than the number of requests at once. The documentation's "hard limits" (`readme.md:377`) are not: two overlapping creations both fit under the limit |
| feature sync | `DecisionsBounded`; `ApprovedInForce`: the features of an approved request are all there, or removed since, with two administrators and failures; `RejectedLeavesNothing`, unless an approval of it failed or overlapped |
| OAuth codes | `GrantsBounded`; `GrantedCodesAreSpent`: no failure leaves a code usable whose tokens are out, and an app that is gone leaves no code |
| org users | `UnverifiedOnlyByFailure`: only a failure between the two writes leaves an unverified row; `RegistrationsBounded`: an account is handed to one registration, of its own organization |
| members | `AdminRightLapses` (refinement of `RevocableRight`) |
| keys and secrets | `SecretLapses` (the same, for secret and owner) |
| audit log | `NothingPurgedEarly`, `PurgedEventually`: neither plan changes nor deletions nor restarts during a cleanup make it delete too early, and they only delay it |
| notifications | `NotifiesAllOrNobody`; `LostOnlyIfOvertaken`: only a deletion between its two queries, or an error, loses an event |
| process | `CleanExit`: exit code 0 means that nothing was cut off, with two signals too; `StoresOutliveRequests`; `ShutdownEnds` |

Five runs end in a counterexample; each states what the documentation or a
comment says and shows that the code does something else:

| run | the claim | what happens |
|---|---|---|
| `SessionsReplay` | "Each use consumes the token; replay returns 401" (`readme.md:833`) | two overlapping refreshes find the row before either revokes it, and both get tokens |
| `HistoryForgets` | "Last N hashes to prevent reuse" (`readme.md:245`) | the trim deletes the newest rows and keeps the oldest |
| `RolesStale` | "stale detection", `stale: true` "means the token's embedded `appPermissions` are outdated (role version changed)" (`readme.md:53`, `:946`) | two overlapping changes of a role write the same version, so a token resolved between them passes for current |
| `OrgTarget` | "must also hold an OrgMemberRole of OWNER or ADMIN in the target organization" (`middleware/org-admin.middleware.ts:20`) | the token names the organization of the user's row and carries the role of whichever membership the query returns first |
| `CheckDenies` | "instantly verify whether a user has access to a feature key" (`readme.md:515`) | the organization's id is passed where an app's is expected, no row is found, and a feature granted long ago is refused |

These configurations show further differences of the same kinds, and can be run
by hand:

| cfg, module | the claim | what happens |
|---|---|---|
| `SessionsLogoutAll`, `MCSessions` | "Revoke all sessions" (`readme.md:668`) | an access token issued in the same second survives (`iat < revokedBefore`) |
| `SessionsInFlight`, `MCSessionsHistory` | the same | a login or refresh under way stores a live refresh token afterwards |
| `LockoutEarly`, `LoginLockout` | "Auto-lock after N failures; timed release" (`readme.md:831`) | a login under way when the lock is set clears it |
| `WebhooksLog`, `WebhookDelivery` | "All attempts (success or failure) are logged" (`readme.md:624`) | the second attempt has the `deliveryId` of the first, which is unique; the error is swallowed |
| `WebhooksSlowBody`, `WebhookDelivery` | "10-second `AbortController` timeout" (`readme.md:855`) | the timer is cleared before the body is read, which may never end |
| `LinksReplay`, `OneTimeTokens` | "Reset token is one-time-use" (`tests/TESTS.md:607`) | two overlapping redemptions pass. With `PreviousLinksInvalid` in place of `OneTimeUse` ("Invalidate any previous tokens for this user", `repositories/token.repository.ts:75`): two overlapping requests leave two live links |
| `CacheRace`, `UserCache` | "Cached user object (busted on update)" (`readme.md:865`) | a read from before the update is cached after it. With `LoginBustedOnUpdate`: a login changes `lastLoginAt` and leaves the key |
| `SyncOnce`, `FeatureSync` | "Sync request is no longer pending" (`services/acl.service.ts:249`) | two administrators both find it pending, and it is approved and rejected |
| `CodesOnce`, `OAuthCode` | "Authorization code already used" (`services/oauth.service.ts:234`) | two overlapping exchanges find the code unused, and both get tokens |

The passing properties are the strongest bounds that hold in spite of these:
redemptions, open links, history rows, counted resources, decisions and exchanges
exceed their limit only by what requests overlapping at the time can do. Of refresh
tokens `SuccessorsBounded` says so; an instance that could break it has four grants,
which is beyond a run, and it is proved instead (`ExchangesSafe`).

### Bounds

Two overlapping requests exhibit every two-party interleaving of the code; where
a property of the lockout counts concurrent logins (`LoginRequests`) there are
three, so that an off-by-one in "one less than the requests at once" shows. Two grants are a token
and its successor, or two sessions of which one revokes the other; `SessionsReplay` needs a
third. The sessions of `AccountLiveness` have two grants and two requests, a clock of
two instants and, as `SessionOps`, the operations that revoke all sessions: logging
out of one session and other routes do not bear on its property. Within
these two instants no access token expires, so `RevocationTakesHold` is satisfied there
by nothing but a refusal; that a refusal lasts as long as the token does is
`EndedRefused`, which is proved. The clock runs to 3 with an
access lifetime of 2, a revocation key that lives as long as the lifetime at the
least (the assumption the proof needs) and refresh tokens that outlive both, so
that every key and token expires within a run. `SessionsOutage` has a shorter
clock: expiry has no part in its property. The lockout has three attempts and a
lock of three ticks, the history a limit of 2 with up to five changes, so that the
trim runs several times. The cached profile lives for two
ticks and is updated twice. `MaxLost` bounds the locks lost to failures in a row
(each adds one to the count that `AttemptsBounded` allows). The queues have two
jobs and one slot (a job waits behind another), two attempts (a first and a
last), and two crashes (BullMQ gives a job up at the second stall).
`Roles` has one role, one
feature, one token and two administrators: the property speaks of one token at a
time, and what it holds of another role or feature is not changed by changes of
this one. Two instants suffice to issue before, in and after the second of a
sign-out. A second version lets two changes of the role overlap; changes of
access are not bounded except by the number of rows. `RolesStale` has three
versions.

`Platform` has two requests of each kind. The quota has limits 2 and 1 for two
kinds of resources, two days and one failed reading. One sync request has two
features, so that an approval is interrupted between them; the decisions of one
request do not concern another. One code, with two redirect URIs of which the app may lose
one; two accounts, so that an email is registered again after a deletion, here or
elsewhere. Two organizations, so that removing one role may leave another; a token
that lives two ticks and a login that takes one. Two users on either of two plans
with retentions of 1 and 2 days, one entry (entries are treated alike), and two
disturbances, so that a run that failed is followed by a run disturbed as well. Two
administrators, one call that names each at most twice; two signals.

Bounds that are not in the code: `MaxVersion`, `MaxRows`, `MaxTime`, `MaxChanges`,
`MaxUpdates`, `MaxCrashes`, `MaxLost`, `MaxDay`, `MaxBlind`, `MaxFlight`,
`MaxDisturbances`, `MaxRepeat`, `SessionOps`.

Deadlock is not checked: the clock, the changes, the codes or the tokens run out
by such a bound, after which a behaviour may end.

### Fairness

* A request goes on from the await it stands at: weak fairness of `Continue(p)`
  for each request. The Node event loop resumes a request when its query is
  answered, and queries are answered or fail. Nothing obliges a client to send a
  request.
* Time passes: weak fairness of `Tick` where a property needs a lock or a key to
  run out.
* The worker goes on with jobs it holds, takes waiting jobs in order (strong
  fairness of `Start`: another job may take the slot in between, but not for
  ever), delayed jobs become due, stalled ones are found, and the process is
  restarted (`restart: unless-stopped`, `docker-compose.yml`). In `Queues`
  endpoints are assumed to finish the bodies of their answers; `WebhooksSlowBody`
  shows what happens without that assumption.
* The cleanup goes on with its queries, and days pass (`Cleanup`, `Tick`): the
  process is restarted, and `setInterval` runs. `PurgedEventually` holds because
  disturbances end; a cleanup that fails every day purges nothing.
* The timer of ten seconds that every signal starts goes off (`ForceExit`).
  Nothing is assumed of requests, workers or stores, so `ShutdownEnds` covers a
  client that never ends and a store that never answers.
* `AccountLiveness` lets no request fail while a link is redeemed, since a crash
  after `MarkUsed` does lose the verification: the link is spent and the account
  is not verified.
  For the same reason its sessions run with a Redis that answers and requests that
  go on: a reset that fails before it sets the instant shuts nobody out.

## 4. Proofs

All for any number of requests, tokens, resources and for any limits and
lifetimes, subject to the assumptions named in the modules. Every invariant and
every action property that a passing run checks is a theorem here.

**TokenSessionsProofs** (assumptions `NoneAssumption`, `FiniteAssumption`,
`TtlAssumption`, `RevocationOutlivesAccess`, `FaultAssumption`)

* `TypeCorrect`: `Spec => []TypeOK`.
* `RotationSafe`: `Spec => []RotationRetiresParent`. Not inductive alone: that
  `Sign` sets a parent which is dead rests on `BodyRetired` (past its update an
  exchange carries a dead token), that it stays dead on `BodyDelivered` (what is
  presented was handed out, so it is not a grant still to be stored) and on
  `FreshOwned` (a grant about to be stored belongs to one request, so that `Store`
  cannot revive another's token). `Routed` ties the other variables of a request
  to where it stands. `RotationInv` is their conjunction.
* `ExchangesSafe`: `Spec => []SuccessorsBounded`. `ExchangesPromised` bounds the
  successors of a token together with the exchanges of it that are under way:
  signing turns one of these into a successor, and no exchange begins once there is a
  successor, as the token is dead by then (`RotationRetiresParent`).
* `RevocationMonotone`: `Spec => [][revokeBefore' >= revokeBefore]_vars`, from
  `InstantPast`: the instant on record is never in the future.
* `EndedStaysRefused`: `~RedisMayFail` implies `Spec => []EndedRefused`, what the Redis
  keys do for the middleware: an ended access token is refused for the rest of its life.
* `EntrySafe`: `~RedisMayFail` implies `Spec => []NoEntryOnceEnded`.
  `EndedShutOut` says an ended token is refused as long as it is valid; it is
  preserved because tokens once delivered keep their issue time (`Kept`), a
  blacklist key lives as long as its token, and a revocation key written later
  has a later instant and, by `RevocationOutlivesAccess`, outlives what it
  revokes. `StaleBearers` carries this from the moment a token is presented to
  the moment its bearer is admitted, across the two readings. Without the
  hypothesis on Redis the statement is false, as the cache fails open.

**AccountProofs** (assumptions `LockoutConstants`, `TokensConstants`,
`HistoryConstants`, `CacheConstants`)

* `LockoutSafe` (`[]AttemptsBounded`), `LockKeepsOut` (`[]LockStopsLaterLogins`).
  `LockoutInv` counts the logins in `Lock`: whoever raises the counter to a
  multiple of the limit is bound to set the lock, so the counter passes a multiple
  only if a lock is set, pending or counted as lost.
* `LinksSafe` (`[]LiveLinksBounded`), `RedemptionSafe` (`[]RedemptionsBounded`).
  Neither count is inductive: a request past `Invalidate` is about to add a link,
  one past `Lookup` is about to add a redemption. `LinksPromised` and
  `MarksPromised` bound the sums.
* `HistorySafe` (`[]HistoryBounded`). A transaction decides what to delete before it
  commits, and others commit in between, so the size of the table bounds nothing by
  itself. `HistoryPromised` speaks of the table as it would be if any set of
  the transactions that have passed `Trim` were to commit: in each of these the rows
  stay below the limit plus the requests at once. When a transaction has trimmed, at
  most `Limit` of the rows it saw are left (`OldestFew`) and what it did not see is a
  row each of the other open ones (`OwnFew`); when one commits, what may still follow
  is a case of what could have followed before. `RowsApart` says that an open transaction's row
  is its own.
* `TypeCorrect` (`[]TypeOK`), the types of the lockout, the links, the history and the
  cache. They say where each field of a request is in use: a link request holds a
  token only while it redeems one, a transaction has a row only between `Insert` and its
  end, the cache holds a value exactly while its key has time left.

**QueueProofs** (assumptions `QueueAssumption`, `LogAssumption`)

* `TypeCorrect`: `Spec => []TypeOK`, from `TypedInv` (slots are held by active jobs
  only, and there are no more than `Concurrency`).
* `QueuesKeepSafety`: `Spec => Contract!Safety`, the safety half of
  `KeepsContract`: every step of either queue is a step of `JobContract` or leaves
  it alone. `QueueInv` accounts for every send: it belongs to a failed attempt, to
  an interruption, to the attempt under way or to the one that completed the job.
* `RepeatsExplained`, `SuccessReal`, `SettledLogged`: the three invariants of the
  deliveries. `HookInv` says what a row, the answer in hand and the stage of a
  job know of each other, and accounts for every 2xx answer the worker has seen
  (`Accounted`): it is in hand, it completed the job, or an interruption cut it off.

**RolePermissionsProofs** (assumption `RolesAssumption`)

* `TypeCorrect`, and `OutdatedSignedOut` (`[]OutdatedOnlyInFlight`).
  `PermissionsInv` follows who is bound to sign the user out: a token that grants too
  much is tolerated because an administrator has the user on the list, or has
  changed the role and is still to ask who holds it, or because the token was
  read before a sign-out and signed after it.

**PlanQuotaProofs** (assumption `LimitsAssumption`)

* `TypeCorrect`, `LimitsSafe` (`[]OvershootBounded`) and `CallsSafe`
  (`[]CallsOvershootBounded`). A count alone is not inductive; what is bounded is
  the count together with the requests that have tested it and are yet to add to
  it: `Promised` says that the rows of a kind and the requests about to create
  one stay below the limit plus the requests at once, and `CallsPromised` the same
  of the calls of today, with what Redis let through unread.

**PlatformProofs** (the assumptions of `PlatformParts`)

* `StoresSafe`, `ShutdownIsClean`: `ProcessInv` says that requests are served by an
  open server only, which has its stores, that no callback of a shutdown runs
  before the server has closed, and that `closeQueues` leaves no worker
  with jobs behind it.
* `AccountsHandedOnce`, `AccountsVerified`: `UsersInv`; a row that is unverified is
  being activated by one request, and only by one.
* `GrantsSafe`, `DecisionsSafe`: again the sum of what was counted and of who is
  about to add to it (`GrantsPromised`, `DecisionsPromised`).
* `CodesSpent`: a request in `owner` has a code that is used or gone.
* `ApprovalInForce`: what an approval has done so far is in force or was removed
  since, for each handler separately. `RejectionSafe`: unless it is torn, a request
  has one approval and no other decision at a time (`TornInv`).

**OrganizationProofs** (the assumptions of `PlatformParts`)

* `SecretsLapse`, `RoleLapses`: `Credentials` and `OrgAccess` implement
  `RevocableRight`. `KeysInv`: a request that has passed a test carries it for as
  long as it has been under way, so the right it read was there at most that long
  ago; `MembersInv` the same of a login and then of the token it signs, whose age
  comes on top. The clock of the abstract right is the least over the
  organizations, which exists by well-foundedness (`LeastIs`).
* `PurgesInTime`: `AuditInv` says that a user the cleanup found has had a retention
  no longer than the plan it is at. That `Longest` is a plan
  is shown by induction over finite sets (`GreatestIn`).
* `AllOrNobody`, `LossesExplained`: `NoticesInv`, one clause per stage of a call.

**PlatformTypeProofs** (the assumptions of `PlatformParts`)

* `PlatformTypeCorrect`: `PlatformSpec => []PlatformTypeOK`, part by part. Most parts
  keep their types by themselves; members and secrets need `MembersInv` and
  `KeysInv`, and the process `ProcessInv`. With the types come the clauses that relate rows:
  what is left of an administrator who was deleted, whose entries a log still
  names, which request stands where.

**Only model-checked**: liveness (`RevocationTakesHold`, `TimedRelease`,
`RedemptionTakesEffect`, `CacheConverges`, `PurgedEventually`, `ShutdownEnds`, and the
liveness half of `KeepsContract`), which rests on fairness and `ENABLED`. The five
counterexamples, and those of the configurations run by hand, are TLC's alone by
nature.

## 5. Not modelled, and why

* BullMQ, Prisma, Redis and Postgres beyond what the code relies on. Redis
  commands of one connection take effect in order; Postgres queries of the pool
  in any order; a Prisma array transaction is atomic.
* Cryptography: a signature is valid exactly for what was signed, a hash equal
  exactly for equal passwords and secrets, random tokens are distinct.
* Payloads, templates, formatting, validation, routing, error bodies, the rate
  limiter's counters, statistics queries, listings.
* Operations on descriptive columns of one row that nothing else depends on:
  `createOrg`, `updateOrg`, `updateApp` of an app's name, `lastUsedAt` of a key. OAuth
  introspection and the signing keys, which are constant while the process runs.
* Creation of apps and roles (`isDefault` is stored and read by nobody); the status of an app
  in `RolePermissions` (it is in `FeatureSync` and `Credentials`).
* Code without a caller: `webhook.dispatch`, `deleteExpiredRefreshTokens`,
  `invalidatePermissionsForUser`, the limits `maxApps`, `maxFeatureKeys` and
  `maxMauPerMonth`.
* One account, organization, app or email at a time, except where stated: every row
  and key is selected by such an id.

## 6. Plan

Done: all components of section 1 with state of their own, and proofs of all their
invariants and action properties. What is left, in the order of its worth:

1. Creation of apps and roles and the status of an app in `RolePermissions`.
2. The revocations that `acl.service` sends concurrently, in `TokenSessions`, so that
   the sign-out of `RolePermissions` becomes a step of it.
3. A bounded-staleness specification of the permission checks, like
   `RevocableRight`, once `check.controller` asks for the right id.
