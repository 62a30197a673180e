# Imvault in TLA+

Imvault is a self-hosted photo and clip host: one Go process, one SQLite
database, one storage backend (a directory or an S3 bucket). This directory holds
a formal model of the parts of it where several requests, the cleanup worker, an
operator's command and a failure can meet; what TLC checks about them on small
instances; and what the TLA+ proof system proves about them for all instances.
Paths below are relative to `src/internal/` unless they say otherwise.

    tlc -workers 2 -config ContentStoreSafety.cfg MCContentStore
    tlapm ContentStoreProofs.tla

## 1. Inventory

| Part | Code | State | Operations | What is hard |
|---|---|---|---|---|
| Content store | `web/handlers_upload.go`, `web/dedup.go`, `store/blobs.go`, `store/files.go`, `db/migrations/011_blobs.sql` | rows of `files` and `blobs`, objects | upload, reuse, failed upload, removal, sweep, recount | identical uploads share objects; database and storage cannot change together; removal races upload |
| Content locks | `web/content_lock.go` | one channel per hash in use | acquire, release | only some paths take it; it is held across slow storage calls |
| Quotas | `store/users.go`, `web/handlers_admin.go` | `users.storage_used`, quota, ceiling | reserve, release, check, recompute | a reservation outlives the statement that made it; eight exits must give it back once |
| Trash and retention | `store/trash.go`, `web/trash.go`, `web/cleanup.go`, `store/settings.go` | `trashed_at`, `expires_at` | trash, restore, purge, reap, change the window | the reaper acts on a list that may be stale |
| Filtered copies | `web/metadata.go`, `web/metadata_filtered.go`, `web/handlers_files.go` | `clean_key`, `camera_key`, `location_key`, objects | build, record, serve, forget | built by readers, while the file may be removed |
| Rendition rebuild | `maintenance/regenerate.go`, `store/renditions.go` | `thumb_key`, `preview_key`, objects | store, publish, remove the old | partial failure |
| Storage backends | `storage/` | objects | save, open, stat, delete | a Save can fail after its rename; some of several deletions fail |
| Mail queue | `web/mailqueue.go`, `store/outbound_mail.go`, `store/mail_claim.go`, `web/handlers_admin_mail.go` | rows of `outbound_mail` | queue, claim, deliver, mark, back off, retry, discard, prune | request and sweep want the same message; a relay is slow; a claim is a lease; restarts |
| Instance locks | `instance/lock.go`, `cmd/imvault` | four file locks | start a server, an older one, a command; pin objects; delete; exit; die | each process takes two or three locks one after the other; a fork of a lock outlives its process |
| Backup, restore, migration | `maintenance/backup.go`, `rotation.go`, `restore.go`, `objects.go`, `cmd/imvault/maintenance.go` | staged and published directories, marks, two object stores | snapshot, copy, publish, rotate, restore, migrate | runs against a live server; must be all or nothing; power can fail between a rename and its sync |
| Accounts and roles | `store/users.go`, `web/handlers_account.go`, `web/handlers_admin.go` | `users` | create, disable, promote, delete | the last administrator; a deletion cascades |
| Reports and moderation | `store/reports.go`, `web/handlers_moderation.go` | `reports`, audit trail | report, resolve, remove | two moderators on one report |
| Invitations | `store/invites.go`, `store/invite_redemption.go` | `invites` | issue, redeem, revoke | the last use; an issuer who goes |
| Passwords, sessions, second factor, mailed links | `store/auth_tokens.go`, `store/sessions.go`, `store/two_factor.go`, `web/handlers_auth.go`, `handlers_password.go`, `handlers_twofactor.go`, `handlers_account.go` | `users`, `sessions`, `auth_tokens`, `api_keys`, recovery codes | sign in, enrol, change, reset, revoke | a handler works on the row it read at its start; single use; what a change revokes |
| External identity (OIDC) | `web/handlers_oidc.go`, `store/identities.go` | `user_identities` | sign in, link, register, disconnect | two callbacks for one subject |
| Gate and rate limiter | `web/gate.go`, `web/photo_rotation.go`, `ratelimit/` | two semaphores, buckets, a recency list | acquire, release, allow, sweep | timed wait; early and deferred release; requests reach the mutex out of order |
| Albums, tags, favourites, discussions | `store/albums.go`, `tags.go`, `favorites.go`, `web/api_albums.go`, `handlers_albums.go`, ... | their tables | read a row, decide, write | the row is old by the time of the write; pruning a tag that another request has found |
| Visibility and sharing policies | `store/store.go`, `store/files.go`, `models/location.go`, `web/handlers_auth.go` | none | predicates, in Go and in SQL | two languages must agree; an album must not loosen its files |
| Avatars, branding, profiles | `web/handlers_avatars.go`, ... | one image, one text | replace | nothing else reads them |
| Media and metadata codecs | `media/`, `imaging/`, `metadata/`, `exifwrite/` | none | bytes to bytes | the formats |
| Configuration, command line, templates, packaging | `config/`, the rest of `cmd/imvault`, `web/templates`, `contrib/` | none | parsing, wiring | none here |

How they meet. A request runs in a goroutine of its own and calls the store (one
SQLite connection, so one statement or one transaction is atomic and nothing
larger is) and the backend (each call on its own, and slow). Uploads, releases of
content and the building of copies take the lock of one content; deleting
objects also takes the shared side of a file lock whose exclusive side a backup
holds. Triggers on `files` keep `blobs.refcount`, also when SQLite deletes rows
by cascade. `cleanupLoop` and `StartMailRetry` are the two workers. A
request that changes an account, a file or an album reads its row in one
statement, decides by what it read, and writes in another. The
request's context ends when the client goes away, and every later database or
storage call of that request then fails, its clean-up included.

What makes each part correct: the store never loses bytes that a file names,
never keeps bytes nobody names, counts references and bytes exactly, and removes
a live file only when somebody asked for it; the mail queue delivers a message
once unless a failure hid the first delivery, one attempt at a time, and settles
every message; a backup holds every object its database names, or does not
appear; processes that must run alone do; an instance keeps an enabled
administrator; a code is spent at most as often as it may be; no session, link
or key outlives the password it was issued under; nobody is shown or listed
what they could not open; a report's verdict is about what was
reported; a limiter that forgets admits no more than one that does not.

## 2. Modules

| Module | What it is |
|---|---|
| `ContentStore` | uploads, sharing of bytes, removal, quotas, trash, cleanup, copies, rebuild, backup's pin, crashes |
| `Vault` | the abstract specification: a catalogue of files and the set of contents held |
| `MailQueue` | the queue, its workers, time and failures |
| `Accounts` | roles, disabling, deletion, the last administrator; invitations and registration |
| `InstanceLocks` | the file locks of servers, commands, offline maintenance, backups and deletions |
| `Backup` | over `InstanceLocks`: backups, rotation, restore and migration beside a server at work |
| `SignIn` | passwords, sessions, keys, mailed links, the second factor, identities at a provider |
| `RateLimit` | the token buckets, their sweep and the bounded table |
| `UploadGate` | over `RateLimit`: the two semaphores and the requests that pass through them |
| `Sharing` | files, albums, tags and favourites, and who may see and change them |
| `Moderation` | over `Sharing`: reports, the removals that answer them, and the log |
| `MCContentStore`, `MCMailQueue`, `MCAccounts`, `MCInstanceLocks`, `MCBackup`, `MCSignIn`, `MCUploadGate`, `MCModeration` | TLC instances of them |
| `ContentStoreProofs`, `ModerationProofs`, `MailQueueProofs`, `AccountsProofs`, `InstanceLocksProofs`, `BackupProofs`, `SignInProofs`, `UploadGateProofs` | theorems about them |

An operator whose comment begins with *Mutant* is no part of a specification:
it is the form a plausible bug would give the definition after it, and the
property named in `PROJECT.json` fails with it.

### ContentStore

State. `files` gives each row id a state (`live`, `trashed`, `overdue`), its
content and its owner; a row id is random and never issued twice, hence `unused`
and `deleted`. `blobs` gives each content its reference count and the roles of
the objects its row names: `original`, a rendition (named by the settings that
made it, or `rebuilt`), and the copies `clean`, `camera`, `location`. A content
without a row has no roles. A thumbnail and its preview travel together and are
one object. `objects` is what storage has. `used` is `users.storage_used`;
`accounts` the rows of `users`; `setting` the rendition settings of the running
server; `holder` the content locks; `pinned` the exclusive object lock.

A handler `p` is a goroutine: `pc[p]` is what it does next, `task[p]` its
locals. Each step is one statement, one storage call, or a return with its
deferred unlock:

| Code | Steps |
|---|---|
| `ingest`, `storeStill`, `storeVideo` | `StartUpload`, `AcquireContent`, `LookUp`, `RefuseMedia`, `Reserve`/`RefuseReserve`, `SaveOriginal`, `SaveRenditions`/`RefuseClip`, `EnsureBlob`, `CreateFile`/`RefuseFile` |
| `recordReused` | after `LookUp` with `reuse`: `Reserve`, `CreateFile`/`RefuseFile` |
| the error exits: `releaseStorage`, `discardFailedUpload` | `Undo`, `Discard`, `Unstore` or the release below |
| `releaseBlob` | `AcquireContent`, `Inspect`, `Erase`, `Drop` |
| `deleteFileAndRelease` (staff) | `StartStaffRemoval`, `DeleteFile`, release, `Refund` |
| `PurgeTrashedFile`, trash and restore | `PurgeTrashedFile`, release, `Refund`; `TrashFile`, `RestoreTrashedFile` |
| `runCleanup` | `StartCleanup`, `ReapFile` with its release and `Refund`, `FinishReaping`, `Scan` |
| `deleteAccount`, `handleAdminRecomputeBlobs` | `DeleteAccount`, `RecomputeBlobRefcounts`, then `Scan` and releases |
| `scopedObjectKey`, `serveObject` | `StartCopy`, `BuildCopy`/`RefuseCopy`, `NoteCopy`, `OpenObject`, `ForgetCopies`; `StartServe` |
| `imvault rebuild-thumbnails`, a backup, a restart | `Regenerate`, `PinObjects`/`UnpinObjects`, `Crash`, `Reconfigure` |

`Faults` says which failures an instance allows: `cancel` (`Abandon`: the
context ends, so nothing the handler would still do is done), `save`, `sync`
(`Save` fails after the rename: `storage/disk.go`), `delete` (any part of a
list), `write`, `read`, `reread` (the read in `discardFailedUpload`) and `crash`.

### MailQueue

A row is `stored`, `sent`, `failed`, with its `attempts` and the time to its
next attempt in units of the backoff's base. A worker is a request or the sweep;
`batch` holds what it listed with the attempt count *as listed*, because
`attempt` writes that count plus one. `Claim` is the conditional `UPDATE`,
`Deliver` the relay's answer (accepted, refused, or accepted and lost),
`MarkMailSent` and `MarkMailAttempt` the writes after it. `Tick` lets time pass
while no delivery is older than `RelayTimeout`. `delivered` counts what the relay
accepted and `unrecorded` those acceptances that nobody can write down any more;
both are there for the properties and no action reads them. `Retriable` says
what an administrator retries: the page offers it for `queued` messages, its
comment speaks of `parked` ones.

### Accounts

`users` gives each account id a row: `stored`, `unused`, or `deleted` (ids are
`AUTOINCREMENT`), its role, whether it is disabled, whether it was given invitation access,
and the code it came by. `invites` gives each code whether it was minted, its
issuer, its limit (0 is none), its uses, whether it is revoked, and how long it
lasts: `forever`, `long` (more than a member may grant), `short`, or `lapsed`.

A request has up to three steps. Which account its session belongs to is read by
`sessionMW` (`AskAdmin`, `AskLeave`, `AskInvites`); what it is about is read next (`Load`; `admit`
in `AskRegister`); then one transaction writes. What the
first two read is in `task` and may be old by the third.

| Code | Steps |
|---|---|
| `handleAdminSetDisabled`, `...SetRole`, `...SetInvitePermission`, `...DeleteUser` | `AskAdmin`, `Load`, then `SetUserDisabled`, `SetUserRole`, `SetUserInvitePermission`, `DeleteUser` |
| `handleAccountDelete` | `AskLeave`, `DeleteUser` |
| `handleCreateInvite`, `handleRevokeInvite` | `AskInvites`, then `CreateInvite`, `RevokeInvite` |
| `handleRegister`, `handleOIDCCompleteSubmit` | `AskRegister`, then `Register` or `RegisterWithInvite` |
| any refusal, error or rollback | `GiveUp` |
| `imvault create-admin`; a deadline | `CreateAdmin`; `Lapse` |

`GiveUp` stands for a taken username, a failed statement and a client that
leaves: `withTx` rolls back, so all of them change nothing. `CreateAdmin` takes
only the shared instance lock, so it may run beside the server.

### InstanceLocks and Backup

An actor is a process (a server, one of a version older than online backups, a
command that works beside a server, offline maintenance) or an activity inside
one (a backup, a deletion of objects). `held` is how each actor holds each of
the four locks and `stage` how far it has come. Each attempt on a lock is a
step: `Enter` (the lifecycle lock), `TakeServerSlot` and `TakeProcessSlot` (a
server's two), `TakeOldSlot`, `PinObjects`, `TakeBackupSlot`, `ShareObjects` (a
deletion, which polls). Who is refused closes what it has, lock by lock and in
the reverse order (`Release`), and a process that dies takes its activities
with it (`Crash`).

`Backup` adds what is behind the locks: `rows` of contents, the objects in
`store`, the published `dirs`, and what each backup (`job`), scheduled command
(`rota`), migration (`move`) and `restore` has done.

| Code | Steps |
|---|---|
| `maintenance.Backup` | `StageDirectory`, `Snapshot`, `CopyObject` for each key, `Publish` (the rename), `SyncParent` |
| `backup --output-dir` | `LockDestination`, `Mark`, `SyncMark`, `ListSnapshots`, `RemoveSome`, `RemoveRest`, `UnlockDestination` |
| `maintenance.Restore` | `StartRestore`, `PublishRestore` |
| `migrate-storage` | `StartMove`, `MoveObject`, `EndMove` |
| the server meanwhile | `Upload`, `Derive`, `Discard`, `StartDeletion`, `DeleteObject`, `EndDeletion` |

Faults: any process dies between two steps; `PowerFails` forgets what is not
synced; `LoseObject`, `LoseMoved` and `LoseCopy` lose or damage an object in
the store, at the destination of a migration and in a published directory.

### SignIn

A password is its version, a secret or a set of recovery codes a number drawn
afresh, and an authenticator's code the secret with the time step. `account`
are the rows of `users`; `session`, `token`, `keys`, `codes` and `identity` the
tables around it. `task[p].row` is the account as handler `p` read it at its
start; every later step of `p` decides by that, and writes under the condition
of its `UPDATE` in the store. Requests run in several steps:

| Code | Steps |
|---|---|
| `handleLogin`, its second step, recovery codes | `AskLogin`, then `Open`, or `Forget` and `Mint` (a pending sign-in); `AskSecondStep` (the token), `ResolvePending` (the account), `CheckStep`/`CheckRecoveryCode`, `SpendPending`, `Open` |
| a forgotten password, `ResetPassword` | `AskReset`, `Forget`, `Mint`; `FollowReset`, `Reload`, and on as in a sign-in |
| the settings page's forms | `AskSettings`, `Prove` (or a recent proof), then `ChangePassword`, `ChangeEmail`, `MintKey`, `BeginTOTP`, `EnableTOTP`, `ReplaceRecoveryCodes`, `DisableTOTP`, `DeleteUser`, `UnlinkIdentity`; then `EndSessions`, `Open` where the code rotates the session |
| administrators | `AskClear`, `SetUserDisabled` with `EndSessions` or `FailToEnd`, `EndKeys` |
| verification links | `FollowVerify`, `ReadAddress`, `ConfirmAddress` |
| the provider's callback | `Callback`, `CallbackByAddress`, `Complete`, `AskConnection`, `LinkIdentity`, `Register` |

A session, a token and a key record the account as it was when they were granted
(`at`), the password they rest on (`pw`), and whether the account had changed under
the request that granted them (`late`). So the properties say two things apart. What
is granted is ended by the next change of the password, or of the factor, or by
disabling, whether it was late or not. And what was not late was granted on the
password and the factor of its moment. `abandoned` are the accounts whose sessions
or keys a request failed to end: `DeleteSessionsForUser` or `DeleteAPIKeysForUser`
failed, which the code logs and goes on, or the request died between the change and
the clean-up. `confirmed`, `spent`, `replayed`, `proven` and `abandoned` are history:
no guard reads them.

Three things the code lets happen, which the properties except by name.
A request that has checked a password, or has found its pending token
(`AuthTokenValid` reads the token and then the account), opens its session even if
the password is changed or reset before it gets there: that session rests on the old
password and stays until the next change, so `docs/security.md:55` (password changes
revoke older sessions and pending sign-ins) does not reach it. In the same way a
login that checked an account just before it was disabled leaves a session, and a
settings request a key, that work again once the account is enabled. And a reset link opens a
session for a disabled account (`handleReset` does not look at `Disabled`); every
request through it is refused while the account stays disabled.

### RateLimit and UploadGate

Credit is counted in clock ticks, so the float arithmetic is exact. `Charge` is
`Limiter.Allow` under its mutex, with the sweep, the eviction and the recency
list; the time `n` it works with was read before, by `ReadClock`. `budget` is
the bucket a key would have if nothing were forgotten, `late` how long its
requests took from the clock to the mutex.

A request is the list of steps its handler takes (`Plans`): an upload reads the
clock, is charged, takes a processing slot, reads its body, and answers while it
still holds the slot; an export takes the export slot and sends; a downloaded
photograph takes both. `Acquire` is the fast path, `Queue` the waiting, and then
whichever of slot, timer and the client's leaving is ready is taken, in any
order, as Go's `select` does. `End` runs the deferred releases.

### Sharing and Moderation

Rows of `file`, `album` and `tag`, and the tables that join them. The predicates
(`CanView`, `CanChange`, `CanDelete`, `CanContribute`) and the SQL of every
listing (`VisibilityClause` and the operators after it) are written out one
beside the other, since that they agree is the question. Album ids are numbers that grow with time, so
that `AlbumsVisibleTo` can list the newest `ListLimit`; `ListTags`' limit and the pages
of files are left out, as the properties of those are about what may not be listed. A request that reads a
row and writes it later has two steps with `req[h].row` in between: `AskChange`
and `UpdateFile`, `AskPatch` or `AskEdit` and `UpdateAlbum`, `AskFile` and
`AddFileToAlbum`, `AskLabel` and `AddTag`, `AskShow` and `Send`, and so on; the
bulk operations are one transaction and one step. `Moderation` adds the five
statements with which a report is worked: `AskResolve`, `FindReported`,
`RemoveReported`, `LogRemoval`, `ResolveReport` with `RecordDecision`.

How the modules fit. Each keeps of another's state what it needs:
`ContentStore` pins objects in one step where `Backup` takes four locks;
`Sharing` has files without bytes; `SignIn` has accounts without roles, as the
transactions on roles (`Accounts`) read nothing of sessions.

## 3. Runs

| Run | Instance | Shows |
|---|---|---|
| `content_safety` | 1 content, 2 files, 1 account, 2 handlers, two settings, clean copies; every fault but `reread` | `RefcountsExact`; `FilesReadable`; `ServedIfPresent`; `LiveFilesStay`, an action property; `ImplementsVault`, the refinement |
| `content_collection` | 4 files, 1 account with a quota of two, anonymous uploads, a ceiling of three, 2 handlers; failed saves; fairness | `UsageExact`; `NoStrayObjects`; `LimitsHold`; `UnfiledBytesGo`, liveness |
| `content_reread` | a failed reread | finding: `FilesReadable` is violated |
| `mail_delivery` | 2 messages, the sweep and a request, 2 attempts, any one failure; fairness | `OneAttemptAtATime`; `DeliveredOnce`; `Settles`, liveness |
| `mail_retry` | the same without faults, `queued` messages retried | finding: `DeliveredOnce` is violated |
| `accounts` | 3 accounts of two roles and a code of one use, or 2 of three roles, invitation access and a code of up to two; 2 handlers | `CodesHaveIssuers`; `UsesExact`; `AdminRemains`, `CodesAdmitWhileOpen`, `DelegationBounded`, action properties |
| `instance_locks` | 2 servers, an older one, a command, offline maintenance; 2 backups, 1 deletion; fairness | `OneAtATime`; `SnapshotsPinned`; `DeletionsResume`, liveness |
| `backup` | 1 content, up to 4 names for the same instance, `--keep 2`, one fault; a busy, a quiet, an empty and a moving instance | `BackupsWhole`; `RestoresWhole`; `MigrationWhole`; `RotationKeepsNewest`, an action property |
| `sign_in` | 2 accounts, 1 session, 2 tokens, 2 subjects, 2 handlers; four parts | `CredentialsCurrent`; `DisabledSignedOut`; `FactorConfirmed`; `CodesSpentOnce`; `IdentitiesKept`, an action property |
| `sharing` | four accounts of three roles, 2 files, 2 albums, 2 tags, 2 requests, 2 reports; five parts | `SharedAlbumsFound`; `OwnersDisclose`; `ListingsAgree`; `ActionedMeansGone`; `LogIsTrue`; `LabelsStay`, `RemovalsAreReported`, action properties |
| `sharing_patch` | the same | finding: `OmittedFieldsStay` is violated |
| `gate` | 2 keys in a table for one, 2 requests, one slot per gate; budgets, or slots; fairness | `TableBounded`; `BudgetKept`; `SlotsExact`; `SlotsComeBack`, liveness |

Bounds, and why they suffice. *Content.* The rows of `files` bound the uploads
(`IdsLeft`): two rows of one content are the least with sharing, with a removal
that leaves a reference and one that leaves none. Contents do not interact
(objects, locks and records are per content) except through quotas, whose sums
see only sizes; so one content and unit sizes lose nothing but the arithmetic.
Two handlers give every race of two paths; three would be needed only where two
wait for a third, and the lock lets one in at a time. In `content_collection` the
ceiling of three is above the account's quota of two, and there are four files: an
account's upload can fail its quota with room under the ceiling, or the ceiling with
room in its quota, and either limit can be met exactly. Rows are named
there in the order they are created, since ids are random and nothing depends on them,
and a backup takes the objects' lock while somebody is about to delete, which is when
it matters. *Mail.* Two messages make
batches longer than one, two attempts make a message be retried and parked, a
relay timeout of one under a lease of two lets a delivery be in progress while
the lease runs. One failure per run (`MaxFailures`) is enough to lose each
single write; the backoff's cap is not reached with two attempts, and neither is
the batch limit of 20 or of 200 rows. *Accounts.* Three ids are an issuer and two
newcomers who race for the last use, or two administrators who remove each other
and one who was disabled or deleted before; codes do not interact except through
their issuer, so one is enough. Delegation needs a third role and a limit of two,
one of them for members, and two accounts.

*Locks and backups.* Every kind of process once, and two current servers, is every
pair of kinds that exclude each other. A content is a pair of objects and contents
are copied one by one, so one is enough for `backup`; one fault is any single
loss or power failure at any step. With `--keep 2` a rotation keeps one backup beside
the one just made, so which of the others it keeps matters: three names are the least
for a choice, four for a choice after a rotation that failed, and they are taken in any
order. Four kinds of instance are explored apart: a busy one (content changes while a
backup copies, one name), a quiet one (three backups are rotated, damaged and
restored), an empty one (four are rotated, with nothing to restore) and a moving one
(it is migrated). *Sign-in.* Two handlers are the
race of two requests; two password versions are one change; three drawings are a
first secret, a second one and a set of codes; two time steps make a code be
repeated and be old. One session row is enough as sessions do not interact: what
ends them ends all of an account's. *Sharing.* Four accounts are an owner,
somebody else, a moderator and an administrator; two files and two albums are the
least for a file in two albums, for a slug that is used again, and for a list of one
album (`ListLimit`) to be full; two requests
are a race. *Gate.* One key more than the table holds makes evictions; a bucket of
two requests at two ticks each is empty, partly refilled and full within four
ticks; one slot per gate makes everyone wait.

What a run leaves out, and why. `content_safety` builds copies and changes
settings once the account is gone, not before (`EitherCopiesOrUploads`): the two
halves share nothing but the content. `content_collection` runs `NextServing`,
without staff removals and without `RecomputeStorageUsage`: the first release
bytes twice (below), the second forgets the reservation of an upload under way;
both are true of the code. It also has no cancelled request, no crash and no copy, because
after those the code does leave objects that no record names. `backup`'s server starts
and does not stop, as how it does is the question of `instance_locks`. Deletions succeed there:
the sweep stops at its first failure (`dedup.go:282`), so one object that can never be
deleted keeps the orphans after it waiting, and `UnfiledBytesGo` does not speak of that. `sign_in`
and `sharing` explore the requests that share state together: passwords and
links, the second factor, identities, addresses; albums, what goes out with a
file, tags, favourites, moderation. Failures belong to every part. Every action
fires in some passing run. `sharing` and `sign_in` do not check for deadlock, since their
bounded row ids and versions are used up; everywhere else the system never
stops.

Fairness. A goroutine that can take a step takes one (weak). A Go channel serves
its waiters in order, so `AcquireContent` is strongly fair: a handler waiting
for a content is not passed over for ever. `Erase`, `Unstore` and `ShareObjects`
poll the object lock every 100 ms, and backups come and go, with time between
one and the next: strong. Backups end (weak: they copy a finite list). The
cleanup ticker keeps firing (`StartCleanup`, strong, as it needs a free
handler). For mail, time passes (`Tick`, strong, as a slow delivery disables it
for a while), and the sweep's ticker is in the weak fairness of `Drain`. At the
gate, handlers run, timers and read deadlines fire, and writing to a connection
that is gone fails (weak); when a client takes its answer is its own affair
(`Sent`, unfair). Nothing is assumed of users, of administrators, of clients, of
the relay's answers, or of how long a process runs.

### Findings

Shown by a run:

1. *Shared objects deleted* (`content_reread`). `discardFailedUpload` takes every
   error of its read for "no record", and deletes objects that existing files
   name.
2. *Mail delivered twice* (`mail_retry`). "Retry now" on a queued message resets
   the lease of the attempt in flight. (The page offers it on queued messages,
   while `docs/accounts.md` and `docs/operations.md` describe retrying failed ones.)
3. *A patch that undoes another* (`sharing_patch`). `apiPatchAlbum` writes every
   column of the row it read, though its comment says omitted fields are left
   alone.

Met while modelling, part of the modules' behaviour, and excepted by name in the
property or instance concerned:

- `deleteFileAndRelease` releases storage whether or not its `DELETE` removed
  the row (`handlers_upload.go:772`), so two removals of a file by staff, or one
  racing the purge, leave the account charged for less than it stores.
- After a change of rendition settings an upload of known bytes stores a
  rendition that no record names and nothing collects (`store/blobs.go:43`; the
  comment at `web/dedup.go:28-31` has it the other way round).
- Making an administrator a member leaves its codes open (`store/users.go:312`),
  though the comment at `store/invites.go:143-145` says no code outlives the
  authority that issued it.
- A resolution removes the content before it closes the report
  (`store/reports.go:158-160`), so a moderator whose colleague dismisses the
  report meanwhile has removed the content and closed nothing.
- Between viewing an album and sending the report form its slug may pass to
  another album, and the report is about that one
  (`handlers_moderation.go:134`).
- Which copy of a file is sent is decided on the row read first
  (`web/metadata.go:44`); a stricter choice holds from the next request on.
- A verification link mailed for one address verifies the address the account
  has when it is followed (`handlers_password.go:318`).
- Two requests that each disconnect one of an account's last two ways in both
  count the other (`handlers_account.go:146`).
- An export slot is held until the client has taken the archive
  (`handlers_export.go`, `photo_rotation.go`), and a processing slot until it has
  read the answer to its upload (`handlers_upload.go:173`, deferred release at 127),
  while the server sets no write timeout (`cmd/imvault/main.go:153`): a client that
  stays and does not read keeps them. `SlotsComeBack` promises the rest.
- The list of others' albums ends after 100 and has no second page
  (`store/albums.go:286`), so an older shared album is reached by its link alone,
  though the comment at 275-277 says the list is how it is discovered.
- The number of files printed with an album counts files its viewer may not open, and
  expired ones (`store/albums.go:16`), though the comment at `store/store.go:152-156`
  says that counts cannot disagree with the access checks.
- Between `EnableTOTP` and the end of the older sessions, a password changed
  through one of those gives it a fresh session that did not show the factor.

## 4. Proofs

Every theorem holds for all values of the constants that satisfy the assumption
of its module (`StoreAssumption`, `MailAssumption`, `AccountsAssumption`,
`ActorsAssumption` with `BackupAssumption`, `SignInAssumption`,
`LimiterAssumption` with `GateAssumption`, `SharingAssumption`): any number of rows, contents, accounts,
codes, handlers, processes, backups and requests, any rates, limits and faults.
The assumptions type the constants and keep their values apart;
`StoreAssumption` also makes the row ids and the handlers finite sets, so that what
they add up to is a number (a database and a process have no other), and
`MailAssumption` says that the relay's timeout is shorter than the lease.

| Theorem | Says |
|---|---|
| `StoreTyped` | `Spec => []TypeOK` |
| `RefcountsStayExact` | `Spec => []RefcountsExact` |
| `FilesStayReadable` | if `reread` is not among the faults, `Spec => []FilesReadable` |
| `StoreImplementsVault` | under the same assumption, `Spec => ImplementsVault` |
| `LiveFilesAreKept` | `Spec => LiveFilesStay` |
| `ReadersAreServed` | if `reread` is not among the faults, `Spec => []ServedIfPresent` |
| `FilesKeepToCeiling` | `Spec => []WithinCeiling`, whatever fails |
| `FilesKeepToLimits` | `Spec /\ [][Calm]_vars => []LimitsHold`, whatever fails |
| `UsageStaysExact` | without `cancel`, `write` and `crash`, `Spec /\ [][Calm]_vars => []UsageExact` |
| `NothingIsStray` | without those, `sync` and `delete`, `Spec /\ [][Tidy]_vars => []NoStrayObjects` |
| `VaultReadable` | the vault keeps the bytes of every file it lists |
| `OneAttemptAlways` | if only parked messages are retried, `Spec => []OneAttemptAtATime` |
| `DeliveredOnceAlways` | under the same assumption, `Spec => []DeliveredOnce` |
| `AccountsTyped` | `Spec => []TypeOK`, for accounts |
| `AdminsRemain` | `Spec => AdminRemains` |
| `OpenCodesHaveIssuers` | `Spec => []CodesHaveIssuers` |
| `ClosedCodesAdmitNobody` | `Spec => CodesAdmitWhileOpen` |
| `DelegationStaysBounded` | `Spec => DelegationBounded` |
| `UsesStayExact` | `Spec => []UsesExact` |
| `LocksHeld` | at every step of starting, running and dying a process holds exactly the locks of its place |
| `OnlyOneRuns` | `LockSpec => []OneAtATime` |
| `SnapshotsArePinned` | `LockSpec => []SnapshotsPinned` |
| `WorkUnderLocks` | `Spec => [](OneAtATime /\ SnapshotsPinned)` for `Backup`: with all the work behind the locks, and power cuts, they exclude what they exclude alone |
| `OriginalsStay` | what a backup has yet to copy is in storage, unless storage itself lost or damaged it |
| `BackupsHold` | `Spec => []BackupsWhole` |
| `RestoresHold` | `Spec => []RestoresWhole` |
| `MigrationsHold` | `Spec => []MigrationWhole` |
| `RotationsKeepNewest` | `Spec => RotationKeepsNewest`, for any number of names and any `--keep` |
| `CredentialsHold` | `Spec => []CredentialsCurrent` |
| `DisabledStaysOut` | `Spec => []DisabledSignedOut` |
| `FactorHolds` | `Spec => []FactorConfirmed` |
| `CodesHold` | `Spec => []CodesSpentOnce` |
| `IdentitiesHold` | `Spec => IdentitiesKept` |
| `OwnersDiscloseAlways` | `Spec => []OwnersDisclose`, for `Moderation` and the `Sharing` in it |
| `ActionedContentIsGone` | `Spec => []ActionedMeansGone` |
| `LogTellsTheTruth` | `Spec => []LogIsTrue` |
| `SharedAlbumsAreFound` | `Spec => []SharedAlbumsFound` |
| `LabelsAreKept` | `Spec => LabelsStay` |
| `RemovalsWereReported` | `Spec => RemovalsAreReported` |
| `ListingsAlwaysAgree` | `Spec => []ListingsAgree` |
| `BudgetHolds` | `GateSpec => []BudgetKept` |
| `TableStaysBounded` | `GateSpec => []TableBounded` |
| `SlotsHold` | `GateSpec => []SlotsExact` |

The content store's invariant has three layers, each inductive given the ones
below it.

- `TypeInv`: the shape of the state, and what each label says of a handler's
  locals (`LocalsFit`), for example that the keys it means to delete are keys
  of its own content.
- `CountInv`: a handler inside a critical section holds the lock of its content
  (`LocksHeld`); a content without a record has neither count nor keys; the
  counts are exact; and a handler about to insert a row has a record to count it
  (`Countable`), which no other handler can take away without the lock.
  `RefcountsExact` alone is not inductive: a row inserted without a record would
  be counted nowhere.
- `ObjectInv`: `FilesReadable`, and what each handler relies on between two of
  its own steps (`Relied`): that what it stored or found is still there when it
  records it, and that what it is about to delete is named by no row. The proof
  goes by *where* a step acts: every step that is not of the lock's holder is
  "quiet" about a content (`QuietSteps`), so only the holder's own steps can
  break what it relies on.

The refinement maps a row to the content it names and a content to whether its
original is in storage; each step is a step of the vault or a stutter
(`HandlerVault`, `NextVault`), by `ObjectInv`. The hypothesis on `reread` is
needed: `content_reread` is the counterexample without it.

Two further invariants rest on these. `Purposes` says which operation alone reaches
a label (only `remove` deletes a row unasked, only `reap` reaps); a purge and the
reaper read the row's state in the step that deletes, so `LiveFilesStay` follows.
`ServeInv` is `ServedIfPresent` with `BatchKept`: a reader's file still names the
content it was loaded with, or is gone. It holds because no step takes an object of a
content that a file names (`ObjectsOfFilesStay`), which is `ObjectInv` again.

Usage and quotas compare sums over sets of rows and of handlers. The model's sums are
folds; the proofs count instead. `Total` of a weight is the number of its units,
pairs of a member and a number up to its weight, so that the library's theorems on
cardinality say what a member more or less does (`OneMore`), and a fold is
such a total because no finite set is the smallest for which it is not
(`FoldIsTotal`). `Errands` says what each handler has yet to do: only an upload
stores and undoes, only a removal refunds, and staff about to delete a row know whose
it is. `UsageInv` then is inductive: an account is charged at least for its files
(`Bytes(RowsOwned(u))`) and its claims in flight (`ClaimedFor(u)`), at most for its
quota, and for nothing else if nothing is cut short. Each step moves a claim to a
file, or back, or out (`HandlerCovers`). Two things the code does break it, and
`Calm` names them, no more: a removal by staff of a row that is gone already
(`handlers_upload.go:772`) and a recomputation while a claim is out
(`store/users.go:504`). Both can happen; without `Calm` an account may store more
than its quota. The ceiling needs neither (`FilesKeepToCeiling`): it is measured
over the rows in the statement that inserts one.

`NoStrayObjects` is inductive with `StrayInv`: whoever holds a content's lock is at
work on it (`HoldersWork`) and accounts for what is stored for it and not recorded
(`Accounted`): at `renditions` its original at most, at `undo` no more than the keys it
will delete, at `drop` nothing, and so on along the labels. A step under the lock
leaves its content settled (`HandlerSettled`); every other content it leaves
undisturbed (`ElsewhereUndisturbed`). The hypotheses are what the code needs. A
request cut short, a crash, or a write, deletion or save that fails half way
strands objects, which the code accepts. `Tidy` names the three steps that strand some
although nothing fails: an upload whose rendition the record does not name
(`web/dedup.go:106`), an `EnsureBlob` that replaces the keys of a record nothing refers to
(`store/blobs.go:43`), and a reader that forgets copies which are in storage
(`web/handlers_files.go:136`). TLC finds an object left behind as soon as any one of
the three is allowed.

For mail, `OneAttemptAtATime` is inductive with `Leased`: a message at the relay
is neither delivered nor given up, and what is left of its wait plus the age of
its delivery is at least the lease, so it cannot come due before the relay's
timeout. That is where `RelayTimeout < Lease` is used, and where a retry of
a queued message breaks the argument. `DeliveredOnce` rests on it and on
`Accounted`: a message has at most one delivery more than were counted as unrecorded, and
then either a worker will record it or it is recorded and nobody is at the relay.

For accounts, the invariant `CodeInv` adds to the types that a task knows whom
it acts for (`TasksFit`), that a code not yet minted is blank, and
`CodesHaveIssuers`. `Effects` says once that every step closes codes at most, or
is one of four: somebody joins with a code or without, somebody leaves, a code is
minted; each property then has five cases instead of sixteen. `CodesAdmitWhileOpen`
follows because a redeemable code is not revoked, so its issuer is stored.
`UsesExact` is inductive with it: who joins was not among those who came by the
code, and who leaves stays counted. `AdminRemains` needs only types: whoever is not
the last enabled administrator leaves another (`Another`), and the guard reads
the rows in the transaction that writes.

For the locks, `LockInv` says of each actor which locks it holds at its stage, and
that an exclusive lock is alone. `OneAtATime` and `SnapshotsPinned` follow from what
running maintenance, a server of either kind, a backup or a deletion must then hold.

For backups, `CopyInv` carries what is known of a copy from its steps alone: a
directory is published with all that its inventory names (`Whole`), since what is
left to copy and what has been copied add up to the inventory (`Listed`), and a
restore takes the whole of such a directory or none of it (`Restored`). That a
backup can find what it copies is a property of the locks, so `PinInv` sits on
`LockInv`: a backup at work is past its locks (`UnderLocks`), so no deletion works
beside it; a deletion only has keys of a content whose record is dead
(`Targets`); so the originals of live records, and those a backup has listed, are
unharmed (`Unharmed`). For migrations `Carried` says that one under way has each
original either sound at its destination or still to copy; beside it nothing
works on the instance (`MovesAlone`), so no content becomes live meanwhile. For
rotation `RotaInv` says that whoever is past its backup holds the destination's lock,
that what it made is complete and is not on its list, and that of each name on the
list enough others are newer (`Kept`). The last is inductive only because the oldest
goes first: it is not among those that are newer than the rest (`RemovedRota`).

For sign-in, `SignInInv` has three parts. `Typed` and `Handled` say of each
handler's place what its locals are (`Proper`: the row it read, where it goes next,
what it shows). `Enrolled` relates an enrolment to its history: the secret that is
on was confirmed, every accepted step is at most the recorded one (`StepsBehind`),
and an unused code has not been spent (`CodesBehind`); `CodesSpentOnce` is
inductive only with these. `Granted` relates sessions, links and what handlers are
about to open to the account. Of each record there is a part about itself, which no
later step can change (`SoundSession`: granted in time, it rests on the grounds of
its moment), and a part about the account of now (`HeldSession`: its moment had the
password of now, and the factor and the state of now unless somebody is about to end
it). `EndingStays` is what the second rests on: whatever is about to be ended is
still so after any step of any handler, or has been ended, or is on record as
abandoned.

For the limiter, `Covered` compares a key's bucket with the bucket it would have
if nothing were forgotten: the real one never holds more than the ideal one at
any time to come, but for the delays of its own requests; a swept bucket was full
and an evicted one starts both over. `TableInv` says that the recency list names each
bucket once, by giving the ranks of the list to the keys one to one; so the list is as
long as the table (`LengthCounts`), has a last key when the table is full
(`RanksFill`), and pushing that key out makes room for one (`RoomIsMade`). `Without`
takes keys out of the list by their ranks, and is written without `SelectSeq`, whose
operator argument no prover here can instantiate. Slots are counted: `taken` is the number of
holders (`CountInv`), and a request holds at its place what its list of steps
says (`PlacesInv`), so a release finds what it gives back.

For sharing and moderation, `Writes` says which steps write which table, so that
each table has its few cases. `FilesOK` notes that what a kept file's settings
disclose was opened; with `AlbumsOnlyTighten` (the strictest choice is no looser than
the owner's) `OwnersDisclose` follows for a row read earlier. `Handed` is the heart:
what each request in flight remembers still bears out what it will write. A
resolution about to close a report as actioned has seen its target gone, one about to
record its decision is the one the report shows; an album's change carries a row that
was sensible. It lasts because rows, reports and what was opened only go forward
(`FilesAge`, `AlbumsAge`, `ReportsAge`), so the steps of others do not disturb it
(`HandedStays`). `ListingsAgree` needs no invariant: it holds of every state of the
tables (`ClauseAgrees`).

Only model-checked: liveness (`UnfiledBytesGo`, `Settles`, `DeletionsResume`,
`SlotsComeBack`), which these provers do not reach. Every safety invariant and
action property that a passing run checks is also a theorem. The runs of the findings
show what the hypotheses of `FilesStayReadable` and `DeliveredOnceAlways` exclude, and
that `OmittedFieldsStay` does not hold. `content_collection` checks `UsageExact`,
`LimitsHold` and `NoStrayObjects` on `NextServing`, whose steps are calm and tidy; the
theorems are about all steps, with `Calm` and `Tidy` as hypotheses.

What `RotationKeepsNewest` does not say: `scheduledSnapshots` takes a directory for a
snapshot while its marker and manifest are there, so one whose removal broke off halfway
counts towards `--keep` although it is no longer complete (the comment of
`ScheduledBackup` speaks of "completed snapshots"). With `--keep 2` or more, a marker
whose sync failed and that a power failure then takes, and a clock that moved back,
this can leave fewer complete backups than `--keep`; never fewer than the one just
made.

## 5. Not modelled

Section 1 names what is left out and `PROJECT.json` gives the reason per part.
Whole parts: media and metadata codecs, which turn bytes into bytes;
configuration, command line, templates and packaging; avatars, branding and
profiles, each one value that nothing else reads; running the migrations.

Within what is modelled: names, titles, captions and dates; rotation as an edit of
a file; the bytes of objects (an object is present, absent or, in `Backup`,
damaged; never torn, since `Save` renames a finished file into place); quotas that
an administrator changes while uploads run; the SMTP conversation; digests,
cookies, cross-site tokens and the arithmetic of codes; discovery, token exchange
and signatures of a provider; usernames and the signup switch, which only make a
registration give up; caching headers and range requests; pagination; the cascade
of an account's deletion over its albums, tags and favourites (`Sharing` keeps
accounts and roles fixed; `ContentStore`, `SignIn` and `Accounts` delete them).

## 6. Plan

Every module of section 2 is written, checked and, where section 4 says so, proved.
Of the properties the passing runs check, only the four of liveness have no theorem,
and the provers cannot give them one.
What would come next: avatars and profiles beside the deletion of an account, and
quotas changed while uploads run.
