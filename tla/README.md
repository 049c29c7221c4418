# Verification of the Jai India file server

The repository is a NestJS server for storing and sharing files: accounts with
three roles, sessions in two JWT cookies, one-time codes sent by e-mail, files
whose metadata are in MongoDB and whose contents are in a Cloudflare R2 bucket,
a trash that a nightly job empties, and folders.  This directory holds TLA+
models of its core, the TLC configurations that check them, and proofs that the
TLA+ proof system checks.  Paths below are relative to `src/src/`.

The server is one Node.js process.  Between two `await`s nothing else runs, and
at every `await` any other request, the nightly job, MongoDB's TTL monitor or a
crash may come in.  So in every module *one action is the code between two
awaited calls that read or write shared state*; a request is a record with a
control state `pc` and the local variables it still needs, in the variable
`reqs`.  A handler of several writes is several actions.  A request that is
refused before it has written anything changes nothing and is not a step
(except in `Otp`, where a refused verification is an answer its caller sees).

## Inventory

| component | state | operations | talks to |
|---|---|---|---|
| OTP service, `otp/` | collection `otps`: hash, user, purpose, file, expiry, attempts, isUsed; a partial unique index, a TTL index | `sendOtp`, `verifyOtp` | MongoDB, Resend (e-mail), bcrypt; called by auth, files and the auth controller |
| Authentication, `auth/auth.service.ts`, `auth.controller.ts` | none of its own: cookies at the client, `tokenVersion` and `refreshToken` in the account | `login`, `refresh`, `logout`, `forgotPassword`, `resetPassword`, `verifyOtp`, resend and request code | users, OTP, transactions |
| JWT guard, `auth/strategies/jwt.strategy.ts` | none | `validate` on every request that is not public | users |
| Users, `users/users.service.ts` | collection `users` | create, update, change password, (de)activate, delete, token version, refresh token, last login, quota | MongoDB; called by auth and the users and admin controllers |
| Roles, `users/users.controller.ts`, `common/guards/roles.guard.ts` | none | who may call which of these on whom | users |
| Seed, `seed.ts` | none | create the superadmin if there is none | MongoDB |
| Files, `files/files.service.ts` | collection `files` | save metadata, list, download, rename, share, move, OTP-gated delete, restore, permanent delete, bulk forms | OTP, R2 |
| Nightly job, `files/files.cron.service.ts` | the list it is working on | `handleExpiredFilesDeletion` | files, R2 |
| R2, `r2/r2.service.ts` | the bucket | presigned upload and download, delete, multipart | Cloudflare |
| Upload, `upload/` | none | validate, presign, multipart | R2 |
| Folders, `folders/folders.service.ts` | collection `folders`: parentId, path, isDeleted | create, rename, move, delete, tree | MongoDB, users (populate) |
| Lists: `users`, `files`, `transactions`, `search` | none: each request is a `find` and a count | one page and the number of pages | MongoDB |
| Transactions, `transactions/` | collection `transactions`, an audit log | `log`, which never throws, and lists | MongoDB; called by auth, users, files |
| Admin statistics, `admin/admin.controller.ts` | none | counts and sums over the collections | MongoDB |
| Notifications, bootstrap, configuration, filters, interceptors | see PROJECT.json | flags nobody sets, wiring | |

What is hard here, and what makes each component correct:

* **OTP service.**  Two `sendOtp` for one key interleave at `updateMany`,
  `create` and the e-mail; two `verifyOtp` read one document, hash for a while
  and write it back; the TTL monitor deletes documents in between.  Correct
  means: the unused code is the newest one, an old one never stands in the way
  of the next, a lock holds, an accepted code is never accepted by anyone who
  asks later, a code bound to a file opens no other file.
* **Sessions.**  Login, refresh and password reset are three to seven awaited
  calls on one account, and any of them may run against each other and against
  an administrator's update.  Correct means: whatever revokes a session leaves
  no stored refresh token behind, a password is written only on proof of the old
  one or of a code, a session ends when the code says it does.
* **User administration.**  The role guard and the checks of a handler read
  accounts; the write comes one to three awaited calls later, by id.  Correct
  means: there is at most one superadmin, whom nobody else demotes or deletes;
  e-mail addresses are unique; a deleted account does not come back.
* **Files.**  Two stores without a transaction: the bucket and the collection.
  A deletion takes a call to each, either may fail, and a restore, another
  deletion or the nightly job may run in between.  Correct means: an object is
  gone before its record, a removed record stays removed, nothing goes to the
  trash without a code and nothing leaves it for good too early, and what is
  left there goes in the end.
* **Lists.**  A page and the count it is divided by come from two queries that
  run at the same time, and a client puts a list together out of several such
  answers while others write.  Correct means: what was there all along is shown,
  once, unless a write that concerns it came in between.
* **Folders.**  A tree kept in two redundant fields, changed by
  read-check-write handlers.  Correct means: the tree stays a tree, deletion is
  final, what is shown ends and is what the listing says, and only a race puts two
  folders of one name in one place.

## Modules

| module | models | extends / uses |
|---|---|---|
| `OneTimeCode` | what the OTP service promises its callers (abstract) | |
| `Otp` | `otp.service.ts`, `otp.schema.ts` call by call | refines `OneTimeCode` |
| `OtpProofs` | theorems about `Otp` | `Otp`, `TLAPS` |
| `Accounts` | what the `users` collection is to those who look an account up (abstract) | |
| `Sessions` | `auth.service.ts`, `jwt.strategy.ts`, the account writes of `users.service.ts` | `OneTimeCode`; refines `Accounts` |
| `SessionsProofs` | theorems about `Sessions` | `Sessions`, `TLAPS` |
| `UserAdmin` | `users.controller.ts` behind `roles.guard.ts`, what it calls in `users.service.ts`, `seed.ts` | refines `Accounts` |
| `UserAdminProofs` | theorems about `UserAdmin` | `UserAdmin`, `TLAPS` |
| `Files` | `files.service.ts`, the cron job, the bucket | `OneTimeCode` |
| `FilesProofs` | theorems about `Files` | `Files`, `TLAPS` |
| `Folders` | `folders.service.ts` | |
| `FoldersProofs` | theorems about `Folders` | `Folders`, `TLAPS` |
| `FolderTree` | `getFolderTree`, `buildTree` | `Folders` |
| `FolderTreeProofs` | the theorem about `FolderTree` | `FolderTree`, `FoldersProofs`, `FiniteSetTheorems`, `FunctionTheorems` |
| `Listing` | `findAll` of users, files and transactions, `search.service.ts`, the overview of `admin.controller.ts` | |
| `ListingProofs` | theorems about `Listing` | `Listing`, `TLAPS`, `FiniteSetTheorems` |
| `MCOtp`, `MCSessions`, `MCUserAdmin`, `MCFiles`, `MCFolders`, `MCListing` | values and symmetry for TLC | |

### OneTimeCode and Otp

`Otp` keeps the collection as a sequence `otps` in order of insertion; a document
the TTL index has deleted stays in the sequence with `stored = FALSE`, so that a
verification in flight can still find it missing.  `codeHash` is the code itself
and `bcrypt.compare` is equality.  `sendOtp` is `SendOtp` (arguments and the
expiry date, computed before the first await), `SendInvalidate` (`updateMany`),
`SendCreate` or `SendCreateDuplicate` (insert, or error 11000 from the unique
index), `SendEmail` (which may fail and leaves the document).  `verifyOtp` is
`VerifyFind` or `VerifyReject` (`findOne` and the checks) and, after bcrypt,
`VerifySave` or `VerifySaveMissing` (`save()` writes the modified paths only).
`Restart` drops all requests, `TtlDelete` is MongoDB's.

`OneTimeCode` has three variables: the codes issued, the set of live ones and
what each request has asked.  Its actions are what callers rely on: `Issue`,
`Revoke`, `Ask`, `Accept`, `Refuse`, `Release`.  Two requests that both asked
while a code was live may both be accepted, since the code reads and writes in
two steps; afterwards the code is never live again.  `Otp` implements it under
the mapping at the end of `Otp.tla` (`live` is the set of active documents,
`asked` follows from `pc`).  `Sessions` and `Files` call the OTP service through
the actions of `OneTimeCode`, so what is shown there holds over the service as
it is, and their state spaces stay small.  That they do nothing else to the codes
is a theorem of each (`UsesOneTimeCode`).

### Accounts

`Accounts` is the collection with everything left out that is not about which
account there is: an account is registered, changed and deleted, an address
belongs to one, and the role `Root` is never given to an account there is: it
comes with a registration, and may be given up.  `UserAdmin` implements it with
`Root` the superadmin; its request states, stale reads and guards do not show.
`Sessions` implements it too, with a `Root` that no account has there: its
writes of passwords, tokens and activity are stutters, `deleteUser` and `update`
are one step each.  So the two modules, which look at one collection from two
sides, agree on what the collection does: what `Sessions` lets administration do
in one step stays within what the collection may do under `UserAdmin`.

### Sessions

`users` is the collection, `sessions` the token pairs signed so far.  A document
that is read for a check is read through `AuthView`, which does what the
queries' `select` does: `tokenVersion` is `select: false` and comes back
undefined (`Null`).  A stored refresh token is the token and the number of times
it was hashed.  Each awaited call of `login`, `refresh`, `changePassword`,
`toggleActive`, `forgotPassword`, `resend-otp`, `verify-otp` and `resetPassword`
is an action (`sendOtp` behind two of them is `SendOtp`, `SendOtpCreate`);
`update`, `deleteUser` and `logout` are one write each.  The passwords of a
request are chosen where the handler compares them, since nothing looks at them
before.  `Authenticated(s)` is the guard. `sessions[s].under` records, as
history, the account a refresh token was stored under.  A `changePassword` that
is about to save keeps the password it read (`found`) and the one it was shown
(`shown`), a `resetPassword` keeps the code it asked for until its write:
`PasswordChangeIsProven` compares what the writing request holds. Who may call
the administrative operations is left open here: any of them may happen at any
time, in one step.

### UserAdmin

The same accounts without passwords and tokens, and the same operations with
everything `Sessions` leaves open: who asks, and what is read when.  A request
keeps the role its user had when the guard let it in (`actorRole`), the id in
its route and the fields of its dto.  `create` is `Create` (guard and the check
of the role asked for), `CreateCheck` (`exists`), `CreateSave` (insert, after
bcrypt; the unique index may refuse); the checks against acting on oneself compare
the id in the route with that of `currentUser` as texts, while the queries take
hexadecimal digits in either case, so a request names its target and whether it
spells one's own id as the guard does (`ownText`); `update` is `Update` or `UpdateMe`,
`UpdateFind`, `UpdateEmail` when an address is given, `UpdateSave`;
`toggleActive` and `deleteUser` are a read and a write.  `SeedFind` and
`SeedCreate` are the seed script, run by hand and one at a time while the server
serves.  An id is never used twice, so a deleted account keeps its id with
status `deleted`.

### Files

`files` are the documents, `objects` the bucket, `urls` the presigned upload
URLs and multipart uploads (a client may upload again until its URL expires; a
multipart upload has no URL for a part and can only be opened), `cron` the nightly job
with the list it has read.  Every handler that reads, checks and later writes is
two or more actions, and each R2 or MongoDB call of a deletion may fail
(`DeleteFails`, `CronFails`).  The day `now` stands for the clock.  `objects`
remembers that something was deleted under a key (`deleted`, or `void` when
there was nothing to delete) and that a client uploaded again afterwards
(`rewritten`): the history that the properties need.  A user's role does not
change while a request runs: `currentUser` is read once, by the guard.

### Folders and FolderTree

A path is the sequence of names in it.  `OwnerText` is what
`folder.createdBy.toString()` yields after `populate`: a printed document, never
an id; so in the model, as in the code, the owner check of `verifyAccess` never
succeeds and only admins get through.  A creator who has been deleted is
populated as null and the check throws.  `moveFolder` compares the id in the
route with the one in the body as texts, and `findById` takes hexadecimal digits
in either case: `alike` says whether two ids of one folder are spelled the same.
The recursion of `buildTree` is modelled by its calls: `Nested(L, n)` are the
sequences of `n` calls one inside the other, each for a folder whose parent is the
folder of the call before, and every such sequence makes one node of the tree.
Nothing bounds their depth but the folders there are: that calls nest no deeper is
the first part of `TreeShowsRooted`.  `missed` and `stale` are history: the folders
a `create` could not see because they came after it had looked, and that the
parent a request had read was written since.

### Listing

A row is a document that the fixed part of a filter matches, with the value of
the sort field as its key.  `list` says which of the four lists is walked; they
differ in which limits they refuse, whether there is a second page, what
deactivation or the trash do to a row, whether rows can be renamed, moved or
destroyed, and in that `search` reads two collections and has no count.  `Start`
and `Ask` send the request of a page, its `Find` and `Count` come in any order
with writes before, between and after, and `Answer` decides whether there is
another page.  A sort with equal keys is any order, another one each time
(`Orders`); a limit of 0 is no limit, and the sign of a limit does not count
(`Size`).  An answer with a limit of 0 or below numbers no page above zero, and
`search` takes neither `page` nor `limit`: its dto declares only `q`, and
`main.ts:135` has every other key of a query refused.  So such a walk has one
page (`Paged`), and what is beyond it (`Beyond`) is excused.  Limits are whole
numbers; the lists of transactions by user and by file cut a limit above the cap
down to it, which is to ask for the cap.  `owed`, `once` and `repeated` are
history: what the client must still be shown, what may not be shown again, and
what was.  A row that comes ahead of an owed one is an excuse only when it comes
between the count and the find of one page (`late`): elsewhere it only shows a
row again, and never hides one. The overview of the administrator is two counts
of one collection, and a difference.  Neither reads what the other writes, so a
walk and an overview are not enumerated at once.

## Runs

| run | asks | bounds |
|---|---|---|
| `otp_race` | type and attempt bound, `ActiveIsNewest`, `DuplicateOnlyUnderRace`, `SettledLockHolds`, refinement of `OneTimeCode` | 2 requests, 2 codes issued, 2 possible values, 2 files, 2 attempts, one tick after which the first code is expired |
| `otp_retire` | `EveryCodeRetires` (liveness) | 2 requests, 2 codes issued, clock to 2 |
| `sessions_account` | types, `StoredTokenMatchesAccount`, `PasswordChangeIsProven`, refinement of `Accounts`, over logins, refreshes, changes, (de)activation, update, delete, logout, resets, code checks and restarts | 2 accounts, 2 addresses, 1 role, 2 passwords, 2 requests, 1 session stored, 1 code issued, versions that add up to 2 |
| `sessions_single` | refutes `SingleSession` | |
| `sessions_refresh` | refutes `StoredTokenIsNoMismatch` | |
| `admin_roles` | types, `OneSuperadmin`, `EmailsAreUnique`, `OnlySuperadminDemotes`, `DeletedAccountIsFinal`, `GrantedByManager`, refinement of `Accounts` | 2 accounts, 2 addresses, 2 requests and the seed |
| `files_trash` | types, `ObjectGoesBeforeRecord`, `RemovedIsFinal`, `TrashNeedsAcceptedCode`, `OnlyOwnerOrAdminDisposes` | 1 file, a user and an admin, 2 requests |
| `files_cron` | `ObjectGoesBeforeRecord`, `TrashNeedsAcceptedCode`, `RetentionRespected`, `ExpiredTrashIsRemoved` (liveness) | 2 files, 1 request, the job, 3 days, 1 restart |
| `files_cronrace` | refutes `CronDeletesOnlyTrash` | 1 file, 1 request, the job |
| `folders_race` | types, `TreeShowsRooted`, `PlacesAgree`, `DeletedIsFinal`, `TwinNeedsRace`, `PathNeedsRace` | 2 folders, 2 requests, a user and an admin |
| `folders_cycle` | refutes `NoFolderInsideItself` | 2 folders, 1 request |
| `lists_walk` | types, `MissedNeedsCause`, `TwiceNeedsCause`, `OverviewOffByWrites` | 3 rows, one of them a folder, 3 keys, a cap of 2, a default of 1, limits -3 to 3, 4 pages |

Four properties say what an operation is answerable for rather than that nothing
ever goes wrong, because something does: `MissedNeedsCause` and `TwiceNeedsCause`
list the writes that shift a page under a client who counts in pages,
`TwinNeedsRace` the race that makes two folders of one name, and `PathNeedsRace`
the one that gives a folder a path its place does not have.  Each fails as soon
as the code loses or doubles a row, makes a twin, or writes a wrong path for any
other reason.
`PasswordChangeIsProven` says which request may write a password: a
`changePassword` that was shown the password it had read, or a `resetPassword`
whose own verification accepted a code of this user and purpose.
`GrantedByManager` says the same of a role or an activity (a request about this
account, asking for this value, let in as a manager's), `OnlySuperadminDemotes` of
the superadmin's demotion, and `TrashNeedsAcceptedCode` of the trash.  In each it is
the writing request that must have the proof, not some request.

Why small is enough: the races of this code are between one stale read and one
other write, so two requests reach them; a third would only repeat what the
second does.  Codes of different users or purposes never meet in a query, so one
key is enough for the races of `otp_race`; `sessions_account` has two users, so
that a code of the one might have served the other.  Its bound on versions is on
their sum, and its view leaves out what a token was stored under once it is
stored no longer, which only `StoredTokenMatchesAccount` looks at, and only
while it is. One role is enough there, since a dto that names a role is
sensitive whatever role it names.  In `otp_race` two files are needed, and
present, for a code bound to the wrong one.  `MaxAttempts` is 2 so that a code
can be tried, tried again and locked by concurrent guesses.  The clock of
`otp_race` makes one step: a code requested before it and inserted after it is
born expired.  Bounds on counters (`MaxOtp`, `MaxCodes`, `MaxSessions`,
`MaxVersion`, `MaxTime`, `MaxRestarts`, `MaxDepth`, `MaxKey`, `MaxPage`) are
constants of the modules and appear only as guards.  In `sessions_*`,
`folders_*` and `admin_roles` deadlock is not checked: when every account has
been deleted, or no id is left for a new one, nothing can happen any more.
`files_cron` starts with both files in the trash (`InitInTrash`), a state the
operations of `files_trash` lead to.

In `lists_walk` three rows are the least for which a row before the page, one on it
and one after it differ; the cap of 2 stands for 100, and a limit above it is
refused by users and transactions and taken as it is by files.  Page numbers below 1 (a negative skip, which MongoDB
refuses) are not enumerated.  `files_trash` has one file, and the races of several
users on it; a code for another file than the one that goes is in `files_cron`,
with two: `softDelete` refuses it, `bulkDelete` (whose code names no file, the value
`Null`) takes it.

Symmetry is used for requests, codes, files and keys in runs without liveness;
no definition chooses among them.

### Fairness

* `otp_retire`: weak fairness of the clock and of the TTL monitor, which wakes up
  once a minute and cannot be disabled by requests.  None for requests: they may
  never arrive, and may die in a restart.
* `files_cron`: weak fairness of the clock, of the start of the job (it is
  scheduled every midnight) and of the job's next step (its calls return, with or
  without an error), and strong fairness of the two deletions of a *healthy* file,
  the assumption that R2 and MongoDB do not fail for it every single night.  For
  other files they may.  Restarts are bounded.

## Proofs

`OtpProofs` proves, for any set of requests, users, purposes, files and codes and
any bounds, and assuming only `OtpAssumption` (positive expiry and number of
attempts, `Null` is none of the other values):

* `TypeCorrect`: `Spec => []TypeOK`, with attempts never above the maximum.
* `ActiveCodeIsNewest`, `DuplicateNeedsRace`: the invariants of the same runs.
* `LockHolds`: the action property `SettledLockHolds`.
* `Refinement`: `Spec => ImplementsOneTimeCode`.

`ActiveIsNewest` is not inductive: that an insert finds no active document says
nothing of the active documents that are older than it unless there is at most
one of them per key.  `OtpInv` in `OtpProofs` adds what is needed: every request
that saves points to a document that exists, was read with fewer attempts than
the maximum, and has the key of the request; the mark taken by `updateMany` does
not exceed the length of the collection; and active documents of a key are
newest.  The action property follows from the invariant step by step, and the
refinement proof maps every action to one of `OneTimeCode` or to a stutter; a
save after the code was used, superseded or expired maps to `Accept` of a code
that is no longer live.

`UserAdminProofs` proves, for any set of requests, accounts and addresses, and
assuming only `UserAdminAssumption` (the seed's address is an address, `Null` is
none of the other values):

* `TypeCorrect`, `AtMostOneSuperadmin`, `UniqueEmails`: the invariants of
  `admin_roles`.
* `DemotedByHimself` (`OnlySuperadminDemotes`), `DeletedStays`
  (`DeletedAccountIsFinal`), `OnlyManagersGrant` (`GrantedByManager`): its action
  properties.
* `Refinement`: `Spec => ImplementsAccounts`.

The roles that `update` and `deleteUser` write to were checked on an account
read earlier, so that no admin demotes the superadmin is not inductive.
`UserAdminInv` says what holds in between: a request that is about to write a
role has a target that is not the superadmin, unless it was let in as the
superadmin's; one that is about to delete has a target that is not; and while the
seed hashes its password nobody is the superadmin.  Since an account that exists
never becomes the superadmin (only the seed's insert makes one), the stale check
is good enough.  Beside it, `GrantsOK` says that only managers' requests carry a
role or an activity.  `Writes` reduces every step to one insert or one rewrite of one
account, and the properties follow from its shape.

`FoldersProofs` proves, for any set of requests, users, folders and names and
paths of any length, assuming only `FoldersAssumption`: `TypeCorrect`,
`DeletionStays` (`DeletedIsFinal`), `TwinsNeedRace` (`TwinNeedsRace`),
`PlacesStayInStep` (`PlacesAgree`) and `PathsNeedRace` (`PathNeedsRace`).  What is
true of the step that writes must have been kept true since the look: `TwinsOK`
says that a `create` that has looked knows, in `missed`, all twins there are by
now, and `PathOK` that a request that has read a parent has its path, or is marked
`stale`.  That the two fields of a place agree (`PlaceOK`) is kept of folders and
of what requests are about to write alike.  That a deletion is final needs that an
id never used is not marked (`FolderOK`) and that requests write to folders that
exist (`RequestOK`).

`FolderTreeProofs` proves `TreeIsRooted`: `Spec => []TreeShowsRooted`, from the same
assumption; `Folder` may be infinite, since only finitely many folders exist at any
time (`FinitelyMany`: a step inserts at most one).  What the recursion of `buildTree`
yields follows without induction over the recursion, because a node is made under a
sequence of calls and those are functions.  Each folder names one parent, so a
folder that came twice in such a sequence would have its parents come twice, up to
the root, which has none: take the first repetition (`NestedOnce`, by the least
element of a set of numbers).  Hence calls nest no deeper than there are folders
(`NestingEnds`, the pigeonhole theorem of the library), and two sequences that end
in one folder are the same (`NestingUnique`).  A shown folder has its ancestors
listed, going up its calls from the last one (`ShownReachesRoot`); and the listed
folders without a node, if one had all its ancestors listed, would contain one in
the root, which has a node (`RootedIsShown`).  Cycles that moves have made are
nowhere excluded.

`FilesProofs` proves, for any set of requests, users, admins, files, keys and
healthy files, any retention and any bounds, assuming only `FilesAssumption` (admins
are users, bounds are numbers, `Null` is none of the other values):

* `TypeCorrect`, `ObjectGoesFirst` (`ObjectGoesBeforeRecord`): the invariants of
  `files_trash` and `files_cron`.
* `RemovedStays` (`RemovedIsFinal`), `TrashNeedsCode` (`TrashNeedsAcceptedCode`),
  `OwnerOrAdminDisposes` (`OnlyOwnerOrAdminDisposes`) and `RetentionKept`
  (`RetentionRespected`): their action properties.
* `UsesOneTimeCode`: `Spec => Otc!OtcSpec`, every step does to the codes what
  `OneTimeCode` allows, or nothing.

The theorems are about `Spec`.  `files_cron` starts elsewhere, with both files in the
trash; its states satisfy `FilesInv` as well, the first one included (TLC checked it
there), and the step from it (`NextInv`) does not ask where a behaviour began.

That a removed document has no object is not inductive, because its object goes a
call earlier.  `FilesInv` says what a request (`RequestOK`) and the job (`CronOK`)
still know when they write: before it removes a document, its object is gone, or was
uploaded anew; before it puts a file in the trash, a code of its user was accepted,
for this file or for none; the owner read earlier still is the owner; and what
is on the job's list was due when the job started, or has been put in the trash
since.  The last part is what a restore and a second deletion during the job leave
of "due", and `deletedAt` never in the future (`DocOK`) keeps it so.  `FilesStep`,
`ObjectsStep` and `CodesStep` say once what any step does to a document, an object
and a code, and everything a waiting request or job knows follows from them.

`SessionsProofs` proves, for any set of requests, users, addresses, roles and
passwords and any bounds, assuming only `SessionsAssumption` (accounts start with
different addresses, which the unique index sees to, `Null` is none of the other
values):

* `TypeCorrect`, `StoredTokenMatches` (`StoredTokenMatchesAccount`): the invariants
  of `sessions_account`.
* `PasswordChangeProven`: its action property `PasswordChangeIsProven`.
* `UsesOneTimeCode`: `Spec => Otc!OtcSpec`, as in `FilesProofs`.
* `Refinement`: `Spec => ImplementsAccounts`, so that `Sessions` and `UserAdmin` are
  both proved to do to the collection what the one registry allows.

`StoredTokenMatchesAccount` is inductive once it is known that the token exists
among those signed (`Fits`); what needs more is the password.  A reset sets it three
calls after it asked about the code, and `RequestOK` follows the code from one to
the next: issued, sent to this user, asked for, accepted; and of a `changePassword`
that it was shown what it read.  Since two accounts never share an address
(`EmailsDiffer`), the account a request looked up by address is the one whose code
it spends.

`ListingProofs` proves, for any finite set of rows, any set of folders among
them, any cap and default, whole limits of either sign up to one above the cap,
and any number of keys and pages, assuming only `ListingAssumption`:
`TypeCorrect`, `MissedHasCause` (`MissedNeedsCause`), `TwiceHasCause`
(`TwiceNeedsCause`) and `OverviewOff` (`OverviewOffByWrites`), the invariants of
`lists_walk`.  The properties speak of the end of a walk; the invariant counts,
at every moment of it, the rows ahead of a row in the order of the list
(`Ahead`).  A row that is owed has at least as many ahead of it as the pages up
to now have taken (`OwedOK`), a row that was shown and is not excused has fewer
(`OnceOK`), and if something is owed the answers so far do not say that this is
the last page (`LastOK`).  Where there is but one page, the client asks once
(`OnePage`), and nothing is owed once the find has answered.  `Place` and its
corollaries relate the count to the sequence MongoDB sorts: a row that shares
its key with no other is at the place the rows ahead of it leave, whatever order
the tied ones come in.  The overview's two counts are each right up to the
documents written since the first (`OverviewOK`), by cardinalities of the sets
counted; a difference of two is then right up to the same number either way, and
a sum up to twice of it.

`FilesInv`, `FoldersInv` and `ListingInv` were checked by TLC as invariants under the
bounds of the runs above before they were proved, and `SessionsInv` under those of
`sessions_account`.

Left to TLC are:

* the liveness properties `EveryCodeRetires` and `ExpiredTrashIsRemoved`, which
  rest on fairness;
* what the code refutes (`SingleSession`, `StoredTokenIsNoMismatch`,
  `CronDeletesOnlyTrash`, `NoFolderInsideItself`): TLC shows a counterexample.

Every other property of a run is a theorem.

## Where the code and its comments disagree

Four disagreements are shown by runs (`expect: violation`), with a finding in
PROJECT.json each: an older session that stays valid after a login
(`sessions_single`), a refresh with the token just issued that is taken for a
mismatch and ends the session (`sessions_refresh`: the token is hashed in
`auth.service.ts:326` and again in `users.service.ts:467`), the nightly job
deleting a file restored meanwhile (`files_cronrace`), a folder that becomes its
own ancestor (`folders_cycle`: it is moved into a folder inside it, or into
itself when its id is spelled otherwise, `folders.service.ts:199`).  These were
met while modelling, are in the models as the code has them, and have no run of
their own:

* A lock is undone by a verification that read the code before it: `attempts` is
  written as an absolute value (`otp.service.ts:112`, `:121`).  `SettledLockHolds`
  is what is true instead.
* `resetPassword` removes the refresh token a second time (`auth.service.ts:290`),
  which ends the session of a login in between.
* A login or a refresh that is on its way when the password is reset, the role
  changed or the account deactivated stores its refresh token afterwards and hands
  out its tokens (`auth.service.ts:87`, `:324`): `StoredTokenMatchesAccount` is
  about what is stored at the time of a change, not about what comes after it.
* `verify-otp` uses up the code that the reset after it needs
  (`auth.service.ts:220`).
* `changePassword` and `toggleActive` write `tokenVersion` as 1 whatever it was
  (`users.service.ts:331`), having read the document without it.
* `changePassword` saves over a password that a reset has set after the old one
  was compared (`users.service.ts:334`).
* `permanentDelete` takes a file that is not in the trash and no code
  (`files.service.ts:151`), while the repository's README says deletion is
  OTP-gated.
* `bulkDelete` verifies a code without naming a file (`files.service.ts:255`), so
  a code requested for one file deletes others of the same user.
* A user with whom a file is shared may put it in the trash
  (`files.service.ts:318`), while the table of roles in the repository's README
  (lines 126 and 127) lets a USER delete his own files only.
* Nobody may change his own role, deactivate or delete himself, by checks that
  compare the text of an id (`users.controller.ts:200`, `:295`, `:324`;
  `users.service.ts:217`).  The queries take the digits in either case, so under
  another spelling of his id a superadmin demotes himself and an admin deactivates
  himself; `users.service.ts:385` still keeps the superadmin from deleting himself.
* When R2 has deleted an object and MongoDB fails, the record stays in the trash
  and can be restored without its content (`files.service.ts:161`, `:354`).
* An admin may not create an admin (`users.service.ts:53`, and the table of roles
  in the repository's README), but makes one of a user by `update`
  (`users.service.ts:222`).
* Nobody deactivates his own account by `deactivate` (`users.controller.ts:295`),
  but an admin does by `update` with `isActive: false`; and an admin may
  deactivate the superadmin either way.
* Two concurrent `create` calls give one place two folders of one name
  (`folders.service.ts:69`; the index is not unique); a rename checks nothing.
* Files stay in a folder that is deleted, and `bulkMove` moves files into one
  (`folders.service.ts:180`, `files.service.ts:288`).
* A `limit` of 0 or below passes the "limit protection" of transactions
  (`transactions.controller.ts:43`, `transactions.service.ts:70`), and files have none
  (`file.dto.ts:65`).  0 means no limit, and the number of pages is a division by
  zero; a negative limit is one of its absolute value, and the number of pages is 0
  or negative, so the rows beyond the first page are lost to who believes it.
* `SearchController` reads `page` and `limit` (`search.controller.ts:22`, `:23`), but
  every query that has one is refused: `SearchQueryDto` declares only `q`, and
  `main.ts:135` forbids what is not declared.  No more than the first 20 files and
  folders that match can be found.
* Lists are sorted by one field (`files.service.ts:89`), so that files with equal
  values may be on two pages or on none.
* A multipart upload can be opened but not completed: no handler signs the URL of
  a part, and nothing ever aborts it.
* Notifications are looked up by `currentUser.id`, which `JwtStrategy.validate` does
  not set, and nothing creates one.
* `app.module.ts` configures rate limits but registers no guard that applies them.
* Renaming or moving a folder leaves the paths below it as they were
  (`folders.service.ts:162`, `:217`), and a `create` or a move that read its parent
  before that still writes the old one.
* The creator of a folder has no access to it unless an admin
  (`folders.service.ts:40`).
* `findAll` of files overwrites the access filter when a search is given
  (`files.service.ts:70`).
* The retention time is looked up as `files.retentionDays`, configured as
  `cron.softDeleteDays`; both default to seven.

## Not modelled

Fields of a dto that are present and null: `update` checks a field when it is
truthy and writes it when it is not undefined (`users.service.ts:212`, `:238`),
and whether null gets there is up to class-validator and Mongoose, which are not
in the repository.  Two runs of the seed at once.  Storage quotas, `lastSeen` and
the date of the last login: stored and shown, never used to decide anything.

Signatures and expiry of JWTs, cookie attributes, rate limits, validation of
DTOs except where it decides what can happen, the text of e-mails and responses,
the audit log (appended to after the operation by a call that never throws and
is never read to decide anything; its list is in `Listing`), the sums of
`storage` and `activity`, notifications (nothing creates one, and no query
matches one), bootstrap and configuration, but for the ends of the process,
which are the restarts of the models.  Lists of one query that others cannot
interfere with (the trash, shared files, download links).  `admin.service.ts`:
nothing uses it.  `select`, `populate` and unique indexes are modelled where
they decide an outcome.

## Plan

Done: `OneTimeCode`, `Otp`, `OtpProofs`, `Accounts`, `Sessions`,
`SessionsProofs`, `UserAdmin`, `UserAdminProofs`, `Files`, `FilesProofs`, `Folders`,
`FoldersProofs`, `FolderTree`, `FolderTreeProofs`, `Listing`, `ListingProofs`.

Next: `Files` over `Folders`, where files stay when folders are moved and deleted.
