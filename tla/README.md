# MAEC One Core, specified

MAEC One Core is the identity service of the MAEC One platform: people sign in
once, administrators decide who may use which application and which tool in it,
and the applications ask Core whether a person may come in. This directory holds
TLA+ specifications of it, the TLC configurations that check them on small
instances, and proofs that TLAPS checks for every instance. Paths below are
relative to `src/backend/identity/` unless they say otherwise.

* [The system](#the-system): components, state, operations, hard behaviours
* [The modules](#the-modules): what models what, and how it corresponds to the code
* [The runs](#the-runs): what each shows, bounds, fairness
* [Where the code and its documents disagree](#where-the-code-and-its-documents-disagree)
* [The proofs](#the-proofs)
* [Not modelled, and the plan](#not-modelled-and-the-plan)

## The system

Core is one FastAPI process, or several behind a balancer, over one PostgreSQL
database. A handler is a plain function run in a thread pool; every request has
a SQLAlchemy `Session` of its own (`db.py:40-67`) at READ COMMITTED. Nothing in
Core runs in the background: expired rows are swept by the requests that come
by. So all of its concurrency is *requests that read, decide and write while
others commit*, all of its state is the database (plus a signing key per
process), and all of its timing is comparisons of stored moments with `now()`.

| component | state | operations | hard part | what makes it correct |
|---|---|---|---|---|
| Sessions table (`sessions.py`) | `sessions` rows: absolute and idle end, `revoked_at` | `start`, `check`, `resolve`, `touch`, `end`, `revoke_all`, `sweep` | a touch writes back what was read before a revocation; the sweep runs inside a sign-in | revoked is final; windows inside each other; a new session replaces the browser's old one |
| Signing in and out (`router_auth.py`) | cookies held by browsers | `login`, `change-password`, `logout`, `me` | a slow hash check between reading the account and writing the session; two transactions in a password change | a new password or a suspension ends every sign-in |
| Sign-in lockout (`lockout.py`) | `login_locks` rows per account and address | `locked`, `record_failure`, `clear`, `_sweep` | unlocked read-modify-write; expiry; escalation | five failures lock, never extended, escalating, bounded, per address |
| Changes to people (`accounts.py`, `admin_users.py`) | `users`, `user_roles`, `user_licenses` | grant, revoke, status, delete, create, password, licences | rules counted on one reading and written after | a Global Admin always remains; seats are not oversold; the permissions version moves with access |
| Request identity (`guard.py`, `permissions.py`, `security.py`) | none | `inspect`, `release`, `load_user`, CSRF token | what is true at the door may not be at the write | no door without its check |
| Effective permissions (`resolution.py`, `permissions.load`, `tokens.py`) | `roles`, `role_permissions`, `tool_rules`, `tool_settings` | `resolve`, `covers`, `load`, `to_claims`/`from_claims` | order of steps, specificity, time bounds, scopes | deny wins; the claims say what the database says |
| App gate (`router_gate.py`) | audit rows, looked for before one is written | `check`, `register_features`, `holders` | a dozen readings of a changing database | whoever is let in passed all the steps at some moment |
| Feature reports (`features.py`) | `features`, `retired_features` | `register`, `reviewed`, `remove` | several servers of one app report at once | a removed feature stays away until reported by a new version |
| Roles (`admin_roles.py`) | `roles`, `role_permissions` | create, patch, delete | escalation; holders counted before deletion | nobody hands out more than they hold |
| Tool settings (`admin_tools.py`) | `tool_rules`, `tool_settings` | put rules, put status | replacement of a rule set | versions move |
| OIDC provider (`oauth.py`, `router_oidc.py`) | `authorization_codes`, `oauth_clients` | authorize, token, sweep | two exchanges of one code | spent at most once, before anything else is checked |
| Signing keys (`keys.py`) | `signing_keys`, a key per process | `signing_key`, `ensure_published`, `published_jwks` | instances publishing at once | a published key id never changes its key |
| CSV import (`admin_import.py`) | `import_batches` | validate, commit | preview against commit; `apply` commits before the batch is told | what is applied is what was previewed, and the batch says what happened |
| Command-line import (`import_users.py`) | `users`, `user_roles`, `user_licenses`, a file of temporary passwords | plan, apply, commit | the file is written before the commit | no temporary password is lost, and none in the file is another's |
| Seed (`seed.py`) | whatever is missing | `run`, on every deploy | it runs beside administrators | it gives back what is missing and takes nothing |
| Provisioning rules, application registry, audit trail, configuration, process shell, operator tools, migrations, launcher and screens | see `PROJECT.json` | | mostly single-row edits, parsing or presentation | |

How they interact: `guard.inspect` calls `sessions.resolve` for every request
that carries a cookie, then `permissions.load_user`; `router_auth.login` calls
`lockout` before and after the password check and `sessions.start` on success;
`accounts` calls `sessions.revoke_all`, `lockout.clear` and
`permissions.bump_permissions_version`; every administrative route and the CSV
import go through `accounts`; the gate and the OIDC provider read sessions,
accounts, licences and `resolution`. They share nothing but tables. A token exchange
that has come this far calls `keys.ensure_published` and signs with the key of
its process.

The behaviours that are hard to test are listed one by one, at their lines, in
`PROJECT.json` under `hazards`.

## The modules

| module | models | kind |
|---|---|---|
| `Sessions` | the operations of `sessions.py` as operators from a table to a table | operators |
| `SignIn` | requests over that table: sign-in, use, sign-out, password change, and the account changes that end sessions | state machine, extends `Sessions` |
| `SessionLife` | what a session promises the rest of Core | abstract specification, implemented by `SignIn` |
| `Lockout` | `lockout.py` as the login route drives it | state machine |
| `Accounts` | roles, status, licences, versions and the rules over them, and the runs of the seed beside them | state machine |
| `Resolution` | the decision: `resolve`, `covers`, the claims and back | operators |
| `Decisions` | the tables a decision reads, `load` in its six statements, tokens, and who commits meanwhile | state machine, extends `Resolution` |
| `Features` | reports, marks, removal and retirement of an application's features | state machine |
| `Codes` | authorization codes: issued, exchanged, swept, while people and clients change | state machine |
| `CodeLife` | what a code promises the applications | abstract specification, implemented by `Codes` |
| `Gate` | the gate's `check` and `holders` in a dozen readings, its audit of refusals, and whoever changes what it reads | state machine |
| `Roles` | roles, the names nobody may take, holders, and the provisioning rules that name roles | state machine |
| `Import` | the panel's import over them: preview, new plan, application, the batch | extends `Roles` |
| `ImportUsers` | the command line's import beside it, with its file of temporary passwords | extends `Import`, has the specification |
| `Keys` | signing keys of several processes over one table, and those who verify | state machine |
| `MCSignIn`, `MCLockout`, `MCAccounts`, `MCDecisions`, `MCFeatures`, `MCCodes`, `MCGate`, `MCImport`, `MCKeys` | symmetry sets and inputs for TLC | model checking |
| `SignInProofs` | the type invariant of `SignIn`, what a step may do to a session row, the implementation of `SessionLife`; what a sign-in, a suspension and a new password do to the sessions | proofs |
| `LockoutProofs` | the cap, the count and the moves of locks | proofs |
| `AccountsProofs` | the types under any overlap, and the rules until requests overlap | proofs |
| `DecisionsProofs` | what holds of every decision, over any roles, features, scopes and tables; of loads that a change falls into; and of what a token's version tells | proofs |
| `FeaturesProofs` | what reports, removals and reviews leave marked | proofs |
| `TokenProofs` | every property of `Codes`, `CodeLife`'s promise among them, and of `Keys` | proofs |
| `GateProofs` | every property of `Gate` | proofs |
| `ImportProofs` | every property of the two imports and of the roles under them | proofs |

Conventions that all of them share:

* **Requests.** `Worker` is the set of threads. `req[w]` is what the request in
  flight on `w` has read so far and will go by; `Free` is no request. (In `Keys`
  these are `Thread`, `calls` and `NoCall`: the proofs about tokens take it beside
  `Codes`, so the two share no name.) A request
  is cut where another transaction can get in: after the statements that read
  what it decides on, and after each commit. From the first UPDATE of a row to
  the commit is one step, since the row lock keeps other writers of that row
  out and readers see only the commit.
* **What the ORM writes.** SQLAlchemy emits only columns whose new value differs
  from the loaded one. So a write is modelled as a change to the row *as it is
  now*, of the columns that differ *from the row as it was read*. This is why
  requests carry `touch` (the columns a touch will write) and `due` (whether
  `must_change_password` was already set).
* **Refusals.** `Refuse` (`Break` in `Lockout`, `Abort` in `Gate`, `RefuseRole`,
  `RefuseImport` and `CliEnds` in the import, `Finish` and `Stop` in `Keys`) is
  every answer that commits nothing more: a rule that refuses, a row that is
  gone, a process that dies. Audit rows are left out where no rule reads one,
  which is everywhere but in the gate.
* **Time.** `now` is a discrete clock and `Tick` moves it; requests take their
  moment at the line that calls `now()`.
* **History data.** `issued`, `minted`, password numbers, `answered`, `drawn`,
  `reported`, `unreviewed`, `bound`, `tokens`, `signed`, `cached`, `given`, `applied`,
  `handed`, `runs`, `seen`, `fit`, `peak`, `contested`, `lost`, `overtaken` and
  `overlap` are not in the program. They remember which ids were issued, which
  password proved a session, how many failures were answered, which keys were used, what the last report
  named and what nobody has reviewed since it was reported, what a code was
  issued for and which tokens it gave, which keys verifiers have fetched, which
  seats a run of the seed gave, how often a batch was carried out, which run's
  password each person was handed, what has changed since a call of the gate
  began and who deserved its answer, how many calls there have been at once, and
  what a promise excludes: that any requests have overlapped (`overlap`), that two
  commits of one batch have, or one was cut off between its transactions
  (`contested`), that a commit was done and its answer lost (`lost`), and that an
  administrator committed on a reading another's commit had changed (`overtaken`).
  No guard reads them, but for ids, codes and keys being drawn only once and
  presented only when somebody was given them, and for the bounds.

### `Sessions`, `SignIn` and `SessionLife`

`sessions` is the table, a function whose domain is the ids that have a row.
`users[u]` keeps of the account its status, its password (a number, and who
chose it), whether the hash is one `needs_rehash` replaces, and
`must_change_password`. "suspended" stands for both statuses that are not
active, because no rule here tells them apart.

| action | code |
|---|---|
| `LoginRead`, `LoginSucceed` | `router_auth.login`: the reading and the password check, then re-hash, `sessions.start`, commit |
| `Arrive`, `Pass` | `guard.inspect`: `sessions.check`, then `touch` with its own commit and `load_user` |
| `Logout` | `router_auth.logout` |
| `ChangePassword`, `Restart` | the two transactions of `router_auth.change_password` |
| `AdminRead`, then `SetUserStatus`, `ResetPassword`, `RevokeSessions` or `DeleteUser` | the routes of `admin_users.py` into `accounts.py` |
| `AdminRead`, then `SeedReset` | `seed._user` where `SEED_RESET_PASSWORDS` is set: a new password, every session revoked, `must_change_password` left alone |
| `CreateUser` | `accounts.create_user` |

A request may present any id ever issued, because a browser may keep a cookie it
was told to drop. A sign-in with the wrong password, or one that the lockout
refuses, writes nothing here; the lockout's own rows are in `Lockout`.

`SessionLife` says what the rest of Core relies on: an id names one person's
session, is issued once, and once closed stays closed. `SignIn` is shown to
implement it with `phase` and `owner` computed from the table. The idle window
is left out of the mapping on purpose: a request that arrived within it may
push it after it has passed, so "idle" is not final and the abstract
specification must not say so.

### `Lockout`

One account and several addresses, since rows of two accounts never meet. A
sign-in is `Attempt` (password check and `locked()`'s reading), then
`AfterExpiry` (an expired lock is reset, which locks the row until the commit),
`Succeed` (`clear`), or `Fail` (`_sweep` and `record_failure`'s reading)
followed by `Record` (its write). `stale` marks a request whose row was deleted
under it; its UPDATE matches nothing, which SQLAlchemy turns into an error.

### `Accounts`

One organisation and one application. A request is `Begin` (the guard and the
route's own loading), `Decide` (the rule of `accounts.py` that may refuse) and
the write. `HoldersSeen` is what `global_admin_holders` is told by the database
*and* by the identity map: accounts this request already loaded answer with the
status they had then. `global_admin` is the role granted at platform scope,
where the unique constraint sees two NULLs as different; `employee` stands for
the roles granted at a scope with an id, which it does protect.

The seed runs on every deploy. `SeedRead` is what a run of it finds missing of
the bootstrap account, its role and its seat (three questions that are asked as one
here), and `SeedCommit` adds it, in one transaction that counts
no seats and bumps no version. A run that misses nothing writes nothing and is no
request. `Bootstrap` are the ids that may be drawn for the bootstrap address: a
deleted account's address may come back under another id, and never twice at once.

### `Resolution` and `Decisions`

`Resolution` is `resolution.py` without its parsing: an input `d` is a
`ResolutionInput`, a table is a function from what it is keyed by, and an absent
row is `Null`. `Decisive` and `ShutOut` are steps 4 and 5 of `resolve`. A tie is
settled by the last conjunct of `Resolve`: every decisive role must say "allow"
and none may be shut out.

`Decisions` has the tables of one person, one organisation and one application.
Initially they hold anything the constraints allow. A load is `Ask` (the guard
has loaded the person), then one `Load` per statement of `permissions.load` in
the order `After`, then `Answer` (`can`, the gate, `holders`) or `Mint`
(`tokens.build_claims`).

| action | code |
|---|---|
| `Open`, `Drop` | what an administrator's request reads; one that is refused, or whose commit fails |
| `ChangeGrant`, `ChangeSeat` | `accounts.grant_role`, `revoke_role`, `assign_license`, `remove_license` |
| `PatchRole` | `admin_roles.patch_role`, of a role no panel protects |
| `PutToolRules`, `PutToolStatus` | the two routes of `admin_tools.py` |
| `RegisterFeatures`, `RemoveFeature` | what `features.register` and `features.remove` do to these tables |

An administrator's request reads at one moment, `Open`, and commits at a later
one, and others may commit in between. `admin[a]` is what it read: the rows it may
change, who holds which role, and the version. What it writes follows from that.
`Bump` writes the version that was read and one (`permissions.py:323-326`); whom it
is for is settled by the grants that were read (`Holds`); only columns that differ
from the reading are sent (`Differing`), and a row that came or went meanwhile makes
the commit fail (`Writable`, a unique or a foreign key, or an UPDATE of no row). A
request makes its readings one after another; here they are one, and those it
makes later are then fresher in the code than in the model. Grants and seats of
one request are one row each. Reports and removals tell nobody and are one step:
what two of them do to each other is the subject of `Features`.

So two requests may write one version, or a lower one than there is, or bump nobody
because they did not see a new holder. `overtaken` counts the commits at which the
person's grants or version were no longer those that had been read; a token keeps
the count there was when its load began. `VersionTellsAdminChanges` is promised
while that count has not moved, and requests may overlap as they like: TLC
finds it violated as soon as the condition is left out.

`reader[w].right` is history: what has been allowed at some moment since the load
began. So `AllowedWasRight` says that one change between two statements never produces an answer of its own. Two changes
may, and the code does not promise otherwise: grants read before the first and
rules read after the second.

### `Features`

One application. `Register` is `register` up to its last reading, with the lock
on the application's row (`SELECT ... FOR UPDATE`), which it holds until
`RegisterCommit`: so reports come one after another. An insert into a table that
refers to the application takes a key-share lock on that row, which the report's
lock keeps waiting; updates and deletions do not. That is why `PutCommit` and
`RemoveCommit` require `~Held` where they insert and nothing else does. A report
carries what it read (`seen`, `known`), and `Stored` writes the columns that
differ from it.

| action | code |
|---|---|
| `Register`, `RegisterCommit` | `features.register` |
| `Put`, `PutCommit` | the two routes of `admin_tools.py`, one row of a panel each, with `features.reviewed` |
| `Patch`, `PatchCommit` | `admin_roles.patch_role` of one permission, with `features.reviewed` |
| `Remove`, `RemoveDelete`, `RemoveCommit` | `features.remove`: the reading of the feature, the deletions, the retired key and the commit |

`Reviewed` is one UPDATE of the feature's row as it is now, if it has one.

### `Codes` and `CodeLife`

An application is one client. `entitled` of an account is what
`permissions.entitled` answers: seat, subscription and organisation together.

| action | code |
|---|---|
| `Authorize`, `MintCode` | `/oauth/authorize`: the guard, the client and the entitlement; then `mint_code` with its sweep, and the commit |
| `Token`, `Consume` | `/oauth/token`: `authenticate_client` and the moment taken before the UPDATE; then the UPDATE of one row or none, and its commit |
| `CheckPerson`, `BuildClaims`, `Answer` | the person as they are now, `build_claims`, the signature |
| `Refuse` | every other end: after a miss the `Reason` that `why_not_redeemable` finds in a second reading, or the rate, or no key to sign with |
| `SetUserStatus`, `SetPassword`, `SetEntitled`, `DeleteUser`, `SetClientStatus` | what `accounts.py` and an operator do meanwhile |

`CodeLife` is the promise to the applications: a code is `unissued`, then
`open`, perhaps `redeeming`, then `closed`; only a code being redeemed gives a
token, which names the grant the code was bound to. `Codes` makes the grant in a
token of what the exchange presented, its client and its address, and of the
person in the row (`Presented`, as `router_oidc.py:276-294`): so that they are
those of the code is not a matter of copying it but of `Redeemable`'s conditions.
The property fails both without these (`RedeemableByAnybody`, its mutant) and
without the condition that the code was not redeemed (`RedeemableAgain`). In the
refinement `phase` is computed from
the table and the requests in flight: a code is being redeemed while some
exchange has spent it, and open while its row could still be redeemed. An
expired code that still has its row is open there, for expiry is
`Redeemable`'s business: `TypeOK` says that no row is redeemed at or after it.

`req[w].fit` is history: whether the person deserved a token at some moment of
this exchange. `TokensAreDeserved` says of two readings what `AllowedWasRight`
says of six: with at most one change in between, they allow nothing that no
moment would have.

### `Gate`

One organisation, one application with one feature. A person has at most one
grant that reaches it; what several roles make of it is the business of
`Decisions`. A call of `check` reads, one statement after the other: session,
account (status and a password that is due), organisation, then `entitled`'s
organisation, subscription and seat, then the same three once more because `load`
begins with them, then grants, rules and statuses. Each is an action, and anybody
may change anything before the next.

| action | code |
|---|---|
| `Check`, `CheckSession`, `CheckAccount`, `CheckOrganization`, `CheckSeat` | steps 1 to 7 of `check` |
| `LoadEntitled`, `LoadGrants`, `LoadRules`, `Decide` | `permissions.load`, and step 8 |
| `Holders` | `holders`, which then loads for one person after the other |
| `RefuseCaller`, `RefuseAs`, `Record` | a refusal: the look for a recent audit row, and the row |
| `Answer`, `Abort` | the answer; a rate limit or a call cut off |
| `SetUserStatus`, `ResetPassword`, `ChangePassword`, `EndSession`, `SetOrganization`, `SetSubscribed`, `SetSeats`, `SetGrant`, `PutToolRules`, `PutToolStatus`, `SetApplicationStatus`, `DeleteUser` | who changes what it reads |

`seen` and `fit` are history: how many changes there have been since the call
began, and who deserved its answer at some moment since. A change that gives and
takes in one commit counts as two, for a torn reading may see one half of it (a
person's own password change ends the session *and* the duty to change it;
deleting an account takes the seat *and* the role that shut the person out). A
call whose entitlement ends between step 7 and `load`'s own question is `lapsed`:
see below.

### `Roles`, `Import` and `ImportUsers`

`Roles` has the roles of an organisation by id, each with the key it keeps and
the name it does not, who holds them, and the provisioning rules. What a role
allows is one flag, which is all that a bump depends on. A change of a role reads
the role, its holders and their versions (`PatchRead`) and writes the columns
that differ and, for each holder it read, the version it read and one
(`PatchCommit`); a deletion counts the
holders (`DeleteRead`) and deletes the role with all that refers to it
(`DeleteCommit`). `CreateRole` needs no reading of its own: what its check may
miss the unique key refuses.

`Import` adds `admin_import.py`. A plan is two readings, of roles and of
addresses: `Validate` and `StorePreview`, then `CommitRead` and `Compare`, which
ends in `MarkFailed`, in a refusal or in `Apply`. `Apply` is one transaction for
every row, and `Finish` the second one, which tells the batch; a process cut off
between them leaves it untold. A role is looked up by the *key* the plan shows, as
`apply` does.

`ImportUsers` adds `import_users.py`, with a lost commit and a lost answer to it.
`CliPlan` is the plan and the question whether the file of temporary passwords
exists; `CliWrite` is `apply` up to the file, whose flushed rows keep others off
these accounts (`Untouched`); then `CliCommit`, `CliCommitFails` (the file is
removed), `CliAnswerLost` (committed, and the file removed all the same) or
`CliEnds` (the file stays). `HandOut` is the operator, who hands the passwords
out and deletes the file.

### `Keys`

A process draws its key when it starts: a configured one (`Configured`, of which
two may have one id) or a throwaway. `ensure_published` is `LookMissing` or
`Accept` or `Conflict`, then `Publish` or, when another process was first,
`PublishRaced` and a second look. A start that meets a conflict ends the process;
a start that fails otherwise does not (`main.py`). `Sign` signs with the key the
process holds. `Retire` is an operator with SQL; `Stop` may come at any moment;
`Fetch` is somebody who verifies tokens and keeps keys by id.

## The runs

All of them set `CHECK_DEADLOCK FALSE`: the bounded clock and counters, and
accounts that are all deleted, end a run without the program being stuck.

| run | instance | shows |
|---|---|---|
| `SignIn` | 1 person, 2 session ids, 2 threads, clock to 3 (absolute 3, idle 2, touch 1, keep 1), 1 new password | whatever overlaps: the tables by their types and windows inside each other (`WellFormed`), a revocation is never undone (`RevokedIsFinal`), a suspension or new password revokes every session there is (`EndsEverySignIn`), signing in ends the session the browser held (`FixationDefence`), the sweep deletes only what ended long ago (`SweepKeepsRecent`), and the table implements `SessionLife`; without overlap: every unrevoked session belongs to an active account and was proved with the password in force (`LiveIsCurrent`), a password an administrator chose is always due for a change (`AdminPasswordIsTemporary`) |
| `Lockout` | 2 addresses, 2 threads, 2 failures lock, base 1, cap 2, forgotten after 1, clock to 3 | whatever overlaps: no lock reaches beyond the cap (`TypeOK`), no sign-in touches another address's lock (`LocksMoveByTheRules`), and every lock ends (`LockEnds`); without overlap: the count locks exactly when it should (`FailuresLock`), a lock in force stands and the next one counts for more (`LocksMoveByTheRules`) |
| `Accounts` | 3 accounts of which 2 share the bootstrap address, 3 grants, 2 threads, 1 seat, versions to 3, 5 requests | whatever overlaps: a deleted account leaves neither grant nor seat and an address has one account (`TypeOK`); without overlap: `SomeGlobalAdmin`, `SeatsPaidFor` (the seed's own seats apart), `OneGrantPerScope`, `VersionMovesWithAccess` (the seed's own commits apart) |
| `Decisions` | 2 roles, 1 module and its one action `configure`, 2 grants one of which ends, 2 administrators' requests and 1 load in flight, 2 commits of any kind, 1 token, clock to 1; to begin with, what there is before or after a first report, for somebody with a seat and both grants | a load disturbed once allows nothing that was refused throughout (`AllowedWasRight`); a live token of the current version answers as Core does, however two administrators' requests overlap, until one commits on a reading that the other's commit had changed, reports and removals apart (`VersionTellsAdminChanges`); whatever two commits make of the tables, a cell that is closed allows nothing and one that is opened refuses nothing, `configure` comes of a role that says so or is a built-in administrator's, and an outranked grant has no say (`Policy`), and the claims lose nothing (`ClaimsCarryTheInput`) |
| `Features` | 2 features, 2 actions, 3 versions of the application, 2 threads, 3 reports, 2 changes | whatever overlaps: the marks are the last report's (`LastReportDecides`), a retired key stays away (`RetiredForEver`), and only what is unreviewed is marked New; without overlap: a removal leaves nothing (`RetiredForEver`), everything unreviewed is marked (`NewUntilReviewed`) |
| `Codes` | 1 person, 2 applications with an address each, 2 codes, 2 threads, a code lives 1 and is kept 0 after, clock to 2, 1 change | whatever overlaps: the table implements `CodeLife`, so a code is spent once, by the client and with the address it was issued for; tokens go to those who deserved them (`TokensAreDeserved`), a refusal is explained by what is true (`RefusalsExplained`) |
| `Gate` | 1 person, 1 session, 1 role, 1 kind of refused caller, 2 threads, windows 1 and 2, clock to 2, 1 change, 3 audit rows; to begin with all is in order or one thing is not | whoever is let in, or named by `holders`, deserved it at some moment of the call (`AllowedWasDeserved`); no window of the audit holds more rows of one refusal than there were calls at once (`AuditBounded`); nothing outlives an account (`TypeOK`) |
| `Import` | 2 people, 3 role ids of which one is built in and one more exists to begin with, 3 names, 1 group, 1 batch, 2 files of two rows, 1 file of the command line, 2 threads, versions to 2, 5 requests, 2 runs | whatever overlaps: an import creates what was previewed or nothing (`AppliedAsPreviewed`); a batch that says success was imported, and, unless two commits of that batch overlapped or one was cut off, one that says anything else created nobody and none is carried out twice (`BatchTellsTruth`); every temporary password is in the file or was handed out, but those of a run whose answer was lost (`TemporaryPasswordsKept`); a change of what a role allows raises the version of everybody who holds it, but of somebody whose grants or version another request changed after the patch read them (`RoleChangesReachHolders`); no grant or rule refers to what is gone (`TypeOK`); without overlap: a role that is deleted has no holder (`RoleChangesReachHolders`) |
| `Keys` | 1 configured id with 2 keys, 2 throwaways, 2 processes, 2 threads | whatever overlaps and whatever stops: a token was signed by the key that is in the table under its id, and no verifier holds another (`TokensVerify`); a call that may sign holds the key published under its id (`KeysTypeOK`) |
| `SignInOldPassword`, `AccountsLastAdmin`, `RoleDeleted` | two overlapping requests | violations, below |

**"Without overlap".** Several promises of the code hold one request at a time
and not otherwise. They are stated on `overlap = FALSE`, which is the state of
every behaviour until two requests are first in flight together; in the runs
with two threads both sides of that condition are explored. Where less than that is
enough, the condition is less: `BatchTellsTruth` sets aside the batches that two
commits were at at once or that was told nothing (`contested`),
`TemporaryPasswordsKept` the accounts of a run whose commit was done and its
answer lost (`lost`), `RoleChangesReachHolders` the one person that another request
changed under the patch (`Overtook`), and `VersionTellsAdminChanges` the tokens
since whose making a request committed on an outdated reading (`overtaken`). TLC
finds each of these four violated without its exception. Where a promise
breaks under overlap, a run of its own shows it or the list below describes it.

**Why the bounds are enough.** Each property compares at most two requests, one
person and one or two rows, and two threads give every pair of them every
interleaving. Clocks run past every window: in `SignIn` a session can be used,
run out idle, run out absolutely and reach the moment it may be swept from a
sign-in at 0. In `Lockout` the clock allows a lock, its expiry and a second, longer one up to
the cap; one address may fail once more than it takes to lock, so that
failures during a lock occur. In `Decisions` it
takes two commits for one request to overtake another, and two commits of any kind -
one may set or clear any cells or rules at once - make many contents of
the tables out of those before and after a first report; `Policy` and `ClaimsCarryTheInput`
are proved of every content. `AllowedWasRight` does not speak of loads disturbed
twice, so the run has a load meet one administrator's request at a time, which may
be the second of two that overlap (`LoadsMeetOne`, its only constraint). Two roles are what a tie takes; the action
`configure` is the one whose decision takes every branch that another's takes and
one more, so a second action would only multiply the contents. In `Gate` the two
windows differ, a row may be exactly as old as each, and more calls may overlap
than one window should hold rows; one change is what `AllowedWasDeserved` speaks of, and
starting with any one thing amiss lets it be put right in the middle of a call.
In `Import` a role id is left to be drawn, so that a role deleted may come back
under the same key or name and another id; two people let one row of a file go
stale and the other not; five requests are a preview, two commits of it and two
more that interfere, and two runs of the command line may meet over one file. Versions
go to 2: a grant, or an import, takes its holder's to 1, and a patch of the role that
is then held takes it to 2. In `Keys` two keys
under one id, throwaways that retire each other and two processes are every pair
that can conflict. In `Features` one version adds a feature, another adds
an action and drops a feature: three reports let a feature appear, go quiet and
come back, and two changes let it be reviewed and removed. In `Codes` the clock
passes a code's expiry and the moment the sweep of the other code's issue may
take it; with one change nothing lies beyond the condition of
`TokensAreDeserved`, which is proved for any number of changes. In `Accounts` one seat is the limit, three
grants let a role be granted twice, and five requests let the bootstrap account be
deleted, seeded again and lose its role.

**Fairness.** Only `Lockout` states any: `WF_vars(Tick)`, time passes. Nobody is
obliged to sign in and no request to finish. `LockEnds` needs nothing else,
because a lock ends by the clock; it is asked of locks that can end within the
bound of the clock.

Every property has a mutant in `PROJECT.json`: a definition changed the way a
plausible mistake would change the code, on which the property fails. The
mutated forms stand beside the originals in the modules, marked `Mutant`.

## Where the code and its documents disagree

Three violation runs, each under `findings` with the sentence it contradicts:

* `SignInOldPassword` - a sign-in that verified the old password before a reset
  commits its session after the reset has revoked every session
  (`accounts.py:314-316` says all are revoked).
* `AccountsLastAdmin` - two removals each count the person the other removes,
  and nobody administers the platform any more (`accounts.py:7-10` says it can
  never happen).
* `RoleDeleted` - a role is granted after its holders were counted and before it
  is deleted; the foreign key takes the grant with it (`admin_roles.py:364-366`
  says a cascade must never strip people silently).

The models reach the following too; the conditioned properties exclude exactly
these behaviours.

In `Lockout`: two failures that both saw no lock both start one, and the later
write moves the end of a lock in force (`lockout.py:13` says never).

In `Decisions`: an application reports a new feature, which is allowed for Global
Admin at once, or a feature is removed; nobody's permissions version moves and a
token minted before still answers otherwise (`tokens.py:55` says every change
bumps it).

In `Features`: `remove` reads that a feature is not reported any more without the
lock `register` takes; a report that brings it back may commit before the
deletion. The feature goes all the same, its key is retired, and every later
report that names it is refused whole (`features.py:251-253` says only a feature
no longer reported can be removed). The permissions that report had added after
the deletion looked them up stay without a feature.

In `Accounts`, of the seed, whose docstring says that a second run changes nothing
(`seed.py:13-14`): a run gives the bootstrap account back after it was deleted,
and its role after it was revoked, without bumping the version that is to report
every change (`models.py:79-81`); it gives its seat back without counting the
seats.

In `Gate`: seat, subscription or organisation may end between step 7 and the same
question at the top of `load`. `load` then returns an empty input, in which no
role reaches the person, and `shut_out` is for people whom a role reaches: the
answer is 200 with an empty list, where `router_gate.py:10-22` has a refusal.
`AllowedWasDeserved` sets these `lapsed` calls apart.

In `Keys`: between `ensure_published` (`router_oidc.py:300`) and the signature a
key may be retired, by hand or by a process with a throwaway of its own, and the
token is signed with a key that `published_jwks` no longer shows (`keys.py:122-123`
says this can never be). `TokensVerify` says what remains true of it: the row is
there, with that key. A throwaway's failed insert surfaces where the other
throwaways are read (`keys.py:138`), by autoflush, outside the `try` that is there
for it.

In `Import`:

* seats are never compared, though the docstring and the refusal name them
  (`admin_import.py:16-17`, 421-424); nor are role ids or what a role allows, so a
  role deleted and made anew under the same key passes;
* a process cut off between `apply`'s commit and the one that tells the batch
  leaves a batch that is pending and done; the next commit of it finds the
  addresses taken and marks it failed. Overlapping commits of one batch end the
  same way, one of them having created the people;
* on the command line, a commit whose answer is lost removes the file of passwords
  of accounts that exist; a process that ends after writing it leaves a file of
  passwords nobody has, which the next run refuses to overwrite.

In `Roles`: a role's deletion takes the provisioning rules that name it, by the
foreign key, where the screen's code is ready to show a rule whose role was
removed (`admin_provisioning._map_json`).

More in the same code, without a run: a switched-off feature that is removed
after `load` has read the registry and before it reads which features are off is
allowed in that answer (`admin_tools.py:21-22` says refused for every person); a report that commits between the
statements that read the role rules and the registry adds a key on which no
loaded role says anything, so a role at a farther scope may decide it in that
one answer (`AllowedWasRight` excludes loads a report falls into); and the
comment on `models.ToolRule` has Full Access grant every action "whatever the
role's own permissions say", which `resolve` does only for a role that allows
nothing in the feature.

In `admin_users.patch_user` a new name is committed before a change of status
that may be refused in the same request; names are not modelled.

The same kind of overlap breaks these too:

* a sign-in that overlaps a suspension leaves an unrevoked session, which works
  again when the account is reactivated (`accounts.py:238-240`);
* the re-hash of an imported password is written over a reset that committed
  meanwhile (`router_auth.py:206`);
* a reset that read `must_change_password` as already set does not write it,
  and a change by the person in between has cleared it (`accounts.py:320`);
* a delayed touch pulls the idle window back (`sessions.py:171`);
* two failures counted from one reading count once (`lockout.py:89`);
* two assignments take the last seat (`accounts.py:446`); two grants of
  `global_admin` both succeed (`accounts.py:165`); two changes write the same
  permissions version (`permissions.py:326`), so that a token minted between their
  commits bears the current version and answers otherwise;
* somebody granted a role after a patch of it has read the holders is told nothing
  of the patch, and somebody whose version another request raised meanwhile may be
  left with the same one (`admin_roles.py:211-216`).

## The proofs

Every safety property that a passing run checks is also a theorem, for every
value of the constants: of people, sessions, roles, features, codes, keys and
files, of threads and processes, of the windows, lengths and bounds. What the
theorems assume is what the modules assume of their constants, which TLC evaluates
on each run:

* `SignIn`: the windows are positive and in order (`config.py` refuses others).
* `Lockout`: two failures at least lock, and the base and the cap are positive.
* `Accounts`: seats are counted, or not limited; the bootstrap account is an account.
* `Decisions`: `Null` and `Never` are not mistaken for a value.
* `Features`: what may be reported is a report.
* `Codes`: a code lives for a positive time.
* `Keys`: configured and throwaway keys are keys, the latter under a throwaway's
  prefix.
* `Gate`: a session is one person's; there are finitely many threads, without which
  calls in flight could not be counted; and in what the tables hold at first no
  session, seat or grant belongs to an account that is gone, as the foreign keys see to.
* `Roles` and the imports: a built-in role has a name of its own from the start, and a
  file is a sequence of rows.

And `Null` (`None` in `Keys`), wherever there is one, is none of the values it stands beside.

| theorem | module | property |
|---|---|---|
| `TypeCorrect` | `SignInProofs` | `TypeOK` |
| `WindowsCorrect` | `SignInProofs` | `WindowsOK` |
| `WellFormedAlways` | `SignInProofs` | `WellFormed`, which is the two above |
| `RevocationFinal` | `SignInProofs` | `RevokedIsFinal` |
| `SessionsImplementLife` | `SignInProofs` | `ImplementsSessionLife` |
| `SignInsEnded` | `SignInProofs` | `EndsEverySignIn` |
| `FixationDefended` | `SignInProofs` | `FixationDefence` |
| `RecentKept` | `SignInProofs` | `SweepKeepsRecent` |
| `LiveCurrent` | `SignInProofs` | `LiveIsCurrent` |
| `TemporaryPasswords` | `SignInProofs` | `AdminPasswordIsTemporary` |
| `TypeCorrect` | `LockoutProofs` | `TypeOK`, the cap among it |
| `FailuresAreCounted` | `LockoutProofs` | `FailuresLock` |
| `LocksMove` | `LockoutProofs` | `LocksMoveByTheRules` |
| `TypeCorrect` | `AccountsProofs` | `TypeOK` |
| `SomebodyAlways` | `AccountsProofs` | `SomeGlobalAdmin` |
| `SeatsBounded` | `AccountsProofs` | `SeatsPaidFor` |
| `GrantsUnique` | `AccountsProofs` | `OneGrantPerScope` |
| `VersionsMove` | `AccountsProofs` | `VersionMovesWithAccess` |
| `TypeCorrect` | `DecisionsProofs` | `TypeOK` |
| `GridMonotone` | `DecisionsProofs` | `GridIsMonotone` |
| `ConfigureStays` | `DecisionsProofs` | `ConfigureStaysWithAdmins` |
| `OutrankedMute` | `DecisionsProofs` | `OutrankedGrantsAreMute` |
| `PolicyHolds` | `DecisionsProofs` | `Policy`, which is the three above |
| `ClaimsCarry` | `DecisionsProofs` | `ClaimsCarryTheInput` |
| `AllowedRight` | `DecisionsProofs` | `AllowedWasRight` |
| `VersionTells` | `DecisionsProofs` | `VersionTellsAdminChanges` |
| `TypeCorrect` | `FeaturesProofs` | `TypeOK` |
| `LastReportAlways` | `FeaturesProofs` | `LastReportDecides` |
| `RetiredAlways` | `FeaturesProofs` | `RetiredForEver` |
| `NewAlways` | `FeaturesProofs` | `NewUntilReviewed` |
| `TypeCorrect` | `TokenProofs` | `TypeOK` of `Codes` |
| `CodesImplementLife` | `TokenProofs` | `ImplementsCodeLife` |
| `TokensDeserved` | `TokenProofs` | `TokensAreDeserved` |
| `RefusalsCorrect` | `TokenProofs` | `RefusalsExplained` |
| `KeysTypeCorrect` | `TokenProofs` | `KeysTypeOK` |
| `TokensVerifyAlways` | `TokenProofs` | `TokensVerify` |
| `TypeCorrect` | `GateProofs` | `TypeOK` |
| `AllowedDeserved` | `GateProofs` | `AllowedWasDeserved` |
| `AuditsBounded` | `GateProofs` | `AuditBounded` |
| `TypeCorrect` | `ImportProofs` | `TypeOK` |
| `BatchesTellTruth` | `ImportProofs` | `BatchTellsTruth` |
| `PasswordsKept` | `ImportProofs` | `TemporaryPasswordsKept` |
| `CommitsAsPreviewed` | `ImportProofs` | `AppliedAsPreviewed` |
| `HoldersAreReached` | `ImportProofs` | `RoleChangesReachHolders` |

The argument about `SignIn`, from the bottom:

1. `Shape`. The type invariant is not inductive alone: a step writes what its
   request carries. `Shape` adds that a request in flight carries an account, a
   password where it proved one and an id that was issued, and that a row's id
   was issued.
2. `KeepsRow` and `KeepsTable` say what every operation on the table leaves of
   a row: same person, same absolute end, `revoked_at` as it was once set, the
   idle end no later than the absolute one. `SessionStep` shows that each action
   of `SignIn` is such a step, or a sign-in's `Start`, or a deletion. The
   first four theorems follow from it.
3. `Bounded` adds that passwords are numbered below the next one to be chosen
   and that no moment in the table is in the future. With it `AccountStep`
   tells which actions may change an account and what they do to its sessions
   in the same commit (`SignInsEnded`), and `Starts` what a commit that adds an
   id did to the browser's old one and to the ended rows (`FixationDefended`,
   `RecentKept`).
4. `Serial` is the invariant of the promises that hold without overlap: until
   two requests overlap, the one in flight is alone, so what it read is still
   true of the tables when it writes (`LiveCurrent`, `TemporaryPasswords`). It
   is needed because neither property is inductive: a sign-in that carries a
   stale password would break both.

The argument about `Lockout`:

1. A power of two is a number, since it counts the subsets of a finite set
   (`PowerType`); so the length of a lock is one, and no more than the cap
   (`LockLengthType`). `CountedRow` says what a failure writes over a row.
2. `Shape` adds to the types that a sign-in in flight has an address, a moment that is
   not in the future and, unless it was told that its row is gone, a row. The cap
   is inductive with it, whatever overlaps: a late writer counts from an early
   moment.
3. `Serial`: until sign-ins overlap there is one at most, the row it read is the row
   there is, and each row's count is what has been answered, with a lock exactly
   from LOCK_AFTER on. Neither half holds without the other: a failure counted on a
   stale row would lose one.
4. `LeavesOthers` needs the types only, so it holds under any overlap: a row that is
   swept was quiet at some moment no later than now. `RowsMove` needs `Serial`.

The argument about `Accounts`: `Shape` is the types, that there are finitely many
seats, and that a request in flight is about somebody. `Serial` says that, until
requests overlap, whoever is in flight is alone, that the rules hold (`Rules`), and that
what the request read, and what the rule allowed it, is so (`Current`). The rules are
not inductive without `Current`: the count of administrators or of seats, taken by one
statement, must still be right at the next one that writes. `BumpMoves` then says that
a write of a request which nobody overlaps moves the version of its target, and
changes nobody else.

The argument about `Decisions` is about the operators first, over any input:
of any grants some are the most specific, because there are four scopes
(`TopExists`); clearing a closed cell changes what no role says
(`ClosingOnlyTakesAway`); opening a cell makes its role allow and silences
nobody, so whoever was decisive still is or is outranked by an allowing role
(`OpeningOnlyAdds`); taking an outranked grant away leaves the decisive ones
(`OutrankedLeavesDecisive`); and each entry of the claims reads back as it was
(`RulesCarried`, `GridCarried`). The invariant `TypeInv` then shows that every
input a load builds is one of these, and keeps its shape while others commit.

`AllowedWasRight` needs to say of a load what it will come to. `Finished(r)` is what it
returns if nothing changes any more. `Undisturbed` says that, as long as nothing has
changed since it began, that is what the tables hold, and after one change that it
allows nothing which was refused both before it and after it, a switched-off
feature that was removed aside. Each statement leaves `Finished` as it is
(`LoadMoves`). Each single change makes of it what there was, or what there is
(`CommitFinished`), but for two: time, which may end a grant that was read
(`TickFinished`), and a removal, which takes the rules of a feature and the feature at
once (`RemovalFinished`).

`VersionTellsAdminChanges` rests on `Tells`: what a load has read so far, or a token
carries, is what the tables have, but for grants that have ended since. `VersionsInv`
says so of every load and token whose version, reports, removals and count of
overtaken commits are the present ones. That no version is later than the present
one (`Earlier`) holds only as long as nobody was overtaken, since a commit on an old
reading may lower it. A request that was not overtaken writes one more than there is
(`RequestCounts`), so it moves the version of whatever it breaks `Tells` of; one that
does not move it changes nothing that a reading had (`ChangeTells`,
`CommittingTells`): it has seen the grants there are, and nobody it left out holds the role. Two inputs that
agree on the grants in force decide alike (`SameDecision`), which gives the
theorem. The lifetime of a token plays no part in it.

The argument about `Features` has two layers. Whatever overlaps, `Shape`: one
report at a time is in flight, since it holds its application's row, and what it
read of features and permissions is so, the marks New aside, which an
administrator may take away meanwhile (`ReadingsHold`); a retired feature that is
still there is not reported (`RetiredQuiet`); what is marked New is unreviewed
(`NewUnreviewed`). Until requests overlap, `Serial`: what is in flight is alone and has
read what there is, a removal leaves nothing behind (`NothingLeft`) and what is
unreviewed is marked (`Marked`).

The argument about `Codes`:

1. `Traced` says that whatever a row or a request knows of a code, the code was
   issued for; `Once`, that a code some exchange has spent, or that gave a
   token, is used up, and that there is one such exchange or token. Together
   they are inductive (`LifeInvAlways`): a step is `Quiet` (it issues, redeems
   and answers nothing), or it is one of the three that `Minted`, `Redeemed` and
   `Answered` describe. Neither is so alone: that an exchange redeems at most
   once rests on the row, and that the row was not redeemed before rests on the
   exchanges in flight and the tokens.
2. Each of the four kinds of step is then a step of `CodeLife` (`LifeStep`).
3. `AllDeserved` is `TokensAreDeserved` made inductive: it adds what each
   reading leaves true for the next one. That a change which ends somebody's
   trust gives no entitlement (`OneThingAtATime`) is what makes two readings
   with one change between them as good as one.
4. `HadNone` says that an exchange whose UPDATE changed no row has no row it
   could change now either, whatever the clock, the sweep and others have done
   since, and `KeptLong` that only time and a deletion take a row away. With
   `Traced` and `Once` they give `RefusalsExplained`.

The argument about `Keys` rests on one fact, that no step takes a row away or
changes its key (`TableStep`). `Known` of a key is that the table has it under its
id; so whatever is known stays known (`KnownStays`). `Everywhere` says that every
token's key and every fetched key is known, and `InFlightInv` that the key of a
call that may sign is. The latter needs that a process does not change its key
under a call: a process that starts has no other call, which is `StartsAlone`. The
conjunction with the types is inductive, and two known keys of one id are one.

The argument about `Gate`:

1. `Good` says of a call in flight what its readings leave true. With no change since
   it began: whoever passed is as the readings said (`Passed`), and who deserves it is
   who deserved it at the start. With one change: each person it still asks about
   deserved it at some moment, or something it has still to read will refuse them
   (`Blocked`).
2. A reading keeps `Good` by itself. A change keeps it because it gives and takes nothing
   at once (`Single`): it is about one thing, or somebody's account and sessions lose by
   it together (`Takes`). The two changes that do more, a person's own new password
   and a deletion, count as two (`DoubleChange`).
3. `RowsBounded` counts rows against calls. A refusal looks for a recent row and writes
   one when there is none. As long as a row is recent, those rows in its window and
   the calls about to write one (`Recorders`) are together no more than the most
   there have been in flight. `AuditBounded` alone is not inductive: it says nothing
   of who has looked and not yet written.

The argument about the imports:

1. `Shape` adds to the types what a request in flight has of its own: the batch it
   commits, the preview it applies, the accounts it has created and those it has
   touched, no two transactions having written to one account (`Apart`).
2. `Told` says of a batch that says it was imported that it was. `OneByOne` says of one
   batch that its commits in flight are one at most, that it is pending while there is
   one, and how often it has been carried out by then; `Orderly` says so of every
   batch that is not `contested`. It is said batch by batch, because what
   other requests do, commits of other batches among them, leaves it alone
   (`Elsewhere`).
3. `Kept` says whose passwords are in the file: between the writing of the file and the
   commit of its run the file is that run's (`FileIsOfRun`); at any time it has no other
   password of somebody who has a temporary one (`FileIsTrue`); and each of those is in
   it, was handed out or is of a run whose answer was lost (`Found`). None of the
   three is inductive alone: a commit makes its passwords findable only because the
   file is still the one it wrote.
4. `Serial` is, as elsewhere, that what a change of a role has read is so until requests
   overlap. It says that a role which goes has no holder, and that nobody is overtaken
   before; that a patch reaches every other holder follows from what it carries, since
   a holder it did not read, or of whom it read another version, is one that was
   overtaken. `AppliedAsPreviewed`
   follows from `Shape` and what a commit writes.

## Not modelled, and the plan

Left to TLC: `LockEnds`, a liveness property, which the prover cannot treat, and the
three runs that show a disagreement, which no theorem could.

Left out for good:

* the guard's route table, the CSRF token, the launcher's return address: functions
  of one request, without state, which their unit tests enumerate;
* what `may_grant` refuses to somebody who is not Global Admin: every route
  that reaches it requires one;
* parsing of files, reports and rules, formatting and wording, configuration;
* rate limits, kept in memory by each process: a limited call is one that ends;
* the audit trail's screens, and its rows outside the gate: nothing reads them to
  decide;
* applications' and organisations' own columns, OAuth settings: single-row edits;
* what the seed creates besides the account: organisation, applications, roles,
  subscriptions, which nothing deletes;
* migrations, the process shell, operator tools, the screens, which present what
  the API answers.

What the plan has left is to extend the proofs to weaker hypotheses. The rules that
hold until requests overlap (`Serial` in five modules) stop at the first overlap,
though many overlaps do no harm: two administrators who change different people,
two failures from different addresses. The next steps, in the order of what they
would add:

1. `FailuresLock` and the moves of locks while sign-ins overlap at different
   addresses only: rows of different addresses never meet.
2. The rules of `Accounts` while requests about different people overlap, and those of
   `Features` while a review overlaps a report.
3. The seat count of `Accounts` under any overlap, bounded by the seats and the
   requests in flight together, as `RowsBounded` bounds the audit.
