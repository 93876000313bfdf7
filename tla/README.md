# FilmBill, modelled

TLA+ models of the FilmBill API (`src/apps/api`: FastAPI, SQLAlchemy on PostgreSQL,
Redis, Celery), the TLC configurations that check them on small instances, and
TLAPS proofs of what holds for every instance. Paths below are relative to
`src/apps/api/`.

Contents: [the system](#1-the-system) ·
[numbers](#2-the-number-series) · [memberships](#3-the-memberships) ·
[tax identifier checks](#4-the-tax-identifier-checks) ·
[second factor](#5-sign-in-and-second-factor) ·
[tax](#6-the-tax-engine-and-its-configuration) ·
[records](#7-the-records) ·
[runs](#8-the-runs) · [proofs](#9-the-proofs) ·
[divergences](#10-where-the-code-and-its-words-part) · [not modelled](#11-what-is-not-modelled) ·
[plan](#12-the-plan)

## 1. The system

One process serves HTTP requests, each in a thread with an ORM session and one
database transaction (`database.py`); a Celery worker and a scheduler run
background tasks against the same database. PostgreSQL runs at READ COMMITTED.
Almost nothing is locked: two places use `FOR UPDATE` (the number series and the
scheduler's `SKIP LOCKED`), the rest reads, decides and writes. That is where the
hard behaviours are.

| component | state | operations | talks to | hard behaviour | modules |
|---|---|---|---|---|---|
| **number series** `services/number_series.py`, `routers/number_series.py` | counter rows, append-only history | allocate under the row lock; create, edit, retire, preview, seed | called by whoever creates a document or a party, in *their* transaction; writes audit events | concurrent draws, rollback after the counter moved, back-dating, edits that loaded an older row | `NumberSeries`, `ConsecutiveNumbers` |
| **companies, memberships** `services/company_service.py`, `routers/companies.py` | memberships (role, expiry, revoked), `token_version` | add, update, revoke a member | auth reads memberships and the version on every request | unlocked last-owner count, read-modify-write version, lapsed rows | `CompanyMembers` |
| **bank accounts** `routers/companies.py:606-902` | accounts with `is_default`, unique IBAN | create, edit, promote, delete | documents read the default | demote-then-promote against a concurrent create, promote or delete | `BankAccounts` |
| **party tree, party numbers** `services/party_service.py`, `routers/parties.py` | type, `parent_id`, archived flag, number, pinned tax code | create, edit, re-parent, archive, reactivate | number series; tax codes ask who is pinned to them | chain walked without locks; a typed number ahead of the counter | `Parties` |
| **recipients, registers** `billing/parties/`, `services/vies.py`, `services/verification/` | addresses, identifiers, the checks made of them | add, replace, retire, reactivate, check, confirm; resolve, preview | VIES, the Australian register; the tax engine | which level's number and which answer counts; a failure dressed as an answer | `Recipients`, `Registers` |
| **tax identifier checks** `services/tax_id_checks.py`, `tasks/tax_id_tasks.py` | append-only checks, a schedule per identifier | check now, scheduled run, record, detect changes, acknowledge | registers, Celery | slow answers out of order, duplicate tasks, retry streaks, lost updates | `TaxIdChecks` |
| **sign-in, second factor** `routers/auth.py`, `services/redis_service.py` | the user's factor columns, Redis code pools, staged enrolment, backup codes | log in, verify, enrol, confirm, disable, regenerate | e-mail, Redis, administrators | two enrolments at once; backup codes rewritten as a list; two mails that would count as two factors | `SecondFactor`, `BackupEmails` |
| **tax engine** `billing/tax/engine.py` | none (pure) | `propose_tax` | tax configuration | precedence, rule order, what blocks | `TaxEngine` |
| **tax configuration** `services/tax_service.py`, `services/tax_country.py`, `services/tax_references.py`, `billing/tax/packs.py` | codes, classes, rules, the country | seed, edit, own rates and cases, change the country | tax engine, region packs | a country change around what users edited; switches of rows that refer to each other | `TaxPacks`, `TaxConfiguration` |
| **administration, setup, invites** `routers/admin.py`, `routers/users.py`, `routers/setup.py`, `services/invite_service.py` | users, roles, statuses, invitations | create the first administrator, promote, demote, deactivate, delete, invite, accept, register | auth | administrators acting on each other; setup reopening | `Accounts` |
| **audit log** `services/audit.py` | append-only events | record in the caller's transaction | everybody | an event of a rolled-back change | one event in `NumberSeries` |
| **e-mail, jobs** `tasks/email_tasks.py`, `tasks/celery_app.py` | broker queue | send, retry, run the hourly schedule | SMTP, everybody | redelivery after a crash | the queue in `TaxIdChecks` |
| **site settings, files** `routers/site_settings.py`, `services/s3_service.py` | one settings row, objects | read, write | - | - | - |
| **notifications, events, health**; **money, IBAN**; **web application** | none to speak of | - | - | - | - |

`PROJECT.json` lists the same components with their status, and under `hazards`
each place where the code can go wrong in a way a test hardly reaches.

**How a request is modelled.** Outside the number series no handler locks what it
reads. `Overlaps.tla` has what they share: a request *begins* (loads rows and
passes its checks), later *commits*, and others may commit in between; the commit
names only the columns whose value differs from what was loaded (`Over`), as
SQLAlchemy's UPDATE does, and a request may die in between (`Rollback...`). A
refused request changes nothing and is no step. `overlaps` counts the requests that
began while another was under way. A property that says `Calm` is about behaviours
without any: what the checks of the code achieve. One that does not say so is about
every interleaving: what the code promises although nothing is locked.

## 2. The number series

`NumberSeries.tla` is one company's counters for one document type.

| model | code |
|---|---|
| `series` | committed rows of `number_series`; an unused id is `NoRow` |
| `allocs` | committed rows of `number_allocations` |
| `audit` | the allocations that a committed `number.out_of_order` event names |
| `lock` | who holds a row's `FOR UPDATE` lock |
| `work[t]` | an allocating transaction: what it read, and what it wrote but has not committed |
| `edit[e]` | a settings request: the row it loaded (unlocked) and the row it wants |
| `Begin`, `Select`, `Wake`, `Missing` | the caller calls `allocate_number`; `active_series(lock=True)` takes the row, queues, wakes to the committed row, or finds nothing (`NumberSeriesMissing`) |
| `Allocate` | `plan_number`, counter flush, savepoint insert, out-of-order event |
| `Collide` | the savepoint fails: `NumberCollision`. No caller catches it, so the transaction ends |
| `Commit`, `Rollback` | of the caller's transaction. `Rollback` is also the crash and the lost connection, and is enabled at every point |
| `Create` | `create_number_series`, with the one-active partial index |
| `LoadForEdit`, `CheckEdit`, `ApplyEdit`, `DropEdit` | `update_number_series`: load, check, UPDATE of the columns that differ (it waits for the row lock), and a request that dies |
| `Init` | `seed_number_series` |

`Allocate` is one step because every statement in it runs under the row lock and
writes rows that nobody else sees before the commit. `NoCollision` does not take
the lock for granted: with `with_for_update()` left out (the mutant
`RowFree_NoForUpdate`) two transactions plan the same value, and TLC finds it.

What is abstracted: a rendered number is the pair (year token or none, value),
which is all that decides whether two numbers are the same string under one
pattern; `{YY}` and `{MM}` tokens, literal text and padding are not told apart. A
date is a number and `PeriodOf` its year. A settings request edits only the
fields in `Edits`, so that one run asks one question.

`ConsecutiveNumbers.tla` is what the engine promises with no database in sight:
one number at a time per bucket (a year, or the whole of a continuous series),
each the successor of the last. `IssuesConsecutively` is the refinement, with
`issued` mapped to the committed values of each bucket.

## 3. The memberships

`CompanyMembers.tla` is one company's memberships and its people's sessions.

| model | code |
|---|---|
| `members` | rows of `company_memberships`; a row not used yet has user `NoUser` |
| `version[u]` | `users.token_version` |
| `tokens[u]` | the `tv` claims of the tokens ever minted for `u`; a token is good while its `tv` is the version |
| `now` | the clock that `CompanyMembership.is_active` compares `expires_at` with |
| `work[q]` | a request: the membership it is authorised by, the row it loaded, the row it wants, the version it read |
| `Authorise` | `get_current_user` and `require("company.members.manage")` |
| `LoadAdd`, `LoadUpdate`, `LoadRevoke` | the three handlers up to their checks |
| `CheckOwners` | `_refuse_last_owner` |
| `Commit` | `grant_`, `update_`, `revoke_membership_and_bump` and the commit: row and version together |
| `Drop` | refused, disconnected or dead before the write |
| `Login` | `_issue_tokens` (and `/auth/refresh`, which mints the same `tv`) |
| `Tick` | time passes; a grant lapses without anybody writing anything |
| `Init` | `create_company`: the company and its owner |

The ORM session is part of the model, because it decides what a stale read does:
a row already loaded keeps its loaded values (`InSession`, `VersionSeen`), while a
query's WHERE clause sees what is committed, and the UPDATE names only the columns
that differ from what was loaded (`WrittenRow`).

Not modelled: the other causes that bump `token_version` (a password change, a
second factor set up or disabled). What is abstracted: `"member"` stands for every role without
`company.members.manage`; the actor's version and membership are read in one step,
though the code reads them in two consecutive statements; e-mails and audit
events are left out, as nothing in these handlers reads them back.

## 4. The tax identifier checks

`TaxIdChecks.tla` is the identifiers of one kind of one party, and everybody who
checks them: beat, which runs `run_due` every hour; the `maintenance` worker, which
takes `check_one` messages; and the requests of `routers/parties.py`.

| model | code |
|---|---|
| `ids[i]` | committed row of `party_tax_ids`: `is_active`, `next_check_at`, `initial_checks_done`, `unavailable_streak`, `needs_attention` |
| `latest[i]` | what `_latest_completed` returns: of the completed rows in `party_vat_checks`, the one with the newest `checked_at` |
| `queue[i]` | messages `check_one(i)` at the broker, the one being worked on included (`acks_late`) |
| `work[s]` | the database session of a worker or a request: the row it loaded and changed, the columns it will write, the answer |
| `RunDue` | `due_identifiers`, commit, dispatch. Rows another session has locked are stepped over: any set of due rows may be the selected one |
| `Take`, `Skip` | `check_one` loads the identifier; a retired one ends the task |
| `Record` | the registry's answer arrives and `record_check` does its work on the loaded row: `detect_changes`, `_advance_schedule`, the flag |
| `CheckNow`, `ConfirmManually` | the same from a request; a confirmation is a `valid` answer nobody was asked for |
| `AddTaxId`, `Supersede`, `Retire`, `Restart`, `Acknowledge` | `create_tax_id`, `update_tax_id` with another number, `retire_tax_id`, `reactivate_tax_id` (and adding a retired number again), `acknowledge_change` |
| `Commit` | UPDATE of the changed columns, INSERT of the check or the new row, commit; a task is acknowledged |
| `Fail`, `Crash` | an exception (acknowledged, as Celery does for a failed task), a lost worker (delivered again) |
| `Elapse` | the clock reaches `next_check_at` |
| `Init` | a party without identifiers |

No row is locked while the registry is asked (eight seconds at worst), so
everything interleaves with it. What decides the outcome is which columns an UPDATE
names: `Written` gives those whose value changed against the row *as loaded*, and
`Updated` lays them over the row as committed by then. `MovedBy` names columns that
change although the abstraction shows one value for both (two different moments).

`checked_at` is the start of the transaction, so of two checks in flight the one that
started later is the latest, whichever commits last. `before` and `overtaken` say so
without a clock: a session remembers who was in flight when it started, and a
completed check that commits overtakes those.

What is abstracted: `next_check_at` is "never", "due" or a future moment named after
what put it there (`series`, `retry`, `regular`); offsets, hours and jitter are not
told apart, a future moment may come at any time. The two counters stop one beyond
the last value a decision looks at. An answer is its status, name, name match and
the two registration flags, all that `detect_changes` compares; name "" is no name.
`Covered` are the identifiers whose country a provider answers about, `Verifiable` is
`is_verifiable(kind)`; a kind can be verifiable and a country not covered. The
primary flag is left out: where its unique index refuses a request, the request
fails (`Fail`). An edit of notes changes nothing here.

## 5. Sign-in and second factor

`SecondFactor.tla` is one account: two ways in (password, mailed code), the pending
token between the factors, enrolment, backup codes and `token_version`.

| model | code |
|---|---|
| `user` | the row's `hashed_password` (set or not), `token_version`, `two_factor_enabled`, `two_factor_method`, `totp_secret_encrypted`, `backup_codes` |
| `codes` | the Redis pools with a live code (`2fa:challenge`, `2fa:enrol`) |
| `staged` | the enrolment waiting to be confirmed (`2fa:setup`, Redis); `mailed` is a note of the model on who staged it, which no step decides by |
| `sessions` | token pairs: their `tv`, and what they rest on: one channel, two, or a confirmation whose requests showed a mailbox and nothing else the account had (`Kinds`) |
| `Login`, `VerifyMagicCode`, `VerifyTwoFactorLogin`, `SetupTwoFactor`, `ConfirmTwoFactorSetup`, `DisableTwoFactor`, `RegenerateBackupCodes`, `SetPassword`, `AdminDisableTwoFactor` | the endpoints of `routers/auth.py` and `routers/admin.py`, up to where the row is loaded |
| `SecondFactorMatches` | `_second_factor_matches`: authenticator, mail, backup code, in that order; a backup code is committed at once by `consume_backup_code` |
| `StagedFactorMatches` | confirm-setup's own check, against the staged factor |
| `Finish...` | what each of them writes and answers, with `bump_token_version` and the tokens it hands out |
| `ClearStaged` | confirm-setup clears what is staged after its commit, whatever is staged by then |
| `Written` | the UPDATE: columns that differ from the loaded row |

A code is "there" or not: guessing, hashing and expiry are left out (an expired code
is one nobody presents). A backup code list is what is left of one set, and `batch`
tells one set from the next.

What a session rests on is the model's account of the evidence, and no handler reads
it. Signing in on a password alone, or on two mails (`KindOf`), is one channel. A confirmation
(`ConfirmedKind`) rests on two when it is the account's first authenticator, or mail
for somebody who came by a password; what a signed-in owner enrols is the owner's
affair. It is `mailed` when who came by mail confirms mail, or confirms in place of an
enrolled account's factor an authenticator that was staged on a mailed code
(`OnlyMailbox`): the secret is known to whoever staged it, so showing it proves
nothing about the account. Two paths of the code end there, and section 10 tells
both. `BackupEmails.tla` (below) has the attempt counter.

## 6. The tax engine and its configuration

`TaxEngine.tla` is `propose_tax`: item override, then party override, then the first
active rule by position whose conditions all hold; a code, or a blocked proposal.
`RulingsOf` says once which rule answers in which context, as no endpoint edits a
rule. `TaxPacks.tla` is `packs.py`: inheritance by `extends` up to
`MAX_EXTENDS_DEPTH`, dropped codes, the checks on the merged pack, which pack a country
gets, packs that cannot be loaded. `Load` is a function of the depth, from the deepest
file up, so that it can be reasoned about.

`TaxConfiguration.tla` is one company's tables.

| model | code |
|---|---|
| `tables` | the company's country, `tax_codes`, `tax_classes`, and which pack's rules it has |
| `Init`, `UpdateActiveCompany` | `create_company` and the first country: `seed_tax_configuration` (`Seeded`) |
| `UpdateTaxCode`, `SwitchTaxCode`, `UpdateTaxClass` | PATCH of a code and of a class; a rate is a class and its code switched together (`Switched`), and `RefersToCode`, `RefersToClass` are `references_to_code`, `references_to_class` |
| `CreateTaxRate`, `CreateNoTaxCase` | `create_rate`, `create_no_tax_case` |
| `ChangeCountry` | `apply_country_change`: `Deactivated`, `Reactivated`, `Target`, `MovingOnto` are the plan's lists, `PackApplied` what comes of them |
| `Commit`, `Rollback` | the changed columns over the rows as they then are; an inserted key somebody else inserted fails the request |

The pack's rules are data: the MC module gives the shipped rule set, two country packs
cut down to the rates that tell them apart, and one broken pack. What the theorems ask of
packs and names (`OwnNamesApart`, `UnsetShipsOff`, `ClassesAgree`, `RulesAgree`,
`RulesHaveReasons`) are operators of this module, and the MC module has TLC evaluate them
on its packs.

## 7. The records

Five components whose rows are edited by requests of the shape of section 1. They
share no state, so `MCRecords` lets each behaviour of the one run pick one of them;
what one does is the same whatever the others do, and TLC is spared their product.

| module | state | actions and the code |
|---|---|---|
| `Parties` | `parties` (type, parent, active, customer, supplier, number, pinned code), `codes` (which tax codes are on), `drawing` and `counters` (which of the customers' and the suppliers' series are active, and their next numbers) | `CreateParty`, `UpdateParty`, `ArchiveParty`, `ReactivateParty` of `routers/parties.py` with `validate_parent` (`ValidParent`) and `build_chain` (`Chain`); `Draws` and `Landing` are `allocate_party_number` inside the write, with the customers' series before the suppliers' and the party saved without a number where the series is missing (`NumberSeriesMissing`); `SwitchSeries` retires a series, revives it or replaces it; `SwitchCode` is the tax code's PATCH with `_parties_overriding_to` |
| `Recipients`, `Registers` | `levels`: a party and its ancestors with addresses, identifiers and the checks of each | the sub-resource endpoints with `_clear_other_primaries` and the two unique indexes; `TaxInputs` is `resolve_recipient` and `tax_inputs`; `Verify` is `services/verification`, `vies.py` and the ABN provider with one retry; `Preview` hands the result to `TaxEngine` |
| `BankAccounts` | `accounts`, and what each request found to demote | `CreateBankAccount`, `UpdateBankAccount`, `DeleteBankAccount`; `SetDefault` is the bulk UPDATE of `set_default_bank_account` |
| `Accounts` | `users` (role, status, deleted, invitation), `setup_complete` | setup, invitation, registering, sign-in codes, and what administrators do; `PastGuard` is `SetupGuardMiddleware` |
| `BackupEmails` | `backups`, and Redis: `mailed` codes and `attempts`, by address | `set_backup_email`, resend, `verify_backup_email` with the counter read before and raised after the comparison; `CodeExpires` |

`Recipients` has requests of one step: it asks what documents would say of rows that
any legal sequence of edits can produce. Interleaving on one identifier's row is
`TaxIdChecks`'.

`Parties` keeps of a series what decides a party's number: whether there is one, and
the next value. The series' row lock is held from the draw to the commit, so the draw
is part of `CommitParty`; how it goes on the locked row is `NumberSeries`'.

## 8. The runs

Every run finishes within three minutes on two cores.

| run | asks | instance |
|---|---|---|
| `allocation` | Is the engine gap-free and collision-free under any interleaving and any failure, with the series retired, revived and replaced, and is it the abstract issuer? Does a counter only move for a reason? | 2 series, 2 requests, 1 editor of `is_active`, 2 dates in 2 years, values 1..3, at most 3 numbers |
| `edits` | What survives switching yearly/continuous and retiring/reviving while numbers are drawn; are late documents audited; does every request end? | 1 series, 2 requests, 1 editor of `reset` and `is_active`, 3 dates in 2 years, values 1..2, with fairness |
| `members_serial` | Are the checks right when requests come one at a time? | 2 people, 3 rows, 1 request, versions 0..3, nothing expires |
| `members_edits` | What can a stale edit not do? | 2 people, 2 rows, 2 concurrent requests, an expiry that lapses and one that never does, versions 0..1 |
| `tax_schedule` | What can a check that answers late, twice or never do to an identifier's schedule, use and flag? | 2 identifiers (one no provider covers, which only ever replaces the other), 1 worker, 1 request, a series of 2, 1 retry, 3 answers |
| `tax_progress` | Is a due identifier checked in the end? | 1 identifier, 1 worker, 1 request, a series of 1, 1 retry, 2 answers, with fairness |
| `second_factor` | Is the second factor whole and provable, whatever overlaps once, and does an enrolled account ask for two channels? | 2 requests, 2 secrets, a set of 1 backup code, versions 0..2, 2 kinds of session, 1 overlap |
| `tax_configuration` | Is every sale priced, and nobody's edit undone? | 3 countries, 4 packs (one broken), 1 own code, 1 own class, rates 0 and 21, 2 requests, 3 edits, 1 overlap |
| `records` | What do the records promise, each component by itself? | 3 rows of each kind, 1 tax code, 1 number of each party series, 2 addresses, chains of 1 and 2 levels, 3 identifiers, 2 requests, 4 edits, 1 overlap |
| `walk_back`, `second_factor_forgotten`, `second_factor_replaced` | the disagreements of section 10 with a run | the smallest instance that shows each |

**What the properties say.**

*Numbers.* `GapFree` and `IssuesConsecutively`: no value is skipped or repeated whatever
fails when, and a replacement series told to start at 2 or 3 goes on from what its year
holds. `NoCollision`: under the lock the planned number is fresh, so the
unique constraints are never what saves the system. `EventForEveryLateNumber`: an
out-of-order event exactly when a later date was numbered before; the decision is
made under the lock and committed later, and still agrees with the history at the
commit. `SwitchesNeverReissue`: mode switches keep the counter ahead of
its year. `CounterMovesWithReason`: a counter moves with a committed number or an edit
that asked for that very value; a rename that loaded an older row does not rewind it.
`EveryRequestEnds`: nobody queues for ever. `IInv` is the invariant of the proof
(section 9), checked here on the instance with edits.

*Memberships.* `AlwaysAnOwner`, `ChangeEndsSessions`: the promises,
which hold one request at a time and break when two interleave. `RevokedStaysRevoked`:
what a request that loaded a row before somebody else changed
it can *not* bring back, under every interleaving, because the UPDATE
names changed columns only. `OnlyOwnersMakeOwners` is run one request at a time and
proved for all.

*Tax identifier checks.* `ScheduledWhileActive`: with a register and an interval, no order of answers,
failures, retirements and restarts leaves an identifier in use without a next check.
`RetriesBounded`, `SeriesBeforeInterval`: a retry is pending only while the streak
allows it, and the interval does not cut the initial series short, although counters
and moment are written over a row that moved on. `RetiredStaysRetired`,
`FlagClearedOnlyByAcknowledge`: a check in flight brings no retired identifier back
and takes no flag down. `DueIsChecked`: a due identifier does not stay due.

*Second factor.* `NeverLockedOut`: one overlap, whatever the two requests write over
each other, leaves no account that asks for a factor it has not got. `OneStory`: with
no overlap the four columns agree. `SignedInOnTwoChannels`: nobody signs in to
an enrolled account on a password alone or on two mails to one box, and no session from
before an enrolment lives on beside it. Sessions that a confirmation hands out are the
subject of `ReplacedOnTwoChannels`, whose run ends in a counterexample.
`BackupCodesSingleUse`: an accepted code is gone, and
comes back only with a whole new set. `ChangeEndsSessions`: older sessions end with
the change. `FactorMovesOnlyProved`: under every interleaving the live factor moves
only by a request that proved the new one or the old, or by an administrator's.

*Tax.* `EverySalePriced`: no sequence of switches, new rates and country changes leaves
an item whose rate is on without a price. `OwnRateUnlessReason`: nobody is charged
anything but the item's own rate without one of the reasons the rules know.
`PairsAgree`: a rate is never left chargeable behind a retired class. `EditsSurvive`:
seeding and country changes, however late they commit, leave what a user typed.
`UnsetStaysOff`: only a person switches on a standard rate of 0 %.

*Records.* `OneLevelEach`: however re-parentings overlap, chains stay shallow, acyclic
and typed. `SwitchStrandsNobody`: turning a tax code off leaves nobody who was priced
through it. `NumberedUnlessMissing`: every creation or edit that leaves a customer or a
supplier draws a number while that series is active, also for one who was left without
while it was retired, and no number in hand is replaced but by hand.
`NothingUntaxedUnproved`: the reverse charge needs the proof of the very number the
document shows. `BlankLevelTransparent`: a level that says nothing changes nothing.
`OneDefault`: a company with accounts has one default. `DefaultOnlyAsAsked`: a stale
form does not give the flag back. `SuperadminRemains`, `DeactivationHolds`: what
administrators can and cannot do to each other. `AddressProved`: a backup address is
verified only by the code of that mailbox. `TriesBounded`: requests in flight slip
past the limit of tries by no more than their number.

**Bounds and why they are enough.** `MaxValue` ends the numbering: a request whose
value would exceed it can only roll back. Two values and two years are enough for
a hole, a repeat, a draw from a closed year and a return to the open one; three let a
replacement series be told to start beyond the next one. Two requests are enough for one
to hold the row and one to queue, and for a stale read against a commit; a third queued
behind them sees what the second sees. `allocation` explores no further than three
numbers in all (`FewNumbers`, a state constraint, in a run without liveness): a fourth
would be the next of a bucket that has had its first, its next and one that repeats.
`MaxVersion` stops commits when a person's version reaches it: one
commit per read is all the two-request run of the memberships needs for a stale write (the first
commit bumps one person's version and the second another's, or the same one read
at the same value), three for the sequences of the serial run; the second factor's
two are enough for a session, a change that ends it, and a change after that.
`MaxTime = 1`: one
moment before and one after a grant lapses. `Never` is the moment after the last.
In `TaxIdChecks`, `MaxQueue` = 1 message of an identifier at a time (a second one
would find the same row; the worker handles one after the other) and `Edited` names
the identifiers requests work on, so the other is only ever a replacement. One worker
is the deployment (`MAINTENANCE_CONCURRENCY` is 1); with a request that checks or
confirms, two sessions are at work on one row, which is where columns are lost. A
series of two has a first, a last and a check beyond the last; one retry has a
failure that is retried and one that is not.
`MaxOverlaps` bounds how many requests begin while another is under way: one overlap
is one stale write, and what a `Calm` property needs is none. `MaxEdits` bounds the
requests of a behaviour of the tax configuration (three: for instance retire, move,
move back) and of the records (four: for instance three parties and a re-parenting).
`MaxSessions` bounds kinds of session (version and channels) at once. `MaxNumber = 1`:
one automatic number of each party series, which a typed one may have taken. Whoever
is created in that run is a customer or has no role (`RolesGiven`); suppliers, and who
is both, come about by edits.
Elsewhere requests return to idle and are reused, so their number bounds
concurrency, not the length of a behaviour.

**Deadlock** is checked except where the bounds on edits and versions let the model
run out of steps (`second_factor`, `second_factor_forgotten`, `tax_configuration`,
`records`): the system itself waits for the next request.

**Symmetry.** `allocation` is symmetric in the transactions only: `NumberSeries`
uses CHOOSE over dates and series for blank records, never over transactions.
`CompanyMembers` uses no CHOOSE, so people, rows and requests are all
interchangeable; so are requests and secrets in `second_factor`, requests in
`tax_configuration`, requests and the three ids in `records` (no CHOOSE ranges over
them). No run with a liveness property uses symmetry.

**Fairness** (`FairSpec` of `NumberSeries`, for `EveryRequestEnds` only). A request that has started
runs: weak fairness on its SELECT and on what follows while it holds the row
(allocate, collide, commit, or fail), since the server runs the handler to its end
and `get_db` closes the session whatever happens. A statement queued on the row is
not overtaken for ever, as PostgreSQL's lock queue is first-in-first-out: strong
fairness on leaving the queue. Nobody is assumed to start a request, to edit, or to
give up while queued.

`FairSpec` of `TaxIdChecks`, for `DueIsChecked` only. Beat runs hourly and nobody
holds a row's lock longer than a commit, so a row that stays due is selected: weak
fairness of `RunDue` per identifier (this assumes the backlog drains; a batch of 25
that is filled by tasks which always raise is listed as a hazard). The worker takes
what waits, registries time out, and of the attempts at one identifier not every one
dies or raises: strong fairness of taking, recording and committing, since a crash or
an exception disables the step each time. Nothing is assumed of requests.

The other components answer a request within the request: nothing has to happen
later, and nothing is assumed.

## 9. The proofs

TLAPS checks these for every value of the constants (any people, rows, series,
dates, requests; the bounds are parameters). The assumptions are the modules'
`ASSUME`s: non-empty sets, dates and bounds that are numbers, and null values that
are nothing else.

`NumberSeriesProofs.tla`
- `TypeCorrect`: the types.
- `LockedWorkIsCurrent`: `Spec => []IInv`. `TypeOK` alone says nothing of a
  transaction's private copy. `IInv` adds that the lock names the one transaction
  at work on the row (`LockInv`); that what it read is still committed and what it
  wrote is the engine's output on that (`WorkInv`); that an unused row has no
  history (`RowInv`); and what edits ask for (`EditInv`). This is the formal
  content of "FOR UPDATE makes read-then-write safe", under every interleaving and
  every edit.
- From it the action properties `PeriodsMoveForward`, `ClosedYearsLeaveTheCounter`,
  `LateNumbersAreAudited`, `CounterMovesForAReason`.
- `NumbersHaveNoGaps`, while nobody edits `next_value` or `reset` (one moves the
  counter, the other the buckets). "Unbroken" is not inductive: it says nothing of where
  the counter is. `CounterInv` adds it: `Counts`, the counter stands one above what its bucket has
  issued, and `Gapless`, each bucket is an interval. `IssuingCounts` is the one step
  that matters, and it is about an ordinary row and an ordinary set of numbers.
- `ImplementsTheIssuer`, under the same assumption: the refinement. A commit is
  `ConsecutiveNumbers`' issuing step in the bucket of the document's year, everything
  else a stutter.
- `LockedNumbersAreFresh`, under the same assumption: nobody meets `NumberCollision`.
  A value may repeat in another year, so the argument needs that the pattern then names
  the year and that each number is the rendering of its year and value (`DatedInv`).
- `SwitchesStayAhead`, while nobody edits `next_value` or `pattern` but the reset may
  be switched at will: `AheadInv` says the counter is ahead of all that was issued from
  its year on, whichever mode it was issued in.

`CompanyMembersProofs.tla`
- `MembersTypeCorrect`, and `RequestsAskWithinTheirRole`: `MInv` adds that every
  request about to make an owner is an owner's, and that its target is a row in use.
- `RevocationsLast`, `OwnersMakeOwners`, `ExpiriesAsAsked`: the three stale-edit
  properties under every interleaving. `CommitEffect` says what a commit does to
  the rows, `WrittenBy` that nothing else touches them.
- `OwnerKept`: with one request at a time and no expiries (`Serial`), the last owner
  is never lost, for any number of people, rows and steps. `SerialInv` is the
  argument: what the request has loaded is still what is committed, so the owners it
  counts are the owners there are, so a checked demotion leaves another one. Drop
  either hypothesis of `Serial` and the claim is false (section 10).
- `NobodyTwice`, under `Serial` too: `OneMembershipEach`, for which no run is spent. A
  row that is not revoked is active when nothing lapses, so whichever row `.first()`
  brings back refuses a second membership (`SingleInv`).
- `ChangesEndSessions`, with one request at a time, expiries or not: `SessionInv` says
  that no token is younger than its user's version and that the version a request has
  read is still the current one, so one more is above every token there is.

`TaxIdChecksProofs.tla`
- `ChecksTypeCorrect`, from `Invariance`: `IInv` adds what a session of each kind
  may write (a check writes no `is_active`; only an acknowledgement writes the flag
  down), and that a worker at work has its message in the queue, so the queue never
  goes negative.
- `RetirementsLast`, `FlagsLast`: the two action properties, for any number of
  workers and requests.
- `RetriesAreBounded`, `SeriesComesFirst`, from `ScheduleInvariance`, under
  `Verifiable` and `Rechecks`. Counters and moment are separate columns of an
  unlocked row, so the invariant cannot be about rows alone. `Together` says what any
  open session is going to write: a retry comes with a streak that allows it, the
  interval with a finished series or a spent streak, and a streak never without a
  moment. Any such write over any row keeps the two properties, which is why they
  hold for any number of concurrent checks. Without an interval `RetriesBounded` can
  be exceeded by a late write, hence the assumption.
- `InUseIsScheduled`, with one request at a time and any number of workers: what
  any open session is going to write (`KeepsDate`) puts a row into use only with a
  moment, and takes the moment away only from a row it retires or has found retired.
  Two requests, a retirement and a reactivation at once, do leave one in use without.

`SecondFactorProofs.tla`
- `TypeCorrect`, `FactorMovesOnlyOnProof`, under every interleaving, from `FactorInv`:
  what is staged is mail, or an authenticator with its secret; a request that matched
  has what it matched, and a code login never matched by mail. `NextSorted` sorts the
  steps by what they do to the row (`Opens`, `MatchesQuietly`, `SpendsCode`,
  `EndsQuietly`, `Finishes`), and each sort has one lemma of facts all theorems use.
- `ColumnsTellOneStory`, `EnrolledSignInOnTwoChannels`, `ChangesSignEveryoneOut`,
  `BackupCodesAreSpentOnce`, until requests overlap, from `SerialInv`: alone, a request
  still sees the row it loaded, so its UPDATE is the row it meant (`ChangedRow`); no
  session is ahead of the row, so one version more is ahead of them all; whoever may
  renew a session of an enrolled account came by one on two channels. A regenerated
  set needs that the account is still enrolled, or codes would appear on one that is not.
- `OneOverlapLocksNobodyOut`, while there has been one overlap at most. With none, the
  columns tell one story and a request sees the row as it is. `AbleInv` says what two
  overlapping requests know: until the first commits both see the live factor
  (`Current`), and saw a whole one (`Guarded`: a confirmation then writes a secret that is
  new); after that the other keeps one of the two, and either leaves a way in whatever
  the first has written. It takes more requests to break this (section 10).

`PartiesProofs.tla`
- `PartiesTypeCorrect`, `TreeHoldsItsShape`, under every interleaving, from `TreeInv`.
  The walk of `validate_parent` is unlocked; what saves the tree is that a party's type
  never changes once it exists, so a parent that was of an allowed type when looked at
  still is (`Attached`), and types decrease along a chain.
- `RolesDrawNumbers`, `SwitchingOffStrandsNobody`, until requests overlap, from
  `CalmInv`: a request sees the row as it is (so what lands is what it asked for, with
  the number it draws), archiving and reactivating change the switch alone, and a switch
  that is about to turn a code off found nobody active pinned to it.

`BankAccountsProofs.tla`
- `AccountsTypeCorrect`, and `DefaultMovesOnlyAsAsked` under every interleaving: an
  UPDATE that did not set out to promote never names the flag with TRUE.
- `ExactlyOneDefault`, until requests overlap: `AloneInv` says what the one request
  knows, above all that what its bulk UPDATE found are the other defaults there are.

`AccountsProofs.tla`
- Of `Accounts`: `UsersTypeCorrect`, `RolesLeaveASuperadmin`, `DeactivationsHold`.
  `SerialInv` says what the one open request may write over the row it saw
  (`SparesSuperadmin`, `OpensRightly`).
- Of `BackupEmails`: `BackupsTypeCorrect`, and `WrongTriesAreBounded` under every
  interleaving. The counter alone is not inductive: `TriesInv` adds the wrong codes
  compared and not yet counted, at most one for every request that found the counter
  below the limit.
- `AddressesAreProved`, until requests overlap.

`TaxConfigurationProofs.tla`
- `ConfigurationTypeOK`, from `ConfigInv`, for any packs and names. That every rate
  names a code that exists is not a fact about one table: an UPDATE is computed on tables
  that have moved on. `Whole` says of tables that their rows come from where they say and
  that classes point at codes that are there; `Kept` that nothing goes away. A request
  keeps what it saw, what it saw is still there, so its UPDATE over today's rows is whole
  again (`MergeParts`). `PacksLoad` is what it rests on: every pack that loads is well
  formed, through the whole chain of `extends`.
- `EditsAlwaysSurvive`, however requests overlap, where own codes are not named like a
  pack's (`OwnNamesApart`). `OwnInv`: the country change leaves a row of the company's own
  out of every list of its plan.
- `UnsetAlwaysStaysOff`, until requests overlap, where packs ship unset rates off.
- `EverySaleAlwaysPriced`, however requests overlap, where all packs that load have the
  same rules, which cover every context (`RulesAgree`). This is the claim of
  `tax_references`, that nothing a rule resolves to can be switched off; the invariant is
  `Ready`: the codes that rules name are there, on, and no class charges them, so no
  switch of a rate can take them down, in the tables and in everything an open request
  is about to write. `FirstMatches` and `ProposedIs` say what the engine's fold over the
  ordered rules returns.
- `OwnRateAlwaysUnlessReason`, however requests overlap, where each rule that names a code
  requires one of the reasons (`RulesHaveReasons`): nothing the settings do adds a way
  to be untaxed.
- `PairsAlwaysAgree`, until requests overlap, where packs charge a code by the class of
  one key (`ClassesAgree`). `Paired` alone is not inductive: two classes on one code, one
  of them retired, is a state it allows and a switch breaks. `Single` adds that there is
  one class for a code.

The hypotheses of these four are about data the code does not check: packs are files of
the repository, names are typed. The shipped packs satisfy all of them (`at` and `de`
extend `eu_generic`, declare no rules and so inherit its, and leave alone the codes it
names; rates they do not know ship switched off). A company's own code can be named like
a pack's: section 10 tells what happens then.

Several modules assume of the null value that it is no row, id, secret, code, class,
level or check; the backup addresses that `MaxAttempts` is at least 1 (`redis_service.py`
has 5) and that requests are finite in number, as tries are counted per request; the packs
that what reading a file has checked is so; the recipients that chains are as
`validate_parent` leaves them and that addresses and replies are of their types.

Only model-checked. Liveness (`EveryRequestEnds`, `DueIsChecked`) is out of the prover's
reach. Every safety property of a passing run is a theorem. Those that name an assumption
(`Serial`, one request at a time, no overlap, no edit of a field, a fact about packs or
rules) claim nothing beyond it; section 10 tells what is known to go wrong there.

## 10. Where the code and its words part

Three are runs that end in a counterexample, and findings in `PROJECT.json`.

1. `walk_back`: a counter edit is checked without the row lock; an allocation that
   commits in between leaves the counter at an issued value.
2. `second_factor_forgotten`: two enrolments are confirmed at once. The one for mail
   assigns None to a secret column it loaded as None, so its UPDATE does not name it,
   and the authenticator the other one committed stays a way in.
3. `second_factor_replaced`: `POST /auth/2fa/setup` on an enrolled account takes a
   pending token and a mailed code (`routers/auth.py:976-981` leaves
   `allow_email_factor` at its default), whereas the docstring at `:829-835` says that
   who replaces a factor has "a session, not a pending token". Somebody who signed in by a
   mailed code, while a challenge code of an earlier password login is alive, can so
   put an authenticator of his own in place of the account's and is handed tokens for
   confirming it: two mails. One request at a time is enough.

The second path to a `mailed` session needs no enrolled account: a password login that
must enrol stages mail, as it may, and is left there; a login by mailed code confirms
what is staged, since confirm-setup does not ask who staged it. The rule that "a user
being forced into enrolment mid-login who got here WITH A MAGIC CODE must not enrol
email" (`routers/auth.py:938-945`) is asked in setup only.

The rest are met by the models and told here; none has a run of its own.

*Numbers.*
- A yearly series created with `next_value` 2 issues 1 first: the counter is read only
  in the current period, and a new series has none (`StartingNumberHonoured`).
- A yearly series switched to continuous can plan a value of a closed year; the
  repository's `tests/test_number_series.py:498` knows (`ContinuousValueNeverRepeats`).
- A customer number typed ahead of the counter fails the automatic one that reaches
  it, and the failed request takes the counter back with it, so every later automatic
  number meets the same row until somebody changes it.
- A party saved while its series was missing stays without a number when the series is
  back, until somebody edits it: only create and update call `allocate_party_number`.
- Two edits of one unnumbered party at once each draw a number; the second one's
  UPDATE replaces the first one's, which then belongs to nobody (`NumberedUnlessMissing`
  is about requests that do not overlap).

*Memberships and accounts.*
- Two demotions that each count two owners leave none; an expiry date on the last
  owner does it in time (`AlwaysAnOwner` beyond its run).
- `bump_token_version` is a read-modify-write: a session minted between two concurrent
  changes outlives the second (`ChangeEndsSessions` beyond its run).
- A lapsed grant stays unrevoked, and `add_member` may look at it instead of the active
  one: a person is added twice (`OneMembershipEach`).
- Two super administrators demote each other, and the last one may delete himself
  (`routers/users.py:166`): setup is open again.
- `accept_invite` reactivates an invitee whom an administrator deactivated;
  a sign-in or an acceptance that loaded the row earlier writes its status over a
  deactivation (`routers/auth.py:404`, `:515`).
- `set_backup_email` commits between the load and the commit of `verify_backup_email`:
  the new address comes out verified (`routers/auth.py:1498-1502`). The code is kept
  under the address (`services/redis_service.py:150`), so two accounts that propose one
  address share it.
- With three overlaps or more, an account can be left asking for an authenticator
  whose secret is NULL (`NeverLockedOut` says at most one overlap).

*Parties, recipients, tax.*
- `reactivate_party` looks at no parent: a child becomes active under an archived one,
  against `archive_party`'s words (`routers/parties.py:535-540`, `:564`).
- An archived organisation's pinned tax code can be switched off, since only active
  parties are asked about; its reactivated contact inherits the pin, and a sale to it
  is blocked. `SwitchStrandsNobody` is about the switch itself.
- A retired identifier can be made primary (`routers/parties.py:1229`); reactivating it
  beside a new primary then fails on the unique index.
- A manual confirmation of a Swiss or Australian number can carry the reverse charge
  rule, as `vat_is_verified` refuses manual answers for EU numbers only and asks neither
  where the number is from nor until when the answer is valid.
- `_advance_schedule` looks at the answer and not at the kind: confirming by hand an
  identifier no register answers about schedules a check of it. That check is
  `not_checkable`, displaces the confirmation and is flagged as a change
  (`UnverifiableNeverScheduled`, against `models/party.py:587`).
- Two promotions at once leave two default accounts; a delete and a create none
  (`services/company_service.py:213-247`).
- An own code named like one of a later country's pack is taken for the pack's by the
  country change; an own code named like a code a shipped rule names is chosen by it.
- The cap of 30 codes and `next_custom_class_key` count without a lock.

## 11. What is not modelled

Rendering, wording, logging, preview and list endpoints, the request schemas'
length limits. Site settings, files, notifications, health, money, IBAN and the web
application: pure I/O, unbounded arithmetic or no state. The audit log is written
and never read back; its one consequential event is in `NumberSeries`. E-mail
delivery is the broker's; what a lost or repeated task does to state is in
`TaxIdChecks`.

Of the memberships: company settings, archiving a company, the permission table
beyond `company.members.manage`. Of the identifier checks: notes, audit events, edits
of the policy, how long a check verifies. Of authentication: password reset, profile
edits, `/auth/refresh` beyond what it mints, the attempt counters of the pools other
than the backup address's (they are the same three commands). Of parties: contacts,
deletion of addresses, duplicate search, bank details of parties. Of the tax
configuration: legal notes and names beyond "edited or not", the preview of a plan,
which is the same computation without the write. Of the recipients: names, payment
terms, and the normalisation of numbers digit by digit.

Two assumptions are about code outside the repository: PostgreSQL's READ COMMITTED
and lock queue, and SQLAlchemy's identity map and changed-columns UPDATE. They are
marked external in `PROJECT.json` or stated in the modules' headers.

## 12. The plan

1. `Recipients` on several identifiers under interleaving, composed with `TaxIdChecks`.
2. Password reset and refresh in `SecondFactor`.
