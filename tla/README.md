# A verification of Formsache

Formsache is a multi-tenant form platform: a NestJS API over PostgreSQL, a volume for
uploaded files, a React front end. This directory holds TLA+ models of the parts of it
whose correctness lies in how concurrent requests, timers, crashes and deletions meet, the
TLC runs that check them on small instances, and theorems TLAPS has proved about them for
every instance. Paths below are relative to the API's sources in `src/apps/api/src`, unless
they name the shared package (`src/packages/shared/src`) or the front end (`src/apps/web/src`).

Contents: [the system](#1-the-system), [the modules](#2-the-modules),
[the runs](#3-the-runs), [what the models found](#4-what-the-models-found),
[the proofs](#5-the-proofs), [what is not shown](#6-what-is-not-shown),
[the plan](#7-the-plan), [running it](#8-running-it).

## 1. The system

### 1.1 How it runs

An API process serves requests and starts timers: the mail worker, the file purge, the
retention purge, the log, session and prompt purges, the operations alerts. Several
processes may run against one database (of the operations alerts the code assumes there is
one, and so does their model). They share nothing but PostgreSQL and the volume,
so every exclusion is a row lock, an advisory lock or a condition in a WHERE; every timer
can be cut off by a restart at any statement. Transactions are READ COMMITTED unless the
code says otherwise (membership writes and the resending of an invitation are
SERIALIZABLE): a statement sees what was committed when it began. Most requests read before
their transaction (the form, its settings, its live definition, an account) and act on what
they read inside it.

### 1.2 Inventory

| Component | State it keeps | Operations | Hard behaviour | Correct when | Here |
|---|---|---|---|---|---|
| mail queue, delivery worker (`mail/`) | `mail_log`: status, attempts, `next_attempt_at`, `last_error`; in memory a run's lanes and resolved identities | enqueue, tick, claim, withhold, send, record, log purge | instances race for rows; a crash or a deadline between acceptance and record; the mail server changes during a run; lanes are scarce | one conversation per row; duplicates only from losses; nothing sent under an old identity or after erasure; every mail settles | MailQueue, MailPromise |
| mail log, its editors (`mail-log/`) | the same rows; recipient and text blanked by erasure | "Erneut" (retry), erase lines with their subject | the retry reads, then writes without repeating its conditions | sent is final; an erased line never waits; honeypot content never leaves | MailQueue |
| public submissions and corrections (`public/public-forms.service.ts`) | `response`, `event_registration`, `response_draft` | submit, correct by edit token | bounds read before the transaction, counted inside it; form, draft and answer locks; foreign keys that lock too | no limit or capacity passed; a draft becomes one answer; every request ends | Admission |
| event seats (`public/event-seats.ts`) | `event_registration` | sum, decide, rewrite | the sum and the own share are two statements | as above | Admission |
| trash: move, restore, erase (`tenancy/tenant-scope.ts`, `trash/`) | `deleted_at` of answers, forms, organisations | trash, restore, delete for good, empty | a restore adds an answer or meets a removal half done | bounds hold after a restore; a restored answer has its files; what lies in the trash does not change | Admission, Attachments, Retention |
| retention purge (`trash/purge/`) | nothing but its cursor | erase what is 30 days in the trash, in batches | listed, then removed row by row; refused removals; restarts | nothing skipped, nothing before its term, a run ends | Retention; homeless accounts in Members |
| uploads and storage (`files/upload-pipeline.ts`, `files/local-file-storage.ts`) | `file` rows pending or stored; objects and `.partial`s on the volume | create row, write, rename, mark stored, discard | the volume is outside every transaction; no lock spans the steps | no bytes without a row; no stored row without bytes | Attachments |
| attachment claims (`public/attachment-claim.ts`) | owner columns of `file` | claim, release, hand over from a draft | two answers or tabs want one file; claim and release in one transaction | one owner at a time; what an answer names it owns | Attachments |
| file purge (`files/purge/`) | nothing but its timer | list, lock, remove, delete | a claim between listing and lock; bytes gone and row not | never takes an owned file; everything unowned goes in the end | Attachments |
| permanent deletion (`trash/permanent-deletion.service.ts`) | nothing | enumerate, remove file by file, delete | hours long; restores and uploads meanwhile | all or a consistent part | Attachments |
| drafts and their addresses (`public/public-forms.service.ts`, `public/draft-quota.ts`) | `response_draft` | save, write again, drop, expire | inserted behind a gate that was read earlier; the ceiling is counted before the insert | an address opens nothing the gate in force would not; the ceiling is overrun by what is under way | Links, Quotas |
| form and organisation settings (`settings/`) | JSON documents with a revision | save, merge, take addresses back | a form inherits from its organisation; two documents, two revisions, one effect | what is issued stands behind the gate in force | Links; the limit in Admission |
| sessions and login, password reset, invitations (`auth/`, `tenancy/tenant-scope.ts`) | `session`, `account`, `password_reset` | log in, change, set, reset, ask, resend, revoke | a login compares a password a reset replaces; rows inserted after a sweep | no key outlives what it was made for; a link redeems once; one invitation | Credentials |
| superadmins, organisations, first set-up (`admin/`, `setup/`) | `account.is_superadmin`, `tenant` | appoint, withdraw, invite, create, set up | two demote each other; an invitation is rolled back after its mail failed | there is always one superadmin; nobody's account goes (neither holds without exception, see §4) | Members |
| users and groups of an organisation (`tenant-admin/`) | memberships | add, change role, remove | two administrators remove each other | an administrator remains | Members |
| upload quota (`public/upload-quota.ts`) | process memory | check, record | an await between the two | overrun bounded by what is under way | Quotas |
| submission mails, mail budget | counts over `mail_log` | count, suppress, enqueue | counted before the transaction that spends it | overrun bounded | Quotas |
| AI form drafts (`ai/`) | `ai_usage`, prompts | reserve, call, verdict, limit | concurrent reservations, the turn of the month | the month's limit is never passed | Quotas |
| form editor, versions (`forms/`, `builder/` of the front end) | `form`, `form_version`, revision; the tab's store and query cache | type, save, publish | tabs overtake each other; answers are read after the commit | no silent overwrite; a version is a revision, and a new one | Builder |
| operations alerts (`observability/`) | `ops_alert` | read, mail, note, acknowledge, release | a mail that fails ends the run; a crash between mail and note | no lasting breach stays silent, none is repeated | Alerts |
| shared validation and conditions (shared package) | none | visible questions, schema, normalisation | what is shown depends on answers that change what is kept | what is stored explains itself and comes back unchanged | Answers |
| public form gate | process memory; signed tokens | access word, start token, honeypot, allowances | counters per process, clocks | an allowance expires, a token is bound to its form | not modelled |
| single sign-on (`auth/oidc/`) | issuer and subject of `account` | bind, sign in, stamp | the provider changes while invitations are open | nobody is bound to a provider no longer stored | not modelled |
| permissions, restrictions (`tenancy/`) | groups, form permissions | assign, restrict, switch | the cap on effective rights | nobody exceeds the cap | not modelled |
| notifications, templates, branding, legal texts, mail servers, system settings | single rows | edit | | | not modelled |
| health, configuration, secret box, scripts, front end beside the editor, tests | | | pure, I/O or reads | | not modelled |

PROJECT.json lists every component with its files and, where it is left out, the reason;
under `hazards` it lists at which line each of these behaviours bites and which property
covers it.

### 1.3 How the parts meet

A submission is one transaction that inserts the answer and its seats (Admission), claims
its files (Attachments), consumes its draft (both), inserts its mails (MailQueue) and stands
on budgets it counted before (Quotas). A permanent deletion, by hand or by the daily run
(Retention), removes files one at a time under row locks, then deletes the answer or the
form, which ends its waiting mails and blanks its lines in the same transaction. The end of
an organisation lets the daily run judge the accounts of its members (Members). The models
share these moments and not a state space: what the others do at them is in each model an
environment step or a failure of the transaction (`Fail`, `Refuse`, `EraseSubject`,
`EraseNow`), so each model allows at least what the composition does.

`MCServing`, `MCAccounts`, `MCForms` and `MCJobs` compose modules for TLC. Their components
share no variable, so a state of the composition is one of each and TLC need only follow one
at a time (`part`). For the last three, that each behaviour so followed is a behaviour of
every component is a lemma each (`AccountsAreEach`, `FormsAreEach`, `JobsAreEach`), and the
theorems about the components are carried over by it; of `MCServing` the theorems are stated
for Admission and MailQueue themselves.

## 2. The modules

| Module | What it is |
|---|---|
| `MailQueue` | the rows of the mail log, the workers' lanes, editors, trash, erasure, purge |
| `MailPromise` | what the mail log promises of its lines; MailQueue refines it (`KeepsPromise`) |
| `Admission` | submissions, corrections and restores against limit and capacities, statement by statement, with PostgreSQL's locks |
| `Attachments` | uploads, claims, sweeps, permanent deletions of files |
| `Members` | accounts, appointments, organisations and who administers them |
| `Credentials` | password, sessions and links of one local account |
| `Quotas` | what is counted and spent: calls of the AI, drafts, mails, uploads |
| `Builder` | the editor's tabs, the draft's revisions, the versions |
| `Links` | the addresses handed to participants, and the settings they stand behind |
| `Answers` | what a form shows, demands and keeps |
| `Retention` | the trash and the daily erasure |
| `Alerts` | the watchman of the installation |
| `MCAccounts` | Members, Credentials, Quotas composed, with their instance |
| `MCForms` | Builder, Links, Answers composed; `MCBuilder` is the editor alone |
| `MCJobs` | Retention, Alerts composed |
| `MCServing` | Admission, MailQueue composed |
| `MCMailQueue`, `MCMembers`, `MCAttachments` | instances of one module for TLC |
| `MailQueue_proofs`, `Admission_proofs`, `Attachments_proofs` | theorems of one component each |
| `Members_proofs`, `Quotas_proofs`, `Credentials_proofs` | theorems of the accounts; the last also of their composition |
| `Forms_proofs`, `Jobs_proofs` | theorems of Builder, Links and Answers, of Retention and Alerts, and of their compositions |

### 2.1 MailQueue

| Model | Code |
|---|---|
| `row[m]`: status, attempts, due, erased, why | `mail_log.status`, `attempts`, `next_attempt_at` null or past, recipient blanked, kind of `last_error` |
| the order of `Mails` | `ORDER BY created_at, id` of claim and `dueTenants` |
| `thing` | `deleted_at` of answers, forms, organisations (`NOT_IN_TRASH`) |
| `lane[w][l]` | one lane of one run of a worker: `runLane`, `deliverOne`, with the identity `snap` resolved when the run began and the share `left` of MAIL_WORKER_LANE_BATCH_MAX |
| `Held`, `Locked` | the row lock of `FOR UPDATE OF m SKIP LOCKED`, held from claim to commit, so through the SMTP conversation |
| `editor[e]` | `MailLogService.retry` between its read and its write |
| `accepted`, `stray`, `late` | what the mail server has seen: mails taken over, those whose row never learnt it, conversations that go on although nobody holds their row any more: the deadline gave them up, or their transaction was lost under the send |
| `suspect` | history: rows written with the honeypot's refusal |
| `Tick`, `OpenedLanes` | `tick`, `runOnce`, `dueTenants`: lanes go to the organisations with the oldest due mail, one fewer if the system lane has any |
| `Withhold`, `WithholdOthers` | no mail server: the claimed row gets the reason, then the others of the lane do |
| `Transmit`, `Record` | the send and, in the transaction that owns the row, `markSent`, `reschedule` or `markFailed` |
| `LaneLost`, `LateAnswer` | a restart, which ends the conversation too, or a lost transaction, which does not: the awaited send goes on and the loss shows only at `markSent`; what becomes of a conversation nobody waits for |
| `EraseSubject`, `PurgeTenant`, `PurgeLog` | `eraseMailLogLines` in the deletion's transaction, the organisation's end, `MailLogPurgeService` |

### 2.2 Admission

| Model | Code |
|---|---|
| `form`, `limit`, `cap` | the form row, effective `maxResponses`, capacities of the live version |
| `resp[r]` | committed `response` rows with their seats and the draft they came from |
| `req[p].pc` | the next statement of the request's transaction; `begun` is after the reads and before `BEGIN` |
| `req[p].limit`, `.cap`, `.taken` | what the request read before its transaction and summed in it |
| `NeedsLock`, `LockForm` | `lockForm`, taken only under a bound; a restore always takes it and looks again |
| `CountResponses`, `SumSeats`, `DecideSeats` | count, `takenSeats`, and the decision with the own share (`heldSeats`) read after the sum |
| `LockDraft`, `FileAnswer` | `FOR UPDATE` on the draft; the inserts and the draft's end |
| `UpdateAnswer`, `RewriteSeats` | the conditional UPDATE of a correction, then its seats |
| `FormFree` in `FileAnswer`, `RewriteSeats` | an INSERT naming the form takes FOR KEY SHARE on its row and waits for FOR UPDATE |
| `Deadlocked`, `AbortVictim` | PostgreSQL's detector (external) |
| `Fail` | any rollback, crash or the transaction's 20 s |
| `SaveLimit`, `Publish`, `TrashForm`, ... | settings, versions and the trash, with the locks their statements take |

### 2.3 Attachments

| Model | Code |
|---|---|
| `file[f].row`, `.owner`, `.old` | the `file` row, its owner columns (`file_kind_shape` allows one), older than UNCLAIMED_FILE_LIFETIME_MS (24 h) |
| `file[f].bytes`, `.up` | the object or its `.partial` on the volume; where `storeUpload` stands |
| `answer`, `draft` | the documents, by the files they name |
| `req[p]` | a submission, correction or draft between its reads and its transaction; `young` is the clock it read |
| `CommitSubmit`, `CommitEdit`, `CommitSave`, `CommitUpdate` | `claimAttachments`, `claimForDraft` with the releases of the same transaction. One step: every row the transaction decides on stays locked until it commits |
| `job[j]` | a run of the file purge or a permanent deletion: its list, and where it stands under the row lock |
| `Lock`, `StillDue` | the listing's question asked again under FOR UPDATE |
| `RemoveTarget`, `RemovePartial`, `DeleteRow` | `removeObject`, then the row |
| `RemovalFails`, `TimesOut`, `LandsLate`, `JobDies` | the volume refuses; the 30 s of the transaction end with the removal still under way; restarts |
| `PurgeAnswer`, `PurgeForm` | the last transaction of a deletion, with ON DELETE SET NULL and NO ACTION |
| `torn`, `spared`, `cut` | history: files whose bytes may be gone although the row is not; files restored when their erasure had them under its lock; uploads discarded or erased while they ran |

The exceptions in the properties are these three sets and no others. They are what the code
itself names: `purgeOne` documents the bytes that are removed by a transaction that then
fails, and `purgeAttachment` the window between its second question and the removal, in
which a restore comes too late.

### 2.4 Members

| Model | Code |
|---|---|
| `user`, `super`, `ready` | `account` rows, `is_superadmin` of those that exist, whether a password is set |
| `role[o][a]`, `org[o]` | memberships, organisations; `due` is 30 days in the trash |
| `BeginWrite`, `CommitWrite` | adding, changing and removing a member: SERIALIZABLE, so the write decides on its snapshot and fails when an overlapping commit has invalidated it (`SnapshotStands`). Removal deletes an account that then belongs nowhere |
| `BeginDemote`, `CountOthers`, `Demote` | a withdrawal counts the other superadmins and writes under the advisory lock `SUPERADMIN_LOCK` |
| `BeginInvite`, `MailDelivered` | an invited superadmin is committed, then mailed |
| `MailFails`, `Withdraw` | the mail failed: one READ COMMITTED DELETE looks whether nobody has touched the account (`Untouched`), then deletes it |
| `SetUp`, `CreateTenant`, `AddMember`, `Redeem`, `Promote` | first set-up, organisations, their users, an invitation accepted, an appointment |
| `ListMembers`, `PurgeOrg` | the daily run at one organisation: members read, organisation erased |
| `JudgeMember`, `Reconcile`, `DeleteFound` | `deleteHomelessAccount` for each of them and `deleteHomelessAccounts` at the end of a run: what the statement's snapshot finds without a membership, and the deletion of that |
| `Crash` | the process ends between any two of these |
| `joined`, `bereft`, `stale` | history: who got a membership while a DELETE had already found none; which organisation lost an administrator that way; a withdrawal that counted a superadmin who was then taken back |

At READ COMMITTED a DELETE evaluates `memberships none` on the snapshot it begins with. An
insert of a membership only key-share locks the account row and does not change it, so the
DELETE does not look again; the new membership cascades away (`Cascade`). The columns of the
account row itself (`is_superadmin`, the password) are looked at again, since a write to them
changes the row the DELETE waits for.

### 2.5 Credentials

`Script` lists, for each kind of request, the statements of its transaction after its reads:
`login`, `change` (own password), `email` (own address), `set` (an administrator sets the
password), `confirm` (a link is redeemed), `ask` (a link is asked for), `resend` (an
invitation is sent again, SERIALIZABLE).

| Model | Code |
|---|---|
| `hash` | the password, known by its number; what a request read of it in `call[p].hash` |
| `session[s]`, `link[l]` | rows of `session` and `password_reset`, with the password and the address they were made for |
| `Begin`, `Claim`, `Write`, `Sweep`, `Take`, `EndOpenSessions`, `CommitPassword`, `CommitAddress`, `CommitLink`, `CommitInvitation`, `Issue` | one statement each: the conditional UPDATE that claims a link, the account, the SELECT of what is unused and the UPDATE that ends it, the sessions, the commit, the session a login or a change inserts |
| `UserFree`, `KeyFree`, `LinkFree` | row locks of the statements before, until the commit; a changed address is a key and makes foreign keys wait |
| `Revoke`, `SetAddress`, `Expire`, `Fail` | signing out and ending sessions, `updateAccount` by an administrator, the term of a link, any rollback |
| `alone` | history: the session or link was made by a request that overlapped none that replaces something |

### 2.6 Quotas

| Model | Code |
|---|---|
| `calls`, `aiLimit`, `month` | `ai_usage` rows by month, `tenant.ai_monthly_call_limit`, the month in Berlin |
| `BeginCall`, `CountCalls`, `ReserveCall`, `Verdict` | a reservation under the row lock of the organisation: count, insert, call. A verdict notes the outcome, the call stays spent |
| `spent[b]` | what counts against a budget: drafts of a form, mails of a form in their window, uploads of an address in an hour, uploads waiting for their form |
| `CountSpent`, `SpendCounted`, `GivesUp` | count, and later spend what the count allowed; `Left` cuts mails to what is left where the code suppresses single mails |
| `GiveBack`, `Restart` | a draft deleted, a mail out of the window, a claim; a process that forgets its memory |

### 2.7 Builder

| Model | Code |
|---|---|
| `texts`, `versions` | the draft at each revision, `form_version` rows with the revision they claimed |
| `tab[t]`, `query[t]` | the store of `builder-store.ts` and the tab's query cache |
| `SendSave`, `StoreDraft`, `SaveAnswered` | a save, its conditional UPDATE, and its answer, which is read again after the commit (`byId`) and marks the document as saved |
| `AskPublish`, `ReadForPublish`, `ClaimPublish`, `PublishAnswered` | a publication: the comparison with the version in force is made before the claim |
| `Type`, `Discard`, `Leave`, `Refetch`, `OpenForm` | the tab, with the leave dialog and the cached snapshot |

### 2.8 Links

| Model | Code |
|---|---|
| `tenantWord`, `formWord`, `closes` | access word of the organisation and of the form (or inherited), the deadline |
| `links[l]` | a draft's or an answer's address: the gate it was issued behind, when it ends |
| `Enter`, `InsertLink`, `Reopen`, `Rewrite` | a participant's request reads the settings first and writes later. A gate asks for a proof, which binds the form and an hour and not the word it was exchanged for: under a gate `Enter` takes a proof of any word (`Passes`) |
| `ReadForm`, `WriteForm` | `replaceOfForm`: compare what is effective before and after, claim the revision, take back |
| `ReadTenant`, `ClaimTenant`, `CommitTenant` | `replaceOfTenant`: claim the organisation's revision, list the forms that inherit, take back |
| `excuse` | history: why a settings write has not taken an address back. `proof`: it was got with a proof of the word before; `request`: the request was under way when the write committed; `crossed`: a write of the organisation crossed one of the form |

### 2.9 Answers

| Model | Code |
|---|---|
| `form`, `stored`, `kind` | required marks and conditions of the questions in document order, the row's answers, draft or answer |
| `VisibleQuestions` | `visibleQuestionIds`: a recursive function over the document, each question judged by those before it |
| `Accepts`, `Parsed` | `buildAnswersSchema` for an e-mail question, and what `toStoredAnswers` keeps |
| `SaveDraft`, `Submit` | the writes; the input is what a page with the stored answers may send |

### 2.10 Retention

| Model | Code |
|---|---|
| `rows`, `at`, `now`, `Above` | rows of organisations, forms, answers and drafts, `deleted_at` or `expires_at`, the clock in days, what belongs to what |
| `StartRun`, `List`, `Remove`, `Stuck`, `NextPhase`, `Abort` | a run of four phases; batches behind a cursor of time and id; the WHERE of each removal (`Removable`); the storage refuses; a restart |
| `Trash`, `Restore`, `EraseNow`, `Renew` | people |
| `owed` | history: what was due when the run began, and neither tried nor touched since |

### 2.11 Alerts

| Model | Code |
|---|---|
| `over`, `row` | metrics over their threshold; `ops_alert` with when it was reported and acknowledged |
| `ReadStatus`, `ReleaseAcks`, `PassOver`, `Send`, `SendFails`, `Remember`, `RunOver` | `runOnce`: the status once, acknowledgements released, metric by metric in a fixed order |
| `SendsSilently`, `NoteIsLost`, `RunIsCut` | the send is given up after the server took the mail; the upsert of `remember` throws, or the process dies before it; a run dies or throws anywhere else |
| `Acknowledge`, `AckLapses`, `SuppressionEnds` | people, the clock |
| `unnoted`, `cuts` | history: mails that went out without being noted; runs cut short with no mail on the way |

There is one watchman: between the question, the send and the note nothing is locked, and two
replicas would both mail. The code states this as its assumption
(`observability/ops-alert.service.ts:195`), and what is shown of the alerts rests on it.

## 3. The runs

| Run | Instance | What it shows |
|---|---|---|
| `serving` | the form: 2 answers, 2 requests, 1 draft, up to 2 seats each, limit 1 or none and capacity 2 to begin with, each given up or set again by 1 change. The mails: 1 mail, 2 workers, 1 editor, 2 readable blocks, 2 attempts, 2 lanes of 2, 4 disturbances | every safety property of admission and of the queue, and `KeepsPromise` |
| `serving_ends` | the form: 2 answers, 2 requests, 1 draft, 1 bounded seat, corrections that queue mails. The mails: an organisation's and a system mail, a lane for each, 1 disturbance. Fair | `EveryRequestEnds`, `EveryMailSettles` |
| `mail_starvation` (violation) | 2 organisations, 1 lane, no disturbance, FairSpec | the older mail's organisation has no server and keeps the lane |
| `mail_retry` (violation) | 1 mail, 2 editors, 2 disturbances | a retry requeues a line that has left the state it was read in |
| `attachments` | 1 upload, 1 answer, 1 draft, 1 request, a sweep, an erasure, 2 failures, FairSpec | all properties of the files |
| `accounts` | 2 accounts, 2 organisations, 2 requests; 1 session, 2 links, 2 addresses, 2 passwords; AI limits 1 and 2, 2 months, budgets of 1 (mails 2) | who remains, whose keys open, what is spent |
| `last_superadmin` (violation) | 2 accounts, 2 organisations, 2 requests | a superadmin is withdrawn because an invited one counts, and the invitation is taken back |
| `homeless_race` (violation) | the same | who joins while a DELETE takes him for homeless loses account and membership |
| `forms` | 2 tabs, 2 texts, 3 revisions; 2 editors, 1 visitor, 2 words, 1 address, a deadline; every form of 3 questions with the operators *empty* and *equals* | `VersionsStand`, `LinksAreTakenBack`, `AnswersStand` |
| `builder_foreign_revision` (violation) | 2 tabs, 2 texts, 4 revisions, nobody types during a save | a clean document is not what its revision says |
| `jobs` | 1 organisation, 2 forms, 1 answer, 1 draft, terms of 1 day, batches of 1, 4 days; 2 metrics, 2 faults; fair | `NothingSkipped`, `TermsAreKept`, `RunEnds`, `OneMailPerSuppression`, `BreachIsReported` |
| `retention_nested` (violation) | the same | a form is erased whose own term does not run |

### 3.1 The bounds, and why they are enough to be telling

- `MaxDisturbances` counts everything in a MailQueue behaviour that nobody is obliged to do:
  crashes, retries, trash, erasures, purges, saved servers. The longest hazard the
  inventory names needs four (trash, erase, retry, loss). One row suffices there because rows
  interact only through the choice of the oldest and through lanes, which `serving_ends`
  and `mail_starvation` instantiate with two. `MaxAttempts` is 5 and the run's lanes are
  5 in the code; 2 and 1 or 2 reach both sides of every comparison.
- Answers that may ever exist (`Responses`), uploads (`Files`) and drafts are finite because
  the model keeps their history. Two requests suffice for every race here, since a lock has
  one holder and one request waiting for it. More of either is what the theorems are for.
- `MaxChanges` bounds what is saved, published and trashed around the requests of Admission,
  `MaxFaults` failures. `WithinBounds` speaks of `changes = 0` only: a limit lowered below
  what is there is not a violation. Without a change it meets both bounds at their brink: one
  answer under the limit, and, where there is no limit, two answers and corrections of up to
  two seats that share a capacity of two. Beyond a change `AdmitsWithinBounds` holds each
  request to what it was judged by. TLC follows the form with its draft while the bounds stand,
  and without a draft when they change (`DraftOrChange`): drafts and bounds meet only in the
  locks, which both instances have.
- In `accounts` the retention run meets one request at a time, or two requests each other
  (`TwoAtWork`); the theorems have no such bound.
- `Sessions` and `Links` bound rows that may still open something at once, not rows ever
  made: a spent row's place is taken by the next. `MaxHash` bounds passwords ever written; 2
  is a first and a replaced one.
- `MaxRevision` 3 lets a save and a publication overtake each other twice; the finding
  needs 4. `Far` 2 is a deadline or none.
- Three questions are the shortest chain in which a question hides another that hides a
  third; the theorem is for any number. *filled* and *notEquals* are the negations of the two
  operators the run has.
- A batch of 1 makes every listing pass the cursor. Four days hold a term, a restore and a
  second term. Two metrics are one behind another; two faults are a mail repeated twice, or
  once beside a run that was cut.
- Every mutant in PROJECT.json is found under these bounds.

Symmetry is declared for model values the behaviours never tell apart and only in runs
without liveness properties. In `accounts` one set of values serves as requests, callers and
spenders, permuted in all three at once. Numbers that are compared (mails, questions,
rows, metrics) are never permuted.

CHECK_DEADLOCK is FALSE throughout: when no mail, answer, file, revision or password is left
to be created and the bounds are used up, a behaviour has nothing to do. The counterpart,
that work under way is not stuck, is what the liveness properties check.

### 3.2 Fairness

- `WF(Tick)`, `WF(ListStale)`, `WF(Watch)`: the interval timers start a run whenever none is
  under way.
- `WF(LaneStep)`, `WF(Step)`, `WF(Works)`, `WF(Run)`: a statement under way ends. Sockets,
  transactions and removals have timeouts, so silence is an outcome (`silent`, `TimesOut`,
  `Stuck`). A start of the daily run is not assumed: `RunEnds` is about one that began.
- `WF(BackoffElapses)`: time passes.
- `SF(Queued)`: PostgreSQL grants a lock in the order of the requests, so a waiting
  statement is not overtaken for ever although the lock is taken again and again.
- `WF(AbortVictim)`: the deadlock detector.
- `SF(Send(x))`: the mail server takes an alert now and then. With weak fairness, one that
  refuses whenever it is asked would explain every silence.
- In a composed run each of these is asked of the part that moves: `WF(Admits /\ Step(p))` is
  the fairness of Admission once TLC follows Admission.
- That what waits does not wait for ever is written `[]<>(waits => done)`: the same as a
  leads-to from waiting to no longer waiting, and cheaper to check.
- Nothing is assumed of editors, visitors, erasures, late answers or failures. A deletion
  that was begun goes on (`Works`) unless it fails.

## 4. What the models found

Each is a run that TLC must find violated, against a sentence of the code.

- **`mail_starvation`.** A withheld row stays queued and due, so its organisation stays at
  the head of `dueTenants`. As many organisations without a mail server as the run has lanes
  keep all others from being served. The comment on `dueTenants` says an organisation that was
  skipped only gets older.
- **`mail_retry`.** `requeue` (`tenancy/tenant-scope.ts:3045`) repeats none of the conditions
  `MailLogService.retry` read. A second editor's write requeues a line delivered in between;
  one that meets a permanent deletion leaves a blanked line queued for ever. The comment in
  `mail-log/mail-log.service.ts:156` says nothing but another retry can move the line.
- **`builder_foreign_revision`.** The answer to a save is a second read
  (`forms/forms.service.ts:690`), so it may carry the revision of another tab that saved in
  between; the first tab notes it beside its own text, and its next save overwrites the other
  text without a conflict. The comment above `update` says it refuses to overwrite a
  state the editor never saw.
- **`retention_nested`.** A form listed as due is erased by a statement that asks only
  whether it is in the trash (`tenancy/tenant-scope.ts:2483`), although its organisation has
  been trashed since, or although it was restored and trashed again. The comment in
  `trash/purge/retention-purge.service.ts:231` calls the terms nested. Organisations and
  drafts are asked again (`TermsAreKept`).
- **`last_superadmin`.** An invited superadmin who has not accepted counts as the other one in
  a withdrawal, and `invite` (`admin/superadmins.service.ts:460`) deletes the invited account
  when its mail fails, without the lock and without asking for others: then no superadmin
  is left. The comment at `:258` names "at least one" as the one promise that hangs on the
  number. What does hold is `LastAppointmentStays`: withdrawals alone, and deletions of the
  homeless, always leave one, and the last goes only with an invitation nobody has redeemed or
  by a withdrawal that had counted one.
- **`homeless_race`.** The DELETE of a homeless account (`tenancy/homeless-account.ts:90`, and
  the one of a failed invitation) asks for memberships on the snapshot of its statement. A
  membership committed after that is not seen and cascades away with the account. The comment at
  `tenancy/homeless-account.ts:46` says such a membership makes the DELETE not match.
  `OwnedAccountsStay` and `AdminRemains` hold but for those who join in that window
  (`joined`, `bereft`).

Smaller deviations that came up while modelling. They are in the models, where the properties
allow for them by name, or in components that are not modelled; no run is devoted to them.

- A submission under a bound locks the form and then its draft, one without a bound reaches
  the form through a foreign key with its draft locked: two orders, which the comment on the
  lock rules out. `Deadlocked` and `AbortVictim` model what follows, and `EveryRequestEnds`
  shows every request still ends.
- A form erased between an upload's row and its first byte leaves bytes without a row, as
  does a rename that fails outside its `try` (`cut` in `NoOrphans`).
- A login that compared the old password inserts its session after a reset ended all others;
  two requests for a link at once leave two; a redemption beside a resent invitation, both of
  which READ COMMITTED cannot see, leaves an open invitation beside the fresh password, which
  the comment at `tenancy/tenant-scope.ts:3729` believes Serializable prevents (the other side
  is not). `alone` in `KeysFollowAccount` and `InvitationsAreSingle` names them.
- `updateAccount` leaves links to the old address open (`corrected`).
- A settings write crossing another, or a participant who read the settings before, leaves an
  address from behind a gate that is no longer in force. So does, for its hour, a proof got with
  the word before: `accessProofs.holds` asks for the form and the time only
  (`public/access-proof.service.ts:112`). `excuse` names which of the three it was.
- An alert is mailed again without any crash when the server took it and its answer came too
  late, or when the note of it fails (`unnoted`).
- After a transaction was lost under a running send, the old conversation may go on beside a
  new one for the same row, and be answered after the row was erased (`late`).
- An acknowledgement given after the status was read is released by it.
- Typing while a save is under way loses the dirty mark (`TypesInFlight`).
- `updateOidc` runs READ COMMITTED: two concurrent saves, or an invitation that crosses one,
  can leave an account stamped with the provider before, although the comment there says
  there is no such window. A form restriction saved while its member is removed survives the
  membership. Both lie in components that are not modelled.

## 5. The proofs

Every safety property of a passing run is stated by a theorem. Each holds for every value of
the constants that satisfies the named assumptions of the modules: finite sets where
something is counted, disjoint sets, values such as `Nobody` outside the sets they are the
absence of, natural bounds, well-typed configuration. TLC evaluates these on every run. Two
theorems (`NoDuplicate`, `PromiseKept`) have a condition on the behaviour as well, below.

**MailQueue_proofs.** The invariant is `IInv`: types; a lane in flight has a row and a
share; `ConversationIsWorkable`; `OneConversationPerRow`; `WaitingHasAttemptsLeft`; what is
deleted is blanked; an unwritten row is fresh. `ConversationIsWorkable` is not inductive
without the one-conversation part (another lane could settle the row), nor that one without
the claim's choice among unlocked rows. Steps fall into two kinds, each with one lemma: those
that write rows nobody holds (`RowWrite`) and those that move one lane (`LaneWrite`). From it
follow `TypeCorrect`, `OneConversation`, `Workable`, `AttemptsLeft`, and the action
properties `StoredIdentity` and `ErasureIsFinal`: who erases needs the row, so at that
moment no lane talks about it, and what is answered later was among the conversations that
had lost their row before. `HoneypotHolds` needs a second
invariant: a suspect row that exists is failed with its reason intact or erased, and no
editor has it approved.

`NoDuplicate` and `PromiseKept` (the refinement of MailPromise) are about the behaviours in
which no two people have the same line in hand for a retry (`OneRetryEach`). The condition is
needed, since `mail_retry` shows a second editor breaking both, and it holds of every
behaviour with one editor, as in `serving`. Under it, `DInv` is inductive: a line an
editor is about to retry has not been picked up again (`EditorsKnow`), and the acceptances of
a mail are the strays, plus one that the row has learnt of or that its lane is about to
record (`Settled`). Each action then owes `DInv'` and a step of the promise or none
(`Owed`), one lemma per action.

**Admission_proofs.** `Locking` says what the row locks guard: at most one request holds
the form, one a draft row, a correction past its UPDATE has a live answer, a restore under
the lock a live form. From it follow `DraftFiledOnce`, `ReturnsToLiveFormHolds` and
`TrashIsNotEditedHolds`. `Counting` adds what a request knows after each statement:
what it counted and summed stays an upper bound until it commits. It is inductive because
whoever could raise a sum needs the form row, by its own lock or through the foreign key of
its INSERT, and because a correction that rises reads its own share after the sum: an
overtaking correction of the same answer can only make it smaller. From it follow
`BoundsHold` and `AdmitsWithinBoundsHolds`. The counting rests on lemmas about the
cardinality of the occupied places when one answer changes.

**Attachments_proofs.** `IInv` has a part per actor: `FileShape` (the life of a file),
`Holding` (what a removal's row lock keeps true at each of its steps), `JobShape`,
`RequestShape`, `AnswerShape` (what an answer names it owns, or the row is gone, and if both
are live only when it was spared), `DraftShape`. The argument is the lock: nobody claims a
held row, so a sweep's file stays unowned and an erasure's file keeps its owner, which leaves
the trash only by a restore that records the file as spared. `OneFileChanges` carries the
upload's steps, `OwnersChange` the claims, `OneJobActs` and `JobLetsGo` the removals.
All six safety properties of the run follow.

**Members_proofs.** `MembersInv`: a membership write that takes an administrator away knows
of another one (`WritesKnow`), because what would spoil its snapshot aborts it, unless a
deletion under way has taken one (`bereft`); a withdrawal that has counted holds the lock and
knows of another superadmin, unless that one's invitation was taken back meanwhile (`stale`
in `DemotesKnow`); whom a DELETE has found without a membership still has none, or has
joined since (`DoomedKnow`). The last is what `OwnedAccountsStayHolds` needs: the snapshot
is older than the deletion, and only the invariant bridges the two.

**Credentials_proofs.** No request holds a lock from its reads to its commit, so
`CredentialsInv` is made of knowledge that ages well. `LinksExclude`: a claimed link stays
unused, since whoever would clear it must lock it first; `LinksRedeemedOnce` follows.
`ResendsKnow`: a resend still knows every open invitation, one sent meanwhile aborts it;
`InvitationsSingle` follows. `ReadsStand` and `SweepsFind`: what a request read still stands
and what it has swept is all there is, of keys that were made alone; `AloneIsAlone`
says that such keys come into being only while nobody is under way who would miss them.
`KeysFollow` follows. `RedeemedHasPassword` makes the missing password a resend read mean that
nobody has redeemed; `RoomLeft` keeps the numbers of passwords under way within `MaxHash`.

**Quotas_proofs.** A month: whoever has counted holds the lock, and no call is reserved
meanwhile (`CountedKnows`). An open budget: every request in hand may take `Most`, and the
one that counted last left room for itself (`RoomFor`), so the overrun is what the others
may take.

**Forms_proofs.** `BuilderInv`: a publication that may still claim its revision has read the
text stored under it and compared it with the last version. `LinksInv`: a settings write that
may still commit compares the words in force, unless one of the other kind came in between,
which marks what is left behind (`crossed`); a participant's request no write came across was
judged by the deadline in force and, unless it came with a proof of an older word, by the
word in force (`VisitsWereAsked`). `AnswersInv`: a row has a screen that explains it. For this
the loop of `visibleQuestionIds` is a recursive function, and everything about it is
proved for forms of any length. The library's induction over the naturals takes a predicate
as a parameter, which the provers cannot instantiate; `FirstOne` replaces it: a nonempty set
of questions has a least one (`WFMin` and `NatLessThanWellFounded`, whose parameters are
sets). What is to be shown of all questions is shown by refuting the first exception.
So `LoopRuns` (the function is defined), `VisibleIsTheEnd`, `VisibleIsPass` and
`PassIsUnique`: what the loop computes is the one set in which each question is shown exactly
if its condition is met by those shown before. `SameScreen` carries it over the
normalisation, and `AnswersStandHolds` follows.

**Jobs_proofs.** `RetentionInv`: the moment of a run lies behind the clock, and what it still
owes is due and in a later phase, in the batch, or behind the cursor (`OwedIsDue`). That
makes `NothingIsSkipped` and `TermsHold`. `AlertsInv`: a metric has one mail
more than notes were lost only while its row, or the run that has just mailed it, knows of the
last one.

**The compositions.** `AccountsAreEach`, `FormsAreEach` and `JobsAreEach` show that a step of
a composition is a step or a stutter of each component; with them `AccountsTypeCorrect`,
`FormsTypeCorrect` and `JobsTypeCorrect`, and in `AccountsHold`, `FormsHold` and `JobsHold`
the components' properties of the composed specification.

## 6. What is not shown

- **Model-checked only:** the liveness properties `EveryMailSettles`, `EveryRequestEnds`,
  `UnclaimedIsDeleted`, `RunEnds`, `BreachIsReported`. Liveness under fairness is outside
  the prover (no ENABLED).
- **Violated, and so neither:** `RequeuedIsRetryable`, `CleanIsStored`,
  `NestedTermsAreKept`, `SuperadminRemains`, `MembersStay`, and `EveryMailSettles` in the instance
  of `mail_starvation`.
- **Abstracted:** the instants of the backoff and of the 24 hours, except that no request
  lasts 24 hours and no upload under way is that old; totals and quotas of files per answer;
  that files are named by content type or position; the batch size of the sweep (a run takes
  all it listed; one failure is passed over, as in the code); mail text and recipients;
  availability and validation where they refuse before anything modelled happens. In
  Credentials one account stands for all, and provider accounts carry no link. In Answers all
  questions are of one type, the e-mail address, whose answers are spelled anew.
- **External:** PostgreSQL's locks, foreign keys, serialisation failures and deadlock
  detector, the volume, the mail server, as the code uses them.
- **Not modelled:** the components marked so in the inventory, with their reasons in
  PROJECT.json.

## 7. The plan

1. **Single sign-on**: the issuer an invitation is stamped with, its binding to a subject,
   and a change of the provider meanwhile.
2. **Rights**: groups, the powers of a member and what one may hand on; restrictions of a
   form against memberships that end.
3. **Public form gate**: allowances that expire, counters per process, tokens bound to a form.
4. **Pure operators** of the shared package beside conditions: availability, the merging of
   settings, effective permissions, each against a reference definition.
5. **Proofs**: those modules' safety; an abstract counter that Admission refines.

## 8. Running it

    tlc -workers 2 -config MCServing.cfg MCServing
    tlapm MailQueue_proofs.tla

PROJECT.json names the module and configuration of every run, the mutants that each property
catches, the lines each definition models, and the theorems.
