# LA-Server: TLA+ models and proofs

LA-Server is the REST server of a children's play city: participants ("employees") check in for
the day, take jobs at companies, and leave them. It is a Flask application on MariaDB, served by
waitress with a handful of worker threads, and it tells its clients by hashes whether they still
speak its language. Its hard behaviour is not in any one function; it is in what two requests, a
reset, an import, an administrator's edit, midnight or another developer's push can do between two
statements of a third. This directory models that, checks it with TLC on small instances, and proves
the main results with TLAPS for every instance.

Everything here is translated from `app/` and `scripts/`. Paths below are relative to the
repository.

## The system

### Components

| component | state | operations | hard behaviour | correctness | status |
|---|---|---|---|---|---|
| job assignments (`app/services/job_assignment.py`) | `job_assignments`, `job_assignment_history` | create, delete by number, delete by participant, reset | concurrent transactions, row and gap locks, snapshots, deadlock victims | caps, one job each, one history row per ended job, an empty scope after a reset, every request answered | modelled |
| company caps (`app/services/company_jobs_max.py`) | `companies.jobs_max`, `company_jobs_max` | schedule rows: create, update, delete; CSV import; effective cap | tiers of day and shift, two clock readings in one request | the most specific row decides; the response explains its own cap | modelled |
| part-time rows (`app/services/part_time.py`) | `part_times` | create, update, delete, CSV import; list filter | the slot rule written twice, in SQL and in Python | filter and list entries agree | modelled |
| village.ini cache (`app/village_config.py`) | a file, a dictionary and a stamp | load, typed accessors | threads without a lock, a file edited under them | what is served is what the file says | modelled |
| attendance (`app/services/attendance.py`) | `attendances` | check-in, check-out, day and participant lists, the gate of placements | two scans of one badge, a clock read several times, midnight and the turn of the week | one row per day, written once; the answer is what is stored; each row is listed under its day | modelled |
| authentication (`app/auth/`, `app/services/auth.py`) | `authentications`, tokens held by clients | login, refresh, logout, guards; change and reset of a password, tier | claims that outlive the row; two writers of one row | how far claims lag; the flag tells the password | modelled |
| employees, companies (`app/services/employee.py`, `company.py`) | `employees`, `companies` | create, update, deactivate, delete, list, CSV import | rows read first and written later, foreign keys, what the ORM has loaded, an import whose lines share a session | deletes leave placements alone, changes merge, reports of an import are true, lists agree | modelled |
| version bump hooks (`scripts/development/`) | commits, branches, clones | patch per commit, minor per push, merge, fetch, push, CI | pushes that race, fetches that fail, merges git makes itself, branches merged behind main | one minor version is one contract; versions never fall | modelled |
| compatibility hashes, OpenAPI (`app/contract_version.py`, `app/openapi_spec.py`) | a generated file | slice, close over `$ref`s, strip documentation, hash | references that lead on, changes far from the operation | a hash changes exactly when something depended on does | partly |
| request lifecycle (`app/__init__.py`, `app/errors.py`) | a session per request, a pool, peak counters | begin, commit, roll back, close | error in the middle | all or nothing, no lock left behind | partly |
| history reads, schema metadata, assignment numbers, village data routes, backup, health and logging, repository tooling | see "Not modelled" | | | | not modelled |

### Interactions

A route validates its input, opens `with g.db.begin():` and calls one service, so **a request is one
transaction**: an exception leaves the block and rolls back (also an `APIError` such as a 404), a
normal end commits. Services share nothing but the database and the village.ini cache. The placement
checks read rows that other services write (companies, participants, schedule rows, attendance), and
the camp clock, whose zone comes from the cache. Authentication shares the participant's row with the
employee service, and the guards of all routes read nothing but the token. The CSV imports are
processes of their own on the same database. The hooks and the CI share the git repository.

## Modules

| module | models | source |
|---|---|---|
| `JobAssignments` | the placement service as concurrent transactions | `app/services/job_assignment.py`, `app/repositories/job_assignment.py`, `company.py` |
| `AssignmentBoard` | what that service promises, without transactions | the same, as an abstract specification |
| `ScheduleSlots` | the day/shift tiers, as pure operators | `app/schemas/schedule_slot.py`, `part_time.py`, the SQL of `app/repositories/employee.py` |
| `PartTimes` | the part-time table and both of its readers | `app/services/part_time.py`, `scripts/bulk_import_part_time.py` |
| `CompanyCaps` | the cap of a company through schedule writes, clock and response | `app/services/company_jobs_max.py`, `app/schemas/company.py`, `app/camp_time.py` |
| `VillageConfigCache` | the ini cache under threads | `app/village_config.py` |
| `Attendance` | check-in and check-out as concurrent transactions under a clock; the lists; the gate | `app/services/attendance.py`, `app/repositories/attendance.py`, `app/schemas/attendance.py` |
| `AttendanceBook` | what attendance promises: a book nothing is erased from | the same, as an abstract specification |
| `Accounts` | login rows, passwords, tokens and guards | `app/auth/`, `app/services/auth.py`, `app/repositories/auth.py` |
| `Registry` | the rows of participants and companies: requests, CSV import, list | `app/services/employee.py`, `company.py`, `app/repositories/`, `scripts/bulk_import_*.py` |
| `ContractHashes` | what each compatibility hash is taken over, as pure operators | `app/contract_version.py` |
| `Release` | two clones, a server, the hooks and the CI | `scripts/development/`, `app/version.py` |
| `*_proofs` | the theorems about the module they extend | |
| `MC*` | bounds, data and symmetry for TLC | |

`PartTimes` and `CompanyCaps` extend `ScheduleSlots`, as both services call `schedule_slot.py`;
`Release` extends `ContractHashes`, as both hooks call `contract_version.py`. `JobAssignments` is
composed with `AssignmentBoard`, and `Attendance` with `AttendanceBook`, by refinement. Of the
company's cap `JobAssignments` keeps only a number that may change at any time (`slotMax`), and of
attendance only whether the gate is open: `CompanyCaps` and `Attendance` say how these come about.

### JobAssignments

A thread is `idle` or at a statement of its request. `create_assignment` is `BeginCreate`,
`LockCompany` (`SELECT … FOR UPDATE` on the company), `CheckAssignment` (participant, check-in gate,
one-job rule, count against cap), `InsertAssignment`, `CommitCreate`. The deletes and resets are
`Begin…` (the reads and the history inserts, which nobody else sees before the commit), then the
DELETE as `RemoveRows`, `DeleteMisses` (the 404 of a row that is gone) or `DeleteConflicts`, then
`CommitRemove`. `Rollback` may end any request at any point: a deadlock victim, a lock timeout, a
lost connection. A refusal before the first lock or write changes nothing and is left out; so are the
purely reading requests.

The database is external and modelled from how the code uses it: InnoDB at REPEATABLE READ, the
default, which no line of the repository changes.

- A plain SELECT reads the snapshot of the transaction's first plain SELECT. In a create that is
  taken under the company lock, in a delete or reset it precedes the DELETE. Reads answered by one
  snapshot are one action.
- `SELECT … FOR UPDATE`, INSERT and DELETE act on current rows and lock them: `LocksCompany`,
  `ScopeBusy` (uncommitted rows in the range), `RangeLocked` (the gaps of a reset's DELETE),
  `ReferencesEmployee` (the foreign-key check of an insert).
- `SnapshotIsolation` is `innodb_snapshot_isolation`: a locking access to a row that changed since
  the snapshot fails with errno 1020, which `app/errors.py` maps to 409. It is on by default only
  from MariaDB 11.6.2 and `README.md` asks for 10.6 or newer, so both settings are run.

`Environment` is everything else that changes what the checks read: company and participant updates,
schedule rows and the shift change (`ChangeSlot`), a check-in, midnight (`NewCampDay`).

### CompanyCaps, PartTimes and ScheduleSlots

`ScheduleSlots` holds the precedence (exact day before weekday/weekend aggregate before all week, and
in each tier the shift before the whole day), once as the Python walk (`Resolve`, `ForShift`) and once
as the SQL tiers (`TierMatches`, `ShiftMatches`). `PartTimes` writes the table by every path that can
(`Create`, `Update`, `DeleteOne`, `DeleteAll`, and `Import`, which looks a row up by participant and
day only) and compares the two readers. `CompanyCaps` writes a company's schedule the same way, and
makes a request of it: `Load` reads the rows in one snapshot, `ReadDay` and `ReadShift` read the clock
one after the other, `Respond` computes cap and context, `Sent` ends the request. `Tick` moves the
clock by half a day, 13:00 or midnight. `jobs.available` is left out: it is one subtraction, which
`app/schemas/company.py:149` cuts off at 0 although `docs/database_design.md:465` says that it may be
negative.

### VillageConfigCache

`load_village_data` is one action per access of the file or of the shared dictionary: `Stat`,
`Forget`, `CheckData`, `CompareStamp`, `ReadFile`, `StoreData`, `StoreStamp`, `Serve`. `Edit` saves,
breaks or removes the file between any two. Every edit changes the file's modification time.

### Attendance and AttendanceBook

A request is `BeginCheckIn` or `BeginCheckOut` (reads the participant, and for a check-out the rows it
sees: the snapshot), `ReadDate` and `ReadStamp` (the camp date and the instant are two readings of the
clock), `InsertRow` or `UpdateRow`, and `Commit`. Two inserts for one participant and day meet at the
unique key: the second waits for the first (`RowLocked`) and is refused if that one commits; the
conditional UPDATE of a check-out acts on the current row and tells the loser by its row count.
`Refuse` is every 4xx, `Rollback` every error. `Environment` is the clock (`Tick`), a change of the
participant or the tier, and an edit of village.ini's two switches. The lists, the resolution of a
weekday within the ISO week, a participant's history and the gate of placements (`GateOpen`) are
operators over rows and clock.

`AttendanceBook` has two steps: `Arrive` and `Leave`. The mapping reads arrivals and departures off the
committed rows; the book allows an arrival to name the day before its instant, because a check-in
that runs across midnight does (`app/services/attendance.py:49`).

### Accounts

A client holds an access and a refresh token, or none; tokens copy tier and number, and the guards
(`admin_required`, `staff_required`, `employee_required`) look only at them, as
`app/auth/decorations.py` does. `Authenticate`, `Refresh`, `Logout` are steps of a client. A password
change, a reset, a change of tier and a line of the CSV import are transactions: `Begin…` reads the
row, `Write` updates the columns that differ from what was read (that is what the ORM emits), and
`Conflicts` is errno 1020. Creating, renaming, deactivating and deleting participants is one step
here; `Registry` looks inside. `Tick` moves the clock and drops expired tokens. A password is one of
two values, made from the last name or chosen: hashing is a library's.

### Registry

Participants and companies have the same shape (a unique key, a flag, rows that refer to them), so
their services are modelled over one table of rows. A change or a delete is a read (`Begin`, by
`update_employee`, `update_company`, `deactivate_employee`, `hard_delete_employee`, `delete_company`)
and a later `CommitUpdate`, `CommitDelete` or `Refuse`; a `Refuse` may happen at any time, which covers
duplicate keys, referring rows, lost rows and conflicts (`app/errors.py`: 409, or errno 1020). What the
ORM does on a delete is in the model: rows it loaded with the parent are first set to NULL, which they
do not allow, and rows it did not load are left to `ON DELETE CASCADE` or `RESTRICT`. The CSV import is
a process with one session and one commit per line: `SkipLine` (participants only: a company's
unreadable cell fails in the database), `LookUp`, `ImportLine`, `LineFails` (the session is broken until it is rolled back) and `RollbackLine`.

What a request body or a cell turns into is kept where the two services differ: `"false"` is false for
a participant and true for a company (`app/schemas/company.py:101`), an empty cell means active, and an
empty `auth_group` is the column's default in an insert and NULL, hence a failed line, in an update.

The import's session lives as long as its file and does not expire rows on commit
(`app/database.py:121`): a later SELECT of a participant that an earlier line made or changed answers
with the contents the session remembers. `loaded` is what it may remember, and `LookUp` answers with
that or with the row as it is (whether the object is still referred to is the garbage collector's
business); a remembered row that differs is `stale`. Files may repeat keys. A company's object is
referred to by nobody between two lines and is always read afresh.

### ContractHashes and Release

A contract is the operations, schemas, responses and tables of one commit, each with a structure, a
documentation part and references. `ContractHashes` translates the slicing, the closure over
references and the stripping of documentation; a digest is the value it is taken of, that is, digests
do not collide. `DependsOn` says what the slices are for without the code's loops: the definitions in
every set that has the operation and all that its members refer to. `NamesAssumption` asks for
finitely many names, of one kind each.

`Release` has developers with a clone, a branch and a working copy of the hash file. `Commit` runs the
pre-commit hooks (regenerate the file, raise the patch version unless a higher version is staged),
`MergeMain` merges main into the branch, `PrePush` fetches (or fails to), compares with the
baselines (`from_refs` is what pre-commit passes: the branch's tip or, for a new branch, the commit it
forked from) and passes or makes a commit and aborts, `Push` and `Rejected` are the server's answer,
and `MergePull` brings a branch to main after the CI's check: main moves forward to a branch that
contains it, and a branch that does not is merged by git alone, where no hook runs. Assumed of
developers: hooks are not bypassed; of two versions that conflict the higher is kept; HEAD is what is
pushed, and a new branch has a commit of its own. Assumed of the server: it merges, and does not squash
or rebase. A merge commit of a branch that contains main has that branch's content, so the model makes
none. A merge without conflict runs no pre-commit hook, since `scripts/setup.sh:384`
installs pre-commit and pre-push only. A release is a tip main has had whose hash file the CI
(`.github/workflows/pre-commit.yml:67`) accepts.

## Runs

| run | expected | shows |
|---|---|---|
| `assign_read_view` | pass | two requests and one change of the camp, stale reads not detected: cap, one job per participant and company, one history row per deleted job, an empty scope after a reset |
| `assign_snapshot` | pass | two requests, stale reads detected, fair scheduling: the service implements `AssignmentBoard`, each job is archived once, every request ends |
| `assign_one_job` | violation | one participant, two companies, two jobs |
| `reset_lost_history` | violation | a job removed by a reset without a history row |
| `company_caps` | pass | precedence, the response explains its cap, the cap is of an instant unless midnight passes |
| `part_times` | pass | SQL filter and Python projection agree on every reachable table; a write changes the lists of its own days only |
| `village_one_worker` | pass | one serving thread: the cache is the file |
| `village_stale` | violation | two threads leave old data under the new stamp |
| `attendance` | pass | two scans of one badge over two midnights: the table is an attendance book, one success per scan, answered as stored, listed under its weekday, and a check-out leaves the gate open |
| `accounts` | pass | tokens, tiers, passwords: how far a claim lags behind the row, and that the flag tells the password |
| `registry` | pass | a request and an import on three rows: no delete takes a placement, changes merge, lines of an import do not disturb each other, write only what they say and are reported as they went, the lists divide what there is |
| `release` | pass | two developers and merges on the server: one minor version is one contract unless a branch behind main was merged, a pinned hash changes exactly when something depended on does, versions never fall, the hook makes no idle commit |

### What the violations mean

Each contradicts a sentence of the documentation, quoted in `PROJECT.json`.

- `OneJobPerEmployee`: the one-job check is a plain SELECT under a lock on the *company* row. Two
  creates for one participant at two companies hold different locks, and both see no row. Nothing else
  breaks the rule: `OneJobUnlessRaced` proves it while no two creates for one participant are past their
  checks together (`CreatesApart`), whatever other creates, deletes, resets and the camp do meanwhile.
- `RemovedAreArchived`: a reset archives the rows of its snapshot and deletes the current ones.
  Without stale-read detection a job committed in between is deleted unarchived. Two *deletes* are
  safe: the row count of the loser's DELETE is 0 and its history row is rolled back (`DeletedOnce`,
  which passes and is proved). `DeletesLoseNothing` proves that only resets lose rows, for either
  setting, and `NothingIsLost` that with detection nothing is lost.
- `SettledCacheIsCurrent`: the cache's two entries are written, cleared and read again without a lock.
  It takes an edit under a load: while the file is edited only when nobody loads it (`QuietEdits`), the
  cache is right for any number of threads (`QuietCacheIsCoherent`, `QuietLoadsAreFresh`).

### Other divergences

These have no run of their own: a passing property states the exception, or a setting.

- A reset can also archive a job twice, when another request ended it after the reset's snapshot and
  stale reads are not detected. `ArchivedOnce` is checked and proved for the other setting only.
- `camp_day()` and `camp_shift()` each read the clock, so across midnight a company's cap is that of the
  morning that began a day earlier. `CapOfAnInstantOfTheDay` makes that exception.
- With two serving threads a load of village.ini may return None although the file is there: the entry
  is tested, cleared by the other thread, and read again (`app/village_config.py:80`). The accessors
  then answer their defaults. This too takes an edit, the removal of the file, under a load.
- A password change and a reset that overlap write the flag only if it differs from what they read, so
  without `innodb_snapshot_isolation` the flag may be wrong for good: a password made from the last name
  that nobody is asked to change. `FlagTellsPassword` is checked with the setting on; without it,
  `FlagsTellUnlessRaced` proves it unless the row is written between the read and the write of a
  transaction that sets its password.
- A refresh asks whether *the number in the token* is an active participant's, which
  `app/services/auth.py:169` words as "if employee still exists". After the number went to somebody
  else the old holder's token is refreshed, with the old identity. `BearerIsRecent` is therefore about
  numbers.
- `docs/database_design.md:235` and its Example A (`:295`), as well as `docs/developer-guide.md:1794`, say
  that a calendar-day row overrides the aggregate for that day: with `weekdays/morning` and
  `friday/afternoon` a participant is there on Friday afternoon only. The code
  (`app/schemas/schedule_slot.py`) looks each *shift* up by itself, as rule 6 of the same document words
  the algorithm, and lists him on Friday morning as well, by `weekdays/morning`. `PartTimes` and
  `ScheduleSlots` follow the code: `ListedIffProjected` compares its two readers with each other, not
  with the example.
- `docs/database_design.md:694` and `:716` say that schedule and part-time rows are removed with their
  company or participant (`ON DELETE CASCADE`). The service reads the parent with them
  (`get_by_name`, `get_with_company`), and the ORM sets the key of rows it has loaded to NULL before it
  deletes the parent, which the NOT NULL columns refuse: the request answers 409, and only rows written
  after the read cascade. `CommitDelete` does as the code does, and no property asks for either.
- A line of an import may be reported as updated although its tier was not written: an administrator renames a
  participant of an earlier line to the number of a later one, the session answers the later line's
  SELECT with the contents it remembers, and a cell that agrees with those is left out of the UPDATE.
  `ReportsAreTrue` makes an exception of it (`stale`); `LinesWriteTheirCells`, that a line at least
  writes nothing else, has none.
- The version hooks compare a branch with the main it knows. Nothing in the repository asks that a branch
  contain main when it is merged (`.github/workflows/pre-commit.yml` only runs checks). Two branches that
  both went from 1.1.0 to 1.2.0 with different contracts merge one after the other, and main has two
  releases 1.2.0 that differ. `MinorTellsContract` makes that exception (`behind`) and only that one; the
  run reaches such merges, and without the exception TLC finds the two releases. The same merge may leave
  main with a hash file of no contract, until the next commit regenerates it.

### Bounds, and why they are enough

- `JobAssignments`: two threads, two participants, two companies, two rows ever inserted (`MaxId`), one
  change of the camp (`MaxChanges`). Every guard in the code speaks of at most one other request, and
  each hazard listed needs two requests, at most two rows and one change. With a cap of 1 the second
  row is already the one too many. `assign_snapshot` takes one participant and no change, so that
  everything competes and the liveness check ends. With a third request the model, in which a lock has no
  queue, would let two requests pass a reset by turns for ever; InnoDB's queue does not. The proofs of
  the refinement have no bound.
- `CompanyCaps`: two days of different aggregates, caps from a set of three, two writes, a clock that
  runs over one midnight and a bit. Three tiers times two shifts are reached by two rows.
- `PartTimes`: no bound on the writes; all tables over a weekday and a weekend day are reached.
- `VillageConfigCache`: one or two threads and a few edits (`MaxEdits`).
- `Attendance`: two requests for one participant (participants share nothing), days of two instants,
  weeks of two days, the clock up to 4: two midnights, one of them the turn of a week, can fall between
  any two statements. One change of participant, tier or switch.
- `Accounts`: one client (clients share only rows), two numbers and two rows, so that a number can go to
  somebody else; an access token of one instant and a refresh token of two, so that both lifetimes add
  up within `MaxTime = 3`; two racing transactions, two writes, two tiers.
- `Registry`: one request, an import of one of four files (a number that may have become a later line's, a
  skipped line, a repeated key, a company's unreadable cell), two participants, one company, two writes of
  the API. The request and the import are the two writers; a second request doubles what the import
  already does to the first. All properties are proved for any number of requests and rows.
- `Release`: two developers and three commits besides the first. Two branches that change the contract
  and a bump fit, and so do two branches and the server's merge of both, with a hash file that git merged.
- Deadlock checking is off where the bounds stop the system (all keys used, all commits made).

### Fairness

`FairSpec` of `JobAssignments` assumes that a request that was begun runs on. Steps that wait for nobody
are weakly fair: waitress's threads are scheduled. Steps that wait for a lock are strongly fair: InnoDB
grants locks in the order of its queue, so a lock that is free again and again reaches the one who
waits. Nothing is assumed of `Begin`, of `Rollback` or of the environment. `RequestsAnswered` therefore
says that no circle of requests waits *between* statements, at the company's row or at a reset's range,
and that no lock outlives its request. A statement takes all its locks at once in the model. InnoDB
takes them row by row and gap by gap, so that two statements may deadlock within their ranges; it then
rolls one of them back (the step `Rollback`), and that every such circle is found is left to InnoDB.
The other modules state safety only: their requests wait for at most one row, which `Rollback` frees,
and an import or a hook runs when somebody starts it.

## Proofs

TLAPS proves, for any number of threads, participants, companies, rows, files, developers and changes:

- **`JobAssignments_proofs`.** `Invariance` proves `Inv`, and `TypeCorrect`, `OneJobAtACompany`,
  `DeletesArchiveOnce`, `ResetLeavesNothing` follow. `Inv` is what is needed beyond the properties:
  `OneCreatorPerCompany` (the lock) makes `RoomReserved` and `NoRivalRow` stable between check and
  commit; `KeyInv` says that a key is never reused, whether its row is live, uncommitted, read into an
  archive or ended; `RemovalInv` says that deleted, uncommitted rows are live, held by one transaction
  and, for a single delete, the archived row. `CapacityIsRespected` is an action property from the same
  invariant, and so is `DeletesLoseNothing`. With `SnapshotIsolation`, `EndsArchiveOnce`,
  `NothingIsLost` and `Implementation`: each commit is one `Assign` or `End` of the board and everything
  else stutters. `OneJobUnlessRaced` assumes `[]CreatesApart` and adds to `Inv` that a create that found no job still
  finds none (`NoJobYet`).
- **`CompanyCaps_proofs`.** `CapsTypeCorrect`, `PrecedenceHolds`, `ResponseExplainsCap`,
  `CapIsOfAnInstant`, from `RequestInv`: what a request has read so far was the clock's value during it.
- **`PartTimes_proofs`.** `RowsAreStorable`; `ListAgreesWithEntries`, from lemmas that each SQL tier
  holds exactly when the Python walk reaches it; `WritesKeepOtherDays`, that the lists of days a write
  does not cover stay.
- **`VillageConfigCache_proofs`.** `CacheTyped` for any number of threads; `OneWorkerIsCoherent`,
  `OneWorkerIsFresh` for one serving thread (the assumption is named in the theorem), from `LoadInv`:
  what a load holds matches the stamp it took unless an edit came after. `QuietCacheIsCoherent` and
  `QuietLoadsAreFresh` for any number of threads under `QuietEdits`, from `QuietInv`: whoever loads has
  seen the file as it is, so threads that load together store the same.
- **`Attendance_proofs`.** `AttendanceInvariance` proves `Inv`: the unique key holds of committed and
  uncommitted rows together (`OneRowPerDay`, `WrittenInv`), readings of the clock are in order
  (`ReadsInv`), and an answer that was given still matches its row (`AnswersStay`). `OneSuccess`,
  `AnswersMatchRows`, `GateStaysOpen` follow, and `BookImplementation`: a commit is one `Arrive` or
  `Leave`, everything else stutters. `ListsAreViews` counts the weekdays a row is listed under, for
  weeks of any length, and needs no more than the types.
- **`Accounts_proofs`.** `AccountsInvariance`, from which `TiersAreRecent` and `BearersAreRecent` follow
  for any lifetimes: each token expires within its lifetime of the last instant its claims were true
  (`AccessFits`, `RefreshFits`), and a refresh hands over no more than the refresh token has.
  `FlagsTellUnlessRaced` assumes no setting but that a row is not written between the read and the write
  of a transaction that sets its password (`PasswordsMeetNoOther`). `FlagsTellPasswords` is its
  corollary under `SnapshotIsolation`, under which the later write fails.
- **`Registry_proofs`.** `RegistryInvariance` proves `RegistryInv`: the import knows the row of its line
  unless somebody wrote it meanwhile or the session remembered older contents (`Fresh`), so that a
  broken session has a cause (`LineInv`). `PlacementsSurvive`, `ChangesMerge`, `ImportLinesIndependent`,
  `ImportReportsTrue` and `ImportKeepsTheRest` follow, for any files.
  `PlacementsReferToRows` says that whatever a placement refers to is a row, through every race of
  deletes. With it `ListsDivide`: the filters divide what is listed, and the jobs of the companies add
  up to the placements. The sum is a fold, a recursive function on sets: it is proved by well-founded
  induction over the subsets of a finite table.
- **`Release_proofs`.** `ReleaseInvariance` proves `ReleaseInv`: the log only grows and its pasts are
  closed (`Log`), main only moves forward (`Main`), what two developers share has been on main
  (`Apart`), and every change of the hash file on main, or on its way there, is told by a minor version
  (`ChangesTold`), as far as no branch behind main was merged in between. `VersionsNeverFall` follows, and with `HashesTellContracts` (hashes differ exactly
  where contracts do, proved of all contracts) `MinorVersionsTell` and `BumpsHaveReasons`.
  `PinsAreExact` says that the loops of the closure end with what `DependsOn` asks for: a hash changes
  exactly when something it depends on does, however the schemas refer to each other. The loops are
  recursive functions on sets; their facts are proved by contradiction, from a smallest or a largest set
  that lacks them (`MinimalSubset`, `MaximalSubset`), since strict inclusion is well-founded on the
  subsets of a finite set.

Assumptions are the ones named in the modules (`ConstantsAssumption`, `NoSlotAssumption` and the like)
and TLC evaluates them in every run.

Where a theorem has a hypothesis it is one of the database's setting (`SnapshotIsolation`) or of the
schedule (`Threads = {w}`, `CreatesApart`, `QuietEdits`, `PasswordsMeetNoOther`), and stands in its
statement. The theorems of `RemovedAreArchived`, `OneJobPerEmployee` and the cache thereby tell what the
runs that expect a violation need in order to find one.

Only model-checked: `RequestsAnswered`, liveness under fairness, which this prover does not reach. The
sentences the three `violation` runs check are false as they stand.

## Not modelled

- *History reads and the CSV export* leave no trace and have no order; the rows they read are in
  `JobAssignments`.
- *Schema metadata* is one function at start-up: read the version row, insert it if it is missing,
  refuse to start if it is too old. Its one race (two processes on an empty database) ends at the
  primary key: the second does not start.
- *Assignment numbers* are a pure function of digits and its inverse, digit by digit; the models identify
  a placement by its row. Numbers are five digits wide when decoded, so row 100000 gets one that its own
  route refuses: a sequential limit.
- *Village data routes* serve what `VillageConfigCache` loads, with an entity tag, and static files.
- *Database backup* is an operator's command around an external program, with nothing concurrent to it.
  With `--force` the old file is truncated before the dump starts and removed when it fails.
- *Health, logging* and the *repository tooling* (set-up scripts, wrappers) keep no state of the system.
- Of the *request lifecycle*, the pool, its timeout and the peak counters: they delay or count requests.
- Of the *OpenAPI document*, its content: it is data, for which a contract of two resources stands.
- The pay increase and tax of a history row are two loads of village.ini and may be of two versions of
  it: `JobAssignments` leaves the wage out.

Hashing, signing and the dump program are external. Validation of request bodies is abstracted to
"what passes it": inputs range over what a validated request may hold. A company's name may be stripped
to nothing (`app/schemas/company.py:97`); names are model values here.
