# Account Automation Lab: formal models

TLA+ models of the program in `src/account_automation_lab` (below, `lab/`), TLC
runs on small instances, and TLAPS proofs for all instances. The program is a
local web application: an operator keeps browser profiles, opens them in
CloakBrowser, gives them proxies and queues jobs; workers run a workflow of page
operations for each job. Everything but the database calls runs on one asyncio
loop, so what makes it hard is what happens between two `await`s.

## 1. The system

| Part | Code | State | Operations | Talks to |
|---|---|---|---|---|
| Job state machine | `lab/jobs/state.py`, `models.py` | none | `can_transition` | both repositories, the handlers |
| Job runner | `lab/jobs/runner.py` | queue, site counters, claimed sites, worker tasks, poller, scheduler, stop flag | `start`, `stop`, `_claim_one`, `_worker_loop`, `_run_job` | repository, locks, engine, page provider |
| Workflow engine and steps | `lab/workflows/engine.py`, `steps.py` | position in the workflow (the coroutine) | `run`, one coroutine per step | repository, checkpoints, page |
| Checkpoints | `lab/workflows/checkpoints.py` | one checkpoint per waiting job | `wait`, `resume`, `cancel` | engine; the operator's handlers |
| Profile locks | `lab/profiles.py` | the locked profiles; one registry in the runner, one in the session manager | `try_acquire`, `release` | runner, session manager |
| Site adapters | `lab/adapters/*.py` | the modules found at import | `adapter_for`, `workflow` | runner |
| Session manager | `lab/browser/profiles.py` | open sessions, launches in progress, guard | `open_profile`, `close_profile`, `close_all` | profile store, locks, browser runtime |
| Profile store | `lab/browser/profiles.py` | records (in the repository), storage directories | create, update, clone, delete | repository, file system |
| Memory repository | `lab/repositories/memory.py` | jobs, events, sites, profiles, groups in dictionaries | one method per operation, none of which suspends | |
| Supabase repository | `lab/repositories/supabase.py` | the same in database rows | the same, one or more calls each, every call in a thread | external database |
| Proxies | `lab/proxy.py`, handlers in `lab/api`, `lab/ui` | assignments by profile | ensure, refresh, attach | external provider |
| One-time passwords | `lab/otp.py` | messages (external) | `wait_for_otp` | external database |
| HTTP API, lifespan | `lab/api/__init__.py`, `lab/main.py` | none of their own | handlers; start and stop of the whole | everything above |
| UI page | `lab/ui/pages.py` | the tables it shows, filter and selections, a lock and a flag for refreshes, one form per dialog | refreshes, buttons, dialogs, a timer | everything above |
| Runtime, fingerprints | `lab/browser/runtime.py`, `fingerprint.py` | none | options of a launch | session manager, external browser |
| Captcha, settings | `lab/captcha.py`, `settings.py` | none | solvers, configuration | external services |

What is hard, and what each part must guarantee:

- **Runner.** Poller, scheduler ticks, workers, the operator and `stop` interleave.
  A claimed job is in the queue or on one worker; a site counter is the number of
  its claimed jobs and never above the limit; two jobs never share a profile; a
  RUNNING job is not forgotten; a cancel wins over a resume; a busy site does not
  starve others; `stop` ends.
- **Runner on Supabase.** The same code, but each status change is read, write and
  log, with other tasks in between, and any call may fail. No job is given out
  twice, no claim leaks, no RUNNING row is orphaned, no queued job is forgotten.
- **Session manager.** Opening suspends twice, closing once, launches are shared by
  those who ask meanwhile. One browser per profile; the lock is held exactly while
  there is one; everyone who asks is answered; `close_all` ends.
- **Proxies.** The provider acts before its answer arrives, if it arrives, or after the call
  was given up; nothing keeps two requests for one profile apart. A profile keeps its
  lease for itself, and holds the credentials that are valid.
- **Catalogue** (sites, groups, profiles, storage). A profile is a row and a directory
  on the disk, written one after the other; each request is several calls of the
  database. A profile has its directory, wherever a request ends; an edit brings no deleted
  profile back; the row of a site with an adapter stays (it does not always: section 3).
- **UI page.** A refresh is a row of database calls with everything else in between; it is
  asked for by every handler, by a timer and by clicks, under a lock or outside it. No
  request for a refresh is lost, tables do not go back, and in the end the page shows what
  is there.
- **Profile dialog.** One form, filled when the answer to a click arrives and saved by a
  task of its own. No profile gets the fields of another.
- **Launch options.** Defaults, window and profile compete for the same switches. A
  browser starts as its profile says.

The complete list of hazards, each at its line and with the properties that
cover it, is `hazards` in `PROJECT.json`.

## 2. The modules

| Module | Models | Used by |
|---|---|---|
| `JobState` | statuses, `AllowedTransitions`, `CanTransition` | `JobRunner`, `SupabaseJobs` |
| `JobRunner` | the runner over the memory repository, with engine, checkpoints, locks, adapters and the operator's requests | `MCJobRunner`, `JobRunnerProofs` |
| `JobLifecycle` | what the runner promises: the life of one job, without queue, slots or locks | `JobRunner` (refinement), `JobLifecycleProofs` |
| `JobLifecycleProofs` | what the promise implies, for whoever implements it | `JobRunnerProofs`, `SupabaseJobsProofs` |
| `SupabaseJobs` | the runner over the Supabase repository, call by call, with failing calls and restarts | `MCSupabaseJobs`, `SupabaseJobsProofs` |
| `BrowserSessions` | the session manager | `MCBrowserSessions`, `BrowserSessionsProofs` |
| `BrowserLifecycle` | what it promises: no browser of a profile before the last one is gone | `BrowserSessions` (refinement) |
| `ProxyLeases` | ensure, refresh, attach, and the account at the provider | `MCProxyLeases`, `ProxyLeasesProofs` |
| `Catalog` | profiles with their directories, groups and sites, over the Supabase repository | `MCCatalog`, `CatalogProofs` |
| `Cockpit` | the operator's page: refreshes, timer, filter and selections | `MCCockpit`, `CockpitProofs` |
| `ProfileDialog` | the form of a profile, next to API clients, over the Supabase repository | `MCProfileDialog`, `ProfileDialogProofs` |
| `LaunchOptions` | what a browser is started with: operators without state | `ProfileDialog` |

**Grain.** An action is what one task does between two suspension points. In
`JobRunner` an `await` of the memory repository is no suspension point, because its
coroutines never suspend; a task is suspended on the queue, the page provider, a
page operation, a checkpoint, or not at all. In `SupabaseJobs` each call of the
database is one, and an update is three (`read`, `write`, `log`). Calls that only
read are merged with the step before them when nothing they read can change the
outcome.

**JobRunner.** `status` and `order` are the jobs of the repository, `site` its
sites; `queue`, `siteActive`, `claimed`, `locked`, `checkpoint` are `_queue`,
`_site_active`, the keys of `_claimed_site`, the lock registry and the checkpoint
registry; `pc`, `job`, `step` say where each worker is. `Claim` is `_claim_one`, used
by `PollerClaim` and by `TickClaim` (`tick` is a scheduler tick on its way to the
loop, which may arrive after `stop` began). `Take...` are the ways `_run_job` begins,
`PageReady` ... `WakeCancelled` its middle, `EndRound` the `finally` of
`_worker_loop`. `Start`, `StopBegins`, `StopCancels`, `...WorkerStops`, `StopReturns`,
`StopRaises` are `start` and `stop`.

**SupabaseJobs.** `at` is where a task is, `stage` the call of its update that is
next, `job` the job it is about, `row` the status in the database. `ClaimOver`,
`AskingOver`, ... say what a task does when its update is `done`, `refused` by the
transition table or `failed`. `CallFails` lets a call fail, with a write landed or
not; `Crash` restarts the process, which also stands for `stop`. Sites, slots and
profile locks are left to `JobRunner`: here they would only restrict the interleavings.
`started` and `faulty` are history: the jobs that were ever given to a worker, and
whether a call has failed or the process has restarted.

**BrowserSessions.** `active`, `launch`, `guard`, `locked` are `_active`, the task in
`_opening`, the holder of `_open_guard`, the lock registry; `at` is where a caller
(handler or page provider) is; `phase` is the progress of `close_all`. The lookup of
the profile is a suspension point, since the guard is held across it.

**ProxyLeases.** `assigned` is `ProfileProxyManager._assignments`; `call`, `profile`,
`target`, `answer` describe the request of a client: the profile, the idproxy it read or
was sent, what the provider answered. `issued` is the provider (external): the current
version of the credentials of each lease; `late` are leases of which a change was given up
before the provider made it, and may still be made (`ChangesLate`). Any client asks for any
profile, and any idproxy is attached to any of them. `Remember` keeps the history:
`overtaken` are requests whose profile was given a lease after they read the assignment,
`contested` leases that two requests or profiles had to do with at once, until the
credentials outdated by it are gone, `attached` those the operator has attached;
`unanswered` are changes nobody was told of. The handlers of API and UI do the same steps;
that the UI wants an existing record, and always writes the sticky policy, is left out.

**Catalog.** `rows`, `groups`, `sites`, `used` are the tables (of the jobs, only whom they
refer to), `dirs` the directories under the storage root; `at`, `about`, `want`, `removes`
describe the request of a client. `AskCreate`, `Lookup`, `Make`, `Insert` are
`create_profile`; `AskClone`, `Clone`, `Make`, `Insert` are `clone_profile`; `AskDelete`,
`LookupStorage`, `Erase`, `Remove` are `delete_profile`; `OpenDialog` and `SubmitDialog`
are an edit in the UI, `Update` one by the API. `DirOf` is `_path_safe_profile_id`.
`Fails` lets any call be refused, which stands for unique keys, missing columns and
references that are not modelled (the schema allows one profile for each SIM and site, so
a clone of a profile with both is refused, and it adds no column `updated_at`, which every
profile row names). `EraseLost` is a deletion whose answer is lost. `Inserted` are
the sites that have a row at the start: `schema.sql` inserts only `example`, so other
adapters' sites have none until somebody creates them. `raced` and `late` are history:
the profiles whose creation met a removal of their storage, and the deletions of a site
that was created after they had looked for it; no code excludes either.
In memory the calls of a request follow each other with nothing in between, and no
reference is checked.

**Cockpit.** What a call returns is the `version` of what it reads; `at` and `call` say
which table a task refreshes and what it reads for it, `got` what it has read. `Read`
is a call, `GoesOn` shows the answers and begins with the next table of the task's plan,
`RoundEnds` and `RefreshAll` are the two ends of `refresh_all` with its lock (`Locked`) and
`refresh_again` (`again`). Those who refresh single tables outside the lock
are `Partials`, with a plan for each: the group filter, the Events button, the
handlers that met an error. `shown`, `rowsFor`, `options`, `eventsOf` are the tables,
`filter` and `selected` what the operator chose, `due` an on_change that has not
started. `requested` and `failed` are history.

**ProfileDialog.** `form` is `pdlg`, `editing` is `editing_profile`, `shown` whether the
dialog is open, `task` what each click waits for. A value in the form or in a row is
the profile it was meant for, so that a mixture is visible. `ClickEdit` and `Fill` (or
`OpeningEnds`) are `open_profile_dialog` before and after its `await`; `Save` and
`UpdateProfile`, `CreateProfile` or `SaveFails` are `submit_profile_dialog`. `Patch`,
`Clone`, `Delete` are requests of the API. `crossed` is history: the form was filled or
typed in while an opening waited. `Catalog` models the same dialog for what concerns
references and deletions; there a form is about one profile from the start.

**LaunchOptions.** `RuntimeFor` is the launch of a row under settings: `LaunchContext` for
CloakBrowser, `PlaywrightContext` for Playwright. A list of switches is a function, and
`Then` is concatenation: the last of equal switches counts. `IgnoreDefaultArgs` is
CloakBrowser's list of Playwright's switches to leave out, which the filter of
`--no-sandbox` extends; `CommandLine` (external) is what CloakBrowser and Playwright make of
the options, their own defaults included. The seed stands for the fields that are passed
on in the same way.

## 3. The runs

| Run | Instance | Shows |
|---|---|---|
| `JobRunnerServed` | 3 jobs (two on the data site), 2 workers, 1 slot per site | five invariants, the refinement `LifecycleSpec`, and `JobsServed` |
| `JobRunnerStop` | 2 jobs on one profile, 2 workers, the data site edited, disabled and deleted at any time | `ProfileExclusive`, `CancelEndsRun`, `StopEnds`, `WorkersLostOnlyByCancel` |
| `SupabaseJobsFaults` | 2 jobs, 2 workers, 1 request at a time; failures and restarts | `AtMostOnce`, `ClaimedOnce`, `RunningIsHeld` up to the first failure, `QueuedIsClaimed` |
| `BrowserSessions` | 2 profiles, 2 callers and `close_all` | safety, refinement, `OpensAnswered`, `ShutdownSettles` |
| `ProxyLeases` | 2 profiles, 2 clients that ask for either, 2 leases, up to 3 versions | `LeaseCurrent`, `LeasesApart`, `StickyLease` |
| `Catalog` | a chosen id, a uuid, a group, 3 sites (one with a row and an adapter, one with an adapter only, one of data), 2 requests at a time | `RowHasStorage`, `CodeSitesKept`, `NoResurrection` |
| `Cockpit` | the timer and a handler, a task of the filter, of the Events button and of an error handler; a group, 2 jobs; one change, one failing call, one click | `RefreshNotLost`, `FilterNotLost`, `NeverGoesBack`, `ViewSettles`, `FilterSettles` |
| `ProfileDialog` | 2 profiles and one to come, 2 tasks of the page, 2 inputs (a field typed, a request) | `NoMixing`, `LaunchAsConfigured`, `RuntimeKept` |

Four runs show where the code does not do what the repository says (`findings`
quotes the sentences):

- `JobRunnerWorkerCrash`: a job cancelled in the queue, whose profile is locked when
  a worker takes it, ends the worker.
- `SupabaseJobsFinal`: claim and cancel overwrite each other; a cancelled job comes
  back.
- `SupabaseJobsCancel`: a cancel between the WAITING_HUMAN write and the checkpoint
  cancels nothing; the worker waits for ever.
- `ProxyLeasesTwice`: two concurrent ensure requests buy two leases.

More divergences have no run:

- After a step raises, the job is WAITING_HUMAN, but its worker goes on to others and it
  cannot be resumed (the design document says that it "holds a worker slot while
  waiting").
- Pause writes WAITING_HUMAN, but the engine never looks at the status between steps, so
  the worker goes on (the design document says that the job stops "at the boundary
  between steps").
- A database call that fails right after a job was taken ends the worker
  (`AssignedFails`), which nothing starts again.
- The repository's README says that sites of adapters "cannot be deleted via the API"
  (README.md:101-104). `delete_site` looks for the row in one call and deletes in another;
  on Supabase the row of an adapter other than `example` may be created in between, and
  then goes (`CodeSitesKept` names exactly these deletions).
- Two requests at once on one proxy lease, or a change the provider makes after the call
  was given up, leave a profile with credentials that are no longer valid until the next
  change; nothing notices it (`LeaseCurrent` names the cases).
- Two clicks on Edit that wait together mix viewports: the form is not cleared between
  the answers, and a profile without a viewport keeps the one in the form. `NoMixing`
  leaves this out; without its last disjunct TLC finds the mixture in six steps.
- Saving the dialog erases `extension_paths`, which it does not show (`Written`).
- Pressing Save twice on a new profile creates two; and the answer to a save closes
  whichever dialog is open by then.
- In memory, `update_profile` stores the fingerprint as a dict (`memory.py:137`), and
  whoever reads one of its fields later raises: the page's refresh, a launch, a clone.
- `submit_site_dialog` sends `None` for an empty name or address, which overwrites them in
  memory and is refused by the database.
- When `launch_persistent_context` raises, the Playwright driver that was started for it is
  not stopped (`runtime.py:41`).
- The runner builds the workflow context without an `otp_provider` and a session
  manager, so `get_otp` and `read_from` always raise.

**Bounds.** Jobs are created at most once each, so a run has as many jobs as the
instance; a workflow has at most three steps; `MaxVersion` bounds the changes of a
lease; `Uuids`, `Groups` and `Fresh` bound what is
ever drawn, `Wanted` the references that are asked for, `Choices` the fields that are set.
`MaxVersion`, `MaxFailures` and `MaxClicks` bound what happens to the page of `Cockpit`,
`MaxInputs` what is typed and requested in `ProfileDialog`: one late answer needs two
refreshes and one change between them, and a mixture two openings and a field.
Two workers and two jobs on one profile are enough for every pair of tasks that
can meet: locks, slots and checkpoints are per profile, site and job, and each
handover is between two tasks. The third job is there for a site that is full while
another is not. What holds of these instances by safety is proved for all (section 5).
`CHECK_DEADLOCK FALSE` is set where a system may stop: after `stop`, or when every
job is over.

**Fairness.** Weak fairness of each task that can run: the loop is FIFO, page
operations and launches have timeouts, the poller sleeps one second, the scheduler
ticks every second. In `SupabaseJobs` the poller is not assumed fair, since it may
have ended; the tick is. The operator owes nothing: no fairness on create, cancel,
pause or resume, so a job may wait for ever, and `JobsServed` says what others may
expect then. `close_all` and `stop` need not be called. In `Cockpit` calls are
answered, a task that was created starts, and the timer, which fires every three
seconds whatever its last call did, calls `refresh_all` when no round runs; clicks,
changes and failures are not fair, and end.

## 4. Properties worth a word

- `LifecycleSpec`: under the mapping of queue and workers to the life of each job, the
  runner does no step that `JobLifecycle` forbids: a job starts once, only after it was
  claimed, and ends with the worker that has it.
- `RunningIsHeld` (both modules): a RUNNING job is claimed, whatever failed before.
  In `SupabaseJobs` it holds in spite of the lost updates: a stale write can bring back
  a terminal job, but only while a task still holds it. It holds until the first call
  fails: a restart strands RUNNING rows.
- `AtMostOnce`: stronger than `ClaimedOnce`, over the whole history and restarts.
- `LockedByBrowser`: an equivalence; the lock leaks on no path and is never freed early.
- `RowHasStorage`: depends on the order of the steps on the disk and in the database, in
  both directions, on every way a request can end.
- `LeaseCurrent`: for all requests, concurrent ones included, with the exceptions spelled
  out as history. The exceptions end: a contested lease is back under the property as soon
  as no outdated credentials of it are left, one whose change was lost with the next answer.
  Each is needed: without the one TLC finds a change whose answer is lost, without the other
  a lease that is listed for one request and changed by a second before the first assigns.
- `StickyLease`: a stale read may replace a lease, but only if another request was assigned
  a lease for the profile after the read. `LeasesApart`: and even then no profile gets the
  lease of another, unless the operator attaches it.
- `CodeSitesKept`: a deletion that found the row, or began after it was there, never takes
  the row of a site with an adapter.
- `WorkersLostOnlyByCancel`: the cause of the finding `JobRunnerWorkerCrash` is the only one;
  failing page operations, failing adapters and cancellations elsewhere end no worker.
- `RefreshNotLost`: whoever calls `refresh_all` during a round may have written after the
  round had read. The flag must be cleared before a pass reads and tested after its last
  table; a round that fails forgets it, and the timer repairs that (`ViewSettles`).
- `FilterNotLost`: rows of another filter are shown only while somebody is on the way who
  will correct them; `FilterSettles`: the refresh takes back a filter whose group is gone, after the rows
  were made with it; only the on_change of that makes rows and filter agree.
- `NoMixing`: depends on the form being cleared at the click, and filled and named in one
  step after the answer; and on a clone starting without the seed of its original. It says
  where values come from and not that they differ: nothing in the code compares seeds.
- `LaunchAsConfigured`: compares the command line made of every row that edits can leave,
  under all settings, with what its fields ask for. `--no-sandbox` comes from two sides,
  CloakBrowser's switches and Playwright's, and the filter must stop both.

## 5. Proofs

`tlapm` checks these for every value of the constants, from the named assumptions of
the modules.

**`JobLifecycleProofs`.** What the promise itself implies: a terminal status is never
left (`TerminalIsFinal`), a job comes to be held only from the queue (`ClaimedAtMostOnce`),
and only its holder lets it succeed or fail (`OutcomeIsHolders`). Every implementation of
the promise inherits them.

**`JobRunnerProofs`.** `TypeCorrect`, `SiteSlotsCorrect`, `ClaimedOnceCorrect`,
`ProfileExclusiveCorrect`, `RunningIsHeldCorrect`, `CheckpointAgreesCorrect`,
`WorkersLostOnlyByCancelCorrect`, and `LifecycleCorrect`, the refinement, with the three
consequences of the promise carried over. None of the
properties is inductive alone. The bookkeeping comes first: the queue has no
repetitions, queue and workers partition the claimed jobs, counters are cardinalities
of claimed jobs. Locks, statuses and checkpoints are then proved from it, and the
refinement needs them all. Steps are classified once (a worker takes, goes on or
leaves; a claim; a request), and each invariant is proved over the classes.
`StopLeavesNothing`, the safety half of `StopEnds`: when `stop` has returned, no worker
has a job, no profile is locked and no checkpoint is left. A slot may still be held, for
a job in the queue.

**`SupabaseJobsProofs`.** `TypeCorrect`, `ClaimedOnceCorrect`, `AtMostOnceCorrect` and
`GuardKeptCorrect` (the guard is held exactly while a claimer is in a claim) for any
faults; `RunningIsHeldCorrect` until the first of them: `AllHeld` is kept by every
step that goes well (`GoesWell`). `AtMostOnce` needs that a row
is QUEUED only as long as its job was never claimed, which no write can restore:
no update writes QUEUED, and the guard lets one claim run at a time.
`LifecycleApart` is the refinement of `JobLifecycle` in every behaviour in which no two
updates of one job are between their read and their write at once (`WritesApart`) and no
call fails. A job is held from the write of its claim on (`Holding`) and not only from
the moment the claim returns: in between the row is RUNNING already, and to the promise
that is a claim.

**`BrowserSessionsProofs`.** `TypeCorrect`, `OneBrowserCorrect`,
`LockedByBrowserCorrect`, and the refinement `BrowserLifecycleCorrect`. The invariant
ties the lock of a profile to exactly one of: a launch in progress, a session, a
caller that closes it. `WaitersAwaitedCorrect`, the safety half of `OpensAnswered`:
whoever waits in `open_profile` waits for a launch task that still runs.
`OpenedLiveCorrect`: an answer comes with a session that is open at that moment, but for
one window, the join of a launch that has succeeded and whose callback has not run.

**`ProxyLeasesProofs`.** `TypeCorrect`, `LeaseCurrentCorrect`, `StickyLeaseCorrect`,
`LeasesApartCorrect` and `EnsureBuysIfNone`, with no assumption on who asks for what. The
invariant: what two have to do with is contested (`CrowdedContested`), and the credentials
of every other lease, assigned or on their way, are valid (`LeasesValid`); a request that was
not overtaken is about the lease its profile has (`Purposes`); a lease the operator never
attached is used by one profile (`UsedByOne`). For `LeaseCurrent` the point is that a step
which makes credentials outdated either meets nobody else or makes the lease contested.

**`CatalogProofs`.** `TypeCorrect`, `CodeSitesKeptCorrect` (whichever sites had a row at the
start), `NoResurrectionCorrect`. `OwnStorageKeptCorrect` says, for any mapping of ids to
directories, that a profile loses its directory only by the race of `raced` or by
sharing it (the code maps `a:b` and `a_b` to one); `RowHasStorageCorrect` follows where no
two ids share one (`DirsApart`). The invariant `StorageFirst` says that
no removal meets a creation, that the directory is there before a row is inserted and
that the row is gone before the directory is removed.

**`CockpitProofs`.** `TypeCorrect`, `RefreshNotLostCorrect`, `NeverGoesBackCorrect`. The
invariant: one round runs at a time (`OneRound`), others keep out of the tables of rounds
(`OthersKeepOut`), no answer is older than what is shown (`NotOlder`), and unless
another pass was asked for, what this one has shown, has read or will read serves every
request (`PassServes`). `AgainServedCorrect`: `refresh_again` never stays set without a
round that will see it, but after one that failed. The safety half of `FilterSettles`:
the filter names a group that the select offers (`FilterOfferedCorrect`), and rows of
another filter are shown only while a refresh of the profiles is due or under way, or
after a failed call (`FilterNotLostCorrect`).

**`ProfileDialogProofs`.** `TypeCorrect`, `NoMixingCorrect`, `LaunchAsConfiguredCorrect`,
`RuntimeKeptCorrect`. The invariant `Owned` says of rows, of
the form and of every save on its way that their fields are those of the profile they
are about, and that while an opening waits the form is still without a viewport,
unless it was crossed. `IdentityIsOwnCorrect` joins it with the launch options: a browser
never starts with a seed that was entered for another profile.

**What the findings take.** Three of the four violated statements are proved where their
one cause is excluded, so that the runs and the theorems together say how far the code
keeps them:

- `WorkersSurvive` holds if no two jobs share a profile (`WorkersSurviveApart`); and in
  general a worker is lost only when it takes a job that was cancelled in the queue while
  another worker runs a job of its profile (`WorkersLostOnlyByCancelCorrect`).
- `TerminalIsFinal` holds on Supabase, with failing calls and restarts, in every behaviour
  in which no two updates of one job are on their way at once (`TerminalIsFinalApart`).
- `BuysIfNone` holds of every request whose profile was given no lease since its check
  (`EnsureBuysIfNone`).

**Only model-checked:** the liveness properties (`JobsServed`, `CancelEndsRun`,
`StopEnds`, `QueuedIsClaimed`, `OpensAnswered`, `ShutdownSettles`, `ViewSettles`,
`FilterSettles`), which are out of the prover's reach; what is proved of some of them
is the safety half named above. The fourth finding, `SupabaseJobsCancel`, is one of them.

## 6. Not modelled

- **Captcha, settings, repository factory**: no state of their own, or calls to external
  services; `components` in `PROJECT.json` gives the reason for each.
- **One-time passwords**: nothing in the program reaches them, since no workflow context
  gets a provider. `get_otp` and `read_from` are left out with them.
- **What a library does inside**: CloakBrowser, Playwright, the database, the provider of
  proxies. They are modelled by the answers they give.
- Events and their texts, timestamps (but for the order of jobs), masking of
  credentials, layout of the UI, the dialog for sites.
- **The composition of the whole**: a job on the page of a session that the operator closes
  is, to `JobRunner`, a page operation that fails, which may happen at every step. What
  `lifespan` does after an aborted `close_all` (it skips `stop`) ends with the process.

## 7. Plan

Done, in this order: runner over memory with its promise and proofs; session manager
with its promise and proofs; runner over Supabase with faults; proxies; the catalogue;
the page; the profile dialog and launch options. What could follow:

1. `Application`: `JobRunner` and `BrowserSessions` composed by the page provider, with jobs
   that open sessions during `close_all` and a profile deleted while its browser runs.
2. Proofs: what `close_all` leaves behind when it ends while others still open sessions;
   that a round of the page shows one state of the database, table by table, when nothing
   changes during it.
