# TLA+ models of CloudLabManager

CloudLabManager is a FastAPI backend (`app/`), a React client (`frontend/`) and a
set of Ansible playbooks, which together create, run and destroy servers of a
teaching laboratory at a cloud provider. The backend is one process with one
asyncio event loop. It starts playbooks as subprocesses, keeps their jobs in
memory, stores what should outlive it in SQLite, and runs half a dozen
background loops beside the HTTP handlers. The client is the larger half of the
program: two dozen pages and their dialogs, which share one cache of the server's
answers. What is hard about either is not any one function. In the backend it is
what happens between two `await`s; in the client, what a page does with an answer
that comes when the user is already elsewhere. These models are about that.

Paths below are relative to the repository root, and to `frontend/src/` in what
is said of the client. The playbooks and the laboratory's own scripts are not in
the repository; what they do is modelled from how the code calls them.

## 1. The files

| File | What it is |
|---|---|
| `JobRunner.tla` | the job engine: jobs in memory, their tasks, the table `jobs` |
| `JobLedger.tla` | abstract: what `GET /api/jobs/{id}` promises a client that polls |
| `Scheduler.tla` | the scheduler, on top of the job engine |
| `Webhooks.tla` | webhook triggers and their status pollers, on top of the job engine |
| `InventorySync.tla` | cloud, inventory file, cache and server objects |
| `ClientTables.tla` | the client's queries, calls and dialogs, a row for each |
| `QueryCache.tla` | the cache of answers and the pages that read and change them |
| `PageDialogs.tla` | dialogs: opened for an object, filled in, sent, shut |
| `BulkSelection.tla` | ticked rows of lists, and bulk calls |
| `InstanceRefresh.tla` | the Refresh button: a job that is polled, then the list |
| `SecretReveal.tla` | secrets shown after a password check |
| `JobPage.tla` | the page of a job and its polls |
| `SshTerminal.tla` | the sockets of the terminal |
| `SeededForms.tla` | forms filled from answers and saved back |
| `ClientSession.tla` | token, user, second factor, setup, preferences |
| `ScriptRun.tla` | a script's inputs, from the window to the job |
| `DashboardLayout.tla` | orders of links and sections |
| `KeptItems.tla` | what `filter` keeps of an array, for the two machines above |
| `ClientPages.tla` | the client's machines side by side |
| `JobRunnerProofs`, `JobLedgerProofs` | TLAPS proofs about `JobRunner`; that it implements `JobLedger`; its history |
| `SchedulerProofs`, `WebhooksProofs` | TLAPS proofs about `Scheduler` and `Webhooks` |
| `InventorySyncProofs` | TLAPS proofs about `InventorySync` |
| `QueryCacheProofs` | TLAPS proofs about `QueryCache`, for any tables |
| `ClientPartsProofs` | TLAPS proofs about dialogs, lists, refresh, secrets, job page, terminal, forms, session |
| `ClientPagesProofs` | TLAPS proofs about `KeptItems`, `ScriptRun`, `DashboardLayout`, and `ClientPages` as a whole |
| `MC*.tla`, `*.cfg` | the instances TLC checks |
| `PROJECT.json` | components, runs, hazards, findings, theorems, and the source lines behind each definition |

    tlc -config JobRunner.cfg MCJobRunner      # a run; the others are in section 5
    tlapm JobLedgerProofs.tla                  # a module of proofs

Definitions whose names begin with `Mutant` are plausible bugs, kept beside the
definition they would replace. No specification uses them. Each shows that a
property would notice: with `Ended` replaced by `MutantEnded`, for example,
`TypeOK` fails.

## 2. Inventory of the system

### 2.1 Components of the backend
**Job engine** (`app/ansible_runner.py`; started from `routes/service_routes.py`,
`instance_routes.py`, `inventory_routes.py`, `snapshot_routes.py`,
`cost_routes.py`, `job_routes.py`, the scheduler and the webhooks).
State: `AnsibleRunner.jobs`, a dictionary of `Job`s in memory that is never
pruned and never reloaded; one asyncio task per job; the table `jobs`, written
once per job by `_persist_job` when its verdict is known.
Operations: start a job of one of a dozen kinds, run its commands, take the
verdict, persist, notify; bulk jobs start children and wait for them; a stored
job can be rerun. Hard: jobs end in any order, and the rows they name may be
deleted meanwhile; bulk parents wait for children whose tasks may die; what is
not stored is lost in a restart.
Correct when: a verdict is taken once and never changes; a bulk verdict is that
of its children; the history agrees with memory; a job is lost only where the
database refuses it.

**Scheduler** (`app/scheduler.py`, `routes/schedule_routes.py`). State: the table
`scheduled_jobs` (`next_run_at`, `is_enabled`, `skip_if_running`, `last_job_id`,
`last_status`). Operations: every 30 s dispatch what is due, then copy the
verdicts of finished jobs and notify. Hard: the commit follows the dispatch; the
loop over finished jobs suspends with uncommitted changes in its session;
schedules are edited and deleted meanwhile.
Correct when: jobs of one schedule do not overlap where it asks for that, the
status shown belongs to the last job, and the end of every job is noticed.

**Webhooks** (`routes/webhook_routes.py`). State: the table `webhook_endpoints`
(`last_job_id`, `last_status`, `trigger_count`), one poller task per triggered
job. Hard: a trigger writes from a row it read before two `await`s; the pollers of
several jobs of one webhook do not know of each other.
Correct when: counter and status are those of the triggers that were accepted.

**Notifications** (`app/notification_service.py`, `email_service.py`,
`routes/notification_routes.py`). State: rules, channels, in-app notifications.
`notify()` walks through the rules of an event in one session and awaits mail and
chat servers in the middle. Hard: the in-app rows flushed before such an `await`
hold SQLite's write lock through it; handlers call `notify()` with a session of
their own open. Correct when: each rule delivers whatever the other rules do, and
nobody else is disturbed.

**SQLite sessions** (`app/database.py`, `db_session.py`). One writer at a time,
`foreign_keys=ON`, a busy timeout of 30 s spent *on the event loop*: a commit
refused by a lock that a suspended coroutine holds can never succeed, for the
coroutine cannot resume while the loop waits.

**Inventory synchronisation** (`app/inventory_sync.py`; `_run_refresh`,
`_run_stop*`, `_refresh_cache_after_stop`, `_run_destroy_instance` and
`_sync_server_inventory` in `ansible_runner.py`). State: the cloud; the file
`/inventory/vultr.yml`; `AppMetadata["instances_cache"]`; the inventory objects of
type `server`, and those of types `service`, `deployment`, `user` and
`credential` with adapters of their own. Hard: each place is derived from the one before by a
different step, jobs that list and jobs that destroy interleave, and nothing
locks. Correct when: cache and objects agree, a refresh makes both equal to the
cloud, and a living server never loses its object.

**Inventory actions and object API** (`routes/inventory_routes.py`,
`inventory_auth.py`). Objects of configurable types, tags, access lists, actions
that become jobs. Hard: action definitions are shared between requests and
written to (line 720).

**Personal instances** (`routes/personal_instance_routes.py`,
`personal_instance_cleanup.py`). A user's own server, with a limit per user and a
time to live. Correct when: a user never has more than the limit, an expired
server is destroyed, and one that is extended is not. Hard: the limit counts
objects, which exist only after the deployment; the cleanup looks for a running
job by the name of its script.

**Snapshots** (`routes/snapshot_routes.py`, `snapshot_poller.py`, the snapshot
jobs). State: the table `snapshots`, derived from the provider. Hard: the sync
deletes rows that are not in a list fetched earlier.

**Health checks** (`health_checker.py`) and **drift detection**
(`drift_checker.py`): background loops that store results and notify on changes
of state. Hard: a manual run overlaps the loop's.

**Authentication and MFA** (`auth.py`, `mfa.py`, `routes/auth_routes.py`):
sessions, invitation and reset tokens, TOTP, backup codes that may be used once.

**Permissions and access lists** (`permissions.py`, `service_auth.py`,
`inventory_auth.py`, `credential_access.py`): decisions computed from roles,
rules and tags.

**Configuration versions** (`ansible_runner.py:61`): numbered per file and pruned
to the newest fifty. **Costs and budget alert** (`ansible_runner.py:114`,
`routes/cost_routes.py`): arithmetic on cached prices, and an alert that reads its
settings, awaits and writes them back.

**Users, roles, preferences, portal, files, feedback, bug reports, audit, DNS,
update checker, dry run, startup, migration**: handlers of one transaction each,
pure I/O, or sequential code at start.

### 2.2 Components of the client

All pages live in one process, the browser tab, and are mounted and unmounted as
the route changes; a change of a route's parameter alone keeps the page mounted,
with its state. What outlives a page is the query cache, the stores, timers and
requests without an answer.

**Query cache** (`App.tsx`, every `useQuery` and `useMutation`). State: for each
key the last answer, whether it is known to be out of date, and a fetch on its
way. Operations: mount and unmount observers, fetch, poll, invalidate after a
call, collect what nobody shows. Hard: the `onSuccess` of each of 113 calls must
name all keys under which any page shows what it changed, and keys are shared by
components that store different shapes. Correct when: after an answered call a
page shows its effect or knows that it does not.

**Dialogs and confirming buttons** (68, in the pages). State: the object a
dialog is open for, its fields, calls on their way. Hard: one set of fields serves
all rows of a list, dialogs shut in several ways, and answers close or clear what
is open by then. Correct when: what is typed for one object is not sent for
another.

**Forms filled from answers** (`ServiceConfigPage`, `RoleEditPage`, `CostsPage`,
`InventoryDetailPage`). State: a draft, what it was filled from, whether it is
dirty. Hard: answers come while the user types or has gone to another file.
Correct when: a text is saved under what it was read from, and typing is kept.

**Lists, selection and bulk calls** (`InventoryHubPage`, `ServicesPage`,
`DataTable`). State: ticks, by row number or by id. Hard: the list changes under
them. Correct when: a bulk call acts on what was ticked.

**Refresh of the instances** (`InventoryHubPage.tsx:325`). State: the loop that
polls the job, at most 120 times. **Revealed secrets** (`CredentialViewModal`,
`ReauthDialog`): a grant of ten minutes, the action that waits for a password,
private keys on their way. Correct when: a list called refreshed is fresh, and a
secret is shown after a check and is the one that was asked for.

**Job page** (`useJobStream`, `JobDetailPage`) and **SSH terminal**
(`SSHTerminalPage`, `SSHTerminalModal`). State: an interval and its polls; sockets
and the code they wait for. Hard: the page stays mounted from job to job,
`close()` is not the end of a socket, and imports take time. Correct when: the
page shows its own job to its end, and no socket is left open.

**Session and preferences** (`authStore`, `preferencesStore`, `lib/api.ts`,
`LoginPage`, `SetupPage`). State: token and user, the cached answer to "is it set
up", preferences with a delayed save. Hard: answers and timers of one user end in
the session of the next. Correct when: a user sees and saves his own preferences.

**Running scripts** (`useServiceAction`, `ScriptInputField`, `CommandPalette`).
State: the window's inputs, files picked and uploaded. Hard: three calls with two
encodings, which the server takes apart again. Correct when: the script gets what
was entered.

**Dashboard** (`DashboardPage`, `QuickLinksSection`). State: orders of links and
sections. Hard: links come and go with the services while their order is kept.
Correct when: links keep their places.

**Read-only pages, menus and layout**: what they fetch is in the tables; the
rest renders it.

### 2.3 How they interact

* The scheduler, the webhooks, the cleanup, the poller of snapshots and every
  handler share the `AnsibleRunner` and start jobs by plain calls that do not
  suspend. So what a caller does to a new job (`job.schedule_id = ...`) is done
  before its task takes its first step.
* A `Job` names rows of other tables by foreign key: user, object, schedule,
  webhook, parent. Their deletion sets the keys of *stored* jobs to NULL, and
  leaves those of jobs in memory dangling.
* The scheduler and the webhook pollers learn of a job's end by asking the
  runner, the scheduler also by asking the table.
* `notify()` couples everything that writes: while one call waits with the write
  lock, all commits of the process are refused.
* Jobs change the cloud, and some of them write the file, the cache and the
  objects; the health checks, the dashboard and the cleanup read them.

* The client knows of jobs, objects and schedules only by asking: it polls jobs
  every second, lists every few, and is told of nothing.
* Pages of the client talk to each other through the cache, the two stores and the
  route, and in no other way.

### 2.4 Hazards

`PROJECT.json` lists forty, each at its line, with the properties that cover it or
the reason why none does. Twenty-eight have properties. Of the twelve that have none,
eight are in parts of the backend that section 3 leaves for later. Four are in the
models, but the repository promises nothing that they break: the wait of the event
loop for a playbook, a `running` that a restart leaves at a schedule, or a poller at a
webhook that gave up, and a dispatch that raises and is tried again. Of those that have
properties, several have an instance in the code that the property excepts; the note
of the hazard names it, and so do sections 4 and 5.5.

## 3. Plan

In order of what matters most to the system. Backend modules are composed with
the ones they `EXTENDS`, so that their steps interleave with theirs. The
machines of the client share no state; `ClientPages` puts them side by side.

| # | Module | Composed with | State | Main properties | Proofs | Status |
|---|---|---|---|---|---|---|
| 1 | `JobRunner` | – | jobs, tasks, records, rows, lock | `BulkVerdict`, `RecordsAreVerdicts`, `RecordedAsItEnds`, refinement of `JobLedger` | inductive invariant, three invariants, the refinement, `RecordedAsItEnds` | done |
| 2 | `Scheduler` | `JobRunner` | schedules, the tick | `NoOverlap`, `StatusIsOfLastJob`, `EndIsNoticed` | inductive invariant, its three invariants, the refinement | done |
| 3 | `Webhooks` | `JobRunner` | webhooks, handlers, pollers | `AloneStatusMatches`, `CountsTriggers`, `LockHasOwner` | inductive invariant, its four invariants, the refinement | done |
| 4 | `InventorySync` | – | cloud, file, cache, objects | `ObjectsMirrorCache`, `RefreshAloneIsExact`, `LiveServerStays` | inductive invariant, four properties | done |
| 5 | `QueryCache`, `ClientTables` | – | a cache entry, observers, calls | `ReadYourWrites`, `KeysAgree`, `PolledCatchesUp` | for any tables: three of them and the types | done |
| 6 | `PageDialogs` | `ClientPages` | a dialog, its fields, its calls | `SentForItsTarget` | for any dialogs that start over | done |
| 7 | `BulkSelection`, `InstanceRefresh`, `SecretReveal`, `JobPage`, `SshTerminal`, `SeededForms`, `ClientSession` | `ClientPages` | section 4.8 | one to two each | inductive invariants, all their safety properties | done |
| 8 | `ScriptRun`, `DashboardLayout` | `ClientPages` | inputs and calls; orders | `InputsArrive`, `LinksKeepTheirPlaces` | both, for arrays of any length; the composition | done |
| 9 | `PersonalInstances` | `InventorySync` | owner and creation time per object, requests, cleanup jobs | limit never exceeded by requests that wait for the inventory; an extended instance lives; an expired one goes | ownership invariant | next |
| 10 | `Notifications` | – | rules, sessions, the write lock | a rule delivers whatever the others do; nobody waits on himself | lock invariant | next |
| 11 | `Snapshots`, `HealthDrift`, `ConfigVersions` | – | provider's list, results, versions | a row that exists is not deleted; one notification per change; the newest fifty stay | window invariant | planned |
| 12 | `Access`, `AuthTokens` | – | roles, rules, tags; tokens, codes | deny beats allow; single use | lemmas on the operators | planned |

The client came before the rest of the backend because it is most of the code,
and because nothing tests it: the repository has no test of a page.

## 4. The models and the code

### 4.1 Conventions

*A step* is what the event loop runs between two `await`s that really suspend.
`await` on a coroutine that does not itself wait for a timer, a socket or a
subprocess does not suspend, so chains of such calls are one step. A subprocess
runs beside the loop: `asyncio.create_subprocess_exec` suspends the coroutine,
`subprocess.run` stops the loop.

*Handlers* that FastAPI runs in its thread pool (those declared with `def`) are
single steps as well: each commits once, and nothing it reads before can be
changed by a coroutine in a way the properties tell apart.

*The write lock*, `holder`, is held across steps only by a coroutine suspended
in `notify()` (that of a job's report, of its end, or of the summary of a bulk
job) or in a webhook trigger after a flush. While it is held every commit
is refused. Sessions that merely read are not modelled.

*Histories*: `loose`, `clash`, `stored`, `alone`, `edited` and `calm` in the
backend, `owed`, `behind`, `meant`, `moved`, `pressed`, `wanted`, `crossed`, `crowded`,
`missed`, `draft.taken`, `draft.loose`, `lapse`, `shared`, `gap` and `packed.entered` in
the client, record what happened for the sake of a property. They restrict no action
but `SelectAgain`, which is skipped where nothing is left for it to change.

*A step of the client* is one event: a click, a timer, an answer, an effect React
runs. Rendering is not a step; what an effect sets is set in the step that causes
it. A request is two steps, for it reads or changes the server between its sending
and its answer, or three where the order of those matters. Any request may fail.

### 4.2 `JobRunner`

| State | Code |
|---|---|
| `jobs` | `AnsibleRunner.jobs`: kind, status, parent, and `refs`, the rows its foreign keys name |
| `task` | where the coroutine of the job stands; `kids` and `next` are the locals of a bulk coroutine |
| `records` | table `jobs` |
| `rows` | users, objects, schedules, webhooks that exist |
| `used` | ids given out; `uuid4()[:8]` is taken not to repeat |
| `holder` | the write lock |

`Request` and `Rerun` are the starts; `Launch` is `self.jobs[...] = job` and
`create_task`. `StartCommand`, `FailAtStart`, `Die`, `CommandEnds`,
`CommandEndsThenReports`, `RestoreEnds`, `Reported`, `Pause` and `CreateReported` are the
coroutines of single jobs; the two dozen `_run_*` methods differ, for the
properties, only in whether they can fail before a command, whether they notify
before the verdict, and whether they start a follow-up job. A job notifies in three
phases: `report`, before the verdict (snapshots and the budget alert), `notify`, after
it, and `summary`, what a bulk stop or deploy sends besides. In each `NotifyHolding`
may take the write lock, and whatever ends the phase lets it go. `Finish` is the
verdict and `_persist_job`, which swallows what the database refuses.
`StartChildren`, `PollChildren` and `FinishBulk` are `_run_bulk_stop`,
`_run_bulk_deploy` and `_run_bulk_action`; the children of the last name an object
each, those of the others none. `DeleteRow` is every handler that
deletes a row some job may name; `Restart` the process.

The start of a bulk job and of its children are two steps, as in the code. A
child's row is refused because its parent's does not exist yet: the model finds
this by itself (`Persistable`), no action says it.

`JobLedger` is the abstraction: for each id, *not found*, *running* or a verdict;
running once, a verdict once, never lost when it is in the history. Under the
refinement mapping `answer` is what `get_job` returns.

### 4.3 `Scheduler`

`AnyTick` is `_check_and_dispatch` followed by `_update_completed_schedules` up to
the first notification that waits (`LoopSuspends`) or to the commit (`LoopEnds`).
`TickRefused` is a tick whose commit the lock refuses after its jobs are started.
`Delivered` resumes the loop. The rows assigned and not committed are
`tick.seen`; `Committed` drops them all when the UPDATE of one deleted schedule
matches no row, as SQLAlchemy's `StaleDataError` does, or when the lock is held.
Time is `ClockPasses`: a schedule comes due at any moment. What a schedule `Orders` is
a kind of job with its creator and, for an inventory action, its object. A dispatch or
a cleanup that raises leaves its schedule due (`started` and `cleaned` are any subsets
of what may succeed), and a cleanup may have started some of its jobs by then.
`UpdateSchedule` and `DeleteRow` are the handlers. The task `drift_check` is left
out: no route can create it.

### 4.4 `Webhooks`

`Load` is `trigger_webhook` up to `await request.body()`, with the row as the session
then knows it; `Trigger` goes on to the notification, by which time the UPDATE is
flushed and the lock held; `Commit` is the end of the request. `Tracked` writes from
the row as it was read, and leaves out `last_status` when it was `running` already,
because SQLAlchemy updates changed columns only. The job names the webhook, its
creator and the object of its action (`StartJob`). `Poll` and `GiveUp` are
`_update_webhook_status`.

### 4.5 `InventorySync`

| State | Code |
|---|---|
| `cloud` | the servers at the provider |
| `file` | `/inventory/vultr.yml` |
| `cache` | `AppMetadata["instances_cache"]` |
| `servers` | inventory objects of type `server`, by hostname |
| `proc` | the jobs that list, stop or destroy |

A playbook reads the cloud, writes the file, and ends: three steps, since other
jobs run meanwhile. What a job does after it, reading the file into the cache
and the cache into the objects, is one step. `Relist`, `Rewrite` and `Restore` are
`_refresh_cache_after_stop`, during which the loop is `Blocked`; playbooks of
other jobs still proceed. `Sync` is `VultrInventorySync.sync`, early return
included. `DropHost` is `_run_stop_instance`, `DropObject` the destroy action,
which edits both places by hand. `GivesUp` covers each way such a job ends
without writing. The file may be lost with the container; the table is a volume.

### 4.6 `ClientTables` and `QueryCache`

`ClientTables` has one definition per component, and in it one row per `useQuery`
(110 of them, under 79 keys), per call that changes something (113) and per dialog
or button that makes one (68), for 26 pages and the frame around them. A row of a
query says who mounts it, its key, which data of the server it reads, what shape it
stores, and whether it polls, has a `staleTime` or waits for something to be
opened. A row of a call says what it changes on the server, which keys its
`onSuccess` names, where it navigates and what it does to its dialog. What a call
changes is read from the handler of `app/routes/` it calls, and what a query reads from
the handler that answers it, as far as other data show in it: the list of services has
in it what each `scripts.yaml` declares (`ListedServices`), the list of roles the number
of their members (`RolesData`). Rights that a change of roles or access rules gives or
takes are followed for `auth/me` and for the access lists of services, and not for what
else a user may then see.

`QueryCache` follows one key at a time, since entries do not affect each other:
`scene` is the key with its observers and what each call means for it, computed by
`Scene` from the tables.

| State | Code |
|---|---|
| `page`, `opened` | the route; gated observers that are mounted or enabled |
| `query` | TanStack's entry: data (`has`, `holds`, `ver`), `isInvalidated` (`marked`), the `queryFn` of the last render (`fn`), a fetch (`busy`, `asks`, `seen`) |
| `calls` | mutations on their way, before and after the server has served them |
| `ver`, `owed` | the server's data under the key; the newest state made by a call that was answered here |

`Visit`, `Open` and `Close` mount and unmount, with the fetch that mounting makes;
`Poll` is `refetchInterval`; `Read`, `Arrive` and `FetchFails` a fetch (`retry: 1` only makes
failures rarer); `Send`, `Land`, `Answer` and `CallFails` a call, where `Answer` is
`onSuccess`: it invalidates, cancelling the fetch on its way, and may navigate. What
the call changed and did not tell is missed (`Misses`) by a page that shows the key by
then, or whose fetch is on its way. `Collect` is `gcTime`. `OthersWrite` is everybody else.

`Untold` and `Mixed` are the exceptions of the source and are listed in
`MCQueryCache`: pairs of a key and a call of which a page shows the first, makes
the second and does not name the first (section 5.5); and the keys `services` and
`auth/me`, under which two shapes are stored.

### 4.7 `PageDialogs`

A behaviour follows one row: `OpenFor` an object, `FillIn`, `PressButton`, the two
ways to shut (`CancelDialog`, which calls the page's own setter, and `Dismiss`, which
goes through `onOpenChange` like Escape and the backdrop), `Succeed`, `Fail`, and
`Remount` of the page. Which of these sets or resets the fields is what the row says,
from the page's handlers. `StartsOver`, an assumption that TLC checks for every row, says that a
dialog with typed fields for one of several objects is filled at opening, or emptied
at each way of shutting. The bookmark dialog does neither and is left out of the run
(section 5.5).

### 4.8 The other machines of the client

`BulkSelection`: the inventory list keeps row numbers (`DataTable` gets no row ids),
the services page keeps names. `Toggle`, fetches, changes of the type, creations and
deletions by others, bulk calls and their answers, which clear the ticks.

`InstanceRefresh`: `PressRefresh` to `EndRefresh` is `refreshMutation` with its loop of
two-second waits, for the one type that has a job; types with another source make one
call (`DirectSync`), the rest has nothing to sync. `JobLists`, `JobSyncs` and `JobFails`
are the job, `OtherLists`, `OtherWrites` and `OtherSyncs` all others that list the
servers, one that was given up on among them. `world` numbers the states of the cloud,
and `bare` those without a server: a sync of such a listing returns early and stores
nothing (`Stored`). `Misses` are the three ways in which a job that completes leaves
the objects older than the press of the button: `emptied` is that early return, `raised` an
error in the sync, which is printed, and `overtaken` an older listing that another job
writes to the file after this one's.

`SecretReveal`: `granted` is `isReauthValid()`, `kept` the same as the memoised columns
know it, `asking` the ref with the action that waits. Short secrets are in the row,
private keys are fetched, and their answers come in any order.

`JobPage`: the query that loads the job, `RunEffect` for the effect on `[job?.id]`, one
interval, and polls that may overlap, fail or outlive the route. The first query may
fail as well (`LoadFails`): then there is no job, no effect and no interval.

`SshTerminal`: each connection is `delayed` by 50 ms (the modal), `loading` its code,
`opening`, `open`, `closing` or `closed`; `AfterCleanup` is the effect's clean-up, which
knows the socket in `wsRef` and not the code that is loading. `CodeFails` is an import
that fails, `Errored` the `onerror` of a socket, which leaves it to its `onclose`.

`SeededForms`: four forms by the way they are filled, `Reseeds`: the configuration
editor unless dirty, role and budget always, an object's fields when editing starts.
`SelectFile` is a click on another file, which resets `dirty` at once and fills the
editor when the text is there; `SelectAgain` one on the file that is shown, which resets
`dirty` and leaves the text (`loose`) for the next fetch to overwrite; `Route` another
service, role or object in the URL, by which the editor keeps its text and its `dirty`
(`taken`). An effect does not run when the text it depends on is the same as before
(`Unmoved`).

`ClientSession`: the auth store, `useCurrentUser`, sign-in with its second factor, the
setup gate, 401s, which load the login page anew, and dashboard preferences, saved
300 ms after the last edit with the token there is by then.

`ScriptRun`: `useServiceAction` from `Trigger` over the inputs to `Pack`, the choice
among the three calls and two encodings; `Unpacked` is what `service_routes.py`
and `inventory_routes.py` make of them, until they reach the script.

`DashboardLayout`: `InOrder` sorts what is there by the saved order; drags,
additions and removals write it back.

`KeptItems` is `Array.prototype.filter`, which both use, as a function over the places
of the array; `MCClient` compares it with `SelectSeq` on all arrays of up to five of
three items.

`ClientPages` is their composition. No variable is shared, so an interleaving of two
machines shows nothing that each alone does not; `part` names the one that moves.
What they do share in the code, the cache and the route, is in `QueryCache`.

## 5. What is checked

| Run | Module, cfg | Expect | What it shows |
|---|---|---|---|
| `job_runner` | `MCJobRunner`, `JobRunner.cfg` | pass | three jobs of every kind, started by two requests, a user who may be deleted, one restart: `TypeOK`, `BulkVerdict`, `RecordsAreVerdicts`, `RecordedAsItEnds`, `LedgerSpec` |
| `job_runner_unrecorded` | `MCJobRunner`, `JobRunnerUnrecorded.cfg` | violation | finding 1 |
| `scheduler` | `MCScheduler`, `Scheduler.cfg` | pass | two schedules, one the cleanup task, edits, deletions, refused commits, a restart: `SchedTypeOK`, `NoOverlap`, `StatusIsOfLastJob`, and `LedgerSpec` again |
| `liveness` | `MCScheduler`, `Liveness.cfg` | pass | `BulkEnds`, `EndIsNoticed` under `SchedFairness`, two schedules that dispatch jobs |
| `scheduler_overlap` | `MCScheduler`, `SchedulerOverlap.cfg` | violation | finding 2 |
| `webhooks` | `MCWebhooks`, `Webhooks.cfg` | pass | two triggers and the test button on one webhook, whose action names an object: `HookTypeOK`, `AloneStatusMatches`, `CountsTriggers`, `LockHasOwner` |
| `webhooks_stale` | `MCWebhooks`, `WebhooksStale.cfg` | violation | finding 3 |
| `inventory_sync` | `MCInventorySync`, `InventorySync.cfg` | pass | two servers, two jobs: `InvTypeOK`, `ObjectsMirrorCache`, `RefreshAloneIsExact`, `LiveServerStays` |
| `inventory_ghosts` | `MCInventorySync`, `InventoryGhosts.cfg` | violation | finding 4 |
| `client_cache` | `MCQueryCache`, `ClientCache.cfg` | pass | every key of the client, with all its observers and calls: `CacheTypeOK`, `ReadYourWrites`, `KeysAgree`, `PolledCatchesUp` |
| `client_pages` | `MCClient`, `ClientPages.cfg` | pass | every dialog, the lists, the refresh, secrets, job page, terminal, forms, session, scripts, dashboard: the sixteen properties of section 5.1 |
| `bulk_ticks` | `BulkSelection`, `BulkTicks.cfg` | violation | finding 5 |

### 5.1 The properties of the client

| Property | In words |
|---|---|
| `ReadYourWrites` | what a page shows, once it neither fetches nor knows itself out of date, has every change this user made and was told is done, but for the pairs of `Untold` |
| `KeysAgree` | whoever shares a key finds the shape it expects, but for the two keys of `Mixed` |
| `PolledCatchesUp` | a page that stays and polls shows again and again what the server has, whoever changed it |
| `SentForItsTarget` | no call for one object carries what was typed for another |
| `BulkHitsMeant` | bulk calls act on what was ticked; in the inventory list, as long as the list has not changed since |
| `RefreshedShowsTheCloud`, `RefreshEnds` | a list called refreshed, and fetched since, is no older than the press of the button, however many jobs list meanwhile, but for the three `Misses`; the button does not spin for ever |
| `AsksForTheLast`, `OpensAfterCheck` | the password that is asked for opens the object asked for last; nothing opens without a check within ten minutes |
| `ShowsItsOwnJob`, `EndIsShown` | a loaded job page shows its own job and goes on asking while it runs; the end of a job is shown; both unless a poll fails, meets another or is left behind, the second also unless the first query fails |
| `OneSocket` | no socket is live but the one that leaving will close, unless two connections loaded their code together |
| `SavedUnderItsTarget`, `TypedIsKept` | a text is saved under what it was read from, unless the page has taken it along to another service; typing in the editor survives what others save and a change of the route, and is lost only to a save sent before it, a version restored and a file selected |
| `OwnWhileAlone` | a user who is the only one since the page was loaded is the one shown, and has nobody else's preferences |
| `ShownIsSaved` | what the dashboard shows is on the server when nothing is on its way, but for four named lapses |
| `InputsArrive` | a script gets what was entered, but for two named losses |
| `LinksKeepTheirPlaces` | links keep their order among each other, whatever comes and goes; a drag moves one link |

The exceptions are defects, or limits, of the code, each as narrow as TLC lets it be;
section 5.5 says what they are.

### 5.2 Bounds, and why they are enough

* Three job ids: a bulk parent with two children, or a job, its rerun and the
  rerun's follow-up. At most two of them are not children of another
  (`TwoRequests`). `MaxChildren` 2 is the least with an order among children
  and a mixed verdict; more children repeat it. `BulkVerdict` and
  `RecordsAreVerdicts` are proved for any number.
* One restart (`MaxCrashes`): no state of the process survives it, so a second one
  starts from a state like the first's, with more history.
* In `scheduler` the two ids are two jobs of the one schedule that dispatches
  jobs, or one of it and one of a cleanup. `Workload` is `command` there: the
  scheduler tells a job by its status only.
* `liveness` has two schedules that dispatch, since the deletion of one rolls back
  the verdict of the other. To keep it small `OneModeSpec` separates two modes:
  either both schedules are enabled and skip, and all jobs are theirs, or both are
  off and all jobs are the users'. `Workload` is `action` and `bulk`, the kinds that
  can die or wait. This disables no fair action: a tick changes no option, and in the
  first mode no task starts other jobs.
* Two requests and one webhook: triggers of different webhooks share nothing but
  the lock, which the second request and the jobs' notifications contend for. The
  webhook runs an inventory action, whose job names an object (`ActsOnObject`) that may
  be deleted: a webhook tells a job by its status only, and an action is the kind that
  can also die and be refused for a row of its own. The proofs are for every kind,
  with and without an object.
* Two hosts tell a stop of some from a stop of all, two processes a listing that
  is overtaken. `InventorySync` needs no other bound: it is finite.
* `client_cache` follows each of the 79 keys with the whole of its observers and the
  calls that mean something different for it; keys do not affect each other. One call
  in flight and two changes on the server: the proof of `ReadYourWrites` holds for any
  number of both. A second change is one made by someone else after the user's own.
* `client_pages`: two objects, files, roles, users, jobs and types tell "the same" from
  "another", and no definition tells more. Three openings and two mountings of a
  dialog are an answer that finds its dialog open for another object. Three polls
  stand for the 120 of the refresh, two states of the cloud, each with or without a
  server, for one before and one after the press of the button.
  Two polls of a job are the least that can overlap, three connections
  of a terminal a third after two that loaded together. Two items per input are a
  file and a word, or two of a list, in both orders. For all
  but the two liveness properties the bounds do not matter: `PagesAreSafe` and
  `ClientTypes` hold for all of them.
* No run but `inventory_sync` and `inventory_ghosts` checks for deadlock. Ids,
  restarts, requests, visits and changes are used up, so the others stop where the
  system would go on.

Symmetry is over ids, hosts, processes and requests, none of which any
definition tells apart, and is not used in the run that checks liveness.

### 5.3 Fairness

`Fairness` and `SchedFairness` are weak fairness of each task's next step, of the
scheduler's tick and of the delivery it waits for. asyncio calls back every task
whose awaited object is ready, in order, so a task that stays ready is run; the
scheduler sleeps 30 s at a time and catches every exception of a tick; mail and
chat clients have timeouts. The one assumption about the world outside is that a
playbook ends: `ansible_runner.py` puts no timeout on it. It is needed, for a job
whose playbook hangs is rightly `running`. Nothing is assumed about users, about
deletions, or about a restart.

`BulkEnds` has an exception, a child whose task died of an exception: the parent
then polls for ever, and so does the code. `EndIsNoticed` has one as well: a job
lost in a restart before it was stored is unknown afterwards, and the schedule
says `running` until its next dispatch.

The client's: `CacheFairness` is weak fairness of the interval timer, and strong
fairness of a fetch's reaching the server and of its success. Weak would not do, for
each invalidation cancels the fetch on its way; what is assumed is that the network
and other people's changes let a fetch through now and then. `RefreshFairness` and
`JobPageFairness` are weak fairness of timers, of answers to requests and of the fetch
after an invalidation; nothing is assumed of the job that is waited for.
`ClientFairness` restates it for the machine that moves.

### 5.4 Findings

1. *A child of a bulk job is never in the history* (`EveryJobRecorded`): its
   `parent_job_id` names a row that is inserted only after all children have
   ended; `foreign_keys` is ON, and the refusal is printed and forgotten.
   `CloudLabManager/Architecture.md:121` says that jobs are also persisted.
2. *Skip-if-running is passed by* (`SkipsIfRunning`) when the commit of a tick is
   refused: the jobs it started are not stored as `last_job_id`, the schedule is
   still due, and the next tick starts it again.
3. *A webhook shows the verdict of another job* (`HookStatusIsOfLastJob`): the
   poller of an earlier job writes `last_status` whichever job `last_job_id` names
   by then.
4. *Objects of destroyed servers stay* (`StopRemovesObjects`) when the last server
   goes, since the sync returns early without hosts.

5. *A bulk call acts on objects nobody ticked* (`BulkHitsTicked`). The ticks of the
   inventory list are row numbers (`DataTable` is given no row ids); they stay when the
   list is fetched again with other objects in it, and when the route goes to another
   type, for the page stays mounted. `CloudLabManager/Frontend.md:250` describes the
   checkboxes as selecting objects.

What does hold is stated beside each: `RecordedAsItEnds`, `NoOverlap`,
`AloneStatusMatches`, `ObjectsMirrorCache`, `BulkHitsMeant`.

### 5.5 What the exceptions stand for

Each exception of a property of the client is something the code does. None of these
is a run; they are what a reader of the models learns of the pages.

* *Not told* (`Untold`): roles and permissions of the signed-in user after the users
  and roles pages change them; the service objects of palette and portal after an
  object or tag is changed; cards whose access lists or jobs a bulk call changes; the
  object page that starts a job for its object, or deletes it; the list of services in
  the palette and on the services page after `scripts.yaml` is saved or restored, or an
  access list is changed (`ServiceConfigPage.tsx:92`, where the handler rereads the
  scripts of the service; the palette has a `staleTime` of 30 s, too); a file that a
  save makes new; the number of members of roles, which no page shows, and a user's
  access to services after his roles change. These pages show the old data until they
  are mounted again.
* *Two shapes under a key* (`Mixed`): `CredentialAccessRulesPage.tsx:87` stores the whole
  answer where the others store the list; `PinnedServices.tsx:26` says that the keys
  are shared.
* *A dialog that does not start over*: bookmarks. `BookmarkSection.tsx:181` says "Reset
  form when dialog opens" of a handler that `onOpenChange` calls only for closing, so the
  dialog opens for a bookmark with the fields of the one before.
* *Late answers of dialogs* shut or clear the dialog that is open by then, though it is
  for another object. The property is about what is sent, not about that.
* *Refresh* says that the list is refreshed after 120 polls of a job that still runs
  (`"gave up"` in the model), when the job completed though its sync failed, when the
  last server is gone (the objects stay, finding 4), and when another job has written
  an older listing over the one that was waited for (`Misses`).
* *Secrets*: the grant of ten minutes is not known to columns that were made before it
  (`InventoryHubPage.tsx:534`); a private key that arrives late is shown under the name of
  the next one.
* *Job page*: an interval that outlives its job's page, a failed poll, or two polls
  that overlap leave the page with another job's output, or without the end of its own;
  a first query that fails is not followed by a poll.
* *Terminal*: the `onclose` of an old socket says "disconnected" over a new connection,
  and a connection whose code is loading when the page is left opens its socket
  afterwards, with nobody to close it if another does the same.
* *Forms*: text typed during a save is lost; so is what was typed when a version is
  restored or a file is clicked, the one that is shown included: `selectFile` resets
  `dirty` and the text goes with the next fetch, without a question
  (`ServiceConfigPage.tsx:102`). When the route goes from one service to another while
  the editor is dirty, nothing is reset, and Save writes the text of the first under the
  name of the second (lines 36, 87). The editor keeps the previous
  file's text when the next cannot be read; the fields of an object stay when the route
  goes to another; a budget saved before it was read stores the defaults. The inline
  editor of the files tab, which is not modelled, keeps a name and not a directory:
  switching the directory during a load or a save makes it write the text elsewhere.
* *Session*: without a reload between two users, requests and the timer of the first
  end in the session of the second; an edit before the preferences are loaded stores
  the defaults; a 401 of the login call reloads the page and with it the message; a
  cached "not set up" sends a user who has just finished the setup back to it.
* *Scripts*: with an uploaded file among the inputs, lists and keys of another input are
  dropped (`useServiceAction.ts:58`), and `service_routes.py:596` overwrites the library
  files of an input that has uploads too, though its comment at line 83 says "Merge".
  `DryRunPreview.tsx:66` waits for a dry run that nobody starts.
* *Dashboard*: the links are hidden while no service announces one, the user's own
  included, and a drag forgets the places of links that are not there at the moment.

## 6. What is proved

All proofs are for arbitrary constants under the `ASSUME`s of the modules, which TLC
evaluates in the runs: bounds are naturals, `None` and its like are none of the things
they stand beside, a form has been saved once before it is read (`FormAssumption`), a
script has one name and kind of things for each value (`RunAssumption`), users and
objects are not rows of the tables of schedules and webhooks (`SchedulerAssumption`),
ids of jobs are not those of webhooks (`WebhooksAssumption`), and dialogs start over
(`DialogAssumption`).

| Theorem | Statement |
|---|---|
| `JobRunnerProofs!Invariance` | `Spec => []IInv` |
| `JobRunnerProofs!TypeCorrect` | `Spec => []TypeOK` |
| `JobRunnerProofs!BulkVerdictCorrect` | `Spec => []BulkVerdict` |
| `JobRunnerProofs!RecordsCorrect` | `Spec => []RecordsAreVerdicts` |
| `JobLedgerProofs!LedgerImplemented` | `Spec => LedgerSpec` |
| `JobLedgerProofs!HistoryComplete` | `Spec => RecordedAsItEnds` |
| `SchedulerProofs!SchedInvariance`, `SchedTypes` | `SchedSpec => []SInv`, `[]SchedTypeOK` |
| `SchedulerProofs!NeverOverlaps` | `SchedSpec => []NoOverlap` |
| `SchedulerProofs!ScheduleStatus` | `SchedSpec => []StatusIsOfLastJob` |
| `SchedulerProofs!SchedulerKeepsLedger` | `SchedSpec => LedgerSpec` |
| `WebhooksProofs!HookInvariance`, `HookTypes` | `HookSpec => []HInv`, `[]HookTypeOK` |
| `WebhooksProofs!LockIsOwned` | `HookSpec => []LockHasOwner` |
| `WebhooksProofs!TriggersCounted` | `HookSpec => []CountsTriggers` |
| `WebhooksProofs!StatusOfLastJob` | `HookSpec => []AloneStatusMatches` |
| `WebhooksProofs!WebhooksKeepLedger` | `HookSpec => LedgerSpec` |
| `InventorySyncProofs!InvInvariance` | `InvSpec => []IInv` |
| `InventorySyncProofs!InvTypeCorrect` | `InvSpec => []InvTypeOK` |
| `InventorySyncProofs!MirrorCorrect` | `InvSpec => []ObjectsMirrorCache` |
| `InventorySyncProofs!RefreshCorrect` | `InvSpec => RefreshAloneIsExact` |
| `InventorySyncProofs!LiveServerKept` | `InvSpec => LiveServerStays` |
| `QueryCacheProofs!UsersReadTheirWrites` | `TablesCover => (CacheSpec => []ReadYourWrites)` |
| `QueryCacheProofs!SharedKeysAgree` | `CacheSpec => []KeysAgree`, for tables whose queries agree |
| `QueryCacheProofs!CacheTypes` | `CacheSpec => []CacheTypeOK` |
| `ClientPartsProofs!DialogsSendWhatTheyShow`, `DialogTypes` | `DialogSpec => []SentForItsTarget`, `[]DialogTypeOK` |
| `ClientPartsProofs!RefreshedIsFresh` | `RefreshSpec => []RefreshedShowsTheCloud` |
| `ClientPartsProofs!AsksCorrect`, `OpensCorrect` | `RevealSpec => []AsksForTheLast`, `OpensAfterCheck` |
| `ClientPartsProofs!OwnJobShown` | `JobPageSpec => []ShowsItsOwnJob` |
| `ClientPartsProofs!NoSocketLeft` | `TerminalSpec => []OneSocket` |
| `ClientPartsProofs!SavedWhereRead`, `TypingKept` | `FormSpec => []SavedUnderItsTarget`, `TypedIsKept` |
| `ClientPartsProofs!BulkHitsWhatWasTicked` | `SelectionSpec => []BulkHitsMeant` |
| `ClientPartsProofs!OwnPreferences`, `ShownPreferences` | `SessionSpec => []OwnWhileAlone`, `[]ShownIsSaved` |
| `ClientPartsProofs!SelectionTypes`, `JobPageTypes`, `TerminalTypes`, `FormTypes`, `SessionTypes` | the types of each of these machines |
| `ClientPagesProofs!RunInvariance`, `InputsReachTheScript` | `RunSpec => []RunIInv`, `[]InputsArrive` |
| `ClientPagesProofs!LayoutInvariance`, `StayingLinksKeepTheirPlaces` | `LayoutSpec => []LayoutIInv`, `LinksKeepTheirPlaces` |
| `ClientPagesProofs!ClientTypes` | `ClientSpec => []ClientTypeOK` |
| `ClientPagesProofs!PagesAreSafe` | `ClientSpec =>` every safety property of `client_pages` |

**`JobRunner`.** `BulkVerdict` alone is not inductive. `FinishBulk` looks only at
the children from `next` on, so one must know that those before it are over
(`PollOK`) and stay so. That a verdict is final needs the phase of a task to
determine the status of its job (`TaskOK`): a step that ends a job starts from a
phase in which it runs. And children must be known to the process that waits for
them, which a restart clears together with the list. These facts are
`Consistent`, stated of any maps of jobs and tasks and not only of the
variables, because `RestoreEnds` and `CreateReported` change them twice in one
step: first a job ends or reports, then another is started. `LaunchConsistent`
and `FinishConsistent` carry the invariant over each half. `RecordsOK` adds that a
record has an id that was given out, so that a new job finds none.

**`JobLedger`.** Both theorems of `JobLedgerProofs` go through one lemma,
`StepShape`: a step that is not a restart gives birth to jobs, ends a job, or
leaves a job as it is (`Born`, `EndedNow`, `Kept`), and no list of children
changes once it is made. Such a step is the ledger's `Work` (`ShapeWorks`), and a
restart is its `Forget`, because history and memory agree (`RecordsOK`). For
`RecordedAsItEnds` the foreign key to the parent must be known to hold:
`ParentsKnown` says that the parent a job names is stored or is the bulk job that
started it, which needs that stored rows of `jobs` are never deleted.

**`Scheduler`.** `NoOverlap` counts running jobs, and is not inductive: a dispatch
that replaces `last_job_id` must know that no other job of the schedule runs.
`OneJob` says so: the only job of a schedule outside `loose` that may run is the one its
row names. `Skipped` looks at exactly that job, so a dispatch that is not skipped
finds none running. What users start or run again names no schedule, and bulk jobs,
whose children would inherit the name, are none of a schedule's (`BulkOK`); this is
where users and objects must be other rows than schedules. For `StatusIsOfLastJob` the
verdicts that a suspended tick has assigned and not committed count like those
committed (`SeenOK`), and the loop keeps both through deletions and refused commits
because a verdict that was seen stays or is forgotten (`VerdictsStay` in
`JobLedgerProofs`, from the shape of the engine's steps). `SchedulerKeepsLedger` follows
from the same shape: a dispatch, recorded or not, is a birth.

**`Webhooks`.** The lock is free, in the hands of one handler, or of one job
(`LockOK`); from it follows that a handler that comes to its notification is alone
there. `CountOK`: the count a handler has read is at most the committed one, and equal
to it unless triggers have met, for whoever commits meanwhile sets `clash`.
`AloneStatusMatches` needs two facts of the triggers of a webhook that have not met:
its pollers ask for the job the row names, or for the one whose handler is about to
commit (`PollersOK`), and a handler that started alone has the row's present status in
its session with no poller left to change it (`AloneOK`). The second is the
subtle one: SQLAlchemy leaves `last_status` out of an UPDATE when the session read
`running`, so a stale `running` would keep an old verdict.

**`InventorySync`.** `ObjectsMirrorCache` is inductive with the types: whoever
writes the cache writes the objects in the same step, but with two mechanisms.
`SyncMirrors` is the lemma for steps that sync from the cache they store,
`DropObject` the other case. `RefreshAloneIsExact` needs `CalmOK`: what an
undisturbed playbook has listed is the cloud, and once written it is the file.
Every step of another job that changes the cloud or the file ends the calm
(`StaleKeepsCalm`). `LiveServerStays` follows from the two together: a host with
an object is in the cache, so a sync from the cache keeps it, and a calm listing
has it because it is in the cloud. Before a cache was ever stored (`cache = None`)
nothing can be said of objects, and the property excepts it.

**`QueryCache`.** The theorem is about any tables, and `TablesCover` is what it asks
of them: each call that changes a key tells it, or is one of `Untold`, or need not
because the key is not on the page and is fetched again when it is shown. TLC evaluates
this premise on the tables of the source (`TablesAreCovered`, an assumption of
`MCQueryCache`): the proof and the run together say that but for the pairs of `Untold`
the pages' `onSuccess` handlers are enough. The invariant
follows a fetch: one that is not `behind` began after all the changes the user was
told of and reads nothing older (`FetchOK`, whose `floor` is what was owed when it
began), and data in use that are not marked are as new (`DataOK`, which includes data
nobody shows while a `staleTime` may bring them back). `SharedKeysAgree` is the same
with shapes for versions: what the entry stores, fetches, or would fetch is of the shape
of one of its observers.

**`PageDialogs`** (in `ClientPartsProofs`)**.** Fields of a dialog that is open are its object's or empty
(`ShownOK`); of one that is shut they may be left only where the next opening sets
them or is about the same thing (`ShutOK`). `StartsOver` makes the second so at each of
the ways a dialog shuts (`ShutAgain`).

**The other machines of the client.** *Refresh*: unless something was `missed`, the
file is no older than the press of the button from when the job has listed, and the
objects from when it is completed, whoever else writes and syncs (`DoneOK`); so they
are when the refresh says so, and the list when it is fetched (`ToastOK`). *Job page*:
until polls cross there is one at most, for the page's job, while its timer is set
(`OnePoll`). *Terminal*: a connection that is still loading is the only one and
nothing is live beside it (`PendingOK`). *Forms*: a form whose target was read is
filled for it or has been taken along (`FilledOK`), a text that is typed and not
`loose` keeps the editor dirty (`DirtyOK`), and a file that could not be read is not
being fetched under the typing unless the text was taken along (`UnreadOK`). *Lists*:
ids that are ticked were ticked, row numbers as long as the list stays (`SelectedOK`),
for which two rows of a list must have different places (`PlaceInjective`, by
cardinality). *Session*: everything here and on its way is the one user's (`AloneOK`),
and the last edit waits for the timer, is on its way or has arrived (`SyncOK`).

**Arrays of any length.** `InputsArrive` and `LinksKeepTheirPlaces` speak of what
`filter` keeps, which is an induction over the array. The library's induction theorems
take the predicate as an operator, which the provers cannot instantiate; the facts
they are derived from take a set. `LeastNumber` gets the least element of a set of
numbers from `NatLessThanWellFounded` and `WFMin`, `CountingUp` is induction for a set
that has 0 and with each number the next, and `BuiltUp` the same for sequences and
`Append`: a lemma about arrays defines the set of those for which it holds. From
`BuiltUp` follow what `Only` keeps (`OnlyType`), what two filters keep (`OnlyTwice`)
and what is kept of two arrays joined (`OnlyConcat`), and that an item that is put
elsewhere moves no other (`SlippedIn`, `Moved`).

**`ScriptRun`.** `RunIInv` says that what is entered fits the kinds of the inputs
(`WindowOK`) and that the last call is the packing of something that fits
(`PackedOK`); `PackedArrives` is then a statement about arrays: filtering once for the
fields, once for the parts and once on the server leaves what `Without` leaves of
what was entered, or is one of the two losses `LostOnTheWay` names.

**`DashboardLayout`.** `LayoutIInv` adds to the types that the saved order names a link of
the user's only while there is one (`OrderIsTidy`): a link that is added would
otherwise be in the order twice. A link that stays keeps its place because the order
and the list of what is there both keep theirs (`PlacesFromParts`), and what is shown is
the first followed by the rest.

**`ClientPages`.** One machine moves and the others rest (`OnePageMoves`), so a behaviour
of the whole is one of each (`PagesSideBySide`, a lemma), and the theorems of the parts carry over.
Fairness is stated for the machine that moves, so of the job page and the refresh the
composition implies the initial state and the steps; their safety theorems ask no more.

### 6.1 What is only model-checked

* `BulkEnds`, `EndIsNoticed`, `PolledCatchesUp`, `RefreshEnds` and `EndIsShown`: liveness
  under fairness is beyond the prover.

Every invariant and every action property that a run checks and that holds is stated by
a theorem. The runs that expect a violation show that their properties do not hold.

No module declares a RECURSIVE operator.

## 7. What the models leave out

* What jobs print, the arguments of their commands, secrets and passwords.
* Two ids that collide: `uuid4()[:8]` has 32 bits, and a second job of the same id
  would replace the first.
* SQLite's reuse of the row id of a deleted row, by which a dangling foreign key
  of a running job could come to name another row.
* In `InventorySync` an object is known by its hostname, so an object deleted and
  made again counts as the same.
* Reads that a handler in the thread pool does between two steps of the loop.
* Creation of schedules, webhooks and rows: they exist from the start, and a model
  that begins later in the system's life would not differ.
* The rules of notifications and what each delivers, the adapters for credentials
  and deployments, and the components of section 3 that are not modelled yet.
* Startup and migration, and handlers of a single transaction with no state machine of
  their own.
* Of the client: rendering, validation of fields, wording, search, sorting and paging
  (they change which rows are visible and none of the state that is modelled), the
  upload's progress, the theme, the editor component, the two pages of invitation and
  password reset, which sign in or navigate, and the inline editor of the files tab,
  whose state is that of a form keyed by a name only (section 5.5).
* Of a script's inputs: names with `__`, at which the server splits a field; two uploads
  of one file name in one call, of which the second replaces the first; commas in names,
  since values are joined with them; and the inputs of an earlier run, which a runner
  keeps in the definition of the action and puts in place of those left empty
  (`inventory_routes.py:720`). `ScriptRun` takes items as they are, whole.
* Several tabs of one browser: they share the token in `localStorage`, each has its own
  memory, and nothing listens for the other's changes.
* The prebuilt bundle under `app/static/assets`, which is the client compiled.
