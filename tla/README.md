# Verification of gaia-space

TLA+ models of the parts of gaia-space whose correctness depends on the order in which things
happen, the TLC configurations that check them on small instances, and proofs, checked by TLAPS,
of what holds for every value of the constants. Paths below are relative to the repository;
`calls.rs`, `applications.rs`, `pipelines.rs`, ... are files of `src-tauri/src/`.

1. [The system](#1-the-system)
2. [How it is modelled](#2-how-it-is-modelled)
3. [Modules](#3-modules)
4. [Runs](#4-runs)
5. [Theorems](#5-theorems)
6. [Where the code and its comments disagree](#6-where-the-code-and-its-comments-disagree)
7. [Plan](#7-plan)
8. [Checking it](#8-checking-it)

## 1. The system

gaia-space is a workspace (chat, meetings, code review, pipelines, packages, documents, ...) of
one Rust library, `src-tauri/src`, with two hosts: the Tauri desktop application, which calls the
library's commands from its webview, and the HTTP server `bin/space-server.rs`, which dispatches
the same commands. All state is in one SQLite file. `db::conn()` opens a new connection with a
busy timeout of five seconds for each command, so commands of different requests, of different
windows and of the tickers interleave between any two statements that are not in one transaction.
That is the source of most of what is hard in this program: most commands are two or three
statements, and some make a network request in between.

Three tickers run in the server for as long as it lives: webhook deliveries (every 15 s by
default), scheduled chat messages (30 s), pipeline schedules (60 s, if
`SPACE_PIPELINE_SCHEDULE_TICK_ENABLED` is set). The same entry points can be called as commands,
by a button or a CGI tick, while the ticker runs.

### Components

| component | state | operations | hard behaviour | correct when |
|---|---|---|---|---|
| **Call recording** (`calls.rs`, `meetings.rs`) | `meeting_recordings`: status, egress id, last error, stop attempts; the partial unique index on active rows | start, stop, expire by TTL; archive and delete a meeting; StartRoomCompositeEgress, StopEgress | a network request between two statements; a timed-out request may still be executed; crash; several application instances on one file | a live job keeps its meeting reserved, one live job per meeting, one stop at a time, what ended stays ended |
| **Webhook queue** (`applications.rs`, `space-server.rs`) | `webhook_subscriptions`, `webhook_deliveries` (status, attempts, next attempt) | fan-out of an event, direct send, retry, sweep, claim and lease, delivery, backoff, dead letter, save and delete a subscription | several sweepers, crash with a claim, lost replies, subscription changed under a delivery | one deliverer at a time, the budget is spent before giving up, what is owed is eventually settled |
| **Deployments** (`pipelines.rs`) | `deploy_targets`, `deployments` | create and delete a target, schedule, transition (which may supersede another row), events | check and UPDATE in different statements, two UPDATEs for one promotion, events read from four moments | one CURRENT row per target, legal steps only, an event for each change |
| **Pipeline schedules** (`pipelines.rs`, `space-server.rs`) | newest `triggered_at` of each job, index `job_runs_scheduled_once` | tick, manual and event triggers | overlapping ticks with different clocks, watermark read long before the insert, ticks missed or cut short | a fire starts one run, a missed fire is caught up with |
| **Pipeline job runs and workers** (`pipelines.rs`) | `job_runs`: status, worker; `workers`: status, suspension, last seen; the executor's thread | execute, claim, register, heartbeat, expire, suspend, delete a script | the executor and a worker have the same run, a claim from an old list, dropped errors, a process that dies while a run is RUNNING | a run is given to one worker, ends within its time and keeps its outcome, a disabled worker stays disabled |
| **Code review and safe merge** (`review.rs`; pushes in `space-server.rs`) | `reviews`, stacks, `review_discussions`; the branches of the repository | safe merge, suggested edit, cherry-pick, restack, update | a ref compared in one call and forced in another, rows written after it one by one, people who push meanwhile | nothing pushed is lost, only what was checked lands, a merged review has a merge and its children follow |
| **Scheduled messages** (`chat.rs`) | `scheduled_messages`, and the messages derived from them | schedule, edit, cancel, deliver when due | lease by UPDATE, then INSERT, then release by id; several runs at once, crash, a channel that is closed or deleted | posted once, on time and as last edited; an intent is settled in the end |
| **Package registry** (`pipelines.rs`, `package_registry.rs`) | `package_versions`, the files of their assets, blobs and their staging files | publish, delete, sweep by retention, pin, download, upload | rows in a transaction, files renamed after it; a list read long before it is worked off; two uploads that share a file | a listed asset is its file, what is immutable stays, no half blob |
| Webhook signing keys (`applications.rs`) | `webhook_secrets` | rotate, retire, prune | statements without a transaction, overlap window | one ACTIVE key at any time |
| Sign-in, sessions, OAuth | accounts, sessions, consents | log in, refresh, revoke | conditions rather than order | |
| Chat, meetings, calendars, documents, issues, boards, blogs, projects, organization | their tables | record keeping | one transaction per command for most | |
| Budgets, purchases, CRM; development environments | ledgers, purchase states, environment states | versioned and guarded updates | stale reads of a stored list | |
| Git, hosting, LFS | repositories | libgit2 operations | | |
| Database and migrations | schema | migrate | once, at start | |
| Server, desktop shell, web front end, bridges, legacy client | none of their own, or a cursor in a file | dispatch, views, relays | | |

`PROJECT.json` lists all 24 components with the reason for each one that is left out, and the
hazards with the line at which each bites.

### How components interact

* The webhook queue is fed by the others: every `enqueue_event` call (deployments, reviews,
  issues, documents, git) is a fan-out on a connection of its own, in no transaction with the
  caller's statements; deployments print its errors and go on. Deployments models this as an event
  that may be lost (`Unsent`), WebhookQueue as a fan-out at any time (`FanOut`).
* Schedules, triggers and workers meet in `job_runs`: any run, of whatever origin, moves the
  watermark that the cron tick reads.
* The executor's thread and the claims of workers write the same rows of `job_runs`, and neither
  knows of the other.
* The commands of a review and `git push` (a child process, `git_rpc`) write the same branches;
  the database is no lock for them.
* Scheduled messages are posted by `create_message_impl`, as a person's are, with that person's
  right to write at that moment; the row and the message are tied by the derived id.
* Deleting a meeting deletes its recordings by the foreign key; deleting a subscription deletes
  its deliveries; a deploy target cannot be deleted while a deployment refers to it.
* The front end is not trusted with any state: in the models it is a caller that may send any
  command at any time.

## 2. How it is modelled

**One action is one SQL statement, one half of a network request, one file or ref operation, or
one reading of the clock.** No finer interleaving of statements exists, because SQLite serialises
them, and no coarser one is justified where the command uses no transaction. Where it does
(`publish_package_version_tx`, the deletion of a channel) the action is the transaction. Reads
that one write follows are one action with it when no other actor's write between them makes a
difference. A command is a process counter (`pc`) with the local variables the code keeps between
statements; it may stop before each statement (`Abandon`, `Crash`, `StatementFails`, `Stops`,
`Fail`, `Stop`, `Dies`), which stands both for a process that dies and for a statement that fails
and whose `?` leaves the function. What is written stays written.

**Data is kept up to what the code compares.** A recording's `last_error` is one of five classes,
since the code looks only at its prefix and at NULL; a webhook payload, filter and signature are
not there; a cron expression is the set of instants at which it fires; time is counted in units in
which the code's constants are small numbers; a commit is the set of commits reachable from it, so
that "ancestor of" is a subset; the payload of an asset is its number.

**Ids are finite pools.** A row's id is used once (`absent`, then a status, then `deleted` or
`gone`). When a pool is used up nothing can be created any more and every command has ended, so
the runs of Recording, Deployments, ScheduledMessages, SafeMerge and PackageRegistry do not check
for deadlock. The webhook and pipeline runs do.

**Bounds** are constants: `MaxAttempts`, `MaxFaults`, `MaxLosses`, `MaxCommands`, `MaxCommits`,
`MaxPayloads`, `MaxSteps`, `MaxTime`, `Clocks`, `Horizon`, `Budgets`, `Limit`. The proofs hold for
any value of them.

**History variables** (`armed`, `told`, `promoter`, `handed`, `late`, `dropped`, `lost`, `undone`,
`moved`, `overwritten`, `landed`, `broken`, `crossed`, `rewritten`, `forwarded`, `sealed`, `raced`,
`torn`, `reopened`, `byHand`, `relisted`, `unmarked`, `claimed`, `deleted`, `overlapped`) record
what a property has to name: no guard reads them. Most of the properties have the form "X holds, but
for these cases": the cases are what the code really does, each is recorded by the action that
causes it, and the property (with its proof) says that there is no other.

## 3. Modules

| module | models | lines |
|---|---|---|
| `RecordingLifecycle` | `calls.rs` recording commands, the Egress service (external), archive and delete in `meetings.rs` | 532 |
| `WebhookQueue` | `applications.rs` queue, the endpoint (external), the ticker in `space-server.rs` | 390 |
| `DeliveryContract` | the abstract specification of one delivery, implemented by WebhookQueue | 53 |
| `Deployments` | `pipelines.rs` targets and deployments | 295 |
| `PipelineSchedule` | `pipelines.rs` `due_scheduled_runs` and triggers, its ticker | 192 |
| `JobRuns` | `pipelines.rs` the executor, workers and their claims | 331 |
| `ScheduledMessages` | `chat.rs` scheduled messages, their ticker in `space-server.rs` | 358 |
| `SafeMerge` | `review.rs` commands that write refs, pushes | 491 |
| `PackageRegistry` | `pipelines.rs` packages and assets, `package_registry.rs` blobs | 482 |
| `MC...` | instances: constants, symmetry, the halves of a run | 16-54 |
| `..._proofs` | theorems, one module for each of the eight above that is not DeliveryContract | 374-3327 |

The runs are few, so an MC module often joins two or three instances in one run; a variable that
is chosen in the initial state and never changes, or a condition on the next state, says which
instance a behaviour belongs to (`overlapped`, `part`, `Narrow`, `Alone`, `OnePart`). A property of
one instance is stated with that condition.

Definitions named `Mut_...` are plausible bugs (a dropped guard, a missing reset, an off-by-one).
No specification uses them; each stands in for the correct definition in a mutation run that must
break one property (`PROJECT.json`, "mutants"), which shows that the property depends on the code.

### RecordingLifecycle

`row` is the table; `pc`, `mtg`, `rec`, `req` are the local state of each call of
`start_meeting_recording_with_config` or `stop_meeting_recording_with_config`; `remote` is what
the Egress service runs; `stray` holds requests whose caller has given up but which the service
may still execute. `armed`, `unmarked` and `overlapped` are history variables; `Watch` sets the
last, for good, when two commands are under way at one time.

| action | code |
|---|---|
| `StartExpire`, `StopExpire` | authorization and `expire_stale_lifecycle`, one UPDATE over the table |
| `StartReserve` | `reserve_recording`: the INSERT against the partial unique index and the foreign key |
| `StartArm` | `mark_start_rpc_in_flight`; whether it changed a row is not looked at |
| `StartSend`, `Serve`, `Refuse`, `StartOk`, `StartRefused`, `StartAmbiguous` | the RPC: executed, provably not executed, or unknown |
| `StartRelease`, `StartHold` | `release_or_hold` |
| `StartMark`, `StartMarkFails`, `Comp...` | `mark_recording_started`, whose UPDATE or whose SELECT after it may fail, and then the compensating StopEgress and its outcomes |
| `StopRead`, `StopRelease`, `StopBegin` | `active_recording`, `may_release_unstarted_reservation`, the compare-and-swap of `begin_recording_stop` |
| `StopSend`, `StopOk`, `StopFailed`, `StopFail`, `StopMark` | StopEgress, `mark_recording_stop_failed`, `mark_recording_stopped` |
| `Abandon`, `TtlElapses`, `ArchiveMeeting`, `DeleteMeeting`, `ServeStray`, `JobEnds` | the environment |

Two families of properties. Those that hold with any number of callers: a *confirmed* job (its id is
stored) keeps its meeting (`ConfirmedJobHeld`), stops exclude each other but for one case of failure
(`StopsExclude`), the TTL takes only rows never armed (`ReclaimedNeverArmed`), ended rows stay ended
(`TerminalIsFinal`). Those that hold as long as no two commands have overlapped, whichever callers
run them: *every* live job keeps its meeting (`LiveJobHeld`) and a meeting has one (`OneLiveJob`);
stated and checked so, they are `AloneLiveJobHeld` and `AloneOneLiveJob`.

### WebhookQueue and DeliveryContract

A unit of time is 30 seconds, the base of `delivery_backoff`. `next_attempt_at` is kept as the
time left (`wait`), so that no absolute clock is needed. `Hold` is the longest time between a
claim and the write of its outcome: the HTTP client has a timeout of 10 s and a statement waits at
most 5 s for the database, so one unit covers it; the code's lease of 120 s is four units. `held`
is the time since a worker took its delivery.

| action | code |
|---|---|
| `FanOut`, `FanInsert` | `enqueue_event`, `enqueue_webhook_delivery`: the SELECT, then an INSERT per subscription, no transaction |
| `DeliverWebhook` | `deliver_webhook`: a row with no next attempt, sent without a claim |
| `Retry`, `Sweep`, `SweepNext` | `retry_webhook_delivery`, `due_webhook_deliveries`, `process_webhook_queue` with `claim_delivery` |
| `Read`, `Post`, `Store` | `deliver_delivery`: the row and subscription, the request with no statement open, the UPDATE by id |
| `SaveWebhook`, `DeleteWebhook` | the upsert, and the DELETE that cascades |
| `Tick`, `Crash`, `StatementFails` | time; a worker that dies; an error a sweep drops |

`DeliveryContract` says what a subscriber is promised, without queue, clock or workers: a delivery
is *owed*, may be offered while it is owed, becomes *done* only after it was accepted, or *dead*,
and neither is taken back. The refinement mapping is `ContractState`; `accepted` is shared. The
interesting part is that `Store` writes by id over whatever the row has become: the contract holds
only because nobody else can have the row, which is the lease.

Left out: the sweep's LIMIT and ORDER BY (a claim moves a row 120 s on, so rows not taken come
first next time), filters, signatures and their keys.

### Deployments

Each request runs on its own connection. `TransitionDeployment`, `Peek`, `Check`, `Write` or
`Supersede` and `Promote`, `Reread`, `RereadSuperseded`, `TellSuperseded`, `Tell` are the
statements of `transition_deployment` and `transition_deployment_tx` in order; `call` keeps what
was read at each. `told` is the history of events per row: the last status announced, and whether
an event's "previous status" ever differed from it. `AloneOneCurrent`, `AloneAnnounced` and
`AloneStepsLegal` are `OneCurrent`, `Announced` and `LegalStep` for as long as no two requests have
overlapped (`overlapped`, which `Watch` sets for good).
`promoter` is the request that made a row CURRENT. `update_deploy_target` writes only columns that
no command reads back, and is left out with them.

### PipelineSchedule

Of `job_runs` it keeps what the schedule reads: `last`, the newest `triggered_at`, and `reserved`,
the unique index. The server's ticker passes the server's clock; a page passes its own
`Date.now()` (`src/api/pipelines.ts:378`), any time up to `Skew` ahead of the server's or however
far behind. `ReadLast` is one SELECT per job (a failed one is taken for
a job that never ran), `Stamp` the clock reading of `spawn_script_jobs`,
`Insert` the INSERT OR IGNORE, which may come later when the database is busy. `Trigger` is the
manual and event triggers, which insert runs with no `fired_minute` but move the watermark.
Parsing and matching a cron expression is left out.

### JobRuns

`row` is `job_runs` (status and owner), `thread` the executor's thread of each run, `worker` the
table `workers`, `agent` the command an agent is in.

| action | code |
|---|---|
| `Spawn` | `spawn_script_jobs`: the INSERT and the thread |
| `SetRunRunning`, `FinishRun`, `DropsUpdate` | the executor's UPDATEs by id alone, whose errors it drops |
| `NextStep`, `StepEnds`, `Deadline`, `Kill` | the loop of `execute_job_run`, `run_step` with its deadline |
| `Join`, `PipesClose` | the readers of the step's pipes, which a process that outlives the step may hold open |
| `Dies` | a process that dies with its threads; nothing takes a run up again |
| `RegisterWorker`, `SetWorkerSuspended` | the upsert, and the flag |
| `Begin`, `ExpireStaleWorkers` | `worker_heartbeat` and `assign_job_run` take the clock and expire silent workers |
| `ReadWorker`, `WorkerHeartbeat` | `worker_heartbeat_conn`: a SELECT, then an UPDATE by id |
| `CheckWorker`, `ListRuns`, `TryRun` | `assign_job_run_conn`: the worker, the candidates, one UPDATE after another |
| `DeletePipelineScript` | the runs in one statement, jobs and script in others |

Every run is executed by the thread of the process that triggered it, also when a worker claims
it; no command lets a worker report an outcome. So `EndedStays` and `Ends` are about the executor,
and name what a claim does to them. Left out: logs, artifacts, test reports, secrets, tags (no
code path gives a run a tag it asks for), and the parsing of scripts.

### ScheduledMessages

`row` is the table, `msg` the message whose id is derived from the intent's, `run` an execution of
`deliver_due_scheduled_impl` (the ticker, the boot of the CGI build, an administrator's command),
`cmd` an edit or a cancellation between its read and its write.

| action | code |
|---|---|
| `Schedule`, `BeginEdit`/`Edit`, `BeginCancel`/`Cancel` | `schedule_message_impl`, `update_scheduled_impl`, `cancel_scheduled_impl` |
| `Select` | the due ids, oldest first, at most `Limit` |
| `Lease`, `Reread` | the UPDATE from pending to sent; `get_scheduled_impl` |
| `Guard`, `Insert`, `Follow` | `create_message_impl`: its checks, the INSERT, what follows it |
| `Release` | the UPDATE that makes the row pending again, by id |
| `StatementFails`, `Crash` | a statement's error, at each place with what the code does then; a process that dies |
| `ChangeAccess`, `DeleteChannel`, `Tick` | members and archived channels, the deletion with all its rows, the clock |

### SafeMerge

`tip` holds the branches, `change` what each commit changes, `file` what the file of the suggested
edit reads at each commit, `review` the table, `edit` the suggestion's row, `run` the command each
client is in.

| action | code |
|---|---|
| `BeginMerge`, `Preview`, `Checks`, `Recheck` | `attempt_merge` to the merge commit; the outcome of policy, permission, gate and CI is a yes or no |
| `Compare`, `Write` | `advance_verified_ref`: the tip read, and the forced write |
| `MarkMerged`, `DeleteSource`, `Retarget` | the rows and the branch after it, one by one |
| `BeginApply`, `Record` | `apply_suggested_edit_tx`, which compares the file's text on the branch with that at the suggestion's base |
| `BeginStatus`, `SetStatus` | `set_suggested_edit_status`: the transition is checked on a row read before |
| `BeginPick` | `stack_cherry_pick_tx`, which forces its write without a second look |
| `BeginRestack`, `Member` | `restack_stack_tx`: all tips first, then one member after another |
| `Update` | `update_review`, which writes the whole row its caller sends: any state, any branches |
| `Push`, `Fail` | people; an error or a crash, after which the rest is not done |

`attempt_merge` is a command of the desktop application (the server answers NOT_IMPLEMENTED); the
pushes come through the server, or any git client, on the same repository. Abstracted: a merge base
is the intersection of two histories; two changes conflict if the instance says so (`Clash`), and of
the suggestion's file a three-way merge makes what `Blend` allows: the side that changed it, or any
text if both did; a cherry-pick may leave any text; pushes do not recreate a deleted branch; only
pushed changes are picked. `forwarded` remembers the branches that a restack moved although they had
no commits of their own: their new tip is a commit that was there before. `Asked` is what callers
ask to merge and `Sent` what they send to `update_review`: an instance bounds them, the proofs have
any. Not modelled: linked issues, rows of merge runs, events.

### PackageRegistry

`row` is `package_versions`, with the entries of `_files` and `_file_path` in its metadata; `disk`
the asset files; `final` and `staging` the blobs; `call` the command each client is in.

| action | code |
|---|---|
| `BeginPublish`, `Publish`, `Refuse`, `Rename` | `publish_package_version_tx` under the write lock, whose reads of the old row may fail unnoticed (`.ok()`), and the rename after its commit; an npm document publishes its versions in turn |
| `BeginDelete`, `Lookup`, `Unlink`, `UnlinkFails`, `Drop` | `delete_package_version` |
| `BeginSweep`, `SweepNext` | `apply_package_retention`: candidates once, then deletions |
| `BeginDeleteRepository`, `DropRepository` | two statements |
| `Pin`, `BeginDownload`, `Bump` | the flags retention reads |
| `BeginUpload`, `Stage`, `Write`, `Commit` | `store_blob`; a rename takes along the files that other uploads have open |
| `Stop` | a crash, or an error that ends the command |

A download is possible only if the file exists, because the path is made canonical first. Left
out: retention by age, access lists, the metadata of each format, vulnerabilities, recreating a
repository.

## 4. Runs

| run | instance | shows |
|---|---|---|
| `recording` | 2 callers, 2 recordings, 2 meetings; 1 meeting once commands have overlapped | `ConfirmedJobHeld`, `StopsExclude`, `ReclaimedNeverArmed`, `TerminalIsFinal` under every interleaving, crash, lost or late request; `AloneLiveJobHeld`, `AloneOneLiveJob` for one command after another |
| `recording_one_live_job` | 1 meeting, 2 callers | *violated*: `OneLiveJob` |
| `webhook` | 1 delivery with 3 workers, 1 fault and budgets 2 and 3; 2 deliveries with 2 workers and no fault | `OneDeliverer`, `RequestsCounted`, `DeadOnlyWhenSpent`, `ImplementsContract`, `Settles` |
| `deploy` | 2 callers, 2 deployments, 2 targets and 2 faults; 1 target and 1 fault once requests have overlapped | `NeverSkips`, `DistinctPromoters`; `AloneOneCurrent`, `AloneAnnounced`, `AloneStepsLegal` |
| `schedule` | the schedule of 1 job, ticker and page, 2 fires, 2 faults; 1 executed run with 2 workers that claim; 2 waiting runs with 1 worker and a clock | `OncePerFire`, `WatermarkCovers`, `CatchesUp`; `HandedOnce`, `EndedStays`, `DisabledStays`, `ExecutedEnds` (`Ends` for the executed run) |
| `schedule_clock_ahead` | the schedule, the page one unit ahead, no fault | *violated*: `CatchesUp` |
| `scheduled` | 1 intent with ticker, administrator and 2 commands; 2 intents with the ticker; 1 fault, clock to 2 | `LeaseIsExclusive`, `SentIsAccountedFor`, `PostedAsWritten`, `NeverEarly`, `EditKeepsTheRest`, `DueIsDelivered` |
| `scheduled_lease_survives_crash` | the same | *violated*: `LeaseSurvivesCrash` |
| `merge` | a stack of 3 reviews over 4 branches, 2 clients, 2 or 3 commands, 8 commits, 1 fault, one review a caller calls merged and one old row written back; an edit on a stack of 2 reviews over 3 branches, 2 texts of its file, 3 commands, 6 commits, 1 fault | `LandsWhatWasChecked`, `LossIsExplained`, `MergedIsReachable`, `ChildrenFollow`; `EditIsRecorded`, `EditLandsOnItsBase` |
| `merge_never_replaces_work` | the same, 1 command, no fault | *violated*: `NeverReplacesWork` |
| `packages` | 1 version with 2 assets, 2 versions with 1, 1 blob; 2 clients, 4 commands, 3 payloads, 1 fault | `ListedIsStored`, `ImmutableExplained`, `SweepsKeepNewest`, `HalfBlobsExplained`, `AcceptedStays` |
| `packages_immutable_for_good` | 1 version, no fault | *violated*: `ImmutableForGood` |

`TypeOK` of each module is proved (section 5), and therefore in no run.

### Why the bounds are enough

* Recording. Two callers are what every race in this code needs: one that stands between two
  statements and one that runs past it. Two recordings are what a reservation that is freed and
  taken again needs. Two stop attempts show a retried stop after an ambiguous one. Abandoned
  commands leave a caller free to start the next, so the executions themselves are not bounded by
  the number of callers. The second meeting shows that a command leaves the other meeting's jobs
  alone; behaviours that touch it are those in which no two commands have overlapped.
* Webhooks. Three workers on one delivery are the ticker, a command, and one that follows a worker
  that died. Deliveries meet in a sweep's list only, which two of them and two workers show. A
  lease of 3 with `Hold` 1 leaves room for a claim to be taken over, which is the case the lease
  is for; the proofs use the general condition `Hold < Lease`. Budgets of 2 and 3 make a budget
  that is lowered and raised between two attempts. The last steps of the backoff table (above four
  units) are not reached with a budget of 3.
* Deployments. A superseded row and its successor are two deployments; a race needs two requests.
  The second target shows that a promotion leaves the other alone. It is there as long as
  no two requests have overlapped, and from then on the VIEW `Unheard` drops the history of events,
  which no guard and no property of such states reads.
* Schedules and job runs. A minute is two units, so that readings of a clock within one minute
  differ; two fires are what a fire that hides another needs, and the horizon lies a minute after
  the second. Jobs share nothing but the ticking call. Two workers are two claims of one run; two
  runs and one worker are a candidate that is lost and one that is won. A grace of 0 and two
  instants are a worker that is silent for too long. One step is a loop with a first and a last
  round; the proofs have any number.
* Scheduled messages. One intent has every race, since intents do not read each other; two, and a
  channel that is gone, show what an error of one means for the next. Two commands are an edit
  that overtakes another. The run has one text, since an edit reads and writes text and time
  alike; that the text is kept is proved. One fault is one statement or one crash, at each place.
* Safe merge. Three reviews are a merge in the middle of a stack. Two commands and any number of
  pushes are every race of a ref: one that looked and one that wrote. The third command shows a
  race after a completed one. Two commands may use eight commits, as a restack of the whole stack
  does; a third begins only while there are at most six and nothing failed, which keeps the run
  short. The properties of this part do not look at the text of the file, so there it has one. The
  part about the suggested edit has two, which are a file that is as it was and one that is not,
  and three commands, which apply, reopen and apply again with a revert pushed in between. Neither
  part has a circle of reviews (`Circle` is false in all its states); the theorems allow any.
* Packages. The bounds differ by what the part is about: assets of a version (two, with
  immutability), versions for retention (two, keep one), blobs. Four commands are two publishes, a
  sweep or a deletion, and a download or pin.

### Fairness

* Webhooks (`Fairness`): time passes; the ticker sweeps whenever something is due, because
  `spawn_webhook_ticker` loops without end and treats a failed or panicked sweep as one iteration;
  a worker that stands at a statement or a request goes on, because both have timeouts. Nothing is
  asked of emitters, retries, saves or faults. Faults are bounded by `MaxFaults`: without a bound
  a delivery may fail at every attempt without one being counted. `Settles` is about subscriptions
  that are in the end enabled with their largest budget.
* Schedules (`Fairness`): time passes; the server's ticker calls with the server's clock
  (`spawn_pipeline_schedule_ticker`, which an operator has to enable); a thread that works goes
  on. Nobody has to press a button.
* Job runs (`MCFairness`): the executor's thread and its deadline go on. Nothing is asked of
  steps, which may run for ever, of their pipes, or of workers. `Ends` excuses a process that
  died, a dropped last update, a claim from a list older than the outcome, and pipes that are held
  open.
* Scheduled messages: the ticker selects whenever something is due (`spawn_chat_schedule_ticker`,
  a loop no error leaves), and a run that has begun goes on. `DueIsDelivered` is about authors who
  may in the end write to the channel, and excuses leases lost to a fault.
* Recording, Deployments, SafeMerge and PackageRegistry have no process that would retry on its
  own, so nothing is claimed to happen eventually.

## 5. Theorems

Checked by TLAPS for every value of the constants that satisfies the named assumptions of each
module (a `None` outside the other sets; `Hold < Lease`; budgets positive; fires on minute
boundaries). JobRuns needs `MaxSteps \in Nat` only. Of the reviews, of
what is asked to be merged and of the rows sent to `update_review` only types are assumed, and that
nothing is merged at first.

| module | invariant | properties |
|---|---|---|
| `RecordingLifecycle_proofs` | `LifecycleInvariant`, `TypeCorrect` | `ConfirmedJobIsHeld`, `StopsAreExclusive`, `TtlSparesArmedRows`, `OverIsOver`; `OneCommandHoldsItsJob` and `OneCommandOneJob` until two commands overlap |
| `WebhookQueue_proofs` | `QueueInvariant`, `TypeCorrect` | `DeliveriesExclude`, `EveryRequestIsCounted`, `DeadLettersAreSpent`; `QueueImplementsContract`, the refinement |
| `Deployments_proofs` | `TypeCorrect` | `NoDeploymentSkips`, `PromotersDiffer`; `OneAtATimeOneCurrent`, `OneAtATimeStepsLegal` and `OneAtATimeAnnounced` until two requests overlap |
| `PipelineSchedule_proofs` | `ScheduleInvariant`, `TypeCorrect` | `StartedOncePerFire`, `WatermarkIsClose` (a watermark is behind a started fire by at most `Skew`), and `OneClockCovers` assuming `Skew = 0` |
| `JobRuns_proofs` | `JobRunsInvariant`, `JobRunsTypeCorrect` | `OneClaimPerRun`, `EndedRunsStay`, `DisabledWorkersStay` |
| `ScheduledMessages_proofs` | `ScheduledInvariant`, `ScheduledTypeCorrect` | `OneRunPerIntent`, `SentRowsExplained`, `PostsAgreeWithRows`, `PostsNeverEarly`, `EditsKeepTheRest` |
| `SafeMerge_proofs` | `SafeMergeInvariant`, `SafeMergeTypeCorrect` | `ChecksCoverTheMerge`, `NothingLostUnseen`, `MergedReviewsLanded`, `EditsAreRecorded`, `EditsLandOnTheirBase`, `NoChildLeftBehind` |
| `PackageRegistry_proofs` | `PackageInvariant`, `PackageTypeCorrect` | `AssetsAreStored`, `ImmutableLossExplained`, `HalfBlobsAreExplained`, `AcceptedBlobsStay`, `SweepsSpareTheNewest` |

`PROJECT.json`, "theorems", says in a sentence what each establishes and which property of a run
it states.

### The inductive invariants, and why each is needed

* **Lifecycle** = `StateOK`, `RowShape`, `CallShape`, `OneStarter`, `StopsExclude`. That the row of
  a confirmed live job is `recording` or `stopping` depends on every writer: `RowShape` ties status,
  egress id, error and the remote job together; `CallShape` says what a command still knows when its
  reply comes (a call past the stop compare-and-swap has a row that is `stopping` with the in-flight
  marker, or deleted, or in `unmarked`; a positive stop reply means the job has ended). The
  statements' status guards make it inductive: no starter can write a final status to a row that is
  no longer `starting`. `mark_recording_unconfirmed` has no such guard. Before the job's id is
  stored that is harmless, because only calls that start the recording work on a row without an
  egress id, and `OneStarter` says there is one. A start that failed after storing it, because the
  row could not be read back, may find its row being stopped, and takes the marker of that stop
  away: `unmarked` has those rows, nothing else lets two stops through (section 6), and the job
  stays confirmed, since neither that write nor a stop that fails changes the status. Until two
  commands overlap (`SoloSoFar`) every step is one of a caller while all others are idle, and `Solo`
  adds what the arming is for: a recording is *claimed* while its job is live or a request to start
  it may still be executed, and a claimed recording has a row neither the TTL nor a release can take
  (`Held`). The request leaves only after the row was armed, it is executed once (`AskedOnce`), and
  a command releases only what it knows unclaimed (`Knows`: a refused request, a job that ended, a
  row that was never armed). The reservation then lets one recording of a meeting be claimed
  (`OneStake`).
* **Queue** = `TypeOK`, `RowShape`, `HandShape`, `OneDeliverer`, `RequestsCounted`. `OneDeliverer`
  alone is not inductive: a second claim is refused because the lease of the row in a worker's hands
  is spent by exactly the time it was held (`wait + held = Lease`), and `held <= Hold < Lease`,
  hence `wait > 0` (or there is no time at all, for a direct send). `HandShape` is that argument,
  with what the worker read: the attempts it saw are still those of the row, so its write of "seen +
  1" counts the request.
* **Deployments**: `StateOK`, `RowShape`, `NeverSkips`, `CallShape`, `Cleared`,
  `DistinctPromoters`. A call between its check and its UPDATE knows only that its row was once
  past SCHEDULED (`started` never goes back), which is enough for `NeverSkips` and not for
  `LegalStep`. `Cleared`: between its two UPDATEs a promotion is the promoter of no CURRENT row
  of its target, because rows become CURRENT only by their own request's second UPDATE. Until two
  requests overlap three more hold: `Single` (a promotion that has superseded finds no CURRENT row
  on its target), `Fresh` (the check is still true when the UPDATE runs) and `Story`,
  what the last event of each row said: the row's status, or the one before a change the call
  under way has still to announce (`Due`); the row it found CURRENT is the one it superseded.
* **Schedules**: `TypeOK`, `Counted` (a fire started is a fire reserved), `Timely` (a call carries
  only fires elapsed by its own clock, and its `at` is no more than `Skew` behind that clock),
  `WatermarkWithinSkew`.
* **Job runs**: `JobTypeOK`, `Started` (a run that was not inserted has no thread), `StepsLeft`,
  `Commands` (a command speaks for a worker, and lists only runs that had not ended when it read
  them), `Counted` (a run without an owner was handed to nobody, the others once: no statement
  takes an owner back) and `EndedStays`. With `Commands` a claim that finds its run ended is one
  of `late`.
* **Scheduled messages**: `TypeOK`, `Rows` (what a deleted channel leaves), `Knows` (what is still
  true of an intent a run has listed or holds: between its reading and the INSERT the run's copy
  of text and time is the row's, and the message is not there yet), `Alone`, `Reads` (what an edit
  read still stands unless another edit passed it), `SentIsAccountedFor`, `PostedAsWritten`,
  `NeverEarly`. `PostedAsWritten` is the deepest: the row of a posted message is sent, and nobody
  writes a sent row but the run that holds it, which never releases an intent whose message it
  posted unless something after the INSERT fails (`undone`).
* **Safe merge**: `TypeOK`, `Rows`, `Stored` and, for each command, `Fits`. Losing nothing is not
  inductive over "some branch shows it": the deletion of a source branch is harmless only because
  its commits are on the target, and they must still be there, on a branch that no second deletion
  relies on. So the invariant speaks of rankings of the branches and, for each, of the changes
  *below* a rank (`Below`): those overwritten, or on a branch of lower rank. No step takes a change
  away from below a rank, as long as every merge that deleted its source took it to a branch of
  lower rank (`Respects`); a merge brings what it will delete below the rank of its source. If some
  ranking is respected, what is below its top rank stays. There is none exactly if the merges went
  in a circle (`Circle`): then each may delete the branch the one before relied on, and the code
  really loses commits. Which merges are asked for is not restricted, so the invariant holds for
  every ranking at once, and a ranking that a deletion does not respect promises nothing from then
  on. A restack copies commits, so changes are compared, and for merge commits, which are never
  copied, the commits themselves (`Sig`). Numbers without gaps (`TypeOK`) make a new commit new.
  `Posted` says for `MergedIsReachable` who has still to record a merge that landed.
  For the suggested edit there are two more. `Hidden \/ Accounted`: until a command has put the
  edit on a branch no branch shows it and no command holds a commit that would bring it (a merge
  takes the tips it reads, a restack the ones it read up front), and from then on the row tells of
  it or the command about to write the row. `OnBase`: what an application compared is a tip whose
  file reads as the suggestion's base does, and texts of commits do not change (`FilesStay`), so
  the comparison made before the branch was looked at again still counts. `ChildrenFollow` is
  inductive by itself: a review waits for the branch of a merged one only if it was written over,
  or a step of the merge is still to come.
  For `LandsWhatWasChecked`, which rests on a comparison of tips and would be fooled by a branch
  that moves away and back: `Private` says that what a command is about to write is a commit no
  branch shows and no other command holds, so that a write, like every step that makes a commit,
  takes a branch to a tip it never had; `Vouched`, that a source branch found at the preview's
  commit is still what CI saw. The one step that does neither is a restack of a branch without
  commits of its own, whose new tip is the base it read up front (`review.rs:1301-1330`): two
  overlapping ones take such a branch away and back, and a push that came in between is then
  missing from what lands, though CI saw it. `forwarded` names that branch, and nothing else is
  excused.
* **Packages**: `TypeOK`, `RowShape`, `PendingIsListed`, `ListedIsStored`, `SealedIsListed`,
  `ImmutableExplained`, `StagedIsWritten`, `HalfBlobsExplained`, `AcceptedStays`.
  `PendingIsListed`: a publish between its commit and its rename is the one the row lists, or
  overlapped with the one that is. `SealedIsListed`: as long as nothing reopened a version, its
  listing is what it has served, so the pending publish of a sealed asset can only be the same
  payload or a recorded overlap. For `SweepsKeepNewest`, `DoomedExplained`: what a call has still
  to delete has `Keep` later versions whenever the call gets to it, because later versions only
  become more, unless a person asked for the deletion (`byHand`) or the id was published again, as
  a new version with no later ones, while it was listed (`relisted`).

### Model-checked only

The liveness properties (`Settles`, `CatchesUp`, `DueIsDelivered`, `ExecutedEnds`), which are out
of the prover's reach, as ENABLED is, and the violations. Every other property of a passing run is
a theorem. Induction over data and RECURSIVE operators cannot be proved about with the installed
backends; no module uses either.

A limit of what is stated: `EditLandsOnItsBase` speaks of the moment of an application. An edit may
be applied again after it was reverted and reopened, as it should; and a restack copies its commit,
so that a branch that merges the original and the copy has both in its history.

## 6. Where the code and its comments disagree

Each of these has a run whose property is the quoted statement and whose trace is the
disagreement:

1. `calls.rs:1143`, `OneLiveJob`. The unique index is said to make two live jobs "unrepresentable"
   (`calls.rs:1103-1105`). A reservation released between its INSERT and its arming (by the TTL of
   another call, or by a stop that read it before the arming) lets a third call reserve the
   meeting, while the first goes on to send its request: the arming UPDATE changes no row and
   nobody looks.
2. `pipelines.rs:1579`, `CatchesUp`. "A missed tick fires once on the next call"
   (`pipelines.rs:1688-1689`). The fire is chosen by the caller's clock and the watermark set by
   the server's: with the caller ahead, a fire is reserved above the watermark, and every later
   tick finds it again, has its INSERT ignored, and starts nothing.
3. `chat.rs:1865`, `LeaseSurvivesCrash`. A crash after the lease is said to leave a row whose
   message "is reinserted idempotently on the next run" (`chat.rs:1810-1812`). The next run
   selects pending rows, and the lease has made the row sent: the message is never posted.
4. `review.rs:2124`, `NeverReplacesWork`. The forced write is said to only ever extend "the exact
   commit we checked" and to never replace "a stranger's work" (`review.rs:2116-2117`). The check
   and the write are two calls, and a push in between is dropped from the branch.
5. `pipelines.rs:2547`, `ImmutableForGood`. "Immutable means 'published bytes never change'"
   (`pipelines.rs:2425`). The payload takes its name after the commit and outside the lock, so a
   publish that committed while the version was mutable renames over what an immutable version
   serves; and the publish of a new asset sets the flag of the whole version to what it asks for
   (`pipelines.rs:2529`).

Read, but with no run of their own:

* `calls.rs:1165`. "Two concurrent Stop calls can never both reach StopEgress"
  (`calls.rs:1200-1202`). `mark_recording_started` is an UPDATE and then a SELECT; when the SELECT
  fails, the start treats a recording that others may already stop as failed, and if its
  compensating stop is refused or lost, `mark_recording_unconfirmed` writes over the marker of
  the stop in flight, by id alone; a further stop then passes the compare-and-swap. `StopsExclude`
  says that this is the only way.
* `calls.rs:1211`. A job started before a restart is said to be "still stoppable"
  (`calls.rs:1605-1606`). A process that dies during StopEgress leaves the in-flight marker, which
  no later stop accepts and nothing clears: the meeting stays reserved.
* `applications.rs:885`. A refused retry is said to be "dead-lettered, already succeeded, or in
  flight elsewhere" (`applications.rs:944`). A direct send to a disabled subscription, or one that
  dies, leaves a PENDING row with no next attempt, which is none of these, and which neither a
  sweep nor a retry ever takes.
* `pipelines.rs:1978`. "Only one CURRENT per target": two promotions that interleave their two
  UPDATEs leave two. With two requests a deployment also takes steps outside
  `allowed_deployment_transition` (the check at `pipelines.rs:1965` is stale), and its events do
  not follow the rows (`pipelines.rs:2016-2018`); one request at a time does none of this.
* `calls.rs:49-50` says a `starting` or `stopping` row older than the TTL is reclaimed;
  `expire_stale_lifecycle` takes only `starting` rows that were never armed (`Expired`), which is
  what `ReclaimedNeverArmed` needs. `calls.rs:52-53` says a row is retired as `failed` after so
  many failed stop attempts; only its message changes.
* Archiving a meeting while it is recorded takes away the right to stop the recording
  (`calls.rs:1361`); deleting it deletes the row of a live job, and with it the only copy of its
  id (`meetings.rs:520`).
* `applications.rs:973-974` says due deliveries are "inside their attempt budget"; the query does
  not look at the budget, so a delivery whose budget is lowered below its attempts is swept and
  refused once per lease, for ever. `Settles` is checked for a budget that in the end is the
  largest; the safety properties for budgets that change. The fan-out (`applications.rs:931`) and
  the rotation of secrets (`applications.rs:549`) are several statements in no transaction.
* A manual run between a fire and the tick moves the watermark past the fire, which then starts
  nothing. `CatchesUp` asks for a later run of any origin, for that reason.
* `pipelines.rs:1077-1080` says the claim's guard keeps a job from being run twice. It keeps two
  workers from one run; the executor runs it in any case. The guard looks at `worker_id` alone, so
  a claim from a list read before the run ended makes an ended run RUNNING, for ever (`late`). A
  process that dies leaves its run RUNNING too, and the executor drops the errors of its updates.
* `pipelines.rs:1404-1407` says a step can be killed at the deadline; `child.kill()` ends the
  shell, and a process the shell has left behind holds the pipes that the thread goes on to read.
* `pipelines.rs:1032-1034` says a heartbeat never revives a DISABLED worker; one that read the row
  before it was disabled does (`DisabledStays` names the case).
* `package_registry.rs:876-877` says no reader sees a half-written blob. Two uploads of a digest
  share the staging file, and the rename of one publishes what the other is writing; the other's
  rename fails then (`HalfBlobsExplained`).
* A metadata-only publish drops `_file_path`, and `delete_package_version` removes only the file of
  `_file_path`: the other files of the version stay on disk, as all files do when a repository is
  deleted. A sweep deletes a version that was pinned, downloaded or published again after the
  candidates were read. A crash between the commit and the rename leaves an immutable version with
  an asset that has no file and cannot be published again.
* A SELECT that fails is taken for a row that is not there by the publish of a package
  (`pipelines.rs:2406-2423`, `2456-2466`), which then replaces an immutable version, or lists only
  its new file, and by the schedule (`pipelines.rs:1731`), which then looks one minute back.
* `update_review` (`review.rs:337-342`) writes whatever row its caller sends: a review may be
  stored as merged that nothing merged (`claimed`), a merged one reopened, or a retargeting undone.
  `DeleteSource` removes the branch by name with whatever was pushed to it since.
* Nothing keeps reviews from going round in a circle (`create_review`, `open_merge_request` and
  `update_review` do not look, and the merge takes its branches from the caller). Merges that
  delete their sources round such a circle delete the branch that had the commits of another
  (`Circle`).
* A merged branch whose review row could not be written (`review.rs:2261`) keeps an open review
  (`broken`); the next review of a stack that is merged or rewritten while the children of a merged
  one are moved may leave a child behind (`crossed`, `rewritten`).

## 7. Plan

Order: by how much state depends on the order of steps, and by what a failure costs. Done:
`RecordingLifecycle`, `WebhookQueue` with `DeliveryContract`, `Deployments`, `PipelineSchedule`,
`ScheduledMessages`, `SafeMerge`, `PackageRegistry`, `JobRuns`, and their proofs.

The suite is kept to a dozen runs and forty properties, each for one question, so that it can be
checked on every change; a new component takes the place of what a theorem covers by then.

| next | source | what it models | properties and theorems | instance |
|---|---|---|---|---|
| `WebhookSecrets` | `applications.rs` 524-617 | rotation statement by statement | one ACTIVE key, overlap window | 2 rotations |
| packages | `pipelines.rs` 3140-3187 | retention by age, recreating a repository | what a sweep leaves, with a clock | 2 versions |

Candidates after that: the ledger of `budget.rs`, purchase states (`buy.rs`), the merge of a
stored list (`crm.rs`), `devenv.rs`.

### Not modelled

Sign-in and OAuth are conditions on single rows, and cryptography. Most of the source by lines is
record keeping, one statement or one transaction per command (documents, issues, boards, blogs,
chat, meetings, organization, platform), where no order of steps reaches a state that a single one
does not; the dispatch of `space-server.rs`, which gives each of these a route; the schema and its
migrations; and the front end, bridges and legacy client. Recurrence arithmetic, cron matching,
parsing of scripts and package formats are pure computations over dates and text. For that reason
the models cover a small share of the lines, and most of the code that writes one thing in several
steps.

## 8. Checking it

In this directory:

    tlc -workers 2 -config Recording.cfg MCRecordingLifecycle
    tlc -workers 2 -config Pipelines.cfg MCPipelines
    tlapm WebhookQueue_proofs.tla

The module and configuration of each run are in `PROJECT.json`, "runs", and the source lines of
each definition under "map". The largest run takes under three minutes, the largest proof a few.
