# Verification of Ouroboros

TLA+ modules, TLC configurations and TLAPS proofs about the parts of this
repository that have to be right when threads, processes, files and failures
interleave: how a running agent commits a change to its own source, restarts into
it and is stopped by its owner; how its tasks are run, reaped and cancelled; how
their answers reach the owner; and the lock, the budget ledger and the skill
surfaces underneath. `src/full` is the complete program (a web server with a
supervisor thread, worker processes and a model-driven agent loop), `src/lite`
the small plugin extracted from it.

Contents: [parts](#1-the-system) · [model](#2-the-model) ·
[runs](#3-what-the-runs-check) · [findings](#4-disagreements-found) ·
[proofs](#5-what-is-proved) · [limits](#6-what-is-not-modelled) ·
[plan](#7-plan)

## 1. The system

### Parts, their state and operations

| Part | State | Operations |
|---|---|---|
| Evolution campaign (`supervisor/evolution_lifecycle.py`) | `state/evolution_campaign.json`: campaign id and status, objective, `active_transaction`, `transaction_history`, one row per task, `absorbed_count`, `last_boot_reconcile_gen`, repeat counts, backlog link | start, pause, complete, begin a transaction, record a commit, link a rescue, settle a task, clean the worktree, request a restart |
| State file and lock (`supervisor/state.py`, `ouroboros/platform_layer.py`) | `state/state.json`, its copy `state.last_good.json`, the lock file | `update_state` (one lock), `load_state` … `save_state` (two), acquire, take over a stale lock, release |
| Boot verification (`ouroboros/agent_startup_checks.py`) | `state/pending_restart_verify.json`, claimed copies of it, one per process | `verify_restart`: rename the marker, mark or reconcile, close the backlog item, unlink or restore |
| Reviewed commit (`ouroboros/tools/git.py`, `tools/control.py`) | the live branch, origin | authority, commit, tag, receipt, publication check, push, orphan; restart request |
| Post-task promotion (`ouroboros/post_task_evolution.py`) | one request file | `maybe_promote` (worker), `apply_pending_request` (supervisor), drop (owner stop) |
| Server (`server.py`, `server_control.py`), repository (`supervisor/git_ops.py`, `update_recovery.py`) | deferred restart; branch, worktree | event loop, `/evolve`, restart and drain, panic (a thread of its own); safe restart or refusal with a rescue snapshot, rollback, bootstrap |
| Queue (`supervisor/queue.py`, `queue_transitions.py`) | PENDING, RUNNING, root fences, snapshot file | enqueue, admission, drop, timeout, snapshot and restore |
| Pool and reaper (`supervisor/workers.py`, `task_reaper.py`) | worker slots with process, busy task and incarnation; the reaper's jobs | spawn, assign, detect a death, respawn, kill; retry or end a timed-out task |
| Cancellation (`ouroboros/cancel_intents.py`, `supervisor/task_lifecycle.py`, `cancel_publication.py`, `gateway/tasks.py`) | `state/cancel_intents.json`: one row per request with its claim; custody of a task by a thread | request, claim, capture, kill, write, publish, settle or reopen; watchdog; subtree cascade with its sweeps |
| Task results (`ouroboros/task_results.py`) | `task_results/<id>.json`, results of subagents on drives of their own | ranked write, copy back |
| Event handlers (`supervisor/events.py`) | event queue in memory | settle a task, consume the one-shot, deferred close, schedule a subagent, send a message |
| Terminal delivery (`supervisor/terminal_delivery.py`, `ouroboros/agent_task_pipeline.py`) | the outbox file: pending rows, delivered ids; a cache of delivered ids | register as owed, send, register as delivered, replay, give up, rescue |
| Skill lane (`ouroboros/skill_lifecycle_queue.py`) | a thread lock and a table of accepted reviews per process, one lock file | enqueue, dedupe, wait with deadline, run, release |
| Skill surfaces (`ouroboros/extension_loader.py`, `extension_reconcile_queue.py`, `gateway/extensions.py`, `tools/skill_exec.py`, `skill_review_runner.py`) | `enabled.json`, loaded surfaces of the server, reconcile markers | toggle, review, reconcile with revert, mark, pick up, reload all |
| Usage ledger (`ouroboros/usage_ledger.py`, `usage_accounting.py`) | `state/usage_attempts.jsonl`, its quarantine, the import watermark | reserve, dispatch, settle, release, close a dead child's call, record a session, import legacy rows, quarantine |
| Lite plugin (`src/lite`) | backlog, request, counter and checkpoint files | one pass after each task |

Further components, with the reason why they are not modelled, are listed in
`PROJECT.json`.

### How they interact, and where it is hard

**The evolution cycle** passes through many parts. The supervisor begins a
transaction (campaign file), queues a task, assigns it to a worker; the worker
commits, records a receipt in the campaign file, pushes and asks for a restart;
the supervisor settles the task's terminal, waits for running tasks, writes or
reads the restart marker, and exits; the next server boots workers, whose first
look at the marker decides that the commit was absorbed and closes the backlog
item it addressed. Nothing but files connects the steps.

**A task** is enqueued by a thread, assigned to a slot, and runs in a process
that writes its own result and sends a `task_done` event. Beside that process
stand four parties that may all end it: the supervisor loop that finds it dead,
the loop's timeout check which hands its slot to the reaper thread, a custody of
a cancel request in the loop or in an HTTP thread, and a cascade over its tree.
Each takes the task off RUNNING under a lock, works for seconds without the lock
(kill, write, publish), then respawns the slot.

**Its answer** exists four times: in the event queue twice, in the outbox, and in
the task result from which a rescue can restore it. Three threads register it.

**The budget** is a file that every process of the program appends to, one row
per change of a call, while the call itself runs between two appends.

**The surfaces of a skill** live in the server; the flag they follow is changed
by the server, by workers and by reviews, and a worker can only leave a marker.

Everywhere the same circumstances are the hard ones:

* threads and processes run in the unlocked stretches of each other's functions;
  some writers read without a lock and write the whole file later;
* the lock itself can be taken over, or not be had in time;
* the server, a worker, or a child of a worker may die between any two writes;
  events live in memory and vanish, files survive or are too old;
* a write, a kill, a send, a respawn or an append fails with a part of it done;
* deadlines pass while the work they bound is finishing;
* an outbox, a budget, a retry count or a lane is at its limit.

`PROJECT.json` lists the hazards at their lines with the properties that cover
them.

## 2. The model

| Module | Main sources | Models |
|---|---|---|
| `CampaignCycle` | | abstract: what a campaign promises about its cycles |
| `EvolutionCampaign` | `evolution_lifecycle.py` | the campaign record and each locked section as an operator on it |
| `EvolutionSystem` | `evolution_lifecycle.py`, `git_ops.py` | shared variables, initial state, worktree cleanup, end of a server |
| `EvolutionWorker` | `agent_startup_checks.py`, `tools/git.py`, `tools/control.py` | worker processes: `verify_restart`, the reviewed commit, death; ordinary tasks, rollback |
| `EvolutionSupervisor` | `server.py`, `events.py`, `queue.py`, `post_task_evolution.py` | supervisor and reaper threads, owner commands, panic, restart, boot |
| `EvolutionLifecycle` | | their composition, fairness, properties, refinement mapping to `CampaignCycle` |
| `TaskState` | `task_results.py`, `cancel_intents.py`, `queue.py` | the state of tasks, ranks of results, claims of cancel intents |
| `TaskWorkers` | `workers.py`, `queue.py`, `task_reaper.py`, `events.py` | running, finishing, dying, timing out, reaping |
| `TaskCancel` | `task_lifecycle.py`, `cancel_publication.py`, `gateway/tasks.py` | requests, custodies, watchdog, cascades |
| `TaskSupervision` | | their composition, fairness, properties |
| `TerminalDelivery` | `terminal_delivery.py`, `events.py`, `agent_task_pipeline.py`, `task_finalization.py` | the outbox and everything that writes to it; properties |
| `StateLock` | `platform_layer.py`, `state.py` | the lock file and the sections behind it; properties |
| `SkillLane` | `skill_lifecycle_queue.py` | lanes, lock file, dedupe, deadlines |
| `SkillSurfaces` | `extension_loader.py`, `extension_reconcile_queue.py`, `tools/skill_exec.py`, `skill_review_runner.py` | runners, markers, pickup, reload; properties |
| `UsageLedger` | `usage_ledger.py` | the file as its readers see it, after whole and broken appends |
| `UsageAccounting` | `usage_accounting.py`, `_usage_rows.py`, `gateways/claude_code.py` | the sections of a call, of a session, of the import; properties |
| `MCEvolution`, `MCTasks`, `MCDelivery`, `MCStateLock`, `MCSkills`, `MCUsage` | | instances for TLC, with the `.cfg` files named after their runs |
| `…Proofs` (eight) | | section 5 |

The exact lines of every definition are in the `map` of `PROJECT.json`. The six
families (evolution, tasks, delivery, lock, skills, usage) have disjoint
variables: where one relies on another it uses what the other promises, at the
granularity of the call. The evolution modules take a section under the state
lock as one step, which `StateLock` justifies as long as no lapse of the lock
happens; the task modules register an answer as owed in one step, which is the
first step of `TerminalDelivery`.

An action is one section of the code that no other process can observe half
done: a stretch under a lock, one file operation, one git operation, one signal,
or a stretch that touches only local data. Between two sections of a function a
program position moves on and everything else may run.

### Evolution

`camp` is the campaign file, `st` the evolution keys of `state.json`, `req` the
request file (0 when absent), `marker` the restart marker, `stale` the claimed
marker files whose process is gone; a live process holds its claim in its slot.
`head` and `pushed` are the sets of commits on the live branch and on origin:
commits are numbered in creation order, `Tip` is the largest, a reset removes
elements. `gen` is the custody session, which is new with each server. `q` is
where each evolution task stands (PENDING, RUNNING, or in the reaper with its
frozen decision), `evq` the in-memory events, `wk` the worker slots with their
program position, `sup` the supervisor's position between two sections and what
its local variables hold, `snap` the campaign read by `apply_pending_request`
before its unlocked write, `old` a `state.json` loaded by a rollback, `drain` a
deferred restart. `cnt` counts what the bounds cap, and `made` remembers who made
a commit, when: the two are history and guard nothing of the program. A
transaction's number stands for its transaction id and its task id; the code
mints both in one call.

* `apply_pending_request`: `ApplyDrop`, `ApplyTake`, `ApplyStart`, `ApplyRead`,
  `ApplyWrite`, `ApplyArm`, `ApplyDone`, `ApplyDisarm`, in that order;
* `verify_restart`: `BootObserve` (HEAD is read first), `VerifyRename` or
  `VerifyMiss`, then `MarkRestart` (with unlink or restore) or `Reconcile`;
* the reviewed commit: `Authorize`, `MakeCommit`, `PreTag`, `RecordReceipt`,
  `CheckPublication`, `Push`, each able to end in `Orphan`;
* a task terminal: `TaskDone`, `CleanUp` or `RequestOwnRestart`, `FinishDone`;
* `/evolve off` and the toggle: `OwnerStop`, `StopTasks`, `CloseCampaign`;
  `/evolve on`: `OwnerStart`, `StartOwned`, `SetFlags`;
* panic: `Panic`, `PanicClose`, `PanicExit`, while the other threads still run.
  It loads and saves `state.json` in two steps, but overwrites every modelled key
  except the failure count, so one step has the same effect;
* restart: `HandleRestart` or `DrainDone` decide, `SafeRestart` kills the pool or
  is refused, `Exit` ends the process. After a restart inside the dispatch loop
  that loop still drains its queue; after one from the drain it does not;
* a crash or an exit empties everything that lives in memory (`Down`), and
  `Boot` starts the next generation with the queue snapshot or without it.

`CampaignCycle` says the same from far away: a campaign is founded and closed; it
runs one cycle at a time, which is begun, committed at most once, and settled
once as absorbed, abandoned, no_op or owner_stopped, or left waiting when
its campaign closes. `EvolutionLifecycle` instantiates it with the four abstract
variables read off the campaign file and has to implement it (`ImplementsCycle`).

Abstractions. The supervisor loop runs its sections in a fixed order in each
round; the model lets it pick any that is enabled, which adds behaviours and
loses none. Events are a set: their order is abstracted, a duplicate `task_done`
is the replay case of `TaskDone`. `TripBreaker` and `Blocked` join a write of
`state.json` with one of the campaign by the same thread; the section of `Close`
joins the unlocked git cleanup with the locked archive, `Begin` joins
`git rev-parse HEAD` with the locked write, `RequestOwnRestart` joins the
authority check with the marker write: in each, the part joined on touches what
no concurrent section both reads and changes in that state. `EnvMayRefuse`
stands for runtime mode "light", an exhausted budget, a dirty worktree and a
refused restart; `BootMayReset` for a bootstrap that falls back to the stable
branch; `LockMayFail` for a state lock that is not free in time. The failure
counter saturates at the pause threshold. Two branches of
`update_evolution_campaign_after_task` have no case: a transaction with
`restart_verified` is never active, since the write that sets it archives it, and
legacy transactions without the current receipt are left out.

### Tasks

`result` is the status in `task_results/<id>.json`, `child` the one on a
subagent's own drive, merged by rank (`Written`: a settled status is never
overwritten). `intent` is the row of `cancel_intents.json`: scope, state, the
number of the request, the generation of its claim and the process that holds
it. `pending`, `running`, `fences` and `attempt` are the queue; `snapshot` its
file; `slots` the worker slots with process, busy task, incarnation, inbox and
the `reaping` mark; `jobs` and `reaper` the reaper; `custody[th]` and
`cascade[th]` what a thread is doing for a cancellation; `owed` the answers
registered in the outbox. `Parent`, `Root` and `Retry` are the fixed shape of a
tree and the id its timeout retry runs under. The fence and the sweep of a
cascade walk up a task's ancestry over queued and running rows, `_is_descendant_of`
over running rows only; `Ancestors` is that walk, for trees of any depth.

* a task's life: `Assign` (with the cancellation fence), `StartTask`,
  `ScheduleChild`, `FinishTask`, `EmitDone`, `HandleDone`, `HandleSchedule`,
  `DropPending` or `DropPendingFails`;
* death: `WorkerDies`, then `DetectCrash` (`ensure_workers_healthy`: requeue or
  failed terminal, respawn);
* timeout: `Timeout` claims slot and task; the reaper thread does `ReapTake`,
  `ReapKill` or `ReapWedged`, `ReapCheck`, `ReapWrite` or `ReapWriteFails`,
  `ReapRetry` or `ReapRetryFails`, `ReapRespawn` or `ReapRespawnFails`;
* cancellation: `RequestSingle`, `RequestCascade` (HTTP), `RequestByWorker`,
  `Watchdog`; a custody is `Claim`, `Capture…`, `KillWorker`, `Write…`,
  `RegisterOwed`, `Settle`, `Publish`, `Respawn`, with the failing form of each
  beside it (`…Fails`, `WorkerSurvives`, `WriteRefused`); `Miss` is the lane of a
  task that is neither queued nor running;
* the cascade: `CascadeBegin` (fence and snapshot), `CascadeSweep`,
  `CascadeMint`, `CascadeTake`, `CascadePost`, `CascadeSummary`, `CascadeClose`;
* `Crash`: a new supervisor, the queue from the snapshot.

`used` counts what the bounds cap and remembers, without guarding anything of the
program, where the code parts from what it promises (section 4): `struck`, the slots
that a timeout took although they were marked; `stranded`, the tasks that the slot of
a dead worker goes on naming after its respawn failed; `unread`, the subagents that
crash detection took for unfinished although they had settled their own result;
`adrift`, the tasks whose result a failed write or enqueueing of the reaper left
unsettled. A property that is false of such a slot or task excepts it by name, and
holds of all others beside it.

Admission limits, priorities, budget pauses, depth and dispatch leases only
decide which task `Assign` may choose; the model lets it choose any.

### Terminal delivery

`row[d]` says whether answer `d` is owed, which owed answers are older (the
order of the file matters only for the eviction), and its attempts. `delivered`
is the registry of sent ids, `cache` its copy in memory, `queue[d]` the copies in
the event queue. The worker goes through `RegisterFinalAnswerOwed`,
`StoreTaskResult`, `RegisterLive`, `PutLive`, `PutBuffered`; a rescue through
`RescueStart`, `RescueRegister`, `RescuePut`; the loop through
`HandleSendMessage`, `Send` or `SendRaises`, `RegisterDelivered`, and through
`ReplayRead`, `BumpReplayAttempts`, `ReplayPut`. `Disclose` reports rows that a
write dropped. `sends`, `stored`, `disclosed`, `silent` and `unconfirmed` are
history: what the owner got and was told, and which process died between a
locked write and its report.

### State lock

`lock` is the file: whose pid is in it and whether it is older than its stale
time. A process creates it exclusively (`Create`), finds it old and unlinks it by
path in a second step (`FindStale`, `UnlinkStale`), gives up (`ProceedUnlocked`),
reads and writes `state.json` and its copy (`Load`, `WriteState`,
`WriteLastGood`) and unlinks whatever file is there (`Release`). `load_state` and
`save_state` are two such operations with the copy kept between them. `lapses`
collects what the lock did not cover: a takeover of a fresh file, an unlocked
section, a save of an old copy, a recovery from the fallback copy.

### Skills

`SkillLane` has the calls with their position, the thread lock and dedupe table
of each process and the lock file: `Submit`, `EnterLane`, `LeaveQueue` (the
deadline), `TakeFile`, `GiveUpFile`, `ReleaseKey`, `LeaveLane`. `SkillSurfaces`
adds what a call runs: `SavesFlag`, then in the server `ServerReads`,
`ServerApplies` or `ServerRaises` with the revert of the flag, in a worker
`WorkerReconciles` and `Notifies` or `GoesUnannounced`; the pickup loop
`PollStarts`, `PickupReads`, `PickupApplies`, `PickupRaises`; `ReloadStarts`,
`ReloadReads`, `ReloadApplies`, `ReloadRaises` at boot and on a settings save;
`ServerRestarts`, `WorkerDies`, `Wedges`. A toggle in the server and the review
enter the lane; the agent's toggle takes only the file. `slip` names why a
surface may stay behind: its announcement was lost, or a reload applied a flag
that had changed since it was read.

### Usage

The ledger is represented by what a replay yields: the last row of each id
(`rows`), the same without a last line that lacks its newline (`whole`), and how
the file ends (`whole`, `bare`, `torn`, `corrupt`). `AfterFailure` is the set of
files an append of a batch may leave when it breaks off anywhere, including
after all of it. Each section of `usage_accounting.py` is one action: it reads
(`Look`, with the quarantine of a torn line), checks, and appends (`Appends`),
raises on an unreadable file or an illegal transition (`Refuses`), or fails
(`Fails`). A call is `Reserve`, `Dispatch` or `HitsLimit`, `Call` (the provider
answers or throws, at a charge), `Close`; a child's parent goes through
`Inspect` and `Close` when the child died (`Dies`); `Record` is a delegated
session, `Import` the one-time import with its watermark, `QuarantineDies` a
process that dies between keeping the torn line and cutting it. Rows are
identified by their id, costs are small integers, `Undisclosed` is a cost nobody
knows, `exact` says that a settled cost is final. A reservation is planned from an
estimate of the tokens, so a call may cost `MaxOverrun` more than was reserved for
it, and is then settled for what it cost (`usage_accounting.py` 490-494).

## 3. What the runs check

What each property says of the code stands above its definition. For each there
is a mutant, a plausible bug of the code under which TLC finds it violated; the
mutated forms stand before the definition they change and are used nowhere else.
The type invariants are proved rather than run; `TaskTypeOK` is both, as the one
that every task proof leans on. Failures are switched on a few at a time, each by
the run whose questions they threaten.
Deadlock is not checked: with its bounds used up and nothing asked of it, each
system is idle and nothing has to happen.

| Run | Instance | Properties | States |
|---|---|---|---|
| `Evolution_cycle` | two cycles, campaigns, generations, owner commands, promotions and ordinary tasks, one commit, one timed-out cycle; no crash | `StopLeavesNoWorker`, `StopFreezesCampaign`, `OneCyclePerPromotion` | 2 053 809 |
| `Evolution_crash` | a crash or worker death, a panic, a rollback's stale save, refused restarts and boots, reset at boot; a promotion, an ordinary task; one commit, three generations | `AbsorbedCountExact`, `StopNotOverruled`, `ImplementsCycle`, `AbsorbedOnlyAfterRestart`, `AbandonedOnlyIfLost`, `CommittedNotSuperseded` | 691 043 |
| `Evolution_failures` | a timeout, a crash, lock timeouts, a second slot (symmetric), a pause after the first failure; two owner commands, one commit | `OneExecution`, `ReceiptSurvives` | 2 831 242 |
| `Evolution_liveness` | fairness; one cycle, a timeout, three generations, two owner commands | `CommittedCycleLands`, `OwnerStopCloses`, `ReapedCycleResolves` | 3 082 |
| `Tasks_reaper` | fairness; one task with a retry under a new id, two slots, one cancel request, a death, a timeout, a fault (kill, write, enqueueing, respawn) and a crash, two of them together | `TaskTypeOK`, `NoTwoExecutions`, `NoTaskLost`, `RespawnReplacesDead`, `IntentOutlivesTask`, `IntentSettles`, `SlotComesBack` | 31 081 |
| `Tasks_cascade` | a root, a subagent it schedules, one slot, one HTTP thread, one request, and a death, a timeout or a fault (kill, write, enqueueing, registration, respawn) | `SlotHasOneOwner`, `NoTaskLost`, `CancelledIsStopped`, `RespawnReplacesDead`, `CascadeClosesDeadTree`, `CompletionWins` | 2 654 864 |
| `Delivery_outbox` | fairness; two answers, an outbox of one row, one replay, one rescue, one trouble (death, failed write or send, crash) | `DeliveredNotOwed`, `NeverLost`, `SentOnce`, `DebtEnds` | 325 000 |
| `StateLock_updates` | three processes (symmetric), three operations, two crashes, a stall, an unreadable file | `OneAtATime`, `NoLostUpdate` | 658 000 |
| `Skills_lane` | fairness; two calls for one skill, a worker and the server, markers of two attempts, one trouble | `KeyHeldOnce`, `SurfaceOwed`, `EveryRequestSettles` | 342 417 |
| `Usage_budget` | fairness; two calls of one tree with bounds 2 and 1, the second in a child, tree limit 2; a session of price 2 in another tree, global limit 3; three rows to import; a call may cost one more than its bound; one failed append | `ChargeCovered`, `SpendWithinLimits`, `AcknowledgedKept`, `HoldsEnd` | 134 020 |
| `StateLock_takeover`, `Usage_torn` | see section 4 | | |

**Why these bounds.** Two cycles let a stale one meet its successor, a second
generation is the restart and a third a restart after it. A task that times out with a retry under a new id needs one
task; a second slot lets the retry start beside a process that would not die; the
cascade needs a tree of two, since its rows concern a parent and one child, and
one slot, on which they follow each other; all the parties that may end a task then
meet on that slot. An outbox of one row is full with the
first answer and evicts with the second. Two processes lose an update, and a
third dies holding the lock. A key and a lane are contended by two calls, and two
markers of one skill are what the pickup loop can confuse. The bounds of the two
calls exceed the limit of their tree, the first call and the session that of all;
three imported rows make an append with a first, a middle and a last line, and one
more than its bound is what a call can cost that a settlement has to tell apart.

`OneCyclePerPromotion`, `AbsorbedOnlyAfterRestart`, `AbandonedOnlyIfLost`,
`ImplementsCycle`, `ReceiptSurvives`, `OwnerStopCloses`, `ReapedCycleResolves` and
`CommittedCycleLands` hold only without a circumstance that section 4 names: the runs
that pass leave that one circumstance out and keep the others. `StopLeavesNoWorker`
and the properties of tasks name theirs as exceptions and hold with every
circumstance the model has.

### Fairness

* Evolution (`FairSpec`): a process that can run does (weak fairness of a
  worker's own steps, the reaper, the middle of a supervisor section, panic,
  exit and boot: the launcher restarts a server that exits), and the supervisor
  loop, which visits all its sections every round, does not pass over one that is
  enabled again and again (strong fairness of assignment, terminals, restart
  requests, drain, respawn and the next cycle). A task that was started ends,
  because its deadline is enforced.
* Tasks (`Tasks_FairSpec`): worker, reaper and request threads go on (weak); the
  loop handles its events and finds dead workers (weak); it assigns, drops
  and runs the watchdog every round (strong).
* Delivery (`Delivery_Fairness`): loop, workers, rescues and reports go on
  (weak); a row that stays owed is due at one of the loop's visits (strong: the
  backoff is bounded). No send need ever succeed.
* Skills (`FairSpec`): a call goes on unless its runner is wedged, the pickup and
  reload loops come round (weak).
* Usage (`Usage_FairSpec`): a process that lives goes on, the provider answers or
  its client gives up, a parent notices the death of its child (weak).

Owner commands, promotions, requests, timeouts, deaths, failures and crashes are
never assumed to happen.

## 4. Disagreements found

Two are runs with one property that states what a comment or docstring says and
that TLC finds violated (`findings` of `PROJECT.json` quotes the lines).

| Run | What happens |
|---|---|
| `StateLock_takeover` | a holder dies; two waiters both see its lock file stale; the first unlinks it and creates its own, the second unlinks that fresh file: two `update_state` calls run at once and one update is lost, which `state.py` 211-213 rules out |
| `Usage_torn` | an append loses only the newline of its last row; readers accept that row; the next append lands on the same line, and the next reader moves both rows to the quarantine, although `usage_ledger.py` 277-279 wants the validated history preserved exactly |

The following have no run of their own: a change of constants of a passing run
makes TLC find them.

| Run and change | Violated | What happens |
|---|---|---|
| `Evolution_cycle`, `Panics = 1`, `EnvMayRefuse` | `OwnerStopDurable` | a blocked restart saves the `state.json` it loaded before a panic set its flags (`server.py` 2231, 2304); `post_task_evolution.py` 407-408 calls the flag durable, cleared only by an owner start |
| `Evolution_cycle`, `Reaps = 1` | `StopLeavesNoWorker` | a stop looks at PENDING and RUNNING; a task that is being reaped is in neither, so the campaign is closed over a live worker, which `server.py` 541-544 and 570-575 rule out |
| `Evolution_cycle`, `Crashes = 1` | `OneCyclePerPromotion` | a crash between settling the cycle and consuming the one-shot (`events.py` 1471) gives the promotion a second cycle; `post_task_evolution.py` 371-372 sets the mark so that it is one |
| `Evolution_crash`, `Owner = 1`, `MaxSha = 2`, `MaxReq = 0`, no panic or rollback | `AbsorbedOnlyAfterRestart` | a verified plain restart leaves the generation unstamped (`agent_startup_checks.py` 890); a respawned worker of the same server later absorbs a cycle without any restart, which the comments at 717-723 and 875 exclude |
| `Evolution_liveness`, `Crashes = 1` | `ReapedCycleResolves` | after a crash in the reap window no terminal of the task comes, and dispatch waits for it for ever; `task_reaper.py` 372-374 wants it "reconcilable on the next generation ... instead of vanishing into limbo" |
| `Evolution_liveness`, `Reaps = 0`, `Others = 1` | `OwnerStopCloses` | a deferred close is lost when a restart drops the terminal it waits for, which `events.py` 1340-1342 says always arrives |
| `Tasks_reaper`, `Clients = {c1}` | `SlotHasOneOwner`, `RespawnReplacesDead` | the timeout check (`queue.py` 1269) pops the task and marks its slot without looking whether a custody of an HTTP thread already owns it: both kill, and the second respawn replaces a live process; `task_lifecycle.py` 655-661 says "Exactly one owner kills, publishes and respawns" |
| `Tasks_reaper`, as it is | `CancelledIsStopped` | a cancel request during a reap finds the task neither queued nor running, takes the lane of a missing task and writes "cancelled" while the process is still alive; `task_lifecycle.py` 570-575 wants "confirmed death" first |
| `Tasks_reaper`, `MaxTimeouts = 0` | `CancelledIsStopped` | the respawn of a dead worker's slot fails, so that the slot goes on naming its task; the task runs again in another slot, a cancel captures the dead one, has nothing to kill and writes "cancelled" while the live one works (with a subagent and a second slot, `CompletionWins` goes the same way) |
| `Tasks_cascade`, `MaxDeaths = 1` | `CompletionWins` | a subagent settles its result on its own drive and dies before it reports; crash detection (`workers.py` 2676-2692) looks only at the supervisor's copy and queues it again, and a cancel then drops it with "cancelled" (2180-2186) without copying its result back, although `task_lifecycle.py` 994 and 1316 copy it first so that a completion wins |
| `Evolution_failures`, `Owner = 3` | `OneCycleInFlight` | a stop and a start while the first cycle is being reaped begin a second campaign and cycle; the reaper then queues the first one again, so that two are queued. Each is still executed once at a time (`ExecutedOnce`) |
| `Evolution_crash`, two workers, `Owner = 1`, `Others = 1`, `MaxSha = 2`, no failures | `AbandonedOnlyIfLost` | after a plain restart that leaves the generation unstamped, a slow second worker reconciles against the HEAD it observed at its boot, takes a commit made since for unreachable and abandons its cycle |
| `Evolution_crash`, `Others = 3`, `MaxReq = 2`, one cycle | `ImplementsCycle`, `ReceiptSurvives`, `PublishedHasReceipt` | the stale save of a rollback raises the flag again while `apply_pending_request` holds its copy; a worker is admitted, commits and records its receipt, and the write of the whole copy drops it. The theorems of section 5 show that nothing else can |
| `Delivery_outbox`, registry and cache of one id | `SentOnce` | an id ages out of the registry, and a late copy of its answer is sent again; with at most as many answers as the registry holds (512 in the code) this is excluded by proof |

`CommittedCycleLands` names two circumstances as outcomes. Without `cnt.owner > n`
TLC shows that a start in the new generation before its first verification
makes the restart look like a respawn (`agent_startup_checks.py` 935 against
936-937). Without `cnt.reap + cnt.crash > 0` and with `Crashes = 1` it shows that
a respawned worker may hold the marker for a moment in which the supervisor
cancels the restart as lacking its receipt, and nothing requests it again.

Two more came up earlier with properties since retired in favour of deeper ones:
a second promotion relinks the campaign whose first cycle still waits for its
restart, so that absorbing that cycle closes the wrong backlog item
(`post_task_evolution.py` 462 against 440-442); and the cleanup of a cycle resets
the branch past the published commit of an ordinary task that ran and ended
during the cycle (`evolution_lifecycle.py` 712 against 669-670 and 718).

**Smaller observations**, met while translating:

* a plain restart marker stamps the generation when a cycle waits for another
  one; with `Others = 1` a reaping cycle then waits for the restart after next;
* rows that an outbox write drops (eviction, exhaustion) are reported after the
  write; a death in between loses them silently (`silent` in `NeverLost`);
* crash detection never clears the busy task of the slot it found dead. When the
  respawn fails (`workers.py` 2587-2593), the task is queued again, runs in
  another slot, and the next health tick pops it from RUNNING by the stale busy
  task of the dead slot without comparing the worker (2649-2650): its retry is
  written as failed and announced while it runs. The slot proof found this: what
  RUNNING says of a slot is always its busy task, but not the converse
  (`SlotOK`), and TLC reaches it in seven steps of `Tasks_reaper`;
* `send_with_budget` ignores the result of its markdown attempt, so a failed
  send may be registered as delivered;
* the postcondition of a cascade does not see a child that is in a custody's
  hands at that moment (hence `HasIntent` in `CascadeClosesDeadTree`);
* a server toggle whose reconcile raises elsewhere, a worker that dies between
  saving the flag and leaving its marker, and a marker that cannot be written
  leave the surface stale with nobody to bring it up to date; a settings save
  applies flags it read before it held the skill's lock (`slip`);
* the agent's `toggle_skill` waits for the lock file without a deadline, which the
  docstring of `_lifecycle_deadline_sec` (`skill_lifecycle_queue.py` 193-199) means
  to end;
* a child's row that went with a bare line may be seen as "reserved" by its
  parent, which then releases a call that was charged (`lost` in `ChargeCovered`);
* `refresh_root_accounting` may overwrite a newer stash with an older projection,
  while `last_root_accounting` says that it "tracks the ledger fence exactly".

## 5. What is proved

For all values of the constants that satisfy the named assumptions of the
modules, with every kind of failure allowed, TLAPS checks the following. A
hypothesis beyond that stands before the colon or left of the arrow. TLC shows each
to be needed (section 4), but for two: a ledger is finite anyway, and `NothingLost`
takes over the hypothesis of the slots it argues from.

| Module | Theorem | Statement |
|---|---|---|
| `EvolutionLifecycleProofs` | `Invariant` | `Spec => []IInv` |
| | `TypeCorrect` | `Spec => []TypeOK` |
| | `AbsorbedCountCorrect` | `Spec => []AbsorbedCountExact` |
| | `ArchivedStays` | `Spec => ArchivedStaysArchived` |
| | `ReconciledOnce` | `Spec => ReconciledOncePerGeneration` |
| | `ClosedStays` | `Spec => ClosedIsTerminal` |
| | `CycleInvariant` | `Spec => [](IInv /\ CycleOK)` |
| | `CommittedKept` | `Spec => CommittedNotSuperseded` |
| | `StopFreezes` | `Spec => StopFreezesCampaign` |
| | `ImplementsCycleGuarded` | `Spec /\ []FlagOff => ImplementsCycle` |
| | `ImplementsCycleProved` | `Stales = 0`: `Spec => ImplementsCycle` |
| | `ReceiptsSurviveGuarded` | `Spec /\ []FlagOff => []ReceiptSurvives` |
| | `ReceiptsSurvive` | `Stales = 0`: `Spec => []ReceiptSurvives` |
| | `PublishedGuarded` | `Spec /\ []FlagOff => PublishedHasReceipt` |
| | `PublishedReceipts` | `Stales = 0`: `Spec => PublishedHasReceipt` |
| | `ExecutedOnce` | `Spec => []OneExecution` |
| `StateLockProofs` | `StateLockTyped` | `Lock_Spec => []LockTypeOK` |
| | `StateLockExcludes` | `Lock_Spec => []OneAtATime` |
| | `StateKeepsUpdates` | `Lock_Spec => []NoLostUpdate` |
| | `FallbackFollows` | `Lock_Spec => []LastGoodFollows` |
| `TerminalDeliveryProofs` | `DeliveryTyped` | `Delivery_Spec => []DeliveryTypeOK` |
| | `DeliveredIsNeverOwed` | `Delivery_Spec => []DeliveredNotOwed` |
| | `AnswersNeverLost` | `Delivery_Spec => []NeverLost` |
| | `SentOnceIfRemembered` | for each answer `d` that the registry does not push out: sent twice only if `d` is in `unconfirmed` |
| | `SentAtMostOnce` | `Cardinality(Answers) <= RegistryCap`: `Delivery_Spec => []SentOnce` |
| `TaskSupervisionProofs` | `SupervisionInvariant` | `Tasks_Spec => []TaskInv` |
| | `TaskTyped` | `Tasks_Spec => []TaskTypeOK` |
| | `SettledForGood` | `Tasks_Spec => OutcomeSticks` |
| | `CancelLasts` | `Tasks_Spec => IntentOutlivesTask` |
| | `CascadeClosed` | `Tasks_Spec => CascadeClosesDeadTree` |
| | `SlotsOwnedGuarded` | `Tasks_Spec /\ MarksHonoured => []SlotHasOneOwner` |
| | `RespawnGuarded` | `Tasks_Spec /\ MarksHonoured => RespawnReplacesDead` |
| | `SlotsOwned` | `Clients = {}`: `Tasks_Spec => []SlotHasOneOwner` |
| | `RespawnOfDead` | `Clients = {}`: `Tasks_Spec => RespawnReplacesDead` |
| `TaskExecutionProofs` | `OneExecutionAtATime` | `Tasks_Spec => []NoTwoExecutions` |
| | `NothingLostGuarded` | `Tasks_Spec /\ MarksHonoured => []NoTaskLost` |
| | `NothingLost` | `Clients = {}`: `Tasks_Spec => []NoTaskLost` |
| | `CancelledStoppedGuarded` | `Tasks_Spec /\ MarksHonoured /\ [][RecoveryForks]_taskVars /\ [][MissIsDead]_taskVars => []CancelledIsStopped` |
| | `CompletionWinsGuarded` | `Tasks_Spec /\ MarksHonoured /\ [][RecoveryForks]_taskVars /\ [][ResultSeen]_taskVars => CompletionWins` |
| `SkillSurfacesProofs` | `SkillsTyped` | `Spec => []SkillTypeOK` |
| | `KeysHeldOnce` | `Spec => []KeyHeldOnce` |
| | `SurfacesOwed` | `Spec => []SurfaceOwed` |
| `UsageAccountingProofs` | `UsageInvariant` | `Usage_Spec => []UsageInv` |
| | `UsageTyped` | `Usage_Spec => []UsageTypeOK` |
| | `ChargesCovered` | `Usage_Spec => []ChargeCovered` |
| | `RowsKept` | `Usage_Spec => []AcknowledgedKept` |
| | `SpendStaysWithin` | `IsFiniteSet(Ids)`: `Usage_Spec => []SpendWithinLimits` |

**Evolution.** Neither the count nor the archive property is inductive, because a
section may write back a campaign that was read long before (`snap`). `IInv` has
three parts. `SystemOK` types every variable but the two campaigns, with what the
worker phases and the supervisor's position say about their slots. `CampaignOK`
holds of a campaign by itself, of `camp` and of `snap`: the ids in its history
belong to cycles that were begun, none is that of the active transaction, the
absorbed rows are finitely many and have no cleanup pending (so that a cleanup
never touches one), and `absorbed_count` is their number. `SnapOK` relates `camp`
and `snap` while the supervisor stands between its unlocked read and its write:
the running generation is reconciled in both, so no worker section can archive
the active cycle in between, and the copy either has the history, the status and
the active id of the file, or the file was closed meanwhile and refuses the copy.
The generation is reconciled because `start_evolution_campaign` stamped it just
before the read: that stamp is what makes the unlocked write safe, and the mutant
that drops it (`StartCampaign_NoStamp`) breaks the property.
`EvolutionSystemProofs` has, for each section operator, a lemma that it keeps
`CampaignOK` (`XxxOK`) and one that says which fields it changes (`XxxFields`),
and shows that each action keeps the types;
`EvolutionLifecycleProofs` groups the actions by what they do to `camp` and
`snap`, proves `IInv` inductive group by group, and derives the action properties
from the same case analysis (`NextStep`). `ReconciledOnce` is the fact that the
archive and the closing rest on.

*The cycle.* `CycleOK` adds that a transaction waits for a restart only with a
commit, that one exists only in a live campaign, and that the copy held by
`apply_pending_request` misses at most the commit of the cycle in flight. From it
every step is one of the moves of `CampaignMove`, which gives `CommittedKept` and
`StopFreezes`, and nearly the refinement: the one step that is none of
`CampaignCycle` is the write of a copy that lacks a commit recorded since it was
read. A worker records a receipt only while `evolution_mode_enabled`, and the
promotion raises that flag only after its write (`ApplyArm`): hence `FlagOff`, the
flag is down while the copy is held, under which the copy is exact (`ExactCopy`).
Among all other parties only the stale `save_state` of a rollback can raise the
flag in that window; without one `FlagStaysOff` proves `FlagOff`. The two
receipt properties stand under the same hypothesis and need besides that
a commit is made once, by one worker, under the id of its campaign (`MadeOK`).

*Executions.* `ExecOK` says of each worker that executes a cycle, or died doing so,
that nobody else has that cycle, that the queue does not offer it and that its
terminal is not on its way, and of ids not yet handed out that nothing knows them.
A stop, the reaper, a respawn, a restored snapshot and the boot each let go of
exactly one of these. There is no hypothesis: also where section 4 shows two
queued cycles, each of them is executed once at a time.

**State lock.** Exclusion is inductive once it says why: as long as nobody took
over a fresh file or went in without one, every process between acquisition and
release has a descriptor and the file names it (`HolderOwnsFile`). From that
follows that the copy of an updating writer is the current file until it
writes (`WriterIsCurrent`), and from that that no update is lost. The fallback
copy is at most the one write behind that its writer is about to make.

**Delivery.** `DeliveryInv` adds to the two properties that only what went out is
recorded (`RecordsAreSends`), that a row dropped by the loop is in its hands until
reported (`LoopReportsDropped`), and that an answer is in somebody's books from
its first registration on, not only once its result is stored
(`OwnedIsAccounted`). The last is needed because the store does not look at the
outbox: what makes it safe happened one step before. `OnceInv` is about one
answer: what went out is in the registry, about to be, or unconfirmed, and the
loop holds nothing to send that the registry lists. It is inductive for any cache
and any outbox, in every step that does not push the id out of the registry; a
registry that never repeats an id (`NoRepeats`) and has room for all of them
pushes none out.

**Tasks.** `TaskInv` has four parts. The types say where only a task with a result
row can be: in the queue, a slot, an event, a job, a custody, a cascade.
`Lineage` says that the ancestors of such a task have rows as well; a child gets
its row after its parent, a retry after the task it repeats. `IntentKnown` says that only such
tasks are asked to be cancelled. `CustodyInv` says what a thread in the middle of
a cancellation can rely on while everything else moves: its task is handled, that
is settled or asked to be cancelled (`CustodySound`), and its cascade has fenced
the root and, once past the postcondition, has found it settled and `Sealed`: all
that is queued below it is handled (`CascadeSound`). `Carried` is what makes this
stable and the heart of the proof: handled tasks stay handled, since an intent
goes only with an outcome and an outcome never changes; and a fenced task stays
sealed. For the latter, what is queued anew is not fenced, so it is not below the
root; or it is handed back by a custody, and handled. And since the walk up the
ancestry only passes rows in RUNNING, a task may also come to be below the root
because a task between them starts to run: but assignment takes no handled task,
and what the new row lets one reach was reachable from that row (`OneMoreRow`).
That is why the fence has to walk the whole ancestry and the assignment has to
look at the intents. A crash of the supervisor ends all threads and with them
what they relied on. `IntentOutlivesTask` and `CascadeClosesDeadTree` follow.

*Slots.* `SlotOK` relates a slot to whoever has taken it: a custody past its
capture, the reaper, a waiting job or the respawn of the crash detector finds the
slot marked, with the process it saw, dead from its kill on, and has it alone; a
marked slot has one of them, unless a fault left it marked; and what RUNNING says
of a slot is its busy task. `OldClaims` says that a claim from before a crash is of
a task that no slot has, so that the branch of a capture that takes over such a
claim never meets a marked slot. One step does not keep `SlotOK`: the timeout
check (`queue.py` 1269), which does not look at the mark. `MarksHonoured` says that
it does, and is the only hypothesis; so that missing test is all that stands
between the code and these two properties, whatever dies, fails, times out or is
cancelled, in any tree and any number of slots and threads. If only the loop
carries out custodies (`Clients = {}`), which does so in one go between two
timeout checks, `LoopRespectsMarks` proves it.

*Executions of tasks.* `ExecInv` says that a task is in line at most once (queued,
handed back by a custody or announced: `Single`, `AnnouncedOnce`), and not while a
process executes it (`LineNotLive`), and that two processes never have the same one
(`OneProcess`). The hard part is the retry after a timeout, which is decided by the
timeout check, and carried out by the reaper after it has killed the worker and
checked for a late result. A job that will retry has therefore its task to itself
from the decision on (`Vow`, `Pledges`, `OnePledge`): it is in no line, and no slot
but the one to be killed can touch it. This holds because a task on its first
attempt is touched by the slot RUNNING names and by no other (`FirstAttempt`). The
id of a retry is nowhere until it is queued (`RetryReady`), and the original is over
from then on (`GaveWay`). `RetryAssumption` is what the code does with ids: each
retry gets a fresh uuid (`queue.py` 1291-1292), so no two tasks share one, and a
second attempt is the last, so it has no retry of its own. A scheduled child gets a
new id too (`control.py` 1713), hence is none of these. There is no other hypothesis:
also where section 4 shows two owners of a slot, a task runs once at a time.

*Nothing lost.* `Held` lists the hands a task without an outcome may be in, and
`NoneLost` says that it is in one as long as the supervisor has not crashed: the
property, arranged for the proof. Each step that takes a task out of some hands must
put it into others, for which `LostInv` says what the other actors rely on: a task
reported done is over, but for a subagent whose own result is yet to be copied back
(`DoneIsOver`), the reaper and its jobs attend to a task that neither runs nor is in
line, one job for each (`AttendedRests`, `OneJob`), a task whose retry has a row is
attended to no more (`RetriedOver`), and the slot of a running task has its work, or
is dead, until it has reported (`AtWork`). A worker whose kill failed keeps its slot
and its task. The proof needs `SlotOK`, and with it `MarksHonoured` or
`Clients = {}`: two owners of one slot can each take the task of the other for theirs.
The retry id counts as held by the reaper until it has a row. Crashes are left out by the
property itself, since the recovery after one is what `IntentSettles` and the boot of
the evolution modules are about.

*Cancellations.* Section 4 shows how a cancellation goes wrong: a respawn after a
death that fails (`RecoveryForks` rules it out), a task taken for missing during a
reap (`MissIsDead`), a worker that dies between the result of its subagent and its
report (`ResultSeen`). The theorems say that nothing else can: each assumes, besides
`MarksHonoured`, the first of these and the one of its own property, and neither
bounds the deaths, timeouts, other faults, crashes or requests. `CancelInv` says that
a slot which names a task is the only one that has to do with it, the task being in
line again only while that slot is recovered (`BusyAlone`), that a task to be retried
is in no slot (`RetriesIdle`), and that a custody which kills a worker has the task to
itself until it writes (`Alone`). `OutcomeCancelled` lists who writes "cancelled": the
drop of a queued task, a custody that took it from the queue, one that killed its
worker, one that missed it. The first two find the task in line, the third alone; in
each case no process has it. `Finished` says that a subagent which has settled its own
result is in no line, will not be queued again, and is not about to be written over.
It needs that only a worker that executes a task completes it (`ChildMoves`).

**Skills.** `SkillInv` has the lane (`LaneInv`: who holds the file is in its
runner and nobody else is; an active review holds the entry of its key although a
finished one may have been replaced), the markers (`MarkerInv`: a marker stands
only for a call past its runner, the loop lists only pending ones it has not
reached, and the retries are not used up), and the two facts that make the
surfaces right: a reconciliation by a call of the server has read the flag as it
is (`LoadingReads`, since nobody writes the flag while that call holds the file),
and a flag that the pickup loop read too early has been announced by another
marker since (`PickupIsFresh`): this is why the loop must remove the marker it
read and no newer one. `AllSettled` is `SurfaceOwed`, arranged for the proof.

**Usage.** The invariant says of the file that only a bare last line makes a
reader see a row that is not followed by its newline, and that rows which went
have left a trace (`FileOK`); of a call that its row, or the settlement on its way,
claims no less than was charged (`Honest`), and that where its owner stands tells
what its row is unless it went with a bare line (`CallInv`); of the other kinds
that who was told so finds them settled (`RowInv`). The lemmas `AppendedFile` and
`FailedFile` say what a whole and a broken append do to any file, and
`SectionLooks`, `SectionAppends`, `SectionFails`, `SectionRaises` reduce each
action to them.

*The limits.* `SpendInv` says that what the rows of the calls of known cost count,
summed over a tree or over all, is within the limit, and that a settlement on its
way claims no more than the bound (`DuesCapped`). A reservation is appended in the
section that compared the sum of all rows with the limit (`ReservedFits`); every
other section leaves a call counting for what it did, or for less, or no more
(`SectionShrinks`, `ShrunkFits`): a settlement replaces the bound by at most the
bound. Since a row counts at least what was charged (`ChargeCovered`), the charges
are within the limits too. The sums are those of the community modules, for which no
facts come with the prover. They are proved here from `WFMin` of the library:
naturals have a least element (`LeastNumber`), so a claim about all subsets that
fails has a smallest exception (`SmallestSet`, `NoneBelow`), and taking an element
out of that leads to a contradiction (`SumExists`, `SumsAgree`, `TotalWithout`,
`TotalGrows`). The hypothesis is that the set of ids is finite, as any ledger is.

**Only model-checked.** Liveness, since fairness and ENABLED are out of the
prover's reach. `StopLeavesNoWorker`, `OneCyclePerPromotion`, `OwnerStopDurable`,
`AbsorbedOnlyAfterRestart`, `AbandonedOnlyIfLost` and `OneCycleInFlight`, which
section 4 shows to hold only without a certain circumstance; theorems about them
would have to exclude it, as those about cancellations do.
`NoEnableWhileStopped` is no theorem of the code: a failed start that restores its
captured flag and a stale rollback can break it with more commands than the run
has. And all findings.

## 6. What is not modelled

* **Evolution:** reviews and model calls (a worker may commit or give up), message
  texts, owner reports and their single slot (`evolution_lifecycle.py` 857), history
  caps of fifty rows, kill-switch environment variables, worktree content other
  than commits, the tag itself, other branches. Known windows left out, each a
  shorter form of one that is modelled or outside the promise of a property: the
  unlink of a request that was replaced while it was applied
  (`post_task_evolution.py` 482), a stop between the publication check and the push
  and a crash between commit and receipt (`git.py` 2095, 2283), the load and save
  around `git rev-parse` in `checkout_and_reset` (`git_ops.py` 1127).
* **Tasks:** rowless tasks and direct chat, the crash storm breaker, `kill_workers`,
  a restart by `execvpe` (which keeps the pid that claims are checked against),
  a retry under a new id after a settled cancel, budget pauses, leases and depth
  limits, scheduled tasks, retention of settled intents, the cap on the fence table
  (`_prune_cancellation_fences` spares the fences of cascades under way), and the
  bound of 25 or 100 hops on a walk up the ancestry.
  `_recover_stranded_reaping_slot` is left out: it wants a slot marked in memory
  whose claimant is another, dead process, and the marks of a process die with it
  (only a pid that cannot be probed, with a claim past its age, gets there).
* **Delivery:** rendering, images, the owner report of exhausted rows, the chat
  transport beyond "sent or raised".
* **State lock:** the budget keys; the other lock of `platform_layer`.
* **Skills:** the content hash in the dedupe key, marketplace jobs, companions,
  dispatch over the web socket, extension health, the registries inside workers,
  heal mode.
* **Usage:** the budget fence of the queue snapshot (read outside the lock), the
  incremental reader and its caches, the stash of a root's sum, lock timeouts
  (see `StateLock` for what a takeover does), pricing and attribution, a single
  last row that is JSON but invalid. Two assumptions: the charge of a priced call
  is at most its reserved bound (the estimator is linear and no strict upper
  bound), and the kill of a child succeeds before its parent closes the call.
* **Lite plugin:** sequential and without locks; two tasks that end together may
  lose a count of the every-N counter (`promotion.py` 39), and a closed item that
  recurs is appended again under its id (`backlog.py` 49). Worth a module of its
  own, after what concurrent parts are left.
* **Everything else** in `PROJECT.json` with status `not_modelled`: I/O, prompts,
  rendering and conversation with model providers, which have no protocol state.

## 7. Plan

Done: the evolution lifecycle with its proofs and its abstract cycle; tasks,
reaper and cancellation; terminal delivery; the state lock; the skill lane and
surfaces; the usage ledger and its accounting. Left, in this order:

1. **Proofs of what is modelled.** `StopLeavesNoWorker` and `OneCycleInFlight`
   with the circumstances of section 4 as hypotheses, as was done for the slots and
   the cancellations.
2. **Lite improvement loop and the improvement backlog:** fingerprints,
   recurrences, closing by id, the counter with concurrent tasks, the request file.
3. **Project leases; managed update and merge.**
4. **Delegation custody and the join ledger:** processes delegated by a task, their
   settlement when either side dies.
5. **Readers of the ledger:** the rows memo and the render cache against the file
   they summarise.

New runs take the place of runs whose question a theorem has settled.
