# nexus-arc in TLA+

nexus-arc drives AI agents through the steps of a workflow that belongs to an
issue. A submitted task becomes an issue with a workflow; an agent works on one
step, writes a completion (a file or a structured issue comment) and exits; the
framework picks the completion up, advances the workflow and launches the next
agent; after the last step the work is proposed as pull requests, merged, and the
issue is closed. This directory models three layers of that:

* *which step runs next, exactly once*: the workflow engine and the state plugin
  that applies completions to it;
* *which agent processes exist*: the launches, retries and kills by which the
  processes of a host keep one agent at work on the RUNNING step;
* *what becomes of a request*: the inbox queue, the dispatch of tasks, the
  finalisation of workflows, the merge queue and the webhooks.

Source paths below are relative to `src/`. `PROJECT.json` maps every definition
to the lines it translates.

## 1. Inventory

### 1.1 Parts that carry the core logic

| Part | State it keeps | Operations | Hard behaviour | What makes it correct |
|---|---|---|---|---|
| Workflow engine (`nexus/core/workflow.py`, `nexus/core/workflow_engine/`) | the stored workflow: state, `current_step`, per step status, `iteration`, `retry_count`, outputs | create, start, pause, resume, cancel, `complete_step` (retry, `on_success`, routers, conditions, loop guard) | every operation is load, change, save of the whole record without a version check; feedback loops; crash before the save | exactly one step in hand until the end; loops and retries bounded; ended workflows stay ended |
| State plugin (`nexus/plugins/builtin/workflow_state_engine_plugin.py`) | one lock per workflow and plugin object | `complete_step_for_issue`, start/pause/resume, `reset_to_agent_for_issue` | threads of one process, several processes, operators that take no lock | a report advances the workflow once; a suppressed report has taken effect |
| Idempotency ledger (`nexus/core/idempotency.py`) | set of event keys, in memory and in a file | `is_duplicate`, `record` | file written after the workflow, write failures ignored | only applied events are in it |
| Completion keys (`nexus/core/completion.py`) | none | `build_completion_step_dedup_key` | no iteration in the key | different completions have different keys |
| Process orchestrator (`nexus/core/process_orchestrator.py`) | dedup set, alert sets, miss counters | completion scan, stuck and dead agent detection, chaining | comment, dedup, launch are separate steps that may each fail; stale tracker snapshots | the RUNNING step is served; finalised once; hung agents are stopped |
| Agent runtime, retry fuse, launch guard, launcher (`nexus/core/runtime/`, `nexus/core/guards.py`) | launched-agents tracker with fuse counters, launch times | `should_retry`, `launch_agent`, `invoke_ai_agent`, guard check and record, recovery and quota watchdogs | windows, read-modify-write of one document, checks and spawn apart; pgrep knows some tools and may fail | bounded relaunches, one agent per issue |
| Control, continue, recovery of orphans, comment webhooks (`nexus/core/runtime/workflow_commands.py`, `nexus/core/workflow_runtime/`, `nexus/core/webhook/comment_service.py`) | none | pause, resume, kill, stop, continue, author override | run beside the passes, in other processes | a second agent only where somebody asked for one |
| Startup recovery, reconcile (`nexus/core/startup_recovery.py`, `nexus/core/workflow_runtime/`) | none | apply reports without launching or finalising | one before the scan sees the report, one beside it in another process | the same completion is not applied twice, and what follows a completion is done |
| Inbox queue (`nexus/core/integrations/inbox_queue.py`) | table of tasks | enqueue, claim, done, failed | look, insert and commit apart, workers that die, marks that fail | a task is not worked on twice, and every row is settled |
| Task dispatch, issue lifecycle (`nexus/core/task_dispatch.py`, `nexus/core/issue_lifecycle.py`) | none (the platform's issues) | refine, find or create the issue, create and start the workflow, launch | lost answers and labels, a failure after each step | one issue per request; a workflow is not started over |
| Finalisation and worktrees (`nexus/core/issue_finalize.py`, `nexus/plugins/builtin/workflow_policy_plugin.py`, `nexus/core/workspace.py`) | branches, worktrees | find, create, bring up to date and validate pull requests; clean up; enqueue | failures per repository; three processes look at worktrees and then remove them by force | no uncommitted work is removed, but that of an agent launched between look and removal; nothing is left behind |
| Merge queue, host state (`nexus/core/merge_queue.py`, `nexus/core/state_manager.py`) | JSON documents | enqueue, update, auto-merge pass, buttons | read-modify-write, crash while merging | only approved pull requests are merged; what is pending is tried |
| Webhooks of pull requests and issues (`nexus/core/webhook/pr_service.py`, `issue_service.py`) | none | pull request opened, merged; issue opened, labeled, closed | lost events, issue numbers of several repositories, the dispatch's own issues | an issue is closed only by, or after, the merge of one of its own pull requests |
| Rate limiter (`nexus/core/rate_limiter.py`) | request times | check, record, check and record | window edge, two backends | never more than the limit per window |

### 1.2 The other parts

Listed in `PROJECT.json` with the reason they are left out, or for which part
they are in: definition loader (YAML to steps), event bus, storage serialisation,
AI providers, the REST side of the git platforms, notifications and chat
adapters, command handlers and their texts, authentication and onboarding,
feature ideation, users, approvals and reports, configuration, translators,
transcription, the rate limiter. They are I/O, text or small stores without
interleaved state. The repository's size (about 63,000 lines of Python under
`nexus/`) is mostly these.

### 1.3 How they interact

```
 users, webhooks --> inbox queue --claim--> dispatch --> issue, workflow, first agent
                                                              |
 agents --completion files, comments--> scan / startup recovery (processor)
   ^                                    reconcile               (bot)
   |                                          |
   |                            complete_step_for_issue  (lock, ledger)
   |                                          |
   |     operators --pause, resume,--> WorkflowEngine  -- load / save --> storage
   |                 continue (rewind)        |
   +-- launch <-- chain, stuck, dead, orphan passes      after the last step:
       (guard, fuse, tracker)  ^              |          finalise --> pull requests
                               |              +-->       enqueue  --> merge queue
        webhook comments, bot commands                   merge    --> close the issue
```

| Process | What it runs |
|---|---|
| processor (`examples/nexus-bot/src/inbox_processor.py:567,849`) | one thread that drains the inbox, scans, handles stuck, dead and orphaned steps and merges, in turn; watchdog threads of the agents it launched |
| bot (`nexus/core/workflow_runtime/workflow_ops_service.py:211`) | commands, reconcile, buttons of the merge queue, finalisation through `/continue` |
| webhook server (`examples/nexus-bot/src/webhook_server.py`) | comments that launch agents, pull requests that were opened or merged, issues that were opened, labeled or closed |

Storage, the ledger file, the tracker, the merge queue and the inbox table are
shared; plugin objects, locks, launch guards, the dedup set and the alert sets
belong to one process; the dedup set is saved after each scan and loaded at the
start (`inbox_processor.py:362-380`).

## 2. Modules

| Module | Contents |
|---|---|
| `WorkflowEngine` | the engine: state, one action per operation and per turn of the advance loop |
| `WorkflowLifecycle` | the abstract specification: one step in hand, handed over until the end |
| `WorkflowEngineProps` | type invariant, safety, inductive invariant, refinement, fairness, liveness |
| `MCWorkflowEngine` | two workflow definitions for TLC |
| `WorkflowEngineProofs` | TLAPS proofs for `WorkflowEngine`, the refinement of `WorkflowLifecycle` included |
| `StepCompletion` | the plugin, its lock and ledger, operators, failures and restarts, composed with `WorkflowEngine` by EXTENDS |
| `StepCompletionProps` | exactly-once and loss properties of completions |
| `StepCompletionProofs` | TLAPS proofs for `StepCompletion`, any deployment |
| `SerialCompletionProofs` | TLAPS proofs for one process without interventions |
| `MCStepCompletion` | deployments and event naming for TLC |
| `AgentLaunch` | agent processes, tracker, launch guards, fuse, launches and watchdogs |
| `ProcessOrchestrator` | the processor's passes over completions, timed-out, dead and orphaned steps, and its restart |
| `AgentControl` | commands and comments from the bot and the webhook server; composes the three |
| `AgentControlProps`, `MCAgents` | properties of agents; instance for TLC |
| `AgentControlProofs` | TLAPS proofs: types, one agent at a time, enough pids |
| `AgentRetryProofs` | TLAPS proofs: retries, their bound, finalisations |
| `InboxQueue` | the table of tasks: enqueue, claim, settle |
| `TaskDispatch` | a task becomes an issue with a workflow and an agent; the task of an existing issue launches one |
| `MergeQueue` | the queue's document, the merge pass, the buttons |
| `IssueFinalize` | finalisation per repository, worktrees, enqueueing |
| `IssueDelivery` | composes the four with the webhooks, crashes and users |
| `IssueLife` | the abstract specification: the life of an issue |
| `IssueDeliveryProps`, `MCDelivery` | properties of the delivery; instance for TLC |
| `DeliveryQueueProofs` | TLAPS proofs: rows, issues and workflows of submitted tasks |
| `DeliveryMergeProofs` | TLAPS proofs: approval, worktrees, work left behind, the refinement of `IssueLife` |

### 2.1 WorkflowEngine

* `store` is the row in storage; `mem[c]` is the copy an operation of caller `c`
  works on; `pc[c]`, `nxt[c]`, `ctx[c]` are where it is, the local `next_step` of
  `advance_after_success`, and what its conditions see.
* An operation's first action loads, checks and changes the copy; `Save` writes
  the copy back as a whole; `Abort` is a crash, or storage that raises, before
  the save. The load and the change are one action, because nothing is shared
  between them; the save is another one, which is where callers overwrite one
  another.
* `complete_step` is `CompleteStep` (store the report, `final_step`,
  `on_success` or the next number), then one of `AdvanceThroughRouter`,
  `AdvanceToStep`, `AdvancePastStep`, `AdvanceToEnd` per turn of the loop, then
  `Save`. With an error it is `FailStep`.
* `Goto` is the `try: reset_step_for_goto` of both of its call sites: at the
  limit the workflow is FAILED (`workflow.py:274-279`), with what was changed so
  far kept.
* Data: step names are numbers (0 is a name that resolves to nothing); an
  agent reports one verdict under one key, `NoVerdict` is a report without the
  key; a condition is the set of verdicts that make it true. A condition that
  raises counts as true, a route that raises as false
  (`condition_eval.py:7-30`). Timestamps, audit, events, prompts, backoff times
  and callbacks are left out; nothing in the engine reads them back.
* `Reattempt` is a user of the library calling `get_runnable_steps`; it has no
  caller in the repository.

### 2.2 StepCompletion

* `Enter` takes the process's lock; `AutoStart` starts a PENDING workflow;
  `Accept` is the first load with all checks and the ledger's `is_duplicate`;
  `Refuse` covers the early returns and the raised stale errors; `CallEngine` is
  the second load, inside `engine.complete_step`; `EngineSteps` and `EngineSaves`
  run the engine; `Record` is `ledger.record` and the release of the lock.
* A report is (step, verdict); agent and step id are functions of the step. It
  stays readable for ever and may be delivered under the event ids that
  `EventsOf` gives the process: a completion file under the step's key, a
  comment under its id, a reconcile under none.
* `Intervene` covers the operators' start, pause, resume and rewind; `/stop` kills
  the agent and pauses (`nexus/core/runtime/workflow_commands.py:282`), and no
  command calls `cancel_workflow`, which is the engine's alone. They take no lock. `Raises` ends a call anywhere; `Restart` loses a process's
  calls, lock and ledger in memory.
* `applied` is a history variable: keys of completions that were saved.
* Merged on purpose: the load that finds the workflow PENDING and the load of
  `start_workflow` are one action (a start that lost the race only ends the
  call without a change); the duplicate-step and stale outcomes are both
  "nothing changed".

### 2.3 AgentLaunch, ProcessOrchestrator, AgentControl

* `proc[p]` is an agent process: `up`, `hung` (no more output), `unposted` (dead,
  its completion only in its log) or `gone`. A pid that nothing names any more is
  given out again (`FreePids`); a launch waits for a free one, and the theorem
  `TypesAreCorrect` says from which `MaxPids` on it never has to.
* `tracker` is the launched-agents document: pid, agent, tool, exclusions and
  fuse per issue. Writers load and save it whole; the dead-agent pass saves what
  it read at its start (`snap`), and with it takes back what others saved since.
* A launch is two steps: the checks that lead to `Request`, and `Spawn` or
  `Refuse`; other processes act between them. `Spawn` may fail to keep the books,
  `Refuse` has the reasons of `launch_next_agent` and `invoke_ai_agent`, one of
  which pauses the workflow.
* The thread's place is `pc`. It works on one completion or issue at a time
  (`todo`), and stops inside a turn only where it waits for the platform, a
  chat, a pause, an alert or a launch. `ProcessorRestarts` may happen at each of these places: the
  guard, the alert sets and the recovery watchdogs are lost, the dedup set is
  what the last scan saved (`saved`), and the agents run on. The new process
  applies reports of the RUNNING step (`StartupApplies`), then looks for
  timed-out agents, then enters its loop.
* A retry is a sequence of steps, as it is a sequence of calls
  (`process_orchestrator.py:775-851`, `985-1115`): the pass finds the agent dead,
  lost or hung (a kill comes first), and stops at `retry`; the fuse is asked and
  the attempt saved (`RetryIsCounted`); at the last one it goes to `trip`, where the
  workflow is paused, an alert is sent, and the tracker is saved once more as it
  was when the fuse tripped (`FuseTrips`, `held`); otherwise to `alert`, after
  which the launch begins (`StuckRelaunches` and the like). Other processes,
  agents and a restart may act at each place. Two failures of `should_retry` are
  swallowed by the code, and kept: a pause that fails leaves the workflow RUNNING
  with a tripped fuse (`nexus_agent_runtime.py:517-541`), and failed bookkeeping
  grants the retry without counting it (`RetryUncounted`, `:582-591`).
* Two searches for processes are told apart. The launch guard finds any process that
  names the issue (`AgentFound`, `agent_launcher.py:1160-1175`); when its look fails,
  the launch is allowed (`GuardAllows`, `guards.py:93-94`). The runtime-ops plugin's
  pgrep knows the tools of `SeenTools` and answers nothing when it fails
  (`FoundIdle`); beside it only the tracker's pid is asked (`ProcessRunning`).
* `complete_step_for_issue` is here the effect that `StepCompletion` establishes:
  a completion of the RUNNING step is applied once. A workflow is its state and
  its RUNNING step; `unmapped` is an issue whose mapping was dropped.
* History variables: `granted` are the retries of the RUNNING step since it began (or
  the entry with the fuse was dropped, or somebody resumed), `allowed` what the fuse
  may have granted by then (`FuseMax - 1`, and as many again for each failure that
  the fuse does not survive, `Slips`); `excused` are the agents spawned by others
  than the processor or past a failed look of the guard; `finals` the finalisations.
* Simplified, and over-approximated where time decides: whether a window (the
  fuse's, the age of an issue, a launch older than the timeout) has passed is a
  free choice that costs one of `MaxFaults`; the guard's cooldown refuses one
  launch, the orphan recovery's skips one pass; the last completion is the one
  of the highest step; the startup check may take any report of the RUNNING step, or fail to (it reads the last
  structured comment, and the completion file only when it got no comment).

Noticed while translating; no property is stated that the code would fail:

* The plugin's pattern for pgrep begins a group with `(?:` (`plugin_runtime.py:265`),
  which POSIX extended expressions do not have: a pgrep that rejects it exits with
  an error, and `find_issue_processes` then answers nothing for every tool. That is
  `SeenTools = {}`, for which `OneAgent` is proved as for any other value.
* A command from outside between the fuse and the launch of a retry makes the
  relaunch one of a step that no longer runs; `RetriesAreForTheRunningStep` speaks of
  hosts without such commands.
* What others write to the tracker between the two saves of a tripped fuse is lost.
* A fuse is kept in the entry it counts for. When the entry is dropped as stale,
  its count is gone, and the bound starts anew (`Forgets`).
* A completion of step 2 that is scanned before that of step 1 is refused as
  stale and dedup'ed for good, as the set is saved; only the startup check,
  `/continue` or reconcile may still apply it.
* A finalisation that fails is not repeated: the next scan finds the workflow
  completed.
* The launch after a completion takes the agent from the completion, so an author
  override in between starts an agent that the workflow no longer expects.
* `/stop` closes the issue last, through `asyncio.run` inside the running loop,
  which always fails (`Stop` leaves the issue open).
* The chain launch asks for ended workflows only; see 3.4 on pauses.

### 2.4 InboxQueue to IssueDelivery

* `rows` is the table. `EnqueueLooks`, `EnqueueInserts` and `EnqueueCommits` are the
  client's statements (`looked` counts the clients before their insert). The insert
  gives the row its id, the commit shows it, so that a later id may be visible,
  and claimed, before an earlier one (`overtaken`). `ClaimPending` is the one
  transaction of a claim with its suppression of duplicates. `Settle` marks the row
  in hand; when marking fails, as done and then as failed, the row stays
  "processing" under a processor that lives (`Ends`, `left`).
* `PrepareTask`, `CreateIssue`, `CreateWorkflow`, `StartWorkflow`, `LaunchFirst`
  are the stretches of `handle_new_task` between the calls that may fail. A lost
  answer of the platform leaves the issue and repeats the creation, without labels;
  adding them afterwards may fail unnoticed (`issue_lifecycle.py:199-200`).
  `Duplicates` finds open issues that are listed under the project's label and have
  the title, type and workflow label of the task; an issue without labels is not
  found. `by` remembers which row made an issue's workflow.
* `doc` is the merge queue's document. `Loads` leaves in `held[w]` the document
  with one entry changed, `Saves` writes it: whoever saves last takes back what
  the other one saved. The merge pass reads its candidates once (`merging`).
* `work` follows the files of an issue in a repository from the worktree to the
  pull request; `fin[f]` is the finalisation that the processor or the bot
  performs, one repository after the other. A failing one leaves a commit that
  is only local or pushed, or a pull request that was made and not validated.
* Worktrees are removed in two steps: `Checks` asks whether an agent is at work and
  the worktree clean (`removing`), `Removes` is the forced removal, which asks nothing
  (`workspace.py:291-292`, `:317-340`). Agents write at any time (`AgentWrites`), and a
  launch on the issue in between is `raced`.
* A merge closes the issue in two ways. The body of every pull request of a
  workflow carries the closing keyword for the home issue, across repositories
  (`workflow_policy_plugin.py:442-449`, `github.py:246-263`), which the platform
  obeys when the pull request goes to the default branch: for the repositories in
  `AtOnce`, `MergesPR` closes the issue. And the webhook closes the issue of that
  number in the pull request's own repository, which is ours at home only
  (`Closes`, `PRClosed`). Webhooks arrive in any order and may be lost.
* `notices` are the issue events that the webhook server will heed if they arrive
  (nothing makes them): issues opened without the labels of a dispatch, by hand
  (`OpensByHand`) or by the second attempt of `create_issue`, and issues that
  were labelled for a plan. `IssueEvent` enqueues the task that is named after
  the issue, `WebhookTask` launches its agent without a workflow. Without one the
  reports name the next agents, and `WorkflowDone` finalises after the last
  (`process_orchestrator.py:492-514`). `IssueClosed` may come more than once, as
  deliveries may.
* `ProcessorCrashes` leaves claimed rows "processing" and a marked entry
  "merging", as the code does.
* Simplified: a set is gone through in one order (`InOrder`); "blocked" and
  "failed" entries are treated alike; a launch makes the worktrees in all
  repositories; a workflow is its state; `PROpened` may come whenever a pull request
  exists; what an agent changes where a pull request has been made counts as
  `broken`, as nothing proposes it.
* `IssueLife` is the abstract specification of an issue: none, open, done,
  proposed, merged, closed. `Life` maps the issue, its workflow and its pull
  requests to it.

Noticed while translating; no property is stated that the code would fail:

* Rows left "processing", by a crash or by a mark that failed, are never taken
  again, and suppress later submissions of the task; an entry left "merging" is not looked at again.
* Two rows of a task are both worked off when the later one is claimed before the
  earlier one is committed.
* What an agent writes that is launched between the check and the forced removal of
  its worktree goes with it.
* A row is closed as a duplicate of an earlier one that is still at work; when
  that one fails, the task is lost. The claim's look for earlier rows has no
  time window, the enqueue's has.
* When a push or the pull request fails during finalisation, the changes are
  committed already, and a later attempt finds nothing to propose.
* Enqueueing a pull request resets its entry, also a merged one; merging then
  fails, and the entry says so.
* When deleting the branch fails after the merge, the entry says "failed".
* A second dispatch that finds the issue of a running workflow resets it.
* Finalisation never reports that an issue was closed (`close_issue` returns
  nothing), so the archiving that depends on it does not run.

## 3. Runs

| Run | Asks | States | Result |
|---|---|---|---|
| `engine_serial` | one caller: does every save follow the lifecycle, is every failure explained, do loops end? | 3,879 | holds |
| `engine_shared` | two callers that overwrite each other: is the stored workflow always consistent; is the inductive invariant an invariant? | 77,857 | holds |
| `completion_process` | two threads of one process, failure or restart anywhere: is an event applied once, is what the ledger suppresses applied, and does every save follow the lifecycle? | 225,082 | holds |
| `completion_processes` | processor and bot, operators, failure or restart: is what a ledger suppresses applied, does the loop guard hold; is the inductive invariant an invariant? | 228,033 | holds |
| `agents` | the processor with its agents, of which pgrep knows one tool, two failures, crashes or restarts: one agent at a time unless the guard could not look, retries bounded and for the RUNNING step, steps served, hung agents stopped? | 380,182 | holds |
| `agents_asked` | the same with one failure and one command, comment or override from elsewhere, in the middle of a retry too: does the fuse still bound the retries, is finalisation still once? | 1,647,400 | holds |
| `delivery` | from two submissions, or an issue opened by hand, to merged pull requests, a mishap and a user's request: taken once, uncommitted work kept, approved, nothing left behind, and the life of an issue kept? | 485,966 | holds |
| `engine_latest_report` | do conditions see the latest report? | | violated |
| `engine_retry` | is a retry ever attempted? | | violated |
| `completion_two_steps` | can two processes make two steps run? | | violated |
| `completion_iteration` | does the report of a second iteration count? | | violated |
| `agents_startup` | is a completed workflow finalised, also across a restart? | | violated |

### 3.1 What the properties say

* `OneStepInHand`: while a workflow is RUNNING, PAUSED or CANCELLED, its current
  step is RUNNING, or PENDING after a failed attempt, and no other step runs;
  once it ended, none runs. This is what makes "find the RUNNING step" in the
  plugin meaningful.
* `FailureExplained`, `LoopGuardKept`: budgets are never exceeded, and FAILED has
  a used-up budget as its cause.
* `FollowsLifecycle`: with the workflow to itself, every save of the engine is a
  step of `WorkflowLifecycle`, so an ended workflow is never revived. One caller
  has it to itself, and so have the threads of one process, by the plugin's lock.
  (It does not hold for two callers without it: the later save restores what the
  earlier one saw.)
* `LoopsEnd`: a started workflow ends whatever the agents answer, unless it
  waits for a retry.
* `RecordedOnce`: while a call is between check and record, its key is in no
  ledger of its process, so no other thread applied the event meanwhile.
* `RecordedIsApplied`: a key that will suppress later deliveries belongs to a
  completion that was saved, whatever failed or restarted in between.
* `Inductive`, `Accounted`: the strengthenings the proofs use (section 4).
* `ReportsCount`: a RUNNING step whose agent has reported is eventually not
  RUNNING (or activated again for another iteration). The code does not keep it
  (3.4), and no run claims it.

* `OneAgentUnlessAskedFor`: checks and spawn are apart, the tracker forgets and the
  plugin's pgrep misses tools, yet at most one agent of an issue runs, plus those
  that others than the processor launched and those that a failed look of the
  launch guard let pass.
* `FuseBoundsRetries`: three passes retry a step, through one fuse in a document
  that is overwritten, also between the fuse's own two saves; together they relaunch
  fewer than `FuseMax` times, and as often again for each failure that the code
  swallows with the count (`granted`, `allowed`).
* `FinalizedAtMostOnce`: a completion that is read again after a failure or a
  restart does not finalise its workflow again. (A workflow whose mapping was
  dropped has nothing that remembers, and is excepted.)
* `RetriesAreForTheRunningStep`: a process that died or hung after its step was
  over is not relaunched, though fuse, alert and launch are apart; without commands
  from outside.
* `StrandedStepIsServed`, `HungAgentIsStopped`: a RUNNING step without an agent
  gets one, or the fuse gives up; a hung agent is killed, if its log is one that
  the timeout scan recognises.
* `CompletedIsFinalized`: what is completed is finalised.
* `OneIssuePerRequest`: one title makes one open issue, and one more for each
  listing, answer or set of labels that was lost (`blind`).
* `TaskIsTakenOnce`: clients that look, insert and commit at the same time make two
  rows, of which one is worked off, unless the earlier one has failed or was
  committed after the later one was claimed.
* `RestartNeedsResubmission`: the row that made a workflow never resets it once it
  was started, whatever failed, crashed or is claimed later; only another row that
  led to the same issue does.
* `UncommittedWorkIsKept`: three processes check and then remove worktrees; the one
  that goes has changes in it only if an agent was launched on the issue in between.
* `MergedOnlyIfApproved`: in manual mode, overwritten saves do not make the queue
  merge what no user approved.
* `NothingLeftBehind`: when a merge in whichever repository closes the issue, the
  work in the others is proposed as well, or is in hand, or broke off (`broken`).
* `FollowsIssueLife`: every step of the delivery is a step of `IssueLife` or
  changes no issue's stage: merged only after it was proposed, closed only by or after
  the merge of one of its own pull requests, never dropped or opened again.
* `InboxDrains`, `CompletedAreFinalized`, `MergeQueueDrains`: the processor settles
  every row but those in `left`, tries every finalisation and every eligible entry,
  crashes or not.

### 3.2 Bounds, and why they are enough

* `engine_serial`: six steps are the shape of
  `examples/workflows/enterprise_full_workflow.yaml`: a loop through a router, a
  default route to a final step, a step that is skipped by its condition, steps
  with and without `on_success`. Two verdicts plus the missing key reach every
  outcome of conditions and routes. `MaxLoopIterations = 2` (5 in the code) lets
  a step loop more than once before the guard; one retry on two steps.
* `engine_shared`: three steps and limit 1, with two callers: a lost update
  needs two copies, and any further caller only repeats the same overwrite. The
  theorems below have no bound.
* `completion_process`: three reports are enough for one full iteration of the
  loop (1, 2, router, 1 again) and a report of the second one, each delivered as a file
  and as a comment; one mishap at any point. `completion_processes`: one report, delivered under three events by two
  processes, with operators at work, reaches the lock of one process while the
  other one saves. `MaxReports` and `MaxMishaps` bound the agents and the
  failures, nothing else is bounded.
* `agents`: one issue, as the passes' work on one issue touches another one's only
  through the tracker that is saved whole; two steps, to have an agent that is
  over and a next one; two tools, so that an exclusion leaves one, and two leave
  none, one of them unknown to the timeout scan and to pgrep; `FuseMax = 2` (3 in the
  code) and `MissMax = 2`, the smallest at which the first attempt is granted and the
  first miss is not enough. Two faults, anywhere, reach a failure of what repairs the
  first one. `agents_asked`: one fault and one request in any combination, and two
  tools that are both known, which makes them alike. `MaxPids` is 4 and 6: a launch
  never finds none free, which `TypeOK` says. (`EnoughPids`, the hypothesis of
  `TypesAreCorrect`, asks for 10 and 9 in any case; a run of this size needs fewer.)
* `delivery`: two rows of two tasks, or of one, under one title, are what the
  duplicate rules distinguish; two issues, since a lost answer makes a second
  one; the issues' own repository, whose merge closes by the webhook, and another,
  whose merge closes at once; both review modes; the submission of `t1` or an
  issue opened by hand to begin with, which costs nothing, then one failure or crash
  (`MaxFails`), and one further submission, button, label, continue or review
  (`MaxAsked`). The tasks are alike, so `FirstTasks` names the first one only. The
  submission and the issue opened by hand are not both (`ByHand`): the two meet only
  in the processor's turns, and together they are a product of two lives.
* Symmetry is used in `agents_asked` only, for the two tools, which nothing
  distinguishes there, and no liveness is checked in it. The callers of the
  completion runs differ by process; the first pid and row id are chosen by
  order.
* `CHECK_DEADLOCK FALSE` everywhere: an ended workflow without further reports
  really stops.

### 3.3 Fairness

`FairSpec` (engine): a begun operation goes on and saves (weak fairness, no
crash in `Uninterrupted`); a PENDING workflow is started; a paused one is resumed
and an agent whose step runs reports, even if pauses disable them in between
(strong fairness): agents are subprocesses that are relaunched by the stuck and
dead agent handling, and operators resume. Nothing is assumed about pausing,
cancelling or retrying. `FairCompletionSpec` (plugin) is used by
the violated run `completion_iteration` only: a begun call goes on, and every report
is delivered again and again. That is more than the code does, whose scan skips a
file it has met; even so the report does not count.

`FairSpec` of `AgentControl`: the processor's loop, the launches that others have
begun and the recovery watchdogs go on (weak fairness): each is a thread of a
service that is restarted. Agents may never report, and nobody else need do
anything. `FairSpec` of `IssueDelivery`: the processor goes on; nothing is assumed
of agents, bot, webhooks or users, nor of which phase of the loop comes first.

### 3.4 What the violated runs show

1. `engine_latest_report`: `_build_step_context` promises the
   most-recently-completed step's outputs (`workflow.py:384-386`) and merges in
   step order; after a loop, the old report of a later step wins.
2. `engine_retry`: `README.md:27` promises auto-retry; the engine puts a failed
   step back to PENDING and nothing runs it again. In this repository agents'
   crashes are retried by relaunching the process instead, and the plugin never
   passes an error to the engine.
3. `completion_two_steps`: the plugin's lock and check do not reach across
   processes, and the engine completes a step without looking at its status: one
   report applied by scan and reconcile at the same time leaves steps 2 and 3
   RUNNING. The proved `OneStepInHand` assumes that the step is in hand when
   `complete_step` loads the workflow; this run drops that assumption.
4. `completion_iteration`: the key of a completion file has no iteration, so in a
   feedback loop the second report of a step is a duplicate for the ledger.

5. `agents_startup`: `process_orchestrator.py:274` has completed workflows
   finalised, and `inbox_processor.py:548` calls the startup check one that "does
   not mutate workflow state". It applies reports, that of the last step
   included (`startup_recovery.py:214`, `:284`), and does nothing of what the scan
   does next. The scan then takes the report for a duplicate: no pull request,
   no clean-up. It needs a restart between the report and its scan, and the
   report as the last structured comment (as the recovery watchdog posts it),
   or as a file when no comment is there or can be read. A next agent that is
   not launched in the same way is served by the orphan recovery
   (`StrandedStepIsServed`); nothing serves a finalisation.

Three more statements that the code does not keep have no run, for they need no
interleaving. `nexus/core/runtime/workflow_commands.py:167` says of a paused
workflow that the next agent is not launched automatically, while the scan
applies the completion, is told the next agent and launches it unless the
workflow has ended (`LaunchBegins`). The documented three attempts are two: the
third call of the fuse trips it (`Attempted`). `process_orchestrator.py:271` and
`examples/nexus-bot/docs/workflow-lifecycle.md:123` say that stuck agents are
killed: the timeout scan matches names of logs against three of the five tools
(`:662`), so an agent on claude or ollama that hangs stays, and its workflow with
it, for dead and orphan handling find its process alive: the tracker's pid answers.
Hence the premise on the tool in `Hangs`.

## 4. Proofs

`WorkflowEngineProofs` proves, for every definition allowed by
`DefinitionAssumption`, every set of callers and every interleaving, crashes
included:

| Theorem | Statement |
|---|---|
| `TypeCorrect` | `Spec => []TypeOK` |
| `OneStep` | `Spec => []OneStepInHand` |
| `Failures` | `Spec => []FailureExplained` |
| `Invariance` | `Spec => []Inductive`, from which the others follow |
| `FollowsTheLifecycle` | `Alone => (Spec => FollowsLifecycle)`, the refinement of `WorkflowLifecycle` by one caller |

`OneStepInHand` is not inductive: a save stores a copy made earlier, so the
copies must be described as well. `Inductive` adds that a copy about to be saved
is itself consistent, and that a copy on its way through the advance loop is
live, within its budgets and has nothing running or failed (`InTransit`). A
failure is justified at the moment it is decided, which is why `Consistent`
carries the cause of FAILED.

`Alone` says that there is one caller: with two, the later save takes the
workflow back to before the earlier one, and the statement is false. The
refinement needs, beside `Inductive`, that the copy in memory is one step of the
lifecycle ahead of the store when it is about to be saved, and that a copy on
its way through the advance loop belongs to a stored workflow that can be
reported on (`Ahead`). Each action keeps that (`HoldLeads` to `AdvanceLeads`),
and a save is then a step (`LeadsStep`).

The argument for the others is in three layers: lemmas about the transformations of a workflow
record (`ResetKeeps`, `MoveTo`, `SkipKeeps`, `RunKeeps`, `EndKeeps`), lemmas that
each action keeps `Inductive` given that the copy it puts into `mem` is good
(`HoldKeeps`, `StateKeeps`, `FailKeeps`, `GotoKeeps`, `CompleteKeeps`,
`AdvanceKeeps`, `SaveKeeps`), and the theorem that combines them. The only
assumption is `DefinitionAssumption` (steps are numbered 1..N, targets resolve
to a step or to nothing).

`StepCompletionProofs` proves, for every deployment allowed by
`DeploymentAssumption` (any processes, callers, operators, events per report,
and bounds on reports and mishaps) and every workflow definition:

| Theorem | Statement |
|---|---|
| `NothingIsLost` | `CompletionSpec => []RecordedIsApplied` |
| `NothingTwice` | `CompletionSpec => []RecordedOnce` |
| `LoopGuard` | `CompletionSpec => []LoopGuardKept` |
| `CompletionTypes` | `CompletionSpec => []CompletionTypeOK` |
| `CompletionsAccounted` | `CompletionSpec => []Accounted`, from which the others follow |

`RecordedIsApplied` is not inductive: recording is right only because the save
came before, and because the ledger in memory that is extended was checked and
is loaded. `Accounted` says so (`CallAccounted`), and says that the copies in
progress are within their budgets. It has two parts: `EngineSound` concerns the
engine's variables, and its lemmas (`HoldCounts` to `AdvanceCounts`) do not assume
that the completed step is in hand, because another process may have completed
it meanwhile; `PluginSound` concerns the calls, locks and ledgers, one lemma per
action.

`SerialCompletionProofs` proves, for a `SerialDeployment` (all callers in one
process, no operators):

| Theorem | Statement |
|---|---|
| `SerialOneStep` | `CompletionSpec => []OneStepInHand` |
| `SerialLifecycle` | `CompletionSpec => FollowsLifecycle`, the refinement of `WorkflowLifecycle` by the threads of a process |

The invariant adds to `Accounted` and the engine's `Inductive` that only a caller
inside the lock works on the workflow and that the step it checked still runs
when the engine loads the workflow (`StepHeld`). So whoever works on the workflow
is alone with it (`InsideIsSole`), which is what the lemmas of the engine's
refinement ask for (`Sole`). Both premises are needed: `completion_two_steps`
drops the first, and operators take no lock.

`DeliveryQueueProofs` and `DeliveryMergeProofs` prove, for every allowed set of
tasks, titles, issues, repositories and bounds, with every interleaving of
clients, processor, bot, webhooks and users:

| Theorem | Statement |
|---|---|
| `TakenOnce` | `Spec => []TaskIsTakenOnce` |
| `OneIssue` | `Spec => []OneIssuePerRequest` |
| `RestartsNeedRows` | `Spec => RestartNeedsResubmission` |
| `DeliveryTypes` | `Spec => []DeliveryTypeOK` |
| `OnlyApprovedIsMerged` | `Spec => []MergedOnlyIfApproved` |
| `UncommittedIsKept` | `Spec => UncommittedWorkIsKept` |
| `NoWorkIsLeft` | `Spec => []NothingLeftBehind` |
| `IssuesFollowTheirLife` | `Spec => FollowsIssueLife`, the refinement of `IssueLife` |

* The queue. A claim takes the first visible rows without a row before them, so ids
  must leave no gap: `QueueInv`, which also counts the inserts that clients have
  begun, since a look promises room for them. `DispatchInv` relates the row in hand
  to the place in the dispatch. `TakenInv` strengthens `TaskIsTakenOnce` to rows that
  are not committed yet: what lies before a row that was taken is the same task's
  only if it failed or was overtaken.
* Issues. `OpenInv` counts: a creation adds an open issue of its title where none is
  listed, or one to `blind`; if none is listed, all that are open are `blind` ones.
  `RestartInv` says that the row that made a workflow which has begun was taken and is
  no longer waiting in the batch, except while it is in hand past its workflow.
* Clean-up. `UncommittedWorkIsKept` needs `CleanInv`: a worktree that was found
  removable, and whose issue got no agent since, has no agent and no changes.
  Only agents write, and every launch makes the issue's removals `raced`.
* Approval. `MergedOnlyIfApproved` speaks of what was merged. The invariant
  `ApprovalInv` is that in manual mode every override, in the document and in
  whatever version an editor still holds, stands for an approval: only then may
  any of them be saved last, and only then does the pass, which works on what it
  read, merge approved requests only.
* Work. `WorkInv`: from the first request of an issue on, the work in each of its
  repositories is settled (nothing to propose, or proposed, or broken off) or
  stands in the list of a finalisation, or an agent is at it; work that is committed
  and not proposed broke off, and a closed issue has had a merge. `WorkMove` is what any step may do to one piece of work, and one
  lemma per part of the system shows its steps to be such moves.
* The refinement. `IssueMove`, `RequestMove` and what a step does to one issue are
  proved of every action; then a step either opens issues or moves one issue
  along `IssueLife`, or changes no stage. It rests on `ClosedLanded`, a part of the
  invariant above: whatever closes an issue, keyword or webhook, comes with or after
  a merge.

`AgentControlProofs` and `AgentRetryProofs` prove, for any issues, steps, tools,
fuse and bounds, with every interleaving of the processor's loop and restarts
with agents, webhook server, bot and watchdogs:

| Theorem | Statement |
|---|---|
| `HostTypes` | `Spec => []HostInv`, the invariant of the types |
| `TypesAreCorrect` | `EnoughPids => (Spec => []TypeOK)` |
| `OneAgent` | `Spec => []OneAgentUnlessAskedFor` |
| `RetriesRun` | `MaxTriggers = 0 => (Spec => RetriesAreForTheRunningStep)` |
| `FuseBounds` | `Spec => []FuseBoundsRetries` |
| `FinalizedOnce` | `Spec => []FinalizedAtMostOnce` |

* `HostInv` adds to the types that a fuse has used up its attempts only if it is
  tripped, and that `pc`, `back`, `cur` and the processor's request tell the same
  place: what a launch returns to is then known.
* `TypeOK` says that a launch always finds a free pid. A machine has no such bound,
  so the theorem has a hypothesis on the model's one: `EnoughPids` asks for more
  than the agents that may run, plus the pids that a document names. The proof
  counts them: launches by others are paid for by a request or a failure, and so
  is a completion that stands only in a log (`SpendInv`), and an issue names at
  most four more, through tracker, snapshot, the copy held during a trip and newest
  log (`NamedBound`).
* `OneAgent` is not inductive, as the spawn comes after the checks. `LaunchInv`: while
  the processor has a request, the agents that run for its issue are excused. It
  rests on the guard's look alone, so it holds whatever `SeenTools` is.
* `RetriesRun`: `WantedInv` says that from the fuse to the launch the agent is that of
  the RUNNING step; without commands only the processor moves the step. With them it
  is false, which is the gap between the fuse and the launch.
* `FuseBounds`: `FuseInv` says that the retries granted, with those that the fuse in
  the tracker would still grant, are within what is allowed, and so for the fuse in
  the snapshot of the dead-agent pass and in the copy held during a trip while these
  may still be written back. A workflow that is not running needs no such account,
  since resuming starts the count anew. A fuse of another step, or one that tripped
  and goes with its entry, still grants them all: that is covered since the trip
  paused the workflow, or, where the pause failed, since `allowed` has grown.
* `FinalizedOnce`: finalisations, with the one that the scan is about to make, are
  no more than the applications of the last completion (`FinalsInv`), and a
  workflow whose mapping is gone never gets it back (`UnmappedStays`).

The proofs take one step per action. Where most actions leave the matter alone,
a local definition `Ok` names the goal, a few facts say which kinds of moves keep
it, and one leaf shows that the remaining actions do not touch it. The
assumptions on constants are `QueueAssumption` and its like, named in the
modules that declare the constants; `EnoughPids`, `Alone` and `SerialDeployment`
are hypotheses of the theorems that need them. `Alone` holds in the run
`engine_serial`, `SerialDeployment` in `completion_process`; for `EnoughPids` see 3.2.

Only model-checked: all liveness (`LoopsEnd`,
`StrandedStepIsServed`, `HungAgentIsStopped`, `InboxDrains`,
`CompletedAreFinalized`, `MergeQueueDrains`), as temporal logic with fairness is
beyond the prover. Every invariant, action property and refinement of a passing
run is stated by a theorem.

## 5. Not modelled

* The components marked `not_modelled` in `PROJECT.json`.
* Of the state plugin: the mapping from older identifiers; approve and deny, whose
  engine methods do not exist. `StepCompletion` has one workflow stored from the
  start; its creation is in `TaskDispatch`.
* Torn writes of the file backend: a save is atomic here.
* Re-entrancy of the `RLock` for coroutines of one thread: callers are threads.
* `_match_step_by_ref` and the inference of a verdict from `next_agent`
  (`workflow_state_engine_plugin.py:220-264`): a report has its verdict.
* Of the commands: reprocess, continue with a named agent, forget, the recovery
  of workflows whose mapping is gone. Of reconcile: which
  comments it chooses. Of the startup check: its alerts.
* Of the inbox: task files, tasks rerouted to another project, the naming and
  classification of tasks.
* Of the webhooks: HTTP and signatures, the binding of requesters, reviews, the
  polling comment monitor. Of the platforms: GitLab's variants, users who close or
  reopen an issue by hand during its delivery.
* The composition of all three layers in one specification: the engine's steps,
  the agents' processes and the delivery are each composed within their layer,
  and a layer sees of the one below it the effect that is checked there.

## 6. Plan

Done: the modules of section 2, and the proofs of section 4.

1. The steps that a liveness proof would consist of, as action properties: that
   each turn of the advance loop uses up a bounded quantity.
2. `RateLimiter`: the sliding window against a reference count; reprocess and the
   recovery of workflows whose mapping is gone.
