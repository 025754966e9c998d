# RunPodFarm, specified

RunPodFarm renders Houdini PDG graphs on rented GPU machines. A scheduler inside
Houdini creates pods through the RunPod REST API, sends work items to a small
HTTP worker on each pod, watches the pods, and ends them when the cook is over.
Around it stand a CPU pod that keeps files in step with a shared volume, jobs
that cook without the artist's Houdini, deliveries, a cost ledger, releases of the
code itself, and a command line. What can go wrong is rarely wrong in one function:
it is a machine that is billed and that nobody remembers, an item that PDG waits
for for ever, a frame that is deleted because an index was being rewritten.

This directory holds TLA+ models of that logic, their TLC configurations, and
proofs. `PROJECT.json` maps every definition to the lines it models, names the
hazards it is aimed at, and gives for every checked property a mutation of the
model that breaks it. Paths are relative to the repository (`src/`);
"PythonModule" is
`src/hda/runpodfarm_scheduler.hda/Top_1runpodfarmscheduler/PythonModule`.

## Inventory

| Part | Source | State it keeps | Operations | Module |
|---|---|---|---|---|
| Dispatcher | `rpfarm/dispatch.py` | pods (running set, slots, idle and full marks), tasks, FIFO queue, failures and a cursor over them | enqueue, assign, complete, retask, fail_pending, pod_dead, mark_full, touch_idle, capacity_expired, idle_pods | `Dispatcher` |
| Cook controller | PythonModule | the Dispatcher, one client per pod, terminate retries, settling successes, budget state, outage clock | onSchedule, onTick (retry, poll pods, dispatch, poll tasks, settle, budget, autoscale, expire, retire), onStopCook | `Farm` |
| Pod health | PythonModule `_poll_pods`, `dispatch.OutageTracker`, `pod_timed_out` | last poll and first failure of each pod, start of an outage | a sweep of /health calls, then a judgement | `Health` |
| Worker: tasks | `pod/worker.py` `Registry`, `Task` | tasks and their states, processes, timers | submit, run thread, kill, SIGKILL timer | `Worker` |
| Worker: the rest | `pod/worker.py` `DetachedRuns`, `Liveness`, `OrphanWatchdog` | runs in files and in a table, ages, idle counts | /exec, its status, sampling, stop_self | `SyncWorker` |
| Clients | `rpfarm/worker_client.py`, `runpod_api.py` | none | one HTTP call each | inside `Farm`, `SyncPod`, `SyncWorker` |
| Sync pod | `rpfarm/pods.py`, `monitoring.py` | one CPU pod per user and volume, a lock file per machine | find, create, deduplicate, resume, stop, delete | `SyncPod` |
| Upload | `rpfarm/package_runner.py`, `sync.py`, `compression.py`, `packages.py` | staged archives, done markers, mtimes on the farm | compare, compress, send, unpack, stamp | `Upload` |
| Volume size | `packages.maybe_grow_volume`, housekeeping `_SizeCache` | cached sizes | measure, grow, invalidate | `Growth` |
| Volume content | `pod/housekeeping.py`, `rpfarm/volume.py` | projects, an index under a lock | touch, rm, rm-paths, prune | `Volume` |
| Delivery | `rpfarm/delivery.py`, `packages.py` | receipts, locks of destinations | transfer | `Delivery` |
| Packages and paths | `rpfarm/packages.py`, `deps.py`, upload and download nodes | path map | chunk, map, unmap, collect outputs | `Packages` |
| Upload review | `rpfarm/deps.py`, `usddeps.py`, `preflight.py`, `file_review.py`, upload node | answers on the node | scan, plan, ask, compact, select | `Preflight` |
| Jobs | `rpfarm/jobs.py`, `host_render.py`, `background_cook.py`, `pod/host_cook.py` | a record per job, on the volume and on each machine | submit, refresh, cancel, fetch, deliver, host main | `Jobs` |
| Cost | `rpfarm/ledger.py` | a journal per cook, here and on the volume | append, mirror, pull, merge with the bill | `Ledger` |
| Releases, installation | `rpfarm/releases.py`, `houdini_local.py`, `scripts/` | releases, pointers, copies, assets | stage, activate, setup, rebuild | `Installation` |
| Configuration and CLI | `rpfarm/config.py`, `cli.py` | one TOML file | setup, volume and xpu commands, housekeeping calls | `CommandLine` |
| `farm kill` | `cli.py`, `pods.classify_for_kill` | none | probe, classify, confirm, terminate | `FarmKill` |
| Smoke test | `rpfarm/smoke.py`, its hython script | a run directory | cook, verify, clean up, judge | `Smoke` |
| Message queue server | `rpfarm/mq.py`, `pods.start_mq` | a third-party server on the sync pod | start, find | not modelled |

How they meet. PDG calls the scheduler on one thread; that thread makes blocking
HTTP calls to RunPod and to the pods, so the world moves between any two of them.
The worker is a threading HTTP server: a request thread per call, a run thread
per task, a timer per kill, and the processes of a task. Pods end themselves by a
watchdog when nobody asks. The sync pod, the volume, the job records, the
configuration and the installed code are shared by several sessions, several
processes and several machines, and most of them are files that are read, changed
in memory and written back.

What makes each part hard, and what makes it correct:

- **Dispatcher**: pods are lost and items completed, renamed, expired in any
  order. Correct: no item lost, none in two places, slots never overbooked,
  attempts bounded, one failure told once.
- **Cook controller**: calls fail, or take effect and are not heard; cancels
  arrive while a call blocks; Houdini dies. Correct: what is billed is known, what
  PDG is told is real and told once, every item is answered, a stop ends.
- **Health**: a dead pod and a dead uplink look the same. Correct: an outage
  costs no machine, a dead pod is not kept for ever.
- **Worker**: four kinds of thread share a task. Correct: a kill is not lost, a
  success is over, final states are final, slots come back. Its watchdog must
  tell a pod in use from one that was left.
- **Sync pod, volume, upload, delivery**: several processes read, decide and
  write. Correct: one sync pod, nothing deleted that somebody still has to fetch,
  nothing skipped that changed, no receipt for a file that is not there.
- **Jobs**: the process, its supervisor, a watchdog and the artist's sessions
  write copies of one record. Correct: what the artist reads is what happened, and
  no pod outlives its job.
- **Review and packages**: what a cook reads is found in six partial ways and
  travels under three names. Correct: nothing it needs stays at home unasked, and
  outputs find their way back.
- **Tools**: files read early and written late. Correct: a session has one build,
  a volume has its region, costs add up, a passed test has passed, and a kill
  spares what works.

`PROJECT.json` lists the hazards one by one, at their lines.

## Modules

| Module | What it models |
|---|---|
| `ItemLifecycle` | the promise to PDG: an item is new, waiting, running, done or failed; nothing leaves done or failed |
| `Dispatcher`, `DispatcherProofs` | class `Dispatcher`, one action per method, plus the three callers that are a sequence of methods (`Promote`, `RetireIdlePods`, `ExpireWaitingItems`); it implements `ItemLifecycle` |
| `TaskRegistry` | what a client of a worker sees: ids used once, slots, final states |
| `Worker` | the threads of `Registry`, one action per step between two shared accesses; it implements `TaskRegistry` |
| `Farm`, `FarmProofs` | EXTENDS `Dispatcher`: the scheduler thread, the RunPod API, the registries of the workers, faults |
| `Health` | `_poll_pods` call by call, by the clock |
| `SyncPod` | `ensure_sync_pod` by several callers, and the housekeeping timer, remote call by remote call |
| `SyncWorker` | the worker of the sync pod: detached commands, who uses the pod, the watchdog |
| `Jobs`, `JobsProofs` | one job: its process, its supervisor, the artist's sessions, and the record they copy |
| `Volume`, `VolumeProofs` | projects and outputs on the volume, the index and the commands that delete |
| `Upload`, `Growth`, `Packages`, `Preflight` | an upload: the process, the size of the volume, the paths, the decision what to send |
| `Delivery` | transfers home and their receipts |
| `Installation`, `CommandLine`, `FarmKill`, `Ledger`, `Smoke` | the tools around a cook |
| `MCDispatcher`, `MCFarm`, `MCSyncWorker` | instances and symmetry of one module each |
| `MCPods`, `MCRunPod`, `MCFiles`, `MCTools` | several modules side by side |
| `WorkerProofs` | proofs of `Worker` and `SyncWorker` |
| `RunPodProofs` | proofs of `Health`, `SyncPod`, `Growth` and `Upload` |
| `FilesProofs` | proofs of `Preflight` and `Delivery` |
| `ToolsProofs` | proofs of `Installation`, `CommandLine`, `FarmKill`, `Ledger`, `Smoke` and `Packages` |

`MCPods` (`Worker`, `Jobs`), `MCRunPod` (`Health`, `SyncPod`, `Growth`, `Upload`),
`MCFiles` (`Preflight`, `Delivery`) and `MCTools` (`Installation`, `CommandLine`,
`FarmKill`, `Ledger`, `Smoke`, `Packages`, `Volume`) put modules into one run that
share no state. A behaviour
there is a behaviour of one of them, chosen at the start, while the variables of
the others stay as they begin: every reachable state of each module is reached, a
property of one module means there what it means in it, and nothing is claimed
about their interplay.

### Dispatcher

State: `pool`, `status`, `running`, `full` and `idleSince` are the fields of
`PodState`; `pending` is the FIFO of task ids; `done`, `failed` and the cursor are
the lists `complete` and `fail_pending` append to; `placed`, `attempts`,
`queuedAt`, `renamed` are the fields of `TaskState`. `now` is the clock the
callers pass in. A pod id that left the pool may be used again; RunPod never does
that, so a second use stands for a new pod. `retask` mints
one new id per task; the model keeps whether it has happened, since the id is
only ever compared. History variables: `reports` (what PDG was told) and
`starved` (how long no pod has existed while an item waited).

The promises are `TypeOK`, `NothingLost`, `OnePlace`, `BooksAgree`,
`SlotsRespected`, `AttemptsLeft`, `ReportedOnce`, `IdleMeansEmpty` and the action
properties `IdleRetirementIsHarmless` and `StarvedLongEnough`. The refinement
`ImplementsLifecycle` maps where a task is to the state PDG knows.

### Worker

Each task has a run thread with a program counter (`Spawn`, `Store`, `CheckKill`,
`Wait`, `Settle`, and `Crash` for an exception at any of them), at most one killer
(`KillMark`, `KillPoll`, `KillTerminate`) and one timer (`ForceKill`). A step of
the model is the code between two accesses to what threads share. The processes
of a task are the shell (leader of its group) and one child that holds its output,
and are external: they start, exit well or badly and catch SIGTERM as they like;
SIGKILL ends a group. `Wait` ends only at the end of the output, as the loop over
`proc.stdout` does.

### Farm

The scheduler thread has a `phase`; each action is at most one remote call
with what the code does on its answer, so machines, workers, the artist and
the clock act between any two calls. A remote call is answered, fails with
no effect, or takes effect and the answer is lost. Lost calls, dead machines
and restarts share the budget `MaxFaults`. `machine[p]` is what RunPod bills;
`rec[p]` is the registry of its worker, abstracted to the state of each id.

`create_gpu_pod` is the one call that something overlaps. `creating` is the pod its
caller waits for, `coming` those RunPod was asked for and has not made: a machine may
come (`CreateMade`) before its call is answered, after the call has failed unheard, or
after the cook. onStopCook may begin between two ticks or while the call is out, and
then runs beside it. What the answer meets is one of three: a cook that goes on
(`CreateAnswered`), one that was cancelled, where the machine is terminated
or its end is retried (`CreateTooLate`), or one that `_reset_cook_state` has forgotten,
where the guard of `_scale_up` sees the new cook id and its terminate raises
(`CreateStranded`). Only a cancel stops a cook in the middle of a create: machines are
created for items that wait, and those are not answered. A cook begun again before the
answer comes is not modelled.

`told` and `finished` are history, as are `unheard` (pods whose create call failed),
`unswept` (the list of the stop was unreadable), `missed` (pods whose machine came
after that list was asked for), `logged` (pods the line STILL RUNNING AND BILLING
names) and `late` (pods whose create was answered after that line).
`StopLeavesOnlyKnown` says that what a stopped cook leaves running is `logged`, or
`OutOfSight`: a machine of a create that was unheard, late or still out, and which the
list did not show. Every one of these was in flight when the scheduler looked for the
last time.

Because `Farm` extends `Dispatcher`, its steps change the queue only by the
definitions of that module, so what `DispatcherProofs` proves of a step of it holds
of the farm.

Abstracted: prices (the budget may run out in any tick), deadlines of a pod that
does not answer (they may have passed at any failed poll: `Health` has the clock),
GPU choice, commands and files of a task.

### Health

One `Ask` per GET /health, between which time passes and the uplink comes and
goes; `Judge` is the end of the sweep. All decisions use the time the sweep began
(`at`), as `_poll_pods` does with its `now`. `flapped` is history:
whether the uplink changed during the sweep.
A pod may leave the pool between sweeps for other reasons (`Leave`), and a
booting one may be replaced on its first answer because it shares the sync pod's
machine.

### SyncPod

A caller (a Houdini session, an upload or download process) is a program
counter: `lock`, `look` (list_pods), `dedupe`, `start` and `replace` over the
pods of its list (`todo`), `create`, `wait` (wait_ready), `give` (delete a resumed
pod that did not wake), `again`, and `using` or `failed`. `Computer` says who
shares a lock file. `late` and `endless` are the capacity deadline: passed, and
absent from this round. Pods are numbered by creation, as `createdAt` orders
them. The housekeeping decides (`Inspect`) and acts (`Act`) in two calls; how long
a pod has to be idle is left open, so it may decide whenever no caller waits for
or uses the pod. `kept`, `astray` and `deduped` are history: pods whose end was
asked for and failed, pods made for a caller that had died, pods ended as
duplicates.

A caller that resumed a pod ends it after 75 s although another may be waiting
for it, or have just got it: the code promises nothing else, and no property says so.

### SyncWorker

A command is a shell wrapper that writes its exit code to `<handle>.rc` and exits
(`run`, `rc`); the handler that started it enters it into the table (`procs`) two
statements later; a restart of the container empties the table and ends the
commands but keeps the files. A caller polls (`exec_wait`) until it reads a code
or its deadline passes. The watchdog counts looks at which no call came for
`Orphan` ticks, no command of the table runs, no session or transfer was seen by
the sampler, and the CPU was quiet; then it stops the pod. A tick is one period of
the watchdog, in which the sampler has run (`due`); `Orphan` is more than one tick
because a look may come before the sample of its tick. `fresh` is history:
commands and sessions the last look could not know of.

### Jobs

The record is written in two steps (`Stage` a shared `.tmp`, `Publish` by rename)
from a copy read earlier. `host_render` is a program counter (`render`) with its
locals (`mine`, `cancelled`, `ok`); `host_cook` another (`host`), its watchdog a
third (`dog`), and the artist's threads are `pc`. On the farm the process writes
the package's record and the sessions write the home's; in the background both
write the same file. `late` is the runtime ceiling as the code divides it: 30 s
before, and at it. `run` counts starts of the container. `swept` and `unswept` are
history: the render pods have been listed, and a pod escaped that.

### Volume

A command is a record of what it read when (`cmd`), one step per access to shared
files; the index is written in place, so between `BeginWrite` and `EndWrite` a
reader without the lock finds nothing, and a writer that dies there leaves nothing.
A stamp is the moment before the lock was asked for (`at`), and the clock goes on
meanwhile (`Age`), so an older stamp may be written over a newer one. A download copies
outputs and then stamps the whole project. An output may be written at any time,
between the decision of a command and its deletion as well (`late`).

`got` is what somebody has; `told` (the last_used written last), `fetched` (the last
download) and `lost` are history. `lost` says how outputs nobody had were destroyed:
by force, written too late for the command to see, with their directory, older than a
download of something else, or `"new"`: seen, and newer than any download of
the project. `NewOutputsAreKept` says the last never happens, although what a command
reads of the index may be torn, lost or set back. `NoStampIsLost` is about the lock:
whoever writes leaves the entries of other projects as they are, and of its own
project what it was not asked to change. It does not say that a stamp never goes back.

### Upload and Growth

`Upload` has one action per call of `package_runner` that others can see: compare
with the farm's listing, read what will be compressed, take its mtime, send, unpack
by a detached command with its own life, set mtimes, stamp. Files are edited at any
time; a version is what the tolerance of two seconds can tell apart. `Growth` is
the guard every item passes, over a cache of sizes that is read, measured, written
and invalidated by different commands.

### Packages and Preflight

Both are mostly pure: paths are sequences of names over small trees, a path map is
a function of prefixes. `Preflight` follows an upload node from its scan through
the window to the stored answer and what is sent, with files appearing and
vanishing in between.

`Packages` follows the entries through chunks, roots and remote names, for two upload
nodes with different roots, and reported outputs back home. The download node plans
for each item above it by itself (`planned`, `fetch`), with the map the item was
scheduled with (`tag`), the sizes that stat finds, and, if nothing it reported maps, what
the ROP behind it says it wrote; so an output that two items report is fetched by each.
Custom roots of the two nodes, where the artist names directories instead of a map, are
not modelled.

### Delivery

A transfer takes the locks of its destinations in one order, decides what is
pending, lists the farm, copies, compares each local file with what was listed
(`Compare`: the size, and the mtime within two seconds), stats it a second time for its
receipt (`Stat`), and writes the receipts. Cooks render the same paths again, and local
files are deleted or written by hand at any moment, between those two looks as well:
`slipped` and `unsure` are history of that and of the receipts it gave, which
`ReceiptIsTrue` excepts. A file written by hand with the size and, within the tolerance,
the mtime of a frame cannot be told from it and gets a receipt; what is excluded is a
receipt for anything else. `RenderedAt` are the mtimes of the cooks, each more
than the tolerance after the one before.

### Installation

Files of a home in the order in which they are written, one action each, with an
installer that may die after every one, sessions that start and import modules at any
moment, and edits and rebuilds of the checkout. A version stands for the fingerprint; an
asset without a baked block (`Unbaked`) has none, and is never stale. A release is a
pair of code and assets; `dirty` are those staged while the checkout changed.

### CommandLine, FarmKill, Ledger, Smoke

`CommandLine`: shells load the whole configuration, work, and save the whole of
it; deletions run behind a request with a ceiling or as detached runs. `FarmKill`:
every pod is asked, classified, confirmed and terminated by separate calls while
owners go on working. What a pod says of itself fades: /health is not a call, so a pod
that a live cook keeps idle beyond the grace reads as one nobody uses, and is killed;
`KillSparesWork` speaks of pods with a task, a transfer, a session or a call within the
grace. `Ledger`: journals of lines that may be cut, the mirror, the pull, and the share
of a bill. `Smoke`: the child process that may die at any point, creates that land when
it is over (`flying`), the two checks, the cleanup and the verdict, over what an earlier
run left. The ledger is this cook's own only if the result names the cook and its file is
there; otherwise the code takes another file, which may say anything, and `PassIsReal`
says nothing of the ledger. Not modelled: `smoke --everyone`, and sessions of
the artist that create pods during the test.

## Runs

| Run | Instance | What it shows |
|---|---|---|
| `dispatcher` | 2 pods, 2 tasks, 1 slot, 2 attempts, wait 2, idle 1, clock to 2 | every order of the methods keeps the books and the promise to PDG |
| `pods` | worker: 2 tasks, 1 slot, fair threads; jobs: 2 sessions, 1 call, 1 fault | kills arrive, successes are over, slots come back; the artist's record follows the volume's; a host ends, and its render pods with it |
| `farm` | 2 pods, 2 tasks, 2 faults, no clock | billing, successes and stops under lost calls and late creates |
| `farm_live` | 2 pods (one at a time), 1 task, 1 fault, wait 1, idle 1, clock to 1, fairness | with expiry and idle retirement: items are answered, and once; stops end, bills end |
| `runpod` | health: 2 pods, boot 2, dead 1, grace 2, poll 2, clock to 6; sync pod: 2 callers on one computer, 3 pods, 2 faults, 1 visit; growth: 2 items of 2 or 3 GB, 15 of 20 GB taken, 4 uploads, 1 miss; upload: 2 files, 2 processes, 2 versions, 1 fault | deadlines and grace; one sync pod; uploads fit; what is skipped is current and what succeeds is whole |
| `sync_worker` | 1 caller, abandoned after 2 ticks, 2 looks, deadline 2, 2 faults, 2 visits | answers are real; the watchdog spares users and ends what nobody uses |
| `files` | review: 8 files, 2 cooks, 1 change; delivery: 2 transfers, 2 files, 2 cooks, 2 faults, 2 starts | nothing the cook needs is missed; receipts are true; transfers end |
| `tools` | installation: 2 assets, 2 installers, 1 session, 2 versions; command line: 2 shells, 2 volumes, 2 regions; kill: 1 pod, 3 artists; ledger: 1 cook, 2 machines, 2 tasks; smoke: 2 frames, 1 probe, 2 pods; packages: 2 upload nodes, limit 3, 1 item above the download node, 2 reports; volume: 1 project, 1 output, 2 commands, prune after 2, clock to 2 | one build per session, region with volume, costs add up, passes are real, outputs come home, kills spare work, new outputs are kept, no writer drops what another recorded |
| `volume_unfetched` (violation) | as the volume of `tools` | outputs nobody has are deleted without force |
| `volume_pruned` (violation) | as the volume of `tools`, prune after 3, clock to 3 | a project in use is pruned |
| `ledger_twice` (violation) | as the ledger of `tools` | a machine counts its own tasks twice |
| `late_create` (violation) | as `farm` | a machine created while the cook ends stays |

**Bounds.** Two pods are enough for an item to move from a lost pod to another and for
one pod to answer while the other does not. Two tasks with one slot make one wait for
the other. Two attempts are the smallest number for which an item is retried and then
fails. Two faults allow a lost call and the death of the machine it was meant for, or
two losses of one item. For `Health`, a clock of 6 lets a pod boot, run, fail, be
granted the grace and outlive it (1 + 2 ticks, polls every 2). In `farm`, `MinPods` is
above the pool so that no pod is retired without a clock; `farm_live` has retirement,
and one tick is as long as both waits. For `SyncPod`, three pods are one that is ended
or lost, its replacement and one that arrives late; two faults let a caller die and an
end fail in one history. For `Jobs`, one session launches and another calls; one fault
is a failed sweep, a lost pod or a restart. For `SyncWorker`, two looks and two ticks of
silence let something arrive between the looks. For `Volume`, two commands are a writer
and a reader or two writers; two ticks are a stamp, an output newer than it and a
project old enough to prune. It has one project, so that the entries of other projects
survive (`NoStampIsLost`) rests on the proof. For `Packages`, one item above the
download node is enough, for each is planned by itself; two reports share a directory or
do not. For `Delivery`, a file by hand has a time between two cooks, within
the tolerance of both, and the size of a frame or another. For `Upload`, two processes and two
versions are an item that is killed and its successor over an edited file. For `Growth`,
15 of 20 GB let the first item stay below 85 % or pass it, by its zone. For
`Installation`, two installers interleave with one session that starts in the middle; an
unbaked asset is looked at where houdini.env names no root. For `Preflight`, the eight
files are a scene, textures by sequence and by name, one in a directory that is never
walked, a frame, a layer only the stage reads, and a directory too large to list with a
second reference into it. Every constant named `Max...` that is not a parameter of the
code (`MaxAttempts`, and the `MaxPods` of `Farm`, are the artist's) is a counter that
stops: of ticks (`MaxTime`, `MaxSeconds`), pods created (`MaxPods` of `SyncPod`), cooks
and commands (`MaxCook`, `MaxCooks`, `MaxCooksP`, `MaxCommands`, `MaxCalls`, `MaxKills`,
`MaxVisits`, `MaxStarts`, `MaxUploads`, `MaxInstalls`), changes (`MaxVersion`,
`MaxCode`, `MaxChanges`, `MaxEdits`, `MaxAmount`), reported outputs (`MaxReports`) and
failures (`MaxFaults`, `MaxItemFaults`, `MaxMisses`, `MaxTrouble`). Nothing else is cut
off.

**Deadlock.** CHECK_DEADLOCK FALSE is said where the system may come to rest: a cook
that is over (`farm`, `farm_live`, `late_create`), a job that is over (in `pods`),
commands that are done when the clock has run out (`volume_unfetched`, `volume_pruned`),
a cook whose ledger is written (`ledger_twice`), and the other runs of several modules,
of which some end. `dispatcher` and `sync_worker` check it.

**Fairness.** `Worker`: threads that are not blocked run; an ended process closes its
output; timers fire; a killed group dies. No fairness makes a process end by itself.
`Farm`: PDG keeps calling onTick (its tick period is the scheduler's own parameter) and
the thread goes on between two calls (weak fairness on its steps); RunPod makes what it
was asked for, machines boot, tasks end and the watchdog looks (weak); the grace of a
held-back success, the deadline of a silent pod and the grace of a task its worker does
not know are over at some tick (strong: they are tested by a clock that runs on, and the
test may come too early any number of times). `SyncWorker`: its threads, the clock and
the pollers go on (weak); commands, sessions and transfers need not end. `Jobs`: the
supervisor, its watchdog, the short steps of the process between two cooks and a session
in the middle of a save go on (weak); a cook owes nothing, not even to come back from a
call; `HostEnds` names the clock it needs. `Delivery`: each transfer goes on (weak), and
how often transfers start is bounded, so the locks are free in the end. `SyncPod`, whose
liveness is stated but not in a run: a caller goes on and its deadlines pass (weak); it
has the lock some time if it is free again and again (strong: it polls five times a
second). There RunPod owes nothing, not even a machine. Faults, cancels and crashes are
never fair. `EveryItemAnswered` excuses a cook past its budget: no machine is added
then, and an item may wait until the artist ends the cook.

Some modules state more than the runs ask for. Proved: invariants of types, and
`NothingLost`, `OnePlace`, `AttemptsLeft`, `IdleMeansEmpty` (Dispatcher),
`CacheCountsMarked` (Growth), `NotSentAgain` (Upload), `NobodyWaitsInCircle`
(Delivery), `RerunKeeps`, `DeletesAreWhole` (CommandLine), `OthersKeepTheirs`
(FarmKill). Only stated: `KilledShellDies`, `EnsureEndsByDeadline`, `WaitEnds`,
`SetupLeavesWorking`, `CompleteIsPublished`, `EndIsOnRecord`, `FinalIsFinal`,
`CancelEnds`, `EachFileOnce`, `FilesLand`, `ComesHome`, `OnlyAgreedIsSent`,
`AnswerIsKept`, `CookGoesOn`. They hold on the same instances;
to check one, name it in the configuration of its module's run.

## Findings

- **An output directory is deleted unasked** (`volume_unfetched`). `rm-paths` looks
  for "render", "geo" and so on below the directory it is given, so the render
  directory itself never counts as holding outputs. And a download of one item
  stamps the project, after which older outputs of every item count as downloaded.
- **A machine counts its own tasks twice** (`ledger_twice`). The mirror of a cook's
  journal comes back from the volume under `<user>/<cook>.jsonl`, next to the
  `<cook>.jsonl` it was made from, and both are added up.
- **prune deletes a project in use** (`volume_pruned`). It reads the index without the
  lock. While another command rewrites it, or after one died doing so, it finds none,
  and goes by the mtime of the project's directory, which says when the project was
  made, not when it was used.
- **A machine outlives the cook it was created for** (`late_create`). When `create_gpu_pod`
  returns after onStopCook has run to its end, the guard
  of `_scale_up` wants to terminate the pod at once, but `_reset_cook_state` has dropped
  the API client: the terminate raises AttributeError, and the pod is neither ended nor
  put on the retry list. Its own watchdog ends it (`BillingEnds`).

### Behaviours the modules show, which no run singles out

Those with a name in parentheses contradict a definition of the module of that name.

- **A killed task frees its slot before it is dead** (`Worker.LiveTasksWithinSlots`).
  `kill()` sets "killed" at once; `busy()` counts "running". For up to the ten
  seconds of the SIGKILL timer more than `RPFARM_SLOTS` tasks run. And when the
  shell has exited while a process it started holds the output, `kill()` signals
  nothing (`pod/worker.py:754`).
- **The end of an outage in the middle of a sweep** (`Health.OutageCostsNothing`).
  Pods asked before the uplink came back have failed, one asked after it answers:
  the outage is over, and the first are judged by the base deadline, which ran
  through the outage.
- **Staggered polls.** The poll interval is per pod. A sweep that asks a single
  dead pod looks like an outage, and the pod keeps its tasks for the grace (300 s)
  instead of the deadline (60 s), until a sweep asks it together with a pod that
  works.
- **Deduplication without a common lock** (`SyncPod.DedupeIsSafe`). Two computers
  both find nothing and both create. Whoever lists next keeps the older pod and
  ends the younger, which the other may be uploading to.
- **0 is for ever** (`SyncPod.EnsureEnds`). `ensure_sync_pod` hands what is left of
  the wait to the next round, where 0 means "no deadline".
- **The timer and a new caller.** The timer asks whether the pod is idle, then
  stops it; a caller that adopts it in between waits for a pod that has been
  stopped, and fails after 300 s (`rpfarm/monitoring.py:66`). The watchdog of the
  pod has the same window between its last look and RunPod's stop.
- **A cancel hides how a job ended** (`Jobs.CancelledEndIsKnown`). In background
  mode a session that read the record before the cook ended writes
  "cancel_requested" over its final word. Unlocked saves can also lose the list of
  delivered files, and two writers share one temporary name. The watchdog of a host
  may end the pod before the record is final (`pod/host_cook.py:374`); without its
  environment a host leaves the record "submitted"; a host that could not end itself
  and is restarted runs the job again over a final record.
- **Look, measure, delete.** rm, rm-paths and prune decide and delete with a
  measurement of the tree in between: an output written meanwhile goes with them.
  A writer that dies in the middle leaves an empty index for good; a command that waited
  long for the lock sets a stamp back. The rules `volume.py:27` says are
  enforced again by `cmd_rm_paths` are enforced only by the caller.
- **Saved between two looks.** A file saved between its compression and its stat,
  or twice within two seconds at one size, is taken for sent. The detached unpack
  of an item that was killed may run under its successor.
- **Bytes in flight.** The guard of the volume's size does not count what other
  items are sending; the 15 % it keeps free are what covers them.
- **Review** (and `Preflight.LargeFolderIsOneLine`). A directory of more than 20 000
  files is to stay "a single aggregate leaf" (`rpfarm/preflight.py:147`); another
  reference into it makes it a folder of the tree that holds that reference alone, and
  the rest of it is neither shown nor sent (`Swallowed`). A cancel after the ten-minute
  timeout of the window has no effect; answers are stored whole, so refusals of files
  that are absent at the time are forgotten; a stage that does not cook loses its USD
  references silently.
- **Paths.** An upload outside of $JOB is in the map only if its node's file was
  written before the cook started (`Packages.MapCoversUploads`); a file named by the
  real path of a linked $JOB lands elsewhere (`Packages.LinkedJobLands`).
- **Between two renames** (and `Installation.CookIsSeen`). `setup` replaces the copy
  with two renames, and between them there is none, though its docstring promises
  "either the complete old copy or the complete new one". A second cook at a time
  holds no lock, so `setup` may not see it. A session idle during a swap imports its
  later modules from the new build. An activation that dies before `release.json`
  leaves a home that the next `setup` takes for unmanaged: the guard in the assets
  then refuses to cook. Edits of the checkout during staging give a release of two
  builds under one id, which is never repaired.
- **A fallback that nobody updates** (`Installation.SwitchIsOneStep`). An activation
  that dies after it has removed RPFARM_ROOT from houdini.env leaves a fallback
  package that names the old root. If `setup` then writes the line again, the next
  activation finds a fallback, does not write one (`rpfarm/releases.py:84`), and
  removes the line: a session that starts before its last rename gets the old root,
  though "Each intermediate startup remains valid" (`rpfarm/releases.py:82`). It
  takes a third installation, more than the runs have.
- **Whole-file saves.** Of two commands that save the configuration the later one
  wins with everything it loaded earlier. Two first commands mint two tokens, and a
  pod made with the losing one answers 401. `recreate` that dies between create and
  save leaves a volume nobody names.
- **`--everyone` alone kills a colleague's rendering pod** (`FarmKill.BusyNeedsItsFlag`).
  "foreign" is decided before "busy", though the docstring (`cli.py:1313`) says of
  the two flags that "neither is implied by anything else". Work that starts after
  the probe is lost, as is the rest of the list after a terminate that is refused.
- **A cut line of a journal** swallows the one behind it and hides the rest of its
  file from `load_all`; a journal once pulled is never refreshed.
- **A cook that is idle between tasks** asks its pods for /health only: after 180 s
  `farm kill` takes them for unused.
- **Smoke.** The ledger check counts rows, so a probe's row can stand for a missing
  frame's; without the cook's own ledger another's is judged; a pod whose create lands
  after the last listing stays; a failed listing counts as no pods left; the cleanup
  ends the artist's other pods; the file of a probe is not checked for age.

## Proofs

All theorems hold for every set of pods, tasks, callers, commands, files, references
and so on, and every value of the limits the ASSUMEs allow. What those ask for is
little: natural numbers; slots, attempts, Max Pods and cooks of a delivery at least
one; the watchdog's silence more than one tick; finitely many pods, tasks, items,
machines, frames and nodes, at least one machine; frames of a later cook later by more
than the tolerance; accounts, zones and the line of
houdini.env of the right kind; and, for the review, paths that are sequences of
names, no file that is also a directory, and no reference to the root of the disk. `Packages`
asks that neither of $JOB and the project on the farm lies below the other, and of
finitely many outputs that each is below the project and none below the place in
`_ext` that $JOB or the project itself would have: no rule of a path map leads there,
since $JOB has one of its own.

- **Dispatcher.** `Inv` is TypeOK and the seven safety invariants with two
  strengthenings: `PoolAlive` (a pod in the pool has not been used up) and
  `StarvedCovers` (the history `starved` is at least the time since an item was
  queued or a pod last existed). One lemma per action shows that it preserves
  each conjunct; the loss of a pod, which moves a set of tasks to the queue and
  to the failures at once, has lemmas of its own. `Refinement` shows for each
  action that a task either keeps its abstract state or takes one abstract step.
- **Worker.** `WorkerInv` relates, for each task, the program counters of its
  three threads, its process and its state; each action changes one task, so the
  proof splits into the task that moved and the others.
- **Farm.** `FarmInv` is the Dispatcher's `Inv`, types, the machines
  (`BillingIsTracked`, `RetiredLeavesPool`, `StopLeavesOnlyKnown`, what a sweep
  has found, what each loop still has to visit, where a machine that is on its way
  will be found) and the outcomes (`told` and
  `settling` are `done`, disjoint and `finished`; a worker that reports a success
  has finished it). First every step is shown to be a Dispatcher step or to leave
  it alone (`StepCallsDispatcher`), which gives `Inv'` from `DispatcherProofs`;
  then machines and outcomes are treated action by action.
- **Preflight.** `PreflightInv`: from the scan to the send, a file the cook needs is
  on a line of the tree that is checked unless the artist says otherwise: its own, or
  that of a directory too large to list (`OnLine`). It rests on four facts, each a
  chain of lemmas: what upstream nodes read is found although the search stops after
  as many steps as there are nodes (`BranchIsClosed`, by counting); what a reference
  names, the file or a directory above it is what `globbed` finds (`NeededIsFound`);
  build_tree keeps it, under the first source that names it and so not as an output
  (`ScanShows`), also after a move to the trash (`TrashShows`); and what stays checked
  is sent, as files or as whole directories (`SendCovers`). `NothingMissed` follows.
- **Health.** `SweepInv` says what answers tell: without a change of the
  uplink during a sweep, an answer means it is up and the silence of a working
  pod that it is down. So a working pod that fails in such a sweep fails with
  every other pod asked, and the deadline used is the one with the grace.
  `OverstayInv` adds that a pod that failed has a time of its first failure.
- **SyncPod.** `OneLock` assumes callers of one computer that wait for the lock.
  `SyncInv` says that one caller at a time is in the loop and what its place says
  of the pods: at `start` every pod not excepted is still in `todo`, at `create`
  there is none. A general lemma (`CallerStep`) gives the invariant from what a
  step does to the lock, to its own place and to the set of pods; each action is
  then checked against it. `Typed` needs no `OneLock`.
- **SyncWorker.** `TableInv` ties a caller's place to the table and the processes;
  `WatchInv` says that a session the watchdog has not been told of was seen by a
  sample at most one tick ago, which is less than `Orphan`, so a look that follows
  cannot find the pod quiet: `EndSparesUsers`.
- **Volume.** `LockInv`: a command that writes has the lock and holds the index as
  it is, so what it does not change stays (`NoStampIsLost`, for any number of projects).
  `DownloadInv`: no entry, no copy of one and no stamp on its way has a download later
  than the last there was. `DeleteInv`: so a command about to delete without force saw
  every output not written since as no newer than that download; a torn index or
  an older stamp only make it see more that is new (`NewOutputsAreKept`).
- **Jobs.** `Supervised`: a process on the farm runs only under a supervisor that
  waits for it or kills it. `PodsKnown`: before the supervisor ends its pod, render
  pods were listed or never asked for (`NothingOutlivesHost`). `WordKept`: once the
  package is final in the first run nobody is left to change it, and every final
  copy a session holds, in memory, half written or on disk, has its word
  (`HomeFollowsPackage`).

- **Growth.** `GrowthInv` accounts for bytes: a cached size counts what was marked
  before it was measured, what RunPod said last is no more than the volume has, and
  an item that has every figure it needs knows a size no smaller than what had been
  marked when it looked. With `NewSizeHolds` (rounding up to tens) that is
  `SureItemsFit`; `CacheCountsMarked` is part of it.
- **Upload.** `UploadInv` says for each item, by the step it is at, what it knows of
  each of its files that nobody edited under way: skipped is current, staged is
  what was read, sent is at the farm, unpacked and stamped is whole; and the same of
  the detached command that may outlive it. `SkippedIsCurrent`, `NotSentAgain` and
  `SuccessIsWhole` follow.
- **Delivery.** `ReceiptInv` follows a frame through a transfer: what it wants, what
  the farm listed, what it compared and stamped and the receipt are each of its cook or
  later, by size and mtime within the tolerance, unless it slipped between two looks.
  `LockInv`: a transfer that waits holds only locks below the one it waits for, so
  nobody waits in a circle.
- **Installation.** `InstallInv` says of each root Houdini may be told (release,
  copy, checkout) what lies there, and of each installer what its staging directory
  holds at its step; a release is whole from its rename on and is never written
  again (`ThereStays`), so a session keeps one build.
- **CommandLine.** `CliInv`: a configuration that names a volume has its region,
  unless it was edited blindly, in the file and in the copy every command holds.
- **FarmKill.** `DoomIsJudged`: whoever is on the list was quiet and mine when asked,
  unless a flag lifted that.
- **Ledger.** `MergeReconciles` needs the types of the journals, that a sum over
  finitely many records is a number (`SumIsNat`), and that shares rounded down and
  the idle rest add up to the amount (`SharesAddUp`).
- **Smoke.** `ResultIsReal` and `LearntIsReal`: the result file says what the nodes
  did, what the parent learned it learned after the child was over, and what is alive
  after the last listing was in flight then.
- **Packages.** `PackagesInv` says what a path map looks like (`MapForm`: $JOB to the
  project, any other directory below `_ext`) and that what was reported names an
  output, at either end. A path below `_ext` is localized by the rule that its local
  name is delocalized by (`RoundTrip`), so both names give one pair. The chunks of a
  list partition it, whatever the sizes (`ChunkParts`, by induction along the fold);
  with the last names equal, the roots of an item lead from each local file to where
  the job wrote it (`DownloadsAre`). `OutputsAreFetched` follows.

**Induction.** The library's induction theorems take an operator as a parameter, which
the provers cannot instantiate. Where a fold or a fixed point is computed (`SumIsNat`,
`ChunkParts`, `BranchIsClosed`), the induction is done by hand on a set of numbers: were
the set of those for which the claim fails not empty, it had a smallest member
(`SmallestNumber`, from NatLessThanWellFounded and WFMin).

Only model-checked: liveness under fairness (`SlotComesBack`, `EveryItemAnswered`,
`StopEnds`, `BillingEnds`, `HostEnds`, `UnusedPodEnds`, `TransferEnds`), for the
prover does not reason about fairness or ENABLED, and the four violations. Every
invariant and every action property that a passing run checks is proved.

## Plan

Built, in this order: Dispatcher, Worker, Farm, Health, SyncPod; then SyncWorker,
Jobs, Volume, Upload, Growth, Delivery, Preflight, Packages, Installation,
CommandLine, FarmKill, Ledger, Smoke; then the proofs of SyncWorker, Volume, Jobs,
Growth, Upload, Delivery, Installation, CommandLine, FarmKill, Smoke, Ledger,
Preflight and Packages. What would come next:

1. Proofs: of Packages `EachFileOnce` and `ComesHome`, and of Preflight
   `OnlyAgreedIsSent` and `AnswerIsKept`.
2. Compositions: `SyncPod` with `SyncWorker` (a caller adopts a pod its watchdog is
   about to end), `Upload` with `Volume` (a prune while an item is on its way),
   `Farm` with a controller of its own budget.
3. `SharedMQ`: `ensure_shared_mq` by several sessions on a sync pod that comes and
   goes.

Not modelled, and why:

- the message queue server: a third-party program; that it is started is a detached
  command of `SyncWorker`, that a client is connected a session of it;
- prices and the running estimate of the status tab: the budget is a choice at any
  tick of `Farm`, the bill a number of `Ledger`;
- the making of a job's package before a pod exists, the file server and the XPU
  probe of the worker, the tree view of the volume, discovery of Houdini
  installations, packing of a Houdini, prompts, doctor's read-only checks: they
  change no state that others read;
- user interface, drawing, progress bars, texts, scene building;
- rclone, ssh, TLS, JSON and the container image: I/O, modelled by what it does to a
  file where that matters, or run before the farm does.
