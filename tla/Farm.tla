-------------------------------- MODULE Farm --------------------------------
(***************************************************************************)
(* A cook on the farm: the scheduler's tick (class RunPodFarmScheduler of  *)
(* the HDA's PythonModule) driving the Dispatcher, the RunPod API that     *)
(* creates and terminates machines, and the workers on those machines.     *)
(*                                                                         *)
(* The scheduler thread is one process; each of its steps is at most one   *)
(* remote call, with what the code does on the answer.  Between two steps  *)
(* machines boot, die and restart, tasks end, the artist cancels and       *)
(* Houdini may crash.  A remote call is answered, or fails without effect, *)
(* or takes effect and its answer is lost; lost calls, dead machines and   *)
(* restarted workers are bounded by MaxFaults.                             *)
(*                                                                         *)
(* Money, prices and GPU choice are left out: the budget may run out at    *)
(* any tick.  The deadlines of dispatch.pod_timed_out may pass at any      *)
(* failed health check.  Deliveries are a component of their own.          *)
(***************************************************************************)
EXTENDS Dispatcher

CONSTANTS
  MaxPods,       \* rpfarm_maxpods
  MaxFaults      \* bound on lost calls, lost machines and restarts

ASSUME FarmAssumption == MaxPods \in Nat \ {0} /\ MaxFaults \in Nat

VARIABLES
  cook,          \* "cooking", "stopping", "stopped", "crashed" (Houdini died)
  phase,         \* where the scheduler thread is
  leftPods,      \* pods the loop of this phase has still to visit
  leftTasks,     \* tasks the loop of this phase has still to visit
  doomed,        \* pods _poll_pods will give up on
  wanted,        \* machines _scale_up has still to create
  creating,      \* the pod whose create_gpu_pod call the thread waits for, or NoPod
  coming,        \* pods asked of RunPod whose machine is not there yet
  raised,        \* _raised_for_work
  refused,       \* the last _scale_up created nothing (_last_scale_failure)
  overBudget,    \* _cost_tracker["over_budget"]
  retries,       \* TerminateRetries.pending()
  settling,      \* _settling
  canceling,     \* context.canceling
  machine,       \* the pod at RunPod: "gone", "booting" or "up"
  rec,           \* task id -> state in the registry of each worker
  told,          \* history: items reported by workItemSucceeded
  finished,      \* history: items a process of which ended well
  unheard,       \* history: pods whose create call was never answered
  unswept,       \* history: _sweepOrphanPods failed
  missed,        \* history: pods whose machine came after _sweepOrphanPods had asked
  logged,        \* history: pods the line STILL RUNNING AND BILLING names
  late,          \* history: pods whose create was answered after that line
  faults         \* how many faults have happened

threadVars == <<cook, phase, leftPods, leftTasks, doomed, wanted, creating>>
schedVars  == <<raised, refused, overBudget, retries, settling, canceling>>
worldVars  == <<machine, rec>>
callVars   == <<coming, unheard>>
stopPast   == <<unswept, missed, logged, late>>
pastVars   == <<told, finished, callVars, stopPast, faults>>
farmVars   == <<dispatcherVars, threadVars, schedVars, worldVars, pastVars>>

\* the task id a task has now: retask() mints one new id
Ids    == Tasks \X BOOLEAN
Id(t)  == <<t, t \in renamed>>

Billing(p) == machine[p] # "gone"
Up(p)      == machine[p] = "up"
Busy(p)    == {i \in Ids : rec[p][i] = "running"}

\* a fault happens in this step, or none does
Fault   == faults < MaxFaults /\ faults' = faults + 1
NoFault == UNCHANGED faults
Faults(n) == faults + n =< MaxFaults /\ faults' = faults + n

\* where onStopCook is once _sweepOrphanPods has asked RunPod for its list
AfterSweep == {"stoporphans", "stoppods", "stopretry", "stopend"}

EmptyRegistry == [i \in Ids |-> "absent"]

FarmInit ==
  /\ Init
  /\ cook = "cooking" /\ phase = "ready"
  /\ leftPods = {} /\ leftTasks = {} /\ doomed = {}
  /\ wanted = 0 /\ creating = NoPod
  /\ raised = FALSE /\ refused = FALSE /\ overBudget = FALSE
  /\ retries = {} /\ settling = {} /\ canceling = FALSE
  /\ machine = [p \in Pods |-> "gone"] /\ coming = {}
  /\ rec = [p \in Pods |-> EmptyRegistry]
  /\ told = {} /\ finished = {} /\ unheard = {}
  /\ unswept = FALSE /\ missed = {} /\ logged = {} /\ late = {}
  /\ faults = 0

Going(from) == phase = from /\ cook \in {"cooking", "stopping"}
Goto(to)    == phase' = to /\ UNCHANGED <<cook, leftPods, leftTasks, doomed, wanted, creating>>

\* terminate_pod on every pod of S: Reached are gone, and only of Heard does
\* the scheduler know; the others go on, or stay on, the retry list
TerminateForgets(S) ==
  \E Reached \in SUBSET S : \E Heard \in SUBSET Reached :
    /\ machine' = [p \in Pods |-> IF p \in Reached THEN "gone" ELSE machine[p]]
    /\ rec' = [p \in Pods |-> IF p \in Reached THEN EmptyRegistry ELSE rec[p]]
    /\ retries' = retries \ Heard
    /\ Faults(Cardinality(S \ Heard))

Terminate(S) ==
  \E Reached \in SUBSET S : \E Heard \in SUBSET Reached :
    /\ machine' = [p \in Pods |-> IF p \in Reached THEN "gone" ELSE machine[p]]
    /\ rec' = [p \in Pods |-> IF p \in Reached THEN EmptyRegistry ELSE rec[p]]
    /\ retries' = (retries \union S) \ Heard
    /\ Faults(Cardinality(S \ Heard))

-----------------------------------------------------------------------------
(* onSchedule *)

\* should_defer: a deferred item is offered again, nothing changes
Deferred == Len(pending) >= 3 * (IF pool = {} THEN 1 ELSE Cardinality(pool))

Schedule(t) ==
  /\ Going("ready") /\ cook = "cooking" /\ ~ canceling
  /\ ~ Deferred
  /\ Enqueue(t)
  /\ Goto("placing")
  /\ UNCHANGED <<schedVars, worldVars, pastVars>>

-----------------------------------------------------------------------------
(* _dispatch_pending, from onSchedule ("placing") and onTick ("dispatch")   *)

\* the call did not get through, or its answer did not
SubmitLost(p) ==
  /\ Fault \/ (~ Up(p) /\ NoFault)
  /\ MarkFull(p)
  /\ UNCHANGED rec

\* the worker took the task and the answer was lost: it runs, and the
\* scheduler does not know
SubmitUnheard(p, t) ==
  /\ Up(p) /\ rec[p][Id(t)] = "absent" /\ Cardinality(Busy(p)) < Slots
  /\ rec' = [rec EXCEPT ![p][Id(t)] = "running"]
  /\ Fault
  /\ MarkFull(p)

Accepted202(p, t) ==
  /\ Up(p) /\ rec[p][Id(t)] = "absent" /\ Cardinality(Busy(p)) < Slots
  /\ rec' = [rec EXCEPT ![p][Id(t)] = "running"]
  /\ Assign(p)
  /\ NoFault

Busy429(p, t) ==
  /\ Up(p) /\ rec[p][Id(t)] = "absent" /\ Cardinality(Busy(p)) >= Slots
  /\ MarkFull(p)
  /\ UNCHANGED rec /\ NoFault

Duplicate409(p, t) ==
  /\ Up(p) /\ rec[p][Id(t)] # "absent"
  /\ Retask(t) \/ FailPending(t)
  /\ UNCHANGED rec /\ NoFault

Submit ==
  /\ Going("placing") \/ Going("dispatch")
  /\ pending # <<>>
  /\ \E p \in Picked : LET t == Head(pending) IN
       SubmitLost(p) \/ SubmitUnheard(p, t) \/ Accepted202(p, t) \/ Busy429(p, t)
         \/ Duplicate409(p, t)
  /\ UNCHANGED <<threadVars, schedVars, machine, told, finished, callVars, stopPast>>

DispatchDone ==
  /\ Going("placing") \/ Going("dispatch")
  /\ pending = <<>> \/ Picked = {}
  /\ phase' = IF phase = "placing" THEN "ready" ELSE "tasks"
  /\ leftTasks' = IF phase = "placing" THEN {} ELSE InFlight
  /\ UNCHANGED <<dispatcherVars, cook, leftPods, doomed, wanted, creating, schedVars,
                 worldVars, pastVars>>

-----------------------------------------------------------------------------
(* onTick, up to _dispatch_pending *)

\* release_full; a retry is due or it is not
TickStart ==
  /\ Going("ready") /\ cook = "cooking" /\ ~ canceling
  /\ ReleaseFull
  /\ \E due \in SUBSET retries : leftPods' = due
  /\ phase' = "retry"
  /\ UNCHANGED <<cook, leftTasks, doomed, wanted, creating, schedVars, worldVars, pastVars>>

\* _retryTerminations, from onTick and from onStopCook
RetryTerminate(p) ==
  /\ Going("retry") \/ Going("stopretry")
  /\ p \in leftPods
  /\ leftPods' = leftPods \ {p}
  /\ Terminate({p})
  /\ UNCHANGED <<dispatcherVars, cook, phase, leftTasks, doomed, wanted, creating, raised,
                 refused, overBudget, settling, canceling, told, finished, callVars, stopPast>>

RetriesDone ==
  /\ Going("retry") /\ leftPods = {}
  /\ phase' = "poll"
  /\ leftPods' = pool
  /\ UNCHANGED <<dispatcherVars, cook, leftTasks, doomed, wanted, creating, schedVars,
                 worldVars, pastVars>>

\* _poll_pods asks everyone first.  A pod that answers for the first time is
\* promoted (_promote_pod); one that landed on the sync pod's machine is
\* replaced, which RunPod's placement makes a fault of its own.
PollAnswered(p) ==
  /\ Up(p)
  /\ \/ /\ status[p] = "CREATED" /\ Promote(p) /\ UNCHANGED <<worldVars, retries, faults>>
     \/ /\ status[p] = "CREATED" /\ PodDead(p)
        /\ \E Reached \in SUBSET {p} : \E Heard \in SUBSET Reached :
             /\ machine' = [machine EXCEPT ![p] = IF p \in Reached THEN "gone" ELSE @]
             /\ rec' = [rec EXCEPT ![p] = IF p \in Reached THEN EmptyRegistry ELSE @]
             /\ retries' = (retries \union {p}) \ Heard
             /\ Faults(1 + Cardinality({p} \ Heard))
     \/ /\ status[p] = "RUNNING" /\ UNCHANGED <<dispatcherVars, worldVars, retries, faults>>
  /\ UNCHANGED doomed

\* no answer, and its deadline has not passed
PollFailed(p) ==
  /\ Fault \/ (~ Up(p) /\ NoFault)
  /\ UNCHANGED <<dispatcherVars, worldVars, retries, doomed>>

\* no answer for too long
PollTimedOut(p) ==
  /\ Fault \/ (~ Billing(p) /\ NoFault)
  /\ doomed' = doomed \union {p}
  /\ UNCHANGED <<dispatcherVars, worldVars, retries>>

Poll(p) ==
  /\ Going("poll")
  /\ p \in leftPods
  /\ leftPods' = leftPods \ {p}
  /\ PollAnswered(p) \/ PollFailed(p) \/ PollTimedOut(p)
  /\ UNCHANGED <<cook, phase, leftTasks, wanted, creating, raised, refused, overBudget,
                 settling, canceling, told, finished, callVars, stopPast>>

PollDone ==
  /\ Going("poll") /\ leftPods = {}
  /\ Goto(IF doomed = {} THEN "dispatch" ELSE "giveup")
  /\ UNCHANGED <<dispatcherVars, schedVars, worldVars, pastVars>>

\* _giveUpOnPod: terminate it, requeue what it ran ...
GiveUpOnPod(p) ==
  /\ Going("giveup")
  /\ p \in doomed
  /\ doomed' = doomed \ {p}
  /\ PodDead(p)
  /\ Terminate({p})
  /\ phase' = "tell"
  /\ UNCHANGED <<cook, leftPods, leftTasks, wanted, creating, raised, refused, overBudget,
                 settling, canceling, told, finished, callVars, stopPast>>

\* ... and _reportFailures
Tell ==
  /\ Going("tell")
  /\ ReportFailures
  /\ Goto(IF doomed = {} THEN "dispatch" ELSE "giveup")
  /\ UNCHANGED <<schedVars, worldVars, pastVars>>

-----------------------------------------------------------------------------
(* _poll_tasks to _reportFailures *)

\* What becomes of a task whose pod says its state is s.  A task the worker
\* does not know may be one it has not stored yet: it is failed
\* (_failUnaccountedTask) once _TASK_UNKNOWN_GRACE is over.
RetireUnknownWaits(t, s) ==
  \/ /\ s \in {"running", "absent"}
     /\ UNCHANGED <<dispatcherVars, settling>>
  \/ /\ s = "succeeded"
     /\ Complete(t, TRUE)
     /\ settling' = settling \union {t}
  \/ /\ s \in {"failed", "killed"}
     /\ Complete(t, FALSE)
     /\ UNCHANGED settling

RetireUnknownIsDone(t, s) ==
  \/ /\ s \in {"running", "absent"}
     /\ UNCHANGED <<dispatcherVars, settling>>
  \/ /\ s \in {"succeeded", "absent"}
     /\ Complete(t, TRUE)
     /\ settling' = settling \union {t}
  \/ /\ s \in {"failed", "killed"}
     /\ Complete(t, FALSE)
     /\ UNCHANGED settling

Retire(t, s) ==
  \/ /\ s \in {"running", "absent"}
     /\ UNCHANGED <<dispatcherVars, settling>>
  \/ /\ s = "succeeded"
     /\ Complete(t, TRUE)
     /\ settling' = settling \union {t}
  \/ /\ s \in {"failed", "killed", "absent"}
     /\ Complete(t, FALSE)
     /\ UNCHANGED settling

PollTask(t) ==
  /\ Going("tasks")
  /\ t \in leftTasks
  /\ leftTasks' = leftTasks \ {t}
  /\ \/ Up(placed[t]) /\ Retire(t, rec[placed[t]][Id(t)]) /\ NoFault
     \/ (Fault \/ (~ Up(placed[t]) /\ NoFault)) /\ UNCHANGED <<dispatcherVars, settling>>
  /\ UNCHANGED <<cook, phase, leftPods, doomed, wanted, creating, raised, refused, overBudget,
                 retries, canceling, worldVars, told, finished, callVars, stopPast>>

TasksDone ==
  /\ Going("tasks") /\ leftTasks = {}
  /\ Goto("settle")
  /\ UNCHANGED <<dispatcherVars, schedVars, worldVars, pastVars>>

\* _settleResults: an item is reported when its results have landed or its
\* grace is over
Settle(Ready) ==
  /\ Going("settle")
  /\ told' = told \union Ready
  /\ settling' = settling \ Ready
  /\ Goto("report")
  /\ UNCHANGED <<dispatcherVars, raised, refused, overBudget, retries, canceling, worldVars,
                 finished, callVars, stopPast, faults>>

SettleResults == \E Ready \in SUBSET settling : Settle(Ready)

Report ==
  /\ Going("report")
  /\ ReportFailures
  /\ Goto("budget")
  /\ UNCHANGED <<schedVars, worldVars, pastVars>>

-----------------------------------------------------------------------------
(* The budget *)

\* below 120%; from 100% on no machine is added any more
BudgetHolds ==
  /\ Going("budget")
  /\ overBudget' \in {overBudget, TRUE}
  /\ Goto("scale")
  /\ UNCHANGED <<dispatcherVars, raised, refused, retries, settling, canceling, worldVars,
                 pastVars>>

\* 120%: every pod goes, then the cook is cancelled
BudgetKill ==
  /\ Going("budget")
  /\ overBudget' = TRUE
  /\ Goto("kill")
  /\ UNCHANGED <<dispatcherVars, raised, refused, retries, settling, canceling, worldVars,
                 pastVars>>

\* _terminate_pod and remove_pod on each pod of the pool, here and in onStopCook
KillPod(p) ==
  /\ Going("kill") \/ Going("stoppods")
  /\ p \in pool
  /\ Terminate({p})
  /\ PodDead(p)
  /\ UNCHANGED <<threadVars, raised, refused, overBudget, settling, canceling,
                 told, finished, callVars, stopPast>>

KillDone ==
  /\ Going("kill") /\ pool = {}
  /\ canceling' = TRUE
  /\ Goto("ready")
  /\ UNCHANGED <<dispatcherVars, raised, refused, overBudget, retries, settling, worldVars,
                 pastVars>>

-----------------------------------------------------------------------------
(* _autoscale and _scale_up *)

AtMost(n, bound) == IF n =< bound THEN n ELSE bound
AtLeast(n, bound) == IF n >= bound THEN n ELSE bound

\* initial_pods: the work ceiling is at least what is queued and in flight
InitialPods ==
  LET work == AtLeast(Len(pending) + Cardinality(InFlight), 1)
  IN  AtMost(AtLeast(MinPods, 1), work) .. AtLeast(MinPods, 1)

\* autoscale_decision less the machines that are booting; the prediction
\* from render times is any batch it may return
AutoscaleDecision ==
  LET booting  == Cardinality({p \in pool : status[p] = "CREATED"})
      headroom == AtLeast(MaxPods - ActivePods, 0)
      batch    == IF overBudget \/ pending = <<>> \/ headroom = 0 THEN {0}
                  ELSE IF ActivePods = 0 THEN {1}
                  ELSE {0} \union {AtMost(AtMost(n, headroom), Len(pending)) : n \in 2..4}
  IN  {AtLeast(n - booting, 0) : n \in batch}

\* _scale_up stops at Max Pods
Clamp(n) == AtLeast(AtMost(n, MaxPods - Cardinality(pool)), 0)

Autoscale ==
  /\ Going("scale")
  /\ \/ /\ refused                          \* the back-off after a refusal
        /\ refused' = FALSE
        /\ UNCHANGED <<raised, wanted>>
        /\ phase' = "expire"
     \/ /\ ~ refused
        /\ raised' = (raised \/ pending # <<>>)
        /\ \E n \in IF ~ raised /\ pending # <<>> THEN InitialPods ELSE AutoscaleDecision :
             /\ wanted' = Clamp(n)
             /\ refused' = (Clamp(n) > 0)
             /\ phase' = IF Clamp(n) > 0 THEN "create" ELSE "expire"
  /\ UNCHANGED <<dispatcherVars, cook, leftPods, leftTasks, doomed, creating, overBudget,
                 retries, settling, canceling, worldVars, pastVars>>

\* The loop of _scale_up runs on while onStopCook runs: the call it waits for
\* blocks the tick, not the stop.  Once _reset_cook_state has run it cannot
\* even name the next pod (_cfg is None).
ScalingUp == Going("create") \/ cook = "stopping"

\* create_gpu_pod is called; the pod's id is new
CreateCall(p) ==
  /\ ScalingUp /\ wanted > 0 /\ creating = NoPod
  /\ ~ Billing(p) /\ p \notin pool \union retries \union coming \union leftPods
  /\ creating' = p
  /\ coming' = coming \union {p}
  /\ unheard' = unheard \ {p}
  /\ UNCHANGED <<dispatcherVars, cook, phase, leftPods, leftTasks, doomed, wanted, schedVars,
                 worldVars, told, finished, stopPast, faults>>

\* RunPod makes the machine, which is billed from here on; perhaps after
\* onStopCook has asked which machines there are
CreateMade(p) ==
  /\ p \in coming
  /\ machine' = [machine EXCEPT ![p] = "booting"]
  /\ coming' = coming \ {p}
  /\ missed' = IF phase \in AfterSweep \/ cook = "stopped" THEN missed \union {p} ELSE missed
  /\ UNCHANGED <<dispatcherVars, threadVars, schedVars, rec, told, finished, unheard, unswept,
                 logged, late, faults>>

\* RunPod has no machine, or the call does not get through
CreateRefused ==
  /\ creating \in coming
  /\ Fault
  /\ coming' = coming \ {creating}
  /\ creating' = NoPod
  /\ wanted' = wanted - 1
  /\ UNCHANGED <<dispatcherVars, cook, phase, leftPods, leftTasks, doomed, schedVars,
                 worldVars, told, finished, unheard, stopPast>>

\* the call fails here, and RunPod has made the machine or still will
CreateUnheard ==
  /\ creating # NoPod
  /\ Fault
  /\ unheard' = unheard \union {creating}
  /\ creating' = NoPod
  /\ wanted' = wanted - 1
  /\ UNCHANGED <<dispatcherVars, cook, phase, leftPods, leftTasks, doomed, schedVars,
                 worldVars, told, finished, coming, stopPast>>

\* the cook was cancelled during the call: the machine is not admitted
CreateTooLate ==
  /\ ScalingUp /\ creating # NoPod /\ creating \notin coming
  /\ canceling
  /\ Terminate({creating})
  /\ creating' = NoPod
  /\ wanted' = 0
  /\ late' = IF phase = "stopend" THEN late \union {creating} ELSE late
  /\ UNCHANGED <<dispatcherVars, cook, phase, leftPods, leftTasks, doomed, raised, refused,
                 overBudget, settling, canceling, told, finished, callVars, unswept, missed,
                 logged>>

\* The cook is over and reset: the guard sees that, but _terminate_pod has no
\* _api any more and raises, so the machine stays as it is.  (A cook begun
\* meanwhile would have set _api again.)
CreateStranded ==
  /\ cook = "stopped" /\ creating # NoPod /\ creating \notin coming
  /\ late' = late \union {creating}
  /\ creating' = NoPod
  /\ wanted' = 0
  /\ UNCHANGED <<dispatcherVars, cook, phase, leftPods, leftTasks, doomed, schedVars, worldVars,
                 told, finished, callVars, unswept, missed, logged, faults>>

CreateAnswered ==
  /\ ScalingUp /\ creating # NoPod /\ creating \notin coming
  /\ ~ canceling
  /\ AddPod(creating)
  /\ creating' = NoPod
  /\ wanted' = wanted - 1
  /\ refused' = FALSE
  /\ UNCHANGED <<cook, phase, leftPods, leftTasks, doomed, raised, overBudget, retries,
                 settling, canceling, worldVars, pastVars>>

CreateDone ==
  /\ Going("create") /\ wanted = 0 /\ creating = NoPod
  /\ Goto("expire")
  /\ UNCHANGED <<dispatcherVars, schedVars, worldVars, pastVars>>

-----------------------------------------------------------------------------
(* The end of the tick *)

ExpireByHand ==
  /\ Going("expire")
  /\ \/ /\ CapacityExpired # {}
        /\ GiveUp(CapacityExpired)
        /\ reports' = [t \in Tasks |-> IF t \in CapacityExpired THEN reports[t] + 1 ELSE reports[t]]
        /\ UNCHANGED <<podVars, placed, cursor, attempts, queuedAt, renamed, done, starved, now>>
     \/ CapacityExpired = {} /\ UNCHANGED dispatcherVars
  /\ Goto("idle")
  /\ UNCHANGED <<schedVars, worldVars, pastVars>>

Expire ==
  /\ Going("expire")
  /\ ExpireWaitingItems \/ (CapacityExpired = {} /\ UNCHANGED dispatcherVars)
  /\ Goto("idle")
  /\ UNCHANGED <<schedVars, worldVars, pastVars>>

RetireIdle ==
  /\ Going("idle")
  /\ RetireIdlePods
  /\ Terminate(pool \ pool')
  /\ Goto("ready")
  /\ UNCHANGED <<raised, refused, overBudget, settling, canceling, told, finished, callVars,
                 stopPast>>

-----------------------------------------------------------------------------
(* onStopCook *)

Answered(t) == t \in told \/ reports[t] > 0

\* PDG calls it when every item has been reported, or on cancel: between two
\* ticks, or while the tick waits for create_gpu_pod
StopCook ==
  /\ cook = "cooking" /\ (phase = "ready" \/ (phase = "create" /\ creating # NoPod))
  /\ canceling \/ (Accepted # {} /\ \A t \in Accepted : Answered(t))
  /\ cook' = "stopping"
  /\ phase' = "stopsettle"
  /\ UNCHANGED <<dispatcherVars, leftPods, leftTasks, doomed, wanted, creating, schedVars,
                 worldVars, pastVars>>

\* _settleResults(force=True)
StopSettleWaits ==
  /\ Going("stopsettle")
  /\ \E Ready \in SUBSET settling : told' = told \union Ready /\ settling' = settling \ Ready
  /\ phase' = IF canceling THEN "stopkill" ELSE "stopsweep"
  /\ leftTasks' = IF canceling THEN InFlight ELSE {}
  /\ UNCHANGED <<dispatcherVars, cook, leftPods, doomed, wanted, creating, raised, refused,
                 overBudget, retries, canceling, worldVars, finished, callVars, stopPast, faults>>

StopSettle ==
  /\ Going("stopsettle")
  /\ told' = told \union settling
  /\ settling' = {}
  /\ phase' = IF canceling THEN "stopkill" ELSE "stopsweep"
  /\ leftTasks' = IF canceling THEN InFlight ELSE {}
  /\ UNCHANGED <<dispatcherVars, cook, leftPods, doomed, wanted, creating, raised, refused,
                 overBudget, retries, canceling, worldVars, finished, callVars, stopPast, faults>>

\* client.kill: DELETE /tasks/<id>, whose failure is not noticed
StopKillUntilHeard(t) ==
  /\ Going("stopkill")
  /\ t \in leftTasks /\ Up(placed[t])
  /\ leftTasks' = leftTasks \ {t}
  /\ rec' = [rec EXCEPT ![placed[t]][Id(t)] = IF @ = "running" THEN "killed" ELSE @]
  /\ UNCHANGED <<dispatcherVars, cook, phase, leftPods, doomed, wanted, creating, schedVars,
                 machine, pastVars>>

StopKill(t) ==
  /\ Going("stopkill")
  /\ t \in leftTasks
  /\ leftTasks' = leftTasks \ {t}
  /\ \/ /\ Up(placed[t])
        /\ rec' = [rec EXCEPT ![placed[t]][Id(t)] = IF @ = "running" THEN "killed" ELSE @]
        /\ NoFault
     \/ (Fault \/ (~ Up(placed[t]) /\ NoFault)) /\ UNCHANGED rec
  /\ UNCHANGED <<dispatcherVars, cook, phase, leftPods, doomed, wanted, creating, schedVars,
                 machine, told, finished, callVars, stopPast>>

StopKillDone ==
  /\ Going("stopkill") /\ leftTasks = {}
  /\ Goto("stopsweep")
  /\ UNCHANGED <<dispatcherVars, schedVars, worldVars, pastVars>>

\* _sweepOrphanPods: list_pods, and this cook's pods that are not in the pool
StopSweepKnownOnly ==
  /\ Going("stopsweep")
  /\ \/ leftPods' = retries /\ NoFault /\ UNCHANGED unswept
     \/ leftPods' = {} /\ Fault /\ unswept' = TRUE
  /\ phase' = "stoporphans"
  /\ UNCHANGED <<dispatcherVars, cook, leftTasks, doomed, wanted, creating, schedVars,
                 worldVars, told, finished, callVars, missed, logged, late>>

StopSweep ==
  /\ Going("stopsweep")
  /\ \/ leftPods' = {p \in Pods \ pool : Billing(p)} /\ NoFault /\ UNCHANGED unswept
     \/ leftPods' = {} /\ Fault /\ unswept' = TRUE
  /\ phase' = "stoporphans"
  /\ UNCHANGED <<dispatcherVars, cook, leftTasks, doomed, wanted, creating, schedVars,
                 worldVars, told, finished, callVars, missed, logged, late>>

StopOrphan(p) ==
  /\ Going("stoporphans")
  /\ p \in leftPods
  /\ leftPods' = leftPods \ {p}
  /\ Terminate({p})
  /\ UNCHANGED <<dispatcherVars, cook, phase, leftTasks, doomed, wanted, creating, raised,
                 refused, overBudget, settling, canceling, told, finished, callVars, stopPast>>

StopOrphansDone ==
  /\ Going("stoporphans") /\ leftPods = {}
  /\ Goto("stoppods")
  /\ UNCHANGED <<dispatcherVars, schedVars, worldVars, pastVars>>

\* the pool is empty: _retryTerminations(force=True) on what is left
StopPodsDone ==
  /\ Going("stoppods") /\ pool = {}
  /\ leftPods' = retries
  /\ phase' = "stopretry"
  /\ UNCHANGED <<dispatcherVars, cook, leftTasks, doomed, wanted, creating, schedVars,
                 worldVars, pastVars>>

\* what the retry list still holds is logged as still billing ...
StopLog ==
  /\ Going("stopretry") /\ leftPods = {}
  /\ logged' = retries
  /\ Goto("stopend")
  /\ UNCHANGED <<dispatcherVars, schedVars, worldVars, told, finished, callVars, unswept, missed,
                 late, faults>>

\* ... downloads are waited for, and _reset_cook_state forgets everything
Stopped ==
  /\ Going("stopend")
  /\ cook' = "stopped"
  /\ phase' = "off"
  /\ UNCHANGED <<dispatcherVars, leftPods, leftTasks, doomed, wanted, creating, schedVars,
                 worldVars, pastVars>>

-----------------------------------------------------------------------------
(* What happens around the scheduler thread *)

\* the artist cancels, or PDG does (a lost relay, cookError)
Cancel ==
  /\ cook = "cooking" /\ ~ canceling
  /\ canceling' = TRUE
  /\ UNCHANGED <<dispatcherVars, threadVars, raised, refused, overBudget, retries, settling,
                 worldVars, pastVars>>

\* Houdini dies
Crash ==
  /\ cook \in {"cooking", "stopping"}
  /\ cook' = "crashed" /\ phase' = "off"
  /\ leftPods' = {} /\ leftTasks' = {} /\ doomed' = {} /\ wanted' = 0 /\ creating' = NoPod
  /\ UNCHANGED <<dispatcherVars, schedVars, worldVars, pastVars>>

Time ==
  /\ cook = "cooking"
  /\ ClockTick
  /\ UNCHANGED <<threadVars, schedVars, worldVars, pastVars>>

Boot(p) ==
  /\ machine[p] = "booting"
  /\ machine' = [machine EXCEPT ![p] = "up"]
  /\ UNCHANGED <<dispatcherVars, threadVars, schedVars, rec, pastVars>>

Die(p) ==
  /\ Billing(p)
  /\ Fault
  /\ machine' = [machine EXCEPT ![p] = "gone"]
  /\ rec' = [rec EXCEPT ![p] = EmptyRegistry]
  /\ UNCHANGED <<dispatcherVars, threadVars, schedVars, told, finished, callVars, stopPast>>

\* the container restarts: the worker comes back with an empty registry
Restart(p) ==
  /\ Up(p) /\ rec[p] # EmptyRegistry
  /\ Fault
  /\ rec' = [rec EXCEPT ![p] = EmptyRegistry]
  /\ UNCHANGED <<dispatcherVars, threadVars, schedVars, machine, told, finished, callVars, stopPast>>

\* a task ends by itself
TaskEnds(p, i, s) ==
  /\ rec[p][i] = "running"
  /\ rec' = [rec EXCEPT ![p][i] = s]
  /\ finished' = IF s = "succeeded" THEN finished \union {i[1]} ELSE finished
  /\ UNCHANGED <<dispatcherVars, threadVars, schedVars, machine, told, callVars, stopPast, faults>>

\* OrphanWatchdog: nobody has asked for long, and nothing runs
WatchdogWaitsForStop(p) ==
  /\ Up(p) /\ Busy(p) = {}
  /\ cook = "stopped"
  /\ machine' = [machine EXCEPT ![p] = "gone"]
  /\ rec' = [rec EXCEPT ![p] = EmptyRegistry]
  /\ UNCHANGED <<dispatcherVars, threadVars, schedVars, pastVars>>

Watchdog(p) ==
  /\ Up(p) /\ Busy(p) = {}
  /\ cook \in {"stopped", "crashed"} \/ (p \notin pool /\ p # creating)
  /\ machine' = [machine EXCEPT ![p] = "gone"]
  /\ rec' = [rec EXCEPT ![p] = EmptyRegistry]
  /\ UNCHANGED <<dispatcherVars, threadVars, schedVars, pastVars>>

-----------------------------------------------------------------------------

TickStep ==
  \/ TickStart \/ RetriesDone \/ PollDone \/ Tell \/ Submit \/ DispatchDone
  \/ TasksDone \/ SettleResults \/ Report \/ BudgetHolds \/ BudgetKill \/ KillDone
  \/ Autoscale \/ CreateRefused \/ CreateUnheard \/ CreateTooLate \/ CreateStranded
  \/ CreateAnswered \/ CreateDone \/ Expire \/ RetireIdle
  \/ \E p \in Pods : RetryTerminate(p) \/ Poll(p) \/ GiveUpOnPod(p) \/ KillPod(p) \/ CreateCall(p)
  \/ \E t \in Tasks : PollTask(t)

StopStep ==
  \/ StopCook \/ StopSettle \/ StopKillDone \/ StopSweep \/ StopOrphansDone \/ StopPodsDone
  \/ StopLog \/ Stopped
  \/ \E p \in Pods : StopOrphan(p)
  \/ \E t \in Tasks : StopKill(t)

TaskProgress(p) ==
  \E i \in Ids : TaskEnds(p, i, "succeeded") \/ TaskEnds(p, i, "failed")

Around ==
  \/ Cancel \/ Crash \/ Time
  \/ \E p \in Pods : CreateMade(p) \/ Boot(p) \/ Die(p) \/ Restart(p) \/ TaskProgress(p) \/ Watchdog(p)

FarmNext == TickStep \/ StopStep \/ (\E t \in Tasks : Schedule(t)) \/ Around

FarmSpec == FarmInit /\ [][FarmNext]_farmVars

\* PDG keeps calling onTick and, when it is time, onStopCook; the thread does
\* not stop between two calls.  RunPod makes what it was asked for, machines
\* boot, tasks end, the watchdog looks.  A settling item's grace ends, and so
\* do a dead pod's deadline and the grace of a task its worker does not know,
\* at some tick: those are strong, for a tick can come too early any number of
\* times.
FarmFairness ==
  /\ WF_farmVars(TickStep \/ StopStep)
  /\ SF_farmVars(Settle(settling))
  /\ \A p \in Pods :
       /\ WF_farmVars(CreateMade(p))
       /\ WF_farmVars(Boot(p))
       /\ WF_farmVars(TaskProgress(p))
       /\ WF_farmVars(Watchdog(p))
       /\ SF_farmVars(Poll(p) /\ p \in doomed')
  /\ \A t \in Tasks : SF_farmVars(PollTask(t) /\ placed'[t] # placed[t])

FairFarmSpec == FarmSpec /\ FarmFairness

-----------------------------------------------------------------------------
(* Properties *)

Phases == {"ready", "placing", "retry", "poll", "giveup", "tell", "dispatch", "tasks", "settle",
           "report", "budget", "kill", "scale", "create", "expire", "idle", "stopsettle",
           "stopkill", "stopsweep", "stoporphans", "stoppods", "stopretry", "stopend", "off"}

\* Max Pods bounds the pool and what _scale_up may still add to it.
FarmTypeOK ==
  /\ cook \in {"cooking", "stopping", "stopped", "crashed"}
  /\ phase \in Phases
  /\ leftPods \subseteq Pods /\ doomed \subseteq Pods /\ leftTasks \subseteq Tasks
  /\ wanted \in 0 .. MaxPods - Cardinality(pool)
  /\ creating \in Pods \union {NoPod}
  /\ {raised, refused, overBudget, canceling, unswept} \subseteq BOOLEAN
  /\ retries \subseteq Pods /\ unheard \subseteq Pods /\ coming \subseteq Pods
  /\ missed \subseteq Pods /\ logged \subseteq Pods /\ late \subseteq Pods
  /\ settling \subseteq Tasks /\ told \subseteq Tasks /\ finished \subseteq Tasks
  /\ machine \in [Pods -> {"gone", "booting", "up"}]
  /\ rec \in [Pods -> [Ids -> {"absent", "running", "succeeded", "failed", "killed"}]]
  /\ faults \in 0..MaxFaults

\* A machine that is being billed is one the scheduler will come back to: it
\* is in the pool, on the retry list, or being created.  The one exception
\* is a machine whose create call failed after RunPod had made it.
BillingIsTracked ==
  cook \in {"cooking", "stopping"} =>
    \A p \in Pods : Billing(p) => p \in pool \union retries \union {creating} \union unheard

\* A machine the scheduler could neither see in RunPod's list nor name in its
\* log: its create call was never answered, or not before the log was written,
\* and it was made after RunPod had been asked, or the list was unreadable.
OutOfSight(p) ==
  /\ p \in unheard \union late \union {creating}
  /\ unswept \/ p \in missed

\* What a stopped cook leaves running is named in the log as still billing,
\* or is a machine nobody could know of: one whose create call was still in
\* flight, or lost, when onStopCook looked for the last time.
StopLeavesOnlyKnown ==
  cook = "stopped" => \A p \in Pods : Billing(p) => p \in logged \/ OutOfSight(p)

\* "Kill it here, now, instead of admitting it to a pool nothing will ever
\* drain" (_scale_up): a machine whose create call is answered after the cook
\* it was meant for is over has been terminated, or its terminate failed.
LateCreateIsKilled == \A p \in late : Billing(p) => p \in retries

\* A pod whose terminate failed is on its way out: it is out of the pool, and
\* no task is ever sent to it again.
RetiredLeavesPool == pool \intersect retries = {}

\* An item is reported succeeded only if a process of it ended well, and no
\* loss, retry or restart makes a success of anything else.
SuccessIsReal == told \union settling \union done \subseteq finished

\* PDG hears one outcome of an item.
OneOutcome ==
  \A t \in Tasks : reports[t] + (IF t \in told THEN 1 ELSE 0)
                              + (IF t \in settling THEN 1 ELSE 0) =< 1

\* "A cancel can never leave PDG waiting on an item this scheduler is
\* holding" (_settleResults): what was done is told when the cook is over.
StopTellsWhatIsDone == cook = "stopped" => done \subseteq told

\* Every item PDG hands over is answered, if the cook goes on: whatever was
\* lost, restarted or killed, no item stays "cooking" for ever.  Past the
\* budget no machine is added, and an item may wait for one in vain.
EveryItemAnswered ==
  \A t \in Tasks :
    (queuedAt[t] # Never) ~> (Answered(t) \/ overBudget \/ canceling \/ cook # "cooking")

\* A cook that stops, stops.
StopEnds == (cook = "stopping") ~> (cook \in {"stopped", "crashed"})

\* When the controller is gone, crashed ones included, no machine is billed
\* for ever: the pods end themselves.
BillingEnds ==
  \A p \in Pods : (cook \in {"stopped", "crashed"}) ~> [](machine[p] = "gone" /\ p \notin coming)
=============================================================================
