----------------------------- MODULE Dispatcher -----------------------------
(***************************************************************************)
(* The queue of a cook and the pool of GPU pods it runs on: class          *)
(* Dispatcher of rpfarm/dispatch.py, one action per method, with the       *)
(* parts of PodState and TaskState those methods read or write.            *)
(*                                                                         *)
(* A TaskState is an element of Tasks (one per work item PDG hands over);  *)
(* its task_id is abstracted to whether retask() has already replaced it   *)
(* once ("-r").  Pod ids that left the pool may be used again: RunPod      *)
(* never does that, so a second use stands for a new pod.                  *)
(*                                                                         *)
(* The class is not thread-safe and is only called from PDG's scheduler    *)
(* thread, so every method is one atomic step.                             *)
(***************************************************************************)
EXTENDS Integers, Sequences, FiniteSets, SequencesExt

CONSTANTS
  Pods,          \* pod ids
  Tasks,         \* the work items this cook may be handed
  Slots,         \* slots_per_pod
  MaxAttempts,   \* max_attempts
  CapacityWait,  \* wait_seconds of capacity_expired, in clock ticks; 0 = forever
  IdleTimeout,   \* rpfarm_idletimeout, in clock ticks
  MinPods,       \* rpfarm_minpods, the floor of _retireIdlePods
  NoPod,         \* pod_id None
  MaxTime        \* bound on the clock

ASSUME DispatcherAssumption ==
  /\ IsFiniteSet(Pods)
  /\ IsFiniteSet(Tasks)
  /\ NoPod \notin Pods
  /\ Slots \in Nat \ {0}
  /\ MaxAttempts \in Nat \ {0}
  /\ CapacityWait \in Nat
  /\ IdleTimeout \in Nat
  /\ MinPods \in Nat
  /\ MaxTime \in Nat

Never == -1      \* a time stamp that is None

VARIABLES
  pool,          \* keys of self.pods
  status,        \* PodState.status; "DEAD" for a pod not in the pool
  running,       \* PodState.running
  full,          \* PodState.full
  idleSince,     \* PodState.idle_since
  noPodSince,    \* self._no_pod_since
  pending,       \* self._pending
  placed,        \* TaskState.pod_id of the tasks in self._running, else NoPod
  failed,        \* self.failed
  cursor,        \* self._failed_cursor
  attempts,      \* TaskState.attempts
  queuedAt,      \* TaskState.queued_at
  renamed,       \* tasks whose task_id already ends with "-r"
  done,          \* history: tasks complete(ok=True) retired
  reports,       \* history: how often failed_since_last_call returned a task
  starved,       \* history: clock ticks a task has been queued with no live pod
  now            \* the clock

podVars  == <<pool, status, running, full, idleSince, noPodSince>>
taskVars == <<pending, placed, failed, cursor, attempts, queuedAt, renamed>>
history  == <<done, reports, starved>>
dispatcherVars == <<podVars, taskVars, history, now>>

Times == 0..MaxTime

\* the enumeration of a finite set of queue positions in ascending order
Ascending(I) == {e \in Bijection(1..Cardinality(I), I) :
                   \A j, k \in 1..Cardinality(I) : j < k => e[j] < e[k]}

-----------------------------------------------------------------------------
(* Queries *)

Queued(t) == t \in ToSet(pending)
InFlight  == {t \in Tasks : placed[t] # NoPod}
Live(p)   == p \in pool /\ status[p] \in {"CREATED", "RUNNING"}

\* PodState.free_slots
FreeSlots(p) ==
  IF p \notin pool \/ status[p] # "RUNNING" \/ full[p] THEN 0
  ELSE IF Cardinality(running[p]) >= Slots THEN 0
  ELSE Slots - Cardinality(running[p])

\* pick_pod: a least-loaded pod with a free slot (ties break on the id)
Picked == {p \in pool : /\ FreeSlots(p) > 0
                        /\ \A q \in pool : FreeSlots(q) > 0 =>
                             Cardinality(running[p]) =< Cardinality(running[q])}

ActivePods == Cardinality({p \in pool : status[p] = "RUNNING"})

\* capacity_expired
CapacityExpiredNoFloor ==
  IF CapacityWait = 0 \/ \E p \in Pods : Live(p) THEN {}
  ELSE {t \in ToSet(pending) : queuedAt[t] # Never /\ now - queuedAt[t] >= CapacityWait}

CapacityExpired ==
  IF CapacityWait = 0 \/ \E p \in Pods : Live(p) THEN {}
  ELSE {t \in ToSet(pending) :
          LET since == IF queuedAt[t] >= noPodSince THEN queuedAt[t] ELSE noPodSince
          IN  queuedAt[t] # Never /\ now - since >= CapacityWait}

\* idle_pods, on the idle clocks that touch_idle has just refreshed
IdlePods(idle) ==
  {p \in pool : /\ status[p] = "RUNNING"
                /\ idle[p] # Never
                /\ now - idle[p] > IdleTimeout}

\* self.failed[self._failed_cursor:]
Unreported == {t \in Tasks : \E i \in cursor + 1 .. Len(failed) : failed[i] = t}

-----------------------------------------------------------------------------
(* Pods *)

Init ==
  /\ pool = {}
  /\ status = [p \in Pods |-> "DEAD"]
  /\ running = [p \in Pods |-> {}]
  /\ full = [p \in Pods |-> FALSE]
  /\ idleSince = [p \in Pods |-> Never]
  /\ noPodSince = Never
  /\ pending = <<>>
  /\ placed = [t \in Tasks |-> NoPod]
  /\ failed = <<>>
  /\ cursor = 0
  /\ attempts = [t \in Tasks |-> 0]
  /\ queuedAt = [t \in Tasks |-> Never]
  /\ renamed = {}
  /\ done = {}
  /\ reports = [t \in Tasks |-> 0]
  /\ starved = [t \in Tasks |-> 0]
  /\ now = 0

\* add_pod of a pod create_gpu_pod returned; an id already in the pool is
\* left alone, which is a stuttering step
AddPod(p) ==
  /\ p \notin pool
  /\ pool' = pool \union {p}
  /\ status' = [status EXCEPT ![p] = "CREATED"]
  /\ UNCHANGED <<running, full, idleSince, noPodSince, taskVars, history, now>>

\* the part of _promote_pod that keeps the pod
Promote(p) ==
  /\ p \in pool
  /\ status[p] = "CREATED"
  /\ status' = [status EXCEPT ![p] = "RUNNING"]
  /\ idleSince' = [idleSince EXCEPT ![p] = now]
  /\ UNCHANGED <<pool, running, full, noPodSince, taskVars, history, now>>

\* the pod a task was on is its last
SpentOffByOne(t) == attempts[t] + 1 > MaxAttempts
Spent(t) == attempts[t] + 1 >= MaxAttempts

\* pod_dead (and remove_pod) for every pod of Lost, idle clocks being idle:
\* each task in flight there is requeued, or failed after MaxAttempts.  The
\* tasks of a pod go in task_id order; the ids are random, so any order
\* may be the one.
Drop(Lost, idle) ==
  LET hit   == {t \in Tasks : placed[t] # NoPod /\ \E p \in Lost : t \in running[p]}
      spent == {t \in hit : Spent(t)}
      retry == hit \ spent
  IN /\ pool' = pool \ Lost
     /\ status' = [p \in Pods |-> IF p \in Lost THEN "DEAD" ELSE status[p]]
     /\ running' = [p \in Pods |-> IF p \in Lost THEN {} ELSE running[p]]
     /\ full' = [p \in Pods |-> IF p \in Lost THEN FALSE ELSE full[p]]
     /\ idleSince' = [p \in Pods |-> IF p \in Lost THEN Never ELSE idle[p]]
     /\ noPodSince' = IF Lost # {} /\ ~ \E p \in pool \ Lost : Live(p)
                      THEN now ELSE noPodSince
     /\ placed' = [t \in Tasks |-> IF t \in hit THEN NoPod ELSE placed[t]]
     /\ attempts' = [t \in Tasks |-> IF t \in hit THEN attempts[t] + 1 ELSE attempts[t]]
     /\ queuedAt' = [t \in Tasks |-> IF t \in retry THEN now ELSE queuedAt[t]]
     /\ \E order \in Bijection(1..Cardinality(retry), retry) : pending' = pending \o order
     /\ \E order \in Bijection(1..Cardinality(spent), spent) : failed' = failed \o order
     /\ UNCHANGED <<cursor, renamed, history, now>>

PodDead(p) == p \in pool /\ Drop({p}, idleSince)

MarkFull(p) ==
  /\ p \in pool
  /\ full' = [full EXCEPT ![p] = TRUE]
  /\ UNCHANGED <<pool, status, running, idleSince, noPodSince, taskVars, history, now>>

ReleaseFull ==
  /\ full' = [p \in Pods |-> FALSE]
  /\ UNCHANGED <<pool, status, running, idleSince, noPodSince, taskVars, history, now>>

\* touch_idle
TouchedIdle ==
  [p \in Pods |->
     IF p \notin pool \/ status[p] # "RUNNING" THEN idleSince[p]
     ELSE IF running[p] # {} THEN Never
     ELSE IF idleSince[p] = Never THEN now
     ELSE idleSince[p]]

\* the scheduler's _retireIdlePods: touch_idle, then remove_pod on idle pods,
\* in turn, until none is left or the pool is down to the floor
RetireIdlePods ==
  LET floor == IF pending # <<>> THEN MinPods ELSE 0
      idle  == TouchedIdle
      quiet == IF IdleTimeout = 0 THEN {} ELSE IdlePods(idle)
  IN \E Lost \in SUBSET quiet :
       /\ Lost # {} => Cardinality(pool) - Cardinality(Lost) >= floor
       /\ Lost # quiet => Cardinality(pool) - Cardinality(Lost) =< floor
       /\ Drop(Lost, idle)

-----------------------------------------------------------------------------
(* Tasks *)

\* enqueue of the TaskState onSchedule has just built for item t
Enqueue(t) ==
  /\ queuedAt[t] = Never
  /\ queuedAt' = [queuedAt EXCEPT ![t] = now]
  /\ pending' = Append(pending, t)
  /\ UNCHANGED <<podVars, placed, failed, cursor, attempts, renamed, history, now>>

\* assign of the head of the queue to the pod pick_pod returned
Assign(p) ==
  /\ pending # <<>>
  /\ p \in Picked
  /\ LET t == Head(pending) IN
       /\ placed' = [placed EXCEPT ![t] = p]
       /\ running' = [running EXCEPT ![p] = @ \union {t}]
       /\ starved' = [starved EXCEPT ![t] = 0]
  /\ pending' = Tail(pending)
  /\ idleSince' = [idleSince EXCEPT ![p] = Never]
  /\ UNCHANGED <<pool, status, full, noPodSince, failed, cursor, attempts, queuedAt,
                 renamed, done, reports, now>>

\* complete(task_id, ok)
CompleteKeepsSlot(t, ok) ==
  /\ placed[t] # NoPod
  /\ placed' = [placed EXCEPT ![t] = NoPod]
  /\ failed' = IF ok THEN failed ELSE Append(failed, t)
  /\ done' = IF ok THEN done \union {t} ELSE done
  /\ UNCHANGED <<podVars, pending, cursor, attempts, queuedAt, renamed, reports, starved, now>>

Complete(t, ok) ==
  /\ placed[t] # NoPod
  /\ placed' = [placed EXCEPT ![t] = NoPod]
  /\ running' = [running EXCEPT ![placed[t]] = @ \ {t}]
  /\ failed' = IF ok THEN failed ELSE Append(failed, t)
  /\ done' = IF ok THEN done \union {t} ELSE done
  /\ UNCHANGED <<pool, status, full, idleSince, noPodSince, pending, cursor, attempts,
                 queuedAt, renamed, reports, starved, now>>

\* retask: the worker rejected the id of a queued task as a duplicate
Retask(t) ==
  /\ Queued(t)
  /\ t \notin renamed
  /\ renamed' = renamed \union {t}
  /\ UNCHANGED <<podVars, pending, placed, failed, cursor, attempts, queuedAt, history, now>>

\* fail_pending of every task of Out, in queue order
GiveUp(Out) ==
  \E kept \in Ascending({i \in DOMAIN pending : pending[i] \notin Out}),
     out  \in Ascending({i \in DOMAIN pending : pending[i] \in Out}) :
       /\ pending' = [k \in DOMAIN kept |-> pending[kept[k]]]
       /\ failed' = failed \o [k \in DOMAIN out |-> pending[out[k]]]

\* fail_pending of a task whose second id was rejected as well
FailPending(t) ==
  /\ Queued(t)
  /\ t \in renamed
  /\ GiveUp({t})
  /\ UNCHANGED <<podVars, placed, cursor, attempts, queuedAt, renamed, history, now>>

\* failed_since_last_call, each task of which the caller reports to PDG
ReportFailuresAgain ==
  /\ reports' = [t \in Tasks |-> IF t \in Unreported THEN reports[t] + 1 ELSE reports[t]]
  /\ \A t \in Tasks : reports[t] < 3
  /\ UNCHANGED <<podVars, taskVars, done, starved, now>>

ReportFailures ==
  /\ cursor' = Len(failed)
  /\ reports' = [t \in Tasks |-> IF t \in Unreported THEN reports[t] + 1 ELSE reports[t]]
  /\ UNCHANGED <<podVars, pending, placed, failed, attempts, queuedAt, renamed,
                 done, starved, now>>

\* the scheduler's _expireWaitingItems: fail what capacity_expired returned
\* and report it (with whatever else was unreported)
ExpireWaitingItems ==
  /\ CapacityExpired # {}
  /\ GiveUp(CapacityExpired)
  /\ cursor' = Len(failed')
  /\ reports' = [t \in Tasks |-> IF t \in Unreported \union CapacityExpired
                                 THEN reports[t] + 1 ELSE reports[t]]
  /\ UNCHANGED <<podVars, placed, attempts, queuedAt, renamed, done, starved, now>>

\* time passes between two calls
ClockTick ==
  /\ now < MaxTime
  /\ now' = now + 1
  /\ starved' = [t \in Tasks |-> IF Queued(t) /\ pool = {} THEN starved[t] + 1 ELSE 0]
  /\ UNCHANGED <<podVars, taskVars, done, reports>>

-----------------------------------------------------------------------------

PodStep(p) == AddPod(p) \/ Promote(p) \/ PodDead(p) \/ MarkFull(p) \/ Assign(p)

TaskStep(t) ==
  \/ Enqueue(t)
  \/ Complete(t, TRUE)
  \/ Complete(t, FALSE)
  \/ Retask(t)
  \/ FailPending(t)

Next ==
  \/ \E p \in Pods : PodStep(p)
  \/ \E t \in Tasks : TaskStep(t)
  \/ ReleaseFull
  \/ RetireIdlePods
  \/ ReportFailures
  \/ ExpireWaitingItems
  \/ ClockTick

Spec == Init /\ [][Next]_dispatcherVars

-----------------------------------------------------------------------------
(* Properties *)

TypeOK ==
  /\ pool \subseteq Pods
  /\ status \in [Pods -> {"CREATED", "RUNNING", "DEAD"}]
  /\ running \in [Pods -> SUBSET Tasks]
  /\ full \in [Pods -> BOOLEAN]
  /\ idleSince \in [Pods -> Times \union {Never}]
  /\ noPodSince \in Times \union {Never}
  /\ pending \in Seq(Tasks)
  /\ placed \in [Tasks -> Pods \union {NoPod}]
  /\ failed \in Seq(Tasks)
  /\ cursor \in 0..Len(failed)
  /\ attempts \in [Tasks -> 0..MaxAttempts]
  /\ queuedAt \in [Tasks -> Times \union {Never}]
  /\ renamed \subseteq Tasks
  /\ done \subseteq Tasks
  /\ reports \in [Tasks -> Nat]
  /\ starved \in [Tasks -> Nat]
  /\ now \in Times

\* Every accepted task is in exactly one place: waiting in the queue, in
\* flight on a pod, given up, or done, and at one position of it.  No order
\* of losses, requeues, rejections and completions loses or copies a task.
Accepted == {t \in Tasks : queuedAt[t] # Never}

NothingLost == Accepted \subseteq ToSet(pending) \union InFlight \union ToSet(failed) \union done

OnePlace ==
  /\ IsInjective(pending)
  /\ IsInjective(failed)
  /\ ToSet(pending) \intersect InFlight = {}
  /\ (ToSet(pending) \union InFlight) \intersect (ToSet(failed) \union done) = {}
  /\ ToSet(failed) \intersect done = {}
  /\ ToSet(pending) \union InFlight \union ToSet(failed) \union done \subseteq Accepted

\* The two books that say what runs where agree: a pod's running set and the
\* pod_id of the tasks in _running, and only pods of the pool hold tasks.
BooksAgree ==
  /\ \A p \in Pods, t \in Tasks : t \in running[p] <=> placed[t] = p
  /\ \A p \in Pods \ pool : running[p] = {}
  /\ \A p \in Pods : running[p] # {} => status[p] = "RUNNING"

\* No pod is given more tasks than it has slots, whatever was requeued.
SlotsRespected == \A p \in Pods : Cardinality(running[p]) =< Slots

\* A task that lost its last pod is given up: it is never queued, run or
\* delivered after that.
AttemptsLeft == \A t \in Tasks : attempts[t] >= MaxAttempts => t \in ToSet(failed)

\* Each give-up reaches PDG once: what the cursor has passed was returned by
\* failed_since_last_call exactly once and nothing else ever was.
ReportedOnce ==
  \A t \in Tasks :
    reports[t] = IF \E i \in 1..cursor : failed[i] = t THEN 1 ELSE 0

\* The idle clock of a pod ticks only while it holds nothing, so retiring
\* idle pods never costs a task its pod.
IdleMeansEmpty == \A p \in Pods : idleSince[p] # Never => running[p] = {}

IdleRetirementIsHarmless ==
  [][RetireIdlePods => UNCHANGED <<placed, pending, failed, attempts>>]_dispatcherVars

\* A task is failed for want of a machine only after it has itself been in
\* the queue for CapacityWait ticks in a row, all of them without a live pod:
\* waiting behind another render never counts (the yoyo cook of the comment
\* in capacity_expired).
StarvedLongEnough ==
  [][\A t \in CapacityExpired : ExpireWaitingItems => starved[t] >= CapacityWait]_dispatcherVars

\* The life of an item, read off the dispatcher's books.
StageOf(t) ==
  IF t \in done THEN "succeeded"
  ELSE IF placed[t] # NoPod THEN "running"
  ELSE IF Queued(t) THEN "waiting"
  ELSE IF reports[t] = 1 THEN "reported"
  ELSE IF t \in ToSet(failed) THEN "failed"
  ELSE "new"

Lifecycle == INSTANCE ItemLifecycle WITH
  Items <- Tasks, MaxAttempts <- MaxAttempts,
  stage <- [t \in Tasks |-> StageOf(t)], losses <- attempts

\* The dispatcher keeps the promise of ItemLifecycle: an item ends once,
\* never runs again after it ended, and loses at most MaxAttempts machines.
ImplementsLifecycle == Lifecycle!Spec
=============================================================================
