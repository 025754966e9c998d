------------------------------- MODULE Worker -------------------------------
(***************************************************************************)
(* The task registry of a pod: classes Task and Registry of pod/worker.py. *)
(*                                                                         *)
(* Three kinds of thread share a Task: the HTTP thread that submits it,    *)
(* the thread _run gives it, and the HTTP threads that kill it.  A fourth, *)
(* the Timer of _terminate, outlives all of them.  Each action is the code *)
(* between two points where another of them may run.                       *)
(*                                                                         *)
(* A task is a process group: the shell Popen started (the leader), which  *)
(* the worker waits for, and what the shell started in turn (the child),   *)
(* which holds the same stdout pipe and which nobody waits for.            *)
(***************************************************************************)
EXTENDS Integers, FiniteSets

CONSTANTS
  Ids,           \* task ids of POST /tasks
  Slots          \* RPFARM_SLOTS

ASSUME WorkerAssumption == IsFiniteSet(Ids) /\ Slots \in Nat \ {0}

VARIABLES
  state,         \* Task.state, "absent" while the id is not in self.tasks
  exitCode,      \* Task.exit_code: "none", "zero" or "nonzero"
  killRequested, \* Task.kill_requested
  proc,          \* Task.proc is not None
  thread,        \* where _run is
  killer,        \* where the thread handling DELETE /tasks/<id> is
  timer,         \* the Timer of _terminate: "off", "armed", "fired"
  leader,        \* the shell: "none", "alive", "zombie", "reaped"
  child,         \* what the shell started: "none", "alive", "gone"
  leaderCode     \* the status the shell exited with

taskVars == <<state, exitCode, killRequested, proc>>
procVars == <<leader, child, leaderCode>>
workerVars == <<taskVars, thread, killer, timer, procVars>>

Terminal == {"succeeded", "failed", "killed"}
Codes    == {"none", "zero", "nonzero"}

Busy == {t \in Ids : state[t] = "running"}

\* some process of the task still holds its stdout
Piped(t) == leader[t] = "alive" \/ child[t] = "alive"

WorkerInit ==
  /\ state = [t \in Ids |-> "absent"]
  /\ exitCode = [t \in Ids |-> "none"]
  /\ killRequested = [t \in Ids |-> FALSE]
  /\ proc = [t \in Ids |-> FALSE]
  /\ thread = [t \in Ids |-> "none"]
  /\ killer = [t \in Ids |-> "idle"]
  /\ timer = [t \in Ids |-> "off"]
  /\ leader = [t \in Ids |-> "none"]
  /\ child = [t \in Ids |-> "none"]
  /\ leaderCode = [t \in Ids |-> "none"]

-----------------------------------------------------------------------------
(* Registry.submit.  A known id (409) and a full worker (429) change        *)
(* nothing.                                                                 *)

Submit(t) ==
  /\ state[t] = "absent"
  /\ Cardinality(Busy) < Slots
  /\ state' = [state EXCEPT ![t] = "running"]
  /\ thread' = [thread EXCEPT ![t] = "starting"]
  /\ UNCHANGED <<exitCode, killRequested, proc, killer, timer, procVars>>

-----------------------------------------------------------------------------
(* Registry._terminate *)

\* SIGTERM to the group and a Timer, unless the leader's pid is gone
Terminate(t) ==
  timer' = IF leader[t] = "reaped" THEN timer ELSE [timer EXCEPT ![t] = "armed"]

\* _force_kill, ten seconds later
ForceKill(t) ==
  /\ timer[t] = "armed"
  /\ timer' = [timer EXCEPT ![t] = "fired"]
  /\ IF leader[t] = "alive"
     THEN /\ leader' = [leader EXCEPT ![t] = "zombie"]
          /\ leaderCode' = [leaderCode EXCEPT ![t] = "nonzero"]
          /\ child' = [child EXCEPT ![t] = IF @ = "alive" THEN "gone" ELSE @]
     ELSE /\ leader' = [leader EXCEPT ![t] = "reaped"]
          /\ UNCHANGED <<leaderCode, child>>
  /\ UNCHANGED <<taskVars, thread, killer>>

-----------------------------------------------------------------------------
(* Registry._run *)

\* Popen
Spawn(t) ==
  /\ thread[t] = "starting"
  /\ leader' = [leader EXCEPT ![t] = "alive"]
  /\ thread' = [thread EXCEPT ![t] = "spawned"]
  /\ UNCHANGED <<taskVars, killer, timer, child, leaderCode>>

\* task.proc = proc
Store(t) ==
  /\ thread[t] = "spawned"
  /\ proc' = [proc EXCEPT ![t] = TRUE]
  /\ thread' = [thread EXCEPT ![t] = "stored"]
  /\ UNCHANGED <<state, exitCode, killRequested, killer, timer, procVars>>

\* if task.kill_requested: self._terminate(proc)
CheckKillSkipped(t) ==
  /\ thread[t] = "stored"
  /\ thread' = [thread EXCEPT ![t] = "reading"]
  /\ UNCHANGED <<taskVars, killer, timer, procVars>>

CheckKill(t) ==
  /\ thread[t] = "stored"
  /\ IF killRequested[t] THEN Terminate(t) ELSE UNCHANGED timer
  /\ thread' = [thread EXCEPT ![t] = "reading"]
  /\ UNCHANGED <<taskVars, killer, procVars>>

\* the pipe is at its end and proc.wait() returns
WaitIgnoringPipe(t) ==
  /\ thread[t] = "reading"
  /\ leader[t] \in {"zombie", "reaped"}
  /\ leader' = [leader EXCEPT ![t] = "reaped"]
  /\ exitCode' = [exitCode EXCEPT ![t] = leaderCode[t]]
  /\ thread' = [thread EXCEPT ![t] = "ending"]
  /\ UNCHANGED <<state, killRequested, proc, killer, timer, child, leaderCode>>

Wait(t) ==
  /\ thread[t] = "reading"
  /\ ~ Piped(t)
  /\ leader' = [leader EXCEPT ![t] = "reaped"]
  /\ exitCode' = [exitCode EXCEPT ![t] = leaderCode[t]]
  /\ thread' = [thread EXCEPT ![t] = "ending"]
  /\ UNCHANGED <<state, killRequested, proc, killer, timer, child, leaderCode>>

\* except Exception: the log cannot be opened or written, or Popen fails
CrashForgotten(t) ==
  /\ thread[t] \in {"starting", "reading"}
  /\ thread' = [thread EXCEPT ![t] = "done"]
  /\ UNCHANGED <<taskVars, killer, timer, procVars>>

Crash(t) ==
  /\ thread[t] \in {"starting", "reading"}
  /\ exitCode' = [exitCode EXCEPT ![t] = "nonzero"]
  /\ thread' = [thread EXCEPT ![t] = "ending"]
  /\ UNCHANGED <<state, killRequested, proc, killer, timer, procVars>>

\* finally, under state_lock
SettleAlways(t) ==
  /\ thread[t] = "ending"
  /\ state' = [state EXCEPT ![t] = IF exitCode[t] = "zero" THEN "succeeded" ELSE "failed"]
  /\ thread' = [thread EXCEPT ![t] = "done"]
  /\ UNCHANGED <<exitCode, killRequested, proc, killer, timer, procVars>>

Settle(t) ==
  /\ thread[t] = "ending"
  /\ state' = [state EXCEPT ![t] = IF @ # "running" THEN @
                                   ELSE IF exitCode[t] = "zero" THEN "succeeded"
                                   ELSE "failed"]
  /\ thread' = [thread EXCEPT ![t] = "done"]
  /\ UNCHANGED <<exitCode, killRequested, proc, killer, timer, procVars>>

-----------------------------------------------------------------------------
(* Registry.kill *)

\* the part under state_lock
KillMark(t) ==
  /\ state[t] # "absent"
  /\ killer[t] = "idle"
  /\ killRequested' = [killRequested EXCEPT ![t] = TRUE]
  /\ state' = [state EXCEPT ![t] = IF @ = "running" THEN "killed" ELSE @]
  /\ killer' = [killer EXCEPT ![t] = "marked"]
  /\ UNCHANGED <<exitCode, proc, thread, timer, procVars>>

\* proc = task.proc, and proc.poll(), which reaps a leader that has exited
KillPoll(t) ==
  /\ killer[t] = "marked"
  /\ killer' = [killer EXCEPT ![t] = IF proc[t] /\ leader[t] = "alive" THEN "polled" ELSE "idle"]
  /\ leader' = [leader EXCEPT ![t] = IF proc[t] /\ @ = "zombie" THEN "reaped" ELSE @]
  /\ UNCHANGED <<taskVars, thread, timer, child, leaderCode>>

\* self._terminate(proc)
KillTerminate(t) ==
  /\ killer[t] = "polled"
  /\ Terminate(t)
  /\ killer' = [killer EXCEPT ![t] = "idle"]
  /\ UNCHANGED <<taskVars, thread, procVars>>

-----------------------------------------------------------------------------
(* The task's own processes.  A SIGTERM makes them exit or does not:        *)
(* Houdini takes its time.                                                  *)

Fork(t) ==
  /\ leader[t] = "alive"
  /\ child[t] = "none"
  /\ child' = [child EXCEPT ![t] = "alive"]
  /\ UNCHANGED <<taskVars, thread, killer, timer, leader, leaderCode>>

LeaderExits(t, code) ==
  /\ leader[t] = "alive"
  /\ leader' = [leader EXCEPT ![t] = "zombie"]
  /\ leaderCode' = [leaderCode EXCEPT ![t] = code]
  /\ UNCHANGED <<taskVars, thread, killer, timer, child>>

ChildExits(t) ==
  /\ child[t] = "alive"
  /\ child' = [child EXCEPT ![t] = "gone"]
  /\ UNCHANGED <<taskVars, thread, killer, timer, leader, leaderCode>>

-----------------------------------------------------------------------------

RunThread(t) == Spawn(t) \/ Store(t) \/ CheckKill(t) \/ Wait(t) \/ Crash(t) \/ Settle(t)
Killer(t)    == KillPoll(t) \/ KillTerminate(t)
Processes(t) == Fork(t) \/ LeaderExits(t, "zero") \/ LeaderExits(t, "nonzero") \/ ChildExits(t)

TaskNext(t) ==
  Submit(t) \/ RunThread(t) \/ KillMark(t) \/ Killer(t) \/ ForceKill(t) \/ Processes(t)

WorkerNext == \E t \in Ids : TaskNext(t)

WorkerSpec == WorkerInit /\ [][WorkerNext]_workerVars

\* Python threads that can run do run, and an armed Timer fires.  Of the
\* task's own processes nothing is assumed: a render may hang for ever.
WorkerFairness ==
  \A t \in Ids :
    /\ WF_workerVars(Spawn(t) \/ Store(t) \/ CheckKill(t) \/ Wait(t) \/ Settle(t))
    /\ WF_workerVars(Killer(t))
    /\ WF_workerVars(ForceKill(t))

FairWorker == WorkerSpec /\ WorkerFairness

-----------------------------------------------------------------------------
(* Properties *)

WorkerTypeOK ==
  /\ state \in [Ids -> {"absent", "running"} \union Terminal]
  /\ exitCode \in [Ids -> Codes]
  /\ killRequested \in [Ids -> BOOLEAN]
  /\ proc \in [Ids -> BOOLEAN]
  /\ thread \in [Ids -> {"none", "starting", "spawned", "stored", "reading", "ending", "done"}]
  /\ killer \in [Ids -> {"idle", "marked", "polled"}]
  /\ timer \in [Ids -> {"off", "armed", "fired"}]
  /\ leader \in [Ids -> {"none", "alive", "zombie", "reaped"}]
  /\ child \in [Ids -> {"none", "alive", "gone"}]
  /\ leaderCode \in [Ids -> Codes]
  /\ \A t \in Ids : thread[t] \in {"ending", "done"} => exitCode[t] # "none"

\* Success is never reported early: the shell has exited with status 0 and
\* nothing the task started can still be writing its output.
SucceededIsOver ==
  \A t \in Ids : state[t] = "succeeded" =>
    /\ leader[t] = "reaped"
    /\ leaderCode[t] = "zero"
    /\ child[t] # "alive"

\* No kill falls between Popen and task.proc: once both threads are past
\* their look at each other, a killed task's shell has been signalled or
\* has exited by itself.
KillIsNotLost ==
  \A t \in Ids :
    state[t] = "killed" /\ killer[t] = "idle" /\ thread[t] \notin {"starting", "spawned", "stored"}
      => leader[t] # "alive" \/ timer[t] # "off"

\* The registry keeps the promise of TaskRegistry: one-shot ids, at most
\* Slots running, and an end that is final even when a task finishes while
\* it is being killed.
Registry == INSTANCE TaskRegistry WITH rec <- state
ImplementsRegistry == Registry!RegistrySpec

\* The shell of a killed task dies, ignoring SIGTERM or not.
KilledShellDies ==
  \A t \in Ids : state[t] = "killed" ~> state[t] = "killed" /\ leader[t] # "alive"

\* A task with no process left gives its slot back, also when its thread
\* crashed: it cannot stay "running" with nothing to wait for.
SlotComesBack ==
  \A t \in Ids :
    (state[t] = "running" /\ thread[t] # "starting" /\ ~ Piped(t)) ~> state[t] # "running"

\* "Tracks tasks and enforces the pod's slot limit": the tasks that have a
\* process on the machine are at most Slots.
LiveTasksWithinSlots == Cardinality({t \in Ids : Piped(t)}) =< Slots
=============================================================================
