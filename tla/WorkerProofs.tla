---------------------------- MODULE WorkerProofs ----------------------------
(***************************************************************************)
(* Proofs about the threads of a GPU pod's worker (Worker), for any set of *)
(* tasks and any number of slots, and about the sync pod's worker          *)
(* (SyncWorker), for every number of callers, every period of silence      *)
(* longer than one tick and every deadline.                                *)
(***************************************************************************)
EXTENDS Worker, SyncWorker, TLAPS

-----------------------------------------------------------------------------
(* Worker: every action touches one task, so the inductive invariant is a  *)
(* statement about a task, TaskInv, which an action preserves for its own  *)

\* What can be said of task t between two actions: where the thread is tells
\* which processes and which references exist, and what has been settled.
TaskInv(t) ==
  /\ state[t] = "absent" <=> thread[t] = "none"
  /\ thread[t] \in {"none", "starting"} => leader[t] = "none" /\ ~ proc[t]
  /\ thread[t] \in {"spawned", "stored"} => leader[t] # "none"
  /\ thread[t] \in {"stored", "reading"} => proc[t] /\ leader[t] # "none"
  /\ thread[t] \in {"ending", "done"} => proc[t] \/ leader[t] = "none"
  /\ leader[t] = "none" => child[t] = "none" /\ timer[t] = "off" /\ killer[t] # "polled"
  /\ thread[t] \in {"ending", "done"} /\ exitCode[t] = "zero" =>
       leader[t] = "reaped" /\ leaderCode[t] = "zero" /\ child[t] # "alive"
  /\ leader[t] \in {"zombie", "reaped"} => leaderCode[t] # "none"
  /\ state[t] = "killed" => killRequested[t]
  /\ state[t] = "succeeded" => thread[t] = "done" /\ exitCode[t] = "zero"
  /\ state[t] = "killed" /\ killer[t] = "idle" /\ thread[t] \in {"reading", "ending", "done"} =>
       leader[t] # "alive" \/ timer[t] # "off"

WorkerInv == WorkerTypeOK /\ \A t \in Ids : TaskInv(t)

LEMMA InitInv == WorkerInit => WorkerInv
BY DEF WorkerInit, WorkerInv, WorkerTypeOK, TaskInv, Terminal, Codes

\* An action of task t, whatever it does, leaves the other tasks alone.
OthersAlone(t) ==
  \A u \in Ids \ {t} :
    /\ state'[u] = state[u]
    /\ exitCode'[u] = exitCode[u]
    /\ killRequested'[u] = killRequested[u]
    /\ proc'[u] = proc[u]
    /\ thread'[u] = thread[u]
    /\ killer'[u] = killer[u]
    /\ timer'[u] = timer[u]
    /\ leader'[u] = leader[u]
    /\ child'[u] = child[u]
    /\ leaderCode'[u] = leaderCode[u]

LEMMA OthersKeepInv ==
  ASSUME NEW t \in Ids, WorkerInv, OthersAlone(t), WorkerTypeOK', TaskInv(t)'
  PROVE  WorkerInv'
<1>1. ASSUME NEW u \in Ids \ {t} PROVE TaskInv(u)'
  BY <1>1 DEF WorkerInv, OthersAlone, TaskInv
<1> QED
  BY <1>1 DEF WorkerInv

LEMMA StepInv ==
  ASSUME WorkerInv, NEW t \in Ids, TaskNext(t)
  PROVE  WorkerInv'
<1> USE DEF WorkerTypeOK, Terminal, Codes, taskVars, procVars
<1>0. WorkerTypeOK /\ TaskInv(t)
  BY DEF WorkerInv
<1>1. CASE Submit(t)
  <2>1. WorkerTypeOK' /\ OthersAlone(t)
    BY <1>0, <1>1 DEF Submit, OthersAlone
  <2>2. TaskInv(t)'
    BY <1>0, <1>1 DEF Submit, TaskInv
  <2> QED
    BY <2>1, <2>2, OthersKeepInv
<1>2. CASE Spawn(t)
  <2>1. WorkerTypeOK' /\ OthersAlone(t)
    BY <1>0, <1>2 DEF Spawn, OthersAlone
  <2>2. TaskInv(t)'
    BY <1>0, <1>2 DEF Spawn, TaskInv
  <2> QED
    BY <2>1, <2>2, OthersKeepInv
<1>3. CASE Store(t)
  <2>1. WorkerTypeOK' /\ OthersAlone(t)
    BY <1>0, <1>3 DEF Store, OthersAlone
  <2>2. TaskInv(t)'
    BY <1>0, <1>3 DEF Store, TaskInv
  <2> QED
    BY <2>1, <2>2, OthersKeepInv
<1>4. CASE CheckKill(t)
  <2>1. WorkerTypeOK' /\ OthersAlone(t)
    BY <1>0, <1>4 DEF CheckKill, Terminate, OthersAlone
  <2>2. TaskInv(t)'
    BY <1>0, <1>4 DEF CheckKill, Terminate, TaskInv
  <2> QED
    BY <2>1, <2>2, OthersKeepInv
<1>5. CASE Wait(t)
  <2>1. WorkerTypeOK' /\ OthersAlone(t)
    BY <1>0, <1>5 DEF Wait, Piped, TaskInv, OthersAlone
  <2>2. TaskInv(t)'
    BY <1>0, <1>5 DEF Wait, Piped, TaskInv
  <2> QED
    BY <2>1, <2>2, OthersKeepInv
<1>6. CASE Crash(t)
  <2>1. WorkerTypeOK' /\ OthersAlone(t)
    BY <1>0, <1>6 DEF Crash, OthersAlone
  <2>2. TaskInv(t)'
    BY <1>0, <1>6 DEF Crash, TaskInv
  <2> QED
    BY <2>1, <2>2, OthersKeepInv
<1>7. CASE Settle(t)
  <2>1. WorkerTypeOK' /\ OthersAlone(t)
    BY <1>0, <1>7 DEF Settle, OthersAlone
  <2>2. TaskInv(t)'
    BY <1>0, <1>7 DEF Settle, TaskInv
  <2> QED
    BY <2>1, <2>2, OthersKeepInv
<1>8. CASE KillMark(t)
  <2>1. WorkerTypeOK' /\ OthersAlone(t)
    BY <1>0, <1>8 DEF KillMark, OthersAlone
  <2>2. TaskInv(t)'
    BY <1>0, <1>8 DEF KillMark, TaskInv
  <2> QED
    BY <2>1, <2>2, OthersKeepInv
<1>9. CASE KillPoll(t)
  <2>1. WorkerTypeOK' /\ OthersAlone(t)
    BY <1>0, <1>9 DEF KillPoll, OthersAlone
  <2>2. TaskInv(t)'
    BY <1>0, <1>9 DEF KillPoll, TaskInv
  <2> QED
    BY <2>1, <2>2, OthersKeepInv
<1>10. CASE KillTerminate(t)
  <2>1. WorkerTypeOK' /\ OthersAlone(t)
    BY <1>0, <1>10 DEF KillTerminate, Terminate, OthersAlone
  <2>2. TaskInv(t)'
    BY <1>0, <1>10 DEF KillTerminate, Terminate, TaskInv
  <2> QED
    BY <2>1, <2>2, OthersKeepInv
<1>11. CASE ForceKill(t)
  <2>1. WorkerTypeOK' /\ OthersAlone(t)
    BY <1>0, <1>11 DEF ForceKill, OthersAlone
  <2>2. TaskInv(t)'
    BY <1>0, <1>11 DEF ForceKill, TaskInv
  <2> QED
    BY <2>1, <2>2, OthersKeepInv
<1>12. CASE Processes(t)
  <2>1. WorkerTypeOK' /\ OthersAlone(t)
    BY <1>0, <1>12 DEF Processes, Fork, LeaderExits, ChildExits, OthersAlone
  <2>2. TaskInv(t)'
    BY <1>0, <1>12 DEF Processes, Fork, LeaderExits, ChildExits, TaskInv
  <2> QED
    BY <2>1, <2>2, OthersKeepInv
<1> QED
  BY <1>1, <1>2, <1>3, <1>4, <1>5, <1>6, <1>7, <1>8, <1>9, <1>10, <1>11, <1>12
  DEF TaskNext, RunThread, Killer

\* WorkerInv holds in every reachable state.
THEOREM WorkerInvariant == WorkerSpec => []WorkerInv
<1>1. ASSUME WorkerInv, [WorkerNext]_workerVars PROVE WorkerInv'
  <2>1. CASE WorkerNext
    BY <1>1, <2>1, StepInv DEF WorkerNext
  <2>2. CASE UNCHANGED workerVars
    BY <1>1, <2>2 DEF workerVars, taskVars, procVars, WorkerInv, WorkerTypeOK, TaskInv, Terminal, Codes
  <2> QED
    BY <1>1, <2>1, <2>2
<1> QED
  BY InitInv, <1>1, PTL DEF WorkerSpec

\* The registry's records and threads always have the shape the code expects.
THEOREM WorkerTypeCorrect == WorkerSpec => []WorkerTypeOK
<1>1. WorkerInv => WorkerTypeOK
  BY DEF WorkerInv
<1> QED
  BY <1>1, WorkerInvariant, PTL

\* A task is reported succeeded only once its shell has exited with 0 and
\* nothing is left to write its output.
THEOREM SuccessIsOver == WorkerSpec => []SucceededIsOver
<1>1. WorkerInv => SucceededIsOver
  BY DEF WorkerInv, TaskInv, SucceededIsOver
<1> QED
  BY <1>1, WorkerInvariant, PTL

\* A kill is never lost in the window between Popen and task.proc.
THEOREM KillsArrive == WorkerSpec => []KillIsNotLost
<1>1. WorkerInv => KillIsNotLost
  BY DEF WorkerInv, WorkerTypeOK, TaskInv, KillIsNotLost
<1> QED
  BY <1>1, WorkerInvariant, PTL

\* The worker is a TaskRegistry: one-shot ids, the slot limit, final states.
THEOREM WorkerRefinement == WorkerSpec => ImplementsRegistry
<1>1. WorkerInit => Registry!InitRegistry
  BY DEF WorkerInit, Registry!InitRegistry
<1>2. ASSUME WorkerInv, [WorkerNext]_workerVars PROVE [Registry!RegistryNext]_state
  <2>1. CASE UNCHANGED workerVars
    BY <2>1 DEF workerVars, taskVars
  <2>2. ASSUME NEW t \in Ids, TaskNext(t) PROVE [Registry!RegistryNext]_state
    <3>0. WorkerTypeOK /\ TaskInv(t)
      BY <1>2 DEF WorkerInv
    <3>1. CASE Submit(t)
      <4>1. Registry!RunningIds = Busy
        BY DEF Busy, Registry!RunningIds
      <4>2. Registry!Cardinality(Busy) = Cardinality(Busy)
        BY DEF Cardinality, Registry!Cardinality
      <4>3. Registry!Accept(t)
        BY <3>1, <4>1, <4>2 DEF Submit, Registry!Accept
      <4> QED
        BY <4>3 DEF Registry!RegistryNext
    <3>2. CASE Settle(t)
      <4>1. CASE state[t] = "running"
        <5>1. \E s \in {"succeeded", "failed", "killed"} : Registry!End(t, s)
          BY <3>2, <4>1 DEF Settle, Registry!End
        <5> QED
          BY <5>1 DEF Registry!RegistryNext
      <4>2. CASE state[t] # "running"
        BY <3>0, <3>2, <4>2 DEF Settle, WorkerTypeOK
      <4> QED
        BY <4>1, <4>2
    <3>3. CASE KillMark(t)
      <4>1. CASE state[t] = "running"
        <5>1. Registry!End(t, "killed")
          BY <3>3, <4>1 DEF KillMark, Registry!End
        <5> QED
          BY <5>1 DEF Registry!RegistryNext
      <4>2. CASE state[t] # "running"
        BY <3>0, <3>3, <4>2 DEF KillMark, WorkerTypeOK
      <4> QED
        BY <4>1, <4>2
    <3>4. CASE ~ (Submit(t) \/ Settle(t) \/ KillMark(t))
      <4>1. UNCHANGED state
        BY <2>2, <3>4
        DEF TaskNext, RunThread, Killer, Processes, Spawn, Store, CheckKill, Wait, Crash,
            KillPoll, KillTerminate, ForceKill, Fork, LeaderExits, ChildExits, taskVars
      <4> QED
        BY <4>1
    <3> QED
      BY <3>1, <3>2, <3>3, <3>4
  <2> QED
    BY <1>2, <2>1, <2>2 DEF WorkerNext
<1> QED
  BY <1>1, <1>2, WorkerInvariant, PTL
  DEF WorkerSpec, ImplementsRegistry, Registry!RegistrySpec

-----------------------------------------------------------------------------
(* SyncWorker                                                              *)

\* The table of commands: who has not had the answer to his request is not in it, who
\* polls is, unless the container was restarted under him; and an answer that was
\* given is the code in the file, of a command that has been collected.
TableInv ==
  \A c \in Callers :
    /\ pc[c] \in {"idle", "asked"} => c \notin procs
    /\ pc[c] = "polling" => run[c] = "gone" \/ (c \in procs /\ run[c] \notin {"none", "scripted"})
    /\ pc[c] = "done" => answer[c] = rc[c] /\ answer[c] # "none" /\ run[c] = "gone"

\* The watchdog: below its count until it ends the pod.  A session it has not been told
\* of is younger than the last sample, or was seen by it at most one tick ago; and once
\* it has decided, what is there has come since.
WatchInv ==
  /\ watch = "waits" => idleChecks < IdleChecks
  /\ session => pod = "up"
  /\ session /\ Session \notin fresh =>
       watch = "waits" /\ (lastBusy = 0 \/ (lastBusy = 1 /\ "sample" \in due))
  /\ watch = "ends" => \A c \in procs : Alive(c) => c \in fresh

SyncWorkerInv == SyncWorkerTypeOK /\ TableInv /\ WatchInv

LEMMA InitSyncWorker == SyncWorkerInit => SyncWorkerInv
<1> SUFFICES ASSUME SyncWorkerInit PROVE SyncWorkerInv
  OBVIOUS
<1> USE SyncWorkerAssumption DEF SyncWorkerInit, Session, Alive
<1>0. session \in BOOLEAN /\ moved \in BOOLEAN /\ seen \in BOOLEAN /\ metered \in BOOLEAN
  BY Zenon
<1>1. SyncWorkerTypeOK
  BY <1>0 DEF SyncWorkerTypeOK
<1>2. TableInv
  BY DEF TableInv
<1>3. WatchInv
  BY DEF WatchInv
<1> QED BY <1>1, <1>2, <1>3 DEF SyncWorkerInv

\* A handler or a command moves.
LEMMA RunKeeps ==
  ASSUME SyncWorkerInv, NEW c \in Callers,
         Ask(c) \/ SpawnRun(c) \/ Register(c) \/ StartFails(c) \/ WriteRc(c) \/ Exit(c) \/ KillRun(c)
  PROVE  SyncWorkerInv'
<1> USE SyncWorkerAssumption
    DEF SyncWorkerInv, SyncWorkerTypeOK, TableInv, WatchInv, Session, Alive, Fault, useVars, watchVars, boundVars
<1>1. CASE Ask(c)
  BY <1>1, SMTT(30) DEF Ask
<1>2. CASE SpawnRun(c)
  BY <1>2, SMTT(30) DEF SpawnRun, runVars, callerVars
<1>3. CASE Register(c)
  BY <1>3, SMTT(30) DEF Register
<1>4. CASE StartFails(c)
  BY <1>4, SMTT(30) DEF StartFails, runVars
<1>5. CASE WriteRc(c)
  BY <1>5, SMTT(30) DEF WriteRc, callerVars
<1>6. CASE Exit(c)
  BY <1>6, SMTT(30) DEF Exit, callerVars
<1>7. CASE KillRun(c)
  BY <1>7, SMTT(30) DEF KillRun, callerVars
<1> QED BY <1>1, <1>2, <1>3, <1>4, <1>5, <1>6, <1>7

\* A caller polls.
LEMMA PollKeeps ==
  ASSUME SyncWorkerInv, NEW c \in Callers, Poll(c) \/ PollLost(c)
  PROVE  SyncWorkerInv'
<1> USE SyncWorkerAssumption
    DEF SyncWorkerInv, SyncWorkerTypeOK, TableInv, WatchInv, Session, Alive, Fault, useVars, watchVars, boundVars, GiveUp
<1>1. CASE Poll(c)
  BY <1>1, SMTT(60) DEF Poll, Reap, ExitCode
<1>2. CASE PollLost(c)
  BY <1>2, SMTT(30) DEF PollLost, runVars
<1> QED BY <1>1, <1>2

\* Sessions and transfers come and go, and the sampler looks at them.
LEMMA UseKeeps == SyncWorkerInv /\ (UseStep \/ Sample) => SyncWorkerInv'
<1> SUFFICES ASSUME SyncWorkerInv, UseStep \/ Sample PROVE SyncWorkerInv'
  OBVIOUS
<1> USE SyncWorkerAssumption
    DEF SyncWorkerInv, SyncWorkerTypeOK, TableInv, WatchInv, Session, Alive, Visit, runVars, callerVars, watchVars, boundVars
<1>1. CASE Connect
  <2>1. SyncWorkerTypeOK'
    BY <1>1 DEF Connect
  <2>2. TableInv'
    BY <1>1 DEF Connect
  <2>3. WatchInv'
    BY <1>1 DEF Connect
  <2> QED BY <2>1, <2>2, <2>3
<1>2. CASE Disconnect
  <2>0. session' \in BOOLEAN /\ moved' \in BOOLEAN /\ seen' \in BOOLEAN /\ metered' \in BOOLEAN
    BY <1>2, Zenon DEF Disconnect
  <2>1. SyncWorkerTypeOK'
    BY <1>2, <2>0, SMTT(30) DEF Disconnect
  <2>2. TableInv'
    BY <1>2 DEF Disconnect
  <2>3. WatchInv'
    BY <1>2 DEF Disconnect
  <2> QED BY <2>1, <2>2, <2>3
<1>3. CASE BeginTransfer
  BY <1>3, SMTT(30) DEF BeginTransfer
<1>4. CASE Move
  BY <1>4, SMTT(30) DEF Move
<1>5. CASE EndTransfer
  BY <1>5, SMTT(30) DEF EndTransfer
<1>6. CASE Sample
  <2>0. session' \in BOOLEAN /\ moved' \in BOOLEAN /\ seen' \in BOOLEAN /\ metered' \in BOOLEAN
    BY <1>6, Zenon DEF Sample, BusyNow
  <2>1. SyncWorkerTypeOK'
    BY <1>6, <2>0, SMTT(30) DEF Sample, BusyNow
  <2>2. TableInv'
    BY <1>6 DEF Sample, BusyNow
  <2>3. WatchInv'
    BY <1>6 DEF Sample, BusyNow
  <2> QED BY <2>1, <2>2, <2>3
<1> QED BY <1>1, <1>2, <1>3, <1>4, <1>5, <1>6 DEF UseStep

\* The watchdog looks, or ends the pod; the container is restarted; time passes.
LEMMA WatchKeeps == SyncWorkerInv /\ (Look \/ EndPod \/ EndRefused \/ Restart \/ Tick) => SyncWorkerInv'
<1> SUFFICES ASSUME SyncWorkerInv, Look \/ EndPod \/ EndRefused \/ Restart \/ Tick PROVE SyncWorkerInv'
  OBVIOUS
<1> USE SyncWorkerAssumption
    DEF SyncWorkerInv, SyncWorkerTypeOK, TableInv, WatchInv, Session, Alive, Fault, runVars, callerVars, useVars, watchVars, boundVars
<1>1. CASE Look
  <2>1. SyncWorkerTypeOK'
    BY <1>1 DEF Look, Reap, Abandoned, Quiet, BusyTasks, ResourcesIdle
  <2>2. TableInv'
    BY <1>1 DEF Look, Reap, Abandoned, Quiet, BusyTasks, ResourcesIdle
  <2>3. WatchInv'
    BY <1>1 DEF Look, Reap, Abandoned, Quiet, BusyTasks, ResourcesIdle
  <2> QED BY <2>1, <2>2, <2>3
<1>2. CASE EndPod
  <2>0. session' \in BOOLEAN /\ moved' \in BOOLEAN /\ seen' \in BOOLEAN /\ metered' \in BOOLEAN
    BY <1>2, Zenon DEF EndPod, Vanish
  <2>1. SyncWorkerTypeOK'
    BY <1>2, <2>0, SMTT(30) DEF EndPod, Vanish
  <2>2. TableInv'
    BY <1>2 DEF EndPod, Vanish
  <2>3. WatchInv'
    BY <1>2 DEF EndPod, Vanish
  <2> QED BY <2>1, <2>2, <2>3
<1>3. CASE EndRefused
  BY <1>3, SMTT(30) DEF EndRefused
<1>4. CASE Restart
  <2>0. session' \in BOOLEAN /\ moved' \in BOOLEAN /\ seen' \in BOOLEAN /\ metered' \in BOOLEAN
    BY <1>4, Zenon DEF Restart, Vanish
  <2>1. SyncWorkerTypeOK'
    BY <1>4, <2>0, SMTT(30) DEF Restart, Vanish
  <2>2. TableInv'
    BY <1>4 DEF Restart, Vanish
  <2>3. WatchInv'
    BY <1>4 DEF Restart, Vanish
  <2> QED BY <2>1, <2>2, <2>3
<1>5. CASE Tick
  BY <1>5, SMTT(60) DEF Tick, Older, Waiting
<1> QED BY <1>1, <1>2, <1>3, <1>4, <1>5

LEMMA NextSyncWorker == SyncWorkerInv /\ [SyncWorkerNext]_syncWorkerVars => SyncWorkerInv'
<1> SUFFICES ASSUME SyncWorkerInv, [SyncWorkerNext]_syncWorkerVars PROVE SyncWorkerInv'
  OBVIOUS
<1>1. CASE RunStep
  BY <1>1, RunKeeps DEF RunStep
<1>2. CASE CallerStep
  BY <1>2, PollKeeps DEF CallerStep
<1>3. CASE UseStep
  BY <1>3, UseKeeps
<1>4. CASE WatchStep
  BY <1>4, UseKeeps, WatchKeeps DEF WatchStep
<1>5. CASE Restart \/ Tick
  BY <1>5, WatchKeeps
<1>6. CASE UNCHANGED syncWorkerVars
  BY <1>6 DEF syncWorkerVars, runVars, callerVars, useVars, watchVars, boundVars, SyncWorkerInv, SyncWorkerTypeOK,
             TableInv, WatchInv, Alive
<1> QED BY <1>1, <1>2, <1>3, <1>4, <1>5, <1>6 DEF SyncWorkerNext

\* The types and what the worker and its callers know of each other hold in every state.
THEOREM SyncWorkerInvariant == SyncWorkerSpec => []SyncWorkerInv
<1>1. SyncWorkerInit => SyncWorkerInv
  BY InitSyncWorker
<1>2. SyncWorkerInv /\ [SyncWorkerNext]_syncWorkerVars => SyncWorkerInv'
  BY NextSyncWorker
<1> QED BY <1>1, <1>2, PTL DEF SyncWorkerSpec

\* exec_wait returns the code of its own command, whose processes have been collected.
THEOREM AnswersCollected == SyncWorkerSpec => []AnswerIsCollected
<1>1. SyncWorkerInv => AnswerIsCollected
  BY DEF SyncWorkerInv, TableInv, AnswerIsCollected
<1> QED BY <1>1, SyncWorkerInvariant, PTL

\* The watchdog ends no pod over a command or a session that its last look could see.
THEOREM UsersSpared == SyncWorkerSpec => EndSparesUsers
<1>1. ASSUME SyncWorkerInv, [SyncWorkerNext]_syncWorkerVars, pod' = "ended", pod = "up"
      PROVE  {c \in procs : Alive(c)} \subseteq fresh /\ (session => Session \in fresh)
  <2>1. EndPod
    BY <1>1 DEF SyncWorkerNext, syncWorkerVars, RunStep, CallerStep, UseStep, WatchStep, Ask, SpawnRun, Register,
                StartFails, WriteRc, Exit, KillRun, Poll, PollLost, Connect, Disconnect, BeginTransfer, Move,
                EndTransfer, Sample, Look, EndRefused, Restart, Tick
  <2> QED BY <1>1, <2>1 DEF EndPod, SyncWorkerInv, WatchInv
<1> QED BY <1>1, SyncWorkerInvariant, PTL DEF SyncWorkerSpec, EndSparesUsers
=============================================================================
