----------------------------- MODULE SyncWorker -----------------------------
(***************************************************************************)
(* The worker process of the sync pod, pod/worker.py outside its task      *)
(* registry: detached commands, the record of who uses the pod, and the    *)
(* watchdog that stops a pod nobody uses; with the callers of exec_wait    *)
(* in rpfarm/worker_client.py.                                             *)
(*                                                                         *)
(* The pod has four kinds of thread: request handlers, the sampler (every  *)
(* 2 s), the watchdog (every 30 s, the Tick of this module) and, beside    *)
(* them, the commands themselves, which are processes of their own.  The   *)
(* container may be restarted: memory and processes are lost, the files of *)
(* the volume stay.  Ages are counted in ticks up to Orphan.               *)
(***************************************************************************)
EXTENDS Integers, FiniteSets

CONSTANTS
  Callers,       \* calls of exec_wait; the handle of each run is its own
  Orphan,        \* ticks after which silence means abandoned
  IdleChecks,    \* looks in a row that must find the pod idle
  Deadline,      \* ticks a caller goes on polling
  MaxFaults,     \* bound on lost replies, killed commands, restarts, refusals
  MaxVisits      \* bound on the connections and transfers that begin

ASSUME SyncWorkerAssumption ==
  /\ Orphan \in Nat \ {0, 1} /\ IdleChecks \in Nat \ {0} /\ Deadline \in Nat
  /\ MaxFaults \in Nat /\ MaxVisits \in Nat
  /\ {"session", "sample", "look"} \intersect Callers = {}

VARIABLES
  pod,           \* "up" or "ended"
  run,           \* each detached command and its wrapper
  rc,            \* what <handle>.rc says
  procs,         \* DetachedRuns._procs
  pc, waited,    \* each caller, and how long it has polled
  answer,        \* what exec_wait returned
  contact,       \* age of last_contact
  lastBusy,      \* age of Liveness._last_busy; -1 is None
  session,       \* a connection to sshd or the MQ server is established
  transfer,      \* a transfer process: "none", "live" or "zombie"
  moved, seen,   \* bytes moved since the last sample; it saw the process
  watch,         \* the watchdog: "waits" or "ends"
  idleChecks,    \* OrphanWatchdog._idle_checks
  metered,       \* CpuMeter has a previous reading
  due,           \* what has still to happen before the clock advances
  fresh,         \* history: commands and connections the last look could not see
  faults, visits

runVars    == <<run, rc, procs>>
callerVars == <<pc, waited, answer>>
useVars    == <<session, transfer, moved, seen>>
watchVars  == <<watch, idleChecks, metered>>
boundVars  == <<faults, visits>>
syncWorkerVars == <<pod, runVars, callerVars, contact, lastBusy, useVars,
                    watchVars, due, fresh, boundVars>>

Alive(c)  == run[c] \in {"alive", "coded"}      \* poll() is None
Waiting   == {c \in Callers : pc[c] = "polling"}
Older(n)  == IF n \in 0..Orphan - 1 THEN n + 1 ELSE n
Fault     == faults < MaxFaults /\ faults' = faults + 1
Visit     == visits < MaxVisits /\ visits' = visits + 1
Session   == "session"

SyncWorkerInit ==
  /\ pod = "up"
  /\ run = [c \in Callers |-> "none"] /\ rc = [c \in Callers |-> "none"]
  /\ procs = {}
  /\ pc = [c \in Callers |-> "idle"] /\ waited = [c \in Callers |-> 0]
  /\ answer = [c \in Callers |-> "none"]
  /\ contact = 0 /\ lastBusy = -1
  /\ session = FALSE /\ transfer = "none" /\ moved = FALSE /\ seen = FALSE
  /\ watch = "waits" /\ idleChecks = 0 /\ metered = FALSE
  /\ due = {"sample", "look"} /\ fresh = {}
  /\ faults = 0 /\ visits = 0

-----------------------------------------------------------------------------
(* DetachedRuns.start in the handler of POST /exec, and its wrapper         *)

\* the request is let in (_require_auth) and the script is written
Ask(c) ==
  /\ pod = "up" /\ pc[c] = "idle"
  /\ pc' = [pc EXCEPT ![c] = "asked"]
  /\ run' = [run EXCEPT ![c] = "scripted"]
  /\ contact' = 0
  /\ UNCHANGED <<pod, rc, procs, waited, answer, lastBusy, useVars, watchVars,
                 due, fresh, boundVars>>

SpawnRun(c) ==
  /\ run[c] = "scripted" /\ pc[c] = "asked"
  /\ run' = [run EXCEPT ![c] = "alive"]
  /\ UNCHANGED <<pod, rc, procs, callerVars, contact, lastBusy, useVars,
                 watchVars, due, fresh, boundVars>>

\* self._procs[handle] = proc, and the answer; one that is lost, and a start
\* that fails, is "could not start" to the caller
Register(c) ==
  /\ pod = "up" /\ pc[c] = "asked" /\ run[c] \notin {"none", "scripted"}
  /\ procs' = procs \union {c} /\ fresh' = fresh \union {c}
  /\ \/ pc' = [pc EXCEPT ![c] = "polling"] /\ UNCHANGED faults
     \/ pc' = [pc EXCEPT ![c] = "failed"] /\ Fault
  /\ UNCHANGED <<pod, run, rc, waited, answer, contact, lastBusy, useVars,
                 watchVars, due, visits>>

StartFails(c) ==
  /\ pc[c] = "asked" /\ run[c] = "scripted" /\ Fault
  /\ pc' = [pc EXCEPT ![c] = "failed"]
  /\ UNCHANGED <<pod, runVars, waited, answer, contact, lastBusy, useVars,
                 watchVars, due, fresh, visits>>

\* the wrapper renames <rc>.tmp, and then exits
WriteRc(c) ==
  /\ run[c] = "alive"
  /\ run' = [run EXCEPT ![c] = "coded"]
  /\ \E code \in {"ok", "bad"} : rc' = [rc EXCEPT ![c] = code]
  /\ UNCHANGED <<pod, procs, callerVars, contact, lastBusy, useVars, watchVars,
                 due, fresh, boundVars>>

Exit(c) ==
  /\ run[c] = "coded"
  /\ run' = [run EXCEPT ![c] = "zombie"]
  /\ UNCHANGED <<pod, rc, procs, callerVars, contact, lastBusy, useVars,
                 watchVars, due, fresh, boundVars>>

\* the command is killed, for lack of memory or by hand, with its wrapper
KillRun(c) ==
  /\ run[c] = "alive" /\ Fault
  /\ run' = [run EXCEPT ![c] = "zombie"]
  /\ UNCHANGED <<pod, rc, procs, callerVars, contact, lastBusy, useVars,
                 watchVars, due, fresh, visits>>

-----------------------------------------------------------------------------
(* DetachedRuns.status, asked by exec_wait                                  *)

ExitCodeFromFile(c) == rc[c]

\* proc is not None and not reaped: not done, whatever the file says
ExitCode(c) == IF c \in procs /\ Alive(c) THEN "none" ELSE rc[c]

\* poll() and wait() collect a process that has exited
Reap(R) == run' = [c \in Callers |-> IF c \in R /\ run[c] = "zombie" THEN "gone" ELSE run[c]]

GiveUp(c) ==
  IF waited[c] >= Deadline THEN pc' = [pc EXCEPT ![c] = "timed_out"]
                           ELSE UNCHANGED pc

Poll(c) ==
  /\ pod = "up" /\ pc[c] = "polling" /\ c \in due
  /\ due' = due \ {c} /\ contact' = 0
  /\ Reap(procs \cap {c})
  /\ IF ExitCode(c) # "none"
     THEN /\ pc' = [pc EXCEPT ![c] = "done"]
          /\ answer' = [answer EXCEPT ![c] = ExitCode(c)]
     ELSE GiveUp(c) /\ UNCHANGED answer
  /\ UNCHANGED <<pod, rc, procs, waited, lastBusy, useVars, watchVars, fresh,
                 boundVars>>

\* nothing answers: the poll is lost, or the pod is gone
PollLost(c) ==
  /\ pc[c] = "polling" /\ c \in due
  /\ IF pod = "up" THEN Fault ELSE UNCHANGED faults
  /\ due' = due \ {c}
  /\ GiveUp(c)
  /\ UNCHANGED <<pod, runVars, waited, answer, contact, lastBusy, useVars,
                 watchVars, fresh, visits>>

-----------------------------------------------------------------------------
(* Liveness.sample                                                          *)

BusyByPresence == session \/ transfer # "none"

BusyNow == session \/ (transfer = "live" /\ seen /\ moved)

Sample ==
  /\ pod = "up" /\ "sample" \in due
  /\ due' = due \ {"sample"}
  /\ lastBusy' = IF BusyNow THEN 0 ELSE lastBusy
  /\ seen' = (transfer = "live") /\ moved' = FALSE
  /\ fresh' = IF watch = "waits" THEN fresh \ {Session} ELSE fresh
  /\ UNCHANGED <<pod, runVars, callerVars, contact, session, transfer,
                 watchVars, boundVars>>

Connect ==
  /\ pod = "up" /\ ~ session /\ Visit
  /\ session' = TRUE /\ fresh' = fresh \union {Session}
  /\ UNCHANGED <<pod, runVars, callerVars, contact, lastBusy, transfer, moved,
                 seen, watchVars, due, faults>>

Disconnect ==
  /\ session /\ session' = FALSE
  /\ UNCHANGED <<pod, runVars, callerVars, contact, lastBusy, transfer, moved,
                 seen, watchVars, due, fresh, boundVars>>

BeginTransfer ==
  /\ pod = "up" /\ transfer # "live" /\ Visit
  /\ transfer' = "live"
  /\ UNCHANGED <<pod, runVars, callerVars, contact, lastBusy, session, moved,
                 seen, watchVars, due, fresh, faults>>

Move ==
  /\ transfer = "live" /\ ~ moved /\ moved' = TRUE
  /\ UNCHANGED <<pod, runVars, callerVars, contact, lastBusy, session, transfer,
                 seen, watchVars, due, fresh, boundVars>>

\* nobody reaps what sshd leaves behind
EndTransfer ==
  /\ transfer = "live" /\ transfer' = "zombie"
  /\ UNCHANGED <<pod, runVars, callerVars, contact, lastBusy, session, moved,
                 seen, watchVars, due, fresh, boundVars>>

-----------------------------------------------------------------------------
(* OrphanWatchdog.check, with the arguments make_server gives the sync pod  *)

TasksOnly == {}

\* registry.busy() + detached.running(); no task is ever sent to a sync pod
BusyTasks == {c \in procs : Alive(c)}

Abandoned == contact = Orphan /\ BusyTasks = {}
Quiet     == lastBusy \in {-1, Orphan}

\* CpuMeter: something that runs may use the CPU; the first reading is None
ResourcesIdle(cpuBusy) == metered /\ ~ cpuBusy
MayUseCpu == session \/ moved \/ lastBusy = 0 \/ \E c \in Callers : Alive(c)

Look ==
  /\ pod = "up" /\ watch = "waits" /\ "look" \in due
  /\ due' = due \ {"look"}
  /\ Reap(procs)
  /\ \E cpuBusy \in BOOLEAN :
       /\ cpuBusy => MayUseCpu
       /\ LET idle == Abandoned /\ Quiet /\ ResourcesIdle(cpuBusy) IN
          /\ idleChecks' = IF idle THEN idleChecks + 1 ELSE 0
          /\ metered' = (metered \/ (Abandoned /\ Quiet))
          /\ watch' = IF idle /\ idleChecks + 1 >= IdleChecks THEN "ends" ELSE "waits"
  /\ fresh' = fresh \cap {Session}
  /\ UNCHANGED <<pod, rc, procs, callerVars, contact, lastBusy, useVars,
                 boundVars>>

\* everything in the container ends, with what it had in memory; a request
\* that was being served gets no answer
Vanish ==
  /\ pc' = [c \in Callers |-> IF pc[c] = "asked" THEN "failed" ELSE pc[c]]
  /\ run' = [c \in Callers |-> IF run[c] \in {"none", "scripted"} THEN run[c] ELSE "gone"]
  /\ procs' = {} /\ session' = FALSE /\ transfer' = "none"
  /\ moved' = FALSE /\ seen' = FALSE
  /\ watch' = "waits" /\ idleChecks' = 0 /\ metered' = FALSE
  /\ contact' = 0 /\ lastBusy' = -1 /\ fresh' = {}

\* stop_self: podStop, then podTerminate
EndPod ==
  /\ pod = "up" /\ watch = "ends"
  /\ pod' = "ended"
  /\ Vanish
  /\ UNCHANGED <<rc, waited, answer, due, boundVars>>

\* both are refused or unheard: another full round
EndRefused ==
  /\ pod = "up" /\ watch = "ends" /\ Fault
  /\ watch' = "waits" /\ idleChecks' = 0
  /\ UNCHANGED <<pod, runVars, callerVars, contact, lastBusy, useVars, metered,
                 due, fresh, visits>>

\* the container is restarted
Restart ==
  /\ pod = "up" /\ Fault
  /\ Vanish
  /\ UNCHANGED <<pod, rc, waited, answer, due, visits>>

-----------------------------------------------------------------------------
\* 30 s: the sampler, the watchdog and every polling caller have had a turn,
\* and no handler is between Popen and the table
Tick ==
  /\ due \cap (Waiting \union IF pod = "up" THEN {"sample", "look"} ELSE {}) = {}
  /\ \A c \in Callers : pc[c] = "asked" => run[c] = "scripted"
  /\ contact' = Older(contact) /\ lastBusy' = Older(lastBusy)
  /\ waited' = [c \in Callers |-> IF c \in Waiting /\ waited[c] < Deadline
                                  THEN waited[c] + 1 ELSE waited[c]]
  /\ due' = Waiting \union {"sample"} \union {w \in {"look"} : watch = "waits"}
  /\ UNCHANGED <<pod, runVars, pc, answer, useVars, watchVars, fresh, boundVars>>

RunStep == \E c \in Callers : Ask(c) \/ SpawnRun(c) \/ Register(c) \/ StartFails(c)
                              \/ WriteRc(c) \/ Exit(c) \/ KillRun(c)
CallerStep == \E c \in Callers : Poll(c) \/ PollLost(c)
UseStep == Connect \/ Disconnect \/ BeginTransfer \/ Move \/ EndTransfer
WatchStep == Sample \/ Look \/ EndPod \/ EndRefused

SyncWorkerNext == RunStep \/ CallerStep \/ UseStep \/ WatchStep \/ Restart \/ Tick

SyncWorkerSpec == SyncWorkerInit /\ [][SyncWorkerNext]_syncWorkerVars

\* threads and clocks go on; a command, a connection or a transfer need not end
FairSyncWorker ==
  /\ SyncWorkerSpec
  /\ WF_syncWorkerVars(Tick) /\ WF_syncWorkerVars(Sample)
  /\ WF_syncWorkerVars(Look) /\ WF_syncWorkerVars(EndPod)
  /\ \A c \in Callers : /\ WF_syncWorkerVars(SpawnRun(c)) /\ WF_syncWorkerVars(Register(c))
                        /\ WF_syncWorkerVars(Exit(c))
                        /\ WF_syncWorkerVars(Poll(c) \/ PollLost(c))

-----------------------------------------------------------------------------
SyncWorkerTypeOK ==
  /\ pod \in {"up", "ended"} /\ watch \in {"waits", "ends"}
  /\ run \in [Callers -> {"none", "scripted", "alive", "coded", "zombie", "gone"}]
  /\ rc \in [Callers -> {"none", "ok", "bad"}]
  /\ answer \in [Callers -> {"none", "ok", "bad"}]
  /\ pc \in [Callers -> {"idle", "asked", "polling", "done", "timed_out", "failed"}]
  /\ waited \in [Callers -> 0..Deadline]
  /\ procs \subseteq Callers
  /\ contact \in 0..Orphan /\ lastBusy \in -1..Orphan
  /\ transfer \in {"none", "live", "zombie"}
  /\ session \in BOOLEAN /\ moved \in BOOLEAN
  /\ seen \in BOOLEAN /\ metered \in BOOLEAN
  /\ idleChecks \in 0..IdleChecks
  /\ due \subseteq Callers \union {"sample", "look"}
  /\ fresh \subseteq Callers \union {Session}
  /\ faults \in 0..MaxFaults /\ visits \in 0..MaxVisits

\* An exit code that exec_wait returned is the one its own command ended
\* with, and nothing of that command is left, alive or as a zombie
\* (DetachedRuns.status: "a present .rc always means finished").
AnswerIsCollected ==
  \A c \in Callers : pc[c] = "done" => answer[c] = rc[c] /\ answer[c] # "none" /\ run[c] = "gone"

\* The watchdog ends the pod over nothing it could have known of: a command
\* or a connection that is there when RunPod stops the pod began after the
\* last look (OrphanWatchdog: "only a truly abandoned one").
EndSparesUsers ==
  [][pod' = "ended" /\ pod = "up" =>
       /\ {c \in procs : Alive(c)} \subseteq fresh
       /\ session => Session \in fresh]_syncWorkerVars

\* exec_wait comes to an end, though a restart leaves a run "running" for ever.
WaitEnds == \A c \in Callers : pc[c] = "polling" ~> pc[c] # "polling"

\* A pod nobody uses for good is stopped: neither a zombie nor a transfer
\* that has stalled keeps it.
Unused == /\ ~ session /\ (moved => transfer = "zombie")
          /\ \A c \in Callers : pc[c] \notin {"asked", "polling"} /\ ~ Alive(c)
UnusedPodEnds == <>[]Unused => <>(pod = "ended")
=============================================================================
