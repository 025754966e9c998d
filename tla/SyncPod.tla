------------------------------ MODULE SyncPod ------------------------------
(***************************************************************************)
(* The sync pod of one artist: ensure_sync_pod of rpfarm/pods.py, called   *)
(* by any number of Houdini sessions and transfer processes, and the       *)
(* housekeeping that stops and deletes an idle one (monitoring.snapshot).  *)
(*                                                                         *)
(* A caller holds a file lock, which is one per computer, while it lists   *)
(* the pods and ends, starts or creates some; every one of these is a      *)
(* remote call, and a step.  A call fails without effect, or takes effect  *)
(* unheard; callers die; RunPod has no machine, or stops a pod it has just *)
(* resumed.  Pods are numbered in the order of their creation              *)
(* (createdAt).  Pods of another volume are left out: they only make the   *)
(* call fail.                                                              *)
(***************************************************************************)
EXTENDS Integers, FiniteSets

CONSTANTS
  Callers,
  Computer,      \* the computer each caller runs on
  NoCaller,
  MaxPods,       \* bound on the pods ever created
  MaxFaults,     \* bound on lost calls, deaths and pods that do not wake up
  MaxVisits,     \* bound on the visits of the housekeeping that act
  Impatient      \* whether a caller may give up on the lock (after 300 s)

ASSUME SyncPodAssumption ==
  /\ NoCaller \notin Callers
  /\ MaxPods \in Nat /\ MaxFaults \in Nat /\ MaxVisits \in Nat
  /\ Impatient \in BOOLEAN
  /\ DOMAIN Computer = Callers

Pods == 1..MaxPods
Computers == {Computer[c] : c \in Callers}

VARIABLES
  pod,           \* what RunPod has: "none", "RUNNING", "EXITED" or "gone"
  ready,         \* pods whose ssh port is mapped and whose worker answers
  arriving,      \* creations a caller asked for and died
  pc,            \* where each caller is
  lock,          \* who holds the lock file of each computer
  todo,          \* pods of its list a caller has still to treat
  mine,          \* the pod a caller ends, waits for or uses; 0 is none
  woken,         \* pods it has resumed
  late,          \* its capacity wait is over
  endless,       \* this round has no deadline (capacity_wait_s is 0)
  visit,         \* what the housekeeping is about to do
  visits, faults,
  kept,          \* history: pods whose end was asked for and failed
  astray,        \* history: pods that were created for a dead caller
  deduped        \* history: pods ended as duplicates

callerVars  == <<pc, lock, todo, mine, woken, late, endless>>
runpodVars  == <<pod, ready, arriving>>
keeperVars  == <<visit, visits>>
pastVars    == <<faults, kept, astray, deduped>>
syncPodVars == <<callerVars, runpodVars, keeperVars, pastVars>>

Running == {p \in Pods : pod[p] = "RUNNING"}
Stopped == {p \in Pods : pod[p] = "EXITED"}
Live    == Running \union Stopped
Unmade  == {p \in Pods : pod[p] = "none"}

Locked(c) == lock[Computer[c]] = c
InLoop(c) == pc[c] \in {"look", "dedupe", "start", "replace", "create"}
Fault     == faults < MaxFaults /\ faults' = faults + 1
Oldest(p, S) == p \in S /\ \A q \in S : p =< q

Init ==
  /\ pod = [p \in Pods |-> "none"] /\ ready = {} /\ arriving = 0
  /\ pc = [c \in Callers |-> "idle"]
  /\ lock = [m \in Computers |-> NoCaller]
  /\ todo = [c \in Callers |-> {}]
  /\ mine = [c \in Callers |-> 0]
  /\ woken = [c \in Callers |-> {}]
  /\ late = [c \in Callers |-> FALSE]
  /\ endless = [c \in Callers |-> FALSE]
  /\ visit = <<"none", 0>> /\ visits = 0 /\ faults = 0
  /\ kept = {} /\ astray = {} /\ deduped = {}

Goto(c, label) == pc' = [pc EXCEPT ![c] = label]
LetGo(c) == lock' = IF Locked(c) THEN [lock EXCEPT ![Computer[c]] = NoCaller] ELSE lock

\* a pod that RunPod takes away no longer answers
Terminated(p) == pod' = [pod EXCEPT ![p] = "gone"] /\ ready' = ready \ {p}

\* RunPod makes a pod
Made(p) == Oldest(p, Unmade) /\ pod' = [pod EXCEPT ![p] = "RUNNING"]

\* terminate_pod(p) by a caller: answered, or failed
Terminates(p) ==
  /\ Terminated(p)
  /\ UNCHANGED <<arriving, faults, kept, astray>>

TerminateFails(p) ==
  /\ Fault
  /\ kept' = kept \union {p}
  /\ UNCHANGED <<runpodVars, astray>>

-----------------------------------------------------------------------------
(* ensure_sync_pod *)

Ensure(c) ==
  /\ pc[c] = "idle"
  /\ Goto(c, "lock")
  /\ woken' = [woken EXCEPT ![c] = {}]
  /\ late' = [late EXCEPT ![c] = FALSE]
  /\ endless' = [endless EXCEPT ![c] = FALSE]
  /\ mine' = [mine EXCEPT ![c] = 0]
  /\ UNCHANGED <<lock, todo, runpodVars, keeperVars, pastVars>>

DeadlinePasses(c) ==
  /\ pc[c] \notin {"idle", "using", "failed"} /\ ~ late[c]
  /\ late' = [late EXCEPT ![c] = TRUE]
  /\ UNCHANGED <<pc, lock, todo, mine, woken, endless, runpodVars, keeperVars, pastVars>>

Lock(c) ==
  /\ pc[c] = "lock"
  /\ lock[Computer[c]] = NoCaller
  /\ lock' = [lock EXCEPT ![Computer[c]] = c]
  /\ Goto(c, "look")
  /\ UNCHANGED <<todo, mine, woken, late, endless, runpodVars, keeperVars, pastVars>>

LockTimesOut(c) ==
  /\ Impatient
  /\ pc[c] = "lock"
  /\ lock[Computer[c]] # NoCaller
  /\ Goto(c, "look")
  /\ UNCHANGED <<lock, todo, mine, woken, late, endless, runpodVars, keeperVars, pastVars>>

\* list_pods: one that runs is adopted, the oldest, and its duplicates ended;
\* one that does not run is started; with none, one is created
LookUnlocked(c) ==
  /\ pc[c] = "look"
  /\ lock' = IF Locked(c) THEN [lock EXCEPT ![Computer[c]] = NoCaller] ELSE lock
  /\ \/ \E p \in Running :
          /\ Oldest(p, Running)
          /\ mine' = [mine EXCEPT ![c] = p]
          /\ todo' = [todo EXCEPT ![c] = Running \ {p}]
          /\ Goto(c, "dedupe")
     \/ /\ Running = {}
        /\ todo' = [todo EXCEPT ![c] = Stopped]
        /\ Goto(c, "start")
        /\ UNCHANGED mine
  /\ UNCHANGED <<woken, late, endless, runpodVars, keeperVars, pastVars>>

Look(c) ==
  /\ pc[c] = "look"
  /\ \/ \E p \in Running :
          /\ Oldest(p, Running)
          /\ mine' = [mine EXCEPT ![c] = p]
          /\ todo' = [todo EXCEPT ![c] = Running \ {p}]
          /\ Goto(c, "dedupe")
     \/ /\ Running = {}
        /\ todo' = [todo EXCEPT ![c] = Stopped]
        /\ Goto(c, "start")
        /\ UNCHANGED mine
  /\ UNCHANGED <<lock, woken, late, endless, runpodVars, keeperVars, pastVars>>

Dedupe(c, p) ==
  /\ pc[c] = "dedupe" /\ p \in todo[c]
  /\ Terminates(p)
  /\ deduped' = deduped \union {p}
  /\ todo' = [todo EXCEPT ![c] = @ \ {p}]
  /\ UNCHANGED <<pc, lock, mine, woken, late, endless, keeperVars>>

\* the end of _find_or_create_sync_pod, with the pod it adopts
Adopt(c) ==
  /\ pc[c] = "dedupe" /\ todo[c] = {}
  /\ LetGo(c)
  /\ Goto(c, "wait")
  /\ UNCHANGED <<todo, mine, woken, late, endless, runpodVars, keeperVars, pastVars>>

\* start_pod.  A caller that gave up on the lock forgets what it woke
Start(c, p) ==
  /\ pc[c] = "start" /\ p \in todo[c]
  /\ pod[p] \in {"RUNNING", "EXITED"}
  /\ pod' = [pod EXCEPT ![p] = "RUNNING"]
  /\ mine' = [mine EXCEPT ![c] = p]
  /\ woken' = IF Locked(c) THEN [woken EXCEPT ![c] = @ \union {p}] ELSE woken
  /\ todo' = [todo EXCEPT ![c] = {}]
  /\ LetGo(c)
  /\ Goto(c, "wait")
  /\ UNCHANGED <<ready, arriving, late, endless, keeperVars, pastVars>>

\* it is refused: the pod is gone, or runs already, or the call is lost
StartRefused(c, p) ==
  /\ pc[c] = "start" /\ p \in todo[c]
  /\ \/ /\ pod[p] # "EXITED"
        /\ UNCHANGED <<pod, faults>>
     \/ /\ pod[p] = "EXITED" /\ Fault
        /\ \E s \in {"RUNNING", "EXITED"} : pod' = [pod EXCEPT ![p] = s]
  /\ mine' = [mine EXCEPT ![c] = p]
  /\ todo' = [todo EXCEPT ![c] = @ \ {p}]
  /\ Goto(c, "replace")
  /\ UNCHANGED <<lock, woken, late, endless, ready, arriving, keeperVars, kept, astray, deduped>>

\* ... and then terminated, if it can be
Replace(c) ==
  /\ pc[c] = "replace"
  /\ Terminates(mine[c]) \/ TerminateFails(mine[c])
  /\ Goto(c, "start")
  /\ UNCHANGED <<lock, todo, mine, woken, late, endless, keeperVars, deduped>>

StartsDone(c) ==
  /\ pc[c] = "start" /\ todo[c] = {}
  /\ Goto(c, "create")
  /\ UNCHANGED <<lock, todo, mine, woken, late, endless, runpodVars, keeperVars, pastVars>>

\* create_cpu_pod
Create(c) ==
  /\ pc[c] = "create"
  /\ \E p \in Pods : Made(p) /\ mine' = [mine EXCEPT ![c] = p]
  /\ LetGo(c)
  /\ Goto(c, "wait")
  /\ UNCHANGED <<todo, woken, late, endless, ready, arriving, keeperVars, pastVars>>

\* any 5xx is a shortage: there is another round, unless this one's deadline
\* is over
AnotherRound(c) == Goto(c, IF late[c] /\ ~ endless[c] THEN "failed" ELSE "lock")

NoMachine(c) ==
  /\ pc[c] = "create"
  /\ LetGo(c)
  /\ AnotherRound(c)
  /\ UNCHANGED <<todo, mine, woken, late, endless, runpodVars, keeperVars, pastVars>>

\* the pod is made, and the answer lost
CreateUnheard(c) ==
  /\ pc[c] = "create"
  /\ Fault
  /\ \E p \in Pods : Made(p)
  /\ LetGo(c)
  /\ Goto(c, "failed") \/ AnotherRound(c)
  /\ UNCHANGED <<todo, mine, woken, late, endless, ready, arriving, keeperVars, kept, astray, deduped>>

\* a call that is not caught fails, with a 5xx or otherwise: a list, the end of
\* a duplicate, a creation
CallFails(c) ==
  /\ pc[c] \in {"look", "dedupe", "create"}
  /\ Fault
  /\ LetGo(c)
  /\ Goto(c, "failed") \/ AnotherRound(c)
  /\ kept' = IF pc[c] = "dedupe" THEN kept \union todo[c] ELSE kept
  /\ UNCHANGED <<todo, mine, woken, late, endless, runpodVars, keeperVars, astray, deduped>>

-----------------------------------------------------------------------------
(* wait_ready, and what ensure_sync_pod does with its outcome *)

\* the caller has the pod, and says on the volume that it is in use
Ready(c) ==
  /\ pc[c] = "wait"
  /\ pod[mine[c]] = "RUNNING" /\ mine[c] \in ready
  /\ Goto(c, "using")
  /\ UNCHANGED <<lock, todo, mine, woken, late, endless, runpodVars, keeperVars, pastVars>>

\* get_pod fails, or the pod does not know the session token
WaitFails(c) ==
  /\ pc[c] = "wait"
  /\ Fault
  /\ Goto(c, "failed")
  /\ UNCHANGED <<lock, todo, mine, woken, late, endless, runpodVars, keeperVars, kept, astray, deduped>>

\* PodGoneError
Vanished(c) ==
  /\ pc[c] = "wait"
  /\ pod[mine[c]] = "gone"
  /\ Goto(c, IF late[c] THEN "failed" ELSE "again")
  /\ UNCHANGED <<lock, todo, mine, woken, late, endless, runpodVars, keeperVars, pastVars>>

\* TimeoutError: only a pod that was woken is given back
TimesOut(c) ==
  /\ pc[c] = "wait"
  /\ pod[mine[c]] # "gone" /\ mine[c] \notin ready
  /\ Goto(c, IF mine[c] \in woken[c] THEN "give" ELSE "failed")
  /\ woken' = [woken EXCEPT ![c] = @ \ {mine[c]}]
  /\ UNCHANGED <<lock, todo, mine, late, endless, runpodVars, keeperVars, pastVars>>

GiveBack(c) ==
  /\ pc[c] = "give"
  /\ Terminates(mine[c]) \/ TerminateFails(mine[c])
  /\ Goto(c, "again")
  /\ UNCHANGED <<lock, todo, mine, woken, late, endless, keeperVars, deduped>>

\* the next round is given what is left of the wait, and 0 means for ever
Again(c) ==
  /\ pc[c] = "again"
  /\ Goto(c, "lock")
  /\ endless' = [endless EXCEPT ![c] = late[c]]
  /\ UNCHANGED <<lock, todo, mine, woken, late, runpodVars, keeperVars, pastVars>>

Done(c) ==
  /\ pc[c] \in {"using", "failed"}
  /\ Goto(c, "idle")
  /\ mine' = [mine EXCEPT ![c] = 0]
  /\ UNCHANGED <<lock, todo, woken, late, endless, runpodVars, keeperVars, pastVars>>

-----------------------------------------------------------------------------
(* Around the callers *)

\* the process dies: the system frees its lock, and a creation it has asked
\* for may still arrive
Crash(c) ==
  /\ pc[c] \notin {"idle", "using", "failed"}
  /\ Fault
  /\ LetGo(c)
  /\ Goto(c, "idle")
  /\ arriving' = arriving + (IF pc[c] = "create" THEN 1 ELSE 0)
  /\ mine' = [mine EXCEPT ![c] = 0]
  /\ UNCHANGED <<todo, woken, late, endless, pod, ready, keeperVars, kept, astray, deduped>>

Arrive ==
  /\ arriving > 0
  /\ arriving' = arriving - 1
  /\ \E p \in Pods : Made(p) /\ astray' = astray \union {p}
  /\ UNCHANGED <<callerVars, ready, keeperVars, faults, kept, deduped>>

Boot(p) ==
  /\ pod[p] = "RUNNING" /\ p \notin ready
  /\ ready' = ready \union {p}
  /\ UNCHANGED <<callerVars, pod, arriving, keeperVars, pastVars>>

\* a resumed pod goes back to sleep
FallsAsleep(p) ==
  /\ pod[p] = "RUNNING" /\ p \notin ready
  /\ Fault
  /\ pod' = [pod EXCEPT ![p] = "EXITED"]
  /\ UNCHANGED <<callerVars, ready, arriving, keeperVars, kept, astray, deduped>>

\* monitoring.snapshot: a pod that runs and that nobody has used for long is
\* stopped, one that has been stopped for long is deleted.  What it read and
\* what it does are calls of their own
Inspect(p) ==
  /\ visit[1] = "none" /\ visits < MaxVisits
  /\ \/ /\ p \in ready
        /\ \A c \in Callers : pc[c] \in {"wait", "using"} => mine[c] # p
        /\ visit' = <<"stop", p>>
     \/ /\ pod[p] = "EXITED"
        /\ visit' = <<"delete", p>>
  /\ visits' = visits + 1
  /\ UNCHANGED <<callerVars, runpodVars, pastVars>>

Act ==
  /\ visit[1] # "none"
  /\ visit' = <<"none", 0>>
  /\ LET p == visit[2] IN
       IF visit[1] = "delete" THEN Terminated(p)
       ELSE /\ pod' = [pod EXCEPT ![p] = IF @ = "RUNNING" THEN "EXITED" ELSE @]
            /\ ready' = ready \ {p}
  /\ UNCHANGED <<callerVars, arriving, visits, pastVars>>

-----------------------------------------------------------------------------

\* the steps that end a call of ensure_sync_pod, whatever RunPod has
Progress(c) ==
  \/ Look(c) \/ Adopt(c) \/ Replace(c) \/ StartsDone(c) \/ NoMachine(c)
  \/ Ready(c) \/ Vanished(c) \/ GiveBack(c) \/ Again(c)
  \/ \E p \in Pods : Dedupe(c, p) \/ Start(c, p) \/ StartRefused(c, p)

Caller(c) ==
  \/ Ensure(c) \/ DeadlinePasses(c) \/ Lock(c) \/ LockTimesOut(c) \/ Create(c)
  \/ CreateUnheard(c) \/ CallFails(c) \/ WaitFails(c) \/ TimesOut(c) \/ Done(c)
  \/ Crash(c) \/ Progress(c)

Next ==
  \/ \E c \in Callers : Caller(c)
  \/ \E p \in Pods : Boot(p) \/ FallsAsleep(p) \/ Inspect(p)
  \/ Arrive \/ Act

Spec == Init /\ [][Next]_syncPodVars

\* a caller goes on, its deadline passes and its waits time out; the lock is
\* polled, so it is had some time if it is free again and again
Fairness ==
  \A c \in Callers :
    /\ WF_syncPodVars(Progress(c)) /\ SF_syncPodVars(Lock(c))
    /\ WF_syncPodVars(DeadlinePasses(c)) /\ WF_syncPodVars(TimesOut(c))

FairSpec == Spec /\ Fairness

-----------------------------------------------------------------------------
(* Properties *)

Labels == {"idle", "lock", "look", "dedupe", "start", "replace", "create", "wait", "give", "again",
           "using", "failed"}

TypeOK ==
  /\ pod \in [Pods -> {"none", "RUNNING", "EXITED", "gone"}]
  /\ ready \subseteq Running
  /\ arriving \in Nat /\ visits \in 0..MaxVisits /\ faults \in 0..MaxFaults
  /\ pc \in [Callers -> Labels]
  /\ lock \in [Computers -> Callers \union {NoCaller}]
  /\ \A c \in Callers : Locked(c) => InLoop(c)
  /\ todo \in [Callers -> SUBSET Pods]
  /\ mine \in [Callers -> Pods \union {0}]
  /\ \A c \in Callers : pc[c] \in {"dedupe", "replace", "wait", "give", "using"} => mine[c] # 0
  /\ woken \in [Callers -> SUBSET Pods]
  /\ late \in [Callers -> BOOLEAN] /\ endless \in [Callers -> BOOLEAN]
  /\ visit \in ({"none"} \X {0}) \union ({"stop", "delete"} \X Pods)
  /\ kept \subseteq Pods /\ astray \subseteq Pods /\ deduped \subseteq Pods

\* The sync pod is one: the callers of a computer that wait for each other
\* never pay for two, stopped ones included, but for a pod whose end failed
\* or one that arrived after its caller had died.
OneSyncPod == Cardinality(Live \ (kept \union astray)) =< 1

\* "so two callers racing this adopt one pod rather than creating two": on one
\* computer the pod a caller uses is never ended as a duplicate, unless
\* one of those exceptions has made two.
UsedIsSpared ==
  kept \union astray = {} => \A c \in Callers : pc[c] = "using" => mine[c] \notin deduped

\* "the dedup pass is what keeps that safe" (ensure_sync_pod, of a caller
\* without the lock): the pod a caller uses is not ended as a duplicate.
DedupeIsSafe == \A c \in Callers : pc[c] = "using" => mine[c] \notin deduped

Over(c) == pc[c] \in {"using", "failed", "idle"}

\* A call of ensure_sync_pod ends, even if RunPod never has a machine, as long
\* as no round of it was given 0 for the rest of its wait.
EnsureEndsByDeadline == \A c \in Callers : (pc[c] = "lock") ~> (Over(c) \/ endless[c])

\* The pods it loses on the way are looked for again "inside the same capacity
\* deadline" (ensure_sync_pod): it ends in every case.
EnsureEnds == \A c \in Callers : (pc[c] = "lock") ~> Over(c)
=============================================================================
