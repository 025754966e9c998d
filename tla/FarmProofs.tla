----------------------------- MODULE FarmProofs -----------------------------
(***************************************************************************)
(* Proofs about Farm for every number of pods, items and faults: the cook  *)
(* only uses the Dispatcher through its methods, never loses sight of a    *)
(* machine that is billed, and tells PDG one true outcome of every item.   *)
(***************************************************************************)
EXTENDS Farm, DispatcherProofs

-----------------------------------------------------------------------------
(* The inductive invariants *)

\* Where the scheduler thread is says how the cook stands.
StopPhases == {"stopsettle", "stopkill", "stopsweep"} \union AfterSweep

Phased ==
  /\ cook = "stopping" <=> phase \in StopPhases
  /\ cook \in {"stopped", "crashed"} <=> phase = "off"

\* Machines.  The loops that terminate pods hold no pod of the pool, and from
\* the sweep of onStopCook on every machine outside the pool is either still
\* to be visited, on the retry list, or out of sight.
Swept ==
  phase \in AfterSweep \ {"stopend"} =>
    \A p \in Pods : Billing(p) =>
      \/ p \in pool \union retries
      \/ phase = "stoporphans" /\ p \in leftPods
      \/ OutOfSight(p)

Logged == phase = "stopend" => \A p \in Pods : Billing(p) => p \in logged \/ OutOfSight(p)

Loops ==
  /\ phase = "retry" => leftPods \subseteq retries
  /\ phase = "stoporphans" => leftPods \intersect pool = {}
  /\ phase \in {"stopretry", "stopend"} => pool = {}

\* The loop of _scale_up: it asks for machines only while an item is queued,
\* so that a stop that overtakes it is a cancelled cook's.
Scaling ==
  /\ creating # NoPod => creating \notin pool /\ wanted > 0 /\ cook # "crashed"
  /\ wanted > 0 /\ cook = "cooking" => phase = "create" /\ pending # <<>>
  /\ wanted > 0 /\ cook = "stopping" => canceling
  /\ cook = "cooking" => creating \notin retries
  /\ \A p \in coming : ~ Billing(p)
  /\ cook # "crashed" => coming \subseteq unheard \union {creating}

MachineInv ==
  /\ BillingIsTracked
  /\ RetiredLeavesPool
  /\ StopLeavesOnlyKnown
  /\ Phased
  /\ Swept
  /\ Logged
  /\ Loops
  /\ Scaling

\* Outcomes.  What is done is either told to PDG or settling, and what is
\* recorded as a success on a worker did succeed.
Registered ==
  \A p \in Pods, i \in Ids : rec[p][i] = "succeeded" => i[1] \in finished

Settled ==
  phase \in StopPhases \ {"stopsettle"} \/ cook = "stopped" => settling = {}

OutcomeInv ==
  /\ told \union settling = done
  /\ told \intersect settling = {}
  /\ done \subseteq finished
  /\ Registered
  /\ Settled

FarmInv == Inv /\ FarmTypeOK /\ MachineInv /\ OutcomeInv
-----------------------------------------------------------------------------
(* What the calls of the Dispatcher leave alone *)

LEMMA DropFrame ==
  ASSUME NEW Lost, NEW idle, Drop(Lost, idle)
  PROVE  /\ pool' = pool \ Lost
         /\ UNCHANGED <<cursor, renamed, done, reports, now>>
BY DEF Drop, history

LEMMA PodDeadFrame ==
  ASSUME NEW p, PodDead(p)
  PROVE  /\ p \in pool /\ pool' = pool \ {p}
         /\ UNCHANGED <<cursor, renamed, done, reports, now>>
BY DropFrame DEF PodDead

LEMMA RetireFrame ==
  ASSUME RetireIdlePods
  PROVE  /\ pool' \subseteq pool
         /\ UNCHANGED <<cursor, renamed, done, reports, now>>
BY DropFrame DEF RetireIdlePods

\* terminate_pod stops billing or puts the pod on the retry list.
LEMMA TerminateFacts ==
  ASSUME NEW S \in SUBSET Pods, Terminate(S)
  PROVE  /\ \A p \in Pods : Billing(p)' => Billing(p)
         /\ \A p \in S : Billing(p)' => p \in retries'
         /\ retries' \subseteq retries \union S
         /\ retries \subseteq retries' \union S
         /\ \A p \in Pods : rec'[p] \in {rec[p], EmptyRegistry}
<1>1. PICK Reached \in SUBSET S, Heard \in SUBSET S :
        /\ Heard \subseteq Reached
        /\ machine' = [p \in Pods |-> IF p \in Reached THEN "gone" ELSE machine[p]]
        /\ rec' = [p \in Pods |-> IF p \in Reached THEN EmptyRegistry ELSE rec[p]]
        /\ retries' = (retries \union S) \ Heard
  BY DEF Terminate
<1> HIDE DEF EmptyRegistry
<1> QED BY <1>1 DEF Billing

-----------------------------------------------------------------------------
(* The cook uses the Dispatcher through its methods *)

LEMMA HeadIsTask ==
  ASSUME TypeOK, pending # <<>>
  PROVE  Head(pending) \in Tasks
BY TailFacts DEF TypeOK

LEMMA PickedArePods == TypeOK => Picked \subseteq pool /\ pool \subseteq Pods
BY DEF Picked, TypeOK

\* Every step of a cook is one call of the Dispatcher, or none.
LEMMA StepCallsDispatcher ==
  ASSUME TypeOK, FarmTypeOK, [FarmNext]_farmVars
  PROVE  [Next]_dispatcherVars
<1> USE DEF Next, PodStep, TaskStep
<1>1. ASSUME NEW t \in Tasks, Schedule(t) PROVE Next
  BY <1>1 DEF Schedule
<1>2. CASE Submit
  <2>1. PICK p \in Picked : \/ SubmitLost(p) \/ SubmitUnheard(p, Head(pending))
                            \/ Accepted202(p, Head(pending)) \/ Busy429(p, Head(pending))
                            \/ Duplicate409(p, Head(pending))
    BY <1>2 DEF Submit
  <2>2. p \in Pods /\ Head(pending) \in Tasks
    BY <1>2, <2>1, HeadIsTask, PickedArePods DEF Submit
  <2>3. \/ MarkFull(p) \/ Assign(p) \/ Retask(Head(pending)) \/ FailPending(Head(pending))
    BY <2>1 DEF SubmitLost, SubmitUnheard, Accepted202, Busy429, Duplicate409
  <2> HIDE DEF Next
  <2>4. MarkFull(p) \/ Assign(p) => Next
    BY <2>2 DEF Next
  <2>5. Retask(Head(pending)) \/ FailPending(Head(pending)) => Next
    BY <2>2 DEF Next
  <2> QED BY <2>3, <2>4, <2>5
<1>3. CASE TickStart
  BY <1>3 DEF TickStart
<1>4. ASSUME NEW p \in Pods, Poll(p) PROVE Next \/ UNCHANGED dispatcherVars
  BY <1>4 DEF Poll, PollAnswered, PollFailed, PollTimedOut
<1>5. ASSUME NEW p \in Pods, GiveUpOnPod(p) \/ KillPod(p) PROVE Next
  BY <1>5 DEF GiveUpOnPod, KillPod
<1>6. CASE Tell \/ Report
  BY <1>6 DEF Tell, Report
<1>7. ASSUME NEW t \in Tasks, PollTask(t) PROVE Next \/ UNCHANGED dispatcherVars
  BY <1>7 DEF PollTask, Retire
<1>8. CASE CreateAnswered
  BY <1>8 DEF CreateAnswered, FarmTypeOK
<1>9. CASE Expire
  BY <1>9 DEF Expire
<1>10. CASE RetireIdle
  BY <1>10 DEF RetireIdle
<1>11. CASE Time
  BY <1>11 DEF Time
<1>12. CASE DispatchDone \/ RetriesDone \/ PollDone \/ TasksDone \/ SettleResults \/ BudgetHolds
              \/ BudgetKill \/ KillDone \/ Autoscale \/ CreateRefused \/ CreateUnheard
              \/ CreateTooLate \/ CreateStranded \/ CreateDone
  BY <1>12 DEF DispatchDone, RetriesDone, PollDone, TasksDone, SettleResults, Settle, BudgetHolds,
               BudgetKill, KillDone, Autoscale, CreateRefused, CreateUnheard, CreateTooLate,
               CreateStranded, CreateDone
<1>13. CASE StopCook \/ StopSettle \/ StopKillDone \/ StopSweep \/ StopOrphansDone \/ StopPodsDone
              \/ StopLog \/ Stopped \/ Cancel \/ Crash
  BY <1>13 DEF StopCook, StopSettle, StopKillDone, StopSweep, StopOrphansDone, StopPodsDone,
               StopLog, Stopped, Cancel, Crash
<1>14. ASSUME NEW p \in Pods,
              \/ RetryTerminate(p) \/ CreateCall(p) \/ CreateMade(p) \/ StopOrphan(p) \/ Boot(p)
              \/ Die(p) \/ Restart(p) \/ TaskProgress(p) \/ Watchdog(p)
       PROVE  UNCHANGED dispatcherVars
  BY <1>14 DEF RetryTerminate, CreateCall, CreateMade, StopOrphan, Boot, Die, Restart, TaskProgress, TaskEnds,
               Watchdog
<1>15. ASSUME NEW t \in Tasks, StopKill(t) PROVE UNCHANGED dispatcherVars
  BY <1>15 DEF StopKill
<1>16. CASE UNCHANGED farmVars
  BY <1>16 DEF farmVars
<1> HIDE DEF Next, PodStep, TaskStep
<1> QED BY <1>1, <1>2, <1>3, <1>4, <1>5, <1>6, <1>7, <1>8, <1>9, <1>10, <1>11, <1>12, <1>13,
           <1>14, <1>15, <1>16 DEF FarmNext, TickStep, StopStep, Around
-----------------------------------------------------------------------------
(* Types, and Max Pods *)

LEMMA EmptyRegistryType ==
  EmptyRegistry \in [Ids -> {"absent", "running", "succeeded", "failed", "killed"}]
BY DEF EmptyRegistry

LEMMA TerminateTypes ==
  ASSUME FarmTypeOK, NEW S \in SUBSET Pods, Terminate(S)
  PROVE  /\ retries' \subseteq Pods
         /\ machine' \in [Pods -> {"gone", "booting", "up"}]
         /\ rec' \in [Pods -> [Ids -> {"absent", "running", "succeeded", "failed", "killed"}]]
         /\ faults' \in 0..MaxFaults
<1>1. PICK Reached \in SUBSET S, Heard \in SUBSET S :
        /\ Heard \subseteq Reached
        /\ machine' = [p \in Pods |-> IF p \in Reached THEN "gone" ELSE machine[p]]
        /\ rec' = [p \in Pods |-> IF p \in Reached THEN EmptyRegistry ELSE rec[p]]
        /\ retries' = (retries \union S) \ Heard
        /\ Faults(Cardinality(S \ Heard))
  BY DEF Terminate
<1>2. Cardinality(S \ Heard) \in Nat
  BY FS_Subset, FS_CardinalityType, DispatcherAssumption
<1>3. faults' \in 0..MaxFaults
  BY <1>1, <1>2, FarmAssumption DEF Faults, FarmTypeOK
<1>4. rec' \in [Pods -> [Ids -> {"absent", "running", "succeeded", "failed", "killed"}]]
  BY <1>1, EmptyRegistryType DEF FarmTypeOK
<1> QED BY <1>1, <1>3, <1>4 DEF FarmTypeOK

LEMMA PoolCounts ==
  ASSUME TypeOK
  PROVE  /\ IsFiniteSet(pool) /\ Cardinality(pool) \in Nat
         /\ \A S \in SUBSET pool : IsFiniteSet(S) /\ Cardinality(S) \in 0..Cardinality(pool)
<1>1. IsFiniteSet(pool)
  BY FS_Subset, DispatcherAssumption DEF TypeOK
<1> QED BY <1>1, FS_Subset, FS_CardinalityType

\* A smaller pool leaves room for as many machines as before.
LEMMA WantedFits ==
  ASSUME TypeOK, FarmTypeOK, pool' \subseteq pool, wanted' \in 0..wanted
  PROVE  wanted' \in 0 .. MaxPods - Cardinality(pool')
<1>1. Cardinality(pool') \in 0..Cardinality(pool) /\ Cardinality(pool) \in Nat
  BY PoolCounts
<1> QED BY <1>1, FarmAssumption DEF FarmTypeOK

\* _scale_up never asks for more than Max Pods allows.
LEMMA ClampFits ==
  ASSUME TypeOK, FarmTypeOK, NEW n \in Int
  PROVE  Clamp(n) \in 0 .. MaxPods - Cardinality(pool)
<1>1. Cardinality(pool) \in Nat
  BY PoolCounts
<1> QED BY <1>1, FarmAssumption DEF Clamp, AtMost, AtLeast, FarmTypeOK

LEMMA DecisionsAreNumbers ==
  ASSUME TypeOK
  PROVE  InitialPods \subseteq Int /\ AutoscaleDecision \subseteq Int
<1>1. /\ Cardinality({p \in pool : status[p] = "CREATED"}) \in Nat
      /\ ActivePods \in Nat
  BY PoolCounts DEF ActivePods
<1>2. Len(pending) \in Nat
  BY DEF TypeOK
<1>3. Cardinality(InFlight) \in Nat
  BY FS_Subset, FS_CardinalityType, DispatcherAssumption DEF InFlight
<1>4. InitialPods \subseteq Int
  BY <1>2, <1>3, DispatcherAssumption DEF InitialPods, AtMost, AtLeast
<1>5. AutoscaleDecision \subseteq Int
  <2> DEFINE booting == Cardinality({p \in pool : status[p] = "CREATED"})
             headroom == AtLeast(MaxPods - ActivePods, 0)
             grown == {AtMost(AtMost(n, headroom), Len(pending)) : n \in 2..4}
             batch == IF overBudget \/ pending = <<>> \/ headroom = 0 THEN {0}
                      ELSE IF ActivePods = 0 THEN {1} ELSE {0} \union grown
  <2>1. booting \in Nat
    BY <1>1
  <2>2. headroom \in Nat
    BY <1>1, FarmAssumption DEF AtLeast
  <2>3. AutoscaleDecision = {AtLeast(n - booting, 0) : n \in batch}
    BY DEF AutoscaleDecision
  <2> HIDE DEF headroom, booting
  <2>4. \A a, b \in Int : AtMost(a, b) \in Int
    BY DEF AtMost
  <2>5. \A n \in 2..4 : AtMost(AtMost(n, headroom), Len(pending)) \in Int
    BY <1>2, <2>2, <2>4
  <2>6. grown \subseteq Int
    BY <2>5
  <2> HIDE DEF grown
  <2>7. batch \subseteq Int
    BY <2>6
  <2> HIDE DEF batch
  <2> QED BY <2>1, <2>3, <2>7 DEF AtLeast
<1> QED BY <1>4, <1>5

LEMMA InitTypes == FarmInit => FarmTypeOK
<1> SUFFICES ASSUME FarmInit PROVE FarmTypeOK
  OBVIOUS
<1>1. wanted \in 0 .. MaxPods - Cardinality(pool)
  BY FS_EmptySet, FarmAssumption DEF FarmInit, Init
<1>2. faults \in 0..MaxFaults
  BY FarmAssumption DEF FarmInit
<1>3. rec \in [Pods -> [Ids -> {"absent", "running", "succeeded", "failed", "killed"}]]
  BY EmptyRegistryType DEF FarmInit
<1> QED BY <1>1, <1>2, <1>3 DEF FarmInit, FarmTypeOK, Phases
LEMMA WantedIsNat ==
  ASSUME TypeOK, FarmTypeOK
  PROVE  wanted \in Nat /\ wanted \in 0..wanted
         /\ (wanted > 0 => wanted - 1 \in 0..wanted) /\ 0 \in 0..wanted
BY PoolCounts, FarmAssumption DEF FarmTypeOK

LEMMA TypesStep ==
  ASSUME TypeOK, FarmTypeOK, Scaling, FarmNext
  PROVE  FarmTypeOK'
<1> USE DEF FarmTypeOK, Phases, threadVars, schedVars, worldVars, callVars, stopPast, pastVars,
            dispatcherVars, podVars, taskVars, history, Goto, NoFault
<1> HIDE DEF TypeOK, Terminate
<1>1. ASSUME NEW t \in Tasks, Schedule(t) PROVE FarmTypeOK'
  BY <1>1 DEF Schedule, Enqueue
<1>2. CASE Submit
  <2>1. pool' = pool /\ faults' \in 0..MaxFaults
        /\ rec' \in [Pods -> [Ids -> {"absent", "running", "succeeded", "failed", "killed"}]]
    <3>1. PICK p \in Picked : \/ SubmitLost(p) \/ SubmitUnheard(p, Head(pending))
                              \/ Accepted202(p, Head(pending)) \/ Busy429(p, Head(pending))
                              \/ Duplicate409(p, Head(pending))
      BY <1>2 DEF Submit
    <3>2. CASE SubmitLost(p)
      BY <3>2, FarmAssumption DEF SubmitLost, MarkFull, Fault
    <3>3. CASE SubmitUnheard(p, Head(pending)) \/ Accepted202(p, Head(pending))
      BY <3>3, FarmAssumption DEF SubmitUnheard, Accepted202, MarkFull, Assign, Fault
    <3>4. CASE Busy429(p, Head(pending))
      BY <3>4 DEF Busy429, MarkFull
    <3>5. CASE Duplicate409(p, Head(pending))
      BY <3>5 DEF Duplicate409, Retask, FailPending
    <3> QED BY <3>1, <3>2, <3>3, <3>4, <3>5
  <2> QED BY <1>2, <2>1 DEF Submit
<1>3. CASE DispatchDone
  BY <1>3 DEF DispatchDone, InFlight
<1>4. CASE TickStart
  BY <1>4 DEF TickStart, ReleaseFull
<1>5. ASSUME NEW p \in Pods, RetryTerminate(p) \/ StopOrphan(p) PROVE FarmTypeOK'
  <2>1. Terminate({p})
    BY <1>5 DEF RetryTerminate, StopOrphan
  <2> QED BY <1>5, <2>1, TerminateTypes DEF RetryTerminate, StopOrphan
<1>6. CASE RetriesDone \/ PollDone \/ TasksDone \/ StopKillDone \/ StopOrphansDone \/ StopPodsDone
  BY <1>6, TypeOK DEF RetriesDone, PollDone, TasksDone, StopKillDone, StopOrphansDone, StopPodsDone,
               TypeOK
<1>7. ASSUME NEW p \in Pods, Poll(p) PROVE FarmTypeOK'
  <2>1. /\ pool' \subseteq pool
        /\ retries' \subseteq Pods /\ doomed' \subseteq Pods
        /\ machine' \in [Pods -> {"gone", "booting", "up"}]
        /\ rec' \in [Pods -> [Ids -> {"absent", "running", "succeeded", "failed", "killed"}]]
        /\ faults' \in 0..MaxFaults
    <3>1. CASE PollFailed(p) \/ PollTimedOut(p)
      BY <1>7, <3>1, FarmAssumption DEF PollFailed, PollTimedOut, Fault
    <3>2. CASE PollAnswered(p) /\ (Promote(p) \/ UNCHANGED dispatcherVars) /\ ~ PodDead(p)
      BY <1>7, <3>2 DEF PollAnswered, Promote
    <3>3. CASE PollAnswered(p) /\ PodDead(p)
      <4>1. pool' \subseteq pool
        BY <3>3, PodDeadFrame
      <4>2. CASE UNCHANGED <<worldVars, retries, faults, doomed>>
        BY <4>1, <4>2
      <4>3. ASSUME NEW Reached \in SUBSET {p}, NEW Heard \in SUBSET Reached,
                   machine' = [machine EXCEPT ![p] = IF p \in Reached THEN "gone" ELSE @],
                   rec' = [rec EXCEPT ![p] = IF p \in Reached THEN EmptyRegistry ELSE @],
                   retries' = (retries \union {p}) \ Heard,
                   Faults(1 + Cardinality({p} \ Heard)),
                   doomed' = doomed
            PROVE  /\ retries' \subseteq Pods /\ doomed' \subseteq Pods
                   /\ machine' \in [Pods -> {"gone", "booting", "up"}]
                   /\ rec' \in [Pods -> [Ids -> {"absent", "running", "succeeded", "failed",
                                                "killed"}]]
                   /\ faults' \in 0..MaxFaults
        <5>1. Cardinality({p} \ Heard) \in Nat
          BY FS_Singleton, FS_Subset, FS_CardinalityType
        <5>2. faults' \in 0..MaxFaults
          BY <4>3, <5>1, FarmAssumption DEF Faults
        <5> QED BY <4>3, <5>2, EmptyRegistryType
      <4> QED BY <3>3, <4>1, <4>2, <4>3 DEF PollAnswered
    <3> QED BY <1>7, <3>1, <3>2, <3>3 DEF Poll, PollAnswered
  <2>2. wanted' \in 0 .. MaxPods - Cardinality(pool')
    BY <1>7, <2>1, WantedFits, WantedIsNat DEF Poll
  <2> HIDE DEF dispatcherVars
  <2> QED BY <1>7, <2>1, <2>2 DEF Poll
<1>8. ASSUME NEW p \in Pods, GiveUpOnPod(p) \/ KillPod(p) PROVE FarmTypeOK'
  <2>1. Terminate({p}) /\ PodDead(p) /\ wanted' = wanted
    BY <1>8 DEF GiveUpOnPod, KillPod
  <2>2. wanted' \in 0 .. MaxPods - Cardinality(pool')
    BY <2>1, PodDeadFrame, WantedFits, WantedIsNat
  <2>3. /\ retries' \subseteq Pods
        /\ machine' \in [Pods -> {"gone", "booting", "up"}]
        /\ rec' \in [Pods -> [Ids -> {"absent", "running", "succeeded", "failed", "killed"}]]
        /\ faults' \in 0..MaxFaults
    BY <2>1, TerminateTypes
  <2> HIDE DEF dispatcherVars
  <2> QED BY <1>8, <2>2, <2>3 DEF GiveUpOnPod, KillPod
<1>9. CASE Tell \/ Report
  BY <1>9 DEF Tell, Report, ReportFailures
<1>10. ASSUME NEW t \in Tasks, PollTask(t) PROVE FarmTypeOK'
  <2>1. pool' = pool /\ settling' \subseteq Tasks
    BY <1>10 DEF PollTask, Retire, Complete
  <2>2. faults' \in 0..MaxFaults
    BY <1>10, FarmAssumption DEF PollTask, Fault
  <2> HIDE DEF dispatcherVars
  <2> QED BY <1>10, <2>1, <2>2 DEF PollTask
<1>11. CASE SettleResults \/ StopSettle
  BY <1>11 DEF SettleResults, Settle, StopSettle, InFlight
<1>12. CASE BudgetHolds \/ BudgetKill \/ KillDone
  BY <1>12 DEF BudgetHolds, BudgetKill, KillDone
<1>13. CASE Autoscale
  <2>1. PICK n \in Int : \/ UNCHANGED wanted
                         \/ wanted' = Clamp(n)
    BY <1>13, DecisionsAreNumbers DEF Autoscale
  <2>2. pool' = pool
    BY <1>13 DEF Autoscale
  <2>3. wanted' \in 0 .. MaxPods - Cardinality(pool')
    BY <2>1, <2>2, ClampFits
  <2> HIDE DEF dispatcherVars
  <2>4. phase' \in {"create", "expire"}
    BY <1>13 DEF Autoscale
  <2>5. raised' \in BOOLEAN
    <3> HIDE DEF FarmTypeOK
    <3>1. raised \in BOOLEAN
      BY DEF FarmTypeOK
    <3>2. raised' = raised \/ raised' = (raised \/ pending # <<>>)
      BY <1>13 DEF Autoscale
    <3> QED BY <3>1, <3>2
  <2>6. refused' \in BOOLEAN
    <3> HIDE DEF FarmTypeOK
    <3>1. refused' = FALSE \/ (\E k : refused' = (Clamp(k) > 0))
      BY <1>13 DEF Autoscale
    <3>2. \A k : (Clamp(k) > 0) \in BOOLEAN
      BY SMT
    <3> QED BY <3>1, <3>2, Zenon
  <2> QED BY <1>13, <2>3, <2>4, <2>5, <2>6 DEF Autoscale
<1>14. ASSUME NEW p \in Pods, CreateCall(p) \/ CreateMade(p) PROVE FarmTypeOK'
  BY <1>14 DEF CreateCall, CreateMade
<1>15. CASE CreateRefused \/ CreateUnheard \/ CreateTooLate \/ CreateStranded
  <2>1. wanted' \in 0..wanted /\ pool' = pool
    <3>1. wanted > 0
      <4>1. creating # NoPod
        BY <1>15, DispatcherAssumption DEF CreateRefused, CreateUnheard, CreateTooLate,
                                           CreateStranded
      <4> QED BY <4>1 DEF Scaling
    <3> QED BY <1>15, <3>1, WantedIsNat DEF CreateRefused, CreateUnheard, CreateTooLate,
                                           CreateStranded
  <2>2. wanted' \in 0 .. MaxPods - Cardinality(pool')
    BY <2>1, WantedFits
  <2>3. CASE CreateRefused \/ CreateUnheard
    <3>1. faults' \in 0..MaxFaults
      BY <2>3, FarmAssumption DEF CreateRefused, CreateUnheard, Fault
    <3> QED BY <2>2, <2>3, <3>1 DEF CreateRefused, CreateUnheard
  <2>4. CASE CreateTooLate
    <3>1. creating \in Pods /\ Terminate({creating})
      BY <2>4 DEF CreateTooLate
    <3>2. /\ retries' \subseteq Pods
          /\ machine' \in [Pods -> {"gone", "booting", "up"}]
          /\ rec' \in [Pods -> [Ids -> {"absent", "running", "succeeded", "failed", "killed"}]]
          /\ faults' \in 0..MaxFaults
      BY <3>1, TerminateTypes
    <3> QED BY <2>2, <2>4, <3>2 DEF CreateTooLate
  <2>5. CASE CreateStranded
    BY <2>2, <2>5 DEF CreateStranded
  <2> QED BY <1>15, <2>3, <2>4, <2>5
<1>16. CASE CreateAnswered
  <2>1. creating \in Pods \ pool /\ wanted > 0 /\ pool' = pool \union {creating}
    BY <1>16 DEF CreateAnswered, Scaling, AddPod
  <2>2. Cardinality(pool') = Cardinality(pool) + 1 /\ Cardinality(pool) \in Nat
    BY <2>1, PoolCounts, FS_AddElement
  <2>3. wanted \in 0 .. MaxPods - Cardinality(pool) /\ wanted' = wanted - 1
    BY <1>16 DEF CreateAnswered
  <2>4. wanted' \in 0 .. MaxPods - Cardinality(pool')
    BY <2>1, <2>2, <2>3, FarmAssumption
  <2> QED BY <1>16, <2>4 DEF CreateAnswered
<1>17. CASE CreateDone
  BY <1>17 DEF CreateDone
<1>18. CASE Expire
  <2>1. pool' = pool
    BY <1>18 DEF Expire, ExpireWaitingItems
  <2> HIDE DEF dispatcherVars
  <2> QED BY <1>18, <2>1 DEF Expire
<1>19. CASE RetireIdle
  <2>1. Terminate(pool \ pool') /\ RetireIdlePods /\ wanted' = wanted
    BY <1>19 DEF RetireIdle
  <2>2. wanted' \in 0 .. MaxPods - Cardinality(pool')
    BY <2>1, RetireFrame, WantedFits, WantedIsNat
  <2>3. /\ retries' \subseteq Pods
        /\ machine' \in [Pods -> {"gone", "booting", "up"}]
        /\ rec' \in [Pods -> [Ids -> {"absent", "running", "succeeded", "failed", "killed"}]]
        /\ faults' \in 0..MaxFaults
    <3>1. (pool \ pool') \in SUBSET Pods
      BY PickedArePods
    <3> QED BY <2>1, <3>1, TerminateTypes
  <2> QED BY <1>19, <2>2, <2>3 DEF RetireIdle
<1>20. CASE StopCook \/ StopLog \/ Stopped \/ Cancel \/ Crash
  <2>1. wanted' \in 0..wanted /\ pool' = pool
    BY <1>20, WantedIsNat DEF StopCook, StopLog, Stopped, Cancel, Crash
  <2>2. wanted' \in 0 .. MaxPods - Cardinality(pool')
    BY <2>1, WantedFits
  <2> HIDE DEF dispatcherVars
  <2> QED BY <1>20, <2>2 DEF StopCook, StopLog, Stopped, Cancel, Crash
<1>21. ASSUME NEW t \in Tasks, StopKill(t) PROVE FarmTypeOK'
  <2>1. rec' \in [Pods -> [Ids -> {"absent", "running", "succeeded", "failed", "killed"}]]
    BY <1>21 DEF StopKill
  <2>2. faults' \in 0..MaxFaults
    BY <1>21, FarmAssumption DEF StopKill, Fault
  <2>3. pool' = pool /\ leftTasks' \subseteq Tasks
    BY <1>21 DEF StopKill
  <2> HIDE DEF dispatcherVars
  <2> QED BY <1>21, <2>1, <2>2, <2>3 DEF StopKill
<1>22. CASE StopSweep
  <2>1. /\ faults' \in 0..MaxFaults
        /\ leftPods' \subseteq Pods
        /\ unswept' \in BOOLEAN
    <3>1. CASE NoFault /\ UNCHANGED unswept /\ leftPods' = {p \in Pods \ pool : Billing(p)}
      BY <3>1
    <3>2. CASE Fault /\ unswept' = TRUE /\ leftPods' = {}
      BY <3>2, FarmAssumption DEF Fault
    <3> QED BY <1>22, <3>1, <3>2 DEF StopSweep
  <2> HIDE DEF dispatcherVars
  <2>2. pool' = pool /\ phase' = "stoporphans"
    BY <1>22 DEF StopSweep, dispatcherVars
  <2> QED BY <1>22, <2>1, <2>2 DEF StopSweep
<1>23. CASE Time
  BY <1>23 DEF Time, ClockTick
<1>24. ASSUME NEW p \in Pods, Boot(p) \/ Watchdog(p) PROVE FarmTypeOK'
  BY <1>24, EmptyRegistryType DEF Boot, Watchdog
<1>25. ASSUME NEW p \in Pods, Die(p) \/ Restart(p) PROVE FarmTypeOK'
  <2>1. faults' \in 0..MaxFaults
    BY <1>25, FarmAssumption DEF Die, Restart, Fault
  <2> QED BY <1>25, <2>1, EmptyRegistryType DEF Die, Restart
<1>26. ASSUME NEW p \in Pods, TaskProgress(p) PROVE FarmTypeOK'
  <2>1. PICK i \in Ids, s \in {"succeeded", "failed"} : TaskEnds(p, i, s)
    BY <1>26 DEF TaskProgress
  <2>2. rec' \in [Pods -> [Ids -> {"absent", "running", "succeeded", "failed", "killed"}]]
    BY <2>1 DEF TaskEnds
  <2>3. finished' \subseteq Tasks
    BY <2>1 DEF TaskEnds, Ids
  <2> QED BY <2>1, <2>2, <2>3 DEF TaskEnds
<1> QED BY <1>1, <1>2, <1>3, <1>4, <1>5, <1>6, <1>7, <1>8, <1>9, <1>10, <1>11, <1>12, <1>13,
           <1>14, <1>15, <1>16, <1>17, <1>18, <1>19, <1>20, <1>21, <1>22, <1>23, <1>24, <1>25,
           <1>26 DEF FarmNext, TickStep, StopStep, Around
-----------------------------------------------------------------------------
(* Machines *)

machineVars == <<pool, retries, machine, creating, coming, unheard, stopPast>>
loopVars    == <<cook, phase, leftPods, wanted>>

\* What says nothing of where the thread is.
LEMMA QuietStep ==
  ASSUME MachineInv, UNCHANGED machineVars, UNCHANGED cook, Phased', Swept', Logged', Loops',
         Scaling'
  PROVE  MachineInv'
BY DEF MachineInv, machineVars, stopPast, BillingIsTracked, RetiredLeavesPool,
       StopLeavesOnlyKnown, OutOfSight, Billing

\* Losing machines breaks nothing.
LEMMA LossStep ==
  ASSUME MachineInv, UNCHANGED <<pool, retries, creating, coming, unheard, stopPast, loopVars,
                                 pending, canceling>>,
         \A p \in Pods : Billing(p)' => Billing(p), coming \subseteq Pods
  PROVE  MachineInv'
<1>1. BillingIsTracked' /\ RetiredLeavesPool' /\ Phased' /\ Loops' /\ Scaling'
  BY DEF MachineInv, loopVars, BillingIsTracked, RetiredLeavesPool, Phased, Loops, Scaling
<1>2. \A p \in Pods : OutOfSight(p) => OutOfSight(p)'
  BY DEF OutOfSight, stopPast
<1>3. StopLeavesOnlyKnown' /\ Logged' /\ Swept'
  BY <1>2 DEF MachineInv, loopVars, stopPast, StopLeavesOnlyKnown, Logged, Swept
<1> QED BY <1>1, <1>3 DEF MachineInv

\* terminate_pod on pods that leave the pool, or are outside it already; a
\* machine that was being created is either terminated or still being created.
LEMMA TerminateStep ==
  ASSUME TypeOK, FarmTypeOK, MachineInv, NEW S \in SUBSET Pods, Terminate(S),
         cook \in {"cooking", "stopping"},
         UNCHANGED <<cook, unheard, coming, unswept, missed, logged>>,
         pool' = pool \ S,
         creating' = creating \/ (creating' = NoPod /\ creating \in S),
         late \subseteq late', phase = "stopend" => S \subseteq late',
         phase' \in AfterSweep => phase' = phase,
         phase = "stoporphans" => leftPods \ S \subseteq leftPods',
         Phased', Loops', Scaling'
  PROVE  MachineInv'
<1>1. /\ \A p \in Pods : Billing(p)' => Billing(p)
      /\ \A p \in S : Billing(p)' => p \in retries'
      /\ retries' \subseteq retries \union S
      /\ retries \subseteq retries' \union S
  BY TerminateFacts
<1>2. NoPod \notin Pods /\ retries' \subseteq Pods /\ pool \subseteq Pods
  BY DispatcherAssumption, TerminateTypes DEF TypeOK
<1>3. BillingIsTracked'
  BY <1>1 DEF MachineInv, BillingIsTracked
<1>4. RetiredLeavesPool'
  BY <1>1, <1>2 DEF MachineInv, RetiredLeavesPool
<1>5. \A p \in Pods \ S : OutOfSight(p) => OutOfSight(p)'
  BY DEF OutOfSight
<1>6. StopLeavesOnlyKnown'
  BY DEF StopLeavesOnlyKnown
<1>7. Swept'
  BY <1>1, <1>5 DEF MachineInv, Swept
<1>8. Logged'
  <2> SUFFICES ASSUME phase' = "stopend", NEW p \in Pods, Billing(p)'
               PROVE  p \in logged' \/ OutOfSight(p)'
    BY DEF Logged
  <2>1. phase = "stopend" /\ (p \in logged \/ OutOfSight(p))
    BY <1>1 DEF MachineInv, Logged, AfterSweep
  <2>2. OutOfSight(p) /\ p \in S => OutOfSight(p)'
    BY <2>1 DEF OutOfSight
  <2> QED BY <1>5, <2>1, <2>2
<1> QED BY <1>3, <1>4, <1>6, <1>7, <1>8 DEF MachineInv

\* With nothing queued no machine is asked for.
LEMMA NoWorkNoMachine ==
  ASSUME TypeOK, FarmTypeOK, pending = <<>>, NEW n \in AutoscaleDecision
  PROVE  ~ (Clamp(n) > 0)
<1>1. Cardinality({p \in pool : status[p] = "CREATED"}) \in Nat /\ Cardinality(pool) \in Nat
  BY PoolCounts
<1>2. n = AtLeast(0 - Cardinality({p \in pool : status[p] = "CREATED"}), 0)
  BY DEF AutoscaleDecision
<1>3. n = 0
  BY <1>1, <1>2 DEF AtLeast
<1> QED BY <1>1, <1>3, FarmAssumption DEF Clamp, AtMost, AtLeast

LEMMA MachineStep ==
  ASSUME Inv, FarmTypeOK, OutcomeInv, MachineInv, FarmNext
  PROVE  MachineInv'
<1> USE DEF threadVars, schedVars, worldVars, callVars, pastVars, StopPhases, AfterSweep, Goto, Going
<1>0. /\ Phased /\ Loops /\ Scaling /\ Swept /\ Logged /\ NoPod \notin Pods
      /\ pool \subseteq Pods /\ retries \subseteq Pods /\ coming \subseteq Pods
      /\ creating \in Pods \union {NoPod} /\ TypeOK
  BY DispatcherAssumption DEF Inv, MachineInv, FarmTypeOK, TypeOK
\* a step of the tick that touches no machine, outside _scale_up
<1>1. ASSUME UNCHANGED machineVars, UNCHANGED <<cook, wanted>>, cook = "cooking", phase # "create",
             phase' \notin {"retry", "off"} \union StopPhases
      PROVE  MachineInv'
  <2>1. creating = NoPod /\ ~ wanted > 0
    BY <1>0, <1>1 DEF Scaling
  <2>2. Phased' /\ Loops' /\ Swept' /\ Logged'
    BY <1>1 DEF Phased, Loops, Swept, Logged
  <2>3. Scaling'
    BY <1>0, <1>1, <2>1 DEF Scaling, machineVars, Billing
  <2> QED BY <1>1, <2>2, <2>3, QuietStep
\* a step that touches neither machines nor where the thread is
<1>2. ASSUME UNCHANGED machineVars, UNCHANGED loopVars, canceling => canceling',
             UNCHANGED pending \/ phase # "create" \/ cook # "cooking"
      PROVE  MachineInv'
  <2>1. Phased' /\ Loops' /\ Swept' /\ Logged'
    BY <1>0, <1>2 DEF Phased, Loops, Swept, Logged, OutOfSight, loopVars, machineVars, stopPast,
                      Billing
  <2>2. Scaling'
    BY <1>0, <1>2 DEF Scaling, loopVars, machineVars, Billing
  <2> QED BY <1>2, <2>1, <2>2, QuietStep DEF loopVars
<1>3. ASSUME NEW t \in Tasks, Schedule(t) PROVE MachineInv'
  BY <1>1, <1>3 DEF Schedule, Enqueue, podVars, machineVars
<1>4. CASE Submit
  <2>1. UNCHANGED pool
    BY <1>4 DEF Submit, SubmitLost, SubmitUnheard, Accepted202, Busy429, Duplicate409, MarkFull,
                Assign, Retask, FailPending, podVars
  <2> QED BY <1>2, <1>4, <2>1 DEF Submit, machineVars, loopVars
<1>5. CASE DispatchDone
  <2>1. cook = "cooking"
    BY <1>0, <1>5 DEF DispatchDone, Phased
  <2> QED BY <1>1, <1>5, <2>1 DEF DispatchDone, machineVars, dispatcherVars, podVars
<1>6. CASE TickStart
  <2>1. /\ UNCHANGED machineVars /\ UNCHANGED <<cook, wanted>> /\ cook = "cooking"
        /\ phase = "ready" /\ phase' = "retry" /\ leftPods' \subseteq retries'
    BY <1>6 DEF TickStart, ReleaseFull, machineVars
  <2>2. creating = NoPod /\ ~ wanted > 0
    BY <1>0, <2>1 DEF Scaling
  <2>3. Phased' /\ Loops' /\ Swept' /\ Logged'
    BY <2>1 DEF Phased, Loops, Swept, Logged
  <2>4. Scaling'
    BY <1>0, <2>1, <2>2 DEF Scaling, machineVars, Billing
  <2> QED BY <2>1, <2>3, <2>4, QuietStep
<1>7. ASSUME NEW p \in Pods, RetryTerminate(p) PROVE MachineInv'
  <2>1. /\ Terminate({p}) /\ p \in leftPods /\ pool' = pool
        /\ UNCHANGED <<cook, wanted, creating, coming, unheard, stopPast, phase, pending, canceling>>
        /\ leftPods' = leftPods \ {p}
        /\ \/ phase = "retry" /\ cook = "cooking" /\ p \in retries
           \/ phase = "stopretry" /\ cook = "stopping" /\ pool = {}
    BY <1>0, <1>7 DEF RetryTerminate, Loops, Phased, dispatcherVars, podVars, taskVars
  <2>2. Loops' /\ Phased'
    BY <1>0, <2>1, TerminateFacts DEF Loops, Phased
  <2>3. pool' = pool \ {p}
    BY <2>1 DEF MachineInv, RetiredLeavesPool
  <2>4. Scaling'
    BY <1>0, <2>1, TerminateFacts DEF Scaling
  <2> QED BY <1>0, <2>1, <2>2, <2>3, <2>4, TerminateStep DEF stopPast
<1>8. CASE RetriesDone \/ PollDone \/ TasksDone \/ BudgetHolds \/ BudgetKill \/ KillDone
             \/ SettleResults
  <2>1. cook = "cooking"
    BY <1>0, <1>8 DEF RetriesDone, PollDone, TasksDone, BudgetHolds, BudgetKill, KillDone,
                      SettleResults, Settle, Phased
  <2> QED BY <1>1, <1>8, <2>1 DEF RetriesDone, PollDone, TasksDone, BudgetHolds, BudgetKill,
                    KillDone, SettleResults, Settle, machineVars, dispatcherVars, podVars
<1>9. CASE StopSettle \/ StopKillDone
  <2>1. /\ UNCHANGED machineVars /\ UNCHANGED <<cook, wanted, pending, canceling>>
        /\ phase \in StopPhases \ AfterSweep /\ phase' \in StopPhases \ AfterSweep
    BY <1>9 DEF StopSettle, StopKillDone, machineVars, dispatcherVars, podVars, taskVars
  <2>2. Phased' /\ Loops' /\ Swept' /\ Logged' /\ Scaling'
    BY <1>0, <2>1 DEF Phased, Loops, Swept, Logged, Scaling, machineVars, Billing
  <2> QED BY <2>1, <2>2, QuietStep
<1>10. CASE Autoscale
  <2>1. /\ UNCHANGED machineVars /\ UNCHANGED <<cook, pending, canceling>> /\ cook = "cooking"
        /\ phase = "scale" /\ phase' \in {"create", "expire"}
    BY <1>0, <1>10 DEF Autoscale, Phased, machineVars, dispatcherVars, podVars, taskVars
  <2>2. creating = NoPod /\ ~ wanted > 0
    BY <1>0, <2>1 DEF Scaling
  <2>3. wanted' > 0 => phase' = "create" /\ pending # <<>>
    BY <1>0, <1>10, <2>2, NoWorkNoMachine DEF Autoscale
  <2>4. Phased' /\ Loops' /\ Swept' /\ Logged'
    BY <2>1 DEF Phased, Loops, Swept, Logged
  <2>5. Scaling'
    BY <1>0, <2>1, <2>2, <2>3 DEF Scaling, machineVars, Billing
  <2> QED BY <2>1, <2>4, <2>5, QuietStep
<1>11. CASE Tell \/ Report \/ Expire
  <2>1. cook = "cooking"
    BY <1>0, <1>11 DEF Tell, Report, Expire, Phased
  <2> QED BY <1>1, <1>11, <2>1 DEF Tell, Report, ReportFailures, Expire, ExpireWaitingItems,
                    machineVars, dispatcherVars, podVars
<1>12. ASSUME NEW t \in Tasks, PollTask(t) PROVE MachineInv'
  <2>1. UNCHANGED pool
    BY <1>12 DEF PollTask, Retire, Complete, dispatcherVars, podVars
  <2> QED BY <1>2, <1>12, <2>1 DEF PollTask, machineVars, loopVars
<1>13. ASSUME NEW p \in Pods, Poll(p) PROVE MachineInv'
  <2>1. /\ UNCHANGED <<cook, phase, wanted, creating, coming, unheard, stopPast, canceling>>
        /\ phase = "poll" /\ cook = "cooking"
    BY <1>0, <1>13 DEF Poll, Phased
  <2>2. creating = NoPod /\ ~ wanted > 0 /\ Loops' /\ Phased' /\ Swept' /\ Logged'
        /\ StopLeavesOnlyKnown'
    BY <1>0, <2>1 DEF Loops, Phased, Swept, Logged, Scaling, StopLeavesOnlyKnown
  <2>3. CASE UNCHANGED <<pool, retries, machine>>
    <3>1. UNCHANGED machineVars
      BY <2>1, <2>3 DEF machineVars
    <3>2. Scaling'
      BY <1>0, <2>1, <2>2, <2>3 DEF Scaling, Billing
    <3> QED BY <2>1, <2>2, <3>1, <3>2, QuietStep
  <2>4. ASSUME PodDead(p), NEW Reached \in SUBSET {p}, NEW Heard \in SUBSET Reached,
               machine' = [machine EXCEPT ![p] = IF p \in Reached THEN "gone" ELSE @],
               retries' = (retries \union {p}) \ Heard
        PROVE  MachineInv'
    <3>1. pool' = pool \ {p} /\ p \in pool
      BY <2>4, PodDeadFrame
    <3>2. \A q \in Pods : Billing(q)' => Billing(q) /\ (q = p => p \in retries')
      BY <2>4 DEF Billing, FarmTypeOK
    <3>3. BillingIsTracked'
      BY <2>1, <2>4, <3>1, <3>2 DEF MachineInv, BillingIsTracked
    <3>4. RetiredLeavesPool'
      BY <1>0, <2>1, <2>2, <2>4, <3>1 DEF MachineInv, RetiredLeavesPool
    <3>5. Scaling'
      BY <1>0, <2>1, <2>2, <2>4, <3>2 DEF Scaling
    <3> QED BY <2>2, <3>3, <3>4, <3>5 DEF MachineInv
  <2> QED BY <1>13, <2>3, <2>4 DEF Poll, PollAnswered, PollFailed, PollTimedOut, Promote,
                                   dispatcherVars, podVars
<1>14. ASSUME NEW p \in Pods, GiveUpOnPod(p) \/ KillPod(p) PROVE MachineInv'
  <2>1. /\ Terminate({p}) /\ PodDead(p)
        /\ UNCHANGED <<cook, wanted, creating, coming, unheard, stopPast, canceling>>
        /\ \/ phase = "giveup" /\ phase' = "tell" /\ cook = "cooking"
           \/ phase = "kill" /\ phase' = phase /\ cook = "cooking"
           \/ phase = "stoppods" /\ phase' = phase /\ cook = "stopping"
    BY <1>0, <1>14 DEF GiveUpOnPod, KillPod, Phased
  <2>2. Loops' /\ Phased'
    BY <1>0, <2>1 DEF Loops, Phased
  <2>3. pool' = pool \ {p}
    BY <2>1, PodDeadFrame
  <2>4. Scaling'
    BY <1>0, <2>1, <2>3, TerminateFacts DEF Scaling
  <2> QED BY <1>0, <2>1, <2>2, <2>3, <2>4, TerminateStep DEF stopPast
<1>15. ASSUME NEW p \in Pods, CreateCall(p) PROVE MachineInv'
  <2>1. /\ cook \in {"cooking", "stopping"} /\ creating = NoPod /\ creating' = p /\ ~ Billing(p)
        /\ UNCHANGED <<pool, retries, machine, stopPast, loopVars, pending, canceling>>
        /\ wanted > 0 /\ p \notin pool \union retries
        /\ unheard' = unheard \ {p} /\ coming' = coming \union {p}
    BY <1>15 DEF CreateCall, ScalingUp, loopVars, dispatcherVars, podVars, taskVars
  <2>2. BillingIsTracked'
    BY <1>0, <2>1 DEF MachineInv, BillingIsTracked, loopVars, Billing
  <2>3. RetiredLeavesPool' /\ Phased' /\ Loops'
    BY <1>0, <2>1 DEF MachineInv, RetiredLeavesPool, Phased, Loops, loopVars
  <2>4. Scaling'
    BY <1>0, <2>1 DEF Scaling, loopVars, Billing
  <2>5. \A q \in Pods : Billing(q)' => Billing(q) /\ (OutOfSight(q) => OutOfSight(q)')
    BY <1>0, <2>1 DEF OutOfSight, stopPast, Billing
  <2>6. StopLeavesOnlyKnown' /\ Swept' /\ Logged'
    BY <1>0, <2>1, <2>5 DEF StopLeavesOnlyKnown, Swept, Logged, loopVars, stopPast
  <2> QED BY <2>2, <2>3, <2>4, <2>6 DEF MachineInv
<1>16. ASSUME NEW p \in Pods, CreateMade(p) PROVE MachineInv'
  <2>1. /\ UNCHANGED <<pool, retries, creating, unheard, unswept, logged, late, loopVars, pending,
                       canceling>>
        /\ p \in coming /\ coming' = coming \ {p} /\ missed \subseteq missed'
        /\ phase \in AfterSweep \/ cook = "stopped" => p \in missed'
        /\ \A q \in Pods : q # p /\ Billing(q)' => Billing(q)
    BY <1>16 DEF CreateMade, loopVars, dispatcherVars, podVars, taskVars, Billing, FarmTypeOK
  <2>2. cook # "crashed" => p \in unheard \union {creating}
    BY <1>0, <2>1 DEF Scaling
  <2>3. BillingIsTracked'
    BY <2>1, <2>2 DEF MachineInv, BillingIsTracked, loopVars
  <2>4. RetiredLeavesPool' /\ Phased' /\ Loops'
    BY <1>0, <2>1 DEF MachineInv, RetiredLeavesPool, Phased, Loops, loopVars
  <2>5. Scaling'
    BY <1>0, <2>1 DEF Scaling, loopVars
  <2>6. \A q \in Pods : OutOfSight(q) => OutOfSight(q)'
    BY <2>1 DEF OutOfSight
  <2>7. phase \in AfterSweep \/ cook = "stopped" => OutOfSight(p)'
    BY <1>0, <2>1, <2>2 DEF OutOfSight, Phased
  <2>8. StopLeavesOnlyKnown'
    BY <2>1, <2>6, <2>7 DEF MachineInv, StopLeavesOnlyKnown, loopVars
  <2>9. Swept' /\ Logged'
    BY <1>0, <2>1, <2>6, <2>7 DEF Swept, Logged, loopVars
  <2> QED BY <2>3, <2>4, <2>5, <2>8, <2>9 DEF MachineInv
<1>17. CASE CreateRefused \/ CreateUnheard \/ CreateStranded
  <2>1. /\ UNCHANGED <<pool, retries, machine, unswept, missed, logged, cook, phase, leftPods,
                       pending, canceling>>
        /\ creating # NoPod /\ creating' = NoPod /\ wanted' =< wanted
    <3>1. creating # NoPod
      BY <1>0, <1>17 DEF CreateRefused, CreateUnheard, CreateStranded
    <3>2. wanted \in Nat /\ wanted - 1 =< wanted /\ 0 =< wanted
      BY <1>0, WantedIsNat
    <3> QED BY <1>17, <3>1, <3>2 DEF CreateRefused, CreateUnheard, CreateStranded, stopPast,
                                     dispatcherVars, podVars, taskVars
  <2>2. /\ coming' \subseteq coming /\ unheard \subseteq unheard' /\ late \subseteq late'
        /\ \/ creating \in coming /\ creating \notin coming' 
           \/ creating \in unheard'
           \/ cook = "stopped" /\ creating \in late' /\ creating \notin coming
    BY <1>17 DEF CreateRefused, CreateUnheard, CreateStranded, stopPast
  <2>3. \A p \in Pods : Billing(p)' => Billing(p)
    BY <2>1 DEF Billing
  <2>4. \A p \in Pods : Billing(p) /\ OutOfSight(p) => OutOfSight(p)'
    BY <1>0, <2>1, <2>2 DEF OutOfSight, Scaling
  <2>5. BillingIsTracked'
    BY <1>0, <2>1, <2>2, <2>3 DEF MachineInv, BillingIsTracked, Scaling
  <2>6. RetiredLeavesPool' /\ Phased' /\ Loops'
    BY <1>0, <2>1 DEF MachineInv, RetiredLeavesPool, Phased, Loops
  <2>7. Scaling'
    <3>1. wanted' > 0 => wanted > 0
      BY <2>1, WantedIsNat, <1>0, <1>17 DEF CreateRefused, CreateUnheard, CreateStranded
    <3> QED BY <1>0, <2>1, <2>2, <2>3, <3>1 DEF Scaling
  <2>8. StopLeavesOnlyKnown' /\ Swept' /\ Logged'
    BY <1>0, <2>1, <2>3, <2>4 DEF MachineInv, StopLeavesOnlyKnown, Swept, Logged
  <2> QED BY <2>5, <2>6, <2>7, <2>8 DEF MachineInv
<1>18. CASE CreateDone
  <2>1. /\ UNCHANGED machineVars /\ UNCHANGED <<cook, wanted>> /\ creating = NoPod /\ wanted = 0
        /\ phase' = "expire" /\ cook = "cooking"
    BY <1>0, <1>18 DEF CreateDone, Phased, machineVars, dispatcherVars, podVars
  <2>2. Phased' /\ Loops' /\ Swept' /\ Logged'
    BY <2>1 DEF Phased, Loops, Swept, Logged
  <2>3. Scaling'
    BY <1>0, <2>1 DEF Scaling, machineVars, Billing
  <2> QED BY <2>1, <2>2, <2>3, QuietStep
<1>19. CASE CreateTooLate
  <2>1. /\ Terminate({creating}) /\ creating \in Pods \ pool /\ pool' = pool /\ creating' = NoPod
        /\ cook \in {"cooking", "stopping"} /\ wanted' = 0 /\ creating \notin coming
        /\ UNCHANGED <<cook, phase, leftPods, unheard, coming, unswept, missed, logged, canceling>>
        /\ late \subseteq late' /\ (phase = "stopend" => creating \in late')
    BY <1>0, <1>19 DEF CreateTooLate, ScalingUp, Scaling, dispatcherVars, podVars
  <2>2. pool' = pool \ {creating} /\ Phased'
    BY <1>0, <2>1 DEF Phased
  <2>3. Loops'
    <3>1. phase = "retry" => FALSE
      BY <1>0, <2>1 DEF Scaling, Phased
    <3> QED BY <1>0, <2>1, <3>1 DEF Loops
  <2>4. Scaling'
    BY <1>0, <2>1, TerminateFacts DEF Scaling
  <2> QED BY <1>0, <2>1, <2>2, <2>3, <2>4, TerminateStep
<1>20. CASE CreateAnswered
  <2>1. /\ pool' = pool \union {creating} /\ creating' = NoPod /\ creating \in Pods
        /\ UNCHANGED <<cook, phase, leftPods, retries, machine, coming, unheard, stopPast, pending>>
        /\ cook = "cooking" /\ phase = "create" /\ creating \notin retries /\ creating \notin coming
        /\ wanted' = wanted - 1 /\ wanted > 0
    BY <1>0, <1>20 DEF CreateAnswered, ScalingUp, Scaling, Phased, AddPod, taskVars
  <2>2. BillingIsTracked' /\ RetiredLeavesPool'
    BY <1>0, <2>1 DEF MachineInv, BillingIsTracked, RetiredLeavesPool, Billing
  <2>3. Loops' /\ StopLeavesOnlyKnown' /\ Swept' /\ Logged' /\ Phased'
    BY <1>0, <2>1 DEF Loops, StopLeavesOnlyKnown, Swept, Logged, Phased
  <2>4. Scaling'
    BY <1>0, <2>1 DEF Scaling, Billing
  <2> QED BY <2>2, <2>3, <2>4 DEF MachineInv
<1>21. CASE RetireIdle
  <2>1. /\ Terminate(pool \ pool') /\ pool' \subseteq pool /\ phase = "idle" /\ phase' = "ready"
        /\ cook = "cooking" /\ UNCHANGED <<cook, wanted, creating, coming, unheard, stopPast>>
    BY <1>0, <1>21, RetireFrame DEF RetireIdle, Phased
  <2>2. creating = NoPod /\ ~ wanted > 0 /\ Loops' /\ Phased'
    BY <1>0, <2>1 DEF Loops, Phased, Scaling
  <2>3. pool \ pool' \in SUBSET Pods /\ pool' = pool \ (pool \ pool')
    BY <1>0, <2>1
  <2>4. NoPod \notin retries'
    BY <1>0, <2>1, <2>3, TerminateTypes
  <2>5. Scaling'
    <3>1. \A p \in Pods : Billing(p)' => Billing(p)
      BY <2>1, <2>3, TerminateFacts
    <3> QED BY <1>0, <2>1, <2>2, <2>4, <3>1 DEF Scaling
  <2> HIDE DEF Going, Goto
  <2> QED BY <1>0, <2>1, <2>2, <2>3, <2>5, TerminateStep DEF stopPast
<1>22. CASE StopCook
  <2>1. /\ UNCHANGED machineVars /\ UNCHANGED <<wanted, canceling>> /\ cook = "cooking"
        /\ cook' = "stopping" /\ phase \in {"ready", "create"} /\ phase' = "stopsettle"
    BY <1>22 DEF StopCook, machineVars, dispatcherVars, podVars
  <2>2. BillingIsTracked' /\ RetiredLeavesPool'
    BY <2>1 DEF MachineInv, BillingIsTracked, RetiredLeavesPool, Billing, machineVars
  <2>3. Loops' /\ StopLeavesOnlyKnown' /\ Swept' /\ Logged' /\ Phased'
    BY <2>1 DEF Loops, StopLeavesOnlyKnown, Swept, Logged, Phased
  <2>4. wanted > 0 => canceling
    <3> SUFFICES ASSUME wanted > 0, ~ canceling PROVE FALSE
      OBVIOUS
    <3>1. pending # <<>>
      BY <1>0, <2>1 DEF Scaling
    <3>2. Head(pending) \in ToSet(pending) /\ Head(pending) \in Tasks
      BY <1>0, <3>1, TailFacts DEF TypeOK
    <3>3. Head(pending) \in Accepted /\ Head(pending) \notin ToSet(failed) \union done
      BY <3>2 DEF Inv, OnePlace
    <3>4. Head(pending) \notin told
      BY <3>3 DEF OutcomeInv
    <3>5. reports[Head(pending)] = 0
      <4>1. \A i \in 1..cursor : failed[i] \in ToSet(failed)
        BY <1>0 DEF TypeOK, ToSet
      <4> QED BY <3>2, <3>3, <4>1 DEF Inv, ReportedOnce
    <3> QED BY <1>22, <3>3, <3>4, <3>5 DEF StopCook, Answered
  <2>5. Scaling'
    BY <1>0, <2>1, <2>4 DEF Scaling, machineVars, Billing
  <2> QED BY <2>2, <2>3, <2>5 DEF MachineInv
<1>23. ASSUME NEW t \in Tasks, StopKill(t) PROVE MachineInv'
  BY <1>2, <1>23 DEF StopKill, machineVars, loopVars, dispatcherVars, podVars, taskVars
<1>24. CASE StopSweep
  <2>1. /\ UNCHANGED <<pool, retries, machine, creating, coming, unheard, cook, missed, late, logged,
                       wanted, pending, canceling>>
        /\ phase = "stopsweep" /\ phase' = "stoporphans" /\ cook = "stopping" /\ unswept \in BOOLEAN
        /\ \/ leftPods' = {p \in Pods \ pool : Billing(p)} /\ unswept' = unswept
           \/ leftPods' = {} /\ unswept' = TRUE
    BY <1>0, <1>24 DEF StopSweep, Phased, dispatcherVars, podVars, taskVars, FarmTypeOK
  <2>2. BillingIsTracked' /\ RetiredLeavesPool' /\ StopLeavesOnlyKnown' /\ Phased'
    BY <1>0, <2>1 DEF MachineInv, BillingIsTracked, RetiredLeavesPool, StopLeavesOnlyKnown, Phased,
                      Billing
  <2>3. Loops' /\ Scaling'
    BY <1>0, <2>1 DEF Loops, Scaling, Billing
  <2>4. Swept' /\ Logged'
    BY <1>0, <2>1 DEF Swept, Logged, OutOfSight, MachineInv, BillingIsTracked, Billing
  <2> QED BY <2>2, <2>3, <2>4 DEF MachineInv
<1>25. CASE StopOrphansDone \/ StopPodsDone
  <2>1. /\ UNCHANGED machineVars /\ UNCHANGED <<cook, wanted, pending, canceling>>
        /\ \/ phase = "stoporphans" /\ phase' = "stoppods" /\ leftPods = {}
           \/ phase = "stoppods" /\ phase' = "stopretry" /\ pool = {}
    BY <1>25 DEF StopOrphansDone, StopPodsDone, machineVars, dispatcherVars, podVars, taskVars
  <2>2. Loops' /\ Swept' /\ Logged' /\ Phased' /\ Scaling'
    BY <1>0, <2>1 DEF Loops, Swept, Logged, Phased, Scaling, OutOfSight, machineVars, stopPast,
                      Billing
  <2> QED BY <2>1, <2>2, QuietStep
<1>26. ASSUME NEW p \in Pods, StopOrphan(p) PROVE MachineInv'
  <2>1. /\ Terminate({p}) /\ p \notin pool /\ pool' = pool
        /\ UNCHANGED <<cook, creating, coming, unheard, stopPast, phase, wanted, pending, canceling>>
        /\ phase = "stoporphans" /\ leftPods' = leftPods \ {p} /\ leftPods \intersect pool = {}
        /\ cook = "stopping"
    BY <1>0, <1>26 DEF StopOrphan, Loops, Phased, dispatcherVars, podVars, taskVars
  <2>2. Loops' /\ Phased' /\ pool' = pool \ {p}
    BY <1>0, <2>1 DEF Loops, Phased
  <2>3. Scaling'
    BY <1>0, <2>1, TerminateFacts DEF Scaling
  <2> QED BY <1>0, <2>1, <2>2, <2>3, TerminateStep DEF stopPast
<1>27. CASE StopLog
  <2>1. /\ UNCHANGED <<pool, retries, machine, creating, coming, unheard, unswept, missed, late,
                       cook, wanted, pending, canceling>>
        /\ cook = "stopping" /\ phase = "stopretry" /\ phase' = "stopend" /\ logged' = retries
    BY <1>0, <1>27 DEF StopLog, Phased, dispatcherVars, podVars, taskVars
  <2>2. BillingIsTracked' /\ RetiredLeavesPool' /\ StopLeavesOnlyKnown' /\ Swept'
    BY <2>1 DEF MachineInv, BillingIsTracked, RetiredLeavesPool, StopLeavesOnlyKnown, Swept, Billing
  <2>3. Phased' /\ Loops' /\ Scaling'
    BY <1>0, <2>1 DEF Phased, Loops, Scaling, Billing
  <2>4. Logged'
    BY <1>0, <2>1 DEF Logged, Swept, Loops, OutOfSight, Billing
  <2> QED BY <2>2, <2>3, <2>4 DEF MachineInv
<1>28. CASE Stopped
  <2>1. /\ UNCHANGED machineVars /\ phase = "stopend" /\ phase' = "off" /\ cook' = "stopped"
        /\ cook = "stopping" /\ UNCHANGED <<wanted, pending, canceling>>
    BY <1>0, <1>28 DEF Stopped, Phased, machineVars, dispatcherVars, podVars, taskVars
  <2>2. BillingIsTracked' /\ RetiredLeavesPool'
    BY <2>1 DEF MachineInv, BillingIsTracked, RetiredLeavesPool, machineVars
  <2>3. StopLeavesOnlyKnown'
    BY <1>0, <2>1 DEF Logged, StopLeavesOnlyKnown, OutOfSight, machineVars, stopPast, Billing
  <2>4. Loops' /\ Swept' /\ Logged' /\ Phased' /\ Scaling'
    BY <1>0, <2>1 DEF Loops, Swept, Logged, Phased, Scaling, machineVars, Billing
  <2> QED BY <2>2, <2>3, <2>4 DEF MachineInv
<1>29. CASE Cancel \/ Time
  BY <1>2, <1>29 DEF Cancel, Time, ClockTick, machineVars, loopVars, dispatcherVars, podVars, taskVars
<1>30. CASE Crash
  <2>1. /\ UNCHANGED <<pool, retries, machine, coming>> /\ phase' = "off" /\ cook' = "crashed"
        /\ creating' = NoPod /\ wanted' = 0
    BY <1>30 DEF Crash, dispatcherVars, podVars
  <2>2. BillingIsTracked' /\ StopLeavesOnlyKnown' /\ Loops' /\ Swept' /\ Logged' /\ Phased'
    BY <2>1 DEF BillingIsTracked, StopLeavesOnlyKnown, Loops, Swept, Logged, Phased
  <2>3. RetiredLeavesPool' /\ Scaling'
    BY <1>0, <2>1 DEF MachineInv, RetiredLeavesPool, Scaling, Billing
  <2> QED BY <2>2, <2>3 DEF MachineInv
<1>31. ASSUME NEW p \in Pods, Boot(p) \/ Die(p) \/ Watchdog(p) PROVE MachineInv'
  <2>1. \A q \in Pods : Billing(q)' => Billing(q)
    BY <1>31 DEF Boot, Die, Watchdog, Billing, Up, FarmTypeOK
  <2> QED BY <1>0, <1>31, <2>1, LossStep DEF Boot, Die, Watchdog, loopVars, dispatcherVars, podVars,
                                             taskVars
<1>32. ASSUME NEW p \in Pods, Restart(p) \/ TaskProgress(p) PROVE MachineInv'
  BY <1>2, <1>32 DEF Restart, TaskProgress, TaskEnds, machineVars, loopVars, dispatcherVars, podVars,
                     taskVars
<1> QED BY <1>3, <1>4, <1>5, <1>6, <1>7, <1>8, <1>9, <1>10, <1>11, <1>12, <1>13, <1>14, <1>15,
           <1>16, <1>17, <1>18, <1>19, <1>20, <1>21, <1>22, <1>23, <1>24, <1>25, <1>26, <1>27,
           <1>28, <1>29, <1>30, <1>31, <1>32 DEF FarmNext, TickStep, StopStep, Around
-----------------------------------------------------------------------------
(* Outcomes *)

\* A step that reports nothing and registers no new success.
LEMMA NoOutcomeStep ==
  ASSUME OutcomeInv, UNCHANGED <<told, settling, done>>, finished \subseteq finished', Registered',
         Settled'
  PROVE  OutcomeInv'
BY DEF OutcomeInv

LEMMA TerminateRegistered ==
  ASSUME NEW S \in SUBSET Pods, Terminate(S), Registered, finished' = finished
  PROVE  Registered'
<1>1. \A p \in Pods : rec'[p] \in {rec[p], EmptyRegistry}
  BY TerminateFacts
<1>2. \A i \in Ids : EmptyRegistry[i] # "succeeded"
  BY DEF EmptyRegistry
<1> QED BY <1>1, <1>2 DEF Registered

LEMMA OutcomeStep ==
  ASSUME TypeOK, OnePlace, FarmTypeOK, Phased, OutcomeInv, FarmNext
  PROVE  OutcomeInv'
<1> USE DEF threadVars, schedVars, worldVars, callVars, pastVars, StopPhases, AfterSweep, Goto, Going
<1>0. Registered /\ Settled
  BY DEF OutcomeInv
<1>1. ASSUME UNCHANGED <<told, settling, done, finished, rec, cook>>,
             \/ phase' \notin StopPhases \ {"stopsettle"}
                  /\ cook # "stopped"
             \/ phase \in StopPhases \ {"stopsettle"}
      PROVE  OutcomeInv'
  BY <1>0, <1>1, NoOutcomeStep DEF Registered, Settled
<1>2. ASSUME UNCHANGED <<told, settling, done, finished, cook, phase>>, Registered'
      PROVE  OutcomeInv'
  BY <1>0, <1>2, NoOutcomeStep DEF Settled
<1>3. ASSUME NEW t \in Tasks, Schedule(t) PROVE OutcomeInv'
  BY <1>1, <1>3 DEF Schedule, Enqueue, history
<1>4. CASE Submit
  <2>1. PICK p \in Picked : \/ SubmitLost(p) \/ SubmitUnheard(p, Head(pending))
                            \/ Accepted202(p, Head(pending)) \/ Busy429(p, Head(pending))
                            \/ Duplicate409(p, Head(pending))
    BY <1>4 DEF Submit
  <2>2. UNCHANGED done
    BY <2>1 DEF SubmitLost, SubmitUnheard, Accepted202, Busy429, Duplicate409, MarkFull, Assign,
                Retask, FailPending, history
  <2>3. UNCHANGED <<told, settling, finished, cook, phase>>
    BY <1>4 DEF Submit
  <2>4. rec' = rec \/ rec' = [rec EXCEPT ![p][Id(Head(pending))] = "running"]
    BY <2>1 DEF SubmitLost, SubmitUnheard, Accepted202, Busy429, Duplicate409
  <2>5. Registered'
    BY <1>0, <2>3, <2>4 DEF Registered, FarmTypeOK
  <2> QED BY <1>2, <2>2, <2>3, <2>5
<1>5. CASE DispatchDone \/ RetriesDone \/ PollDone \/ TasksDone \/ BudgetHolds \/ BudgetKill
             \/ KillDone \/ Autoscale \/ CreateRefused \/ CreateUnheard \/ CreateStranded
             \/ CreateDone \/ StopKillDone \/ StopSweep \/ StopOrphansDone \/ StopPodsDone
             \/ StopLog \/ Cancel
  BY <1>1, <1>2, <1>5 DEF DispatchDone, RetriesDone, PollDone, TasksDone, BudgetHolds, BudgetKill,
       KillDone, Autoscale, CreateRefused, CreateUnheard, CreateStranded, CreateDone, StopKillDone,
       StopSweep, StopOrphansDone, StopPodsDone, StopLog, Cancel, Registered, OutcomeInv,
       dispatcherVars, history
<1>6. CASE TickStart \/ Tell \/ Report \/ Expire
  BY <1>1, <1>6 DEF TickStart, ReleaseFull, Tell, Report, ReportFailures, Expire,
       ExpireWaitingItems, dispatcherVars, history
<1>7. ASSUME NEW p \in Pods,
             \/ RetryTerminate(p) \/ StopOrphan(p) \/ GiveUpOnPod(p) \/ KillPod(p)
             \/ p = creating /\ CreateTooLate
      PROVE  OutcomeInv'
  <2>1. Terminate({p}) /\ UNCHANGED <<told, settling, finished, cook>>
    BY <1>7 DEF RetryTerminate, StopOrphan, GiveUpOnPod, KillPod, CreateTooLate
  <2>2. UNCHANGED done
    BY <1>7, PodDeadFrame DEF RetryTerminate, StopOrphan, GiveUpOnPod, KillPod, CreateTooLate,
                              dispatcherVars, history
  <2>3. phase' = phase \/ (phase' = "tell" /\ cook # "stopped")
    BY <1>7 DEF RetryTerminate, StopOrphan, GiveUpOnPod, KillPod, CreateTooLate
  <2>4. Registered'
    BY <1>0, <2>1, TerminateRegistered
  <2>5. Settled'
    BY <1>0, <2>1, <2>3 DEF Settled
  <2> QED BY <2>1, <2>2, <2>4, <2>5, NoOutcomeStep
<1>8. ASSUME NEW p \in Pods, Poll(p) PROVE OutcomeInv'
  <2>1. UNCHANGED <<told, settling, finished, cook, phase>>
    BY <1>8 DEF Poll
  <2>2. UNCHANGED done
    BY <1>8, PodDeadFrame DEF Poll, PollAnswered, PollFailed, PollTimedOut, Promote,
                              dispatcherVars, history
  <2>3. rec' = rec \/ rec' = [rec EXCEPT ![p] = EmptyRegistry]
    BY <1>8 DEF Poll, PollAnswered, PollFailed, PollTimedOut, FarmTypeOK
  <2>4. Registered'
    BY <1>0, <2>1, <2>3 DEF Registered, FarmTypeOK, EmptyRegistry
  <2> QED BY <1>2, <2>1, <2>2, <2>4
<1>9. ASSUME NEW t \in Tasks, PollTask(t) PROVE OutcomeInv'
  <2>1. UNCHANGED <<told, finished, cook, phase, rec>> /\ phase = "tasks" /\ cook # "stopped"
    BY <1>9 DEF PollTask
  <2>2. Registered' /\ Settled'
    BY <1>0, <2>1 DEF Registered, Settled
  <2>3. CASE UNCHANGED <<done, settling>>
    BY <2>1, <2>2, <2>3, NoOutcomeStep
  <2>4. CASE /\ placed[t] # NoPod /\ rec[placed[t]][Id(t)] = "succeeded"
             /\ done' = done \union {t} /\ settling' = settling \union {t}
    <3>1. placed[t] \in Pods
      BY <2>4 DEF TypeOK
    <3>2. Id(t) \in Ids /\ Id(t)[1] = t
      <4>1. (t \in renamed) \in BOOLEAN
        OBVIOUS
      <4> QED BY <4>1 DEF Id, Ids
    <3>3. t \in finished
      BY <1>0, <2>4, <3>1, <3>2 DEF Registered
    <3>4. t \notin done
      BY <2>4 DEF OnePlace, InFlight
    <3> QED BY <2>1, <2>2, <2>4, <3>3, <3>4 DEF OutcomeInv
  <2> QED BY <1>9, <2>3, <2>4 DEF PollTask, Retire, Complete, dispatcherVars, history
<1>10. CASE SettleResults
  <2>1. PICK Ready \in SUBSET settling :
          /\ told' = told \union Ready /\ settling' = settling \ Ready
          /\ UNCHANGED <<done, finished, rec, cook>> /\ phase' = "report" /\ cook # "stopped"
    BY <1>10 DEF SettleResults, Settle, dispatcherVars, history
  <2>2. Registered' /\ Settled'
    BY <1>0, <2>1 DEF Registered, Settled
  <2> QED BY <2>1, <2>2 DEF OutcomeInv
<1>11. CASE StopSettle
  <2>1. /\ told' = told \union settling /\ settling' = {} /\ UNCHANGED <<done, finished, rec>>
    BY <1>11 DEF StopSettle, dispatcherVars, history
  <2> QED BY <1>0, <2>1 DEF OutcomeInv, Registered, Settled
<1>12. CASE RetireIdle
  <2>1. /\ Terminate(pool \ pool') /\ UNCHANGED <<told, settling, finished, cook, done>>
        /\ phase' = "ready" /\ cook # "stopped"
    BY <1>12, RetireFrame DEF RetireIdle
  <2>2. pool \ pool' \in SUBSET Pods
    BY DEF TypeOK
  <2>3. Registered' /\ Settled'
    BY <1>0, <2>1, <2>2, TerminateRegistered DEF Settled
  <2> QED BY <2>1, <2>3, NoOutcomeStep
<1>13. CASE StopCook \/ Stopped \/ Crash
  <2>1. UNCHANGED <<told, settling, done, finished, rec>>
    BY <1>13 DEF StopCook, Stopped, Crash, dispatcherVars, history
  <2>2. Settled'
    BY <1>0, <1>13 DEF StopCook, Stopped, Crash, Settled
  <2> QED BY <1>0, <2>1, <2>2, NoOutcomeStep DEF Registered
<1>14. ASSUME NEW t \in Tasks, StopKill(t) PROVE OutcomeInv'
  <2>1. UNCHANGED <<told, settling, done, finished, cook, phase>>
    BY <1>14 DEF StopKill, dispatcherVars, history
  <2>2. Registered'
    BY <1>0, <1>14, <2>1 DEF StopKill, Registered, FarmTypeOK
  <2> QED BY <1>2, <2>1, <2>2
<1>15. CASE Time
  BY <1>0, <1>2, <1>15 DEF Time, ClockTick, Registered
<1>16. ASSUME NEW p \in Pods, \/ CreateCall(p) \/ CreateMade(p) \/ Boot(p) \/ Die(p)
                              \/ Restart(p) \/ Watchdog(p)
       PROVE  OutcomeInv'
  <2>1. UNCHANGED <<told, settling, done, finished, cook, phase>>
    BY <1>16 DEF CreateCall, CreateMade, Boot, Die, Restart, Watchdog, dispatcherVars, history
  <2>2. rec' = rec \/ rec' = [rec EXCEPT ![p] = EmptyRegistry]
    BY <1>16 DEF CreateCall, CreateMade, Boot, Die, Restart, Watchdog
  <2>3. Registered'
    BY <1>0, <2>1, <2>2 DEF Registered, FarmTypeOK, EmptyRegistry
  <2> QED BY <1>2, <2>1, <2>3
<1>17. ASSUME NEW p \in Pods, TaskProgress(p) PROVE OutcomeInv'
  <2>1. PICK i \in Ids, s \in {"succeeded", "failed"} : TaskEnds(p, i, s)
    BY <1>17 DEF TaskProgress
  <2>2. /\ UNCHANGED <<told, settling, done, cook, phase>> /\ finished \subseteq finished'
        /\ rec' = [rec EXCEPT ![p][i] = s] /\ (s = "succeeded" => i[1] \in finished')
    BY <2>1 DEF TaskEnds, dispatcherVars, history
  <2>3. Registered'
    BY <1>0, <2>2 DEF Registered, FarmTypeOK
  <2>4. Settled'
    BY <1>0, <2>2 DEF Settled
  <2> QED BY <2>2, <2>3, <2>4, NoOutcomeStep
<1>18. CASE CreateTooLate
  <2>1. creating \in Pods
    BY <1>18 DEF CreateTooLate, FarmTypeOK
  <2> QED BY <1>7, <1>18, <2>1
<1>19. CASE CreateAnswered
  <2>1. UNCHANGED <<told, settling, done, finished, cook, phase, rec>>
    BY <1>19 DEF CreateAnswered, AddPod, history
  <2>2. Registered'
    BY <1>0, <2>1 DEF Registered
  <2> QED BY <1>2, <2>1, <2>2
<1> QED BY <1>3, <1>4, <1>5, <1>6, <1>7, <1>8, <1>9, <1>10, <1>11, <1>12, <1>13, <1>14, <1>15,
           <1>16, <1>17, <1>18, <1>19 DEF FarmNext, TickStep, StopStep, Around

-----------------------------------------------------------------------------
(* The theorems *)

LEMMA FarmInitInv == FarmInit => FarmInv
<1> SUFFICES ASSUME FarmInit PROVE FarmInv
  OBVIOUS
<1>1. Inv
  BY InitInv DEF FarmInit
<1>2. MachineInv
  BY FarmAssumption DEF FarmInit, Init, MachineInv, BillingIsTracked, RetiredLeavesPool,
       StopLeavesOnlyKnown, Phased, StopPhases, AfterSweep, Swept, Logged, Loops, Scaling, Billing
<1>3. OutcomeInv
  BY DEF FarmInit, Init, OutcomeInv, Registered, Settled, StopPhases, AfterSweep, EmptyRegistry
<1> QED BY <1>1, <1>2, <1>3, InitTypes DEF FarmInv

LEMMA FarmStutter == FarmInv /\ UNCHANGED farmVars => FarmInv'
<1> SUFFICES ASSUME FarmInv, UNCHANGED farmVars PROVE FarmInv'
  OBVIOUS
<1>1. UNCHANGED dispatcherVars /\ UNCHANGED <<threadVars, schedVars, worldVars, pastVars>>
  BY DEF farmVars
<1>2. Inv'
  BY <1>1, NextInv DEF FarmInv
<1>3. UNCHANGED <<pool, pending, done>>
  BY <1>1 DEF dispatcherVars, podVars, taskVars, history
<1> USE DEF threadVars, schedVars, worldVars, callVars, stopPast, pastVars
<1>4. FarmTypeOK'
  BY <1>1, <1>3 DEF FarmInv, FarmTypeOK
<1>5. MachineInv'
  <2>1. UNCHANGED machineVars /\ UNCHANGED <<cook, phase, leftPods, wanted, canceling, pending>>
    BY <1>1, <1>3 DEF machineVars
  <2>2. Phased' /\ Loops' /\ Swept' /\ Logged' /\ Scaling'
    BY <2>1 DEF FarmInv, MachineInv, Phased, Loops, Swept, Logged, Scaling, OutOfSight, machineVars,
                Billing
  <2> QED BY <2>1, <2>2, QuietStep DEF FarmInv
<1>6. OutcomeInv'
  BY <1>1, <1>3 DEF FarmInv, OutcomeInv, Registered, Settled
<1> QED BY <1>2, <1>4, <1>5, <1>6 DEF FarmInv

LEMMA FarmNextInv == FarmInv /\ [FarmNext]_farmVars => FarmInv'
<1> SUFFICES ASSUME FarmInv, FarmNext PROVE FarmInv'
  BY FarmStutter
<1>1. TypeOK /\ OnePlace /\ Scaling /\ Phased
  BY DEF FarmInv, Inv, MachineInv
<1>2. Inv'
  BY <1>1, StepCallsDispatcher, NextInv DEF FarmInv
<1>3. FarmTypeOK'
  BY <1>1, TypesStep DEF FarmInv
<1>4. MachineInv'
  BY <1>1, MachineStep DEF FarmInv
<1>5. OutcomeInv'
  BY <1>1, OutcomeStep DEF FarmInv
<1> QED BY <1>2, <1>3, <1>4, <1>5 DEF FarmInv

\* The inductive invariant of a cook.
THEOREM FarmInvariant == FarmSpec => []FarmInv
<1> QED BY FarmInitInv, FarmNextInv, PTL DEF FarmSpec

\* Types, and Max Pods: the pool and what _scale_up still asks for stay
\* within it.
THEOREM FarmTypeCorrect == FarmSpec => []FarmTypeOK
<1>1. FarmInv => FarmTypeOK
  BY DEF FarmInv
<1> QED BY <1>1, FarmInvariant, PTL

\* A machine that is billed is in the pool, on the retry list or being
\* created, unless its create call was never answered.
THEOREM EveryMachineTracked == FarmSpec => []BillingIsTracked
<1>1. FarmInv => BillingIsTracked
  BY DEF FarmInv, MachineInv
<1> QED BY <1>1, FarmInvariant, PTL

\* A stopped cook names in its log every machine it leaves running, except one
\* whose create call was lost or still in flight when it looked for the last
\* time: whatever the stop overtakes, and whatever fails.
THEOREM NothingBillsUnknown == FarmSpec => []StopLeavesOnlyKnown
<1>1. FarmInv => StopLeavesOnlyKnown
  BY DEF FarmInv, MachineInv
<1> QED BY <1>1, FarmInvariant, PTL

\* No task is sent to a pod whose terminate call failed.
THEOREM RetiredStayOut == FarmSpec => []RetiredLeavesPool
<1>1. FarmInv => RetiredLeavesPool
  BY DEF FarmInv, MachineInv
<1> QED BY <1>1, FarmInvariant, PTL

\* Success is reported only of items a process of which ended well.
THEOREM SuccessesAreReal == FarmSpec => []SuccessIsReal
<1>1. FarmInv => SuccessIsReal
  BY DEF FarmInv, OutcomeInv, SuccessIsReal
<1> QED BY <1>1, FarmInvariant, PTL

\* No item is reported twice, nor both succeeded and failed.
THEOREM OneOutcomeEach == FarmSpec => []OneOutcome
<1>1. FarmInv => OneOutcome
  <2> SUFFICES ASSUME FarmInv, NEW t \in Tasks
               PROVE  reports[t] + (IF t \in told THEN 1 ELSE 0)
                                 + (IF t \in settling THEN 1 ELSE 0) =< 1
    BY DEF OneOutcome
  <2>1. reports[t] = IF \E i \in 1..cursor : failed[i] = t THEN 1 ELSE 0
    BY DEF FarmInv, Inv, ReportedOnce
  <2>2. t \in told \union settling => t \in done
    BY DEF FarmInv, OutcomeInv
  <2>3. ~ (t \in told /\ t \in settling)
    BY DEF FarmInv, OutcomeInv
  <2>4. (\E i \in 1..cursor : failed[i] = t) => t \in ToSet(failed)
    <3>1. cursor \in 0..Len(failed) /\ failed \in Seq(Tasks)
      BY DEF FarmInv, Inv, TypeOK
    <3> QED BY <3>1 DEF ToSet
  <2>5. t \in done => t \notin ToSet(failed)
    BY DEF FarmInv, Inv, OnePlace
  <2> QED BY <2>1, <2>2, <2>3, <2>4, <2>5
<1> QED BY <1>1, FarmInvariant, PTL

\* A cook that has stopped has told PDG of every item that was done.
THEOREM StopTells == FarmSpec => []StopTellsWhatIsDone
<1>1. FarmInv => StopTellsWhatIsDone
  BY DEF FarmInv, OutcomeInv, Settled, StopTellsWhatIsDone
<1> QED BY <1>1, FarmInvariant, PTL
=============================================================================
