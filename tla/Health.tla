------------------------------- MODULE Health -------------------------------
(***************************************************************************)
(* When a pod is given up on: _poll_pods of the scheduler, with            *)
(* OutageTracker and pod_timed_out of rpfarm/dispatch.py.                  *)
(*                                                                         *)
(* Every pod is reached over one uplink.  A sweep asks each pod whose      *)
(* last poll is PollEvery ago, one blocking call after the other, and then *)
(* judges those that did not answer, all by the clock read when the sweep  *)
(* began.  The uplink may go and come back, and time passes, between any   *)
(* two calls.                                                              *)
(***************************************************************************)
EXTENDS Integers, FiniteSets

CONSTANTS
  GpuPods,
  BootTimeout,   \* POD_BOOT_TIMEOUT_SECONDS, in clock ticks
  DeadAfter,     \* POD_DEAD_AFTER_SECONDS
  Grace,         \* OUTAGE_GRACE_SECONDS
  PollEvery,     \* _HEALTH_POLL_INTERVAL
  MaxTime        \* bound on the clock

ASSUME HealthAssumption ==
  /\ BootTimeout \in Nat
  /\ DeadAfter \in Nat
  /\ Grace \in Nat
  /\ PollEvery \in Nat
  /\ MaxTime \in Nat

Never == -1      \* a time stamp that is None

VARIABLES
  status,        \* PodState.status; "new" before its time in the pool, "LOST" when
                 \* given up on, "LEFT" when it leaves the pool for another reason
  createdAt,     \* PodState.created_at
  failSince,     \* PodState.health_fail_since
  lastPoll,      \* _last_health_poll
  since,         \* OutageTracker.since
  sweeping,      \* _poll_pods is running
  at,            \* its now
  left,          \* pods this sweep has still to ask
  asked,         \* RUNNING pods it asked (polled)
  heard,         \* those of them that answered (healthy)
  failures,      \* pods that did not answer
  up,            \* the uplink works
  alive,         \* pods whose worker answers
  now,           \* the clock
  flapped        \* history: the uplink changed during this sweep

podVars    == <<status, createdAt, failSince, lastPoll>>
sweepVars  == <<since, sweeping, at, left, asked, heard, failures>>
worldVars  == <<up, alive, now, flapped>>
healthVars == <<podVars, sweepVars, worldVars>>

InPool(p) == status[p] \in {"CREATED", "RUNNING"}

HealthInit ==
  /\ status = [p \in GpuPods |-> "new"]
  /\ createdAt = [p \in GpuPods |-> Never]
  /\ failSince = [p \in GpuPods |-> Never]
  /\ lastPoll = [p \in GpuPods |-> Never]
  /\ since = Never
  /\ sweeping = FALSE /\ at = 0 /\ left = {} /\ asked = {} /\ heard = {} /\ failures = {}
  /\ up = TRUE /\ alive = {} /\ now = 0 /\ flapped = FALSE

-----------------------------------------------------------------------------
(* The scheduler *)

\* add_pod of _scale_up
AddPod(p) ==
  /\ ~ sweeping
  /\ status[p] = "new"
  /\ status' = [status EXCEPT ![p] = "CREATED"]
  /\ createdAt' = [createdAt EXCEPT ![p] = now]
  /\ UNCHANGED <<failSince, lastPoll, sweepVars, worldVars>>

\* _poll_pods begins
StartSweep ==
  /\ ~ sweeping
  /\ sweeping' = TRUE
  /\ at' = now
  /\ left' = {p \in GpuPods : InPool(p) /\ (lastPoll[p] = Never \/ now - lastPoll[p] >= PollEvery)}
  /\ asked' = {} /\ heard' = {} /\ failures' = {}
  /\ flapped' = FALSE
  /\ UNCHANGED <<podVars, since, up, alive, now>>

\* idle, over budget: the pod leaves the pool between two sweeps
Leave(p) ==
  /\ ~ sweeping
  /\ InPool(p)
  /\ status' = [status EXCEPT ![p] = "LEFT"]
  /\ UNCHANGED <<createdAt, failSince, lastPoll, sweepVars, worldVars>>

\* what its first answer makes of a booting pod (_promote_pod): it runs, or it
\* is replaced because it is on the sync pod's machine
Promotions(p) == IF status[p] = "CREATED" THEN {"RUNNING", "LEFT"} ELSE {"RUNNING"}

\* one GET /health, and what the loop does with it
Ask(p) ==
  /\ sweeping
  /\ p \in left
  /\ left' = left \ {p}
  /\ lastPoll' = [lastPoll EXCEPT ![p] = at]
  /\ asked' = IF status[p] = "RUNNING" THEN asked \union {p} ELSE asked
  /\ \/ /\ up /\ p \in alive
        /\ heard' = IF status[p] = "RUNNING" THEN heard \union {p} ELSE heard
        /\ failSince' = [failSince EXCEPT ![p] = Never]
        /\ \E s \in Promotions(p) : status' = [status EXCEPT ![p] = s]
        /\ UNCHANGED failures
     \/ /\ ~ (up /\ p \in alive)
        /\ failSince' = [failSince EXCEPT ![p] = IF @ = Never THEN at ELSE @]
        /\ failures' = failures \union {p}
        /\ UNCHANGED <<heard, status>>
  /\ UNCHANGED <<createdAt, since, sweeping, at, worldVars>>

\* OutageTracker.sweep
OutageSince ==
  IF asked = {} THEN since
  ELSE IF heard # {} THEN Never
  ELSE IF since = Never THEN at
  ELSE since

\* OutageTracker.dead_seconds
DeadSecondsNoGrace(outage) == DeadAfter
DeadSeconds(outage) == IF outage # Never THEN DeadAfter + Grace ELSE DeadAfter

\* pod_timed_out
TimedOutOneClock(p, deadline) ==
  failSince[p] # Never /\ at - failSince[p] > deadline

TimedOut(p, deadline) ==
  \/ status[p] = "CREATED" /\ createdAt[p] # Never /\ at - createdAt[p] > BootTimeout
  \/ status[p] = "RUNNING" /\ failSince[p] # Never /\ at - failSince[p] > deadline

\* the end of _poll_pods: _giveUpOnPod on each pod whose time is over
Judge ==
  /\ sweeping
  /\ left = {}
  /\ since' = OutageSince
  /\ status' = [p \in GpuPods |->
                  IF p \in failures /\ TimedOut(p, DeadSeconds(since')) THEN "LOST" ELSE status[p]]
  /\ sweeping' = FALSE
  /\ UNCHANGED <<createdAt, failSince, lastPoll, at, left, asked, heard, failures, worldVars>>

-----------------------------------------------------------------------------
(* Around it *)

Uplink ==
  /\ up' = ~ up
  /\ flapped' = TRUE
  /\ UNCHANGED <<podVars, sweepVars, alive, now>>

\* the worker of a machine that is booting answers from now on
BootGpu(p) ==
  /\ status[p] = "CREATED" /\ p \notin alive
  /\ alive' = alive \union {p}
  /\ UNCHANGED <<podVars, sweepVars, up, now, flapped>>

Die(p) ==
  /\ status[p] = "RUNNING" /\ p \in alive
  /\ alive' = alive \ {p}
  /\ UNCHANGED <<podVars, sweepVars, up, now, flapped>>

Tick ==
  /\ now < MaxTime
  /\ now' = now + 1
  /\ UNCHANGED <<podVars, sweepVars, up, alive, flapped>>

HealthNext ==
  \/ StartSweep \/ Judge \/ Uplink \/ Tick
  \/ \E p \in GpuPods : AddPod(p) \/ Leave(p) \/ Ask(p) \/ BootGpu(p) \/ Die(p)

HealthSpec == HealthInit /\ [][HealthNext]_healthVars

-----------------------------------------------------------------------------
(* Properties *)

Stamps == (0..MaxTime) \union {Never}

HealthTypeOK ==
  /\ status \in [GpuPods -> {"new", "CREATED", "RUNNING", "LOST", "LEFT"}]
  /\ createdAt \in [GpuPods -> Stamps]
  /\ failSince \in [GpuPods -> Stamps]
  /\ lastPoll \in [GpuPods -> Stamps]
  /\ since \in Stamps
  /\ sweeping \in BOOLEAN /\ up \in BOOLEAN /\ flapped \in BOOLEAN
  /\ now \in 0..MaxTime
  /\ at \in 0..now
  /\ left \subseteq GpuPods /\ failures \subseteq GpuPods /\ alive \subseteq GpuPods
  /\ heard \subseteq asked /\ asked \subseteq GpuPods

Lost(p) == status[p] # "LOST" /\ status'[p] = "LOST"

\* While no pod answers, none that ever answered is given up before its
\* deadline and the outage grace are both over; one that is booting has the
\* whole boot time, whoever answers.
GraceWhileNobodyAnswers ==
  [][\A p \in GpuPods : Lost(p) =>
       IF status[p] = "CREATED" THEN at - createdAt[p] > BootTimeout
       ELSE at - failSince[p] > IF heard = {} THEN DeadAfter + Grace ELSE DeadAfter]_healthVars

\* A pod that works is given up only at the end of a failure longer than the
\* deadline with the grace, or in a sweep during which the uplink came or
\* went: an outage a sweep sees whole costs no machine.
SeenOutageCostsNothing ==
  [][\A p \in GpuPods : Lost(p) /\ status[p] = "RUNNING" /\ p \in alive =>
       flapped \/ at - failSince[p] > DeadAfter + Grace]_healthVars

\* The outage grace ends: no sweep leaves a pod of the pool that has been
\* silent for longer than the deadline and the grace.
NobodyOverstays ==
  \A p \in failures :
    ~ sweeping /\ status[p] = "RUNNING" => at - failSince[p] =< DeadAfter + Grace

\* "A sweep in which at least one pod answered is ordinary: the pods that
\* failed really are in trouble" (OutageTracker): a failure no longer than the
\* deadline and the grace costs no machine that works.
OutageCostsNothing ==
  [][\A p \in GpuPods : Lost(p) /\ status[p] = "RUNNING" /\ p \in alive =>
       at - failSince[p] > DeadAfter + Grace]_healthVars
=============================================================================
