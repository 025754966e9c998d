------------------------------- MODULE MCPods -------------------------------
(***************************************************************************)
(* Small instances of what runs on the pods of a cook: Worker (the task    *)
(* registry of a GPU pod) and Jobs (a host pod that cooks a package, with  *)
(* the sessions that launch it).  They share no state, so one run takes    *)
(* them side by side: a behaviour belongs to one of them, and the          *)
(* variables of the other stay as they begin.                              *)
(*                                                                         *)
(* Two tasks on one slot: enough for a kill, a refusal and a second task   *)
(* in the slot the first one gave back.                                    *)
(***************************************************************************)
EXTENDS Worker, Jobs, TLC

CONSTANTS t1, t2, s1, s2

VARIABLE part      \* which of the two moves

podsVars == <<part, workerVars, jobsVars>>

InWorker(A) == part = "worker" /\ A /\ UNCHANGED <<part, jobsVars>>
InJobs(A)   == part = "jobs" /\ A /\ UNCHANGED <<part, workerVars>>

\* one beginning is enough for what stays still
PodsInit ==
  /\ part \in {"worker", "jobs"} /\ WorkerInit /\ Init
  /\ part = "worker" => ~Farm /\ pc[s1] = "launch"

\* the fairness of each module
PodsSpec ==
  /\ PodsInit
  /\ [][InWorker(WorkerNext) \/ InJobs(Next)]_podsVars
  /\ \A t \in Ids :
       /\ WF_workerVars(InWorker(Spawn(t) \/ Store(t) \/ CheckKill(t) \/ Wait(t) \/ Settle(t)))
       /\ WF_workerVars(InWorker(Killer(t))) /\ WF_workerVars(InWorker(ForceKill(t)))
  /\ WF_jobsVars(InJobs(HostStep)) /\ WF_jobsVars(InJobs(DogStep))
  /\ WF_jobsVars(InJobs(Announce \/ Announced \/ Reported \/ Finish \/ Finished))
  /\ \A c \in Sessions : WF_jobsVars(InJobs(Save(c) \/ Saved(c)))
=============================================================================
