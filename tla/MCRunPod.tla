------------------------------ MODULE MCRunPod ------------------------------
(***************************************************************************)
(* Small instances of what goes on between Houdini and the things rented   *)
(* from RunPod: Health (GPU pods), SyncPod (the sync pod), Growth (the     *)
(* size of the volume) and Upload (files sent to it).  They share no       *)
(* state, so one run takes them side by side: a behaviour belongs to one   *)
(* of them, and the variables of the others stay as they begin.            *)
(***************************************************************************)
EXTENDS Health, SyncPod, Growth, Upload, TLC

CONSTANTS c1, c2

OneComputer == [c \in {c1, c2} |-> "here"]

\* in GB: a volume two thirds full
SomeFiles == [z \in Zones |-> IF z = "projects" THEN 13 ELSE 2]
SomeSizes == [z \in Zones |-> IF z = "projects" THEN {2} ELSE {3}]

VARIABLE part      \* which of them moves

RunPodInit == part \in {"health", "syncpod", "growth", "upload"} /\ HealthInit /\ Init /\ GrowthInit /\ UploadInit

RunPodNext ==
  \/ part = "health" /\ HealthNext /\ UNCHANGED <<part, syncPodVars, growthVars, uploadVars>>
  \/ part = "syncpod" /\ Next /\ UNCHANGED <<part, healthVars, growthVars, uploadVars>>
  \/ part = "growth" /\ GrowthNext /\ UNCHANGED <<part, healthVars, syncPodVars, uploadVars>>
  \/ part = "upload" /\ UploadNext /\ UNCHANGED <<part, healthVars, syncPodVars, growthVars>>

RunPodSpec == RunPodInit /\ [][RunPodNext]_<<part, healthVars, syncPodVars, growthVars, uploadVars>>

\* the same model values stand for pods and files, and for items and runners
RunPodSymmetry == Permutations(GpuPods) \union Permutations(Items)
=============================================================================
