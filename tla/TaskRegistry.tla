---------------------------- MODULE TaskRegistry ----------------------------
(***************************************************************************)
(* What a pod's worker promises to whoever holds its token, in the words   *)
(* of the docstring of pod/worker.py: a task id is a one-shot key, at most *)
(* Slots tasks are running, and what GET /tasks/<id> once called over      *)
(* stays as it is.                                                         *)
(***************************************************************************)
EXTENDS Integers, FiniteSets

CONSTANTS
  Ids,        \* task ids
  Slots       \* RPFARM_SLOTS

VARIABLE rec  \* the state of each id, "absent" before it is accepted

RunningIds == {t \in Ids : rec[t] = "running"}

InitRegistry == rec = [t \in Ids |-> "absent"]

\* POST /tasks answered 202
Accept(t) ==
  /\ rec[t] = "absent"
  /\ Cardinality(RunningIds) < Slots
  /\ rec' = [rec EXCEPT ![t] = "running"]

\* the task comes to its end, by itself or by DELETE /tasks/<id>
End(t, state) ==
  /\ rec[t] = "running"
  /\ rec' = [rec EXCEPT ![t] = state]

RegistryNext ==
  \E t \in Ids : Accept(t) \/ \E state \in {"succeeded", "failed", "killed"} : End(t, state)

RegistrySpec == InitRegistry /\ [][RegistryNext]_rec
=============================================================================
