--------------------------- MODULE ItemLifecycle ---------------------------
(***************************************************************************)
(* What the scheduler promises PDG about the work items it accepted, with  *)
(* no pods, queue or clock: an item waits, runs, may lose its machine a    *)
(* bounded number of times, and ends exactly once, succeeded or failed; a  *)
(* failed item is reported, once, some time after it failed.  Dispatcher   *)
(* implements this specification.                                          *)
(***************************************************************************)
EXTENDS Integers

CONSTANTS
  Items,         \* work items
  MaxAttempts    \* machines an item may lose before it is given up

VARIABLES
  stage,         \* where each item is in its life
  losses         \* machines each item has lost

lifecycleVars == <<stage, losses>>

Stages == {"new", "waiting", "running", "succeeded", "failed", "reported"}

Move(i, from, to) ==
  /\ stage[i] = from
  /\ stage' = [stage EXCEPT ![i] = to]
  /\ UNCHANGED losses

Init ==
  /\ stage = [i \in Items |-> "new"]
  /\ losses = [i \in Items |-> 0]

Accept(i)     == Move(i, "new", "waiting")
Start(i)      == Move(i, "waiting", "running")
Finish(i, ok) == Move(i, "running", IF ok THEN "succeeded" ELSE "failed")
Reject(i)     == Move(i, "waiting", "failed")

\* The machines under the items of S are gone: those with attempts left wait
\* again, the others have failed.
Lose(S) ==
  /\ S # {}
  /\ \A i \in S : stage[i] = "running"
  /\ losses' = [i \in Items |-> IF i \in S THEN losses[i] + 1 ELSE losses[i]]
  /\ stage' = [i \in Items |-> IF i \notin S THEN stage[i]
                               ELSE IF losses[i] + 1 >= MaxAttempts THEN "failed"
                               ELSE "waiting"]

\* PDG hears of every failed item it has not heard of, those of Expired
\* giving up their wait in the same step.
Report(Expired) ==
  /\ \A i \in Expired : stage[i] = "waiting"
  /\ stage' = [i \in Items |-> IF stage[i] = "failed" \/ i \in Expired
                               THEN "reported" ELSE stage[i]]
  /\ UNCHANGED losses

Next ==
  \/ \E i \in Items : \/ Accept(i)
                      \/ Start(i)
                      \/ Reject(i)
                      \/ \E ok \in BOOLEAN : Finish(i, ok)
  \/ \E S \in SUBSET Items : Lose(S) \/ Report(S)

Spec == Init /\ [][Next]_lifecycleVars
=============================================================================
