-------------------------------- MODULE Smoke --------------------------------
(***************************************************************************)
(* `rpfarm smoke`: one real cook as a test (smoke.py).  The parent starts a *)
(* Houdini that cooks the fixture once and writes a result, kills it when   *)
(* it takes too long, checks what came back and what the ledger says,       *)
(* terminates the artist's pods, and gives a verdict.  The run directory    *)
(* and the project on the volume may be those of an earlier run.            *)
(***************************************************************************)
EXTENDS Integers, FiniteSets

CONSTANTS
  Frames,      \* what the fixture renders
  Probes,      \* the item that is not a frame
  FarmPods,    \* pods of the account: the artist's and another's
  MinePods,    \* own_pods
  MaxTrouble   \* bound on lost ledger rows, refused calls and crashes

ASSUME SmokeAssumption ==
  MinePods \subseteq FarmPods /\ MaxTrouble \in Nat /\ IsFiniteSet(Frames) /\ IsFiniteSet(Probes)

VARIABLES
  parent,   \* where cmd_smoke is
  child,    \* where hython_main is, and its exit code
  files,    \* each frame in the run directory: "none", "stale", "empty", "new"
  item,     \* each frame's work item: "waiting", "cooking", "done", "failed"
  rows,     \* each frame's ledger row: "none", "ok", "failed"; and the summary
  result,   \* smoke_result.json: "none", "torn", "bad", "ok"
  cookId,   \* the cook id in it: "none", this cook's, or that of an earlier run
  found,    \* what the parent learned
  alive,    \* the pods there are
  flying,   \* pods whose create was sent and has not landed
  verdict, trouble,
  broken,   \* history: a listing failed and told nothing
  late      \* history: pods in flight when what is left was listed

Items == Frames \cup Probes
smokeVars == <<parent, child, files, item, rows, result, cookId, found, alive, flying, verdict, trouble, broken, late>>

Nothing == [rc |-> 1, ok |-> FALSE, outputs |-> FALSE, ledger |-> FALSE, remaining |-> {}, doom |-> {}, keep |-> FALSE]
Trouble == trouble < MaxTrouble /\ trouble' = trouble + 1
ParentStays == UNCHANGED <<parent, found, verdict, broken, late>>
ResultStays == UNCHANGED <<result, cookId>>
CookStays   == UNCHANGED <<child, files, item, rows, flying>> /\ ResultStays

-----------------------------------------------------------------------------
(* hython_main                                                              *)

Child(from, to) == child.at = from /\ child' = [child EXCEPT !.at = to]

\* cookWorkItems, not blocking
CookStarts ==
  /\ Child("loading", "cooking") /\ UNCHANGED <<files, item, rows, alive, flying, trouble>> /\ ResultStays /\ ParentStays

\* the scheduler makes pods while it cooks; a create it sent may land when its cook,
\* its process or the whole test is over
PodSent(p) ==
  /\ child.at = "cooking" /\ p \in MinePods \ (alive \cup flying) /\ flying' = flying \cup {p}
  /\ UNCHANGED <<child, files, item, rows, alive, trouble>> /\ ResultStays /\ ParentStays

PodComes(p) ==
  /\ p \in flying /\ flying' = flying \ {p} /\ alive' \in {alive, alive \cup {p}}
  /\ UNCHANGED <<child, files, item, rows, trouble>> /\ ResultStays /\ ParentStays

\* an item ends; a success may leave the file of an earlier run, or an empty one
ItemEnds(f, state, file, row) ==
  /\ child.at = "cooking" /\ item[f] = "waiting"
  /\ item' = [item EXCEPT ![f] = state]
  /\ files' = [files EXCEPT ![f] = IF state = "done" /\ file # "same" THEN file ELSE @]
  /\ rows' = [rows EXCEPT !.task = [@ EXCEPT ![f] = row]]
  /\ (row = "ok" => state = "done")
  /\ IF state = "done" /\ file = "new" /\ row = "ok" THEN UNCHANGED trouble ELSE Trouble
  /\ UNCHANGED <<child, alive, flying>> /\ ResultStays /\ ParentStays

\* the cook ends by itself, or the guard cancels it; onStopCook retires the GPU pods
\* and writes the summary, if it gets there
ChildCookEnds(aborted, summary, gone) ==
  /\ child.at = "cooking"
  /\ aborted \/ \A f \in Items : item[f] # "waiting"
  /\ gone \subseteq alive \cap MinePods
  /\ child' = [child EXCEPT !.at = "reporting", !.aborted = aborted]
  /\ rows' = [rows EXCEPT !.summary = summary] /\ alive' = alive \ gone
  /\ IF aborted \/ ~summary THEN Trouble ELSE UNCHANGED trouble
  /\ UNCHANGED <<files, item, flying>> /\ ResultStays /\ ParentStays

\* every item of every node succeeded, and the guard did not fire
NodesOk == ~child.aborted /\ \A f \in Items : item[f] = "done"

\* the cook id is read off the status text, when it is there
WriteResult ==
  /\ Child("reporting", "written") /\ result' = IF NodesOk THEN "ok" ELSE "bad"
  /\ \/ cookId' = "mine" /\ UNCHANGED trouble
     \/ cookId' = "none" /\ Trouble
  /\ UNCHANGED <<files, item, rows, alive, flying>> /\ ParentStays

\* the file cannot be written, and another may be there: logged, no more
WriteFails ==
  /\ Child("reporting", "written") /\ Trouble
  /\ \/ ResultStays
     \/ result' = "torn" /\ cookId' = "none"
  /\ UNCHANGED <<files, item, rows, alive, flying>> /\ ParentStays

\* 0 when what it had to write says so
ChildExits ==
  /\ child.at = "written" /\ child' = [child EXCEPT !.at = "over", !.rc = IF NodesOk THEN 0 ELSE 1]
  /\ UNCHANGED <<files, item, rows, alive, flying, trouble>> /\ ResultStays /\ ParentStays

\* an exception leaves a result, a death does not; the parent's guard kills the group
ChildDies ==
  /\ child.at \in {"loading", "cooking", "reporting", "written"} /\ Trouble
  /\ child' = [child EXCEPT !.at = "over", !.rc = 1]
  /\ \/ ResultStays
     \/ result' = "torn" /\ cookId' = "none"
     \/ child.at # "written" /\ result' = "bad" /\ cookId' = "none"
  /\ UNCHANGED <<files, item, rows, alive, flying>> /\ ParentStays

-----------------------------------------------------------------------------
(* cmd_smoke                                                                *)

Moves(from, to) == parent = from /\ parent' = to
Learns(changes) == found' = [f \in DOMAIN found |-> IF f \in DOMAIN changes THEN changes[f] ELSE found[f]]

StartChild ==
  /\ Moves("begin", "run") /\ child' = [child EXCEPT !.at = "loading"]
  /\ UNCHANGED <<files, item, rows, found, alive, flying, verdict, trouble, broken, late>> /\ ResultStays

Waited ==
  /\ Moves("run", "read") /\ child.at = "over" /\ Learns([rc |-> child.rc])
  /\ CookStays /\ UNCHANGED <<alive, verdict, trouble, broken, late>>

ReadResult ==
  /\ Moves("read", "outputs") /\ Learns([ok |-> result = "ok"])
  /\ CookStays /\ UNCHANGED <<alive, verdict, trouble, broken, late>>

AllThere == \A f \in Items : files[f] \notin {"none", "empty"}

\* _verify_outputs: the frames are of this run and not empty, the probe's file is there
OutputsOk == (\A f \in Frames : files[f] = "new") /\ \A f \in Probes : files[f] # "none"

VerifyOutputs ==
  /\ Moves("outputs", "ledger") /\ Learns([outputs |-> OutputsOk])
  /\ CookStays /\ UNCHANGED <<alive, verdict, trouble, broken, late>>

Rows(row) == {f \in Items : rows.task[f] = row}

\* the cook's own ledger file is found: its id is known and something was written
OwnLedger == cookId = "mine" /\ (rows.summary \/ \E f \in Items : rows.task[f] # "none")

\* _verify_ledger: as many rows as frames, none failed, and the summary
LedgerOk == rows.summary /\ Rows("failed") = {} /\ Cardinality(Rows("ok")) >= Cardinality(Frames)

\* without it, the file of the earlier run's cook or any ledger file touched meanwhile
\* is judged: another cook's may say anything
VerifyLedger ==
  /\ Moves("ledger", "cleanup")
  /\ \E says \in BOOLEAN : (OwnLedger => says = LedgerOk) /\ Learns([ledger |-> says])
  /\ CookStays /\ UNCHANGED <<alive, verdict, trouble, broken, late>>

\* Ctrl-C, or a check that raises, the child over: the cleanup, and no verdict
Interrupted ==
  /\ parent \in {"run", "read", "outputs", "ledger"} /\ child.at = "over" /\ Trouble
  /\ parent' = "cleanup" /\ Learns([rc |-> 1])
  /\ CookStays /\ UNCHANGED <<alive, verdict, broken, late>>

Keep ==
  /\ Moves("cleanup", "judge") /\ Learns([keep |-> TRUE])
  /\ CookStays /\ UNCHANGED <<alive, verdict, trouble, broken, late>>

\* terminate_pods: the artist's own, whoever uses them
ListPods ==
  /\ Moves("cleanup", "terminate") /\ Learns([doom |-> alive \cap MinePods])
  /\ CookStays /\ UNCHANGED <<alive, verdict, trouble, broken, late>>

TerminatePod(p) ==
  /\ parent = "terminate" /\ p \in found.doom /\ Learns([doom |-> found.doom \ {p}])
  /\ \/ alive' = alive \ {p} /\ UNCHANGED trouble
     \/ Trouble /\ UNCHANGED alive
  /\ CookStays /\ UNCHANGED <<parent, verdict, broken, late>>

\* what is left is asked of the account again
Relist ==
  /\ parent = "terminate" /\ found.doom = {} /\ parent' = "judge" /\ Learns([remaining |-> alive \cap MinePods])
  /\ late' = flying /\ CookStays /\ UNCHANGED <<alive, verdict, trouble, broken>>

\* a listing that fails counts as nothing left
ListFails ==
  /\ parent \in {"cleanup", "terminate"} /\ found.doom = {} /\ Trouble /\ parent' = "judge" /\ broken' = TRUE
  /\ CookStays /\ UNCHANGED <<found, alive, verdict, late>>

Judge ==
  /\ Moves("judge", "end")
  /\ verdict' = IF found.rc = 0 /\ found.ok /\ found.outputs /\ found.ledger /\ found.remaining = {} THEN "pass" ELSE "fail"
  /\ CookStays /\ UNCHANGED <<found, alive, trouble, broken, late>>

-----------------------------------------------------------------------------

SmokeInit ==
  /\ parent = "begin" /\ child = [at |-> "none", rc |-> 1, aborted |-> FALSE]
  /\ files \in [Items -> {"none", "stale"}] /\ item = [f \in Items |-> "waiting"]
  /\ rows = [task |-> [f \in Items |-> "none"], summary |-> FALSE]
  /\ result \in {"none", "ok"} /\ cookId = (IF result = "ok" THEN "old" ELSE "none") /\ found = Nothing
  /\ alive \in SUBSET FarmPods /\ flying = {}
  /\ verdict = "none" /\ trouble = 0 /\ broken = FALSE /\ late = {}

SmokeNext ==
  \/ CookStarts \/ WriteResult \/ WriteFails \/ ChildExits \/ ChildDies
  \/ \E p \in FarmPods : PodSent(p) \/ PodComes(p) \/ TerminatePod(p)
  \/ \E f \in Items, state \in {"done", "failed"}, file \in {"new", "same", "empty"}, row \in {"none", "ok", "failed"} :
       ItemEnds(f, state, file, row)
  \/ \E aborted, summary \in BOOLEAN, gone \in SUBSET MinePods : ChildCookEnds(aborted, summary, gone)
  \/ StartChild \/ Waited \/ ReadResult \/ VerifyOutputs \/ VerifyLedger \/ Interrupted
  \/ Keep \/ ListPods \/ Relist \/ ListFails \/ Judge

SmokeSpec == SmokeInit /\ [][SmokeNext]_smokeVars

-----------------------------------------------------------------------------
(* Properties                                                               *)

\* A pass is one: this run's Houdini cooked every item to its end, every frame was
\* written by this run, the cook's ledger has its summary and all but as many tasks as
\* are not frames, and none of the artist's pods is left, however an earlier run's
\* files, a killed child, a lost result or a refused call come between (the module's own
\* "Exit status is 0 only when").  Not so where the code looks elsewhere: a cook without
\* a ledger file of its own, or whose id is not in the result, is judged by another file
\* (_verify_ledger's fallback); the pods are taken for gone with --keep and when they
\* could not be listed; and a create still in flight at the last listing may land.
PassIsReal ==
  verdict = "pass" =>
    /\ ~child.aborted /\ child.rc = 0 /\ \A f \in Items : item[f] = "done"
    /\ \A f \in Frames : files[f] = "new"
    /\ OwnLedger => rows.summary /\ Cardinality({f \in Items : rows.task[f] # "ok"}) <= Cardinality(Probes)
    /\ found.keep \/ broken \/ alive \cap MinePods \subseteq late

=============================================================================
