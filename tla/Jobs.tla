-------------------------------- MODULE Jobs --------------------------------
(***************************************************************************)
(* One submitted job: the process that cooks it (host_render), on a farm   *)
(* pod under host_cook or in the background of the artist's machine, and   *)
(* the sessions on that machine that refresh, cancel, fetch and deliver it *)
(* (rpfarm/jobs.py).                                                       *)
(*                                                                         *)
(* A record is a JSON file: job.json in the package on the volume, written *)
(* by the farm pod, and a file of the artist's home, written by everybody  *)
(* else; in background mode the second is the only one.  Every writer      *)
(* copies a record it read before, writes it to "<name>.tmp" and renames   *)
(* that: two steps, and the name of the temporary file is shared.          *)
(***************************************************************************)
EXTENDS Integers, FiniteSets

CONSTANTS
  Sessions,      \* threads of the artist's Houdinis that use the record
  NoOne,
  MaxCalls,      \* bound on the calls of the sessions
  MaxFaults      \* bound on failed remote calls, lost machines and restarts

ASSUME JobsAssumption ==
  /\ NoOne \notin Sessions
  /\ MaxCalls \in Nat /\ MaxFaults \in Nat

FinalStates == {"complete", "failed", "canceled"}
States == {"submitted", "running", "cancel_requested"} \union FinalStates
Files  == {"package", "home"}
Runs   == 0..(MaxFaults + 1)
Record == [state : States, sha : Runs, delivered : BOOLEAN]
None   == [state |-> "none", sha |-> 0, delivered |-> FALSE]
Submitted == [state |-> "submitted", sha |-> 0, delivered |-> FALSE]

VARIABLES
  mode,          \* "farm" or "background"
  disk,          \* the two records
  tmp,           \* their temporary files
  marker,        \* the cancel marker exists
  render,        \* where host_render is
  mine,          \* its copy of the record
  cancelled, ok, \* its locals: cancel was seen, rc is 0
  checkpoint, manifest,  \* which run of the pod wrote them; 0 is none
  host,          \* where host_cook is
  dog,           \* where its watchdog thread is
  late,          \* 0, 1 at 30 s before the runtime ceiling, 2 at the ceiling
  pod,           \* the host pod
  run,           \* how often its container has been started
  cook,          \* a render pod of the job: "none", "coming", "up"
  pc, copy, got, \* of each session: where it is, its copy, the run it fetched
  locked,        \* who holds the lock file of downloaded()
  calls, faults,
  unswept,       \* history: a sweep failed or never came, or a pod came after it
  swept          \* history: the host has listed the render pods

renderVars  == <<render, mine, cancelled, ok>>
resultVars  == <<checkpoint, manifest>>
hostVars    == <<host, dog, late, pod, run>>
sessionVars == <<pc, copy, got, locked, calls>>
cookVars    == <<cook, unswept, swept>>
jobsVars == <<mode, disk, tmp, marker, renderVars, resultVars, hostVars,
              sessionVars, cookVars, faults>>

Final(r)  == r.state \in FinalStates
Farm      == mode = "farm"
JobFile   == IF Farm THEN "package" ELSE "home"
Alive     == render \notin {"none", "exited", "dead"}
Fault     == faults < MaxFaults /\ faults' = faults + 1

\* the two halves of jobs.write; Torn is the rename of a file that is gone
Stage(f, r) == tmp' = [tmp EXCEPT ![f] = r] /\ UNCHANGED disk
Publish(f) ==
  /\ tmp[f] # None
  /\ disk' = [disk EXCEPT ![f] = tmp[f]]
  /\ tmp' = [tmp EXCEPT ![f] = None]
Torn(f) == tmp[f] = None /\ UNCHANGED <<disk, tmp>>

Init ==
  /\ mode \in {"farm", "background"}
  /\ disk = [f \in Files |-> IF f = JobFile THEN Submitted ELSE None]
  /\ tmp = [f \in Files |-> None]
  /\ marker = FALSE
  /\ render = "none" /\ mine = None /\ cancelled = FALSE /\ ok = FALSE
  /\ checkpoint = 0 /\ manifest = 0
  /\ host = IF Farm THEN "boot" ELSE "none"
  /\ dog = "none" /\ late = 0
  /\ pod = (IF Farm THEN "up" ELSE "none") /\ run = 1
  /\ cook = "none" /\ unswept = FALSE /\ swept = FALSE
  /\ \E launcher \in Sessions :
       pc = [c \in Sessions |-> IF c = launcher THEN "launch" ELSE "idle"]
  /\ copy = [c \in Sessions |-> Submitted]
  /\ got = [c \in Sessions |-> 0]
  /\ locked = NoOne /\ calls = 0 /\ faults = 0

-----------------------------------------------------------------------------
(* host_render: run *)

Goto(label) == render' = label

Write(from, label, r) ==
  /\ render = from
  /\ Stage(JobFile, r)
  /\ mine' = r
  /\ Goto(label)
  /\ UNCHANGED <<mode, marker, cancelled, ok, resultVars, hostVars, sessionVars, cookVars, faults>>

\* the record is read when the process starts, and written back as running
Announce == Write("start", "announcing", [disk[JobFile] EXCEPT !.state = "running"])

Announced ==
  /\ render = "announcing"
  /\ \/ Publish(JobFile) /\ Goto("loading")
     \/ Torn(JobFile) /\ Goto("exited")
  /\ UNCHANGED <<mode, marker, mine, cancelled, ok, resultVars, hostVars, sessionVars, cookVars, faults>>

\* loading the scene fails, or the cook begins unless the marker is there
Load ==
  /\ render = "loading"
  /\ \/ Goto("finish") /\ UNCHANGED <<cancelled, ok>>
     \/ /\ cancelled' = marker /\ ok' = FALSE
        /\ Goto(IF marker THEN "publish" ELSE "cooking")
  /\ UNCHANGED <<mode, disk, tmp, marker, mine, resultVars, hostVars, sessionVars, cookVars, faults>>

\* the scheduler inside the cook asks for a render pod
RequestPod ==
  /\ render = "cooking" /\ cook = "none"
  /\ cook' = "coming"
  /\ UNCHANGED <<mode, disk, tmp, marker, renderVars, resultVars, hostVars, sessionVars, unswept, swept, faults>>

Progress == Write("cooking", "reporting", mine)

Reported ==
  /\ render = "reporting"
  /\ \/ Publish(JobFile) /\ Goto("cooking")
     \/ Torn(JobFile) /\ Goto("publish")
  /\ UNCHANGED <<mode, marker, mine, cancelled, ok, resultVars, hostVars, sessionVars, cookVars, faults>>

\* the cook is over, by itself or because the loop saw the marker (or, without a
\* supervisor, the deadline); its scheduler has ended its pods
CookEnds ==
  /\ render = "cooking"
  /\ \/ ok' \in BOOLEAN /\ UNCHANGED cancelled
     \/ (marker \/ ~ Farm) /\ cancelled' = TRUE /\ ok' = FALSE
  /\ cook # "coming" /\ cook' = "none"
  /\ Goto("publish")
  /\ UNCHANGED <<mode, disk, tmp, marker, mine, resultVars, hostVars, sessionVars, unswept, swept, faults>>

\* checkpoint, then manifest; either may fail, and then rc is 1
PublishCheckpoint ==
  /\ render = "publish"
  /\ \/ checkpoint' = run /\ Goto("manifest") /\ UNCHANGED ok
     \/ ok' = FALSE /\ Goto("finish") /\ UNCHANGED checkpoint
  /\ UNCHANGED <<mode, disk, tmp, marker, mine, cancelled, manifest, hostVars, sessionVars, cookVars, faults>>

PublishManifest ==
  /\ render = "manifest"
  /\ \/ manifest' = run /\ mine' = [mine EXCEPT !.sha = run] /\ UNCHANGED ok
     \/ ok' = FALSE /\ UNCHANGED <<mine, manifest>>
  /\ Goto("finish")
  /\ UNCHANGED <<mode, disk, tmp, marker, cancelled, checkpoint, hostVars, sessionVars, cookVars, faults>>

Outcome == IF cancelled THEN "canceled" ELSE IF ok THEN "complete" ELSE "failed"

Finish == Write("finish", "finishing", [mine EXCEPT !.state = Outcome])

\* a background process that did not succeed ends the pods of its job itself
Finished ==
  /\ render = "finishing"
  /\ \/ Publish(JobFile) /\ Goto(IF Farm \/ ok THEN "exited" ELSE "sweep")
     \/ Torn(JobFile) /\ Goto("exited")
  /\ UNCHANGED <<mode, marker, mine, cancelled, ok, resultVars, hostVars, sessionVars, cookVars, faults>>

\* list, and terminate what is there; each call may fail
SweepCall ==
  \/ /\ swept' = TRUE
     /\ cook' = IF cook = "up" THEN "none" ELSE cook
     /\ UNCHANGED <<faults, unswept>>
  \/ Fault /\ unswept' = TRUE /\ UNCHANGED <<cook, swept>>

RenderSweeps ==
  /\ render = "sweep"
  /\ SweepCall
  /\ Goto("exited")
  /\ UNCHANGED <<mode, disk, tmp, marker, mine, cancelled, ok, resultVars, hostVars, sessionVars>>

\* a blocking call that does not come back
Hang ==
  /\ render \in {"loading", "cooking"}
  /\ Goto("stuck")
  /\ UNCHANGED <<mode, disk, tmp, marker, mine, cancelled, ok, resultVars, hostVars, sessionVars, cookVars, faults>>

Arrive ==
  /\ cook = "coming"
  /\ cook' = "up"
  /\ unswept' = (unswept \/ swept)
  /\ UNCHANGED <<mode, disk, tmp, marker, renderVars, resultVars, hostVars, sessionVars, swept, faults>>

-----------------------------------------------------------------------------
(* host_cook: main, wait_for_cook, _failed_job, Watchdog *)

HostAt(from) == pod = "up" /\ host = from

\* a pod that is gone takes its processes with it
PodGone ==
  /\ pod' = "gone" /\ host' = "gone" /\ dog' = "done"
  /\ render' = IF Alive THEN "dead" ELSE render

\* without its environment or topcook.py it ends itself at once
StartCook ==
  /\ HostAt("boot")
  /\ dog' = "armed"
  /\ \/ host' = "wait" /\ Goto("start")
     \/ host' = "terminate" /\ UNCHANGED render
  /\ UNCHANGED <<mode, disk, tmp, marker, mine, cancelled, ok, resultVars, late, pod, run, sessionVars, cookVars, faults>>

CookReturnedWell ==
  /\ HostAt("wait") /\ render = "exited" /\ ok
  /\ host' = "record" /\ dog' = "cancelled"
  /\ UNCHANGED <<mode, disk, tmp, marker, renderVars, resultVars, late, pod, run, sessionVars, cookVars, faults>>

CookReturned ==
  /\ HostAt("wait") /\ render = "exited"
  /\ host' = "record" /\ dog' = "cancelled"
  /\ UNCHANGED <<mode, disk, tmp, marker, renderVars, resultVars, late, pod, run, sessionVars, cookVars, faults>>

\* the marker has been there for CANCEL_GRACE_S, or the ceiling is 30 s away
LosePatience ==
  /\ HostAt("wait") /\ Alive
  /\ marker \/ late > 0
  /\ host' = "kill"
  /\ UNCHANGED <<mode, disk, tmp, marker, renderVars, resultVars, dog, late, pod, run, sessionVars, cookVars, faults>>

\* SIGTERM, 15 s, SIGKILL: the cook may still finish by itself meanwhile
KillGroup ==
  /\ HostAt("kill")
  /\ render' = IF Alive THEN "dead" ELSE render
  /\ ok' = FALSE
  /\ host' = "record" /\ dog' = "cancelled"
  /\ UNCHANGED <<mode, disk, tmp, marker, mine, cancelled, resultVars, late, pod, run, sessionVars, cookVars, faults>>

\* _failed_job, unless the process returned 0
RecordFailure ==
  /\ HostAt("record")
  /\ disk' = IF ok \/ Final(disk["package"]) THEN disk
             ELSE [disk EXCEPT !["package"].state = IF marker THEN "canceled" ELSE "failed"]
  /\ tmp' = IF disk' = disk THEN tmp ELSE [tmp EXCEPT !["package"] = None]
  /\ host' = "sweep"
  /\ UNCHANGED <<mode, marker, renderVars, resultVars, dog, late, pod, run, sessionVars, cookVars, faults>>

HostSkipsSweep ==
  /\ HostAt("sweep")
  /\ host' = "terminate"
  /\ UNCHANGED <<mode, disk, tmp, marker, renderVars, resultVars, dog, late, pod, run, sessionVars, cookVars, faults>>

HostSweeps ==
  /\ HostAt("sweep")
  /\ SweepCall
  /\ host' = "terminate"
  /\ UNCHANGED <<mode, disk, tmp, marker, renderVars, resultVars, dog, late, pod, run, sessionVars>>

\* terminate_pod of itself; a failure is logged, and the process exits
HostTerminates ==
  /\ HostAt("terminate")
  /\ \/ PodGone /\ UNCHANGED faults
     \/ Fault /\ host' = "exited" /\ dog' = "done" /\ UNCHANGED <<pod, render>>
  /\ UNCHANGED <<mode, disk, tmp, marker, mine, cancelled, ok, resultVars, late, run, sessionVars, cookVars>>

\* the loop of wait_for_cook looks every 5 s, so only a kill lasts until the ceiling
Clock ==
  /\ pod = "up" /\ dog = "armed"
  /\ \/ late = 0 /\ late' = 1
     \/ late = 1 /\ host = "kill" /\ late' = 2
  /\ UNCHANGED <<mode, disk, tmp, marker, renderVars, resultVars, host, dog, pod, run, sessionVars, cookVars, faults>>

WatchdogSweeps ==
  /\ pod = "up" /\ dog = "armed" /\ late = 2
  /\ SweepCall
  /\ dog' = "terminate"
  /\ UNCHANGED <<mode, disk, tmp, marker, renderVars, resultVars, host, late, pod, run, sessionVars>>

WatchdogTerminates ==
  /\ pod = "up" /\ dog = "terminate"
  /\ \/ PodGone /\ UNCHANGED faults
     \/ Fault /\ dog' = "done" /\ UNCHANGED <<host, pod, render>>
  /\ UNCHANGED <<mode, disk, tmp, marker, mine, cancelled, ok, resultVars, late, run, sessionVars, cookVars>>

\* RunPod loses the machine, or starts the container of a pod again that has exited
LosePod ==
  /\ pod = "up" /\ Fault
  /\ PodGone
  /\ unswept' = TRUE
  /\ UNCHANGED <<mode, disk, tmp, marker, mine, cancelled, ok, resultVars, late, run, sessionVars, cook, swept>>

Restart ==
  /\ HostAt("exited") /\ run =< MaxFaults
  /\ host' = "boot" /\ dog' = "none" /\ late' = 0 /\ run' = run + 1
  /\ Goto("none") /\ mine' = None /\ cancelled' = FALSE /\ ok' = FALSE
  /\ UNCHANGED <<mode, disk, tmp, marker, resultVars, pod, sessionVars, cookVars, faults>>

-----------------------------------------------------------------------------
(* The sessions: launch, refresh, cancel, fetch_results, downloaded *)

At(c, label) == pc[c] = label
Step(c, label) == pc' = [pc EXCEPT ![c] = label]
Holds(c, r) == copy' = [copy EXCEPT ![c] = r]
NotSession == <<mode, renderVars, resultVars, hostVars, cookVars>>
OnlyPc(c, from, label) ==
  /\ At(c, from)
  /\ Step(c, label)
  /\ UNCHANGED <<NotSession, disk, tmp, marker, copy, got, locked, calls>>

\* the process is started; then the record is saved once more with its pid, or
\* with the pod.  The background launcher reads it again for that
Launch(c) ==
  /\ At(c, "launch")
  /\ Step(c, "launched")
  /\ Goto(IF Farm THEN render ELSE "start")
  /\ UNCHANGED <<mode, mine, cancelled, ok, resultVars, hostVars, cookVars, disk, tmp, marker, copy, got, locked, calls, faults>>

Launched(c) ==
  /\ At(c, "launched")
  /\ Holds(c, IF Farm THEN Submitted ELSE disk["home"])
  /\ Step(c, "save")
  /\ UNCHANGED <<NotSession, disk, tmp, marker, got, locked, calls, faults>>

\* a call begins with the record of the home directory
Call(c, label) ==
  /\ At(c, "idle") /\ calls < MaxCalls
  /\ disk["home"] # None
  /\ calls' = calls + 1
  /\ Holds(c, disk["home"])
  /\ Step(c, label)
  /\ UNCHANGED <<NotSession, disk, tmp, marker, got, locked, faults>>

Refresh(c) == Farm /\ ~ Final(disk["home"]) /\ Call(c, "refresh")
Cancel(c)  == ~ Final(disk["home"]) /\ Call(c, "cancel")
Fetch(c)   == Farm /\ Call(c, "fetch")

\* what refresh and fetch_results keep of their copy is what was delivered
Merged(c, r) == [r EXCEPT !.delivered = copy[c].delivered]

ReadRemote(c) ==
  /\ pc[c] \in {"refresh", "fetch"}
  /\ Holds(c, Merged(c, disk["package"]))
  /\ Step(c, IF At(c, "fetch") THEN "saveFetch" ELSE "save")
  /\ UNCHANGED <<NotSession, disk, tmp, marker, got, locked, calls, faults>>

TouchIsEnough(c) ==
  /\ At(c, "cancel")
  /\ marker' = TRUE
  /\ Holds(c, [copy[c] EXCEPT !.state = "canceled"])
  /\ Step(c, "save")
  /\ UNCHANGED <<NotSession, disk, tmp, got, locked, calls, faults>>

\* touch the marker, here or through a call that may fail, or be unheard
Touch(c) ==
  /\ At(c, "cancel")
  /\ \/ /\ marker' = TRUE
        /\ Holds(c, [copy[c] EXCEPT !.state = "cancel_requested"])
        /\ Step(c, "save")
        /\ UNCHANGED faults
     \/ Farm /\ Fault /\ marker' \in {marker, TRUE} /\ Step(c, "idle") /\ UNCHANGED copy
  /\ UNCHANGED <<NotSession, disk, tmp, got, locked, calls>>

Saving == {"save", "saveFetch", "saveDelivered"}

Save(c) ==
  /\ pc[c] \in Saving
  /\ Stage("home", copy[c])
  /\ Step(c, CASE At(c, "save") -> "saved" [] At(c, "saveFetch") -> "savedFetch"
               [] OTHER -> "savedDelivered")
  /\ UNCHANGED <<NotSession, marker, copy, got, locked, calls, faults>>

\* fetch_results goes on until it has read a final state; without a hash it fails
After(c) ==
  CASE ~ At(c, "savedFetch") -> "idle"
    [] ~ Final(copy[c]) -> "fetch"
    [] copy[c].sha = 0 -> "idle"
    [] OTHER -> "transfer"

Saved(c) ==
  /\ pc[c] \in {"saved", "savedFetch", "savedDelivered"}
  /\ \/ Publish("home") /\ Step(c, After(c))
     \/ Torn("home") /\ Step(c, "idle")
  /\ locked' = IF locked = c THEN NoOne ELSE locked
  /\ UNCHANGED <<NotSession, marker, copy, got, calls, faults>>

\* a remote read fails, the deadline of a fetch passes, or its caller cancels it
GiveUp(c) ==
  /\ \E label \in {"refresh", "fetch", "transfer"} : OnlyPc(c, label, "idle")
  /\ UNCHANGED faults

\* the checkpoint is copied, and its hash compared with the record
Transfer(c) ==
  /\ At(c, "transfer")
  /\ \/ checkpoint = copy[c].sha /\ got' = [got EXCEPT ![c] = checkpoint]
     \/ checkpoint # copy[c].sha /\ UNCHANGED got
  /\ Step(c, "idle")
  /\ UNCHANGED <<NotSession, disk, tmp, marker, copy, locked, calls, faults>>

\* downloaded: the only writer that reads the record under a lock
Delivered(c) ==
  /\ got[c] # 0 /\ locked = NoOne
  /\ At(c, "idle")
  /\ got' = [got EXCEPT ![c] = 0]
  /\ locked' = c
  /\ Holds(c, [disk["home"] EXCEPT !.delivered = TRUE])
  /\ Step(c, "saveDelivered")
  /\ UNCHANGED <<NotSession, disk, tmp, marker, calls, faults>>

-----------------------------------------------------------------------------
RenderStep == Announce \/ Announced \/ Load \/ RequestPod \/ Progress \/ Reported
              \/ CookEnds \/ PublishCheckpoint \/ PublishManifest \/ Finish
              \/ Finished \/ RenderSweeps
HostStep == StartCook \/ CookReturned \/ LosePatience \/ KillGroup \/ RecordFailure
            \/ HostSweeps \/ HostTerminates
DogStep == WatchdogSweeps \/ WatchdogTerminates
SessionStep(c) == Launch(c) \/ Launched(c) \/ Refresh(c) \/ Cancel(c) \/ Fetch(c)
                  \/ ReadRemote(c) \/ Touch(c) \/ Save(c) \/ Saved(c) \/ GiveUp(c)
                  \/ Transfer(c) \/ Delivered(c)

Next == \/ RenderStep \/ HostStep \/ DogStep \/ Clock
        \/ Hang \/ Arrive \/ LosePod \/ Restart
        \/ \E c \in Sessions : SessionStep(c)

Spec == Init /\ [][Next]_jobsVars

\* the processes of the pod run.  Nothing makes a cook end by itself, no session has
\* to do anything, and HostEnds states the clock it needs
FairSpec == Spec /\ WF_jobsVars(HostStep) /\ WF_jobsVars(DogStep)
                 /\ WF_jobsVars(Announce \/ Announced \/ Reported \/ Finish \/ Finished)
                 /\ \A c \in Sessions : WF_jobsVars(Save(c) \/ Saved(c))

-----------------------------------------------------------------------------
(* Properties *)

TypeOK ==
  /\ mode \in {"farm", "background"}
  /\ disk \in [Files -> Record \union {None}]
  /\ tmp \in [Files -> Record \union {None}]
  /\ marker \in BOOLEAN /\ cancelled \in BOOLEAN /\ ok \in BOOLEAN
  /\ mine \in Record \union {None}
  /\ checkpoint \in 0..run /\ manifest \in 0..run /\ run \in 1..(MaxFaults + 1)
  /\ late \in 0..2 /\ calls \in 0..MaxCalls /\ faults \in 0..MaxFaults
  /\ copy \in [Sessions -> Record]
  /\ got \in [Sessions -> Runs]
  /\ locked \in Sessions \union {NoOne}
  /\ cook \in {"none", "coming", "up"}
  /\ unswept \in BOOLEAN /\ swept \in BOOLEAN

\* A record that says "complete", wherever it is read, has results behind it: the
\* checkpoint and the manifest were in place before the word was written.
CompleteIsPublished ==
  \A f \in Files : disk[f].state = "complete" =>
    disk[f].sha > 0 /\ checkpoint >= disk[f].sha /\ manifest >= disk[f].sha

\* Once host_cook is past its cook the record on the volume is final, however the
\* cook ended: killed, failed, cancelled or finished while it was being killed.
EndIsOnRecord == host = "sweep" => Final(disk["package"])

\* The artist's copy never says a job is over in a way the pod did not: final
\* there means the same final on the volume, unless the container was restarted.
HomeFollowsPackage ==
  Farm /\ Final(disk["home"]) /\ run = 1 => disk["home"].state = disk["package"].state

\* A host pod that ended itself leaves no render pod, except one whose sweep call
\* failed or that was still being created.
NothingOutlivesHost ==
  Farm /\ pod = "gone" /\ cook = "up" => unswept

\* The word on the volume is final: only a restarted container changes it.
FinalIsFinal ==
  [][Final(disk["package"]) /\ run = 1 => disk'["package"].state = disk["package"].state]_jobsVars

\* A host pod ends, whatever its cook does: by itself, by a cancel or at the
\* ceiling.  Only calls that failed leave it there.
HostEnds == WF_jobsVars(Clock) => (Farm ~> (pod = "gone" \/ host = "exited"))

\* A cancel the artist asked for ends the cook, even one stuck in a blocking call
\* and long before the ceiling.
CancelEnds == (Farm /\ marker) ~> ~ Alive

\* A cancelled background job whose process has written how it ended is over for
\* everybody who reads the record later.
CancelledEndIsKnown ==
  ~ Farm /\ marker /\ render = "exited" /\ Final(mine) /\ (\A c \in Sessions : pc[c] = "idle")
    => Final(disk["home"])
=============================================================================
