----------------------------- MODULE JobsProofs -----------------------------
(***************************************************************************)
(* Proofs about Jobs for every number of sessions and every bound on calls *)
(* and faults.                                                             *)
(***************************************************************************)
EXTENDS Jobs, TLAPS

Records == [state : States \union {"none"}, sha : Nat, delivered : BOOLEAN]

RecordsOK ==
  /\ disk \in [Files -> Records] /\ tmp \in [Files -> Records]
  /\ mine \in Records /\ copy \in [Sessions -> Records]
  /\ run \in Nat \ {0} /\ swept \in BOOLEAN /\ unswept \in BOOLEAN

\* A process of the job on the farm has a supervisor, on a pod that is up.
Supervised ==
  Farm => /\ Alive => host \in {"wait", "kill"} /\ pod = "up"
          /\ pod = "gone" => host = "gone"

\* Before a host pod ends, its render pods were listed, or there never were any; and one
\* that came after the list is counted as such.
Accounted == swept \/ unswept

PodsKnown ==
  /\ Farm /\ host \in {"boot", "terminate", "exited", "gone"} => Accounted \/ cook = "none"
  /\ dog = "terminate" => Accounted
  /\ cook = "up" /\ swept => unswept

\* In the first run the package is final only when the cook is over, and whatever the
\* sessions hold as final is the word of the package; what the process writes before its
\* last word is not final.
WordKept ==
  Farm /\ run = 1 =>
    /\ Final(disk["package"]) => ~ Alive
    /\ \A c \in Sessions : Final(copy[c]) => copy[c].state = disk["package"].state
    /\ Final(tmp["home"]) => tmp["home"].state = disk["package"].state
    /\ Final(disk["home"]) => disk["home"].state = disk["package"].state
    /\ host = "boot" => ~ Final(disk["package"])
    /\ render \in {"announcing", "reporting"} => ~ Final(tmp["package"])
    /\ render \in {"announcing", "loading", "cooking", "reporting"} => ~ Final(mine)

JobsInv == RecordsOK /\ Supervised /\ PodsKnown /\ WordKept

LEMMA InitJobs == Init => JobsInv
<1> SUFFICES ASSUME Init PROVE JobsInv
  OBVIOUS
<1>1. Submitted \in Records /\ None \in Records /\ ~ Final(None) /\ ~ Final(Submitted)
  BY DEF Submitted, None, Records, States, Final, FinalStates
<1>2. RecordsOK
  <2>1. swept \in BOOLEAN /\ unswept \in BOOLEAN
    BY Zenon DEF Init
  <2> QED BY <1>1, <2>1 DEF Init, RecordsOK
<1>3. Supervised /\ PodsKnown
  BY DEF Init, Supervised, PodsKnown, Alive, Farm
<1>4. WordKept
  BY <1>1 DEF Init, WordKept, Alive, Farm, Files
<1> QED BY <1>2, <1>3, <1>4 DEF JobsInv

\* host_render moves.
LEMMA RenderKeeps ==
  ASSUME JobsInv, RenderStep \/ Hang \/ Arrive
  PROVE  JobsInv'
<1> USE DEF JobsInv, Goto, hostVars, sessionVars, cookVars, resultVars, renderVars, JobFile
<1>0. RecordsOK /\ Supervised /\ PodsKnown /\ WordKept /\ "package" \in Files /\ "home" \in Files
  BY DEF Files
<1>n. None \in Records
  BY DEF None, Records, States
<1>1. CASE Announce
  <2>1. [disk[JobFile] EXCEPT !.state = "running"] \in Records
    BY <1>0 DEF RecordsOK, Records, States
  <2>2. /\ tmp' \in [Files -> Records] /\ mine' \in Records
        /\ Farm => tmp'["home"] = tmp["home"] /\ tmp'["package"] = mine' /\ mine'.state = "running"
    BY <1>0, <1>1, <2>1 DEF Records, Announce, Write, Stage, RecordsOK, Farm
  <2>3. render = "start" /\ render' = "announcing" /\ UNCHANGED <<mode, disk, copy, run, swept, unswept, host, pod, dog, cook>>
    BY <1>1 DEF Announce, Write, Stage
  <2> QED BY <1>0, <2>2, <2>3 DEF RecordsOK, Supervised, PodsKnown, WordKept, Accounted, Alive, Farm, Final, FinalStates
<1>2. CASE Announced
  BY <1>0, <1>2, <1>n DEF Announced, Publish, Torn, RecordsOK, Supervised, PodsKnown, WordKept, Accounted, Alive, Farm, Final
<1>3. CASE Load
  BY <1>0, <1>3 DEF Load, RecordsOK, Supervised, PodsKnown, WordKept, Accounted, Alive, Farm, Final
<1>4. CASE RequestPod
  BY <1>0, <1>4 DEF RequestPod, RecordsOK, Supervised, PodsKnown, WordKept, Accounted, Alive, Farm, Final
<1>5. CASE Progress
  <2>1. /\ tmp' \in [Files -> Records] /\ mine' = mine
        /\ Farm => tmp'["home"] = tmp["home"] /\ tmp'["package"] = mine
    BY <1>0, <1>5 DEF Progress, Write, Stage, RecordsOK, Farm
  <2>2. render = "cooking" /\ render' = "reporting" /\ UNCHANGED <<mode, disk, copy, run, swept, unswept, host, pod, dog, cook>>
    BY <1>5 DEF Progress, Write, Stage
  <2> QED BY <1>0, <2>1, <2>2 DEF RecordsOK, Supervised, PodsKnown, WordKept, Accounted, Alive, Farm, Final
<1>6. CASE Reported
  BY <1>0, <1>6, <1>n DEF Reported, Publish, Torn, RecordsOK, Supervised, PodsKnown, WordKept, Accounted, Alive, Farm, Final
<1>7. CASE CookEnds
  BY <1>0, <1>7 DEF CookEnds, RecordsOK, Supervised, PodsKnown, WordKept, Accounted, Alive, Farm, Final
<1>8. CASE PublishCheckpoint
  BY <1>0, <1>8 DEF PublishCheckpoint, RecordsOK, Supervised, PodsKnown, WordKept, Accounted, Alive, Farm, Final
<1>9. CASE PublishManifest
  <2>1. mine' \in Records
    BY <1>0, <1>9 DEF PublishManifest, RecordsOK, Records
  <2> QED BY <1>0, <1>9, <2>1 DEF PublishManifest, RecordsOK, Supervised, PodsKnown, WordKept, Accounted, Alive, Farm, Final
<1>10. CASE Finish
  <2>1. Outcome \in FinalStates
    BY DEF Outcome, FinalStates
  <2>2. [mine EXCEPT !.state = Outcome] \in Records
    BY <1>0, <2>1 DEF RecordsOK, Records, States
  <2> QED BY <1>0, <1>10, <2>2 DEF Finish, Write, Stage, RecordsOK, Supervised, PodsKnown, WordKept, Accounted, Alive, Farm, Final
<1>11. CASE Finished
  BY <1>0, <1>11, <1>n DEF Finished, Publish, Torn, RecordsOK, Supervised, PodsKnown, WordKept, Accounted, Alive, Farm, Final
<1>12. CASE RenderSweeps
  <2>1. swept' \in BOOLEAN /\ unswept' \in BOOLEAN
    BY <1>0, <1>12, Zenon DEF RenderSweeps, SweepCall, RecordsOK
  <2> QED BY <1>0, <1>12, <2>1 DEF RenderSweeps, SweepCall, RecordsOK, Supervised, PodsKnown, WordKept, Accounted, Alive, Farm, Final
<1>13. CASE Hang
  BY <1>0, <1>13 DEF Hang, RecordsOK, Supervised, PodsKnown, WordKept, Accounted, Alive, Farm, Final
<1>14. CASE Arrive
  <2>1. swept' \in BOOLEAN /\ unswept' \in BOOLEAN
    BY <1>0, <1>14, Zenon DEF Arrive, RecordsOK
  <2> QED BY <1>0, <1>14, <2>1 DEF Arrive, RecordsOK, Supervised, PodsKnown, WordKept, Accounted, Alive, Farm, Final
<1> QED BY <1>1, <1>2, <1>3, <1>4, <1>5, <1>6, <1>7, <1>8, <1>9, <1>10, <1>11, <1>12, <1>13, <1>14 DEF RenderStep

\* host_cook and its watchdog move, the clock runs, or the pod is lost or restarted.
LEMMA HostKeeps ==
  ASSUME JobsInv, HostStep \/ DogStep \/ Clock \/ LosePod \/ Restart
  PROVE  JobsInv'
<1> USE DEF JobsInv, Goto, HostAt, PodGone, resultVars, renderVars, sessionVars, cookVars
<1>0. RecordsOK /\ Supervised /\ PodsKnown /\ WordKept /\ "package" \in Files /\ "home" \in Files
  BY DEF Files
<1>n. None \in Records /\ ~ Final(None)
  BY DEF None, Records, States, Final, FinalStates
<1>1. CASE StartCook
  BY <1>0, <1>1 DEF StartCook, RecordsOK, Supervised, PodsKnown, WordKept, Accounted, Alive, Farm, Final
<1>2. CASE CookReturned
  BY <1>0, <1>2 DEF CookReturned, RecordsOK, Supervised, PodsKnown, WordKept, Accounted, Alive, Farm, Final
<1>3. CASE LosePatience
  BY <1>0, <1>3 DEF LosePatience, RecordsOK, Supervised, PodsKnown, WordKept, Accounted, Alive, Farm, Final
<1>4. CASE KillGroup
  BY <1>0, <1>4 DEF KillGroup, RecordsOK, Supervised, PodsKnown, WordKept, Accounted, Alive, Farm, Final
<1>5. CASE RecordFailure
  <2>1. disk' \in [Files -> Records] /\ disk'["home"] = disk["home"]
        /\ (Final(disk["package"]) => disk'["package"] = disk["package"])
    <3> DEFINE r(st) == [disk["package"] EXCEPT !.state = st]
    <3>1. r("canceled") \in Records /\ r("failed") \in Records
      BY <1>0 DEF RecordsOK, Records, States, FinalStates
    <3>2. disk' = disk \/ (~ Final(disk["package"])
                          /\ \E st \in {"canceled", "failed"} : disk' = [disk EXCEPT !["package"] = r(st)])
      BY <1>0, <1>5 DEF RecordFailure, RecordsOK
    <3> HIDE DEF r
    <3> QED BY <1>0, <3>1, <3>2 DEF RecordsOK
  <2>2. tmp' \in [Files -> Records] /\ tmp'["home"] = tmp["home"]
    BY <1>0, <1>n, <1>5 DEF RecordFailure, RecordsOK
  <2> QED BY <1>0, <1>5, <2>1, <2>2 DEF RecordFailure, RecordsOK, Supervised, PodsKnown, WordKept, Accounted, Alive, Farm, Final
<1>6. CASE HostSweeps
  <2>1. swept' \in BOOLEAN /\ unswept' \in BOOLEAN
    BY <1>0, <1>6, Zenon DEF HostSweeps, SweepCall, RecordsOK
  <2> QED BY <1>0, <1>6, <2>1 DEF HostSweeps, SweepCall, RecordsOK, Supervised, PodsKnown, WordKept, Accounted, Alive, Farm, Final
<1>7. CASE HostTerminates
  BY <1>0, <1>7 DEF HostTerminates, RecordsOK, Supervised, PodsKnown, WordKept, Accounted, Alive, Farm, Final
<1>8. CASE WatchdogSweeps
  <2>1. swept' \in BOOLEAN /\ unswept' \in BOOLEAN
    BY <1>0, <1>8, Zenon DEF WatchdogSweeps, SweepCall, RecordsOK
  <2> QED BY <1>0, <1>8, <2>1 DEF WatchdogSweeps, SweepCall, RecordsOK, Supervised, PodsKnown, WordKept, Accounted, Alive, Farm, Final
<1>9. CASE WatchdogTerminates
  BY <1>0, <1>9 DEF WatchdogTerminates, RecordsOK, Supervised, PodsKnown, WordKept, Accounted, Alive, Farm, Final
<1>10. CASE Clock
  BY <1>0, <1>10 DEF Clock, RecordsOK, Supervised, PodsKnown, WordKept, Accounted, Alive, Farm, Final
<1>11. CASE LosePod
  BY <1>0, <1>11 DEF LosePod, RecordsOK, Supervised, PodsKnown, WordKept, Accounted, Alive, Farm, Final
<1>12. CASE Restart
  <2>1. run' \in Nat \ {0, 1} /\ mine' \in Records
    BY <1>0, <1>n, <1>12 DEF Restart, RecordsOK
  <2> QED BY <1>0, <1>12, <2>1 DEF Restart, RecordsOK, Supervised, PodsKnown, WordKept, Accounted, Alive, Farm, Final
<1> QED BY <1>1, <1>2, <1>3, <1>4, <1>5, <1>6, <1>7, <1>8, <1>9, <1>10, <1>11, <1>12 DEF HostStep, DogStep

\* A session moves.
LEMMA SessionKeeps ==
  ASSUME JobsInv, NEW c \in Sessions, SessionStep(c)
  PROVE  JobsInv'
<1> USE DEF JobsInv, Goto, Step, Holds, At, NotSession, resultVars, renderVars, hostVars, cookVars
<1>0. RecordsOK /\ Supervised /\ PodsKnown /\ WordKept /\ "package" \in Files /\ "home" \in Files
  BY DEF Files
<1>n. None \in Records /\ ~ Final(None) /\ Submitted \in Records /\ ~ Final(Submitted)
  BY DEF None, Submitted, Records, States, Final, FinalStates
<1>1. CASE Launch(c)
  <2>1. Farm => render' = render
    BY <1>1 DEF Launch
  <2> QED BY <1>0, <1>1, <2>1 DEF Launch, RecordsOK, Supervised, PodsKnown, WordKept, Accounted, Alive, Farm, Final
\* The session takes a record: what is final in it is the word of the package.
<1>2. ASSUME NEW r \in Records, copy' = [copy EXCEPT ![c] = r], UNCHANGED <<NotSession, disk, tmp>>,
             Farm /\ run = 1 /\ Final(r) => r.state = disk["package"].state
      PROVE  JobsInv'
  BY <1>0, <1>2 DEF RecordsOK, Supervised, PodsKnown, WordKept, Accounted, Alive, Farm, Final
<1>3. ASSUME copy' = copy, UNCHANGED <<NotSession, disk, tmp>>
      PROVE  JobsInv'
  BY <1>0, <1>3 DEF RecordsOK, Supervised, PodsKnown, WordKept, Accounted, Alive, Farm, Final
<1>4. CASE Launched(c)
  BY <1>0, <1>n, <1>2, <1>4 DEF Launched, RecordsOK
<1>5. CASE Refresh(c) \/ Cancel(c) \/ Fetch(c)
  BY <1>0, <1>2, <1>5 DEF Refresh, Cancel, Fetch, Call, RecordsOK, WordKept
<1>6. CASE ReadRemote(c)
  <2> DEFINE r == [disk["package"] EXCEPT !.delivered = copy[c].delivered]
  <2>1. r \in Records /\ r.state = disk["package"].state
    BY <1>0 DEF RecordsOK, Records
  <2> HIDE DEF r
  <2>2. copy' = [copy EXCEPT ![c] = r]
    BY <1>6 DEF ReadRemote, Merged, r
  <2> QED BY <1>2, <1>6, <2>1, <2>2 DEF ReadRemote
<1>7. CASE Touch(c)
  <2> DEFINE r == [copy[c] EXCEPT !.state = "cancel_requested"]
  <2>1. r \in Records /\ ~ Final(r)
    BY <1>0 DEF RecordsOK, Records, States, Final, FinalStates
  <2> HIDE DEF r
  <2>2. copy' = [copy EXCEPT ![c] = r] \/ copy' = copy
    BY <1>7 DEF Touch, r
  <2> QED BY <1>2, <1>3, <1>7, <2>1, <2>2 DEF Touch
<1>8. CASE Save(c)
  <2>1. tmp' = [tmp EXCEPT !["home"] = copy[c]] /\ copy[c] \in Records /\ UNCHANGED <<NotSession, disk, copy>>
    BY <1>0, <1>8 DEF Save, Stage, RecordsOK
  <2> QED BY <1>0, <2>1 DEF RecordsOK, Supervised, PodsKnown, WordKept, Accounted, Alive, Farm, Final
<1>9. CASE Saved(c)
  <2>1. /\ disk' = disk \/ disk' = [disk EXCEPT !["home"] = tmp["home"]]
        /\ tmp' = tmp \/ tmp' = [tmp EXCEPT !["home"] = None]
        /\ UNCHANGED <<NotSession, copy>>
    BY <1>9 DEF Saved, Publish, Torn
  <2> QED BY <1>0, <1>n, <2>1 DEF RecordsOK, Supervised, PodsKnown, WordKept, Accounted, Alive, Farm, Final
<1>10. CASE GiveUp(c)
  BY <1>3, <1>10 DEF GiveUp, OnlyPc
<1>11. CASE Transfer(c)
  BY <1>3, <1>11 DEF Transfer
<1>12. CASE Delivered(c)
  <2> DEFINE r == [disk["home"] EXCEPT !.delivered = TRUE]
  <2>1. r \in Records /\ r.state = disk["home"].state
    BY <1>0 DEF RecordsOK, Records
  <2> HIDE DEF r
  <2>2. copy' = [copy EXCEPT ![c] = r]
    BY <1>12 DEF Delivered, r
  <2> QED BY <1>0, <1>2, <1>12, <2>1, <2>2 DEF Delivered, WordKept, Final
<1> QED BY <1>1, <1>4, <1>5, <1>6, <1>7, <1>8, <1>9, <1>10, <1>11, <1>12 DEF SessionStep

LEMMA NextJobs == JobsInv /\ [Next]_jobsVars => JobsInv'
<1> SUFFICES ASSUME JobsInv, [Next]_jobsVars PROVE JobsInv'
  OBVIOUS
<1>1. CASE RenderStep \/ Hang \/ Arrive
  BY <1>1, RenderKeeps
<1>2. CASE HostStep \/ DogStep \/ Clock \/ LosePod \/ Restart
  BY <1>2, HostKeeps
<1>3. CASE \E c \in Sessions : SessionStep(c)
  BY <1>3, SessionKeeps
<1>4. CASE UNCHANGED jobsVars
  BY <1>4 DEF jobsVars, renderVars, resultVars, hostVars, sessionVars, cookVars, JobsInv, RecordsOK, Supervised, PodsKnown, WordKept, Accounted, Alive, Farm, Final
<1> QED BY <1>1, <1>2, <1>3, <1>4 DEF Next

\* What the processes of a job know of each other holds in every state.
THEOREM JobsInvariant == Spec => []JobsInv
<1>1. Init => JobsInv
  BY InitJobs
<1>2. JobsInv /\ [Next]_jobsVars => JobsInv'
  BY NextJobs
<1> QED BY <1>1, <1>2, PTL DEF Spec

\* A host pod that is gone left no render pod but one a sweep could not end.
THEOREM HostLeavesNothing == Spec => []NothingOutlivesHost
<1>1. JobsInv => NothingOutlivesHost
  BY DEF JobsInv, Supervised, PodsKnown, Accounted, NothingOutlivesHost
<1> QED BY <1>1, JobsInvariant, PTL

\* The artist's copy is final only with the word of the package, in the first run.
THEOREM HomeSaysWhatHappened == Spec => []HomeFollowsPackage
<1>1. JobsInv => HomeFollowsPackage
  BY DEF JobsInv, WordKept, HomeFollowsPackage
<1> QED BY <1>1, JobsInvariant, PTL
=============================================================================
