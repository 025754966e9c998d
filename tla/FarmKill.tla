------------------------------ MODULE FarmKill ------------------------------
(***************************************************************************)
(* `rpfarm farm kill` on an account several artists share (cli.py,          *)
(* pods.classify_for_kill).  The command lists pods, asks each over its     *)
(* /health, decides, asks the artist, and terminates one pod after another; *)
(* meanwhile tasks start and end, transfers and ssh sessions come and go.   *)
(*                                                                         *)
(* What a pod can say of itself fades: idle_s counts from the last call to  *)
(* its worker other than /health, busy_idle_s from the last time its        *)
(* sampler saw a transfer or a session.  `called` and `stirred` are "within *)
(* grace_s".  A cook that has nothing to submit asks its pods for /health   *)
(* only, so the pods it keeps between tasks fade like any other.            *)
(***************************************************************************)
EXTENDS Integers, FiniteSets

CONSTANTS
  Pods,
  Artists,
  Me,        \* cfg.user
  Longer,    \* artists whose names begin with Me and a hyphen
  MaxKills   \* bound on runs of the command

ASSUME FarmKillAssumption == Me \in Artists /\ Longer \subseteq Artists \ {Me} /\ MaxKills \in Nat

VARIABLES
  fleet,     \* per pod: what it is and what it does
  kill,      \* the command
  quiet,     \* history: pods that did nothing, for nobody, when they were asked
  kills

killVars == <<fleet, kill, quiet, kills>>

NoKill == [at |-> "idle", scope |-> "none", everyone |-> FALSE, running |-> FALSE,
           todo |-> {}, doom |-> {}, lifted |-> {}]

\* what a pod does that must not be interrupted
Used(p)     == fleet[p].work # "none"
Outside(p)  == fleet[p].work \in {"transfer", "between files", "ssh"}

-----------------------------------------------------------------------------
(* pods.py                                                                  *)

\* pod_owner: the environment, or else the name up to its first hyphen
Owner(p) == IF fleet[p].tagged \/ fleet[p].sync \/ fleet[p].owner \notin Longer THEN fleet[p].owner ELSE Me

\* list_pods takes a prefix
Listed(scope, p) ==
  /\ fleet[p].there
  /\ CASE scope = "all"      -> ~fleet[p].sync /\ fleet[p].owner \in {Me} \cup Longer
       [] scope = "sync"     -> fleet[p].sync /\ fleet[p].owner = Me
       [] scope = "everyone" -> TRUE

\* busy and idle_s alone
SafeByHttp(p) == fleet[p].work # "task" /\ ~fleet[p].called

\* nothing in any channel, and every channel reported
Safe(p) ==
  /\ fleet[p].work # "task" /\ fleet[p].work \notin {"transfer", "ssh"}
  /\ ~fleet[p].stirred /\ fleet[p].reports /\ ~fleet[p].called

\* classify_for_kill: the owner first, and who does not answer is left alone.  Its
\* "unknown" for a pod that does not report is one with "busy" here: the same flag lifts both
Classify(p) ==
  IF Owner(p) # Me THEN "foreign" ELSE IF ~fleet[p].answers THEN "unknown"
  ELSE IF Safe(p) THEN "safe" ELSE "busy"

-----------------------------------------------------------------------------
(* cmd_farm_kill                                                            *)

PodsStay == UNCHANGED fleet

List(scope, running) ==
  /\ kill.at = "idle" /\ kills < MaxKills /\ kills' = kills + 1
  /\ kill' = [NoKill EXCEPT !.at = "ask", !.scope = scope, !.everyone = scope = "everyone", !.running = running,
                            !.todo = {p \in Pods : Listed(scope, p)}]
  /\ quiet' = {} /\ PodsStay

\* --pod: the same treatment, and one flag lifts all of it
ListOne(p, running) ==
  /\ kill.at = "idle" /\ kills < MaxKills /\ kills' = kills + 1 /\ fleet[p].there
  /\ kill' = [NoKill EXCEPT !.at = "ask", !.scope = "pod", !.everyone = running, !.running = running, !.todo = {p}]
  /\ quiet' = {} /\ PodsStay

Taken(p) ==
  LET verdict == Classify(p)
  IN  \/ verdict = "safe"
      \/ verdict = "foreign" /\ kill.everyone
      \/ verdict \in {"busy", "unknown"} /\ kill.running

\* _probe_pod and the verdict; one that is gone does not answer
Ask(p) ==
  /\ kill.at = "ask" /\ p \in kill.todo
  /\ kill' = [kill EXCEPT !.todo = @ \ {p}, !.doom = IF Taken(p) THEN @ \cup {p} ELSE @,
                          !.lifted = IF Used(p) THEN @ \cup {p} ELSE @,
                          !.at = IF kill.todo # {p} THEN "ask" ELSE "confirm"]
  /\ quiet' = IF Used(p) \/ fleet[p].stirred \/ fleet[p].called THEN quiet ELSE quiet \cup {p}
  /\ PodsStay /\ UNCHANGED kills

\* --yes, or the artist's; nothing risky is not asked about
Confirm ==
  /\ kill.at = "confirm" /\ kill.todo = {} /\ kill' = [kill EXCEPT !.at = "kill"]
  /\ PodsStay /\ UNCHANGED <<quiet, kills>>

Terminate(p) ==
  /\ kill.at = "kill" /\ p \in kill.doom
  /\ kill' = [kill EXCEPT !.doom = @ \ {p}]
  /\ fleet' = [fleet EXCEPT ![p] = [@ EXCEPT !.there = FALSE, !.work = "none"]]
  /\ UNCHANGED <<quiet, kills>>

\* done, cancelled, or RunPod refused one and the rest is not tried
KillEnds == kill.at # "idle" /\ kill' = NoKill /\ quiet' = {} /\ PodsStay /\ UNCHANGED kills

-----------------------------------------------------------------------------
(* The pods                                                                 *)

Becomes(p, changes) ==
  /\ fleet[p].there
  /\ fleet' = [fleet EXCEPT ![p] = [f \in DOMAIN fleet[p] |-> IF f \in DOMAIN changes THEN changes[f] ELSE fleet[p][f]]]
  /\ UNCHANGED <<kill, quiet, kills>>

\* any request but /health: a scheduler submits, asks for a task, kills one
Call(p)   == Becomes(p, [called |-> TRUE])
TaskOn(p) == fleet[p].work = "none" /\ Becomes(p, [work |-> "task", called |-> TRUE])
\* rclone over SFTP and ssh never call the worker, and rclone has instants without a socket
ConnectTo(p, how) == fleet[p].work = "none" /\ Becomes(p, [work |-> how, stirred |-> TRUE])
NextFile(p)       == fleet[p].work = "transfer" /\ Becomes(p, [work |-> "between files"])
SameTransfer(p)   == fleet[p].work = "between files" /\ Becomes(p, [work |-> "transfer", stirred |-> TRUE])
Finish(p)         == fleet[p].work # "none" /\ Becomes(p, [work |-> "none"])

\* grace_s goes by; no instant between two files is that long
Fade(p) ==
  /\ fleet[p].work # "between files"
  /\ Becomes(p, [called |-> FALSE, stirred |-> fleet[p].stirred /\ Outside(p)])

Reach(p, answers) == Becomes(p, [answers |-> answers])

-----------------------------------------------------------------------------

KillInit ==
  /\ fleet \in [Pods -> {[there |-> TRUE, owner |-> o, tagged |-> t, sync |-> s, reports |-> r, answers |-> TRUE,
                          work |-> "none", called |-> FALSE, stirred |-> FALSE]
                         : o \in Artists, t, s, r \in BOOLEAN}]
  /\ kill = NoKill /\ quiet = {} /\ kills = 0

KillNext ==
  \/ \E running \in BOOLEAN :
       \/ \E scope \in {"all", "sync", "everyone"} : List(scope, running)
       \/ \E p \in Pods : ListOne(p, running)
  \/ Confirm \/ KillEnds
  \/ \E p \in Pods :
       \/ Ask(p) \/ Terminate(p)
       \/ Call(p) \/ TaskOn(p) \/ NextFile(p) \/ SameTransfer(p) \/ Finish(p) \/ Fade(p)
       \/ \E how \in {"transfer", "ssh"} : ConnectTo(p, how)
       \/ \E answers \in BOOLEAN : Reach(p, answers)

KillSpec == KillInit /\ [][KillNext]_killVars

-----------------------------------------------------------------------------
(* Properties                                                               *)

Killed(p) == fleet[p].there /\ ~fleet'[p].there

\* Without an override, a pod that is terminated was at nothing when it was asked: no
\* task, no session, no transfer, none caught between two files, and nothing of the
\* kind, and no request, for the grace (classify_for_kill, written from the incident in
\* which a rendering pod was cleared).  What starts between the answer and the call is
\* lost, and so is the pod a cook keeps idle for longer than the grace.
KillSparesWork == [][\A p \in Pods : Killed(p) /\ ~kill.everyone /\ ~kill.running => p \in quiet]_killVars

\* No other artist's pod goes without --everyone or a pod named with --even-if-running,
\* whatever else is lifted, unless it carries no owner and its name reads as mine.
OthersKeepTheirs ==
  [][\A p \in Pods : Killed(p) /\ ~kill.everyone =>
       fleet[p].owner = Me \/ (fleet[p].owner \in Longer /\ ~fleet[p].tagged)]_killVars

\* "--even-if-running lifts the busy guard, --everyone lifts the ownership guard ...
\* neither is implied by anything else": a pod found at work needs --even-if-running.
BusyNeedsItsFlag == [][\A p \in Pods : Killed(p) /\ p \in kill.lifted => kill.running]_killVars
=============================================================================
