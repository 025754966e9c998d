------------------------------- MODULE Upload -------------------------------
(***************************************************************************)
(* Upload work items: each is a process (rpfarm.package_runner) that        *)
(* compares its files with the farm, sends those that differ, some of them  *)
(* as archives, and has the sync pod unpack these with a detached command,  *)
(* which goes on when the process that asked for it is gone.                *)
(*                                                                         *)
(* The files of a project are edited meanwhile.  All versions of a file    *)
(* have one size, so only the mtime tells them apart; two mtimes are equal  *)
(* here when the code takes them for equal (two seconds).  An mtime of 0 on *)
(* the farm is the moment of unpacking, equal to none.                      *)
(***************************************************************************)
EXTENDS Integers, FiniteSets

CONSTANTS
  LocalFiles, Runners,
  MaxVersion,        \* bound on the versions of a file
  MaxItemFaults      \* bound on failures

ASSUME UploadAssumption == MaxVersion \in Nat \ {0} /\ MaxItemFaults \in Nat

VARIABLES
  local,       \* the version and mtime of each file in $JOB
  farm,        \* what the farm has under the final name
  archive,     \* the version in the archive beside it; 0 if there is none
  run,         \* the work items
  unpack,      \* the unpack command of each work item, on the sync pod
  itemFaults,
  raced,       \* history: files read while they changed, or under an old command
  delivered,   \* history: the version the last successful item left
  stale,       \* history: files skipped though the farm had something else
  resent       \* history: files sent though the farm had them

farmVars    == <<farm, archive>>
historyVars == <<raced, delivered, stale, resent>>
uploadVars  == <<local, farmVars, run, unpack, itemFaults, historyVars>>

Absent  == [ver |-> 0, whole |-> FALSE, mtime |-> 0]
NoItem  == [pc |-> "idle", files |-> {}, todo |-> {},
            staged |-> {}, read |-> [f \in LocalFiles |-> 0], mtime |-> [f \in LocalFiles |-> 0],
            from |-> [f \in LocalFiles |-> 0]]
NoCmd   == [pc |-> "none", left |-> {}, stamp |-> {}, writing |-> {},
            mtime |-> [f \in LocalFiles |-> 0]]
Is(r, label)   == run[r].pc = label
NowAt(r, label) == run' = [run EXCEPT ![r].pc = label]
\* with a post-command or without
ToEnd(r)       == NowAt(r, "post") \/ NowAt(r, "finish")
EndItem(r)     == run' = [run EXCEPT ![r] = NoItem]
ItemFault      == itemFaults < MaxItemFaults /\ itemFaults' = itemFaults + 1
Busy(f)        == \E r \in Runners : unpack[r].pc = "running"
                                     /\ f \in unpack[r].left \union unpack[r].stamp \union unpack[r].writing

UploadInit ==
  /\ local = [f \in LocalFiles |-> [ver |-> 1, mtime |-> 1]]
  /\ farm = [f \in LocalFiles |-> Absent] /\ archive = [f \in LocalFiles |-> 0]
  /\ run = [r \in Runners |-> NoItem] /\ unpack = [r \in Runners |-> NoCmd]
  /\ itemFaults = 0 /\ raced = {} /\ delivered = [f \in LocalFiles |-> 0]
  /\ stale = {} /\ resent = {}

-----------------------------------------------------------------------------
(* The artist                                                               *)

BeingRead(f) == \E r \in Runners : Is(r, "stat") /\ f \in run[r].staged /\ run[r].mtime[f] = 0

\* the file is saved again; quickly, or at once after it was saved
Edit(f) ==
  /\ local[f].ver < MaxVersion
  /\ \E quick \in BOOLEAN :
       /\ local' = [local EXCEPT ![f] = [ver |-> @.ver + 1,
                                         mtime |-> IF quick THEN @.mtime ELSE @.mtime + 1]]
       /\ raced' = IF quick \/ BeingRead(f) \/ Busy(f) THEN raced \union {f} ELSE raced
  /\ UNCHANGED <<farmVars, run, unpack, itemFaults, delivered, stale, resent>>

-----------------------------------------------------------------------------
(* run_upload_item                                                          *)

\* the items of a cook have different files
StartItem(r) ==
  /\ Is(r, "idle") /\ unpack[r].pc # "running"
  /\ \E F \in SUBSET LocalFiles \ {{}} :
       /\ \A q \in Runners : run[q].files \intersect F = {}
       /\ run' = [run EXCEPT ![r] = [NoItem EXCEPT !.pc = "compare", !.files = F,
                                     !.from = [f \in LocalFiles |-> IF f \in F THEN local[f].ver ELSE 0]]]
       /\ unpack' = [unpack EXCEPT ![r] = NoCmd]
       /\ raced' = raced \union {f \in F : Busy(f)}
  /\ UNCHANGED <<local, farmVars, itemFaults, delivered, stale, resent>>

AlreadyBySize(f) == farm[f].whole

\* the size and the mtime of the original, not of the archive it came in
AlreadyOnFarm(f) == farm[f].whole /\ farm[f].mtime = local[f].mtime

\* without a listing everything is sent; nothing to send, and no post-command,
\* ends the item
Compare(r) ==
  /\ Is(r, "compare")
  /\ \E listed \in BOOLEAN :
       LET F == run[r].files
           skipped == IF listed THEN {f \in F : AlreadyOnFarm(f)} ELSE {}
           todo == F \ skipped
       IN  /\ IF listed THEN UNCHANGED itemFaults ELSE ItemFault
           /\ stale' = stale \union {f \in skipped \ raced : farm[f].ver # local[f].ver}
           /\ resent' = resent \union {f \in todo \ raced : listed /\ delivered[f] = local[f].ver}
           /\ \E post \in BOOLEAN :
                run' = [run EXCEPT ![r].todo = todo,
                                   ![r].pc = IF todo = {} /\ ~ post THEN "finish" ELSE "stage"]
  /\ UNCHANGED <<local, farmVars, unpack, raced, delivered>>

\* compress_stage: the files that compress, if the item compresses, are read ...
Stage(r) ==
  /\ Is(r, "stage")
  /\ \E S \in SUBSET run[r].todo :
       run' = [run EXCEPT ![r].pc = "stat", ![r].staged = S,
                          ![r].read = [f \in LocalFiles |-> IF f \in S THEN local[f].ver ELSE 0]]
  /\ UNCHANGED <<local, farmVars, unpack, itemFaults, historyVars>>

\* ... and then asked for their mtime
Stat(r, f) ==
  /\ Is(r, "stat") /\ f \in run[r].staged /\ run[r].mtime[f] = 0
  /\ run' = [run EXCEPT ![r].mtime[f] = local[f].mtime]
  /\ UNCHANGED <<local, farmVars, unpack, itemFaults, historyVars>>

Staged(r) ==
  /\ Is(r, "stat") /\ \A f \in run[r].staged : run[r].mtime[f] # 0
  /\ NowAt(r, "send")
  /\ UNCHANGED <<local, farmVars, unpack, itemFaults, historyVars>>

\* rclone copies the raw half as it is now, the staged half as it was read
Send(r, f) ==
  /\ Is(r, "send") /\ f \in run[r].todo
  /\ IF f \in run[r].staged
     THEN archive' = [archive EXCEPT ![f] = run[r].read[f]] /\ UNCHANGED <<farm, delivered>>
     ELSE /\ farm' = [farm EXCEPT ![f] = [ver |-> local[f].ver, whole |-> TRUE, mtime |-> local[f].mtime]]
          /\ delivered' = [delivered EXCEPT ![f] = 0]
          /\ UNCHANGED archive
  /\ run' = [run EXCEPT ![r].todo = @ \ {f}, ![r].read[f] = 0]
  /\ UNCHANGED <<local, unpack, itemFaults, raced, stale, resent>>

\* the next step once everything is sent
Sent(r) ==
  /\ Is(r, "send") /\ run[r].todo = {}
  /\ IF run[r].staged # {}
     THEN /\ run' = [run EXCEPT ![r].pc = "unpack", ![r].staged = {}, ![r].mtime = NoItem.mtime]
          /\ unpack' = [unpack EXCEPT ![r] = [NoCmd EXCEPT !.pc = "running", !.left = run[r].staged,
                                                     !.mtime = run[r].mtime]]
     ELSE ToEnd(r) /\ UNCHANGED unpack
  /\ UNCHANGED <<local, farmVars, itemFaults, historyVars>>

WatchedAny(r) ==
  /\ Is(r, "unpack") /\ unpack[r].pc # "running"
  /\ ToEnd(r)
  /\ UNCHANGED <<local, farmVars, unpack, itemFaults, historyVars>>

\* _exec_checked
Watched(r) ==
  /\ Is(r, "unpack") /\ unpack[r].pc # "running"
  /\ IF unpack[r].pc # "ok" THEN EndItem(r) ELSE ToEnd(r)
  /\ UNCHANGED <<local, farmVars, unpack, itemFaults, historyVars>>

PostCommand(r) ==
  /\ Is(r, "post")
  /\ \/ NowAt(r, "finish") /\ UNCHANGED itemFaults
     \/ EndItem(r) /\ ItemFault
  /\ UNCHANGED <<local, farmVars, unpack, historyVars>>

\* the stamp of the sync pod and of the project, and the exit code
Finish(r) ==
  /\ Is(r, "finish")
  /\ EndItem(r)
  /\ delivered' = [f \in LocalFiles |-> IF f \in run[r].files THEN farm[f].ver ELSE delivered[f]]
  /\ UNCHANGED <<local, farmVars, unpack, itemFaults, raced, stale, resent>>

\* rclone exits non-zero, the watch ends before the command, a post-command
\* fails, or the cook is cancelled and the process killed
Fail(r) ==
  /\ ~ Is(r, "idle") /\ ItemFault
  /\ EndItem(r)
  /\ UNCHANGED <<local, farmVars, unpack, historyVars>>

-----------------------------------------------------------------------------
(* decompress_command, on the pod                                           *)

Unpacking(r) == unpack[r].pc = "running"

OpenArchive(r, f) ==
  /\ Unpacking(r) /\ f \in unpack[r].left /\ unpack[r].writing = {} /\ archive[f] # 0
  /\ farm' = [farm EXCEPT ![f] = Absent]
  /\ delivered' = [delivered EXCEPT ![f] = 0]
  /\ unpack' = [unpack EXCEPT ![r].left = @ \ {f}, ![r].writing = {f}]
  /\ UNCHANGED <<local, archive, run, itemFaults, raced, stale, resent>>

\* the archive goes, and the file has the time of unpacking
Unpacked(r, f) ==
  /\ Unpacking(r) /\ f \in unpack[r].writing
  /\ farm' = [farm EXCEPT ![f] = [ver |-> archive[f], whole |-> TRUE, mtime |-> 0]]
  /\ archive' = [archive EXCEPT ![f] = 0]
  /\ unpack' = [unpack EXCEPT ![r].writing = {}, ![r].stamp = @ \union {f}]
  /\ UNCHANGED <<local, run, itemFaults, historyVars>>

\* until it gets that of the original
Utime(r, f) ==
  /\ Unpacking(r) /\ f \in unpack[r].stamp
  /\ farm' = [farm EXCEPT ![f].mtime = unpack[r].mtime[f]]
  /\ unpack' = [unpack EXCEPT ![r].stamp = @ \ {f}, ![r].mtime[f] = 0]
  /\ UNCHANGED <<local, archive, run, itemFaults, historyVars>>

CommandEnds(r) ==
  /\ Unpacking(r)
  /\ \/ /\ unpack[r].left \union unpack[r].stamp \union unpack[r].writing = {}
        /\ unpack' = [unpack EXCEPT ![r] = [NoCmd EXCEPT !.pc = "ok"]] /\ UNCHANGED itemFaults
     \/ \* an archive is gone, or the pod
        /\ IF \E f \in unpack[r].left : archive[f] = 0 THEN UNCHANGED itemFaults ELSE ItemFault
        /\ unpack' = [unpack EXCEPT ![r] = [NoCmd EXCEPT !.pc = "lost"]]
  /\ UNCHANGED <<local, farmVars, run, historyVars>>

UploadNext ==
  \/ \E f \in LocalFiles : Edit(f)
  \/ \E r \in Runners : StartItem(r) \/ Compare(r) \/ Stage(r) \/ Staged(r) \/ Sent(r) \/ Watched(r)
                        \/ PostCommand(r) \/ Finish(r) \/ Fail(r) \/ CommandEnds(r)
  \/ \E r \in Runners, f \in LocalFiles : Stat(r, f) \/ Send(r, f) \/ OpenArchive(r, f) \/ Unpacked(r, f)
                                     \/ Utime(r, f)

UploadSpec == UploadInit /\ [][UploadNext]_uploadVars

-----------------------------------------------------------------------------
UploadTypeOK ==
  /\ \A f \in LocalFiles : local[f].ver \in 1..MaxVersion /\ local[f].mtime \in 1..local[f].ver
                      /\ farm[f].ver \in 0..local[f].ver /\ archive[f] \in 0..local[f].ver
  /\ \A r \in Runners :
       /\ run[r].staged \union run[r].todo \subseteq run[r].files
       /\ unpack[r].pc \in {"none", "running", "ok", "lost"}
       /\ \A f \in LocalFiles : run[r].mtime[f] <= local[f].mtime
  /\ itemFaults \in 0..MaxItemFaults

\* A file that an upload takes for already on the farm is there as it is in
\* $JOB, whatever failed, was killed or was edited before; except a file that
\* was saved twice within the tolerance, between its reading and its stat, or
\* under the command of an item that had been killed (already_on_farm).
SkippedIsCurrent == stale = {}

\* A file that an item delivered and nobody edited since is not sent again:
\* the mtime of the original is put back when its archive is unpacked.
NotSentAgain == resent = {}

\* An item reports success, and runs its post-command, only once every file
\* it has is whole on the farm, in a version that is not older than the item.
SuccessIsWhole ==
  \A r \in Runners : run[r].pc \in {"post", "finish"} =>
     \A f \in run[r].files \ raced : farm[f].whole /\ farm[f].ver >= run[r].from[f]
=============================================================================
