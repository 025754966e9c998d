------------------------------- MODULE Volume -------------------------------
(***************************************************************************)
(* Projects on the shared volume: renders write outputs, downloads fetch   *)
(* them, and the commands of pod/housekeeping.py, each a process of its    *)
(* own, record use in .rpfarm/index.json and delete what is not needed.    *)
(*                                                                         *)
(* The index is rewritten in place under a file lock, which readers do not *)
(* take: while a writer is between truncate and dump they find nothing.    *)
(* A stamp is a moment taken before the lock is asked for, and the clock   *)
(* goes on; so a stamp may be written over a later one.                    *)
(* An output counts as pending when it is newer than the last download of  *)
(* its project, so a download of one output answers for all that are older.*)
(* OutputFiles are files directly in an output directory (render, geo).    *)
(***************************************************************************)
EXTENDS Integers, FiniteSets

CONSTANTS
  Projects, OutputFiles,
  Commands,           \* processes on the sync pod
  NoProcess,
  OlderDays,          \* prune --older-days
  MaxTime             \* bound on the clock

ASSUME VolumeAssumption ==
  NoProcess \notin Commands /\ OlderDays \in Nat \ {0} /\ MaxTime \in Nat

Never   == -1
Times   == 0..MaxTime
Stamps  == {"cook", "upload", "download"}
Writes  == Stamps \union {"sizes", "removed"}     \* what is done to the index
Removes == {"rm", "rm_force", "rm_dir", "prune"}
NoEntry == [used |-> Never, download |-> Never]

VARIABLES
  now,
  made,          \* the mtime of each project directory; Never if there is none
  out,           \* when each output was written; Never if it is not there
  got,           \* outputs of which somebody has the last version
  index,         \* the entries of index.json
  writer,        \* the command between truncate and dump, which has the lock
  cmd,           \* what each command does and has read
  told,          \* history: the last_used that was written last, of each project
  fetched,       \* history: when each project was last downloaded
  lost           \* history: how outputs nobody has were destroyed

fileVars   == <<made, out, got>>
indexVars  == <<index, writer>>
pastVars   == <<told, fetched, lost>>
volumeVars == <<now, fileVars, indexVars, cmd, pastVars>>

NoFiles == [f \in OutputFiles |-> Never]
Empty   == [p \in Projects |-> NoEntry]
Idle    == [pc |-> "idle"]
IsAt(k, label) == cmd[k].pc = label
Files(p)   == {f \in OutputFiles : out[p][f] # Never}
Present(p) == made[p] # Never

VolumeInit ==
  /\ now = 0 /\ made = [p \in Projects |-> 0]
  /\ out = [p \in Projects |-> NoFiles] /\ got = [p \in Projects |-> {}]
  /\ index = Empty /\ writer = NoProcess
  /\ cmd = [k \in Commands |-> Idle]
  /\ told = [p \in Projects |-> Never] /\ fetched = [p \in Projects |-> Never] /\ lost = {}

Become(k, r) == cmd' = [cmd EXCEPT ![k] = r]

-----------------------------------------------------------------------------
(* _with_index_lock and what runs under it                                  *)

\* _load_index takes no lock
IndexRead == IF writer = NoProcess THEN index ELSE Empty

\* the next time this command writes the index
Rewrite(p, op) == [pc |-> "stamp", op |-> op, p |-> p, at |-> now, view |-> Empty]

\* (the lock is not waited for)
BeginWriteUnlocked(k) ==
  /\ IsAt(k, "stamp")
  /\ writer' = k
  /\ cmd' = [cmd EXCEPT ![k].pc = "writing", ![k].view = index]
  /\ UNCHANGED <<now, fileVars, index, pastVars>>

BeginWrite(k) ==
  /\ IsAt(k, "stamp") /\ writer = NoProcess
  /\ writer' = k
  /\ cmd' = [cmd EXCEPT ![k].pc = "writing", ![k].view = index]
  /\ UNCHANGED <<now, fileVars, index, pastVars>>

\* the entry a command leaves: _update_index, _remove_index_entry, _save_index
NewEntry(c) ==
  CASE c.op = "download"         -> [used |-> c.at, download |-> c.at]
    [] c.op \in {"cook", "upload"} -> [c.view[c.p] EXCEPT !.used = c.at]
    [] c.op = "sizes"            -> c.view[c.p]
    [] OTHER                     -> NoEntry

\* after an upload the sizes of the project are no longer known
EndWrite(k) ==
  LET c == cmd[k] IN
  /\ IsAt(k, "writing")
  /\ index' = [c.view EXCEPT ![c.p] = NewEntry(c)]
  /\ writer' = NoProcess
  /\ told' = IF c.op = "sizes" THEN told
             ELSE [told EXCEPT ![c.p] = IF c.op \in Stamps THEN c.at ELSE Never]
  /\ Become(k, IF c.op = "upload" THEN Rewrite(c.p, "sizes") ELSE Idle)
  /\ UNCHANGED <<now, fileVars, fetched, lost>>

\* the command is killed, or the pod ends: what a writer leaves behind is no
\* JSON, and readers and writers after it start from nothing
Die(k) ==
  /\ ~ IsAt(k, "idle")
  /\ IF writer = k THEN index' = Empty /\ writer' = NoProcess ELSE UNCHANGED indexVars
  /\ Become(k, Idle)
  /\ UNCHANGED <<now, fileVars, pastVars>>

\* cmd_touch takes the moment first: what happens after it is later
Touch(k, p, op) ==
  /\ now < MaxTime /\ now' = now + 1
  /\ Become(k, Rewrite(p, op))
  /\ UNCHANGED <<indexVars, told, lost>>

\* at the start of a cook
CookBegins(k, p) ==
  /\ IsAt(k, "idle") /\ Touch(k, p, "cook")
  /\ UNCHANGED <<fileVars, fetched>>

\* after an upload, which makes the directory
Uploaded(k, p) ==
  /\ IsAt(k, "idle") /\ Touch(k, p, "upload")
  /\ made' = IF Present(p) THEN made ELSE [made EXCEPT ![p] = now]
  /\ UNCHANGED <<out, got, fetched>>

\* ls and disk-usage measure sizes and keep them in the index
SizesMeasured(k, p) ==
  /\ IsAt(k, "idle")
  /\ Become(k, Rewrite(p, "sizes"))
  /\ UNCHANGED <<now, fileVars, indexVars, pastVars>>

-----------------------------------------------------------------------------
(* Outputs come and are fetched                                             *)

Age ==
  /\ now < MaxTime /\ now' = now + 1
  /\ UNCHANGED <<fileVars, indexVars, cmd, pastVars>>

\* a render writes an output, for the first time or again
Write(p, f) ==
  /\ Present(p)
  /\ out' = [out EXCEPT ![p][f] = now] /\ got' = [got EXCEPT ![p] = @ \ {f}]
  /\ cmd' = [k \in Commands |-> IF IsAt(k, "delete") /\ cmd[k].p = p
                                THEN [cmd[k] EXCEPT !.late = @ \union {f}] ELSE cmd[k]]
  /\ UNCHANGED <<now, made, indexVars, pastVars>>

\* _transfer_download_item: the outputs of a work item are copied
Fetch(k, p) ==
  /\ IsAt(k, "idle")
  /\ \E F \in SUBSET Files(p) \ {{}} :
       /\ got' = [got EXCEPT ![p] = @ \union F]
       /\ Become(k, [pc |-> "fetched", p |-> p])
  /\ UNCHANGED <<now, made, out, indexVars, pastVars>>

\* then the whole project is stamped
FetchDone(k) ==
  LET p == cmd[k].p IN
  /\ IsAt(k, "fetched") /\ Touch(k, p, "download")
  /\ fetched' = [fetched EXCEPT ![p] = now]
  /\ UNCHANGED fileVars

-----------------------------------------------------------------------------
(* Deletion: cmd_rm, cmd_rm_paths and cmd_prune                             *)

OpenIndex(k, p, op) ==
  /\ IsAt(k, "idle") /\ Present(p)
  /\ Become(k, [pc |-> "look", op |-> op, p |-> p, at |-> now, view |-> IndexRead[p], told |-> told[p]])
  /\ UNCHANGED <<now, fileVars, indexVars, pastVars>>

\* (a project the index does not know was never downloaded, and is not asked about)
PendingIfKnown(c) ==
  c.op # "rm_dir" /\ c.view.download # Never /\ \E f \in Files(c.p) : out[c.p][f] > c.view.download

\* _outputs_pending; asked for the output directory itself it finds none,
\* because the names it looks for are those below the directory it is given
Pending(c) == c.op # "rm_dir" /\ \E f \in Files(c.p) : out[c.p][f] > c.view.download

\* last_used, or else the mtime of the directory
OldEnough(c) ==
  IF c.view.used # Never THEN c.at - c.view.used >= OlderDays
  ELSE Present(c.p) /\ c.at - made[c.p] >= OlderDays

\* what the command has seen decides; its outputs are measured before they go
Decide(k) ==
  LET c == cmd[k] IN
  /\ IsAt(k, "look")
  /\ Become(k, IF c.op = "rm_force" \/ (~ Pending(c) /\ (c.op = "prune" => OldEnough(c)))
               THEN [pc |-> "delete", op |-> c.op, p |-> c.p, late |-> {},
                     recent |-> c.told # Never /\ c.at - c.told < OlderDays]
               ELSE Idle)
  /\ UNCHANGED <<now, fileVars, indexVars, pastVars>>

\* how the loss of an output nobody has came about
Reason(c, f) ==
  IF c.op = "rm_force" THEN "force"
  ELSE IF f \in c.late THEN "late"
  ELSE IF c.op = "rm_dir" THEN "directory"
  ELSE IF out[c.p][f] =< fetched[c.p] THEN "stamped" ELSE "new"

\* rmtree; rm and rm-paths fail if somebody was faster, prune goes on
Delete(k) ==
  LET c == cmd[k] IN
  /\ IsAt(k, "delete")
  /\ lost' = lost \union {Reason(c, f) : f \in Files(c.p) \ got[c.p]}
  /\ out' = [out EXCEPT ![c.p] = NoFiles] /\ got' = [got EXCEPT ![c.p] = {}]
  /\ made' = IF c.op = "rm_dir" THEN made ELSE [made EXCEPT ![c.p] = Never]
  /\ Become(k, IF ~ Present(c.p) /\ c.op # "prune" THEN Idle
               ELSE Rewrite(c.p, IF c.op = "rm_dir" THEN "sizes" ELSE "removed"))
  /\ UNCHANGED <<now, indexVars, told, fetched>>

VolumeNext ==
  \/ Age
  \/ \E p \in Projects, f \in OutputFiles : Write(p, f)
  \/ \E k \in Commands, p \in Projects :
        \/ CookBegins(k, p) \/ Uploaded(k, p) \/ SizesMeasured(k, p) \/ Fetch(k, p)
        \/ \E op \in Removes : OpenIndex(k, p, op)
  \/ \E k \in Commands : FetchDone(k) \/ BeginWrite(k) \/ EndWrite(k) \/ Die(k)
                         \/ Decide(k) \/ Delete(k)

VolumeSpec == VolumeInit /\ [][VolumeNext]_volumeVars

-----------------------------------------------------------------------------
VolumeTypeOK ==
  /\ now \in Times /\ writer \in Commands \union {NoProcess}
  /\ made \in [Projects -> Times \union {Never}]
  /\ out \in [Projects -> [OutputFiles -> Times \union {Never}]]
  /\ \A p \in Projects : got[p] \subseteq Files(p)
  /\ index \in [Projects -> [used : Times \union {Never}, download : Times \union {Never}]]
  /\ \A p \in Projects : index[p].used = Never => index[p].download = Never
  /\ \A k \in Commands : cmd[k].pc \in {"idle", "fetched", "stamp", "writing", "look", "delete"}
  /\ {told, fetched} \subseteq [Projects -> Times \union {Never}]
  /\ lost \subseteq {"force", "late", "directory", "stamped", "new"}

\* What rm, rm-paths on a project and prune read may be torn by a writer, lost
\* with one, removed with the project or set back by an older stamp: it never
\* makes them delete, without force, an output that was there when they looked
\* and is newer than every download of its project (_outputs_pending).
NewOutputsAreKept == "new" \notin lost

\* No output that nobody has downloaded is destroyed without force by a
\* command that saw it (cmd_rm_paths: "a path with outputs nobody has
\* downloaded is refused unless force").
UnfetchedOutputsAreKept == lost \subseteq {"force", "late"}

\* prune deletes no project whose use within OlderDays was recorded when it
\* began (cmd_prune: "Projects unused for older_days").
PruneSparesUsed ==
  \A k \in Commands : IsAt(k, "delete") /\ cmd[k].op = "prune" => ~ cmd[k].recent

\* Whoever writes the index leaves in it all that others have recorded: the
\* entries of other projects, and of its own project what it was not asked to
\* change (flock in _with_index_lock: none is overwritten by a copy read before
\* it).  A stamp may be older than the one it replaces.
NoStampIsLost ==
  [][\A k \in Commands : EndWrite(k) =>
       LET c == cmd[k] IN
       /\ \A p \in Projects \ {c.p} : index'[p] = index[p]
       /\ c.op \in {"cook", "upload", "sizes"} => index'[c.p].download = index[c.p].download
       /\ c.op = "sizes" => index'[c.p].used = index[c.p].used]_volumeVars
=============================================================================
