----------------------------- MODULE CommandLine -----------------------------
(***************************************************************************)
(* The commands of `rpfarm` that keep the farm's configuration and the      *)
(* files on the volume (cli.py, config.py).  Every command loads the whole  *)
(* of ~/.rpfarm/config.toml when it starts, works for a while against       *)
(* RunPod and the sync pod, and some save the whole of it again at the end; *)
(* several may run at once, in two terminals, and any may be interrupted.   *)
(*                                                                         *)
(* A deletion runs on the sync pod, behind one of two transports: a request *)
(* whose process group is killed at a ceiling, or a detached run that the   *)
(* command only watches.                                                    *)
(***************************************************************************)
EXTENDS Integers, FiniteSets

CONSTANTS
  Shells,      \* commands running at the same time
  Volumes,     \* network volumes the account may come to hold
  Regions,
  HomeRegion,  \* DEFAULT_DATACENTER
  FirstAccounts, \* what the account may hold at first
  MaxCommands, \* bound on commands
  MaxEdits     \* bound on edits by hand

ASSUME CommandLineAssumption ==
  /\ HomeRegion \in Regions /\ MaxCommands \in Nat /\ MaxEdits \in Nat
  /\ \A a \in FirstAccounts : a \in [DOMAIN a -> Regions] /\ DOMAIN a \subseteq Volumes

NoVolume == "none"

VARIABLES
  config,    \* config.toml
  account,   \* the volumes there are, and the region of each
  template,  \* RunPod has a template
  token,     \* ~/.rpfarm/token is there
  shell,     \* per shell: the command, where it is, what it loaded
  tree,      \* a project or a Houdini on the volume
  commands, edits

cliVars == <<config, account, template, token, shell, tree, commands, edits>>

Kinds == {"setup", "doctor", "xpu", "recreate", "look", "delete"}

\* the fields a command is told apart by; `hand` stands for those only the artist
\* sets, `blind` remembers that the region was kept without an answer
FirstConfig == [there |-> TRUE, volume |-> NoVolume, region |-> HomeRegion, template |-> FALSE, licence |-> FALSE,
                measured |-> 0, xpu |-> 0, hand |-> 0, blind |-> FALSE]
NoConfig  == [FirstConfig EXCEPT !.there = FALSE]
NoCommand == [kind |-> "none", at |-> "idle", cfg |-> FirstConfig, first |-> FALSE, stale |-> FALSE,
              volume |-> NoVolume, licence |-> FALSE, yes |-> FALSE]

\* the commands that save, and the fields each is there for
OwnFields == [setup |-> {"volume", "region", "template", "licence", "blind"}, doctor |-> {"measured"},
              xpu |-> {"xpu"}, recreate |-> {"volume", "blind"}]

-----------------------------------------------------------------------------

Step(s, from, to, changes) ==
  /\ shell[s].at = from
  /\ shell' = [shell EXCEPT ![s] = [f \in DOMAIN shell[s] |->
                 IF f = "at" THEN to ELSE IF f \in DOMAIN changes THEN changes[f] ELSE shell[s][f]]]
Loaded(s, changes) == [f \in DOMAIN shell[s].cfg |->
                         IF f \in DOMAIN changes THEN changes[f] ELSE shell[s].cfg[f]]
With(s, changes) == [cfg |-> Loaded(s, changes)]
None == [x \in {} |-> x]
Counts == UNCHANGED <<commands, edits>>
Remote == UNCHANGED <<account, template, tree>>

\* main: every command loads first; only setup can do without a file.  A deletion
\* without --force or --yes stops here, or becomes a dry run
Start(s, kind, volume, licence, yes) ==
  /\ commands < MaxCommands /\ commands' = commands + 1
  /\ kind # "setup" => volume = NoVolume /\ ~licence
  /\ kind # "delete" => yes
  /\ kind # "setup" => config.there
  /\ Step(s, "idle",
          CASE kind = "setup" -> "volume" [] kind = "recreate" -> "create" [] kind = "doctor" -> "find" [] OTHER -> "token",
          [kind |-> kind, cfg |-> IF kind \in {"look", "delete"} THEN FirstConfig ELSE [config EXCEPT !.there = TRUE],
           first |-> ~config.there, stale |-> FALSE, volume |-> volume, licence |-> licence, yes |-> yes])
  /\ UNCHANGED <<config, token, edits>> /\ Remote

\* a refused command, an error of RunPod, Ctrl-C: nothing is saved
Leave(s) ==
  /\ shell[s].at # "idle" /\ shell' = [shell EXCEPT ![s] = NoCommand]
  /\ UNCHANGED <<config, token>> /\ Counts /\ Remote

\* _resolve_volume_id: the argument, the configured one, the only one, a choice
KeepVolume(s) ==
  LET chosen == IF shell[s].volume # NoVolume THEN shell[s].volume ELSE shell[s].cfg.volume
  IN  /\ chosen # NoVolume
      /\ Step(s, "volume", "region", With(s, [volume |-> chosen]))
      /\ UNCHANGED <<config, token>> /\ Counts /\ Remote

PickVolume(s) ==
  /\ shell[s].volume = NoVolume /\ shell[s].cfg.volume = NoVolume
  /\ \E v \in DOMAIN account : Step(s, "volume", "region", With(s, [volume |-> v]))
  /\ UNCHANGED <<config, token>> /\ Counts /\ Remote

CreateVolume(s, v, region, from, to) ==
  /\ v \notin DOMAIN account
  /\ account' = [w \in DOMAIN account \cup {v} |-> IF w = v THEN region ELSE account[w]]
  /\ Step(s, from, to, With(s, [volume |-> v, blind |-> from = "create" /\ shell[s].cfg.blind]))
  /\ UNCHANGED <<config, token, template, tree>> /\ Counts

FirstVolume(s, v) ==
  /\ shell[s].volume = NoVolume /\ shell[s].cfg.volume = NoVolume /\ DOMAIN account = {}
  /\ CreateVolume(s, v, HomeRegion, "volume", "region")

\* cmd_storage_recreate, in the region of the config
Recreate(s, v) == CreateVolume(s, v, shell[s].cfg.region, "create", "save")

\* a region that was configured stays configured
RegionOfConfig(s) ==
  /\ Step(s, "region", "template", With(s, [blind |-> FALSE]))
  /\ UNCHANGED <<config, token>> /\ Counts /\ Remote

\* the volume's own region is the authority
RegionOfVolume(s) ==
  LET v == shell[s].cfg.volume
  IN  /\ Step(s, "region", "template",
              IF v \in DOMAIN account THEN With(s, [region |-> account[v], blind |-> FALSE])
              ELSE With(s, [blind |-> TRUE]))
      /\ UNCHANGED <<config, token>> /\ Counts /\ Remote

\* ... when RunPod can be asked
RegionUnread(s) ==
  /\ Step(s, "region", "template", With(s, [blind |-> TRUE]))
  /\ UNCHANGED <<config, token>> /\ Counts /\ Remote

\* _resolve_template_id; none is made that could not license a pod
TakeTemplate(s) ==
  LET licence == shell[s].licence \/ shell[s].cfg.licence
  IN  /\ shell[s].cfg.template \/ template \/ licence
      /\ Step(s, "template", "save", With(s, [template |-> TRUE, licence |-> licence]))
      /\ template' = TRUE
      /\ UNCHANGED <<config, token, account, tree>> /\ Counts

\* session_token: the file is looked for, and then written
AfterToken(s) == CASE shell[s].kind \in {"delete", "look"} -> "exec" [] shell[s].kind = "setup" -> "done" [] OTHER -> "measure"

ReadToken(s) ==
  /\ Step(s, "token", IF token THEN AfterToken(s) ELSE "mint", None)
  /\ UNCHANGED <<config, token>> /\ Counts /\ Remote

WriteToken(s) ==
  /\ Step(s, "mint", AfterToken(s), None) /\ token' = TRUE
  /\ UNCHANGED config /\ Counts /\ Remote

\* cmd_doctor: without a running sync pod there is nothing to record
FindSyncPod(s) ==
  /\ Step(s, "find", "token", None)
  /\ UNCHANGED <<config, token>> /\ Counts /\ Remote

\* what doctor learns from the sync pod, and xpu from a render pod of its own
MeasureUplink(s) == shell[s].kind = "doctor" /\ Step(s, "measure", "save", With(s, [measured |-> 1]))

AskXpu(s) ==
  /\ shell[s].kind = "xpu"
  /\ \E x \in 1..2 : Step(s, "measure", "save", With(s, [xpu |-> x]))

Measure(s) ==
  /\ MeasureUplink(s) \/ AskXpu(s)
  /\ UNCHANGED <<config, token>> /\ Counts /\ Remote

\* a first configuration is built from the fields setup resolved
Fresh(s) == [FirstConfig EXCEPT !.volume = shell[s].cfg.volume, !.region = shell[s].cfg.region,
                                !.template = shell[s].cfg.template, !.licence = shell[s].cfg.licence,
                                !.blind = shell[s].cfg.blind]

\* cmd_setup mutates what it loaded, the others one field of it
ToSave(s) ==
  IF shell[s].first THEN Fresh(s) ELSE shell[s].cfg

\* save: the whole file, replaced at once
Save(s) ==
  /\ shell[s].at = "save" /\ config' = ToSave(s)
  /\ shell' = [t \in Shells |-> [shell[t] EXCEPT !.at = IF t # s THEN @ ELSE IF shell[s].kind = "setup" THEN "token" ELSE "done",
                                                 !.stale = @ \/ (t # s /\ shell[t].kind \in DOMAIN OwnFields)]]
  /\ UNCHANGED token /\ Counts /\ Remote

EditByHand ==
  /\ config.there /\ edits < MaxEdits /\ edits' = edits + 1
  /\ config' = [config EXCEPT !.hand = edits + 1]
  /\ shell' = [t \in Shells |-> [shell[t] EXCEPT !.stale = shell[t].kind \in DOMAIN OwnFields]]
  /\ UNCHANGED <<token, commands>> /\ Remote

-----------------------------------------------------------------------------
(* The volume                                                               *)

\* _housekeeping_exec: what deletes, or walks the volume, is detached
Synchronous(kind) == kind = "look"

\* a dry run, a listing, or the deletion itself
Exec(s) ==
  /\ Step(s, "exec", "watch", None)
  /\ tree' = IF shell[s].kind = "delete" /\ shell[s].yes /\ tree # "gone" THEN "going" ELSE tree
  /\ UNCHANGED <<config, token, account, template>> /\ Counts

\* shutil.rmtree comes to its end, watched or not
Deleted ==
  /\ tree = "going" /\ tree' = "gone"
  /\ UNCHANGED <<config, account, template, token, shell>> /\ Counts

Answered(s) ==
  /\ Step(s, "watch", "done", None) /\ (shell[s].kind = "delete" /\ shell[s].yes => tree # "going")
  /\ UNCHANGED <<config, token>> /\ Counts /\ Remote

\* the 90 s ceiling kills what a request runs; a watching deadline kills nothing
Deadline(s) ==
  /\ Step(s, "watch", "done", None)
  /\ tree' = IF Synchronous(shell[s].kind) /\ shell[s].kind = "delete" /\ shell[s].yes /\ tree = "going"
               THEN "half" ELSE tree
  /\ UNCHANGED <<config, token, account, template>> /\ Counts

\* uploaded again by the next cook
Restore ==
  /\ tree \in {"gone", "half"} /\ tree' = "whole"
  /\ \A s \in Shells : shell[s].kind # "delete"
  /\ UNCHANGED <<config, account, template, token, shell>> /\ Counts

-----------------------------------------------------------------------------

CliInit ==
  /\ config = NoConfig /\ account \in FirstAccounts
  /\ template \in BOOLEAN /\ token = FALSE /\ shell = [s \in Shells |-> NoCommand]
  /\ tree = "whole" /\ commands = 0 /\ edits = 0

CliNext ==
  \/ \E s \in Shells :
       \/ \E kind \in Kinds, v \in Volumes \cup {NoVolume}, licence, yes \in BOOLEAN : Start(s, kind, v, licence, yes)
       \/ Leave(s) \/ KeepVolume(s) \/ PickVolume(s)
       \/ \E v \in Volumes : FirstVolume(s, v) \/ Recreate(s, v)
       \/ RegionOfVolume(s) \/ RegionUnread(s) \/ TakeTemplate(s)
       \/ ReadToken(s) \/ WriteToken(s) \/ FindSyncPod(s) \/ Measure(s) \/ Save(s)
       \/ Exec(s) \/ Answered(s) \/ Deadline(s)
  \/ EditByHand \/ Deleted \/ Restore

CliSpec == CliInit /\ [][CliNext]_cliVars

-----------------------------------------------------------------------------
(* Properties                                                               *)

\* However setup, recreate, doctor and xpu overlap and overwrite each other, the volume
\* and the region in config.toml belong together (a pod can only mount a volume of its
\* region), unless RunPod did not say where the volume is.
RegionFollowsVolume ==
  config.there /\ ~config.blind => config.volume \in DOMAIN account /\ config.region = account[config.volume]

\* A command changes the fields it is there for and no others (cmd_setup: a rerun must
\* never reset hand-tuned or doctor-written fields), whatever it did in between; unless
\* somebody else wrote the file since it was loaded, and that write is lost.
RerunKeeps ==
  [][\A s \in Shells : shell[s].at = "save" /\ ~shell[s].stale /\ config.there /\ config' # config /\ shell'[s].at # "save" =>
       \A f \in DOMAIN config : config'[f] # config[f] => f \in OwnFields[shell[s].kind]]_cliVars

\* A deletion somebody asked for is finished even when nobody watches it any more; no
\* command leaves a half-deleted tree behind (_housekeeping_exec, final-review finding 3).
DeletesAreWhole == tree # "half"
=============================================================================
