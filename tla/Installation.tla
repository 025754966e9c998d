---------------------------- MODULE Installation ----------------------------
(***************************************************************************)
(* How code and node assets get from a checkout into the artist's Houdini. *)
(* `rpfarm setup` copies the package into ~/.rpfarm/pkg and the four assets *)
(* into the preferences, or, where releases are in use, stages an immutable *)
(* release and points the next session at it (releases.install);            *)
(* rebuild_assets.py rebuilds the assets of the checkout and installs them. *)
(* Sessions start, import more modules, cook and end meanwhile, and every   *)
(* installer may die between two steps.                                     *)
(*                                                                         *)
(* The content of the package is a version; an asset is the version it was  *)
(* built against (its baked fingerprint), 0 when it is not there, Unbaked   *)
(* when it carries none.  A root is <<>> (nothing says), <<"copy">>,        *)
(* <<"checkout">> or <<"release", id>>.                                     *)
(***************************************************************************)
EXTENDS Integers, FiniteSets, Sequences

CONSTANTS
  Hdas,        \* HDA_NAMES
  Installers,  \* processes that install
  Sessions,    \* Houdini sessions on this machine
  MaxCode,     \* bound on versions of the checkout
  MaxInstalls, \* bound on installer runs
  FirstEnv     \* the RPFARM_ROOT lines houdini.env may start with

ASSUME InstallationAssumption ==
  /\ MaxCode \in Nat \ {0} /\ MaxInstalls \in Nat
  /\ FirstEnv \subseteq {<<>>, <<"copy">>, <<"checkout">>}

VARIABLES
  code, asset,       \* the checkout: its package, and its asset sources
  copy,              \* ~/.rpfarm/pkg, 0 when it is not there
  releases,          \* ~/.rpfarm/releases: what each identifier holds
  managed,           \* ~/.rpfarm/release.json
  envLine,           \* RPFARM_ROOT in houdini.env
  packageFile,       \* packages/runpodfarm-release.json: a root, and whether its assets
  otls,              \* the assets in the preferences
  ipc, job,          \* per installer: where it is, and what it holds
  session,           \* per session: what it loaded
  cookLock,          \* sessions that hold ~/.rpfarm/locks/cook.lock
  installs,
  dirty              \* history: releases staged while the checkout changed

installVars == <<code, asset, copy, releases, managed, envLine, packageFile, otls, ipc, job,
                 session, cookLock, installs, dirty>>

NoRoot   == <<>>
Copy     == <<"copy">>
Checkout == <<"checkout">>
Release(id) == <<"release", id>>
IsRelease(root) == Len(root) = 2

NoPackageFile == [root |-> NoRoot, otls |-> FALSE]
NoAssets == [h \in Hdas |-> 0]
NoJob    == [kind |-> "none", rel |-> NoRoot, code |-> 0, asset |-> NoAssets, seen |-> NoRoot,
             todo |-> {}, old |-> 0, quiet |-> TRUE]
Down     == [up |-> FALSE, root |-> NoRoot, code |-> 0, nodes |-> NoAssets, cooking |-> FALSE, mixed |-> FALSE]

-----------------------------------------------------------------------------
(* What Houdini does with the files                                         *)

\* ~/.rpfarm/src, where nothing says otherwise, is a link to the copy
CodeAt(root) == CASE root \in {NoRoot, Copy} -> copy
                  [] root = Checkout         -> code
                  [] IsRelease(root)         -> releases[root[2]].code

\* houdini.env overrides what a package file sets
StartRoot  == IF envLine # NoRoot THEN envLine ELSE packageFile.root
StartNodes == IF packageFile.otls THEN releases[packageFile.root[2]].asset ELSE otls

\* no version: what carries it cannot be told from any build
Unbaked == MaxCode + 1

\* the guard in every asset: what it was built against, if it says, is what is loaded
Matches(c, nodes) == c # 0 /\ \A h \in Hdas : nodes[h] \in {c, Unbaked}

\* asset_state: an asset that is not there, or does not say, is not stale
Stale(c, a) == {h \in Hdas : a[h] \notin {0, Unbaked, c}}

-----------------------------------------------------------------------------
(* Installers                                                               *)

At(s, from, to) == ipc[s] = from /\ ipc' = [ipc EXCEPT ![s] = to]
Job(s, changes) == job' = [job EXCEPT ![s] = [f \in DOMAIN job[s] |->
                             IF f \in DOMAIN changes THEN changes[f] ELSE job[s][f]]]
Checkouts == UNCHANGED <<code, asset>>
Homes     == UNCHANGED <<copy, releases, managed>>
Prefs     == UNCHANGED <<envLine, packageFile, otls>>
Others    == UNCHANGED <<session, cookLock, dirty>>

\* setup of an unmanaged home, of a managed one, and rebuild_assets
Begin(s, kind) ==
  /\ installs < MaxInstalls /\ installs' = installs + 1
  /\ kind = "setup" => ~managed
  /\ At(s, "idle", [setup |-> "probe", release |-> "stage", assets |-> "hdas"][kind])
  /\ job' = [t \in Installers |->
               IF t = s THEN [NoJob EXCEPT !.kind = kind, !.code = code, !.todo = Hdas,
                                           !.quiet = \A u \in Installers : ipc[u] = "idle"]
               ELSE [job[t] EXCEPT !.quiet = FALSE]]
  /\ Checkouts /\ Homes /\ Prefs /\ Others

\* stage: nothing stale; a release of this content may be there already
StageStart(s) ==
  LET id == <<code, asset>>
  IN  /\ At(s, "stage", IF Stale(code, asset) # {} THEN "failed"
                        ELSE IF id \in DOMAIN releases THEN "fallback" ELSE "copy")
      /\ Job(s, [rel |-> Release(id)])
      /\ Checkouts /\ Homes /\ Prefs /\ Others /\ UNCHANGED installs

\* an installed bundle that installs itself is not staged again
Reinstall(s, id) ==
  /\ id \in DOMAIN releases /\ At(s, "stage", "fallback") /\ Job(s, [rel |-> Release(id)])
  /\ Checkouts /\ Homes /\ Prefs /\ Others /\ UNCHANGED installs

\* the release grows where it will stay
StageInPlace(s) ==
  LET id == job[s].rel[2]
  IN  /\ At(s, "copy", "collapse") /\ Job(s, [code |-> code])
      /\ releases' = [i \in DOMAIN releases \cup {id} |->
                        IF i = id THEN [code |-> code, asset |-> NoAssets] ELSE releases[i]]
      /\ Checkouts /\ Prefs /\ Others /\ UNCHANGED <<copy, managed, installs>>

\* copytree, into a staging directory
StageCode(s) ==
  /\ At(s, "copy", "collapse") /\ Job(s, [code |-> code])
  /\ Checkouts /\ Homes /\ Prefs /\ Others /\ UNCHANGED installs

\* hotl fails on a source that is not there; the staging directory goes
StageAssets(s) ==
  /\ At(s, "collapse", IF \E h \in Hdas : asset[h] = 0 THEN "failed" ELSE "rename")
  /\ Job(s, [asset |-> asset])
  /\ Checkouts /\ Homes /\ Prefs /\ Others /\ UNCHANGED installs

\* os.replace(temporary, final) refuses a directory that is not empty
StageRename(s) ==
  LET id == job[s].rel[2]
  IN  /\ At(s, "rename", IF id \in DOMAIN releases THEN "failed" ELSE "fallback")
      /\ releases' = [i \in DOMAIN releases \cup {id} |->
                        IF i \in DOMAIN releases THEN releases[i]
                        ELSE [code |-> job[s].code, asset |-> job[s].asset]]
      /\ dirty' = IF job[s].quiet THEN dirty ELSE dirty \cup {id}
      /\ Checkouts /\ Prefs
      /\ UNCHANGED <<copy, managed, job, session, cookLock, installs>>

\* activate: what houdini.env says is said by a package file first
Fallback(s) ==
  /\ At(s, "fallback", "unline") /\ Job(s, [seen |-> envLine])
  /\ packageFile' = IF envLine # NoRoot /\ packageFile = NoPackageFile
                      THEN [root |-> envLine, otls |-> FALSE] ELSE packageFile
  /\ Checkouts /\ Homes /\ Others /\ UNCHANGED <<envLine, otls, installs>>

\* then it is taken out of the text that was read
Unline(s) ==
  /\ At(s, "unline", "point")
  /\ envLine' = IF job[s].seen # NoRoot THEN NoRoot ELSE envLine
  /\ Checkouts /\ Homes /\ Others /\ UNCHANGED <<packageFile, otls, job, installs>>

Point(s) ==
  /\ At(s, "point", "note") /\ packageFile' = [root |-> job[s].rel, otls |-> TRUE]
  /\ Checkouts /\ Homes /\ Others /\ UNCHANGED <<envLine, otls, job, installs>>

Note(s) ==
  /\ At(s, "note", "ok") /\ managed' = TRUE
  /\ Checkouts /\ Prefs /\ Others /\ UNCHANGED <<copy, releases, job, installs>>

\* cook_is_running, then the stale sources, then the copy next to the old one
Probe(s) ==
  /\ At(s, "probe", IF cookLock # {} \/ Stale(code, asset) # {} THEN "failed" ELSE "away")
  /\ Job(s, [code |-> code])
  /\ Checkouts /\ Homes /\ Prefs /\ Others /\ UNCHANGED installs

\* install_package_copy: two renames
MoveAway(s) ==
  /\ At(s, "away", "in") /\ Job(s, [old |-> copy]) /\ copy' = 0
  /\ Checkouts /\ Prefs /\ Others /\ UNCHANGED <<releases, managed, installs>>

\* a rename onto another copy fails, and then the old one cannot go back either
MoveIn(s) ==
  /\ At(s, "in", IF copy # 0 THEN "failed" ELSE "hdas")
  /\ copy' = IF copy # 0 THEN copy ELSE job[s].code
  /\ Job(s, [code |-> code])
  /\ Checkouts /\ Prefs /\ Others /\ UNCHANGED <<releases, managed, installs>>

\* build_and_install_hdas: one asset after another, each for itself
SkipHda(s, h) ==
  /\ At(s, "hdas", "hdas") /\ h \in job[s].todo /\ asset[h] \notin {job[s].code, Unbaked}
  /\ Job(s, [todo |-> job[s].todo \ {h}])
  /\ Checkouts /\ Homes /\ Prefs /\ Others /\ UNCHANGED installs

\* shutil.copyfile truncates first
CopyHda(s, h) ==
  /\ At(s, "hdas", "hda") /\ h \in job[s].todo /\ asset[h] \in {job[s].code, Unbaked}
  /\ Job(s, [todo |-> job[s].todo \ {h}, asset |-> [NoAssets EXCEPT ![h] = asset[h]]])
  /\ otls' = [otls EXCEPT ![h] = 0]
  /\ Checkouts /\ Homes /\ Others /\ UNCHANGED <<envLine, packageFile, installs>>

CopiedHda(s) ==
  /\ At(s, "hda", "hdas")
  /\ otls' = [h \in Hdas |-> IF job[s].asset[h] # 0 THEN job[s].asset[h] ELSE otls[h]]
  /\ Checkouts /\ Homes /\ Others /\ UNCHANGED <<envLine, packageFile, job, installs>>

\* write_rpfarm_root_env: a different value stays; rebuild_assets writes none
WriteEnv(s) ==
  /\ job[s].todo = {} /\ At(s, "hdas", "ok")
  /\ envLine' = IF job[s].kind = "setup" /\ envLine = NoRoot THEN Copy ELSE envLine
  /\ Checkouts /\ Homes /\ Others /\ UNCHANGED <<packageFile, otls, job, installs>>

\* over, or dead; a file that was being written stays as it is
End(s) ==
  /\ ipc[s] # "idle" /\ ipc' = [ipc EXCEPT ![s] = "idle"] /\ job' = [job EXCEPT ![s] = NoJob]
  /\ Checkouts /\ Homes /\ Prefs /\ Others /\ UNCHANGED installs

-----------------------------------------------------------------------------
(* The checkout                                                             *)

Changed == job' = [s \in Installers |-> [job[s] EXCEPT !.quiet = FALSE]]

EditCode ==
  /\ code < MaxCode /\ code' = code + 1 /\ Changed
  /\ Homes /\ Prefs /\ Others /\ UNCHANGED <<asset, ipc, installs>>

BecomesAsset(h, v) ==
  /\ asset[h] # v /\ asset' = [asset EXCEPT ![h] = v] /\ Changed
  /\ Homes /\ Prefs /\ Others /\ UNCHANGED <<code, ipc, installs>>

\* rebuild_generated: the old expansion goes before the new one is written
Rebuild(h) == asset[h] \notin {code, Unbaked} /\ BecomesAsset(h, 0)

\* rewrite: a block there becomes that of the package as it is; where none is, none comes
Rebake(h) == asset[h] # Unbaked /\ BecomesAsset(h, code)

-----------------------------------------------------------------------------
(* Sessions                                                                 *)

Seat(u, s) == session' = [session EXCEPT ![u] = s]
Machine == UNCHANGED <<code, asset, copy, releases, managed, envLine, packageFile, otls, ipc, job, installs, dirty>>

Launch(u) ==
  /\ ~session[u].up
  /\ Seat(u, [Down EXCEPT !.up = TRUE, !.root = StartRoot, !.code = CodeAt(StartRoot), !.nodes = StartNodes])
  /\ UNCHANGED cookLock /\ Machine

Quit(u) == session[u].up /\ Seat(u, Down) /\ cookLock' = cookLock \ {u} /\ Machine

\* onStartCook: the guard, then the lock, which a second cook does not get
Cook(u) ==
  /\ session[u].up /\ ~session[u].cooking /\ Matches(session[u].code, session[u].nodes)
  /\ Seat(u, [session[u] EXCEPT !.cooking = TRUE])
  /\ cookLock' = IF cookLock = {} THEN {u} ELSE cookLock
  /\ Machine

CookEnds(u) ==
  /\ session[u].cooking /\ Seat(u, [session[u] EXCEPT !.cooking = FALSE])
  /\ cookLock' = cookLock \ {u} /\ Machine

\* a module is imported only now, from the files of now
Import(u) ==
  /\ session[u].cooking /\ CodeAt(session[u].root) # session[u].code /\ ~session[u].mixed
  /\ Seat(u, [session[u] EXCEPT !.mixed = TRUE]) /\ UNCHANGED cookLock /\ Machine

-----------------------------------------------------------------------------

\* a machine that was set up once, by hand or by an earlier setup
InstallInit ==
  /\ code = 1 /\ asset \in [Hdas -> {1, Unbaked}] /\ copy = 1 /\ releases = <<>> /\ managed = FALSE
  /\ envLine \in FirstEnv /\ packageFile = NoPackageFile /\ otls = asset
  /\ ipc = [s \in Installers |-> "idle"] /\ job = [s \in Installers |-> NoJob]
  /\ session = [u \in Sessions |-> Down] /\ cookLock = {} /\ installs = 0 /\ dirty = {}

InstallNext ==
  \/ \E s \in Installers :
       \/ \E kind \in {"setup", "release", "assets"} : Begin(s, kind)
       \/ StageStart(s) \/ StageCode(s) \/ StageAssets(s) \/ StageRename(s)
       \/ \E id \in DOMAIN releases : Reinstall(s, id)
       \/ Fallback(s) \/ Unline(s) \/ Point(s) \/ Note(s)
       \/ Probe(s) \/ MoveAway(s) \/ MoveIn(s) \/ WriteEnv(s) \/ CopiedHda(s) \/ End(s)
       \/ \E h \in Hdas : SkipHda(s, h) \/ CopyHda(s, h)
  \/ EditCode \/ \E h \in Hdas : Rebuild(h) \/ Rebake(h)
  \/ \E u \in Sessions : Launch(u) \/ Quit(u) \/ Cook(u) \/ CookEnds(u) \/ Import(u)

InstallSpec == InstallInit /\ [][InstallNext]_installVars

-----------------------------------------------------------------------------
(* Properties                                                               *)

\* A session that started on a release has the code and the assets of one build, and
\* keeps them, whatever is installed, half installed or interrupted meanwhile; only a
\* release staged while the checkout changed may hold two builds (releases.stage).
ReleaseIsOneBuild ==
  \A u \in Sessions :
    session[u].up /\ IsRelease(session[u].root) /\ session[u].root[2] \notin dirty
      => Matches(session[u].code, session[u].nodes) /\ ~session[u].mixed

\* Which package the next session starts with changes only where an installation
\* writes its last file, however the files are ordered ("Each intermediate startup
\* remains valid"); and it is missing only between the two renames of the copy.  The
\* first part holds for two installs and not for three: an activation cut after the
\* line of houdini.env is gone leaves the fallback naming the old root; setup writes the
\* copy into houdini.env; and the next activation skips the fallback, which is there,
\* and takes the line away, so that a session started then gets the old root.
SwitchIsOneStep ==
  [][/\ StartRoot' # StartRoot => \E s \in Installers : <<ipc[s], ipc'[s]>> \in {<<"point", "note">>, <<"hdas", "ok">>}
     /\ CodeAt(StartRoot)' = 0 => \E s \in Installers : ipc'[s] = "in" \/ CodeAt(StartRoot) = 0]_installVars

\* When an installation ends well and nobody else was at work, the next session finds
\* assets that match its package, whatever an earlier one left half done (cmd_setup,
\* install): unless houdini.env names a root of the artist's own, a source is missing,
\* or an activation was cut before release.json and setup takes the home for unmanaged.
SetupLeavesWorking ==
  \A s \in Installers :
    LET excused == \/ StartRoot = Checkout \/ \E h \in Hdas : asset[h] = 0
                   \/ job[s].kind = "setup" /\ packageFile.otls
                   \/ job[s].kind = "release" /\ job[s].rel[2] \in dirty
    IN  ipc[s] = "ok" /\ job[s].quiet /\ job[s].kind # "assets" /\ ~excused
          => Matches(CodeAt(StartRoot), StartNodes)

\* setup does not swap the package while a cook runs (_acquireCookLock, held for the
\* cook's whole duration; cook_is_running): the probe sees every cook.
CookIsSeen ==
  [][\A s \in Installers, u \in Sessions :
       ipc[s] = "probe" /\ ipc'[s] = "away" => ~session[u].cooking]_installVars
=============================================================================
