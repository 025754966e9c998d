---------------------------- MODULE ToolsProofs -----------------------------
(***************************************************************************)
(* Proofs about what the artist's computer does around a cook, side by side *)
(* as in MCTools: Installation (any installers, sessions, assets and number *)
(* of installs), CommandLine (any shells, volumes and regions), FarmKill   *)
(* (any pods and artists), Ledger (any machines, cooks and tasks), Smoke   *)
(* (any probes and frames) and Packages (any files, upload nodes and       *)
(* outputs).                                                               *)
(***************************************************************************)
EXTENDS Installation, CommandLine, FarmKill, Ledger, Smoke, Packages, FiniteSetTheorems,
        FunctionTheorems, WellFoundedInduction, TLAPS

-----------------------------------------------------------------------------
(* Installation                                                            *)

\* Builds, the places Houdini may load the farm from, and what is stored of each.
Builds == (Nat \ {0}) \X [Hdas -> Nat]
PlainRoots == {NoRoot, Copy, Checkout}
Roots == PlainRoots \cup {Release(id) : id \in Builds}
Stages == {"idle", "probe", "away", "in", "hdas", "hda", "stage", "copy", "collapse", "rename", "fallback",
           "unline", "point", "note", "ok", "failed"}
JobState == [kind : {"none", "setup", "release", "assets"}, rel : Roots, code : Nat, asset : [Hdas -> Nat], seen : Roots,
             todo : SUBSET Hdas, old : Nat, quiet : BOOLEAN]
SessionState == [up : BOOLEAN, root : Roots, code : Nat, nodes : [Hdas -> Nat], cooking : BOOLEAN, mixed : BOOLEAN]
Content == [code : Nat, asset : [Hdas -> Nat]]

FilesTyped ==
  /\ code \in Nat \ {0} /\ asset \in [Hdas -> Nat] /\ copy \in Nat
  /\ releases \in [DOMAIN releases -> Content] /\ DOMAIN releases \subseteq Builds
  /\ managed \in BOOLEAN /\ envLine \in PlainRoots
  /\ packageFile \in [root : Roots, otls : BOOLEAN] /\ otls \in [Hdas -> Nat]

InstallTypeOK ==
  /\ FilesTyped
  /\ ipc \in [Installers -> Stages] /\ job \in [Installers -> JobState]
  /\ session \in [Sessions -> SessionState] /\ cookLock \in SUBSET Sessions /\ installs \in Nat

\* A release that is there, and one that was staged in peace
There(root) == \E id \in DOMAIN releases : root = Release(id)
ReleasesWhole == \A id \in DOMAIN releases : id \notin dirty => Matches(releases[id].code, releases[id].asset)

\* The package file names a release that is there, with its assets, or neither
PointsThere == IF packageFile.otls THEN There(packageFile.root) ELSE packageFile.root \in PlainRoots

\* What an installer holds; in peace, what it holds is the checkout
HoldsRelease(stage, j) ==
  /\ stage \in {"copy", "collapse", "rename"} => \E id \in Builds : j.rel = Release(id)
  /\ stage \in {"fallback", "unline", "point"} => There(j.rel)
HoldsBuild(stage, j) ==
  /\ j.quiet /\ stage \in {"copy", "collapse", "rename"} => Stale(code, asset) = {}
  /\ j.quiet /\ stage \in {"collapse", "rename"} => j.code = code
  /\ j.quiet /\ stage = "rename" => j.asset = asset /\ \A h \in Hdas : asset[h] # 0

\* A session on a release has what it holds
OnRelease(s) ==
  s.up /\ IsRelease(s.root) =>
    \E id \in DOMAIN releases : s.root = Release(id) /\ s.code = releases[id].code /\ s.nodes = releases[id].asset /\ ~s.mixed

\* Together they are inductive.
InstallInv ==
  /\ InstallTypeOK /\ ReleasesWhole /\ PointsThere
  /\ \A s \in Installers : HoldsRelease(ipc[s], job[s]) /\ HoldsBuild(ipc[s], job[s])
  /\ \A u \in Sessions : OnRelease(session[u])

-----------------------------------------------------------------------------

\* A release is told from the other roots by its form, and by its id.
LEMMA RootForms ==
  /\ \A id : IsRelease(Release(id)) /\ Release(id)[2] = id
  /\ \A root \in PlainRoots : ~IsRelease(root)
<1>1. \A id : IsRelease(Release(id)) /\ Release(id)[2] = id
  BY DEF IsRelease, Release
<1>2. \A root \in PlainRoots : ~IsRelease(root)
  BY DEF IsRelease, PlainRoots, NoRoot, Copy, Checkout
<1> QED
  BY <1>1, <1>2

LEMMA ReleaseIds ==
  \A a, b : Release(a) = Release(b) => a = b
<1> SUFFICES ASSUME NEW a, NEW b, Release(a) = Release(b)
             PROVE  a = b
  OBVIOUS
<1>1. Release(a)[2] = a /\ Release(b)[2] = b
  BY RootForms
<1> QED
  BY <1>1

\* Releases are only ever added
ReleasesStay == \A id \in DOMAIN releases : id \in DOMAIN releases' /\ releases'[id] = releases[id]

LEMMA ThereStays ==
  ASSUME ReleasesStay, NEW root, There(root)
  PROVE  \E id \in DOMAIN releases' : root = Release(id)
  BY DEF ReleasesStay, There

LEMMA OnReleaseStays ==
  ASSUME ReleasesStay, NEW s, OnRelease(s)
  PROVE  s.up /\ IsRelease(s.root) =>
           \E id \in DOMAIN releases' : s.root = Release(id) /\ s.code = releases'[id].code
                                        /\ s.nodes = releases'[id].asset /\ ~s.mixed
  BY DEF ReleasesStay, OnRelease

\* An installer moves: the checkout and the sessions stay, releases may come
LEMMA InstallerMoves ==
  ASSUME InstallInv, NEW s \in Installers, NEW stage \in Stages, NEW j \in JobState,
         ipc' = [ipc EXCEPT ![s] = stage], job' = [job EXCEPT ![s] = j],
         UNCHANGED <<code, asset, session, cookLock>>, FilesTyped', installs' \in Nat, ReleasesStay,
         ReleasesWhole', PointsThere',
         HoldsRelease(stage, j) \/ (stage \in {"fallback", "unline", "point"} /\ \E id \in DOMAIN releases' : j.rel = Release(id)),
         HoldsBuild(stage, j)
  PROVE  InstallInv'
<1>1. /\ ipc' \in [Installers -> Stages] /\ job' \in [Installers -> JobState]
      /\ ipc'[s] = stage /\ job'[s] = j
      /\ \A t \in Installers \ {s} : ipc'[t] = ipc[t] /\ job'[t] = job[t]
  BY DEF InstallInv, InstallTypeOK
<1>2. InstallTypeOK'
  BY <1>1 DEF InstallInv, InstallTypeOK
<1>3. ASSUME NEW t \in Installers
      PROVE  HoldsRelease(ipc[t], job[t])'
  <2>1. CASE t = s
    BY <1>1, <2>1, ThereStays DEF HoldsRelease, There
  <2>2. CASE t # s
    BY <1>1, <2>2, ThereStays DEF InstallInv, HoldsRelease, There
  <2> QED
    BY <2>1, <2>2
<1>4. ASSUME NEW t \in Installers
      PROVE  HoldsBuild(ipc[t], job[t])'
  <2>1. Stale(code, asset)' = Stale(code, asset)
    BY DEF Stale
  <2>2. CASE t = s
    BY <1>1, <2>1, <2>2 DEF HoldsBuild
  <2>3. CASE t # s
    BY <1>1, <2>1, <2>3 DEF InstallInv, HoldsBuild
  <2> QED
    BY <2>2, <2>3
<1>5. ASSUME NEW u \in Sessions
      PROVE  OnRelease(session[u])'
  <2>1. OnRelease(session[u]) /\ session'[u] = session[u]
    BY DEF InstallInv
  <2> QED
    BY <2>1, OnReleaseStays DEF OnRelease
<1> QED
  BY <1>2, <1>3, <1>4, <1>5 DEF InstallInv

\* What an installer holds changes by fields.
JobFields == {"kind", "rel", "code", "asset", "seen", "todo", "old", "quiet"}

\* New values for some of what an installer holds
JobFits(changes) ==
  /\ "kind" \notin DOMAIN changes /\ "quiet" \notin DOMAIN changes
  /\ \A f \in {"rel", "seen"} : f \in DOMAIN changes => changes[f] \in Roots
  /\ \A f \in {"code", "old"} : f \in DOMAIN changes => changes[f] \in Nat
  /\ "asset" \in DOMAIN changes => changes["asset"] \in [Hdas -> Nat]
  /\ "todo" \in DOMAIN changes => changes["todo"] \in SUBSET Hdas

JobBecame(s, changes, j) ==
  /\ j \in JobState /\ job' = [job EXCEPT ![s] = j]
  /\ \A f \in JobFields : j[f] = IF f \in DOMAIN changes THEN changes[f] ELSE job[s][f]

LEMMA JobNow ==
  ASSUME InstallInv, NEW s \in Installers, NEW changes, Job(s, changes), JobFits(changes)
  PROVE  \E j : JobBecame(s, changes, j)
<1> DEFINE j == [f \in DOMAIN job[s] |-> IF f \in DOMAIN changes THEN changes[f] ELSE job[s][f]]
<1>1. job[s] \in JobState
  BY DEF InstallInv, InstallTypeOK
<1>2. DOMAIN job[s] = JobFields
  BY <1>1 DEF JobState, JobFields
<1>3. /\ \A f \in JobFields : j[f] = IF f \in DOMAIN changes THEN changes[f] ELSE job[s][f]
      /\ j = [f \in JobFields |-> j[f]]
  BY <1>2
<1>4. job' = [job EXCEPT ![s] = j]
  BY DEF Job
<1> HIDE DEF j
<1>5. j = [kind |-> j.kind, rel |-> j.rel, code |-> j.code, asset |-> j.asset, seen |-> j.seen, todo |-> j.todo,
           old |-> j.old, quiet |-> j.quiet]
  BY <1>3 DEF JobFields
<1>6. /\ j.kind \in {"none", "setup", "release", "assets"} /\ j.rel \in Roots /\ j.code \in Nat /\ j.asset \in [Hdas -> Nat]
      /\ j.seen \in Roots /\ j.todo \in SUBSET Hdas /\ j.old \in Nat /\ j.quiet \in BOOLEAN
  BY <1>1, <1>3 DEF JobState, JobFields, JobFits
<1>7. j \in JobState
  BY <1>5, <1>6 DEF JobState
<1> QED
  BY <1>3, <1>4, <1>7 DEF JobBecame

\* What the steps may use.
LEMMA InstallFacts ==
  ASSUME InstallInv, NEW s \in Installers
  PROVE  /\ FilesTyped /\ ipc[s] \in Stages /\ job[s] \in JobState /\ installs \in Nat
         /\ HoldsRelease(ipc[s], job[s]) /\ HoldsBuild(ipc[s], job[s])
         /\ job[s].code \in Nat /\ job[s].asset \in [Hdas -> Nat] /\ job[s].quiet \in BOOLEAN
         /\ job[s].todo \in SUBSET Hdas /\ job[s].rel \in Roots /\ job[s].seen \in Roots
         /\ job = [job EXCEPT ![s] = job[s]] /\ PointsThere /\ ReleasesWhole
         /\ code \in Nat \ {0} /\ asset \in [Hdas -> Nat] /\ copy \in Nat
         /\ envLine \in PlainRoots /\ envLine \in Roots /\ otls \in [Hdas -> Nat]
         /\ packageFile \in [root : Roots, otls : BOOLEAN]
         /\ releases \in [DOMAIN releases -> Content] /\ DOMAIN releases \subseteq Builds
  BY DEF InstallInv, InstallTypeOK, FilesTyped, JobState, Roots

\* ... to a place where it holds nothing that matters
LEMMA PlainMove ==
  ASSUME InstallInv, NEW s \in Installers,
         NEW stage \in {"idle", "probe", "away", "in", "hdas", "hda", "stage", "note", "ok", "failed"}, NEW j \in JobState,
         ipc' = [ipc EXCEPT ![s] = stage], job' = [job EXCEPT ![s] = j],
         UNCHANGED <<code, asset, session, cookLock, releases, packageFile, dirty>>,
         copy' \in Nat, managed' \in BOOLEAN, envLine' \in PlainRoots, otls' \in [Hdas -> Nat], installs' \in Nat
  PROVE  InstallInv'
<1>1. FilesTyped' /\ stage \in Stages
  BY DEF InstallInv, InstallTypeOK, FilesTyped, Stages
<1>2. ReleasesStay
  BY DEF ReleasesStay
<1>3. ReleasesWhole'
  BY DEF InstallInv, ReleasesWhole, Matches
<1>4. PointsThere'
  BY DEF InstallInv, PointsThere, There
<1>5. HoldsRelease(stage, j) /\ HoldsBuild(stage, j)
  BY DEF HoldsRelease, HoldsBuild
<1> QED
  BY <1>1, <1>2, <1>3, <1>4, <1>5, InstallerMoves

\* The steps that stage and activate nothing.
LEMMA PlainKeeps ==
  ASSUME InstallInv, NEW s \in Installers, Note(s) \/ Probe(s) \/ MoveAway(s) \/ MoveIn(s) \/ WriteEnv(s) \/ CopiedHda(s) \/ End(s)
  PROVE  InstallInv'
<1> USE DEF Checkouts, Homes, Prefs, Others, At
<1>0. managed \in BOOLEAN
  BY DEF InstallInv, InstallTypeOK, FilesTyped
<1>1. CASE Note(s)
  <2>1. /\ ipc' = [ipc EXCEPT ![s] = "ok"] /\ job' = job /\ managed' = TRUE
        /\ UNCHANGED <<code, asset, session, cookLock, releases, packageFile, dirty, copy, envLine, otls, installs>>
    BY <1>1 DEF Note
  <2> QED
    BY <2>1, InstallFacts, PlainMove
<1>2. CASE Probe(s)
  <2> DEFINE changes == [code |-> code]
             stage == IF cookLock # {} \/ Stale(code, asset) # {} THEN "failed" ELSE "away"
  <2>1. DOMAIN changes = {"code"} /\ changes["code"] = code /\ stage \in {"failed", "away"}
    OBVIOUS
  <2>2. /\ ipc' = [ipc EXCEPT ![s] = stage] /\ Job(s, changes)
        /\ UNCHANGED <<code, asset, session, cookLock, releases, packageFile, dirty, copy, managed, envLine, otls, installs>>
    BY <1>2 DEF Probe
  <2> HIDE DEF changes, stage
  <2>3. PICK j : JobBecame(s, changes, j)
    BY <2>1, <2>2, InstallFacts, JobNow DEF JobFits
  <2> QED
    BY <1>0, <2>1, <2>2, <2>3, InstallFacts, PlainMove DEF JobBecame
<1>3. CASE MoveAway(s)
  <2> DEFINE changes == [old |-> copy]
  <2>1. DOMAIN changes = {"old"} /\ changes["old"] = copy
    OBVIOUS
  <2>2. /\ ipc' = [ipc EXCEPT ![s] = "in"] /\ Job(s, changes) /\ copy' = 0
        /\ UNCHANGED <<code, asset, session, cookLock, releases, packageFile, dirty, managed, envLine, otls, installs>>
    BY <1>3 DEF MoveAway
  <2> HIDE DEF changes
  <2>3. PICK j : JobBecame(s, changes, j)
    BY <2>1, <2>2, InstallFacts, JobNow DEF JobFits
  <2> QED
    BY <1>0, <2>2, <2>3, InstallFacts, PlainMove DEF JobBecame
<1>4. CASE MoveIn(s)
  <2> DEFINE changes == [code |-> code]
             stage == IF copy # 0 THEN "failed" ELSE "hdas"
  <2>1. DOMAIN changes = {"code"} /\ changes["code"] = code /\ stage \in {"failed", "hdas"}
    OBVIOUS
  <2>2. /\ ipc' = [ipc EXCEPT ![s] = stage] /\ Job(s, changes) /\ copy' \in {copy, job[s].code}
        /\ UNCHANGED <<code, asset, session, cookLock, releases, packageFile, dirty, managed, envLine, otls, installs>>
    BY <1>4 DEF MoveIn
  <2> HIDE DEF changes, stage
  <2>3. PICK j : JobBecame(s, changes, j)
    BY <2>1, <2>2, InstallFacts, JobNow DEF JobFits
  <2>4. copy' \in Nat /\ envLine' \in PlainRoots /\ otls' \in [Hdas -> Nat] /\ installs' \in Nat
    BY <2>2, InstallFacts
  <2> QED
    BY <1>0, <2>1, <2>2, <2>3, <2>4, PlainMove DEF JobBecame
<1>5. CASE WriteEnv(s)
  <2>1. /\ ipc' = [ipc EXCEPT ![s] = "ok"] /\ job' = job /\ envLine' \in {envLine, Copy}
        /\ UNCHANGED <<code, asset, session, cookLock, releases, packageFile, dirty, copy, managed, otls, installs>>
    BY <1>5 DEF WriteEnv
  <2> QED
    BY <1>0, <2>1, InstallFacts, PlainMove DEF PlainRoots
<1>6. CASE CopiedHda(s)
  <2>1. /\ ipc' = [ipc EXCEPT ![s] = "hdas"] /\ job' = job
        /\ otls' = [h \in Hdas |-> IF job[s].asset[h] # 0 THEN job[s].asset[h] ELSE otls[h]]
        /\ UNCHANGED <<code, asset, session, cookLock, releases, packageFile, dirty, copy, managed, envLine, installs>>
    BY <1>6 DEF CopiedHda
  <2>2. otls' \in [Hdas -> Nat]
    BY <2>1, InstallFacts
  <2> QED
    BY <1>0, <2>1, <2>2, InstallFacts, PlainMove
<1>7. CASE End(s)
  <2>1. /\ ipc' = [ipc EXCEPT ![s] = "idle"] /\ job' = [job EXCEPT ![s] = NoJob]
        /\ UNCHANGED <<code, asset, session, cookLock, releases, packageFile, dirty, copy, managed, envLine, otls, installs>>
    BY <1>7 DEF End
  <2>2. NoJob \in JobState
    BY DEF NoJob, JobState, Roots, PlainRoots, NoAssets
  <2> QED
    BY <1>0, <2>1, <2>2, InstallFacts, PlainMove
<1> QED
  BY <1>1, <1>2, <1>3, <1>4, <1>5, <1>6, <1>7

LEMMA HdaKeeps ==
  ASSUME InstallInv, NEW s \in Installers, NEW h \in Hdas, SkipHda(s, h) \/ CopyHda(s, h)
  PROVE  InstallInv'
<1> USE DEF Checkouts, Homes, Prefs, Others, At
<1>0. managed \in BOOLEAN
  BY DEF InstallInv, InstallTypeOK, FilesTyped
<1>1. CASE SkipHda(s, h)
  <2> DEFINE changes == [todo |-> job[s].todo \ {h}]
  <2>1. DOMAIN changes = {"todo"} /\ changes["todo"] = job[s].todo \ {h}
    OBVIOUS
  <2>2. /\ ipc' = [ipc EXCEPT ![s] = "hdas"] /\ Job(s, changes)
        /\ UNCHANGED <<code, asset, session, cookLock, releases, packageFile, dirty, copy, managed, envLine, otls, installs>>
    BY <1>1 DEF SkipHda
  <2> HIDE DEF changes
  <2>3. PICK j : JobBecame(s, changes, j)
    BY <2>1, <2>2, InstallFacts, JobNow DEF JobFits
  <2> QED
    BY <1>0, <2>2, <2>3, InstallFacts, PlainMove DEF JobBecame
<1>2. CASE CopyHda(s, h)
  <2> DEFINE changes == [todo |-> job[s].todo \ {h}, asset |-> [NoAssets EXCEPT ![h] = asset[h]]]
  <2>1. DOMAIN changes = {"todo", "asset"} /\ changes["todo"] = job[s].todo \ {h}
        /\ changes["asset"] = [NoAssets EXCEPT ![h] = asset[h]]
    OBVIOUS
  <2>2. /\ ipc' = [ipc EXCEPT ![s] = "hda"] /\ Job(s, changes) /\ otls' = [otls EXCEPT ![h] = 0]
        /\ UNCHANGED <<code, asset, session, cookLock, releases, packageFile, dirty, copy, managed, envLine, installs>>
    BY <1>2 DEF CopyHda
  <2>3. changes["asset"] \in [Hdas -> Nat] /\ otls' \in [Hdas -> Nat]
    BY <2>1, <2>2, InstallFacts DEF NoAssets
  <2> HIDE DEF changes
  <2>4. PICK j : JobBecame(s, changes, j)
    BY <2>1, <2>2, <2>3, InstallFacts, JobNow DEF JobFits
  <2> QED
    BY <1>0, <2>2, <2>3, <2>4, InstallFacts, PlainMove DEF JobBecame
<1> QED
  BY <1>1, <1>2

-----------------------------------------------------------------------------

\* ... while nothing of the home or the preferences changes
LEMMA StagingMove ==
  ASSUME InstallInv, NEW s \in Installers, NEW stage \in Stages, NEW j \in JobState,
         ipc' = [ipc EXCEPT ![s] = stage], job' = [job EXCEPT ![s] = j],
         UNCHANGED <<code, asset, copy, releases, managed, envLine, packageFile, otls, session, cookLock, dirty, installs>>,
         HoldsRelease(stage, j), HoldsBuild(stage, j)
  PROVE  InstallInv'
<1>1. FilesTyped' /\ installs' \in Nat
  BY DEF InstallInv, InstallTypeOK, FilesTyped
<1>2. ReleasesStay
  BY DEF ReleasesStay
<1>3. ReleasesWhole'
  BY DEF InstallInv, ReleasesWhole, Matches
<1>4. PointsThere'
  BY DEF InstallInv, PointsThere, There
<1> QED
  BY <1>1, <1>2, <1>3, <1>4, InstallerMoves

\* The steps of stage, up to the rename.
LEMMA StageKeeps ==
  ASSUME InstallInv, NEW s \in Installers,
         StageStart(s) \/ StageCode(s) \/ StageAssets(s) \/ \E id \in DOMAIN releases : Reinstall(s, id)
  PROVE  InstallInv'
<1> USE DEF Checkouts, Homes, Prefs, Others, At
<1>1. CASE StageStart(s)
  <2> DEFINE id == <<code, asset>>
             changes == [rel |-> Release(id)]
             stage == IF Stale(code, asset) # {} THEN "failed" ELSE IF id \in DOMAIN releases THEN "fallback" ELSE "copy"
  <2>1. DOMAIN changes = {"rel"} /\ changes["rel"] = Release(id)
    OBVIOUS
  <2>2. id \in Builds
    BY InstallFacts DEF Builds
  <2>3. /\ stage \in {"failed", "fallback", "copy"} /\ (stage = "fallback" => id \in DOMAIN releases)
        /\ (stage = "copy" => Stale(code, asset) = {})
    OBVIOUS
  <2>4. /\ ipc' = [ipc EXCEPT ![s] = stage] /\ Job(s, changes)
        /\ UNCHANGED <<code, asset, copy, releases, managed, envLine, packageFile, otls, session, cookLock, dirty, installs>>
    BY <1>1 DEF StageStart
  <2> HIDE DEF id, changes, stage
  <2>5. Release(id) \in Roots
    BY <2>2 DEF Roots
  <2>6. PICK j : JobBecame(s, changes, j)
    BY <2>1, <2>4, <2>5, JobNow DEF JobFits
  <2>7. j \in JobState /\ j.rel = Release(id)
    BY <2>1, <2>6 DEF JobBecame, JobFields
  <2>8. HoldsRelease(stage, j) /\ HoldsBuild(stage, j)
    BY <2>2, <2>3, <2>7 DEF HoldsRelease, HoldsBuild, There
  <2>9. stage \in Stages
    BY <2>3 DEF Stages
  <2> QED
    BY <2>4, <2>6, <2>7, <2>8, <2>9, StagingMove DEF JobBecame
<1>2. CASE StageCode(s)
  <2> DEFINE changes == [code |-> code]
  <2>1. DOMAIN changes = {"code"} /\ changes["code"] = code
    OBVIOUS
  <2>2. /\ ipc' = [ipc EXCEPT ![s] = "collapse"] /\ ipc[s] = "copy" /\ Job(s, changes)
        /\ UNCHANGED <<code, asset, copy, releases, managed, envLine, packageFile, otls, session, cookLock, dirty, installs>>
    BY <1>2 DEF StageCode
  <2> HIDE DEF changes
  <2>3. PICK j : JobBecame(s, changes, j)
    BY <2>1, <2>2, InstallFacts, JobNow DEF JobFits
  <2>4. j \in JobState /\ j.code = code /\ j.rel = job[s].rel /\ j.quiet = job[s].quiet
    BY <2>1, <2>3 DEF JobBecame, JobFields
  <2>5. HoldsRelease("collapse", j) /\ HoldsBuild("collapse", j)
    BY <2>2, <2>4, InstallFacts DEF HoldsRelease, HoldsBuild
  <2> QED
    BY <2>2, <2>3, <2>4, <2>5, StagingMove DEF JobBecame, Stages
<1>3. CASE StageAssets(s)
  <2> DEFINE changes == [asset |-> asset]
             stage == IF \E h \in Hdas : asset[h] = 0 THEN "failed" ELSE "rename"
  <2>1. DOMAIN changes = {"asset"} /\ changes["asset"] = asset
    OBVIOUS
  <2>2. /\ ipc' = [ipc EXCEPT ![s] = stage] /\ ipc[s] = "collapse" /\ Job(s, changes)
        /\ UNCHANGED <<code, asset, copy, releases, managed, envLine, packageFile, otls, session, cookLock, dirty, installs>>
    BY <1>3 DEF StageAssets
  <2>3. stage \in {"failed", "rename"} /\ (stage = "rename" => \A h \in Hdas : asset[h] # 0)
    OBVIOUS
  <2> HIDE DEF changes, stage
  <2>4. PICK j : JobBecame(s, changes, j)
    BY <2>1, <2>2, InstallFacts, JobNow DEF JobFits
  <2>5. j \in JobState /\ j.asset = asset /\ j.code = job[s].code /\ j.rel = job[s].rel /\ j.quiet = job[s].quiet
    BY <2>1, <2>4 DEF JobBecame, JobFields
  <2>6. HoldsRelease(stage, j) /\ HoldsBuild(stage, j)
    BY <2>2, <2>3, <2>5, InstallFacts DEF HoldsRelease, HoldsBuild
  <2>7. stage \in Stages
    BY <2>3 DEF Stages
  <2> QED
    BY <2>2, <2>4, <2>5, <2>6, <2>7, StagingMove DEF JobBecame
<1>4. ASSUME NEW id \in DOMAIN releases, Reinstall(s, id)
      PROVE  InstallInv'
  <2> DEFINE changes == [rel |-> Release(id)]
  <2>1. DOMAIN changes = {"rel"} /\ changes["rel"] = Release(id)
    OBVIOUS
  <2>2. /\ ipc' = [ipc EXCEPT ![s] = "fallback"] /\ Job(s, changes)
        /\ UNCHANGED <<code, asset, copy, releases, managed, envLine, packageFile, otls, session, cookLock, dirty, installs>>
    BY <1>4 DEF Reinstall
  <2> HIDE DEF changes
  <2>3. Release(id) \in Roots
    BY InstallFacts DEF Roots
  <2>4. PICK j : JobBecame(s, changes, j)
    BY <2>1, <2>2, <2>3, JobNow DEF JobFits
  <2>5. j \in JobState /\ j.rel = Release(id)
    BY <2>1, <2>4 DEF JobBecame, JobFields
  <2>6. HoldsRelease("fallback", j) /\ HoldsBuild("fallback", j)
    BY <2>5 DEF HoldsRelease, HoldsBuild, There
  <2> QED
    BY <2>2, <2>4, <2>5, <2>6, StagingMove DEF JobBecame, Stages
<1> QED
  BY <1>1, <1>2, <1>3, <1>4

\* A release that appears is what the installer holds: in peace, one build
LEMMA RenameKeeps ==
  ASSUME InstallInv, NEW s \in Installers, StageRename(s)
  PROVE  InstallInv'
<1> DEFINE id == job[s].rel[2]
           stage == IF id \in DOMAIN releases THEN "failed" ELSE "fallback"
<1>1. /\ ipc[s] = "rename" /\ ipc' = [ipc EXCEPT ![s] = stage] /\ job' = [job EXCEPT ![s] = job[s]]
      /\ releases' = [i \in DOMAIN releases \cup {id} |->
                        IF i \in DOMAIN releases THEN releases[i] ELSE [code |-> job[s].code, asset |-> job[s].asset]]
      /\ dirty' = IF job[s].quiet THEN dirty ELSE dirty \cup {id}
      /\ UNCHANGED <<code, asset, copy, managed, envLine, packageFile, otls, session, cookLock, installs>>
  BY InstallFacts DEF StageRename, At, Checkouts, Prefs
<1>2. PICK b \in Builds : job[s].rel = Release(b)
  BY <1>1, InstallFacts DEF HoldsRelease
<1>3. id = b /\ stage \in {"failed", "fallback"}
  BY <1>2, RootForms
<1> DEFINE r == [code |-> job[s].code, asset |-> job[s].asset]
<1>4. r \in Content /\ r.code = job[s].code /\ r.asset = job[s].asset
  BY InstallFacts DEF Content
<1> HIDE DEF id, stage, r
<1>5. /\ DOMAIN releases' = DOMAIN releases \cup {b}
      /\ \A i \in DOMAIN releases : releases'[i] = releases[i]
      /\ b \notin DOMAIN releases => releases'[b] = r
  BY <1>1, <1>3 DEF r
<1>6. releases' \in [DOMAIN releases' -> Content] /\ DOMAIN releases' \subseteq Builds
  <2>1. \A i \in DOMAIN releases' : releases'[i] \in Content
    BY <1>4, <1>5, InstallFacts
  <2>2. releases' = [i \in DOMAIN releases' |-> releases'[i]]
    BY <1>1
  <2> QED
    BY <1>5, <2>1, <2>2, InstallFacts
<1>7. FilesTyped' /\ installs' \in Nat
  BY <1>1, <1>6 DEF InstallInv, InstallTypeOK, FilesTyped
<1>8. ReleasesStay
  BY <1>5 DEF ReleasesStay
<1>9. job[s].quiet => Matches(r.code, r.asset)
  <2> SUFFICES ASSUME job[s].quiet PROVE Matches(r.code, r.asset)
    OBVIOUS
  <2>1. r.code = code /\ r.asset = asset /\ Stale(code, asset) = {} /\ \A h \in Hdas : asset[h] # 0
    BY <1>1, <1>4, InstallFacts DEF HoldsBuild
  <2>2. \A h \in Hdas : asset[h] \in {code, Unbaked}
    BY <2>1 DEF Stale
  <2> QED
    BY <2>1, <2>2, InstallFacts DEF Matches
<1>10. ReleasesWhole'
  <2> SUFFICES ASSUME NEW i \in DOMAIN releases', i \notin dirty'
               PROVE  Matches(releases'[i].code, releases'[i].asset)
    BY DEF ReleasesWhole, Matches
  <2>1. i \notin dirty
    BY <1>1
  <2>2. CASE i \in DOMAIN releases
    BY <1>5, <2>1, <2>2 DEF InstallInv, ReleasesWhole
  <2>3. CASE i \notin DOMAIN releases
    <3>1. i = b /\ releases'[i] = r /\ job[s].quiet
      BY <1>1, <1>3, <1>5, <2>3, InstallFacts
    <3> QED
      BY <1>9, <3>1
  <2> QED
    BY <2>2, <2>3
<1>11. PointsThere'
  <2>1. PointsThere /\ packageFile' = packageFile
    BY <1>1 DEF InstallInv
  <2>2. There(packageFile.root) => There(packageFile.root)'
    BY <1>8, <2>1, ThereStays DEF There
  <2> QED
    BY <2>1, <2>2 DEF PointsThere
<1>12. stage \in {"failed", "fallback"} /\ stage \in Stages /\ (\E i \in DOMAIN releases' : job[s].rel = Release(i))
  BY <1>2, <1>3, <1>5 DEF Stages
<1>13. HoldsRelease(stage, job[s]) \/ (stage \in {"fallback", "unline", "point"} /\ \E i \in DOMAIN releases' : job[s].rel = Release(i))
  BY <1>12 DEF HoldsRelease
<1>14. HoldsBuild(stage, job[s])
  BY <1>12 DEF HoldsBuild
<1>15. job[s] \in JobState
  BY InstallFacts
<1>16. UNCHANGED <<code, asset, session, cookLock>>
  BY <1>1
<1> QED
  BY <1>1, <1>7, <1>8, <1>10, <1>11, <1>12, <1>13, <1>14, <1>15, <1>16, InstallerMoves

\* The three renames of activate: the fallback, the line of houdini.env, the package.
LEMMA ActivateKeeps ==
  ASSUME InstallInv, NEW s \in Installers, Fallback(s) \/ Unline(s) \/ Point(s)
  PROVE  InstallInv'
<1> USE DEF Checkouts, Homes, Others, At
<1>0. /\ HoldsRelease(ipc[s], job[s]) /\ job[s] \in JobState
      /\ ReleasesStay <=> \A id \in DOMAIN releases : id \in DOMAIN releases' /\ releases'[id] = releases[id]
  BY InstallFacts DEF ReleasesStay
<1>1. CASE Fallback(s)
  <2> DEFINE changes == [seen |-> envLine]
             made == [root |-> envLine, otls |-> FALSE]
  <2>1. DOMAIN changes = {"seen"} /\ changes["seen"] = envLine
    OBVIOUS
  <2>2. /\ ipc[s] = "fallback" /\ ipc' = [ipc EXCEPT ![s] = "unline"] /\ Job(s, changes) /\ packageFile' \in {packageFile, made}
        /\ UNCHANGED <<code, asset, copy, releases, managed, envLine, otls, session, cookLock, dirty, installs>>
    BY <1>1 DEF Fallback
  <2>3. made \in [root : Roots, otls : BOOLEAN] /\ made.otls = FALSE /\ made.root \in PlainRoots
    BY InstallFacts
  <2> HIDE DEF changes, made
  <2>4. PICK j : JobBecame(s, changes, j)
    BY <2>1, <2>2, InstallFacts, JobNow DEF JobFits
  <2>5. j \in JobState /\ j.rel = job[s].rel
    BY <2>1, <2>4 DEF JobBecame, JobFields
  <2>6. FilesTyped' /\ installs' \in Nat
    BY <2>2, <2>3 DEF InstallInv, InstallTypeOK, FilesTyped
  <2>7. PointsThere'
    BY <2>2, <2>3 DEF InstallInv, PointsThere, There
  <2>8. ReleasesStay /\ ReleasesWhole'
    BY <2>2 DEF ReleasesStay, InstallInv, ReleasesWhole, Matches
  <2>9. HoldsRelease("unline", j) /\ HoldsBuild("unline", j)
    BY <1>0, <2>2, <2>5 DEF HoldsRelease, HoldsBuild
  <2> QED
    BY <2>2, <2>4, <2>5, <2>6, <2>7, <2>8, <2>9, InstallerMoves DEF JobBecame, Stages
<1>2. CASE Unline(s)
  <2>1. /\ ipc[s] = "unline" /\ ipc' = [ipc EXCEPT ![s] = "point"] /\ job' = [job EXCEPT ![s] = job[s]]
        /\ envLine' \in {envLine, NoRoot}
        /\ UNCHANGED <<code, asset, copy, releases, managed, packageFile, otls, session, cookLock, dirty, installs>>
    BY <1>2, InstallFacts DEF Unline
  <2>2. FilesTyped' /\ installs' \in Nat
    BY <2>1 DEF InstallInv, InstallTypeOK, FilesTyped, PlainRoots
  <2>3. PointsThere'
    BY <2>1 DEF InstallInv, PointsThere, There
  <2>4. ReleasesStay /\ ReleasesWhole'
    BY <2>1 DEF ReleasesStay, InstallInv, ReleasesWhole, Matches
  <2>5. HoldsRelease("point", job[s]) /\ HoldsBuild("point", job[s])
    BY <1>0, <2>1 DEF HoldsRelease, HoldsBuild
  <2>6. "point" \in Stages /\ UNCHANGED <<code, asset, session, cookLock>>
    BY <2>1 DEF Stages
  <2> QED
    BY <1>0, <2>1, <2>2, <2>3, <2>4, <2>5, <2>6, InstallerMoves
<1>3. CASE Point(s)
  <2> DEFINE made == [root |-> job[s].rel, otls |-> TRUE]
  <2>1. /\ ipc[s] = "point" /\ ipc' = [ipc EXCEPT ![s] = "note"] /\ job' = [job EXCEPT ![s] = job[s]]
        /\ packageFile' = made
        /\ UNCHANGED <<code, asset, copy, releases, managed, envLine, otls, session, cookLock, dirty, installs>>
    BY <1>3, InstallFacts DEF Point
  <2>2. made \in [root : Roots, otls : BOOLEAN] /\ made.otls = TRUE /\ made.root = job[s].rel
    BY InstallFacts
  <2> HIDE DEF made
  <2>3. FilesTyped' /\ installs' \in Nat
    BY <2>1, <2>2 DEF InstallInv, InstallTypeOK, FilesTyped
  <2>4. PointsThere'
    BY <1>0, <2>1, <2>2 DEF PointsThere, There, HoldsRelease
  <2>5. ReleasesStay /\ ReleasesWhole'
    BY <2>1 DEF ReleasesStay, InstallInv, ReleasesWhole, Matches
  <2>6. HoldsRelease("note", job[s]) /\ HoldsBuild("note", job[s])
    BY DEF HoldsRelease, HoldsBuild
  <2>7. "note" \in Stages /\ UNCHANGED <<code, asset, session, cookLock>>
    BY <2>1 DEF Stages
  <2> QED
    BY <1>0, <2>1, <2>3, <2>4, <2>5, <2>6, <2>7, InstallerMoves
<1> QED
  BY <1>1, <1>2, <1>3

-----------------------------------------------------------------------------

\* A change of the checkout, or of who is at work: nobody else is in peace any more
LEMMA PeaceEnds ==
  ASSUME InstallInv, ipc' \in [Installers -> Stages], job' \in [Installers -> JobState],
         \A s \in Installers :
           \/ ipc'[s] = ipc[s] /\ job'[s].rel = job[s].rel /\ job'[s].quiet = FALSE
           \/ ipc'[s] \in {"probe", "stage", "hdas"},
         UNCHANGED <<copy, releases, managed, envLine, packageFile, otls, session, cookLock, dirty>>,
         code' \in Nat \ {0}, asset' \in [Hdas -> Nat], installs' \in Nat
  PROVE  InstallInv'
<1>1. InstallTypeOK'
  BY DEF InstallInv, InstallTypeOK, FilesTyped
<1>2. ReleasesWhole'
  BY DEF InstallInv, ReleasesWhole, Matches
<1>3. PointsThere'
  BY DEF InstallInv, PointsThere, There
<1>4. ASSUME NEW s \in Installers
      PROVE  HoldsRelease(ipc[s], job[s])' /\ HoldsBuild(ipc[s], job[s])'
  BY DEF InstallInv, HoldsRelease, HoldsBuild, There
<1>5. ASSUME NEW u \in Sessions
      PROVE  OnRelease(session[u])'
  BY DEF InstallInv, OnRelease
<1> QED
  BY <1>1, <1>2, <1>3, <1>4, <1>5 DEF InstallInv

\* An installer begins; somebody edits or rebuilds.
LEMMA BeginKeeps ==
  ASSUME InstallInv, NEW s \in Installers, NEW kind \in {"setup", "release", "assets"}, Begin(s, kind)
  PROVE  InstallInv'
<1> DEFINE stage == [setup |-> "probe", release |-> "stage", assets |-> "hdas"][kind]
           q == \A u \in Installers : ipc[u] = "idle"
<1>1. stage \in {"probe", "stage", "hdas"}
  OBVIOUS
<1>2. /\ ipc' = [ipc EXCEPT ![s] = stage] /\ installs' = installs + 1
      /\ UNCHANGED <<code, asset, copy, releases, managed, envLine, packageFile, otls, session, cookLock, dirty>>
  BY DEF Begin, At, Checkouts, Homes, Prefs, Others
<1> HIDE DEF stage
<1>3. PICK calm \in BOOLEAN : calm = q
  OBVIOUS
<1> DEFINE mine == [NoJob EXCEPT !.kind = kind, !.code = code, !.todo = Hdas, !.quiet = calm]
<1>4. job' = [t \in Installers |-> IF t = s THEN mine ELSE [job[t] EXCEPT !.quiet = FALSE]]
  BY <1>3 DEF Begin
<1>5. mine \in JobState
  BY InstallFacts DEF NoJob, JobState, Roots, PlainRoots, NoAssets
<1> HIDE DEF mine, q
<1>6. \A t \in Installers \ {s} : /\ [job[t] EXCEPT !.quiet = FALSE] \in JobState
                                  /\ [job[t] EXCEPT !.quiet = FALSE].rel = job[t].rel
                                  /\ [job[t] EXCEPT !.quiet = FALSE].quiet = FALSE
  BY DEF InstallInv, InstallTypeOK, JobState
<1>7. job' \in [Installers -> JobState]
  BY <1>4, <1>5, <1>6
<1>8. ipc' \in [Installers -> Stages] /\ ipc'[s] = stage /\ \A t \in Installers \ {s} : ipc'[t] = ipc[t]
  BY <1>1, <1>2 DEF InstallInv, InstallTypeOK, Stages
<1>9. \A t \in Installers \ {s} : job'[t].rel = job[t].rel /\ job'[t].quiet = FALSE
  BY <1>4, <1>6
<1>10. \A t \in Installers :
         \/ ipc'[t] = ipc[t] /\ job'[t].rel = job[t].rel /\ job'[t].quiet = FALSE
         \/ ipc'[t] \in {"probe", "stage", "hdas"}
  BY <1>1, <1>8, <1>9
<1>11. code' \in Nat \ {0} /\ asset' \in [Hdas -> Nat] /\ installs' \in Nat
  BY <1>2, InstallFacts
<1>12. ipc' \in [Installers -> Stages]
  BY <1>8
<1> QED
  BY <1>2, <1>7, <1>10, <1>11, <1>12, PeaceEnds

LEMMA CheckoutKeeps ==
  ASSUME InstallInv, EditCode \/ \E h \in Hdas : Rebuild(h) \/ Rebake(h)
  PROVE  InstallInv'
<1>0. code \in Nat \ {0} /\ asset \in [Hdas -> Nat] /\ installs \in Nat /\ ipc \in [Installers -> Stages]
  BY DEF InstallInv, InstallTypeOK, FilesTyped
<1>1. ASSUME Changed
      PROVE  /\ job' \in [Installers -> JobState]
             /\ \A s \in Installers : job'[s].rel = job[s].rel /\ job'[s].quiet = FALSE
  <2>1. \A t \in Installers : /\ [job[t] EXCEPT !.quiet = FALSE] \in JobState
                              /\ [job[t] EXCEPT !.quiet = FALSE].rel = job[t].rel
                              /\ [job[t] EXCEPT !.quiet = FALSE].quiet = FALSE
    BY DEF InstallInv, InstallTypeOK, JobState
  <2>2. job' = [t \in Installers |-> [job[t] EXCEPT !.quiet = FALSE]]
    BY <1>1 DEF Changed
  <2> QED
    BY <2>1, <2>2
<1>2. CASE EditCode
  <2>1. Changed /\ code' = code + 1
        /\ UNCHANGED <<copy, releases, managed, envLine, packageFile, otls, session, cookLock, dirty, asset, ipc, installs>>
    BY <1>2 DEF EditCode, Homes, Prefs, Others
  <2>2. code' \in Nat \ {0} /\ asset' \in [Hdas -> Nat] /\ installs' \in Nat /\ ipc' \in [Installers -> Stages]
    BY <1>0, <2>1
  <2>3. /\ job' \in [Installers -> JobState]
        /\ \A s \in Installers : ipc'[s] = ipc[s] /\ job'[s].rel = job[s].rel /\ job'[s].quiet = FALSE
    BY <1>1, <2>1
  <2> QED
    BY <2>1, <2>2, <2>3, PeaceEnds
<1>3. ASSUME NEW h \in Hdas, NEW v \in Nat, BecomesAsset(h, v)
      PROVE  InstallInv'
  <2>1. Changed /\ asset' = [asset EXCEPT ![h] = v]
        /\ UNCHANGED <<copy, releases, managed, envLine, packageFile, otls, session, cookLock, dirty, code, ipc, installs>>
    BY <1>3 DEF BecomesAsset, Homes, Prefs, Others
  <2>2. asset' \in [Hdas -> Nat]
    BY <1>0, <2>1
  <2> QED
    BY <1>0, <1>1, <2>1, <2>2, PeaceEnds
<1>4. ASSUME NEW h \in Hdas, Rebuild(h) \/ Rebake(h)
      PROVE  InstallInv'
  BY <1>0, <1>3, <1>4 DEF Rebuild, Rebake
<1> QED
  BY <1>2, <1>4

-----------------------------------------------------------------------------

\* A session moves, and nothing else but the cook lock
LEMMA SessionMoves ==
  ASSUME InstallInv, NEW u \in Sessions, NEW n \in SessionState, session' = [session EXCEPT ![u] = n], Machine,
         cookLock' \in SUBSET Sessions, OnRelease(n)
  PROVE  InstallInv'
<1>1. session' \in [Sessions -> SessionState] /\ session'[u] = n /\ \A v \in Sessions \ {u} : session'[v] = session[v]
  BY DEF InstallInv, InstallTypeOK
<1>2. InstallTypeOK'
  BY <1>1 DEF InstallInv, InstallTypeOK, FilesTyped, Machine
<1>3. ReleasesWhole' /\ PointsThere'
  BY DEF InstallInv, ReleasesWhole, Matches, PointsThere, There, Machine
<1>4. ASSUME NEW s \in Installers
      PROVE  HoldsRelease(ipc[s], job[s])' /\ HoldsBuild(ipc[s], job[s])'
  BY DEF InstallInv, HoldsRelease, HoldsBuild, There, Stale, Machine
<1>5. ASSUME NEW v \in Sessions
      PROVE  OnRelease(session[v])'
  <2>1. OnRelease(session'[v])
    BY <1>1 DEF InstallInv
  <2> QED
    BY <2>1 DEF OnRelease, Machine
<1> QED
  BY <1>2, <1>3, <1>4, <1>5 DEF InstallInv

\* A session that starts, and what it loads.
LEMMA Seated ==
  ASSUME NEW root, NEW c, NEW nodes
  PROVE  [Down EXCEPT !.up = TRUE, !.root = root, !.code = c, !.nodes = nodes]
           = [up |-> TRUE, root |-> root, code |-> c, nodes |-> nodes, cooking |-> FALSE, mixed |-> FALSE]
<1> DEFINE d == Down
<1>1. d = [up |-> FALSE, root |-> NoRoot, code |-> 0, nodes |-> NoAssets, cooking |-> FALSE, mixed |-> FALSE]
  BY DEF Down
<1> HIDE DEF d
<1> DEFINE n == [d EXCEPT !.up = TRUE, !.root = root, !.code = c, !.nodes = nodes]
           F == {"up", "root", "code", "nodes", "cooking", "mixed"}
<1>3. DOMAIN d = F /\ d["cooking"] = FALSE /\ d["mixed"] = FALSE
  BY <1>1
<1>4. n = [x \in F |-> n[x]] /\ n["up"] = TRUE /\ n["root"] = root /\ n["code"] = c /\ n["nodes"] = nodes
      /\ n["cooking"] = FALSE /\ n["mixed"] = FALSE
  BY <1>3
<1> HIDE DEF n
<1>5. n = [up |-> TRUE, root |-> root, code |-> c, nodes |-> nodes, cooking |-> FALSE, mixed |-> FALSE]
  BY <1>4
<1>2. [d EXCEPT !.up = TRUE, !.root = root, !.code = c, !.nodes = nodes]
        = [up |-> TRUE, root |-> root, code |-> c, nodes |-> nodes, cooking |-> FALSE, mixed |-> FALSE]
  BY <1>5 DEF n
<1> QED
  BY <1>2 DEF d

LEMMA PlainCode ==
  /\ CodeAt(NoRoot) = copy /\ CodeAt(Copy) = copy /\ CodeAt(Checkout) = code
<1>1. Checkout # Copy /\ Checkout # NoRoot
  BY DEF Checkout, Copy, NoRoot
<1>2. ~IsRelease(NoRoot) /\ ~IsRelease(Copy) /\ ~IsRelease(Checkout)
  BY RootForms DEF PlainRoots
<1> QED
  BY <1>1, <1>2 DEF CodeAt

LEMMA LaunchKeeps ==
  ASSUME InstallInv, NEW u \in Sessions, Launch(u)
  PROVE  InstallInv'
<1> DEFINE n == [Down EXCEPT !.up = TRUE, !.root = StartRoot, !.code = CodeAt(StartRoot), !.nodes = StartNodes]
<1>1. session' = [session EXCEPT ![u] = n] /\ cookLock' = cookLock /\ Machine
  BY DEF Launch, Seat
<1>2. n = [up |-> TRUE, root |-> StartRoot, code |-> CodeAt(StartRoot), nodes |-> StartNodes, cooking |-> FALSE, mixed |-> FALSE]
  BY Seated
<1>3. n.up = TRUE /\ n.root = StartRoot /\ n.code = CodeAt(StartRoot) /\ n.nodes = StartNodes /\ n.mixed = FALSE
  BY <1>2
<1> HIDE DEF n
<1>4. FilesTyped /\ PointsThere /\ cookLock \in SUBSET Sessions
  BY DEF InstallInv, InstallTypeOK
<1>5. packageFile.root \in Roots /\ packageFile.otls \in BOOLEAN /\ StartRoot \in Roots
  BY <1>4 DEF FilesTyped, StartRoot, Roots
<1>6. packageFile.otls => \E id \in DOMAIN releases : packageFile.root = Release(id) /\ StartNodes = releases[id].asset
  BY <1>4, RootForms DEF PointsThere, There, StartNodes
<1>7. StartNodes \in [Hdas -> Nat]
  BY <1>4, <1>6 DEF FilesTyped, Content, StartNodes
<1>8. IsRelease(StartRoot) => packageFile.otls /\ StartRoot = packageFile.root
  BY <1>4, <1>5, RootForms DEF StartRoot, PointsThere, FilesTyped
<1>9. \A id \in DOMAIN releases : CodeAt(Release(id)) = releases[id].code
  BY RootForms DEF CodeAt, PlainRoots
<1>10. CodeAt(StartRoot) \in Nat
  <2>1. CASE IsRelease(StartRoot)
    BY <1>4, <1>6, <1>8, <1>9, <2>1 DEF FilesTyped, Content
  <2>2. CASE ~IsRelease(StartRoot)
    <3>1. StartRoot \in PlainRoots
      BY <1>5, <2>2, RootForms DEF Roots
    <3> QED
      BY <1>4, <3>1, PlainCode DEF PlainRoots, FilesTyped
  <2> QED
    BY <2>1, <2>2
<1>11. n \in SessionState
  BY <1>2, <1>5, <1>7, <1>10 DEF SessionState
<1>12. OnRelease(n)
  BY <1>3, <1>6, <1>8, <1>9 DEF OnRelease
<1> QED
  BY <1>1, <1>4, <1>11, <1>12, SessionMoves

\* What a session does later: a release it loaded from stays as it was.
LEMMA SessionKeeps ==
  ASSUME InstallInv, NEW u \in Sessions, Quit(u) \/ Cook(u) \/ CookEnds(u) \/ Import(u)
  PROVE  InstallInv'
<1>0. session[u] \in SessionState /\ OnRelease(session[u]) /\ cookLock \in SUBSET Sessions
  BY DEF InstallInv, InstallTypeOK
<1>1. CASE Quit(u)
  <2>1. session' = [session EXCEPT ![u] = Down] /\ cookLock' = cookLock \ {u} /\ Machine
    BY <1>1 DEF Quit, Seat
  <2>2. Down \in SessionState /\ ~Down.up
    BY DEF Down, SessionState, NoAssets, Roots, PlainRoots
  <2> QED
    BY <1>0, <2>1, <2>2, SessionMoves DEF OnRelease
<1>2. ASSUME NEW b \in BOOLEAN, session' = [session EXCEPT ![u] = [session[u] EXCEPT !.cooking = b]],
             cookLock' \in SUBSET Sessions, Machine
      PROVE  InstallInv'
  <2> DEFINE n == [session[u] EXCEPT !.cooking = b]
  <2>1. /\ n \in SessionState /\ n.up = session[u].up /\ n.root = session[u].root /\ n.code = session[u].code
        /\ n.nodes = session[u].nodes /\ n.mixed = session[u].mixed
    BY <1>0 DEF SessionState
  <2>2. session' = [session EXCEPT ![u] = n]
    BY <1>2
  <2> HIDE DEF n
  <2>3. OnRelease(n)
    BY <1>0, <2>1 DEF OnRelease
  <2> QED
    BY <1>2, <2>1, <2>2, <2>3, SessionMoves
<1>3. CASE Cook(u)
  BY <1>0, <1>2, <1>3 DEF Cook, Seat
<1>4. CASE CookEnds(u)
  BY <1>0, <1>2, <1>4 DEF CookEnds, Seat
<1>5. CASE Import(u)
  <2> DEFINE n == [session[u] EXCEPT !.mixed = TRUE]
  <2>1. n \in SessionState /\ n.up = session[u].up /\ n.root = session[u].root
    BY <1>0 DEF SessionState
  <2>2. session' = [session EXCEPT ![u] = n] /\ cookLock' = cookLock /\ Machine /\ CodeAt(session[u].root) # session[u].code
    BY <1>5 DEF Import, Seat
  <2> HIDE DEF n
  <2>3. \A id \in DOMAIN releases : CodeAt(Release(id)) = releases[id].code
    BY RootForms DEF CodeAt, PlainRoots
  <2>4. OnRelease(n)
    BY <1>0, <2>1, <2>2, <2>3 DEF OnRelease
  <2> QED
    BY <1>0, <2>1, <2>2, <2>4, SessionMoves
<1> QED
  BY <1>1, <1>3, <1>4, <1>5

\* The inductive invariant of installers and sessions.
THEOREM InstallInvariant == InstallSpec => []InstallInv
<1>1. InstallInit => InstallInv
  <2> SUFFICES ASSUME InstallInit PROVE InstallInv
    OBVIOUS
  <2>1. releases = <<>> /\ DOMAIN releases = {}
    BY DEF InstallInit
  <2>2. NoJob \in JobState /\ Down \in SessionState /\ NoPackageFile \in [root : Roots, otls : BOOLEAN]
        /\ NoPackageFile.otls = FALSE /\ NoPackageFile.root \in PlainRoots /\ ~Down.up
    BY DEF NoJob, JobState, Down, SessionState, NoAssets, Roots, PlainRoots, NoPackageFile
  <2>3. releases \in [DOMAIN releases -> Content]
    BY <2>1
  <2>4. envLine \in PlainRoots
    BY InstallationAssumption DEF InstallInit, PlainRoots, NoRoot, Copy, Checkout
  <2>5. FilesTyped
    <3>1. code = 1 /\ copy = 1 /\ managed = FALSE /\ packageFile = NoPackageFile
      BY DEF InstallInit
    <3>2. asset \in [Hdas -> Nat] /\ otls \in [Hdas -> Nat]
      <4>1. {1, Unbaked} \subseteq Nat
        BY InstallationAssumption DEF Unbaked
      <4>2. asset \in [Hdas -> {1, Unbaked}] /\ otls = asset
        BY DEF InstallInit
      <4> QED
        BY <4>1, <4>2
    <3>5. DOMAIN releases \subseteq Builds
      BY <2>1
    <3>6. 1 \in Nat \ {0}
      OBVIOUS
    <3>3. code \in Nat \ {0} /\ copy \in Nat /\ managed \in BOOLEAN
      BY <3>1, <3>6
    <3>4. packageFile \in [root : Roots, otls : BOOLEAN]
      BY <2>2, <3>1
    <3> QED
      BY <2>3, <2>4, <3>2, <3>3, <3>4, <3>5 DEF FilesTyped
  <2>6. InstallTypeOK
    BY <2>2, <2>5 DEF InstallInit, InstallTypeOK, Stages
  <2>7. ReleasesWhole /\ PointsThere
    BY <2>1, <2>2 DEF InstallInit, ReleasesWhole, PointsThere
  <2>8. \A s \in Installers : ipc[s] = "idle" /\ job[s] = NoJob
    BY DEF InstallInit
  <2>9. \A s \in Installers : HoldsRelease(ipc[s], job[s]) /\ HoldsBuild(ipc[s], job[s])
    BY <2>8 DEF HoldsRelease, HoldsBuild
  <2>10. \A u \in Sessions : OnRelease(session[u])
    BY <2>2 DEF InstallInit, OnRelease
  <2> QED
    BY <2>6, <2>7, <2>9, <2>10 DEF InstallInv
<1>2. ASSUME InstallInv, [InstallNext]_installVars
      PROVE  InstallInv'
  <2>1. CASE UNCHANGED installVars
    <3>1. InstallTypeOK'
      BY <1>2, <2>1 DEF installVars, InstallInv, InstallTypeOK, FilesTyped
    <3>2. ReleasesWhole' /\ PointsThere'
      BY <1>2, <2>1 DEF installVars, InstallInv, ReleasesWhole, Matches, PointsThere, There
    <3>3. \A s \in Installers : HoldsRelease(ipc[s], job[s])' /\ HoldsBuild(ipc[s], job[s])'
      BY <1>2, <2>1 DEF installVars, InstallInv, HoldsRelease, HoldsBuild, There, Stale
    <3>4. \A u \in Sessions : OnRelease(session[u])'
      BY <1>2, <2>1 DEF installVars, InstallInv, OnRelease
    <3> QED
      BY <3>1, <3>2, <3>3, <3>4 DEF InstallInv
  <2>2. ASSUME NEW s \in Installers, NEW kind \in {"setup", "release", "assets"}, Begin(s, kind)
        PROVE  InstallInv'
    BY <1>2, <2>2, BeginKeeps
  <2>3. ASSUME NEW s \in Installers,
               \/ StageStart(s) \/ StageCode(s) \/ StageAssets(s) \/ StageRename(s)
               \/ \E id \in DOMAIN releases : Reinstall(s, id)
               \/ Fallback(s) \/ Unline(s) \/ Point(s) \/ Note(s)
               \/ Probe(s) \/ MoveAway(s) \/ MoveIn(s) \/ WriteEnv(s) \/ CopiedHda(s) \/ End(s)
        PROVE  InstallInv'
    BY <1>2, <2>3, StageKeeps, RenameKeeps, ActivateKeeps, PlainKeeps
  <2>4. ASSUME NEW s \in Installers, NEW h \in Hdas, SkipHda(s, h) \/ CopyHda(s, h)
        PROVE  InstallInv'
    BY <1>2, <2>4, HdaKeeps
  <2>5. ASSUME NEW u \in Sessions, Launch(u) \/ Quit(u) \/ Cook(u) \/ CookEnds(u) \/ Import(u)
        PROVE  InstallInv'
    BY <1>2, <2>5, LaunchKeeps, SessionKeeps
  <2> QED
    BY <1>2, <2>1, <2>2, <2>3, <2>4, <2>5, CheckoutKeeps DEF InstallNext
<1> QED
  BY <1>1, <1>2, PTL DEF InstallSpec

\* The types of installers and sessions.
THEOREM InstallTypeCorrect == InstallSpec => []InstallTypeOK
<1>1. InstallInv => InstallTypeOK
  BY DEF InstallInv
<1> QED
  BY <1>1, InstallInvariant, PTL

\* A session that started on a release staged while nobody touched the checkout has
\* the code and the assets of one build, and keeps them whatever is installed next.
THEOREM ReleasesAreOneBuild == InstallSpec => []ReleaseIsOneBuild
<1>1. InstallInv => ReleaseIsOneBuild
  <2> SUFFICES ASSUME InstallInv, NEW u \in Sessions, session[u].up, IsRelease(session[u].root),
                      session[u].root[2] \notin dirty
               PROVE  Matches(session[u].code, session[u].nodes) /\ ~session[u].mixed
    BY DEF ReleaseIsOneBuild
  <2>1. PICK id \in DOMAIN releases :
          /\ session[u].root = Release(id) /\ session[u].code = releases[id].code
          /\ session[u].nodes = releases[id].asset /\ ~session[u].mixed
    BY DEF InstallInv, OnRelease
  <2>2. session[u].root[2] = id
    BY <2>1, RootForms
  <2> QED
    BY <2>1, <2>2 DEF InstallInv, ReleasesWhole
<1> QED
  BY <1>1, InstallInvariant, PTL

-----------------------------------------------------------------------------
(* CommandLine                                                             *)

\* The configuration file, and a command that works on it.
ConfigState == [there : BOOLEAN, volume : Volumes \cup {NoVolume}, region : Regions, template : BOOLEAN,
                licence : BOOLEAN, measured : Nat, xpu : Nat, hand : Nat, blind : BOOLEAN]
ConfigFields == {"there", "volume", "region", "template", "licence", "measured", "xpu", "hand", "blind"}
Places == {"idle", "volume", "region", "template", "save", "create", "find", "token", "mint", "measure",
           "exec", "watch", "done"}
ShellState == [kind : Kinds \cup {"none"}, at : Places, cfg : ConfigState, first : BOOLEAN, stale : BOOLEAN,
               volume : Volumes \cup {NoVolume}, licence : BOOLEAN, yes : BOOLEAN]

CliTypeOK ==
  /\ config \in ConfigState /\ account \in [DOMAIN account -> Regions] /\ DOMAIN account \subseteq Volumes
  /\ template \in BOOLEAN /\ token \in BOOLEAN /\ shell \in [Shells -> ShellState]
  /\ tree \in {"whole", "going", "gone"} /\ commands \in Nat /\ edits \in Nat

\* A configuration whose volume is where its region says
Placed(c) == c.volume \in DOMAIN account /\ c.region = account[c.volume]

\* The commands that save the configuration.
Saving == {"setup", "doctor", "xpu", "recreate"}

\* Which commands pass which place
OnItsWay(c) ==
  /\ c.at \in {"volume", "region", "template"} => c.kind = "setup"
  /\ c.at = "create" => c.kind = "recreate"
  /\ c.at = "find" => c.kind = "doctor"
  /\ c.at = "measure" => c.kind \in {"doctor", "xpu"}
  /\ c.at = "save" => c.kind \in Saving
  /\ c.at \in {"token", "mint"} => c.kind \notin {"recreate", "none"}

\* A command that has its region, or never looks for one
KnowsRegion(c) ==
  \/ c.at \in {"template", "save", "find", "measure"}
  \/ c.at \in {"token", "mint"} /\ c.kind \in {"doctor", "xpu"}

\* A command that has loaded the configuration and not saved it
AtWork(c) ==
  /\ c.kind \in Saving /\ c.at \notin {"idle", "exec", "watch", "done"}
  /\ c.kind = "setup" => c.at \notin {"token", "mint"}

\* ... holds what is in the file, but for its own fields
Agrees(c) ==
  AtWork(c) =>
    /\ c.cfg.there = TRUE
    /\ ~c.stale => /\ c.first = ~config.there
                   /\ \A f \in ConfigFields \ {"there"} : c.cfg[f] # config[f] => f \in OwnFields[c.kind]

\* A file that names a volume has its region, unless somebody edited it blindly, and
\* so has every command that knows the region.
CliInv ==
  /\ CliTypeOK
  /\ config.there /\ ~config.blind => Placed(config)
  /\ \A s \in Shells : /\ OnItsWay(shell[s]) /\ Agrees(shell[s])
                       /\ KnowsRegion(shell[s]) => shell[s].cfg.blind \/ Placed(shell[s].cfg)

\* Volumes stay where they are
Grows == \A v \in DOMAIN account : v \in DOMAIN account' /\ account'[v] = account[v]

LEMMA PlacedStays ==
  ASSUME Grows, NEW c, Placed(c)
  PROVE  c.volume \in DOMAIN account' /\ c.region = account'[c.volume]
  BY DEF Grows, Placed

\* One command moves, and the file stays
LEMMA OneShellMoves ==
  ASSUME CliInv, NEW s \in Shells, NEW c \in ShellState, shell' = [shell EXCEPT ![s] = c],
         UNCHANGED config, Grows, account' \in [DOMAIN account' -> Regions], DOMAIN account' \subseteq Volumes,
         template' \in BOOLEAN, token' \in BOOLEAN, tree' \in {"whole", "going", "gone"},
         commands' \in Nat, edits' \in Nat,
         OnItsWay(c), Agrees(c),
         KnowsRegion(c) => c.cfg.blind \/ (c.cfg.volume \in DOMAIN account' /\ c.cfg.region = account'[c.cfg.volume])
  PROVE  CliInv'
<1>1. shell' \in [Shells -> ShellState] /\ shell'[s] = c /\ \A t \in Shells \ {s} : shell'[t] = shell[t]
  BY DEF CliInv, CliTypeOK
<1>2. CliTypeOK'
  BY <1>1 DEF CliInv, CliTypeOK
<1>3. (config.there /\ ~config.blind => Placed(config))'
  BY PlacedStays DEF CliInv, Placed
<1>4. ASSUME NEW t \in Shells
      PROVE  /\ OnItsWay(shell'[t]) /\ Agrees(shell[t])'
             /\ KnowsRegion(shell'[t]) => shell'[t].cfg.blind \/ Placed(shell[t].cfg)'
  <2>1. CASE t = s
    BY <1>1, <2>1 DEF Placed, Agrees
  <2>2. CASE t # s
    BY <1>1, <2>2, PlacedStays DEF CliInv, Placed, Agrees
  <2> QED
    BY <2>1, <2>2
<1> QED
  BY <1>2, <1>3, <1>4 DEF CliInv

\* What a command that only moves on becomes
LEMMA JustMoves ==
  ASSUME CliInv, NEW s \in Shells, NEW from, NEW to \in Places, Step(s, from, to, None)
  PROVE  \E c \in ShellState :
           /\ shell' = [shell EXCEPT ![s] = c] /\ shell[s].at = from /\ c.at = to
           /\ c.kind = shell[s].kind /\ c.cfg = shell[s].cfg /\ c.first = shell[s].first /\ c.stale = shell[s].stale
<1> DEFINE c == [f \in DOMAIN shell[s] |-> IF f = "at" THEN to ELSE IF f \in DOMAIN None THEN None[f] ELSE shell[s][f]]
<1>1. shell[s] \in ShellState
  BY DEF CliInv, CliTypeOK
<1>2. DOMAIN None = {}
  BY DEF None
<1>3. c = [shell[s] EXCEPT !.at = to]
  BY <1>1, <1>2 DEF ShellState
<1>4. c \in ShellState /\ c.at = to /\ c.kind = shell[s].kind /\ c.cfg = shell[s].cfg /\ c.first = shell[s].first
      /\ c.stale = shell[s].stale
  BY <1>1, <1>3 DEF ShellState
<1>5. shell' = [shell EXCEPT ![s] = c] /\ shell[s].at = from
  BY DEF Step
<1> HIDE DEF c
<1> QED
  BY <1>4, <1>5

\* New values for some of the fields
Fitting(changes) ==
  /\ "there" \notin DOMAIN changes
  /\ "volume" \in DOMAIN changes => changes["volume"] \in Volumes \cup {NoVolume}
  /\ "region" \in DOMAIN changes => changes["region"] \in Regions
  /\ \A f \in {"template", "licence", "blind"} : f \in DOMAIN changes => changes[f] \in BOOLEAN
  /\ \A f \in {"measured", "xpu", "hand"} : f \in DOMAIN changes => changes[f] \in Nat

Became(s, from, to, changes, c) ==
  /\ c \in ShellState /\ shell' = [shell EXCEPT ![s] = c] /\ shell[s].at = from /\ c.at = to
  /\ c.kind = shell[s].kind /\ c.first = shell[s].first /\ c.stale = shell[s].stale
  /\ \A f \in ConfigFields : c.cfg[f] = IF f \in DOMAIN changes THEN changes[f] ELSE shell[s].cfg[f]

\* ... and one that changes what it loaded
LEMMA ChangesLoaded ==
  ASSUME CliInv, NEW s \in Shells, NEW from, NEW to \in Places, NEW changes, Step(s, from, to, With(s, changes)),
         Fitting(changes)
  PROVE  \E c : Became(s, from, to, changes, c)
<1> DEFINE g == Loaded(s, changes)
           c == [f \in DOMAIN shell[s] |-> IF f = "at" THEN to ELSE IF f \in DOMAIN With(s, changes) THEN With(s, changes)[f] ELSE shell[s][f]]
<1>1. shell[s] \in ShellState /\ shell[s].cfg \in ConfigState
  BY DEF CliInv, CliTypeOK, ShellState
<1>2. DOMAIN shell[s].cfg = ConfigFields
  BY <1>1 DEF ConfigState, ConfigFields
<1>3. /\ \A f \in ConfigFields : g[f] = IF f \in DOMAIN changes THEN changes[f] ELSE shell[s].cfg[f]
      /\ DOMAIN g = ConfigFields /\ g = [f \in ConfigFields |-> g[f]]
  BY <1>2 DEF Loaded
<1>4. DOMAIN With(s, changes) = {"cfg"} /\ With(s, changes)["cfg"] = g
  BY DEF With
<1> HIDE DEF g
<1>5. /\ g.there \in BOOLEAN /\ g.volume \in Volumes \cup {NoVolume} /\ g.region \in Regions /\ g.template \in BOOLEAN
      /\ g.licence \in BOOLEAN /\ g.measured \in Nat /\ g.xpu \in Nat /\ g.hand \in Nat /\ g.blind \in BOOLEAN
  BY <1>1, <1>3 DEF ConfigState, ConfigFields, Fitting
<1>6. g \in ConfigState
  <2>1. g = [there |-> g.there, volume |-> g.volume, region |-> g.region, template |-> g.template,
             licence |-> g.licence, measured |-> g.measured, xpu |-> g.xpu, hand |-> g.hand, blind |-> g.blind]
    BY <1>3 DEF ConfigFields
  <2> QED
    BY <1>5, <2>1 DEF ConfigState
<1>7. c = [shell[s] EXCEPT !.at = to, !.cfg = g]
  BY <1>1, <1>4 DEF ShellState
<1>8. shell' = [shell EXCEPT ![s] = c] /\ shell[s].at = from
  BY DEF Step
<1>9. c \in ShellState /\ c.at = to /\ c.kind = shell[s].kind /\ c.cfg = g /\ c.first = shell[s].first
      /\ c.stale = shell[s].stale
  BY <1>1, <1>6, <1>7 DEF ShellState
<1> HIDE DEF c
<1>10. Became(s, from, to, changes, c)
  BY <1>3, <1>8, <1>9 DEF Became
<1> QED
  BY <1>10

\* Where a command goes when it has its token.
LEMMA AfterTokenIs ==
  ASSUME CliInv, NEW s \in Shells, shell[s].at \in {"token", "mint"}
  PROVE  /\ AfterToken(s) \in Places
         /\ AfterToken(s) = "measure" => shell[s].kind \in {"doctor", "xpu"}
         /\ AfterToken(s) \in {"exec", "done", "measure"}
  BY DEF CliInv, CliTypeOK, ShellState, Kinds, OnItsWay, AfterToken, Places

\* A place reached with what was loaded
LEMMA MovingOn ==
  ASSUME CliInv, NEW s \in Shells, NEW from, NEW to \in Places, Step(s, from, to, None),
         UNCHANGED <<config, account>>,
         template' \in BOOLEAN, token' \in BOOLEAN, tree' \in {"whole", "going", "gone"}, commands' \in Nat, edits' \in Nat,
         \/ to \in {"exec", "watch", "done"}
         \/ from \in {"token", "mint"} /\ to = "mint"
         \/ from \in {"token", "mint"} /\ to = "measure" /\ shell[s].kind \in {"doctor", "xpu"}
         \/ from = "find" /\ to = "token"
  PROVE  CliInv'
<1>1. PICK c \in ShellState :
        /\ shell' = [shell EXCEPT ![s] = c] /\ shell[s].at = from /\ c.at = to
        /\ c.kind = shell[s].kind /\ c.cfg = shell[s].cfg /\ c.first = shell[s].first /\ c.stale = shell[s].stale
  BY JustMoves
<1>2. /\ OnItsWay(shell[s]) /\ Agrees(shell[s])
      /\ KnowsRegion(shell[s]) => shell[s].cfg.blind \/ Placed(shell[s].cfg)
  BY DEF CliInv
<1>3. OnItsWay(c)
  BY <1>1, <1>2 DEF OnItsWay
<1>4. AtWork(c) => AtWork(shell[s])
  BY <1>1, <1>2 DEF AtWork, OnItsWay, Saving
<1>5. Agrees(c)
  BY <1>1, <1>2, <1>4 DEF Agrees
<1>6. KnowsRegion(c) => KnowsRegion(shell[s])
  BY <1>1, <1>2 DEF KnowsRegion, OnItsWay
<1>7. KnowsRegion(c) => c.cfg.blind \/ (c.cfg.volume \in DOMAIN account' /\ c.cfg.region = account'[c.cfg.volume])
  BY <1>1, <1>2, <1>6 DEF Placed
<1>8. Grows /\ account' \in [DOMAIN account' -> Regions] /\ DOMAIN account' \subseteq Volumes
  BY DEF Grows, CliInv, CliTypeOK
<1> QED
  BY <1>1, <1>3, <1>5, <1>7, <1>8, OneShellMoves

\* The steps that change nothing of what was loaded.
LEMMA PassingKeeps ==
  ASSUME CliInv, NEW s \in Shells,
         \/ ReadToken(s) \/ WriteToken(s) \/ FindSyncPod(s) \/ Exec(s) \/ Answered(s) \/ Deadline(s)
  PROVE  CliInv'
<1>1. /\ template \in BOOLEAN /\ token \in BOOLEAN /\ tree \in {"whole", "going", "gone"} /\ commands \in Nat /\ edits \in Nat
  BY DEF CliInv, CliTypeOK
<1> USE DEF Counts, Remote
<1>2. CASE ReadToken(s)
  <2>1. shell[s].at = "token"
    BY <1>2 DEF ReadToken, Step
  <2> DEFINE to == IF token THEN AfterToken(s) ELSE "mint"
  <2>2. /\ to \in Places
        /\ \/ to \in {"exec", "done", "mint"}
           \/ to = "measure" /\ shell[s].kind \in {"doctor", "xpu"}
    BY <2>1, AfterTokenIs DEF Places
  <2>3. Step(s, "token", to, None) /\ UNCHANGED <<config, token, commands, edits, account, template, tree>>
    BY <1>2 DEF ReadToken
  <2> HIDE DEF to
  <2> QED
    BY <1>1, <2>2, <2>3, MovingOn
<1>3. CASE WriteToken(s)
  <2>1. shell[s].at = "mint"
    BY <1>3 DEF WriteToken, Step
  <2> DEFINE to == AfterToken(s)
  <2>2. /\ to \in Places
        /\ \/ to \in {"exec", "done"}
           \/ to = "measure" /\ shell[s].kind \in {"doctor", "xpu"}
    BY <2>1, AfterTokenIs
  <2>3. Step(s, "mint", to, None) /\ UNCHANGED <<config, commands, edits, account, template, tree>> /\ token' = TRUE
    BY <1>3 DEF WriteToken
  <2> HIDE DEF to
  <2> QED
    BY <1>1, <2>2, <2>3, MovingOn
<1>4. CASE FindSyncPod(s)
  BY <1>1, <1>4, MovingOn DEF FindSyncPod, Places
<1>5. CASE Exec(s)
  BY <1>1, <1>5, MovingOn DEF Exec, Places
<1>6. CASE Answered(s)
  BY <1>1, <1>6, MovingOn DEF Answered, Places
<1>7. CASE Deadline(s)
  <2>1. tree' = tree
    BY <1>7 DEF Deadline, Synchronous
  <2> QED
    BY <1>1, <1>7, <2>1, MovingOn DEF Deadline, Places
<1> QED
  BY <1>2, <1>3, <1>4, <1>5, <1>6, <1>7

\* A place reached with a change of the command's own fields
LEMMA Changing ==
  ASSUME CliInv, NEW s \in Shells, NEW from \in {"volume", "region", "template", "create", "measure"},
         NEW to \in {"region", "template", "save"}, NEW changes, Step(s, from, to, With(s, changes)),
         UNCHANGED config, Grows, account' \in [DOMAIN account' -> Regions], DOMAIN account' \subseteq Volumes,
         template' \in BOOLEAN, token' \in BOOLEAN, tree' \in {"whole", "going", "gone"}, commands' \in Nat, edits' \in Nat,
         Fitting(changes), DOMAIN changes \subseteq OwnFields[shell[s].kind],
         to \in {"region", "template"} => shell[s].kind = "setup",
         LET After(f) == IF f \in DOMAIN changes THEN changes[f] ELSE shell[s].cfg[f]
         IN  to # "region" => After("blind") \/ (After("volume") \in DOMAIN account' /\ After("region") = account'[After("volume")])
  PROVE  CliInv'
<1>0. PICK c : Became(s, from, to, changes, c)
  <2>1. to \in Places
    BY DEF Places
  <2> QED
    BY <2>1, ChangesLoaded
<1>1. /\ c \in ShellState /\ shell' = [shell EXCEPT ![s] = c] /\ shell[s].at = from /\ c.at = to
      /\ c.kind = shell[s].kind /\ c.first = shell[s].first /\ c.stale = shell[s].stale
      /\ \A f \in ConfigFields : c.cfg[f] = IF f \in DOMAIN changes THEN changes[f] ELSE shell[s].cfg[f]
  BY <1>0 DEF Became
<1>2. OnItsWay(shell[s]) /\ Agrees(shell[s])
  BY DEF CliInv
<1>3. shell[s].kind \in Saving
  BY <1>1, <1>2 DEF OnItsWay, Saving
<1>4. OnItsWay(c)
  BY <1>1, <1>3 DEF OnItsWay
<1>5. AtWork(shell[s])
  BY <1>1, <1>3 DEF AtWork
<1>6. Agrees(c)
  <2>1. c.cfg.there = TRUE
    BY <1>1, <1>2, <1>5 DEF Agrees, ConfigFields, Fitting
  <2> QED
    BY <1>1, <1>2, <1>5, <2>1 DEF Agrees
<1>7. /\ c.cfg.blind = IF "blind" \in DOMAIN changes THEN changes["blind"] ELSE shell[s].cfg["blind"]
      /\ c.cfg.volume = IF "volume" \in DOMAIN changes THEN changes["volume"] ELSE shell[s].cfg["volume"]
      /\ c.cfg.region = IF "region" \in DOMAIN changes THEN changes["region"] ELSE shell[s].cfg["region"]
  BY <1>1 DEF ConfigFields
<1>8. KnowsRegion(c) => c.cfg.blind \/ (c.cfg.volume \in DOMAIN account' /\ c.cfg.region = account'[c.cfg.volume])
  BY <1>1, <1>7 DEF KnowsRegion
<1> QED
  BY <1>1, <1>4, <1>6, <1>8, OneShellMoves

\* What the steps may use.
LEMMA ShellTyped ==
  ASSUME CliInv, NEW s \in Shells
  PROVE  /\ shell[s].cfg \in ConfigState /\ shell[s].cfg.volume \in Volumes \cup {NoVolume}
         /\ shell[s].cfg.region \in Regions /\ shell[s].cfg.licence \in BOOLEAN /\ shell[s].cfg.blind \in BOOLEAN
         /\ shell[s].volume \in Volumes \cup {NoVolume} /\ shell[s].licence \in BOOLEAN
         /\ OnItsWay(shell[s]) /\ account \in [DOMAIN account -> Regions] /\ DOMAIN account \subseteq Volumes
         /\ template \in BOOLEAN /\ token \in BOOLEAN /\ tree \in {"whole", "going", "gone"}
         /\ commands \in Nat /\ edits \in Nat
         /\ KnowsRegion(shell[s]) => shell[s].cfg.blind \/ Placed(shell[s].cfg)
  BY DEF CliInv, CliTypeOK, ShellState, ConfigState

\* The steps that change what was loaded, one by one.
LEMMA VolumeKeeps ==
  ASSUME CliInv, NEW s \in Shells, KeepVolume(s) \/ PickVolume(s)
  PROVE  CliInv'
<1>1. PICK v \in Volumes \cup {NoVolume} : Step(s, "volume", "region", With(s, [volume |-> v]))
  BY ShellTyped DEF KeepVolume, PickVolume
<1>2. UNCHANGED <<config, token, commands, edits, account, template, tree>>
  BY DEF KeepVolume, PickVolume, Counts, Remote
<1>3. shell[s].kind = "setup"
  BY <1>1, ShellTyped DEF Step, OnItsWay
<1>4. DOMAIN [volume |-> v] = {"volume"} /\ {"volume"} \subseteq OwnFields[shell[s].kind] /\ [volume |-> v]["volume"] = v
  BY <1>3 DEF OwnFields
<1>5. Grows
  BY <1>2 DEF Grows
<1> QED
  BY <1>1, <1>2, <1>3, <1>4, <1>5, ShellTyped, Changing DEF Fitting

LEMMA CreateKeeps ==
  ASSUME CliInv, NEW s \in Shells, NEW v \in Volumes, FirstVolume(s, v) \/ Recreate(s, v),
         HomeRegion \in Regions
  PROVE  CliInv'
<1>1. ASSUME NEW region \in Regions, NEW from, NEW to, NEW b, CreateVolume(s, v, region, from, to),
             b = (from = "create" /\ shell[s].cfg.blind)
      PROVE  /\ Step(s, from, to, With(s, [volume |-> v, blind |-> b]))
             /\ Grows /\ account' \in [DOMAIN account' -> Regions] /\ DOMAIN account' \subseteq Volumes
             /\ v \in DOMAIN account' /\ account'[v] = region
             /\ UNCHANGED <<config, token, template, tree, commands, edits>>
  <2>1. account' = [w \in DOMAIN account \cup {v} |-> IF w = v THEN region ELSE account[w]] /\ v \notin DOMAIN account
    BY <1>1 DEF CreateVolume
  <2>2. Grows /\ account' \in [DOMAIN account' -> Regions] /\ DOMAIN account' \subseteq Volumes
        /\ v \in DOMAIN account' /\ account'[v] = region
    BY <2>1, ShellTyped DEF Grows
  <2> QED
    BY <1>1, <2>2 DEF CreateVolume, Counts
<1>2. ASSUME NEW b
      PROVE  DOMAIN [volume |-> v, blind |-> b] = {"volume", "blind"} /\ [volume |-> v, blind |-> b]["volume"] = v
             /\ [volume |-> v, blind |-> b]["blind"] = b
  OBVIOUS
<1>3. CASE FirstVolume(s, v)
  <2>1. CreateVolume(s, v, HomeRegion, "volume", "region")
    BY <1>3 DEF FirstVolume
  <2>2. shell[s].kind = "setup"
    BY <2>1, ShellTyped DEF CreateVolume, Step, OnItsWay
  <2>3. {"volume", "blind"} \subseteq OwnFields[shell[s].kind]
    BY <2>2 DEF OwnFields
  <2>4. PICK b \in BOOLEAN : b = ("volume" = "create" /\ shell[s].cfg.blind)
    OBVIOUS
  <2>5. /\ Step(s, "volume", "region", With(s, [volume |-> v, blind |-> b]))
        /\ Grows /\ account' \in [DOMAIN account' -> Regions] /\ DOMAIN account' \subseteq Volumes
        /\ v \in DOMAIN account' /\ account'[v] = HomeRegion
        /\ UNCHANGED <<config, token, template, tree, commands, edits>>
    BY <1>1, <2>1, <2>4
  <2> QED
    BY <1>2, <2>2, <2>3, <2>5, ShellTyped, Changing DEF Fitting
<1>4. CASE Recreate(s, v)
  <2>1. CreateVolume(s, v, shell[s].cfg.region, "create", "save")
    BY <1>4 DEF Recreate
  <2>2. shell[s].kind = "recreate"
    BY <2>1, ShellTyped DEF CreateVolume, Step, OnItsWay
  <2>3. {"volume", "blind"} \subseteq OwnFields[shell[s].kind]
    BY <2>2 DEF OwnFields
  <2>4. PICK b \in BOOLEAN : b = ("create" = "create" /\ shell[s].cfg.blind)
    OBVIOUS
  <2>5. /\ Step(s, "create", "save", With(s, [volume |-> v, blind |-> b]))
        /\ Grows /\ account' \in [DOMAIN account' -> Regions] /\ DOMAIN account' \subseteq Volumes
        /\ v \in DOMAIN account' /\ account'[v] = shell[s].cfg.region
        /\ UNCHANGED <<config, token, template, tree, commands, edits>>
    BY <1>1, <2>1, <2>4, ShellTyped
  <2> QED
    BY <1>2, <2>3, <2>5, ShellTyped, Changing DEF Fitting
<1> QED
  BY <1>3, <1>4

LEMMA RegionKeeps ==
  ASSUME CliInv, NEW s \in Shells, RegionOfVolume(s) \/ RegionUnread(s)
  PROVE  CliInv'
<1> DEFINE v == shell[s].cfg.volume
<1>1. UNCHANGED <<config, token, commands, edits, account, template, tree>> /\ Grows /\ shell[s].at = "region"
  BY DEF RegionOfVolume, RegionUnread, Counts, Remote, Grows, Step
<1>2. shell[s].kind = "setup"
  BY <1>1, ShellTyped DEF OnItsWay
<1>3. {"region", "blind"} \subseteq OwnFields[shell[s].kind]
  BY <1>2 DEF OwnFields
<1>4. CASE Step(s, "region", "template", With(s, [blind |-> TRUE]))
  <2>1. DOMAIN [blind |-> TRUE] = {"blind"} /\ [blind |-> TRUE]["blind"] = TRUE
    OBVIOUS
  <2> QED
    BY <1>1, <1>2, <1>3, <1>4, <2>1, ShellTyped, Changing DEF Fitting
<1>5. ASSUME v \in DOMAIN account, Step(s, "region", "template", With(s, [region |-> account[v], blind |-> FALSE]))
      PROVE  CliInv'
  <2>1. PICK r \in Regions : r = account[v]
    BY <1>5, ShellTyped
  <2>2. DOMAIN [region |-> r, blind |-> FALSE] = {"region", "blind"} /\ [region |-> r, blind |-> FALSE]["blind"] = FALSE
        /\ [region |-> r, blind |-> FALSE]["region"] = r
    OBVIOUS
  <2>3. Step(s, "region", "template", With(s, [region |-> r, blind |-> FALSE]))
    BY <1>5, <2>1
  <2> QED
    BY <1>1, <1>2, <1>3, <1>5, <2>1, <2>2, <2>3, ShellTyped, Changing DEF Fitting
<1> QED
  BY <1>4, <1>5 DEF RegionOfVolume, RegionUnread

LEMMA TemplateKeeps ==
  ASSUME CliInv, NEW s \in Shells, TakeTemplate(s)
  PROVE  CliInv'
<1>1. PICK l \in BOOLEAN : l = (shell[s].licence \/ shell[s].cfg.licence)
  OBVIOUS
<1>2. Step(s, "template", "save", With(s, [template |-> TRUE, licence |-> l]))
  BY <1>1 DEF TakeTemplate
<1>3. UNCHANGED <<config, token, commands, edits, account, tree>> /\ Grows /\ shell[s].at = "template" /\ template' = TRUE
  BY DEF TakeTemplate, Counts, Grows, Step
<1>4. shell[s].kind = "setup" /\ (shell[s].cfg.blind \/ Placed(shell[s].cfg))
  BY <1>3, ShellTyped DEF OnItsWay, KnowsRegion
<1>5. {"template", "licence"} \subseteq OwnFields[shell[s].kind]
  BY <1>4 DEF OwnFields
<1>6. DOMAIN [template |-> TRUE, licence |-> l] = {"template", "licence"} /\ [template |-> TRUE, licence |-> l]["licence"] = l
      /\ [template |-> TRUE, licence |-> l]["template"] = TRUE
  OBVIOUS
<1>7. shell[s].cfg.blind \/ (shell[s].cfg.volume \in DOMAIN account' /\ shell[s].cfg.region = account'[shell[s].cfg.volume])
  BY <1>3, <1>4 DEF Placed
<1>8. /\ account' \in [DOMAIN account' -> Regions] /\ DOMAIN account' \subseteq Volumes /\ token' \in BOOLEAN
      /\ tree' \in {"whole", "going", "gone"} /\ commands' \in Nat /\ edits' \in Nat /\ template' \in BOOLEAN
  BY <1>3, ShellTyped
<1> DEFINE changes == [template |-> TRUE, licence |-> l]
<1>9. /\ Step(s, "template", "save", With(s, changes)) /\ DOMAIN changes = {"template", "licence"}
      /\ changes["licence"] = l /\ changes["template"] = TRUE
  BY <1>2, <1>6
<1> HIDE DEF changes
<1> QED
  BY <1>3, <1>4, <1>5, <1>7, <1>8, <1>9, Changing DEF Fitting

LEMMA MeasureKeeps ==
  ASSUME CliInv, NEW s \in Shells, Measure(s)
  PROVE  CliInv'
<1>1. UNCHANGED <<config, token, commands, edits, account, template, tree>> /\ Grows /\ shell[s].at = "measure"
  BY DEF Measure, MeasureUplink, AskXpu, Counts, Remote, Grows, Step
<1>2. shell[s].kind \in {"doctor", "xpu"} /\ (shell[s].cfg.blind \/ Placed(shell[s].cfg))
  BY <1>1, ShellTyped DEF OnItsWay, KnowsRegion
<1>3. CASE shell[s].kind = "doctor"
  <2>1. Step(s, "measure", "save", With(s, [measured |-> 1])) /\ {"measured"} \subseteq OwnFields[shell[s].kind]
    BY <1>3 DEF Measure, MeasureUplink, AskXpu, OwnFields
  <2>2. DOMAIN [measured |-> 1] = {"measured"} /\ [measured |-> 1]["measured"] = 1
    OBVIOUS
  <2> QED
    BY <1>1, <1>2, <2>1, <2>2, ShellTyped, Changing DEF Placed, Fitting
<1>4. CASE shell[s].kind = "xpu"
  <2>1. PICK x \in 1..2 : Step(s, "measure", "save", With(s, [xpu |-> x]))
    BY <1>4 DEF Measure, MeasureUplink, AskXpu
  <2>2. {"xpu"} \subseteq OwnFields[shell[s].kind] /\ DOMAIN [xpu |-> x] = {"xpu"} /\ [xpu |-> x]["xpu"] = x
    BY <1>4 DEF OwnFields
  <2> QED
    BY <1>1, <1>2, <2>1, <2>2, ShellTyped, Changing DEF Placed, Fitting
<1> QED
  BY <1>2, <1>3, <1>4

\* A first configuration, and a command that starts or leaves.
LEMMA FirstTyped ==
  ASSUME HomeRegion \in Regions
  PROVE  FirstConfig \in ConfigState /\ NoConfig \in ConfigState /\ NoCommand \in ShellState /\ ~NoConfig.there
         /\ FirstConfig.there = TRUE
  BY DEF FirstConfig, NoConfig, NoCommand, ConfigState, ShellState, Places, Kinds, NoVolume

LEMMA ShellMade ==
  ASSUME NEW r \in ShellState, NEW kind, NEW to, NEW cfg, NEW first, NEW volume, NEW licence, NEW yes, NEW changes,
         changes = [kind |-> kind, cfg |-> cfg, first |-> first, stale |-> FALSE, volume |-> volume,
                    licence |-> licence, yes |-> yes]
  PROVE  [f \in DOMAIN r |-> IF f = "at" THEN to ELSE IF f \in DOMAIN changes THEN changes[f] ELSE r[f]]
           = [kind |-> kind, at |-> to, cfg |-> cfg, first |-> first, stale |-> FALSE, volume |-> volume,
              licence |-> licence, yes |-> yes]
<1>1. DOMAIN r = {"kind", "at", "cfg", "first", "stale", "volume", "licence", "yes"}
  BY DEF ShellState
<1>2. /\ DOMAIN changes = {"kind", "cfg", "first", "stale", "volume", "licence", "yes"}
      /\ changes["kind"] = kind /\ changes["cfg"] = cfg /\ changes["first"] = first /\ changes["stale"] = FALSE
      /\ changes["volume"] = volume /\ changes["licence"] = licence /\ changes["yes"] = yes
  OBVIOUS
<1> DEFINE l == [f \in DOMAIN r |-> IF f = "at" THEN to ELSE IF f \in DOMAIN changes THEN changes[f] ELSE r[f]]
<1>3. /\ DOMAIN l = {"kind", "at", "cfg", "first", "stale", "volume", "licence", "yes"}
      /\ l = [f \in {"kind", "at", "cfg", "first", "stale", "volume", "licence", "yes"} |-> l[f]]
      /\ l["at"] = to /\ l["kind"] = changes["kind"] /\ l["cfg"] = changes["cfg"] /\ l["first"] = changes["first"]
      /\ l["stale"] = changes["stale"] /\ l["volume"] = changes["volume"] /\ l["licence"] = changes["licence"]
      /\ l["yes"] = changes["yes"]
  BY <1>1, <1>2
<1> HIDE DEF l
<1>4. l = [kind |-> kind, at |-> to, cfg |-> cfg, first |-> first, stale |-> FALSE, volume |-> volume,
           licence |-> licence, yes |-> yes]
  BY <1>2, <1>3
<1> QED
  BY <1>4 DEF l

LEMMA StartKeeps ==
  ASSUME CliInv, HomeRegion \in Regions, NEW s \in Shells, NEW kind \in Kinds, NEW volume \in Volumes \cup {NoVolume},
         NEW licence \in BOOLEAN, NEW yes \in BOOLEAN, Start(s, kind, volume, licence, yes)
  PROVE  CliInv'
<1> DEFINE to == CASE kind = "setup" -> "volume" [] kind = "recreate" -> "create" [] kind = "doctor" -> "find" [] OTHER -> "token"
           cfg == IF kind \in {"look", "delete"} THEN FirstConfig ELSE [config EXCEPT !.there = TRUE]
           first == ~config.there
           changes == [kind |-> kind, cfg |-> cfg, first |-> first, stale |-> FALSE, volume |-> volume,
                       licence |-> licence, yes |-> yes]
           c == [f \in DOMAIN shell[s] |-> IF f = "at" THEN to ELSE IF f \in DOMAIN changes THEN changes[f] ELSE shell[s][f]]
<1>1. shell[s] \in ShellState /\ config \in ConfigState
  BY DEF CliInv, CliTypeOK
<1>2. shell' = [shell EXCEPT ![s] = c] /\ UNCHANGED <<config, token, edits, account, template, tree>>
      /\ commands' = commands + 1 /\ (kind # "setup" => config.there)
  BY DEF Start, Step, Remote
<1>3. /\ to \in Places /\ (kind = "setup" => to = "volume") /\ (kind = "recreate" => to = "create")
      /\ (kind = "doctor" => to = "find") /\ (kind \in {"look", "delete", "xpu"} => to = "token")
  BY DEF Kinds, Places
<1>4. /\ cfg \in ConfigState /\ cfg.there = TRUE
      /\ kind \in Saving => \A f \in ConfigFields \ {"there"} : cfg[f] = config[f]
  BY <1>1, FirstTyped DEF ConfigState, ConfigFields, Saving
<1> DEFINE made == [kind |-> kind, at |-> to, cfg |-> cfg, first |-> first, stale |-> FALSE, volume |-> volume,
                    licence |-> licence, yes |-> yes]
<1>13. first \in BOOLEAN /\ first = ~config.there
  OBVIOUS
<1> HIDE DEF to, cfg, first
<1>5. c = made
  BY <1>1, ShellMade
<1>6. /\ c.kind = kind /\ c.at = to /\ c.cfg = cfg /\ c.first = (~config.there) /\ c.stale = FALSE
      /\ c \in ShellState
  <2>1. made \in ShellState
    BY <1>3, <1>4, <1>13 DEF ShellState
  <2>2. made.kind = kind /\ made.at = to /\ made.cfg = cfg /\ made.first = first /\ made.stale = FALSE
    OBVIOUS
  <2> HIDE DEF made, c
  <2> QED
    BY <1>5, <1>13, <2>1, <2>2
<1> HIDE DEF c
<1>7. kind \in {"setup", "recreate", "doctor", "look", "delete", "xpu"}
  BY DEF Kinds
<1>8. OnItsWay(c)
  BY <1>3, <1>6, <1>7 DEF OnItsWay, Saving
<1>9. Agrees(c)
  BY <1>4, <1>6 DEF Agrees, AtWork
<1>10. KnowsRegion(c) => kind \in {"doctor", "xpu"}
  BY <1>3, <1>6, <1>7 DEF KnowsRegion
<1>11. kind \in {"doctor", "xpu"} => c.cfg.blind \/ (c.cfg.volume \in DOMAIN account' /\ c.cfg.region = account'[c.cfg.volume])
  <2>1. kind \in {"doctor", "xpu"} => /\ cfg.blind = config.blind /\ cfg.volume = config.volume /\ cfg.region = config.region
                                      /\ config.there
    BY <1>2, <1>4 DEF ConfigFields, Saving
  <2>2. config.there /\ ~config.blind => Placed(config)
    BY DEF CliInv
  <2> QED
    BY <1>2, <1>6, <2>1, <2>2 DEF Placed
<1>12. Grows /\ account' \in [DOMAIN account' -> Regions] /\ DOMAIN account' \subseteq Volumes
       /\ template' \in BOOLEAN /\ token' \in BOOLEAN /\ tree' \in {"whole", "going", "gone"}
       /\ commands' \in Nat /\ edits' \in Nat
  BY <1>2, ShellTyped DEF Grows
<1> QED
  BY <1>2, <1>6, <1>8, <1>9, <1>10, <1>11, <1>12, OneShellMoves

LEMMA LeaveKeeps ==
  ASSUME CliInv, HomeRegion \in Regions, NEW s \in Shells, Leave(s)
  PROVE  CliInv'
<1>1. shell' = [shell EXCEPT ![s] = NoCommand] /\ UNCHANGED <<config, token, commands, edits, account, template, tree>>
  BY DEF Leave, Counts, Remote
<1>2. NoCommand \in ShellState /\ NoCommand.at = "idle"
  BY FirstTyped DEF NoCommand
<1>3. OnItsWay(NoCommand) /\ Agrees(NoCommand) /\ ~KnowsRegion(NoCommand)
  BY <1>2 DEF OnItsWay, Agrees, AtWork, KnowsRegion
<1>4. Grows /\ account' \in [DOMAIN account' -> Regions] /\ DOMAIN account' \subseteq Volumes
       /\ template' \in BOOLEAN /\ token' \in BOOLEAN /\ tree' \in {"whole", "going", "gone"}
       /\ commands' \in Nat /\ edits' \in Nat
  BY <1>1, ShellTyped DEF Grows
<1> QED
  BY <1>1, <1>2, <1>3, <1>4, OneShellMoves

\* What is saved is what the command holds, or a first file of its fields
LEMMA SavedIs ==
  ASSUME CliInv, HomeRegion \in Regions, NEW s \in Shells, shell[s].at = "save"
  PROVE  /\ ToSave(s) \in ConfigState /\ ToSave(s).there = TRUE
         /\ ToSave(s).blind \/ Placed(ToSave(s))
         /\ ToSave(s).blind = shell[s].cfg.blind /\ ToSave(s).volume = shell[s].cfg.volume
         /\ ToSave(s).region = shell[s].cfg.region
<1>1. shell[s] \in ShellState /\ shell[s].cfg \in ConfigState /\ shell[s].kind \in Saving
  BY DEF CliInv, CliTypeOK, ShellState, OnItsWay
<1>2. shell[s].cfg.there = TRUE /\ (shell[s].cfg.blind \/ Placed(shell[s].cfg))
  <2>1. AtWork(shell[s]) /\ KnowsRegion(shell[s])
    BY <1>1 DEF AtWork, KnowsRegion
  <2> QED
    BY <2>1 DEF CliInv, Agrees
<1>3. CASE shell[s].first
  <2> DEFINE g == Fresh(s)
  <2>1. g \in ConfigState /\ g.there = TRUE /\ g.blind = shell[s].cfg.blind /\ g.volume = shell[s].cfg.volume
        /\ g.region = shell[s].cfg.region
    BY <1>1, FirstTyped DEF Fresh, FirstConfig, ConfigState
  <2>2. ToSave(s) = g
    BY <1>3 DEF ToSave
  <2> HIDE DEF g
  <2> QED
    BY <1>2, <2>1, <2>2 DEF Placed
<1>4. CASE ~shell[s].first
  BY <1>1, <1>2, <1>4 DEF ToSave
<1> QED
  BY <1>1, <1>3, <1>4 DEF ShellState

\* A save overtakes the commands that loaded before it
LEMMA SaveKeeps ==
  ASSUME CliInv, HomeRegion \in Regions, NEW s \in Shells, Save(s)
  PROVE  CliInv'
<1>1. shell[s].at = "save" /\ config' = ToSave(s) /\ UNCHANGED <<token, commands, edits, account, template, tree>>
  BY DEF Save, Counts, Remote
<1>2. PICK g \in ConfigState : g = ToSave(s) /\ g.there = TRUE /\ (g.blind \/ Placed(g))
  BY <1>1, SavedIs
<1>3. ASSUME NEW t \in Shells
      PROVE  /\ shell'[t] \in ShellState
             /\ OnItsWay(shell'[t]) /\ Agrees(shell[t])'
             /\ KnowsRegion(shell'[t]) => shell'[t].cfg.blind \/ Placed(shell[t].cfg)'
  <2>1. shell[t] \in ShellState /\ OnItsWay(shell[t]) /\ Agrees(shell[t])
        /\ (KnowsRegion(shell[t]) => shell[t].cfg.blind \/ Placed(shell[t].cfg))
    BY DEF CliInv, CliTypeOK
  <2>2. PICK at \in Places : at = IF t # s THEN shell[t].at ELSE IF shell[s].kind = "setup" THEN "token" ELSE "done"
    BY <2>1 DEF ShellState, Places
  <2>3. PICK stale \in BOOLEAN : stale = (shell[t].stale \/ (t # s /\ shell[t].kind \in DOMAIN OwnFields))
    OBVIOUS
  <2>4. shell'[t] = [shell[t] EXCEPT !.at = at, !.stale = stale]
    BY <2>2, <2>3 DEF Save
  <2>5. /\ shell'[t].at = at /\ shell'[t].stale = stale /\ shell'[t].kind = shell[t].kind /\ shell'[t].cfg = shell[t].cfg
        /\ shell'[t].first = shell[t].first /\ shell'[t] \in ShellState
    BY <2>1, <2>4 DEF ShellState
  <2>6. (Placed(shell[t].cfg) => Placed(shell[t].cfg)')
    BY <1>1, <2>5 DEF Placed
  <2>7. CASE t = s
    <3>1. at = IF shell[s].kind = "setup" THEN "token" ELSE "done"
      BY <2>2, <2>7
    <3>2. ~AtWork(shell'[t]) /\ ~KnowsRegion(shell'[t]) /\ OnItsWay(shell'[t])
      BY <2>5, <2>7, <3>1 DEF AtWork, KnowsRegion, OnItsWay
    <3> QED
      BY <2>5, <3>2 DEF Agrees
  <2>8. CASE t # s
    <3>1. at = shell[t].at /\ DOMAIN OwnFields = Saving
      BY <2>2, <2>8 DEF OwnFields, Saving
    <3>2. OnItsWay(shell'[t]) /\ (KnowsRegion(shell'[t]) => KnowsRegion(shell[t])) /\ (AtWork(shell'[t]) => AtWork(shell[t]))
      BY <2>1, <2>5, <3>1 DEF OnItsWay, KnowsRegion, AtWork
    <3>3. AtWork(shell'[t]) => shell'[t].stale
      BY <2>3, <2>5, <2>8, <3>1 DEF AtWork
    <3>4. AtWork(shell'[t]) => shell'[t].cfg.there = TRUE
      BY <2>1, <2>5, <3>2 DEF Agrees
    <3>5. Agrees(shell[t])'
      BY <3>3, <3>4 DEF Agrees
    <3> QED
      BY <2>1, <2>5, <2>6, <3>2, <3>5
  <2> QED
    BY <2>7, <2>8
<1>4. shell' \in [Shells -> ShellState]
  <2>1. \A t \in Shells : shell'[t] \in ShellState
    BY <1>3
  <2>2. shell' = [t \in Shells |-> shell'[t]]
    BY DEF Save
  <2> HIDE <1>3
  <2> QED
    BY <2>1, <2>2
<1>5. CliTypeOK'
  BY <1>1, <1>2, <1>4 DEF CliInv, CliTypeOK
<1>6. (config.there /\ ~config.blind => Placed(config))'
  BY <1>1, <1>2 DEF Placed
<1> QED
  BY <1>3, <1>5, <1>6 DEF CliInv

\* An edit by hand overtakes them too.
LEMMA EditKeeps ==
  ASSUME CliInv, EditByHand
  PROVE  CliInv'
<1>1. config' = [config EXCEPT !.hand = edits + 1] /\ config.there /\ edits' = edits + 1
      /\ UNCHANGED <<token, commands, account, template, tree>>
  BY DEF EditByHand, Remote
<1>2. config \in ConfigState /\ edits \in Nat
  BY DEF CliInv, CliTypeOK
<1>3. config' \in ConfigState /\ config'.blind = config.blind /\ config'.volume = config.volume /\ config'.region = config.region
  BY <1>1, <1>2 DEF ConfigState
<1>4. ASSUME NEW t \in Shells
      PROVE  /\ shell'[t] \in ShellState
             /\ OnItsWay(shell'[t]) /\ Agrees(shell[t])'
             /\ KnowsRegion(shell'[t]) => shell'[t].cfg.blind \/ Placed(shell[t].cfg)'
  <2>1. shell[t] \in ShellState /\ OnItsWay(shell[t]) /\ Agrees(shell[t])
        /\ (KnowsRegion(shell[t]) => shell[t].cfg.blind \/ Placed(shell[t].cfg))
    BY DEF CliInv, CliTypeOK
  <2>2. PICK stale \in BOOLEAN : stale = (shell[t].kind \in DOMAIN OwnFields)
    <3> DEFINE k == shell[t].kind
               D == DOMAIN OwnFields
    <3> HIDE DEF k, D
    <3>1. \E b \in BOOLEAN : b = (k \in D)
      <4>1. CASE k \in D
        <5>1. TRUE = (k \in D)
          BY <4>1
        <5> QED
          BY <5>1
      <4>2. CASE ~(k \in D)
        <5>1. FALSE = (k \in D)
          BY <4>2
        <5> QED
          BY <5>1
      <4> QED
        BY <4>1, <4>2
    <3> QED
      BY <3>1 DEF k, D
  <2>3. shell'[t] = [shell[t] EXCEPT !.stale = stale] /\ DOMAIN OwnFields = Saving
    BY <2>2 DEF EditByHand, OwnFields, Saving
  <2>4. /\ shell'[t].at = shell[t].at /\ shell'[t].stale = stale /\ shell'[t].kind = shell[t].kind
        /\ shell'[t].cfg = shell[t].cfg /\ shell'[t].first = shell[t].first /\ shell'[t] \in ShellState
    BY <2>1, <2>3 DEF ShellState
  <2>5. OnItsWay(shell'[t]) /\ (KnowsRegion(shell'[t]) => KnowsRegion(shell[t])) /\ (AtWork(shell'[t]) => AtWork(shell[t]))
    BY <2>1, <2>4 DEF OnItsWay, KnowsRegion, AtWork
  <2>6. AtWork(shell'[t]) => shell'[t].stale /\ shell'[t].cfg.there = TRUE
    BY <2>1, <2>2, <2>3, <2>4, <2>5 DEF AtWork, Agrees
  <2>7. Agrees(shell[t])'
    BY <2>6 DEF Agrees
  <2>8. Placed(shell[t].cfg) => Placed(shell[t].cfg)'
    BY <1>1, <2>4 DEF Placed
  <2> QED
    BY <2>1, <2>4, <2>5, <2>7, <2>8
<1>5. shell' \in [Shells -> ShellState]
  <2>1. \A t \in Shells : shell'[t] \in ShellState
    BY <1>4
  <2>2. shell' = [t \in Shells |-> shell'[t]]
    BY DEF EditByHand
  <2> HIDE <1>4
  <2> QED
    BY <2>1, <2>2
<1>6. CliTypeOK'
  BY <1>1, <1>2, <1>3, <1>5 DEF CliInv, CliTypeOK
<1>7. (config.there /\ ~config.blind => Placed(config))'
  BY <1>1, <1>3 DEF Placed, CliInv
<1> QED
  BY <1>4, <1>6, <1>7 DEF CliInv

\* A step that leaves the file, the account and the commands alone
LEMMA FilesStay ==
  ASSUME CliInv, UNCHANGED <<config, account, shell>>, template' \in BOOLEAN, token' \in BOOLEAN,
         tree' \in {"whole", "going", "gone"}, commands' \in Nat, edits' \in Nat
  PROVE  CliInv'
<1>1. CliTypeOK'
  BY DEF CliInv, CliTypeOK
<1>2. (config.there /\ ~config.blind => Placed(config))'
  BY DEF CliInv, Placed
<1>3. ASSUME NEW s \in Shells
      PROVE  /\ OnItsWay(shell'[s]) /\ Agrees(shell[s])'
             /\ KnowsRegion(shell'[s]) => shell'[s].cfg.blind \/ Placed(shell[s].cfg)'
  BY DEF CliInv, Placed, Agrees
<1> QED
  BY <1>1, <1>2, <1>3 DEF CliInv

\* The inductive invariant of the commands that share a configuration file.
THEOREM CliInvariant == CliSpec => []CliInv
<1>1. CliInit => CliInv
  <2> SUFFICES ASSUME CliInit PROVE CliInv
    OBVIOUS
  <2>1. config = NoConfig /\ shell = [s \in Shells |-> NoCommand] /\ account \in FirstAccounts
    BY DEF CliInit
  <2>2. CliTypeOK
    BY <2>1, FirstTyped, CommandLineAssumption DEF CliInit, CliTypeOK
  <2>3. ~config.there
    BY <2>1, FirstTyped, CommandLineAssumption
  <2>4. OnItsWay(NoCommand) /\ Agrees(NoCommand) /\ ~KnowsRegion(NoCommand)
    BY DEF NoCommand, OnItsWay, Agrees, AtWork, KnowsRegion
  <2> QED
    BY <2>1, <2>2, <2>3, <2>4 DEF CliInv
<1>2. ASSUME CliInv, [CliNext]_cliVars
      PROVE  CliInv'
  <2>1. HomeRegion \in Regions
    BY CommandLineAssumption
  <2>2. CASE UNCHANGED cliVars
    BY <1>2, <2>2, FilesStay DEF cliVars, CliInv, CliTypeOK
  <2>3. CASE Deleted \/ Restore
    BY <1>2, <2>3, FilesStay DEF Deleted, Restore, Counts, CliInv, CliTypeOK
  <2>4. CASE EditByHand
    BY <1>2, <2>4, EditKeeps
  <2>5. ASSUME NEW s \in Shells, NEW kind \in Kinds, NEW v \in Volumes \cup {NoVolume}, NEW licence \in BOOLEAN,
               NEW yes \in BOOLEAN, Start(s, kind, v, licence, yes)
        PROVE  CliInv'
    BY <1>2, <2>1, <2>5, StartKeeps
  <2>6. ASSUME NEW s \in Shells, NEW v \in Volumes, FirstVolume(s, v) \/ Recreate(s, v)
        PROVE  CliInv'
    BY <1>2, <2>1, <2>6, CreateKeeps
  <2>7. ASSUME NEW s \in Shells,
               \/ Leave(s) \/ KeepVolume(s) \/ PickVolume(s) \/ RegionOfVolume(s) \/ RegionUnread(s) \/ TakeTemplate(s)
               \/ Measure(s) \/ Save(s)
        PROVE  CliInv'
    BY <1>2, <2>1, <2>7, LeaveKeeps, VolumeKeeps, RegionKeeps, TemplateKeeps, MeasureKeeps, SaveKeeps
  <2>8. ASSUME NEW s \in Shells,
               ReadToken(s) \/ WriteToken(s) \/ FindSyncPod(s) \/ Exec(s) \/ Answered(s) \/ Deadline(s)
        PROVE  CliInv'
    BY <1>2, <2>8, PassingKeeps
  <2> QED
    BY <1>2, <2>2, <2>3, <2>4, <2>5, <2>6, <2>7, <2>8 DEF CliNext
<1> QED
  BY <1>1, <1>2, PTL DEF CliSpec

\* The types of the commands, the configuration and the account.
THEOREM CliTypeCorrect == CliSpec => []CliTypeOK
<1>1. CliInv => CliTypeOK
  BY DEF CliInv
<1> QED
  BY <1>1, CliInvariant, PTL

\* A file that nobody edited blindly never names a volume with the region of another:
\* what setup, doctor, xpu and recreate save was looked up together.
THEOREM RegionAlwaysFollowsVolume == CliSpec => []RegionFollowsVolume
<1>1. CliInv => RegionFollowsVolume
  BY DEF CliInv, RegionFollowsVolume, Placed
<1> QED
  BY <1>1, CliInvariant, PTL

\* A deadline never cuts a deletion off in the middle: the deletions run detached, and
\* go on when nobody watches them.
THEOREM DeletesAreAlwaysWhole == CliSpec => []DeletesAreWhole
<1>1. CliInv => DeletesAreWhole
  BY DEF CliInv, CliTypeOK, DeletesAreWhole
<1> QED
  BY <1>1, CliInvariant, PTL

\* A command that saves changes the fields it owns and no others, unless the file was
\* saved under it between its load and its save.
THEOREM RerunAlwaysKeeps == CliSpec => RerunKeeps
<1>1. ASSUME CliInv, [CliNext]_cliVars, NEW s \in Shells, shell[s].at = "save", ~shell[s].stale, config.there,
             config' # config, shell'[s].at # "save", NEW f \in DOMAIN config, config'[f] # config[f]
      PROVE  f \in OwnFields[shell[s].kind]
  <2>1. shell[s] \in ShellState /\ config \in ConfigState /\ shell[s].kind \in Saving /\ Agrees(shell[s])
    BY <1>1 DEF CliInv, CliTypeOK, OnItsWay
  <2>2. ~EditByHand
    BY <1>1, <2>1 DEF EditByHand, ShellState
  <2>3. ASSUME NEW t \in Shells, Save(t), t # s
        PROVE  FALSE
    BY <1>1, <2>1, <2>3 DEF Save, ShellState
  <2>4. Save(s)
    BY <1>1, <2>2, <2>3 DEF CliNext, cliVars, Start, Leave, KeepVolume, PickVolume, FirstVolume, Recreate, CreateVolume,
         RegionOfVolume, RegionUnread, TakeTemplate, ReadToken, WriteToken, FindSyncPod, Measure, MeasureUplink, AskXpu, Exec, Answered,
         Deadline, Deleted, Restore
  <2>5. AtWork(shell[s])
    BY <1>1, <2>1 DEF AtWork
  <2>6. /\ ~shell[s].first /\ shell[s].cfg.there = TRUE
        /\ \A g \in ConfigFields \ {"there"} : shell[s].cfg[g] # config[g] => g \in OwnFields[shell[s].kind]
    BY <1>1, <2>1, <2>5 DEF Agrees
  <2>7. config' = shell[s].cfg
    BY <2>4, <2>6 DEF Save, ToSave
  <2>8. config.there = TRUE /\ DOMAIN config = ConfigFields
    BY <1>1, <2>1 DEF ConfigState, ConfigFields
  <2> QED
    BY <1>1, <2>6, <2>7, <2>8
<1>2. CliInv /\ [CliNext]_cliVars
        => [\A s \in Shells : shell[s].at = "save" /\ ~shell[s].stale /\ config.there /\ config' # config /\ shell'[s].at # "save" =>
             \A f \in DOMAIN config : config'[f] # config[f] => f \in OwnFields[shell[s].kind]]_cliVars
  BY <1>1
<1> QED
  BY <1>2, CliInvariant, PTL DEF CliSpec, RerunKeeps

-----------------------------------------------------------------------------
(* FarmKill                                                                *)

\* What a pod may be at, what farm kill reads of it, and what a command holds.
Works == {"none", "task", "transfer", "between files", "ssh"}
PodState == [there : BOOLEAN, owner : Artists, tagged : BOOLEAN, sync : BOOLEAN, reports : BOOLEAN,
             answers : BOOLEAN, work : Works, called : BOOLEAN, stirred : BOOLEAN]
KillState == [at : {"idle", "ask", "confirm", "kill"}, scope : {"none", "pod", "all", "sync", "everyone"},
              everyone : BOOLEAN, running : BOOLEAN, todo : SUBSET Pods, doom : SUBSET Pods, lifted : SUBSET Pods]

KillTypeOK ==
  /\ fleet \in [Pods -> PodState] /\ kill \in KillState /\ quiet \in SUBSET Pods /\ kills \in Nat

\* What a pod does shows in what it can say of itself
WorkShows(f) ==
  f.work \in {"transfer", "between files", "ssh"} => f.stirred

\* What farm kill takes for mine: a pod of mine, or one without a tag whose owner's
\* name begins with mine.
ReadsMine(f) == f.owner = Me \/ (f.owner \in Longer /\ ~f.tagged)

\* Who is to be terminated, without an override, was found quiet and mine.
DoomIsJudged ==
  /\ ~kill.everyone /\ ~kill.running => kill.doom \subseteq quiet
  /\ ~kill.everyone => \A p \in kill.doom : ReadsMine(fleet[p])

KillInv ==
  /\ KillTypeOK
  /\ \A p \in Pods : WorkShows(fleet[p])
  /\ DoomIsJudged

\* One pod changes, and shows what it does.
LEMMA OnePodStays ==
  ASSUME NEW f \in [Pods -> PodState], NEW p \in Pods, NEW g \in PodState,
         \A q \in Pods : WorkShows(f[q]), WorkShows(g)
  PROVE  /\ [f EXCEPT ![p] = g] \in [Pods -> PodState]
         /\ \A q \in Pods : WorkShows([f EXCEPT ![p] = g][q])
<1> DEFINE h == [f EXCEPT ![p] = g]
<1>1. h \in [Pods -> PodState]
  OBVIOUS
<1>2. \A q \in Pods : h[q] = IF q = p THEN g ELSE f[q]
  OBVIOUS
<1> HIDE DEF h
<1>3. \A q \in Pods : WorkShows(h[q])
  BY <1>2
<1> QED
  BY <1>1, <1>3 DEF h

\* A pod that changes while the command stays
LEMMA PodMoves ==
  ASSUME KillInv, NEW p \in Pods, NEW g \in PodState, WorkShows(g),
         g.owner = fleet[p].owner, g.tagged = fleet[p].tagged,
         fleet' = [fleet EXCEPT ![p] = g], UNCHANGED <<kill, quiet, kills>>
  PROVE  KillInv'
<1>1. fleet' \in [Pods -> PodState] /\ \A q \in Pods : WorkShows(fleet'[q])
  BY OnePodStays DEF KillInv, KillTypeOK
<1>2. \A q \in Pods : fleet'[q].owner = fleet[q].owner /\ fleet'[q].tagged = fleet[q].tagged
  BY DEF KillInv, KillTypeOK
<1>3. DoomIsJudged'
  BY <1>2 DEF KillInv, KillTypeOK, KillState, DoomIsJudged, ReadsMine
<1> QED
  BY <1>1, <1>3 DEF KillInv, KillTypeOK

\* What Becomes does keeps the invariant when what it sets shows
LEMMA Becoming ==
  ASSUME KillInv, NEW p \in Pods, NEW changes, Becomes(p, changes),
         DOMAIN changes \subseteq {"work", "called", "stirred", "answers"},
         "called" \in DOMAIN changes => changes["called"] \in BOOLEAN,
         "stirred" \in DOMAIN changes => changes["stirred"] \in BOOLEAN,
         "answers" \in DOMAIN changes => changes["answers"] \in BOOLEAN,
         "work" \in DOMAIN changes => changes["work"] \in Works,
         LET After(x) == IF x \in DOMAIN changes THEN changes[x] ELSE fleet[p][x]
         IN  After("work") \in {"transfer", "between files", "ssh"} => After("stirred")
  PROVE  KillInv'
<1> DEFINE g == [x \in DOMAIN fleet[p] |-> IF x \in DOMAIN changes THEN changes[x] ELSE fleet[p][x]]
<1>1. fleet[p] \in PodState
  BY DEF KillInv, KillTypeOK
<1>2. fleet' = [fleet EXCEPT ![p] = g] /\ UNCHANGED <<kill, quiet, kills>>
  BY DEF Becomes
<1>0. g = [x \in DOMAIN fleet[p] |-> IF x \in DOMAIN changes THEN changes[x] ELSE fleet[p][x]]
  OBVIOUS
<1> HIDE DEF g
<1>3. g = [there |-> g.there, owner |-> g.owner, tagged |-> g.tagged, sync |-> g.sync, reports |-> g.reports,
            answers |-> g.answers, work |-> g.work, called |-> g.called, stirred |-> g.stirred]
  BY <1>0, <1>1 DEF PodState
<1>4. \A x \in {"there", "owner", "tagged", "sync", "reports", "answers", "work", "called", "stirred"} :
        g[x] = IF x \in DOMAIN changes THEN changes[x] ELSE fleet[p][x]
  BY <1>0, <1>1 DEF PodState
<1>5. /\ g.there = fleet[p].there /\ g.owner = fleet[p].owner /\ g.tagged = fleet[p].tagged
      /\ g.sync = fleet[p].sync /\ g.reports = fleet[p].reports
  BY <1>4
<1>6. /\ g.called = IF "called" \in DOMAIN changes THEN changes["called"] ELSE fleet[p].called
      /\ g.stirred = IF "stirred" \in DOMAIN changes THEN changes["stirred"] ELSE fleet[p].stirred
      /\ g.work = IF "work" \in DOMAIN changes THEN changes["work"] ELSE fleet[p].work
      /\ g.answers = IF "answers" \in DOMAIN changes THEN changes["answers"] ELSE fleet[p].answers
  BY <1>4
<1>7. /\ g.called \in BOOLEAN /\ g.stirred \in BOOLEAN /\ g.answers \in BOOLEAN /\ g.work \in Works
  BY <1>6, <1>1 DEF PodState
<1>8. g \in PodState
  BY <1>1, <1>3, <1>5, <1>7 DEF PodState
<1>9. WorkShows(g)
  BY <1>6 DEF WorkShows
<1> QED
  BY <1>2, <1>5, <1>8, <1>9, PodMoves

\* Who is taken without an override did nothing, and its answer shows it
LEMMA TakenIsQuiet ==
  ASSUME NEW p \in Pods, KillInv, Taken(p)
  PROVE  /\ ~kill.everyone => ReadsMine(fleet[p])
         /\ ~kill.everyone /\ ~kill.running => ~Used(p) /\ ~fleet[p].stirred /\ ~fleet[p].called
<1>1. fleet[p] \in PodState /\ WorkShows(fleet[p])
  BY DEF KillInv, KillTypeOK
<1>2. CASE Owner(p) = Me
  <2>1. ReadsMine(fleet[p])
    BY <1>2 DEF Owner, ReadsMine
  <2>2. Safe(p) => ~Used(p) /\ ~fleet[p].stirred /\ ~fleet[p].called
    BY <1>1 DEF Safe, Used, WorkShows, PodState, Works
  <2>3. ~kill.everyone /\ ~kill.running => Safe(p)
    BY DEF Taken, Classify
  <2> QED
    BY <2>1, <2>2, <2>3
<1>3. CASE Owner(p) # Me
  BY <1>3 DEF Taken, Classify
<1> QED
  BY <1>2, <1>3

\* The answers come, and what they condemn is judged.
LEMMA AskKeeps ==
  ASSUME KillInv, NEW p \in Pods, Ask(p)
  PROVE  KillInv'
<1>1. fleet' = fleet /\ kills' = kills /\ kill.todo \subseteq Pods /\ kill \in KillState
  BY DEF Ask, PodsStay, KillInv, KillTypeOK, KillState
<1>2. /\ kill'.everyone = kill.everyone /\ kill'.running = kill.running
      /\ kill'.doom = IF Taken(p) THEN kill.doom \cup {p} ELSE kill.doom
  BY <1>1 DEF Ask, KillState
<1>3. kill' \in KillState
  BY <1>1 DEF Ask, KillState
<1>4. /\ quiet \subseteq quiet' /\ quiet' \subseteq Pods
      /\ ~Used(p) /\ ~fleet[p].stirred /\ ~fleet[p].called => p \in quiet'
  BY DEF Ask, KillInv, KillTypeOK
<1>5. Taken(p) => /\ ~kill.everyone => ReadsMine(fleet[p])
                  /\ ~kill.everyone /\ ~kill.running => p \in quiet'
  BY <1>4, TakenIsQuiet
<1>6. DoomIsJudged'
  BY <1>1, <1>2, <1>4, <1>5 DEF KillInv, DoomIsJudged
<1> QED
  BY <1>1, <1>3, <1>4, <1>6 DEF KillInv, KillTypeOK

LEMMA TerminateKeeps ==
  ASSUME KillInv, NEW p \in Pods, Terminate(p)
  PROVE  KillInv'
<1> DEFINE g == [fleet[p] EXCEPT !.there = FALSE, !.work = "none"]
<1>1. fleet[p] \in PodState /\ WorkShows(fleet[p]) /\ kill \in KillState
  BY DEF KillInv, KillTypeOK
<1>2. g \in PodState /\ g.owner = fleet[p].owner /\ g.tagged = fleet[p].tagged /\ g.work = "none"
  BY <1>1 DEF PodState, Works
<1>3. fleet' = [fleet EXCEPT ![p] = g] /\ UNCHANGED <<quiet, kills>>
  BY DEF Terminate
<1> HIDE DEF g
<1>4. WorkShows(g)
  BY <1>2 DEF WorkShows
<1>5. fleet' \in [Pods -> PodState] /\ \A q \in Pods : WorkShows(fleet'[q])
  BY <1>2, <1>3, <1>4, OnePodStays DEF KillInv, KillTypeOK
<1>6. /\ kill'.everyone = kill.everyone /\ kill'.running = kill.running
      /\ kill'.doom \subseteq kill.doom /\ kill' \in KillState
  BY <1>1 DEF Terminate, KillState
<1>7. \A q \in Pods : fleet'[q].owner = fleet[q].owner /\ fleet'[q].tagged = fleet[q].tagged
  BY <1>2, <1>3 DEF KillInv, KillTypeOK
<1>8. DoomIsJudged'
  BY <1>1, <1>3, <1>6, <1>7 DEF KillInv, KillState, DoomIsJudged, ReadsMine
<1> QED
  BY <1>3, <1>5, <1>6, <1>8 DEF KillInv, KillTypeOK

\* A command that begins or ends has chosen nobody
LEMMA NobodyChosen ==
  ASSUME KillInv, fleet' = fleet, quiet' = {}, kills' \in Nat, kill' \in KillState, kill'.doom = {}
  PROVE  KillInv'
  BY DEF KillInv, KillTypeOK, DoomIsJudged

LEMMA CommandKeeps ==
  ASSUME KillInv,
         \/ \E running \in BOOLEAN :
              \/ \E scope \in {"all", "sync", "everyone"} : List(scope, running)
              \/ \E p \in Pods : ListOne(p, running)
         \/ Confirm \/ KillEnds
  PROVE  KillInv'
<1> USE DEF PodsStay
<1>1. kill \in KillState /\ kills \in Nat /\ NoKill \in KillState
  BY DEF KillInv, KillTypeOK, KillState, NoKill
<1>2. ASSUME NEW running \in BOOLEAN, NEW scope \in {"all", "sync", "everyone"}, List(scope, running)
      PROVE  KillInv'
  <2>1. kill' \in KillState /\ kill'.doom = {}
    BY <1>1, <1>2 DEF List, KillState, NoKill
  <2>2. fleet' = fleet /\ quiet' = {} /\ kills' = kills + 1
    BY <1>2 DEF List
  <2> QED
    BY <1>1, <2>1, <2>2, NobodyChosen
<1>3. ASSUME NEW running \in BOOLEAN, NEW p \in Pods, ListOne(p, running)
      PROVE  KillInv'
  <2>1. kill' \in KillState /\ kill'.doom = {}
    BY <1>1, <1>3 DEF ListOne, KillState, NoKill
  <2>2. fleet' = fleet /\ quiet' = {} /\ kills' = kills + 1
    BY <1>3 DEF ListOne
  <2> QED
    BY <1>1, <2>1, <2>2, NobodyChosen
<1>4. CASE Confirm
  <2>1. /\ kill' \in KillState /\ kill'.doom = kill.doom /\ kill'.everyone = kill.everyone
        /\ kill'.running = kill.running
    BY <1>1, <1>4 DEF Confirm, KillState
  <2> QED
    BY <1>4, <2>1 DEF Confirm, KillInv, KillTypeOK, DoomIsJudged
<1>5. CASE KillEnds
  <2>1. kill' \in KillState /\ kill'.doom = {}
    BY <1>1, <1>5 DEF KillEnds, NoKill
  <2> QED
    BY <1>1, <1>5, <2>1, NobodyChosen DEF KillEnds
<1> QED
  BY <1>2, <1>3, <1>4, <1>5

\* What the pods do while somebody decides about them.
LEMMA PodKeeps ==
  ASSUME KillInv, NEW p \in Pods,
         \/ Call(p) \/ TaskOn(p) \/ NextFile(p) \/ SameTransfer(p) \/ Finish(p) \/ Fade(p)
         \/ \E how \in {"transfer", "ssh"} : ConnectTo(p, how)
         \/ \E answers \in BOOLEAN : Reach(p, answers)
  PROVE  KillInv'
<1> DEFINE f == fleet[p]
<1>1. f \in PodState /\ WorkShows(f)
  BY DEF KillInv, KillTypeOK
<1>2. /\ f.called \in BOOLEAN /\ f.stirred \in BOOLEAN /\ f.work \in Works
      /\ f.work \in {"transfer", "between files", "ssh"} => f.stirred
  BY <1>1 DEF PodState, WorkShows
<1>3. CASE Call(p)
  BY <1>2, <1>3, Becoming DEF Call
<1>5. CASE TaskOn(p)
  BY <1>2, <1>5, Becoming DEF TaskOn, Works
<1>6. CASE NextFile(p)
  BY <1>2, <1>6, Becoming DEF NextFile, Works
<1>7. CASE SameTransfer(p)
  BY <1>2, <1>7, Becoming DEF SameTransfer, Works
<1>8. CASE Finish(p)
  BY <1>2, <1>8, Becoming DEF Finish, Works
<1>9. CASE Fade(p)
  <2>1. Becomes(p, [called |-> FALSE, stirred |-> f.stirred /\ Outside(p)])
    BY <1>9 DEF Fade
  <2>2. Outside(p) <=> f.work \in {"transfer", "between files", "ssh"}
    BY DEF Outside
  <2>3. (f.stirred /\ Outside(p)) \in BOOLEAN
    OBVIOUS
  <2> QED
    BY <1>2, <2>1, <2>2, <2>3, Becoming
<1>10. ASSUME NEW how \in {"transfer", "ssh"}, ConnectTo(p, how)
       PROVE  KillInv'
  BY <1>2, <1>10, Becoming DEF ConnectTo, Works
<1>11. ASSUME NEW answers \in BOOLEAN, Reach(p, answers)
       PROVE  KillInv'
  BY <1>2, <1>11, Becoming DEF Reach
<1> QED
  BY <1>3, <1>5, <1>6, <1>7, <1>8, <1>9, <1>10, <1>11

LEMMA KillInitInv == ASSUME KillInit PROVE KillInv
<1>1. ASSUME NEW p \in Pods
      PROVE  fleet[p] \in PodState /\ WorkShows(fleet[p])
  <2>1. PICK o \in Artists, t \in BOOLEAN, s \in BOOLEAN, r \in BOOLEAN :
          fleet[p] = [there |-> TRUE, owner |-> o, tagged |-> t, sync |-> s, reports |-> r, answers |-> TRUE,
                      work |-> "none", called |-> FALSE, stirred |-> FALSE]
    BY DEF KillInit
  <2> QED
    BY <2>1 DEF PodState, Works, WorkShows
<1>2. fleet = [p \in Pods |-> fleet[p]]
  BY DEF KillInit
<1>3. kill \in KillState /\ quiet = {} /\ kills \in Nat /\ kill.doom = {}
  BY DEF KillInit, KillState, NoKill
<1>4. fleet \in [Pods -> PodState]
  BY <1>1, <1>2
<1> QED
  BY <1>1, <1>3, <1>4 DEF KillInv, KillTypeOK, DoomIsJudged

\* The inductive invariant of farm kill.
THEOREM KillInvariant == KillSpec => []KillInv
<1>1. KillInit => KillInv
  BY KillInitInv
<1>2. ASSUME KillInv, [KillNext]_killVars
      PROVE  KillInv'
  <2>1. CASE UNCHANGED killVars
    <3>1. fleet' = fleet /\ kill' = kill /\ quiet' = quiet /\ kills' = kills
      BY <2>1 DEF killVars
    <3>2. KillTypeOK' /\ (\A p \in Pods : WorkShows(fleet[p]))'
      BY <1>2, <3>1 DEF KillInv, KillTypeOK
    <3>3. DoomIsJudged'
      BY <1>2, <3>1 DEF KillInv, DoomIsJudged
    <3> QED
      BY <3>2, <3>3 DEF KillInv
  <2>2. ASSUME NEW p \in Pods, Ask(p) \/ Terminate(p)
        PROVE  KillInv'
    BY <1>2, <2>2, AskKeeps, TerminateKeeps
  <2> QED
    BY <1>2, <2>1, <2>2, CommandKeeps, PodKeeps DEF KillNext
<1> QED
  BY <1>1, <1>2, PTL DEF KillSpec

\* The types of farm kill.
THEOREM KillTypeCorrect == KillSpec => []KillTypeOK
<1>1. KillInv => KillTypeOK
  BY DEF KillInv
<1> QED
  BY <1>1, KillInvariant, PTL

\* Who goes is the one Terminate was called for
LEMMA OnlyTerminateKills ==
  ASSUME KillInv, [KillNext]_killVars, NEW p \in Pods, Killed(p)
  PROVE  Terminate(p)
<1>0. fleet' # fleet
  BY DEF Killed
<1>1. ASSUME NEW q \in Pods, Terminate(q), q # p
      PROVE  FALSE
  BY <1>1 DEF Terminate, Killed, KillInv, KillTypeOK
<1>2. ASSUME NEW q \in Pods, NEW changes, Becomes(q, changes), "there" \notin DOMAIN changes
      PROVE  FALSE
  <2>1. CASE q = p
    BY <1>2, <2>1 DEF Becomes, Killed, KillInv, KillTypeOK, PodState
  <2>2. CASE q # p
    BY <1>2, <2>2 DEF Becomes, Killed, KillInv, KillTypeOK
  <2> QED
    BY <2>1, <2>2
<1>3. ASSUME NEW q \in Pods,
             \/ Call(q) \/ TaskOn(q) \/ NextFile(q) \/ SameTransfer(q) \/ Finish(q) \/ Fade(q)
             \/ \E how \in {"transfer", "ssh"} : ConnectTo(q, how)
             \/ \E answers \in BOOLEAN : Reach(q, answers)
      PROVE  FALSE
  BY <1>2, <1>3 DEF Call, TaskOn, NextFile, SameTransfer, Finish, Fade, ConnectTo, Reach
<1> QED
  BY <1>0, <1>1, <1>3 DEF KillNext, killVars, List, ListOne, Confirm, KillEnds, Ask, PodsStay

\* Without --even-if-running, farm kill ends only a pod that had done nothing for
\* anybody when it was asked, whatever the pods do meanwhile.
THEOREM KillAlwaysSparesWork == KillSpec => KillSparesWork
<1>1. ASSUME KillInv, [KillNext]_killVars
      PROVE  \A p \in Pods : Killed(p) /\ ~kill.everyone /\ ~kill.running => p \in quiet
  <2>1. ASSUME NEW p \in Pods, Killed(p), ~kill.everyone, ~kill.running
        PROVE  p \in quiet
    <3>1. p \in kill.doom
      BY <1>1, <2>1, OnlyTerminateKills DEF Terminate
    <3> QED
      BY <1>1, <2>1, <3>1 DEF KillInv, DoomIsJudged
  <2> QED
    BY <2>1
<1>2. KillInv /\ [KillNext]_killVars
        => [\A p \in Pods : Killed(p) /\ ~kill.everyone /\ ~kill.running => p \in quiet]_killVars
  BY <1>1
<1> QED
  BY <1>2, KillInvariant, PTL DEF KillSpec, KillSparesWork

\* Without --everyone, and without naming it with --even-if-running, farm kill ends a
\* pod of another artist only when it has no owner's tag and its name reads as mine.
THEOREM OthersAlwaysKeepTheirs == KillSpec => OthersKeepTheirs
<1>1. ASSUME KillInv, [KillNext]_killVars
      PROVE  \A p \in Pods : Killed(p) /\ ~kill.everyone =>
               fleet[p].owner = Me \/ (fleet[p].owner \in Longer /\ ~fleet[p].tagged)
  <2>1. ASSUME NEW p \in Pods, Killed(p), ~kill.everyone
        PROVE  ReadsMine(fleet[p])
    <3>1. p \in kill.doom
      BY <1>1, <2>1, OnlyTerminateKills DEF Terminate
    <3> QED
      BY <1>1, <2>1, <3>1 DEF KillInv, DoomIsJudged
  <2> QED
    BY <2>1 DEF ReadsMine
<1>2. KillInv /\ [KillNext]_killVars
        => [\A p \in Pods : Killed(p) /\ ~kill.everyone =>
               fleet[p].owner = Me \/ (fleet[p].owner \in Longer /\ ~fleet[p].tagged)]_killVars
  BY <1>1
<1> QED
  BY <1>2, KillInvariant, PTL DEF KillSpec, OthersKeepTheirs

-----------------------------------------------------------------------------
(* Ledger                                                                  *)

\* What a journal holds, line by line.
Lines    == Tasks \cup {Summary, Torn, Cut}
Journals == [Paths -> Seq(Lines)]

\* The types of the journals, of the cooks and of the bill.
LedgerTypeOK ==
  /\ cookState \in [Cooks -> [at : {"no", "cooking", "stopped", "over"}, on : Machines, done : SUBSET Tasks]]
  /\ ledger \in [Machines -> Journals] /\ volumeLog \in Journals
  /\ bill \in [Cooks -> [seconds : Nat, amount : Nat, there : BOOLEAN]]
  /\ ledgerFaults \in Nat

\* A line that can be read is a number of seconds, or the summary.
LEMMA LinesAre == Lines \subseteq Int /\ \A l \in Lines : l >= Summary => l \in Nat
  BY LedgerAssumption DEF Lines, Summary, Torn, Cut

LEMMA LedgerTypeInit == LedgerInit => LedgerTypeOK
<1> SUFFICES ASSUME LedgerInit PROVE LedgerTypeOK
  OBVIOUS
<1>1. (CHOOSE m \in Machines : TRUE) \in Machines
  BY LedgerAssumption
<1>2. [path \in Paths |-> <<>>] \in Journals
  BY DEF Journals
<1>3. Unbilled \in [seconds : Nat, amount : Nat, there : BOOLEAN]
  BY DEF Unbilled
<1> QED
  BY <1>1, <1>2, <1>3 DEF LedgerInit, LedgerTypeOK

\* What a line that is written, dropped or cut leaves is a journal.
LEMMA LineWritten ==
  ASSUME LedgerTypeOK, NEW c \in Cooks, NEW record \in Tasks \cup {Summary}, NEW how \in {"whole", "dropped", "cut"},
         AppendLine(c, record, how)
  PROVE  ledger' \in [Machines -> Journals] /\ ledgerFaults' \in Nat
<1> DEFINE m == cookState[c].on
           journal == Journal(m, Own(c))
<1>1. m \in Machines /\ Own(c) \in Paths
  BY DEF LedgerTypeOK, Paths
<1>2. journal \in Seq(Lines)
  BY <1>1 DEF LedgerTypeOK, Journals, Journal
<1>3. ledgerFaults' \in Nat
  BY DEF AppendLine, Fault, LedgerTypeOK
<1>4. {record, Torn, Cut} \subseteq Lines
  BY DEF Lines
<1>5. PICK open \in BOOLEAN : open = (journal # <<>> /\ Last(journal) = Cut)
  OBVIOUS
<1>6. open => Front(journal) \in Seq(Lines)
  BY <1>2, <1>5 DEF Front
<1>7. PICK new : /\ Written(m, Own(c), new)
                 /\ \/ new = journal \/ new = Append(journal, Cut) \/ new = Append(journal, record)
                    \/ open /\ new = Append(Front(journal), Torn)
  BY <1>5 DEF AppendLine
<1>8. new \in Seq(Lines)
  <2>1. CASE new = journal
    BY <1>2, <2>1
  <2>2. ASSUME NEW l \in Lines, new = Append(journal, l) PROVE new \in Seq(Lines)
    BY <1>2, <2>2
  <2>3. CASE open /\ new = Append(Front(journal), Torn)
    BY <1>4, <1>6, <2>3
  <2> QED
    BY <1>4, <1>7, <2>1, <2>2, <2>3
<1>9. ledger' \in [Machines -> Journals]
  BY <1>1, <1>7, <1>8 DEF Written, LedgerTypeOK, Journals
<1> QED
  BY <1>3, <1>9

LEMMA LedgerTypeNext == LedgerTypeOK /\ [LedgerNext]_ledgerVars => LedgerTypeOK'
<1> SUFFICES ASSUME LedgerTypeOK, [LedgerNext]_ledgerVars PROVE LedgerTypeOK'
  OBVIOUS
<1>1. ASSUME NEW c \in Cooks, NEW m \in Machines, StartCook(c, m) PROVE LedgerTypeOK'
  BY <1>1 DEF StartCook, LedgerTypeOK
<1>2. ASSUME NEW c \in Cooks, NEW how \in {"whole", "dropped", "cut"}, StopCook(c, how) PROVE LedgerTypeOK'
  BY <1>2, LineWritten DEF StopCook, LedgerTypeOK
<1>3. ASSUME NEW c \in Cooks, NEW how \in {"whole", "dropped", "cut"}, NEW t \in Tasks, TaskEnds(c, t, how)
      PROVE  LedgerTypeOK'
  BY <1>3, LineWritten DEF TaskEnds, LedgerTypeOK
<1>4. ASSUME NEW c \in Cooks, NEW well \in BOOLEAN, Mirror(c, well) PROVE LedgerTypeOK'
  <2>0. cookState[c].on \in Machines /\ Own(c) \in Paths
    BY DEF LedgerTypeOK, Paths
  <2>1. Journal(cookState[c].on, Own(c)) \in Seq(Lines)
    BY <2>0 DEF LedgerTypeOK, Journals, Journal
  <2>2. volumeLog' \in Journals
    BY <1>4, <2>1 DEF Mirror, LedgerTypeOK, Journals
  <2> QED
    BY <1>4, <2>2 DEF Mirror, Fault, LedgerTypeOK
<1>5. ASSUME NEW c \in Cooks, CookDies(c) PROVE LedgerTypeOK'
  <2>1. ledgerFaults' \in Nat
    BY <1>5 DEF CookDies, Fault, LedgerTypeOK
  <2>2. cookState' = [cookState EXCEPT ![c] = [cookState[c] EXCEPT !.at = "over"]]
    BY <1>5 DEF CookDies
  <2> QED
    BY <1>5, <2>1, <2>2 DEF CookDies, LedgerTypeOK
<1>6. ASSUME NEW c \in Cooks, NEW seconds \in 0..MaxSeconds, NEW amount \in 0..MaxAmount, Bills(c, seconds, amount)
      PROVE  LedgerTypeOK'
  <2>1. [seconds |-> seconds, amount |-> amount, there |-> TRUE] \in [seconds : Nat, amount : Nat, there : BOOLEAN]
    OBVIOUS
  <2> QED
    BY <1>6, <2>1 DEF Bills, LedgerTypeOK
<1>7. ASSUME NEW m \in Machines, NEW path \in Paths, Pull(m, path) PROVE LedgerTypeOK'
  <2>1. ledger' \in [Machines -> Journals]
    BY <1>7 DEF Pull, Written, LedgerTypeOK, Journals
  <2> QED
    BY <1>7, <2>1 DEF Pull, LedgerTypeOK
<1>8. CASE UNCHANGED ledgerVars
  BY <1>8 DEF ledgerVars, LedgerTypeOK
<1> QED
  BY <1>1, <1>2, <1>3, <1>4, <1>5, <1>6, <1>7, <1>8 DEF LedgerNext

\* The types of the ledger.
THEOREM LedgerTypeCorrect == LedgerSpec => []LedgerTypeOK
<1> QED
  BY LedgerTypeInit, LedgerTypeNext, PTL DEF LedgerSpec

\* A set of numbers has a smallest one: what induction is made of here, where the
\* induction theorems of the library, which take an operator, cannot be used.
LEMMA SmallestNumber ==
  ASSUME NEW T \in SUBSET Nat, T # {}
  PROVE  \E n \in T : \A k \in T : n <= k
<1>1. PICK n \in T : \A k \in T : ~ (<<k, n>> \in OpToRel(<, Nat))
  BY NatLessThanWellFounded, WFMin
<1>2. \A k \in T : ~ k < n
  BY <1>1 DEF OpToRel
<1> QED
  BY <1>2

\* What is read of a journal is the beginning of it, and whole.
LEMMA ReadableIs ==
  ASSUME NEW journal \in Seq(Lines)
  PROVE  /\ Readable(journal) \in Seq(Lines) /\ DOMAIN Readable(journal) \subseteq DOMAIN journal
         /\ \A i \in DOMAIN Readable(journal) : journal[i] \in Nat
<1> DEFINE torn == {i \in DOMAIN journal : journal[i] < Summary}
<1>0. \A i \in DOMAIN journal : journal[i] \in Lines
  OBVIOUS
<1>a. \A i \in DOMAIN journal : i \notin torn => journal[i] \in Nat
  <2> SUFFICES ASSUME NEW i \in DOMAIN journal, ~ journal[i] < Summary PROVE journal[i] \in Nat
    OBVIOUS
  <2>1. journal[i] \in Lines /\ journal[i] \in Int
    BY <1>0, LinesAre
  <2> QED
    BY <2>1 DEF Summary
<1>1. CASE torn = {}
  BY <1>a, <1>1 DEF Readable
<1>2. CASE torn # {}
  <2> DEFINE first == CHOOSE i \in torn : \A j \in torn : i <= j
  <2>1. torn \in SUBSET Nat
    OBVIOUS
  <2>2. first \in torn /\ \A j \in torn : first <= j
    BY <1>2, <2>1, SmallestNumber
  <2>3. first \in 1..Len(journal)
    BY <2>2
  <2>4. Readable(journal) = SubSeq(journal, 1, first - 1)
    BY <1>2 DEF Readable
  <2> HIDE DEF first
  <2>5. /\ Readable(journal) \in Seq(Lines) /\ DOMAIN Readable(journal) = 1..(first - 1)
    BY <2>3, <2>4
  <2>6. \A i \in 1..(first - 1) : i \in DOMAIN journal /\ i \notin torn
    BY <2>2, <2>3
  <2> QED
    BY <1>a, <2>5, <2>6
<1> QED
  BY <1>1, <1>2
LEMMA ImageIsFinite ==
  ASSUME NEW S, IsFiniteSet(S), NEW f, DOMAIN f = S, f = [x \in S |-> f[x]]
  PROVE  IsFiniteSet({f[x] : x \in S})
<1>1. f \in Surjection(S, {f[x] : x \in S})
  BY DEF Surjection
<1> QED
  BY <1>1, FS_Surjection

\* A cook has finitely many task records, each a number of seconds.
LEMMA RecordsAre ==
  ASSUME LedgerTypeOK, NEW m \in Machines, NEW c \in Cooks
  PROVE  IsFiniteSet(Records(m, c)) /\ \A r \in Records(m, c) : Journal(m, r[1])[r[2]] \in Nat
<1> DEFINE mine == {p \in Paths : p[2] = c}
           RecordsAt(path) == {path} \X {i \in DOMAIN Readable(Journal(m, path)) : Journal(m, path)[i] # Summary}
<1>1. ASSUME NEW path \in Paths PROVE Journal(m, path) \in Seq(Lines)
  BY DEF LedgerTypeOK, Journals, Journal
<1>2. ASSUME NEW path \in Paths PROVE IsFiniteSet(RecordsAt(path))
  <2>1. PICK n \in Nat : DOMAIN Journal(m, path) = 1..n
    BY <1>1
  <2>2. IsFiniteSet(1..n)
    BY FS_Interval
  <2>3. {i \in DOMAIN Readable(Journal(m, path)) : Journal(m, path)[i] # Summary} \subseteq 1..n
    BY <1>1, <2>1, ReadableIs
  <2>4. IsFiniteSet({i \in DOMAIN Readable(Journal(m, path)) : Journal(m, path)[i] # Summary})
    BY <2>2, <2>3, FS_Subset
  <2> QED
    BY <2>4, FS_Singleton, FS_Product
<1>3. IsFiniteSet(mine)
  <2> DEFINE nobody == ""
             of == {nobody} \cup Machines
  <2>1. mine \subseteq of \X {c}
    <3>1. Paths = {<<nobody, d>> : d \in Cooks} \cup {<<n, d>> : n \in Machines, d \in Cooks}
      BY DEF Paths, Own, Shared
    <3> HIDE DEF nobody
    <3>2. ASSUME NEW n \in of, NEW d, <<n, d>>[2] = c PROVE <<n, d>> \in of \X {c}
      BY <3>2
    <3>3. ASSUME NEW p \in Paths, p[2] = c PROVE p \in of \X {c}
      <4>1. PICK n \in of, d \in Cooks : p = <<n, d>>
        BY <3>1
      <4> QED
        BY <3>2, <3>3, <4>1
    <3> QED
      BY <3>3
  <2>2. IsFiniteSet(of) /\ IsFiniteSet({c})
    BY LedgerAssumption, FS_Singleton, FS_Union
  <2> QED
    BY <2>1, <2>2, FS_Product, FS_Subset
<1>4. IsFiniteSet({RecordsAt(path) : path \in mine})
  <2> HIDE DEF mine, RecordsAt
  <2> DEFINE f == [path \in mine |-> RecordsAt(path)]
  <2>1. DOMAIN f = mine /\ f = [x \in mine |-> f[x]]
    OBVIOUS
  <2>2. IsFiniteSet({f[x] : x \in mine})
    <3> HIDE DEF f
    <3> QED
      BY <1>3, <2>1, ImageIsFinite
  <2>3. {f[x] : x \in mine} = {RecordsAt(path) : path \in mine}
    OBVIOUS
  <2> QED
    BY <2>2, <2>3
<1>5. IsFiniteSet(UNION {RecordsAt(path) : path \in mine})
  BY <1>2, <1>4, FS_UNION
<1>6. Records(m, c) = UNION {RecordsAt(path) : path \in mine}
  BY DEF Records
<1>7. ASSUME NEW r \in Records(m, c) PROVE Journal(m, r[1])[r[2]] \in Nat
  <2>1. PICK path \in mine : r \in RecordsAt(path)
    BY <1>6
  <2>2. r[1] = path /\ r[2] \in DOMAIN Readable(Journal(m, path))
    BY <2>1
  <2> QED
    BY <1>1, <2>2, ReadableIs
<1> QED
  BY <1>5, <1>6, <1>7

\* The fold of MapThenSumSet over such records is a number: there is a function that
\* counts every set of up to k records, for each k, and the one chosen does it for all.
LEMMA SumIsNat ==
  ASSUME NEW m, NEW S, IsFiniteSet(S), \A r \in S : Journal(m, r[1])[r[2]] \in Nat
  PROVE  SecondsOf(m, S) \in Nat
<1> DEFINE Pick(s) == CHOOSE x \in s : TRUE
           Body(it, s) == IF s = {} THEN 0 ELSE Journal(m, Pick(s)[1])[Pick(s)[2]] + it[s \ {Pick(s)}]
           Sums(it) == it = [s \in SUBSET S |-> Body(it, s)]
           Up(k) == \E it \in [SUBSET S -> Nat] : \A s \in SUBSET S : Cardinality(s) < k => it[s] = Body(it, s)
           Bad == {k \in Nat : ~ Up(k)}
<1>1. SecondsOf(m, S) = (CHOOSE it : Sums(it))[S]
  BY Zenon DEF SecondsOf, MapThenSumSet, MapThenFoldSet
<1>2. ASSUME NEW s \in SUBSET S PROVE Cardinality(s) \in Nat /\ (s # {} => Pick(s) \in s /\ s \ {Pick(s)} \in SUBSET S /\ Cardinality(s \ {Pick(s)}) = Cardinality(s) - 1)
  BY FS_Subset, FS_CardinalityType, FS_RemoveElement
<1>c. \A s \in SUBSET S : Cardinality(s) \in Nat
  BY FS_Subset, FS_CardinalityType
<1>3. ASSUME NEW k \in Nat, Up(k) PROVE Up(k + 1)
  <2>1. PICK it \in [SUBSET S -> Nat] : \A s \in SUBSET S : Cardinality(s) < k => it[s] = Body(it, s)
    BY <1>3
  <2> DEFINE up == [s \in SUBSET S |-> Body(it, s)]
  <2>2. \A s \in SUBSET S : Body(it, s) \in Nat
    BY <1>2
  <2>3. up \in [SUBSET S -> Nat]
    BY <2>2
  <2>4. ASSUME NEW s \in SUBSET S, Cardinality(s) < k + 1 PROVE up[s] = Body(up, s)
    <3>1. CASE s = {}
      BY <3>1
    <3>2. CASE s # {}
      <4> DEFINE r == s \ {Pick(s)}
      <4>1. r \in SUBSET S /\ Cardinality(r) < k
        BY <1>2, <2>4, <3>2
      <4> HIDE DEF r
      <4>2. up[r] = it[r]
        BY <2>1, <4>1
      <4> QED
        BY <3>2, <4>2 DEF r
    <3> QED
      BY <3>1, <3>2
  <2> QED
    BY <2>3, <2>4
<1>4. Up(0)
  <2>1. [s \in SUBSET S |-> 0] \in [SUBSET S -> Nat]
    OBVIOUS
  <2>2. \A s \in SUBSET S : ~ Cardinality(s) < 0
    BY <1>c
  <2> HIDE DEF Body
  <2> QED
    BY <2>1, <2>2
<1>5. \A k \in Nat : Up(k)
  <2> HIDE DEF Up
  <2> SUFFICES ASSUME Bad # {} PROVE FALSE
    OBVIOUS
  <2>1. PICK n \in Bad : \A k \in Bad : n <= k
    BY SmallestNumber
  <2>2. n # 0 /\ n \in Nat /\ ~ Up(n)
    BY <1>4
  <2>3. Up(n - 1)
    BY <2>1, <2>2
  <2> QED
    BY <2>2, <2>3, <1>3
<1>6. \E it : Sums(it)
  <2>0. Cardinality(S) + 1 \in Nat
    BY <1>c
  <2>a. Up(Cardinality(S) + 1)
    BY <1>5, <2>0
  <2>1. PICK it \in [SUBSET S -> Nat] : \A s \in SUBSET S : Cardinality(s) < Cardinality(S) + 1 => it[s] = Body(it, s)
    BY <2>a
  <2>2. \A s \in SUBSET S : Cardinality(s) <= Cardinality(S)
    BY FS_Subset
  <2>3. \A s \in SUBSET S : it[s] = Body(it, s)
    BY <2>1, <2>2, <1>2
  <2> HIDE DEF Body
  <2>4. it = [s \in SUBSET S |-> Body(it, s)]
    BY <2>3
  <2> QED
    BY <2>4
<1> DEFINE sums == CHOOSE it : Sums(it)
<1>7. Sums(sums)
  BY <1>6
<1> HIDE DEF sums
<1> DEFINE Odd == {k \in Nat : \E s \in SUBSET S : Cardinality(s) = k /\ sums[s] \notin Nat}
<1>8. Odd = {}
  <2> SUFFICES ASSUME Odd # {} PROVE FALSE
    OBVIOUS
  <2>1. PICK n \in Odd : \A k \in Odd : n <= k
    BY SmallestNumber
  <2>2. PICK s \in SUBSET S : Cardinality(s) = n /\ sums[s] \notin Nat
    OBVIOUS
  <2>3. sums[s] = Body(sums, s)
    BY <1>7
  <2>4. s # {} => sums[s \ {Pick(s)}] \in Nat
    BY <1>2, <2>1, <2>2
  <2> QED
    BY <2>2, <2>3, <2>4, <1>2
<1>9. sums[S] \in Nat
  BY <1>2, <1>8
<1> QED
  BY <1>1, <1>9 DEF sums

\* The shares of the tasks and of the idle time are the whole amount.
LEMMA SharesAddUp ==
  ASSUME NEW worked \in Nat, NEW seconds \in Nat, NEW amount \in Nat, NEW d, d = Denominator(seconds, worked)
  PROVE  TaskShares(worked, amount, d) + IdleShare(worked, amount, d) = amount * (IF d = 0 THEN 1 ELSE d)
<1>1. d \in Nat /\ worked <= d
  BY DEF Denominator, LargerOf
<1>2. CASE d = 0
  BY <1>2 DEF TaskShares, IdleShare, LargerOf
<1>3. CASE d # 0
  <2>1. PICK rest \in Nat : d = worked + rest
    <3>1. d - worked \in Nat /\ d = worked + (d - worked)
      BY <1>1
    <3> QED
      BY <3>1
  <2>2. amount * d = worked * amount + amount * rest
    BY <2>1
  <2>3. worked * amount \in Nat /\ amount * rest \in Nat /\ amount * d \in Nat
    BY <1>1, <2>1
  <2>4. LargerOf(amount * d - worked * amount, 0) = amount * rest
    BY <2>2, <2>3 DEF LargerOf
  <2>5. TaskShares(worked, amount, d) = worked * amount /\ IdleShare(worked, amount, d) = amount * rest
    BY <1>3, <2>4 DEF TaskShares, IdleShare
  <2> QED
    BY <1>3, <2>2, <2>3, <2>5
<1> QED
  BY <1>2, <1>3

\* Whatever the journals hold (torn, cut, lost, counted twice), what the report of a
\* cook comes to is what RunPod billed.
THEOREM BillAlwaysReconciles == LedgerSpec => []MergeReconciles
<1>1. LedgerTypeOK => MergeReconciles
  <2> SUFFICES ASSUME LedgerTypeOK, NEW m \in Machines, NEW c \in Cooks
               PROVE  Merged(m, c).sum = bill[c].amount * Merged(m, c).over
    BY DEF MergeReconciles
  <2>1. bill[c].seconds \in Nat /\ bill[c].amount \in Nat
    BY DEF LedgerTypeOK
  <2>2. SecondsOf(m, Records(m, c)) \in Nat
    BY RecordsAre, SumIsNat
  <2>3. CASE Records(m, c) = {}
    BY <2>1, <2>3 DEF Merged
  <2>4. CASE Records(m, c) # {}
    <3> DEFINE worked == SecondsOf(m, Records(m, c))
               d == Denominator(bill[c].seconds, worked)
               amount == bill[c].amount
    <3>1. TaskShares(worked, amount, d) + IdleShare(worked, amount, d) = amount * (IF d = 0 THEN 1 ELSE d)
      BY <2>1, <2>2, SharesAddUp
    <3>2. /\ Merged(m, c).sum = TaskShares(worked, amount, d) + IdleShare(worked, amount, d)
          /\ Merged(m, c).over = (IF d = 0 THEN 1 ELSE d)
      BY <2>4 DEF Merged
    <3> QED
      BY <3>1, <3>2
  <2> QED
    BY <2>3, <2>4
<1> QED
  BY <1>1, LedgerTypeCorrect, PTL

-----------------------------------------------------------------------------
(* Smoke                                                                   *)

\* What the child, the ledger and the parent of a smoke test hold.
ChildState == [at : {"none", "loading", "cooking", "reporting", "written", "over"}, rc : {0, 1}, aborted : BOOLEAN]
RowState   == [task : [Items -> {"none", "ok", "failed"}], summary : BOOLEAN]
FoundState == [rc : {0, 1}, ok : BOOLEAN, outputs : BOOLEAN, ledger : BOOLEAN, remaining : SUBSET FarmPods,
               doom : SUBSET FarmPods, keep : BOOLEAN]

SmokeTypeOK ==
  /\ parent \in {"begin", "run", "read", "outputs", "ledger", "cleanup", "terminate", "judge", "end"}
  /\ child \in ChildState /\ files \in [Items -> {"none", "stale", "empty", "new"}]
  /\ item \in [Items -> {"waiting", "cooking", "done", "failed"}] /\ rows \in RowState
  /\ result \in {"none", "torn", "bad", "ok"} /\ cookId \in {"none", "old", "mine"} /\ found \in FoundState
  /\ alive \in SUBSET FarmPods /\ flying \in SUBSET FarmPods
  /\ verdict \in {"none", "pass", "fail"} /\ trouble \in Nat /\ broken \in BOOLEAN /\ late \in SUBSET FarmPods

\* The exit code says what the nodes did.
ResultIsReal == child.rc = 0 => child.at = "over" /\ NodesOk

\* The parent has waited for its child
Past == parent \notin {"begin", "run"}

\* What the parent has learned is what it looked at: of a child that is over, of files
\* and a ledger that nobody writes any more, and of a list of pods, to which
\* only those then in flight can be added.
LearntIsReal ==
  /\ parent = "begin" => child.at = "none"
  /\ Past => child.at = "over"
  /\ found.rc = 0 => Past /\ child.rc = 0
  /\ found.outputs => Past /\ OutputsOk
  /\ found.ledger => Past /\ (OwnLedger => LedgerOk)
  /\ parent \in {"judge", "end"} /\ found.remaining = {} =>
       found.keep \/ broken \/ (alive \cup flying) \cap MinePods \subseteq late
  /\ verdict = "pass" => parent = "end" /\ found.rc = 0 /\ found.outputs /\ found.ledger /\ found.remaining = {}

SmokeInv == SmokeTypeOK /\ ResultIsReal /\ LearntIsReal

\* What the child does, the parent has not looked at yet
LEMMA ChildMoves ==
  ASSUME SmokeInv, child.at \notin {"none", "over"}, UNCHANGED <<parent, found, verdict, broken, late>>
  PROVE  LearntIsReal'
  BY DEF SmokeInv, SmokeTypeOK, LearntIsReal, Past

\* The cook ends by itself or is cancelled.
LEMMA CookEndKeeps ==
  ASSUME SmokeInv, MinePods \subseteq FarmPods, NEW aborted \in BOOLEAN, NEW summary \in BOOLEAN,
         NEW gone \in SUBSET MinePods, ChildCookEnds(aborted, summary, gone)
  PROVE  SmokeInv'
<1>1. child \in ChildState /\ trouble \in Nat /\ alive \in SUBSET FarmPods /\ rows \in RowState
  BY DEF SmokeInv, SmokeTypeOK
<1>2. /\ child.at = "cooking" /\ child' = [child EXCEPT !.at = "reporting", !.aborted = aborted]
      /\ rows' = [rows EXCEPT !.summary = summary] /\ alive' = alive \ gone
      /\ trouble' \in {trouble, trouble + 1}
      /\ UNCHANGED <<files, item, flying, result, cookId, parent, found, verdict, broken, late>>
  BY DEF ChildCookEnds, ResultStays, ParentStays, Trouble
<1>3. child' \in ChildState /\ child'.at = "reporting" /\ child'.rc = child.rc
  BY <1>1, <1>2 DEF ChildState
<1>4. rows' \in RowState /\ alive' \in SUBSET FarmPods /\ trouble' \in Nat
  BY <1>1, <1>2 DEF RowState
<1>5. SmokeTypeOK' /\ LearntIsReal'
  BY <1>2, <1>3, <1>4, ChildMoves DEF SmokeInv, SmokeTypeOK
<1>6. ResultIsReal'
  BY <1>2, <1>3 DEF SmokeInv, ResultIsReal
<1> QED
  BY <1>5, <1>6 DEF SmokeInv

\* The child cooks, writes its result and ends, or dies.
LEMMA ChildKeeps ==
  ASSUME SmokeInv, MinePods \subseteq FarmPods,
         \/ CookStarts \/ WriteResult \/ WriteFails \/ ChildExits \/ ChildDies
         \/ \E p \in FarmPods : PodSent(p) \/ PodComes(p)
         \/ \E aborted \in BOOLEAN, summary \in BOOLEAN, gone \in SUBSET MinePods : ChildCookEnds(aborted, summary, gone)
  PROVE  SmokeInv'
<1>1. child \in ChildState /\ trouble \in Nat /\ alive \in SUBSET FarmPods /\ rows \in RowState
  BY DEF SmokeInv, SmokeTypeOK
<1> USE DEF ParentStays, CookStays, ResultStays, Trouble
<1>2. CASE CookStarts
  <2>1. child' \in ChildState /\ child.at = "loading" /\ child'.at = "cooking" /\ child'.rc = child.rc
    BY <1>1, <1>2 DEF CookStarts, Child, ChildState
  <2>2. SmokeTypeOK' /\ ResultIsReal' /\ LearntIsReal'
    BY <1>2, <2>1, ChildMoves DEF CookStarts, SmokeInv, SmokeTypeOK, ResultIsReal
  <2> QED
    BY <2>2 DEF SmokeInv
<1>3. CASE WriteResult \/ WriteFails
  <2>1. child' \in ChildState /\ child.at = "reporting" /\ child'.at = "written" /\ child'.rc = child.rc
    BY <1>1, <1>3 DEF WriteResult, WriteFails, Child, ChildState
  <2>2. result' \in {"none", "torn", "ok", "bad"} /\ cookId' \in {"none", "old", "mine"} /\ trouble' \in Nat
    BY <1>1, <1>3 DEF WriteResult, WriteFails, SmokeInv, SmokeTypeOK
  <2>3. UNCHANGED <<files, item, rows, alive, flying, parent, found, verdict, broken, late>>
    BY <1>3 DEF WriteResult, WriteFails
  <2>4. SmokeTypeOK' /\ LearntIsReal'
    BY <2>1, <2>2, <2>3, ChildMoves DEF SmokeInv, SmokeTypeOK
  <2>5. ResultIsReal'
    BY <2>1 DEF SmokeInv, ResultIsReal
  <2> QED
    BY <2>4, <2>5 DEF SmokeInv
<1>4. CASE ChildExits
  <2>1. child' \in ChildState /\ child.at = "written" /\ child'.at = "over" /\ (child'.rc = 0 => NodesOk)
        /\ child'.aborted = child.aborted /\ UNCHANGED item
    <3>1. PICK r \in {0, 1} : child' = [child EXCEPT !.at = "over", !.rc = r] /\ (r = 0 => NodesOk)
      <4>1. CASE NodesOk
        <5>1. child' = [child EXCEPT !.at = "over", !.rc = 0]
          BY <1>4, <4>1 DEF ChildExits
        <5> QED
          BY <4>1, <5>1
      <4>2. CASE ~NodesOk
        <5>1. child' = [child EXCEPT !.at = "over", !.rc = 1]
          BY <1>4, <4>2 DEF ChildExits
        <5> QED
          BY <5>1
      <4> QED
        BY <4>1, <4>2
    <3>2. /\ child' \in ChildState /\ child'.at = "over" /\ child'.rc = r /\ child'.aborted = child.aborted
      BY <1>1, <3>1 DEF ChildState
    <3> QED
      BY <1>4, <3>1, <3>2 DEF ChildExits
  <2>3. NodesOk => NodesOk'
    BY <2>1 DEF NodesOk
  <2>4. SmokeTypeOK' /\ LearntIsReal'
    BY <1>4, <2>1, ChildMoves DEF ChildExits, SmokeInv, SmokeTypeOK
  <2>5. ResultIsReal'
    BY <2>1, <2>3 DEF ResultIsReal
  <2> QED
    BY <2>4, <2>5 DEF SmokeInv
<1>5. ASSUME NEW p \in FarmPods, PodSent(p)
      PROVE  SmokeInv'
  <2>1. UNCHANGED <<child, item, files, rows, result, cookId, alive, trouble>> /\ child.at = "cooking"
        /\ flying' = flying \cup {p}
    BY <1>5 DEF PodSent
  <2>2. SmokeTypeOK' /\ LearntIsReal'
    BY <1>5, <2>1, ChildMoves DEF PodSent, SmokeInv, SmokeTypeOK
  <2>3. ResultIsReal'
    BY <2>1 DEF SmokeInv, ResultIsReal, NodesOk
  <2> QED
    BY <2>2, <2>3 DEF SmokeInv
<1>8. ASSUME NEW p \in FarmPods, PodComes(p)
      PROVE  SmokeInv'
  <2>1. /\ UNCHANGED <<child, item, files, rows, result, cookId, trouble, parent, found, verdict, broken, late>>
        /\ p \in flying /\ flying' = flying \ {p} /\ alive' \subseteq alive \cup {p}
    BY <1>8 DEF PodComes
  <2>2. SmokeTypeOK' /\ ResultIsReal'
    BY <2>1 DEF SmokeInv, SmokeTypeOK, ResultIsReal, NodesOk
  <2>3. LearntIsReal'
    BY <2>1 DEF SmokeInv, LearntIsReal, Past, OutputsOk, LedgerOk, OwnLedger, Rows
  <2> QED
    BY <2>2, <2>3 DEF SmokeInv
<1>7. CASE ChildDies
  <2>1. child' \in ChildState /\ child.at \notin {"none", "over"} /\ child'.at = "over" /\ child'.rc = 1
    BY <1>1, <1>7 DEF ChildDies, ChildState
  <2>2. SmokeTypeOK' /\ LearntIsReal'
    BY <1>1, <1>7, <2>1, ChildMoves DEF ChildDies, SmokeInv, SmokeTypeOK
  <2>3. ResultIsReal'
    BY <2>1 DEF ResultIsReal
  <2> QED
    BY <2>2, <2>3 DEF SmokeInv
<1> QED
  BY <1>2, <1>3, <1>4, <1>5, <1>7, <1>8, CookEndKeeps

\* An item of the cook ends.
LEMMA ItemKeeps ==
  ASSUME SmokeInv, NEW f \in Items, NEW state \in {"done", "failed"}, NEW file \in {"new", "same", "empty"},
         NEW row \in {"none", "ok", "failed"}, ItemEnds(f, state, file, row)
  PROVE  SmokeInv'
<1>1. /\ item' = [item EXCEPT ![f] = state] /\ child.at = "cooking"
      /\ UNCHANGED <<child, result, cookId, alive, flying, parent, found, verdict, broken, late>>
  BY DEF ItemEnds, ParentStays, ResultStays
<1>2. files' \in [Items -> {"none", "stale", "empty", "new"}] /\ item' \in [Items -> {"waiting", "cooking", "done", "failed"}]
  BY <1>1 DEF SmokeInv, SmokeTypeOK, ItemEnds
<1>3. rows' \in RowState
  BY DEF SmokeInv, SmokeTypeOK, RowState, ItemEnds
<1>4. trouble' \in Nat
  BY DEF SmokeInv, SmokeTypeOK, ItemEnds, Trouble
<1>5. SmokeTypeOK' /\ LearntIsReal'
  BY <1>1, <1>2, <1>3, <1>4, ChildMoves DEF SmokeInv, SmokeTypeOK
<1>6. ResultIsReal'
  BY <1>1 DEF SmokeInv, SmokeTypeOK, ResultIsReal
<1> QED
  BY <1>5, <1>6 DEF SmokeInv

\* The parent looks; what it looks at is over
LEMMA ParentMoves ==
  ASSUME SmokeInv, UNCHANGED <<child, files, item, rows, result, cookId, flying>>,
         parent' \in {"read", "outputs", "ledger", "cleanup", "terminate", "judge", "end"}, child.at = "over",
         found' \in FoundState, alive' \in SUBSET FarmPods, verdict' \in {"none", "pass", "fail"}, trouble' \in Nat,
         broken' \in BOOLEAN, late' \in SUBSET FarmPods,
         found'.rc = 0 => child.rc = 0,
         found'.outputs => found.outputs \/ OutputsOk,
         found'.ledger => found.ledger \/ (OwnLedger => LedgerOk),
         parent' \in {"judge", "end"} /\ found'.remaining = {} =>
           found'.keep \/ broken' \/ (alive' \cup flying) \cap MinePods \subseteq late',
         verdict' = "pass" => parent' = "end" /\ found'.rc = 0 /\ found'.outputs /\ found'.ledger /\ found'.remaining = {}
  PROVE  SmokeInv'
<1>1. (OutputsOk => OutputsOk') /\ (LedgerOk => LedgerOk') /\ (NodesOk => NodesOk') /\ (OwnLedger' => OwnLedger)
  BY DEF OutputsOk, LedgerOk, NodesOk, Rows, OwnLedger
<1>2. SmokeTypeOK'
  BY DEF SmokeInv, SmokeTypeOK
<1>3. ResultIsReal'
  BY <1>1 DEF SmokeInv, ResultIsReal
<1>4. LearntIsReal'
  BY <1>1 DEF SmokeInv, LearntIsReal, Past
<1> QED
  BY <1>2, <1>3, <1>4 DEF SmokeInv

\* What the parent may learn at a step, one thing at a time.
FoundFields == {"rc", "ok", "outputs", "ledger", "remaining", "doom", "keep"}

LEMMA FoundNow ==
  ASSUME SmokeInv, NEW changes, Learns(changes)
  PROVE  /\ found' = [rc |-> found'.rc, ok |-> found'.ok, outputs |-> found'.outputs, ledger |-> found'.ledger,
                      remaining |-> found'.remaining, doom |-> found'.doom, keep |-> found'.keep]
         /\ \A f \in FoundFields : found'[f] = IF f \in DOMAIN changes THEN changes[f] ELSE found[f]
<1>1. found \in FoundState
  BY DEF SmokeInv, SmokeTypeOK
<1>2. DOMAIN found = FoundFields
  BY <1>1 DEF FoundState, FoundFields
<1> QED
  BY <1>2 DEF Learns, FoundFields

\* A change of one thing learned
LEMMA LearntOne ==
  ASSUME SmokeInv, NEW f \in FoundFields \ {"rc"}, NEW v, NEW changes, Learns(changes),
         DOMAIN changes = {f}, changes[f] = v,
         f \in {"ok", "outputs", "ledger", "keep"} => v \in BOOLEAN,
         f \in {"remaining", "doom"} => v \in SUBSET FarmPods
  PROVE  found' \in FoundState /\ found'[f] = v /\ \A g \in FoundFields \ {f} : found'[g] = found[g]
<1>1. \A g \in FoundFields : found'[g] = IF g \in {f} THEN v ELSE found[g]
  BY FoundNow
<1>2. found' = [rc |-> found'.rc, ok |-> found'.ok, outputs |-> found'.outputs, ledger |-> found'.ledger,
                remaining |-> found'.remaining, doom |-> found'.doom, keep |-> found'.keep]
  BY FoundNow
<1>3. found \in FoundState
  BY DEF SmokeInv, SmokeTypeOK
<1>4. /\ found'.rc \in {0, 1} /\ found'.ok \in BOOLEAN /\ found'.outputs \in BOOLEAN /\ found'.ledger \in BOOLEAN
      /\ found'.remaining \in SUBSET FarmPods /\ found'.doom \in SUBSET FarmPods /\ found'.keep \in BOOLEAN
  BY <1>1, <1>3 DEF FoundState, FoundFields
<1>5. found' \in FoundState
  BY <1>2, <1>4 DEF FoundState
<1> QED
  BY <1>1, <1>5

LEMMA LearntCode ==
  ASSUME SmokeInv, NEW r \in {0, 1}, Learns([rc |-> r])
  PROVE  found' \in FoundState /\ found'.rc = r /\ \A g \in FoundFields \ {"rc"} : found'[g] = found[g]
<1>1. \A g \in FoundFields : found'[g] = IF g = "rc" THEN r ELSE found[g]
  BY FoundNow
<1>2. found' = [rc |-> found'.rc, ok |-> found'.ok, outputs |-> found'.outputs, ledger |-> found'.ledger,
                remaining |-> found'.remaining, doom |-> found'.doom, keep |-> found'.keep]
  BY FoundNow
<1>3. found \in FoundState
  BY DEF SmokeInv, SmokeTypeOK
<1>4. /\ found'.rc \in {0, 1} /\ found'.ok \in BOOLEAN /\ found'.outputs \in BOOLEAN /\ found'.ledger \in BOOLEAN
      /\ found'.remaining \in SUBSET FarmPods /\ found'.doom \in SUBSET FarmPods /\ found'.keep \in BOOLEAN
  BY <1>1, <1>3 DEF FoundState, FoundFields
<1>5. found' \in FoundState
  BY <1>2, <1>4 DEF FoundState
<1> QED
  BY <1>1, <1>5 DEF FoundFields

\* What every step of the parent past its wait starts from
LEMMA ParentFacts ==
  ASSUME SmokeInv
  PROVE  /\ found \in FoundState /\ alive \in SUBSET FarmPods /\ flying \in SUBSET FarmPods
         /\ late \in SUBSET FarmPods /\ verdict \in {"none", "pass", "fail"} /\ trouble \in Nat
         /\ broken \in BOOLEAN /\ child.rc \in {0, 1}
         /\ Past => child.at = "over"
         /\ found.rc = 0 => child.rc = 0
         /\ parent # "end" => verdict # "pass"
         /\ parent = "judge" /\ found.remaining = {} =>
              found.keep \/ broken \/ (alive \cup flying) \cap MinePods \subseteq late
         /\ verdict = "pass" => parent = "end" /\ found.rc = 0 /\ found.outputs /\ found.ledger /\ found.remaining = {}
  BY DEF SmokeInv, SmokeTypeOK, LearntIsReal, ChildState

\* The parent waits, and looks at the result, the outputs and the ledger.
LEMMA LooksKeep ==
  ASSUME SmokeInv, StartChild \/ Waited \/ ReadResult \/ VerifyOutputs \/ VerifyLedger \/ Interrupted
  PROVE  SmokeInv'
<1> USE DEF CookStays, ResultStays, Moves
<1>1. CASE StartChild
  <2>1. /\ child' = [child EXCEPT !.at = "loading"] /\ parent = "begin" /\ parent' = "run"
        /\ UNCHANGED <<files, item, rows, result, cookId, found, alive, flying, verdict, trouble, broken, late>>
    BY <1>1 DEF StartChild
  <2>2. child' \in ChildState /\ child'.at = "loading" /\ child'.rc = child.rc /\ child.at = "none"
    BY <2>1 DEF SmokeInv, SmokeTypeOK, ChildState, LearntIsReal
  <2>3. SmokeTypeOK' /\ ResultIsReal'
    BY <2>1, <2>2 DEF SmokeInv, SmokeTypeOK, ResultIsReal
  <2>4. LearntIsReal'
    BY <2>1, <2>2 DEF SmokeInv, LearntIsReal, Past
  <2> QED
    BY <2>3, <2>4 DEF SmokeInv
<1>2. CASE Waited
  <2>1. Learns([rc |-> child.rc]) /\ child.at = "over" /\ parent = "run" /\ parent' = "read"
        /\ UNCHANGED <<child, files, item, rows, result, cookId, flying, alive, verdict, trouble, broken, late>>
    BY <1>2 DEF Waited
  <2>2. found' \in FoundState /\ found'.rc = child.rc /\ found'.outputs = found.outputs /\ found'.ledger = found.ledger
    BY <2>1, LearntCode, ParentFacts DEF FoundFields
  <2> QED
    BY <2>1, <2>2, ParentFacts, ParentMoves
<1>3. CASE ReadResult
  <2>1. PICK v \in BOOLEAN : v = (result = "ok")
    OBVIOUS
  <2> DEFINE changes == [ok |-> v]
  <2>2. DOMAIN changes = {"ok"} /\ changes["ok"] = v
    OBVIOUS
  <2>3. /\ Learns(changes) /\ parent = "read" /\ parent' = "outputs"
        /\ UNCHANGED <<child, files, item, rows, result, cookId, flying, alive, verdict, trouble, broken, late>>
    BY <1>3, <2>1 DEF ReadResult
  <2> HIDE DEF changes
  <2>4. found' \in FoundState /\ found'.rc = found.rc /\ found'.outputs = found.outputs /\ found'.ledger = found.ledger
    BY <2>2, <2>3, LearntOne DEF FoundFields
  <2> QED
    BY <2>3, <2>4, ParentFacts, ParentMoves DEF Past
<1>4. CASE VerifyOutputs
  <2>1. PICK v \in BOOLEAN : v = OutputsOk
    BY DEF OutputsOk
  <2> DEFINE changes == [outputs |-> v]
  <2>2. DOMAIN changes = {"outputs"} /\ changes["outputs"] = v
    OBVIOUS
  <2>3. /\ Learns(changes) /\ parent = "outputs" /\ parent' = "ledger"
        /\ UNCHANGED <<child, files, item, rows, result, cookId, flying, alive, verdict, trouble, broken, late>>
    BY <1>4, <2>1 DEF VerifyOutputs
  <2> HIDE DEF changes
  <2>4. found' \in FoundState /\ found'.rc = found.rc /\ found'.outputs = v /\ found'.ledger = found.ledger
    BY <2>2, <2>3, LearntOne DEF FoundFields
  <2> QED
    BY <2>1, <2>3, <2>4, ParentFacts, ParentMoves DEF Past
<1>5. CASE VerifyLedger
  <2>1. PICK v \in BOOLEAN : (OwnLedger => v = LedgerOk) /\ Learns([ledger |-> v])
    BY <1>5 DEF VerifyLedger
  <2> DEFINE changes == [ledger |-> v]
  <2>2. DOMAIN changes = {"ledger"} /\ changes["ledger"] = v
    OBVIOUS
  <2>3. /\ Learns(changes) /\ parent = "ledger" /\ parent' = "cleanup"
        /\ UNCHANGED <<child, files, item, rows, result, cookId, flying, alive, verdict, trouble, broken, late>>
    BY <1>5, <2>1 DEF VerifyLedger
  <2> HIDE DEF changes
  <2>4. found' \in FoundState /\ found'.rc = found.rc /\ found'.outputs = found.outputs /\ found'.ledger = v
    BY <2>2, <2>3, LearntOne DEF FoundFields
  <2> QED
    BY <2>1, <2>3, <2>4, ParentFacts, ParentMoves DEF Past
<1>6. CASE Interrupted
  <2>1. /\ Learns([rc |-> 1]) /\ child.at = "over" /\ parent' = "cleanup" /\ trouble' = trouble + 1
        /\ parent \in {"run", "read", "outputs", "ledger"}
        /\ UNCHANGED <<child, files, item, rows, result, cookId, flying, alive, verdict, broken, late>>
    BY <1>6 DEF Interrupted, Trouble
  <2>2. found' \in FoundState /\ found'.rc = 1 /\ found'.outputs = found.outputs /\ found'.ledger = found.ledger
    BY <2>1, LearntCode DEF FoundFields
  <2> QED
    BY <2>1, <2>2, ParentFacts, ParentMoves DEF Past
<1> QED
  BY <1>1, <1>2, <1>3, <1>4, <1>5, <1>6

\* The parent ends what is left and judges.
LEMMA CleanupKeeps ==
  ASSUME SmokeInv, MinePods \subseteq FarmPods,
         Keep \/ ListPods \/ Relist \/ ListFails \/ Judge \/ \E p \in FarmPods : TerminatePod(p)
  PROVE  SmokeInv'
<1> USE DEF CookStays, ResultStays, Moves
<1>1. CASE Keep
  <2> DEFINE changes == [keep |-> TRUE]
  <2>2. DOMAIN changes = {"keep"} /\ changes["keep"] = TRUE
    OBVIOUS
  <2>4. /\ Learns(changes) /\ parent = "cleanup" /\ parent' = "judge"
        /\ UNCHANGED <<child, files, item, rows, result, cookId, flying, alive, verdict, trouble, broken, late>>
    BY <1>1 DEF Keep
  <2> HIDE DEF changes
  <2>3. found' \in FoundState /\ found'.rc = found.rc /\ found'.outputs = found.outputs /\ found'.ledger = found.ledger
        /\ found'.keep = TRUE
    BY <2>2, <2>4, LearntOne DEF FoundFields
  <2> QED
    BY <2>4, <2>3, ParentFacts, ParentMoves DEF Past
<1>2. CASE ListPods
  <2>1. PICK v \in SUBSET FarmPods : v = alive \cap MinePods
    OBVIOUS
  <2> DEFINE changes == [doom |-> v]
  <2>2. DOMAIN changes = {"doom"} /\ changes["doom"] = v
    OBVIOUS
  <2>3. /\ Learns(changes) /\ parent = "cleanup" /\ parent' = "terminate"
        /\ UNCHANGED <<child, files, item, rows, result, cookId, flying, alive, verdict, trouble, broken, late>>
    BY <1>2, <2>1 DEF ListPods
  <2> HIDE DEF changes
  <2>4. found' \in FoundState /\ found'.rc = found.rc /\ found'.outputs = found.outputs /\ found'.ledger = found.ledger
    BY <2>2, <2>3, LearntOne DEF FoundFields
  <2> QED
    BY <2>3, <2>4, ParentFacts, ParentMoves DEF Past
<1>3. ASSUME NEW p \in FarmPods, TerminatePod(p)
      PROVE  SmokeInv'
  <2>1. PICK v \in SUBSET FarmPods : v = found.doom \ {p}
    BY ParentFacts DEF FoundState
  <2> DEFINE changes == [doom |-> v]
  <2>2. DOMAIN changes = {"doom"} /\ changes["doom"] = v
    OBVIOUS
  <2>3. /\ Learns(changes) /\ parent = "terminate" /\ parent' = "terminate"
        /\ UNCHANGED <<child, files, item, rows, result, cookId, flying, verdict, broken, late>>
        /\ alive' \subseteq alive /\ trouble' \in {trouble, trouble + 1}
    BY <1>3, <2>1 DEF TerminatePod, Trouble
  <2> HIDE DEF changes
  <2>4. found' \in FoundState /\ found'.rc = found.rc /\ found'.outputs = found.outputs /\ found'.ledger = found.ledger
    BY <2>2, <2>3, LearntOne DEF FoundFields
  <2>5. alive' \in SUBSET FarmPods /\ trouble' \in Nat
    BY <2>3, ParentFacts
  <2> QED
    BY <2>3, <2>4, <2>5, ParentFacts, ParentMoves DEF Past
<1>4. CASE Relist
  <2>1. PICK v \in SUBSET FarmPods : v = alive \cap MinePods
    OBVIOUS
  <2> DEFINE changes == [remaining |-> v]
  <2>2. DOMAIN changes = {"remaining"} /\ changes["remaining"] = v
    OBVIOUS
  <2>3. /\ Learns(changes) /\ parent = "terminate" /\ parent' = "judge"
        /\ UNCHANGED <<child, files, item, rows, result, cookId, flying, alive, verdict, trouble, broken>> /\ late' = flying
    BY <1>4, <2>1 DEF Relist
  <2> HIDE DEF changes
  <2>4. found' \in FoundState /\ found'.rc = found.rc /\ found'.outputs = found.outputs /\ found'.ledger = found.ledger
        /\ found'.remaining = v
    BY <2>2, <2>3, LearntOne DEF FoundFields
  <2> QED
    BY <2>1, <2>3, <2>4, ParentFacts, ParentMoves DEF Past
<1>5. CASE ListFails
  <2>1. /\ UNCHANGED <<child, files, item, rows, result, cookId, flying, found, alive, verdict, late>> /\ broken' = TRUE
        /\ parent \in {"cleanup", "terminate"} /\ parent' = "judge" /\ trouble' = trouble + 1
    BY <1>5 DEF ListFails, Trouble
  <2> QED
    BY <2>1, ParentFacts, ParentMoves DEF Past
<1>6. CASE Judge
  <2>1. /\ UNCHANGED <<child, files, item, rows, result, cookId, flying, found, alive, trouble, broken, late>>
        /\ parent = "judge" /\ parent' = "end" /\ verdict' \in {"pass", "fail"}
        /\ verdict' = "pass" => found.rc = 0 /\ found.ok /\ found.outputs /\ found.ledger /\ found.remaining = {}
    BY <1>6 DEF Judge
  <2> QED
    BY <2>1, ParentFacts, ParentMoves DEF Past
<1> QED
  BY <1>1, <1>2, <1>3, <1>4, <1>5, <1>6

\* The inductive invariant of a smoke test.
THEOREM SmokeInvariant == SmokeSpec => []SmokeInv
<1>1. SmokeInit => SmokeInv
  <2> SUFFICES ASSUME SmokeInit PROVE SmokeInv
    OBVIOUS
  <2>1. child \in ChildState /\ child.at = "none" /\ child.rc = 1 /\ rows \in RowState
    BY DEF SmokeInit, ChildState, RowState
  <2>2. found \in FoundState /\ found.rc = 1 /\ found.outputs = FALSE /\ found.ledger = FALSE
    BY DEF SmokeInit, Nothing, FoundState
  <2>3. SmokeTypeOK
    <3>1. files \in [Items -> {"none", "stale", "empty", "new"}]
      BY DEF SmokeInit
    <3> QED
      BY <2>1, <2>2, <3>1 DEF SmokeInit, SmokeTypeOK
  <2>4. ResultIsReal /\ LearntIsReal
    BY <2>1, <2>2 DEF SmokeInit, ResultIsReal, LearntIsReal, Past
  <2> QED
    BY <2>3, <2>4 DEF SmokeInv
<1>2. ASSUME SmokeInv, [SmokeNext]_smokeVars
      PROVE  SmokeInv'
  <2>1. MinePods \subseteq FarmPods
    BY SmokeAssumption
  <2>2. CASE UNCHANGED smokeVars
    <3>1. SmokeTypeOK' /\ ResultIsReal' /\ LearntIsReal'
      BY <1>2, <2>2 DEF smokeVars, SmokeInv, SmokeTypeOK, ResultIsReal, LearntIsReal, NodesOk, Past, OutputsOk, LedgerOk, OwnLedger,
         Rows
    <3> QED
      BY <3>1 DEF SmokeInv
  <2>3. ASSUME NEW f \in Items, NEW state \in {"done", "failed"}, NEW file \in {"new", "same", "empty"},
               NEW row \in {"none", "ok", "failed"}, ItemEnds(f, state, file, row)
        PROVE  SmokeInv'
    BY <1>2, <2>3, ItemKeeps
  <2> QED
    BY <1>2, <2>1, <2>2, <2>3, ChildKeeps, LooksKeep, CleanupKeeps DEF SmokeNext
<1> QED
  BY <1>1, <1>2, PTL DEF SmokeSpec

\* The types of a smoke test.
THEOREM SmokeTypeCorrect == SmokeSpec => []SmokeTypeOK
<1>1. SmokeInv => SmokeTypeOK
  BY DEF SmokeInv
<1> QED
  BY <1>1, SmokeInvariant, PTL

\* A ledger that satisfies the check lacks no more rows than there are probes
LEMMA RowsSuffice ==
  ASSUME SmokeInv, LedgerOk, IsFiniteSet(Frames), IsFiniteSet(Probes)
  PROVE  Cardinality({f \in Items : rows.task[f] # "ok"}) <= Cardinality(Probes)
<1> DEFINE Ok == Rows("ok")
<1>1. IsFiniteSet(Items) /\ Cardinality(Items) = Cardinality(Frames) + Cardinality(Probes) - Cardinality(Frames \cap Probes)
  BY FS_Union DEF Items
<1>2. {f \in Items : rows.task[f] # "ok"} = Items \ Ok /\ Items \cap Ok = Ok
  BY DEF Rows
<1>3. Cardinality(Items \ Ok) = Cardinality(Items) - Cardinality(Items \cap Ok)
  BY <1>1, FS_Difference
<1>4. IsFiniteSet(Frames \cap Probes) /\ IsFiniteSet(Ok)
  BY <1>1, <1>2, FS_Subset
<1>5. /\ Cardinality(Frames) \in Nat /\ Cardinality(Probes) \in Nat /\ Cardinality(Frames \cap Probes) \in Nat
      /\ Cardinality(Ok) \in Nat
  BY <1>4, FS_CardinalityType
<1>6. Cardinality(Ok) >= Cardinality(Frames)
  BY DEF LedgerOk
<1>7. Cardinality(Items \ Ok) = Cardinality(Items) - Cardinality(Ok)
  BY <1>2, <1>3
<1> DEFINE i == Cardinality(Items)
           d == Cardinality(Items \ Ok)
           o == Cardinality(Ok)
           fr == Cardinality(Frames)
           pr == Cardinality(Probes)
           b == Cardinality(Frames \cap Probes)
<1>8. i = fr + pr - b /\ d = i - o /\ o >= fr /\ fr \in Nat /\ pr \in Nat /\ b \in Nat /\ o \in Nat
  BY <1>1, <1>5, <1>6, <1>7
<1> HIDE DEF Ok, i, d, o, fr, pr, b
<1>9. d <= pr
  BY <1>8
<1> QED
  BY <1>2, <1>9 DEF d, pr

\* A smoke test passes only when its Houdini cooked every item, every frame is new, the
\* cook's ledger file, when there is one it can be told by, has a good row for all but as
\* many items as there are probes, and no pod is left but one whose create was still in
\* flight, unless it was to keep them or RunPod's list was broken.
THEOREM PassesAreReal == SmokeSpec => []PassIsReal
<1>1. SmokeInv => PassIsReal
  <2> SUFFICES ASSUME SmokeInv, verdict = "pass"
               PROVE  /\ ~child.aborted /\ child.rc = 0 /\ \A f \in Items : item[f] = "done"
                      /\ \A f \in Frames : files[f] = "new"
                      /\ OwnLedger => rows.summary /\ Cardinality({f \in Items : rows.task[f] # "ok"}) <= Cardinality(Probes)
                      /\ found.keep \/ broken \/ alive \cap MinePods \subseteq late
    BY DEF PassIsReal
  <2>1. /\ child.rc = 0 /\ OutputsOk /\ (OwnLedger => LedgerOk) /\ (found.keep \/ broken \/ alive \cap MinePods \subseteq late)
    BY DEF SmokeInv, LearntIsReal
  <2>2. ~child.aborted /\ \A f \in Items : item[f] = "done"
    BY <2>1 DEF SmokeInv, ResultIsReal, NodesOk
  <2>3. OwnLedger => Cardinality({f \in Items : rows.task[f] # "ok"}) <= Cardinality(Probes)
    BY <2>1, RowsSuffice, SmokeAssumption
  <2> QED
    BY <2>1, <2>2, <2>3 DEF OutputsOk, LedgerOk
<1> QED
  BY <1>1, SmokeInvariant, PTL

-----------------------------------------------------------------------------
(* Packages                                                                *)

\* The paths an instance can speak of.
PathSeqs == Seq(PathNames)

\* Paths, names one after the other: prefixes of them, and what is below a prefix.
LEMMA PathsAre ==
  /\ JobDir \in PathSeqs /\ Project \in PathSeqs /\ Ext \in PathSeqs /\ JobDir # <<>> /\ Project # <<>>
  /\ Outputs \subseteq PathSeqs \ {<<>>}
  /\ \A p \in ToSet(Candidates) : p \in PathSeqs /\ p # <<>>
<1>1. ToSet(Candidates) \cup Outputs \cup {JobDir, Project} \subseteq PathSeqs \ {<<>>}
  BY PackagesAssumption DEF PathSeqs
<1>2. "_ext" \in PathNames
  BY DEF PathNames
<1>3. Ext \in PathSeqs
  BY <1>1, <1>2 DEF Ext, PathSeqs
<1> QED
  BY <1>1, <1>3

LEMMA PathPrefix ==
  ASSUME NEW k \in PathSeqs, NEW p \in PathSeqs
  PROVE  /\ IsPrefix(k, p) <=> Len(k) <= Len(p) /\ \A i \in 1..Len(k) : k[i] = p[i]
         /\ IsPrefix(k, p) => Below(k, p) \in PathSeqs /\ p = k \o Below(k, p) /\ Len(Below(k, p)) = Len(p) - Len(k)
<1>0. /\ k \in Seq(PathNames) /\ p \in Seq(PathNames)
      /\ Len(k) \in Nat /\ Len(p) \in Nat
  BY DEF PathSeqs
<1>1. SubSeq(k, 1, Len(k)) = k
  BY <1>0
<1>2. ASSUME Len(k) <= Len(p) PROVE SubSeq(p, 1, Len(k)) = [i \in 1..Len(k) |-> p[i]]
  BY <1>0, <1>2
<1>3. k = [i \in 1..Len(k) |-> k[i]]
  BY <1>0
<1>4. ASSUME Len(k) <= Len(p) PROVE k = SubSeq(p, 1, Len(k)) <=> \A i \in 1..Len(k) : k[i] = p[i]
  BY <1>2, <1>3, <1>4
<1>5. IsPrefix(k, p) <=> Len(k) <= Len(p) /\ \A i \in 1..Len(k) : k[i] = p[i]
  BY <1>1, <1>4 DEF IsPrefix
<1>6. ASSUME IsPrefix(k, p)
      PROVE  Below(k, p) \in PathSeqs /\ p = k \o Below(k, p) /\ Len(Below(k, p)) = Len(p) - Len(k)
  <2> DEFINE b == SubSeq(p, Len(k) + 1, Len(p))
  <2>1. b \in Seq(PathNames) /\ Len(b) = Len(p) - Len(k) /\ \A i \in 1..Len(b) : b[i] = p[Len(k) + i]
    BY <1>0, <1>5, <1>6
  <2> HIDE DEF b
  <2> DEFINE w == k \o b
  <2>2. /\ w \in Seq(PathNames) /\ Len(w) = Len(p)
        /\ \A i \in 1..Len(k) : w[i] = k[i]
        /\ \A i \in 1..Len(b) : w[Len(k) + i] = b[i]
    BY <1>0, <2>1
  <2> HIDE DEF w
  <2>3. ASSUME NEW i \in 1..Len(p) PROVE w[i] = p[i]
    <3>1. CASE i <= Len(k)
      BY <1>0, <1>5, <1>6, <2>2, <3>1
    <3>2. CASE i > Len(k)
      <4>1. i - Len(k) \in 1..Len(b) /\ i = Len(k) + (i - Len(k))
        BY <1>0, <2>1, <3>2
      <4> QED
        BY <2>1, <2>2, <4>1
    <3> QED
      BY <1>0, <3>1, <3>2
  <2>4. k \o b = p
    <3>1. w = p
      BY <1>0, <2>2, <2>3
    <3> QED
      BY <3>1 DEF w
  <2> QED
    BY <2>1, <2>4 DEF b, Below, PathSeqs
<1> QED
  BY <1>5, <1>6

LEMMA PathJoin ==
  ASSUME NEW k \in PathSeqs, NEW b \in PathSeqs
  PROVE  /\ k \o b \in PathSeqs /\ Len(k \o b) = Len(k) + Len(b)
         /\ IsPrefix(k, k \o b) /\ Below(k, k \o b) = b
         /\ \A i \in 1..Len(k) : (k \o b)[i] = k[i]
         /\ \A i \in 1..Len(b) : (k \o b)[Len(k) + i] = b[i]
<1>0. k \in Seq(PathNames) /\ b \in Seq(PathNames) /\ Len(k) \in Nat /\ Len(b) \in Nat
  BY DEF PathSeqs
<1>1. k \o b \in Seq(PathNames) /\ Len(k \o b) = Len(k) + Len(b)
  BY <1>0
<1>2. /\ \A i \in 1..Len(k) : (k \o b)[i] = k[i]
      /\ \A i \in 1..Len(b) : (k \o b)[Len(k) + i] = b[i]
  BY <1>0, <1>1
<1> DEFINE w == k \o b
<1>4. /\ w \in Seq(PathNames) /\ Len(w) = Len(k) + Len(b)
      /\ \A i \in 1..Len(k) : w[i] = k[i]
      /\ \A i \in 1..Len(b) : w[Len(k) + i] = b[i]
  BY <1>1, <1>2
<1> HIDE DEF w
<1>3. IsPrefix(k, w)
  BY <1>0, <1>4, PathPrefix DEF PathSeqs
<1>5. SubSeq(w, Len(k) + 1, Len(w)) = b
  <2> DEFINE c == SubSeq(w, Len(k) + 1, Len(w))
  <2>1. c \in Seq(PathNames) /\ Len(c) = Len(b) /\ \A i \in 1..Len(b) : c[i] = w[Len(k) + i]
    BY <1>0, <1>4
  <2> HIDE DEF c
  <2>2. \A i \in 1..Len(b) : c[i] = b[i]
    BY <1>4, <2>1
  <2>3. c = b
    BY <1>0, <2>1, <2>2
  <2> QED
    BY <2>3 DEF c
<1> QED
  BY <1>1, <1>2, <1>3, <1>5 DEF w, Below, PathSeqs

\* Of two prefixes of one path, the shorter one is a prefix of the other.
LEMMA PathsCompare ==
  ASSUME NEW p \in PathSeqs, NEW k \in PathSeqs, NEW j \in PathSeqs, IsPrefix(k, p), IsPrefix(j, p), Len(k) <= Len(j)
  PROVE  IsPrefix(k, j) /\ (Len(k) = Len(j) => k = j)
<1>0. Len(k) \in Nat /\ Len(j) \in Nat /\ k \in Seq(PathNames) /\ j \in Seq(PathNames)
  BY DEF PathSeqs
<1>1. /\ \A i \in 1..Len(k) : k[i] = p[i]
      /\ \A i \in 1..Len(j) : j[i] = p[i]
  BY PathPrefix
<1>2. \A i \in 1..Len(k) : k[i] = j[i]
  BY <1>0, <1>1
<1>3. IsPrefix(k, j)
  BY <1>2, PathPrefix
<1>4. ASSUME Len(k) = Len(j) PROVE k = j
  BY <1>0, <1>2, <1>4
<1> QED
  BY <1>3, <1>4

LEMMA PrefixThrough ==
  ASSUME NEW p \in PathSeqs, NEW k \in PathSeqs, NEW j \in PathSeqs, IsPrefix(k, j), IsPrefix(j, p)
  PROVE  IsPrefix(k, p)
<1>0. Len(k) \in Nat /\ Len(j) \in Nat /\ Len(p) \in Nat
  BY DEF PathSeqs
<1> QED
  BY <1>0, PathPrefix

LEMMA JoinPrefix ==
  ASSUME NEW r \in PathSeqs, NEW k \in PathSeqs, NEW q \in PathSeqs
  PROVE  IsPrefix(r \o k, r \o q) <=> IsPrefix(k, q)
<1>0. Len(r) \in Nat /\ Len(k) \in Nat /\ Len(q) \in Nat
  BY DEF PathSeqs
<1> DEFINE rk == r \o k
           rq == r \o q
<1>1. /\ rk \in PathSeqs /\ rq \in PathSeqs /\ Len(rk) = Len(r) + Len(k) /\ Len(rq) = Len(r) + Len(q)
      /\ \A i \in 1..Len(r) : rk[i] = r[i] /\ rq[i] = r[i]
      /\ \A i \in 1..Len(k) : rk[Len(r) + i] = k[i]
      /\ \A i \in 1..Len(q) : rq[Len(r) + i] = q[i]
  BY PathJoin
<1> HIDE DEF rk, rq
<1>2. IsPrefix(rk, rq) <=> Len(rk) <= Len(rq) /\ \A i \in 1..Len(rk) : rk[i] = rq[i]
  BY <1>1, PathPrefix
<1>3. IsPrefix(k, q) <=> Len(k) <= Len(q) /\ \A i \in 1..Len(k) : k[i] = q[i]
  BY PathPrefix
<1>4. ASSUME IsPrefix(rk, rq) PROVE IsPrefix(k, q)
  <2>1. Len(k) <= Len(q)
    BY <1>0, <1>1, <1>2, <1>4
  <2>2. ASSUME NEW i \in 1..Len(k) PROVE k[i] = q[i]
    <3>1. Len(r) + i \in 1..Len(rk) /\ i \in 1..Len(q)
      BY <1>0, <1>1, <2>1
    <3> QED
      BY <1>1, <1>2, <1>4, <3>1
  <2> QED
    BY <1>3, <2>1, <2>2
<1>5. ASSUME IsPrefix(k, q) PROVE IsPrefix(rk, rq)
  <2>1. Len(rk) <= Len(rq) /\ Len(k) <= Len(q)
    BY <1>0, <1>1, <1>3, <1>5
  <2>2. ASSUME NEW i \in 1..Len(rk) PROVE rk[i] = rq[i]
    <3>1. CASE i \in 1..Len(r)
      BY <1>1, <3>1
    <3>2. CASE i \notin 1..Len(r)
      <4>1. i - Len(r) \in 1..Len(k) /\ i - Len(r) \in 1..Len(q) /\ i = Len(r) + (i - Len(r))
        BY <1>0, <1>1, <2>1, <3>2
      <4> QED
        BY <1>1, <1>3, <1>5, <4>1
    <3> QED
      BY <3>1, <3>2
  <2> QED
    BY <1>2, <2>1, <2>2
<1> QED
  BY <1>4, <1>5 DEF rk, rq

LEMMA JoinAssoc ==
  ASSUME NEW r \in PathSeqs, NEW k \in PathSeqs, NEW b \in PathSeqs
  PROVE  (r \o k) \o b = r \o (k \o b)
BY DEF PathSeqs

LEMMA LastOfJoin ==
  ASSUME NEW k \in PathSeqs, NEW b \in PathSeqs, b # <<>>
  PROVE  Last(k \o b) = Last(b)
<1>1. Len(b) \in 1..Len(b) /\ Len(k) \in Nat
  BY DEF PathSeqs
<1> QED
  BY <1>1, PathJoin DEF Last

\* A set of numbers below a bound has a greatest one.
LEMMA GreatestOf ==
  ASSUME NEW T \in SUBSET Nat, T # {}, NEW top \in Nat, \A k \in T : k <= top
  PROVE  \E n \in T : \A k \in T : k <= n
<1> DEFINE U == {top - k : k \in T}
<1>0. \A k \in T : top - k \in Nat
  OBVIOUS
<1>1. U \in SUBSET Nat /\ U # {}
  BY <1>0
<1>2. PICK u \in U : \A v \in U : u <= v
  BY <1>1, SmallestNumber
<1>3. PICK n \in T : u = top - n
  BY <1>2
<1>4. ASSUME NEW k \in T PROVE k <= n
  <2>1. top - n <= top - k
    BY <1>2, <1>3
  <2> QED
    BY <2>1
<1> QED
  BY <1>4

-----------------------------------------------------------------------------
\* What a path map looks like: $JOB to the project, other directories to _ext.
MapForm(m) ==
  \E K \in SUBSET {k \in PathSeqs \ {<<>>} : ~IsPrefix(JobDir, k)} :
    m = [k \in K \cup {JobDir} |-> IF k = JobDir THEN Project ELSE Ext \o k]

LEMMA MapIs ==
  ASSUME NEW m, MapForm(m)
  PROVE  /\ JobDir \in DOMAIN m /\ m[JobDir] = Project
         /\ \A k \in DOMAIN m : /\ k \in PathSeqs /\ k # <<>> /\ m[k] \in PathSeqs /\ IsPrefix(Project, m[k])
                                /\ k # JobDir => ~IsPrefix(JobDir, k) /\ m[k] = Ext \o k
<1>1. PICK K \in SUBSET {k \in PathSeqs \ {<<>>} : ~IsPrefix(JobDir, k)} :
        m = [k \in K \cup {JobDir} |-> IF k = JobDir THEN Project ELSE Ext \o k]
  BY DEF MapForm
<1>2. IsPrefix(Project, Project) /\ IsPrefix(Project, Ext)
  <2>1. Project \in Seq(PathNames) /\ Len(Project) \in Nat /\ "_ext" \in PathNames
    BY PathsAre DEF PathSeqs, PathNames
  <2>2. Len(Ext) = Len(Project) + 1 /\ \A i \in 1..Len(Project) : Ext[i] = Project[i]
    BY <2>1 DEF Ext
  <2> QED
    BY <2>1, <2>2, PathsAre, PathPrefix
<1>3. ASSUME NEW k \in PathSeqs PROVE Ext \o k \in PathSeqs /\ IsPrefix(Project, Ext \o k)
  BY <1>2, PathsAre, PathJoin, PrefixThrough
<1> QED
  BY <1>1, <1>2, <1>3, PathsAre

\* The longest rule that fits decides, either way.
LEMMA LocalizeIs ==
  ASSUME NEW m, MapForm(m), NEW p \in PathSeqs, IsPrefix(Project, p)
  PROVE  \E k \in DOMAIN m : /\ IsPrefix(m[k], p) /\ Localize(p, m) = k \o Below(m[k], p)
                             /\ \A j \in DOMAIN m : IsPrefix(m[j], p) => Len(m[j]) <= Len(m[k])
<1> DEFINE fits == {k \in DOMAIN m : IsPrefix(m[k], p)}
           Best(k) == \A j \in fits : Len(m[j]) <= Len(m[k])
           lens == {Len(m[k]) : k \in fits}
<1>1. fits # {}
  BY MapIs
<1>2. Len(p) \in Nat /\ lens \in SUBSET Nat /\ lens # {} /\ \A n \in lens : n <= Len(p)
  <2>1. \A k \in fits : m[k] \in PathSeqs /\ Len(m[k]) <= Len(p)
    BY MapIs, PathPrefix
  <2>2. \A k \in fits : Len(m[k]) \in Nat
    BY <2>1 DEF PathSeqs
  <2>3. Len(p) \in Nat
    BY DEF PathSeqs
  <2> HIDE DEF fits
  <2> QED
    BY <1>1, <2>1, <2>2, <2>3
<1>3. PICK n \in lens : \A l \in lens : l <= n
  BY <1>2, GreatestOf
<1>4. \E k \in fits : Best(k)
  BY <1>3
<1> DEFINE key == CHOOSE k \in fits : Best(k)
<1>5. key \in fits /\ Best(key)
  BY <1>4
<1>6. Localize(p, m) = key \o Below(m[key], p)
  BY <1>1 DEF Localize
<1> HIDE DEF key
<1> QED
  BY <1>5, <1>6

LEMMA DelocalizeIs ==
  ASSUME NEW m, MapForm(m), NEW q \in PathSeqs, NEW k \in DOMAIN m, IsPrefix(k, q)
  PROVE  \E j \in DOMAIN m : /\ IsPrefix(j, q) /\ Delocalize(q, m) = m[j] \o Below(j, q)
                             /\ \A i \in DOMAIN m : IsPrefix(i, q) => Len(i) <= Len(j)
<1> DEFINE fits == {i \in DOMAIN m : IsPrefix(i, q)}
           lens == {Len(i) : i \in fits}
<1>1. fits # {}
  OBVIOUS
<1>2. Len(q) \in Nat /\ lens \in SUBSET Nat /\ lens # {} /\ \A n \in lens : n <= Len(q)
  <2>1. \A i \in fits : i \in PathSeqs /\ Len(i) <= Len(q)
    BY MapIs, PathPrefix
  <2>2. \A i \in fits : Len(i) \in Nat
    BY <2>1 DEF PathSeqs
  <2>3. Len(q) \in Nat
    BY DEF PathSeqs
  <2> HIDE DEF fits
  <2> QED
    BY <1>1, <2>1, <2>2, <2>3
<1>3. PICK n \in lens : \A l \in lens : l <= n
  BY <1>2, GreatestOf
<1>4. \E j \in fits : \A i \in fits : Len(i) <= Len(j)
  BY <1>3
<1>5. Longest(fits) \in fits /\ \A i \in fits : Len(i) <= Len(Longest(fits))
  BY <1>4 DEF Longest
<1>6. Delocalize(q, m) = m[Longest(fits)] \o Below(Longest(fits), q)
  BY <1>1 DEF Delocalize
<1> QED
  BY <1>5, <1>6

\* An output goes home by one rule and back by the same: whichever name was reported,
\* map_output_pair finds the same pair.
LEMMA RoundTrip ==
  ASSUME NEW m, MapForm(m), NEW p \in Outputs, IsPrefix(Project, p), NEW q, q = Localize(p, m)
  PROVE  /\ p \in PathSeqs /\ p # <<>> /\ q \in PathSeqs /\ q # <<>> /\ Last(q) = Last(p) /\ Delocalize(q, m) = p
         /\ MapOutputPair(p, m) = <<p, q>> /\ MapOutputPair(q, m) = <<p, q>>
<1>0. /\ p \in PathSeqs /\ p # <<>> /\ IsPrefix(Project, p) /\ p # Project
      /\ ~IsPrefix(Ext \o JobDir, p) /\ ~IsPrefix(Ext \o Project, p)
      /\ ~IsPrefix(Project, JobDir) /\ ~IsPrefix(JobDir, Project)
  BY PathsAre, PackagesAssumption
<1>1. PICK k \in DOMAIN m : /\ IsPrefix(m[k], p) /\ q = k \o Below(m[k], p)
                            /\ \A j \in DOMAIN m : IsPrefix(m[j], p) => Len(m[j]) <= Len(m[k])
  BY <1>0, LocalizeIs
<1> DEFINE b == Below(m[k], p)
<1>2. k \in PathSeqs /\ k # <<>> /\ m[k] \in PathSeqs /\ b \in PathSeqs /\ p = m[k] \o b
  BY <1>0, <1>1, MapIs, PathPrefix
<1> HIDE DEF b
<1>3. q = k \o b
  BY <1>1 DEF b
<1>4. q \in PathSeqs /\ IsPrefix(k, q) /\ Below(k, q) = b
  <2>1. k \o b \in PathSeqs /\ IsPrefix(k, k \o b) /\ Below(k, k \o b) = b
    BY <1>2, PathJoin
  <2> QED
    BY <2>1, <1>3
<1>5. q # <<>>
  <2>1. Len(k) \in Nat /\ Len(k) # 0 /\ Len(b) \in Nat /\ Len(q) = Len(k) + Len(b)
    BY <1>2, <1>3, PathJoin DEF PathSeqs
  <2> QED
    BY <2>1
<1>6. ASSUME k # JobDir
      PROVE  p = Ext \o q /\ m[k] = Ext \o k /\ \A r \in PathSeqs : IsPrefix(Ext \o r, p) <=> IsPrefix(r, q)
  <2>1. m[k] = Ext \o k
    BY <1>6, MapIs
  <2>2. p = (Ext \o k) \o b
    BY <1>2, <2>1
  <2>3. p = Ext \o q
    <3>1. (Ext \o k) \o b = Ext \o (k \o b)
      <4>1. Ext \in PathSeqs /\ k \in PathSeqs /\ b \in PathSeqs
        BY <1>2, PathsAre
      <4> QED
        BY <4>1, JoinAssoc
    <3> QED
      BY <1>3, <2>2, <3>1
  <2> QED
    BY <1>4, <2>1, <2>3, JoinPrefix, PathsAre
<1>7. ~IsPrefix(Project, q)
  <2> SUFFICES ASSUME IsPrefix(Project, q) PROVE FALSE
    OBVIOUS
  <2>1. CASE k = JobDir
    <3>1. IsPrefix(JobDir, Project) \/ IsPrefix(Project, JobDir)
      <4>1. Len(JobDir) \in Nat /\ Len(Project) \in Nat
        BY PathsAre DEF PathSeqs
      <4>2. Len(JobDir) <= Len(Project) \/ Len(Project) <= Len(JobDir)
        BY <4>1
      <4> QED
        BY <1>4, <2>1, <4>2, PathsAre, PathsCompare
    <3> QED
      BY <1>0, <3>1
  <2>2. CASE k # JobDir
    BY <1>0, <1>6, <2>2, PathsAre
  <2> QED
    BY <2>1, <2>2
<1>8. Localize(q, m) = <<>>
  <2>1. \A j \in DOMAIN m : ~IsPrefix(m[j], q)
    BY <1>4, <1>7, MapIs, PrefixThrough, PathsAre
  <2> QED
    BY <2>1 DEF Localize
<1>9. Delocalize(q, m) = p
  <2>1. PICK j \in DOMAIN m : /\ IsPrefix(j, q) /\ Delocalize(q, m) = m[j] \o Below(j, q)
                              /\ \A i \in DOMAIN m : IsPrefix(i, q) => Len(i) <= Len(j)
    BY <1>4, DelocalizeIs
  <2>2. Len(k) <= Len(j) /\ j \in PathSeqs /\ IsPrefix(k, j)
    BY <1>2, <1>4, <2>1, MapIs, PathsCompare
  <2>3. j = k
    <3>1. CASE k = JobDir
      BY <2>2, <3>1, MapIs
    <3>2. CASE k # JobDir /\ j = JobDir
      BY <1>0, <1>6, <2>1, <3>2, PathsAre
    <3>3. CASE k # JobDir /\ j # JobDir
      <4>1. m[j] = Ext \o j
        BY <2>1, <3>3, MapIs
      <4>2. IsPrefix(m[j], p)
        BY <1>6, <2>1, <2>2, <3>3, <4>1
      <4>3. Len(m[j]) <= Len(m[k])
        BY <1>1, <4>2
      <4>4. Len(m[j]) = Len(Ext) + Len(j) /\ Len(m[k]) = Len(Ext) + Len(k)
        BY <1>2, <1>6, <2>2, <3>3, <4>1, PathJoin, PathsAre
      <4>5. Len(j) \in Nat /\ Len(k) \in Nat /\ Len(Ext) \in Nat
        BY <1>2, <2>2, PathsAre DEF PathSeqs
      <4>6. Len(k) = Len(j)
        BY <2>2, <4>3, <4>4, <4>5
      <4> QED
        BY <1>2, <1>4, <2>1, <2>2, <4>6, PathsCompare
    <3> QED
      BY <3>1, <3>2, <3>3
  <2> QED
    BY <1>2, <1>4, <2>1, <2>3
<1>10. Last(q) = Last(p)
  <2>1. CASE k = JobDir
    <3>1. m[k] = Project
      BY <2>1, MapIs
    <3>2. b # <<>>
      BY <1>0, <1>2, <3>1, PathsAre DEF PathSeqs
    <3> QED
      BY <1>2, <1>3, <3>2, LastOfJoin
  <2>2. CASE k # JobDir
    BY <1>4, <1>5, <1>6, <2>2, LastOfJoin, PathsAre
  <2> QED
    BY <2>1, <2>2
<1>11. MapOutputPair(p, m) = <<p, q>>
  BY <1>0, <1>5, <1>7 DEF MapOutputPair
<1>12. MapOutputPair(q, m) = <<p, q>>
  BY <1>0, <1>7, <1>8, <1>9 DEF MapOutputPair
<1> QED
  BY <1>0, <1>4, <1>5, <1>9, <1>10, <1>11, <1>12

\* What a rule sends to the farm keeps its last name, and is below the project.
LEMMA SentIs ==
  ASSUME NEW m, MapForm(m), NEW x \in PathSeqs \ {<<>>, JobDir}, Delocalize(x, m) # <<>>
  PROVE  /\ Delocalize(x, m) \in PathSeqs /\ IsPrefix(Project, Delocalize(x, m))
         /\ Last(Delocalize(x, m)) = Last(x)
<1>1. PICK k \in DOMAIN m : IsPrefix(k, x)
  BY DEF Delocalize
<1>2. PICK j \in DOMAIN m : IsPrefix(j, x) /\ Delocalize(x, m) = m[j] \o Below(j, x)
  BY <1>1, DelocalizeIs
<1> DEFINE b == Below(j, x)
<1>3. j \in PathSeqs /\ j # <<>> /\ m[j] \in PathSeqs /\ IsPrefix(Project, m[j]) /\ b \in PathSeqs /\ x = j \o b
  BY <1>2, MapIs, PathPrefix
<1> HIDE DEF b
<1>4. Delocalize(x, m) = m[j] \o b
  BY <1>2 DEF b
<1>5. m[j] \o b \in PathSeqs /\ IsPrefix(Project, m[j] \o b)
  BY <1>3, PathJoin, PrefixThrough, PathsAre
<1>6. Last(m[j] \o b) = Last(x)
  <2>1. CASE b # <<>>
    BY <1>3, <2>1, LastOfJoin
  <2>2. CASE b = <<>>
    <3>1. x = j /\ m[j] \o b = m[j]
      BY <1>3, <2>2 DEF PathSeqs
    <3>2. m[j] = Ext \o j
      BY <1>2, <3>1, MapIs
    <3> QED
      BY <1>3, <3>1, <3>2, LastOfJoin, PathsAre
  <2> QED
    BY <2>1, <2>2
<1> QED
  BY <1>4, <1>5, <1>6

-----------------------------------------------------------------------------
\* The packages of done have the files of S, each file in one package.
Parted(done, S) ==
  /\ \A c \in ToSet(done) : c # <<>>
  /\ UNION {ToSet(c) : c \in ToSet(done)} = S
  /\ \A a, b \in DOMAIN done : a # b => ToSet(done[a]) \cap ToSet(done[b]) = {}

LEMMA PiecesAre ==
  ASSUME NEW w, NEW S
  PROVE  Parted(w, S) <=> /\ \A a \in DOMAIN w : w[a] # <<>> /\ ToSet(w[a]) \subseteq S
                          /\ \A x \in S : \E a \in DOMAIN w : x \in ToSet(w[a])
                          /\ \A a, b \in DOMAIN w : a # b => ToSet(w[a]) \cap ToSet(w[b]) = {}
<1>1. ToSet(w) = {w[a] : a \in DOMAIN w}
  BY DEF ToSet
<1>2. UNION {ToSet(c) : c \in ToSet(w)} = S <=> /\ \A a \in DOMAIN w : ToSet(w[a]) \subseteq S
                                               /\ \A x \in S : \E a \in DOMAIN w : x \in ToSet(w[a])
  BY <1>1
<1> QED
  BY <1>1, <1>2 DEF Parted

LEMMA LastPiece ==
  ASSUME NEW n \in Nat, NEW w, DOMAIN w = 1..(n + 1), NEW S, NEW R,
         w[n + 1] # <<>>, S = R \cup ToSet(w[n + 1]), R \cap ToSet(w[n + 1]) = {},
         \A a \in 1..n : w[a] # <<>> /\ ToSet(w[a]) \subseteq R,
         \A x \in R : \E a \in 1..n : x \in ToSet(w[a]),
         \A a, b \in 1..n : a # b => ToSet(w[a]) \cap ToSet(w[b]) = {}
  PROVE  Parted(w, S)
<1>1. \A a \in 1..(n + 1) : a = n + 1 \/ a \in 1..n
  OBVIOUS
<1>2. 1..n \subseteq 1..(n + 1) /\ n + 1 \in 1..(n + 1)
  OBVIOUS
<1>3. \A a \in DOMAIN w : w[a] # <<>> /\ ToSet(w[a]) \subseteq S
  BY <1>1
<1>4. \A x \in S : \E a \in DOMAIN w : x \in ToSet(w[a])
  BY <1>2
<1>5. ASSUME NEW a \in DOMAIN w, NEW b \in DOMAIN w, a # b PROVE ToSet(w[a]) \cap ToSet(w[b]) = {}
  <2>1. CASE a \in 1..n /\ b \in 1..n
    BY <1>5, <2>1
  <2>2. CASE a = n + 1 /\ b \in 1..n
    BY <2>2
  <2>3. CASE b = n + 1 /\ a \in 1..n
    BY <2>3
  <2> QED
    BY <1>1, <1>5, <2>1, <2>2, <2>3
<1> QED
  BY <1>3, <1>4, <1>5, PiecesAre

\* A file begins a package, or goes into the last one.
LEMMA MoreParts ==
  ASSUME NEW T, NEW done \in Seq(Seq(T)), NEW S, Parted(done, S), NEW p \in T, p \notin S
  PROVE  Append(done, <<p>>) \in Seq(Seq(T)) /\ Parted(Append(done, <<p>>), S \cup {p})
<1> DEFINE n == Len(done)
           w == Append(done, <<p>>)
           one == <<p>>
<1>0. n \in Nat /\ DOMAIN done = 1..n /\ one \in Seq(T) /\ one # <<>> /\ ToSet(one) = {p}
  BY DEF ToSet
<1>1. /\ \A a \in 1..n : done[a] # <<>> /\ ToSet(done[a]) \subseteq S
      /\ \A x \in S : \E a \in 1..n : x \in ToSet(done[a])
      /\ \A a, b \in 1..n : a # b => ToSet(done[a]) \cap ToSet(done[b]) = {}
  BY <1>0, PiecesAre
<1>2. w \in Seq(Seq(T)) /\ DOMAIN w = 1..(n + 1) /\ w[n + 1] = one /\ \A a \in 1..n : w[a] = done[a]
  BY <1>0
<1> HIDE DEF n, w, one
<1>3. S \cap {p} = {}
  OBVIOUS
<1>4. /\ \A a \in 1..n : w[a] # <<>> /\ ToSet(w[a]) \subseteq S
      /\ \A x \in S : \E a \in 1..n : x \in ToSet(w[a])
      /\ \A a, b \in 1..n : a # b => ToSet(w[a]) \cap ToSet(w[b]) = {}
  BY <1>1, <1>2
<1>5. Parted(w, S \cup {p})
  <2>1. w[n + 1] # <<>> /\ ToSet(w[n + 1]) = {p}
    BY <1>0, <1>2
  <2>2. S \cup {p} = S \cup ToSet(w[n + 1]) /\ S \cap ToSet(w[n + 1]) = {}
    BY <1>3, <2>1
  <2> QED
    BY <1>0, <1>2, <1>4, <2>1, <2>2, LastPiece
<1> QED
  BY <1>2, <1>5 DEF w

LEMMA LongerPart ==
  ASSUME NEW T, NEW done \in Seq(Seq(T)), NEW S, Parted(done, S), NEW p \in T, p \notin S, done # <<>>
  PROVE  /\ Append(Front(done), Append(Last(done), p)) \in Seq(Seq(T))
         /\ Parted(Append(Front(done), Append(Last(done), p)), S \cup {p})
<1> DEFINE n == Len(done) - 1
           last == done[Len(done)]
           l == Append(last, p)
           R == S \ ToSet(last)
           w == Append(Front(done), Append(Last(done), p))
<1>0. n \in Nat /\ DOMAIN done = 1..(n + 1) /\ Len(done) = n + 1 /\ last \in Seq(T)
  OBVIOUS
<1>1. /\ \A a \in 1..(n + 1) : done[a] # <<>> /\ ToSet(done[a]) \subseteq S
      /\ \A x \in S : \E a \in 1..(n + 1) : x \in ToSet(done[a])
      /\ \A a, b \in 1..(n + 1) : a # b => ToSet(done[a]) \cap ToSet(done[b]) = {}
  BY <1>0, PiecesAre
<1>2. l \in Seq(T) /\ l # <<>> /\ ToSet(l) = ToSet(last) \cup {p}
  <2>1. \A s \in Seq(T) : /\ Append(s, p) \in Seq(T) /\ DOMAIN s = 1..Len(s) /\ Len(s) \in Nat
                          /\ DOMAIN Append(s, p) = 1..(Len(s) + 1) /\ Append(s, p)[Len(s) + 1] = p
                          /\ \A i \in 1..Len(s) : Append(s, p)[i] = s[i]
    OBVIOUS
  <2>2. ASSUME NEW s \in Seq(T) PROVE ToSet(Append(s, p)) = ToSet(s) \cup {p} /\ Append(s, p) # <<>>
    <3> DEFINE t == Append(s, p)
               k == Len(s)
    <3>1. DOMAIN s = 1..k /\ k \in Nat /\ DOMAIN t = 1..(k + 1) /\ t[k + 1] = p /\ \A i \in 1..k : t[i] = s[i]
      BY <2>1
    <3> HIDE DEF t, k
    <3>2. \A i \in 1..(k + 1) : i = k + 1 \/ i \in 1..k
      BY <3>1
    <3>3. 1..k \subseteq 1..(k + 1) /\ k + 1 \in 1..(k + 1)
      BY <3>1
    <3>4. \A x : x \in ToSet(t) <=> x \in ToSet(s) \/ x = p
      BY <3>1, <3>2, <3>3 DEF ToSet
    <3>5. t # <<>>
      BY <3>1, <3>3
    <3> QED
      BY <3>4, <3>5 DEF t
  <2> QED
    BY <1>0, <2>1, <2>2
<1>3. Front(done) \in Seq(Seq(T)) /\ Len(Front(done)) = n /\ \A a \in 1..n : Front(done)[a] = done[a]
  BY <1>0 DEF Front
<1>4. w = Append(Front(done), l)
  BY DEF Last
<1> HIDE DEF l, w
<1>5. w \in Seq(Seq(T)) /\ DOMAIN w = 1..(n + 1) /\ w[n + 1] = l /\ \A a \in 1..n : w[a] = done[a]
  <2>1. \A f \in Seq(Seq(T)) : /\ Append(f, l) \in Seq(Seq(T)) /\ DOMAIN Append(f, l) = 1..(Len(f) + 1)
                               /\ Append(f, l)[Len(f) + 1] = l /\ \A a \in 1..Len(f) : Append(f, l)[a] = f[a]
    BY <1>2
  <2> HIDE DEF n
  <2> QED
    BY <1>3, <1>4, <2>1
<1>6. last = done[n + 1]
  BY <1>0
<1> HIDE DEF n, last
<1>7. \A a \in 1..n : a \in 1..(n + 1) /\ a # n + 1
  BY <1>0
<1>8. \A a \in 1..(n + 1) : a = n + 1 \/ a \in 1..n
  BY <1>0
<1>9. /\ S \cup {p} = R \cup ToSet(w[n + 1]) /\ R \cap ToSet(w[n + 1]) = {} /\ w[n + 1] # <<>>
  <2>1. n + 1 \in 1..(n + 1)
    BY <1>0
  <2> QED
    BY <1>1, <1>2, <1>5, <1>6, <2>1
<1>10. \A a \in 1..n : w[a] # <<>> /\ ToSet(w[a]) \subseteq R
  <2>1. n + 1 \in 1..(n + 1)
    BY <1>0
  <2> QED
    BY <1>1, <1>5, <1>6, <1>7, <2>1
<1>11. \A x \in R : \E a \in 1..n : x \in ToSet(w[a])
  BY <1>1, <1>5, <1>6, <1>8
<1>12. \A a, b \in 1..n : a # b => ToSet(w[a]) \cap ToSet(w[b]) = {}
  BY <1>1, <1>5, <1>7
<1> DEFINE all == S \cup {p}
<1>a. all = R \cup ToSet(w[n + 1])
  BY <1>9
<1> HIDE DEF R, all
<1>13. Parted(w, all)
  <2>1. DOMAIN w = 1..(n + 1) /\ R \cap ToSet(w[n + 1]) = {} /\ w[n + 1] # <<>>
    BY <1>5, <1>9
  <2> QED
    BY <1>0, <1>10, <1>11, <1>12, <1>a, <2>1, LastPiece
<1> QED
  BY <1>5, <1>13 DEF all, w

\* _chunk_by_size puts each file into one package, whatever its size.  The fold has a
\* function for every set of indices up to k, for each k, as in SumIsNat; along the
\* initial segments each file comes to what was packed before it.
LEMMA ChunkParts ==
  ASSUME NEW T, NEW listed \in Seq(T), NEW size, \A i, j \in DOMAIN listed : i # j => listed[i] # listed[j]
  PROVE  Chunk(listed, size) \in Seq(Seq(T)) /\ Parted(Chunk(listed, size), ToSet(listed))
<1> DEFINE D == DOMAIN listed
           Weight(c) == FoldLeft(LAMBDA n, p : n + size[p], 0, c)
           Put(done, p) == IF done # <<>> /\ Weight(Last(done)) + size[p] <= Limit
                             THEN Append(Front(done), Append(Last(done), p))
                             ELSE Append(done, <<p>>)
           Body(it, s) == IF s = {} THEN <<>> ELSE Put(it[s \ {Max(s)}], listed[Max(s)])
           Folds(it) == it = [s \in SUBSET D |-> Body(it, s)]
           Up(k) == \E it \in [SUBSET D -> Seq(Seq(T))] : \A s \in SUBSET D : s \subseteq 1..k => it[s] = Body(it, s)
           Bad == {k \in Nat : ~ Up(k)}
<1>1. Chunk(listed, size) = (CHOOSE it : Folds(it))[D]
  BY Zenon DEF Chunk, FoldLeft, MapThenFoldSet
<1>2. \A done, p : \/ Put(done, p) = Append(done, <<p>>)
                   \/ done # <<>> /\ Put(done, p) = Append(Front(done), Append(Last(done), p))
  <2> HIDE DEF Weight
  <2> QED
    OBVIOUS
<1> HIDE DEF Put
<1>3. ASSUME NEW done \in Seq(Seq(T)), NEW p \in T PROVE Put(done, p) \in Seq(Seq(T))
  <2>1. Append(done, <<p>>) \in Seq(Seq(T))
    OBVIOUS
  <2>2. done # <<>> => Front(done) \in Seq(Seq(T)) /\ Last(done) \in Seq(T)
    BY DEF Front, Last
  <2>3. done # <<>> => Append(Front(done), Append(Last(done), p)) \in Seq(Seq(T))
    BY <2>2
  <2> QED
    BY <1>2, <2>1, <2>3
<1>4. D = 1..Len(listed) /\ Len(listed) \in Nat /\ \A i \in D : listed[i] \in T
  OBVIOUS
<1>5. ASSUME NEW s \in SUBSET D, s # {} PROVE Max(s) \in s /\ \A y \in s : y <= Max(s)
  <2>1. s \in SUBSET Nat /\ \A k \in s : k <= Len(listed)
    BY <1>4
  <2>2. \E x \in s : \A y \in s : y <= x
    BY <1>4, <1>5, <2>1, GreatestOf
  <2>3. \E x \in s : \A y \in s : x >= y
    BY <2>1, <2>2
  <2>4. Max(s) \in s /\ \A y \in s : Max(s) >= y
    BY <2>3 DEF Max
  <2> QED
    BY <2>1, <2>4
<1> DEFINE Rest(s) == s \ {Max(s)}
<1>6. ASSUME NEW k \in Nat, NEW s \in SUBSET D, s # {}, s \subseteq 1..(k + 1)
      PROVE  Rest(s) \in SUBSET D /\ Rest(s) \subseteq 1..k
  <2>1. ASSUME NEW y \in s, y # Max(s) PROVE y \in 1..k
    BY <1>5, <1>6, <2>1
  <2> QED
    BY <2>1
<1>7. ASSUME NEW it \in [SUBSET D -> Seq(Seq(T))], NEW s \in SUBSET D PROVE Body(it, s) \in Seq(Seq(T))
  <2>1. s # {} => it[s \ {Max(s)}] \in Seq(Seq(T)) /\ listed[Max(s)] \in T
    BY <1>4, <1>5
  <2>2. CASE s = {}
    BY <2>2
  <2>3. CASE s # {}
    <3> DEFINE done == it[s \ {Max(s)}]
               p == listed[Max(s)]
    <3>1. Body(it, s) = Put(done, p)
      BY <2>3
    <3>2. done \in Seq(Seq(T)) /\ p \in T
      BY <2>1, <2>3
    <3> HIDE DEF done, p
    <3>3. Put(done, p) \in Seq(Seq(T))
      BY <1>3, <3>2
    <3> QED
      BY <3>1, <3>3
  <2> QED
    BY <2>2, <2>3
<1>8. ASSUME NEW k \in Nat, Up(k) PROVE Up(k + 1)
  <2>1. PICK it \in [SUBSET D -> Seq(Seq(T))] : \A s \in SUBSET D : s \subseteq 1..k => it[s] = Body(it, s)
    BY <1>8
  <2> DEFINE up == [s \in SUBSET D |-> Body(it, s)]
  <2>3. up \in [SUBSET D -> Seq(Seq(T))]
    BY <1>7
  <2>4. ASSUME NEW s \in SUBSET D, s \subseteq 1..(k + 1) PROVE up[s] = Body(up, s)
    <3>1. CASE s = {}
      BY <3>1
    <3>2. CASE s # {}
      <4>1. Rest(s) \in SUBSET D /\ Rest(s) \subseteq 1..k
        BY <1>6, <2>4, <3>2
      <4>2. up[Rest(s)] = it[Rest(s)]
        BY <2>1, <4>1
      <4> QED
        BY <3>2, <4>2
    <3> QED
      BY <3>1, <3>2
  <2> QED
    BY <2>3, <2>4
<1>9. Up(0)
  <2> DEFINE it == [s \in SUBSET D |-> <<>>]
  <2>1. it \in [SUBSET D -> Seq(Seq(T))]
    OBVIOUS
  <2>2. ASSUME NEW s \in SUBSET D, s \subseteq 1..0 PROVE it[s] = Body(it, s)
    <3>1. s = {}
      BY <2>2
    <3> QED
      BY <3>1
  <2> HIDE DEF it, Body
  <2> QED
    BY <2>1, <2>2
<1>10. \A k \in Nat : Up(k)
  <2> HIDE DEF Up
  <2> SUFFICES ASSUME Bad # {} PROVE FALSE
    OBVIOUS
  <2>1. PICK n \in Bad : \A k \in Bad : n <= k
    BY SmallestNumber
  <2>2. n # 0 /\ n \in Nat /\ ~ Up(n)
    BY <1>9
  <2>3. Up(n - 1)
    BY <2>1, <2>2
  <2> QED
    BY <2>2, <2>3, <1>8
<1>11. \E it : Folds(it)
  <2>1. PICK it \in [SUBSET D -> Seq(Seq(T))] : \A s \in SUBSET D : s \subseteq 1..Len(listed) => it[s] = Body(it, s)
    BY <1>4, <1>10
  <2>2. \A s \in SUBSET D : it[s] = Body(it, s)
    BY <1>4, <2>1
  <2> HIDE DEF Body
  <2>3. it = [s \in SUBSET D |-> Body(it, s)]
    BY <2>2
  <2> QED
    BY <2>3
<1> DEFINE folds == CHOOSE it : Folds(it)
<1>12. Folds(folds)
  BY <1>11
<1> HIDE DEF folds
<1> DEFINE First(k) == {listed[i] : i \in 1..k}
           Good(k) == k <= Len(listed) => folds[1..k] \in Seq(Seq(T)) /\ Parted(folds[1..k], First(k))
           Odd == {k \in Nat : ~ Good(k)}
<1>13. Good(0)
  <2>1. 1..0 = {} /\ {} \in SUBSET D
    OBVIOUS
  <2>2. folds[{}] = <<>>
    BY <1>12, <2>1
  <2>3. Parted(<<>>, {})
    BY PiecesAre
  <2>4. First(0) = {}
    BY <2>1
  <2> HIDE DEF First
  <2>5. folds[1..0] = <<>> /\ <<>> \in Seq(Seq(T))
    BY <2>1, <2>2
  <2> QED
    BY <2>3, <2>4, <2>5
<1>14. ASSUME NEW k \in Nat, Good(k), k + 1 <= Len(listed)
       PROVE  folds[1..(k + 1)] \in Seq(Seq(T)) /\ Parted(folds[1..(k + 1)], First(k + 1))
  <2> DEFINE s == 1..(k + 1)
             done == folds[1..k]
             p == listed[k + 1]
  <2>1. s \in SUBSET D /\ k + 1 \in s /\ s # {} /\ 1..k \in SUBSET D /\ k + 1 \in D /\ k <= Len(listed)
    BY <1>4, <1>14
  <2>2. Max(s) = k + 1
    <3>1. Max(s) \in s /\ k + 1 <= Max(s)
      BY <1>5, <2>1
    <3> QED
      BY <3>1
  <2>3. s \ {k + 1} = 1..k
    OBVIOUS
  <2>4. folds[s] = Put(done, p)
    <3>1. folds[s] = Body(folds, s)
      BY <1>12, <2>1
    <3> QED
      BY <2>1, <2>2, <2>3, <3>1
  <2>5. p \in T /\ p \notin First(k) /\ First(k + 1) = First(k) \cup {p}
    <3>1. p \in T
      BY <1>4, <2>1
    <3>2. ASSUME NEW i \in 1..k PROVE listed[i] # p
      BY <1>4, <2>1
    <3>3. \A i \in 1..(k + 1) : i \in 1..k \/ i = k + 1
      OBVIOUS
    <3>4. \A i \in 1..k : i \in 1..(k + 1)
      OBVIOUS
    <3> QED
      BY <2>1, <3>1, <3>2, <3>3, <3>4
  <2>6. done \in Seq(Seq(T)) /\ Parted(done, First(k))
    BY <1>14, <2>1
  <2> HIDE DEF s, done, p, First
  <2>7. CASE Put(done, p) = Append(done, <<p>>)
    BY <2>4, <2>5, <2>6, <2>7, MoreParts DEF s
  <2>8. CASE done # <<>> /\ Put(done, p) = Append(Front(done), Append(Last(done), p))
    <3>1. /\ Append(Front(done), Append(Last(done), p)) \in Seq(Seq(T))
          /\ Parted(Append(Front(done), Append(Last(done), p)), First(k) \cup {p})
      BY <2>5, <2>6, <2>8, LongerPart
    <3> QED
      BY <2>4, <2>5, <2>8, <3>1 DEF s
  <2> QED
    BY <1>2, <2>7, <2>8
<1>15. Odd = {}
  <2> HIDE DEF Good
  <2> SUFFICES ASSUME Odd # {} PROVE FALSE
    OBVIOUS
  <2>1. PICK n \in Odd : \A k \in Odd : n <= k
    BY SmallestNumber
  <2>2. n # 0 /\ n \in Nat /\ ~ Good(n) /\ n - 1 \in Nat /\ n = (n - 1) + 1
    BY <1>13
  <2>3. Good(n - 1)
    BY <2>1, <2>2
  <2>4. Good((n - 1) + 1)
    BY <1>14, <2>2, <2>3 DEF Good
  <2> QED
    BY <2>2, <2>4
<1>16. First(Len(listed)) = ToSet(listed)
  BY <1>4 DEF ToSet
<1>17. Good(Len(listed))
  BY <1>4, <1>15
<1>18. Chunk(listed, size) = folds[1..Len(listed)]
  BY <1>1, <1>4 DEF folds
<1> HIDE DEF First
<1> QED
  BY <1>4, <1>16, <1>17, <1>18

\* SetToSeq lists every element of a finite set once.
LEMMA ListedOnce ==
  ASSUME NEW S, IsFiniteSet(S)
  PROVE  /\ SetToSeq(S) \in Seq(S) /\ ToSet(SetToSeq(S)) = S
         /\ \A i, j \in DOMAIN SetToSeq(S) : i # j => SetToSeq(S)[i] # SetToSeq(S)[j]
<1> DEFINE n == Cardinality(S)
           list == SetToSeq(S)
<1>1. n \in Nat /\ Bijection(1..n, S) # {}
  BY FS_CardinalityType DEF ExistsBijection
<1>2. \E f \in [1..n -> S] : IsInjective(f)
  BY <1>1 DEF Bijection, Injection
<1>3. list \in [1..n -> S] /\ IsInjective(list)
  BY <1>2 DEF SetToSeq
<1> HIDE DEF list
<1>4. Cardinality(1..n) = n /\ IsFiniteSet(1..n)
  BY <1>1, FS_Interval
<1>5. list \in Injection(1..n, S)
  BY <1>3 DEF Injection
<1>6. list \in Surjection(1..n, S)
  BY <1>4, <1>5, FS_Injection
<1>7. \A x \in S : \E i \in 1..n : list[i] = x
  BY <1>6 DEF Surjection
<1>8. list \in Seq(S) /\ ToSet(list) = S
  BY <1>1, <1>3, <1>7 DEF ToSet
<1> QED
  BY <1>3, <1>8 DEF list, IsInjective

\* A path is its directory and its last name.
LEMMA LastName ==
  ASSUME NEW p \in PathSeqs, p # <<>>
  PROVE  /\ Front(p) \in PathSeqs /\ Len(Front(p)) = Len(p) - 1 /\ <<Last(p)>> \in PathSeqs
         /\ p = Front(p) \o <<Last(p)>> /\ IsPrefix(Front(p), p) /\ Below(Front(p), p) = <<Last(p)>>
<1>1. Front(p) \in PathSeqs /\ Len(Front(p)) = Len(p) - 1 /\ <<Last(p)>> \in PathSeqs /\ p = Front(p) \o <<Last(p)>>
  BY DEF PathSeqs, Front, Last
<1> QED
  BY <1>1, PathJoin

\* build_download_items: each pair is in an item from whose roots its farm path is found,
\* and no local file is in two.
LEMMA DownloadsAre ==
  ASSUME NEW pairs, NEW sizes, IsFiniteSet(pairs),
         \A s \in pairs : \E p, q \in PathSeqs \ {<<>>} : s = <<p, q>> /\ Last(p) = Last(q),
         \A s, t \in pairs : s[2] = t[2] => s = t
  PROVE  /\ \A s \in pairs : \E i \in DownloadItems(pairs, sizes) :
              s[2] \in ToSet(i.files) /\ i.remoteRoot \o Below(i.localRoot, s[2]) = s[1]
         /\ \A i, j \in DownloadItems(pairs, sizes) : i # j => ToSet(i.files) \cap ToSet(j.files) = {}
<1> DEFINE RootsOf(s) == <<Front(s[2]), Front(s[1])>>
           Files(r)   == {q[2] : q \in {s \in pairs : RootsOf(s) = r}}
           Weight     == [f \in {q[2] : q \in pairs} |-> sizes[(CHOOSE q \in pairs : q[2] = f)[1]]]
           Chunks(r)  == Chunk(SetToSeq(Files(r)), Weight)
<1>1. DownloadItems(pairs, sizes) = UNION {{Item(r[1], r[2], c) : c \in ToSet(Chunks(r))} : r \in {RootsOf(q) : q \in pairs}}
  BY Zenon DEF DownloadItems
<1>2. ASSUME NEW r PROVE Parted(Chunks(r), Files(r))
  <2> DEFINE group == {s \in pairs : RootsOf(s) = r}
             second == [s \in group |-> s[2]]
  <2>1. IsFiniteSet(group)
    BY FS_Subset
  <2>2. IsFiniteSet({second[s] : s \in DOMAIN second})
    <3>1. DOMAIN second = group /\ second = [s \in group |-> second[s]]
      OBVIOUS
    <3> HIDE DEF second, group
    <3> QED
      BY <2>1, <3>1, ImageIsFinite
  <2>3. {second[s] : s \in DOMAIN second} = Files(r)
    OBVIOUS
  <2>4. IsFiniteSet(Files(r))
    BY <2>2, <2>3
  <2> HIDE DEF Files, Weight
  <2> QED
    BY <2>4, ListedOnce, ChunkParts
<1> HIDE DEF Chunks, Files, RootsOf, Weight
<1>3. ASSUME NEW s \in pairs
      PROVE  \E i \in DownloadItems(pairs, sizes) :
               s[2] \in ToSet(i.files) /\ i.remoteRoot \o Below(i.localRoot, s[2]) = s[1]
  <2> DEFINE r == RootsOf(s)
  <2>1. s[2] \in Files(r)
    BY DEF Files
  <2>2. PICK c \in ToSet(Chunks(r)) : s[2] \in ToSet(c)
    BY <1>2, <2>1 DEF Parted
  <2> DEFINE i == Item(r[1], r[2], c)
  <2>3. i \in DownloadItems(pairs, sizes)
    BY <1>1, <2>2
  <2>4. i.remoteRoot = Front(s[1]) /\ i.localRoot = Front(s[2]) /\ i.files = c
    BY DEF Item, RootsOf
  <2>5. PICK p \in PathSeqs \ {<<>>}, q \in PathSeqs \ {<<>>} : s = <<p, q>> /\ Last(p) = Last(q)
    OBVIOUS
  <2>6. Front(s[1]) \o Below(Front(s[2]), s[2]) = s[1]
    <3>1. Below(Front(q), q) = <<Last(q)>> /\ p = Front(p) \o <<Last(p)>>
      BY LastName
    <3> QED
      BY <2>5, <3>1
  <2> HIDE DEF i
  <2> QED
    BY <2>2, <2>3, <2>4, <2>6
<1>4. ASSUME NEW i \in DownloadItems(pairs, sizes), NEW j \in DownloadItems(pairs, sizes), NEW x \in ToSet(i.files) \cap ToSet(j.files)
      PROVE  i = j
  <2>1. PICK r, c : c \in ToSet(Chunks(r)) /\ i = Item(r[1], r[2], c)
    BY <1>1
  <2>2. PICK u, d : d \in ToSet(Chunks(u)) /\ j = Item(u[1], u[2], d)
    BY <1>1
  <2>3. x \in ToSet(c) /\ x \in ToSet(d)
    BY <2>1, <2>2 DEF Item
  <2>4. x \in Files(r) /\ x \in Files(u)
    BY <1>2, <2>1, <2>2, <2>3 DEF Parted
  <2>5. r = u
    <3>1. PICK s \in pairs : s[2] = x /\ RootsOf(s) = r
      BY <2>4 DEF Files
    <3>2. PICK t \in pairs : t[2] = x /\ RootsOf(t) = u
      BY <2>4 DEF Files
    <3> QED
      BY <3>1, <3>2
  <2>6. PICK a \in DOMAIN Chunks(r), b \in DOMAIN Chunks(r) : c = Chunks(r)[a] /\ d = Chunks(r)[b]
    BY <2>1, <2>2, <2>5 DEF ToSet
  <2>7. a = b
    BY <1>2, <2>3, <2>6 DEF Parted
  <2> QED
    BY <2>1, <2>2, <2>5, <2>6, <2>7
<1> QED
  BY <1>3, <1>4

-----------------------------------------------------------------------------
\* What resolve_entries writes is a path map, and so is what the scheduler loads.
LEMMA PathMapIs ==
  ASSUME NEW listed \in SUBSET ToSet(Candidates)
  PROVE  MapForm(PathMap(listed))
<1> DEFINE K == {PathmapKey(p) : p \in {f \in listed : External(f)}}
<1>1. ASSUME NEW p \in listed, External(p)
      PROVE  PathmapKey(p) \in {k \in PathSeqs \ {<<>>} : ~IsPrefix(JobDir, k)}
  <2>1. p \in PathSeqs /\ p # <<>> /\ ~IsPrefix(JobDir, p)
    BY <1>1, PathsAre DEF External
  <2>2. CASE Len(p) = 1
    BY <2>1, <2>2 DEF PathmapKey
  <2>3. CASE Len(p) # 1
    <3>1. PathmapKey(p) = Front(p)
      BY <2>3 DEF PathmapKey
    <3>2. Front(p) \in PathSeqs /\ Len(Front(p)) = Len(p) - 1 /\ IsPrefix(Front(p), p)
      BY <2>1, LastName
    <3>3. Front(p) # <<>>
      <4>1. Len(p) \in Nat /\ Len(<<>>) = 0
        BY <2>1 DEF PathSeqs
      <4> QED
        BY <2>3, <3>2, <4>1
    <3>4. ~IsPrefix(JobDir, Front(p))
      BY <2>1, <3>2, PrefixThrough, PathsAre
    <3> QED
      BY <3>1, <3>2, <3>3, <3>4
  <2> QED
    BY <2>2, <2>3
<1>2. K \in SUBSET {k \in PathSeqs \ {<<>>} : ~IsPrefix(JobDir, k)}
  BY <1>1
<1>3. PathMap(listed) = [k \in K \cup {JobDir} |-> IF k = JobDir THEN Project ELSE Ext \o k]
  BY DEF PathMap
<1> QED
  BY <1>2, <1>3 DEF MapForm

LEMMA LoadedMapIs ==
  ASSUME NEW m, m = <<>> \/ MapForm(m)
  PROVE  MapForm([k \in {JobDir} \cup DOMAIN m |-> IF k = JobDir THEN Project ELSE m[k]])
<1> DEFINE loaded == [k \in {JobDir} \cup DOMAIN m |-> IF k = JobDir THEN Project ELSE m[k]]
<1>1. CASE m = <<>>
  <2>1. loaded = [k \in {} \cup {JobDir} |-> IF k = JobDir THEN Project ELSE Ext \o k]
    BY <1>1
  <2> QED
    BY <2>1 DEF MapForm
<1>2. CASE MapForm(m)
  <2>1. PICK K \in SUBSET {k \in PathSeqs \ {<<>>} : ~IsPrefix(JobDir, k)} :
          m = [k \in K \cup {JobDir} |-> IF k = JobDir THEN Project ELSE Ext \o k]
    BY <1>2 DEF MapForm
  <2>2. loaded = m
    BY <2>1
  <2> QED
    BY <1>2, <2>2
<1> QED
  BY <1>1, <1>2

\* What an item's work items fetch, of what it reported and by its map.
Fetched(items, paths, m) ==
  LET Farm(i, f) == i.remoteRoot \o Below(i.localRoot, f)
  IN  /\ \A p \in Outputs :
           IsPrefix(Project, p) /\ {p, Localize(p, m)} \cap paths # {} =>
             \E i \in items : \E f \in ToSet(i.files) : Farm(i, f) = p /\ f = Localize(p, m)
      /\ \A i, j \in items : i # j => ToSet(i.files) \cap ToSet(j.files) = {}

LEMMA FetchedIs ==
  /\ OutputsAreFetched <=> \A u \in planned : Fetched(fetch[u], reported[u], tag[u])
  /\ OutputsAreFetched' <=> \A u \in planned' : Fetched(fetch'[u], reported'[u], tag'[u])
BY DEF OutputsAreFetched, Fetched

\* What is reported is the name of an output, there or at home.
ReportsOf(paths, m) ==
  \A x \in paths : \E p \in Outputs : x = p \/ (IsPrefix(Project, p) /\ x = Localize(p, m))

\* The maps have their form, and what was reported are names of outputs.
PackagesInv ==
  /\ mapFile = <<>> \/ MapForm(mapFile)
  /\ cooking => MapForm(cookMap)
  /\ DOMAIN reported = Upstream /\ DOMAIN tag = Upstream /\ DOMAIN fetch = Upstream
  /\ planned \subseteq {u \in Upstream : reported[u] # {}}
  /\ \A u \in Upstream : reported[u] # {} => MapForm(tag[u]) /\ ReportsOf(reported[u], tag[u])
  /\ OutputsAreFetched

\* The pairs of what an item reported: each is a farm path and the place it goes to,
\* told by the latter.
LEMMA PairsAre ==
  ASSUME NEW m, MapForm(m), NEW paths, ReportsOf(paths, m), NEW x \in paths, MapOutputPair(x, m) # <<>>
  PROVE  \E p, q \in PathSeqs \ {<<>>} : MapOutputPair(x, m) = <<p, q>> /\ Last(p) = Last(q) /\ p = Delocalize(q, m)
<1>1. PICK p \in Outputs : x = p \/ (IsPrefix(Project, p) /\ x = Localize(p, m))
  BY DEF ReportsOf
<1>2. CASE IsPrefix(Project, p)
  <2> DEFINE q == Localize(p, m)
  <2>1. /\ p \in PathSeqs /\ p # <<>> /\ q \in PathSeqs /\ q # <<>> /\ Last(q) = Last(p) /\ Delocalize(q, m) = p
        /\ MapOutputPair(p, m) = <<p, q>> /\ MapOutputPair(q, m) = <<p, q>>
    BY <1>2, RoundTrip
  <2> HIDE DEF q
  <2>2. MapOutputPair(x, m) = <<p, q>>
    BY <1>1, <2>1 DEF q
  <2> QED
    BY <2>1, <2>2
<1>3. CASE ~IsPrefix(Project, p)
  <2>1. x = p /\ p \in PathSeqs \ {<<>>, JobDir}
    BY <1>1, <1>3, PathsAre, PackagesAssumption
  <2>2. Localize(p, m) = <<>>
    <3>1. \A k \in DOMAIN m : ~IsPrefix(m[k], p)
      BY <1>3, <2>1, MapIs, PrefixThrough, PathsAre
    <3> QED
      BY <3>1 DEF Localize
  <2>3. MapOutputPair(x, m) = <<Delocalize(p, m), p>> /\ Delocalize(p, m) # <<>>
    BY <2>1, <2>2 DEF MapOutputPair
  <2> QED
    BY <2>1, <2>3, SentIs
<1> QED
  BY <1>2, <1>3

\* Pairs of paths, finitely many: their work items fetch each of them once.
LEMMA MappedFetched ==
  ASSUME NEW m, MapForm(m), NEW paths, ReportsOf(paths, m), NEW sizes
  PROVE  LET pairs == {MapOutputPair(x, m) : x \in paths} \ {<<>>}
             items == DownloadItems(pairs, sizes)
         IN  Fetched(items, paths, m)
<1> DEFINE pairs == {MapOutputPair(x, m) : x \in paths} \ {<<>>}
           items == DownloadItems(pairs, sizes)
           Farm(i, f) == i.remoteRoot \o Below(i.localRoot, f)
<1>1. ASSUME NEW s \in pairs
      PROVE  \E p, q \in PathSeqs \ {<<>>} : s = <<p, q>> /\ Last(p) = Last(q) /\ p = Delocalize(q, m)
  <2>1. PICK x \in paths : s = MapOutputPair(x, m) /\ MapOutputPair(x, m) # <<>>
    OBVIOUS
  <2>2. \E p, q \in PathSeqs \ {<<>>} : MapOutputPair(x, m) = <<p, q>> /\ Last(p) = Last(q) /\ p = Delocalize(q, m)
    BY <2>1, PairsAre
  <2> QED
    BY <2>1, <2>2
<1>2. ASSUME NEW s \in pairs, NEW t \in pairs, s[2] = t[2] PROVE s = t
  <2>1. PICK p, q \in PathSeqs \ {<<>>} : s = <<p, q>> /\ p = Delocalize(q, m)
    BY <1>1
  <2>2. PICK a, b \in PathSeqs \ {<<>>} : t = <<a, b>> /\ a = Delocalize(b, m)
    BY <1>1
  <2> HIDE DEF pairs
  <2>3. q = b
    BY <1>2, <2>1, <2>2
  <2> QED
    BY <2>1, <2>2, <2>3
<1>3. IsFiniteSet(pairs)
  <2> DEFINE far  == [p \in Outputs |-> MapOutputPair(p, m)]
             near == [p \in Outputs |-> MapOutputPair(Localize(p, m), m)]
  <2>1. IsFiniteSet({far[p] : p \in Outputs}) /\ IsFiniteSet({near[p] : p \in Outputs})
    <3>1. IsFiniteSet(Outputs) /\ DOMAIN far = Outputs /\ far = [p \in Outputs |-> far[p]]
          /\ DOMAIN near = Outputs /\ near = [p \in Outputs |-> near[p]]
      BY PackagesAssumption
    <3> HIDE DEF far, near
    <3> QED
      BY <3>1, ImageIsFinite
  <2>2. pairs \subseteq {far[p] : p \in Outputs} \cup {near[p] : p \in Outputs}
    BY DEF ReportsOf
  <2>3. IsFiniteSet({far[p] : p \in Outputs} \cup {near[p] : p \in Outputs})
    BY <2>1, FS_Union
  <2> HIDE DEF far, near, pairs
  <2> QED
    BY <2>2, <2>3, FS_Subset
<1> HIDE DEF pairs
<1>4. /\ \A s \in pairs : \E i \in items : s[2] \in ToSet(i.files) /\ i.remoteRoot \o Below(i.localRoot, s[2]) = s[1]
      /\ \A i, j \in items : i # j => ToSet(i.files) \cap ToSet(j.files) = {}
  <2>1. \A s \in pairs : \E p, q \in PathSeqs \ {<<>>} : s = <<p, q>> /\ Last(p) = Last(q)
    BY <1>1
  <2>2. \A s, t \in pairs : s[2] = t[2] => s = t
    BY <1>2
  <2> QED
    BY <1>3, <2>1, <2>2, DownloadsAre
<1> HIDE DEF items
<1>5. ASSUME NEW p \in Outputs, IsPrefix(Project, p), {p, Localize(p, m)} \cap paths # {}
      PROVE  \E i \in items : \E f \in ToSet(i.files) : Farm(i, f) = p /\ f = Localize(p, m)
  <2> DEFINE q == Localize(p, m)
  <2>1. MapOutputPair(p, m) = <<p, q>> /\ MapOutputPair(q, m) = <<p, q>>
    BY <1>5, RoundTrip
  <2>2. <<p, q>> \in pairs
    BY <1>5, <2>1 DEF pairs
  <2> HIDE DEF q
  <2>3. PICK i \in items : q \in ToSet(i.files) /\ i.remoteRoot \o Below(i.localRoot, q) = p
    BY <1>4, <2>2
  <2> QED
    BY <2>3 DEF q
<1>6. Fetched(items, paths, m)
  BY <1>4, <1>5 DEF Fetched
<1> QED
  BY <1>6 DEF items, pairs

\* The download node plans for an item.
LEMMA PlanFetches ==
  ASSUME PackagesInv, NEW u \in Upstream, NEW rop \in RopPaths(u), NEW there, PlanDownload(u, rop, there)
  PROVE  PackagesInv'
<1> DEFINE m == tag[u]
           Mapped(paths) == {MapOutputPair(x, m) : x \in paths} \ {<<>>}
           sizes == StatSizes(Pairs(u, rop), there)
           items == DownloadItems(Pairs(u, rop), sizes)
<1>1. /\ MapForm(m) /\ ReportsOf(reported[u], m) /\ UNCHANGED <<reported, tag>>
      /\ planned' = planned \cup {u} /\ fetch' = [fetch EXCEPT ![u] = items]
  BY DEF PackagesInv, PlanDownload
<1>2. fetch'[u] = items /\ \A v \in Upstream \ {u} : fetch'[v] = fetch[v]
  BY <1>1 DEF PackagesInv
<1> HIDE DEF sizes
<1>3. Fetched(items, reported[u], m)
  <2>1. CASE Mapped(reported[u]) # {}
    <3>1. Pairs(u, rop) = Mapped(reported[u])
      BY <2>1 DEF Pairs
    <3> HIDE DEF m
    <3> QED
      BY <1>1, <3>1, MappedFetched
  <2>2. CASE Mapped(reported[u]) = {}
    <3>1. Pairs(u, rop) = Mapped(rop)
      BY <2>2 DEF Pairs
    <3>2. ReportsOf(rop, m)
      <4>1. ASSUME NEW o \in Outputs, Localize(o, m) # <<>>
            PROVE  IsPrefix(Project, o)
        <5>1. PICK k \in DOMAIN m : IsPrefix(m[k], o)
          BY <4>1 DEF Localize
        <5> QED
          BY <1>1, <5>1, MapIs, PrefixThrough, PathsAre
      <4> QED
        BY <4>1 DEF RopPaths, ReportsOf
    <3>3. Fetched(items, rop, m)
      <4> HIDE DEF m
      <4> QED
        BY <1>1, <3>1, <3>2, MappedFetched
    <3>4. ASSUME NEW p \in Outputs, IsPrefix(Project, p), {p, Localize(p, m)} \cap reported[u] # {}
          PROVE  FALSE
      <4>1. MapOutputPair(p, m) = <<p, Localize(p, m)>> /\ MapOutputPair(Localize(p, m), m) = <<p, Localize(p, m)>>
        BY <1>1, <3>4, RoundTrip
      <4>2. <<p, Localize(p, m)>> \in Mapped(reported[u])
        BY <3>4, <4>1
      <4> QED
        BY <2>2, <4>2
    <3> QED
      BY <3>3, <3>4 DEF Fetched
  <2> QED
    BY <2>1, <2>2
<1>4. ASSUME NEW v \in planned' PROVE Fetched(fetch'[v], reported'[v], tag'[v])
  <2>1. CASE v = u
    BY <1>1, <1>2, <1>3, <2>1
  <2>2. CASE v # u
    BY <1>1, <1>2, <2>2, FetchedIs DEF PackagesInv
  <2> QED
    BY <2>1, <2>2
<1>5. OutputsAreFetched'
  BY <1>4, FetchedIs
<1>6. /\ UNCHANGED <<mapFile, cooking, cookMap, reported, tag>> /\ DOMAIN fetch' = Upstream
      /\ planned' \subseteq {v \in Upstream : reported[v] # {}}
  BY DEF PackagesInv, PlanDownload, uploadVars
<1> QED
  BY <1>5, <1>6 DEF PackagesInv

\* Farm paths, and places on this computer that the map leads to
LEMMA ReportsAre ==
  ASSUME NEW m, NEW farm \in SUBSET Outputs, NEW home \in SUBSET Outputs, \A p \in home : IsPrefix(Project, p)
  PROVE  ReportsOf(farm \cup {Localize(p, m) : p \in home}, m)
<1> DEFINE local == {Localize(p, m) : p \in home}
<1>1. farm \subseteq Outputs
  OBVIOUS
<1>2. \A x \in local : \E p \in Outputs : IsPrefix(Project, p) /\ x = Localize(p, m)
  OBVIOUS
<1> HIDE DEF local
<1>3. ReportsOf(farm \cup local, m)
  <2>1. ASSUME NEW x \in farm PROVE \E p \in Outputs : x = p \/ (IsPrefix(Project, p) /\ x = Localize(p, m))
    <3>1. x \in Outputs
      BY <1>1
    <3> QED
      BY <3>1
  <2>2. ASSUME NEW x \in local PROVE \E p \in Outputs : x = p \/ (IsPrefix(Project, p) /\ x = Localize(p, m))
    BY <1>2
  <2> QED
    BY <2>1, <2>2 DEF ReportsOf
<1> QED
  BY <1>3 DEF local

\* An item cooks; nothing is planned for it yet.
LEMMA ItemCooksKeeps ==
  ASSUME PackagesInv, NEW u \in Upstream, NEW farm \in SUBSET Outputs, NEW home \in SUBSET Outputs,
         ItemCooks(u, farm, home)
  PROVE  PackagesInv'
<1>1. /\ MapForm(cookMap) /\ UNCHANGED <<mapFile, cookMap, cooking, planned, fetch>> /\ u \notin planned
      /\ reported' = [reported EXCEPT ![u] = farm \cup {Localize(p, cookMap) : p \in home}]
      /\ tag' = [tag EXCEPT ![u] = cookMap] /\ DOMAIN reported = Upstream /\ DOMAIN tag = Upstream
  BY DEF ItemCooks, uploadVars, PackagesInv
<1>2. /\ reported'[u] = farm \cup {Localize(p, cookMap) : p \in home} /\ tag'[u] = cookMap
      /\ \A v \in Upstream \ {u} : reported'[v] = reported[v] /\ tag'[v] = tag[v]
  BY <1>1
<1>3. ReportsOf(reported'[u], tag'[u])
  <2>1. ASSUME NEW p \in home PROVE IsPrefix(Project, p)
    <3>1. PICK k \in DOMAIN cookMap : IsPrefix(cookMap[k], p)
      BY DEF ItemCooks, Localize
    <3> QED
      BY <1>1, <3>1, MapIs, PrefixThrough, PathsAre
  <2>2. ReportsOf(farm \cup {Localize(p, cookMap) : p \in home}, cookMap)
    BY <2>1, ReportsAre
  <2> QED
    BY <1>2, <2>2, Zenon
<1>4. OutputsAreFetched'
  BY <1>1, <1>2, FetchedIs DEF PackagesInv
<1> QED
  BY <1>1, <1>2, <1>3, <1>4 DEF PackagesInv

\* The inductive invariant of packages and downloads.
THEOREM PackagesInvariant == PackagesSpec => []PackagesInv
<1>1. PackagesInit => PackagesInv
  BY DEF PackagesInit, PackagesInv, OutputsAreFetched
<1>2. PackagesInv /\ [PackagesNext]_packagesVars => PackagesInv'
  <2> SUFFICES ASSUME PackagesInv, [PackagesNext]_packagesVars PROVE PackagesInv'
    OBVIOUS
  <2>1. ASSUME NEW kept \in SUBSET Upstream, LoadPathMap(kept)
        PROVE  PackagesInv'
    <3>1. MapForm(cookMap')
      BY <2>1, LoadedMapIs DEF LoadPathMap, PackagesInv
    <3>2. /\ UNCHANGED <<mapFile, tag>> /\ planned' = {} /\ fetch' = [u \in Upstream |-> {}]
          /\ reported' = [u \in Upstream |-> IF u \in kept THEN reported[u] ELSE {}]
      BY <2>1 DEF LoadPathMap
    <3>3. OutputsAreFetched'
      BY <3>2, FetchedIs
    <3> QED
      BY <3>1, <3>2, <3>3 DEF PackagesInv
  <2>2. ASSUME NEW u \in Upstream, NEW rop \in RopPaths(u), NEW there, PlanDownload(u, rop, there)
        PROVE  PackagesInv'
    BY <2>2, PlanFetches
  <2>3. CASE EndCook
    <3>1. UNCHANGED <<mapFile, cookMap, reported, tag, planned, fetch>> /\ cooking' = FALSE
      BY <2>3 DEF EndCook, uploadVars
    <3> QED
      BY <3>1, FetchedIs DEF PackagesInv
  <2>4. ASSUME NEW n \in Uploads, NEW single \in BOOLEAN, NEW refs \in SUBSET Wanted[n], Generate(n, refs, single)
        PROVE  PackagesInv'
    <3>1. mapFile' = PathMap(refs) /\ UNCHANGED <<cookMap, cooking, reported, tag, planned, fetch>>
      BY <2>4 DEF Generate
    <3>2. refs \in SUBSET ToSet(Candidates)
      BY PackagesAssumption
    <3>3. MapForm(mapFile')
      BY <3>1, <3>2, PathMapIs
    <3> QED
      BY <3>1, <3>3, FetchedIs DEF PackagesInv
  <2>5. ASSUME NEW u \in Upstream, NEW farm \in SUBSET Outputs, NEW home \in SUBSET Outputs, ItemCooks(u, farm, home)
        PROVE  PackagesInv'
    BY <2>5, ItemCooksKeeps
  <2>6. CASE UNCHANGED packagesVars
    BY <2>6, FetchedIs DEF packagesVars, PackagesInv
  <2> QED
    BY <2>1, <2>2, <2>3, <2>4, <2>5, <2>6 DEF PackagesNext
<1> QED
  BY <1>1, <1>2, PTL DEF PackagesSpec

\* For every item above the download node, each output in the project that it reported,
\* by either of its names, is in exactly one of the work items planned for it, from
\* where the job wrote it to where the item's map puts it.
THEOREM OutputsAlwaysFetched == PackagesSpec => []OutputsAreFetched
BY PackagesInvariant, PTL DEF PackagesInv
=============================================================================
