----------------------------- MODULE Preflight -----------------------------
(***************************************************************************)
(* What an upload node decides to send.  Generation scans the scene         *)
(* (deps.scan_refs), the stages its ROPs render (usddeps) and $OCIO; lays   *)
(* the references out as a tree with the answers remembered on the node     *)
(* (preflight); shows it, on Houdini's main thread, to the artist, who may  *)
(* also move local files to the trash (file_review); and turns what stayed  *)
(* checked into files.  Files come and go all the while.                    *)
(*                                                                         *)
(* A path is a sequence of names.  A plan row keeps its rank instead of its *)
(* source: the first source that names a file is the one it is shown under. *)
(***************************************************************************)
EXTENDS Integers, FiniteSets, Sequences, SequencesExt, FiniteSetsExt

CONSTANTS
  Files,              \* every file that can be on the artist's disk
  Backups,            \* those with a suffix that is never sent
  SkipNames,          \* names of directories that are never walked
  TooMany,            \* directories with more files than the window lists
  Hip, Ocio,          \* the open scene, and the file $OCIO names
  Roots,              \* $HIP and $JOB
  Refs,               \* file references: node, whether an output, ours, two readings
  Nodes, Unowned,     \* nodes, and the owner of a reference no parameter holds
  Fetched,            \* the ROPs this network's ROP Fetch nodes name
  Inputs, Children, Named,   \* what a node reads: wires, contents, node parameters
  Composed, Layered,  \* what the stage of a ROP reads, and what its layer files name
  Deep,               \* the node also asks the layer files
  Patterned,          \* paths the exclude pattern matches
  MaxCooks, MaxChanges \* bounds on cooks and on files that come and go

\* paths are sequences of names, no file is a directory, and what a reference names,
\* or the directory of a frame sequence or of the color configuration, is not the root
Names == UNION {Range(f) : f \in Files}

ASSUME PreflightAssumption ==
  /\ MaxCooks \in Nat /\ MaxChanges \in Nat
  /\ Files \subseteq Seq(Names) \ {<<>>} /\ \A f, g \in Files : ~IsStrictPrefix(f, g)
  /\ {Hip, Ocio} \subseteq Files /\ Len(Ocio) > 1
  /\ IsFiniteSet(Nodes) /\ Fetched \subseteq Nodes
  /\ {Inputs, Children, Named} \subseteq [Nodes -> SUBSET Nodes]
  /\ \A root \in Roots : root \in Seq(Range(root))
  /\ \A r \in Refs : /\ r.node \in Nodes \cup {Unowned} /\ {r.output, r.ours} \subseteq BOOLEAN
                     /\ \A v \in {r.value, r.text} :
                          /\ v.shape \in {"varies", "frame", "plain", "relative", "internal"}
                          /\ v.shape \in {"frame", "plain", "relative"} => v.at \in Seq(Range(v.at)) \ {<<>>}
                          /\ v.shape = "frame" => Len(v.at) > 1

Scene  == 1
Usd    == 2
Env    == 3
Output == 4
Above(p) == {SubSeq(p, 1, n) : n \in 1..Len(p)}
Dirs     == (UNION {Above(f) : f \in Files}) \ Files

VARIABLES
  disk,       \* files that are there
  off, on,    \* rpfarm_exclude: paths refused and paths asked for
  pc,         \* the generation: rest, window, send, and how it ended
  preview,    \* it only saves the selection
  rows,       \* the plan
  tree,       \* its leaves, each with the rank of its source
  checked,    \* leaves checked when the window opened, then the artist's answer
  window,     \* none, posted to the main thread, open, or left open by a cook that went on
  asked,      \* the window was answered
  sent,       \* files the items of the cook carry
  cooks, changes,
  needed      \* history: files the scan had to find, and build_tree could

preflightVars == <<disk, off, on, pc, preview, rows, tree, checked, window, asked, sent,
                   cooks, changes, needed>>

-----------------------------------------------------------------------------
(* The scan                                                                 *)

Exists(p) == p \in disk \/ p \in Dirs

\* globbed: a varying part is matched, a frame sequence stands for its directory
Globbed(v) ==
  CASE v.shape = "varies"   -> v.at \cap disk
    [] v.shape = "frame"    -> {Front(v.at)} \cap Dirs
    [] v.shape = "plain"    -> {p \in {v.at} : Exists(p)}
    [] v.shape = "relative" -> {p \in {r \o v.at : r \in Roots} : Exists(p)}
    [] v.shape = "internal" -> {}

\* a reference is what its parameter evaluates to
FoundByValue(r) == Globbed(r.value)

\* expand_reference: what the parameter means, and what its string means
Found(r) == Globbed(r.value) \cup Globbed(r.text)

\* _branch_node_paths: from the fetched ROPs upstream
ReadsOf(n) == Inputs[n] \cup Children[n] \cup Named[n]

Branch == LET Grow[k \in 0..Cardinality(Nodes)] ==
                IF k = 0 THEN Fetched
                ELSE Grow[k - 1] \cup UNION {ReadsOf(n) : n \in Grow[k - 1]}
          IN  IF Fetched = {} THEN Nodes ELSE Grow[Cardinality(Nodes)]

\* the references scan_refs does not skip
Kept(scope) == {r \in Refs : \/ r.node = Unowned
                             \/ ~r.ours /\ (scope = "branch" => r.node \in Branch)}

ScanRefs(scope, outputs) ==
  LET chosen == {r \in Kept(scope) : r.output = outputs}
  IN  ((UNION {Found(r) : r \in chosen}) \cup (IF outputs THEN {} ELSE {Hip})) \ Patterned

\* stage_dependencies of every fetched ROP; a stage that does not cook gives nothing
UsdRefs(cooked) ==
  (UNION {(Composed[r] \cup (IF Deep THEN Layered[r] ELSE {})) \cap disk : r \in cooked}) \ Patterned

\* environment_refs: the directory of the config, if the config is there
EnvRefs == (IF Ocio \in disk THEN {Front(Ocio)} ELSE {}) \ Patterned

-----------------------------------------------------------------------------
(* The plan and its tree                                                    *)

WalkFiles(d) == {f \in disk \ Backups : /\ IsStrictPrefix(d, f)
                                        /\ \A n \in Len(d) + 1..Len(f) - 1 : f[n] \notin SkipNames}

PlanRefs(paths, rank) ==
  LET Dir(p) == [path |-> p, rank |-> rank, contents |-> IF p \in TooMany THEN {} ELSE WalkFiles(p)]
  IN  {Dir(p) : p \in {q \in paths \cap Dirs : Last(q) \notin SkipNames}}
      \cup {[path |-> f, rank |-> rank, contents |-> {}] : f \in (paths \cap disk) \ Backups}

\* choose_uploads: a path is a row of the first source that has it
PlanOf(found) == UNION {PlanRefs(found[k] \ UNION {found[j] : j \in 1..k - 1}, k) : k \in Scene..Output}

Inserted(row) == IF row.contents # {} THEN row.contents ELSE {row.path}
Shown(plan)   == UNION {Inserted(r) : r \in plan}

\* build_tree: a path is a leaf if nothing was inserted below it
BuildTree(plan) ==
  LET all == Shown(plan)
  IN  [p \in {q \in all : \A r \in all : ~IsStrictPrefix(q, r)} |->
         Min({r.rank : r \in {s \in plan : p \in Inserted(s)}})]

Leaves(t)       == DOMAIN t
ByDefault(t, p) == t[p] # Output

\* _collapse folds a directory that holds one directory and nothing else
Folders(t) ==
  LET All     == UNION {Above(p) : p \in Leaves(t)}
      Kids(d) == {q \in All : Len(q) = Len(d) + 1 /\ IsPrefix(d, q)}
  IN  {d \in All : \A k \in Dirs : Kids(d) # {k}}

\* compact_answer: each decision at the highest folder where it is uniform
Uniform(t, chosen) ==
  {d \in Folders(t) : LET under == {p \in Leaves(t) : IsPrefix(d, p)}
                      IN  /\ under \subseteq chosen \/ under \cap chosen = {}
                          /\ Cardinality({ByDefault(t, p) : p \in under}) = 1}

CompactAnswer(t, chosen) ==
  LET same == Uniform(t, chosen)
      tops == {d \in same : \A e \in same : ~IsStrictPrefix(e, d)}
      Said(value) == {d \in tops : \E p \in Leaves(t) :
                        /\ IsPrefix(d, p) /\ (p \in chosen) = value /\ ByDefault(t, p) # value}
  IN  [off |-> Said(FALSE), on |-> Said(TRUE)]

\* is_excluded: the nearest answer at or above the path
IsExcluded(p, refused, wanted, usual) ==
  LET said == {q \in refused \cup wanted : IsPrefix(q, p)}
  IN  IF said = {} THEN ~usual
      ELSE \E q \in said : q \in refused /\ \A r \in said : Len(r) <= Len(q)

\* the leaves the stored answers leave checked
Remembered(t) == {p \in Leaves(t) : ~IsExcluded(p, off, on, ByDefault(t, p))}

\* selected_paths: a directory goes whole, or as the files that stayed
SelectedPaths(plan, chosen) ==
  UNION {IF r.contents # {}
           THEN IF r.contents \subseteq chosen THEN {r.path} ELSE r.contents \cap chosen
           ELSE {r.path} \cap chosen : r \in plan}

\* resolve_entries: files on the disk of now
Resolve(paths) == UNION {IF p \in Dirs THEN IF Last(p) \in SkipNames THEN {} ELSE WalkFiles(p)
                         ELSE ({p} \cap disk) \ Backups : p \in paths}

-----------------------------------------------------------------------------
(* What the cook needs, said without the walk                               *)

Closed(S) == Fetched \subseteq S /\ \A n \in S : Inputs[n] \cup Children[n] \cup Named[n] \subseteq S

NeedsNode(n) == Fetched = {} \/ \A S \in SUBSET Nodes : Closed(S) => n \in S

PathsOf(v) == CASE v.shape = "varies"   -> v.at
                [] v.shape = "frame"    -> {f \in Files : IsStrictPrefix(Front(v.at), f)}
                [] v.shape = "plain"    -> {f \in Files : IsPrefix(v.at, f)}
                [] v.shape = "relative" -> {f \in Files : \E r \in Roots : IsPrefix(r \o v.at, f)}
                [] v.shape = "internal" -> {}

NeededFiles(cooked) ==
  LET named == UNION {PathsOf(r.value) \cup PathsOf(r.text) :
                        r \in {s \in Refs : ~s.output /\ (s.node = Unowned \/ (~s.ours /\ NeedsNode(s.node)))}}
      stage == UNION {Composed[r] \cup (IF Deep THEN Layered[r] ELSE {}) : r \in cooked}
      color == {f \in Files : Ocio \in disk /\ IsPrefix(Front(Ocio), f)}
      Hidden(f) == \/ f \in Backups
                   \/ \E n \in 1..Len(f) - 1 : f[n] \in SkipNames
                   \/ \E p \in Patterned : IsPrefix(p, f)
  IN  {f \in ({Hip} \cup named \cup stage \cup color) \cap disk : ~Hidden(f)}

\* What build_tree drops: the rest of a folder too large to list, once another
\* reference into it has made it a folder of the tree (see LargeFolderIsOneLine).
Swallowed(plan) ==
  LET t == BuildTree(plan)
  IN  {f \in Files : /\ \E r \in plan : r.path \in TooMany /\ IsStrictPrefix(r.path, f)
                     /\ \A p \in Leaves(t) : IsPrefix(p, f) => ~ByDefault(t, p)}

-----------------------------------------------------------------------------
(* A generation                                                             *)

PreflightInit ==
  /\ disk = Files /\ off = {} /\ on = {} /\ pc = "rest" /\ preview = FALSE
  /\ rows = {} /\ tree = <<>> /\ checked = {} /\ window = "none" /\ asked = FALSE /\ sent = {}
  /\ cooks = 0 /\ changes = 0 /\ needed = {}

Scan(scope, ask, review) ==
  /\ pc = "rest" /\ cooks < MaxCooks /\ cooks' = cooks + 1
  /\ \E cooked \in SUBSET Fetched :
       /\ rows' = PlanOf(<<ScanRefs(scope, FALSE), UsdRefs(cooked), EnvRefs, ScanRefs(scope, TRUE)>>)
       /\ needed' = NeededFiles(cooked) \ Swallowed(rows')
  /\ tree' = BuildTree(rows') /\ checked' = Remembered(tree')
  /\ preview' = review /\ asked' = FALSE /\ sent' = {}
  /\ pc' = IF ask THEN "window" ELSE "send"
  /\ window' = IF review THEN "open" ELSE IF ask THEN "posted" ELSE window
  /\ UNCHANGED <<disk, off, on, changes>>

\* a cook, whose window is posted to the main thread
Generate(scope, ask) == Scan(scope, ask, FALSE)

\* a preview always asks, and is on the main thread already
Review(scope) == window = "none" /\ Scan(scope, TRUE, TRUE)

\* the main thread runs the posted callback; a window still open there comes first
Open ==
  /\ pc = "window" /\ window = "posted" /\ window' = "open"
  /\ UNCHANGED <<disk, off, on, pc, preview, rows, tree, checked, asked, sent, cooks, changes, needed>>

\* Move to Trash, then refresh_local: what is left becomes rows of single files
Trash(f) ==
  /\ pc = "window" /\ window = "open" /\ changes < MaxChanges /\ changes' = changes + 1
  /\ f \in Leaves(tree) \cap disk /\ f # Hip
  /\ disk' = disk \ {f} /\ needed' = needed \ {f}
  /\ rows' = {[path |-> p, rank |-> tree[p],
               contents |-> IF p \in Files \cup TooMany THEN {} ELSE WalkFiles(p)'] :
                p \in Leaves(tree) \cap (disk' \cup Dirs)}
  /\ tree' = BuildTree(rows')
  /\ UNCHANGED <<off, on, pc, preview, checked, window, asked, sent, cooks>>

\* what ticking lines and folders, all and none can leave checked
Selections == SUBSET Leaves(tree)

Answered(chosen) ==
  /\ checked' = chosen
  /\ IF chosen = checked THEN UNCHANGED <<off, on>>
     ELSE LET answer == CompactAnswer(tree, chosen) IN off' = answer.off /\ on' = answer.on

\* Continue Upload, or Save Selection, which may be empty
Accept(chosen) ==
  /\ pc = "window" /\ window = "open" /\ window' = "none"
  /\ chosen # {} \/ preview
  /\ Answered(chosen) /\ asked' = TRUE /\ pc' = IF preview THEN "saved" ELSE "send"
  /\ UNCHANGED <<disk, preview, rows, tree, sent, cooks, changes, needed>>

\* UploadCancelled: the cook stops
Cancel ==
  /\ pc = "window" /\ window = "open" /\ window' = "none" /\ pc' = "stopped"
  /\ UNCHANGED <<disk, off, on, preview, rows, tree, checked, asked, sent, cooks, changes, needed>>

\* confirm_on_main_thread gives up: the remembered answer is used; an open window stays
TimesOut ==
  /\ pc = "window" /\ ~preview /\ pc' = "send"
  /\ window' = IF window = "open" THEN "left" ELSE "none"
  /\ UNCHANGED <<disk, off, on, preview, rows, tree, checked, asked, sent, cooks, changes, needed>>

\* somebody answers, or cancels, a window nobody waits for
CloseLeft ==
  /\ window = "left" /\ window' = "none"
  /\ UNCHANGED <<disk, off, on, pc, preview, rows, tree, checked, asked, sent, cooks, changes, needed>>

Send ==
  /\ pc = "send" /\ pc' = "sent"
  /\ sent' = Resolve(SelectedPaths(rows, checked))
  /\ UNCHANGED <<disk, off, on, preview, rows, tree, checked, window, asked, cooks, changes, needed>>

\* the generation is over: only the answer on the node stays
Done ==
  /\ pc \in {"saved", "sent", "stopped"} /\ pc' = "rest"
  /\ rows' = {} /\ tree' = <<>> /\ checked' = {} /\ asked' = FALSE /\ sent' = {} /\ needed' = {}
  /\ preview' = FALSE
  /\ UNCHANGED <<disk, off, on, window, cooks, changes>>

\* clearExclusions
Forget ==
  /\ pc = "rest" /\ off \cup on # {} /\ off' = {} /\ on' = {}
  /\ UNCHANGED <<disk, pc, preview, rows, tree, checked, window, asked, sent, cooks, changes, needed>>

\* files come and go by other hands
Change(f) ==
  /\ pc \in {"window", "send"} /\ changes < MaxChanges /\ changes' = changes + 1
  /\ disk' = IF f \in disk THEN disk \ {f} ELSE disk \cup {f}
  /\ needed' = needed \ {f}
  /\ UNCHANGED <<off, on, pc, preview, rows, tree, checked, window, asked, sent, cooks>>

PreflightNext ==
  \/ \E scope \in {"scene", "branch"} : Review(scope) \/ \E ask \in BOOLEAN : Generate(scope, ask)
  \/ Open \/ Cancel \/ TimesOut \/ CloseLeft \/ Send \/ Done \/ Forget
  \/ \E f \in Files : Trash(f) \/ Change(f)
  \/ \E chosen \in Selections : Accept(chosen)

PreflightSpec == PreflightInit /\ [][PreflightNext]_preflightVars

\* the clock of the waiting thread, and generation itself
FairPreflight == PreflightSpec /\ WF_preflightVars(TimesOut) /\ WF_preflightVars(Send)

-----------------------------------------------------------------------------
(* Properties                                                               *)

\* What is remembered and what is sent are paths of this disk; a path is never
\* both refused and asked for (dump_choices).
PreflightTypeOK ==
  /\ disk \subseteq Files /\ needed \subseteq Files /\ sent \subseteq Files
  /\ off \cup on \subseteq Files \cup Dirs /\ off \cap on = {}
  /\ pc \in {"rest", "window", "send", "saved", "sent", "stopped"}
  /\ window \in {"none", "posted", "open", "left"}
  /\ {preview, asked} \subseteq BOOLEAN
  /\ \A r \in rows : r.path \in Files \cup Dirs /\ r.rank \in Scene..Output /\ r.contents \subseteq Files

\* A folder too large to list stays one line of the tree (build_tree: "a single
\* aggregate leaf").  The code breaks this: another reference into it makes it a
\* folder, and the rest of what it holds is neither shown nor sent.
LargeFolderIsOneLine ==
  pc = "sent" => \A r \in rows : r.path \in TooMany => r.path \in Leaves(tree)

\* Every file the cook reads, by any reference it can reach, travels with the
\* cook, unless the artist refused it, or it is gone (or was Swallowed); nothing of it
\* is taken for an output, although a directory named as output may hold it
\* (scan_refs, plan_refs, selected_paths, resolve_entries).
NothingMissed ==
  pc = "sent" => \A f \in needed : \/ f \in sent
                                   \/ \E p \in Leaves(tree) \ checked : IsPrefix(p, f) /\ ByDefault(tree, p)

\* A line of the tree that is not checked, at any level, sends no file of its own,
\* although directories travel as one reference (selected_paths).
OnlyAgreedIsSent ==
  pc = "sent" => \A f \in sent, p \in Leaves(tree) : IsPrefix(p, f) => p \in checked

\* The answer stored on the node, decisions of whole folders only, reads back as
\* the answer that was given, line by line (compact_answer, is_excluded).
AnswerIsKept == asked /\ pc \in {"saved", "send", "sent"} => checked = Remembered(tree)

\* A cook never waits for its window for ever (confirm_on_main_thread).
CookGoesOn == pc = "window" /\ ~preview ~> pc # "window"

=============================================================================
