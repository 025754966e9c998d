------------------------------ MODULE Packages ------------------------------
(***************************************************************************)
(* From references to work items, and back.  The upload nodes of a network  *)
(* turn their references into entries and a path map (deps.resolve_entries),*)
(* the entries into packages (packages.build_upload_items), and leave the   *)
(* map in $JOB/.rpfarm_pathmap.json; the scheduler merges that file when a  *)
(* cook starts; what the farm reports is mapped home and packed for the     *)
(* download (map_output_pair, build_download_items).                        *)
(*                                                                         *)
(* A path is a sequence of names, a map a function from local to farm       *)
(* prefixes.  Sizes are in units of which a package holds Limit.            *)
(***************************************************************************)
EXTENDS Integers, FiniteSets, Sequences, SequencesExt, FiniteSetsExt

CONSTANTS
  Uploads,            \* the upload nodes of the network
  Candidates,         \* a sequence of every file, in the order of its farm path
  Wanted,             \* the files each upload node refers to
  Size,               \* of each file
  Limit,              \* rpfarm_packagegb
  JobDir, JobReal,    \* $JOB, and where it really is
  Project,            \* /workspace/projects/<user>/<project>
  Outputs,            \* paths on the farm that jobs write
  OutputSize,         \* of each of them
  Upstream,           \* the work items above the download node
  MaxCooksP,          \* bound on cooks
  MaxReports          \* bound on the outputs an item reports

\* Paths are sequences of names; $JOB is not on the farm, nor around it; an output is
\* not $JOB or the project itself, nor where _ext would hold one of them (FarmPath
\* sends nothing there).
Ext       == Append(Project, "_ext")
PathNames == {"_ext"} \cup UNION {ToSet(p) : p \in ToSet(Candidates) \cup Outputs \cup {JobDir, Project}}

ASSUME PackagesAssumption ==
  /\ MaxCooksP \in Nat /\ Limit \in Nat \ {0}
  /\ ToSet(Candidates) \cup Outputs \cup {JobDir, Project} \subseteq Seq(PathNames) \ {<<>>}
  /\ \A n \in Uploads : Wanted[n] \subseteq ToSet(Candidates)
  /\ ~IsPrefix(Project, JobDir) /\ ~IsPrefix(JobDir, Project)
  /\ IsFiniteSet(Outputs) /\ OutputSize \in [Outputs -> Nat]
  /\ \A p \in Outputs : /\ p \notin {JobDir, Project}
                        /\ \A root \in {JobDir, Project} : ~IsPrefix(Ext \o root, p)

VARIABLES
  mapFile,    \* .rpfarm_pathmap.json
  cookMap,    \* the scheduler's path map
  cooking,
  entries,    \* per upload node: the files its items carry
  ownMap,     \* per upload node: the path map of those files
  plan,       \* per upload node: its work items
  reported,   \* per upstream item: the output paths it reported, at either end
  tag,        \* per upstream item: the path map it was scheduled with (rpfarm_pathmap)
  planned,    \* the upstream items the download node has planned for
  fetch,      \* per upstream item: the work items planned for it
  cooksP

packagesVars == <<mapFile, cookMap, cooking, entries, ownMap, plan, reported, tag, planned, fetch, cooksP>>
uploadVars   == <<mapFile, entries, ownMap, plan>>

Item(localRoot, remoteRoot, files) == [localRoot |-> localRoot, remoteRoot |-> remoteRoot, files |-> files]
Below(root, p) == SubSeq(p, Len(root) + 1, Len(p))
Longest(paths) == CHOOSE p \in paths : \A q \in paths : Len(q) <= Len(p)

-----------------------------------------------------------------------------
(* resolve_entries                                                          *)

RealPath(p) == IF IsPrefix(JobDir, p) THEN JobReal \o Below(JobDir, p) ELSE p
External(p) == ~IsPrefix(JobDir, p) /\ ~IsPrefix(JobReal, RealPath(p))

FarmPath(p) == IF IsPrefix(JobDir, p) THEN Project \o Below(JobDir, p)
             ELSE IF External(p) THEN Ext \o p
             ELSE Project \o Below(JobReal, RealPath(p))

\* _pathmap_key: a file at the root of the disk stands for itself
PathmapKey(p) == IF Len(p) = 1 THEN p ELSE Front(p)

PathMap(files) ==
  LET keys == {PathmapKey(p) : p \in {f \in files : External(f)}}
  IN  [k \in keys \cup {JobDir} |-> IF k = JobDir THEN Project ELSE Ext \o k]

-----------------------------------------------------------------------------
(* build_upload_items                                                       *)

\* _group_by_pathmap: the longest prefix, read literally and then for real
RootOf(p, map) == LET literal == {k \in DOMAIN map : IsPrefix(k, p)}
                      real    == {k \in DOMAIN map : IsPrefix(RealPath(k), RealPath(p))}
                  IN  Longest(IF literal # {} THEN literal ELSE real)

\* _chunk_by_size: in order, and a file that is too large for a package alone
Chunk(files, size) ==
  LET Weight(c) == FoldLeft(LAMBDA n, p : n + size[p], 0, c)
      Put(done, p) == IF done # <<>> /\ Weight(Last(done)) + size[p] <= Limit
                        THEN Append(Front(done), Append(Last(done), p))
                        ELSE Append(done, <<p>>)
  IN  FoldLeft(Put, <<>>, files)

ItemsFromGroups(files, map, single) ==
  LET Group(k)  == SelectSeq(Candidates, LAMBDA p : p \in files /\ RootOf(p, map) = k)
      Chunks(k) == IF single THEN {<<p>> : p \in ToSet(Group(k))} ELSE ToSet(Chunk(Group(k), Size))
  IN  UNION {{Item(k, map[k], c) : c \in Chunks(k)} : k \in DOMAIN map}

-----------------------------------------------------------------------------
(* Where outputs belong                                                     *)

Localize(p, map) ==
  LET fits == {k \in DOMAIN map : IsPrefix(map[k], p)}
  IN  IF fits = {} THEN <<>>
      ELSE LET k == CHOOSE k \in fits : \A j \in fits : Len(map[j]) <= Len(map[k])
           IN  k \o Below(map[k], p)

Delocalize(p, map) ==
  LET fits == {k \in DOMAIN map : IsPrefix(k, p)}
  IN  IF fits = {} THEN <<>> ELSE map[Longest(fits)] \o Below(Longest(fits), p)

\* <<farm path, local path>> of a path that may be either
MapOutputPair(p, map) ==
  IF Localize(p, map) \notin {<<>>, p} THEN <<p, Localize(p, map)>>
  ELSE IF Delocalize(p, map) \notin {<<>>, p} THEN <<Delocalize(p, map), p>> ELSE <<>>

\* one pair of roots for everything
DownloadItemsOneRoot(pairs, sizes) ==
  IF pairs = {} THEN {}
  ELSE LET q == CHOOSE q \in pairs : TRUE
       IN  {Item(Front(q[2]), Front(q[1]), SetToSeq({s[2] : s \in pairs}))}

\* build_download_items: by the pair of directories, in chunks by the sizes found
DownloadItems(pairs, sizes) ==
  LET RootsOf(q) == <<Front(q[2]), Front(q[1])>>
      Files(r)   == {q[2] : q \in {s \in pairs : RootsOf(s) = r}}
      Weight     == [f \in {q[2] : q \in pairs} |-> sizes[(CHOOSE q \in pairs : q[2] = f)[1]]]
  IN  UNION {{Item(r[1], r[2], c) : c \in ToSet(Chunk(SetToSeq(Files(r)), Weight))} : r \in {RootsOf(q) : q \in pairs}}

-----------------------------------------------------------------------------
(* The network                                                              *)

PackagesInit ==
  /\ mapFile = <<>> /\ cookMap = <<>> /\ cooking = FALSE
  /\ entries = [n \in Uploads |-> {}] /\ ownMap = [n \in Uploads |-> PathMap({})]
  /\ plan = [n \in Uploads |-> {}] /\ cooksP = 0
  /\ reported = [u \in Upstream |-> {}] /\ tag = [u \in Upstream |-> <<>>]
  /\ planned = {} /\ fetch = [u \in Upstream |-> {}]

\* onStartCook: the map file of before this cook's uploads generate; items that stay
\* cooked keep what they reported and the map they were scheduled with
LoadPathMap(kept) ==
  /\ ~cooking /\ cooksP < MaxCooksP /\ cooksP' = cooksP + 1 /\ cooking' = TRUE
  /\ cookMap' = [k \in {JobDir} \cup DOMAIN mapFile |-> IF k = JobDir THEN Project ELSE mapFile[k]]
  /\ entries' = [n \in Uploads |-> {}] /\ ownMap' = [n \in Uploads |-> PathMap({})]
  /\ plan' = [n \in Uploads |-> {}]
  /\ reported' = [u \in Upstream |-> IF u \in kept THEN reported[u] ELSE {}]
  /\ planned' = {} /\ fetch' = [u \in Upstream |-> {}]
  /\ UNCHANGED <<mapFile, tag>>

\* an upload node generates items for the files it finds and writes the map file
Generate(n, refs, single) ==
  /\ cooking /\ entries[n] = {} /\ refs # {}
  /\ entries' = [entries EXCEPT ![n] = refs]
  /\ ownMap' = [ownMap EXCEPT ![n] = PathMap(refs)]
  /\ plan' = [plan EXCEPT ![n] = ItemsFromGroups(refs, PathMap(refs), single)]
  /\ mapFile' = PathMap(refs)
  /\ UNCHANGED <<cookMap, cooking, reported, tag, planned, fetch, cooksP>>

\* an item cooks, tagged with the map, and reports what it wrote, as the farm knows it
\* or as this machine would
ItemCooks(u, farm, home) ==
  /\ cooking /\ reported[u] = {} /\ Cardinality(farm) + Cardinality(home) \in 1..MaxReports
  /\ \A p \in home : Localize(p, cookMap) # <<>>
  /\ reported' = [reported EXCEPT ![u] = farm \cup {Localize(p, cookMap) : p \in home}]
  /\ tag' = [tag EXCEPT ![u] = cookMap]
  /\ UNCHANGED <<uploadVars, cookMap, cooking, planned, fetch, cooksP>>

\* the download node plans for an item: the reported paths that map, and if none does,
\* what the ROP behind the item says it wrote; a file stat does not find weighs nothing
Pairs(u, rop) ==
  LET Mapped(paths) == {MapOutputPair(x, tag[u]) : x \in paths} \ {<<>>}
  IN  IF Mapped(reported[u]) # {} THEN Mapped(reported[u]) ELSE Mapped(rop)

StatSizes(pairs, there) ==
  [p \in {q[1] : q \in pairs} |-> IF p \in there THEN OutputSize[p] ELSE 0]

PlanDownload(u, rop, there) ==
  /\ cooking /\ u \notin planned /\ reported[u] # {}
  /\ planned' = planned \cup {u}
  /\ fetch' = [fetch EXCEPT ![u] = DownloadItems(Pairs(u, rop), StatSizes(Pairs(u, rop), there))]
  /\ UNCHANGED <<uploadVars, cookMap, cooking, reported, tag, cooksP>>

EndCook ==
  /\ cooking /\ cooking' = FALSE
  /\ UNCHANGED <<uploadVars, cookMap, reported, tag, planned, fetch, cooksP>>

\* what the ROP of an item may say: nothing, or a place its map knows
RopPaths(u) == {{}} \cup {{Localize(p, tag[u])} : p \in {o \in Outputs : Localize(o, tag[u]) # <<>>}}

PackagesNext ==
  \/ EndCook
  \/ \E kept \in SUBSET Upstream : LoadPathMap(kept)
  \/ \E n \in Uploads, single \in BOOLEAN : \E refs \in SUBSET Wanted[n] : Generate(n, refs, single)
  \/ \E u \in Upstream : \E farm, home \in SUBSET Outputs : ItemCooks(u, farm, home)
  \/ \E u \in Upstream : \E rop \in RopPaths(u) : \E there \in SUBSET {q[1] : q \in Pairs(u, rop)} :
       PlanDownload(u, rop, there \cap Outputs)

PackagesSpec == PackagesInit /\ [][PackagesNext]_packagesVars

-----------------------------------------------------------------------------
(* Properties                                                               *)

Weighs(item) == FoldLeft(LAMBDA n, p : n + Size[p], 0, item.files)

\* Every file of a node is in exactly one of its items, and an item holds more than
\* the limit only if it is one file (build_upload_items).
EachFileOnce ==
  \A n \in Uploads :
    /\ UNION {ToSet(i.files) : i \in plan[n]} = entries[n]
    /\ \A i, j \in plan[n] : i # j => ToSet(i.files) \cap ToSet(j.files) = {}
    /\ \A i \in plan[n] : Len(i.files) = 1 \/ Weighs(i) <= Limit

\* What the transfer of an item computes from its roots is where the file belongs
\* (build_rclone_args refuses the item otherwise), unless the file was named by the
\* real path of a linked $JOB; and two files of a node never land on one farm path,
\* unless they are one file.
FilesLand ==
  \A n \in Uploads :
    /\ \A i \in plan[n], p \in entries[n] :
         p \in ToSet(i.files) /\ (IsPrefix(JobDir, p) \/ External(p))
           => IsPrefix(i.localRoot, p) /\ i.remoteRoot \o Below(i.localRoot, p) = FarmPath(p)
    /\ \A p, q \in entries[n] : FarmPath(p) = FarmPath(q) => RealPath(p) = RealPath(q)

\* The same, for every file a scene can refer to (resolve_entries says a linked
\* $JOB resolves correctly either way).
LinkedJobLands ==
  \A n \in Uploads, p \in ToSet(Candidates) : \A i \in plan[n] :
    p \in ToSet(i.files) => IsPrefix(i.localRoot, p) /\ i.remoteRoot \o Below(i.localRoot, p) = FarmPath(p)

\* A path that was sent maps to the farm and back to itself by the map of its node,
\* whichever of its two names is given; a rule inside another one does not confuse
\* them (localize_via_pathmap, delocalize_via_pathmap, map_output_pair).
ComesHome ==
  \A n \in Uploads : \A p \in entries[n] :
    IsPrefix(JobDir, p) \/ External(p)
      => /\ MapOutputPair(p, ownMap[n]) = <<FarmPath(p), p>>
         /\ MapOutputPair(FarmPath(p), ownMap[n]) = <<FarmPath(p), p>>

\* What a cook sends outside of $JOB is in the map its jobs run with
\* (_loadPathMap merges what the upload wrote).
MapCoversUploads ==
  cooking => \A n \in Uploads : \A p \in entries[n] :
               External(p) => Delocalize(p, cookMap) = FarmPath(p)

\* For each item above the download node: an output in the project that it reported,
\* by whichever of its two names and among whatever else, is fetched, from where the job
\* wrote it to where the item's map puts it; and no file is in two of the work items
\* planned for it, which would write it at once (map_output_pair, build_download_items;
\* two items that report the same output each fetch it).
OutputsAreFetched ==
  LET Farm(i, f) == i.remoteRoot \o Below(i.localRoot, f)
  IN  \A u \in planned :
        /\ \A p \in Outputs :
             IsPrefix(Project, p) /\ {p, Localize(p, tag[u])} \cap reported[u] # {} =>
               \E i \in fetch[u] : \E f \in ToSet(i.files) : Farm(i, f) = p /\ f = Localize(p, tag[u])
        /\ \A i, j \in fetch[u] : i # j => ToSet(i.files) \cap ToSet(j.files) = {}
=============================================================================
