------------------------------- MODULE Growth -------------------------------
(***************************************************************************)
(* The size of the volume: the guard that every upload item passes          *)
(* (packages.maybe_grow_volume), and the cache of measured sizes it asks    *)
(* (housekeeping disk-usage, _SizeCache).  Items run in parallel, each with *)
(* a command of its own on the sync pod; what lands invalidates the cache   *)
(* only when it is there.                                                   *)
(*                                                                         *)
(* Cached figures grow too old at any moment; a measurement may run out of  *)
(* its budget.  Bytes are in GB.                                            *)
(***************************************************************************)
EXTENDS Integers, FiniteSets

CONSTANTS
  Items,              \* processes that upload
  FirstFiles,         \* what the volume holds at first, by zone
  FirstSize,          \* its size
  ItemSizes,          \* the sizes an item may have, by zone
  MaxUploads,         \* bound on uploads
  MaxMisses           \* bound on failures and exhausted budgets

Zones   == {"projects", "houdini"}
Unknown == -1

ASSUME GrowthAssumption ==
  /\ IsFiniteSet(Items) /\ FirstFiles \in [Zones -> Nat] /\ FirstSize \in Nat
  /\ ItemSizes \in [Zones -> SUBSET (Nat \ {0})]
  /\ MaxUploads \in Nat /\ MaxMisses \in Nat

VARIABLES
  landed,     \* what is on the volume, by zone
  total,      \* the size RunPod bills
  known,      \* volume_size_cache.json: the last size seen, or Unknown
  sizes,      \* the _sizes of the index: a figure, or Unknown
  item,       \* the upload items
  uploads, misses,
  unmarked,   \* history: bytes that landed and invalidate nothing yet
  revived     \* history: bytes marked while a sweep had measured their zone, by zone

growthVars == <<landed, total, known, sizes, item, uploads, misses, unmarked, revived>>

NoSizes == [z \in Zones |-> Unknown]
Resting == [pc |-> "rest", zone |-> "projects", needs |-> 0, volume |-> Unknown,
            cache |-> NoSizes, updated |-> {}, left |-> {}, partial |-> FALSE,
            owed |-> [z \in Zones |-> 0], sure |-> FALSE]

ItemAt(i, label) == item[i].pc = label
Sum(f)           == f["projects"] + f["houdini"]
Marked(z)        == landed[z] - unmarked[z] - revived[z]
Miss             == misses < MaxMisses /\ misses' = misses + 1

GrowthInit ==
  /\ landed = FirstFiles
  /\ total = FirstSize /\ known = Unknown
  /\ sizes = NoSizes /\ item = [i \in Items |-> Resting]
  /\ uploads = 0 /\ misses = 0
  /\ unmarked = [z \in Zones |-> 0] /\ revived = [z \in Zones |-> 0]

\* an upload into a project, or a Houdini installed
Plan(i) ==
  /\ ItemAt(i, "rest") /\ uploads < MaxUploads /\ uploads' = uploads + 1
  /\ \E z \in Zones : \E n \in ItemSizes[z] :
       item' = [item EXCEPT ![i] = [Resting EXCEPT !.pc = "volume", !.zone = z, !.needs = n]]
  /\ UNCHANGED <<landed, total, known, sizes, misses, unmarked, revived>>

\* get_volume_size_gb: the cached size, RunPod's, or none
VolumeSize(i) ==
  /\ ItemAt(i, "volume")
  /\ \/ known # Unknown /\ item' = [item EXCEPT ![i].pc = "load", ![i].volume = known]
        /\ UNCHANGED <<known, misses>>
     \/ known' = total /\ item' = [item EXCEPT ![i].pc = "load", ![i].volume = total]
        /\ UNCHANGED misses
     \/ known = Unknown /\ Miss /\ item' = [item EXCEPT ![i].pc = "send"]
        /\ UNCHANGED known
  /\ UNCHANGED <<landed, total, sizes, uploads, unmarked, revived>>

-----------------------------------------------------------------------------
(* cmd_disk_usage                                                           *)

LoadSizes(i) ==
  /\ ItemAt(i, "load")
  /\ item' = [item EXCEPT ![i].pc = "sweep", ![i].cache = sizes, ![i].left = Zones,
                          ![i].owed = [z \in Zones |-> Marked(z)]]
  /\ UNCHANGED <<landed, total, known, sizes, uploads, misses, unmarked, revived>>

QuietMiss(i, z) ==
  /\ ItemAt(i, "sweep") /\ z \in item[i].left
  /\ \/ /\ item[i].cache[z] # Unknown
        /\ item' = [item EXCEPT ![i].left = @ \ {z}]
        /\ UNCHANGED misses
     \/ /\ item' = [item EXCEPT ![i].left = @ \ {z}, ![i].cache[z] = landed[z],
                                ![i].updated = @ \union {z}]
        /\ UNCHANGED misses
     \/ /\ Miss
        /\ item' = [item EXCEPT ![i].left = @ \ {z},
                                ![i].cache[z] = IF @ = Unknown THEN 0 ELSE @]
  /\ UNCHANGED <<landed, total, known, sizes, uploads, unmarked, revived>>

\* _SizeCache.get: a figure that is recent, or measured now, or (no time left)
\* the last one, which makes the answer partial
GetSize(i, z) ==
  /\ ItemAt(i, "sweep") /\ z \in item[i].left
  /\ \/ /\ item[i].cache[z] # Unknown
        /\ item' = [item EXCEPT ![i].left = @ \ {z}]
        /\ UNCHANGED misses
     \/ /\ item' = [item EXCEPT ![i].left = @ \ {z}, ![i].cache[z] = landed[z],
                                ![i].updated = @ \union {z}]
        /\ UNCHANGED misses
     \/ /\ Miss
        /\ item' = [item EXCEPT ![i].left = @ \ {z}, ![i].partial = TRUE,
                                ![i].cache[z] = IF @ = Unknown THEN 0 ELSE @]
  /\ UNCHANGED <<landed, total, known, sizes, uploads, unmarked, revived>>

\* only what this sweep measured is written
Flush(i) ==
  /\ ItemAt(i, "sweep") /\ item[i].left = {}
  /\ sizes' = [z \in Zones |-> IF z \in item[i].updated THEN item[i].cache[z] ELSE sizes[z]]
  /\ item' = [item EXCEPT ![i].pc = "decide", ![i].updated = {}]
  /\ UNCHANGED <<landed, total, known, uploads, misses, unmarked, revived>>

-----------------------------------------------------------------------------
(* maybe_grow_volume                                                        *)

Needed(i) == Sum(item[i].cache) + item[i].needs
Fits(i)   == 100 * Needed(i) <= 85 * item[i].volume
\* at 80 % full, in steps of ten
NewSize(i) == 10 * ((10 * Needed(i) + 79) \div 80)

ToSend(i, sure) ==
  [item EXCEPT ![i] = [Resting EXCEPT !.pc = "send", !.zone = item[i].zone,
                       !.needs = item[i].needs, !.owed = item[i].owed, !.sure = sure]]

\* never stops the upload: a resize that fails leaves the volume as it is
Decide(i) ==
  /\ ItemAt(i, "decide")
  /\ IF Fits(i) \/ NewSize(i) <= item[i].volume
     THEN item' = ToSend(i, ~ item[i].partial) /\ UNCHANGED <<total, known, misses>>
     ELSE \/ /\ NewSize(i) > total
             /\ total' = NewSize(i) /\ known' = NewSize(i)
             /\ item' = ToSend(i, ~ item[i].partial)
             /\ UNCHANGED misses
          \/ /\ IF NewSize(i) > total THEN Miss ELSE UNCHANGED misses
             /\ item' = ToSend(i, FALSE)
             /\ UNCHANGED <<total, known>>
  /\ UNCHANGED <<landed, sizes, uploads, unmarked, revived>>

Land(i) ==
  /\ ItemAt(i, "send")
  /\ LET z == item[i].zone IN
     /\ landed' = [landed EXCEPT ![z] = @ + item[i].needs]
     /\ unmarked' = [unmarked EXCEPT ![z] = @ + item[i].needs]
  /\ item' = [item EXCEPT ![i].pc = "mark", ![i].sure = FALSE, ![i].owed = Resting.owed]
  /\ UNCHANGED <<total, known, sizes, uploads, misses, revived>>

Measured(z) == \E i \in Items : z \in item[i].updated

\* cmd_touch upload, or the invalidate that ends an installation; a sweep that
\* has measured the zone meanwhile brings its figure back
Mark(i) ==
  /\ ItemAt(i, "mark")
  /\ LET z == item[i].zone IN
     /\ sizes' = [sizes EXCEPT ![z] = Unknown]
     /\ unmarked' = [unmarked EXCEPT ![z] = @ - item[i].needs]
     /\ revived' = IF Measured(z) THEN [revived EXCEPT ![z] = @ + item[i].needs] ELSE revived
  /\ item' = [item EXCEPT ![i] = Resting]
  /\ UNCHANGED <<landed, total, known, uploads, misses>>

GrowthNext ==
  \E i \in Items :
    \/ Plan(i) \/ VolumeSize(i) \/ LoadSizes(i) \/ Flush(i) \/ Decide(i) \/ Land(i) \/ Mark(i)
    \/ \E z \in Zones : GetSize(i, z)

GrowthSpec == GrowthInit /\ [][GrowthNext]_growthVars

-----------------------------------------------------------------------------
GrowthTypeOK ==
  /\ total \in Nat /\ known \in {Unknown} \union 0..total
  /\ \A z \in Zones : /\ sizes[z] \in {Unknown} \union 0..landed[z]
                      /\ unmarked[z] \in 0..landed[z] /\ revived[z] \in 0..landed[z]
  /\ \A i \in Items : item[i].updated \subseteq Zones /\ item[i].volume <= total

\* An item that was told neither "partial" nor "skipped" nor "error" sends
\* only what keeps the volume at 85 %, counted with everything that was marked
\* before it looked; except bytes that were marked while another sweep had
\* measured their zone and not yet written (maybe_grow_volume, _SizeCache).
SureItemsFit ==
  \A i \in Items : ItemAt(i, "send") /\ item[i].sure =>
     100 * (Sum(item[i].owed) + item[i].needs) <= 85 * total

\* The figures in the cache count everything that was marked, with the same
\* exception: no sweep brings back a figure it has not measured.
CacheCountsMarked ==
  \A z \in Zones : sizes[z] # Unknown => sizes[z] >= Marked(z)
=============================================================================
