---------------------------- MODULE RunPodProofs ----------------------------
(***************************************************************************)
(* Proofs about what goes on between Houdini and the things rented from    *)
(* RunPod, side by side as in MCRunPod: Health (every number of pods, every *)
(* deadline, grace and poll interval), Growth (any zones, uploads and      *)
(* sizes), Upload (any files, items and faults) and SyncPod (any callers,  *)
(* any number of pods and faults and of visits of the housekeeping).       *)
(***************************************************************************)
EXTENDS Health, SyncPod, Growth, Upload, FiniteSetTheorems, TLAPS

-----------------------------------------------------------------------------
(* Health                                                                  *)

\* What a sweep knows.  A pod is asked at most once; one that was running and
\* did not answer was counted; and as long as the uplink has not changed since
\* the sweep began, an answer means it is up, and the silence of a pod that
\* works that it is down.
SweepInv ==
  sweeping =>
    /\ left \intersect failures = {}
    /\ \A p \in failures : status[p] = "RUNNING" => p \in asked
    /\ ~ flapped /\ heard # {} => up
    /\ ~ flapped => \A p \in failures : status[p] = "RUNNING" /\ p \in alive => ~ up

HealthInv == HealthTypeOK /\ SweepInv

LEMMA InitHealth == HealthInit => HealthInv
<1> SUFFICES ASSUME HealthInit PROVE HealthInv
  OBVIOUS
<1>1. HealthTypeOK
  <2>1. 0 \in 0..MaxTime /\ 0 \in 0..0
    BY HealthAssumption
  <2>2. now \in 0..MaxTime /\ at \in 0..now
    BY <2>1 DEF HealthInit
  <2> QED BY <2>2 DEF HealthInit, HealthTypeOK, Stamps
<1>2. SweepInv
  BY DEF HealthInit, SweepInv
<1> QED BY <1>1, <1>2 DEF HealthInv

LEMMA NextHealth == HealthInv /\ [HealthNext]_healthVars => HealthInv'
<1> SUFFICES ASSUME HealthInv, [HealthNext]_healthVars PROVE HealthInv'
  OBVIOUS
<1> USE HealthAssumption DEF HealthInv, HealthTypeOK, SweepInv, Stamps, podVars, sweepVars, worldVars
<1>1. CASE StartSweep
  <2>1. left' \subseteq GpuPods /\ at' \in 0..now'
    BY <1>1 DEF StartSweep
  <2>2. HealthTypeOK'
    BY <1>1, <2>1 DEF StartSweep
  <2>3. SweepInv'
    BY <1>1 DEF StartSweep
  <2> QED BY <2>2, <2>3
<1>2. CASE Judge
  <2>1. OutageSince \in Stamps
    BY DEF OutageSince
  <2> QED BY <1>2, <2>1 DEF Judge
<1>3. CASE Uplink
  BY <1>3 DEF Uplink
<1>4. CASE Tick
  BY <1>4 DEF Tick
<1>5. ASSUME NEW p \in GpuPods, AddPod(p) PROVE HealthInv'
  BY <1>5 DEF AddPod
<1>10. ASSUME NEW p \in GpuPods, Leave(p) PROVE HealthInv'
  BY <1>10 DEF Leave
<1>6. ASSUME NEW p \in GpuPods, Ask(p) PROVE HealthInv'
  <2>1. HealthTypeOK'
    BY <1>6 DEF Ask, Promotions
  <2>2. SweepInv'
    BY <1>6 DEF Ask, Promotions
  <2> QED BY <2>1, <2>2
<1>7. ASSUME NEW p \in GpuPods, BootGpu(p) PROVE HealthInv'
  BY <1>7 DEF BootGpu
<1>8. ASSUME NEW p \in GpuPods, Die(p) PROVE HealthInv'
  BY <1>8 DEF Die
<1>9. CASE UNCHANGED healthVars
  BY <1>9 DEF healthVars
<1> QED BY <1>1, <1>2, <1>3, <1>4, <1>5, <1>6, <1>7, <1>8, <1>9, <1>10 DEF HealthNext

\* The inductive invariant of the health polling.
THEOREM HealthInvariant == HealthSpec => []HealthInv
<1> QED BY InitHealth, NextHealth, PTL DEF HealthSpec

\* Types, and the counts of a sweep: who answered was asked.
THEOREM HealthTypeCorrect == HealthSpec => []HealthTypeOK
<1>1. HealthInv => HealthTypeOK
  BY DEF HealthInv
<1> QED BY <1>1, HealthInvariant, PTL

\* Only the end of a sweep loses a pod, and which deadline it used.
LEMMA LossIsJudged ==
  ASSUME HealthInv, [HealthNext]_healthVars, NEW p \in GpuPods, Lost(p)
  PROVE  /\ sweeping /\ p \in failures
         /\ TimedOut(p, DeadSeconds(OutageSince))
<1> USE DEF podVars, sweepVars, worldVars
<1>1. ASSUME NEW q \in GpuPods, AddPod(q) \/ Leave(q) \/ Ask(q) \/ BootGpu(q) \/ Die(q) PROVE FALSE
  BY <1>1 DEF AddPod, Leave, Ask, Promotions, BootGpu, Die, Lost, HealthInv, HealthTypeOK
<1>2. CASE StartSweep \/ Uplink \/ Tick \/ UNCHANGED healthVars
  BY <1>2 DEF StartSweep, Uplink, Tick, healthVars, Lost
<1>3. CASE Judge
  BY <1>3 DEF Judge, Lost
<1> QED BY <1>1, <1>2, <1>3 DEF HealthNext

\* A sweep nobody answered is an outage for every running pod that it asked.
LEMMA SilenceIsOutage ==
  ASSUME HealthInv, sweeping, NEW p \in failures, status[p] = "RUNNING", heard = {}
  PROVE  DeadSeconds(OutageSince) = DeadAfter + Grace
<1>1. asked # {} /\ at # Never
  BY HealthAssumption DEF HealthInv, SweepInv, HealthTypeOK, Never
<1> QED BY <1>1 DEF OutageSince, DeadSeconds

\* Booting pods have their boot time, and running ones the grace of an outage.
THEOREM GraceIsGiven == HealthSpec => GraceWhileNobodyAnswers
<1>1. ASSUME HealthInv, [HealthNext]_healthVars, NEW p \in GpuPods, Lost(p)
      PROVE  IF status[p] = "CREATED" THEN at - createdAt[p] > BootTimeout
             ELSE at - failSince[p] > IF heard = {} THEN DeadAfter + Grace ELSE DeadAfter
  <2>1. sweeping /\ p \in failures /\ TimedOut(p, DeadSeconds(OutageSince))
    BY <1>1, LossIsJudged
  <2>2. CASE status[p] = "CREATED"
    BY <2>1, <2>2 DEF TimedOut
  <2>3. CASE status[p] = "RUNNING"
    <3>1. at - failSince[p] > DeadSeconds(OutageSince)
      BY <2>1, <2>3 DEF TimedOut
    <3>2. DeadSeconds(OutageSince) \in {DeadAfter, DeadAfter + Grace}
      BY DEF DeadSeconds
    <3>3. heard = {} => DeadSeconds(OutageSince) = DeadAfter + Grace
      BY <1>1, <2>1, <2>3, SilenceIsOutage
    <3>4. at \in Int /\ failSince[p] \in Int /\ DeadAfter \in Nat /\ Grace \in Nat
      BY <1>1, HealthAssumption DEF HealthInv, HealthTypeOK, Stamps, Never
    <3> QED BY <2>3, <3>1, <3>2, <3>3, <3>4
  <2> QED BY <2>1, <2>2, <2>3 DEF TimedOut
<1>2. HealthInv /\ [HealthNext]_healthVars =>
        [\A p \in GpuPods : Lost(p) =>
           IF status[p] = "CREATED" THEN at - createdAt[p] > BootTimeout
           ELSE at - failSince[p] > IF heard = {} THEN DeadAfter + Grace ELSE DeadAfter]_healthVars
  BY <1>1
<1> QED BY <1>2, HealthInvariant, PTL DEF HealthSpec, GraceWhileNobodyAnswers

\* An outage that a sweep sees whole costs no machine that works.
THEOREM WholeOutageIsFree == HealthSpec => SeenOutageCostsNothing
<1>1. ASSUME HealthInv, [HealthNext]_healthVars, NEW p \in GpuPods, Lost(p), status[p] = "RUNNING",
             p \in alive, ~ flapped
      PROVE  at - failSince[p] > DeadAfter + Grace
  <2>1. sweeping /\ p \in failures /\ TimedOut(p, DeadSeconds(OutageSince))
    BY <1>1, LossIsJudged
  <2>2. heard = {}
    BY <1>1, <2>1 DEF HealthInv, SweepInv
  <2>3. DeadSeconds(OutageSince) = DeadAfter + Grace
    BY <1>1, <2>1, <2>2, SilenceIsOutage
  <2> QED BY <1>1, <2>1, <2>3 DEF TimedOut
<1>2. HealthInv /\ [HealthNext]_healthVars =>
        [\A p \in GpuPods : Lost(p) /\ status[p] = "RUNNING" /\ p \in alive =>
           flapped \/ at - failSince[p] > DeadAfter + Grace]_healthVars
  BY <1>1
<1> QED BY <1>2, HealthInvariant, PTL DEF HealthSpec, SeenOutageCostsNothing

\* A pod that did not answer has a time of its first failure, in this sweep and
\* until the next one.
OverstayInv ==
  /\ \A p \in failures : failSince[p] # Never
  /\ NobodyOverstays

LEMMA NextOverstay == HealthInv /\ OverstayInv /\ [HealthNext]_healthVars => OverstayInv'
<1> SUFFICES ASSUME HealthInv, OverstayInv, [HealthNext]_healthVars PROVE OverstayInv'
  OBVIOUS
<1> USE HealthAssumption DEF HealthInv, HealthTypeOK, OverstayInv, NobodyOverstays, podVars, sweepVars, worldVars
<1>1. CASE StartSweep
  BY <1>1 DEF StartSweep
<1>2. CASE Judge
  <2>1. \A p \in failures' : failSince'[p] # Never
    BY <1>2 DEF Judge
  <2>2. ASSUME NEW p \in failures', status'[p] = "RUNNING"
        PROVE  (at - failSince[p] =< DeadAfter + Grace)'
    <3>1. p \in GpuPods /\ failSince[p] # Never /\ failSince' = failSince /\ at' = at
      BY <1>2, <2>2 DEF Judge
    <3>2. status[p] = "RUNNING" /\ ~ TimedOut(p, DeadSeconds(since'))
      BY <1>2, <2>2 DEF Judge
    <3>3. ~ (at - failSince[p] > DeadSeconds(since'))
      BY <3>1, <3>2 DEF TimedOut
    <3>4. DeadSeconds(since') \in {DeadAfter, DeadAfter + Grace}
      BY DEF DeadSeconds
    <3>5. at \in Int /\ failSince[p] \in Int /\ DeadAfter \in Nat /\ Grace \in Nat
      BY <3>1 DEF Stamps, Never
    <3> QED BY <3>1, <3>3, <3>4, <3>5
  <2> QED BY <2>1, <2>2
<1>3. CASE Uplink \/ Tick \/ UNCHANGED healthVars
  BY <1>3 DEF Uplink, Tick, healthVars
<1>4. ASSUME NEW p \in GpuPods, AddPod(p) \/ Leave(p) \/ BootGpu(p) \/ Die(p) PROVE OverstayInv'
  BY <1>4 DEF AddPod, Leave, BootGpu, Die
<1>5. ASSUME NEW p \in GpuPods, Ask(p) PROVE OverstayInv'
  <2>1. sweeping' /\ at # Never
    BY <1>5 DEF Ask, Never
  <2>2. \A q \in failures' : failSince'[q] # Never
    BY <1>5, <2>1 DEF Ask, SweepInv
  <2> QED BY <2>1, <2>2
<1> QED BY <1>1, <1>2, <1>3, <1>4, <1>5 DEF HealthNext

\* However outages come and go, no sweep leaves in the pool a running pod that
\* has been silent for longer than the deadline and the grace.
THEOREM GraceEnds == HealthSpec => []NobodyOverstays
<1>1. HealthInit => OverstayInv
  BY DEF HealthInit, OverstayInv, NobodyOverstays
<1>2. OverstayInv => NobodyOverstays
  BY DEF OverstayInv
<1> QED BY <1>1, <1>2, NextOverstay, HealthInvariant, PTL DEF HealthSpec

-----------------------------------------------------------------------------
(* Growth: the size of the volume                                          *)

\* The places of an upload in the guard on the size of the volume.
GrowthLabels == {"rest", "volume", "load", "sweep", "decide", "send", "mark"}

GrowthItem ==
  [pc : GrowthLabels, zone : Zones, needs : Nat, volume : Int, cache : [Zones -> Int],
   updated : SUBSET Zones, left : SUBSET Zones, partial : BOOLEAN, owed : [Zones -> Int],
   sure : BOOLEAN]

GrowthShape ==
  /\ landed \in [Zones -> Nat] /\ total \in Nat /\ known \in Int /\ -1 <= known
  /\ sizes \in [Zones -> Int] /\ item \in [Items -> GrowthItem]
  /\ uploads \in Nat /\ misses \in Nat
  /\ unmarked \in [Zones -> Int] /\ revived \in [Zones -> Nat]

\* the bytes that landed and are not marked, one by one
Bytes(z) ==
  {b \in Items \X Nat : /\ ItemAt(b[1], "mark") /\ item[b[1]].zone = z
                         /\ 1 <= b[2] /\ b[2] <= item[b[1]].needs}

\* ... are what unmarked counts.
UnmarkedCounted ==
  \A z \in Zones : IsFiniteSet(Bytes(z)) /\ unmarked[z] = Cardinality(Bytes(z))

\* What RunPod last said is no more than the volume has, and a cached size lies
\* between what was marked and what landed.
GrowthBounds ==
  /\ known <= total
  /\ \A z \in Zones : /\ sizes[z] # Unknown => Marked(z) <= sizes[z] /\ 0 <= sizes[z] /\ sizes[z] <= landed[z]
                      /\ unmarked[z] + revived[z] <= landed[z]

\* What an upload knows while it sums up the zones: of each zone it has looked at,
\* its copy of the cache counts what was marked when the question was asked, or it
\* knows that the sum is partial.  One that sends is sure only if it fits.
ItemBounds(i) ==
  /\ item[i].volume <= total
  /\ item[i].pc # "sweep" => item[i].updated = {}
  /\ item[i].pc \in {"sweep", "decide"} => 
       \A z \in Zones :
         /\ item[i].owed[z] <= Marked(z)
         /\ item[i].cache[z] # Unknown => 
              /\ 0 <= item[i].cache[z] /\ item[i].cache[z] <= landed[z]
              /\ item[i].partial \/ item[i].owed[z] <= item[i].cache[z]
         /\ item[i].cache[z] = Unknown => item[i].pc = "sweep" /\ z \in item[i].left
         /\ z \in item[i].updated => item[i].cache[z] # Unknown /\ Marked(z) <= item[i].cache[z]
  /\ item[i].sure => /\ item[i].pc = "send"
                     /\ 100 * (Sum(item[i].owed) + item[i].needs) <= 85 * total

GrowthInv ==
  /\ GrowthShape /\ UnmarkedCounted /\ GrowthBounds
  /\ \A i \in Items : ItemBounds(i)

\* The bytes of one upload, as a set.
LEMMA BytesOfOne ==
  ASSUME NEW i, NEW n \in Nat
  PROVE  IsFiniteSet({i} \X (1..n)) /\ Cardinality({i} \X (1..n)) = n
<1>1. IsFiniteSet(1..n) /\ Cardinality(1..n) = n
  BY FS_Interval
<1>2. IsFiniteSet({i}) /\ Cardinality({i}) = 1
  BY FS_Singleton
<1> QED
  BY <1>1, <1>2, FS_Product

LEMMA GrowthInit1 == GrowthInit => GrowthInv
<1> SUFFICES ASSUME GrowthInit PROVE GrowthInv
  OBVIOUS
<1> USE DEF GrowthInit, ItemAt, Zones, Unknown, NoSizes, Resting, GrowthLabels
<1>1. GrowthShape
  BY GrowthAssumption DEF GrowthShape, GrowthItem
<1>2. UnmarkedCounted
  <2>1. \A z \in Zones : Bytes(z) = {}
    BY DEF Bytes
  <2> QED
    BY <2>1, FS_EmptySet DEF UnmarkedCounted
<1>3. GrowthBounds
  BY GrowthAssumption DEF GrowthBounds, Marked
<1>4. \A i \in Items : ItemBounds(i)
  BY GrowthAssumption DEF ItemBounds
<1> QED
  BY <1>1, <1>2, <1>3, <1>4 DEF GrowthInv

\* Less is unmarked than landed.
LEMMA UnmarkedNat ==
  ASSUME GrowthShape, UnmarkedCounted
  PROVE  \A z \in Zones : unmarked[z] \in Nat /\ Marked(z) \in Int /\ Marked(z) <= landed[z]
<1>1. \A z \in Zones : unmarked[z] \in Nat
  BY FS_CardinalityType DEF UnmarkedCounted
<1> QED
  BY <1>1 DEF Marked, GrowthShape

\* a step that leaves what is at "mark" alone
LEMMA BytesKept ==
  ASSUME UnmarkedCounted, unmarked' = unmarked,
         \A j \in Items : \/ item'[j] = item[j]
                          \/ ~ ItemAt(j, "mark") /\ ~ ItemAt(j, "mark")'
  PROVE  UnmarkedCounted'
<1>1. \A z \in Zones : Bytes(z)' = Bytes(z)
  BY DEF Bytes, ItemAt
<1> QED
  BY <1>1 DEF UnmarkedCounted

LEMMA RestingTyped == Resting \in GrowthItem
<1>1. NoSizes \in [Zones -> Int] /\ [z \in Zones |-> 0] \in [Zones -> Int] /\ "projects" \in Zones
  BY DEF NoSizes, Zones, Unknown
<1> QED
  BY <1>1 DEF Resting, GrowthItem, GrowthLabels, Unknown

\* A step of an upload that lands and marks nothing.
LEMMA QuietStep ==
  ASSUME GrowthInv, NEW i \in Items, NEW r \in GrowthItem,
         item' = [item EXCEPT ![i] = r], item[i].pc # "mark", r.pc # "mark",
         UNCHANGED <<landed, unmarked, revived>>,
         total' \in Nat, total <= total', known' \in Int, -1 <= known', known' <= total',
         uploads' \in Nat, misses' \in Nat, sizes' \in [Zones -> Int],
         \A z \in Zones : sizes'[z] # Unknown =>
            Marked(z) <= sizes'[z] /\ 0 <= sizes'[z] /\ sizes'[z] <= landed[z],
         ItemBounds(i)'
  PROVE  GrowthInv'
<1>1. GrowthShape'
  BY DEF GrowthInv, GrowthShape
<1>2. UnmarkedCounted'
  BY BytesKept DEF GrowthInv, GrowthShape, ItemAt
<1>3. GrowthBounds'
  BY DEF GrowthInv, GrowthBounds, Marked
<1>4. ASSUME NEW j \in Items, j # i PROVE ItemBounds(j)'
  <2>1. item'[j] = item[j] /\ ItemBounds(j) /\ item[j] \in GrowthItem /\ total \in Nat
    BY <1>4 DEF GrowthInv, GrowthShape
  <2>2. \A z \in Zones : Marked(z)' = Marked(z)
    BY DEF Marked
  <2>3. item[j].volume <= total'
    BY <2>1 DEF ItemBounds, GrowthItem
  <2>4. item[j].sure => 100 * (Sum(item[j].owed) + item[j].needs) <= 85 * total'
    <3>1. Sum(item[j].owed) + item[j].needs \in Int
      BY <2>1 DEF GrowthItem, Sum, Zones
    <3> QED
      BY <2>1, <3>1 DEF ItemBounds
  <2> QED
    BY <2>1, <2>2, <2>3, <2>4 DEF ItemBounds, Sum
<1> QED
  BY <1>1, <1>2, <1>3, <1>4 DEF GrowthInv

\* what the steps of an item may use
LEMMA GrowthFacts ==
  ASSUME GrowthInv, NEW i \in Items
  PROVE  /\ item[i] \in GrowthItem /\ ItemBounds(i) /\ item \in [Items -> GrowthItem]
         /\ total \in Nat /\ known \in Int /\ -1 <= known /\ known <= total /\ uploads \in Nat /\ misses \in Nat
         /\ landed \in [Zones -> Nat] /\ sizes \in [Zones -> Int] /\ revived \in [Zones -> Nat]
         /\ unmarked \in [Zones -> Int]
         /\ \A z \in Zones : /\ unmarked[z] \in Nat /\ Marked(z) \in Int /\ Marked(z) <= landed[z]
                             /\ sizes[z] # Unknown =>
                                  Marked(z) <= sizes[z] /\ 0 <= sizes[z] /\ sizes[z] <= landed[z]
  BY UnmarkedNat DEF GrowthInv, GrowthShape, GrowthBounds

LEMMA GrowthPlan ==
  ASSUME GrowthInv, NEW i \in Items, Plan(i)
  PROVE  GrowthInv'
<1>0. PICK z \in Zones : \E n \in ItemSizes[z] :
       item' = [item EXCEPT ![i] = [Resting EXCEPT !.pc = "volume", !.zone = z, !.needs = n]]
  BY DEF Plan
<1>n. PICK n \in ItemSizes[z] :
       item' = [item EXCEPT ![i] = [Resting EXCEPT !.pc = "volume", !.zone = z, !.needs = n]]
  BY <1>0
<1> DEFINE r == [Resting EXCEPT !.pc = "volume", !.zone = z, !.needs = n]
<1>a. n \in Nat
  BY GrowthAssumption
<1>b. r \in GrowthItem
  BY <1>a, RestingTyped DEF GrowthItem, GrowthLabels
<1>c. r.pc = "volume" /\ r.updated = {} /\ r.volume = Unknown /\ r.sure = FALSE
  BY RestingTyped DEF GrowthItem, Resting
<1>d. /\ item[i].pc = "rest" /\ uploads' = uploads + 1
      /\ UNCHANGED <<landed, total, known, sizes, misses, unmarked, revived>>
  BY DEF Plan, ItemAt
<1>e. item' = [item EXCEPT ![i] = r]
  BY <1>n
<1> HIDE DEF r
<1>f. ItemBounds(i)'
  BY <1>c, <1>d, <1>e, GrowthFacts DEF ItemBounds, Unknown
<1>g. /\ total' \in Nat /\ total <= total' /\ known' \in Int /\ -1 <= known' /\ known' <= total'
      /\ uploads' \in Nat /\ misses' \in Nat /\ sizes' \in [Zones -> Int]
      /\ \A x \in Zones : sizes'[x] # Unknown =>
            Marked(x) <= sizes'[x] /\ 0 <= sizes'[x] /\ sizes'[x] <= landed[x]
      /\ UNCHANGED <<landed, unmarked, revived>>
      /\ item' = [item EXCEPT ![i] = r] /\ item[i].pc # "mark" /\ r.pc # "mark"
  BY <1>c, <1>d, <1>e, GrowthFacts
<1> QED
  BY <1>b, <1>f, <1>g, QuietStep

LEMMA GrowthVolumeSize ==
  ASSUME GrowthInv, NEW i \in Items, VolumeSize(i)
  PROVE  GrowthInv'
<1>0. /\ item[i] \in GrowthItem /\ item \in [Items -> GrowthItem] /\ total \in Nat /\ known \in Int /\ -1 <= known
      /\ known <= total /\ misses \in Nat /\ item[i].volume <= total /\ item[i].pc = "volume"
      /\ ~ item[i].sure /\ item[i].updated = {}
  BY GrowthFacts DEF ItemBounds, VolumeSize, ItemAt, GrowthItem
<1>a. \E place \in {"load", "send"}, v \in Int :
        /\ v <= total
        /\ item' = [item EXCEPT ![i] = [item[i] EXCEPT !.pc = place, !.volume = v]]
        /\ known' \in Int /\ -1 <= known' /\ known' <= total /\ misses' \in Nat
  <2>1. CASE known # Unknown /\ item' = [item EXCEPT ![i].pc = "load", ![i].volume = known]
             /\ UNCHANGED <<known, misses>>
    <3>1. item' = [item EXCEPT ![i] = [item[i] EXCEPT !.pc = "load", !.volume = known]]
      BY <1>0, <2>1
    <3> QED
      BY <1>0, <2>1, <3>1
  <2>2. CASE known' = total /\ item' = [item EXCEPT ![i].pc = "load", ![i].volume = total]
             /\ UNCHANGED misses
    <3>1. item' = [item EXCEPT ![i] = [item[i] EXCEPT !.pc = "load", !.volume = total]]
      BY <1>0, <2>2
    <3>2. total \in Int /\ total <= total /\ known' \in Int /\ -1 <= known' /\ known' <= total /\ misses' \in Nat
      BY <1>0, <2>2
    <3> HIDE <2>2
    <3> QED
      BY <3>1, <3>2
  <2>3. CASE known = Unknown /\ Miss /\ item' = [item EXCEPT ![i].pc = "send"] /\ UNCHANGED known
    <3>1. item' = [item EXCEPT ![i] = [item[i] EXCEPT !.pc = "send", !.volume = item[i].volume]]
      BY <1>0, <2>3 DEF GrowthItem
    <3>2. item[i].volume \in Int
      BY <1>0 DEF GrowthItem
    <3>3. misses' \in Nat
      BY <1>0, <2>3 DEF Miss
    <3> QED
      BY <1>0, <2>3, <3>1, <3>2, <3>3
  <2> QED
    BY <2>1, <2>2, <2>3 DEF VolumeSize
<1>p. PICK place \in {"load", "send"}, v \in Int :
        /\ v <= total
        /\ item' = [item EXCEPT ![i] = [item[i] EXCEPT !.pc = place, !.volume = v]]
        /\ known' \in Int /\ -1 <= known' /\ known' <= total /\ misses' \in Nat
  BY <1>a
<1> DEFINE r == [item[i] EXCEPT !.pc = place, !.volume = v]
<1>b. r \in GrowthItem
  BY <1>0 DEF GrowthItem, GrowthLabels
<1>c. r.pc = place /\ r.updated = {} /\ r.volume = v /\ r.sure = FALSE
  BY <1>0 DEF GrowthItem
<1>d. UNCHANGED <<landed, total, sizes, uploads, unmarked, revived>>
  BY DEF VolumeSize
<1>e. item' = [item EXCEPT ![i] = r]
  BY <1>p
<1> HIDE DEF r
<1>f. ItemBounds(i)'
  BY <1>0, <1>p, <1>c, <1>d, <1>e DEF ItemBounds
<1>g. /\ total' \in Nat /\ total <= total' /\ known' \in Int /\ -1 <= known' /\ known' <= total'
      /\ uploads' \in Nat /\ misses' \in Nat /\ sizes' \in [Zones -> Int]
      /\ \A x \in Zones : sizes'[x] # Unknown =>
            Marked(x) <= sizes'[x] /\ 0 <= sizes'[x] /\ sizes'[x] <= landed[x]
      /\ UNCHANGED <<landed, unmarked, revived>>
      /\ item' = [item EXCEPT ![i] = r] /\ item[i].pc # "mark" /\ r.pc # "mark"
  <2>1. total' \in Nat /\ total <= total' /\ known' \in Int /\ -1 <= known' /\ known' <= total' /\ misses' \in Nat
        /\ r.pc # "mark"
    BY <1>0, <1>p, <1>c, <1>d
  <2>2. item' = [item EXCEPT ![i] = r] /\ item[i].pc # "mark"
    BY <1>0, <1>e
  <2> QED
    BY <1>d, <2>1, <2>2, GrowthFacts
<1> QED
  BY <1>b, <1>f, <1>g, QuietStep

LEMMA GrowthLoadSizes ==
  ASSUME GrowthInv, NEW i \in Items, LoadSizes(i)
  PROVE  GrowthInv'
<1> DEFINE m == [z \in Zones |-> Marked(z)]
           r == [item[i] EXCEPT !.pc = "sweep", !.cache = sizes, !.left = Zones, !.owed = m]
<1>0. /\ item[i].pc = "load" /\ item' = [item EXCEPT ![i] = r]
      /\ UNCHANGED <<landed, total, known, sizes, uploads, misses, unmarked, revived>>
  BY DEF LoadSizes, ItemAt
<1>a. m \in [Zones -> Int]
  BY GrowthFacts
<1>b. r \in GrowthItem
  BY <1>a, GrowthFacts DEF GrowthItem, GrowthLabels
<1>c. /\ r.pc = "sweep" /\ r.updated = {} /\ r.volume = item[i].volume /\ r.sure = FALSE
      /\ r.cache = sizes /\ r.left = Zones /\ r.owed = m
  BY <1>0, GrowthFacts DEF GrowthItem, ItemBounds
<1>m. \A z \in Zones : m[z] = Marked(z) /\ Marked(z)' = Marked(z)
  BY <1>0 DEF Marked
<1> HIDE DEF r, m
<1>f. ItemBounds(i)'
  BY <1>0, <1>c, <1>m, GrowthFacts DEF ItemBounds
<1>g. /\ total' \in Nat /\ total <= total' /\ known' \in Int /\ -1 <= known' /\ known' <= total'
      /\ uploads' \in Nat /\ misses' \in Nat /\ sizes' \in [Zones -> Int]
      /\ \A x \in Zones : sizes'[x] # Unknown =>
            Marked(x) <= sizes'[x] /\ 0 <= sizes'[x] /\ sizes'[x] <= landed[x]
      /\ UNCHANGED <<landed, unmarked, revived>>
      /\ item' = [item EXCEPT ![i] = r] /\ item[i].pc # "mark" /\ r.pc # "mark"
  BY <1>0, <1>c, GrowthFacts
<1> QED
  BY <1>b, <1>f, <1>g, QuietStep

LEMMA GrowthGetSize ==
  ASSUME GrowthInv, NEW i \in Items, NEW z \in Zones, GetSize(i, z)
  PROVE  GrowthInv'
<1> DEFINE next(c, u, p) == [item[i] EXCEPT !.left = @ \ {z}, !.cache = [@ EXCEPT ![z] = c], !.updated = u, !.partial = p]
<1>0. /\ item[i].pc = "sweep" /\ z \in item[i].left
      /\ UNCHANGED <<landed, total, known, sizes, uploads, unmarked, revived>>
  BY DEF GetSize, ItemAt
<1>t. /\ item[i] \in GrowthItem /\ item \in [Items -> GrowthItem] /\ misses \in Nat /\ landed \in [Zones -> Nat]
      /\ item[i].cache \in [Zones -> Int] /\ item[i].updated \in SUBSET Zones /\ item[i].partial \in BOOLEAN
      /\ item[i].left \in SUBSET Zones
  BY GrowthFacts DEF GrowthItem
<1>b. \E c \in Int, u \in SUBSET Zones, p \in BOOLEAN :
        /\ item' = [item EXCEPT ![i] = next(c, u, p)]
        /\ \/ c = item[i].cache[z] /\ c # Unknown /\ u = item[i].updated /\ p = item[i].partial
           \/ c = landed[z] /\ u = item[i].updated \union {z} /\ p = item[i].partial
           \/ c = (IF item[i].cache[z] = Unknown THEN 0 ELSE item[i].cache[z])
              /\ u = item[i].updated /\ p = TRUE
        /\ misses' \in Nat
  <2>1. CASE /\ item[i].cache[z] # Unknown
             /\ item' = [item EXCEPT ![i].left = @ \ {z}]
             /\ UNCHANGED misses
    <3>1. next(item[i].cache[z], item[i].updated, item[i].partial) = [item[i] EXCEPT !.left = @ \ {z}]
      BY <1>t DEF GrowthItem
    <3>2. item' = [item EXCEPT ![i] = next(item[i].cache[z], item[i].updated, item[i].partial)]
      BY <1>t, <2>1, <3>1
    <3>3. item[i].cache[z] \in Int
      BY <1>t
    <3> HIDE DEF next
    <3> QED
      BY <1>t, <2>1, <3>2, <3>3
  <2>2. CASE /\ item' = [item EXCEPT ![i].left = @ \ {z}, ![i].cache[z] = landed[z],
                                     ![i].updated = @ \union {z}]
             /\ UNCHANGED misses
    <3>1. next(landed[z], item[i].updated \union {z}, item[i].partial)
            = [item[i] EXCEPT !.left = @ \ {z}, !.cache[z] = landed[z], !.updated = @ \union {z}]
      BY <1>t DEF GrowthItem
    <3>2. item' = [item EXCEPT ![i] = next(landed[z], item[i].updated \union {z}, item[i].partial)]
      BY <1>t, <2>2, <3>1
    <3>3. landed[z] \in Int /\ item[i].updated \union {z} \in SUBSET Zones
      BY <1>t
    <3> HIDE DEF next
    <3> QED
      BY <1>t, <2>2, <3>2, <3>3
  <2>3. CASE /\ Miss
             /\ item' = [item EXCEPT ![i].left = @ \ {z}, ![i].partial = TRUE,
                                     ![i].cache[z] = IF @ = Unknown THEN 0 ELSE @]
    <3> DEFINE c == IF item[i].cache[z] = Unknown THEN 0 ELSE item[i].cache[z]
    <3>1. next(c, item[i].updated, TRUE)
            = [item[i] EXCEPT !.left = @ \ {z}, !.partial = TRUE, !.cache[z] = IF @ = Unknown THEN 0 ELSE @]
      BY <1>t DEF GrowthItem
    <3>2. item' = [item EXCEPT ![i] = next(c, item[i].updated, TRUE)]
      BY <1>t, <2>3, <3>1
    <3>3. c \in Int
      BY <1>t
    <3>4. misses' \in Nat
      BY <1>t, <2>3 DEF Miss
    <3> HIDE DEF next
    <3> QED
      BY <1>t, <3>2, <3>3, <3>4
  <2> QED
    BY <2>1, <2>2, <2>3 DEF GetSize
<1>p. PICK c \in Int, u \in SUBSET Zones, p \in BOOLEAN :
        /\ item' = [item EXCEPT ![i] = next(c, u, p)]
        /\ \/ c = item[i].cache[z] /\ c # Unknown /\ u = item[i].updated /\ p = item[i].partial
           \/ c = landed[z] /\ u = item[i].updated \union {z} /\ p = item[i].partial
           \/ c = (IF item[i].cache[z] = Unknown THEN 0 ELSE item[i].cache[z])
              /\ u = item[i].updated /\ p = TRUE
        /\ misses' \in Nat
  BY <1>b
<1> DEFINE r == next(c, u, p)
<1>1. r \in GrowthItem
  <2>1. [item[i].cache EXCEPT ![z] = c] \in [Zones -> Int] /\ item[i].left \ {z} \in SUBSET Zones
    BY <1>t
  <2> QED
    BY <1>t, <2>1 DEF GrowthItem
<1>c. /\ r.pc = "sweep" /\ r.volume = item[i].volume /\ r.owed = item[i].owed
      /\ r.sure = item[i].sure /\ r.needs = item[i].needs
      /\ r.updated = u /\ r.partial = p /\ r.left = item[i].left \ {z}
      /\ r.cache = [item[i].cache EXCEPT ![z] = c]
  BY <1>0, <1>t DEF GrowthItem
<1>e. item' = [item EXCEPT ![i] = r]
  BY <1>p
<1> HIDE DEF r, next
<1>m. \A y \in Zones : Marked(y)' = Marked(y)
  BY <1>0 DEF Marked
<1>4. ASSUME NEW y \in Zones
      PROVE  /\ r.owed[y] <= Marked(y)
             /\ r.cache[y] # Unknown =>
                  /\ 0 <= r.cache[y] /\ r.cache[y] <= landed[y]
                  /\ r.partial \/ r.owed[y] <= r.cache[y]
             /\ r.cache[y] = Unknown => y \in r.left
             /\ y \in r.updated => r.cache[y] # Unknown /\ Marked(y) <= r.cache[y]
  <2>0. /\ item[i].owed[y] <= Marked(y) /\ item[i].owed[y] \in Int
        /\ item[i].cache[y] # Unknown =>
                  /\ 0 <= item[i].cache[y] /\ item[i].cache[y] <= landed[y]
                  /\ item[i].partial \/ item[i].owed[y] <= item[i].cache[y]
        /\ item[i].cache[y] = Unknown => y \in item[i].left
        /\ y \in item[i].updated => item[i].cache[y] # Unknown /\ Marked(y) <= item[i].cache[y]
        /\ landed[y] \in Nat /\ Marked(y) \in Int /\ Marked(y) <= landed[y]
    BY <1>0, GrowthFacts DEF ItemBounds, GrowthItem
  <2>1. CASE y # z
    <3>1. r.cache[y] = item[i].cache[y]
      BY <1>c, <1>t, <2>1
    <3>2. (y \in r.updated => y \in item[i].updated) /\ (item[i].partial => r.partial)
      BY <1>p, <1>c, <2>1
    <3> QED
      BY <1>c, <2>0, <2>1, <3>1, <3>2
  <2>2. CASE y = z
    <3>1. r.cache[y] = c
      BY <1>c, <1>t, <2>2
    <3> QED
      BY <1>p, <1>c, <2>0, <2>2, <3>1 DEF Unknown
  <2> QED
    BY <2>1, <2>2
<1>f. ItemBounds(i)'
  <2>1. item'[i] = r
    BY <1>t, <1>e
  <2>2. item[i].volume <= total /\ item[i].sure = FALSE
    BY <1>0, GrowthFacts DEF ItemBounds, GrowthItem
  <2> QED
    BY <1>0, <1>c, <1>m, <1>4, <2>1, <2>2 DEF ItemBounds
<1>g. /\ total' \in Nat /\ total <= total' /\ known' \in Int /\ -1 <= known' /\ known' <= total'
      /\ uploads' \in Nat /\ misses' \in Nat /\ sizes' \in [Zones -> Int]
      /\ \A x \in Zones : sizes'[x] # Unknown =>
            Marked(x) <= sizes'[x] /\ 0 <= sizes'[x] /\ sizes'[x] <= landed[x]
      /\ UNCHANGED <<landed, unmarked, revived>>
      /\ item' = [item EXCEPT ![i] = r] /\ item[i].pc # "mark" /\ r.pc # "mark"
  BY <1>0, <1>t, <1>p, <1>c, <1>e, GrowthFacts
<1> QED
  BY <1>1, <1>f, <1>g, QuietStep

LEMMA GrowthFlush ==
  ASSUME GrowthInv, NEW i \in Items, Flush(i)
  PROVE  GrowthInv'
<1> DEFINE r == [item[i] EXCEPT !.pc = "decide", !.updated = {}]
<1>0. /\ item[i].pc = "sweep" /\ item[i].left = {} /\ item' = [item EXCEPT ![i] = r]
      /\ sizes' = [z \in Zones |-> IF z \in item[i].updated THEN item[i].cache[z] ELSE sizes[z]]
      /\ UNCHANGED <<landed, total, known, uploads, misses, unmarked, revived>>
  BY DEF Flush, ItemAt
<1>b. r \in GrowthItem
  BY GrowthFacts DEF GrowthItem, GrowthLabels
<1>c. /\ r.pc = "decide" /\ r.updated = {} /\ r.volume = item[i].volume /\ r.sure = item[i].sure
      /\ r.owed = item[i].owed /\ r.needs = item[i].needs /\ r.cache = item[i].cache
      /\ r.left = {} /\ r.partial = item[i].partial
  BY <1>0, GrowthFacts DEF GrowthItem
<1> HIDE DEF r
<1>m. \A y \in Zones : Marked(y)' = Marked(y)
  BY <1>0 DEF Marked
<1>s. /\ sizes' \in [Zones -> Int]
      /\ \A z \in Zones : sizes'[z] # Unknown =>
            Marked(z) <= sizes'[z] /\ 0 <= sizes'[z] /\ sizes'[z] <= landed[z]
  BY <1>0, GrowthFacts DEF ItemBounds, GrowthItem
<1>f. ItemBounds(i)'
  <2>1. item'[i] = r
    BY <1>0, GrowthFacts
  <2> QED
    BY <1>0, <1>c, <1>m, <2>1, GrowthFacts DEF ItemBounds
<1>g. /\ total' \in Nat /\ total <= total' /\ known' \in Int /\ -1 <= known' /\ known' <= total'
      /\ uploads' \in Nat /\ misses' \in Nat /\ sizes' \in [Zones -> Int]
      /\ \A x \in Zones : sizes'[x] # Unknown =>
            Marked(x) <= sizes'[x] /\ 0 <= sizes'[x] /\ sizes'[x] <= landed[x]
      /\ UNCHANGED <<landed, unmarked, revived>>
      /\ item' = [item EXCEPT ![i] = r] /\ item[i].pc # "mark" /\ r.pc # "mark"
  BY <1>0, <1>c, <1>s, GrowthFacts
<1> QED
  BY <1>b, <1>f, <1>g, QuietStep

\* The size asked of RunPod, rounded up to tens, is enough.
LEMMA NewSizeHolds ==
  ASSUME NEW n \in Int
  PROVE  /\ 10 * ((10 * n + 79) \div 80) \in Int
         /\ 100 * n <= 80 * (10 * ((10 * n + 79) \div 80))
<1> DEFINE q == (10 * n + 79) \div 80
<1>1. q \in Int /\ 80 * q <= 10 * n + 79 /\ 10 * n + 79 < 80 * q + 80
  OBVIOUS
<1>2. \A k \in Int : k = q => 10 * n < 80 * k + 1 /\ 10 * k \in Int
  BY <1>1
<1>3. 10 * n <= 80 * q
  BY <1>1, <1>2
<1> QED
  BY <1>1, <1>3

LEMMA GrowthDecide ==
  ASSUME GrowthInv, NEW i \in Items, Decide(i)
  PROVE  GrowthInv'
<1> DEFINE next(s) == [Resting EXCEPT !.pc = "send", !.zone = item[i].zone,
                                !.needs = item[i].needs, !.owed = item[i].owed, !.sure = s]
<1>a. /\ item[i] \in GrowthItem /\ item[i].pc = "decide" /\ ItemBounds(i) /\ total \in Nat /\ known \in Int /\ -1 <= known
      /\ item[i].volume <= total /\ item[i].volume \in Int /\ known <= total /\ misses \in Nat
      /\ item[i].cache \in [Zones -> Int] /\ item[i].owed \in [Zones -> Int] /\ item[i].needs \in Nat
      /\ item[i].partial \in BOOLEAN /\ item \in [Items -> GrowthItem]
  BY GrowthFacts DEF GrowthItem, Decide, ItemBounds, ItemAt
<1>n. Sum(item[i].owed) + item[i].needs \in Int
  BY <1>a DEF Sum, Zones
<1>b. Needed(i) \in Int /\ (item[i].partial \/ Sum(item[i].owed) + item[i].needs <= Needed(i))
  <2>1. \A z \in Zones : item[i].partial \/ item[i].owed[z] <= item[i].cache[z]
    BY <1>a DEF ItemBounds
  <2> QED
    BY <1>a, <2>1 DEF Needed, Sum, Zones
<1>c. NewSize(i) \in Int /\ 100 * Needed(i) <= 80 * NewSize(i)
  BY <1>b, NewSizeHolds DEF NewSize
<1>d. \E s \in BOOLEAN :
        /\ item' = [item EXCEPT ![i] = next(s)]
        /\ s => ~ item[i].partial /\ 100 * Needed(i) <= 85 * total'
        /\ total' \in Nat /\ total <= total' /\ known' \in Int /\ -1 <= known' /\ known' <= total' /\ misses' \in Nat
  <2>1. CASE /\ Fits(i) \/ NewSize(i) <= item[i].volume
             /\ item' = ToSend(i, ~ item[i].partial) /\ UNCHANGED <<total, known, misses>>
    <3>1. 100 * Needed(i) <= 85 * total
      <4>1. CASE Fits(i)
        BY <1>a, <1>b, <4>1 DEF Fits
      <4>2. CASE NewSize(i) <= item[i].volume
        BY <1>a, <1>b, <1>c, <4>2
      <4> QED
        BY <2>1, <4>1, <4>2
    <3>2. item' = [item EXCEPT ![i] = next(~ item[i].partial)]
      BY <2>1 DEF ToSend
    <3>3. total' \in Nat /\ total <= total' /\ known' \in Int /\ -1 <= known' /\ known' <= total' /\ misses' \in Nat
          /\ 100 * Needed(i) <= 85 * total'
      BY <1>a, <2>1, <3>1
    <3> HIDE DEF next
    <3> WITNESS (~ item[i].partial) \in BOOLEAN
    <3> QED
      BY <3>2, <3>3
  <2>2. CASE /\ NewSize(i) > total
             /\ total' = NewSize(i) /\ known' = NewSize(i)
             /\ item' = ToSend(i, ~ item[i].partial)
             /\ UNCHANGED misses
    <3>2. item' = [item EXCEPT ![i] = next(~ item[i].partial)]
      BY <2>2 DEF ToSend
    <3>3. total' \in Nat /\ total <= total' /\ known' \in Int /\ -1 <= known' /\ known' <= total' /\ misses' \in Nat
          /\ 100 * Needed(i) <= 85 * total'
      BY <1>a, <1>b, <1>c, <2>2
    <3> HIDE DEF next
    <3> WITNESS (~ item[i].partial) \in BOOLEAN
    <3> QED
      BY <3>2, <3>3
  <2>3. CASE /\ item' = ToSend(i, FALSE)
             /\ IF NewSize(i) > total THEN Miss ELSE UNCHANGED misses
             /\ UNCHANGED <<total, known>>
    <3>2. item' = [item EXCEPT ![i] = next(FALSE)]
      BY <2>3 DEF ToSend
    <3>3. total' \in Nat /\ total <= total' /\ known' \in Int /\ -1 <= known' /\ known' <= total'
      BY <1>a, <2>3
    <3>4. misses' \in Nat
      BY <1>a, <2>3 DEF Miss
    <3> HIDE DEF next
    <3> WITNESS FALSE \in BOOLEAN
    <3> QED
      BY <3>2, <3>3, <3>4
  <2> QED
    BY <2>1, <2>2, <2>3 DEF Decide
<1>p. PICK s \in BOOLEAN :
        /\ item' = [item EXCEPT ![i] = next(s)]
        /\ s => ~ item[i].partial /\ 100 * Needed(i) <= 85 * total'
        /\ total' \in Nat /\ total <= total' /\ known' \in Int /\ -1 <= known' /\ known' <= total' /\ misses' \in Nat
  BY <1>d
<1> DEFINE r == next(s)
<1>1. r \in GrowthItem
  BY <1>a, RestingTyped DEF GrowthItem, GrowthLabels
<1>2. /\ r.pc = "send" /\ r.updated = {} /\ r.volume = Unknown
      /\ r.sure = s /\ r.owed = item[i].owed /\ r.needs = item[i].needs
  BY RestingTyped DEF GrowthItem, Resting
<1>3. item' = [item EXCEPT ![i] = r] /\ UNCHANGED <<landed, sizes, uploads, unmarked, revived>>
  BY <1>p DEF Decide
<1> HIDE DEF r, next
<1>f. ItemBounds(i)'
  <2>1. item'[i] = r
    BY <1>a, <1>3
  <2>2. s => 100 * (Sum(item[i].owed) + item[i].needs) <= 85 * total'
    BY <1>n, <1>b, <1>p
  <2>3. r.volume <= total'
    BY <1>p, <1>2 DEF Unknown
  <2> QED
    BY <1>2, <2>1, <2>2, <2>3 DEF ItemBounds, Sum
<1>g. /\ total' \in Nat /\ total <= total' /\ known' \in Int /\ -1 <= known' /\ known' <= total'
      /\ uploads' \in Nat /\ misses' \in Nat /\ sizes' \in [Zones -> Int]
      /\ \A x \in Zones : sizes'[x] # Unknown =>
            Marked(x) <= sizes'[x] /\ 0 <= sizes'[x] /\ sizes'[x] <= landed[x]
      /\ UNCHANGED <<landed, unmarked, revived>>
      /\ item' = [item EXCEPT ![i] = r] /\ item[i].pc # "mark" /\ r.pc # "mark"
  BY <1>a, <1>p, <1>2, <1>3, GrowthFacts
<1> QED
  BY <1>1, <1>f, <1>g, QuietStep

LEMMA GrowthLand ==
  ASSUME GrowthInv, NEW i \in Items, Land(i)
  PROVE  GrowthInv'
<1>y. PICK y \in Zones, n \in Nat : y = item[i].zone /\ n = item[i].needs
  BY GrowthFacts DEF GrowthItem
<1> DEFINE r == [item[i] EXCEPT !.pc = "mark", !.sure = FALSE, !.owed = Resting.owed]
<1>0. /\ item[i].pc = "send" /\ item' = [item EXCEPT ![i] = r]
      /\ landed' = [landed EXCEPT ![y] = @ + n] /\ unmarked' = [unmarked EXCEPT ![y] = @ + n]
      /\ UNCHANGED <<total, known, sizes, uploads, misses, revived>>
  BY <1>y DEF Land, ItemAt
<1>a. /\ y \in Zones /\ n \in Nat /\ item \in [Items -> GrowthItem] /\ item[i] \in GrowthItem
      /\ landed \in [Zones -> Nat] /\ unmarked \in [Zones -> Int] /\ revived \in [Zones -> Nat]
  BY GrowthFacts DEF GrowthItem
<1>b. r \in GrowthItem
  <2>1. Resting.owed \in [Zones -> Int]
    BY RestingTyped DEF GrowthItem
  <2> QED
    BY <1>a, <2>1 DEF GrowthItem, GrowthLabels
<1>c. /\ r.pc = "mark" /\ r.updated = item[i].updated /\ r.volume = item[i].volume /\ r.sure = FALSE
      /\ r.zone = y /\ r.needs = n
  BY <1>a, <1>y DEF GrowthItem
<1> HIDE DEF r
<1>m. \A z \in Zones : Marked(z)' = Marked(z) /\ landed[z] <= landed'[z] /\ landed[z] \in Nat /\ landed'[z] \in Nat
  <2> TAKE z \in Zones
  <2>1. landed[z] \in Nat /\ unmarked[z] \in Int /\ revived[z] \in Nat
    BY <1>a
  <2>2. CASE z = y
    <3>1. landed'[z] = landed[z] + n /\ unmarked'[z] = unmarked[z] + n /\ revived'[z] = revived[z]
      BY <1>a, <1>0, <2>2
    <3> QED
      BY <1>a, <2>1, <3>1 DEF Marked
  <2>3. CASE z # y
    <3>1. landed'[z] = landed[z] /\ unmarked'[z] = unmarked[z] /\ revived'[z] = revived[z]
      BY <1>a, <1>0, <2>3
    <3> QED
      BY <1>a, <2>1, <3>1 DEF Marked
  <2> QED
    BY <2>2, <2>3
<1>1. GrowthShape'
  BY <1>0, <1>a, <1>b DEF GrowthInv, GrowthShape
<1>2. UnmarkedCounted'
  <2>0. item'[i] = r /\ \A j \in Items : j # i => item'[j] = item[j]
    BY <1>0, <1>a
  <2>1. \A z \in Zones : z # y => Bytes(z)' = Bytes(z)
    BY <1>0, <1>a, <1>c, <2>0 DEF Bytes, ItemAt
  <2>2. Bytes(y)' = Bytes(y) \union ({i} \X (1..n))
    <3>1. \A b \in Bytes(y)' : b \in Bytes(y) \union ({i} \X (1..n))
      <4> TAKE b \in Bytes(y)'
      <4>1. b \in Items \X Nat /\ item'[b[1]].pc = "mark" /\ item'[b[1]].zone = y
            /\ 1 <= b[2] /\ b[2] <= item'[b[1]].needs
        BY DEF Bytes, ItemAt
      <4>2. CASE b[1] = i
        BY <1>a, <1>c, <2>0, <4>1, <4>2
      <4>3. CASE b[1] # i
        BY <2>0, <4>1, <4>3 DEF Bytes, ItemAt
      <4> QED
        BY <4>2, <4>3
    <3>2. \A b \in Bytes(y) : b \in Bytes(y)'
      BY <1>0, <1>a, <1>c, <2>0 DEF Bytes, ItemAt
    <3>3. \A k \in 1..n : <<i, k>> \in Bytes(y)'
      BY <1>0, <1>a, <1>c, <2>0 DEF Bytes, ItemAt
    <3> QED
      BY <3>1, <3>2, <3>3
  <2>3. Bytes(y) \intersect ({i} \X (1..n)) = {}
    BY <1>0 DEF Bytes, ItemAt
  <2>4. IsFiniteSet({i} \X (1..n)) /\ Cardinality({i} \X (1..n)) = n
    BY <1>a, BytesOfOne
  <2>5. IsFiniteSet(Bytes(y)) /\ unmarked[y] = Cardinality(Bytes(y))
    BY <1>a DEF GrowthInv, UnmarkedCounted
  <2>6. IsFiniteSet(Bytes(y)') /\ Cardinality(Bytes(y)') = unmarked[y] + n
    <3> DEFINE S == Bytes(y)
               T == {i} \X (1..n)
    <3>1. IsFiniteSet(S) /\ IsFiniteSet(T) /\ S \cap T = {} /\ Cardinality(T) = n /\ Cardinality(S) = unmarked[y]
      BY <2>3, <2>4, <2>5
    <3>2. unmarked[y] \in Int
      BY <1>a
    <3> HIDE DEF S, T
    <3>3. IsFiniteSet(S \cup T) /\ Cardinality(S \cup T) = Cardinality(S) + Cardinality(T) - Cardinality(S \cap T)
      BY <3>1, FS_Union
    <3>4. Cardinality(S \cap T) = 0
      BY <3>1, FS_EmptySet
    <3>5. IsFiniteSet(S \cup T) /\ Cardinality(S \cup T) = unmarked[y] + n
      BY <1>a, <3>1, <3>2, <3>3, <3>4
    <3> QED
      BY <2>2, <3>5 DEF S, T
  <2>7. ASSUME NEW z \in Zones PROVE IsFiniteSet(Bytes(z)') /\ unmarked'[z] = Cardinality(Bytes(z)')
    <3>1. CASE z = y
      BY <1>0, <1>a, <2>6, <3>1
    <3>2. CASE z # y
      BY <1>0, <1>a, <2>1, <3>2 DEF GrowthInv, UnmarkedCounted
    <3> QED
      BY <3>1, <3>2
  <2> QED
    BY <2>7 DEF UnmarkedCounted
<1>3. GrowthBounds'
  <2>1. ASSUME NEW z \in Zones
        PROVE  sizes'[z] # Unknown => Marked(z)' <= sizes'[z] /\ 0 <= sizes'[z] /\ sizes'[z] <= landed'[z]
    <3>1. sizes[z] \in Int
      BY GrowthFacts
    <3> QED
      BY <1>0, <1>m, <3>1, GrowthFacts
  <2>2. ASSUME NEW z \in Zones PROVE unmarked'[z] + revived'[z] <= landed'[z]
    <3>1. unmarked[z] + revived[z] <= landed[z] /\ unmarked[z] \in Int /\ revived[z] \in Int /\ landed[z] \in Int
      BY <1>a DEF GrowthInv, GrowthBounds
    <3>2. CASE z = y
      <4>1. landed'[z] = landed[z] + n /\ unmarked'[z] = unmarked[z] + n /\ revived'[z] = revived[z]
        BY <1>a, <1>0, <3>2
      <4> QED
        BY <1>a, <3>1, <4>1
    <3>3. CASE z # y
      <4>1. landed'[z] = landed[z] /\ unmarked'[z] = unmarked[z] /\ revived'[z] = revived[z]
        BY <1>a, <1>0, <3>3
      <4> QED
        BY <3>1, <4>1
    <3> QED
      BY <3>2, <3>3
  <2> QED
    BY <1>0, <2>1, <2>2, GrowthFacts DEF GrowthBounds
<1>4. ASSUME NEW j \in Items PROVE ItemBounds(j)'
  <2>1. CASE j = i
    <3>1. item'[i] = r
      BY <1>0, <1>a
    <3> QED
      BY <1>0, <1>c, <2>1, <3>1, GrowthFacts DEF ItemBounds
  <2>2. CASE j # i
    <3>1. item'[j] = item[j] /\ ItemBounds(j) /\ item[j] \in GrowthItem
      BY <1>0, <1>a, <2>2, GrowthFacts
    <3>2. \A z \in Zones : item[j].cache[z] \in Int
      BY <3>1 DEF GrowthItem
    <3> QED
      BY <1>0, <1>m, <3>1, <3>2 DEF ItemBounds, Sum
  <2> QED
    BY <2>1, <2>2
<1> QED
  BY <1>1, <1>2, <1>3, <1>4 DEF GrowthInv

LEMMA GrowthMark ==
  ASSUME GrowthInv, NEW i \in Items, Mark(i)
  PROVE  GrowthInv'
<1>y. PICK y \in Zones, n \in Nat : y = item[i].zone /\ n = item[i].needs
  BY GrowthFacts DEF GrowthItem
<1>0. /\ item[i].pc = "mark" /\ item' = [item EXCEPT ![i] = Resting]
      /\ sizes' = [sizes EXCEPT ![y] = Unknown] /\ unmarked' = [unmarked EXCEPT ![y] = @ - n]
      /\ revived' = IF Measured(y) THEN [revived EXCEPT ![y] = @ + n] ELSE revived
      /\ UNCHANGED <<landed, total, known, uploads, misses>>
  BY <1>y DEF Mark, ItemAt
<1>a. /\ y \in Zones /\ n \in Nat /\ item \in [Items -> GrowthItem] /\ item[i] \in GrowthItem
      /\ landed \in [Zones -> Nat] /\ unmarked \in [Zones -> Int] /\ revived \in [Zones -> Nat]
      /\ sizes \in [Zones -> Int]
  BY GrowthFacts DEF GrowthItem
<1>c. Resting \in GrowthItem /\ Resting.pc = "rest" /\ Resting.updated = {} /\ Resting.volume = Unknown
      /\ Resting.sure = FALSE
  BY RestingTyped DEF Resting
<1>m. \A z \in Zones : /\ Marked(z) \in Int /\ Marked(z)' \in Int /\ Marked(z) <= Marked(z)'
                       /\ z # y => Marked(z)' = Marked(z)
                       /\ Measured(z) => Marked(z)' = Marked(z)
                       /\ unmarked'[z] + revived'[z] <= unmarked[z] + revived[z]
                       /\ revived'[z] \in Nat
  <2> TAKE z \in Zones
  <2>1. landed[z] \in Nat /\ unmarked[z] \in Int /\ revived[z] \in Nat /\ landed'[z] = landed[z]
    BY <1>0, <1>a
  <2>2. CASE z = y /\ Measured(y)
    <3>1. unmarked'[z] = unmarked[z] - n /\ revived'[z] = revived[z] + n
      BY <1>a, <1>0, <2>2
    <3> QED
      BY <1>a, <2>1, <2>2, <3>1 DEF Marked
  <2>3. CASE z = y /\ ~ Measured(y)
    <3>1. unmarked'[z] = unmarked[z] - n /\ revived'[z] = revived[z]
      BY <1>a, <1>0, <2>3
    <3> QED
      BY <1>a, <2>1, <2>3, <3>1 DEF Marked
  <2>4. CASE z # y
    <3>1. unmarked'[z] = unmarked[z] /\ revived'[z] = revived[z]
      BY <1>a, <1>0, <2>4
    <3> QED
      BY <1>a, <2>1, <2>4, <3>1 DEF Marked
  <2> QED
    BY <2>2, <2>3, <2>4
<1>1. GrowthShape'
  <2>1. sizes' \in [Zones -> Int] /\ unmarked' \in [Zones -> Int] /\ revived' \in [Zones -> Nat]
    BY <1>0, <1>a DEF Unknown
  <2>2. item' \in [Items -> GrowthItem]
    BY <1>0, <1>a, <1>c
  <2> QED
    BY <1>0, <2>1, <2>2 DEF GrowthInv, GrowthShape
<1>2. UnmarkedCounted'
  <2>0. item'[i] = Resting /\ \A j \in Items : j # i => item'[j] = item[j]
    BY <1>0, <1>a
  <2>1. \A z \in Zones : z # y => Bytes(z)' = Bytes(z)
    BY <1>0, <1>a, <1>c, <1>y, <2>0 DEF Bytes, ItemAt
  <2>2. Bytes(y) = Bytes(y)' \union ({i} \X (1..n))
    <3>1. \A b \in Bytes(y) : b \in Bytes(y)' \union ({i} \X (1..n))
      <4> TAKE b \in Bytes(y)
      <4>1. b \in Items \X Nat /\ item[b[1]].pc = "mark" /\ item[b[1]].zone = y
            /\ 1 <= b[2] /\ b[2] <= item[b[1]].needs
        BY DEF Bytes, ItemAt
      <4>2. CASE b[1] = i
        BY <1>a, <1>y, <4>1, <4>2
      <4>3. CASE b[1] # i
        BY <2>0, <4>1, <4>3 DEF Bytes, ItemAt
      <4> QED
        BY <4>2, <4>3
    <3>2. \A b \in Bytes(y)' : b \in Bytes(y)
      BY <1>0, <1>a, <1>c, <2>0 DEF Bytes, ItemAt
    <3>3. \A k \in 1..n : <<i, k>> \in Bytes(y)
      BY <1>0, <1>a, <1>c, <1>y, <2>0 DEF Bytes, ItemAt
    <3> QED
      BY <3>1, <3>2, <3>3
  <2>3. Bytes(y)' \intersect ({i} \X (1..n)) = {}
    BY <1>0, <1>c, <2>0 DEF Bytes, ItemAt
  <2>4. IsFiniteSet({i} \X (1..n)) /\ Cardinality({i} \X (1..n)) = n
    BY <1>a, BytesOfOne
  <2>5. IsFiniteSet(Bytes(y)) /\ unmarked[y] = Cardinality(Bytes(y))
    BY <1>a DEF GrowthInv, UnmarkedCounted
  <2>6. IsFiniteSet(Bytes(y)') /\ Cardinality(Bytes(y)') = unmarked[y] - n
    <3> DEFINE S == Bytes(y)'
               T == {i} \X (1..n)
               U == Bytes(y)
    <3>1. IsFiniteSet(U) /\ IsFiniteSet(T) /\ S \cap T = {} /\ Cardinality(T) = n /\ Cardinality(U) = unmarked[y]
          /\ U = S \union T
      BY <2>2, <2>3, <2>4, <2>5
    <3>2. unmarked[y] \in Int
      BY <1>a
    <3> HIDE DEF S, T, U
    <3>s. IsFiniteSet(S)
      BY <3>1, FS_Subset
    <3>3. Cardinality(S \cup T) = Cardinality(S) + Cardinality(T) - Cardinality(S \cap T)
      BY <3>1, <3>s, FS_Union
    <3>4. Cardinality(S \cap T) = 0 /\ Cardinality(S) \in Nat
      BY <3>1, <3>s, FS_EmptySet, FS_CardinalityType
    <3>5. Cardinality(S) = unmarked[y] - n
      BY <1>a, <3>1, <3>2, <3>3, <3>4
    <3> QED
      BY <3>s, <3>5 DEF S
  <2>7. ASSUME NEW z \in Zones PROVE IsFiniteSet(Bytes(z)') /\ unmarked'[z] = Cardinality(Bytes(z)')
    <3>1. CASE z = y
      BY <1>0, <1>a, <2>6, <3>1
    <3>2. CASE z # y
      BY <1>0, <1>a, <2>1, <3>2 DEF GrowthInv, UnmarkedCounted
    <3> QED
      BY <3>1, <3>2
  <2> QED
    BY <2>7 DEF UnmarkedCounted
<1>3. GrowthBounds'
  <2>1. ASSUME NEW z \in Zones
        PROVE  sizes'[z] # Unknown => Marked(z)' <= sizes'[z] /\ 0 <= sizes'[z] /\ sizes'[z] <= landed'[z]
    <3>1. CASE z = y
      BY <1>0, <1>a, <3>1
    <3>2. CASE z # y
      BY <1>0, <1>a, <1>m, <3>2, GrowthFacts
    <3> QED
      BY <3>1, <3>2
  <2>2. ASSUME NEW z \in Zones PROVE unmarked'[z] + revived'[z] <= landed'[z]
    <3>1. unmarked[z] + revived[z] <= landed[z] /\ unmarked[z] \in Int /\ revived[z] \in Int /\ landed[z] \in Int
      BY <1>a DEF GrowthInv, GrowthBounds
    <3>2. unmarked'[z] \in Int /\ revived'[z] \in Int
      BY <1>1 DEF GrowthShape
    <3> QED
      BY <1>0, <1>m, <3>1, <3>2
  <2> QED
    BY <1>0, <2>1, <2>2, GrowthFacts DEF GrowthBounds
<1>4. ASSUME NEW j \in Items PROVE ItemBounds(j)'
  <2>1. CASE j = i
    <3>1. item'[i] = Resting
      BY <1>0, <1>a
    <3> QED
      BY <1>0, <1>c, <2>1, <3>1, GrowthFacts DEF ItemBounds, Unknown
  <2>2. CASE j # i
    <3>1. item'[j] = item[j] /\ ItemBounds(j) /\ item[j] \in GrowthItem
      BY <1>0, <1>a, <2>2, GrowthFacts
    <3>2. \A z \in Zones : item[j].cache[z] \in Int /\ item[j].owed[z] \in Int
      BY <3>1 DEF GrowthItem
    <3>3. \A z \in Zones : z \in item[j].updated => Measured(z)
      BY DEF Measured
    <3>4. \A z \in Zones : /\ item[j].owed[z] <= Marked(z) => item[j].owed[z] <= Marked(z)'
                           /\ z \in item[j].updated => Marked(z)' = Marked(z)
      BY <1>m, <3>2, <3>3
    <3> QED
      BY <1>0, <3>1, <3>4 DEF ItemBounds, Sum
  <2> QED
    BY <2>1, <2>2
<1> QED
  BY <1>1, <1>2, <1>3, <1>4 DEF GrowthInv

LEMMA GrowthStep == GrowthInv /\ [GrowthNext]_growthVars => GrowthInv'
<1> SUFFICES ASSUME GrowthInv, [GrowthNext]_growthVars PROVE GrowthInv'
  OBVIOUS
<1>1. ASSUME NEW i \in Items, Plan(i) \/ VolumeSize(i) \/ LoadSizes(i) \/ Flush(i) \/ Decide(i) \/ Land(i) \/ Mark(i)
      PROVE  GrowthInv'
  BY <1>1, GrowthPlan, GrowthVolumeSize, GrowthLoadSizes, GrowthFlush, GrowthDecide, GrowthLand, GrowthMark
<1>2. ASSUME NEW i \in Items, NEW z \in Zones, GetSize(i, z)
      PROVE  GrowthInv'
  BY <1>2, GrowthGetSize
<1>3. CASE UNCHANGED growthVars
  BY <1>3 DEF growthVars, GrowthInv, GrowthShape, UnmarkedCounted, Bytes, GrowthBounds, ItemBounds, Marked,
     ItemAt, Sum
<1> QED
  BY <1>1, <1>2, <1>3 DEF GrowthNext

\* The inductive invariant of the guard on the size of the volume.
THEOREM GrowthInvariant == GrowthSpec => []GrowthInv
<1> QED
  BY GrowthInit1, GrowthStep, PTL DEF GrowthSpec

\* The types of the guard: what is known is never more than what there is.
THEOREM GrowthTypeCorrect == GrowthSpec => []GrowthTypeOK
<1>1. GrowthInv => GrowthTypeOK
  <2> SUFFICES ASSUME GrowthInv PROVE GrowthTypeOK
    OBVIOUS
  <2>1. \A z \in Zones : unmarked[z] \in Nat
    BY UnmarkedNat DEF GrowthInv
  <2>2. total \in Nat /\ known \in {Unknown} \union 0..total
    BY DEF GrowthInv, GrowthShape, GrowthBounds, Unknown
  <2>3. ASSUME NEW z \in Zones
        PROVE  /\ sizes[z] \in {Unknown} \union 0..landed[z]
               /\ unmarked[z] \in 0..landed[z] /\ revived[z] \in 0..landed[z]
    BY <2>1 DEF GrowthInv, GrowthShape, GrowthBounds
  <2>4. ASSUME NEW i \in Items PROVE item[i].updated \subseteq Zones /\ item[i].volume <= total
    BY DEF GrowthInv, GrowthShape, GrowthItem, ItemBounds
  <2> QED
    BY <2>2, <2>3, <2>4 DEF GrowthTypeOK
<1> QED
  BY <1>1, GrowthInvariant, PTL

\* An upload that had every size it needed sends only what keeps the volume, grown if
\* it must be, at 85 %, with all that was marked before it looked.
THEOREM SureItemsAlwaysFit == GrowthSpec => []SureItemsFit
<1>1. GrowthInv => SureItemsFit
  BY DEF GrowthInv, ItemBounds, SureItemsFit
<1> QED
  BY <1>1, GrowthInvariant, PTL

\* Whatever uploads overlap, and however long a measurement takes, a cached size
\* is never less than what was marked after it was taken.
THEOREM CacheAlwaysCountsMarked == GrowthSpec => []CacheCountsMarked
<1>1. GrowthInv => CacheCountsMarked
  BY DEF GrowthInv, GrowthShape, GrowthBounds, CacheCountsMarked, Unknown
<1> QED
  BY <1>1, GrowthInvariant, PTL

-----------------------------------------------------------------------------
(* Upload: files sent to the volume                                        *)

\* The places of an item in upload, and the versions of its files.
UploadLabels == {"idle", "compare", "stage", "stat", "send", "unpack", "post", "finish"}
Versions     == [LocalFiles -> Nat]

UploadItem ==
  [pc : UploadLabels, files : SUBSET LocalFiles, todo : SUBSET LocalFiles, staged : SUBSET LocalFiles,
   read : Versions, mtime : Versions, from : Versions]
UploadCommand ==
  [pc : {"none", "running", "ok", "lost"}, left : SUBSET LocalFiles, stamp : SUBSET LocalFiles,
   writing : SUBSET LocalFiles, mtime : Versions]

UploadShape ==
  /\ local \in [LocalFiles -> [ver : Nat, mtime : Nat]]
  /\ farm \in [LocalFiles -> [ver : Nat, whole : BOOLEAN, mtime : Nat]]
  /\ archive \in Versions /\ delivered \in Versions
  /\ run \in [Runners -> UploadItem] /\ unpack \in [Runners -> UploadCommand]
  /\ itemFaults \in 0..MaxItemFaults /\ raced \subseteq LocalFiles

\* no version is newer than the file
UploadBounds(f) ==
  /\ local[f].ver <= MaxVersion /\ 1 <= local[f].mtime /\ local[f].mtime <= local[f].ver
  /\ farm[f].ver <= local[f].ver /\ archive[f] <= local[f].ver
  /\ \A r \in Runners : run[r].read[f] <= local[f].ver /\ run[r].mtime[f] <= local[f].mtime
                        /\ run[r].from[f] <= local[f].ver

\* The files a command on the sync pod has still to do with.
UnderCommand(r) == IF Unpacking(r) THEN unpack[r].left \union unpack[r].stamp \union unpack[r].writing ELSE {}

\* What an item and its command have to do with, by where it is.
ItemForm(r) ==
  /\ run[r].staged \subseteq run[r].files /\ run[r].todo \subseteq run[r].files
  /\ run[r].pc \in {"idle", "compare", "stage"} => \A f \in LocalFiles : run[r].mtime[f] = 0
  /\ run[r].pc = "stat" => run[r].staged \subseteq run[r].todo
  /\ run[r].pc = "send" => \A f \in run[r].staged : run[r].mtime[f] # 0
  /\ run[r].pc = "idle" => run[r].files = {}
  /\ Unpacking(r) => run[r].pc \in {"idle", "unpack"}
  /\ unpack[r].left \intersect unpack[r].stamp = {}
  /\ \A f \in unpack[r].writing : unpack[r].writing = {f} /\ f \notin unpack[r].left \union unpack[r].stamp

\* a file belongs to one item, and a command to nobody else's
Apart(q, r) ==
  q # r => /\ run[q].files \intersect run[r].files = {}
           /\ UnderCommand(r) \intersect (run[q].files \union UnderCommand(q)) \subseteq raced

\* A file nothing raced on: its modification time tells its version, here and there,
\* and what was delivered once is whole and current.
Fresh(f) ==
  /\ local[f].mtime = local[f].ver
  /\ farm[f].mtime \in {0, farm[f].ver}
  /\ delivered[f] # 0 => farm[f].whole /\ farm[f].ver = delivered[f] /\ farm[f].mtime = farm[f].ver

\* What the command of an item works on is what the item sent.
CommandHas(r, f) ==
  Unpacking(r) =>
  /\ f \in unpack[r].left \union unpack[r].writing => archive[f] = unpack[r].mtime[f]
  /\ f \in unpack[r].stamp => farm[f].whole /\ farm[f].ver = unpack[r].mtime[f]
  /\ f \in unpack[r].stamp \union unpack[r].writing => delivered[f] = 0

\* The farm has the file, no older than when the item began.
Arrived(r, f) == farm[f].whole /\ farm[f].ver >= run[r].from[f] /\ farm[f].mtime = farm[f].ver

\* What an item knows of a file of its own, by where it is: skipped, staged, sent or
\* unpacked.
ItemHas(r, f) ==
  f \in run[r].files =>
  /\ run[r].pc = "stage" /\ f \notin run[r].todo => Arrived(r, f)
  /\ run[r].pc \in {"stat", "send"} =>
       /\ f \in run[r].staged /\ f \in run[r].todo =>
            /\ run[r].read[f] >= run[r].from[f]
            /\ run[r].mtime[f] = 0 => run[r].read[f] = local[f].ver
            /\ run[r].mtime[f] # 0 => run[r].read[f] = run[r].mtime[f]
       /\ f \in run[r].staged /\ f \notin run[r].todo =>
            archive[f] = run[r].mtime[f] /\ archive[f] >= run[r].from[f]
       /\ f \notin run[r].staged \union run[r].todo => Arrived(r, f)
  /\ run[r].pc = "unpack" =>
       /\ Unpacking(r) =>
            /\ f \in unpack[r].left \union unpack[r].writing => archive[f] >= run[r].from[f]
            /\ f \in unpack[r].stamp => farm[f].ver >= run[r].from[f]
            /\ f \notin UnderCommand(r) => Arrived(r, f)
       /\ unpack[r].pc # "none"
       /\ unpack[r].pc = "ok" => Arrived(r, f)
  /\ run[r].pc \in {"post", "finish"} => Arrived(r, f)

\* Nothing that was skipped is stale and nothing current is sent again; the rest is
\* about the files that nothing raced on.
UploadInv ==
  /\ UploadShape /\ stale = {} /\ resent = {}
  /\ \A f \in LocalFiles : UploadBounds(f)
  /\ \A r \in Runners : ItemForm(r)
  /\ \A q, r \in Runners : Apart(q, r)
  /\ \A f \in LocalFiles \ raced : Fresh(f) /\ \A r \in Runners : CommandHas(r, f) /\ ItemHas(r, f)

LEMMA UploadInit1 == UploadInit => UploadInv
<1> SUFFICES ASSUME UploadInit PROVE UploadInv
  OBVIOUS
<1>1. NoItem \in UploadItem /\ NoItem.pc = "idle" /\ NoItem.files = {} /\ NoItem.todo = {} /\ NoItem.staged = {}
      /\ \A f \in LocalFiles : NoItem.read[f] = 0 /\ NoItem.mtime[f] = 0 /\ NoItem.from[f] = 0
  BY DEF NoItem, UploadItem, UploadLabels, Versions
<1>2. NoCmd \in UploadCommand /\ NoCmd.pc = "none" /\ NoCmd.left = {} /\ NoCmd.stamp = {} /\ NoCmd.writing = {}
  BY DEF NoCmd, UploadCommand, Versions
<1>3. UploadShape
  BY <1>1, <1>2, UploadAssumption DEF UploadInit, UploadShape, Absent, Versions
<1>4. \A f \in LocalFiles : UploadBounds(f)
  BY <1>1, UploadAssumption DEF UploadInit, UploadBounds, Absent
<1>5. \A r \in Runners : ItemForm(r)
  BY <1>1, <1>2 DEF UploadInit, ItemForm, Unpacking
<1>6. \A q, r \in Runners : Apart(q, r)
  BY <1>1, <1>2 DEF UploadInit, Apart, UnderCommand, Unpacking
<1>7. \A f \in LocalFiles : Fresh(f)
  BY DEF UploadInit, Fresh, Absent
<1>8. \A f \in LocalFiles, r \in Runners : CommandHas(r, f) /\ ItemHas(r, f)
  BY <1>1, <1>2 DEF UploadInit, CommandHas, ItemHas, Unpacking
<1> QED
  BY <1>3, <1>4, <1>5, <1>6, <1>7, <1>8 DEF UploadInv, UploadInit

\* what the steps may use
LEMMA UploadFacts ==
  ASSUME UploadInv, NEW r \in Runners
  PROVE  /\ run[r] \in UploadItem /\ unpack[r] \in UploadCommand /\ ItemForm(r)
         /\ run \in [Runners -> UploadItem] /\ unpack \in [Runners -> UploadCommand]
         /\ local \in [LocalFiles -> [ver : Nat, mtime : Nat]]
         /\ farm \in [LocalFiles -> [ver : Nat, whole : BOOLEAN, mtime : Nat]]
         /\ archive \in Versions /\ delivered \in Versions
         /\ itemFaults \in 0..MaxItemFaults /\ raced \subseteq LocalFiles /\ stale = {} /\ resent = {}
         /\ run[r].files \subseteq LocalFiles /\ run[r].todo \subseteq LocalFiles /\ run[r].staged \subseteq LocalFiles
         /\ run[r].read \in Versions /\ run[r].mtime \in Versions /\ run[r].from \in Versions
         /\ unpack[r].left \subseteq LocalFiles /\ unpack[r].stamp \subseteq LocalFiles
         /\ unpack[r].writing \subseteq LocalFiles /\ unpack[r].mtime \in Versions
  BY DEF UploadInv, UploadShape, UploadItem, UploadCommand

\* ... of one file.
LEMMA FileFacts ==
  ASSUME UploadInv, NEW f \in LocalFiles
  PROVE  /\ UploadBounds(f) /\ local[f].ver \in Nat /\ local[f].mtime \in Nat
         /\ farm[f].ver \in Nat /\ farm[f].mtime \in Nat /\ farm[f].whole \in BOOLEAN
         /\ archive[f] \in Nat /\ delivered[f] \in Nat
         /\ f \notin raced => Fresh(f)
         /\ \A r \in Runners : /\ run[r].read[f] \in Nat /\ run[r].mtime[f] \in Nat /\ run[r].from[f] \in Nat
                               /\ unpack[r].mtime[f] \in Nat
                               /\ f \notin raced => CommandHas(r, f) /\ ItemHas(r, f)
  BY DEF UploadInv, UploadShape, UploadItem, UploadCommand, Versions

LEMMA NoItemFacts ==
  /\ NoItem \in UploadItem /\ NoItem.pc = "idle" /\ NoItem.files = {} /\ NoItem.todo = {} /\ NoItem.staged = {}
  /\ \A f \in LocalFiles : NoItem.read[f] = 0 /\ NoItem.mtime[f] = 0 /\ NoItem.from[f] = 0
  BY DEF NoItem, UploadItem, UploadLabels, Versions

LEMMA NoCmdFacts ==
  /\ NoCmd \in UploadCommand /\ NoCmd.pc = "none" /\ NoCmd.left = {} /\ NoCmd.stamp = {} /\ NoCmd.writing = {}
  BY DEF NoCmd, UploadCommand, Versions

\* a step that changes one item, and nothing on the farm
LEMMA ItemMoves ==
  ASSUME UploadInv, NEW r \in Runners, NEW t \in UploadItem, run' = [run EXCEPT ![r] = t],
         UNCHANGED <<local, farmVars, unpack, raced>>,
         delivered' \in Versions, itemFaults' \in 0..MaxItemFaults, stale' = {}, resent' = {},
         t.files \subseteq run[r].files,
         \A f \in LocalFiles : /\ t.read[f] <= local[f].ver /\ t.mtime[f] <= local[f].mtime
                               /\ t.from[f] <= local[f].ver,
         ItemForm(r)',
         \A f \in LocalFiles \ raced : /\ Fresh(f)' /\ ItemHas(r, f)'
                                       /\ \A q \in Runners : CommandHas(q, f)'
  PROVE  UploadInv'
<1>0. run'[r] = t /\ (\A q \in Runners : q # r => run'[q] = run[q]) /\ run' \in [Runners -> UploadItem]
  BY UploadFacts
<1>1. UploadShape'
  BY <1>0, UploadFacts DEF UploadShape, farmVars
<1>2. ASSUME NEW f \in LocalFiles PROVE UploadBounds(f)'
  BY <1>0, FileFacts DEF UploadBounds, farmVars
<1>3. ASSUME NEW q \in Runners PROVE ItemForm(q)'
  BY <1>0, UploadFacts DEF ItemForm, Unpacking
<1>4. ASSUME NEW p \in Runners, NEW q \in Runners PROVE Apart(p, q)'
  <2>1. Apart(p, q) /\ Apart(q, p)
    BY DEF UploadInv
  <2>2. UnderCommand(p)' = UnderCommand(p) /\ UnderCommand(q)' = UnderCommand(q)
    BY DEF UnderCommand, Unpacking
  <2> QED
    BY <1>0, <2>1, <2>2 DEF Apart
<1>5. ASSUME NEW f \in LocalFiles \ raced, NEW q \in Runners PROVE ItemHas(q, f)'
  <2>1. CASE q = r
    BY <2>1
  <2>2. CASE q # r
    BY <1>0, <2>2, FileFacts DEF ItemHas, Arrived, Unpacking, UnderCommand, farmVars
  <2> QED
    BY <2>1, <2>2
<1> QED
  BY <1>1, <1>2, <1>3, <1>4, <1>5 DEF UploadInv

\* ... nor anything in its history
LEMMA ItemMovesOn ==
  ASSUME UploadInv, NEW r \in Runners, NEW t \in UploadItem, run' = [run EXCEPT ![r] = t],
         UNCHANGED <<local, farmVars, unpack, raced, delivered>>,
         itemFaults' \in 0..MaxItemFaults, stale' = {}, resent' = {},
         t.files \subseteq run[r].files,
         \A f \in LocalFiles : /\ t.read[f] <= local[f].ver /\ t.mtime[f] <= local[f].mtime
                               /\ t.from[f] <= local[f].ver,
         ItemForm(r)',
         \A f \in LocalFiles \ raced : ItemHas(r, f)'
  PROVE  UploadInv'
<1>1. ASSUME NEW f \in LocalFiles \ raced PROVE Fresh(f)' /\ \A q \in Runners : CommandHas(q, f)'
  BY FileFacts DEF Fresh, CommandHas, Unpacking, farmVars
<1>2. delivered' \in Versions
  BY UploadFacts
<1> QED
  BY <1>1, <1>2, ItemMoves

LEMMA UploadFault == ASSUME UploadInv, ItemFault PROVE itemFaults' \in 0..MaxItemFaults
<1>1. itemFaults \in 0..MaxItemFaults
  BY DEF UploadInv, UploadShape
<1> QED
  BY <1>1, UploadAssumption DEF ItemFault

\* an item that ends, well or not
LEMMA ItemEnds ==
  ASSUME UploadInv, NEW r \in Runners, EndItem(r), UNCHANGED <<local, farmVars, unpack, historyVars>>,
         itemFaults' \in 0..MaxItemFaults
  PROVE  UploadInv'
<1>1. run' = [run EXCEPT ![r] = NoItem] /\ run'[r] = NoItem
  BY UploadFacts DEF EndItem
<1>2. \A f \in LocalFiles : /\ NoItem.read[f] <= local[f].ver /\ NoItem.mtime[f] <= local[f].mtime
                            /\ NoItem.from[f] <= local[f].ver
  BY NoItemFacts, FileFacts
<1>3. ItemForm(r)'
  BY <1>1, NoItemFacts, UploadFacts DEF ItemForm, Unpacking
<1>4. \A f \in LocalFiles \ raced : ItemHas(r, f)'
  BY <1>1, NoItemFacts DEF ItemHas
<1>5. stale' = {} /\ resent' = {} /\ UNCHANGED <<raced, delivered>>
  BY UploadFacts DEF historyVars
<1> QED
  BY <1>1, <1>2, <1>3, <1>4, <1>5, NoItemFacts, ItemMovesOn

\* an item whose files are all on the farm goes on to its end
LEMMA ItemArrives ==
  ASSUME UploadInv, NEW r \in Runners, NEW place \in {"post", "finish"}, NowAt(r, place),
         UNCHANGED <<local, farmVars, unpack, historyVars>>,
         ~ Unpacking(r), itemFaults' \in 0..MaxItemFaults,
         \A f \in run[r].files \ raced : Arrived(r, f)
  PROVE  UploadInv'
<1> DEFINE t == [run[r] EXCEPT !.pc = place]
<1>1. run' = [run EXCEPT ![r] = t]
  BY UploadFacts DEF NowAt
<1>2. t \in UploadItem
  BY UploadFacts DEF UploadItem, UploadLabels
<1>3. /\ t.pc = place /\ t.files = run[r].files /\ t.todo = run[r].todo /\ t.staged = run[r].staged
      /\ t.read = run[r].read /\ t.mtime = run[r].mtime /\ t.from = run[r].from
  BY UploadFacts DEF UploadItem
<1> HIDE DEF t
<1>4. run'[r] = t
  BY <1>1, UploadFacts
<1>5. \A f \in LocalFiles : t.read[f] <= local[f].ver /\ t.mtime[f] <= local[f].mtime /\ t.from[f] <= local[f].ver
  BY <1>3, FileFacts DEF UploadBounds
<1>6. ItemForm(r)'
  BY <1>3, <1>4, UploadFacts DEF ItemForm, Unpacking
<1>7. \A f \in LocalFiles \ raced : ItemHas(r, f)'
  BY <1>3, <1>4 DEF ItemHas, Arrived, farmVars
<1>8. stale' = {} /\ resent' = {} /\ UNCHANGED <<raced, delivered>>
  BY UploadFacts DEF historyVars
<1> QED
  BY <1>1, <1>2, <1>3, <1>5, <1>6, <1>7, <1>8, ItemMovesOn

LEMMA UploadEdit ==
  ASSUME UploadInv, NEW f \in LocalFiles, Edit(f)
  PROVE  UploadInv'
<1>0. PICK quick \in BOOLEAN :
       /\ local' = [local EXCEPT ![f] = [ver |-> @.ver + 1, mtime |-> IF quick THEN @.mtime ELSE @.mtime + 1]]
       /\ raced' = IF quick \/ BeingRead(f) \/ Busy(f) THEN raced \union {f} ELSE raced
  BY DEF Edit
<1>u. /\ UNCHANGED <<farmVars, run, unpack, itemFaults, delivered, stale, resent>> /\ local[f].ver < MaxVersion
      /\ UNCHANGED <<farm, archive>>
  BY DEF Edit, farmVars
<1>t. local \in [LocalFiles -> [ver : Nat, mtime : Nat]] /\ raced \subseteq LocalFiles
  BY DEF UploadInv, UploadShape
<1>1. /\ local' \in [LocalFiles -> [ver : Nat, mtime : Nat]]
      /\ local'[f].ver = local[f].ver + 1
      /\ local'[f].mtime = IF quick THEN local[f].mtime ELSE local[f].mtime + 1
      /\ \A g \in LocalFiles : g # f => local'[g] = local[g]
      /\ raced \subseteq raced' /\ raced' \subseteq LocalFiles
      /\ local[f].ver \in Nat /\ local[f].mtime \in Nat
  BY <1>0, <1>t
<1>2. UploadShape'
  BY <1>u, <1>1 DEF UploadInv, UploadShape
<1>3. ASSUME NEW g \in LocalFiles PROVE UploadBounds(g)'
  <2>1. CASE g = f
    BY <1>u, <1>1, <2>1, FileFacts, UploadAssumption DEF UploadBounds
  <2>2. CASE g # f
    BY <1>u, <1>1, <2>2, FileFacts DEF UploadBounds
  <2> QED
    BY <2>1, <2>2
<1>4. ASSUME NEW r \in Runners PROVE ItemForm(r)'
  BY <1>u, UploadFacts DEF ItemForm, Unpacking
<1>5. ASSUME NEW q \in Runners, NEW r \in Runners PROVE Apart(q, r)'
  <2>1. Apart(q, r)
    BY DEF UploadInv
  <2> QED
    BY <1>u, <1>1, <2>1 DEF Apart, UnderCommand, Unpacking
<1>6. ASSUME NEW g \in LocalFiles \ raced'
      PROVE  Fresh(g)' /\ \A r \in Runners : CommandHas(r, g)' /\ ItemHas(r, g)'
  <2>0. g \in LocalFiles /\ g \notin raced
    BY <1>1
  <2>1. CASE g # f
    BY <1>u, <1>1, <2>0, <2>1, FileFacts DEF Fresh, CommandHas, ItemHas, Arrived, Unpacking, UnderCommand
  <2>2. CASE g = f
    <3>1. ~ quick /\ ~ BeingRead(f) /\ ~ Busy(f)
      BY <1>0, <2>2
    <3>2. Fresh(g)'
      BY <1>u, <1>1, <2>0, <2>2, <3>1, FileFacts DEF Fresh
    <3>3. \A r \in Runners : CommandHas(r, g)'
      BY <1>u, <1>1, <2>0, <2>2, FileFacts DEF CommandHas, Unpacking
    <3>4. ASSUME NEW r \in Runners PROVE ItemHas(r, g)'
      <4>1. run[r].pc = "stat" /\ f \in run[r].staged => run[r].mtime[f] # 0
        BY <3>1 DEF BeingRead, Is
      <4>2. run[r].pc = "send" /\ f \in run[r].staged => run[r].mtime[f] # 0
        BY UploadFacts DEF ItemForm
      <4> QED
        BY <1>u, <2>0, <2>2, <4>1, <4>2, FileFacts DEF ItemHas, Arrived, Unpacking, UnderCommand
    <3> QED
      BY <3>2, <3>3, <3>4
  <2> QED
    BY <2>1, <2>2
<1> QED
  BY <1>u, <1>2, <1>3, <1>4, <1>5, <1>6 DEF UploadInv

LEMMA UploadStartItem ==
  ASSUME UploadInv, NEW r \in Runners, StartItem(r)
  PROVE  UploadInv'
<1>0. PICK F \in SUBSET LocalFiles \ {{}} :
       /\ \A q \in Runners : run[q].files \intersect F = {}
       /\ run' = [run EXCEPT ![r] = [NoItem EXCEPT !.pc = "compare", !.files = F,
                                     !.from = [f \in LocalFiles |-> IF f \in F THEN local[f].ver ELSE 0]]]
       /\ unpack' = [unpack EXCEPT ![r] = NoCmd]
       /\ raced' = raced \union {f \in F : Busy(f)}
  BY DEF StartItem
<1>u. /\ run[r].pc = "idle" /\ unpack[r].pc # "running"
      /\ UNCHANGED <<local, farm, archive, itemFaults, delivered, stale, resent>>
  BY DEF StartItem, farmVars, Is
<1> DEFINE from == [f \in LocalFiles |-> IF f \in F THEN local[f].ver ELSE 0]
           t == [NoItem EXCEPT !.pc = "compare", !.files = F, !.from = from]
<1>f. from \in Versions /\ \A f \in LocalFiles : from[f] <= local[f].ver
  BY FileFacts DEF Versions
<1> HIDE DEF from
<1>t. t \in UploadItem
  BY <1>f, NoItemFacts DEF UploadItem, UploadLabels
<1>c. /\ t.pc = "compare" /\ t.files = F /\ t.todo = {} /\ t.staged = {} /\ t.read = NoItem.read
      /\ t.mtime = NoItem.mtime /\ t.from = from
  BY NoItemFacts DEF UploadItem
<1>e. run' = [run EXCEPT ![r] = t]
  BY <1>0 DEF from
<1> HIDE DEF t
<1>1. /\ run' \in [Runners -> UploadItem] /\ run'[r] = t /\ \A q \in Runners : q # r => run'[q] = run[q]
      /\ unpack' \in [Runners -> UploadCommand] /\ unpack'[r] = NoCmd
      /\ \A q \in Runners : q # r => unpack'[q] = unpack[q]
      /\ raced \subseteq raced' /\ raced' \subseteq LocalFiles
  BY <1>0, <1>e, <1>t, NoCmdFacts, UploadFacts
<1>2. UploadShape'
  BY <1>u, <1>1 DEF UploadInv, UploadShape
<1>3. ASSUME NEW g \in LocalFiles PROVE UploadBounds(g)'
  <2>1. ASSUME NEW q \in Runners
        PROVE  run'[q].read[g] <= local[g].ver /\ run'[q].mtime[g] <= local[g].mtime /\ run'[q].from[g] <= local[g].ver
    <3>1. CASE q = r
      BY <1>1, <1>c, <1>f, <3>1, NoItemFacts, FileFacts
    <3>2. CASE q # r
      BY <1>1, <3>2, FileFacts DEF UploadBounds
    <3> QED
      BY <3>1, <3>2
  <2> QED
    BY <1>u, <2>1, FileFacts DEF UploadBounds
<1>4. ASSUME NEW q \in Runners PROVE ItemForm(q)'
  <2>1. CASE q = r
    BY <1>1, <1>c, <2>1, NoItemFacts, NoCmdFacts DEF ItemForm, Unpacking
  <2>2. CASE q # r
    BY <1>1, <2>2, UploadFacts DEF ItemForm, Unpacking
  <2> QED
    BY <2>1, <2>2
<1>b. /\ UnderCommand(r) = {} /\ UnderCommand(r)' = {}
      /\ \A q \in Runners : q # r => UnderCommand(q)' = UnderCommand(q)
      /\ \A q \in Runners : UnderCommand(q) \intersect F \subseteq raced'
      /\ run[r].files = {}
  <2>1. UnderCommand(r) = {} /\ UnderCommand(r)' = {}
    BY <1>u, <1>1, NoCmdFacts DEF UnderCommand, Unpacking
  <2>2. \A q \in Runners : q # r => UnderCommand(q)' = UnderCommand(q)
    BY <1>1 DEF UnderCommand, Unpacking
  <2>3. ASSUME NEW q \in Runners PROVE UnderCommand(q) \intersect F \subseteq raced'
    BY <1>0 DEF UnderCommand, Unpacking, Busy
  <2> QED
    BY <1>u, <2>1, <2>2, <2>3, UploadFacts DEF ItemForm
<1>5. ASSUME NEW p \in Runners, NEW q \in Runners PROVE Apart(p, q)'
  <2>0. Apart(p, q) /\ Apart(q, p)
    BY DEF UploadInv
  <2>1. CASE p = r /\ q # r
    <3>1. /\ run'[r].files = F /\ run'[q].files = run[q].files /\ run[q].files \intersect F = {}
          /\ UnderCommand(r)' = {} /\ UnderCommand(q)' = UnderCommand(q)
          /\ UnderCommand(q) \intersect F \subseteq raced'
      BY <1>0, <1>1, <1>b, <1>c, <2>1
    <3>2. F \intersect run[q].files = {} /\ UnderCommand(q) \intersect (F \union {}) \subseteq raced'
      BY <3>1
    <3> QED
      BY <2>1, <3>1, <3>2 DEF Apart
  <2>2. CASE p # r /\ q = r
    BY <1>0, <1>1, <1>b, <1>c, <2>0, <2>2 DEF Apart
  <2>3. CASE p # r /\ q # r
    BY <1>0, <1>1, <1>b, <1>c, <2>0, <2>3 DEF Apart
  <2>4. CASE p = q
    BY <2>4 DEF Apart
  <2> QED
    BY <2>1, <2>2, <2>3, <2>4
<1>6. ASSUME NEW g \in LocalFiles \ raced'
      PROVE  Fresh(g)' /\ \A q \in Runners : CommandHas(q, g)' /\ ItemHas(q, g)'
  <2>0. g \in LocalFiles /\ g \notin raced
    BY <1>1
  <2>1. Fresh(g)'
    BY <1>u, <2>0, FileFacts DEF Fresh
  <2>2. ASSUME NEW q \in Runners PROVE CommandHas(q, g)' /\ ItemHas(q, g)'
    <3>1. CASE q = r
      BY <1>1, <1>c, <3>1, NoCmdFacts DEF CommandHas, ItemHas, Unpacking
    <3>2. CASE q # r
      BY <1>u, <1>1, <1>b, <2>0, <3>2, FileFacts DEF CommandHas, ItemHas, Arrived, Unpacking
    <3> QED
      BY <3>1, <3>2
  <2> QED
    BY <2>1, <2>2
<1> QED
  BY <1>u, <1>2, <1>3, <1>4, <1>5, <1>6 DEF UploadInv

LEMMA UploadCompare ==
  ASSUME UploadInv, NEW r \in Runners, Compare(r)
  PROVE  UploadInv'
<1>0. PICK listed \in BOOLEAN :
       LET F == run[r].files
           skipped == IF listed THEN {f \in F : AlreadyOnFarm(f)} ELSE {}
           toSend == F \ skipped
       IN  /\ IF listed THEN UNCHANGED itemFaults ELSE ItemFault
           /\ stale' = stale \union {f \in skipped \ raced : farm[f].ver # local[f].ver}
           /\ resent' = resent \union {f \in toSend \ raced : listed /\ delivered[f] = local[f].ver}
           /\ \E post \in BOOLEAN :
                run' = [run EXCEPT ![r].todo = toSend,
                                   ![r].pc = IF toSend = {} /\ ~ post THEN "finish" ELSE "stage"]
  BY DEF Compare
<1> DEFINE F == run[r].files
           skipped == IF listed THEN {f \in F : AlreadyOnFarm(f)} ELSE {}
           toSend == F \ skipped
<1>u. run[r].pc = "compare" /\ UNCHANGED <<local, farmVars, unpack, raced, delivered>>
  BY DEF Compare, Is
<1>1. itemFaults' \in 0..MaxItemFaults
  BY <1>0, UploadFault, UploadFacts
<1>s. F \subseteq LocalFiles /\ toSend \subseteq F
  BY UploadFacts
\* what is skipped is there
<1>2. \A f \in skipped \ raced : Arrived(r, f) /\ farm[f].ver = local[f].ver
  <2> TAKE f \in skipped \ raced
  <2>1. f \in LocalFiles /\ f \in F /\ f \notin raced /\ farm[f].whole /\ farm[f].mtime = local[f].mtime
    BY <1>s DEF AlreadyOnFarm
  <2>2. Fresh(f) /\ UploadBounds(f)
    BY <2>1, FileFacts
  <2>3. local[f].mtime \in Nat /\ local[f].ver \in Nat /\ farm[f].mtime \in Nat /\ farm[f].ver \in Nat
    BY <2>1, FileFacts
  <2> QED
    BY <2>1, <2>2, <2>3 DEF Fresh, UploadBounds, Arrived
<1>3. stale' = {}
  <2>1. stale' = stale \union {f \in skipped \ raced : farm[f].ver # local[f].ver}
    BY <1>0
  <2> HIDE DEF skipped
  <2> QED
    BY <1>2, <2>1, UploadFacts
\* what was delivered is skipped
<1>4. \A f \in toSend \ raced : listed => delivered[f] # local[f].ver
  <2> SUFFICES ASSUME NEW f \in toSend \ raced, listed, delivered[f] = local[f].ver PROVE FALSE
    OBVIOUS
  <2>1. f \in LocalFiles /\ f \in F /\ f \notin raced /\ ~ AlreadyOnFarm(f)
    BY <1>s
  <2>2. Fresh(f) /\ UploadBounds(f)
    BY <2>1, FileFacts
  <2>3. local[f].mtime \in Nat /\ local[f].ver \in Nat
    BY <2>1, FileFacts
  <2> QED
    BY <2>1, <2>2, <2>3 DEF Fresh, UploadBounds, AlreadyOnFarm
<1>5. resent' = {}
  <2>1. resent' = resent \union {f \in toSend \ raced : listed /\ delivered[f] = local[f].ver}
    BY <1>0
  <2> HIDE DEF toSend
  <2> QED
    BY <1>4, <2>1, UploadFacts
<1>6. PICK place \in {"finish", "stage"} :
        /\ run' = [run EXCEPT ![r] = [run[r] EXCEPT !.todo = toSend, !.pc = place]]
        /\ place = "finish" => toSend = {}
  <2>1. PICK post \in BOOLEAN :
          run' = [run EXCEPT ![r].todo = toSend, ![r].pc = IF toSend = {} /\ ~ post THEN "finish" ELSE "stage"]
    BY <1>0
  <2> HIDE DEF toSend
  <2>2. run' = [run EXCEPT ![r] = [run[r] EXCEPT !.todo = toSend, !.pc = IF toSend = {} /\ ~ post THEN "finish" ELSE "stage"]]
    BY <2>1, UploadFacts
  <2>3. CASE toSend = {} /\ ~ post
    BY <2>2, <2>3
  <2>4. CASE ~ (toSend = {} /\ ~ post)
    <3>1. run' = [run EXCEPT ![r] = [run[r] EXCEPT !.todo = toSend, !.pc = "stage"]]
      BY <2>2, <2>4
    <3> QED
      BY <3>1
  <2> QED
    BY <2>3, <2>4
<1>7. \A f \in F \ raced : f \notin toSend => Arrived(r, f)
  BY <1>2
<1> HIDE DEF toSend, skipped
<1> DEFINE t == [run[r] EXCEPT !.todo = toSend, !.pc = place]
<1>t. t \in UploadItem
  BY <1>s, UploadFacts DEF UploadItem, UploadLabels
<1>c. /\ t.pc = place /\ t.files = run[r].files /\ t.todo = toSend /\ t.staged = run[r].staged
      /\ t.read = run[r].read /\ t.mtime = run[r].mtime /\ t.from = run[r].from
  BY UploadFacts DEF UploadItem
<1>e. run' = [run EXCEPT ![r] = t]
  BY <1>6
<1> HIDE DEF t
<1>r. run'[r] = t
  BY <1>e, UploadFacts
<1>8. \A f \in LocalFiles : t.read[f] <= local[f].ver /\ t.mtime[f] <= local[f].mtime /\ t.from[f] <= local[f].ver
  BY <1>c, FileFacts DEF UploadBounds
<1>9. ItemForm(r)'
  BY <1>u, <1>c, <1>r, <1>s, UploadFacts DEF ItemForm, Unpacking
<1>10. \A f \in LocalFiles \ raced : ItemHas(r, f)'
  BY <1>u, <1>c, <1>r, <1>6, <1>7 DEF ItemHas, Arrived, farmVars
<1> QED
  BY <1>u, <1>1, <1>3, <1>5, <1>t, <1>c, <1>e, <1>8, <1>9, <1>10, ItemMovesOn

LEMMA UploadStage ==
  ASSUME UploadInv, NEW r \in Runners, Stage(r)
  PROVE  UploadInv'
<1>0. PICK S \in SUBSET run[r].todo :
       run' = [run EXCEPT ![r].pc = "stat", ![r].staged = S,
                          ![r].read = [f \in LocalFiles |-> IF f \in S THEN local[f].ver ELSE 0]]
  BY DEF Stage
<1>u. run[r].pc = "stage" /\ UNCHANGED <<local, farmVars, unpack, itemFaults, historyVars>>
  BY DEF Stage, Is
<1> DEFINE read == [f \in LocalFiles |-> IF f \in S THEN local[f].ver ELSE 0]
           t == [run[r] EXCEPT !.pc = "stat", !.staged = S, !.read = read]
<1>s. S \subseteq run[r].todo /\ S \subseteq LocalFiles
  BY UploadFacts
<1>f. /\ read \in Versions
      /\ \A f \in LocalFiles : read[f] <= local[f].ver /\ (f \in S => read[f] = local[f].ver)
  BY FileFacts DEF Versions
<1> HIDE DEF read
<1>t. t \in UploadItem
  BY <1>s, <1>f, UploadFacts DEF UploadItem, UploadLabels
<1>c. /\ t.pc = "stat" /\ t.files = run[r].files /\ t.todo = run[r].todo /\ t.staged = S
      /\ t.read = read /\ t.mtime = run[r].mtime /\ t.from = run[r].from
  BY UploadFacts DEF UploadItem
<1>e. run' = [run EXCEPT ![r] = t]
  BY <1>0 DEF read
<1> HIDE DEF t
<1>r. run'[r] = t
  BY <1>e, UploadFacts
<1>8. \A f \in LocalFiles : t.read[f] <= local[f].ver /\ t.mtime[f] <= local[f].mtime /\ t.from[f] <= local[f].ver
  BY <1>c, <1>f, FileFacts DEF UploadBounds
<1>9. ItemForm(r)'
  BY <1>u, <1>c, <1>r, <1>s, UploadFacts DEF ItemForm, Unpacking
<1>m. \A f \in LocalFiles : t.mtime[f] = 0
  BY <1>u, <1>c, UploadFacts DEF ItemForm
<1>10. ASSUME NEW f \in LocalFiles \ raced PROVE ItemHas(r, f)'
  <2>1. ItemHas(r, f) /\ run[r].from[f] <= local[f].ver /\ (f \in S => read[f] = local[f].ver)
    BY <1>f, FileFacts DEF UploadBounds
  <2>2. local' = local /\ farm' = farm
    BY <1>u DEF farmVars
  <2>3. /\ run'[r].pc = "stat" /\ run'[r].staged = S /\ run'[r].files = run[r].files
        /\ run'[r].todo = run[r].todo /\ run'[r].read = read /\ run'[r].from = run[r].from
        /\ run'[r].mtime[f] = 0
    BY <1>c, <1>r, <1>m
  <2>4. f \notin S \union run[r].todo /\ f \in run[r].files => Arrived(r, f)
    BY <1>u, <2>1 DEF ItemHas
  <2>5. local[f].ver \in Nat /\ run[r].from[f] \in Nat
    BY FileFacts
  <2>6. f \notin S \union run[r].todo /\ f \in run[r].files => Arrived(r, f)'
    BY <2>2, <2>3, <2>4 DEF Arrived
  <2>7. f \in S => f \in run[r].todo /\ read[f] >= run[r].from[f] /\ read[f] = local[f].ver
    BY <1>s, <2>1, <2>5
  <2> QED
    BY <2>2, <2>3, <2>6, <2>7 DEF ItemHas
<1>11. stale' = {} /\ resent' = {} /\ UNCHANGED <<raced, delivered>>
       /\ itemFaults' \in 0..MaxItemFaults /\ t.files \subseteq run[r].files
  BY <1>u, <1>c, UploadFacts DEF historyVars
<1> QED
  BY <1>u, <1>t, <1>e, <1>8, <1>9, <1>10, <1>11, ItemMovesOn

LEMMA UploadStat ==
  ASSUME UploadInv, NEW r \in Runners, NEW g \in LocalFiles, Stat(r, g)
  PROVE  UploadInv'
<1>u. /\ run[r].pc = "stat" /\ g \in run[r].staged /\ run[r].mtime[g] = 0
      /\ UNCHANGED <<local, farmVars, unpack, itemFaults, historyVars>>
      /\ run' = [run EXCEPT ![r].mtime[g] = local[g].mtime]
  BY DEF Stat, Is
<1> DEFINE mtime == [run[r].mtime EXCEPT ![g] = local[g].mtime]
           t == [run[r] EXCEPT !.mtime = mtime]
<1>f. /\ mtime \in Versions /\ mtime[g] = local[g].mtime
      /\ \A f \in LocalFiles : f # g => mtime[f] = run[r].mtime[f]
  BY UploadFacts, FileFacts DEF Versions
<1>e. run' = [run EXCEPT ![r] = t]
  BY <1>u, UploadFacts
<1> HIDE DEF mtime
<1>t. t \in UploadItem
  BY <1>f, UploadFacts DEF UploadItem, UploadLabels
<1>c. /\ t.pc = "stat" /\ t.files = run[r].files /\ t.todo = run[r].todo /\ t.staged = run[r].staged
      /\ t.read = run[r].read /\ t.mtime = mtime /\ t.from = run[r].from
  BY <1>u, UploadFacts DEF UploadItem
<1> HIDE DEF t
<1>r. run'[r] = t
  BY <1>e, UploadFacts
<1>8. \A f \in LocalFiles : t.read[f] <= local[f].ver /\ t.mtime[f] <= local[f].mtime /\ t.from[f] <= local[f].ver
  BY <1>c, <1>f, FileFacts DEF UploadBounds
<1>9. ItemForm(r)'
  BY <1>u, <1>c, <1>r, UploadFacts DEF ItemForm, Unpacking
<1>10. ASSUME NEW f \in LocalFiles \ raced PROVE ItemHas(r, f)'
  <2>1. ItemHas(r, f) /\ Fresh(f) /\ 1 <= local[f].mtime
    BY FileFacts DEF UploadBounds
  <2>2. local' = local /\ farm' = farm /\ archive' = archive
    BY <1>u DEF farmVars
  <2>3. CASE f = g
    <3>1. f \in run[r].files => f \in run[r].todo /\ run[r].read[f] >= run[r].from[f] /\ run[r].read[f] = local[f].ver
      BY <1>u, <2>1, <2>3, UploadFacts DEF ItemHas, ItemForm
    <3>2. mtime[f] = local[f].ver
      BY <1>f, <2>1, <2>3 DEF Fresh
    <3>3. run'[r].pc = "stat" /\ f \in run'[r].staged /\ run'[r].files = run[r].files /\ run'[r].todo = run[r].todo
          /\ run'[r].read = run[r].read /\ run'[r].mtime = mtime /\ run'[r].from = run[r].from
      BY <1>u, <1>c, <1>r, <2>3
    <3> QED
      BY <2>2, <3>1, <3>2, <3>3 DEF ItemHas
  <2>4. CASE f # g
    BY <1>u, <1>c, <1>r, <1>f, <2>1, <2>2, <2>4 DEF ItemHas, Arrived
  <2> QED
    BY <2>3, <2>4
<1>11. stale' = {} /\ resent' = {} /\ UNCHANGED <<raced, delivered>>
       /\ itemFaults' \in 0..MaxItemFaults /\ t.files \subseteq run[r].files
  BY <1>u, <1>c, UploadFacts DEF historyVars
<1> QED
  BY <1>u, <1>t, <1>e, <1>8, <1>9, <1>10, <1>11, ItemMovesOn

LEMMA UploadStaged ==
  ASSUME UploadInv, NEW r \in Runners, Staged(r)
  PROVE  UploadInv'
<1>u. /\ run[r].pc = "stat" /\ (\A f \in run[r].staged : run[r].mtime[f] # 0)
      /\ UNCHANGED <<local, farmVars, unpack, itemFaults, historyVars>>
      /\ run' = [run EXCEPT ![r].pc = "send"]
  BY DEF Staged, Is, NowAt
<1> DEFINE t == [run[r] EXCEPT !.pc = "send"]
<1>e. run' = [run EXCEPT ![r] = t]
  BY <1>u, UploadFacts
<1>t. t \in UploadItem
  BY UploadFacts DEF UploadItem, UploadLabels
<1>c. /\ t.pc = "send" /\ t.files = run[r].files /\ t.todo = run[r].todo /\ t.staged = run[r].staged
      /\ t.read = run[r].read /\ t.mtime = run[r].mtime /\ t.from = run[r].from
  BY <1>u, UploadFacts DEF UploadItem
<1> HIDE DEF t
<1>r. run'[r] = t
  BY <1>e, UploadFacts
<1>8. \A f \in LocalFiles : t.read[f] <= local[f].ver /\ t.mtime[f] <= local[f].mtime /\ t.from[f] <= local[f].ver
  BY <1>c, FileFacts DEF UploadBounds
<1>9. ItemForm(r)'
  BY <1>u, <1>c, <1>r, UploadFacts DEF ItemForm, Unpacking
<1>10. ASSUME NEW f \in LocalFiles \ raced PROVE ItemHas(r, f)'
  <2>1. ItemHas(r, f)
    BY FileFacts
  <2>2. local' = local /\ farm' = farm /\ archive' = archive
    BY <1>u DEF farmVars
  <2> QED
    BY <1>u, <1>c, <1>r, <2>1, <2>2 DEF ItemHas, Arrived
<1>11. stale' = {} /\ resent' = {} /\ UNCHANGED <<raced, delivered>>
       /\ itemFaults' \in 0..MaxItemFaults /\ t.files \subseteq run[r].files
  BY <1>u, <1>c, UploadFacts DEF historyVars
<1> QED
  BY <1>u, <1>t, <1>e, <1>8, <1>9, <1>10, <1>11, ItemMovesOn

LEMMA UploadEnds ==
  ASSUME UploadInv, NEW r \in Runners, Watched(r) \/ PostCommand(r) \/ Fail(r)
  PROVE  UploadInv'
<1>f. itemFaults \in 0..MaxItemFaults
  BY UploadFacts
<1>1. CASE Watched(r)
  <2>u. run[r].pc = "unpack" /\ ~ Unpacking(r) /\ UNCHANGED <<local, farmVars, unpack, itemFaults, historyVars>>
    BY <1>1 DEF Watched, Is, Unpacking
  <2>1. CASE unpack[r].pc # "ok"
    BY <1>1, <1>f, <2>u, <2>1, ItemEnds DEF Watched
  <2>2. CASE unpack[r].pc = "ok"
    <3>1. \A f \in run[r].files \ raced : Arrived(r, f)
      BY <2>u, <2>2, UploadFacts, FileFacts DEF ItemHas
    <3>2. NowAt(r, "post") \/ NowAt(r, "finish")
      BY <1>1, <2>2 DEF Watched, ToEnd
    <3> QED
      BY <1>f, <2>u, <3>1, <3>2, ItemArrives
  <2> QED
    BY <2>1, <2>2
<1>2. CASE PostCommand(r)
  <2>u. run[r].pc = "post" /\ UNCHANGED <<local, farmVars, unpack, historyVars>>
    BY <1>2 DEF PostCommand, Is
  <2>1. CASE EndItem(r) /\ ItemFault
    BY <2>u, <2>1, UploadFault, ItemEnds
  <2>2. CASE NowAt(r, "finish") /\ UNCHANGED itemFaults
    <3>1. \A f \in run[r].files \ raced : Arrived(r, f)
      BY <2>u, UploadFacts, FileFacts DEF ItemHas
    <3>2. ~ Unpacking(r)
      BY <2>u, UploadFacts DEF ItemForm
    <3> QED
      BY <1>f, <2>u, <2>2, <3>1, <3>2, ItemArrives
  <2> QED
    BY <1>2, <2>1, <2>2 DEF PostCommand
<1>3. CASE Fail(r)
  BY <1>3, UploadFault, ItemEnds DEF Fail
<1> QED
  BY <1>1, <1>2, <1>3

LEMMA UploadFinish ==
  ASSUME UploadInv, NEW r \in Runners, Finish(r)
  PROVE  UploadInv'
<1>u. /\ run[r].pc = "finish" /\ run' = [run EXCEPT ![r] = NoItem]
      /\ UNCHANGED <<local, farmVars, unpack, itemFaults, raced, stale, resent>>
      /\ delivered' = [f \in LocalFiles |-> IF f \in run[r].files THEN farm[f].ver ELSE delivered[f]]
  BY DEF Finish, Is, EndItem
<1>1. run'[r] = NoItem
  BY <1>u, UploadFacts
<1>2. \A f \in LocalFiles : /\ NoItem.read[f] <= local[f].ver /\ NoItem.mtime[f] <= local[f].mtime
                            /\ NoItem.from[f] <= local[f].ver
  BY NoItemFacts, FileFacts
<1>3. ItemForm(r)'
  BY <1>u, <1>1, NoItemFacts, UploadFacts DEF ItemForm, Unpacking
<1>4. delivered' \in Versions
  BY <1>u, FileFacts DEF Versions
<1>5. ASSUME NEW f \in LocalFiles \ raced
      PROVE  Fresh(f)' /\ ItemHas(r, f)' /\ \A q \in Runners : CommandHas(q, f)'
  <2>0. local' = local /\ farm' = farm /\ archive' = archive
    BY <1>u DEF farmVars
  <2>1. ItemHas(r, f)'
    BY <1>1, NoItemFacts DEF ItemHas
  <2>2. CASE f \notin run[r].files
    <3>1. delivered'[f] = delivered[f]
      BY <1>u, <2>2
    <3> QED
      BY <1>u, <2>0, <2>1, <3>1, FileFacts DEF Fresh, CommandHas, Unpacking
  <2>3. CASE f \in run[r].files
    <3>1. delivered'[f] = farm[f].ver /\ Arrived(r, f)
      BY <1>u, <2>3, FileFacts DEF ItemHas
    <3>2. Fresh(f)'
      BY <2>0, <3>1, FileFacts DEF Fresh, Arrived
    <3>3. ASSUME NEW q \in Runners PROVE f \notin UnderCommand(q)
      <4>1. CASE q = r
        BY <1>u, <4>1, UploadFacts DEF ItemForm, UnderCommand
      <4>2. CASE q # r
        BY <2>3, <4>2 DEF UploadInv, Apart
      <4> QED
        BY <4>1, <4>2
    <3>4. ASSUME NEW q \in Runners PROVE CommandHas(q, f)'
      BY <1>u, <3>3 DEF CommandHas, UnderCommand, Unpacking
    <3> QED
      BY <2>1, <3>2, <3>4
  <2> QED
    BY <2>2, <2>3
<1>6. itemFaults' \in 0..MaxItemFaults /\ stale' = {} /\ resent' = {}
  BY <1>u, UploadFacts
<1> QED
  BY <1>u, <1>2, <1>3, <1>4, <1>5, <1>6, NoItemFacts, ItemMoves

LEMMA UploadSend ==
  ASSUME UploadInv, NEW r \in Runners, NEW g \in LocalFiles, Send(r, g)
  PROVE  UploadInv'
<1>u. /\ run[r].pc = "send" /\ g \in run[r].todo
      /\ run' = [run EXCEPT ![r].todo = @ \ {g}, ![r].read[g] = 0]
      /\ UNCHANGED <<local, unpack, itemFaults, raced, stale, resent>>
  BY DEF Send, Is
<1> DEFINE toSend == run[r].todo \ {g}
           read == [run[r].read EXCEPT ![g] = 0]
           t == [run[r] EXCEPT !.todo = toSend, !.read = read]
<1>f. /\ read \in Versions /\ read[g] = 0 /\ (\A f \in LocalFiles : f # g => read[f] = run[r].read[f])
      /\ toSend \in SUBSET LocalFiles
  BY UploadFacts, FileFacts DEF Versions
<1>e. run' = [run EXCEPT ![r] = t]
  BY <1>u, UploadFacts
<1> HIDE DEF read
<1>t. t \in UploadItem
  BY <1>f, UploadFacts DEF UploadItem, UploadLabels
<1>c. /\ t.pc = "send" /\ t.files = run[r].files /\ t.todo = toSend /\ t.staged = run[r].staged
      /\ t.read = read /\ t.mtime = run[r].mtime /\ t.from = run[r].from
  BY <1>u, UploadFacts DEF UploadItem
<1> HIDE DEF t
<1>1. /\ run' \in [Runners -> UploadItem] /\ run'[r] = t /\ \A q \in Runners : q # r => run'[q] = run[q]
  BY <1>e, <1>t, UploadFacts
\* what it sends
<1>2. /\ farm' \in [LocalFiles -> [ver : Nat, whole : BOOLEAN, mtime : Nat]] /\ archive' \in Versions
      /\ delivered' \in Versions
      /\ \A f \in LocalFiles : f # g => farm'[f] = farm[f] /\ archive'[f] = archive[f] /\ delivered'[f] = delivered[f]
      /\ g \in run[r].staged =>
           archive'[g] = run[r].read[g] /\ farm'[g] = farm[g] /\ delivered'[g] = delivered[g]
      /\ g \notin run[r].staged =>
           /\ farm'[g].ver = local[g].ver /\ farm'[g].whole /\ farm'[g].mtime = local[g].mtime
           /\ delivered'[g] = 0 /\ archive'[g] = archive[g]
  <2>1. CASE g \in run[r].staged
    <3>1. archive' = [archive EXCEPT ![g] = run[r].read[g]] /\ farm' = farm /\ delivered' = delivered
      BY <2>1 DEF Send
    <3> QED
      BY <2>1, <3>1, UploadFacts, FileFacts DEF Versions
  <2>2. CASE g \notin run[r].staged
    <3>1. /\ farm' = [farm EXCEPT ![g] = [ver |-> local[g].ver, whole |-> TRUE, mtime |-> local[g].mtime]]
          /\ delivered' = [delivered EXCEPT ![g] = 0] /\ archive' = archive
      BY <2>2 DEF Send
    <3>2. [ver |-> local[g].ver, whole |-> TRUE, mtime |-> local[g].mtime] \in [ver : Nat, whole : BOOLEAN, mtime : Nat]
      BY FileFacts
    <3> QED
      BY <2>2, <3>1, <3>2, UploadFacts, FileFacts DEF Versions
  <2> QED
    BY <2>1, <2>2
<1>3. UploadShape'
  BY <1>u, <1>1, <1>2 DEF UploadInv, UploadShape
<1>4. ASSUME NEW f \in LocalFiles PROVE UploadBounds(f)'
  <2>0. UploadBounds(f) /\ local[f].ver \in Nat /\ local[f].mtime \in Nat
    BY FileFacts
  <2>1. ASSUME NEW q \in Runners
        PROVE  run'[q].read[f] <= local[f].ver /\ run'[q].mtime[f] <= local[f].mtime /\ run'[q].from[f] <= local[f].ver
    <3>1. CASE q = r
      BY <1>1, <1>c, <1>f, <2>0, <3>1 DEF UploadBounds
    <3>2. CASE q # r
      BY <1>1, <2>0, <3>2 DEF UploadBounds
    <3> QED
      BY <3>1, <3>2
  <2>2. farm'[f].ver <= local[f].ver /\ archive'[f] <= local[f].ver
    BY <1>2, <2>0 DEF UploadBounds
  <2> QED
    BY <1>u, <2>0, <2>1, <2>2 DEF UploadBounds
<1>5. ASSUME NEW q \in Runners PROVE ItemForm(q)'
  <2>1. CASE q = r
    BY <1>u, <1>1, <1>c, <2>1, UploadFacts DEF ItemForm, Unpacking
  <2>2. CASE q # r
    BY <1>u, <1>1, <2>2, UploadFacts DEF ItemForm, Unpacking
  <2> QED
    BY <2>1, <2>2
<1>b. \A q \in Runners : UnderCommand(q)' = UnderCommand(q) /\ run'[q].files = run[q].files
  BY <1>u, <1>1, <1>c DEF UnderCommand, Unpacking
<1>6. ASSUME NEW p \in Runners, NEW q \in Runners PROVE Apart(p, q)'
  <2>1. Apart(p, q)
    BY DEF UploadInv
  <2> QED
    BY <1>u, <1>b, <2>1 DEF Apart
<1>7. ASSUME NEW f \in LocalFiles \ raced
      PROVE  Fresh(f)' /\ \A q \in Runners : CommandHas(q, f)' /\ ItemHas(q, f)'
  <2>0. /\ UploadBounds(f) /\ Fresh(f) /\ local[f].ver \in Nat /\ run[r].from[f] \in Nat
        /\ \A q \in Runners : CommandHas(q, f) /\ ItemHas(q, f)
    BY FileFacts
  <2>1. CASE f # g
    <3>1. farm'[f] = farm[f] /\ archive'[f] = archive[f] /\ delivered'[f] = delivered[f] /\ local' = local
      BY <1>u, <1>2, <2>1
    <3>2. Fresh(f)'
      BY <2>0, <3>1 DEF Fresh
    <3>3. ASSUME NEW q \in Runners PROVE CommandHas(q, f)'
      BY <1>u, <2>0, <3>1 DEF CommandHas, Unpacking
    <3>4. ASSUME NEW q \in Runners PROVE ItemHas(q, f)'
      <4>1. CASE q # r
        BY <1>u, <1>1, <1>b, <2>0, <3>1, <4>1 DEF ItemHas, Arrived, Unpacking
      <4>2. CASE q = r
        <5>1. /\ run'[r].pc = "send" /\ run'[r].files = run[r].files /\ run'[r].staged = run[r].staged
              /\ (f \in run'[r].todo) = (f \in run[r].todo) /\ run'[r].read[f] = run[r].read[f]
              /\ run'[r].mtime = run[r].mtime /\ run'[r].from = run[r].from
          BY <1>1, <1>c, <1>f, <2>1
        <5> QED
          BY <1>u, <2>0, <3>1, <4>2, <5>1 DEF ItemHas, Arrived
      <4> QED
        BY <4>1, <4>2
    <3> QED
      BY <3>2, <3>3, <3>4
  <2>2. CASE f = g
    <3>0. g \in run[r].files
      BY <1>u, UploadFacts DEF ItemForm
    <3>1. ASSUME NEW q \in Runners PROVE f \notin UnderCommand(q) /\ (q # r => f \notin run[q].files)
      <4>1. CASE q = r
        BY <1>u, <4>1, UploadFacts DEF ItemForm, UnderCommand
      <4>2. CASE q # r
        BY <2>2, <3>0, <4>2 DEF UploadInv, Apart
      <4> QED
        BY <4>1, <4>2
    <3>2. Fresh(f)'
      BY <1>u, <1>2, <2>0, <2>2 DEF Fresh
    <3>3. ASSUME NEW q \in Runners PROVE CommandHas(q, f)'
      BY <1>u, <3>1 DEF CommandHas, UnderCommand, Unpacking
    <3>4. ASSUME NEW q \in Runners PROVE ItemHas(q, f)'
      <4>1. CASE q # r
        BY <1>1, <3>1, <4>1 DEF ItemHas
      <4>2. CASE q = r
        <5>1. /\ run'[r].pc = "send" /\ run'[r].files = run[r].files /\ run'[r].staged = run[r].staged
              /\ f \notin run'[r].todo /\ run'[r].mtime = run[r].mtime /\ run'[r].from = run[r].from
          BY <1>1, <1>c, <2>2
        <5>2. CASE f \in run[r].staged
          <6>1. run[r].mtime[f] # 0
            BY <1>u, <5>2, UploadFacts DEF ItemForm
          <6>2. run[r].read[f] >= run[r].from[f] /\ run[r].read[f] = run[r].mtime[f]
            BY <1>u, <2>0, <2>2, <3>0, <5>2, <6>1 DEF ItemHas
          <6>3. archive'[f] = run[r].read[f]
            BY <1>2, <2>2, <5>2
          <6> QED
            BY <4>2, <5>1, <5>2, <6>2, <6>3 DEF ItemHas
        <5>3. CASE f \notin run[r].staged
          <6>1. farm'[f].ver = local[f].ver /\ farm'[f].whole /\ farm'[f].mtime = local[f].ver
            BY <1>2, <2>0, <2>2, <5>3 DEF Fresh
          <6>2. local[f].ver >= run[r].from[f]
            BY <2>0 DEF UploadBounds
          <6>3. Arrived(r, f)'
            BY <5>1, <6>1, <6>2 DEF Arrived
          <6> QED
            BY <4>2, <5>1, <5>3, <6>3 DEF ItemHas
        <5> QED
          BY <5>2, <5>3
      <4> QED
        BY <4>1, <4>2
    <3> QED
      BY <3>2, <3>3, <3>4
  <2> QED
    BY <2>1, <2>2
<1> QED
  BY <1>u, <1>3, <1>4, <1>5, <1>6, <1>7 DEF UploadInv

LEMMA UploadSent ==
  ASSUME UploadInv, NEW r \in Runners, Sent(r)
  PROVE  UploadInv'
<1>u. /\ run[r].pc = "send" /\ run[r].todo = {}
      /\ UNCHANGED <<local, farmVars, itemFaults, historyVars>>
      /\ UNCHANGED <<farm, archive, raced, delivered, stale, resent>>
  BY DEF Sent, Is, farmVars, historyVars
<1>n. ~ Unpacking(r)
  BY <1>u, UploadFacts DEF ItemForm
<1>1. CASE run[r].staged = {}
  <2>1. \A f \in run[r].files \ raced : Arrived(r, f)
    BY <1>u, <1>1, UploadFacts, FileFacts DEF ItemHas
  <2>2. (NowAt(r, "post") \/ NowAt(r, "finish")) /\ UNCHANGED unpack
    BY <1>1 DEF Sent, ToEnd
  <2>3. itemFaults' \in 0..MaxItemFaults
    BY <1>u, UploadFacts
  <2> QED
    BY <1>u, <1>n, <2>1, <2>2, <2>3, ItemArrives
<1>2. CASE run[r].staged # {}
  <2>0. /\ run' = [run EXCEPT ![r].pc = "unpack", ![r].staged = {}, ![r].mtime = NoItem.mtime]
        /\ unpack' = [unpack EXCEPT ![r] = [NoCmd EXCEPT !.pc = "running", !.left = run[r].staged,
                                                     !.mtime = run[r].mtime]]
    BY <1>2 DEF Sent
  <2> DEFINE t == [run[r] EXCEPT !.pc = "unpack", !.staged = {}, !.mtime = NoItem.mtime]
             c == [NoCmd EXCEPT !.pc = "running", !.left = run[r].staged, !.mtime = run[r].mtime]
  <2>e. run' = [run EXCEPT ![r] = t] /\ unpack' = [unpack EXCEPT ![r] = c]
    BY <2>0, UploadFacts
  <2>t. t \in UploadItem
    BY UploadFacts, NoItemFacts DEF UploadItem, UploadLabels
  <2>c. /\ t.pc = "unpack" /\ t.files = run[r].files /\ t.todo = {} /\ t.staged = {}
        /\ t.read = run[r].read /\ t.mtime = NoItem.mtime /\ t.from = run[r].from
    BY <1>u, UploadFacts DEF UploadItem
  <2>d. c \in UploadCommand
    BY UploadFacts, NoCmdFacts DEF UploadCommand
  <2>k. c.pc = "running" /\ c.left = run[r].staged /\ c.mtime = run[r].mtime /\ c.stamp = {} /\ c.writing = {}
    BY NoCmdFacts DEF UploadCommand
  <2> HIDE DEF t, c
  <2>1. /\ run' \in [Runners -> UploadItem] /\ run'[r] = t /\ \A q \in Runners : q # r => run'[q] = run[q]
        /\ unpack' \in [Runners -> UploadCommand] /\ unpack'[r] = c
        /\ \A q \in Runners : q # r => unpack'[q] = unpack[q]
    BY <2>e, <2>t, <2>d, UploadFacts
  <2>b. /\ UnderCommand(r) = {} /\ UnderCommand(r)' = run[r].staged
        /\ \A q \in Runners : q # r => UnderCommand(q)' = UnderCommand(q)
        /\ \A q \in Runners : run'[q].files = run[q].files
        /\ run[r].staged \subseteq run[r].files
    <3>1. UnderCommand(r) = {} /\ run[r].staged \subseteq run[r].files
      BY <1>n, UploadFacts DEF UnderCommand, ItemForm
    <3>2. UnderCommand(r)' = c.left \union c.stamp \union c.writing
      BY <2>1, <2>k DEF UnderCommand, Unpacking
    <3>3. \A q \in Runners : q # r => UnderCommand(q)' = UnderCommand(q)
      BY <2>1 DEF UnderCommand, Unpacking
    <3>4. \A q \in Runners : run'[q].files = run[q].files
      BY <2>1, <2>c
    <3> QED
      BY <2>k, <3>1, <3>2, <3>3, <3>4
  <2>3. UploadShape'
    BY <1>u, <2>1 DEF UploadInv, UploadShape
  <2>4. ASSUME NEW f \in LocalFiles PROVE UploadBounds(f)'
    <3>1. ASSUME NEW q \in Runners
          PROVE  run'[q].read[f] <= local[f].ver /\ run'[q].mtime[f] <= local[f].mtime /\ run'[q].from[f] <= local[f].ver
      <4>1. CASE q = r
        BY <2>1, <2>c, <4>1, NoItemFacts, FileFacts DEF UploadBounds
      <4>2. CASE q # r
        BY <2>1, <4>2, FileFacts DEF UploadBounds
      <4> QED
        BY <4>1, <4>2
    <3> QED
      BY <1>u, <3>1, FileFacts DEF UploadBounds
  <2>5. ASSUME NEW q \in Runners PROVE ItemForm(q)'
    <3>1. CASE q = r
      BY <2>1, <2>c, <2>k, <3>1 DEF ItemForm, Unpacking
    <3>2. CASE q # r
      BY <2>1, <3>2, UploadFacts DEF ItemForm, Unpacking
    <3> QED
      BY <3>1, <3>2
  <2>6. ASSUME NEW p \in Runners, NEW q \in Runners PROVE Apart(p, q)'
    <3>0. Apart(p, q) /\ Apart(q, p)
      BY DEF UploadInv
    <3>1. CASE q = r /\ p # r
      BY <1>u, <2>b, <3>0, <3>1 DEF Apart
    <3>2. CASE p = r /\ q # r
      BY <1>u, <2>b, <3>0, <3>2 DEF Apart
    <3>3. CASE p # r /\ q # r
      BY <1>u, <2>b, <3>0, <3>3 DEF Apart
    <3>4. CASE p = q
      BY <3>4 DEF Apart
    <3> QED
      BY <3>1, <3>2, <3>3, <3>4
  <2>7. ASSUME NEW f \in LocalFiles \ raced
        PROVE  Fresh(f)' /\ \A q \in Runners : CommandHas(q, f)' /\ ItemHas(q, f)'
    <3>0. Fresh(f) /\ \A q \in Runners : CommandHas(q, f) /\ ItemHas(q, f)
      BY FileFacts
    <3>1. Fresh(f)'
      BY <1>u, <3>0 DEF Fresh
    <3>2. ASSUME NEW q \in Runners, q # r PROVE CommandHas(q, f)' /\ ItemHas(q, f)'
      BY <1>u, <2>1, <2>b, <3>0, <3>2 DEF CommandHas, ItemHas, Arrived, Unpacking
    <3>3. f \in run[r].staged => archive[f] = run[r].mtime[f] /\ archive[f] >= run[r].from[f]
      BY <1>u, <2>b, <3>0 DEF ItemHas
    <3>4. f \in run[r].files /\ f \notin run[r].staged => Arrived(r, f)
      BY <1>u, <3>0 DEF ItemHas
    <3>5. CommandHas(r, f)'
      BY <1>u, <2>1, <2>k, <3>3 DEF CommandHas, Unpacking
    <3>6. ItemHas(r, f)'
      BY <1>u, <2>1, <2>b, <2>c, <2>k, <3>3, <3>4 DEF ItemHas, Arrived, Unpacking
    <3> QED
      BY <3>1, <3>2, <3>5, <3>6
  <2> QED
    BY <1>u, <2>3, <2>4, <2>5, <2>6, <2>7, UploadFacts DEF UploadInv
<1> QED
  BY <1>1, <1>2

\* a step of the command of one item, to one of its files
LEMMA CommandMoves ==
  ASSUME UploadInv, NEW r \in Runners, NEW g \in UnderCommand(r), NEW c \in UploadCommand,
         Unpacking(r), unpack' = [unpack EXCEPT ![r] = c], c.pc = "running",
         c.left \union c.stamp \union c.writing \subseteq UnderCommand(r),
         UNCHANGED <<local, run, itemFaults, raced, stale, resent>>,
         \A f \in LocalFiles : f # g =>
            /\ farm'[f] = farm[f] /\ archive'[f] = archive[f] /\ delivered'[f] = delivered[f]
            /\ c.mtime[f] = unpack[r].mtime[f] /\ (f \in c.left <=> f \in unpack[r].left)
            /\ (f \in c.stamp <=> f \in unpack[r].stamp) /\ (f \in c.writing <=> f \in unpack[r].writing),
         farm' \in [LocalFiles -> [ver : Nat, whole : BOOLEAN, mtime : Nat]],
         archive' \in Versions, delivered' \in Versions,
         farm'[g].ver <= local[g].ver, archive'[g] <= local[g].ver,
         ItemForm(r)',
         g \notin raced => Fresh(g)' /\ CommandHas(r, g)' /\ ItemHas(r, g)'
  PROVE  UploadInv'
<1>0. /\ unpack' \in [Runners -> UploadCommand] /\ unpack'[r] = c
      /\ \A q \in Runners : q # r => unpack'[q] = unpack[q]
      /\ UnderCommand(r) \subseteq LocalFiles
  BY UploadFacts DEF UnderCommand
<1>1. UploadShape'
  BY <1>0 DEF UploadInv, UploadShape
<1>2. ASSUME NEW f \in LocalFiles PROVE UploadBounds(f)'
  BY FileFacts DEF UploadBounds
<1>3. ASSUME NEW q \in Runners PROVE ItemForm(q)'
  <2>1. CASE q = r
    BY <2>1
  <2>2. CASE q # r
    BY <1>0, <2>2, UploadFacts DEF ItemForm, Unpacking
  <2> QED
    BY <2>1, <2>2
<1>b. /\ UnderCommand(r)' \subseteq UnderCommand(r)
      /\ \A q \in Runners : q # r => UnderCommand(q)' = UnderCommand(q)
  BY <1>0 DEF UnderCommand, Unpacking
<1>4. ASSUME NEW p \in Runners, NEW q \in Runners PROVE Apart(p, q)'
  <2>0. Apart(p, q) /\ Apart(q, p)
    BY DEF UploadInv
  <2>1. UnderCommand(p)' \subseteq UnderCommand(p) /\ UnderCommand(q)' \subseteq UnderCommand(q)
    BY <1>b
  <2> QED
    BY <2>0, <2>1 DEF Apart
<1>5. ASSUME NEW f \in LocalFiles \ raced
      PROVE  Fresh(f)' /\ \A q \in Runners : CommandHas(q, f)' /\ ItemHas(q, f)'
  <2>0. Fresh(f) /\ \A q \in Runners : CommandHas(q, f) /\ ItemHas(q, f)
    BY FileFacts
  <2>1. CASE f # g
    <3>1. Fresh(f)'
      BY <2>0, <2>1 DEF Fresh
    <3>2. ASSUME NEW q \in Runners, q # r PROVE CommandHas(q, f)' /\ ItemHas(q, f)'
      BY <1>0, <1>b, <2>0, <2>1, <3>2 DEF CommandHas, ItemHas, Arrived, Unpacking
    <3>3. CommandHas(r, f)' /\ ItemHas(r, f)'
      BY <1>0, <2>0, <2>1 DEF CommandHas, ItemHas, Arrived, Unpacking, UnderCommand
    <3> QED
      BY <3>1, <3>2, <3>3
  <2>2. CASE f = g
    <3>1. ASSUME NEW q \in Runners, q # r PROVE f \notin UnderCommand(q) /\ f \notin run[q].files
      BY <2>2, <3>1 DEF UploadInv, Apart
    <3>2. ASSUME NEW q \in Runners, q # r PROVE CommandHas(q, f)' /\ ItemHas(q, f)'
      BY <1>0, <3>1, <3>2 DEF CommandHas, ItemHas, UnderCommand, Unpacking
    <3> QED
      BY <2>2, <3>2
  <2> QED
    BY <2>1, <2>2
<1> QED
  BY <1>1, <1>2, <1>3, <1>4, <1>5 DEF UploadInv

LEMMA UploadOpenArchive ==
  ASSUME UploadInv, NEW r \in Runners, NEW g \in LocalFiles, OpenArchive(r, g)
  PROVE  UploadInv'
<1>u. /\ Unpacking(r) /\ g \in unpack[r].left /\ unpack[r].writing = {}
      /\ farm' = [farm EXCEPT ![g] = Absent] /\ delivered' = [delivered EXCEPT ![g] = 0]
      /\ unpack' = [unpack EXCEPT ![r].left = @ \ {g}, ![r].writing = {g}]
      /\ UNCHANGED <<local, archive, run, itemFaults, raced, stale, resent>>
  BY DEF OpenArchive
<1> DEFINE c == [unpack[r] EXCEPT !.left = @ \ {g}, !.writing = {g}]
<1>e. unpack' = [unpack EXCEPT ![r] = c]
  BY <1>u, UploadFacts
<1>t. c \in UploadCommand
  BY UploadFacts DEF UploadCommand
<1>c. /\ c.pc = "running" /\ c.left = unpack[r].left \ {g} /\ c.stamp = unpack[r].stamp /\ c.writing = {g}
      /\ c.mtime = unpack[r].mtime
  BY <1>u, UploadFacts DEF UploadCommand, Unpacking
<1> HIDE DEF c
<1>r. unpack'[r] = c
  BY <1>e, UploadFacts
<1>b. /\ UnderCommand(r) = unpack[r].left \union unpack[r].stamp \union unpack[r].writing
      /\ g \in UnderCommand(r) /\ c.left \union c.stamp \union c.writing \subseteq UnderCommand(r)
  BY <1>u, <1>c DEF UnderCommand
<1>f. g \notin unpack[r].stamp /\ ItemForm(r)'
  BY <1>u, <1>c, <1>r, UploadFacts DEF ItemForm, Unpacking
<1>2. /\ farm' \in [LocalFiles -> [ver : Nat, whole : BOOLEAN, mtime : Nat]]
      /\ delivered' \in Versions /\ archive' \in Versions
      /\ \A f \in LocalFiles : f # g => farm'[f] = farm[f] /\ delivered'[f] = delivered[f] /\ archive'[f] = archive[f]
      /\ farm'[g] = Absent /\ delivered'[g] = 0 /\ archive'[g] = archive[g]
  BY <1>u, UploadFacts DEF Versions, Absent
<1>3. farm'[g].ver <= local[g].ver /\ archive'[g] <= local[g].ver
  BY <1>2, FileFacts DEF UploadBounds, Absent
<1>4. ASSUME g \notin raced PROVE Fresh(g)' /\ CommandHas(r, g)' /\ ItemHas(r, g)'
  <2>0. Fresh(g) /\ CommandHas(r, g) /\ ItemHas(r, g)
    BY <1>4, FileFacts
  <2>1. Fresh(g)'
    BY <1>u, <1>2, <2>0 DEF Fresh, Absent
  <2>2. CommandHas(r, g)'
    BY <1>u, <1>c, <1>r, <1>f, <1>2, <2>0 DEF CommandHas, Unpacking
  <2>3. ItemHas(r, g)'
    <3>1. run[r].pc \in {"idle", "unpack"} /\ (run[r].pc = "idle" => run[r].files = {})
      BY <1>u, UploadFacts DEF ItemForm
    <3>2. g \in run[r].files /\ run[r].pc = "unpack" => archive[g] >= run[r].from[g]
      BY <1>u, <2>0 DEF ItemHas
    <3> QED
      BY <1>u, <1>c, <1>r, <1>f, <1>2, <3>1, <3>2 DEF ItemHas, Unpacking, UnderCommand
  <2> QED
    BY <2>1, <2>2, <2>3
<1>5. \A f \in LocalFiles : f # g =>
            /\ farm'[f] = farm[f] /\ archive'[f] = archive[f] /\ delivered'[f] = delivered[f]
            /\ c.mtime[f] = unpack[r].mtime[f] /\ (f \in c.left <=> f \in unpack[r].left)
            /\ (f \in c.stamp <=> f \in unpack[r].stamp) /\ (f \in c.writing <=> f \in unpack[r].writing)
  BY <1>u, <1>c, <1>f, <1>2
<1>6. /\ g \in UnderCommand(r) /\ c.left \union c.stamp \union c.writing \subseteq UnderCommand(r)
      /\ Unpacking(r) /\ c.pc = "running" /\ ItemForm(r)'
      /\ UNCHANGED <<local, run, itemFaults, raced, stale, resent>>
      /\ farm' \in [LocalFiles -> [ver : Nat, whole : BOOLEAN, mtime : Nat]]
      /\ archive' \in Versions /\ delivered' \in Versions
  BY <1>u, <1>b, <1>c, <1>f, <1>2
<1>7. g \notin raced => Fresh(g)' /\ CommandHas(r, g)' /\ ItemHas(r, g)'
  BY <1>4
<1> QED
  BY <1>e, <1>t, <1>3, <1>5, <1>6, <1>7, CommandMoves

LEMMA UploadUnpacked ==
  ASSUME UploadInv, NEW r \in Runners, NEW g \in LocalFiles, Unpacked(r, g)
  PROVE  UploadInv'
<1>u. /\ Unpacking(r) /\ g \in unpack[r].writing
      /\ farm' = [farm EXCEPT ![g] = [ver |-> archive[g], whole |-> TRUE, mtime |-> 0]]
      /\ archive' = [archive EXCEPT ![g] = 0]
      /\ unpack' = [unpack EXCEPT ![r].writing = {}, ![r].stamp = @ \union {g}]
      /\ UNCHANGED <<local, run, itemFaults, historyVars>>
      /\ UNCHANGED <<local, run, itemFaults, raced, stale, resent, delivered>>
  BY DEF Unpacked, historyVars
<1> DEFINE c == [unpack[r] EXCEPT !.writing = {}, !.stamp = @ \union {g}]
<1>e. unpack' = [unpack EXCEPT ![r] = c]
  BY <1>u, UploadFacts
<1>t. c \in UploadCommand
  BY UploadFacts DEF UploadCommand
<1>c. /\ c.pc = "running" /\ c.left = unpack[r].left /\ c.stamp = unpack[r].stamp \union {g} /\ c.writing = {}
      /\ c.mtime = unpack[r].mtime
  BY <1>u, UploadFacts DEF UploadCommand, Unpacking
<1> HIDE DEF c
<1>r. unpack'[r] = c
  BY <1>e, UploadFacts
<1>b. /\ UnderCommand(r) = unpack[r].left \union unpack[r].stamp \union unpack[r].writing
      /\ g \in UnderCommand(r) /\ c.left \union c.stamp \union c.writing \subseteq UnderCommand(r)
  BY <1>u, <1>c DEF UnderCommand
<1>f. unpack[r].writing = {g} /\ g \notin unpack[r].left /\ g \notin unpack[r].stamp /\ ItemForm(r)'
  BY <1>u, <1>c, <1>r, UploadFacts DEF ItemForm, Unpacking
<1>2. /\ farm' \in [LocalFiles -> [ver : Nat, whole : BOOLEAN, mtime : Nat]]
      /\ delivered' \in Versions /\ archive' \in Versions
      /\ \A f \in LocalFiles : f # g => farm'[f] = farm[f] /\ delivered'[f] = delivered[f] /\ archive'[f] = archive[f]
      /\ farm'[g].ver = archive[g] /\ farm'[g].whole /\ farm'[g].mtime = 0 /\ archive'[g] = 0
      /\ delivered'[g] = delivered[g]
  <2>1. [ver |-> archive[g], whole |-> TRUE, mtime |-> 0] \in [ver : Nat, whole : BOOLEAN, mtime : Nat]
    BY FileFacts
  <2> QED
    BY <1>u, <2>1, UploadFacts DEF Versions
<1>3. farm'[g].ver <= local[g].ver /\ archive'[g] <= local[g].ver
  BY <1>2, FileFacts DEF UploadBounds
<1>4. ASSUME g \notin raced PROVE Fresh(g)' /\ CommandHas(r, g)' /\ ItemHas(r, g)'
  <2>0. Fresh(g) /\ CommandHas(r, g) /\ ItemHas(r, g)
    BY <1>4, FileFacts
  <2>d. archive[g] = unpack[r].mtime[g] /\ delivered[g] = 0
    BY <1>u, <2>0 DEF CommandHas
  <2>1. Fresh(g)'
    BY <1>u, <1>2, <2>0, <2>d DEF Fresh
  <2>2. CommandHas(r, g)'
    BY <1>u, <1>c, <1>r, <1>f, <1>2, <2>d DEF CommandHas, Unpacking
  <2>3. ItemHas(r, g)'
    <3>1. run[r].pc \in {"idle", "unpack"} /\ (run[r].pc = "idle" => run[r].files = {})
      BY <1>u, UploadFacts DEF ItemForm
    <3>2. g \in run[r].files /\ run[r].pc = "unpack" => archive[g] >= run[r].from[g]
      BY <1>u, <2>0 DEF ItemHas
    <3> QED
      BY <1>u, <1>c, <1>r, <1>f, <1>2, <3>1, <3>2 DEF ItemHas, Unpacking, UnderCommand
  <2> QED
    BY <2>1, <2>2, <2>3
<1>5. \A f \in LocalFiles : f # g =>
            /\ farm'[f] = farm[f] /\ archive'[f] = archive[f] /\ delivered'[f] = delivered[f]
            /\ c.mtime[f] = unpack[r].mtime[f] /\ (f \in c.left <=> f \in unpack[r].left)
            /\ (f \in c.stamp <=> f \in unpack[r].stamp) /\ (f \in c.writing <=> f \in unpack[r].writing)
  BY <1>u, <1>c, <1>f, <1>2
<1>6. /\ g \in UnderCommand(r) /\ c.left \union c.stamp \union c.writing \subseteq UnderCommand(r)
      /\ Unpacking(r) /\ c.pc = "running" /\ ItemForm(r)'
      /\ UNCHANGED <<local, run, itemFaults, raced, stale, resent>>
      /\ farm' \in [LocalFiles -> [ver : Nat, whole : BOOLEAN, mtime : Nat]]
      /\ archive' \in Versions /\ delivered' \in Versions
  BY <1>u, <1>b, <1>c, <1>f, <1>2
<1>7. g \notin raced => Fresh(g)' /\ CommandHas(r, g)' /\ ItemHas(r, g)'
  BY <1>4
<1> QED
  BY <1>e, <1>t, <1>3, <1>5, <1>6, <1>7, CommandMoves

LEMMA UploadUtime ==
  ASSUME UploadInv, NEW r \in Runners, NEW g \in LocalFiles, Utime(r, g)
  PROVE  UploadInv'
<1>u. /\ Unpacking(r) /\ g \in unpack[r].stamp
      /\ farm' = [farm EXCEPT ![g].mtime = unpack[r].mtime[g]]
      /\ unpack' = [unpack EXCEPT ![r].stamp = @ \ {g}, ![r].mtime[g] = 0]
      /\ UNCHANGED <<local, archive, run, itemFaults, raced, stale, resent, delivered>>
  BY DEF Utime, historyVars
<1> DEFINE mtime == [unpack[r].mtime EXCEPT ![g] = 0]
           c == [unpack[r] EXCEPT !.stamp = @ \ {g}, !.mtime = mtime]
<1>m. mtime \in Versions /\ \A f \in LocalFiles : f # g => mtime[f] = unpack[r].mtime[f]
  BY UploadFacts DEF Versions
<1>e. unpack' = [unpack EXCEPT ![r] = c]
  <2>1. c = [unpack[r] EXCEPT !.stamp = @ \ {g}, !.mtime[g] = 0]
    BY UploadFacts DEF UploadCommand
  <2> QED
    BY <1>u, <2>1, UploadFacts
<1> HIDE DEF mtime
<1>t. c \in UploadCommand
  BY <1>m, UploadFacts DEF UploadCommand
<1>c. /\ c.pc = "running" /\ c.left = unpack[r].left /\ c.stamp = unpack[r].stamp \ {g}
      /\ c.writing = unpack[r].writing /\ c.mtime = mtime
  BY <1>u, UploadFacts DEF UploadCommand, Unpacking
<1> HIDE DEF c
<1>r. unpack'[r] = c
  BY <1>e, UploadFacts
<1>b. /\ UnderCommand(r) = unpack[r].left \union unpack[r].stamp \union unpack[r].writing
      /\ g \in UnderCommand(r) /\ c.left \union c.stamp \union c.writing \subseteq UnderCommand(r)
  BY <1>u, <1>c DEF UnderCommand
<1>f. g \notin unpack[r].left /\ g \notin unpack[r].writing /\ ItemForm(r)'
  BY <1>u, <1>c, <1>r, UploadFacts DEF ItemForm, Unpacking
<1>2. /\ farm' \in [LocalFiles -> [ver : Nat, whole : BOOLEAN, mtime : Nat]]
      /\ delivered' \in Versions /\ archive' \in Versions
      /\ \A f \in LocalFiles : f # g => farm'[f] = farm[f] /\ delivered'[f] = delivered[f] /\ archive'[f] = archive[f]
      /\ farm'[g].ver = farm[g].ver /\ farm'[g].whole = farm[g].whole /\ farm'[g].mtime = unpack[r].mtime[g]
      /\ archive'[g] = archive[g] /\ delivered'[g] = delivered[g]
  BY <1>u, UploadFacts, FileFacts
<1>3. farm'[g].ver <= local[g].ver /\ archive'[g] <= local[g].ver
  BY <1>2, FileFacts DEF UploadBounds
<1>4. ASSUME g \notin raced PROVE Fresh(g)' /\ CommandHas(r, g)' /\ ItemHas(r, g)'
  <2>0. Fresh(g) /\ CommandHas(r, g) /\ ItemHas(r, g)
    BY <1>4, FileFacts
  <2>d. farm[g].whole /\ farm[g].ver = unpack[r].mtime[g] /\ delivered[g] = 0
    BY <1>u, <2>0 DEF CommandHas
  <2>1. Fresh(g)'
    BY <1>u, <1>2, <2>0, <2>d DEF Fresh
  <2>2. CommandHas(r, g)'
    BY <1>u, <1>c, <1>r, <1>f, <1>2, <2>d DEF CommandHas, Unpacking
  <2>3. ItemHas(r, g)'
    <3>1. run[r].pc \in {"idle", "unpack"} /\ (run[r].pc = "idle" => run[r].files = {})
      BY <1>u, UploadFacts DEF ItemForm
    <3>2. g \in run[r].files /\ run[r].pc = "unpack" => farm[g].ver >= run[r].from[g]
      BY <1>u, <2>0 DEF ItemHas
    <3>3. g \in run[r].files /\ run[r].pc = "unpack" => Arrived(r, g)'
      BY <1>u, <1>2, <2>d, <3>2 DEF Arrived
    <3> QED
      BY <1>u, <1>c, <1>r, <1>f, <3>1, <3>3 DEF ItemHas, Unpacking
  <2> QED
    BY <2>1, <2>2, <2>3
<1>5. \A f \in LocalFiles : f # g =>
            /\ farm'[f] = farm[f] /\ archive'[f] = archive[f] /\ delivered'[f] = delivered[f]
            /\ c.mtime[f] = unpack[r].mtime[f] /\ (f \in c.left <=> f \in unpack[r].left)
            /\ (f \in c.stamp <=> f \in unpack[r].stamp) /\ (f \in c.writing <=> f \in unpack[r].writing)
  BY <1>u, <1>c, <1>m, <1>f, <1>2
<1>6. /\ g \in UnderCommand(r) /\ c.left \union c.stamp \union c.writing \subseteq UnderCommand(r)
      /\ Unpacking(r) /\ c.pc = "running" /\ ItemForm(r)'
      /\ UNCHANGED <<local, run, itemFaults, raced, stale, resent>>
      /\ farm' \in [LocalFiles -> [ver : Nat, whole : BOOLEAN, mtime : Nat]]
      /\ archive' \in Versions /\ delivered' \in Versions
  BY <1>u, <1>b, <1>c, <1>f, <1>2
<1>7. g \notin raced => Fresh(g)' /\ CommandHas(r, g)' /\ ItemHas(r, g)'
  BY <1>4
<1> QED
  BY <1>e, <1>t, <1>3, <1>5, <1>6, <1>7, CommandMoves

LEMMA UploadCommandEnds ==
  ASSUME UploadInv, NEW r \in Runners, CommandEnds(r)
  PROVE  UploadInv'
<1>u. /\ Unpacking(r) /\ UNCHANGED <<local, farm, archive, run, raced, delivered, stale, resent>>
  BY DEF CommandEnds, farmVars, historyVars
<1>0. PICK place \in {"ok", "lost"} :
        /\ unpack' = [unpack EXCEPT ![r] = [NoCmd EXCEPT !.pc = place]]
        /\ place = "ok" => UnderCommand(r) = {}
        /\ itemFaults' \in 0..MaxItemFaults
  <2>1. CASE /\ unpack[r].left \union unpack[r].stamp \union unpack[r].writing = {}
             /\ unpack' = [unpack EXCEPT ![r] = [NoCmd EXCEPT !.pc = "ok"]] /\ UNCHANGED itemFaults
    <3>1. UnderCommand(r) = {}
      BY <2>1 DEF UnderCommand
    <3> QED
      BY <2>1, <3>1, UploadFacts
  <2>2. CASE /\ IF \E f \in unpack[r].left : archive[f] = 0 THEN UNCHANGED itemFaults ELSE ItemFault
             /\ unpack' = [unpack EXCEPT ![r] = [NoCmd EXCEPT !.pc = "lost"]]
    <3>1. itemFaults' \in 0..MaxItemFaults
      BY <2>2, UploadFault, UploadFacts
    <3> QED
      BY <2>2, <3>1
  <2> QED
    BY <2>1, <2>2 DEF CommandEnds
<1> DEFINE c == [NoCmd EXCEPT !.pc = place]
<1>c. c \in UploadCommand /\ c.pc = place /\ c.left = {} /\ c.stamp = {} /\ c.writing = {}
  BY NoCmdFacts DEF UploadCommand
<1>e. unpack' = [unpack EXCEPT ![r] = c]
  BY <1>0
<1> HIDE DEF c
<1>1. /\ unpack' \in [Runners -> UploadCommand] /\ unpack'[r] = c
      /\ \A q \in Runners : q # r => unpack'[q] = unpack[q]
  BY <1>c, <1>e, UploadFacts
<1>2. UploadShape'
  BY <1>u, <1>0, <1>1 DEF UploadInv, UploadShape
<1>3. ASSUME NEW f \in LocalFiles PROVE UploadBounds(f)'
  BY <1>u, FileFacts DEF UploadBounds
<1>4. ASSUME NEW q \in Runners PROVE ItemForm(q)'
  BY <1>u, <1>c, <1>1, UploadFacts DEF ItemForm, Unpacking
<1>b. UnderCommand(r)' = {} /\ \A q \in Runners : q # r => UnderCommand(q)' = UnderCommand(q)
  BY <1>c, <1>1 DEF UnderCommand, Unpacking
<1>5. ASSUME NEW p \in Runners, NEW q \in Runners PROVE Apart(p, q)'
  <2>0. Apart(p, q)
    BY DEF UploadInv
  <2>1. UnderCommand(p)' \subseteq UnderCommand(p) /\ UnderCommand(q)' \subseteq UnderCommand(q)
    BY <1>b
  <2> QED
    BY <1>u, <2>0, <2>1 DEF Apart
<1>6. ASSUME NEW f \in LocalFiles \ raced
      PROVE  Fresh(f)' /\ \A q \in Runners : CommandHas(q, f)' /\ ItemHas(q, f)'
  <2>0. Fresh(f) /\ \A q \in Runners : CommandHas(q, f) /\ ItemHas(q, f)
    BY FileFacts
  <2>1. Fresh(f)'
    BY <1>u, <2>0 DEF Fresh
  <2>2. ASSUME NEW q \in Runners, q # r PROVE CommandHas(q, f)' /\ ItemHas(q, f)'
    BY <1>u, <1>1, <1>b, <2>0, <2>2 DEF CommandHas, ItemHas, Arrived, Unpacking
  <2>3. CommandHas(r, f)'
    BY <1>1, <1>c DEF CommandHas, Unpacking
  <2>4. ItemHas(r, f)'
    <3>1. run[r].pc \in {"idle", "unpack"} /\ (run[r].pc = "idle" => run[r].files = {})
      BY <1>u, UploadFacts DEF ItemForm
    <3>2. run[r].pc = "unpack" /\ f \in run[r].files /\ place = "ok" => Arrived(r, f)
      BY <1>u, <1>0, <2>0 DEF ItemHas
    <3> QED
      BY <1>u, <1>c, <1>1, <3>1, <3>2 DEF ItemHas, Arrived, Unpacking
  <2> QED
    BY <2>1, <2>2, <2>3, <2>4
<1> QED
  BY <1>u, <1>2, <1>3, <1>4, <1>5, <1>6, UploadFacts DEF UploadInv

LEMMA UploadStep == UploadInv /\ [UploadNext]_uploadVars => UploadInv'
<1> SUFFICES ASSUME UploadInv, [UploadNext]_uploadVars PROVE UploadInv'
  OBVIOUS
<1>1. ASSUME NEW f \in LocalFiles, Edit(f) PROVE UploadInv'
  BY <1>1, UploadEdit
<1>2. ASSUME NEW r \in Runners,
             StartItem(r) \/ Compare(r) \/ Stage(r) \/ Staged(r) \/ Sent(r) \/ Watched(r) \/ PostCommand(r)
             \/ Finish(r) \/ Fail(r) \/ CommandEnds(r)
      PROVE  UploadInv'
  BY <1>2, UploadStartItem, UploadCompare, UploadStage, UploadStaged, UploadSent, UploadEnds, UploadFinish,
     UploadCommandEnds
<1>3. ASSUME NEW r \in Runners, NEW f \in LocalFiles,
             Stat(r, f) \/ Send(r, f) \/ OpenArchive(r, f) \/ Unpacked(r, f) \/ Utime(r, f)
      PROVE  UploadInv'
  BY <1>3, UploadStat, UploadSend, UploadOpenArchive, UploadUnpacked, UploadUtime
<1>4. CASE UNCHANGED uploadVars
  <2>1. UNCHANGED <<local, farm, archive, run, unpack, itemFaults, raced, delivered, stale, resent>>
    BY <1>4 DEF uploadVars, farmVars, historyVars
  <2> QED
    BY <2>1 DEF UploadInv, UploadShape, UploadBounds, ItemForm, Apart, Fresh, CommandHas, ItemHas, Arrived,
       UnderCommand, Unpacking
<1> QED
  BY <1>1, <1>2, <1>3, <1>4 DEF UploadNext

\* The inductive invariant of the uploads.
THEOREM UploadInvariant == UploadSpec => []UploadInv
<1> QED
  BY UploadInit1, UploadStep, PTL DEF UploadSpec

\* The types of the uploads: no version on the farm is newer than the file itself.
THEOREM UploadTypeCorrect == UploadSpec => []UploadTypeOK
<1>1. UploadInv => UploadTypeOK
  <2> SUFFICES ASSUME UploadInv PROVE UploadTypeOK
    OBVIOUS
  <2>1. ASSUME NEW f \in LocalFiles
        PROVE  /\ local[f].ver \in 1..MaxVersion /\ local[f].mtime \in 1..local[f].ver
               /\ farm[f].ver \in 0..local[f].ver /\ archive[f] \in 0..local[f].ver
    BY FileFacts, UploadAssumption DEF UploadBounds
  <2>2. ASSUME NEW r \in Runners
        PROVE  /\ run[r].staged \union run[r].todo \subseteq run[r].files
               /\ unpack[r].pc \in {"none", "running", "ok", "lost"}
               /\ \A f \in LocalFiles : run[r].mtime[f] <= local[f].mtime
    BY UploadFacts, FileFacts DEF UploadBounds, ItemForm, UploadCommand
  <2> QED
    BY <2>1, <2>2 DEF UploadTypeOK, UploadInv, UploadShape
<1> QED
  BY <1>1, UploadInvariant, PTL

\* A file that the comparison of size and time skips is on the farm, whole and as it
\* is here, unless it was edited while it was being sent.
THEOREM SkippedIsAlwaysCurrent == UploadSpec => []SkippedIsCurrent
<1>1. UploadInv => SkippedIsCurrent
  BY DEF UploadInv, SkippedIsCurrent
<1> QED
  BY <1>1, UploadInvariant, PTL

\* A file that was delivered and not touched since is not sent a second time.
THEOREM NothingSentAgain == UploadSpec => []NotSentAgain
<1>1. UploadInv => NotSentAgain
  BY DEF UploadInv, NotSentAgain
<1> QED
  BY <1>1, UploadInvariant, PTL

\* An item ends well only when the farm has each of its files whole, as it was when
\* the item began or newer.
THEOREM SuccessIsAlwaysWhole == UploadSpec => []SuccessIsWhole
<1>1. UploadInv => SuccessIsWhole
  <2> SUFFICES ASSUME UploadInv, NEW r \in Runners, run[r].pc \in {"post", "finish"},
                      NEW f \in run[r].files \ raced
               PROVE  farm[f].whole /\ farm[f].ver >= run[r].from[f]
    BY DEF SuccessIsWhole
  <2>1. f \in LocalFiles
    BY UploadFacts
  <2> QED
    BY <2>1, FileFacts DEF ItemHas, Arrived
<1> QED
  BY <1>1, UploadInvariant, PTL

-----------------------------------------------------------------------------
(* SyncPod: one sync pod for everybody                                     *)

\* The callers share one lock and wait for it.
OneLock == ~ Impatient /\ \A c, d \in Callers : Computer[c] = Computer[d]

Unclaimed == Live \ (kept \union astray)

\* What the holder of the lock knows of the pods, by where it is.
Considered(c) ==
  /\ pc[c] = "start" => Unclaimed \subseteq todo[c]
  /\ pc[c] = "replace" => Unclaimed \subseteq todo[c] \union {mine[c]}
  /\ pc[c] = "create" => Unclaimed = {}
  /\ pc[c] = "dedupe" /\ kept \union astray = {} => todo[c] = {}

SyncInv ==
  /\ TypeOK
  /\ \A c \in Callers : InLoop(c) => Locked(c)
  /\ \A p, q \in Unclaimed : p = q
  /\ \A c \in Callers : Considered(c)
  /\ kept \union astray = {} => deduped = {}

USE DEF callerVars, runpodVars, keeperVars, pastVars, Goto, Running, Stopped, Unmade

LEMMA TypeInit == Init => TypeOK
  BY SyncPodAssumption DEF Init, TypeOK, Computers, Locked, InLoop, Labels

\* What a caller that goes from its place to another does to the lock: the
\* holder it names, if any, is still in the loop.
LEMMA LockType ==
  ASSUME TypeOK, NEW c \in Callers, NEW l \in Labels,
         pc' = [pc EXCEPT ![c] = l],
         LetGo(c) \/ (UNCHANGED lock /\ (InLoop(c) => InLoop(c)'))
  PROVE  /\ pc' \in [Callers -> Labels]
         /\ lock' \in [Computers -> Callers \union {NoCaller}]
         /\ \A d \in Callers : Locked(d)' => InLoop(d)'
  <1>1. pc' \in [Callers -> Labels]
    BY DEF TypeOK
  <1>2. lock' \in [Computers -> Callers \union {NoCaller}]
    BY DEF TypeOK, LetGo
  <1>3. ASSUME NEW d \in Callers, Locked(d)' PROVE InLoop(d)'
    <2>1. Computer[c] \in Computers /\ Computer[d] \in Computers
      BY DEF Computers
    <2>2. Locked(d) /\ ~ (d = c /\ LetGo(c) /\ ~ UNCHANGED lock)
      BY <1>3, <2>1, SyncPodAssumption DEF Locked, LetGo, TypeOK
    <2>3. InLoop(d)
      BY <2>2 DEF TypeOK
    <2>4. CASE d # c
      BY <2>3, <2>4 DEF InLoop, TypeOK
    <2>5. CASE d = c
      BY <2>1, <2>2, <2>3, <2>5, <1>3, SyncPodAssumption DEF LetGo, Locked, TypeOK
    <2> QED BY <2>4, <2>5
  <1> QED BY <1>1, <1>2, <1>3

LEMMA FaultType == TypeOK /\ Fault => faults' \in 0..MaxFaults
  BY SyncPodAssumption DEF TypeOK, Fault

LEMMA TerminatedType ==
  ASSUME TypeOK, NEW p \in Pods, Terminated(p)
  PROVE  /\ pod' \in [Pods -> {"none", "RUNNING", "EXITED", "gone"}]
         /\ ready' \subseteq Running'
  BY DEF TypeOK, Terminated

\* A step of a caller keeps the types: the steps of ensure_sync_pod that hold
\* the lock, those that wait, and what RunPod and the housekeeping do.
LEMMA TypeLoop ==
  ASSUME TypeOK, NEW c \in Callers,
         \/ Look(c) \/ Adopt(c) \/ Replace(c) \/ StartsDone(c) \/ NoMachine(c)
         \/ Create(c) \/ CreateUnheard(c) \/ CallFails(c) \/ Lock(c)
         \/ \E p \in Pods : Dedupe(c, p) \/ Start(c, p) \/ StartRefused(c, p)
  PROVE  TypeOK'
  <1>1. CASE Look(c)
    <2>1. CASE Running = {}
      <3>1. pc' = [pc EXCEPT ![c] = "start"] /\ todo' = [todo EXCEPT ![c] = Stopped] /\ UNCHANGED mine
        BY <1>1, <2>1, Zenon DEF Look, Oldest
      <3>2. "start" \in Labels /\ InLoop(c)'
        BY <3>1 DEF Labels, InLoop, TypeOK
      <3>3. UNCHANGED lock
        BY <1>1 DEF Look
      <3>4. /\ pc' \in [Callers -> Labels]
            /\ lock' \in [Computers -> Callers \union {NoCaller}]
            /\ \A d \in Callers : Locked(d)' => InLoop(d)'
        BY <3>1, <3>2, <3>3, LockType
      <3> QED BY <1>1, <3>1, <3>4, SMTT(60) DEF Look, TypeOK
    <2>2. ASSUME NEW p \in Running, pc' = [pc EXCEPT ![c] = "dedupe"],
                 mine' = [mine EXCEPT ![c] = p],
                 todo' = [todo EXCEPT ![c] = Running \ {p}]
          PROVE  TypeOK'
      <3>2. "dedupe" \in Labels /\ InLoop(c)'
        BY <2>2 DEF Labels, InLoop, TypeOK
      <3>3. UNCHANGED lock
        BY <1>1 DEF Look
      <3>4. /\ pc' \in [Callers -> Labels]
            /\ lock' \in [Computers -> Callers \union {NoCaller}]
            /\ \A d \in Callers : Locked(d)' => InLoop(d)'
        BY <2>2, <3>2, <3>3, LockType
      <3> QED BY <1>1, <2>2, <3>4, SMTT(60) DEF Look, TypeOK, Pods
    <2> QED BY <1>1, <2>1, <2>2, Zenon DEF Look
  <1>2. CASE Adopt(c)
    <2>1. PICK l \in Labels : /\ pc' = [pc EXCEPT ![c] = l]
                              /\ LetGo(c) \/ (UNCHANGED lock /\ (InLoop(c) => InLoop(c)'))
      BY <1>2, SMTT(30) DEF Adopt, Labels, InLoop, TypeOK
    <2>2. /\ pc' \in [Callers -> Labels]
          /\ lock' \in [Computers -> Callers \union {NoCaller}]
          /\ \A d \in Callers : Locked(d)' => InLoop(d)'
      BY <2>1, LockType
    <2> QED BY <1>2, <2>2, SyncPodAssumption, SMTT(60) DEF Adopt, TypeOK, Pods
  <1>3. CASE Replace(c)
    <2>1. PICK l \in Labels : /\ pc' = [pc EXCEPT ![c] = l]
                              /\ LetGo(c) \/ (UNCHANGED lock /\ (InLoop(c) => InLoop(c)'))
      BY <1>3, SMTT(30) DEF Replace, Terminates, TerminateFails, Terminated, Fault, Labels, InLoop, TypeOK
    <2>2. /\ pc' \in [Callers -> Labels]
          /\ lock' \in [Computers -> Callers \union {NoCaller}]
          /\ \A d \in Callers : Locked(d)' => InLoop(d)'
      BY <2>1, LockType
    <2>3. mine[c] \in Pods
      BY <1>3 DEF Replace, TypeOK
    <2>4. /\ pod' \in [Pods -> {"none", "RUNNING", "EXITED", "gone"}]
          /\ ready' \subseteq Running'
          /\ arriving' = arriving /\ faults' \in 0..MaxFaults
          /\ kept' \subseteq Pods /\ astray' = astray
      <3>1. CASE Terminates(mine[c])
        BY <2>3, <3>1, TerminatedType DEF Terminates, TypeOK
      <3>2. CASE TerminateFails(mine[c])
        BY <2>3, <3>2, FaultType DEF TerminateFails, TypeOK
      <3> QED BY <1>3, <3>1, <3>2 DEF Replace
    <2> QED BY <1>3, <2>2, <2>4, SMTT(60) DEF Replace, TypeOK
  <1>4. CASE StartsDone(c)
    <2>1. PICK l \in Labels : /\ pc' = [pc EXCEPT ![c] = l]
                              /\ LetGo(c) \/ (UNCHANGED lock /\ (InLoop(c) => InLoop(c)'))
      BY <1>4, SMTT(30) DEF StartsDone, Labels, InLoop, TypeOK
    <2>2. /\ pc' \in [Callers -> Labels]
          /\ lock' \in [Computers -> Callers \union {NoCaller}]
          /\ \A d \in Callers : Locked(d)' => InLoop(d)'
      BY <2>1, LockType
    <2> QED BY <1>4, <2>2, SyncPodAssumption, SMTT(60) DEF StartsDone, TypeOK, Pods
  <1>5. CASE NoMachine(c)
    <2>1. PICK l \in Labels : /\ pc' = [pc EXCEPT ![c] = l]
                              /\ l \in {"failed", "lock"}
                              /\ LetGo(c)
      BY <1>5, Zenon DEF NoMachine, AnotherRound, Labels
    <2>2. /\ pc' \in [Callers -> Labels]
          /\ lock' \in [Computers -> Callers \union {NoCaller}]
          /\ \A d \in Callers : Locked(d)' => InLoop(d)'
      BY <2>1, LockType
    <2> QED BY <1>5, <2>1, <2>2, SyncPodAssumption, SMTT(60) DEF NoMachine, TypeOK, Pods
  <1>6. CASE Create(c)
    <2>1. PICK l \in Labels : /\ pc' = [pc EXCEPT ![c] = l]
                              /\ LetGo(c) \/ (UNCHANGED lock /\ (InLoop(c) => InLoop(c)'))
      BY <1>6, SMTT(30) DEF Create, Made, Oldest, Labels, InLoop, TypeOK
    <2>2. /\ pc' \in [Callers -> Labels]
          /\ lock' \in [Computers -> Callers \union {NoCaller}]
          /\ \A d \in Callers : Locked(d)' => InLoop(d)'
      BY <2>1, LockType
    <2> QED BY <1>6, <2>2, SyncPodAssumption, SMTT(60) DEF Create, Made, Oldest, TypeOK, Pods
  <1>7. CASE CreateUnheard(c)
    <2>1. PICK l \in Labels : /\ pc' = [pc EXCEPT ![c] = l]
                              /\ l \in {"failed", "lock"}
                              /\ LetGo(c)
      BY <1>7, Zenon DEF CreateUnheard, AnotherRound, Made, Oldest, Fault, Labels, InLoop, TypeOK
    <2>2. /\ pc' \in [Callers -> Labels]
          /\ lock' \in [Computers -> Callers \union {NoCaller}]
          /\ \A d \in Callers : Locked(d)' => InLoop(d)'
      BY <2>1, LockType
    <2> QED BY <1>7, <2>1, <2>2, SyncPodAssumption, SMTT(60) DEF CreateUnheard, Made, Oldest, Fault, TypeOK, Pods
  <1>8. CASE CallFails(c)
    <2>1. PICK l \in Labels : /\ pc' = [pc EXCEPT ![c] = l]
                              /\ l \in {"failed", "lock"}
                              /\ LetGo(c)
      BY <1>8, Zenon DEF CallFails, AnotherRound, Fault, Labels, InLoop, TypeOK
    <2>2. /\ pc' \in [Callers -> Labels]
          /\ lock' \in [Computers -> Callers \union {NoCaller}]
          /\ \A d \in Callers : Locked(d)' => InLoop(d)'
      BY <2>1, LockType
    <2> QED BY <1>8, <2>1, <2>2, FaultType, SMTT(60) DEF CallFails, TypeOK
  <1>9. CASE Lock(c)
    <2>1. Computer[c] \in Computers
      BY DEF Computers
    <2>2. ASSUME NEW d \in Callers, Locked(d)' PROVE InLoop(d)'
      BY <1>9, <2>1, <2>2, SyncPodAssumption DEF Lock, Locked, InLoop, TypeOK, Computers
    <2> QED BY <1>9, <2>1, <2>2, SMTT(60) DEF Lock, TypeOK, Labels
  <1>10. ASSUME NEW p \in Pods, Dedupe(c, p) PROVE TypeOK'
    BY <1>10, SMTT(60) DEF Dedupe, Terminates, Terminated, TypeOK, Locked, InLoop
  <1>11. ASSUME NEW p \in Pods, Start(c, p) PROVE TypeOK'
    <2>1. PICK l \in Labels : /\ pc' = [pc EXCEPT ![c] = l]
                              /\ LetGo(c) \/ (UNCHANGED lock /\ (InLoop(c) => InLoop(c)'))
      BY <1>11, SMTT(30) DEF Start, Labels, InLoop, TypeOK
    <2>2. /\ pc' \in [Callers -> Labels]
          /\ lock' \in [Computers -> Callers \union {NoCaller}]
          /\ \A d \in Callers : Locked(d)' => InLoop(d)'
      BY <2>1, LockType
    <2> QED BY <1>11, <2>2, SyncPodAssumption, SMTT(60) DEF Start, TypeOK, Pods
  <1>12. ASSUME NEW p \in Pods, StartRefused(c, p) PROVE TypeOK'
    <2>1. PICK l \in Labels : /\ pc' = [pc EXCEPT ![c] = l]
                              /\ LetGo(c) \/ (UNCHANGED lock /\ (InLoop(c) => InLoop(c)'))
      BY <1>12, SMTT(30) DEF StartRefused, Fault, Labels, InLoop, TypeOK
    <2>2. /\ pc' \in [Callers -> Labels]
          /\ lock' \in [Computers -> Callers \union {NoCaller}]
          /\ \A d \in Callers : Locked(d)' => InLoop(d)'
      BY <2>1, LockType
    <2>3. /\ pod' \in [Pods -> {"none", "RUNNING", "EXITED", "gone"}]
          /\ ready' \subseteq Running'
          /\ faults' \in 0..MaxFaults
      BY <1>12, FaultType DEF StartRefused, TypeOK
    <2>4. /\ pc' = [pc EXCEPT ![c] = "replace"]
          /\ todo' = [todo EXCEPT ![c] = @ \ {p}] /\ mine' = [mine EXCEPT ![c] = p]
          /\ UNCHANGED <<arriving, visits, visit, woken, late, endless, kept, astray, deduped>>
      BY <1>12, Zenon DEF StartRefused
    <2> QED BY <2>2, <2>3, <2>4, SMTT(60) DEF TypeOK, Pods
  <1> QED BY <1>1, <1>2, <1>3, <1>4, <1>5, <1>6, <1>7, <1>8, <1>9, <1>10, <1>11, <1>12

LEMMA TypeWait ==
  ASSUME TypeOK, NEW c \in Callers,
         \/ Ensure(c) \/ DeadlinePasses(c) \/ LockTimesOut(c) \/ Ready(c) \/ Vanished(c)
         \/ WaitFails(c) \/ TimesOut(c) \/ GiveBack(c) \/ Again(c) \/ Done(c)
         \/ Crash(c)
  PROVE  TypeOK'
  <1>1. CASE Ensure(c)
    <2>1. PICK l \in Labels : /\ pc' = [pc EXCEPT ![c] = l]
                              /\ LetGo(c) \/ (UNCHANGED lock /\ (InLoop(c) => InLoop(c)'))
      BY <1>1, SMTT(30) DEF Ensure, Labels, InLoop
    <2>2. /\ pc' \in [Callers -> Labels]
          /\ lock' \in [Computers -> Callers \union {NoCaller}]
          /\ \A d \in Callers : Locked(d)' => InLoop(d)'
      BY <2>1, LockType
    <2> QED BY <1>1, <2>2, SMTT(60) DEF Ensure, TypeOK
  <1>2. CASE LockTimesOut(c)
    <2>1. PICK l \in Labels : /\ pc' = [pc EXCEPT ![c] = l]
                              /\ LetGo(c) \/ (UNCHANGED lock /\ (InLoop(c) => InLoop(c)'))
      BY <1>2, SMTT(30) DEF LockTimesOut, Labels, InLoop, TypeOK
    <2>2. /\ pc' \in [Callers -> Labels]
          /\ lock' \in [Computers -> Callers \union {NoCaller}]
          /\ \A d \in Callers : Locked(d)' => InLoop(d)'
      BY <2>1, LockType
    <2> QED BY <1>2, <2>2, SMTT(60) DEF LockTimesOut, TypeOK
  <1>3. CASE Ready(c)
    <2>1. PICK l \in Labels : /\ pc' = [pc EXCEPT ![c] = l]
                              /\ LetGo(c) \/ (UNCHANGED lock /\ (InLoop(c) => InLoop(c)'))
      BY <1>3, SMTT(30) DEF Ready, Labels, InLoop
    <2>2. /\ pc' \in [Callers -> Labels]
          /\ lock' \in [Computers -> Callers \union {NoCaller}]
          /\ \A d \in Callers : Locked(d)' => InLoop(d)'
      BY <2>1, LockType
    <2> QED BY <1>3, <2>2, SMTT(60) DEF Ready, TypeOK
  <1>4. CASE Vanished(c)
    <2>1. PICK l \in Labels : /\ pc' = [pc EXCEPT ![c] = l]
                              /\ LetGo(c) \/ (UNCHANGED lock /\ (InLoop(c) => InLoop(c)'))
      BY <1>4, Zenon DEF Vanished, Labels, InLoop
    <2>2. /\ pc' \in [Callers -> Labels]
          /\ lock' \in [Computers -> Callers \union {NoCaller}]
          /\ \A d \in Callers : Locked(d)' => InLoop(d)'
      BY <2>1, LockType
    <2> QED BY <1>4, <2>2, SMTT(60) DEF Vanished, TypeOK
  <1>5. CASE TimesOut(c)
    <2>1. PICK l \in Labels : /\ pc' = [pc EXCEPT ![c] = l]
                              /\ LetGo(c) \/ (UNCHANGED lock /\ (InLoop(c) => InLoop(c)'))
      BY <1>5, Zenon DEF TimesOut, Labels, InLoop
    <2>2. /\ pc' \in [Callers -> Labels]
          /\ lock' \in [Computers -> Callers \union {NoCaller}]
          /\ \A d \in Callers : Locked(d)' => InLoop(d)'
      BY <2>1, LockType
    <2> QED BY <1>5, <2>2, SMTT(60) DEF TimesOut, TypeOK
  <1>6. CASE GiveBack(c)
    <2>1. PICK l \in Labels : /\ pc' = [pc EXCEPT ![c] = l]
                              /\ LetGo(c) \/ (UNCHANGED lock /\ (InLoop(c) => InLoop(c)'))
      BY <1>6, SMTT(30) DEF GiveBack, Labels, InLoop
    <2>2. /\ pc' \in [Callers -> Labels]
          /\ lock' \in [Computers -> Callers \union {NoCaller}]
          /\ \A d \in Callers : Locked(d)' => InLoop(d)'
      BY <2>1, LockType
    <2>3. mine[c] \in Pods
      BY <1>6 DEF GiveBack, TypeOK
    <2>4. /\ pod' \in [Pods -> {"none", "RUNNING", "EXITED", "gone"}]
          /\ ready' \subseteq Running'
          /\ arriving' = arriving /\ faults' \in 0..MaxFaults
          /\ kept' \subseteq Pods /\ astray' = astray
      <3>1. CASE Terminates(mine[c])
        BY <2>3, <3>1, TerminatedType DEF Terminates, TypeOK
      <3>2. CASE TerminateFails(mine[c])
        BY <2>3, <3>2, FaultType DEF TerminateFails, TypeOK
      <3> QED BY <1>6, <3>1, <3>2 DEF GiveBack
    <2> QED BY <1>6, <2>2, <2>4, SMTT(60) DEF GiveBack, TypeOK
  <1>7. CASE Again(c)
    <2>1. PICK l \in Labels : /\ pc' = [pc EXCEPT ![c] = l]
                              /\ LetGo(c) \/ (UNCHANGED lock /\ (InLoop(c) => InLoop(c)'))
      BY <1>7, SMTT(30) DEF Again, Labels, InLoop
    <2>2. /\ pc' \in [Callers -> Labels]
          /\ lock' \in [Computers -> Callers \union {NoCaller}]
          /\ \A d \in Callers : Locked(d)' => InLoop(d)'
      BY <2>1, LockType
    <2> QED BY <1>7, <2>2, SMTT(60) DEF Again, TypeOK
  <1>8. CASE Done(c)
    <2>1. PICK l \in Labels : /\ pc' = [pc EXCEPT ![c] = l]
                              /\ LetGo(c) \/ (UNCHANGED lock /\ (InLoop(c) => InLoop(c)'))
      BY <1>8, SMTT(30) DEF Done, Labels, InLoop
    <2>2. /\ pc' \in [Callers -> Labels]
          /\ lock' \in [Computers -> Callers \union {NoCaller}]
          /\ \A d \in Callers : Locked(d)' => InLoop(d)'
      BY <2>1, LockType
    <2> QED BY <1>8, <2>2, SMTT(60) DEF Done, TypeOK
  <1>9. CASE Crash(c)
    <2>1. PICK l \in Labels : /\ pc' = [pc EXCEPT ![c] = l]
                              /\ LetGo(c) \/ (UNCHANGED lock /\ (InLoop(c) => InLoop(c)'))
      BY <1>9 DEF Crash, Labels
    <2>2. /\ pc' \in [Callers -> Labels]
          /\ lock' \in [Computers -> Callers \union {NoCaller}]
          /\ \A d \in Callers : Locked(d)' => InLoop(d)'
      BY <2>1, LockType
    <2> QED BY <1>9, <2>2, FaultType, SMTT(60) DEF Crash, TypeOK
  <1>10. CASE WaitFails(c)
    <2>1. PICK l \in Labels : /\ pc' = [pc EXCEPT ![c] = l]
                              /\ LetGo(c) \/ (UNCHANGED lock /\ (InLoop(c) => InLoop(c)'))
      BY <1>10, SMTT(30) DEF WaitFails, Labels, InLoop
    <2>2. /\ pc' \in [Callers -> Labels]
          /\ lock' \in [Computers -> Callers \union {NoCaller}]
          /\ \A d \in Callers : Locked(d)' => InLoop(d)'
      BY <2>1, LockType
    <2> QED BY <1>10, <2>2, FaultType, SMTT(60) DEF WaitFails, TypeOK
  <1>11. CASE DeadlinePasses(c)
    BY <1>11, SMTT(60) DEF DeadlinePasses, TypeOK, Locked, InLoop
  <1> QED BY <1>1, <1>2, <1>3, <1>4, <1>5, <1>6, <1>7, <1>8, <1>9, <1>10, <1>11

LEMMA TypeAround ==
  ASSUME TypeOK,
         Arrive \/ Act \/ \E p \in Pods : Boot(p) \/ FallsAsleep(p) \/ Inspect(p)
  PROVE  TypeOK'
  <1>1. CASE Arrive
    BY <1>1, SMTT(60) DEF Arrive, Made, Oldest, TypeOK, Locked, InLoop
  <1>2. CASE Act
    <2>1. visit[2] \in Pods
      BY <1>2 DEF Act, TypeOK
    <2>2. /\ pod' \in [Pods -> {"none", "RUNNING", "EXITED", "gone"}]
          /\ ready' \subseteq Running'
      <3>1. CASE visit[1] = "delete"
        BY <1>2, <2>1, <3>1, TerminatedType DEF Act
      <3>2. CASE visit[1] # "delete"
        BY <1>2, <2>1, <3>2 DEF Act, TypeOK
      <3> QED BY <3>1, <3>2
    <2> QED BY <1>2, <2>2, SMTT(60) DEF Act, TypeOK, Locked, InLoop
  <1>3. ASSUME NEW p \in Pods, Boot(p) PROVE TypeOK'
    BY <1>3, SMTT(60) DEF Boot, TypeOK, Locked, InLoop
  <1>4. ASSUME NEW p \in Pods, FallsAsleep(p) PROVE TypeOK'
    BY <1>4, FaultType, SMTT(60) DEF FallsAsleep, TypeOK, Locked, InLoop
  <1>5. ASSUME NEW p \in Pods, Inspect(p) PROVE TypeOK'
    BY <1>5, SyncPodAssumption, SMTT(60) DEF Inspect, TypeOK, Locked, InLoop
  <1> QED BY <1>1, <1>2, <1>3, <1>4, <1>5

LEMMA TypeNext == TypeOK /\ [Next]_syncPodVars => TypeOK'
  <1> SUFFICES ASSUME TypeOK, [Next]_syncPodVars PROVE TypeOK'
    OBVIOUS
  <1>1. CASE UNCHANGED syncPodVars
    BY <1>1 DEF syncPodVars, TypeOK, Locked, InLoop
  <1>2. ASSUME NEW c \in Callers, Caller(c) PROVE TypeOK'
    BY <1>2, TypeLoop, TypeWait, Zenon DEF Caller, Progress
  <1>3. CASE Arrive \/ Act \/ \E p \in Pods : Boot(p) \/ FallsAsleep(p) \/ Inspect(p)
    BY <1>3, TypeAround
  <1> QED BY <1>1, <1>2, <1>3, Zenon DEF Next

\* ensure_sync_pod and the housekeeping keep their types: in particular a
\* caller holds the lock only inside the loop that lists and creates, and a
\* pod that RunPod has taken away does not answer.
THEOREM Typed == Spec => []TypeOK
  BY TypeInit, TypeNext, PTL DEF Spec

-----------------------------------------------------------------------------

LEMMA SyncInit == Init => SyncInv
  <1> SUFFICES ASSUME Init PROVE SyncInv
    OBVIOUS
  <1>1. TypeOK
    BY TypeInit
  <1>2. Unclaimed = {}
    BY DEF Init, Unclaimed, Live
  <1>3. \A c \in Callers : ~ InLoop(c) /\ Considered(c)
    BY DEF Init, InLoop, Considered
  <1> QED BY <1>1, <1>2, <1>3 DEF SyncInv, Init

\* Under one lock, one caller at a time is in the loop.
LEMMA OneInLoop ==
  ASSUME OneLock, SyncInv, NEW c \in Callers, NEW d \in Callers, InLoop(c), InLoop(d)
  PROVE  c = d
  BY DEF OneLock, SyncInv, Locked

\* A step of a caller that treats the lock well, and adds no pod but one, from
\* inside the loop, keeps the invariant.
LEMMA CallerStep ==
  ASSUME OneLock, SyncInv, TypeOK', NEW c \in Callers,
         \A d \in Callers \ {c} : pc'[d] = pc[d] /\ todo'[d] = todo[d] /\ mine'[d] = mine[d],
         \/ UNCHANGED lock
         \/ LetGo(c)
         \/ lock[Computer[c]] = NoCaller /\ lock' = [lock EXCEPT ![Computer[c]] = c],
         InLoop(c)' => Locked(c)',
         Considered(c)',
         kept \subseteq kept', astray \subseteq astray',
         kept \union astray = {} => deduped' = deduped,
         Unclaimed' \subseteq Unclaimed \/ (InLoop(c) /\ \E p \in Pods : Unclaimed' \subseteq {p})
  PROVE  SyncInv'
  <1>1. ASSUME NEW d \in Callers, InLoop(d)' PROVE Locked(d)'
    <2>1. CASE d = c
      BY <1>1, <2>1
    <2>2. CASE d # c
      <3>1. InLoop(d) /\ Locked(d)
        BY <1>1, <2>2 DEF InLoop, SyncInv
      <3>2. Computer[d] = Computer[c] /\ Computer[c] \in Computers /\ lock[Computer[c]] = d
        BY <3>1 DEF OneLock, Computers, Locked
      <3>3. UNCHANGED lock
        BY <2>2, <3>2, SyncPodAssumption DEF LetGo, Locked
      <3> QED BY <3>2, <3>3 DEF Locked
    <2> QED BY <2>1, <2>2
  <1>2. \A p, q \in Unclaimed' : p = q
    BY DEF SyncInv
  <1>3. ASSUME NEW d \in Callers PROVE Considered(d)'
    <2>1. CASE d = c
      BY <2>1
    <2>2. CASE ~ InLoop(d) /\ d # c
      BY <2>2 DEF Considered, InLoop
    <2>3. CASE InLoop(d) /\ d # c
      <3>1. ~ InLoop(c)
        BY <2>3, OneInLoop
      <3>2. Unclaimed' \subseteq Unclaimed
        BY <3>1
      <3>3. Considered(d)
        BY DEF SyncInv
      <3> QED BY <2>3, <3>2, <3>3 DEF Considered
    <2> QED BY <2>1, <2>2, <2>3
  <1>4. (kept \union astray)' = {} => deduped' = {}
    BY DEF SyncInv
  <1> QED BY <1>1, <1>2, <1>3, <1>4 DEF SyncInv

\* ... and so does a step of RunPod or of the housekeeping that adds none.
LEMMA OtherStep ==
  ASSUME SyncInv, TypeOK', UNCHANGED <<pc, lock, todo, mine, deduped>>,
         kept \subseteq kept', astray \subseteq astray', Unclaimed' \subseteq Unclaimed
  PROVE  SyncInv'
  <1>1. \A c \in Callers : InLoop(c)' => Locked(c)'
    BY DEF SyncInv, InLoop, Locked
  <1>2. ASSUME NEW c \in Callers PROVE Considered(c)'
    BY DEF SyncInv, Considered
  <1>3. (\A p, q \in Unclaimed : p = q)' /\ ((kept \union astray)' = {} => deduped' = {})
    BY DEF SyncInv
  <1> QED BY <1>1, <1>2, <1>3 DEF SyncInv

LEMMA FreshTerminated ==
  ASSUME TypeOK, NEW p \in Pods, Terminates(p) \/ TerminateFails(p)
  PROVE  /\ Unclaimed' \subseteq Unclaimed \ {p}
         /\ kept \subseteq kept' /\ astray \subseteq astray'
  <1>1. CASE Terminates(p)
    BY <1>1 DEF Terminates, Terminated, Unclaimed, Live, TypeOK
  <1>2. CASE TerminateFails(p)
    BY <1>2 DEF TerminateFails, Unclaimed, Live
  <1> QED BY <1>1, <1>2

\* Every step of a caller outside the loop, or into it, that changes no pod.
LEMMA InvOutside ==
  ASSUME OneLock, SyncInv, TypeOK', NEW c \in Callers,
         \/ Ensure(c) \/ DeadlinePasses(c) \/ Lock(c) \/ LockTimesOut(c) \/ Ready(c)
         \/ Vanished(c) \/ WaitFails(c) \/ TimesOut(c) \/ Again(c) \/ Done(c) \/ Crash(c) \/ Adopt(c)
         \/ NoMachine(c) \/ CallFails(c)
  PROVE  SyncInv'
  <1> USE DEF SyncInv
  <1>0. TypeOK /\ ~ Impatient
    BY DEF OneLock
  <1>1. CASE Ensure(c)
    <2>1. PICK l \in Labels : /\ pc' = [pc EXCEPT ![c] = l]
                              /\ l \in {"idle", "lock", "wait", "give", "again", "using", "failed"}
      BY <1>1, SMTT(30) DEF Ensure, Labels
    <2>2. ~ InLoop(c)' /\ Considered(c)'
      BY <1>0, <2>1 DEF InLoop, Considered, TypeOK
    <2>3. \A d \in Callers \ {c} : pc'[d] = pc[d] /\ todo'[d] = todo[d] /\ mine'[d] = mine[d]
      BY <1>0, <1>1, <2>1 DEF Ensure, TypeOK
    <2>4. UNCHANGED <<lock, pod, kept, astray, deduped>>
      BY <1>1 DEF Ensure
    <2>5. Unclaimed' = Unclaimed
      BY <2>4 DEF Unclaimed, Live
    <2> QED BY <2>2, <2>3, <2>4, <2>5, CallerStep
  <1>2. CASE Ready(c)
    <2>1. PICK l \in Labels : /\ pc' = [pc EXCEPT ![c] = l]
                              /\ l \in {"idle", "lock", "wait", "give", "again", "using", "failed"}
      BY <1>2, SMTT(30) DEF Ready, Labels
    <2>2. ~ InLoop(c)' /\ Considered(c)'
      BY <1>0, <2>1 DEF InLoop, Considered, TypeOK
    <2>3. \A d \in Callers \ {c} : pc'[d] = pc[d] /\ todo'[d] = todo[d] /\ mine'[d] = mine[d]
      BY <1>0, <1>2, <2>1 DEF Ready, TypeOK
    <2>4. UNCHANGED <<lock, pod, kept, astray, deduped>>
      BY <1>2 DEF Ready
    <2>5. Unclaimed' = Unclaimed
      BY <2>4 DEF Unclaimed, Live
    <2> QED BY <2>2, <2>3, <2>4, <2>5, CallerStep
  <1>3. CASE Vanished(c)
    <2>1. PICK l \in Labels : /\ pc' = [pc EXCEPT ![c] = l]
                              /\ l \in {"idle", "lock", "wait", "give", "again", "using", "failed"}
      BY <1>3, Zenon DEF Vanished, Labels
    <2>2. ~ InLoop(c)' /\ Considered(c)'
      BY <1>0, <2>1 DEF InLoop, Considered, TypeOK
    <2>3. \A d \in Callers \ {c} : pc'[d] = pc[d] /\ todo'[d] = todo[d] /\ mine'[d] = mine[d]
      BY <1>0, <1>3, <2>1 DEF Vanished, TypeOK
    <2>4. UNCHANGED <<lock, pod, kept, astray, deduped>>
      BY <1>3 DEF Vanished
    <2>5. Unclaimed' = Unclaimed
      BY <2>4 DEF Unclaimed, Live
    <2> QED BY <2>2, <2>3, <2>4, <2>5, CallerStep
  <1>4. CASE TimesOut(c)
    <2>1. PICK l \in Labels : /\ pc' = [pc EXCEPT ![c] = l]
                              /\ l \in {"idle", "lock", "wait", "give", "again", "using", "failed"}
      BY <1>4, Zenon DEF TimesOut, Labels
    <2>2. ~ InLoop(c)' /\ Considered(c)'
      BY <1>0, <2>1 DEF InLoop, Considered, TypeOK
    <2>3. \A d \in Callers \ {c} : pc'[d] = pc[d] /\ todo'[d] = todo[d] /\ mine'[d] = mine[d]
      BY <1>0, <1>4, <2>1 DEF TimesOut, TypeOK
    <2>4. UNCHANGED <<lock, pod, kept, astray, deduped>>
      BY <1>4 DEF TimesOut
    <2>5. Unclaimed' = Unclaimed
      BY <2>4 DEF Unclaimed, Live
    <2> QED BY <2>2, <2>3, <2>4, <2>5, CallerStep
  <1>5. CASE Again(c)
    <2>1. PICK l \in Labels : /\ pc' = [pc EXCEPT ![c] = l]
                              /\ l \in {"idle", "lock", "wait", "give", "again", "using", "failed"}
      BY <1>5, SMTT(30) DEF Again, Labels
    <2>2. ~ InLoop(c)' /\ Considered(c)'
      BY <1>0, <2>1 DEF InLoop, Considered, TypeOK
    <2>3. \A d \in Callers \ {c} : pc'[d] = pc[d] /\ todo'[d] = todo[d] /\ mine'[d] = mine[d]
      BY <1>0, <1>5, <2>1 DEF Again, TypeOK
    <2>4. UNCHANGED <<lock, pod, kept, astray, deduped>>
      BY <1>5 DEF Again
    <2>5. Unclaimed' = Unclaimed
      BY <2>4 DEF Unclaimed, Live
    <2> QED BY <2>2, <2>3, <2>4, <2>5, CallerStep
  <1>6. CASE Done(c)
    <2>1. PICK l \in Labels : /\ pc' = [pc EXCEPT ![c] = l]
                              /\ l \in {"idle", "lock", "wait", "give", "again", "using", "failed"}
      BY <1>6, SMTT(30) DEF Done, Labels
    <2>2. ~ InLoop(c)' /\ Considered(c)'
      BY <1>0, <2>1 DEF InLoop, Considered, TypeOK
    <2>3. \A d \in Callers \ {c} : pc'[d] = pc[d] /\ todo'[d] = todo[d] /\ mine'[d] = mine[d]
      BY <1>0, <1>6, <2>1 DEF Done, TypeOK
    <2>4. UNCHANGED <<lock, pod, kept, astray, deduped>>
      BY <1>6 DEF Done
    <2>5. Unclaimed' = Unclaimed
      BY <2>4 DEF Unclaimed, Live
    <2> QED BY <2>2, <2>3, <2>4, <2>5, CallerStep
  <1>7. CASE Crash(c)
    <2>1. PICK l \in Labels : /\ pc' = [pc EXCEPT ![c] = l]
                              /\ l \in {"idle", "lock", "wait", "give", "again", "using", "failed"}
      BY <1>7, SMTT(30) DEF Crash, Labels
    <2>2. ~ InLoop(c)' /\ Considered(c)'
      BY <1>0, <2>1 DEF InLoop, Considered, TypeOK
    <2>3. \A d \in Callers \ {c} : pc'[d] = pc[d] /\ todo'[d] = todo[d] /\ mine'[d] = mine[d]
      BY <1>0, <1>7, <2>1 DEF Crash, TypeOK
    <2>4. UNCHANGED <<pod, astray, deduped>> /\ kept \subseteq kept' /\ LetGo(c)
      BY <1>7 DEF Crash
    <2>5. Unclaimed' \subseteq Unclaimed
      BY <2>4 DEF Unclaimed, Live
    <2> QED BY <2>2, <2>3, <2>4, <2>5, CallerStep
  <1>8. CASE Adopt(c)
    <2>1. PICK l \in Labels : /\ pc' = [pc EXCEPT ![c] = l]
                              /\ l \in {"idle", "lock", "wait", "give", "again", "using", "failed"}
      BY <1>8, SMTT(30) DEF Adopt, Labels
    <2>2. ~ InLoop(c)' /\ Considered(c)'
      BY <1>0, <2>1 DEF InLoop, Considered, TypeOK
    <2>3. \A d \in Callers \ {c} : pc'[d] = pc[d] /\ todo'[d] = todo[d] /\ mine'[d] = mine[d]
      BY <1>0, <1>8, <2>1 DEF Adopt, TypeOK
    <2>4. UNCHANGED <<pod, astray, deduped>> /\ kept \subseteq kept' /\ LetGo(c)
      BY <1>8 DEF Adopt
    <2>5. Unclaimed' \subseteq Unclaimed
      BY <2>4 DEF Unclaimed, Live
    <2> QED BY <2>2, <2>3, <2>4, <2>5, CallerStep
  <1>9. CASE NoMachine(c)
    <2>1. PICK l \in Labels : /\ pc' = [pc EXCEPT ![c] = l]
                              /\ l \in {"idle", "lock", "wait", "give", "again", "using", "failed"}
      BY <1>9, Zenon DEF NoMachine, AnotherRound, Labels
    <2>2. ~ InLoop(c)' /\ Considered(c)'
      BY <1>0, <2>1 DEF InLoop, Considered, TypeOK
    <2>3. \A d \in Callers \ {c} : pc'[d] = pc[d] /\ todo'[d] = todo[d] /\ mine'[d] = mine[d]
      BY <1>0, <1>9, <2>1 DEF NoMachine, TypeOK
    <2>4. UNCHANGED <<pod, astray, deduped>> /\ kept \subseteq kept' /\ LetGo(c)
      BY <1>9 DEF NoMachine
    <2>5. Unclaimed' \subseteq Unclaimed
      BY <2>4 DEF Unclaimed, Live
    <2> QED BY <2>2, <2>3, <2>4, <2>5, CallerStep
  <1>10. CASE CallFails(c)
    <2>1. PICK l \in Labels : /\ pc' = [pc EXCEPT ![c] = l]
                              /\ l \in {"idle", "lock", "wait", "give", "again", "using", "failed"}
      BY <1>10, Zenon DEF CallFails, AnotherRound, Labels
    <2>2. ~ InLoop(c)' /\ Considered(c)'
      BY <1>0, <2>1 DEF InLoop, Considered, TypeOK
    <2>3. \A d \in Callers \ {c} : pc'[d] = pc[d] /\ todo'[d] = todo[d] /\ mine'[d] = mine[d]
      BY <1>0, <1>10, <2>1 DEF CallFails, TypeOK
    <2>4. UNCHANGED <<pod, astray, deduped>> /\ kept \subseteq kept' /\ LetGo(c)
      BY <1>10 DEF CallFails
    <2>5. Unclaimed' \subseteq Unclaimed
      BY <2>4 DEF Unclaimed, Live
    <2> QED BY <2>2, <2>3, <2>4, <2>5, CallerStep
  <1>11. CASE DeadlinePasses(c)
    <2>1. UNCHANGED <<pc, lock, todo, mine, pod, kept, astray, deduped>>
      BY <1>11 DEF DeadlinePasses
    <2>2. Unclaimed' = Unclaimed
      BY <2>1 DEF Unclaimed, Live
    <2> QED BY <2>1, <2>2, OtherStep
  <1>12. CASE Lock(c)
    <2>1. pc' = [pc EXCEPT ![c] = "look"] /\ UNCHANGED <<todo, mine, pod, kept, astray, deduped>>
      BY <1>12 DEF Lock
    <2>2. Locked(c)'
      BY <1>0, <1>12 DEF Lock, Locked, Computers, TypeOK
    <2>3. Considered(c)'
      BY <1>0, <2>1 DEF Considered, TypeOK
    <2>4. \A d \in Callers \ {c} : pc'[d] = pc[d] /\ todo'[d] = todo[d] /\ mine'[d] = mine[d]
      BY <1>0, <2>1 DEF TypeOK
    <2>5. Unclaimed' = Unclaimed
      BY <2>1 DEF Unclaimed, Live
    <2>6. lock[Computer[c]] = NoCaller /\ lock' = [lock EXCEPT ![Computer[c]] = c]
      BY <1>12 DEF Lock
    <2> QED BY <2>1, <2>2, <2>3, <2>4, <2>5, <2>6, CallerStep
  <1>13. CASE LockTimesOut(c)
    BY <1>0, <1>13 DEF LockTimesOut
  <1>14. CASE WaitFails(c)
    <2>1. pc' = [pc EXCEPT ![c] = "failed"] /\ UNCHANGED <<lock, todo, mine, pod, kept, astray, deduped>>
      BY <1>14 DEF WaitFails
    <2>2. ~ InLoop(c)' /\ Considered(c)'
      BY <1>0, <2>1 DEF InLoop, Considered, TypeOK
    <2>3. \A d \in Callers \ {c} : pc'[d] = pc[d] /\ todo'[d] = todo[d] /\ mine'[d] = mine[d]
      BY <1>0, <2>1 DEF TypeOK
    <2>4. Unclaimed' = Unclaimed
      BY <2>1 DEF Unclaimed, Live
    <2> QED BY <2>1, <2>2, <2>3, <2>4, CallerStep
  <1> QED BY <1>1, <1>2, <1>3, <1>4, <1>5, <1>6, <1>7, <1>8, <1>9, <1>10, <1>11, <1>12, <1>13, <1>14

\* The steps inside the loop, and the give-back of a pod.
LEMMA InvLook ==
  ASSUME OneLock, SyncInv, TypeOK', NEW c \in Callers, Look(c)
  PROVE  SyncInv'
  <1> USE DEF SyncInv
  <1>1. UNCHANGED <<lock, pod, kept, astray, deduped>> /\ pc[c] = "look"
    BY DEF Look
  <1>2. Unclaimed' = Unclaimed /\ InLoop(c) /\ Locked(c)'
    BY <1>1 DEF Unclaimed, Live, InLoop, Locked
  <1>3. CASE Running = {}
    <2>1. pc' = [pc EXCEPT ![c] = "start"] /\ todo' = [todo EXCEPT ![c] = Stopped] /\ UNCHANGED mine
      BY <1>3, Zenon DEF Look, Oldest
    <2>2. Considered(c)'
      BY <1>2, <1>3, <2>1 DEF Considered, Unclaimed, Live, TypeOK
    <2>3. \A d \in Callers \ {c} : pc'[d] = pc[d] /\ todo'[d] = todo[d] /\ mine'[d] = mine[d]
      BY <2>1 DEF TypeOK
    <2> QED BY <1>1, <1>2, <2>2, <2>3, CallerStep
  <1>4. ASSUME NEW p \in Running, pc' = [pc EXCEPT ![c] = "dedupe"],
               mine' = [mine EXCEPT ![c] = p],
               todo' = [todo EXCEPT ![c] = Running \ {p}]
        PROVE  SyncInv'
    <2>1. kept \union astray = {} => Running \ {p} = {}
      BY DEF Unclaimed, Live
    <2>2. Considered(c)'
      BY <1>1, <1>4, <2>1 DEF Considered, TypeOK
    <2>3. \A d \in Callers \ {c} : pc'[d] = pc[d] /\ todo'[d] = todo[d] /\ mine'[d] = mine[d]
      BY <1>4 DEF TypeOK
    <2> QED BY <1>1, <1>2, <2>2, <2>3, CallerStep
  <1> QED BY <1>3, <1>4, Zenon DEF Look

LEMMA InvInside ==
  ASSUME OneLock, SyncInv, TypeOK', NEW c \in Callers,
         \/ Replace(c) \/ GiveBack(c) \/ StartsDone(c) \/ Create(c) \/ CreateUnheard(c)
         \/ \E p \in Pods : Dedupe(c, p) \/ Start(c, p) \/ StartRefused(c, p)
  PROVE  SyncInv'
  <1> USE DEF SyncInv
  <1>0. InLoop(c) => Locked(c)
    OBVIOUS
  <1>1. CASE Replace(c)
    <2>1. pc[c] = "replace" /\ mine[c] \in Pods /\ InLoop(c)
      BY <1>1 DEF Replace, TypeOK, InLoop
    <2>2. /\ Unclaimed' \subseteq Unclaimed \ {mine[c]}
          /\ kept \subseteq kept' /\ astray \subseteq astray'
      BY <1>1, <2>1, FreshTerminated DEF Replace
    <2>3. pc' = [pc EXCEPT ![c] = "start"] /\ UNCHANGED <<lock, todo, mine, deduped>>
      BY <1>1 DEF Replace
    <2>4. Considered(c)'
      BY <2>1, <2>2, <2>3 DEF Considered, TypeOK
    <2>5. \A d \in Callers \ {c} : pc'[d] = pc[d] /\ todo'[d] = todo[d] /\ mine'[d] = mine[d]
      BY <2>3 DEF TypeOK
    <2> QED BY <1>0, <2>1, <2>2, <2>3, <2>4, <2>5, CallerStep DEF Locked
  <1>2. CASE GiveBack(c)
    <2>1. pc[c] = "give" /\ mine[c] \in Pods
      BY <1>2 DEF GiveBack, TypeOK
    <2>2. /\ Unclaimed' \subseteq Unclaimed \ {mine[c]}
          /\ kept \subseteq kept' /\ astray \subseteq astray'
      BY <1>2, <2>1, FreshTerminated DEF GiveBack
    <2>3. pc' = [pc EXCEPT ![c] = "again"] /\ UNCHANGED <<lock, todo, mine, deduped>>
      BY <1>2 DEF GiveBack
    <2>4. Considered(c)' /\ ~ InLoop(c)'
      BY <2>3 DEF Considered, InLoop, TypeOK
    <2>5. \A d \in Callers \ {c} : pc'[d] = pc[d] /\ todo'[d] = todo[d] /\ mine'[d] = mine[d]
      BY <2>3 DEF TypeOK
    <2> QED BY <2>2, <2>3, <2>4, <2>5, CallerStep
  <1>3. CASE StartsDone(c)
    <2>1. pc[c] = "start" /\ todo[c] = {} /\ InLoop(c)
      BY <1>3 DEF StartsDone, InLoop
    <2>2. Unclaimed = {}
      BY <2>1 DEF Considered
    <2>3. pc' = [pc EXCEPT ![c] = "create"] /\ UNCHANGED <<lock, todo, mine, deduped, pod, kept, astray>>
      BY <1>3 DEF StartsDone
    <2>4. Considered(c)' /\ Unclaimed' = Unclaimed
      BY <2>2, <2>3 DEF Considered, Unclaimed, Live, TypeOK
    <2>5. \A d \in Callers \ {c} : pc'[d] = pc[d] /\ todo'[d] = todo[d] /\ mine'[d] = mine[d]
      BY <2>3 DEF TypeOK
    <2> QED BY <1>0, <2>1, <2>3, <2>4, <2>5, CallerStep DEF Locked
  <1>4. CASE Create(c) \/ CreateUnheard(c)
    <2>1. pc[c] = "create" /\ InLoop(c) /\ UNCHANGED <<todo, deduped, kept, astray>> /\ LetGo(c)
      BY <1>4 DEF Create, CreateUnheard, InLoop
    <2>2. Unclaimed = {}
      BY <2>1 DEF Considered
    <2>3. PICK p \in Pods : Made(p)
      BY <1>4 DEF Create, CreateUnheard
    <2>4. Unclaimed' \subseteq {p}
      BY <2>1, <2>2, <2>3 DEF Made, Oldest, Unclaimed, Live, TypeOK
    <2>5. \A d \in Callers \ {c} : pc'[d] = pc[d] /\ todo'[d] = todo[d] /\ mine'[d] = mine[d]
      BY <1>4, <2>1 DEF Create, CreateUnheard, AnotherRound, TypeOK
    <2>6. PICK l \in {"wait", "failed", "lock"} : pc' = [pc EXCEPT ![c] = l]
      BY <1>4, Zenon DEF Create, CreateUnheard, AnotherRound
    <2>7. Considered(c)' /\ ~ InLoop(c)'
      BY <2>6 DEF Considered, InLoop, TypeOK
    <2> QED BY <2>1, <2>4, <2>5, <2>7, CallerStep
  <1>5. ASSUME NEW p \in Pods, Dedupe(c, p) PROVE SyncInv'
    <2>1. pc[c] = "dedupe" /\ p \in todo[c] /\ InLoop(c)
      BY <1>5 DEF Dedupe, InLoop
    <2>2. kept \union astray # {}
      BY <2>1 DEF Considered
    <2>3. Unclaimed' \subseteq Unclaimed /\ kept \subseteq kept' /\ astray \subseteq astray'
      BY <1>5, FreshTerminated DEF Dedupe
    <2>4. todo' = [todo EXCEPT ![c] = @ \ {p}] /\ UNCHANGED <<pc, lock, mine>>
      BY <1>5 DEF Dedupe
    <2>5. Considered(c)' /\ InLoop(c)'
      BY <2>1, <2>2, <2>3, <2>4 DEF Considered, InLoop, TypeOK
    <2>6. \A d \in Callers \ {c} : pc'[d] = pc[d] /\ todo'[d] = todo[d] /\ mine'[d] = mine[d]
      BY <2>4 DEF TypeOK
    <2> QED BY <1>0, <2>1, <2>2, <2>3, <2>4, <2>5, <2>6, CallerStep DEF Locked
  <1>6. ASSUME NEW p \in Pods, Start(c, p) PROVE SyncInv'
    <2>1. /\ pc' = [pc EXCEPT ![c] = "wait"] /\ todo' = [todo EXCEPT ![c] = {}]
          /\ mine' = [mine EXCEPT ![c] = p] /\ LetGo(c)
          /\ UNCHANGED <<deduped, kept, astray>>
      BY <1>6 DEF Start
    <2>2. pod[p] \in {"RUNNING", "EXITED"} /\ pod' = [pod EXCEPT ![p] = "RUNNING"]
      BY <1>6 DEF Start
    <2>3. Unclaimed' \subseteq Unclaimed
      BY <2>1, <2>2 DEF Unclaimed, Live, TypeOK
    <2>4. Considered(c)' /\ ~ InLoop(c)'
      BY <2>1 DEF Considered, InLoop, TypeOK
    <2>5. \A d \in Callers \ {c} : pc'[d] = pc[d] /\ todo'[d] = todo[d] /\ mine'[d] = mine[d]
      BY <2>1 DEF TypeOK
    <2> QED BY <2>1, <2>3, <2>4, <2>5, CallerStep
  <1>7. ASSUME NEW p \in Pods, StartRefused(c, p) PROVE SyncInv'
    <2>1. /\ pc' = [pc EXCEPT ![c] = "replace"] /\ todo' = [todo EXCEPT ![c] = @ \ {p}]
          /\ mine' = [mine EXCEPT ![c] = p] /\ pc[c] = "start"
          /\ UNCHANGED <<lock, deduped, kept, astray>>
      BY <1>7 DEF StartRefused
    <2>2. \/ UNCHANGED pod
          \/ pod[p] = "EXITED" /\ pod' \in {[pod EXCEPT ![p] = "RUNNING"], [pod EXCEPT ![p] = "EXITED"]}
      BY <1>7, Zenon DEF StartRefused
    <2>3. Unclaimed' \subseteq Unclaimed
      BY <2>1, <2>2 DEF Unclaimed, Live, TypeOK
    <2>4. Considered(c)' /\ InLoop(c)
      <3>1. Unclaimed \subseteq todo[c] /\ InLoop(c)
        BY <2>1 DEF Considered, InLoop
      <3> QED BY <2>1, <2>3, <3>1 DEF Considered, TypeOK
    <2>5. \A d \in Callers \ {c} : pc'[d] = pc[d] /\ todo'[d] = todo[d] /\ mine'[d] = mine[d]
      BY <2>1 DEF TypeOK
    <2> QED BY <1>0, <2>1, <2>3, <2>4, <2>5, CallerStep DEF Locked
  <1> QED BY <1>1, <1>2, <1>3, <1>4, <1>5, <1>6, <1>7

LEMMA InvAround ==
  ASSUME SyncInv, TypeOK',
         Arrive \/ Act \/ \E p \in Pods : Boot(p) \/ FallsAsleep(p) \/ Inspect(p)
  PROVE  SyncInv'
  <1> USE DEF SyncInv
  <1>1. CASE Arrive
    <2>1. PICK p \in Pods : Made(p) /\ astray' = astray \union {p}
      BY <1>1 DEF Arrive
    <2>2. UNCHANGED <<pc, lock, todo, mine, deduped, kept>>
      BY <1>1 DEF Arrive
    <2>3. Unclaimed' \subseteq Unclaimed
      BY <2>1, <2>2 DEF Made, Unclaimed, Live, TypeOK
    <2> QED BY <2>1, <2>2, <2>3, OtherStep
  <1>2. CASE Act
    <2>1. UNCHANGED <<pc, lock, todo, mine, deduped, kept, astray>> /\ visit[2] \in Pods
      BY <1>2 DEF Act, TypeOK
    <2>2. Unclaimed' \subseteq Unclaimed
      <3>1. CASE visit[1] = "delete"
        BY <1>2, <2>1, <3>1 DEF Act, Terminated, Unclaimed, Live, TypeOK
      <3>2. CASE visit[1] # "delete"
        BY <1>2, <2>1, <3>2 DEF Act, Unclaimed, Live, TypeOK
      <3> QED BY <3>1, <3>2
    <2> QED BY <2>1, <2>2, OtherStep
  <1>3. ASSUME NEW p \in Pods, Boot(p) \/ Inspect(p) PROVE SyncInv'
    <2>1. UNCHANGED <<pc, lock, todo, mine, deduped, pod, kept, astray>>
      BY <1>3 DEF Boot, Inspect
    <2>2. Unclaimed' = Unclaimed
      BY <2>1 DEF Unclaimed, Live
    <2> QED BY <2>1, <2>2, OtherStep
  <1>4. ASSUME NEW p \in Pods, FallsAsleep(p) PROVE SyncInv'
    <2>1. UNCHANGED <<pc, lock, todo, mine, deduped, kept, astray>>
      BY <1>4 DEF FallsAsleep
    <2>2. Unclaimed' \subseteq Unclaimed
      BY <1>4, <2>1 DEF FallsAsleep, Unclaimed, Live, TypeOK
    <2> QED BY <2>1, <2>2, OtherStep
  <1> QED BY <1>1, <1>2, <1>3, <1>4

LEMMA SyncNext == OneLock /\ SyncInv /\ [Next]_syncPodVars => SyncInv'
  <1> SUFFICES ASSUME OneLock, SyncInv, [Next]_syncPodVars PROVE SyncInv'
    OBVIOUS
  <1>1. TypeOK'
    BY TypeNext DEF SyncInv
  <1>2. CASE UNCHANGED syncPodVars
    <2>1. UNCHANGED <<pc, lock, todo, mine, deduped, pod, kept, astray>>
      BY <1>2 DEF syncPodVars
    <2>2. Unclaimed' = Unclaimed
      BY <2>1 DEF Unclaimed, Live
    <2> QED BY <1>1, <2>1, <2>2, OtherStep
  <1>3. ASSUME NEW c \in Callers, Caller(c) PROVE SyncInv'
    BY <1>1, <1>3, InvOutside, InvLook, InvInside, Zenon DEF Caller, Progress
  <1>4. CASE Arrive \/ Act \/ \E p \in Pods : Boot(p) \/ FallsAsleep(p) \/ Inspect(p)
    BY <1>1, <1>4, InvAround
  <1> QED BY <1>2, <1>3, <1>4, Zenon DEF Next

\* The lock does what it is for: the callers that share it and wait for it are
\* in the loop one at a time, and what the one inside still has to treat
\* accounts for every pod there is.
THEOREM SyncSafe ==
  ASSUME OneLock
  PROVE  Spec => []SyncInv
  BY SyncInit, SyncNext, PTL DEF Spec

\* On one computer there is never a second sync pod, stopped ones included,
\* but for those whose end failed or that arrived after their caller had died.
THEOREM OnePod ==
  ASSUME OneLock
  PROVE  Spec => []OneSyncPod
  <1>1. ASSUME SyncInv PROVE OneSyncPod
    <2>1. CASE Unclaimed = {}
      BY <2>1, FS_EmptySet DEF Unclaimed, OneSyncPod
    <2>2. ASSUME NEW p \in Unclaimed PROVE OneSyncPod
      <3>1. Unclaimed = {p}
        BY <1>1, <2>2 DEF SyncInv
      <3>2. Cardinality({p}) = 1
        BY FS_Singleton
      <3> QED BY <3>1, <3>2 DEF Unclaimed, OneSyncPod
    <2> QED BY <2>1, <2>2
  <1> QED BY <1>1, SyncSafe, PTL

\* Unless one of those exceptions has made two, no pod is ended as a duplicate,
\* hence none that a caller uses.
THEOREM NoDuplicate ==
  ASSUME OneLock
  PROVE  Spec => []UsedIsSpared
  <1>1. SyncInv => UsedIsSpared
    BY DEF SyncInv, UsedIsSpared
  <1> QED BY <1>1, SyncSafe, PTL
=============================================================================
