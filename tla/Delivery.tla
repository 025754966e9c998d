------------------------------ MODULE Delivery ------------------------------
(***************************************************************************)
(* Delivery of results (rpfarm.delivery): transfers, each a process or a    *)
(* thread of its own, bring the outputs of a cook to their local paths.     *)
(* A receipt for (cook, file) holds the stat of the local file, taken after *)
(* the file was compared with the farm; while it matches, the file is not   *)
(* fetched again.  Cooks write the same paths again, and local files are    *)
(* deleted or changed.                                                      *)
(***************************************************************************)
EXTENDS Integers, FiniteSets

CONSTANTS
  NFiles,            \* the files 1..NFiles, in the order of their lock names
  Transfers,
  MaxCook,           \* bound on cooks
  RenderedAt,        \* the mtime of the frames of each cook
  HandTimes,         \* mtimes of local files that something else wrote
  MaxFaults,         \* bound on failures
  MaxStarts          \* bound on transfers begun

Frames == 1..NFiles
Cooks == 1..MaxCook
Tolerance == 2       \* sync.MTIME_TOLERANCE_S

\* later cooks render a file later, by more than the tolerance
ASSUME DeliveryAssumption ==
  /\ NFiles \in Nat /\ MaxCook \in Nat \ {0} /\ {MaxFaults, MaxStarts} \subseteq Nat
  /\ RenderedAt \in [Cooks -> Nat] /\ HandTimes \subseteq Nat
  /\ \A j, k \in Cooks : j < k => RenderedAt[j] + Tolerance < RenderedAt[k]

VARIABLES
  frames,     \* the cook that wrote each file on the farm last
  localDisk,  \* each local file: its stat and, for the properties, its cook
  receipts,   \* for each cook and file, the stat or NoStat
  unsure,     \* history: <<cook, file>> whose receipt is of a file changed while it was verified
  lock,       \* holders of the lock of each destination
  tr,         \* the transfers
  deliveryFaults, starts

deliveryVars == <<frames, localDisk, receipts, unsure, lock, tr, deliveryFaults, starts>>

\* The frames of a path are of one size, which a file of another origin may have too.
Gone       == 0
NoStat     == [mtime |-> 0, size |-> 0]
FrameStat(k) == [mtime |-> RenderedAt[k], size |-> 1]
NoFile     == [stat |-> NoStat, cook |-> 0]
FarmFile(k)   == [stat |-> FrameStat(k), cook |-> k]
HandMade   == [stat : [mtime : HandTimes, size : {1, 2}], cook : {0}]
NoTransfer == [pc |-> "idle", key |-> 0, want |-> {}, pending |-> {}, left |-> {}, looking |-> 0,
               index |-> [f \in Frames |-> Gone], stamps |-> [f \in Frames |-> NoStat], slipped |-> {}]

At(t, label) == tr[t].pc = label
Held(t)      == {f \in Frames : t \in lock[f]}
Trouble      == deliveryFaults < MaxFaults /\ deliveryFaults' = deliveryFaults + 1

\* already_on_farm: size, and mtime within the tolerance
Alike(stat, k) == stat.size = 1 /\ stat.mtime - RenderedAt[k] \in -Tolerance..Tolerance

\* delivery.valid
Valid(k, f) == receipts[k][f] # NoStat /\ localDisk[f].stat = receipts[k][f]

DeliveryInit ==
  /\ frames = [f \in Frames |-> 1] /\ localDisk = [f \in Frames |-> NoFile]
  /\ receipts = [k \in Cooks |-> [f \in Frames |-> NoStat]] /\ unsure = {}
  /\ lock = [f \in Frames |-> {}] /\ tr = [t \in Transfers |-> NoTransfer]
  /\ deliveryFaults = 0 /\ starts = 0

-----------------------------------------------------------------------------
(* Around the transfers                                                     *)

Render(f) ==
  /\ frames[f] < MaxCook
  /\ frames' = [frames EXCEPT ![f] = @ + 1]
  /\ UNCHANGED <<localDisk, receipts, unsure, lock, tr, deliveryFaults, starts>>

\* a local file is deleted, or written by something else; perhaps between the
\* comparison of a transfer and its stat
Disturb(f) ==
  /\ Trouble
  /\ \E file \in {NoFile} \union HandMade : localDisk' = [localDisk EXCEPT ![f] = file]
  /\ tr' = [t \in Transfers |-> IF At(t, "stat") /\ tr[t].looking = f
                                THEN [tr[t] EXCEPT !.slipped = @ \union {f}] ELSE tr[t]]
  /\ UNCHANGED <<frames, receipts, unsure, lock, starts>>

-----------------------------------------------------------------------------
(* transfer                                                                 *)

Begin(t) ==
  /\ At(t, "idle") /\ starts < MaxStarts /\ starts' = starts + 1
  /\ \E F \in SUBSET Frames \ {{}}, k \in Cooks :
       /\ \A f \in F : frames[f] >= k
       /\ tr' = [tr EXCEPT ![t] = [NoTransfer EXCEPT !.pc = "lock", !.key = k, !.want = F]]
  /\ UNCHANGED <<frames, localDisk, receipts, unsure, lock, deliveryFaults>>

\* the destinations are locked one after the other, in one order for all
Lock(t) ==
  \E f \in tr[t].want \ Held(t) :
    /\ At(t, "lock") /\ lock[f] = {} /\ \A g \in tr[t].want \ Held(t) : f <= g
    /\ lock' = [lock EXCEPT ![f] = {t}]
    /\ UNCHANGED <<frames, localDisk, receipts, unsure, tr, deliveryFaults, starts>>

\* only then it is decided what is pending
Locked(t) ==
  /\ At(t, "lock") /\ Held(t) = tr[t].want
  /\ LET pending == {f \in tr[t].want : ~ Valid(tr[t].key, f)}
     IN  tr' = [tr EXCEPT ![t].pc = IF pending = {} THEN "compare" ELSE "list",
                          ![t].pending = pending, ![t].left = pending]
  /\ UNCHANGED <<frames, localDisk, receipts, unsure, lock, deliveryFaults, starts>>

\* _transfer_download_item: what the farm has, before anything is copied
List(t) ==
  /\ At(t, "list")
  /\ \E listed \in BOOLEAN :
       /\ IF listed THEN UNCHANGED deliveryFaults ELSE Trouble
       /\ tr' = [tr EXCEPT ![t].pc = "copy",
                           ![t].index = IF listed THEN frames ELSE NoTransfer.index]
  /\ UNCHANGED <<frames, localDisk, receipts, unsure, lock, starts>>

\* rclone copy; whether a local file that is there is left depends on its stat
\* and on the mode (newer, always, never)
Copy(t) ==
  \E f \in tr[t].left :
    /\ At(t, "copy")
    /\ \/ localDisk' = [localDisk EXCEPT ![f] = FarmFile(frames[f])]
       \/ localDisk[f] # NoFile /\ UNCHANGED localDisk
    /\ tr' = [tr EXCEPT ![t].left = IF @ = {f} THEN tr[t].pending ELSE @ \ {f},
                        ![t].pc = IF tr[t].left = {f} THEN "compare" ELSE "copy"]
    /\ UNCHANGED <<frames, receipts, unsure, lock, deliveryFaults, starts>>

\* (any file that is there is verified)
ComparePresent(t) ==
  \E f \in tr[t].left :
    /\ At(t, "compare") /\ \A g \in tr[t].left : f <= g
    /\ tr' = [tr EXCEPT ![t].left = @ \ {f}, ![t].looking = f,
                        ![t].pc = IF localDisk[f] # NoFile THEN "stat" ELSE "compare"]
    /\ UNCHANGED <<frames, localDisk, receipts, unsure, lock, deliveryFaults, starts>>

\* each local file is compared with what the farm had when it was listed ...
Compare(t) ==
  \E f \in tr[t].left :
    /\ At(t, "compare") /\ \A g \in tr[t].left : f <= g
    /\ tr' = [tr EXCEPT ![t].left = @ \ {f}, ![t].looking = f,
                        ![t].pc = IF tr[t].index[f] # Gone /\ Alike(localDisk[f].stat, tr[t].index[f])
                                  THEN "stat" ELSE "compare"]
    /\ UNCHANGED <<frames, localDisk, receipts, unsure, lock, deliveryFaults, starts>>

Release(t) == lock' = [f \in Frames |-> lock[f] \ {t}]

\* ... and its receipt comes from a second look, which fails if it is gone by then
Stat(t) ==
  LET f == tr[t].looking IN
  /\ At(t, "stat")
  /\ IF localDisk[f] = NoFile
     THEN tr' = [tr EXCEPT ![t] = NoTransfer] /\ Release(t)
     ELSE tr' = [tr EXCEPT ![t].pc = "compare", ![t].stamps[f] = localDisk[f].stat] /\ UNCHANGED lock
  /\ UNCHANGED <<frames, localDisk, receipts, unsure, deliveryFaults, starts>>

ToRecord(t) == tr' = [tr EXCEPT ![t].pc = "record", ![t].looking = 0, ![t].index = NoTransfer.index]

CheckWaits(t) ==
  /\ At(t, "compare") /\ tr[t].left = {} /\ \A f \in tr[t].want : localDisk[f] # NoFile
  /\ ToRecord(t)
  /\ UNCHANGED <<frames, localDisk, receipts, unsure, lock, deliveryFaults, starts>>

\* an output that is not there after all fails the transfer
Check(t) ==
  /\ At(t, "compare") /\ tr[t].left = {}
  /\ IF \E f \in tr[t].want : localDisk[f] = NoFile
     THEN tr' = [tr EXCEPT ![t] = NoTransfer] /\ Release(t)
     ELSE ToRecord(t) /\ UNCHANGED lock
  /\ UNCHANGED <<frames, localDisk, receipts, unsure, deliveryFaults, starts>>

\* each receipt replaces the one before it
Record(t) ==
  \E f \in tr[t].pending :
    /\ At(t, "record") /\ tr[t].stamps[f] # NoStat
    /\ receipts' = [receipts EXCEPT ![tr[t].key][f] = tr[t].stamps[f]]
    /\ unsure' = IF f \in tr[t].slipped THEN unsure \union {<<tr[t].key, f>>}
                 ELSE unsure \ {<<tr[t].key, f>>}
    /\ tr' = [tr EXCEPT ![t].stamps[f] = NoStat]
    /\ UNCHANGED <<frames, localDisk, lock, deliveryFaults, starts>>

Finished(t) ==
  /\ At(t, "record") /\ \A f \in Frames : tr[t].stamps[f] = NoStat
  /\ tr' = [tr EXCEPT ![t] = NoTransfer] /\ Release(t)
  /\ UNCHANGED <<frames, localDisk, receipts, unsure, deliveryFaults, starts>>

\* rclone fails, the cook is cancelled, the process is killed
Abort(t) ==
  /\ ~ At(t, "idle") /\ Trouble
  /\ tr' = [tr EXCEPT ![t] = NoTransfer] /\ Release(t)
  /\ UNCHANGED <<frames, localDisk, receipts, unsure, starts>>

Step(t) == Lock(t) \/ Locked(t) \/ List(t) \/ Copy(t) \/ Compare(t) \/ Stat(t) \/ Check(t) \/ Record(t) \/ Finished(t)

DeliveryNext ==
  \/ \E f \in Frames : Render(f) \/ Disturb(f)
  \/ \E t \in Transfers : Begin(t) \/ Step(t) \/ Abort(t)

DeliverySpec == DeliveryInit /\ [][DeliveryNext]_deliveryVars

FairDelivery == DeliverySpec /\ \A t \in Transfers : WF_deliveryVars(Step(t))

-----------------------------------------------------------------------------
DeliveryTypeOK ==
  /\ frames \in [Frames -> Cooks]
  /\ \A f \in Frames : localDisk[f] \in HandMade \union {NoFile} \union {FarmFile(k) : k \in Cooks}
  /\ receipts \in [Cooks -> [Frames -> [mtime : Nat, size : {0, 1, 2}]]]
  /\ unsure \subseteq Cooks \X Frames
  /\ \A f \in Frames : Cardinality(lock[f]) <= 1
  /\ \A t \in Transfers : /\ Held(t) \subseteq tr[t].want
                          /\ tr[t].pc \notin {"idle", "lock"} => Held(t) = tr[t].want

\* A receipt that matches the local file means a frame of its cook, or of a
\* later one, or a file that cannot be told from such a frame by size and mtime
\* (already_on_farm): never a frame of an earlier cook or another file, whatever
\* was rendered again, deleted or changed while it was fetched.  Only a change
\* between the comparison of that file and its stat (packages.py,
\* _transfer_download_item) can get a receipt of its own.
ReceiptIsTrue ==
  \A k \in Cooks, f \in Frames : Valid(k, f) /\ <<k, f>> \notin unsure =>
    \/ localDisk[f].cook >= k
    \/ localDisk[f].cook = 0 /\ \E c \in k..MaxCook : Alike(localDisk[f].stat, c)

\* Two transfers never wait for each other's destinations.
NobodyWaitsInCircle ==
  \A s, t \in Transfers : s # t /\ At(s, "lock") /\ At(t, "lock") =>
     \A f \in tr[s].want \ Held(s), g \in tr[t].want \ Held(t) :
        ~ (f \in Held(t) /\ g \in Held(s))

\* Every transfer comes to an end, however many want the same files and
\* whichever of them fail.
TransferEnds == \A t \in Transfers : ~ At(t, "idle") ~> At(t, "idle")
=============================================================================
