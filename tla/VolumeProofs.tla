---------------------------- MODULE VolumeProofs ----------------------------
(***************************************************************************)
(* Proofs about Volume for every number of projects, outputs and commands, *)
(* and every bound on the clock.                                           *)
(***************************************************************************)
EXTENDS Volume, TLAPS

Mtimes  == Times \union {Never}
Entries == [used : Mtimes, download : Mtimes]
Indexes == [Projects -> Entries]

\* What a command knows at each of its steps.
Idles   == [pc : {"idle"}]
Fetches == [pc : {"fetched"}, p : Projects]
Stampers == [pc : {"stamp", "writing"}, op : Writes, p : Projects, at : Times, view : Indexes]
Lookers == [pc : {"look"}, op : Removes, p : Projects, at : Times, view : Entries, told : Mtimes]
Deleters == [pc : {"delete"}, op : Removes, p : Projects, late : SUBSET OutputFiles, recent : BOOLEAN]

CommandTypeOK ==
  /\ now \in Times
  /\ made \in [Projects -> Mtimes] /\ out \in [Projects -> [OutputFiles -> Mtimes]]
  /\ got \in [Projects -> SUBSET OutputFiles]
  /\ index \in Indexes /\ told \in [Projects -> Mtimes] /\ fetched \in [Projects -> Mtimes]
  /\ cmd \in [Commands -> Idles \union Fetches \union Stampers \union Lookers \union Deleters]

\* The lock: who writes has it and holds the index as it is.
LockInv ==
  /\ \A k \in Commands : IsAt(k, "writing") <=> writer = k
  /\ \A k \in Commands : IsAt(k, "writing") => cmd[k].view = index

\* A download that the index knows, that a command is about to record or has read, was
\* one; those before now are not in the future.
DownloadInv ==
  /\ \A p \in Projects : fetched[p] <= now /\ index[p].download <= fetched[p]
  /\ \A k \in Commands : /\ (IsAt(k, "stamp") \/ IsAt(k, "writing")) /\ cmd[k].op = "download"
                              => cmd[k].at <= fetched[cmd[k].p]
                         /\ IsAt(k, "look") => cmd[k].view.download <= fetched[cmd[k].p]

\* A command about to delete without force saw every output that has not been written
\* since it looked, and the project was downloaded after that one was written.
DeleteInv ==
  \A k \in Commands : IsAt(k, "delete") /\ cmd[k].op \notin {"rm_force", "rm_dir"} =>
    \A f \in Files(cmd[k].p) \ cmd[k].late : out[cmd[k].p][f] <= fetched[cmd[k].p]

VolumeInv == CommandTypeOK /\ LockInv /\ DownloadInv /\ DeleteInv /\ NewOutputsAreKept

LEMMA InitVolume == VolumeInit => VolumeInv
<1> SUFFICES ASSUME VolumeInit PROVE VolumeInv
  OBVIOUS
<1> USE VolumeAssumption DEF VolumeInit, Times, Never, Mtimes
<1>1. CommandTypeOK
  <2>1. Empty \in Indexes
    BY DEF Empty, NoEntry, Indexes, Entries
  <2>2. cmd \in [Commands -> Idles]
    BY DEF Idle, Idles
  <2> QED BY <2>1, <2>2 DEF CommandTypeOK, NoFiles
<1>2. LockInv /\ DownloadInv /\ DeleteInv /\ NewOutputsAreKept
  BY DEF LockInv, DownloadInv, DeleteInv, NewOutputsAreKept, IsAt, Idle, Empty, NoEntry
<1> QED BY <1>1, <1>2 DEF VolumeInv

\* A command at a step is the record that step goes with.
LEMMA CommandAt ==
  ASSUME CommandTypeOK, NEW k \in Commands
  PROVE  /\ cmd[k].pc \in {"idle", "fetched", "stamp", "writing", "look", "delete"}
         /\ IsAt(k, "fetched") => cmd[k] \in Fetches
         /\ IsAt(k, "stamp") \/ IsAt(k, "writing") => cmd[k] \in Stampers
         /\ IsAt(k, "look") => cmd[k] \in Lookers
         /\ IsAt(k, "delete") => cmd[k] \in Deleters
<1>1. cmd[k] \in Idles \union Fetches \union Stampers \union Lookers \union Deleters
  BY DEF CommandTypeOK
<1>2. CASE cmd[k] \in Idles
  BY <1>2 DEF Idles, IsAt
<1>3. CASE cmd[k] \in Fetches
  BY <1>3 DEF Fetches, IsAt
<1>4. CASE cmd[k] \in Stampers
  BY <1>4 DEF Stampers, IsAt
<1>5. CASE cmd[k] \in Lookers
  BY <1>5 DEF Lookers, IsAt
<1>6. CASE cmd[k] \in Deleters
  BY <1>6 DEF Deleters, IsAt
<1> QED BY <1>1, <1>2, <1>3, <1>4, <1>5, <1>6

\* A command rests, or goes on to a step at which it neither holds the lock nor deletes;
\* the outputs and the index stay, and no download is forgotten.
LEMMA CommandMoves ==
  ASSUME VolumeInv, NEW k \in Commands, NEW r, cmd' = [cmd EXCEPT ![k] = r],
         r \in Idles \union Fetches \union Stampers \union Lookers,
         r.pc \notin {"writing", "delete"},
         ~ IsAt(k, "writing"),
         UNCHANGED <<out, index, writer, lost>>,
         now \in Nat, now' \in Times, now' >= now,
         made' \in [Projects -> Mtimes], got' \in [Projects -> SUBSET OutputFiles],
         told' \in [Projects -> Mtimes], fetched' \in [Projects -> Mtimes],
         \A p \in Projects : fetched'[p] >= fetched[p] /\ fetched'[p] <= now',
         r.pc = "stamp" /\ r.op = "download" => r.at <= fetched'[r.p],
         r.pc = "look" => r.view.download <= fetched'[r.p]
  PROVE  VolumeInv'
<1> USE VolumeAssumption DEF VolumeInv
<1>1. CommandTypeOK'
  BY DEF CommandTypeOK
<1>2. DOMAIN cmd = Commands
  BY DEF CommandTypeOK
<1>3. LockInv'
  BY <1>2 DEF LockInv, IsAt
<1>4. \A p \in Projects : fetched[p] \in Int /\ fetched'[p] \in Int /\ index[p].download \in Int
  BY DEF CommandTypeOK, Mtimes, Times, Never, Indexes, Entries
<1>5. DownloadInv'
  <2>1. ASSUME NEW j \in Commands, j # k
        PROVE  /\ (IsAt(j, "stamp") \/ IsAt(j, "writing")) /\ cmd[j].op = "download"
                    => cmd[j].at <= fetched'[cmd[j].p]
               /\ IsAt(j, "look") => cmd[j].view.download <= fetched'[cmd[j].p]
    <3>1. CASE IsAt(j, "stamp") \/ IsAt(j, "writing")
      <4>1. cmd[j] \in Stampers
        BY <3>1, CommandAt
      <4>2. cmd[j].p \in Projects /\ cmd[j].at \in Int
        BY <4>1 DEF Stampers, Times
      <4> QED BY <1>4, <3>1, <4>2 DEF DownloadInv, IsAt
    <3>2. CASE IsAt(j, "look")
      <4>1. cmd[j] \in Lookers
        BY <3>2, CommandAt
      <4>2. cmd[j].p \in Projects /\ cmd[j].view.download \in Int
        BY <4>1 DEF Lookers, Entries, Mtimes, Times, Never
      <4> QED BY <1>4, <3>2, <4>2 DEF DownloadInv, IsAt
    <3> QED BY <3>1, <3>2
  <2>2. \A p \in Projects : fetched'[p] <= now' /\ index'[p].download <= fetched'[p]
    BY <1>4 DEF DownloadInv
  <2>3. \A j \in Commands : cmd'[j] = IF j = k THEN r ELSE cmd[j]
    BY <1>2
  <2> QED BY <2>1, <2>2, <2>3 DEF DownloadInv, IsAt
<1>6. DeleteInv'
  <2> SUFFICES ASSUME NEW j \in Commands, (IsAt(j, "delete") /\ cmd[j].op \notin {"rm_force", "rm_dir"})',
                      NEW f \in (Files(cmd[j].p) \ cmd[j].late)'
               PROVE  (out[cmd[j].p][f] <= fetched[cmd[j].p])'
    BY DEF DeleteInv
  <2>1. j # k /\ cmd'[j] = cmd[j] /\ IsAt(j, "delete")
    BY <1>2 DEF IsAt
  <2>2. cmd[j] \in Deleters /\ f \in Files(cmd[j].p) \ cmd[j].late
    BY <2>1, CommandAt DEF Files
  <2>3. cmd[j].p \in Projects /\ out[cmd[j].p][f] \in Int
    BY <2>2 DEF Deleters, Files, CommandTypeOK, Mtimes, Times, Never
  <2> QED BY <1>4, <2>1, <2>2, <2>3 DEF DeleteInv
<1> QED BY <1>1, <1>3, <1>5, <1>6 DEF NewOutputsAreKept

\* The history and the clock in numbers.
LEMMA Moments ==
  ASSUME VolumeInv
  PROVE  /\ now \in Nat /\ now \in Times
         /\ \A p \in Projects : fetched[p] \in Int /\ fetched[p] <= now /\ index[p].download <= fetched[p]
<1> QED BY VolumeAssumption DEF VolumeInv, CommandTypeOK, DownloadInv, Mtimes, Times, Never

\* The same while the clock stands.
LEMMA CommandGoesOn ==
  ASSUME VolumeInv, NEW k \in Commands, NEW r, cmd' = [cmd EXCEPT ![k] = r],
         r \in Idles \union Fetches \union Stampers \union Lookers,
         r.pc \notin {"writing", "delete"},
         ~ IsAt(k, "writing"),
         UNCHANGED <<now, made, out, index, writer, told, fetched, lost>>,
         got' \in [Projects -> SUBSET OutputFiles],
         r.pc = "stamp" => r.op # "download",
         r.pc = "look" => r.view.download <= fetched[r.p]
  PROVE  VolumeInv'
<1>1. now \in Nat /\ now' \in Times /\ now' >= now
  BY Moments
<1>2. \A p \in Projects : fetched'[p] >= fetched[p] /\ fetched'[p] <= now'
  BY Moments
<1>3. made' \in [Projects -> Mtimes] /\ told' \in [Projects -> Mtimes] /\ fetched' \in [Projects -> Mtimes]
  BY DEF VolumeInv, CommandTypeOK
<1>4. UNCHANGED <<out, index, writer, lost>> /\ (r.pc = "stamp" /\ r.op = "download" => r.at <= fetched'[r.p])
      /\ (r.pc = "look" => r.view.download <= fetched'[r.p])
  OBVIOUS
<1> QED BY <1>1, <1>2, <1>3, <1>4, CommandMoves

LEMMA RewriteIsStamper ==
  ASSUME CommandTypeOK, NEW p \in Projects, NEW op \in Writes
  PROVE  /\ Rewrite(p, op) \in Stampers /\ Rewrite(p, op).pc = "stamp" /\ Rewrite(p, op).at = now
         /\ Rewrite(p, op).op = op /\ Rewrite(p, op).p = p
<1>1. Empty \in Indexes
  BY DEF Empty, NoEntry, Indexes, Entries, Mtimes
<1> QED BY <1>1 DEF Rewrite, Stampers, CommandTypeOK

\* A command takes a stamp: a cook or an upload begins to be recorded.
LEMMA TouchKeeps ==
  ASSUME VolumeInv, NEW k \in Commands, NEW p \in Projects, CookBegins(k, p) \/ Uploaded(k, p)
  PROVE  VolumeInv'
<1> USE VolumeAssumption DEF fileVars, indexVars, Become
<1>0. CommandTypeOK
  BY DEF VolumeInv
<1>1. PICK op \in {"cook", "upload"} : Touch(k, p, op) /\ UNCHANGED <<out, got, fetched>> /\ IsAt(k, "idle")
  BY DEF CookBegins, Uploaded
<1>2. Rewrite(p, op) \in Stampers /\ Rewrite(p, op).pc = "stamp" /\ Rewrite(p, op).op = op
  BY <1>0, RewriteIsStamper DEF Writes, Stamps
<1>3. made' \in [Projects -> Mtimes]
  BY <1>0 DEF CommandTypeOK, CookBegins, Uploaded, Mtimes
<1>4. now' \in Times /\ now' >= now /\ \A q \in Projects : fetched'[q] >= fetched[q] /\ fetched'[q] <= now'
  BY <1>1, Moments DEF Touch, Times
<1>5. /\ cmd' = [cmd EXCEPT ![k] = Rewrite(p, op)] /\ UNCHANGED <<out, got, index, writer, told, fetched, lost>>
      /\ ~ IsAt(k, "writing")
  BY <1>1 DEF Touch, IsAt
<1> HIDE DEF Become
<1> QED BY <1>0, <1>2, <1>3, <1>4, <1>5, Moments, CommandMoves DEF CommandTypeOK

\* A download is over, and is recorded as one of the moment it was over.
LEMMA FetchedKeeps ==
  ASSUME VolumeInv, NEW k \in Commands, FetchDone(k)
  PROVE  VolumeInv'
<1> USE VolumeAssumption DEF fileVars, indexVars, Become
<1> DEFINE p == cmd[k].p
<1>0. CommandTypeOK /\ p \in Projects
  BY CommandAt DEF VolumeInv, FetchDone, Fetches
<1>1. Rewrite(p, "download") \in Stampers /\ Rewrite(p, "download").pc = "stamp"
      /\ Rewrite(p, "download").at = now /\ Rewrite(p, "download").p = p
  BY <1>0, RewriteIsStamper DEF Writes, Stamps
<1>2. fetched' = [fetched EXCEPT ![p] = now] /\ fetched' \in [Projects -> Mtimes] /\ fetched'[p] = now
  BY <1>0 DEF FetchDone, CommandTypeOK, Mtimes
<1>4. now' \in Times /\ now' >= now /\ \A q \in Projects : fetched'[q] >= fetched[q] /\ fetched'[q] <= now'
  BY <1>0, <1>2, Moments DEF FetchDone, Touch, Times, CommandTypeOK
<1>5. /\ cmd' = [cmd EXCEPT ![k] = Rewrite(p, "download")] /\ UNCHANGED <<made, out, got, index, writer, told, lost>>
      /\ ~ IsAt(k, "writing")
  BY DEF FetchDone, Touch, IsAt
<1>6. Rewrite(p, "download").at <= fetched'[Rewrite(p, "download").p]
  BY <1>1, <1>2, Moments
<1> QED BY <1>0, <1>1, <1>2, <1>4, <1>5, <1>6, Moments, CommandMoves DEF CommandTypeOK

\* A command begins that takes no stamp; the clock stands.
LEMMA BeginKeeps ==
  ASSUME VolumeInv, NEW k \in Commands, NEW p \in Projects,
         SizesMeasured(k, p) \/ Fetch(k, p) \/ (\E op \in Removes : OpenIndex(k, p, op))
  PROVE  VolumeInv'
<1> USE DEF fileVars, indexVars, pastVars, Become
<1>0. CommandTypeOK
  BY DEF VolumeInv
<1>1. CASE SizesMeasured(k, p)
  <2>1. Rewrite(p, "sizes") \in Stampers /\ Rewrite(p, "sizes").pc = "stamp" /\ Rewrite(p, "sizes").op = "sizes"
    BY <1>0, RewriteIsStamper DEF Writes
  <2> QED BY <1>0, <1>1, <2>1, CommandGoesOn DEF SizesMeasured, IsAt, CommandTypeOK
<1>2. CASE Fetch(k, p)
  <2>1. [pc |-> "fetched", p |-> p] \in Fetches
    BY DEF Fetches
  <2>2. got' \in [Projects -> SUBSET OutputFiles]
    BY <1>0, <1>2 DEF Fetch, CommandTypeOK, Files
  <2> QED BY <1>0, <1>2, <2>1, <2>2, CommandGoesOn DEF Fetch, IsAt, CommandTypeOK
<1>3. CASE \E op \in Removes : OpenIndex(k, p, op)
  <2> PICK op \in Removes : OpenIndex(k, p, op)
    BY <1>3
  <2> DEFINE r == [pc |-> "look", op |-> op, p |-> p, at |-> now, view |-> IndexRead[p], told |-> told[p]]
  <2>1. IndexRead[p] \in Entries /\ IndexRead[p].download <= fetched[p]
    BY <1>0, Moments DEF IndexRead, Empty, NoEntry, CommandTypeOK, Indexes, Entries, Mtimes, Never, Times
  <2>2. r \in Lookers /\ r.pc = "look" /\ r.view = IndexRead[p] /\ r.p = p
    BY <1>0, <2>1 DEF CommandTypeOK, Lookers
  <2>3. cmd' = [cmd EXCEPT ![k] = r]
    BY Zenon DEF OpenIndex
  <2> HIDE DEF r
  <2> QED BY <1>0, <2>1, <2>2, <2>3, CommandGoesOn DEF OpenIndex, IsAt, CommandTypeOK
<1> QED BY <1>1, <1>2, <1>3

\* A command looks, and goes on to delete or gives up.
LEMMA DecideKeeps ==
  ASSUME VolumeInv, NEW k \in Commands, Decide(k)
  PROVE  VolumeInv'
<1> USE DEF fileVars, indexVars, pastVars, Become
<1> DEFINE c == cmd[k]
<1>0. CommandTypeOK /\ c \in Lookers /\ c.view.download <= fetched[c.p] /\ c.p \in Projects
  BY CommandAt DEF VolumeInv, Decide, DownloadInv, Lookers
<1> DEFINE goes == c.op = "rm_force" \/ (~ Pending(c) /\ (c.op = "prune" => OldEnough(c)))
           r == [pc |-> "delete", op |-> c.op, p |-> c.p, late |-> {},
                 recent |-> c.told # Never /\ c.at - c.told < OlderDays]
<1>1. CASE ~ goes
  <2>1. cmd' = [cmd EXCEPT ![k] = Idle] /\ Idle \in Idles /\ Idle.pc = "idle"
    BY <1>1 DEF Decide, Idle, Idles
  <2> QED BY <1>0, <2>1, CommandGoesOn DEF Decide, IsAt, CommandTypeOK
<1>2. CASE goes
  <2>1. cmd' = [cmd EXCEPT ![k] = r]
    BY <1>2 DEF Decide
  <2>2. r \in Deleters /\ r.pc = "delete" /\ r.op = c.op /\ r.p = c.p
    <3>1. r.recent \in BOOLEAN
      BY Zenon
    <3>2. r.op \in Removes /\ r.p \in Projects /\ r.late \in SUBSET OutputFiles
      BY <1>0 DEF Lookers
    <3> QED BY <3>1, <3>2 DEF Deleters
  <2>5. c.op \notin {"rm_force", "rm_dir"} => \A f \in Files(c.p) : out[c.p][f] <= fetched[c.p]
    <3> SUFFICES ASSUME c.op \notin {"rm_force", "rm_dir"}, NEW f \in Files(c.p) PROVE out[c.p][f] <= fetched[c.p]
      OBVIOUS
    <3>1. ~ (out[c.p][f] > c.view.download)
      BY <1>2 DEF Pending
    <3>2. out[c.p][f] \in Int /\ c.view.download \in Int /\ fetched[c.p] \in Int
      BY <1>0, VolumeAssumption DEF CommandTypeOK, Files, Lookers, Entries, Mtimes, Times, Never
    <3> QED BY <1>0, <3>1, <3>2
  <2> HIDE DEF r, goes
  <2>3. CommandTypeOK'
    BY <1>0, <2>1, <2>2 DEF CommandTypeOK, Decide
  <2>4. LockInv' /\ DownloadInv'
    BY <1>0, <2>1, <2>2 DEF VolumeInv, LockInv, DownloadInv, IsAt, Decide, CommandTypeOK
  <2>6. DeleteInv' /\ NewOutputsAreKept'
    BY <1>0, <2>1, <2>2, <2>5 DEF VolumeInv, DeleteInv, NewOutputsAreKept, IsAt, Decide, Files, CommandTypeOK
  <2> QED BY <2>3, <2>4, <2>6 DEF VolumeInv
<1> QED BY <1>1, <1>2

\* A command takes the lock, leaves its entry, or dies with what it has written.
LEMMA LockKeeps ==
  ASSUME VolumeInv, NEW k \in Commands, BeginWrite(k) \/ EndWrite(k) \/ Die(k)
  PROVE  VolumeInv'
<1> USE VolumeAssumption DEF fileVars, indexVars, pastVars, Become
<1> DEFINE c == cmd[k]
<1>0. CommandTypeOK /\ LockInv /\ DownloadInv
  BY DEF VolumeInv
<1>a. Idle \in Idles /\ Idle.pc = "idle" /\ Empty \in Indexes /\ \A p \in Projects : Empty[p].download = Never
  BY DEF Idle, Idles, Empty, NoEntry, Indexes, Entries, Mtimes
<1>1. CASE BeginWrite(k)
  <2> DEFINE r == [c EXCEPT !.pc = "writing", !.view = index]
  <2>1. c \in Stampers
    BY <1>0, <1>1, CommandAt DEF BeginWrite
  <2>2. r \in Stampers /\ r.pc = "writing" /\ r.view = index /\ r.at = c.at /\ r.op = c.op /\ r.p = c.p
    BY <1>0, <2>1 DEF Stampers, CommandTypeOK
  <2>3. cmd' = [cmd EXCEPT ![k] = r]
    BY <1>0, <1>1 DEF BeginWrite, CommandTypeOK
  <2> HIDE DEF r
  <2>4. CommandTypeOK'
    BY <1>0, <1>1, <2>2, <2>3 DEF CommandTypeOK, BeginWrite
  <2>5. LockInv' /\ DownloadInv'
    BY <1>0, <1>1, <2>2, <2>3 DEF LockInv, DownloadInv, IsAt, BeginWrite, CommandTypeOK
  <2>6. DeleteInv' /\ NewOutputsAreKept'
    BY <1>0, <1>1, <2>2, <2>3 DEF VolumeInv, DeleteInv, NewOutputsAreKept, IsAt, BeginWrite, Files, CommandTypeOK
  <2> QED BY <2>4, <2>5, <2>6 DEF VolumeInv
<1>2. CASE EndWrite(k)
  <2> DEFINE r == IF c.op = "upload" THEN Rewrite(c.p, "sizes") ELSE Idle
  <2>1. c \in Stampers /\ writer = k /\ c.view = index /\ c.p \in Projects
        /\ (c.op = "download" => c.at <= fetched[c.p])
    BY <1>0, <1>2, CommandAt DEF EndWrite, LockInv, DownloadInv, Stampers
  <2>2. NewEntry(c) \in Entries /\ NewEntry(c).download <= fetched[c.p]
    <3>1. index[c.p] \in Entries /\ index[c.p].download <= fetched[c.p] /\ c.at \in Mtimes /\ fetched[c.p] \in Mtimes
      BY <1>0, <2>1, Moments DEF CommandTypeOK, Indexes, Stampers, Mtimes
    <3>2. CASE c.op = "download"
      BY <2>1, <3>1, <3>2 DEF NewEntry, Entries
    <3>3. CASE c.op \in {"cook", "upload"}
      BY <2>1, <3>1, <3>3 DEF NewEntry, Entries
    <3>4. CASE c.op = "sizes"
      BY <2>1, <3>1, <3>4 DEF NewEntry
    <3>5. CASE c.op = "removed"
      <4>1. NewEntry(c) = NoEntry
        BY <3>5 DEF NewEntry
      <4> QED BY <3>1, <4>1 DEF NoEntry, Entries, Mtimes, Times, Never
    <3> QED BY <2>1, <3>2, <3>3, <3>4, <3>5 DEF Stampers, Writes, Stamps
  <2>3. index' \in Indexes /\ \A p \in Projects : index'[p].download <= fetched[p]
    <3>1. index' = [index EXCEPT ![c.p] = NewEntry(c)] /\ index \in Indexes
      BY <1>0, <1>2, <2>1 DEF EndWrite, CommandTypeOK
    <3>2. \A p \in Projects : index'[p] = IF p = c.p THEN NewEntry(c) ELSE index[p]
      BY <3>1 DEF Indexes
    <3>3. index' \in Indexes
      BY <2>2, <3>1 DEF Indexes
    <3> QED BY <1>0, <2>2, <3>2, <3>3 DEF DownloadInv
  <2>4. told' \in [Projects -> Mtimes]
    BY <1>0, <1>2, <2>1 DEF EndWrite, CommandTypeOK, Mtimes, Stampers
  <2>5. r \in Idles \union Stampers /\ r.pc \in {"idle", "stamp"} /\ (r.pc = "stamp" => r.op = "sizes")
    BY <1>0, <1>a, <2>1, RewriteIsStamper DEF Writes
  <2>6. cmd' = [cmd EXCEPT ![k] = r] /\ UNCHANGED <<now, made, out, got, fetched, lost>> /\ writer' = NoProcess
    BY <1>2 DEF EndWrite
  <2> HIDE DEF r
  <2>7. CommandTypeOK'
    BY <1>0, <2>3, <2>4, <2>5, <2>6 DEF CommandTypeOK
  <2>8. LockInv' /\ DownloadInv'
    BY <1>0, <2>1, <2>3, <2>5, <2>6 DEF LockInv, DownloadInv, IsAt, CommandTypeOK
  <2>9. DeleteInv' /\ NewOutputsAreKept'
    BY <1>0, <2>5, <2>6 DEF VolumeInv, DeleteInv, NewOutputsAreKept, IsAt, Files, CommandTypeOK
  <2> QED BY <2>7, <2>8, <2>9 DEF VolumeInv
<1>3. CASE Die(k)
  <2>1. index' \in Indexes /\ \A p \in Projects : index'[p].download <= fetched[p]
    BY <1>0, <1>3, <1>a, Moments DEF Die, CommandTypeOK, DownloadInv, Never, Mtimes, Times
  <2>2. CommandTypeOK'
    BY <1>0, <1>3, <1>a, <2>1 DEF CommandTypeOK, Die
  <2>3. LockInv' /\ DownloadInv'
    <3>1. CASE writer = k
      BY <1>0, <1>3, <1>a, <2>1, <3>1 DEF LockInv, DownloadInv, IsAt, Die, CommandTypeOK
    <3>2. CASE writer # k
      BY <1>0, <1>3, <1>a, <2>1, <3>2 DEF LockInv, DownloadInv, IsAt, Die, CommandTypeOK
    <3> QED BY <3>1, <3>2
  <2>4. DeleteInv' /\ NewOutputsAreKept'
    BY <1>0, <1>3, <1>a DEF VolumeInv, DeleteInv, NewOutputsAreKept, IsAt, Die, Files, CommandTypeOK
  <2> QED BY <2>2, <2>3, <2>4 DEF VolumeInv
<1> QED BY <1>1, <1>2, <1>3

\* The clock goes on.
LEMMA AgeKeeps == VolumeInv /\ Age => VolumeInv'
<1> SUFFICES ASSUME VolumeInv, Age PROVE VolumeInv'
  OBVIOUS
<1> USE VolumeAssumption DEF VolumeInv, Age, fileVars, indexVars, pastVars
<1>1. CommandTypeOK'
  <2>1. now' \in Times
    BY Moments DEF Times
  <2> QED BY <2>1 DEF CommandTypeOK
<1>2. LockInv' /\ DeleteInv' /\ NewOutputsAreKept'
  BY DEF LockInv, DeleteInv, NewOutputsAreKept, IsAt, Files
<1>3. DownloadInv'
  BY Moments DEF DownloadInv, IsAt
<1> QED BY <1>1, <1>2, <1>3

\* A render writes an output: it is late for whoever is about to delete the project.
LEMMA WriteKeeps ==
  ASSUME VolumeInv, NEW p \in Projects, NEW f \in OutputFiles, Write(p, f)
  PROVE  VolumeInv'
<1> USE DEF fileVars, indexVars, pastVars
<1>0. CommandTypeOK /\ LockInv /\ DownloadInv /\ DeleteInv
  BY DEF VolumeInv
<1>1. ASSUME NEW k \in Commands
      PROVE  \/ ~ (IsAt(k, "delete") /\ cmd[k].p = p) /\ cmd'[k] = cmd[k]
             \/ /\ IsAt(k, "delete") /\ cmd[k].p = p /\ cmd[k] \in Deleters
                /\ cmd'[k] = [cmd[k] EXCEPT !.late = @ \union {f}]
  BY <1>0, CommandAt DEF Write
<1>2. \A k \in Commands : cmd'[k] \in Idles \union Fetches \union Stampers \union Lookers \union Deleters
  <2> TAKE k \in Commands
  <2>1. CASE IsAt(k, "delete") /\ cmd[k].p = p
    <3>1. cmd[k] \in Deleters /\ cmd'[k] = [cmd[k] EXCEPT !.late = @ \union {f}]
      BY <1>1, <2>1
    <3> QED BY <3>1 DEF Deleters
  <2>2. CASE ~ (IsAt(k, "delete") /\ cmd[k].p = p)
    BY <1>0, <1>1, <2>2 DEF CommandTypeOK
  <2> QED BY <2>1, <2>2
<1>3. \A k \in Commands : /\ cmd'[k].pc = cmd[k].pc
                          /\ ~ IsAt(k, "delete") => cmd'[k] = cmd[k]
                          /\ IsAt(k, "delete") => /\ cmd'[k].op = cmd[k].op /\ cmd'[k].p = cmd[k].p
                                                  /\ cmd[k].late \subseteq cmd'[k].late
                                                  /\ cmd[k].p = p => f \in cmd'[k].late
  <2> TAKE k \in Commands
  <2>1. CASE IsAt(k, "delete") /\ cmd[k].p = p
    <3>1. cmd[k] \in Deleters /\ cmd'[k] = [cmd[k] EXCEPT !.late = @ \union {f}]
      BY <1>1, <2>1
    <3> QED BY <2>1, <3>1 DEF Deleters, IsAt
  <2>2. CASE ~ (IsAt(k, "delete") /\ cmd[k].p = p)
    BY <1>1, <2>2
  <2> QED BY <2>1, <2>2
<1>4. CommandTypeOK'
  BY <1>0, <1>2 DEF CommandTypeOK, Write, Mtimes
<1>5. LockInv' /\ DownloadInv'
  BY <1>0, <1>3 DEF LockInv, DownloadInv, IsAt, Write
<1>6. DeleteInv'
  <2> SUFFICES ASSUME NEW k \in Commands, (IsAt(k, "delete") /\ cmd[k].op \notin {"rm_force", "rm_dir"})',
                      NEW g \in (Files(cmd[k].p) \ cmd[k].late)'
               PROVE  (out[cmd[k].p][g] <= fetched[cmd[k].p])'
    BY DEF DeleteInv
  <2>1. cmd[k] \in Deleters /\ IsAt(k, "delete")
    BY <1>0, <1>3, CommandAt DEF IsAt
  <2>2. g \in OutputFiles /\ out'[cmd[k].p][g] = out[cmd[k].p][g] /\ g \notin cmd[k].late
    BY <1>0, <1>3, <2>1 DEF Write, Files, CommandTypeOK, Deleters
  <2>3. g \in Files(cmd[k].p) \ cmd[k].late
    BY <1>3, <2>1, <2>2 DEF Files
  <2> QED BY <1>0, <1>3, <2>1, <2>2, <2>3 DEF DeleteInv, Write
<1> QED BY <1>4, <1>5, <1>6 DEF VolumeInv, NewOutputsAreKept, Write

\* A project or a directory is deleted.
LEMMA DeleteKeeps ==
  ASSUME VolumeInv, NEW k \in Commands, Delete(k)
  PROVE  VolumeInv'
<1> USE DEF fileVars, indexVars, Become
<1> DEFINE c == cmd[k]
           r == IF ~ Present(c.p) /\ c.op # "prune" THEN Idle
                ELSE Rewrite(c.p, IF c.op = "rm_dir" THEN "sizes" ELSE "removed")
<1>0. CommandTypeOK /\ LockInv /\ DownloadInv /\ DeleteInv /\ c \in Deleters /\ c.p \in Projects
  BY CommandAt DEF VolumeInv, Delete, Deleters
<1>1. r \in Idles \union Stampers /\ r.pc \in {"idle", "stamp"} /\ (r.pc = "stamp" => r.op \in {"sizes", "removed"})
  <2>1. Idle \in Idles /\ Idle.pc = "idle"
    BY DEF Idle, Idles
  <2> QED BY <1>0, <2>1, RewriteIsStamper DEF Writes
<1>a. cmd' = [cmd EXCEPT ![k] = r]
  BY DEF Delete
<1> HIDE DEF r
<1>2. CommandTypeOK'
  <2>1. out' \in [Projects -> [OutputFiles -> Mtimes]]
    BY <1>0 DEF Delete, CommandTypeOK, NoFiles, Mtimes
  <2>2. got' \in [Projects -> SUBSET OutputFiles] /\ made' \in [Projects -> Mtimes]
    BY <1>0 DEF Delete, CommandTypeOK, Mtimes
  <2> QED BY <1>0, <1>1, <1>a, <2>1, <2>2 DEF Delete, CommandTypeOK
<1>3. LockInv' /\ DownloadInv'
  BY <1>0, <1>1, <1>a DEF LockInv, DownloadInv, IsAt, Delete, CommandTypeOK
<1>4. DeleteInv'
  <2> SUFFICES ASSUME NEW j \in Commands, (IsAt(j, "delete") /\ cmd[j].op \notin {"rm_force", "rm_dir"})',
                      NEW g \in (Files(cmd[j].p) \ cmd[j].late)'
               PROVE  (out[cmd[j].p][g] <= fetched[cmd[j].p])'
    BY DEF DeleteInv
  <2>1. j # k /\ cmd'[j] = cmd[j] /\ cmd[j] \in Deleters /\ IsAt(j, "delete")
    BY <1>0, <1>1, <1>a, CommandAt DEF IsAt, CommandTypeOK
  <2>2. cmd[j].p # c.p /\ out'[cmd[j].p] = out[cmd[j].p]
    BY <1>0, <2>1 DEF Delete, Files, NoFiles, CommandTypeOK, Deleters
  <2> QED BY <1>0, <2>1, <2>2 DEF DeleteInv, Files, Delete
<1>5. NewOutputsAreKept'
  <2>1. \A f \in Files(c.p) : Reason(c, f) # "new"
    BY <1>0 DEF Reason, DeleteInv, Delete
  <2> QED BY <2>1 DEF NewOutputsAreKept, Delete, VolumeInv
<1> QED BY <1>2, <1>3, <1>4, <1>5 DEF VolumeInv

LEMMA NextVolume == VolumeInv /\ [VolumeNext]_volumeVars => VolumeInv'
<1> SUFFICES ASSUME VolumeInv, [VolumeNext]_volumeVars PROVE VolumeInv'
  OBVIOUS
<1>1. CASE Age
  BY <1>1, AgeKeeps
<1>2. CASE \E p \in Projects, f \in OutputFiles : Write(p, f)
  BY <1>2, WriteKeeps
<1>3. CASE \E k \in Commands, p \in Projects :
             CookBegins(k, p) \/ Uploaded(k, p) \/ SizesMeasured(k, p) \/ Fetch(k, p)
               \/ (\E op \in Removes : OpenIndex(k, p, op))
  BY <1>3, TouchKeeps, BeginKeeps
<1>4. CASE \E k \in Commands : FetchDone(k) \/ Decide(k) \/ Delete(k)
  BY <1>4, FetchedKeeps, DecideKeeps, DeleteKeeps
<1>5. CASE \E k \in Commands : BeginWrite(k) \/ EndWrite(k) \/ Die(k)
  BY <1>5, LockKeeps
<1>6. CASE UNCHANGED volumeVars
  BY <1>6 DEF volumeVars, fileVars, indexVars, pastVars, VolumeInv, CommandTypeOK, LockInv, DownloadInv, DeleteInv,
             NewOutputsAreKept, IsAt, Files
<1> QED BY <1>1, <1>2, <1>3, <1>4, <1>5, <1>6 DEF VolumeNext

\* What the commands know and what the downloads were hold in every state.
THEOREM VolumeInvariant == VolumeSpec => []VolumeInv
<1>1. VolumeInit => VolumeInv
  BY InitVolume
<1>2. VolumeInv /\ [VolumeNext]_volumeVars => VolumeInv'
  BY NextVolume
<1> QED BY <1>1, <1>2, PTL DEF VolumeSpec

\* No output that a command could see and that is newer than every download of its project
\* is deleted without force, whatever the command read of the index: torn, lost, removed or
\* set back by an older stamp.
THEOREM NewKept == VolumeSpec => []NewOutputsAreKept
<1>1. VolumeInv => NewOutputsAreKept
  BY DEF VolumeInv
<1> QED BY <1>1, VolumeInvariant, PTL

\* Who writes the index leaves in it what others have recorded.
THEOREM NoStampLost == VolumeSpec => NoStampIsLost
<1>1. ASSUME VolumeInv, NEW k \in Commands, EndWrite(k)
      PROVE  LET c == cmd[k] IN
             /\ \A p \in Projects \ {c.p} : index'[p] = index[p]
             /\ c.op \in {"cook", "upload", "sizes"} => index'[c.p].download = index[c.p].download
             /\ c.op = "sizes" => index'[c.p].used = index[c.p].used
  <2> DEFINE c == cmd[k]
  <2>1. c \in Stampers /\ c.view = index /\ index \in Indexes /\ c.p \in Projects
    BY <1>1, CommandAt DEF EndWrite, VolumeInv, LockInv, CommandTypeOK, Stampers
  <2>2. /\ c.op \in {"cook", "upload", "sizes"} => NewEntry(c).download = index[c.p].download
        /\ c.op = "sizes" => NewEntry(c) = index[c.p]
    BY <2>1 DEF NewEntry, Indexes, Entries
  <2> QED BY <1>1, <2>1, <2>2 DEF EndWrite, Indexes
<1>2. VolumeInv /\ [VolumeNext]_volumeVars =>
        [\A k \in Commands : EndWrite(k) =>
           LET c == cmd[k] IN
           /\ \A p \in Projects \ {c.p} : index'[p] = index[p]
           /\ c.op \in {"cook", "upload", "sizes"} => index'[c.p].download = index[c.p].download
           /\ c.op = "sizes" => index'[c.p].used = index[c.p].used]_volumeVars
  BY <1>1
<1> QED BY <1>2, VolumeInvariant, PTL DEF VolumeSpec, NoStampIsLost
=============================================================================
