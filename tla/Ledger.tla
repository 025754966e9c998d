------------------------------- MODULE Ledger -------------------------------
(***************************************************************************)
(* The cost record.  Each cook appends to a journal on the machine it runs  *)
(* on; the journal is mirrored to the volume when the cook stops; every     *)
(* machine pulls the others' journals (the stats node, the scheduler's      *)
(* refresh) and adds them up, with RunPod's bill if it can have it          *)
(* (ledger.py, cmd_costs).                                                  *)
(*                                                                         *)
(* A cook has one pod and a few tasks, a task takes its number of seconds.  *)
(* A journal is a sequence of task numbers, Summary and broken lines.  The    *)
(* scheduler's own journal is ledger/<cook>.jsonl, a pulled one             *)
(* ledger/<user>/<cook>.jsonl.                                              *)
(***************************************************************************)
EXTENDS Integers, FiniteSets, SequencesExt

CONSTANTS
  Cooks,
  Machines,    \* one artist each
  Tasks,       \* tasks of a cook, 1..n
  MaxSeconds,  \* bound on the seconds a pod is billed
  MaxAmount,   \* bound on the amount of a bill
  MaxFaults    \* bound on failed writes, mirrors and pulls

ASSUME LedgerAssumption == /\ Tasks \subseteq Nat \ {0} /\ {MaxSeconds, MaxAmount, MaxFaults} \subseteq Nat
                           /\ IsFiniteSet(Machines) /\ Machines # {}

VARIABLES
  cookState,  \* per cook: where it runs, how far it is
  ledger,     \* per machine: its journals, by path
  volumeLog,  \* /workspace/ledger
  bill,       \* GET /billing/pods, summed by pod
  ledgerFaults

ledgerVars == <<cookState, ledger, volumeLog, bill, ledgerFaults>>

Summary == 0
Torn    == -1   \* a line that cannot be parsed
Cut     == -2   \* one that has no end yet
Own(c)       == <<"", c>>
Shared(m, c) == <<m, c>>
Paths == {Own(c) : c \in Cooks} \cup {Shared(m, c) : m \in Machines, c \in Cooks}
Unbilled == [seconds |-> 0, amount |-> 0, there |-> FALSE]

-----------------------------------------------------------------------------
(* Reading                                                                  *)

Journal(m, path) == ledger[m][path]

\* load_all: a line that cannot be read ends its file
Readable(journal) ==
  LET torn == {i \in DOMAIN journal : journal[i] < Summary}
  IN  IF torn = {} THEN journal ELSE SubSeq(journal, 1, (CHOOSE i \in torn : \A j \in torn : i <= j) - 1)

\* the task records of a cook that load_all finds, from wherever: a path and a line each
Records(m, c) ==
  UNION {{path} \X {i \in DOMAIN Readable(Journal(m, path)) : Journal(m, path)[i] # Summary} :
           path \in {p \in Paths : p[2] = c}}

SecondsOf(m, records) == MapThenSumSet(LAMBDA r : Journal(m, r[1])[r[2]], records)

-----------------------------------------------------------------------------
(* merge_billing: amounts are numerators over the denominator of their pod  *)

LargerOf(a, b) == IF a >= b THEN a ELSE b

DenominatorAsBilled(billed, worked) == billed

\* capped: a task may begin before the period of the bill
Denominator(billed, worked) == LargerOf(billed, worked)

\* each task its share by duration, and what is left is idle
TaskShares(worked, amount, denominator) == IF denominator = 0 THEN 0 ELSE worked * amount
IdleShare(worked, amount, denominator) ==
  LargerOf((IF denominator = 0 THEN amount ELSE amount * denominator) - TaskShares(worked, amount, denominator), 0)

\* what the merged records of a pod come to; a pod without records is unattributed
Merged(m, c) ==
  LET worked == SecondsOf(m, Records(m, c))
      d      == Denominator(bill[c].seconds, worked)
  IN  IF Records(m, c) = {} THEN [sum |-> bill[c].amount, over |-> 1]
      ELSE [sum  |-> TaskShares(worked, bill[c].amount, d) + IdleShare(worked, bill[c].amount, d),
            over |-> IF d = 0 THEN 1 ELSE d]

\* summarize: everything that is not a summary, idle or unattributed counts as a task
TaskCount(m, c) == Cardinality(Records(m, c))

-----------------------------------------------------------------------------
(* Writing                                                                  *)

Written(m, path, journal) == ledger' = [ledger EXCEPT ![m][path] = journal]
Fault(n) == ledgerFaults + n <= MaxFaults /\ ledgerFaults' = ledgerFaults + n

StartCook(c, m) ==
  /\ cookState[c].at = "no" /\ cookState' = [cookState EXCEPT ![c] = [at |-> "cooking", on |-> m, done |-> {}]]
  /\ UNCHANGED <<ledger, volumeLog, bill, ledgerFaults>>

\* append: whole, dropped, or cut by a full disk; the next line then goes on where
\* the cut one ends
AppendLine(c, record, how) ==
  LET m == cookState[c].on
      journal == Journal(m, Own(c))
      open == journal # <<>> /\ Last(journal) = Cut
  IN  /\ Fault(IF how = "whole" THEN 0 ELSE 1)
      /\ Written(m, Own(c),
           CASE how = "dropped" \/ (how = "cut" /\ open) -> journal
             [] how = "cut" /\ ~open  -> Append(journal, Cut)
             [] how = "whole"         -> IF open THEN Append(Front(journal), Torn) ELSE Append(journal, record))

TaskEnds(c, t, how) ==
  /\ cookState[c].at = "cooking" /\ t \in Tasks \ cookState[c].done
  /\ cookState' = [cookState EXCEPT ![c].done = @ \cup {t}]
  /\ AppendLine(c, t, how) /\ UNCHANGED <<volumeLog, bill>>

\* onStopCook: the summary first
StopCook(c, how) ==
  /\ cookState[c].at = "cooking" /\ cookState' = [cookState EXCEPT ![c].at = "stopped"]
  /\ AppendLine(c, Summary, how) /\ UNCHANGED <<volumeLog, bill>>

\* mirror_to_volume; one that fails leaves the journal local
Mirror(c, well) ==
  LET m == cookState[c].on
  IN  /\ cookState[c].at = "stopped" /\ cookState' = [cookState EXCEPT ![c].at = "over"]
      /\ Fault(IF well THEN 0 ELSE 1)
      /\ volumeLog' = IF well THEN [volumeLog EXCEPT ![Shared(m, c)] = Journal(m, Own(c))] ELSE volumeLog
      /\ UNCHANGED <<ledger, bill>>

\* Houdini goes away in the middle
CookDies(c) ==
  /\ cookState[c].at \in {"cooking", "stopped"} /\ Fault(1)
  /\ cookState' = [cookState EXCEPT ![c].at = "over"]
  /\ UNCHANGED <<ledger, volumeLog, bill>>

\* sync_from_volume: a file that is there is left as it is
Pull(m, path) ==
  /\ volumeLog[path] # <<>> /\ Journal(m, path) = <<>>
  /\ Written(m, path, volumeLog[path]) /\ UNCHANGED <<cookState, volumeLog, bill, ledgerFaults>>

\* RunPod bills a pod as it goes
Bills(c, seconds, amount) ==
  /\ cookState[c].at # "no" /\ seconds \in bill[c].seconds..MaxSeconds /\ amount \in bill[c].amount..MaxAmount
  /\ bill' = [bill EXCEPT ![c] = [seconds |-> seconds, amount |-> amount, there |-> TRUE]] /\ bill' # bill
  /\ UNCHANGED <<cookState, ledger, volumeLog, ledgerFaults>>

LedgerInit ==
  /\ cookState = [c \in Cooks |-> [at |-> "no", on |-> CHOOSE m \in Machines : TRUE, done |-> {}]]
  /\ ledger = [m \in Machines |-> [path \in Paths |-> <<>>]] /\ volumeLog = [path \in Paths |-> <<>>]
  /\ bill = [c \in Cooks |-> Unbilled] /\ ledgerFaults = 0

LedgerNext ==
  \/ \E c \in Cooks :
       \/ \E m \in Machines : StartCook(c, m)
       \/ \E how \in {"whole", "dropped", "cut"} : StopCook(c, how) \/ \E t \in Tasks : TaskEnds(c, t, how)
       \/ \E well \in BOOLEAN : Mirror(c, well)
       \/ CookDies(c)
       \/ \E seconds \in 0..MaxSeconds, amount \in 0..MaxAmount : Bills(c, seconds, amount)
  \/ \E m \in Machines, path \in Paths : Pull(m, path)

LedgerSpec == LedgerInit /\ [][LedgerNext]_ledgerVars

-----------------------------------------------------------------------------
(* Properties                                                               *)

\* With the bill merged in, what the records of a pod come to is what RunPod billed for
\* it, on every machine: whatever was pulled twice, torn or lost, and also where the
\* tasks took longer than the pod was billed (merge_billing: "always reconciles to the
\* bill").
MergeReconciles ==
  \A m \in Machines, c \in Cooks :
    bill[c].there => Merged(m, c).sum = bill[c].amount * Merged(m, c).over

\* A machine counts a task once: its own journal is the source of truth for what it
\* wrote, and a pulled copy of it adds nothing (sync_from_volume: "a file that already
\* exists locally is left untouched").
TaskCountedOnce ==
  \A m \in Machines, c \in Cooks : TaskCount(m, c) <= Cardinality(cookState[c].done)
=============================================================================
