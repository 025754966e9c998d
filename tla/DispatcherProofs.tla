-------------------------- MODULE DispatcherProofs --------------------------
(***************************************************************************)
(* Proofs about Dispatcher for every set of pods and tasks and every value *)
(* of the other constants.                                                 *)
(***************************************************************************)
EXTENDS Dispatcher, FiniteSetTheorems, TLAPS

-----------------------------------------------------------------------------
(* Sequences without repetition *)

\* Appending a new element keeps a queue free of repetitions.
LEMMA AppendFacts ==
  ASSUME NEW S, NEW s \in Seq(S), NEW x \in S
  PROVE  /\ Append(s, x) \in Seq(S)
         /\ Len(Append(s, x)) = Len(s) + 1
         /\ \A i \in 1..Len(s) : Append(s, x)[i] = s[i]
         /\ Append(s, x)[Len(s) + 1] = x
         /\ ToSet(Append(s, x)) = ToSet(s) \union {x}
         /\ IsInjective(s) /\ x \notin ToSet(s) => IsInjective(Append(s, x))
<1>1. /\ Append(s, x) \in Seq(S)
      /\ Len(Append(s, x)) = Len(s) + 1
      /\ \A i \in 1..Len(s) : Append(s, x)[i] = s[i]
      /\ Append(s, x)[Len(s) + 1] = x
      /\ DOMAIN Append(s, x) = 1..(Len(s) + 1)
      /\ DOMAIN s = 1..Len(s)
      /\ Len(s) \in Nat
  OBVIOUS
<1>2. 1..(Len(s) + 1) = 1..Len(s) \union {Len(s) + 1}
  BY <1>1
<1>3. ToSet(Append(s, x)) = ToSet(s) \union {x}
  BY <1>1, <1>2 DEF ToSet
<1>4. IsInjective(s) /\ x \notin ToSet(s) => IsInjective(Append(s, x))
  BY <1>1, <1>2 DEF ToSet, IsInjective
<1> QED BY <1>1, <1>3, <1>4

\* Taking the head off a queue without repetitions removes just that element.
LEMMA TailFacts ==
  ASSUME NEW S, NEW s \in Seq(S), s # <<>>
  PROVE  /\ Tail(s) \in Seq(S)
         /\ Head(s) \in S
         /\ Head(s) \in ToSet(s)
         /\ IsInjective(s) => IsInjective(Tail(s)) /\ ToSet(Tail(s)) = ToSet(s) \ {Head(s)}
<1>1. /\ Tail(s) \in Seq(S)
      /\ Len(s) \in Nat \ {0}
      /\ Head(s) = s[1]
      /\ Head(s) \in S
      /\ Len(Tail(s)) = Len(s) - 1
      /\ \A i \in 1..(Len(s) - 1) : Tail(s)[i] = s[i + 1]
      /\ DOMAIN Tail(s) = 1..(Len(s) - 1)
      /\ DOMAIN s = 1..Len(s)
  OBVIOUS
<1>2. Head(s) \in ToSet(s)
  BY <1>1 DEF ToSet
<1>3. ASSUME IsInjective(s) PROVE IsInjective(Tail(s))
  <2>1. SUFFICES ASSUME NEW i \in 1..(Len(s) - 1), NEW j \in 1..(Len(s) - 1),
                        Tail(s)[i] = Tail(s)[j]
                 PROVE  i = j
    BY <1>1 DEF IsInjective
  <2>2. s[i + 1] = s[j + 1] /\ i + 1 \in 1..Len(s) /\ j + 1 \in 1..Len(s)
    BY <1>1, <2>1
  <2> QED BY <1>1, <1>3, <2>2 DEF IsInjective
<1>4. ASSUME IsInjective(s) PROVE ToSet(Tail(s)) = ToSet(s) \ {Head(s)}
  <2>1. ASSUME NEW x \in ToSet(Tail(s)) PROVE x \in ToSet(s) \ {Head(s)}
    <3>1. PICK i \in 1..(Len(s) - 1) : x = s[i + 1]
      BY <1>1 DEF ToSet
    <3>2. i + 1 \in 1..Len(s) /\ i + 1 # 1 /\ 1 \in 1..Len(s)
      BY <1>1
    <3> QED BY <1>1, <1>4, <3>1, <3>2 DEF ToSet, IsInjective
  <2>2. ASSUME NEW x \in ToSet(s) \ {Head(s)} PROVE x \in ToSet(Tail(s))
    <3>1. PICK i \in 1..Len(s) : x = s[i]
      BY <1>1 DEF ToSet
    <3>2. i - 1 \in 1..(Len(s) - 1) /\ (i - 1) + 1 = i
      BY <1>1, <3>1
    <3>3. x = Tail(s)[i - 1]
      BY <1>1, <3>1, <3>2
    <3> QED BY <1>1, <3>2, <3>3 DEF ToSet
  <2> QED BY <2>1, <2>2
<1> QED BY <1>1, <1>2, <1>3, <1>4

\* Two queues without repetitions and without a common element, one behind
\* the other, are a queue without repetitions.
LEMMA ConcatFacts ==
  ASSUME NEW S, NEW s \in Seq(S), NEW u \in Seq(S)
  PROVE  /\ s \o u \in Seq(S)
         /\ Len(s \o u) = Len(s) + Len(u)
         /\ \A i \in 1..Len(s) : (s \o u)[i] = s[i]
         /\ ToSet(s \o u) = ToSet(s) \union ToSet(u)
         /\ IsInjective(s) /\ IsInjective(u) /\ ToSet(s) \intersect ToSet(u) = {}
              => IsInjective(s \o u)
<1> DEFINE c == s \o u
           m == Len(s)
           n == Len(u)
<1>1. /\ c \in Seq(S) /\ m \in Nat /\ n \in Nat
      /\ Len(c) = m + n
      /\ DOMAIN c = 1..(m + n) /\ DOMAIN s = 1..m /\ DOMAIN u = 1..n
      /\ \A i \in 1..m : c[i] = s[i]
      /\ \A i \in (m + 1)..(m + n) : c[i] = u[i - m]
  OBVIOUS
<1> HIDE DEF c, m, n
<1>2. \A i \in 1..(m + n) : i \in 1..m \/ (i \in (m + 1)..(m + n) /\ i - m \in 1..n)
  BY <1>1
<1>3. \A j \in 1..n : j + m \in (m + 1)..(m + n) /\ j + m \in 1..(m + n) /\ (j + m) - m = j
  BY <1>1
<1>4. \A i \in 1..m : i \in 1..(m + n)
  BY <1>1
<1>5. ToSet(c) = ToSet(s) \union ToSet(u)
  <2>1. ASSUME NEW x \in ToSet(c) PROVE x \in ToSet(s) \union ToSet(u)
    BY <1>1, <1>2 DEF ToSet
  <2>2. ASSUME NEW x \in ToSet(s) PROVE x \in ToSet(c)
    BY <1>1, <1>4 DEF ToSet
  <2>3. ASSUME NEW x \in ToSet(u) PROVE x \in ToSet(c)
    <3>1. PICK j \in 1..n : x = u[j]
      BY <1>1 DEF ToSet
    <3>2. c[j + m] = x
      BY <1>1, <1>3, <3>1
    <3> QED BY <1>1, <1>3, <3>2 DEF ToSet
  <2> QED BY <2>1, <2>2, <2>3
<1>6. ASSUME IsInjective(s), IsInjective(u), ToSet(s) \intersect ToSet(u) = {}
      PROVE  IsInjective(c)
  <2>1. SUFFICES ASSUME NEW i \in 1..(m + n), NEW j \in 1..(m + n), c[i] = c[j]
                 PROVE  i = j
    BY <1>1 DEF IsInjective
  <2>2. CASE i \in 1..m /\ j \in 1..m
    BY <1>1, <1>6, <2>1, <2>2 DEF IsInjective
  <2>3. CASE i \notin 1..m /\ j \notin 1..m
    <3>1. i - m \in 1..n /\ j - m \in 1..n /\ u[i - m] = u[j - m]
      BY <1>1, <1>2, <2>1, <2>3
    <3>2. i - m = j - m
      BY <1>1, <1>6, <3>1 DEF IsInjective
    <3> QED BY <1>1, <3>2
  <2>4. ASSUME NEW k \in 1..m, NEW l \in 1..(m + n), l \notin 1..m PROVE c[k] # c[l]
    <3>1. c[k] \in ToSet(s) /\ c[l] \in ToSet(u)
      BY <1>1, <1>2, <2>4 DEF ToSet
    <3> QED BY <1>6, <3>1
  <2> QED BY <2>1, <2>2, <2>3, <2>4
<1> QED BY <1>1, <1>5, <1>6 DEF c, m, n

\* A bijection from 1..n onto a finite set is a queue of its elements, each
\* once.
LEMMA OrderFacts ==
  ASSUME NEW S, NEW R, R \subseteq S, IsFiniteSet(R),
         NEW e \in Bijection(1..Cardinality(R), R)
  PROVE  e \in Seq(S) /\ ToSet(e) = R /\ IsInjective(e)
<1>1. Cardinality(R) \in Nat
  BY FS_CardinalityType
<1>2. /\ e \in [1..Cardinality(R) -> R]
      /\ IsInjective(e)
      /\ \A r \in R : \E i \in 1..Cardinality(R) : e[i] = r
  BY DEF Bijection, Injection, Surjection
<1>3. e \in Seq(S)
  BY <1>1, <1>2
<1>4. ToSet(e) = R
  BY <1>2 DEF ToSet
<1> QED BY <1>2, <1>3, <1>4

\* The elements of a queue at the positions of I, in queue order.
LEMMA PickFacts ==
  ASSUME NEW S, NEW s \in Seq(S), NEW I, I \subseteq DOMAIN s, NEW e \in Ascending(I),
         NEW q, q \in [DOMAIN e -> S], \A k \in DOMAIN e : q[k] = s[e[k]]
  PROVE  /\ q \in Seq(S)
         /\ ToSet(q) = {s[i] : i \in I}
         /\ IsInjective(s) => IsInjective(q)
<1>1. DOMAIN s = 1..Len(s) /\ Len(s) \in Nat
  OBVIOUS
<1>2. IsFiniteSet(I) /\ Cardinality(I) \in Nat
  <2>1. IsFiniteSet(1..Len(s))
    BY <1>1, FS_Interval
  <2> QED BY <1>1, <2>1, FS_Subset, FS_CardinalityType
<1>3. /\ DOMAIN e = 1..Cardinality(I)
      /\ \A k \in DOMAIN e : e[k] \in I
      /\ IsInjective(e)
      /\ \A i \in I : \E k \in DOMAIN e : e[k] = i
  BY DEF Ascending, Bijection, Injection, Surjection
<1>4. \A i \in I : s[i] \in S
  BY <1>1
<1>5. q \in Seq(S)
  BY <1>2, <1>3, <1>4
<1>6. ToSet(q) = {s[i] : i \in I}
  BY <1>3 DEF ToSet
<1>7. IsInjective(s) => IsInjective(q)
  BY <1>3 DEF IsInjective
<1> QED BY <1>5, <1>6, <1>7

-----------------------------------------------------------------------------
(* The inductive invariant *)

\* A pod is in the pool iff it has not been given up.
PoolAlive == \A p \in Pods : p \in pool <=> status[p] # "DEAD"

\* What starved counts covers the whole wait capacity_expired measures.
StarvedCovers ==
  \A t \in Tasks : Queued(t) /\ pool = {} =>
    starved[t] >= now - (IF queuedAt[t] >= noPodSince THEN queuedAt[t] ELSE noPodSince)

Inv ==
  /\ TypeOK
  /\ NothingLost
  /\ OnePlace
  /\ BooksAgree
  /\ AttemptsLeft
  /\ ReportedOnce
  /\ IdleMeansEmpty
  /\ PoolAlive
  /\ StarvedCovers
  /\ SlotsRespected

\* The parts of the invariant that mention neither the pods' books nor time.
TaskInv == NothingLost /\ OnePlace /\ AttemptsLeft

\* The parts that relate a pod to the tasks it holds.
PodInv == BooksAgree /\ IdleMeansEmpty /\ PoolAlive

\* Initially nothing is queued, held or reported.
LEMMA InitInv == Init => Inv
<1> SUFFICES ASSUME Init PROVE Inv
  OBVIOUS
<1> USE DispatcherAssumption DEF Init
<1>1. TypeOK
  BY DEF TypeOK, Times, Never
<1>2. ToSet(pending) = {} /\ ToSet(failed) = {} /\ InFlight = {} /\ Accepted = {}
  BY DEF ToSet, InFlight, Accepted
<1>3. NothingLost /\ OnePlace
  BY <1>2 DEF NothingLost, OnePlace, IsInjective
<1>4. BooksAgree /\ IdleMeansEmpty /\ PoolAlive
  BY DEF BooksAgree, IdleMeansEmpty, PoolAlive, Never
<1>5. AttemptsLeft /\ StarvedCovers
  BY <1>2 DEF AttemptsLeft, Queued, StarvedCovers
<1>6. ReportedOnce
  BY DEF ReportedOnce
<1>7. SlotsRespected
  BY FS_EmptySet DEF SlotsRespected
<1> QED BY <1>1, <1>3, <1>4, <1>5, <1>6, <1>7 DEF Inv

\* A pod that joins the pool, or answers for the first time, holds nothing.
LEMMA AddPodInv == ASSUME Inv, NEW p \in Pods, AddPod(p) PROVE Inv'
<1> USE DispatcherAssumption DEF AddPod, Inv, taskVars, history
<1>1. TypeOK'
  BY DEF TypeOK
<1>2. TaskInv'
  BY DEF TaskInv, NothingLost, OnePlace, AttemptsLeft, Accepted, InFlight, Queued
<1>3. PodInv'
  BY DEF PodInv, TypeOK, BooksAgree, IdleMeansEmpty, PoolAlive
<1>4. StarvedCovers'
  <2>1. pool' # {}
    OBVIOUS
  <2> QED BY <2>1 DEF StarvedCovers
<1>5. ReportedOnce' /\ SlotsRespected'
  BY DEF ReportedOnce, SlotsRespected
<1> QED BY <1>1, <1>2, <1>3, <1>4, <1>5 DEF TaskInv, PodInv

LEMMA PromoteInv == ASSUME Inv, NEW p \in Pods, Promote(p) PROVE Inv'
<1> USE DispatcherAssumption DEF Promote, Inv, taskVars, history
<1>1. TypeOK'
  BY DEF TypeOK
<1>2. TaskInv'
  BY DEF TaskInv, NothingLost, OnePlace, AttemptsLeft, Accepted, InFlight, Queued
<1>3. PodInv'
  <2>1. \A q \in Pods : status'[q] = IF q = p THEN "RUNNING" ELSE status[q]
    BY DEF TypeOK
  <2>2. running[p] = {}
    BY DEF BooksAgree
  <2>3. BooksAgree'
    BY <2>1 DEF BooksAgree
  <2>4. PoolAlive'
    BY <2>1 DEF PoolAlive
  <2>5. IdleMeansEmpty'
    BY <2>2 DEF IdleMeansEmpty, TypeOK
  <2> QED BY <2>3, <2>4, <2>5 DEF PodInv
<1>4. StarvedCovers' /\ ReportedOnce' /\ SlotsRespected'
  BY DEF StarvedCovers, ReportedOnce, SlotsRespected, Queued
<1> QED BY <1>1, <1>2, <1>3, <1>4 DEF TaskInv, PodInv

\* The 429 flag is nobody's book.
LEMMA FullInv ==
  ASSUME Inv, ReleaseFull \/ \E p \in Pods : MarkFull(p)
  PROVE  Inv'
<1> USE DispatcherAssumption DEF ReleaseFull, MarkFull, Inv, taskVars, history
<1>1. TypeOK'
  BY DEF TypeOK
<1>2. TaskInv'
  BY DEF TaskInv, NothingLost, OnePlace, AttemptsLeft, Accepted, InFlight, Queued
<1>3. PodInv'
  BY DEF PodInv, BooksAgree, IdleMeansEmpty, PoolAlive
<1>4. StarvedCovers' /\ ReportedOnce' /\ SlotsRespected'
  BY DEF StarvedCovers, ReportedOnce, SlotsRespected, Queued
<1> QED BY <1>1, <1>2, <1>3, <1>4 DEF TaskInv, PodInv

\* An accepted item joins the queue, and nothing else.
LEMMA EnqueueInv == ASSUME Inv, NEW t \in Tasks, Enqueue(t) PROVE Inv'
<1> USE DispatcherAssumption DEF Enqueue, Inv, podVars, history
<1>1. /\ pending' \in Seq(Tasks)
      /\ ToSet(pending') = ToSet(pending) \union {t}
      /\ IsInjective(pending) /\ t \notin ToSet(pending) => IsInjective(pending')
  BY AppendFacts DEF TypeOK
<1>2. t \notin Accepted /\ Accepted' = Accepted \union {t} /\ InFlight' = InFlight
  BY DEF TypeOK, Accepted, InFlight, Times, Never
<1>3. TypeOK'
  BY <1>1 DEF TypeOK
<1>4. NothingLost' /\ OnePlace'
  BY <1>1, <1>2 DEF NothingLost, OnePlace
<1>6. AttemptsLeft'
  BY DEF AttemptsLeft
<1>7. PodInv'
  BY DEF PodInv, BooksAgree, IdleMeansEmpty, PoolAlive
<1>8. StarvedCovers'
  BY <1>1 DEF StarvedCovers, TypeOK, Queued, Times, Never
<1>9. ReportedOnce' /\ SlotsRespected'
  BY DEF ReportedOnce, SlotsRespected
<1> QED BY <1>3, <1>4, <1>6, <1>7, <1>8, <1>9 DEF PodInv

\* The head of the queue goes to a pod with a free slot and to no other.
LEMMA AssignInv == ASSUME Inv, NEW p \in Pods, Assign(p) PROVE Inv'
<1> USE DispatcherAssumption DEF Assign, Inv
<1> DEFINE t == Head(pending)
<1>1. /\ pending' \in Seq(Tasks)
      /\ t \in Tasks
      /\ t \in ToSet(pending)
      /\ ToSet(pending') = ToSet(pending) \ {t}
      /\ IsInjective(pending')
  BY TailFacts DEF TypeOK, OnePlace
<1>2. placed' = [placed EXCEPT ![t] = p] /\ running' = [running EXCEPT ![p] = @ \union {t}]
      /\ starved' = [starved EXCEPT ![t] = 0]
  OBVIOUS
<1>3. p \in pool /\ status[p] = "RUNNING" /\ Cardinality(running[p]) < Slots
  <2>1. IsFiniteSet(running[p]) /\ Cardinality(running[p]) \in Nat
    BY FS_Subset, FS_CardinalityType DEF TypeOK
  <2> QED BY <2>1 DEF Picked, FreeSlots
<1> HIDE DEF t
<1>4. placed[t] = NoPod /\ InFlight' = InFlight \union {t} /\ Accepted' = Accepted
  BY <1>1, <1>2 DEF OnePlace, InFlight, TypeOK, Accepted
<1>5. TypeOK'
  BY <1>1, <1>2 DEF TypeOK
<1>6. TaskInv'
  BY <1>1, <1>4 DEF TaskInv, NothingLost, OnePlace, AttemptsLeft
<1>7. PodInv'
  <2>1. BooksAgree'
    <3>1. /\ \A u \in Tasks : placed'[u] = IF u = t THEN p ELSE placed[u]
          /\ \A q \in Pods : running'[q] = IF q = p THEN running[p] \union {t} ELSE running[q]
      BY <1>1, <1>2 DEF TypeOK
    <3>2. \A q \in Pods, u \in Tasks : u \in running'[q] <=> placed'[u] = q
      BY <1>4, <3>1, DispatcherAssumption DEF BooksAgree
    <3>3. \A q \in Pods \ pool : running'[q] = {}
      BY <1>3, <3>1 DEF BooksAgree
    <3>4. \A q \in Pods : running'[q] # {} => status[q] = "RUNNING"
      BY <1>3, <3>1 DEF BooksAgree
    <3> QED BY <3>2, <3>3, <3>4 DEF BooksAgree
  <2>2. IdleMeansEmpty' /\ PoolAlive'
    BY <1>2 DEF IdleMeansEmpty, PoolAlive, TypeOK
  <2> QED BY <2>1, <2>2 DEF PodInv
<1>8. StarvedCovers'
  BY <1>3 DEF StarvedCovers
<1>9. ReportedOnce'
  BY DEF ReportedOnce
<1>10. SlotsRespected'
  <2>1. SUFFICES ASSUME NEW q \in Pods PROVE Cardinality(running'[q]) =< Slots
    BY DEF SlotsRespected
  <2>2. CASE q # p
    BY <1>2, <2>2 DEF TypeOK, SlotsRespected
  <2>3. CASE q = p
    <3>1. IsFiniteSet(running[p]) /\ Cardinality(running[p]) \in Nat
      BY FS_Subset, FS_CardinalityType DEF TypeOK
    <3>2. running'[p] = running[p] \union {t}
      BY <1>2 DEF TypeOK
    <3>3. /\ Cardinality(running[p] \union {t}) \in Nat
          /\ Cardinality(running[p] \union {t}) =< Cardinality(running[p]) + 1
      <4>1. Cardinality(running[p] \union {t}) =
              IF t \in running[p] THEN Cardinality(running[p]) ELSE Cardinality(running[p]) + 1
        BY <3>1, FS_AddElement
      <4> QED BY <3>1, <4>1
    <3>4. Cardinality(running[p] \union {t}) =< Slots
      BY <1>3, <3>1, <3>3
    <3>5. running'[q] = running[p] \union {t}
      BY <2>3, <3>2
    <3> QED BY <3>4, <3>5
  <2> QED BY <2>2, <2>3
<1> QED BY <1>5, <1>6, <1>7, <1>8, <1>9, <1>10 DEF TaskInv, PodInv

\* A finished task leaves its pod and the books.
LEMMA CompleteInv == ASSUME Inv, NEW t \in Tasks, NEW ok \in BOOLEAN, Complete(t, ok) PROVE Inv'
<1> USE DispatcherAssumption DEF Complete, Inv
<1>1. /\ placed[t] \in Pods /\ t \in InFlight
      /\ placed' = [placed EXCEPT ![t] = NoPod]
      /\ running' = [running EXCEPT ![placed[t]] = @ \ {t}]
  BY DEF TypeOK, InFlight
<1>2. /\ failed' \in Seq(Tasks)
      /\ Len(failed') >= Len(failed)
      /\ \A i \in 1..Len(failed) : failed'[i] = failed[i]
      /\ ToSet(failed') = IF ok THEN ToSet(failed) ELSE ToSet(failed) \union {t}
      /\ IsInjective(failed')
  <2>1. t \notin ToSet(failed) /\ IsInjective(failed)
    BY <1>1 DEF OnePlace
  <2>2. CASE ok
    BY <2>1, <2>2 DEF TypeOK
  <2>3. CASE ~ok
    <3>1. failed' = Append(failed, t) /\ failed \in Seq(Tasks)
      BY <2>3 DEF TypeOK
    <3>2. Len(failed') = Len(failed) + 1 /\ Len(failed) \in Nat
      BY <3>1, AppendFacts
    <3> QED BY <2>1, <2>3, <3>1, <3>2, AppendFacts
  <2> QED BY <2>2, <2>3
<1>3. InFlight' = InFlight \ {t} /\ Accepted' = Accepted
  BY <1>1 DEF InFlight, TypeOK, Accepted
<1>4. TypeOK'
  <2>1. cursor' \in 0..Len(failed')
    BY <1>2 DEF TypeOK
  <2>2. running' \in [Pods -> SUBSET Tasks] /\ placed' \in [Tasks -> Pods \union {NoPod}]
    BY <1>1 DEF TypeOK
  <2> QED BY <1>2, <2>1, <2>2 DEF TypeOK
<1>5. NothingLost'
  BY <1>2, <1>3 DEF NothingLost
<1>6. OnePlace'
  BY <1>1, <1>2, <1>3 DEF OnePlace
<1>7. AttemptsLeft'
  BY <1>2 DEF AttemptsLeft
<1>8. PodInv'
  BY <1>1 DEF PodInv, BooksAgree, IdleMeansEmpty, PoolAlive, TypeOK
<1>9. StarvedCovers'
  BY DEF StarvedCovers, Queued
<1>10. ReportedOnce'
  <2>1. \A i \in 1..cursor : failed'[i] = failed[i]
    BY <1>2 DEF TypeOK
  <2>2. SUFFICES ASSUME NEW u \in Tasks
                 PROVE  reports'[u] = IF \E i \in 1..cursor' : failed'[i] = u THEN 1 ELSE 0
    BY DEF ReportedOnce
  <2>3. cursor' = cursor /\ reports'[u] = reports[u]
    OBVIOUS
  <2>4. (\E i \in 1..cursor' : failed'[i] = u) <=> (\E i \in 1..cursor : failed[i] = u)
    BY <2>1, <2>3
  <2> QED BY <2>3, <2>4 DEF ReportedOnce
<1>11. SlotsRespected'
  <2>1. SUFFICES ASSUME NEW q \in Pods PROVE Cardinality(running'[q]) =< Slots
    BY DEF SlotsRespected
  <2>2. running'[q] \subseteq running[q] /\ IsFiniteSet(running[q])
    BY <1>1, FS_Subset DEF TypeOK
  <2> QED BY <2>2, FS_Subset, FS_CardinalityType DEF SlotsRespected
<1> QED BY <1>4, <1>5, <1>6, <1>7, <1>8, <1>9, <1>10, <1>11 DEF PodInv

\* A new id changes nothing else about a task.
LEMMA RetaskInv == ASSUME Inv, NEW t \in Tasks, Retask(t) PROVE Inv'
<1> USE DEF Retask, Inv, podVars, history
<1>1. TypeOK'
  BY DEF TypeOK
<1>2. TaskInv'
  BY DEF TaskInv, NothingLost, OnePlace, AttemptsLeft, Accepted, InFlight
<1>3. PodInv'
  BY DEF PodInv, BooksAgree, IdleMeansEmpty, PoolAlive
<1>4. StarvedCovers' /\ ReportedOnce' /\ SlotsRespected'
  BY DEF StarvedCovers, ReportedOnce, SlotsRespected, Queued
<1> QED BY <1>1, <1>2, <1>3, <1>4 DEF TaskInv, PodInv

\* What is reported is exactly what was given up and not yet reported.
LEMMA ReportFailuresInv == ASSUME Inv, ReportFailures PROVE Inv'
<1> USE DEF ReportFailures, Inv, podVars
<1>1. TypeOK'
  BY DEF TypeOK
<1>2. TaskInv'
  BY DEF TaskInv, NothingLost, OnePlace, AttemptsLeft, Accepted, InFlight
<1>3. PodInv'
  BY DEF PodInv, BooksAgree, IdleMeansEmpty, PoolAlive
<1>4. StarvedCovers' /\ SlotsRespected'
  BY DEF StarvedCovers, SlotsRespected, Queued
<1>5. ReportedOnce'
  <2>1. SUFFICES ASSUME NEW t \in Tasks
                 PROVE  reports'[t] = IF \E i \in 1..Len(failed) : failed[i] = t THEN 1 ELSE 0
    BY DEF ReportedOnce
  <2>2. /\ reports'[t] = IF t \in Unreported THEN reports[t] + 1 ELSE reports[t]
        /\ reports[t] = IF \E i \in 1..cursor : failed[i] = t THEN 1 ELSE 0
        /\ DOMAIN failed = 1..Len(failed) /\ Len(failed) \in Nat /\ cursor \in 0..Len(failed)
    <3>1. failed \in Seq(Tasks) /\ cursor \in 0..Len(failed)
      BY DEF TypeOK
    <3>2. DOMAIN failed = 1..Len(failed) /\ Len(failed) \in Nat
      BY <3>1
    <3> QED BY <3>1, <3>2 DEF ReportedOnce
  <2>3. CASE \E i \in 1..cursor : failed[i] = t
    <3>1. t \notin Unreported
      BY <2>2, <2>3 DEF Unreported, OnePlace, IsInjective
    <3> QED BY <2>2, <2>3, <3>1
  <2>4. CASE ~ \E i \in 1..cursor : failed[i] = t
    <3>1. t \in Unreported <=> \E i \in 1..Len(failed) : failed[i] = t
      BY <2>2, <2>4 DEF Unreported
    <3> QED BY <2>2, <2>4, <3>1
  <2> QED BY <2>3, <2>4
<1> QED BY <1>1, <1>2, <1>3, <1>4, <1>5 DEF TaskInv, PodInv

\* Time passes: what is queued with no pod has starved one tick more.
LEMMA ClockTickInv == ASSUME Inv, ClockTick PROVE Inv'
<1> USE DispatcherAssumption DEF ClockTick, Inv, podVars, taskVars
<1>1. TypeOK'
  <2>1. starved' \in [Tasks -> Nat] /\ now' \in Times
    BY DEF TypeOK, Times
  <2> QED BY <2>1 DEF TypeOK
<1>2. TaskInv'
  BY DEF TaskInv, NothingLost, OnePlace, AttemptsLeft, Accepted, InFlight
<1>3. PodInv'
  BY DEF PodInv, BooksAgree, IdleMeansEmpty, PoolAlive
<1>4. StarvedCovers'
  BY DEF StarvedCovers, Queued, TypeOK, Times, Never
<1>5. ReportedOnce' /\ SlotsRespected'
  BY DEF ReportedOnce, SlotsRespected
<1> QED BY <1>1, <1>2, <1>3, <1>4, <1>5 DEF TaskInv, PodInv

\* Giving tasks of the queue up moves them to the end of failed, whole.
LEMMA GiveUpFacts ==
  ASSUME Inv, NEW Out, Out \subseteq ToSet(pending), GiveUp(Out)
  PROVE  /\ pending' \in Seq(Tasks)
         /\ IsInjective(pending')
         /\ ToSet(pending') = ToSet(pending) \ Out
         /\ failed' \in Seq(Tasks)
         /\ IsInjective(failed')
         /\ ToSet(failed') = ToSet(failed) \union Out
         /\ Len(failed') >= Len(failed)
         /\ \A i \in 1..Len(failed) : failed'[i] = failed[i]
<1> DEFINE I == {i \in DOMAIN pending : pending[i] \notin Out}
           J == {i \in DOMAIN pending : pending[i] \in Out}
<1>1. PICK kept \in Ascending(I), out \in Ascending(J) :
        /\ pending' = [k \in DOMAIN kept |-> pending[kept[k]]]
        /\ failed' = failed \o [k \in DOMAIN out |-> pending[out[k]]]
  BY DEF GiveUp
<1> DEFINE u == [k \in DOMAIN out |-> pending[out[k]]]
<1>2. /\ pending \in Seq(Tasks) /\ failed \in Seq(Tasks)
      /\ IsInjective(pending) /\ IsInjective(failed)
      /\ ToSet(pending) \intersect ToSet(failed) = {}
  BY DEF Inv, TypeOK, OnePlace
<1>3. I \subseteq DOMAIN pending /\ J \subseteq DOMAIN pending
  OBVIOUS
<1>4. {pending[i] : i \in I} = ToSet(pending) \ Out /\ {pending[i] : i \in J} = Out
  BY DEF ToSet
<1> HIDE DEF I, J
<1> DEFINE w == pending'
<1>5. w \in Seq(Tasks) /\ IsInjective(w) /\ ToSet(w) = ToSet(pending) \ Out
  <2>1. \A k \in DOMAIN kept : kept[k] \in DOMAIN pending /\ pending[kept[k]] \in Tasks
    BY <1>2, <1>3 DEF Ascending, Bijection, Injection
  <2>2. w \in [DOMAIN kept -> Tasks] /\ \A k \in DOMAIN kept : w[k] = pending[kept[k]]
    BY <1>1, <2>1
  <2> HIDE DEF w
  <2>3. /\ w \in Seq(Tasks)
        /\ ToSet(w) = {pending[i] : i \in I}
        /\ IsInjective(pending) => IsInjective(w)
    BY <1>2, <1>3, <2>2, PickFacts
  <2> QED BY <1>2, <1>4, <2>3
<1>6. u \in Seq(Tasks) /\ IsInjective(u) /\ ToSet(u) = Out
  <2>1. \A k \in DOMAIN out : out[k] \in DOMAIN pending /\ pending[out[k]] \in Tasks
    BY <1>2, <1>3 DEF Ascending, Bijection, Injection
  <2>2. u \in [DOMAIN out -> Tasks] /\ \A k \in DOMAIN out : u[k] = pending[out[k]]
    BY <2>1
  <2> HIDE DEF u
  <2>3. /\ u \in Seq(Tasks)
        /\ ToSet(u) = {pending[i] : i \in J}
        /\ IsInjective(pending) => IsInjective(u)
    BY <1>2, <1>3, <2>2, PickFacts
  <2> QED BY <1>2, <1>4, <2>3
<1>7. ToSet(failed) \intersect ToSet(u) = {}
  BY <1>2, <1>6
<1>8. failed' = failed \o u
  BY <1>1
<1> HIDE DEF u
<1>9. Len(failed \o u) = Len(failed) + Len(u) /\ Len(failed) \in Nat /\ Len(u) \in Nat
  BY <1>2, <1>6, ConcatFacts
<1> QED BY <1>2, <1>5, <1>6, <1>7, <1>8, <1>9, ConcatFacts

\* What fail_pending does to the places of the tasks.
LEMMA GiveUpPlaces ==
  ASSUME Inv, NEW Out, Out \subseteq ToSet(pending), GiveUp(Out),
         UNCHANGED <<podVars, placed, attempts, queuedAt, done, starved, now>>
  PROVE  TaskInv' /\ PodInv' /\ StarvedCovers' /\ SlotsRespected'
<1>1. ToSet(pending') = ToSet(pending) \ Out /\ ToSet(failed') = ToSet(failed) \union Out
      /\ IsInjective(pending') /\ IsInjective(failed')
  BY GiveUpFacts
<1>2. InFlight' = InFlight /\ Accepted' = Accepted
  BY DEF InFlight, Accepted
<1>3. done' = done /\ attempts' = attempts
  OBVIOUS
<1>4. TaskInv'
  <2>1. NothingLost'
    BY <1>1, <1>2, <1>3 DEF Inv, NothingLost
  <2>2. AttemptsLeft'
    BY <1>1, <1>3 DEF Inv, AttemptsLeft
  <2>3. OnePlace'
    BY <1>1, <1>2, <1>3 DEF Inv, OnePlace
  <2> QED BY <2>1, <2>2, <2>3 DEF TaskInv
<1>5. PodInv'
  BY DEF Inv, PodInv, BooksAgree, IdleMeansEmpty, PoolAlive, podVars
<1>6. StarvedCovers' /\ SlotsRespected'
  BY <1>1 DEF Inv, StarvedCovers, SlotsRespected, Queued, podVars
<1> QED BY <1>4, <1>5, <1>6

\* A task whose second id is rejected is given up, not yet reported.
LEMMA FailPendingInv == ASSUME Inv, NEW t \in Tasks, FailPending(t) PROVE Inv'
<1>1. GiveUp({t}) /\ {t} \subseteq ToSet(pending)
      /\ UNCHANGED <<podVars, placed, cursor, attempts, queuedAt, renamed, history, now>>
  BY DEF FailPending, Queued
<1>2. TaskInv' /\ PodInv' /\ StarvedCovers' /\ SlotsRespected'
  BY <1>1, GiveUpPlaces DEF history
<1>3. /\ pending' \in Seq(Tasks) /\ failed' \in Seq(Tasks)
      /\ Len(failed') >= Len(failed) /\ Len(failed) \in Nat /\ Len(failed') \in Nat
      /\ \A i \in 1..Len(failed) : failed'[i] = failed[i]
  BY <1>1, GiveUpFacts DEF Inv, TypeOK
<1>4. TypeOK'
  BY <1>1, <1>3 DEF Inv, TypeOK, podVars, history
<1>5. ReportedOnce'
  <2>1. SUFFICES ASSUME NEW u \in Tasks
                 PROVE  reports'[u] = IF \E i \in 1..cursor' : failed'[i] = u THEN 1 ELSE 0
    BY DEF ReportedOnce
  <2>2. cursor' = cursor /\ reports'[u] = reports[u] /\ cursor \in 0..Len(failed)
    BY <1>1 DEF history, Inv, TypeOK
  <2>3. (\E i \in 1..cursor' : failed'[i] = u) <=> (\E i \in 1..cursor : failed[i] = u)
    BY <1>3, <2>2
  <2> QED BY <2>2, <2>3 DEF ReportedOnce, Inv
<1> QED BY <1>2, <1>4, <1>5 DEF Inv, TaskInv, PodInv

\* What ran out of time is given up and reported in the same step.
LEMMA ExpireInv == ASSUME Inv, ExpireWaitingItems PROVE Inv'
<1> DEFINE Out == CapacityExpired
<1>1. /\ GiveUp(Out) /\ cursor' = Len(failed')
      /\ reports' = [t \in Tasks |-> IF t \in Unreported \union Out
                                     THEN reports[t] + 1 ELSE reports[t]]
      /\ UNCHANGED <<podVars, placed, attempts, queuedAt, renamed, done, starved, now>>
  BY DEF ExpireWaitingItems
<1>2. Out \subseteq ToSet(pending)
  BY DEF CapacityExpired
<1> HIDE DEF Out
<1>3. TaskInv' /\ PodInv' /\ StarvedCovers' /\ SlotsRespected'
  BY <1>1, <1>2, GiveUpPlaces
<1>4. /\ pending' \in Seq(Tasks) /\ failed' \in Seq(Tasks)
      /\ Len(failed') >= Len(failed) /\ Len(failed) \in Nat /\ Len(failed') \in Nat
      /\ \A i \in 1..Len(failed) : failed'[i] = failed[i]
      /\ ToSet(failed') = ToSet(failed) \union Out
      /\ DOMAIN failed' = 1..Len(failed') /\ DOMAIN failed = 1..Len(failed)
  BY <1>1, <1>2, GiveUpFacts DEF Inv, TypeOK
<1>5. TypeOK'
  <2>1. reports' \in [Tasks -> Nat] /\ cursor' \in 0..Len(failed')
    BY <1>1, <1>4 DEF Inv, TypeOK
  <2> QED BY <1>1, <1>4, <2>1 DEF Inv, TypeOK, podVars
<1>6. ReportedOnce'
  <2>1. SUFFICES ASSUME NEW t \in Tasks
                 PROVE  reports'[t] = IF \E i \in 1..cursor' : failed'[i] = t THEN 1 ELSE 0
    BY DEF ReportedOnce
  <2>2. (\E i \in 1..cursor' : failed'[i] = t) <=> t \in ToSet(failed) \union Out
    BY <1>1, <1>4 DEF ToSet
  <2>3. /\ reports'[t] = IF t \in Unreported \union Out THEN reports[t] + 1 ELSE reports[t]
        /\ reports[t] = IF \E i \in 1..cursor : failed[i] = t THEN 1 ELSE 0
        /\ cursor \in 0..Len(failed)
    BY <1>1 DEF Inv, TypeOK, ReportedOnce
  <2>4. t \in Out => t \notin ToSet(failed)
    BY <1>2 DEF Inv, OnePlace
  <2>5. t \in ToSet(failed) <=> t \in Unreported \/ \E i \in 1..cursor : failed[i] = t
    BY <1>4, <2>3 DEF ToSet, Unreported
  <2>6. t \in Unreported => ~ \E i \in 1..cursor : failed[i] = t
    BY <1>4, <2>3 DEF Unreported, Inv, OnePlace, IsInjective
  <2> QED BY <2>2, <2>3, <2>4, <2>5, <2>6
<1> QED BY <1>3, <1>5, <1>6 DEF Inv, TaskInv, PodInv

\* Losing pods, for whatever reason: their tasks wait again or are given up.
LEMMA DropInv ==
  ASSUME Inv, NEW Lost \in SUBSET pool, NEW idle \in [Pods -> Times \union {Never}],
         \A p \in Pods : idle[p] # Never => running[p] = {},
         Drop(Lost, idle)
  PROVE  Inv'
<1> DEFINE hit   == {t \in Tasks : placed[t] # NoPod /\ \E p \in Lost : t \in running[p]}
           spent == {t \in hit : Spent(t)}
           retry == hit \ spent
<1>1. /\ pool' = pool \ Lost
      /\ status' = [p \in Pods |-> IF p \in Lost THEN "DEAD" ELSE status[p]]
      /\ running' = [p \in Pods |-> IF p \in Lost THEN {} ELSE running[p]]
      /\ full' = [p \in Pods |-> IF p \in Lost THEN FALSE ELSE full[p]]
      /\ idleSince' = [p \in Pods |-> IF p \in Lost THEN Never ELSE idle[p]]
      /\ noPodSince' = IF Lost # {} /\ ~ \E p \in pool \ Lost : Live(p)
                       THEN now ELSE noPodSince
      /\ placed' = [t \in Tasks |-> IF t \in hit THEN NoPod ELSE placed[t]]
      /\ attempts' = [t \in Tasks |-> IF t \in hit THEN attempts[t] + 1 ELSE attempts[t]]
      /\ queuedAt' = [t \in Tasks |-> IF t \in retry THEN now ELSE queuedAt[t]]
      /\ cursor' = cursor /\ renamed' = renamed /\ done' = done /\ reports' = reports
      /\ starved' = starved /\ now' = now
  BY DEF Drop, history
<1>2. PICK q \in Bijection(1..Cardinality(retry), retry) : pending' = pending \o q
  BY DEF Drop
<1>3. PICK f \in Bijection(1..Cardinality(spent), spent) : failed' = failed \o f
  BY DEF Drop
<1>4. hit = {t \in Tasks : placed[t] \in Lost}
  BY DispatcherAssumption DEF Inv, TypeOK, BooksAgree
<1>5. /\ hit \subseteq InFlight /\ hit \subseteq Tasks
      /\ spent = {t \in hit : attempts[t] + 1 >= MaxAttempts}
      /\ hit \subseteq Accepted
  BY DEF InFlight, Spent, Inv, OnePlace
<1> HIDE DEF hit
<1>6. retry \subseteq Tasks /\ spent \subseteq Tasks /\ IsFiniteSet(retry) /\ IsFiniteSet(spent)
  BY <1>5, FS_Subset, DispatcherAssumption
<1> HIDE DEF spent, retry
<1>7. q \in Seq(Tasks) /\ ToSet(q) = retry /\ IsInjective(q)
  BY <1>6, OrderFacts
<1>8. f \in Seq(Tasks) /\ ToSet(f) = spent /\ IsInjective(f)
  BY <1>6, OrderFacts
<1>9. /\ pending \in Seq(Tasks) /\ failed \in Seq(Tasks)
      /\ IsInjective(pending) /\ IsInjective(failed)
      /\ ToSet(pending) \intersect retry = {} /\ ToSet(failed) \intersect spent = {}
  BY <1>5 DEF Inv, TypeOK, OnePlace, spent, retry
<1>10. pending' \in Seq(Tasks) /\ IsInjective(pending') /\ ToSet(pending') = ToSet(pending) \union retry
  BY <1>2, <1>7, <1>9, ConcatFacts
<1>11. /\ failed' \in Seq(Tasks) /\ IsInjective(failed') /\ ToSet(failed') = ToSet(failed) \union spent
       /\ Len(failed') \in Nat /\ Len(failed) \in Nat /\ Len(failed') >= Len(failed)
       /\ \A i \in 1..Len(failed) : failed'[i] = failed[i]
  <2>1. Len(failed \o f) = Len(failed) + Len(f) /\ Len(failed) \in Nat /\ Len(f) \in Nat
    BY <1>8, <1>9, ConcatFacts
  <2> QED BY <1>3, <1>8, <1>9, <2>1, ConcatFacts
<1>12. InFlight' = InFlight \ hit
  BY <1>1, <1>5 DEF InFlight
<1>13. Accepted' = Accepted
  BY <1>1, <1>5 DEF Accepted, retry, Inv, TypeOK, Times, Never
<1>14. TypeOK'
  <2>1. attempts' \in [Tasks -> 0..MaxAttempts]
    <3>1. \A t \in hit : attempts[t] < MaxAttempts
      BY <1>5, DispatcherAssumption DEF Inv, TypeOK, AttemptsLeft, OnePlace
    <3> QED BY <1>1, <1>5, <3>1, DispatcherAssumption DEF Inv, TypeOK
  <2>2. queuedAt' \in [Tasks -> Times \union {Never}] /\ noPodSince' \in Times \union {Never}
    BY <1>1 DEF Inv, TypeOK
  <2>3. /\ pool' \subseteq Pods
        /\ status' \in [Pods -> {"CREATED", "RUNNING", "DEAD"}]
        /\ running' \in [Pods -> SUBSET Tasks]
        /\ full' \in [Pods -> BOOLEAN]
        /\ idleSince' \in [Pods -> Times \union {Never}]
        /\ placed' \in [Tasks -> Pods \union {NoPod}]
    BY <1>1 DEF Inv, TypeOK
  <2>4. cursor' \in 0..Len(failed')
    BY <1>1, <1>11 DEF Inv, TypeOK
  <2> QED BY <1>1, <1>10, <1>11, <2>1, <2>2, <2>3, <2>4 DEF Inv, TypeOK
<1>15. NothingLost'
  <2>1. hit = retry \union spent
    BY DEF retry, spent
  <2> QED BY <1>1, <1>10, <1>11, <1>12, <1>13, <2>1 DEF Inv, NothingLost
<1>16. OnePlace'
  <2>1. hit = retry \union spent /\ retry \intersect spent = {}
    BY DEF retry, spent
  <2> QED BY <1>1, <1>5, <1>10, <1>11, <1>12, <1>13, <2>1 DEF Inv, OnePlace
<1>17. AttemptsLeft'
  BY <1>1, <1>5, <1>11 DEF Inv, AttemptsLeft
<1>18. BooksAgree'
  <2>1. \A p \in Pods, t \in Tasks : t \in running'[p] <=> placed'[t] = p
    BY <1>1, <1>4, DispatcherAssumption DEF Inv, BooksAgree
  <2>2. \A p \in Pods \ pool' : running'[p] = {}
    BY <1>1 DEF Inv, BooksAgree
  <2>3. \A p \in Pods : running'[p] # {} => status'[p] = "RUNNING"
    BY <1>1 DEF Inv, BooksAgree
  <2> QED BY <2>1, <2>2, <2>3 DEF BooksAgree
<1>19. ReportedOnce'
  <2>1. SUFFICES ASSUME NEW t \in Tasks
                 PROVE  reports'[t] = IF \E i \in 1..cursor' : failed'[i] = t THEN 1 ELSE 0
    BY DEF ReportedOnce
  <2>2. cursor' = cursor /\ reports'[t] = reports[t] /\ cursor \in 0..Len(failed)
    BY <1>1 DEF Inv, TypeOK
  <2>3. (\E i \in 1..cursor' : failed'[i] = t) <=> (\E i \in 1..cursor : failed[i] = t)
    BY <1>11, <2>2
  <2> QED BY <2>2, <2>3 DEF Inv, ReportedOnce
<1>20. IdleMeansEmpty' /\ PoolAlive'
  BY <1>1 DEF IdleMeansEmpty, Inv, PoolAlive
<1>21. StarvedCovers'
  <2>1. SUFFICES ASSUME NEW t \in Tasks, t \in ToSet(pending'), pool' = {}
                 PROVE  starved'[t] >= now' - (IF queuedAt'[t] >= noPodSince' THEN queuedAt'[t]
                                               ELSE noPodSince')
    BY DEF StarvedCovers, Queued
  <2>2. starved[t] \in Nat /\ now \in Int /\ queuedAt'[t] \in Int
    BY <1>1, DispatcherAssumption DEF Inv, TypeOK, Times, Never
  <2>3. CASE Lost = {}
    <3>1. hit = {} /\ retry = {} /\ pool = {}
      BY <1>1, <1>4, <2>1, <2>3 DEF retry
    <3>2. t \in ToSet(pending) /\ noPodSince' = noPodSince /\ queuedAt'[t] = queuedAt[t]
      BY <1>1, <1>10, <2>1, <2>3, <3>1
    <3> QED BY <1>1, <3>1, <3>2 DEF Inv, StarvedCovers, Queued
  <2>4. CASE Lost # {}
    <3>1. noPodSince' = now
      BY <1>1, <2>1, <2>4
    <3> QED BY <1>1, <2>2, <3>1
  <2> QED BY <2>3, <2>4
<1>22. SlotsRespected'
  BY <1>1, FS_EmptySet, DispatcherAssumption DEF Inv, SlotsRespected
<1> QED BY <1>14, <1>15, <1>16, <1>17, <1>18, <1>19, <1>20, <1>21, <1>22 DEF Inv

\* The refreshed idle clocks tick only for pods that hold nothing.
LEMMA TouchedIdleFacts ==
  ASSUME Inv
  PROVE  /\ TouchedIdle \in [Pods -> Times \union {Never}]
         /\ \A p \in Pods : TouchedIdle[p] # Never => running[p] = {}
BY DEF Inv, TypeOK, TouchedIdle, IdleMeansEmpty

LEMMA PodDeadInv == ASSUME Inv, NEW p \in Pods, PodDead(p) PROVE Inv'
<1>1. idleSince \in [Pods -> Times \union {Never}]
      /\ \A r \in Pods : idleSince[r] # Never => running[r] = {}
  BY DEF Inv, TypeOK, IdleMeansEmpty
<1> QED BY <1>1, DropInv DEF PodDead

LEMMA RetireIdleInv == ASSUME Inv, RetireIdlePods PROVE Inv'
<1>1. PICK Lost \in SUBSET pool : Drop(Lost, TouchedIdle)
  BY DEF RetireIdlePods, IdlePods
<1> QED BY <1>1, TouchedIdleFacts, DropInv

-----------------------------------------------------------------------------
(* The theorems *)

\* Every method call keeps the invariant.
LEMMA NextInv == Inv /\ [Next]_dispatcherVars => Inv'
<1> SUFFICES ASSUME Inv, [Next]_dispatcherVars PROVE Inv'
  OBVIOUS
<1>1. ASSUME NEW p \in Pods, PodStep(p) PROVE Inv'
  BY <1>1, AddPodInv, PromoteInv, PodDeadInv, FullInv, AssignInv DEF PodStep
<1>2. ASSUME NEW t \in Tasks, TaskStep(t) PROVE Inv'
  BY <1>2, EnqueueInv, CompleteInv, RetaskInv, FailPendingInv DEF TaskStep
<1>3. CASE ReleaseFull
  BY <1>3, FullInv
<1>4. CASE RetireIdlePods
  BY <1>4, RetireIdleInv
<1>5. CASE ReportFailures
  BY <1>5, ReportFailuresInv
<1>6. CASE ExpireWaitingItems
  BY <1>6, ExpireInv
<1>7. CASE ClockTick
  BY <1>7, ClockTickInv
<1>8. CASE UNCHANGED dispatcherVars
  BY <1>8 DEF dispatcherVars, podVars, taskVars, history, Inv, TypeOK, NothingLost, OnePlace,
     BooksAgree, AttemptsLeft, ReportedOnce, IdleMeansEmpty, PoolAlive, StarvedCovers,
     SlotsRespected, Accepted, InFlight, Queued
<1> QED BY <1>1, <1>2, <1>3, <1>4, <1>5, <1>6, <1>7, <1>8 DEF Next

\* The whole invariant holds in every reachable state.
THEOREM DispatcherInvariant == Spec => []Inv
<1>1. Inv /\ [Next]_dispatcherVars => Inv'
  BY NextInv
<1> QED BY InitInv, <1>1, PTL DEF Spec

\* Type correctness.
THEOREM TypeCorrect == Spec => []TypeOK
<1>1. Inv => TypeOK
  BY DEF Inv
<1> QED BY <1>1, DispatcherInvariant, PTL

\* No order of the scheduler's calls loses a task or puts it in two places.
THEOREM TasksConserved == Spec => [](NothingLost /\ OnePlace)
<1>1. Inv => NothingLost /\ OnePlace
  BY DEF Inv
<1> QED BY <1>1, DispatcherInvariant, PTL

\* The pods' books and the tasks' agree, and no pod is overbooked.
THEOREM BooksCorrect == Spec => [](BooksAgree /\ SlotsRespected /\ IdleMeansEmpty)
<1>1. Inv => BooksAgree /\ SlotsRespected /\ IdleMeansEmpty
  BY DEF Inv
<1> QED BY <1>1, DispatcherInvariant, PTL

\* Retries end, and every give-up is told to PDG exactly once.
THEOREM FailuresCorrect == Spec => [](AttemptsLeft /\ ReportedOnce)
<1>1. Inv => AttemptsLeft /\ ReportedOnce
  BY DEF Inv
<1> QED BY <1>1, DispatcherInvariant, PTL

\* A task expires only after CapacityWait ticks in the queue with no pod.
THEOREM ExpiryIsStarvation == Spec => StarvedLongEnough
<1>1. ASSUME Inv, NEW t \in CapacityExpired PROVE starved[t] >= CapacityWait
  <2>1. /\ ~ \E p \in Pods : Live(p)
        /\ t \in ToSet(pending)
        /\ now - (IF queuedAt[t] >= noPodSince THEN queuedAt[t] ELSE noPodSince) >= CapacityWait
    BY <1>1 DEF CapacityExpired
  <2>2. pool = {}
    BY <1>1, <2>1 DEF Inv, TypeOK, PoolAlive, Live
  <2>3. t \in Tasks
    BY <1>1, <2>1 DEF Inv, TypeOK, ToSet
  <2>4. starved[t] \in Int /\ queuedAt[t] \in Int /\ noPodSince \in Int /\ now \in Int
    BY <1>1, <2>3, DispatcherAssumption DEF Inv, TypeOK, Times, Never
  <2>5. starved[t] >= now - (IF queuedAt[t] >= noPodSince THEN queuedAt[t] ELSE noPodSince)
    BY <1>1, <2>1, <2>2, <2>3 DEF Inv, StarvedCovers, Queued
  <2> QED BY <2>1, <2>4, <2>5, DispatcherAssumption
<1>2. Inv => [\A t \in CapacityExpired : ExpireWaitingItems => starved[t] >= CapacityWait]_dispatcherVars
  BY <1>1
<1> QED BY <1>2, DispatcherInvariant, PTL DEF StarvedLongEnough

\* Retiring idle pods requeues and fails nothing.
THEOREM IdleRetirement == Spec => IdleRetirementIsHarmless
<1>1. ASSUME Inv, RetireIdlePods PROVE UNCHANGED <<placed, pending, failed, attempts>>
  <2>1. PICK Lost \in SUBSET pool : /\ Drop(Lost, TouchedIdle)
                                    /\ \A p \in Lost : TouchedIdle[p] # Never
    BY <1>1 DEF RetireIdlePods, IdlePods
  <2> DEFINE hit == {t \in Tasks : placed[t] # NoPod /\ \E p \in Lost : t \in running[p]}
             spent == {t \in hit : Spent(t)}
             retry == hit \ spent
  <2>2. hit = {}
    BY <1>1, <2>1, TouchedIdleFacts DEF Inv, TypeOK
  <2>3. /\ placed' = [t \in Tasks |-> IF t \in hit THEN NoPod ELSE placed[t]]
        /\ attempts' = [t \in Tasks |-> IF t \in hit THEN attempts[t] + 1 ELSE attempts[t]]
        /\ \E q \in Bijection(1..Cardinality(retry), retry) : pending' = pending \o q
        /\ \E f \in Bijection(1..Cardinality(spent), spent) : failed' = failed \o f
    BY <2>1 DEF Drop
  <2>4. spent = {} /\ retry = {}
    BY <2>2
  <2> HIDE DEF hit, spent, retry
  <2>5. placed' = placed /\ attempts' = attempts
    BY <1>1, <2>2, <2>3 DEF Inv, TypeOK
  <2>6. ASSUME NEW q \in Bijection(1..Cardinality({}), {}) PROVE q = <<>>
    BY FS_EmptySet DEF Bijection, Injection
  <2>7. pending' = pending /\ failed' = failed
    BY <1>1, <2>3, <2>4, <2>6 DEF Inv, TypeOK
  <2> QED BY <2>5, <2>7
<1>2. Inv => [RetireIdlePods => UNCHANGED <<placed, pending, failed, attempts>>]_dispatcherVars
  BY <1>1
<1> QED BY <1>2, DispatcherInvariant, PTL DEF IdleRetirementIsHarmless

-----------------------------------------------------------------------------
(* The dispatcher implements the lifecycle of its items *)

\* Where an item is decides its stage: the places exclude one another.
StageRow(t) ==
  /\ StageOf(t) = "new" <=> t \notin Accepted
  /\ StageOf(t) = "waiting" <=> t \in ToSet(pending)
  /\ StageOf(t) = "running" <=> t \in InFlight
  /\ StageOf(t) = "succeeded" <=> t \in done
  /\ StageOf(t) = "failed" <=> t \in ToSet(failed) /\ reports[t] = 0
  /\ StageOf(t) = "reported" <=> t \in ToSet(failed) /\ reports[t] = 1
  /\ reports[t] \in {0, 1}
  /\ reports[t] = 1 => t \in ToSet(failed)

StageTable == \A t \in Tasks : StageRow(t)

Mapped == Inv /\ StageTable

LEMMA StageFacts == Inv => StageTable
<1> SUFFICES ASSUME Inv, NEW t \in Tasks PROVE StageRow(t)
  BY DEF StageTable
<1>1. NothingLost /\ OnePlace
  BY DEF Inv
<1>2. reports[t] \in {0, 1} /\ (reports[t] = 1 => t \in ToSet(failed))
  <2>1. DOMAIN failed = 1..Len(failed) /\ Len(failed) \in Nat /\ cursor \in 0..Len(failed)
    BY DEF Inv, TypeOK
  <2>2. \A i \in 1..cursor : failed[i] \in ToSet(failed)
    BY <2>1 DEF ToSet
  <2> QED BY <2>2 DEF Inv, ReportedOnce
<1>3. t \in Accepted <=> \/ t \in ToSet(pending) \/ t \in InFlight
                         \/ t \in ToSet(failed) \/ t \in done
  BY <1>1 DEF NothingLost, OnePlace
<1>4. /\ ~(t \in ToSet(pending) /\ t \in InFlight)
      /\ t \in ToSet(pending) \/ t \in InFlight => t \notin ToSet(failed) /\ t \notin done
      /\ ~(t \in ToSet(failed) /\ t \in done)
  BY <1>1 DEF OnePlace
<1>5. StageOf(t) = IF t \in done THEN "succeeded"
                   ELSE IF t \in InFlight THEN "running"
                   ELSE IF t \in ToSet(pending) THEN "waiting"
                   ELSE IF reports[t] = 1 THEN "reported"
                   ELSE IF t \in ToSet(failed) THEN "failed"
                   ELSE "new"
  BY DEF StageOf, Queued, InFlight
<1>6. CASE t \in done
  BY <1>5, <1>2, <1>3, <1>4, <1>6 DEF StageRow
<1>7. CASE t \in InFlight
  <2>1. StageOf(t) = "running" /\ t \notin done /\ t \notin ToSet(failed) /\ t \notin ToSet(pending)
    BY <1>5, <1>2, <1>3, <1>4, <1>7
  <2> QED BY <1>2, <1>3, <1>4, <1>7, <2>1 DEF StageRow
<1>8. CASE t \in ToSet(pending)
  <2>1. StageOf(t) = "waiting" /\ t \notin done /\ t \notin ToSet(failed) /\ t \notin InFlight
    BY <1>5, <1>2, <1>3, <1>4, <1>8
  <2> QED BY <1>2, <1>3, <1>4, <1>8, <2>1 DEF StageRow
<1>9. CASE t \in ToSet(failed)
  <2>1. /\ t \notin done /\ t \notin ToSet(pending) /\ t \notin InFlight
        /\ StageOf(t) = IF reports[t] = 1 THEN "reported" ELSE "failed"
    BY <1>5, <1>2, <1>3, <1>4, <1>9
  <2> QED BY <1>2, <1>3, <1>4, <1>9, <2>1 DEF StageRow
<1>10. CASE t \notin Accepted
  BY <1>5, <1>2, <1>3, <1>4, <1>10 DEF StageRow
<1> QED BY <1>2, <1>3, <1>4, <1>6, <1>7, <1>8, <1>9, <1>10

\* A step that changes the stage of one item only moves that item.
LEMMA OneMoves ==
  ASSUME NEW t \in Tasks, NEW from, NEW to, StageOf(t) = from, StageOf(t)' = to,
         \A u \in Tasks \ {t} : StageOf(u)' = StageOf(u), UNCHANGED attempts
  PROVE  Lifecycle!Move(t, from, to)
BY DEF Lifecycle!Move

\* A step that leaves every place as it was is no step of the lifecycle.
LEMMA NobodyMoves ==
  ASSUME UNCHANGED <<pending, placed, failed, attempts, done, reports>>
  PROVE  UNCHANGED Lifecycle!lifecycleVars
<1>1. \A u \in Tasks : StageOf(u)' = StageOf(u)
  BY DEF StageOf, Queued
<1> QED BY <1>1 DEF Lifecycle!lifecycleVars

LEMMA EnqueueStep ==
  ASSUME Mapped, Mapped', NEW t \in Tasks, Enqueue(t)
  PROVE  Lifecycle!Next
<1>1. /\ ToSet(pending') = ToSet(pending) \union {t}
      /\ UNCHANGED <<placed, failed, attempts, done, reports>>
      /\ t \notin Accepted
  BY AppendFacts DEF Enqueue, Mapped, Inv, TypeOK, history, Accepted, Never
<1>2. StageOf(t) = "new" /\ StageOf(t)' = "waiting"
  BY <1>1 DEF Mapped, StageTable, StageRow
<1>3. \A u \in Tasks \ {t} : StageOf(u)' = StageOf(u)
  BY <1>1 DEF StageOf, Queued
<1>4. Lifecycle!Accept(t)
  BY <1>1, <1>2, <1>3, OneMoves DEF Lifecycle!Accept
<1> QED BY <1>4 DEF Lifecycle!Next

LEMMA AssignStep ==
  ASSUME Mapped, Mapped', NEW p \in Pods, Assign(p)
  PROVE  Lifecycle!Next
<1>0. PICK t \in Tasks : t = Head(pending)
  BY TailFacts DEF Assign, Mapped, Inv, TypeOK
<1>1. /\ t \in ToSet(pending)
      /\ ToSet(pending') = ToSet(pending) \ {t}
      /\ placed' = [placed EXCEPT ![t] = p]
      /\ UNCHANGED <<failed, attempts, done, reports>>
  BY <1>0, TailFacts DEF Assign, Mapped, Inv, TypeOK, OnePlace
<1>2. StageOf(t) = "waiting"
  BY <1>1 DEF Mapped, StageTable, StageRow
<1>3. t \in InFlight'
  <2>1. placed'[t] = p /\ p # NoPod
    BY <1>1, DispatcherAssumption DEF Mapped, Inv, TypeOK
  <2> QED BY <1>1, <2>1 DEF InFlight
<1>4. StageOf(t)' = "running"
  BY <1>1, <1>3 DEF Mapped, StageTable, StageRow
<1>5. \A u \in Tasks \ {t} : StageOf(u)' = StageOf(u)
  <2>1. \A u \in Tasks \ {t} : placed'[u] = placed[u] /\ (u \in ToSet(pending') <=> u \in ToSet(pending))
    BY <1>1 DEF Mapped, Inv, TypeOK
  <2> QED BY <1>1, <2>1 DEF StageOf, Queued
<1>6. Lifecycle!Start(t)
  BY <1>1, <1>2, <1>4, <1>5, OneMoves DEF Lifecycle!Start
<1> QED BY <1>1, <1>6 DEF Lifecycle!Next

LEMMA CompleteStep ==
  ASSUME Mapped, Mapped', NEW t \in Tasks, NEW ok \in BOOLEAN, Complete(t, ok)
  PROVE  Lifecycle!Next
<1>1. /\ placed[t] # NoPod
      /\ placed' = [placed EXCEPT ![t] = NoPod]
      /\ UNCHANGED <<pending, attempts, reports>>
      /\ done' = IF ok THEN done \union {t} ELSE done
      /\ failed \in Seq(Tasks)
  BY DEF Complete, Mapped, Inv, TypeOK
<1>2. ToSet(failed') = IF ok THEN ToSet(failed) ELSE ToSet(failed) \union {t}
  <2>1. ToSet(Append(failed, t)) = ToSet(failed) \union {t}
    BY <1>1, AppendFacts
  <2> QED BY <2>1 DEF Complete
<1>3. StageOf(t) = "running"
  BY <1>1 DEF InFlight, Mapped, StageTable, StageRow
<1>4. t \notin ToSet(failed) /\ reports[t] = 0
  BY <1>1 DEF Mapped, StageTable, StageRow, Inv, OnePlace, InFlight
<1>5. StageOf(t)' = IF ok THEN "succeeded" ELSE "failed"
  BY <1>1, <1>2, <1>4 DEF Mapped, StageTable, StageRow
<1>6. \A u \in Tasks \ {t} : StageOf(u)' = StageOf(u)
  BY <1>1, <1>2 DEF StageOf, Queued, Mapped, Inv, TypeOK
<1>7. Lifecycle!Finish(t, ok)
  BY <1>1, <1>3, <1>5, <1>6, OneMoves DEF Lifecycle!Finish
<1> QED BY <1>7 DEF Lifecycle!Next

LEMMA FailPendingStep ==
  ASSUME Mapped, Mapped', NEW t \in Tasks, FailPending(t)
  PROVE  Lifecycle!Next
<1>1. /\ GiveUp({t}) /\ t \in ToSet(pending)
      /\ UNCHANGED <<placed, attempts, done, reports>>
  BY DEF FailPending, Queued, history
<1>2. ToSet(pending') = ToSet(pending) \ {t} /\ ToSet(failed') = ToSet(failed) \union {t}
  BY <1>1, GiveUpFacts DEF Mapped
<1>3. StageOf(t) = "waiting" /\ reports[t] = 0
  BY <1>1 DEF Mapped, StageTable, StageRow, Inv, OnePlace
<1>4. StageOf(t)' = "failed"
  BY <1>1, <1>2, <1>3 DEF Mapped, StageTable, StageRow
<1>5. \A u \in Tasks \ {t} : StageOf(u)' = StageOf(u)
  BY <1>1, <1>2 DEF StageOf, Queued
<1>6. Lifecycle!Reject(t)
  BY <1>1, <1>3, <1>4, <1>5, OneMoves DEF Lifecycle!Reject
<1> QED BY <1>6 DEF Lifecycle!Next

\* Reporting, alone or together with an expiry, is one Report.
LEMMA ReportStep ==
  ASSUME Mapped, Mapped', NEW Expired \in SUBSET Tasks, Expired \subseteq ToSet(pending),
         UNCHANGED <<placed, attempts, done>>,
         ToSet(pending') = ToSet(pending) \ Expired,
         ToSet(failed') = ToSet(failed) \union Expired,
         cursor' = Len(failed'),
         reports' = [t \in Tasks |-> IF t \in Unreported \union Expired
                                    THEN reports[t] + 1 ELSE reports[t]]
  PROVE  Lifecycle!Next
<1>1. \A t \in Tasks : t \in Unreported <=> t \in ToSet(failed) /\ reports[t] = 0
  <2>1. SUFFICES ASSUME NEW t \in Tasks
                 PROVE  t \in Unreported <=> t \in ToSet(failed) /\ reports[t] = 0
    OBVIOUS
  <2>2. /\ reports[t] = IF \E i \in 1..cursor : failed[i] = t THEN 1 ELSE 0
        /\ DOMAIN failed = 1..Len(failed) /\ Len(failed) \in Nat /\ cursor \in 0..Len(failed)
        /\ IsInjective(failed)
    <3>1. failed \in Seq(Tasks) /\ cursor \in 0..Len(failed) /\ ReportedOnce /\ OnePlace
      BY DEF Mapped, Inv, TypeOK
    <3>2. DOMAIN failed = 1..Len(failed) /\ Len(failed) \in Nat
      BY <3>1
    <3> QED BY <3>1, <3>2 DEF ReportedOnce, OnePlace
  <2>3. t \in Unreported => ~ \E i \in 1..cursor : failed[i] = t
    BY <2>2 DEF Unreported, IsInjective
  <2>4. t \in ToSet(failed) <=> t \in Unreported \/ \E i \in 1..cursor : failed[i] = t
    BY <2>2 DEF Unreported, ToSet
  <2> QED BY <2>2, <2>3, <2>4
<1>2. \A t \in Expired : StageOf(t) = "waiting" /\ reports[t] = 0
  BY DEF Mapped, StageTable, StageRow, Inv, OnePlace
<1>3. \A t \in Tasks : StageOf(t)' = IF StageOf(t) = "failed" \/ t \in Expired
                                    THEN "reported" ELSE StageOf(t)
  <2>1. SUFFICES ASSUME NEW t \in Tasks
                 PROVE  StageOf(t)' = IF StageOf(t) = "failed" \/ t \in Expired
                                      THEN "reported" ELSE StageOf(t)
    OBVIOUS
  <2>2. CASE t \in Expired \/ StageOf(t) = "failed"
    <3>1. t \in ToSet(failed') /\ reports'[t] = 1
      BY <1>1, <1>2, <2>2 DEF Mapped, StageTable, StageRow
    <3> QED BY <2>2, <3>1 DEF Mapped, StageTable, StageRow
  <2>3. CASE t \notin Expired /\ StageOf(t) # "failed"
    <3>1. reports'[t] = reports[t]
      BY <1>1, <2>3 DEF Mapped, StageTable, StageRow
    <3> QED BY <2>3, <3>1 DEF StageOf, Queued
  <2> QED BY <2>2, <2>3
<1>4. Lifecycle!Report(Expired)
  BY <1>2, <1>3 DEF Lifecycle!Report
<1> QED BY <1>4 DEF Lifecycle!Next

\* Losing pods is one Lose of the items on them, or no step at all.
LEMMA DropStep ==
  ASSUME Mapped, Mapped', NEW Lost \in SUBSET pool, NEW idle, Drop(Lost, idle)
  PROVE  Lifecycle!Next \/ UNCHANGED Lifecycle!lifecycleVars
<1> DEFINE hit   == {t \in Tasks : placed[t] # NoPod /\ \E p \in Lost : t \in running[p]}
           spent == {t \in hit : Spent(t)}
           retry == hit \ spent
<1>1. /\ placed' = [t \in Tasks |-> IF t \in hit THEN NoPod ELSE placed[t]]
      /\ attempts' = [t \in Tasks |-> IF t \in hit THEN attempts[t] + 1 ELSE attempts[t]]
      /\ UNCHANGED <<done, reports>>
  BY DEF Drop, history
<1>2. PICK q \in Bijection(1..Cardinality(retry), retry) : pending' = pending \o q
  BY DEF Drop
<1>3. PICK f \in Bijection(1..Cardinality(spent), spent) : failed' = failed \o f
  BY DEF Drop
<1>4. hit \subseteq InFlight /\ hit \subseteq Tasks
      /\ spent = {t \in hit : attempts[t] + 1 >= MaxAttempts}
  BY DEF InFlight, Spent
<1> HIDE DEF hit
<1>5. retry \subseteq Tasks /\ spent \subseteq Tasks /\ IsFiniteSet(retry) /\ IsFiniteSet(spent)
  BY <1>4, FS_Subset, DispatcherAssumption
<1>6. retry \union spent = hit /\ retry \intersect spent = {}
  OBVIOUS
<1> HIDE DEF spent, retry
<1>7. ToSet(pending') = ToSet(pending) \union retry
  <2>1. q \in Seq(Tasks) /\ ToSet(q) = retry
    BY <1>5, OrderFacts
  <2> QED BY <1>2, <2>1, ConcatFacts DEF Mapped, Inv, TypeOK
<1>8. ToSet(failed') = ToSet(failed) \union spent
  <2>1. f \in Seq(Tasks) /\ ToSet(f) = spent
    BY <1>5, OrderFacts
  <2> QED BY <1>3, <2>1, ConcatFacts DEF Mapped, Inv, TypeOK
<1>9. \A t \in Tasks : StageOf(t)' = IF t \notin hit THEN StageOf(t)
                                    ELSE IF attempts[t] + 1 >= MaxAttempts THEN "failed"
                                    ELSE "waiting"
  <2>1. SUFFICES ASSUME NEW t \in Tasks
                 PROVE  StageOf(t)' = IF t \notin hit THEN StageOf(t)
                                      ELSE IF attempts[t] + 1 >= MaxAttempts THEN "failed"
                                      ELSE "waiting"
    OBVIOUS
  <2>2. CASE t \notin hit
    BY <1>1, <1>6, <1>7, <1>8, <2>2 DEF StageOf, Queued
  <2>3. CASE t \in spent
    <3>1. reports[t] = 0
      BY <1>4, <1>6, <2>3 DEF Mapped, StageTable, StageRow, Inv, OnePlace
    <3>2. StageOf(t)' = "failed"
      BY <1>1, <1>8, <2>3, <3>1 DEF Mapped, StageTable, StageRow
    <3> QED BY <1>4, <1>6, <2>3, <3>2
  <2>4. CASE t \in retry
    <3>1. StageOf(t)' = "waiting"
      BY <1>7, <2>4 DEF Mapped, StageTable, StageRow
    <3> QED BY <1>4, <1>6, <2>4, <3>1
  <2> QED BY <1>6, <2>2, <2>3, <2>4
<1>10. CASE hit = {}
  <2>1. attempts' = attempts
    BY <1>1, <1>10 DEF Mapped, Inv, TypeOK
  <2> QED BY <1>9, <1>10, <2>1 DEF Lifecycle!lifecycleVars
<1>11. CASE hit # {}
  <2>1. \A t \in hit : StageOf(t) = "running"
    BY <1>4 DEF Mapped, StageTable, StageRow
  <2>2. Lifecycle!Lose(hit)
    BY <1>1, <1>4, <1>9, <1>11, <2>1 DEF Lifecycle!Lose
  <2> QED BY <1>4, <2>2 DEF Lifecycle!Next
<1> QED BY <1>10, <1>11

\* Every method call is one step of the lifecycle or none.
LEMMA StepRefines ==
  Mapped /\ Mapped' /\ [Next]_dispatcherVars => [Lifecycle!Next]_(Lifecycle!lifecycleVars)
<1> SUFFICES ASSUME Mapped, Mapped', [Next]_dispatcherVars
             PROVE  Lifecycle!Next \/ UNCHANGED Lifecycle!lifecycleVars
  OBVIOUS
<1>1. ASSUME NEW p \in Pods, AddPod(p) \/ Promote(p) \/ MarkFull(p)
      PROVE  UNCHANGED Lifecycle!lifecycleVars
  BY <1>1, NobodyMoves DEF AddPod, Promote, MarkFull, taskVars, history
<1>2. ASSUME NEW p \in Pods, PodDead(p)
      PROVE  Lifecycle!Next \/ UNCHANGED Lifecycle!lifecycleVars
  BY <1>2, DropStep DEF PodDead
<1>3. ASSUME NEW p \in Pods, Assign(p) PROVE Lifecycle!Next
  BY <1>3, AssignStep
<1>4. ASSUME NEW t \in Tasks, Retask(t) PROVE UNCHANGED Lifecycle!lifecycleVars
  BY <1>4, NobodyMoves DEF Retask, podVars, history
<1>5. ASSUME NEW t \in Tasks, Enqueue(t) \/ FailPending(t) \/ Complete(t, TRUE) \/ Complete(t, FALSE)
      PROVE  Lifecycle!Next
  BY <1>5, EnqueueStep, FailPendingStep, CompleteStep
<1>6. CASE ReleaseFull \/ ClockTick
  BY <1>6, NobodyMoves DEF ReleaseFull, ClockTick, taskVars, history
<1>7. CASE RetireIdlePods
  <2>1. PICK Lost \in SUBSET pool : Drop(Lost, TouchedIdle)
    BY <1>7 DEF RetireIdlePods, IdlePods
  <2> QED BY <2>1, DropStep
<1>8. CASE ReportFailures
  <2>1. reports' = [t \in Tasks |-> IF t \in Unreported \union {} THEN reports[t] + 1
                                   ELSE reports[t]]
        /\ cursor' = Len(failed')
        /\ UNCHANGED <<pending, failed, placed, attempts, done>>
    BY <1>8 DEF ReportFailures
  <2>2. ToSet(pending') = ToSet(pending) \ {} /\ ToSet(failed') = ToSet(failed) \union {}
    BY <2>1
  <2> QED BY <2>1, <2>2, ReportStep
<1>9. CASE ExpireWaitingItems
  <2>1. CapacityExpired \subseteq ToSet(pending) /\ CapacityExpired \in SUBSET Tasks
    BY DEF CapacityExpired, Mapped, Inv, TypeOK, ToSet
  <2>2. /\ GiveUp(CapacityExpired) /\ cursor' = Len(failed')
        /\ reports' = [t \in Tasks |-> IF t \in Unreported \union CapacityExpired
                                       THEN reports[t] + 1 ELSE reports[t]]
        /\ UNCHANGED <<placed, attempts, done>>
    BY <1>9 DEF ExpireWaitingItems
  <2>3. /\ ToSet(pending') = ToSet(pending) \ CapacityExpired
        /\ ToSet(failed') = ToSet(failed) \union CapacityExpired
    BY <2>1, <2>2, GiveUpFacts DEF Mapped
  <2> QED BY <2>1, <2>2, <2>3, ReportStep
<1>10. CASE UNCHANGED dispatcherVars
  BY <1>10, NobodyMoves DEF dispatcherVars, taskVars, history
<1> QED BY <1>1, <1>2, <1>3, <1>4, <1>5, <1>6, <1>7, <1>8, <1>9, <1>10
        DEF Next, PodStep, TaskStep

\* The dispatcher keeps the promise of ItemLifecycle.
THEOREM Refinement == Spec => ImplementsLifecycle
<1>1. Init => Lifecycle!Init
  <2> SUFFICES ASSUME Init PROVE Lifecycle!Init
    OBVIOUS
  <2>1. ToSet(pending) = {} /\ ToSet(failed) = {}
    BY DEF Init, ToSet
  <2>2. \A t \in Tasks : StageOf(t) = "new"
    BY <2>1 DEF Init, StageOf, Queued
  <2> QED BY <2>2 DEF Lifecycle!Init, Init
<1>2. Inv => Mapped
  BY StageFacts DEF Mapped
<1>3. Mapped /\ Mapped' /\ [Next]_dispatcherVars => [Lifecycle!Next]_(Lifecycle!lifecycleVars)
  BY StepRefines
<1> QED BY <1>1, <1>2, <1>3, DispatcherInvariant, PTL DEF Spec, ImplementsLifecycle, Lifecycle!Spec
=============================================================================
