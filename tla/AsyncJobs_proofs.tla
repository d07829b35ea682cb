---------------------------- MODULE AsyncJobs_proofs ----------------------------
(***************************************************************************)
(* Proofs about the two halves of the job manager.  AsyncJobs, for any      *)
(* runs, agents, polls and failing deliveries: JobsInv is inductive; that a *)
(* result is delivered at most once, is not lost and is not delivered after *)
(* it was reported follow.  Then Subagents, for any subagents, other jobs,  *)
(* agents and slots: SubagentsInv is inductive, with the same facts about   *)
(* queues.                                                                 *)
(***************************************************************************)
EXTENDS AsyncJobs, Subagents, WellFoundedInduction, FiniteSetTheorems, FunctionTheorems, SequenceTheorems, TLAPS

\* A listed run is the one with its id, and only a new run has none.
IdsAgree ==
  /\ \A r \in Run : status[r] = "new" <=> id[r] = 0
  /\ \A i \in Id : jobs[i] # NoRun => id[jobs[i]] = i

\* A hook has run for a listed run only if the phase of its id has fired; runs that
\* have left the list get no further hooks.
HooksAgree ==
  \A r \in Run, ph \in Phase :
    /\ status[r] = "new" => hooks[r][ph] = 0
    /\ hooks[r][ph] <= 1
    /\ Listed(r) /\ hooks[r][ph] = 1 => ph \in fired[id[r]]

Distinct(q) == \A i, j \in DOMAIN q : q[i] = q[j] => i = j

\* The queue holds a delivery once, and not one that is in flight; only ended runs have
\* a delivery, and one that was handed over is in neither place.
DeliveriesAgree ==
  /\ Distinct(queue)
  /\ ToSet(queue) \intersect inFlight = {}
  /\ \A r \in ToSet(queue) \union inFlight : status[r] = "completed" /\ handed[r] = 0
  /\ \A r \in Run : handed[r] <= 1 /\ (handed[r] = 1 => status[r] = "completed")

\* An id is suppressed because of a run that has it and was reported or abandoned, and
\* stays so while such a run is listed.
AcksAgree ==
  /\ \A i \in suppressed : \E r \in Run : id[r] = i /\ r \in reported \union abandoned
  /\ \A r \in reported \union abandoned : id[r] # 0 /\ (Listed(r) => id[r] \in suppressed)

\* What is watched is watched by a poll, which tracks a run of that id.
WatchesAgree ==
  /\ \A i \in watched : \E p \in Poller : i \in polls[p].ids
  /\ \A p \in Poller :
       /\ \A r \in polls[p].tracked : id[r] # 0
       /\ \A i \in polls[p].ids : \E r \in polls[p].tracked : id[r] = i

\* ResultKept, told by the places themselves.
InPlace(r) == r \in ToSet(queue) \union inFlight \/ handed[r] > 0
Polled(r) == \E p \in Poller : \E q \in polls[p].tracked : Shown(q) = r
Claimed(r) == r \in reported \union abandoned \/ Polled(r)
NoneLost ==
  \A r \in Run : Listed(r) /\ OwnId(r) /\ status[r] = "completed" => InPlace(r) \/ Claimed(r)

JobsInv ==
  /\ TypeOK
  /\ IdsAgree
  /\ HooksAgree
  /\ DeliveriesAgree
  /\ AcksAgree
  /\ WatchesAgree
  /\ QueueIsServed
  /\ NoneLost

-----------------------------------------------------------------------------
(* Min is the least of a set of numbers. *)
LEMMA LeastOf ==
  ASSUME NEW S \in SUBSET Nat, S # {}
  PROVE  Min(S) \in S /\ \A n \in S : Min(S) <= n
<1>1. PICK d \in S : \A e \in S : ~ (<<e, d>> \in OpToRel(<, Nat))
  BY NatLessThanWellFounded, WFMin
<1>2. ASSUME NEW e \in S PROVE d <= e
  <2>1. CASE e < d
    BY <1>1, <2>1 DEF OpToRel
  <2>2. CASE ~ (e < d)
    BY <2>2
  <2> QED
    BY <2>1, <2>2
<1> QED
  BY <1>2 DEF Min

(* Filter takes the elements of a set, each as often as it was there. *)
LEMMA FilterTakes ==
  ASSUME NEW T, NEW q \in Seq(T), NEW S
  PROVE  /\ Filter(q, S) \in Seq(T)
         /\ ToSet(Filter(q, S)) = ToSet(q) \intersect S
         /\ Distinct(q) => Distinct(Filter(q, S))
<1> DEFINE at == {i \in DOMAIN q : q[i] \in S}
           upTo(i) == {j \in at : j <= i}
           c == Cardinality(at)
           place == [n \in 1..c |-> CHOOSE i \in at : Cardinality(upTo(i)) = n]
           rank == [i \in at |-> Cardinality(upTo(i))]
<1>1. at \subseteq 1..Len(q) /\ Len(q) \in Nat /\ IsFiniteSet(at) /\ c \in Nat
  <2>1. at \subseteq 1..Len(q) /\ Len(q) \in Nat
    OBVIOUS
  <2>2. IsFiniteSet(1..Len(q))
    BY <2>1, FS_Interval
  <2> HIDE DEF at
  <2>3. IsFiniteSet(at)
    BY <2>1, <2>2, FS_Subset
  <2> QED
    BY <2>1, <2>3, FS_CardinalityType
<1>2. ASSUME NEW i \in at
      PROVE  IsFiniteSet(upTo(i)) /\ rank[i] \in 1..c
  <2>1. IsFiniteSet(upTo(i)) /\ Cardinality(upTo(i)) <= c /\ Cardinality(upTo(i)) \in Nat
    BY <1>1, FS_Subset, FS_CardinalityType
  <2>2. i \in upTo(i)
    BY <1>1
  <2>3. Cardinality(upTo(i)) # 0
    BY <2>1, <2>2, FS_EmptySet
  <2> QED
    BY <1>1, <2>1, <2>3
<1>3. ASSUME NEW i \in at, NEW j \in at, i < j
      PROVE  rank[i] < rank[j]
  <2>1. upTo(i) \subseteq upTo(j) /\ j \in upTo(j) /\ j \notin upTo(i)
    BY <1>1, <1>3
  <2>2. IsFiniteSet(upTo(i)) /\ IsFiniteSet(upTo(j))
    BY <1>2
  <2>3. /\ Cardinality(upTo(i)) <= Cardinality(upTo(j))
        /\ Cardinality(upTo(i)) # Cardinality(upTo(j))
    <3> HIDE DEF upTo
    <3> QED
      BY <2>1, <2>2, FS_Subset
  <2>4. Cardinality(upTo(i)) \in Nat /\ Cardinality(upTo(j)) \in Nat
    <3> HIDE DEF upTo
    <3> QED
      BY <2>2, FS_CardinalityType
  <2> QED
    BY <2>3, <2>4
<1>4. rank \in Injection(at, 1..c)
  <2>1. rank \in [at -> 1..c]
    BY <1>2
  <2>2. ASSUME NEW i \in at, NEW j \in at, rank[i] = rank[j] PROVE i = j
    <3>1. i \in Nat /\ j \in Nat
      BY <1>1
    <3>0. rank[i] \in 1..c
      BY <1>2
    <3>3. rank[i] \in Nat
      <4> HIDE DEF rank, c
      <4> QED
        BY <1>1, <3>0
    <3>2. ~ (i < j) /\ ~ (j < i)
      <4> HIDE DEF rank
      <4> QED
        BY <1>3, <2>2, <3>3
    <3> QED
      BY <3>1, <3>2
  <2> HIDE DEF rank
  <2> QED
    BY <2>1, <2>2 DEF Injection, IsInjective
<1>5. rank \in Surjection(at, 1..c)
  <2>1. IsFiniteSet(1..c) /\ Cardinality(1..c) = c
    BY <1>1, FS_Interval
  <2> HIDE DEF rank
  <2> QED
    BY <1>4, <2>1, FS_Injection
<1>6. \A n \in 1..c : place[n] \in at /\ rank[place[n]] = n
  <2>1. \A n \in 1..c : \E i \in at : rank[i] = n
    <3> HIDE DEF rank, at, c
    <3> QED
      BY <1>5 DEF Surjection
  <2>2. \A n \in 1..c : \E i \in at : Cardinality(upTo(i)) = n
    BY <2>1
  <2> QED
    BY <2>2
<1>7. \A i \in at : \E n \in 1..c : place[n] = i
  <2>1. ASSUME NEW i \in at PROVE place[rank[i]] = i
    <3>1. rank[i] \in 1..c
      BY <1>2
    <3>2. place[rank[i]] \in at /\ rank[place[rank[i]]] = rank[i]
      BY <1>6, <3>1
    <3> HIDE DEF rank, place
    <3> QED
      BY <1>4, <3>2 DEF Injection, IsInjective
  <2> QED
    BY <1>2, <2>1
<1>8. Filter(q, S) = [n \in 1..c |-> q[place[n]]]
  BY DEF Filter
<1> HIDE DEF place, rank, upTo, c
<1>9. Filter(q, S) \in Seq(T)
  <2>1. \A n \in 1..c : q[place[n]] \in T
    BY <1>6
  <2> QED
    BY <1>1, <1>8, <2>1
<1>10. ToSet(Filter(q, S)) = ToSet(q) \intersect S
  BY <1>6, <1>7, <1>8 DEF ToSet
<1>11. ASSUME Distinct(q) PROVE Distinct(Filter(q, S))
  <2> SUFFICES ASSUME NEW n \in 1..c, NEW m \in 1..c, q[place[n]] = q[place[m]]
               PROVE  n = m
    BY <1>8 DEF Distinct
  <2>1. place[n] = place[m]
    BY <1>6, <1>11 DEF Distinct
  <2> QED
    BY <1>6, <2>1
<1> QED
  BY <1>9, <1>10, <1>11

(* What is left of a queue from some place on. *)
LEMMA RestOfQueue ==
  ASSUME NEW T, NEW q \in Seq(T), NEW f \in 1..Len(q)
  PROVE  /\ SubSeq(q, f, Len(q)) \in Seq(T)
         /\ SubSeq(q, f, Len(q)) # <<>>
         /\ \A r : r \in ToSet(q) <=> r \in ToSet(SubSeq(q, f, Len(q))) \/ \E i \in 1..(f - 1) : q[i] = r
         /\ Distinct(q) => Distinct(SubSeq(q, f, Len(q)))
<1> DEFINE s == SubSeq(q, f, Len(q))
<1>1. /\ s \in Seq(T) /\ Len(s) = Len(q) - f + 1 /\ Len(q) \in Nat
      /\ \A i \in 1..Len(s) : s[i] = q[f + i - 1]
  OBVIOUS
<1>2. DOMAIN s = 1..(Len(q) - f + 1) /\ DOMAIN q = 1..Len(q)
  BY <1>1
<1> HIDE DEF s
<1>3. \A i \in f..Len(q) : i - f + 1 \in DOMAIN s /\ s[i - f + 1] = q[i]
  <2>1. ASSUME NEW i \in f..Len(q)
        PROVE  i - f + 1 \in 1..Len(s) /\ f + (i - f + 1) - 1 = i
    BY <1>1
  <2> QED
    BY <1>1, <1>2, <2>1
<1>4. ASSUME NEW r PROVE r \in ToSet(q) <=> r \in ToSet(s) \/ \E i \in 1..(f - 1) : q[i] = r
  <2>1. ASSUME r \in ToSet(q) PROVE r \in ToSet(s) \/ \E i \in 1..(f - 1) : q[i] = r
    <3>1. PICK i \in 1..Len(q) : q[i] = r
      BY <1>2, <2>1 DEF ToSet
    <3>2. i \in 1..(f - 1) \/ i \in f..Len(q)
      BY <1>1
    <3> QED
      BY <1>3, <3>1, <3>2 DEF ToSet
  <2>2. ASSUME r \in ToSet(s) PROVE r \in ToSet(q)
    <3>1. PICK i \in 1..Len(s) : s[i] = r
      BY <1>1, <1>2, <2>2 DEF ToSet
    <3>2. f + i - 1 \in 1..Len(q) /\ q[f + i - 1] = r
      BY <1>1, <3>1
    <3> QED
      BY <1>2, <3>2 DEF ToSet
  <2>3. ASSUME NEW i \in 1..(f - 1), q[i] = r PROVE r \in ToSet(q)
    <3>1. i \in 1..Len(q)
      BY <1>1
    <3> QED
      BY <1>2, <2>3, <3>1 DEF ToSet
  <2> QED
    BY <2>1, <2>2, <2>3
<1>5. ASSUME Distinct(q) PROVE Distinct(s)
  <2> SUFFICES ASSUME NEW i \in 1..Len(s), NEW j \in 1..Len(s), s[i] = s[j] PROVE i = j
    BY <1>1, <1>2 DEF Distinct
  <2>1. f + i - 1 \in 1..Len(q) /\ f + j - 1 \in 1..Len(q) /\ q[f + i - 1] = q[f + j - 1]
    BY <1>1
  <2>2. f + i - 1 = f + j - 1
    BY <1>2, <1>5, <2>1 DEF Distinct
  <2> QED
    BY <1>1, <2>2
<1>6. s # <<>>
  BY <1>1
<1> QED
  BY <1>1, <1>4, <1>5, <1>6 DEF s

(* The queue without its head, and one with a new element at its end. *)
LEMMA HeadAndTail ==
  ASSUME NEW T, NEW q \in Seq(T), q # <<>>
  PROVE  /\ Head(q) \in T /\ Tail(q) \in Seq(T)
         /\ ToSet(q) = {Head(q)} \union ToSet(Tail(q))
         /\ Distinct(q) => Distinct(Tail(q)) /\ Head(q) \notin ToSet(Tail(q))
<1>1. /\ Head(q) = q[1] /\ Head(q) \in T /\ Tail(q) \in Seq(T)
      /\ Len(q) \in Nat /\ Len(q) >= 1 /\ Len(Tail(q)) = Len(q) - 1
      /\ \A i \in 1..Len(Tail(q)) : Tail(q)[i] = q[i + 1]
  OBVIOUS
<1>2. DOMAIN q = 1..Len(q) /\ DOMAIN Tail(q) = 1..(Len(q) - 1)
  BY <1>1
<1>3. \A i \in 2..Len(q) : i - 1 \in DOMAIN Tail(q) /\ Tail(q)[i - 1] = q[i]
  <2>1. ASSUME NEW i \in 2..Len(q) PROVE i - 1 \in 1..Len(Tail(q)) /\ (i - 1) + 1 = i
    BY <1>1
  <2> QED
    BY <1>1, <1>2, <2>1
<1>4. \A i \in DOMAIN Tail(q) : i + 1 \in 2..Len(q) /\ Tail(q)[i] = q[i + 1]
  BY <1>1, <1>2
<1>5. \A i \in DOMAIN q : i = 1 \/ i \in 2..Len(q)
  BY <1>1, <1>2
<1>6. 1 \in DOMAIN q /\ \A i \in 2..Len(q) : i \in DOMAIN q /\ i # 1
  BY <1>1, <1>2
<1>7. ToSet(q) = {Head(q)} \union ToSet(Tail(q))
  <2>0. ASSUME NEW i \in DOMAIN q PROVE q[i] = Head(q) \/ q[i] \in ToSet(Tail(q))
    <3>1. CASE i \in 2..Len(q)
      BY <1>3, <3>1 DEF ToSet
    <3> QED
      BY <1>1, <1>5, <3>1
  <2>1. ToSet(q) \subseteq {Head(q)} \union ToSet(Tail(q))
    BY <2>0 DEF ToSet
  <2>2. Head(q) \in ToSet(q)
    BY <1>1, <1>6 DEF ToSet
  <2>3. ASSUME NEW i \in DOMAIN Tail(q) PROVE Tail(q)[i] \in ToSet(q)
    BY <1>4, <1>6 DEF ToSet
  <2>4. ToSet(Tail(q)) \subseteq ToSet(q)
    BY <2>3 DEF ToSet
  <2> QED
    BY <2>1, <2>2, <2>4
<1>8. ASSUME Distinct(q) PROVE Distinct(Tail(q)) /\ Head(q) \notin ToSet(Tail(q))
  <2>1. ASSUME NEW i \in DOMAIN Tail(q), NEW j \in DOMAIN Tail(q), Tail(q)[i] = Tail(q)[j] PROVE i = j
    <3>1. i + 1 = j + 1
      BY <1>4, <1>6, <1>8, <2>1 DEF Distinct
    <3> QED
      BY <1>1, <1>2, <3>1
  <2>2. Head(q) \notin ToSet(Tail(q))
    BY <1>1, <1>4, <1>6, <1>8 DEF Distinct, ToSet
  <2> QED
    BY <2>1, <2>2 DEF Distinct
<1> QED
  BY <1>1, <1>7, <1>8

LEMMA WithNewLast ==
  ASSUME NEW T, NEW q \in Seq(T), NEW e \in T
  PROVE  /\ Append(q, e) \in Seq(T) /\ Append(q, e) # <<>>
         /\ ToSet(Append(q, e)) = ToSet(q) \union {e}
         /\ Distinct(q) /\ e \notin ToSet(q) => Distinct(Append(q, e))
<1>1. /\ Append(q, e) \in Seq(T) /\ Len(q) \in Nat /\ Len(Append(q, e)) = Len(q) + 1
      /\ Append(q, e)[Len(q) + 1] = e
      /\ \A i \in 1..Len(q) : Append(q, e)[i] = q[i]
  OBVIOUS
<1>2. DOMAIN q = 1..Len(q) /\ DOMAIN Append(q, e) = 1..(Len(q) + 1)
  BY <1>1
<1>3. \A i \in DOMAIN Append(q, e) : i = Len(q) + 1 \/ i \in DOMAIN q
  BY <1>1, <1>2
<1>4. Len(q) + 1 \in DOMAIN Append(q, e) /\ \A i \in DOMAIN q : i \in DOMAIN Append(q, e)
  BY <1>1, <1>2
<1>5. ToSet(Append(q, e)) = ToSet(q) \union {e}
  BY <1>1, <1>2, <1>3, <1>4 DEF ToSet
<1>6. ASSUME Distinct(q), e \notin ToSet(q) PROVE Distinct(Append(q, e))
  BY <1>1, <1>2, <1>3, <1>6 DEF Distinct, ToSet
<1>7. Append(q, e) # <<>>
  BY <1>1
<1> QED
  BY <1>1, <1>5, <1>6, <1>7

(* RemoveFirst takes one element out of a queue that holds it once. *)
LEMMA TakenOut ==
  ASSUME NEW T, NEW q \in Seq(T), NEW e, Distinct(q)
  PROVE  /\ RemoveFirst(q, e) \in Seq(T)
         /\ ToSet(RemoveFirst(q, e)) = ToSet(q) \ {e}
         /\ Distinct(RemoveFirst(q, e))
<1> DEFINE I == {i \in 1..Len(q) : q[i] = e}
           k == Min(I)
           t == SubSeq(q, 1, k - 1) \o SubSeq(q, k + 1, Len(q))
<1>1. Len(q) \in Nat /\ DOMAIN q = 1..Len(q)
  OBVIOUS
<1>2. CASE I = {}
  <2>1. RemoveFirst(q, e) = q
    BY <1>2 DEF RemoveFirst
  <2>2. e \notin ToSet(q)
    BY <1>1, <1>2 DEF ToSet
  <2> QED
    BY <2>1, <2>2
<1>3. CASE I # {}
  <2>1. RemoveFirst(q, e) = t
    BY <1>3 DEF RemoveFirst, RemoveAt, SelectInSeq
  <2>2. k \in 1..Len(q) /\ q[k] = e
    <3>1. I \in SUBSET Nat
      OBVIOUS
    <3>2. k \in I
      <4> HIDE DEF I
      <4> QED
        BY <1>3, <3>1, LeastOf
    <3> QED
      BY <3>2
  <2> HIDE DEF k
  <2>3. /\ t \in Seq(T) /\ Len(t) = Len(q) - 1
        /\ \A i \in 1..(Len(q) - 1) : t[i] = IF i < k THEN q[i] ELSE q[i + 1]
    <3> DEFINE a == SubSeq(q, 1, k - 1)
               b == SubSeq(q, k + 1, Len(q))
    <3>1. a \in Seq(T) /\ Len(a) = k - 1 /\ \A i \in 1..(k - 1) : a[i] = q[i]
      BY <1>1, <2>2
    <3>2. b \in Seq(T) /\ Len(b) = Len(q) - k /\ \A i \in 1..(Len(q) - k) : b[i] = q[k + i]
      <4>1. k + 1 \in 1..(Len(q) + 1) /\ Len(q) \in 0..Len(q)
        BY <1>1, <2>2
      <4>2. b \in Seq(T) /\ Len(b) = Len(q) - (k + 1) + 1
        BY <1>1, <4>1, SubSeqProperties
      <4>3. \A i \in 1..Len(b) : b[i] = q[(k + 1) + i - 1]
        BY <1>1, <4>1, SubSeqProperties
      <4>4. Len(q) - (k + 1) + 1 = Len(q) - k /\ \A i \in 1..(Len(q) - k) : (k + 1) + i - 1 = k + i
        BY <1>1, <2>2
      <4> HIDE DEF b
      <4> QED
        BY <4>2, <4>3, <4>4
    <3> HIDE DEF a, b
    <3>3. /\ a \o b \in Seq(T) /\ Len(a \o b) = Len(q) - 1
          /\ \A i \in 1..(Len(q) - 1) : (a \o b)[i] = IF i <= k - 1 THEN a[i] ELSE b[i - (k - 1)]
      <4>1. a \o b \in Seq(T) /\ Len(a \o b) = Len(a) + Len(b)
        BY <3>1, <3>2, ConcatProperties
      <4>2. Len(a) + Len(b) = Len(q) - 1
        BY <1>1, <2>2, <3>1, <3>2
      <4>3. \A i \in 1..(Len(a) + Len(b)) : (a \o b)[i] = IF i <= Len(a) THEN a[i] ELSE b[i - Len(a)]
        BY <3>1, <3>2, ConcatProperties
      <4> QED
        BY <3>1, <4>1, <4>2, <4>3
    <3>4. ASSUME NEW i \in 1..(Len(q) - 1)
          PROVE  (a \o b)[i] = IF i < k THEN q[i] ELSE q[i + 1]
      <4>1. CASE i < k
        BY <2>2, <3>1, <3>3, <4>1
      <4>2. CASE ~ (i < k)
        <5>1. i - (k - 1) \in 1..(Len(q) - k) /\ k + (i - (k - 1)) = i + 1
          BY <1>1, <2>2, <4>2
        <5> QED
          BY <1>1, <2>2, <3>2, <3>3, <4>2, <5>1
      <4> QED
        BY <4>1, <4>2
    <3> QED
      BY <3>3, <3>4 DEF a, b
  <2>4. DOMAIN t = 1..(Len(q) - 1)
    <3> HIDE DEF t
    <3> QED
      BY <1>1, <2>3
  <2> HIDE DEF t
  <2> DEFINE from(i) == IF i < k THEN i ELSE i + 1
  <2>5. \A i \in DOMAIN t : from(i) \in DOMAIN q /\ from(i) # k /\ t[i] = q[from(i)]
    BY <1>1, <2>2, <2>3, <2>4
  <2>6. \A i \in DOMAIN q : i # k => \E j \in DOMAIN t : from(j) = i
    <3>1. ASSUME NEW i \in 1..Len(q), i < k PROVE i \in DOMAIN t /\ from(i) = i
      BY <1>1, <2>2, <2>4, <3>1
    <3>2. ASSUME NEW i \in 1..Len(q), i > k PROVE i - 1 \in DOMAIN t /\ from(i - 1) = i
      BY <1>1, <2>2, <2>4, <3>2
    <3>3. \A i \in 1..Len(q) : i # k => i < k \/ i > k
      BY <1>1, <2>2
    <3> QED
      BY <1>1, <3>1, <3>2, <3>3
  <2>7. \A i, j \in DOMAIN t : from(i) = from(j) => i = j
    BY <1>1, <2>2, <2>4
  <2> HIDE DEF from
  <2>8. \A i \in DOMAIN q : q[i] = e => i = k
    BY <1>1, <2>2 DEF Distinct
  <2>9. ToSet(t) = ToSet(q) \ {e}
    <3>1. ASSUME NEW i \in DOMAIN t PROVE t[i] \in ToSet(q) \ {e}
      BY <2>5, <2>8, <3>1 DEF ToSet
    <3>2. ASSUME NEW i \in DOMAIN q, q[i] # e PROVE q[i] \in ToSet(t)
      BY <2>2, <2>5, <2>6, <3>2 DEF ToSet
    <3> QED
      BY <3>1, <3>2 DEF ToSet
  <2>10. Distinct(t)
    BY <2>5, <2>7 DEF Distinct
  <2> QED
    BY <2>1, <2>3, <2>9, <2>10
<1> QED
  BY <1>2, <1>3

(* A queue without repetitions holds an element at most once. *)
LEMMA HeldOnce ==
  ASSUME NEW T, NEW q \in Seq(T), NEW r, Distinct(q)
  PROVE  Cardinality({i \in DOMAIN q : q[i] = r}) = IF r \in ToSet(q) THEN 1 ELSE 0
<1> DEFINE I == {i \in DOMAIN q : q[i] = r}
<1>1. CASE r \in ToSet(q)
  <2>1. PICK k \in DOMAIN q : q[k] = r
    BY <1>1 DEF ToSet
  <2>2. I = {k}
    BY <2>1 DEF Distinct
  <2> HIDE DEF I
  <2>3. Cardinality(I) = 1
    BY <2>2, FS_Singleton
  <2> QED
    BY <1>1, <2>3 DEF I
<1>2. CASE r \notin ToSet(q)
  <2>1. I = {}
    BY <1>2 DEF ToSet
  <2> QED
    BY <1>2, <2>1, FS_EmptySet
<1> QED
  BY <1>1, <1>2

(* While a run is new, some id is free, and register takes one. *)
LEMMA FreeId ==
  ASSUME TypeOK, IdsAgree, NEW r \in Run, status[r] = "new"
  PROVE  /\ Min({j \in Id : jobs[j] = NoRun}) \in Id
         /\ jobs[Min({j \in Id : jobs[j] = NoRun})] = NoRun
<1> DEFINE F == {j \in Id : jobs[j] = NoRun}
<1>1. Cardinality(Run) \in Nat /\ Id \subseteq Nat /\ IsFiniteSet(Id) /\ Cardinality(Id) = Cardinality(Run)
  <2>1. Cardinality(Run) \in Nat
    BY JobsAssumption, FS_CardinalityType
  <2> DEFINE c == Cardinality(Run)
  <2>2. IsFiniteSet(1..c) /\ Cardinality(1..c) = c /\ 1..c \subseteq Nat
    <3> HIDE DEF c
    <3> QED
      BY <2>1, FS_Interval DEF c
  <2> QED
    BY <2>1, <2>2 DEF Id
<1>2. F # {}
  <2> SUFFICES ASSUME F = {} PROVE FALSE
    OBVIOUS
  <2>1. \A i \in Id : jobs[i] \in Run \ {r} /\ id[jobs[i]] = i
    <3>1. \A i \in Id : jobs[i] \in Run /\ id[jobs[i]] = i
      BY DEF TypeOK, IdsAgree
    <3>2. id[r] = 0 /\ 0 \notin Id
      BY <1>1 DEF IdsAgree, Id
    <3> QED
      BY <3>1, <3>2
  <2>2. jobs \in Injection(Id, Run \ {r})
    BY <2>1 DEF Injection, IsInjective, TypeOK
  <2>3. IsFiniteSet(Run \ {r}) /\ Cardinality(Run \ {r}) = Cardinality(Run) - 1
    BY JobsAssumption, FS_RemoveElement
  <2> QED
    BY <1>1, <2>2, <2>3, FS_Injection
<1>3. Min(F) \in F
  <2> HIDE DEF F
  <2>1. F \in SUBSET Nat
    BY <1>1 DEF F
  <2> QED
    BY <1>2, <2>1, LeastOf
<1> QED
  BY <1>3

-----------------------------------------------------------------------------
(* What becomes of the queue q and the deliveries flying: none is doubled or *)
(* comes from elsewhere, none of keep is dropped, and the queue has a loop.  *)
Moved(q, flying, keep) ==
  /\ queue' \in Seq(Run) /\ inFlight' \subseteq Run
  /\ loop' \in [at : LoopPlaces, run : Run \union {NoRun}]
  /\ Distinct(queue') /\ ToSet(queue') \intersect inFlight' = {}
  /\ ToSet(queue') \union inFlight' \subseteq ToSet(q) \union flying
  /\ (ToSet(q) \intersect keep) \union flying \subseteq ToSet(queue') \union inFlight'
  /\ queue' # <<>> => loop'.at # "off"

\* What may be moved: no delivery is in two places.
Movable(q, flying) ==
  /\ q \in Seq(Run) /\ flying \subseteq Run
  /\ Distinct(q) /\ ToSet(q) \intersect flying = {}

Wanted == {r \in Run : ~Suppressed(r)}

(* The loop takes the first delivery that is not suppressed, or ends.        *)
LEMMA LoopMoves ==
  ASSUME NEW q, NEW flying, Movable(q, flying), RunDeliveryLoop(q, flying)
  PROVE  Moved(q, flying, Wanted) /\ loop'.at # "off"
<1> DEFINE I == {i \in 1..Len(q) : ~Suppressed(q[i])}
           first == IF I # {} THEN Min(I) ELSE 0
           rest == IF first = 0 THEN <<>> ELSE SubSeq(q, first, Len(q))
<1>0. q \in Seq(Run) /\ DOMAIN q = 1..Len(q) /\ Len(q) \in Nat /\ Distinct(q)
      /\ flying \subseteq Run /\ ToSet(q) \intersect flying = {}
  BY DEF Movable
<1>1. /\ rest \in Seq(Run) /\ Distinct(rest)
      /\ ToSet(rest) \subseteq ToSet(q) /\ ToSet(q) \intersect Wanted \subseteq ToSet(rest)
  <2>1. CASE I = {}
    <3>1. rest = <<>>
      BY <2>1
    <3>2. ToSet(q) \intersect Wanted = {}
      BY <1>0, <2>1 DEF ToSet, Wanted
    <3>3. ToSet(<<>>) = {} /\ Distinct(<<>>) /\ <<>> \in Seq(Run)
      BY DEF ToSet, Distinct
    <3> HIDE DEF rest
    <3> QED
      BY <3>1, <3>2, <3>3
  <2>2. CASE I # {}
    <3>1. Min(I) \in I /\ \A i \in I : Min(I) <= i
      <4>1. I \in SUBSET Nat
        BY <1>0
      <4> HIDE DEF I
      <4> QED
        BY <2>2, <4>1, LeastOf
    <3>2. first \in 1..Len(q) /\ \A i \in 1..(first - 1) : i \in 1..Len(q) /\ Suppressed(q[i])
      <4>1. first = Min(I) /\ first \in 1..Len(q)
        BY <2>2, <3>1
      <4>2. ASSUME NEW i \in 1..(first - 1) PROVE i \in 1..Len(q) /\ Suppressed(q[i])
        <5>1. i \in 1..Len(q) /\ ~ (first <= i)
          BY <1>0, <4>1
        <5>2. i \notin I
          <6> HIDE DEF I
          <6> QED
            BY <3>1, <4>1, <5>1
        <5> QED
          BY <5>1, <5>2
      <4> HIDE DEF first
      <4> QED
        BY <4>1, <4>2
    <3>3. rest = SubSeq(q, first, Len(q))
      <4> HIDE DEF first
      <4> QED
        BY <1>0, <3>2 DEF rest
    <3> HIDE DEF first, rest, I
    <3>4. /\ rest \in Seq(Run) /\ Distinct(rest)
          /\ \A r : r \in ToSet(q) <=> r \in ToSet(rest) \/ \E i \in 1..(first - 1) : q[i] = r
      BY <1>0, <3>2, <3>3, RestOfQueue
    <3> QED
      BY <3>2, <3>4 DEF Wanted
  <2> QED
    BY <2>1, <2>2
<1>2. \/ /\ rest = <<>>
         /\ loop' = [at |-> "over", run |-> NoRun]
         /\ queue' = rest /\ inFlight' = flying
      \/ /\ rest # <<>>
         /\ loop' = [at |-> "sleep", run |-> Head(rest)]
         /\ queue' = rest /\ inFlight' = flying
      \/ /\ rest # <<>>
         /\ loop' = [at |-> "deliver", run |-> Head(rest)]
         /\ queue' = Tail(rest) /\ inFlight' = flying \union {Head(rest)}
  BY DEF RunDeliveryLoop, SelectInSeq
<1> HIDE DEF rest
<1>3. CASE queue' = rest /\ inFlight' = flying
  <2>1. /\ loop' \in [at : LoopPlaces, run : Run \union {NoRun}] /\ loop'.at # "off"
    <3>1. rest # <<>> => Head(rest) \in Run
      BY <1>1
    <3> QED
      BY <1>2, <3>1 DEF LoopPlaces
  <2> QED
    BY <1>0, <1>1, <1>3, <2>1 DEF Moved
<1>4. CASE /\ rest # <<>>
           /\ loop' = [at |-> "deliver", run |-> Head(rest)]
           /\ queue' = Tail(rest) /\ inFlight' = flying \union {Head(rest)}
  <2>1. /\ Head(rest) \in Run /\ Tail(rest) \in Seq(Run)
        /\ ToSet(rest) = {Head(rest)} \union ToSet(Tail(rest))
        /\ Distinct(Tail(rest)) /\ Head(rest) \notin ToSet(Tail(rest))
    BY <1>1, <1>4, HeadAndTail
  <2>2. loop' \in [at : LoopPlaces, run : Run \union {NoRun}] /\ loop'.at # "off"
    BY <1>4, <2>1 DEF LoopPlaces
  <2> QED
    BY <1>0, <1>1, <1>4, <2>1, <2>2 DEF Moved
<1> QED
  BY <1>2, <1>3, <1>4

(* With or without a loop under way, the queue keeps what it should and has a *)
(* loop.                                                                      *)
LEMMA EnsureMoves ==
  ASSUME TypeOK, NEW q, NEW flying, Movable(q, flying), EnsureDeliveryLoop(q, flying)
  PROVE  Moved(q, flying, Wanted)
<1>1. CASE loop.at = "off"
  BY <1>1, LoopMoves DEF EnsureDeliveryLoop
<1>2. CASE loop.at # "off"
  BY <1>2 DEF EnsureDeliveryLoop, Moved, Movable, TypeOK
<1> QED
  BY <1>1, <1>2

-----------------------------------------------------------------------------
(* Where the actions move deliveries.                                        *)
LEMMA QueueMovable ==
  ASSUME JobsInv
  PROVE  /\ Movable(queue, inFlight)
         /\ \A r \in Run : Movable(queue, inFlight \ {r})
BY DEF JobsInv, TypeOK, DeliveriesAgree, Movable

LEMMA SettleMoves ==
  ASSUME JobsInv, NEW r \in Run, SettleCompleted(r)
  PROVE  IF Suppressed(r) THEN UNCHANGED <<queue, inFlight, loop>>
         ELSE Moved(Append(queue, r), inFlight, Wanted)
<1>1. CASE Suppressed(r)
  BY <1>1 DEF SettleCompleted
<1>2. CASE ~ Suppressed(r)
  <2>1. r \notin ToSet(queue) \union inFlight
    BY DEF SettleCompleted, JobsInv, DeliveriesAgree
  <2>2. Movable(Append(queue, r), inFlight)
    <3>1. queue \in Seq(Run) /\ Distinct(queue)
      BY DEF JobsInv, TypeOK, DeliveriesAgree
    <3>2. /\ Append(queue, r) \in Seq(Run)
          /\ ToSet(Append(queue, r)) = ToSet(queue) \union {r}
          /\ Distinct(Append(queue, r))
      BY <2>1, <3>1, WithNewLast
    <3> QED
      BY <2>1, <3>2 DEF JobsInv, TypeOK, DeliveriesAgree, Movable
  <2>3. EnsureDeliveryLoop(Append(queue, r), inFlight)
    BY <1>2 DEF SettleCompleted
  <2>4. Moved(Append(queue, r), inFlight, Wanted)
    BY <2>2, <2>3, EnsureMoves DEF JobsInv
  <2> QED
    BY <1>2, <2>4
<1> QED
  BY <1>1, <1>2

LEMMA DeliverMoves ==
  ASSUME JobsInv, NEW r \in Run, Deliver(r)
  PROVE  Moved(queue, inFlight \ {r}, Wanted)
<1>0. Movable(queue, inFlight \ {r}) /\ TypeOK
  BY QueueMovable DEF JobsInv
<1>1. CASE loop = [at |-> "deliver", run |-> r]
  <2>1. loop' = [at |-> "ready", run |-> NoRun] /\ queue' = queue /\ inFlight' = inFlight \ {r}
    BY <1>1 DEF Deliver
  <2> QED
    BY <1>0, <2>1 DEF Moved, Movable, LoopPlaces
<1>2. CASE loop # [at |-> "deliver", run |-> r] /\ queue # <<>>
  <2>1. EnsureDeliveryLoop(queue, inFlight \ {r})
    BY <1>2 DEF Deliver
  <2> QED
    BY <1>0, <2>1, EnsureMoves
<1>3. CASE loop # [at |-> "deliver", run |-> r] /\ queue = <<>>
  <2>1. loop' = loop /\ queue' = queue /\ inFlight' = inFlight \ {r}
    BY <1>3 DEF Deliver
  <2> QED
    BY <1>0, <1>3, <2>1 DEF Moved, Movable, TypeOK
<1> QED
  BY <1>1, <1>2, <1>3

\* What the queue is when the delivery of r has failed.
Retried(r) == IF Suppressed(r) THEN queue ELSE Append(queue, r)

LEMMA FailMoves ==
  ASSUME JobsInv, NEW r \in Run, DeliverFails(r)
  PROVE  /\ Moved(Retried(r), inFlight \ {r}, Wanted)
         /\ ToSet(Retried(r)) = ToSet(queue) \union (IF Suppressed(r) THEN {} ELSE {r})
<1> DEFINE q == Retried(r)
<1>0. /\ Movable(q, inFlight \ {r}) /\ TypeOK
      /\ ToSet(q) = ToSet(queue) \union (IF Suppressed(r) THEN {} ELSE {r})
  <2>1. queue \in Seq(Run) /\ Distinct(queue) /\ r \notin ToSet(queue)
    BY DEF DeliverFails, JobsInv, TypeOK, DeliveriesAgree
  <2>2. /\ Append(queue, r) \in Seq(Run)
        /\ ToSet(Append(queue, r)) = ToSet(queue) \union {r}
        /\ Distinct(Append(queue, r))
    BY <2>1, WithNewLast
  <2> QED
    BY <2>1, <2>2 DEF JobsInv, TypeOK, DeliveriesAgree, Movable, Retried
<1>1. CASE loop = [at |-> "deliver", run |-> r]
  <2>1. loop' = [at |-> "ready", run |-> NoRun] /\ queue' = q /\ inFlight' = inFlight \ {r}
    BY <1>1 DEF DeliverFails, Retried
  <2> HIDE DEF q
  <2> QED
    BY <1>0, <2>1 DEF Moved, Movable, LoopPlaces, q
<1>2. CASE loop # [at |-> "deliver", run |-> r] /\ q # <<>>
  <2>1. EnsureDeliveryLoop(q, inFlight \ {r})
    BY <1>2 DEF DeliverFails, Retried
  <2> QED
    BY <1>0, <2>1, EnsureMoves
<1>3. CASE loop # [at |-> "deliver", run |-> r] /\ q = <<>>
  <2>1. loop' = loop /\ queue' = q /\ inFlight' = inFlight \ {r}
    BY <1>3 DEF DeliverFails, Retried
  <2> HIDE DEF q
  <2> QED
    BY <1>0, <1>3, <2>1 DEF Moved, Movable, TypeOK, q
<1> QED
  BY <1>0, <1>1, <1>2, <1>3

LEMMA LoopStepMoves ==
  ASSUME JobsInv, Loop
  PROVE  Moved(queue, inFlight, Wanted)
<1>0. Movable(queue, inFlight) /\ TypeOK
  BY QueueMovable DEF JobsInv
<1>1. CASE RunDeliveryLoop(queue, inFlight)
  BY <1>0, <1>1, LoopMoves
<1>2. CASE LoopWake /\ queue # <<>> /\ Head(queue) = loop.run /\ ~ Suppressed(loop.run)
  <2>1. /\ loop' = [loop EXCEPT !.at = "deliver"]
        /\ queue' = Tail(queue) /\ inFlight' = inFlight \union {Head(queue)}
    BY <1>2 DEF LoopWake
  <2>2. queue \in Seq(Run) /\ Distinct(queue)
    BY <1>0 DEF Movable
  <2>3. /\ Head(queue) \in Run /\ Tail(queue) \in Seq(Run)
        /\ ToSet(queue) = {Head(queue)} \union ToSet(Tail(queue))
        /\ Distinct(Tail(queue)) /\ Head(queue) \notin ToSet(Tail(queue))
    BY <1>2, <2>2, HeadAndTail
  <2>4. loop' \in [at : LoopPlaces, run : Run \union {NoRun}] /\ loop'.at # "off"
    BY <1>0, <2>1 DEF TypeOK, LoopPlaces
  <2> QED
    BY <1>0, <2>1, <2>3, <2>4 DEF Moved, Movable
<1>3. CASE LoopFinally /\ queue = <<>>
  <2>1. loop' = [loop EXCEPT !.at = "off"] /\ queue' = queue /\ inFlight' = inFlight
    BY <1>3 DEF LoopFinally
  <2>2. loop' \in [at : LoopPlaces, run : Run \union {NoRun}]
    BY <1>0, <2>1 DEF TypeOK, LoopPlaces
  <2> QED
    BY <1>0, <1>3, <2>1, <2>2 DEF Moved, Movable
<1> QED
  BY <1>1, <1>2, <1>3 DEF Loop, LoopWake, LoopContinue, LoopFinally

LEMMA DrainMoves ==
  ASSUME JobsInv, NEW o \in Owner, DrainNext(o)
  PROVE  Moved(queue, inFlight, Wanted)
<1>0. Movable(queue, inFlight) /\ TypeOK /\ QueueIsServed
  BY QueueMovable DEF JobsInv
<1>1. PICK r \in ToSet(queue) \union inFlight :
        queue' = RemoveFirst(queue, r) /\ inFlight' = inFlight \union {r}
  BY DEF DrainNext, Pending
<1>2. /\ RemoveFirst(queue, r) \in Seq(Run)
      /\ ToSet(RemoveFirst(queue, r)) = ToSet(queue) \ {r}
      /\ Distinct(RemoveFirst(queue, r))
  BY <1>0, TakenOut DEF Movable
<1>3. r \in Run
  BY <1>0 DEF Movable, ToSet
<1>4. queue' # <<>> => queue # <<>>
  <2>1. ASSUME queue = <<>> PROVE queue' = <<>>
    BY <1>1, <2>1 DEF RemoveFirst
  <2> QED
    BY <2>1
<1>5. loop' = loop
  BY DEF DrainNext
<1> QED
  BY <1>0, <1>1, <1>2, <1>3, <1>4, <1>5 DEF Moved, Movable, TypeOK, QueueIsServed

\* What Acknowledge leaves in the queue.
Spared(ids, watching) ==
  {r \in Run : ids = {} \/ id[r] \notin suppressed \union ids \union watching}

LEMMA AcknowledgeMoves ==
  ASSUME JobsInv, NEW ids, NEW watching, Acknowledge(ids, watching), UNCHANGED <<inFlight, loop>>
  PROVE  Moved(queue, inFlight, Spared(ids, watching))
<1>0. Movable(queue, inFlight) /\ TypeOK /\ QueueIsServed
  BY QueueMovable DEF JobsInv
<1>1. queue' = Filter(queue, Spared(ids, watching))
  BY DEF Acknowledge, Spared
<1>2. /\ queue' \in Seq(Run) /\ Distinct(queue')
      /\ ToSet(queue') = ToSet(queue) \intersect Spared(ids, watching)
  BY <1>0, <1>1, FilterTakes DEF Movable
<1>3. queue' # <<>> => queue # <<>>
  <2>1. ASSUME queue = <<>>, queue' # <<>> PROVE FALSE
    <3>1. Head(queue') \in ToSet(queue')
      <4>1. queue' = [n \in 1..Len(queue') |-> queue'[n]] /\ Len(queue') >= 1
        BY <1>2, <2>1
      <4> QED
        BY <1>2, <4>1 DEF ToSet
    <3>2. ToSet(queue) = {}
      BY <2>1 DEF ToSet
    <3> QED
      BY <1>2, <3>1, <3>2
  <2> QED
    BY <2>1
<1> QED
  BY <1>0, <1>2, <1>3 DEF Moved, Movable, TypeOK, QueueIsServed

-----------------------------------------------------------------------------
(* The initial states.                                                       *)
LEMMA InitJobs == Init => JobsInv
<1> SUFFICES ASSUME Init PROVE JobsInv
  OBVIOUS
<1>0. ToSet(<<>>) = {} /\ Distinct(<<>>) /\ <<>> \in Seq(Run)
  BY DEF ToSet, Distinct
<1>1. TypeOK
  <2>1. loop \in [at : LoopPlaces, run : Run \union {NoRun}]
    BY DEF Init, LoopPlaces
  <2>2. polls \in [Poller -> [tracked : SUBSET Run, ids : SUBSET Id]]
    BY DEF Init, NoPoll
  <2>3. attempts \in [Run -> 0..MaxAttempts]
    BY JobsAssumption DEF Init
  <2> QED
    BY <1>0, <2>1, <2>2, <2>3 DEF Init, TypeOK
<1>2. IdsAgree /\ HooksAgree
  BY DEF Init, IdsAgree, HooksAgree, Listed
<1>3. DeliveriesAgree /\ QueueIsServed
  BY <1>0 DEF Init, DeliveriesAgree, QueueIsServed
<1>4. AcksAgree /\ WatchesAgree
  BY DEF Init, AcksAgree, WatchesAgree, NoPoll
<1>5. NoneLost
  BY DEF Init, NoneLost
<1> QED
  BY <1>1, <1>2, <1>3, <1>4, <1>5 DEF JobsInv

(* Ids are from Id once they are given.                                      *)
LEMMA GivenIds ==
  ASSUME JobsInv, NEW r \in Run
  PROVE  /\ status[r] # "new" => id[r] \in Id
         /\ id[r] # 0 => id[r] \in Id
         /\ Listed(r) => id[r] \in Id /\ jobs[id[r]] = r /\ status[r] # "new"
BY DEF JobsInv, TypeOK, IdsAgree, Listed

(* What a poll shows of a run it tracks is a run with the same id, and no    *)
(* other where the run is listed.                                            *)
LEMMA ShownTracked ==
  ASSUME JobsInv, NEW p \in Poller, NEW r \in polls[p].tracked
  PROVE  /\ r \in Run /\ id[r] \in Id
         /\ Shown(r) \in Run /\ id[Shown(r)] = id[r]
         /\ Listed(r) => Shown(r) = r
<1>1. r \in Run /\ id[r] # 0
  BY DEF JobsInv, TypeOK, WatchesAgree
<1>2. id[r] \in Id
  BY <1>1, GivenIds
<1> QED
  BY <1>1, <1>2 DEF JobsInv, TypeOK, IdsAgree, Shown, Listed

\* The types of what the loop, deliveries and drains share.
LEMMA MovedTypes ==
  ASSUME NEW q, NEW flying, NEW keep, Moved(q, flying, keep)
  PROVE  /\ queue' \in Seq(Run) /\ inFlight' \subseteq Run
         /\ loop' \in [at : LoopPlaces, run : Run \union {NoRun}]
BY DEF Moved

LEMMA LifecycleTypes ==
  ASSUME TypeOK, NEW ids, NEW phase \in Phase, RunLifecycle(ids, phase)
  PROVE  fired' \in [Id -> SUBSET Phase] /\ hooks' \in [Run -> [Phase -> Nat]]
<1>1. fired' \in [Id -> SUBSET Phase]
  BY DEF RunLifecycle, TypeOK
<1>2. ASSUME NEW r \in Run PROVE hooks'[r] \in [Phase -> Nat]
  <2>1. hooks[r] \in [Phase -> Nat] /\ [hooks[r] EXCEPT ![phase] = @ + 1] \in [Phase -> Nat]
    BY DEF TypeOK
  <2> QED
    BY <2>1 DEF RunLifecycle
<1> QED
  BY <1>1, <1>2 DEF RunLifecycle

LEMMA TypeStep == JobsInv /\ [Next]_vars => TypeOK'
<1> SUFFICES ASSUME JobsInv, [Next]_vars PROVE TypeOK'
  OBVIOUS
<1>0. TypeOK
  BY DEF JobsInv
<1>1. ASSUME NEW r \in Run, Register(r) PROVE TypeOK'
  <2> DEFINE i == Min({j \in Id : jobs[j] = NoRun})
  <2>1. i \in Id
    BY <1>1, FreeId DEF JobsInv, Register
  <2>2. /\ id' = [id EXCEPT ![r] = i] /\ jobs' = [jobs EXCEPT ![i] = r] /\ suppressed' = suppressed \ {i}
        /\ status' = [status EXCEPT ![r] = "running"]
        /\ UNCHANGED <<settled, fired, timers, hooks, watched, deliveryVars, drainVars, pollVars, handed, abandoned>>
    BY <1>1 DEF Register
  <2> HIDE DEF i
  <2> QED
    BY <1>0, <2>1, <2>2 DEF TypeOK, deliveryVars, drainVars, pollVars
<1>2. ASSUME NEW r \in Run, SettleCompleted(r) PROVE TypeOK'
  <2>1. /\ queue' \in Seq(Run) /\ inFlight' \subseteq Run
        /\ loop' \in [at : LoopPlaces, run : Run \union {NoRun}]
    BY <1>0, <1>2, SettleMoves, MovedTypes DEF TypeOK
  <2>2. fired' \in [Id -> SUBSET Phase] /\ hooks' \in [Run -> [Phase -> Nat]]
    <3>1. RunLifecycle({id[r]}, "terminal") /\ "terminal" \in Phase
      BY <1>2 DEF SettleCompleted, Phase
    <3> QED
      BY <1>0, <3>1, LifecycleTypes
  <2>3. id[r] \in Id
    BY <1>2, GivenIds DEF SettleCompleted
  <2>4. addressee' \in [Run -> SUBSET Owner]
    <3>1. {OwnerOf[q] : q \in {jobs[id[r]]} \ {NoRun}} \subseteq Owner
      BY <1>0, <2>3, JobsAssumption DEF TypeOK
    <3>2. \/ addressee' = addressee
          \/ addressee' = [addressee EXCEPT ![r] = {OwnerOf[q] : q \in {jobs[id[r]]} \ {NoRun}}]
      BY <1>2 DEF SettleCompleted
    <3>3. \A S \in SUBSET Owner : [addressee EXCEPT ![r] = S] \in [Run -> SUBSET Owner]
      BY <1>0 DEF TypeOK
    <3>4. addressee \in [Run -> SUBSET Owner]
      BY <1>0 DEF TypeOK
    <3> QED
      BY <3>1, <3>2, <3>3, <3>4
  <2>5. /\ status' \in [Run -> {"new", "running", "completed", "cancelled"}]
        /\ settled' \subseteq Run /\ timers' \subseteq Id
        /\ UNCHANGED <<attempts, id, jobs, suppressed, watched, drainVars, pollVars, handed, abandoned>>
    BY <1>0, <1>2, <2>3 DEF SettleCompleted, TypeOK
  <2> QED
    BY <1>0, <2>1, <2>2, <2>4, <2>5 DEF TypeOK, drainVars, pollVars
<1>3. ASSUME NEW r \in Run, SettleCancelled(r) PROVE TypeOK'
  <2>1. fired' \in [Id -> SUBSET Phase] /\ hooks' \in [Run -> [Phase -> Nat]]
    <3>1. RunLifecycle({id[r]}, "terminal") /\ "terminal" \in Phase
      BY <1>3 DEF SettleCancelled, Phase
    <3> QED
      BY <1>0, <3>1, LifecycleTypes
  <2>2. id[r] \in Id
    BY <1>3, GivenIds DEF SettleCancelled
  <2> QED
    BY <1>0, <1>3, <2>1, <2>2 DEF SettleCancelled, TypeOK, deliveryVars, drainVars, pollVars
<1>4. ASSUME NEW r \in Run, Cancel(r) PROVE TypeOK'
  <2>1. fired' \in [Id -> SUBSET Phase] /\ hooks' \in [Run -> [Phase -> Nat]]
    <3>1. RunLifecycle({id[r]}, "cancel") /\ "cancel" \in Phase
      BY <1>4 DEF Cancel, Phase
    <3> QED
      BY <1>0, <3>1, LifecycleTypes
  <2> QED
    BY <1>0, <1>4, <2>1 DEF Cancel, TypeOK, deliveryVars, drainVars, pollVars
<1>5. ASSUME NEW r \in Run, Deliver(r) PROVE TypeOK'
  <2>1. /\ queue' \in Seq(Run) /\ inFlight' \subseteq Run
        /\ loop' \in [at : LoopPlaces, run : Run \union {NoRun}]
    BY <1>5, DeliverMoves, MovedTypes
  <2>2. handed' \in [Run -> Nat] /\ drainWaits' \in [Owner -> Run \union {NoRun}]
    BY <1>0, <1>5 DEF Deliver, Resume, TypeOK
  <2>3. UNCHANGED <<jobVars, suppressed, watched, addressee, attempts, draining, pollVars, abandoned>>
    BY <1>5 DEF Deliver
  <2> QED
    BY <1>0, <2>1, <2>2, <2>3 DEF TypeOK, jobVars, pollVars
<1>6. ASSUME NEW r \in Run, DeliverFails(r) PROVE TypeOK'
  <2>1. /\ queue' \in Seq(Run) /\ inFlight' \subseteq Run
        /\ loop' \in [at : LoopPlaces, run : Run \union {NoRun}]
    BY <1>6, FailMoves, MovedTypes
  <2>2. attempts' \in [Run -> 0..MaxAttempts]
    BY <1>0, <1>6, JobsAssumption DEF DeliverFails, TypeOK
  <2>3. drainWaits' \in [Owner -> Run \union {NoRun}]
    BY <1>0, <1>6 DEF DeliverFails, Resume, TypeOK
  <2>4. UNCHANGED <<jobVars, suppressed, watched, addressee, draining, pollVars, handed, abandoned>>
    BY <1>6 DEF DeliverFails
  <2> QED
    BY <1>0, <2>1, <2>2, <2>3, <2>4 DEF TypeOK, jobVars, pollVars
<1>7. ASSUME NEW o \in Owner, CancelOwnerForReplacement(o) PROVE TypeOK'
  <2> DEFINE mine == {r \in ToSet(queue) \union inFlight : o \in addressee[r]}
             live == {r \in Run : Live(r) /\ OwnerOf[r] = o}
  <2>1. /\ Acknowledge({id[r] : r \in mine}, watched) /\ CancelAll(live)
        /\ abandoned' = abandoned \union mine
        /\ UNCHANGED <<settled, id, jobs, watched, inFlight, addressee, attempts, loop, drainVars, pollVars, handed>>
    BY <1>7 DEF CancelOwnerForReplacement
  <2>2. mine \subseteq Run /\ \A r \in mine : id[r] \in Id
    <3>1. mine \subseteq Run /\ \A r \in mine : status[r] = "completed"
      BY DEF JobsInv, DeliveriesAgree, TypeOK, ToSet
    <3> HIDE DEF mine
    <3> QED
      BY <3>1, GivenIds
  <2>3. live \subseteq Run /\ \A r \in live : id[r] \in Id
    BY GivenIds DEF Live
  <2> HIDE DEF mine, live
  <2>4. queue' \in Seq(Run)
    BY <2>1, AcknowledgeMoves, MovedTypes
  <2>5. suppressed' \subseteq Id
    BY <1>0, <2>1, <2>2 DEF Acknowledge, TypeOK
  <2>6. fired' \in [Id -> SUBSET Phase] /\ hooks' \in [Run -> [Phase -> Nat]]
    <3>1. RunLifecycle({id[r] : r \in live}, "cancel") /\ "cancel" \in Phase
      BY <2>1 DEF CancelAll, Phase
    <3> QED
      BY <1>0, <3>1, LifecycleTypes
  <2>7. status' \in [Run -> {"new", "running", "completed", "cancelled"}] /\ timers' \subseteq Id
    BY <1>0, <2>1, <2>3 DEF CancelAll, TypeOK
  <2> QED
    BY <1>0, <2>1, <2>2, <2>4, <2>5, <2>6, <2>7 DEF TypeOK, drainVars, pollVars
<1>8. ASSUME NEW i \in Id, Evict(i) PROVE TypeOK'
  <2>1. hooks' \in [Run -> [Phase -> Nat]]
    <3>1. ASSUME NEW r \in Run PROVE hooks'[r] \in [Phase -> Nat]
      <4>1. hooks[r] \in [Phase -> Nat] /\ [hooks[r] EXCEPT !["evict"] = @ + 1] \in [Phase -> Nat]
        BY <1>0 DEF TypeOK, Phase
      <4> QED
        BY <1>8, <4>1 DEF Evict
    <3> QED
      BY <1>8, <3>1 DEF Evict
  <2>2. fired' \in [Id -> SUBSET Phase]
    BY <1>0, <1>8 DEF Evict, TypeOK
  <2> QED
    BY <1>0, <1>8, <2>1, <2>2 DEF Evict, TypeOK, deliveryVars, drainVars, pollVars
<1>9. ASSUME Loop PROVE TypeOK'
  <2>1. /\ queue' \in Seq(Run) /\ inFlight' \subseteq Run
        /\ loop' \in [at : LoopPlaces, run : Run \union {NoRun}]
    BY <1>9, LoopStepMoves, MovedTypes
  <2>2. UNCHANGED <<jobVars, suppressed, watched, addressee, attempts, drainVars, pollVars, handed, abandoned>>
    BY <1>9 DEF Loop, LoopWake, LoopContinue, LoopFinally
  <2> QED
    BY <1>0, <2>1, <2>2 DEF TypeOK, jobVars, drainVars, pollVars
<1>10. ASSUME NEW o \in Owner, DrainBegin(o) PROVE TypeOK'
  BY <1>0, <1>10 DEF DrainBegin, TypeOK, jobVars, deliveryVars, pollVars
<1>11. ASSUME NEW o \in Owner, DrainNext(o) PROVE TypeOK'
  <2>1. /\ queue' \in Seq(Run) /\ inFlight' \subseteq Run
        /\ loop' \in [at : LoopPlaces, run : Run \union {NoRun}]
    BY <1>11, DrainMoves, MovedTypes
  <2>2. drainWaits' \in [Owner -> Run \union {NoRun}]
    <3>1. ToSet(queue) \subseteq Run /\ inFlight \subseteq Run
      BY <1>0 DEF TypeOK, ToSet
    <3> QED
      BY <1>0, <1>11, <3>1 DEF DrainNext, Pending, TypeOK
  <2>3. UNCHANGED <<jobVars, suppressed, watched, addressee, attempts, draining, pollVars, handed, abandoned>>
    BY <1>11 DEF DrainNext
  <2> QED
    BY <1>0, <2>1, <2>2, <2>3 DEF TypeOK, jobVars, pollVars
<1>12. ASSUME NEW o \in Owner, DrainEnd(o) PROVE TypeOK'
  BY <1>0, <1>12 DEF DrainEnd, TypeOK, jobVars, deliveryVars, pollVars
<1>13. ASSUME NEW o \in Owner, NEW runs \in SUBSET Run, Report(o, runs) PROVE TypeOK'
  <2> DEFINE ended == {q \in {Shown(r) : r \in runs} : status[q] # "running"}
  <2>1. /\ Acknowledge({id[q] : q \in ended}, watched) /\ reported' = reported \union ended
        /\ UNCHANGED <<jobVars, watched, inFlight, addressee, attempts, loop, drainVars, polls, handed, abandoned>>
    BY <1>13 DEF Report, BuildResult
  <2>2. ended \subseteq Run /\ \A r \in ended : id[r] \in Id
    <3>1. \A r \in runs : Listed(r) /\ Shown(r) = r
      BY <1>13 DEF Report, Shown, Listed
    <3> QED
      BY <3>1, GivenIds
  <2> HIDE DEF ended
  <2>3. queue' \in Seq(Run)
    BY <2>1, AcknowledgeMoves, MovedTypes
  <2>4. suppressed' \subseteq Id
    BY <1>0, <2>1, <2>2 DEF Acknowledge, TypeOK
  <2> QED
    BY <1>0, <2>1, <2>2, <2>3, <2>4 DEF TypeOK, jobVars, drainVars
<1>14. ASSUME NEW p \in Poller, NEW o \in Owner, NEW runs \in SUBSET Run, PollBegin(p, o, runs) PROVE TypeOK'
  <2> DEFINE ids == {id[r] : r \in {q \in runs : status[q] = "running"}}
  <2>1. /\ polls' = [polls EXCEPT ![p] = [tracked |-> runs, ids |-> ids]]
        /\ watched' = watched \union ids
        /\ UNCHANGED <<jobVars, suppressed, deliveryVars, drainVars, reported, handed, abandoned>>
    BY <1>14 DEF PollBegin
  <2>2. ids \subseteq Id
    BY GivenIds
  <2> HIDE DEF ids
  <2> QED
    BY <1>0, <2>1, <2>2 DEF TypeOK, jobVars, deliveryVars, drainVars
<1>15. ASSUME NEW p \in Poller, PollEnd(p) PROVE TypeOK'
  <2> DEFINE ended == {q \in {Shown(r) : r \in polls[p].tracked} : status[q] # "running"}
             rest == watched \ polls[p].ids
  <2>1. /\ Acknowledge({id[q] : q \in ended}, rest) /\ reported' = reported \union ended
        /\ polls' = [polls EXCEPT ![p] = NoPoll] /\ watched' = rest
        /\ UNCHANGED <<jobVars, inFlight, addressee, attempts, loop, drainVars, handed, abandoned>>
    BY <1>15 DEF PollEnd, BuildResult
  <2>2. ended \subseteq Run /\ \A r \in ended : id[r] \in Id
    BY ShownTracked
  <2>3. NoPoll \in [tracked : SUBSET Run, ids : SUBSET Id] /\ rest \subseteq Id
    BY <1>0 DEF NoPoll, TypeOK
  <2> HIDE DEF ended, rest
  <2>4. queue' \in Seq(Run)
    BY <2>1, AcknowledgeMoves, MovedTypes
  <2>5. suppressed' \subseteq Id
    BY <1>0, <2>1, <2>2 DEF Acknowledge, TypeOK
  <2> QED
    BY <1>0, <2>1, <2>2, <2>3, <2>4, <2>5 DEF TypeOK, jobVars, drainVars
<1>16. CASE UNCHANGED vars
  BY <1>0, <1>16 DEF TypeOK, vars, jobVars, deliveryVars, drainVars, pollVars
<1> QED
  BY <1>1, <1>2, <1>3, <1>4, <1>5, <1>6, <1>7, <1>8, <1>9, <1>10, <1>11, <1>12, <1>13, <1>14,
     <1>15, <1>16 DEF Next, Settle

-----------------------------------------------------------------------------
(* Ids.                                                                      *)
LEMMA IdsStep == JobsInv /\ [Next]_vars => IdsAgree'
<1> SUFFICES ASSUME JobsInv, [Next]_vars PROVE IdsAgree'
  OBVIOUS
<1>0. TypeOK /\ IdsAgree
  BY DEF JobsInv
<1>1. ASSUME NEW r \in Run, Register(r) PROVE IdsAgree'
  <2> DEFINE i == Min({j \in Id : jobs[j] = NoRun})
  <2>1. i \in Id /\ jobs[i] = NoRun
    BY <1>1, FreeId DEF JobsInv, Register
  <2>2. /\ id' = [id EXCEPT ![r] = i] /\ jobs' = [jobs EXCEPT ![i] = r]
        /\ status' = [status EXCEPT ![r] = "running"] /\ status[r] = "new"
    BY <1>1 DEF Register
  <2>3. i # 0
    BY <2>1 DEF Id
  <2> HIDE DEF i
  <2>4. \A j \in Id : jobs[j] # r
    <3>1. id[r] = 0 /\ 0 \notin Id /\ r # NoRun
      BY <1>0, <2>2, JobsAssumption DEF IdsAgree, Id
    <3> QED
      BY <1>0, <3>1 DEF IdsAgree
  <2> QED
    BY <1>0, <2>1, <2>2, <2>3, <2>4, JobsAssumption DEF TypeOK, IdsAgree
<1>2. ASSUME NEW i \in Id, Evict(i) PROVE IdsAgree'
  BY <1>0, <1>2 DEF Evict, TypeOK, IdsAgree
<1>3. ASSUME UNCHANGED <<id, jobs>>,
             \/ UNCHANGED status
             \/ \E r \in Run, st \in {"completed", "cancelled"} :
                  status[r] # "new" /\ status' = [status EXCEPT ![r] = st]
             \/ \E R \in SUBSET Run : /\ \A r \in R : status[r] # "new"
                                      /\ status' = [r \in Run |-> IF r \in R THEN "cancelled" ELSE status[r]]
      PROVE  IdsAgree'
  BY <1>0, <1>3 DEF TypeOK, IdsAgree
<1>4. ASSUME NEW r \in Run, Settle(r) \/ Cancel(r) \/ Deliver(r) \/ DeliverFails(r) PROVE IdsAgree'
  BY <1>3, <1>4 DEF Settle, SettleCompleted, SettleCancelled, Cancel, Live, Deliver, DeliverFails, jobVars
<1>5. ASSUME NEW o \in Owner, CancelOwnerForReplacement(o) PROVE IdsAgree'
  <2> DEFINE live == {r \in Run : Live(r) /\ OwnerOf[r] = o}
  <2>1. UNCHANGED <<id, jobs>> /\ status' = [r \in Run |-> IF r \in live THEN "cancelled" ELSE status[r]]
    BY <1>5 DEF CancelOwnerForReplacement, CancelAll
  <2>2. live \in SUBSET Run /\ \A r \in live : status[r] # "new"
    BY DEF Live
  <2> HIDE DEF live
  <2> QED
    BY <1>3, <2>1, <2>2
<1>6. ASSUME NEW o \in Owner, DrainBegin(o) \/ DrainNext(o) \/ DrainEnd(o) PROVE IdsAgree'
  BY <1>3, <1>6 DEF DrainBegin, DrainNext, DrainEnd, jobVars
<1>7. ASSUME Loop PROVE IdsAgree'
  BY <1>3, <1>7 DEF Loop, LoopWake, LoopContinue, LoopFinally, jobVars
<1>8. ASSUME NEW o \in Owner, NEW runs \in SUBSET Run, Report(o, runs) PROVE IdsAgree'
  BY <1>3, <1>8 DEF Report, jobVars
<1>9. ASSUME NEW p \in Poller, NEW o \in Owner, NEW runs \in SUBSET Run, PollBegin(p, o, runs) PROVE IdsAgree'
  BY <1>3, <1>9 DEF PollBegin, jobVars
<1>10. ASSUME NEW p \in Poller, PollEnd(p) PROVE IdsAgree'
  BY <1>3, <1>10 DEF PollEnd, jobVars
<1>11. CASE UNCHANGED vars
  BY <1>3, <1>11 DEF vars, jobVars
<1> QED
  BY <1>1, <1>2, <1>4, <1>5, <1>6, <1>7, <1>8, <1>9, <1>10, <1>11 DEF Next

(* A phase fires once for an id, and so its hook once for the run listed.    *)
LEMMA LifecycleHooks ==
  ASSUME JobsInv, NEW ids \in SUBSET Id, NEW phase \in Phase, RunLifecycle(ids, phase), UNCHANGED <<id, jobs>>,
         \A r \in Run : status'[r] = "new" => status[r] = "new" /\ ~ \E i \in ids : jobs[i] = r
  PROVE  HooksAgree'
<1>0. TypeOK /\ HooksAgree
  BY DEF JobsInv
<1> SUFFICES ASSUME NEW r \in Run, NEW ph \in Phase
             PROVE  /\ status'[r] = "new" => hooks'[r][ph] = 0
                    /\ hooks'[r][ph] <= 1
                    /\ Listed(r)' /\ hooks'[r][ph] = 1 => ph \in fired'[id[r]]
  BY DEF HooksAgree
<1>1. /\ hooks[r] \in [Phase -> Nat]
      /\ status[r] = "new" => hooks[r][ph] = 0
      /\ hooks[r][ph] <= 1
      /\ Listed(r) /\ hooks[r][ph] = 1 => ph \in fired[id[r]]
  BY <1>0 DEF HooksAgree, TypeOK
<1>2. Listed(r)' <=> Listed(r)
  BY DEF Listed
<1>3. Listed(r) => id[r] \in Id /\ jobs[id[r]] = r
  BY GivenIds
<1>4. ASSUME NEW i \in Id, jobs[i] = r PROVE id[r] = i /\ Listed(r)
  BY <1>4, JobsAssumption DEF JobsInv, IdsAgree, Listed, Id
<1>5. Listed(r) => fired[id[r]] \subseteq fired'[id[r]]
  BY <1>0, <1>3 DEF RunLifecycle, TypeOK
<1>6. CASE hooks'[r] = hooks[r]
  BY <1>1, <1>2, <1>5, <1>6
<1>7. CASE hooks'[r] # hooks[r]
  <2>1. /\ \E i \in ids : jobs[i] = r /\ phase \notin fired[i]
        /\ hooks'[r] = [hooks[r] EXCEPT ![phase] = @ + 1]
    BY <1>7 DEF RunLifecycle
  <2>2. status'[r] # "new"
    BY <2>1
  <2>3. PICK i \in ids : jobs[i] = r /\ phase \notin fired[i]
    BY <2>1
  <2>4. CASE ph # phase
    <3>1. hooks'[r][ph] = hooks[r][ph]
      BY <1>1, <2>1, <2>4
    <3> QED
      BY <1>1, <1>2, <1>5, <2>2, <3>1
  <2>5. CASE ph = phase /\ i \in Id
    <3>1. id[r] = i /\ Listed(r)
      BY <1>4, <2>3, <2>5
    <3>2. hooks[r][ph] = 0
      BY <1>1, <2>3, <2>5, <3>1
    <3>3. hooks'[r][ph] = 1
      BY <1>1, <2>1, <2>5, <3>2
    <3>4. ph \in fired'[i]
      BY <1>0, <2>3, <2>5 DEF RunLifecycle, TypeOK
    <3> QED
      BY <2>2, <3>1, <3>3, <3>4
  <2>6. i \in Id
    BY <2>3
  <2> QED
    BY <2>4, <2>5, <2>6
<1> QED
  BY <1>6, <1>7

LEMMA HooksStep == JobsInv /\ [Next]_vars => HooksAgree'
<1> SUFFICES ASSUME JobsInv, [Next]_vars PROVE HooksAgree'
  OBVIOUS
<1>0. TypeOK /\ IdsAgree /\ HooksAgree
  BY DEF JobsInv
<1>1. \A i \in Id, r \in Run : jobs[i] = r => id[r] = i /\ status[r] # "new"
  BY <1>0, JobsAssumption DEF IdsAgree, Id, TypeOK
<1>2. ASSUME NEW r \in Run, Register(r) PROVE HooksAgree'
  <2> DEFINE i == Min({j \in Id : jobs[j] = NoRun})
  <2>1. i \in Id /\ jobs[i] = NoRun
    BY <1>2, FreeId DEF JobsInv, Register
  <2>2. /\ id' = [id EXCEPT ![r] = i] /\ jobs' = [jobs EXCEPT ![i] = r]
        /\ status' = [status EXCEPT ![r] = "running"] /\ status[r] = "new" /\ UNCHANGED <<fired, hooks>>
    BY <1>2 DEF Register
  <2> HIDE DEF i
  <2>3. \A ph \in Phase : hooks[r][ph] = 0
    BY <1>0, <2>2 DEF HooksAgree
  <2>4. \A q \in Run \ {r} : Listed(q)' => Listed(q) /\ id'[q] = id[q]
    BY <1>0, <2>1, <2>2 DEF Listed, TypeOK
  <2>5. \A q \in Run : status'[q] = "new" => status[q] = "new"
    BY <1>0, <2>2 DEF TypeOK
  <2> QED
    BY <1>0, <2>2, <2>3, <2>4, <2>5 DEF HooksAgree
<1>3. ASSUME NEW i \in Id, Evict(i) PROVE HooksAgree'
  <2> SUFFICES ASSUME NEW r \in Run, NEW ph \in Phase
               PROVE  /\ status'[r] = "new" => hooks'[r][ph] = 0
                      /\ hooks'[r][ph] <= 1
                      /\ Listed(r)' /\ hooks'[r][ph] = 1 => ph \in fired'[id'[r]]
    BY DEF HooksAgree
  <2>1. /\ hooks[r] \in [Phase -> Nat]
        /\ status[r] = "new" => hooks[r][ph] = 0
        /\ hooks[r][ph] <= 1
        /\ Listed(r) /\ hooks[r][ph] = 1 => ph \in fired[id[r]]
    BY <1>0 DEF HooksAgree, TypeOK
  <2>2. /\ jobs' = [jobs EXCEPT ![i] = NoRun] /\ fired' = [fired EXCEPT ![i] = {}]
        /\ UNCHANGED <<status, id>>
        /\ hooks'[r] = IF jobs[i] = r /\ "evict" \notin fired[i]
                       THEN [hooks[r] EXCEPT !["evict"] = @ + 1] ELSE hooks[r]
    BY <1>3 DEF Evict
  <2>3. CASE jobs[i] = r
    <3>1. id[r] = i /\ Listed(r) /\ ~ Listed(r)' /\ status[r] # "new"
      BY <1>0, <1>1, <2>2, <2>3, JobsAssumption DEF Listed, TypeOK, Id
    <3>2. hooks'[r][ph] <= 1
      BY <2>1, <2>2, <2>3, <3>1
    <3> QED
      BY <2>2, <3>1, <3>2
  <2>4. CASE jobs[i] # r
    <3>1. hooks'[r] = hooks[r]
      BY <2>2, <2>4
    <3>2. Listed(r)' => Listed(r) /\ id[r] # i /\ id[r] \in Id
      BY <1>0, <2>2, <2>4, GivenIds, JobsAssumption DEF Listed, TypeOK
    <3> QED
      BY <1>0, <2>1, <2>2, <3>1, <3>2 DEF TypeOK
  <2> QED
    BY <2>3, <2>4
<1>4. ASSUME UNCHANGED jobVars PROVE HooksAgree'
  BY <1>0, <1>4 DEF jobVars, HooksAgree, Listed
<1>5. ASSUME NEW r \in Run, SettleCompleted(r) PROVE HooksAgree'
  <2>1. /\ RunLifecycle({id[r]}, "terminal") /\ UNCHANGED <<id, jobs>>
        /\ status' = [status EXCEPT ![r] = "completed"] /\ id[r] \in Id /\ "terminal" \in Phase
    BY <1>5, GivenIds DEF SettleCompleted, Phase
  <2>2. \A q \in Run : status'[q] = "new" => status[q] = "new" /\ ~ \E i \in {id[r]} : jobs[i] = q
    BY <1>0, <1>1, <2>1 DEF TypeOK
  <2> QED
    BY <2>1, <2>2, LifecycleHooks
<1>6. ASSUME NEW r \in Run, SettleCancelled(r) PROVE HooksAgree'
  <2>1. /\ RunLifecycle({id[r]}, "terminal") /\ UNCHANGED <<id, jobs, status>>
        /\ id[r] \in Id /\ "terminal" \in Phase
    BY <1>6, GivenIds DEF SettleCancelled, Phase
  <2> QED
    BY <1>0, <1>1, <2>1, LifecycleHooks
<1>7. ASSUME NEW r \in Run, Cancel(r) PROVE HooksAgree'
  <2>1. /\ RunLifecycle({id[r]}, "cancel") /\ UNCHANGED <<id, jobs>>
        /\ status' = [status EXCEPT ![r] = "cancelled"] /\ id[r] \in Id /\ "cancel" \in Phase
    BY <1>7, GivenIds DEF Cancel, Live, Phase
  <2>2. \A q \in Run : status'[q] = "new" => status[q] = "new" /\ ~ \E i \in {id[r]} : jobs[i] = q
    BY <1>0, <1>1, <2>1 DEF TypeOK
  <2> QED
    BY <2>1, <2>2, LifecycleHooks
<1>8. ASSUME NEW o \in Owner, CancelOwnerForReplacement(o) PROVE HooksAgree'
  <2> DEFINE live == {r \in Run : Live(r) /\ OwnerOf[r] = o}
             ids == {id[r] : r \in live}
  <2>1. /\ RunLifecycle(ids, "cancel") /\ UNCHANGED <<id, jobs>> /\ "cancel" \in Phase
        /\ status' = [r \in Run |-> IF r \in live THEN "cancelled" ELSE status[r]]
    BY <1>8 DEF CancelOwnerForReplacement, CancelAll, Phase
  <2>2. ids \in SUBSET Id
    BY GivenIds DEF Live
  <2>3. \A r \in Run : status'[r] = "new" => status[r] = "new" /\ ~ \E i \in ids : jobs[i] = r
    <3> HIDE DEF ids, live
    <3> QED
      BY <1>1, <2>1, <2>2
  <2> HIDE DEF ids
  <2> QED
    BY <2>1, <2>2, <2>3, LifecycleHooks
<1>9. ASSUME NEW r \in Run, Deliver(r) \/ DeliverFails(r) PROVE HooksAgree'
  BY <1>4, <1>9 DEF Deliver, DeliverFails
<1>10. ASSUME NEW o \in Owner, DrainBegin(o) \/ DrainNext(o) \/ DrainEnd(o) PROVE HooksAgree'
  BY <1>4, <1>10 DEF DrainBegin, DrainNext, DrainEnd
<1>11. ASSUME Loop PROVE HooksAgree'
  BY <1>4, <1>11 DEF Loop, LoopWake, LoopContinue, LoopFinally
<1>12. ASSUME NEW o \in Owner, NEW runs \in SUBSET Run,
              Report(o, runs) \/ \E p \in Poller : PollBegin(p, o, runs) PROVE HooksAgree'
  BY <1>4, <1>12 DEF Report, PollBegin
<1>13. ASSUME NEW p \in Poller, PollEnd(p) PROVE HooksAgree'
  BY <1>4, <1>13 DEF PollEnd
<1>14. CASE UNCHANGED vars
  BY <1>4, <1>14 DEF vars
<1> QED
  BY <1>2, <1>3, <1>5, <1>6, <1>7, <1>8, <1>9, <1>10, <1>11, <1>12, <1>13, <1>14 DEF Next, Settle

-----------------------------------------------------------------------------
(* Places.                                                                   *)
LEMMA PlacesMoved ==
  ASSUME NEW q, NEW flying, NEW keep, Moved(q, flying, keep),
         \A r \in ToSet(q) \union flying : status'[r] = "completed" /\ handed'[r] = 0,
         \A r \in Run : handed'[r] <= 1 /\ (handed'[r] = 1 => status'[r] = "completed")
  PROVE  DeliveriesAgree' /\ QueueIsServed'
BY DEF Moved, DeliveriesAgree, QueueIsServed

LEMMA PlacesSame ==
  ASSUME JobsInv, UNCHANGED <<queue, inFlight, loop, handed>>,
         \A r \in Run : status[r] = "completed" => status'[r] = "completed"
  PROVE  DeliveriesAgree' /\ QueueIsServed'
<1>1. DeliveriesAgree /\ QueueIsServed /\ ToSet(queue) \union inFlight \subseteq Run
  BY DEF JobsInv, TypeOK, ToSet
<1> QED
  BY <1>1 DEF DeliveriesAgree, QueueIsServed

LEMMA DeliveriesStep == JobsInv /\ [Next]_vars => DeliveriesAgree' /\ QueueIsServed'
<1> SUFFICES ASSUME JobsInv, [Next]_vars PROVE DeliveriesAgree' /\ QueueIsServed'
  OBVIOUS
<1> DEFINE Goal == DeliveriesAgree /\ QueueIsServed
<1>0. /\ TypeOK /\ DeliveriesAgree /\ ToSet(queue) \union inFlight \subseteq Run
      /\ \A r \in Run : handed[r] \in Nat
  BY DEF JobsInv, TypeOK, ToSet
<1>1. ASSUME NEW r \in Run, Register(r) PROVE Goal'
  BY <1>0, <1>1, PlacesSame DEF Register, TypeOK, deliveryVars
<1>2. ASSUME NEW r \in Run, SettleCompleted(r) PROVE Goal'
  <2>1. /\ status' = [status EXCEPT ![r] = "completed"] /\ handed' = handed
        /\ status[r] = "running"
    BY <1>2 DEF SettleCompleted
  <2>2. CASE Suppressed(r)
    BY <1>0, <1>2, <2>1, <2>2, SettleMoves, PlacesSame DEF TypeOK
  <2>3. CASE ~ Suppressed(r)
    <3>1. Moved(Append(queue, r), inFlight, Wanted)
      BY <1>2, <2>3, SettleMoves
    <3>2. ToSet(Append(queue, r)) = ToSet(queue) \union {r}
      BY <1>0, WithNewLast DEF TypeOK
    <3>3. handed[r] = 0
      BY <1>0, <2>1 DEF DeliveriesAgree
    <3>4. \A q \in ToSet(Append(queue, r)) \union inFlight : status'[q] = "completed" /\ handed'[q] = 0
      BY <1>0, <2>1, <3>2, <3>3 DEF TypeOK, DeliveriesAgree
    <3>5. \A q \in Run : handed'[q] <= 1 /\ (handed'[q] = 1 => status'[q] = "completed")
      BY <1>0, <2>1 DEF TypeOK, DeliveriesAgree
    <3> QED
      BY <3>1, <3>4, <3>5, PlacesMoved
  <2> QED
    BY <2>2, <2>3
<1>3. ASSUME NEW r \in Run, SettleCancelled(r) \/ Cancel(r) PROVE Goal'
  BY <1>0, <1>3, PlacesSame DEF SettleCancelled, Cancel, Live, TypeOK, deliveryVars
<1>4. ASSUME NEW r \in Run, Deliver(r) PROVE Goal'
  <2>1. /\ Moved(queue, inFlight \ {r}, Wanted) /\ r \in inFlight /\ status' = status
        /\ handed' = IF Suppressed(r) THEN handed ELSE [handed EXCEPT ![r] = @ + 1]
    BY <1>4, DeliverMoves DEF Deliver, jobVars
  <2>2. handed[r] = 0 /\ status[r] = "completed" /\ r \notin ToSet(queue)
    BY <1>0, <2>1 DEF DeliveriesAgree
  <2>3. \A q \in Run \ {r} : handed'[q] = handed[q]
    BY <1>0, <2>1 DEF TypeOK
  <2>4. handed'[r] \in {0, 1}
    BY <1>0, <2>1, <2>2 DEF TypeOK
  <2>5. \A q \in ToSet(queue) \union (inFlight \ {r}) : status'[q] = "completed" /\ handed'[q] = 0
    BY <1>0, <2>1, <2>2, <2>3 DEF DeliveriesAgree
  <2>6. \A q \in Run : handed'[q] <= 1 /\ (handed'[q] = 1 => status'[q] = "completed")
    BY <1>0, <2>1, <2>2, <2>3, <2>4 DEF DeliveriesAgree
  <2> QED
    BY <2>1, <2>5, <2>6, PlacesMoved
<1>5. ASSUME NEW r \in Run, DeliverFails(r) PROVE Goal'
  <2>1. /\ Moved(Retried(r), inFlight \ {r}, Wanted) /\ r \in inFlight
        /\ ToSet(Retried(r)) \subseteq ToSet(queue) \union {r} /\ UNCHANGED <<status, handed>>
    BY <1>5, FailMoves DEF DeliverFails, jobVars
  <2> QED
    BY <1>0, <2>1, PlacesMoved DEF DeliveriesAgree
<1>6. ASSUME NEW o \in Owner, CancelOwnerForReplacement(o) PROVE Goal'
  <2> DEFINE mine == {r \in ToSet(queue) \union inFlight : o \in addressee[r]}
             live == {r \in Run : Live(r) /\ OwnerOf[r] = o}
             ids == {id[r] : r \in mine}
  <2>1. /\ Acknowledge(ids, watched) /\ UNCHANGED <<inFlight, loop, handed>>
        /\ status' = [r \in Run |-> IF r \in live THEN "cancelled" ELSE status[r]]
    BY <1>6 DEF CancelOwnerForReplacement, CancelAll
  <2> HIDE DEF mine, ids
  <2>2. Moved(queue, inFlight, Spared(ids, watched))
    BY <2>1, AcknowledgeMoves
  <2>3. \A r \in Run : status[r] = "completed" => status'[r] = "completed"
    BY <2>1 DEF Live
  <2> QED
    BY <1>0, <2>1, <2>2, <2>3, PlacesMoved DEF DeliveriesAgree
<1>7. ASSUME NEW i \in Id, Evict(i) PROVE Goal'
  BY <1>7, PlacesSame DEF Evict, deliveryVars
<1>8. ASSUME Loop PROVE Goal'
  <2>1. UNCHANGED <<status, handed>>
    BY <1>8 DEF Loop, LoopWake, LoopContinue, LoopFinally, jobVars
  <2> QED
    BY <1>0, <1>8, <2>1, LoopStepMoves, PlacesMoved DEF DeliveriesAgree
<1>9. ASSUME NEW o \in Owner, DrainNext(o) PROVE Goal'
  <2>1. UNCHANGED <<status, handed>>
    BY <1>9 DEF DrainNext, jobVars
  <2> QED
    BY <1>0, <1>9, <2>1, DrainMoves, PlacesMoved DEF DeliveriesAgree
<1>10. ASSUME NEW o \in Owner, DrainBegin(o) \/ DrainEnd(o) PROVE Goal'
  BY <1>10, PlacesSame DEF DrainBegin, DrainEnd, jobVars, deliveryVars
<1>11. ASSUME NEW o \in Owner, NEW runs \in SUBSET Run, Report(o, runs) PROVE Goal'
  <2>1. /\ \E ids : Acknowledge(ids, watched)
        /\ UNCHANGED <<status, inFlight, loop, handed>>
    BY <1>11 DEF Report, BuildResult, jobVars
  <2>2. \E keep : Moved(queue, inFlight, keep)
    BY <2>1, AcknowledgeMoves
  <2> QED
    BY <1>0, <2>1, <2>2, PlacesMoved DEF DeliveriesAgree
<1>12. ASSUME NEW p \in Poller, NEW o \in Owner, NEW runs \in SUBSET Run, PollBegin(p, o, runs) PROVE Goal'
  BY <1>12, PlacesSame DEF PollBegin, jobVars, deliveryVars
<1>13. ASSUME NEW p \in Poller, PollEnd(p) PROVE Goal'
  <2>1. /\ \E ids : Acknowledge(ids, watched \ polls[p].ids)
        /\ UNCHANGED <<status, inFlight, loop, handed>>
    BY <1>13 DEF PollEnd, BuildResult, jobVars
  <2>2. \E keep : Moved(queue, inFlight, keep)
    BY <2>1, AcknowledgeMoves
  <2> QED
    BY <1>0, <2>1, <2>2, PlacesMoved DEF DeliveriesAgree
<1>14. CASE UNCHANGED vars
  BY <1>14, PlacesSame DEF vars, jobVars, deliveryVars
<1> QED
  BY <1>1, <1>2, <1>3, <1>4, <1>5, <1>6, <1>7, <1>8, <1>9, <1>10, <1>11, <1>12, <1>13, <1>14
     DEF Next, Settle

-----------------------------------------------------------------------------
(* Acknowledgements and watches.                                             *)

\* Suppressing the ids of runs that are reported or abandoned by the same step.
LEMMA AcksAdded ==
  ASSUME JobsInv, NEW R \in SUBSET Run, \A r \in R : id[r] \in Id, UNCHANGED <<id, jobs>>,
         suppressed' = suppressed \union {id[r] : r \in R},
         reported' \union abandoned' = reported \union abandoned \union R
  PROVE  AcksAgree'
<1>1. AcksAgree /\ 0 \notin Id
  BY DEF JobsInv, Id
<1>2. \A i \in suppressed' : \E r \in Run : id[r] = i /\ r \in reported' \union abandoned'
  BY <1>1 DEF AcksAgree
<1>3. \A r \in reported' \union abandoned' : id[r] # 0 /\ (Listed(r) => id[r] \in suppressed')
  BY <1>1 DEF AcksAgree
<1> QED
  BY <1>2, <1>3 DEF AcksAgree, Listed

LEMMA AcksStep == JobsInv /\ [Next]_vars => AcksAgree'
<1> SUFFICES ASSUME JobsInv, [Next]_vars PROVE AcksAgree'
  OBVIOUS
<1>0. TypeOK /\ IdsAgree /\ AcksAgree
  BY DEF JobsInv
<1>1. ASSUME UNCHANGED <<id, jobs, suppressed, reported, abandoned>> PROVE AcksAgree'
  BY <1>0, <1>1 DEF AcksAgree, Listed
<1>2. ASSUME NEW r \in Run, Register(r) PROVE AcksAgree'
  <2> DEFINE i == Min({j \in Id : jobs[j] = NoRun})
  <2>1. i \in Id /\ jobs[i] = NoRun
    BY <1>2, FreeId DEF JobsInv, Register
  <2>2. /\ id' = [id EXCEPT ![r] = i] /\ jobs' = [jobs EXCEPT ![i] = r] /\ suppressed' = suppressed \ {i}
        /\ status[r] = "new" /\ UNCHANGED <<reported, abandoned>>
    BY <1>2 DEF Register, pollVars
  <2> HIDE DEF i
  <2>3. \A q \in reported \union abandoned : q \in Run /\ q # r /\ id'[q] = id[q]
    BY <1>0, <2>2 DEF TypeOK, IdsAgree, AcksAgree
  <2>4. \A q \in reported \union abandoned : Listed(q)' => Listed(q) /\ id[q] # i
    <3>1. ASSUME NEW q \in reported \union abandoned, Listed(q)' PROVE Listed(q) /\ id[q] # i
      <4>1. q \in Run /\ q # r /\ id'[q] = id[q] /\ id[q] # 0
        BY <1>0, <2>3 DEF AcksAgree
      <4>2. id[q] \in Id
        BY <4>1, GivenIds
      <4>3. id[q] # i
        BY <1>0, <2>2, <3>1, <4>1 DEF Listed, TypeOK
      <4> QED
        BY <1>0, <2>2, <3>1, <4>1, <4>2, <4>3 DEF Listed, TypeOK
    <3> QED
      BY <3>1
  <2>5. \A j \in suppressed' : \E q \in Run : id'[q] = j /\ q \in reported' \union abandoned'
    BY <1>0, <2>2, <2>3 DEF AcksAgree
  <2>6. \A q \in reported' \union abandoned' : id'[q] # 0 /\ (Listed(q)' => id'[q] \in suppressed')
    BY <1>0, <2>2, <2>3, <2>4 DEF AcksAgree
  <2> QED
    BY <2>5, <2>6 DEF AcksAgree
<1>3. ASSUME NEW i \in Id, Evict(i) PROVE AcksAgree'
  <2>1. /\ jobs' = [jobs EXCEPT ![i] = NoRun] /\ suppressed' = suppressed \ {i}
        /\ UNCHANGED <<id, reported, abandoned>>
    BY <1>3 DEF Evict, pollVars
  <2>2. \A q \in Run : Listed(q)' => Listed(q) /\ id[q] # i
    BY <1>0, <2>1, JobsAssumption, GivenIds DEF Listed, TypeOK
  <2>3. reported \union abandoned \subseteq Run
    BY <1>0 DEF TypeOK
  <2> QED
    BY <1>0, <2>1, <2>2, <2>3 DEF AcksAgree
<1>4. ASSUME NEW r \in Run, Settle(r) \/ Cancel(r) \/ Deliver(r) \/ DeliverFails(r) PROVE AcksAgree'
  BY <1>1, <1>4
     DEF Settle, SettleCompleted, SettleCancelled, Cancel, Deliver, DeliverFails, jobVars, pollVars
<1>5. ASSUME NEW o \in Owner, CancelOwnerForReplacement(o) PROVE AcksAgree'
  <2> DEFINE mine == {r \in ToSet(queue) \union inFlight : o \in addressee[r]}
  <2>1. /\ suppressed' = suppressed \union {id[r] : r \in mine} /\ abandoned' = abandoned \union mine
        /\ UNCHANGED <<id, jobs, reported>>
    BY <1>5 DEF CancelOwnerForReplacement, Acknowledge, pollVars
  <2>2. mine \in SUBSET Run /\ \A r \in mine : id[r] \in Id
    <3>1. mine \in SUBSET Run /\ \A r \in mine : status[r] = "completed"
      BY DEF JobsInv, DeliveriesAgree, TypeOK, ToSet
    <3> HIDE DEF mine
    <3> QED
      BY <3>1, GivenIds
  <2> HIDE DEF mine
  <2> QED
    BY <2>1, <2>2, AcksAdded
<1>6. ASSUME NEW o \in Owner, DrainBegin(o) \/ DrainNext(o) \/ DrainEnd(o) PROVE AcksAgree'
  BY <1>1, <1>6 DEF DrainBegin, DrainNext, DrainEnd, jobVars, pollVars
<1>7. ASSUME Loop PROVE AcksAgree'
  BY <1>1, <1>7 DEF Loop, LoopWake, LoopContinue, LoopFinally, jobVars, pollVars
<1>8. ASSUME NEW o \in Owner, NEW runs \in SUBSET Run, Report(o, runs) PROVE AcksAgree'
  <2> DEFINE ended == {q \in {Shown(r) : r \in runs} : status[q] # "running"}
  <2>1. /\ suppressed' = suppressed \union {id[q] : q \in ended} /\ reported' = reported \union ended
        /\ UNCHANGED <<id, jobs, abandoned>>
    BY <1>8 DEF Report, BuildResult, Acknowledge, jobVars
  <2>2. ended \in SUBSET Run /\ \A r \in ended : id[r] \in Id
    <3>1. \A r \in runs : Listed(r) /\ Shown(r) = r
      BY <1>8 DEF Report, Shown, Listed
    <3> QED
      BY <3>1, GivenIds
  <2> HIDE DEF ended
  <2> QED
    BY <2>1, <2>2, AcksAdded
<1>9. ASSUME NEW p \in Poller, NEW o \in Owner, NEW runs \in SUBSET Run, PollBegin(p, o, runs) PROVE AcksAgree'
  BY <1>1, <1>9 DEF PollBegin, jobVars
<1>10. ASSUME NEW p \in Poller, PollEnd(p) PROVE AcksAgree'
  <2> DEFINE ended == {q \in {Shown(r) : r \in polls[p].tracked} : status[q] # "running"}
  <2>1. /\ suppressed' = suppressed \union {id[q] : q \in ended} /\ reported' = reported \union ended
        /\ UNCHANGED <<id, jobs, abandoned>>
    BY <1>10 DEF PollEnd, BuildResult, Acknowledge, jobVars
  <2>2. ended \in SUBSET Run /\ \A r \in ended : id[r] \in Id
    BY ShownTracked
  <2> HIDE DEF ended
  <2> QED
    BY <2>1, <2>2, AcksAdded
<1>11. CASE UNCHANGED vars
  BY <1>1, <1>11 DEF vars, jobVars, pollVars
<1> QED
  BY <1>2, <1>3, <1>4, <1>5, <1>6, <1>7, <1>8, <1>9, <1>10, <1>11 DEF Next

LEMMA WatchesStep == JobsInv /\ [Next]_vars => WatchesAgree'
<1> SUFFICES ASSUME JobsInv, [Next]_vars PROVE WatchesAgree'
  OBVIOUS
<1>0. TypeOK /\ IdsAgree /\ WatchesAgree
  BY DEF JobsInv
<1>1. ASSUME UNCHANGED <<id, polls>>, watched' \subseteq watched PROVE WatchesAgree'
  BY <1>0, <1>1 DEF WatchesAgree
<1>2. ASSUME NEW r \in Run, Register(r) PROVE WatchesAgree'
  <2>1. /\ id' = [id EXCEPT ![r] = Min({j \in Id : jobs[j] = NoRun})] /\ id[r] = 0
        /\ UNCHANGED <<watched, polls>>
    BY <1>0, <1>2 DEF Register, IdsAgree, pollVars
  <2>2. \A p \in Poller : \A q \in polls[p].tracked : q \in Run /\ id'[q] = id[q]
    BY <1>0, <2>1 DEF TypeOK, WatchesAgree
  <2> QED
    BY <1>0, <2>1, <2>2 DEF WatchesAgree
<1>3. ASSUME NEW i \in Id, Evict(i) PROVE WatchesAgree'
  BY <1>1, <1>3 DEF Evict, pollVars
<1>4. ASSUME NEW r \in Run, Settle(r) \/ Cancel(r) \/ Deliver(r) \/ DeliverFails(r) PROVE WatchesAgree'
  BY <1>1, <1>4
     DEF Settle, SettleCompleted, SettleCancelled, Cancel, Deliver, DeliverFails, jobVars, pollVars
<1>5. ASSUME NEW o \in Owner,
             CancelOwnerForReplacement(o) \/ DrainBegin(o) \/ DrainNext(o) \/ DrainEnd(o)
      PROVE  WatchesAgree'
  BY <1>1, <1>5 DEF CancelOwnerForReplacement, DrainBegin, DrainNext, DrainEnd, jobVars, pollVars
<1>6. ASSUME Loop PROVE WatchesAgree'
  BY <1>1, <1>6 DEF Loop, LoopWake, LoopContinue, LoopFinally, jobVars, pollVars
<1>7. ASSUME NEW o \in Owner, NEW runs \in SUBSET Run, Report(o, runs) PROVE WatchesAgree'
  BY <1>1, <1>7 DEF Report, jobVars
<1>8. ASSUME NEW p \in Poller, NEW o \in Owner, NEW runs \in SUBSET Run, PollBegin(p, o, runs) PROVE WatchesAgree'
  <2> DEFINE ids == {id[r] : r \in {q \in runs : status[q] = "running"}}
  <2>1. /\ polls' = [polls EXCEPT ![p] = [tracked |-> runs, ids |-> ids]]
        /\ watched' = watched \union ids /\ id' = id /\ polls[p] = NoPoll
        /\ \A r \in runs : Listed(r)
    BY <1>8 DEF PollBegin, jobVars
  <2>2. polls'[p] = [tracked |-> runs, ids |-> ids] /\ \A q \in Poller \ {p} : polls'[q] = polls[q]
    BY <1>0, <2>1 DEF TypeOK
  <2>3. \A i \in ids : \E r \in runs : id[r] = i
    OBVIOUS
  <2>4. polls[p].ids = {}
    BY <2>1 DEF NoPoll
  <2> HIDE DEF ids
  <2>5. \A i \in watched' : \E q \in Poller : i \in polls'[q].ids
    BY <1>0, <2>1, <2>2, <2>4 DEF WatchesAgree
  <2>6. ASSUME NEW q \in Poller
        PROVE  /\ \A r \in polls'[q].tracked : id[r] # 0
               /\ \A i \in polls'[q].ids : \E r \in polls'[q].tracked : id[r] = i
    <3>1. CASE q = p
      BY <2>1, <2>2, <2>3, <3>1 DEF Listed
    <3>2. CASE q # p
      BY <1>0, <2>2, <3>2 DEF WatchesAgree
    <3> QED
      BY <3>1, <3>2
  <2> QED
    BY <2>1, <2>5, <2>6 DEF WatchesAgree
<1>9. ASSUME NEW p \in Poller, PollEnd(p) PROVE WatchesAgree'
  <2>1. /\ polls' = [polls EXCEPT ![p] = NoPoll] /\ watched' = watched \ polls[p].ids /\ id' = id
    BY <1>9 DEF PollEnd, jobVars
  <2>2. /\ polls'[p] = NoPoll /\ \A q \in Poller \ {p} : polls'[q] = polls[q]
        /\ NoPoll.tracked = {} /\ NoPoll.ids = {}
    BY <1>0, <2>1 DEF TypeOK, NoPoll
  <2>3. \A i \in watched' : \E q \in Poller : i \in polls'[q].ids
    BY <1>0, <2>1, <2>2 DEF WatchesAgree
  <2>4. ASSUME NEW q \in Poller
        PROVE  /\ \A r \in polls'[q].tracked : id[r] # 0
               /\ \A i \in polls'[q].ids : \E r \in polls'[q].tracked : id[r] = i
    <3>1. CASE q = p
      BY <2>2, <3>1
    <3>2. CASE q # p
      BY <1>0, <2>2, <3>2 DEF WatchesAgree
    <3> QED
      BY <3>1, <3>2
  <2> QED
    BY <2>1, <2>3, <2>4 DEF WatchesAgree
<1>10. CASE UNCHANGED vars
  BY <1>1, <1>10 DEF vars, jobVars, pollVars
<1> QED
  BY <1>2, <1>3, <1>4, <1>5, <1>6, <1>7, <1>8, <1>9, <1>10 DEF Next

-----------------------------------------------------------------------------
(* No result is lost.  A result that is suppressed or watched is reported,   *)
(* abandoned or tracked by a poll, unless its id serves another run as well. *)
LEMMA SuppressedClaimed ==
  ASSUME JobsInv, NEW r \in Run, Listed(r), OwnId(r), Suppressed(r)
  PROVE  Claimed(r)
<1>1. CASE id[r] \in suppressed
  <2>1. PICK q \in Run : id[q] = id[r] /\ q \in reported \union abandoned
    BY <1>1 DEF JobsInv, AcksAgree
  <2>2. q = r
    BY <2>1 DEF OwnId
  <2> QED
    BY <2>1, <2>2 DEF Claimed
<1>2. CASE id[r] \in watched
  <2>1. PICK p \in Poller : id[r] \in polls[p].ids
    BY <1>2 DEF JobsInv, WatchesAgree
  <2>2. PICK q \in polls[p].tracked : id[q] = id[r]
    BY <2>1 DEF JobsInv, WatchesAgree
  <2>3. q = r /\ Shown(q) = r
    BY <2>2, ShownTracked DEF OwnId
  <2> QED
    BY <2>2, <2>3 DEF Claimed, Polled
<1> QED
  BY <1>1, <1>2 DEF Suppressed

\* What a step must do for it.
LEMMA NoneLostBy ==
  ASSUME JobsInv,
         \A r \in Run : Listed(r)' /\ OwnId(r)' /\ status'[r] = "completed" =>
           /\ Listed(r) /\ OwnId(r)
           /\ Claimed(r) => Claimed(r)'
           /\ InPlace(r) \/ status[r] # "completed" => InPlace(r)' \/ Suppressed(r) \/ Claimed(r)'
  PROVE  NoneLost'
<1> SUFFICES ASSUME NEW r \in Run, Listed(r)', OwnId(r)', status'[r] = "completed"
             PROVE  InPlace(r)' \/ Claimed(r)'
  BY DEF NoneLost
<1>1. /\ Listed(r) /\ OwnId(r) /\ (Claimed(r) => Claimed(r)')
      /\ InPlace(r) \/ status[r] # "completed" => InPlace(r)' \/ Suppressed(r) \/ Claimed(r)'
  OBVIOUS
<1>2. Suppressed(r) => Claimed(r)
  BY <1>1, SuppressedClaimed
<1>3. status[r] = "completed" => InPlace(r) \/ Claimed(r)
  BY <1>1 DEF JobsInv, NoneLost
<1> QED
  BY <1>1, <1>2, <1>3

\* The same where only deliveries move.
LEMMA NoneLostByMove ==
  ASSUME JobsInv, UNCHANGED <<status, id, jobs, polls, reported, abandoned>>,
         \A r \in Run : InPlace(r) => InPlace(r)' \/ Suppressed(r)
  PROVE  NoneLost'
<1>1. \A r \in Run : /\ Listed(r)' => Listed(r)
                     /\ OwnId(r)' => OwnId(r)
                     /\ Claimed(r) => Claimed(r)'
  BY DEF Listed, OwnId, Claimed, Polled, Shown
<1> QED
  BY <1>1, NoneLostBy

LEMMA MovedInPlace ==
  ASSUME NEW q, NEW flying, NEW keep, Moved(q, flying, keep), NEW r \in Run,
         r \in flying \/ (r \in ToSet(q) /\ r \in keep)
  PROVE  r \in ToSet(queue') \union inFlight'
BY DEF Moved

LEMMA LostStep == JobsInv /\ [Next]_vars => NoneLost'
<1> SUFFICES ASSUME JobsInv, [Next]_vars PROVE NoneLost'
  OBVIOUS
<1>0. TypeOK /\ IdsAgree /\ WatchesAgree /\ \A r \in Run : r \in Wanted <=> ~ Suppressed(r)
  BY DEF JobsInv, Wanted
<1>1. ASSUME NEW r \in Run, Register(r) PROVE NoneLost'
  <2> DEFINE i == Min({j \in Id : jobs[j] = NoRun})
  <2>1. i \in Id /\ jobs[i] = NoRun
    BY <1>1, FreeId DEF JobsInv, Register
  <2>2. /\ id' = [id EXCEPT ![r] = i] /\ jobs' = [jobs EXCEPT ![i] = r] /\ id[r] = 0
        /\ status' = [status EXCEPT ![r] = "running"]
        /\ UNCHANGED <<polls, reported, abandoned, queue, inFlight, handed>>
    BY <1>0, <1>1 DEF Register, IdsAgree, deliveryVars, pollVars
  <2> HIDE DEF i
  <2> SUFFICES ASSUME NEW q \in Run, Listed(q)', OwnId(q)', status'[q] = "completed"
               PROVE  /\ Listed(q) /\ OwnId(q)
                      /\ Claimed(q) => Claimed(q)'
                      /\ InPlace(q) \/ status[q] # "completed" => InPlace(q)'
    BY NoneLostBy
  <2>3. q # r /\ id'[q] = id[q] /\ status[q] = "completed"
    BY <1>0, <2>2 DEF TypeOK
  <2>4. id[q] \in Id /\ id[q] # i /\ Listed(q)
    <3>1. id[q] \in Id
      BY <2>3, GivenIds
    <3>2. id[q] # i
      BY <1>0, <2>2, <2>3, <3>1 DEF Listed, TypeOK
    <3> QED
      BY <1>0, <2>2, <2>3, <3>1, <3>2 DEF Listed, TypeOK
  <2>5. OwnId(q)
    BY <1>0, <2>2, <2>3, <2>4 DEF OwnId, TypeOK, Id
  <2>6. Polled(q) => Polled(q)'
    <3>1. ASSUME NEW p \in Poller, NEW t \in polls[p].tracked, Shown(t) = q PROVE Shown(t)' = q
      <4>1. t \in Run /\ id[t] \in Id /\ id[t] = id[q]
        BY <3>1, ShownTracked
      <4>2. t # r
        BY <2>2, <4>1 DEF Id
      <4> QED
        BY <1>0, <2>2, <2>4, <3>1, <4>1, <4>2 DEF Shown, TypeOK
    <3> QED
      BY <2>2, <3>1 DEF Polled
  <2> QED
    BY <2>2, <2>3, <2>4, <2>5, <2>6 DEF Claimed, InPlace
<1>2. ASSUME NEW r \in Run, SettleCompleted(r) PROVE NoneLost'
  <2>1. /\ status' = [status EXCEPT ![r] = "completed"]
        /\ UNCHANGED <<id, jobs, polls, reported, abandoned, handed>>
    BY <1>2 DEF SettleCompleted, pollVars
  <2> SUFFICES ASSUME NEW q \in Run
               PROVE  /\ Listed(q)' => Listed(q)
                      /\ OwnId(q)' => OwnId(q)
                      /\ Claimed(q) => Claimed(q)'
                      /\ status'[q] = "completed" /\ (InPlace(q) \/ status[q] # "completed") =>
                           InPlace(q)' \/ Suppressed(q)
    BY NoneLostBy
  <2>2. (Listed(q)' => Listed(q)) /\ (OwnId(q)' => OwnId(q)) /\ (Claimed(q) => Claimed(q)')
    BY <2>1 DEF Listed, OwnId, Claimed, Polled, Shown
  <2>3. CASE Suppressed(r)
    <3>1. UNCHANGED <<queue, inFlight>>
      BY <1>2, <2>3, SettleMoves
    <3>2. q # r => status'[q] = status[q]
      BY <1>0, <2>1 DEF TypeOK
    <3> QED
      BY <2>1, <2>2, <2>3, <3>1, <3>2 DEF InPlace
  <2>4. CASE ~ Suppressed(r)
    <3>1. Moved(Append(queue, r), inFlight, Wanted)
      BY <1>2, <2>4, SettleMoves
    <3>2. ToSet(Append(queue, r)) = ToSet(queue) \union {r}
      BY <1>0, WithNewLast DEF TypeOK
    <3>3. q # r => status'[q] = status[q]
      BY <1>0, <2>1 DEF TypeOK
    <3>4. CASE status'[q] = "completed" /\ (InPlace(q) \/ status[q] # "completed") /\ ~ Suppressed(q)
      <4>1. handed[q] > 0 \/ q \in inFlight \/ q \in ToSet(Append(queue, r))
        BY <3>2, <3>3, <3>4 DEF InPlace
      <4>2. handed'[q] > 0 \/ q \in ToSet(queue') \union inFlight'
        BY <1>0, <2>1, <3>1, <3>4, <4>1, MovedInPlace
      <4> QED
        BY <2>2, <4>2 DEF InPlace
    <3> QED
      BY <2>2, <3>4
  <2> QED
    BY <2>3, <2>4
<1>3. ASSUME NEW r \in Run, SettleCancelled(r) \/ Cancel(r) PROVE NoneLost'
  <2>1. /\ UNCHANGED <<id, jobs, polls, reported, abandoned, queue, inFlight, handed>>
        /\ status' = status \/ status' = [status EXCEPT ![r] = "cancelled"]
    BY <1>3 DEF SettleCancelled, Cancel, deliveryVars, pollVars
  <2>2. \A q \in Run : status'[q] = "completed" => status[q] = "completed"
    BY <1>0, <2>1 DEF TypeOK
  <2>3. \A q \in Run : /\ Listed(q)' => Listed(q)
                       /\ OwnId(q)' => OwnId(q)
                       /\ Claimed(q) => Claimed(q)'
                       /\ InPlace(q) => InPlace(q)'
    BY <2>1 DEF Listed, OwnId, Claimed, Polled, Shown, InPlace
  <2> QED
    BY <2>2, <2>3, NoneLostBy
<1>4. ASSUME NEW r \in Run, Deliver(r) PROVE NoneLost'
  <2>1. /\ Moved(queue, inFlight \ {r}, Wanted)
        /\ handed' = IF Suppressed(r) THEN handed ELSE [handed EXCEPT ![r] = @ + 1]
        /\ UNCHANGED <<status, id, jobs, polls, reported, abandoned>>
    BY <1>4, DeliverMoves DEF Deliver, jobVars, pollVars
  <2>2. \A q \in Run : handed'[q] >= handed[q] /\ (~ Suppressed(r) => handed'[r] > 0)
    BY <1>0, <2>1 DEF TypeOK
  <2>3. ASSUME NEW q \in Run, InPlace(q), ~ Suppressed(q) PROVE InPlace(q)'
    <3>1. CASE q = r
      BY <2>2, <2>3, <3>1 DEF InPlace
    <3>2. CASE q # r /\ handed[q] > 0
      <4>1. handed'[q] \in Nat /\ handed[q] \in Nat /\ handed'[q] >= handed[q]
        BY <1>0, <2>1, <2>2 DEF TypeOK
      <4> QED
        BY <3>2, <4>1 DEF InPlace
    <3>3. CASE q # r /\ q \in ToSet(queue) \union inFlight
      BY <1>0, <2>1, <2>3, <3>3, MovedInPlace DEF InPlace
    <3> QED
      BY <2>3, <3>1, <3>2, <3>3 DEF InPlace
  <2> QED
    BY <2>1, <2>3, NoneLostByMove
<1>5. ASSUME NEW r \in Run, DeliverFails(r) PROVE NoneLost'
  <2>1. /\ Moved(Retried(r), inFlight \ {r}, Wanted)
        /\ ToSet(Retried(r)) = ToSet(queue) \union (IF Suppressed(r) THEN {} ELSE {r})
        /\ UNCHANGED <<status, id, jobs, polls, reported, abandoned, handed>>
    BY <1>5, FailMoves DEF DeliverFails, jobVars, pollVars
  <2>2. ASSUME NEW q \in Run, InPlace(q), ~ Suppressed(q) PROVE InPlace(q)'
    <3>1. handed[q] > 0 \/ q \in inFlight \ {r} \/ q \in ToSet(Retried(r))
      BY <2>1, <2>2 DEF InPlace
    <3> QED
      BY <1>0, <2>1, <2>2, <3>1, MovedInPlace DEF InPlace
  <2> QED
    BY <2>1, <2>2, NoneLostByMove
<1>6. ASSUME Moved(queue, inFlight, Wanted),
             UNCHANGED <<status, id, jobs, polls, reported, abandoned, handed>>
      PROVE  NoneLost'
  <2>1. ASSUME NEW q \in Run, InPlace(q), ~ Suppressed(q) PROVE InPlace(q)'
    BY <1>0, <1>6, <2>1, MovedInPlace DEF InPlace
  <2> QED
    BY <1>6, <2>1, NoneLostByMove
<1>7. ASSUME Loop PROVE NoneLost'
  BY <1>6, <1>7, LoopStepMoves DEF Loop, LoopWake, LoopContinue, LoopFinally, jobVars, pollVars
<1>8. ASSUME NEW o \in Owner, DrainNext(o) PROVE NoneLost'
  BY <1>6, <1>8, DrainMoves DEF DrainNext, jobVars, pollVars
<1>9. ASSUME UNCHANGED <<status, id, jobs, polls, reported, abandoned, queue, inFlight, handed>>
      PROVE  NoneLost'
  BY <1>9, NoneLostByMove DEF InPlace
<1>10. ASSUME NEW o \in Owner, DrainBegin(o) \/ DrainEnd(o) PROVE NoneLost'
  BY <1>9, <1>10 DEF DrainBegin, DrainEnd, jobVars, deliveryVars, pollVars
<1>11. ASSUME NEW R \in SUBSET Run, NEW watching \in SUBSET watched,
              Acknowledge({id[q] : q \in R}, watching),
              reported' \union abandoned' = reported \union abandoned \union R,
              UNCHANGED <<id, jobs, inFlight, loop, handed>>,
              \A q \in Run : status'[q] = "completed" => status[q] = "completed",
              \A q \in Run : status'[q] = "completed" /\ Polled(q) => Polled(q)' \/ q \in R
       PROVE  NoneLost'
  <2> DEFINE ids == {id[q] : q \in R}
  <2>1. Moved(queue, inFlight, Spared(ids, watching))
    <3> HIDE DEF ids
    <3> QED
      BY <1>11, AcknowledgeMoves DEF ids
  <2> SUFFICES ASSUME NEW q \in Run, Listed(q)', OwnId(q)', status'[q] = "completed"
               PROVE  /\ Listed(q) /\ OwnId(q)
                      /\ Claimed(q) => Claimed(q)'
                      /\ InPlace(q) \/ status[q] # "completed" => InPlace(q)' \/ Suppressed(q) \/ Claimed(q)'
    BY NoneLostBy
  <2>2. Listed(q) /\ OwnId(q) /\ status[q] = "completed"
    BY <1>11 DEF Listed, OwnId
  <2>3. Claimed(q) => Claimed(q)'
    BY <1>11 DEF Claimed
  <2>4. CASE id[q] \in ids
    <3>1. PICK e \in R : id[e] = id[q]
      BY <2>4
    <3>2. e = q
      BY <2>2, <3>1 DEF OwnId
    <3> QED
      BY <1>11, <2>2, <2>3, <3>1, <3>2 DEF Claimed
  <2>5. CASE id[q] \notin ids
    <3> HIDE DEF ids
    <3>1. ~ Suppressed(q) => q \in Spared(ids, watching)
      BY <2>5 DEF Suppressed, Spared
    <3>2. InPlace(q) => InPlace(q)' \/ Suppressed(q)
      BY <1>11, <2>1, <3>1, MovedInPlace DEF InPlace
    <3> QED
      BY <2>2, <2>3, <3>2
  <2> QED
    BY <2>4, <2>5
<1>12. ASSUME NEW o \in Owner, CancelOwnerForReplacement(o) PROVE NoneLost'
  <2> DEFINE mine == {r \in ToSet(queue) \union inFlight : o \in addressee[r]}
             live == {r \in Run : Live(r) /\ OwnerOf[r] = o}
  <2>1. /\ Acknowledge({id[q] : q \in mine}, watched)
        /\ reported' \union abandoned' = reported \union abandoned \union mine
        /\ UNCHANGED <<id, jobs, inFlight, loop, handed, polls>>
        /\ status' = [r \in Run |-> IF r \in live THEN "cancelled" ELSE status[r]]
    BY <1>12 DEF CancelOwnerForReplacement, CancelAll, pollVars
  <2>2. mine \in SUBSET Run
    BY DEF JobsInv, TypeOK, ToSet
  <2> HIDE DEF mine, live
  <2>3. \A q \in Run : status'[q] = "completed" => status[q] = "completed"
    BY <2>1
  <2>4. \A q \in Run : Polled(q) => Polled(q)'
    BY <2>1 DEF Polled, Shown
  <2> QED
    BY <1>11, <2>1, <2>2, <2>3, <2>4
<1>13. ASSUME NEW i \in Id, Evict(i) PROVE NoneLost'
  <2>1. /\ jobs' = [jobs EXCEPT ![i] = NoRun]
        /\ UNCHANGED <<status, id, polls, reported, abandoned, queue, inFlight, handed>>
    BY <1>13 DEF Evict, deliveryVars, pollVars
  <2> SUFFICES ASSUME NEW q \in Run, Listed(q)', OwnId(q)', status'[q] = "completed"
               PROVE  /\ Listed(q) /\ OwnId(q)
                      /\ Claimed(q) => Claimed(q)'
                      /\ InPlace(q) \/ status[q] # "completed" => InPlace(q)'
    BY NoneLostBy
  <2>2. id[q] \in Id /\ OwnId(q) /\ status[q] = "completed"
    BY <2>1, GivenIds DEF OwnId
  <2>3. id[q] # i /\ Listed(q)
    BY <1>0, <2>1, <2>2, JobsAssumption DEF Listed, TypeOK
  <2>4. Polled(q) => Polled(q)'
    <3>1. ASSUME NEW p \in Poller, NEW t \in polls[p].tracked, Shown(t) = q PROVE Shown(t)' = q
      <4>1. t \in Run /\ id[t] \in Id /\ id[t] = id[q]
        BY <3>1, ShownTracked
      <4> QED
        BY <1>0, <2>1, <2>3, <3>1, <4>1 DEF Shown, TypeOK
    <3> QED
      BY <2>1, <3>1 DEF Polled
  <2> QED
    BY <2>1, <2>2, <2>3, <2>4 DEF Claimed, InPlace
<1>14. ASSUME NEW o \in Owner, NEW runs \in SUBSET Run, Report(o, runs) PROVE NoneLost'
  <2> DEFINE ended == {q \in {Shown(r) : r \in runs} : status[q] # "running"}
  <2>1. /\ Acknowledge({id[q] : q \in ended}, watched)
        /\ reported' \union abandoned' = reported \union abandoned \union ended
        /\ UNCHANGED <<status, id, jobs, inFlight, loop, handed, polls>>
    BY <1>14 DEF Report, BuildResult, jobVars
  <2>2. ended \in SUBSET Run
    BY <1>14 DEF Report, Shown, Listed
  <2> HIDE DEF ended
  <2>4. \A q \in Run : Polled(q) => Polled(q)'
    BY <2>1 DEF Polled, Shown
  <2> QED
    BY <1>11, <2>1, <2>2, <2>4
<1>15. ASSUME NEW p \in Poller, NEW o \in Owner, NEW runs \in SUBSET Run, PollBegin(p, o, runs) PROVE NoneLost'
  <2>1. /\ \E new : polls' = [polls EXCEPT ![p] = new]
        /\ polls[p].tracked = {}
        /\ UNCHANGED <<status, id, jobs, reported, abandoned, queue, inFlight, handed>>
    <3>1. /\ polls' = [polls EXCEPT ![p] = [tracked |-> runs,
                                             ids |-> {id[r] : r \in {q \in runs : status[q] = "running"}}]]
          /\ polls[p] = NoPoll
          /\ UNCHANGED <<jobVars, deliveryVars, reported, handed, abandoned>>
      BY <1>15 DEF PollBegin
    <3>2. NoPoll.tracked = {}
      BY DEF NoPoll
    <3> QED
      BY <3>1, <3>2 DEF jobVars, deliveryVars
  <2>2. \A q \in Poller \ {p} : polls'[q] = polls[q]
    BY <1>0, <2>1 DEF TypeOK
  <2>3. \A q \in Run : Polled(q) => Polled(q)'
    BY <2>1, <2>2 DEF Polled, Shown
  <2>4. \A q \in Run : /\ Listed(q)' => Listed(q)
                       /\ OwnId(q)' => OwnId(q)
                       /\ Claimed(q) => Claimed(q)'
                       /\ InPlace(q) => InPlace(q)'
    BY <2>1, <2>3 DEF Listed, OwnId, Claimed, InPlace
  <2> QED
    BY <2>1, <2>4, NoneLostBy
<1>16. ASSUME NEW p \in Poller, PollEnd(p) PROVE NoneLost'
  <2> DEFINE ended == {q \in {Shown(r) : r \in polls[p].tracked} : status[q] # "running"}
             rest == watched \ polls[p].ids
  <2>1. /\ Acknowledge({id[q] : q \in ended}, rest)
        /\ reported' \union abandoned' = reported \union abandoned \union ended
        /\ UNCHANGED <<status, id, jobs, inFlight, loop, handed>>
        /\ polls' = [polls EXCEPT ![p] = NoPoll]
    BY <1>16 DEF PollEnd, BuildResult, jobVars
  <2>2. ended \in SUBSET Run
    BY ShownTracked
  <2>3. \A q \in Poller \ {p} : polls'[q] = polls[q]
    BY <1>0, <2>1 DEF TypeOK
  <2>4. ASSUME NEW q \in Run, status'[q] = "completed", Polled(q) PROVE Polled(q)' \/ q \in ended
    <3>1. PICK a \in Poller : \E t \in polls[a].tracked : Shown(t) = q
      BY <2>4 DEF Polled
    <3>2. CASE a = p
      BY <2>1, <2>4, <3>1, <3>2
    <3>3. CASE a # p
      BY <2>1, <2>3, <3>1, <3>3 DEF Polled, Shown
    <3> QED
      BY <3>2, <3>3
  <2> HIDE DEF ended
  <2> QED
    BY <1>11, <2>1, <2>2, <2>4
<1>17. CASE UNCHANGED vars
  BY <1>9, <1>17 DEF vars, jobVars, deliveryVars, pollVars
<1> QED
  BY <1>1, <1>2, <1>3, <1>4, <1>5, <1>7, <1>8, <1>10, <1>12, <1>13, <1>14, <1>15, <1>16, <1>17
     DEF Next, Settle

-----------------------------------------------------------------------------
(* Every step preserves the invariant.                                       *)
LEMMA JobsStep == JobsInv /\ [Next]_vars => JobsInv'
BY TypeStep, IdsStep, HooksStep, DeliveriesStep, AcksStep, WatchesStep, LostStep DEF JobsInv

(* The inductive invariant of the job manager: ids, hooks, deliveries,       *)
(* acknowledgements and watches agree in every state.                        *)
THEOREM JobsInvariant == Spec => []JobsInv
<1>1. Init => JobsInv
  BY InitJobs
<1>2. JobsInv /\ [Next]_vars => JobsInv'
  BY JobsStep
<1> QED
  BY <1>1, <1>2, PTL DEF Spec

(* The places of a result are at most one.                                   *)
LEMMA PlacesCounted ==
  ASSUME JobsInv, NEW r \in Run
  PROVE  Places(r) \in Nat /\ Places(r) <= 1 /\ (InPlace(r) => Places(r) > 0)
<1>1. /\ queue \in Seq(Run) /\ Distinct(queue) /\ ToSet(queue) \intersect inFlight = {}
      /\ \A q \in ToSet(queue) \union inFlight : handed[q] = 0
      /\ handed[r] \in Nat /\ handed[r] <= 1
  BY DEF JobsInv, TypeOK, DeliveriesAgree
<1>2. Cardinality({i \in DOMAIN queue : queue[i] = r}) = IF r \in ToSet(queue) THEN 1 ELSE 0
  BY <1>1, HeldOnce
<1> QED
  BY <1>1, <1>2 DEF Places, InPlace

(* The background job manager delivers a result at most once: over retries,  *)
(* drains of several owners and the loop that sleep and wait beside each     *)
(* other, it is in one place, and no lifecycle hook runs twice.              *)
THEOREM DeliveredOnce == Spec => []DeliveryInv
<1>1. JobsInv => DeliveryInv
  BY PlacesCounted DEF DeliveryInv, OneDelivery, HooksOnce, JobsInv, HooksAgree
<1> QED
  BY <1>1, JobsInvariant, PTL

(* No delivery is left in the queue without a delivery loop: what is queued  *)
(* between the last look of a loop and its end is taken up.                  *)
THEOREM QueuedIsServed == Spec => []QueueIsServed
<1>1. JobsInv => QueueIsServed
  BY DEF JobsInv
<1> QED
  BY <1>1, JobsInvariant, PTL

(* No result is lost between its job, the delivery queue and the job tool:   *)
(* neither the watch of a poll nor a suppression swallows it.                *)
THEOREM ResultsAreKept == Spec => []ResultKept
<1>1. JobsInv => ResultKept
  <2> SUFFICES ASSUME JobsInv, NEW r \in Run, Listed(r), OwnId(r), status[r] = "completed"
               PROVE  Kept(r)
    BY DEF ResultKept
  <2>1. InPlace(r) \/ Claimed(r)
    BY DEF JobsInv, NoneLost
  <2>2. InPlace(r) => Places(r) > 0
    BY PlacesCounted
  <2>3. Polled(r) => \E p \in Poller : r \in {Shown(q) : q \in polls[p].tracked}
    BY DEF Polled
  <2> QED
    BY <2>1, <2>2, <2>3 DEF Kept, Claimed
<1> QED
  BY <1>1, JobsInvariant, PTL

(* What the job tool has reported, or a replacement abandoned, is not handed *)
(* over any more while the job is listed, even from a delivery under way.    *)
THEOREM AcknowledgedStaysOut == Spec => AckSticks
<1> DEFINE A == \A r \in Run : r \in reported \union abandoned /\ Listed(r) => handed'[r] = handed[r]
<1>1. JobsInv /\ [Next]_vars => [A]_vars
  <2> SUFFICES ASSUME JobsInv, Next,
                      NEW r \in Run, r \in reported \union abandoned, Listed(r)
               PROVE  handed'[r] = handed[r]
    OBVIOUS
  <2>1. Suppressed(r)
    BY DEF JobsInv, AcksAgree, Suppressed
  <2>2. ASSUME NEW q \in Run, Deliver(q) PROVE handed'[r] = handed[r]
    BY <2>1, <2>2 DEF Deliver, JobsInv, TypeOK
  <2>3. CASE UNCHANGED handed
    BY <2>3
  <2>4. UNCHANGED handed \/ \E q \in Run : Deliver(q)
    BY DEF Next, Register, Settle, SettleCompleted, SettleCancelled, Cancel, DeliverFails,
           CancelOwnerForReplacement, DrainBegin, DrainNext, DrainEnd, Evict, Loop, LoopWake,
           LoopContinue, LoopFinally, Report, PollBegin, PollEnd
  <2> QED
    BY <2>2, <2>3, <2>4
<1> QED
  BY <1>1, JobsInvariant, PTL DEF Spec, AckSticks

-----------------------------------------------------------------------------
(***************************************************************************)
(* Subagents, the other half of the manager, for any subagents, other jobs,  *)
(* agents, slots and runs.                                                 *)
(***************************************************************************)
Runs == [Subagent -> [1..MaxRuns -> JobStatus]]
Records == [Subagent -> {"none", "running", "paused", "queued", "ended"}]
Handles == [Subagent -> 0..MaxRuns]
Others == [Bash -> {"none", "running", "cancelling", "ended"}]

\* Only the current run is under way; the record says how it stands, and who is queued
\* can run once more.
RecordTells(runs, recs, cur) ==
  \A s \in Subagent :
    /\ \A k \in 1..MaxRuns : Unsettled(runs[s][k]) => k = cur[s]
    /\ recs[s] # "none" => cur[s] # 0
    /\ recs[s] = "running" => Unsettled(runs[s][cur[s]])
    /\ recs[s] = "paused" => runs[s][cur[s]] = "paused"
    /\ recs[s] \in {"queued", "ended"} => \A k \in 1..MaxRuns : ~Unsettled(runs[s][k])
    /\ recs[s] = "queued" => cur[s] < MaxRuns

HandleTells(runs, cur, hnd) ==
  \A s \in Subagent : hnd[s] # 0 => hnd[s] = cur[s] /\ Unsettled(runs[s][hnd[s]])

\* The queue holds the subagents whose record is queued, each once.
QueueTells(recs, q) == Distinct(q) /\ ToSet(q) = {s \in Subagent : recs[s] = "queued"}

Told(runs, recs, cur, hnd, q) ==
  RecordTells(runs, recs, cur) /\ HandleTells(runs, cur, hnd) /\ QueueTells(recs, q)

SubagentsInv == SubagentTypeOK /\ Told(run, rec, current, handle, resumeQueue) /\ SlotsInv

-----------------------------------------------------------------------------
(* What the constants are. *)
LEMMA ParameterTypes ==
  /\ IsFiniteSet(Subagent) /\ IsFiniteSet(Bash)
  /\ LauncherOf \in [Subagent -> Owner] /\ NoOwner \notin Owner
  /\ MaxRunning \in Nat \ {0} /\ MaxRuns \in Nat \ {0}
BY SubagentsAssumption, ManagerAssumption

-----------------------------------------------------------------------------
(* The jobs that hold a slot. *)
On(runs) == {p \in Subagent \X (1..MaxRuns) : runs[p[1]][p[2]] = "running"}
OthersOn(others) == {b \in Bash : others[b] = "running"}

LEMMA SlotsAreCounted ==
  ASSUME NEW runs, NEW others
  PROVE  /\ IsFiniteSet(On(runs)) /\ IsFiniteSet(OthersOn(others))
         /\ Cardinality(On(runs)) \in Nat /\ Cardinality(OthersOn(others)) \in Nat
         /\ Running(runs, others) = Cardinality(On(runs)) + Cardinality(OthersOn(others))
         /\ Running(runs, others) \in Nat
         /\ Free(runs, others) = MaxRunning - Running(runs, others)
         /\ MaxRunning \in Nat /\ MaxRunning # 0
<1>1. IsFiniteSet(Subagent) /\ IsFiniteSet(Bash) /\ MaxRuns \in Nat /\ MaxRunning \in Nat \ {0}
  BY ParameterTypes
<1>2. IsFiniteSet(Subagent \X (1..MaxRuns))
  <2>1. IsFiniteSet(1..MaxRuns)
    BY <1>1, FS_Interval
  <2> QED
    BY <1>1, <2>1, FS_Product
<1>3. IsFiniteSet(On(runs)) /\ IsFiniteSet(OthersOn(others))
  BY <1>1, <1>2, FS_Subset DEF On, OthersOn
<1>4. Cardinality(On(runs)) \in Nat /\ Cardinality(OthersOn(others)) \in Nat
  BY <1>3, FS_CardinalityType
<1>5. Running(runs, others) = Cardinality(On(runs)) + Cardinality(OthersOn(others))
  BY DEF Running, On, OthersOn
<1> QED
  BY <1>1, <1>3, <1>4, <1>5 DEF Free

(* Fewer jobs on, fewer slots taken. *)
LEMMA SlotsFreed ==
  ASSUME NEW runs, NEW others, NEW runs2, NEW others2,
         On(runs2) \subseteq On(runs), OthersOn(others2) \subseteq OthersOn(others)
  PROVE  Running(runs2, others2) <= Running(runs, others)
<1>1. Cardinality(On(runs2)) <= Cardinality(On(runs))
  BY SlotsAreCounted, FS_Subset
<1>2. Cardinality(OthersOn(others2)) <= Cardinality(OthersOn(others))
  BY SlotsAreCounted, FS_Subset
<1> QED
  BY <1>1, <1>2, SlotsAreCounted

(* A job more takes one slot. *)
LEMMA SlotTaken ==
  ASSUME NEW runs, NEW others, NEW runs2, NEW others2,
         \/ OthersOn(others2) = OthersOn(others) /\ \E p : On(runs2) \subseteq On(runs) \cup {p}
         \/ On(runs2) = On(runs) /\ \E b : OthersOn(others2) \subseteq OthersOn(others) \cup {b}
  PROVE  Running(runs2, others2) <= Running(runs, others) + 1
<1>1. ASSUME NEW A, NEW B, NEW x, IsFiniteSet(A), B \subseteq A \cup {x}
      PROVE  Cardinality(B) <= Cardinality(A) + 1
  <2>1. IsFiniteSet(A \cup {x}) /\ Cardinality(A \cup {x}) <= Cardinality(A) + 1 /\ Cardinality(A) \in Nat
    BY <1>1, FS_AddElement, FS_CardinalityType
  <2>2. Cardinality(B) <= Cardinality(A \cup {x}) /\ IsFiniteSet(B)
    BY <1>1, <2>1, FS_Subset
  <2> QED
    BY <2>1, <2>2, FS_CardinalityType
<1>2. CASE OthersOn(others2) = OthersOn(others) /\ \E p : On(runs2) \subseteq On(runs) \cup {p}
  <2>1. Cardinality(On(runs2)) <= Cardinality(On(runs)) + 1
    BY <1>1, <1>2, SlotsAreCounted
  <2> QED
    BY <1>2, <2>1, SlotsAreCounted
<1>3. CASE On(runs2) = On(runs) /\ \E b : OthersOn(others2) \subseteq OthersOn(others) \cup {b}
  <2>1. Cardinality(OthersOn(others2)) <= Cardinality(OthersOn(others)) + 1
    BY <1>1, <1>3, SlotsAreCounted
  <2> QED
    BY <1>3, <2>1, SlotsAreCounted
<1> QED
  BY <1>2, <1>3

-----------------------------------------------------------------------------
(* What #startResume does to the runs, records and handles. *)
LEMMA ResumeKeeps ==
  ASSUME SubagentTypeOK, NEW runs \in Runs, NEW recs \in Records, NEW hnd \in Handles,
         RecordTells(runs, recs, current), HandleTells(runs, current, hnd),
         NEW subs \in SUBSET {s \in Subagent : recs[s] \in {"paused", "queued", "ended"} /\ current[s] < MaxRuns},
         StartResume(subs, runs, recs)
  PROVE  /\ run' \in Runs /\ rec' \in Records /\ current' \in [Subagent -> 0..MaxRuns]
         /\ runOwner' \in [Subagent -> [1..MaxRuns -> Owner \union {NoOwner}]]
         /\ RecordTells(run', rec', current') /\ HandleTells(run', current', hnd)
         /\ \A s \in Subagent : rec'[s] = IF s \in subs THEN "running" ELSE recs[s]
         /\ On(run') = On(runs) \cup {<<s, current[s] + 1>> : s \in subs}
         /\ On(runs) \cap {<<s, current[s] + 1>> : s \in subs} = {}
         /\ \A s \in Subagent, k \in 1..MaxRuns : runs[s][k] = "cancelling" => run'[s][k] = "cancelling"
<1> USE DEF Runs, Records, Handles
<1>1. /\ current \in [Subagent -> 0..MaxRuns] /\ MaxRuns \in Nat
      /\ runOwner \in [Subagent -> [1..MaxRuns -> Owner \union {NoOwner}]]
      /\ runner \in Owner \union {NoOwner}
  BY ParameterTypes DEF SubagentTypeOK
<1>2. \A s \in subs : s \in Subagent /\ current[s] + 1 \in 1..MaxRuns
  BY <1>1
<1>3. ASSUME NEW s \in subs, NEW k \in 1..MaxRuns PROVE runs[s][k] \notin {"running", "cancelling"}
  <2>1. recs[s] \in {"queued", "ended"} => ~Unsettled(runs[s][k])
    BY DEF RecordTells
  <2>2. recs[s] = "paused" => ~Unsettled(runs[s][k])
    BY DEF RecordTells, Unsettled
  <2> QED
    BY <2>1, <2>2 DEF Unsettled
<1>4. run' = [s \in Subagent |->
               IF s \in subs THEN [runs[s] EXCEPT ![current[s] + 1] = "running"] ELSE runs[s]]
  BY DEF StartResume
<1>5. /\ \A s \in Subagent, k \in 1..MaxRuns :
              run'[s][k] = IF s \in subs /\ k = current[s] + 1 THEN "running" ELSE runs[s][k]
      /\ run' \in Runs
  BY <1>2, <1>4 DEF JobStatus
<1>6. /\ \A s \in Subagent : current'[s] = IF s \in subs THEN current[s] + 1 ELSE current[s]
      /\ current' \in [Subagent -> 0..MaxRuns]
  BY <1>1, <1>2 DEF StartResume
<1>7. /\ \A s \in Subagent : rec'[s] = IF s \in subs THEN "running" ELSE recs[s]
      /\ rec' \in Records
  BY DEF StartResume
<1>8. runOwner' \in [Subagent -> [1..MaxRuns -> Owner \union {NoOwner}]]
  BY <1>1, <1>2 DEF StartResume
<1>9. RecordTells(run', rec', current')
  <2> SUFFICES ASSUME NEW s \in Subagent
               PROVE  /\ \A k \in 1..MaxRuns : Unsettled(run'[s][k]) => k = current'[s]
                      /\ rec'[s] # "none" => current'[s] # 0
                      /\ rec'[s] = "running" => Unsettled(run'[s][current'[s]])
                      /\ rec'[s] = "paused" => run'[s][current'[s]] = "paused"
                      /\ rec'[s] \in {"queued", "ended"} => \A k \in 1..MaxRuns : ~Unsettled(run'[s][k])
                      /\ rec'[s] = "queued" => current'[s] < MaxRuns
    BY DEF RecordTells
  <2>1. CASE s \in subs
    <3>1. current'[s] = current[s] + 1 /\ current[s] + 1 \in 1..MaxRuns /\ rec'[s] = "running"
      BY <1>2, <1>6, <1>7, <2>1
    <3>2. run'[s][current[s] + 1] = "running"
      BY <1>5, <2>1, <3>1
    <3>3. \A k \in 1..MaxRuns : Unsettled(run'[s][k]) => k = current[s] + 1
      BY <1>3, <1>5, <2>1 DEF Unsettled
    <3> QED
      BY <3>1, <3>2, <3>3 DEF Unsettled
  <2>2. CASE s \notin subs
    <3>1. run'[s] = runs[s]
      BY <1>4, <2>2
    <3> QED
      BY <1>6, <1>7, <2>2, <3>1 DEF RecordTells
  <2> QED
    BY <2>1, <2>2
<1>10. HandleTells(run', current', hnd)
  <2> SUFFICES ASSUME NEW s \in Subagent, hnd[s] # 0
               PROVE  hnd[s] = current'[s] /\ Unsettled(run'[s][hnd[s]])
    BY DEF HandleTells
  <2>1. hnd[s] \in 1..MaxRuns /\ hnd[s] = current[s] /\ Unsettled(runs[s][hnd[s]])
    BY <1>1 DEF HandleTells
  <2>2. s \notin subs
    BY <1>3, <2>1 DEF Unsettled
  <2> QED
    BY <1>4, <1>6, <2>1, <2>2
<1>11. ASSUME NEW p PROVE p \in On(run') <=> p \in On(runs) \cup {<<s, current[s] + 1>> : s \in subs}
  <2>1. CASE p \in Subagent \X (1..MaxRuns)
    <3>1. PICK s \in Subagent, k \in 1..MaxRuns : p = <<s, k>>
      BY <2>1
    <3>2. p \in {<<t, current[t] + 1>> : t \in subs} <=> s \in subs /\ k = current[s] + 1
      BY <3>1
    <3>3. p \in On(run') <=> run'[s][k] = "running"
      BY <3>1 DEF On
    <3>4. p \in On(runs) <=> runs[s][k] = "running"
      BY <3>1 DEF On
    <3> QED
      BY <1>5, <3>2, <3>3, <3>4
  <2>2. CASE p \notin Subagent \X (1..MaxRuns)
    BY <1>2, <2>2 DEF On
  <2> QED
    BY <2>1, <2>2
<1>12. On(run') = On(runs) \cup {<<s, current[s] + 1>> : s \in subs}
  BY <1>11
<1>13. On(runs) \cap {<<s, current[s] + 1>> : s \in subs} = {}
  <2> SUFFICES ASSUME NEW s \in subs, <<s, current[s] + 1>> \in On(runs) PROVE FALSE
    OBVIOUS
  <2>1. runs[s][current[s] + 1] = "running"
    BY DEF On
  <2> QED
    BY <1>2, <1>3, <2>1
<1>14. \A s \in Subagent, k \in 1..MaxRuns : runs[s][k] = "cancelling" => run'[s][k] = "cancelling"
  BY <1>3, <1>5
<1> QED
  BY <1>5, <1>6, <1>7, <1>8, <1>9, <1>10, <1>12, <1>13, <1>14

(* As many entries as resumes leave the queue, and none that was among them stays. *)
First(q, n) == {q[i] : i \in 1..n}
Rest(q, n) == SubSeq(q, n + 1, Len(q))
LEMMA QueueHalves ==
  ASSUME NEW T, NEW q \in Seq(T), NEW n \in 0..Len(q), Distinct(q)
  PROVE  /\ Rest(q, n) \in Seq(T) /\ Distinct(Rest(q, n)) /\ ToSet(Rest(q, n)) = ToSet(q) \ First(q, n)
         /\ First(q, n) \subseteq ToSet(q) /\ IsFiniteSet(First(q, n)) /\ Cardinality(First(q, n)) = n
         /\ n = Len(q) => Rest(q, n) = <<>>
<1> DEFINE f == [i \in 1..n |-> q[i]]
           rest == Rest(q, n)
           front == First(q, n)
<1>0. n \in Nat /\ Len(q) \in Nat /\ n <= Len(q) /\ DOMAIN q = 1..Len(q)
  OBVIOUS
<1>1. /\ rest \in Seq(T) /\ Len(rest) = Len(q) - n
      /\ \A i \in 1..(Len(q) - n) : rest[i] = q[n + i]
  BY DEF Rest
<1>2. DOMAIN rest = 1..(Len(q) - n)
  <2>1. \A s \in Seq(T) : DOMAIN s = 1..Len(s)
    OBVIOUS
  <2> QED
    BY <1>1, <2>1, Zenon
<1>3. n = Len(q) => rest = <<>>
  BY DEF Rest
<1>a. front = {q[i] : i \in 1..n}
  BY DEF First
<1> HIDE DEF rest, front
<1>4. \A i \in 1..(Len(q) - n) : n + i \in DOMAIN q /\ n + i \notin 1..n
  BY <1>0
<1>5. \A i \in DOMAIN q : i \notin 1..n => i - n \in 1..(Len(q) - n) /\ n + (i - n) = i
  BY <1>0
<1>6. Distinct(rest)
  <2> SUFFICES ASSUME NEW i \in 1..(Len(q) - n), NEW j \in 1..(Len(q) - n), rest[i] = rest[j] PROVE i = j
    BY <1>2 DEF Distinct
  <2>1. n + i = n + j
    BY <1>1, <1>4 DEF Distinct
  <2> QED
    BY <1>0, <2>1
<1>7. \A i \in 1..n : i \in DOMAIN q
  BY <1>0
<1>8. front \subseteq ToSet(q)
  BY <1>a, <1>7 DEF ToSet
<1>9. ToSet(rest) = ToSet(q) \ front
  <2>1. ASSUME NEW x \in ToSet(rest) PROVE x \in ToSet(q) /\ x \notin front
    <3>1. PICK i \in 1..(Len(q) - n) : x = q[n + i]
      BY <1>1, <1>2 DEF ToSet
    <3>2. \A j \in 1..n : q[j] # x
      BY <1>4, <1>7, <3>1 DEF Distinct
    <3> QED
      BY <1>a, <1>4, <3>1, <3>2 DEF ToSet
  <2>2. ASSUME NEW x \in ToSet(q), x \notin front PROVE x \in ToSet(rest)
    <3>1. PICK i \in DOMAIN q : x = q[i]
      BY DEF ToSet
    <3>2. i \notin 1..n
      BY <1>a, <2>2, <3>1
    <3>3. rest[i - n] = x /\ i - n \in DOMAIN rest
      BY <1>1, <1>2, <1>5, <3>1, <3>2
    <3> QED
      BY <3>3 DEF ToSet
  <2> QED
    BY <2>1, <2>2
<1>10. f \in [1..n -> front] /\ (\A i, j \in 1..n : f[i] = f[j] => i = j) /\ \A x \in front : \E i \in 1..n : f[i] = x
  BY <1>a, <1>7 DEF Distinct
<1> HIDE DEF f
<1>11. f \in Bijection(1..n, front)
  BY <1>10, Fun_IsBij
<1>12. ExistsBijection(1..n, front)
  BY <1>11 DEF ExistsBijection
<1>13. IsFiniteSet(1..n) /\ Cardinality(1..n) = n
  BY <1>0, FS_Interval
<1>14. IsFiniteSet(front) /\ Cardinality(front) = n
  BY <1>12, <1>13, FS_Bijection
<1> QED
  BY <1>1, <1>3, <1>6, <1>8, <1>9, <1>14 DEF rest, front

LEMMA OneLess ==
  ASSUME NEW l \in Nat, NEW n \in 0..l, n # 0
  PROVE  n - 1 \in 0..l /\ ~ (n <= n - 1)
OBVIOUS

(* #drainResumeQueue starts as many of the first as there are free slots. *)
LEMMA DrainTakes ==
  ASSUME NEW runs, NEW recs, NEW others, SubagentTypeOK, QueueTells(recs, resumeQueue),
         Running(runs, others) <= MaxRunning, DrainResumeQueue(runs, recs, others)
  PROVE  \E n \in 0..Len(resumeQueue) :
           /\ resumeQueue' = Rest(resumeQueue, n)
           /\ StartResume(First(resumeQueue, n), runs, recs)
           /\ n = Len(resumeQueue) \/ n >= Free(runs, others)
           /\ n <= Free(runs, others)
<1> DEFINE q == resumeQueue
           waiting(n) == {i \in 1..n : recs[q[i]] = "queued"}
           free == Free(runs, others)
           enough == {n \in 0..Len(q) : n = Len(q) \/ Cardinality(waiting(n)) >= free}
           taken == Min(enough)
<1>1. q \in Seq(Subagent) /\ Len(q) \in Nat /\ DOMAIN q = 1..Len(q)
  BY DEF SubagentTypeOK
<1>2. free \in Int /\ free >= 0
  BY SlotsAreCounted
<1>3. ASSUME NEW n \in 0..Len(q) PROVE waiting(n) = 1..n
  <2>1. ASSUME NEW i \in 1..n PROVE recs[q[i]] = "queued"
    <3>1. i \in DOMAIN q
      BY <1>1
    <3> QED
      BY <3>1 DEF QueueTells, ToSet
  <2> QED
    BY <2>1
<1>4. /\ resumeQueue' = SubSeq(q, taken + 1, Len(q))
      /\ StartResume({q[i] : i \in waiting(taken)}, runs, recs)
  BY DEF DrainResumeQueue
<1>5. ASSUME NEW n \in 0..Len(q) PROVE Cardinality(waiting(n)) = n
  <2>1. Cardinality(1..n) = n
    BY <1>1, FS_Interval
  <2> HIDE DEF waiting
  <2> QED
    BY <1>3, <2>1
<1> HIDE DEF waiting, free
<1>6. enough = {n \in 0..Len(q) : n = Len(q) \/ n >= free}
  BY <1>5
<1>7. enough \in SUBSET Nat /\ Len(q) \in enough
  BY <1>1
<1>8. taken \in enough /\ \A n \in enough : taken <= n
  <2> HIDE DEF enough
  <2> QED
    BY <1>7, LeastOf
<1> HIDE DEF enough, taken
<1>9. taken \in 0..Len(q) /\ (taken = Len(q) \/ taken >= free)
  BY <1>6, <1>8
<1>10. taken <= free
  <2>1. CASE taken = 0
    BY <1>2, <2>1
  <2>2. CASE taken # 0
    <3>0. taken - 1 \in 0..Len(q) /\ ~ (taken <= taken - 1)
      BY <1>1, <1>9, <2>2, OneLess
    <3>1. taken - 1 \notin enough
      BY <1>8, <3>0
    <3>2. ~ (taken - 1 >= free)
      BY <1>6, <3>0, <3>1
    <3> QED
      BY <1>2, <1>9, <3>2
  <2> QED
    BY <2>1, <2>2
<1>11. waiting(taken) = 1..taken
  BY <1>3, <1>9
<1> QED
  BY <1>4, <1>9, <1>10, <1>11 DEF free, First, Rest

(* Resumed subagents take a slot each. *)
LEMMA ResumesCounted ==
  ASSUME NEW runs, NEW runs2, NEW others, NEW subs, IsFiniteSet(subs),
         On(runs2) = On(runs) \cup {<<s, current[s] + 1>> : s \in subs},
         On(runs) \cap {<<s, current[s] + 1>> : s \in subs} = {}
  PROVE  Running(runs2, others) = Running(runs, others) + Cardinality(subs)
<1> DEFINE X == {<<s, current[s] + 1>> : s \in subs}
           f == [s \in subs |-> <<s, current[s] + 1>>]
<1>1. f \in [subs -> X] /\ (\A s, t \in subs : f[s] = f[t] => s = t) /\ \A x \in X : \E s \in subs : f[s] = x
  OBVIOUS
<1> HIDE DEF f, X
<1>2. f \in Bijection(subs, X)
  BY <1>1, Fun_IsBij
<1>3. ExistsBijection(subs, X)
  BY <1>2 DEF ExistsBijection
<1>4. IsFiniteSet(X) /\ Cardinality(X) = Cardinality(subs) /\ Cardinality(subs) \in Nat
  BY <1>3, FS_Bijection, FS_CardinalityType
<1>5. On(runs2) = On(runs) \cup X /\ On(runs) \cap X = {}
  BY DEF X
<1>6. Cardinality(On(runs2)) = Cardinality(On(runs)) + Cardinality(X) - Cardinality(On(runs) \cap X)
  BY <1>4, <1>5, SlotsAreCounted, FS_Union
<1>7. Cardinality(On(runs) \cap X) = 0
  BY <1>5, FS_EmptySet
<1>8. Cardinality(On(runs2)) = Cardinality(On(runs)) + Cardinality(subs)
  BY <1>4, <1>6, <1>7, SlotsAreCounted
<1> QED
  BY <1>4, <1>8, SlotsAreCounted

(* A drain keeps the agreement, exceeds no limit and leaves no slot to a waiting resume. *)
LEMMA DrainKeeps ==
  ASSUME SubagentTypeOK,
         NEW runs \in Runs, NEW recs \in Records, NEW hnd \in Handles, NEW others,
         Told(runs, recs, current, hnd, resumeQueue), Running(runs, others) <= MaxRunning,
         DrainResumeQueue(runs, recs, others)
  PROVE  /\ run' \in Runs /\ rec' \in Records /\ current' \in [Subagent -> 0..MaxRuns]
         /\ runOwner' \in [Subagent -> [1..MaxRuns -> Owner \union {NoOwner}]]
         /\ resumeQueue' \in Seq(Subagent)
         /\ Told(run', rec', current', hnd, resumeQueue')
         /\ Running(run', others) <= MaxRunning
         /\ resumeQueue' # <<>> => ~ (Free(run', others) > 0)
<1>1. QueueTells(recs, resumeQueue) /\ RecordTells(runs, recs, current) /\ HandleTells(runs, current, hnd)
  BY DEF Told
<1>2. PICK n \in 0..Len(resumeQueue) :
        /\ resumeQueue' = Rest(resumeQueue, n)
        /\ StartResume(First(resumeQueue, n), runs, recs)
        /\ n = Len(resumeQueue) \/ n >= Free(runs, others)
        /\ n <= Free(runs, others)
  BY <1>1, DrainTakes
<1> DEFINE subs == First(resumeQueue, n)
<1>3. resumeQueue \in Seq(Subagent) /\ Distinct(resumeQueue) /\ n \in Nat
  BY <1>1 DEF SubagentTypeOK, QueueTells
<1>4. /\ resumeQueue' \in Seq(Subagent) /\ Distinct(resumeQueue')
      /\ ToSet(resumeQueue') = ToSet(resumeQueue) \ subs
      /\ subs \subseteq ToSet(resumeQueue) /\ IsFiniteSet(subs) /\ Cardinality(subs) = n
      /\ n = Len(resumeQueue) => resumeQueue' = <<>>
  BY <1>2, <1>3, QueueHalves
<1>5. StartResume(subs, runs, recs)
  BY <1>2
<1> HIDE DEF subs
<1>6. subs \in SUBSET {s \in Subagent : recs[s] \in {"paused", "queued", "ended"} /\ current[s] < MaxRuns}
  BY <1>1, <1>4 DEF QueueTells, RecordTells
<1>7. /\ run' \in Runs /\ rec' \in Records /\ current' \in [Subagent -> 0..MaxRuns]
      /\ runOwner' \in [Subagent -> [1..MaxRuns -> Owner \union {NoOwner}]]
      /\ RecordTells(run', rec', current') /\ HandleTells(run', current', hnd)
      /\ \A s \in Subagent : rec'[s] = IF s \in subs THEN "running" ELSE recs[s]
      /\ On(run') = On(runs) \cup {<<s, current[s] + 1>> : s \in subs}
      /\ On(runs) \cap {<<s, current[s] + 1>> : s \in subs} = {}
  BY <1>1, <1>5, <1>6, ResumeKeeps
<1>8. QueueTells(rec', resumeQueue')
  BY <1>1, <1>4, <1>7 DEF QueueTells
<1>9. Running(run', others) = Running(runs, others) + n
  BY <1>4, <1>7, ResumesCounted
<1>10. /\ Running(runs, others) \in Nat /\ MaxRunning \in Nat
       /\ Free(runs, others) = MaxRunning - Running(runs, others)
       /\ Free(run', others) = MaxRunning - Running(run', others)
  BY SlotsAreCounted
<1>11. Running(run', others) <= MaxRunning
  BY <1>2, <1>3, <1>9, <1>10
<1>12. resumeQueue' # <<>> => ~ (Free(run', others) > 0)
  BY <1>2, <1>3, <1>4, <1>9, <1>10
<1> QED
  BY <1>4, <1>7, <1>8, <1>11, <1>12 DEF Told

(* The end of a run, before the queue is looked at. *)
LEMMA SettleKeeps ==
  ASSUME SubagentTypeOK, Told(run, rec, current, handle, resumeQueue),
         NEW s \in Subagent, NEW k \in 1..MaxRuns, Unsettled(run[s][k]), handle[s] # k,
         NEW st \in {"paused", "ended"}
  PROVE  /\ [run EXCEPT ![s][k] = st] \in Runs /\ MarkRecord(s, k, st) \in Records
         /\ DropHandle(s, k) \in Handles
         /\ Told([run EXCEPT ![s][k] = st], MarkRecord(s, k, st), current, DropHandle(s, k), resumeQueue)
         /\ On([run EXCEPT ![s][k] = st]) \subseteq On(run)
<1> DEFINE runs == [run EXCEPT ![s][k] = st]
           recs == MarkRecord(s, k, st)
           hnd == DropHandle(s, k)
<1>1. run \in Runs /\ rec \in Records /\ handle \in Handles
  BY DEF SubagentTypeOK, Runs, Records, Handles
<1>2. RecordTells(run, rec, current) /\ HandleTells(run, current, handle) /\ QueueTells(rec, resumeQueue)
  BY DEF Told
<1>3. current[s] = k
  BY <1>2 DEF RecordTells
<1>4. rec[s] \in {"none", "running"}
  BY <1>1, <1>2, <1>3 DEF RecordTells, Records, Unsettled
<1>5. /\ runs \in Runs
      /\ \A t \in Subagent, j \in 1..MaxRuns : runs[t][j] = IF t = s /\ j = k THEN st ELSE run[t][j]
  BY <1>1 DEF Runs, JobStatus
<1>6. /\ recs \in Records
      /\ \A t \in Subagent : recs[t] = IF t = s /\ rec[s] # "none" THEN st ELSE rec[t]
  BY <1>1, <1>3 DEF Records, MarkRecord, Recorded
<1>7. /\ hnd \in Handles
      /\ \A t \in Subagent : hnd[t] = IF t = s /\ rec[s] # "none" THEN 0 ELSE handle[t]
  <2>1. 0 \in 0..MaxRuns
    BY ParameterTypes
  <2> QED
    BY <1>1, <1>3, <2>1 DEF Handles, DropHandle, Recorded
<1> HIDE DEF runs, recs, hnd
<1>8. handle[s] = 0
  BY <1>2, <1>3 DEF HandleTells
<1>9. \A j \in 1..MaxRuns : ~ Unsettled(runs[s][j])
  BY <1>2, <1>3, <1>5 DEF RecordTells, Unsettled
<1>10. RecordTells(runs, recs, current)
  <2> SUFFICES ASSUME NEW t \in Subagent
               PROVE  /\ \A j \in 1..MaxRuns : Unsettled(runs[t][j]) => j = current[t]
                      /\ recs[t] # "none" => current[t] # 0
                      /\ recs[t] = "running" => Unsettled(runs[t][current[t]])
                      /\ recs[t] = "paused" => runs[t][current[t]] = "paused"
                      /\ recs[t] \in {"queued", "ended"} => \A j \in 1..MaxRuns : ~Unsettled(runs[t][j])
                      /\ recs[t] = "queued" => current[t] < MaxRuns
    BY DEF RecordTells
  <2>1. CASE t = s
    <3>1. recs[t] = "none" \/ recs[t] = st
      BY <1>6, <2>1
    <3>2. runs[t][current[t]] = st /\ current[t] # 0
      BY <1>3, <1>5, <2>1
    <3> QED
      BY <1>9, <2>1, <3>1, <3>2
  <2>2. CASE t # s
    <3>1. current[t] \in 0..MaxRuns
      BY DEF SubagentTypeOK
    <3>2. recs[t] = rec[t] /\ \A j \in 1..MaxRuns : runs[t][j] = run[t][j]
      BY <1>5, <1>6, <2>2
    <3>3. rec[t] # "none" => current[t] \in 1..MaxRuns
      BY <1>2, <3>1, ParameterTypes DEF RecordTells
    <3> QED
      BY <1>2, <3>2, <3>3 DEF RecordTells
  <2> QED
    BY <2>1, <2>2
<1>11. HandleTells(runs, current, hnd)
  <2> SUFFICES ASSUME NEW t \in Subagent, hnd[t] # 0 PROVE hnd[t] = current[t] /\ Unsettled(runs[t][hnd[t]])
    BY DEF HandleTells
  <2>1. t # s /\ hnd[t] = handle[t]
    BY <1>7, <1>8
  <2>2. handle[t] \in 1..MaxRuns
    BY <1>1, <2>1, ParameterTypes DEF Handles
  <2> QED
    BY <1>2, <1>5, <2>1, <2>2 DEF HandleTells
<1>12. QueueTells(recs, resumeQueue)
  <2>1. \A t \in Subagent : recs[t] = "queued" <=> rec[t] = "queued"
    BY <1>4, <1>6
  <2> QED
    BY <1>2, <2>1 DEF QueueTells
<1>13. On(runs) \subseteq On(run)
  <2> SUFFICES ASSUME NEW t \in Subagent, NEW j \in 1..MaxRuns, runs[t][j] = "running"
               PROVE  run[t][j] = "running"
    BY DEF On
  <2> QED
    BY <1>5
<1> QED
  BY <1>5, <1>6, <1>7, <1>10, <1>11, <1>12, <1>13 DEF Told, runs, recs, hnd

-----------------------------------------------------------------------------
(* The parts of the invariant, and what a step has to keep of the slots. *)
Cancelling(runs, others) ==
  \/ \E s \in Subagent, k \in 1..MaxRuns : runs[s][k] = "cancelling"
  \/ \E b \in Bash : others[b] = "cancelling"

LEMMA Held ==
  ASSUME SubagentsInv
  PROVE  /\ SubagentTypeOK /\ run \in Runs /\ rec \in Records /\ handle \in Handles /\ bash \in Others
         /\ current \in [Subagent -> 0..MaxRuns]
         /\ RecordTells(run, rec, current) /\ HandleTells(run, current, handle) /\ QueueTells(rec, resumeQueue)
         /\ Told(run, rec, current, handle, resumeQueue)
         /\ SlotsInv /\ Running(run, bash) <= MaxRunning
BY DEF SubagentsInv, SubagentTypeOK, Runs, Records, Handles, Others, Told, SlotsInv, WithinLimit

LEMMA SlotsKept ==
  ASSUME SlotsInv, Running(run', bash') <= MaxRunning,
         \/ resumeQueue' # <<>> => ~ (Free(run', bash') > 0)
         \/ Cancelling(run', bash')
         \/ /\ resumeQueue' # <<>> => resumeQueue # <<>>
            /\ Running(run, bash) <= Running(run', bash')
            /\ Cancelling(run, bash) => Cancelling(run', bash')
  PROVE  SlotsInv'
<1>1. WithinLimit'
  BY DEF WithinLimit
<1>2. resumeQueue # <<>> /\ Free(run, bash) > 0 => Cancelling(run, bash)
  BY DEF SlotsInv, SlotsNotIdle, Cancelling
<1>3. /\ Free(run, bash) = MaxRunning - Running(run, bash) /\ Running(run, bash) \in Nat
      /\ Free(run', bash') = MaxRunning - Running(run', bash') /\ Running(run', bash') \in Nat
      /\ MaxRunning \in Nat
  BY SlotsAreCounted
<1>4. Running(run, bash) <= Running(run', bash') /\ Free(run', bash') > 0 => Free(run, bash) > 0
  BY <1>3
<1>5. resumeQueue' # <<>> /\ Free(run', bash') > 0 => Cancelling(run', bash')
  BY <1>2, <1>4
<1>6. SlotsNotIdle'
  BY <1>5 DEF SlotsNotIdle, Cancelling
<1> QED
  BY <1>1, <1>6 DEF SlotsInv

(* A step that leaves jobs and queue alone keeps the slots as they are. *)
LEMMA SlotsSame ==
  ASSUME SubagentsInv, UNCHANGED <<run, bash, resumeQueue>>
  PROVE  SlotsInv'
<1>1. run' = run /\ bash' = bash /\ resumeQueue' = resumeQueue
  OBVIOUS
<1>2. Running(run', bash') = Running(run, bash)
  BY <1>1
<1>3. Running(run, bash) <= MaxRunning /\ SlotsInv
  BY Held
<1>4. Running(run, bash) \in Nat
  BY SlotsAreCounted
<1>5. Cancelling(run, bash) => Cancelling(run', bash')
  BY <1>1
<1> QED
  BY <1>1, <1>2, <1>3, <1>4, <1>5, SlotsKept

LEMMA InitSubagents == ASSUME SubagentInit PROVE SubagentsInv
<1>1. MaxRuns \in Nat \ {0} /\ MaxRunning \in Nat \ {0} /\ NoOwner \notin Owner
  BY ParameterTypes
<1>2. /\ run = [s \in Subagent |-> [k \in 1..MaxRuns |-> "none"]]
      /\ rec = [s \in Subagent |-> "none"] /\ current = [s \in Subagent |-> 0]
      /\ handle = [s \in Subagent |-> 0] /\ resumeQueue = <<>> /\ bash = [b \in Bash |-> "none"]
  BY DEF SubagentInit
<1>3. SubagentTypeOK
  BY <1>1 DEF SubagentInit, SubagentTypeOK, JobStatus
<1>4. RecordTells(run, rec, current) /\ HandleTells(run, current, handle)
  BY <1>2 DEF RecordTells, HandleTells, Unsettled
<1>5. QueueTells(rec, resumeQueue)
  BY <1>2 DEF QueueTells, Distinct, ToSet
<1>6. On(run) = {} /\ OthersOn(bash) = {}
  BY <1>2 DEF On, OthersOn
<1>7. Running(run, bash) = 0
  BY <1>6, SlotsAreCounted, FS_EmptySet
<1>8. SlotsInv
  BY <1>1, <1>2, <1>7 DEF SlotsInv, WithinLimit, SlotsNotIdle
<1> QED
  BY <1>3, <1>4, <1>5, <1>8 DEF SubagentsInv, Told

(* The steps that leave jobs, records and queue alone. *)
LEMMA RunnerStep ==
  ASSUME SubagentsInv, NEW o \in Owner, SetResumeRunner(o)
  PROVE  SubagentsInv'
<1>1. UNCHANGED <<run, runOwner, rec, current, handle, begun, asked, resumeQueue, bash>> /\ runner' = o
  BY DEF SetResumeRunner
<1>2. SubagentTypeOK'
  BY <1>1, Held DEF SubagentTypeOK
<1>3. Told(run', rec', current', handle', resumeQueue')
  BY <1>1, Held
<1>4. SlotsInv'
  BY <1>1, SlotsSame
<1> QED
  BY <1>2, <1>3, <1>4 DEF SubagentsInv

LEMMA HandleStep ==
  ASSUME SubagentsInv, NEW s \in Subagent, NEW k \in 1..MaxRuns,
         RegisterLiveHandle(s, k) \/ RemoveLiveHandle(s, k)
  PROVE  SubagentsInv'
<1>1. /\ UNCHANGED <<run, runOwner, rec, current, asked, resumeQueue, runner, bash>>
      /\ Unsettled(run[s][k]) /\ begun' \in {begun, begun \union {<<s, k>>}}
      /\ \E h \in {0, k} : handle' = [handle EXCEPT ![s] = h]
  BY DEF RegisterLiveHandle, RemoveLiveHandle
<1>2. PICK h \in {0, k} : handle' = [handle EXCEPT ![s] = h]
  BY <1>1
<1>3. handle \in Handles /\ MaxRuns \in Nat
  BY Held, ParameterTypes
<1>4. handle' \in Handles /\ \A t \in Subagent : handle'[t] = IF t = s THEN h ELSE handle[t]
  BY <1>2, <1>3 DEF Handles
<1>5. SubagentTypeOK'
  BY <1>1, <1>4, Held DEF SubagentTypeOK, Handles
<1>6. k = current[s]
  BY <1>1, Held DEF RecordTells
<1>7. HandleTells(run', current', handle')
  BY <1>1, <1>4, <1>6, Held DEF HandleTells
<1>8. SlotsInv'
  BY <1>1, SlotsSame
<1>9. RecordTells(run', rec', current') /\ QueueTells(rec', resumeQueue')
  BY <1>1, Held
<1> QED
  BY <1>5, <1>7, <1>8, <1>9 DEF SubagentsInv, Told

LEMMA PauseStep ==
  ASSUME SubagentsInv, NEW s \in Subagent, PauseSubagent(s)
  PROVE  SubagentsInv'
<1>1. /\ UNCHANGED <<run, runOwner, rec, current, handle, begun, resumeQueue, runner, bash>>
      /\ asked' = asked \union {<<s, handle[s]>>} /\ handle[s] # 0
  BY DEF PauseSubagent
<1>2. handle[s] \in 1..MaxRuns
  BY <1>1, Held, ParameterTypes DEF Handles
<1>3. SubagentTypeOK'
  BY <1>1, <1>2, Held DEF SubagentTypeOK
<1>4. Told(run', rec', current', handle', resumeQueue')
  BY <1>1, Held
<1>5. SlotsInv'
  BY <1>1, SlotsSame
<1> QED
  BY <1>3, <1>4, <1>5 DEF SubagentsInv

(* The steps that end in a look at the queue. *)
LEMMA DrainStep ==
  ASSUME SubagentsInv,
         NEW runs \in Runs, NEW recs \in Records, NEW hnd \in Handles, NEW others \in Others,
         Told(runs, recs, current, hnd, resumeQueue),
         On(runs) \subseteq On(run), OthersOn(others) \subseteq OthersOn(bash),
         DrainResumeQueue(runs, recs, others), handle' = hnd, bash' = others,
         UNCHANGED <<begun, asked, runner>>
  PROVE  SubagentsInv'
<1>1. SubagentTypeOK /\ SlotsInv /\ Running(run, bash) <= MaxRunning
  BY Held
<1>2. Running(runs, others) <= MaxRunning
  BY <1>1, SlotsFreed, SlotsAreCounted
<1>3. /\ run' \in Runs /\ rec' \in Records /\ current' \in [Subagent -> 0..MaxRuns]
      /\ runOwner' \in [Subagent -> [1..MaxRuns -> Owner \union {NoOwner}]]
      /\ resumeQueue' \in Seq(Subagent)
      /\ Told(run', rec', current', hnd, resumeQueue')
      /\ Running(run', others) <= MaxRunning
      /\ resumeQueue' # <<>> => ~ (Free(run', others) > 0)
  BY <1>1, <1>2, DrainKeeps
<1>4. SubagentTypeOK'
  BY <1>1, <1>3 DEF SubagentTypeOK, Runs, Records, Handles, Others
<1>5. SlotsInv'
  BY <1>1, <1>3, SlotsKept
<1> QED
  BY <1>3, <1>4, <1>5 DEF SubagentsInv

LEMMA SettleStep ==
  ASSUME SubagentsInv, NEW s \in Subagent, NEW k \in 1..MaxRuns, SettleRun(s, k)
  PROVE  SubagentsInv'
<1>1. PICK st \in {"paused", "ended"} :
        /\ Unsettled(run[s][k]) /\ handle[s] # k
        /\ DrainResumeQueue([run EXCEPT ![s][k] = st], MarkRecord(s, k, st), bash)
        /\ handle' = DropHandle(s, k)
        /\ UNCHANGED <<begun, asked, runner, bash>>
  BY DEF SettleRun, SettlePausedRun, SettleCompletedRun, SettleCancelledRun, Unsettled
<1>2. SubagentTypeOK /\ Told(run, rec, current, handle, resumeQueue) /\ bash \in Others
  BY Held
<1>3. /\ [run EXCEPT ![s][k] = st] \in Runs /\ MarkRecord(s, k, st) \in Records
      /\ DropHandle(s, k) \in Handles
      /\ Told([run EXCEPT ![s][k] = st], MarkRecord(s, k, st), current, DropHandle(s, k), resumeQueue)
      /\ On([run EXCEPT ![s][k] = st]) \subseteq On(run)
  BY <1>1, <1>2, SettleKeeps
<1> QED
  BY <1>1, <1>2, <1>3, DrainStep

LEMMA BashSettleStep ==
  ASSUME SubagentsInv, NEW b \in Bash, BashSettle(b)
  PROVE  SubagentsInv'
<1>1. /\ bash' = [bash EXCEPT ![b] = "ended"] /\ DrainResumeQueue(run, rec, bash')
      /\ UNCHANGED <<handle, begun, asked, runner>>
  BY DEF BashSettle
<1>2. /\ run \in Runs /\ rec \in Records /\ handle \in Handles /\ bash \in Others
      /\ Told(run, rec, current, handle, resumeQueue)
  BY Held
<1>3. bash' \in Others /\ OthersOn(bash') \subseteq OthersOn(bash)
  BY <1>1, <1>2 DEF Others, OthersOn
<1>4. On(run) \subseteq On(run)
  OBVIOUS
<1> QED
  BY <1>1, <1>2, <1>3, <1>4, DrainStep

(* The steps that start a job. *)
LEMMA LaunchStep ==
  ASSUME SubagentsInv, NEW s \in Subagent, Launch(s)
  PROVE  SubagentsInv'
<1>1. /\ current[s] = 0 /\ Free(run, bash) > 0
      /\ run' = [run EXCEPT ![s][1] = "running"] /\ runOwner' = [runOwner EXCEPT ![s][1] = LauncherOf[s]]
      /\ current' = [current EXCEPT ![s] = 1] /\ rec' = [rec EXCEPT ![s] = "running"]
      /\ UNCHANGED <<handle, begun, asked, resumeQueue, runner, bash>>
  BY DEF Launch
<1>2. /\ run \in Runs /\ rec \in Records /\ current \in [Subagent -> 0..MaxRuns]
      /\ 1 \in 1..MaxRuns /\ LauncherOf[s] \in Owner
  BY Held, ParameterTypes
<1>3. run' \in Runs /\ \A t \in Subagent, k \in 1..MaxRuns :
                          run'[t][k] = IF t = s /\ k = 1 THEN "running" ELSE run[t][k]
  BY <1>1, <1>2 DEF Runs, JobStatus
<1>4. rec' \in Records /\ \A t \in Subagent : rec'[t] = IF t = s THEN "running" ELSE rec[t]
  BY <1>1, <1>2 DEF Records
<1>5. /\ current' \in [Subagent -> 0..MaxRuns]
      /\ \A t \in Subagent : current'[t] = IF t = s THEN 1 ELSE current[t]
  BY <1>1, <1>2
<1>6. rec[s] = "none" /\ handle[s] = 0 /\ \A k \in 1..MaxRuns : ~ Unsettled(run[s][k])
  <2>1. \A k \in 1..MaxRuns : k # 0
    OBVIOUS
  <2>2. handle[s] # 0 => handle[s] = 0
    BY <1>1, Held DEF HandleTells
  <2> QED
    BY <1>1, <2>1, <2>2, Held DEF RecordTells
<1>7. SubagentTypeOK'
  <2>1. runOwner' \in [Subagent -> [1..MaxRuns -> Owner \union {NoOwner}]]
    BY <1>1, <1>2, Held DEF SubagentTypeOK
  <2> QED
    BY <1>1, <1>3, <1>4, <1>5, <2>1, Held DEF SubagentTypeOK, Runs, Records
<1>8. RecordTells(run', rec', current')
  <2> SUFFICES ASSUME NEW t \in Subagent
               PROVE  /\ \A k \in 1..MaxRuns : Unsettled(run'[t][k]) => k = current'[t]
                      /\ rec'[t] # "none" => current'[t] # 0
                      /\ rec'[t] = "running" => Unsettled(run'[t][current'[t]])
                      /\ rec'[t] = "paused" => run'[t][current'[t]] = "paused"
                      /\ rec'[t] \in {"queued", "ended"} => \A k \in 1..MaxRuns : ~Unsettled(run'[t][k])
                      /\ rec'[t] = "queued" => current'[t] < MaxRuns
    BY DEF RecordTells
  <2>1. CASE t = s
    BY <1>2, <1>3, <1>4, <1>5, <1>6, <2>1 DEF Unsettled
  <2>2. CASE t # s
    <3>1. run'[t] = run[t] /\ rec'[t] = rec[t] /\ current'[t] = current[t]
      BY <1>1, <1>2, <2>2 DEF Runs, Records
    <3> QED
      BY <3>1, Held DEF RecordTells
  <2> QED
    BY <2>1, <2>2
<1>9. HandleTells(run', current', handle')
  <2> SUFFICES ASSUME NEW t \in Subagent, handle[t] # 0
               PROVE  handle[t] = current'[t] /\ Unsettled(run'[t][handle[t]])
    BY <1>1 DEF HandleTells
  <2>1. t # s
    BY <1>6
  <2>2. run'[t] = run[t] /\ current'[t] = current[t]
    BY <1>1, <1>2, <2>1 DEF Runs
  <2> QED
    BY <2>2, Held DEF HandleTells
<1>10. QueueTells(rec', resumeQueue')
  <2>1. \A t \in Subagent : rec'[t] = "queued" <=> rec[t] = "queued"
    BY <1>4, <1>6
  <2> QED
    BY <1>1, <2>1, Held DEF QueueTells
<1>11. SlotsInv'
  <2>1. \A t \in Subagent, k \in 1..MaxRuns : run[t][k] \in {"running", "cancelling"} => run'[t][k] = run[t][k]
    BY <1>3, <1>6 DEF Unsettled
  <2>2. On(run) \subseteq On(run') /\ On(run') \subseteq On(run) \cup {<<s, 1>>}
    <3>1. On(run) \subseteq On(run')
      BY <2>1 DEF On
    <3>2. ASSUME NEW p \in On(run'), p # <<s, 1>> PROVE p \in On(run)
      <4>1. PICK t \in Subagent, k \in 1..MaxRuns : p = <<t, k>> /\ run'[t][k] = "running"
        BY DEF On
      <4>2. run[t][k] = "running"
        BY <1>3, <3>2, <4>1
      <4> QED
        BY <4>1, <4>2 DEF On
    <3> QED
      BY <3>1, <3>2
  <2>3. bash' = bash /\ OthersOn(bash) \subseteq OthersOn(bash)
    BY <1>1
  <2>4. Running(run, bash) <= Running(run', bash')
    BY <2>2, <2>3, SlotsFreed
  <2>5. Running(run', bash') <= Running(run, bash) + 1
    BY <2>2, <2>3, SlotTaken
  <2>6. Running(run', bash') <= MaxRunning
    BY <1>1, <2>5, SlotsAreCounted
  <2>7. Cancelling(run, bash) => Cancelling(run', bash')
    BY <2>1, <2>3 DEF Cancelling
  <2> QED
    BY <1>1, <2>4, <2>6, <2>7, Held, SlotsKept
<1> QED
  BY <1>7, <1>8, <1>9, <1>10, <1>11 DEF SubagentsInv, Told

LEMMA ResumeNowStep ==
  ASSUME SubagentsInv, NEW s \in Subagent, ResumeNow(s)
  PROVE  SubagentsInv'
<1>1. /\ rec[s] \in {"paused", "ended"} /\ current[s] < MaxRuns /\ Free(run, bash) > 0
      /\ StartResume({s}, run, rec) /\ UNCHANGED <<handle, begun, asked, resumeQueue, runner, bash>>
  BY DEF ResumeNow, Resumable
<1>2. {s} \in SUBSET {t \in Subagent : rec[t] \in {"paused", "queued", "ended"} /\ current[t] < MaxRuns}
  BY <1>1
<1>3. /\ run' \in Runs /\ rec' \in Records /\ current' \in [Subagent -> 0..MaxRuns]
      /\ runOwner' \in [Subagent -> [1..MaxRuns -> Owner \union {NoOwner}]]
      /\ RecordTells(run', rec', current') /\ HandleTells(run', current', handle)
      /\ \A t \in Subagent : rec'[t] = IF t \in {s} THEN "running" ELSE rec[t]
      /\ On(run') = On(run) \cup {<<t, current[t] + 1>> : t \in {s}}
      /\ On(run) \cap {<<t, current[t] + 1>> : t \in {s}} = {}
      /\ \A t \in Subagent, k \in 1..MaxRuns : run[t][k] = "cancelling" => run'[t][k] = "cancelling"
  BY <1>1, <1>2, Held, ResumeKeeps
<1>4. SubagentTypeOK'
  BY <1>1, <1>3, Held DEF SubagentTypeOK, Runs, Records
<1>5. QueueTells(rec', resumeQueue')
  <2>1. \A t \in Subagent : rec'[t] = "queued" <=> rec[t] = "queued"
    BY <1>1, <1>3
  <2> QED
    BY <1>1, <2>1, Held DEF QueueTells
<1>6. SlotsInv'
  <2>1. bash' = bash /\ resumeQueue' = resumeQueue
    BY <1>1
  <2>2. IsFiniteSet({s}) /\ Cardinality({s}) = 1
    BY FS_Singleton
  <2>3. Running(run', bash') = Running(run, bash) + 1
    BY <1>3, <2>1, <2>2, ResumesCounted
  <2>4. Running(run, bash) <= Running(run', bash') /\ Running(run', bash') <= MaxRunning
    BY <1>1, <2>3, SlotsAreCounted
  <2>5. Cancelling(run, bash) => Cancelling(run', bash')
    BY <1>3, <2>1 DEF Cancelling
  <2> QED
    BY <2>1, <2>4, <2>5, Held, SlotsKept
<1> QED
  BY <1>1, <1>3, <1>4, <1>5, <1>6 DEF SubagentsInv, Told

LEMMA BashStep ==
  ASSUME SubagentsInv, NEW b \in Bash, BashStart(b) \/ BashCancel(b)
  PROVE  SubagentsInv'
<1>1. UNCHANGED <<run, runOwner, rec, current, handle, begun, asked, resumeQueue, runner>>
  BY DEF BashStart, BashCancel
<1>2. bash \in Others
  BY Held
<1>3. bash' \in Others
  BY <1>2 DEF BashStart, BashCancel, Others
<1>4. SubagentTypeOK'
  BY <1>1, <1>3, Held DEF SubagentTypeOK, Others
<1>5. Told(run', rec', current', handle', resumeQueue')
  BY <1>1, Held
<1>6. SlotsInv'
  <2>1. On(run') = On(run) /\ run' = run
    BY <1>1
  <2>2. CASE BashStart(b)
    <3>1. OthersOn(bash) \subseteq OthersOn(bash') /\ OthersOn(bash') \subseteq OthersOn(bash) \cup {b}
      BY <1>2, <2>2 DEF BashStart, Others, OthersOn
    <3>2. Running(run, bash) <= Running(run', bash')
      BY <2>1, <3>1, SlotsFreed
    <3>3. Running(run', bash') <= Running(run, bash) + 1
      BY <2>1, <3>1, SlotTaken
    <3>4. Running(run', bash') <= MaxRunning
      BY <2>2, <3>3, SlotsAreCounted DEF BashStart
    <3>5. Cancelling(run, bash) => Cancelling(run', bash')
      BY <1>2, <2>1, <2>2 DEF BashStart, Cancelling, Others
    <3> QED
      BY <1>1, <3>2, <3>4, <3>5, Held, SlotsKept
  <2>3. CASE BashCancel(b)
    <3>1. OthersOn(bash') \subseteq OthersOn(bash)
      BY <1>2, <2>3 DEF BashCancel, Others, OthersOn
    <3>2. Running(run', bash') <= MaxRunning
      BY <2>1, <3>1, SlotsFreed, SlotsAreCounted, Held
    <3>3. Cancelling(run', bash')
      BY <1>2, <2>3 DEF BashCancel, Cancelling, Others
    <3> QED
      BY <3>2, <3>3, Held, SlotsKept
  <2> QED
    BY <2>2, <2>3
<1> QED
  BY <1>4, <1>5, <1>6 DEF SubagentsInv

(* The steps of a record that wait for no slot and free none. *)
LEMMA ResumeQueuedStep ==
  ASSUME SubagentsInv, NEW s \in Subagent, ResumeQueued(s)
  PROVE  SubagentsInv'
<1>1. /\ rec[s] \in {"paused", "ended"} /\ current[s] < MaxRuns /\ ~ (Free(run, bash) > 0)
      /\ rec' = [rec EXCEPT ![s] = "queued"] /\ resumeQueue' = Append(resumeQueue, s)
      /\ UNCHANGED <<run, runOwner, current, handle, begun, asked, runner, bash>>
  <2>1. Free(run, bash) <= 0 => ~ (Free(run, bash) > 0)
    BY SlotsAreCounted
  <2> QED
    BY <2>1 DEF ResumeQueued, Resumable
<1>2. rec \in Records /\ resumeQueue \in Seq(Subagent) /\ QueueTells(rec, resumeQueue)
  BY Held DEF SubagentTypeOK
<1>3. rec' \in Records /\ \A t \in Subagent : rec'[t] = IF t = s THEN "queued" ELSE rec[t]
  BY <1>1, <1>2 DEF Records
<1>4. Distinct(resumeQueue) /\ s \notin ToSet(resumeQueue)
  BY <1>1, <1>2 DEF QueueTells
<1>5. /\ resumeQueue' \in Seq(Subagent) /\ Distinct(resumeQueue')
      /\ ToSet(resumeQueue') = ToSet(resumeQueue) \union {s}
  BY <1>1, <1>2, <1>4, WithNewLast
<1>6. SubagentTypeOK'
  BY <1>1, <1>3, <1>5, Held DEF SubagentTypeOK, Records
<1>7. QueueTells(rec', resumeQueue')
  BY <1>2, <1>3, <1>5 DEF QueueTells
<1>8. \A k \in 1..MaxRuns : ~ Unsettled(run[s][k])
  <2>1. RecordTells(run, rec, current)
    BY Held
  <2>2. rec[s] = "paused" => ~ Unsettled(run[s][current[s]])
    BY <2>1 DEF RecordTells, Unsettled
  <2> QED
    BY <1>1, <2>1, <2>2 DEF RecordTells
<1>9. current[s] # 0
  BY <1>1, Held DEF RecordTells
<1>10. RecordTells(run', rec', current')
  BY <1>1, <1>3, <1>8, <1>9, Held DEF RecordTells
<1>11. HandleTells(run', current', handle')
  BY <1>1, Held
<1>12. SlotsInv'
  <2>1. run' = run /\ bash' = bash
    BY <1>1
  <2>2. ~ (Free(run', bash') > 0) /\ Running(run', bash') <= MaxRunning
    BY <1>1, <2>1, Held
  <2> QED
    BY <2>2, Held, SlotsKept
<1> QED
  BY <1>6, <1>7, <1>10, <1>11, <1>12 DEF SubagentsInv, Told

LEMMA CancelQueuedStep ==
  ASSUME SubagentsInv, NEW s \in Subagent, CancelQueued(s)
  PROVE  SubagentsInv'
<1>1. /\ rec[s] = "queued" /\ rec' = [rec EXCEPT ![s] = "ended"]
      /\ resumeQueue' = RemoveFirst(resumeQueue, s)
      /\ UNCHANGED <<run, runOwner, current, handle, begun, asked, runner, bash>>
  BY DEF CancelQueued
<1>2. rec \in Records /\ resumeQueue \in Seq(Subagent) /\ QueueTells(rec, resumeQueue)
  BY Held DEF SubagentTypeOK
<1>3. rec' \in Records /\ \A t \in Subagent : rec'[t] = IF t = s THEN "ended" ELSE rec[t]
  BY <1>1, <1>2 DEF Records
<1>4. Distinct(resumeQueue) /\ s \in ToSet(resumeQueue)
  BY <1>1, <1>2 DEF QueueTells
<1>5. /\ resumeQueue' \in Seq(Subagent) /\ Distinct(resumeQueue')
      /\ ToSet(resumeQueue') = ToSet(resumeQueue) \ {s}
  BY <1>1, <1>2, <1>4, TakenOut
<1>6. SubagentTypeOK'
  BY <1>1, <1>3, <1>5, Held DEF SubagentTypeOK, Records
<1>7. QueueTells(rec', resumeQueue')
  BY <1>2, <1>3, <1>5 DEF QueueTells
<1>8. RecordTells(run', rec', current')
  BY <1>1, <1>3, Held DEF RecordTells
<1>9. HandleTells(run', current', handle')
  BY <1>1, Held
<1>10. SlotsInv'
  <2>1. run' = run /\ bash' = bash /\ resumeQueue # <<>>
    BY <1>1, <1>4 DEF ToSet
  <2>2. Running(run', bash') = Running(run, bash) /\ Running(run, bash) \in Nat
    BY <2>1, SlotsAreCounted
  <2>3. Cancelling(run, bash) => Cancelling(run', bash')
    BY <2>1
  <2> QED
    BY <2>1, <2>2, <2>3, Held, SlotsKept
<1> QED
  BY <1>6, <1>7, <1>8, <1>9, <1>10 DEF SubagentsInv, Told

LEMMA CancelPausedStep ==
  ASSUME SubagentsInv, NEW s \in Subagent, CancelPaused(s)
  PROVE  SubagentsInv'
<1> DEFINE k == current[s]
           runs == [run EXCEPT ![s][k] = "ended"]
           recs == [rec EXCEPT ![s] = "ended"]
           hnd == [handle EXCEPT ![s] = 0]
<1>1. /\ run \in Runs /\ rec \in Records /\ handle \in Handles /\ bash \in Others
      /\ RecordTells(run, rec, current) /\ HandleTells(run, current, handle) /\ QueueTells(rec, resumeQueue)
  BY Held
<1>2. rec[s] = "paused" /\ run[s][k] = "paused" /\ k \in 1..MaxRuns
  <2>1. rec[s] = "paused" /\ k \in 0..MaxRuns /\ MaxRuns \in Nat
    BY Held, ParameterTypes DEF CancelPaused
  <2> QED
    BY <1>1, <2>1 DEF RecordTells
<1>3. /\ runs \in Runs
      /\ \A t \in Subagent, j \in 1..MaxRuns : runs[t][j] = IF t = s /\ j = k THEN "ended" ELSE run[t][j]
  BY <1>1, <1>2 DEF Runs, JobStatus
<1>4. recs \in Records /\ \A t \in Subagent : recs[t] = IF t = s THEN "ended" ELSE rec[t]
  BY <1>1 DEF Records
<1>5. hnd \in Handles /\ \A t \in Subagent : hnd[t] = IF t = s THEN 0 ELSE handle[t]
  BY <1>1, ParameterTypes DEF Handles
<1>6. /\ DrainResumeQueue(runs, recs, bash) /\ handle' = hnd
      /\ UNCHANGED <<begun, asked, runner, bash>>
  <2>1. [run EXCEPT ![s][k] = IF @ = "paused" THEN "ended" ELSE @] = runs
    BY <1>1, <1>2 DEF Runs
  <2> QED
    BY <2>1 DEF CancelPaused
<1> HIDE DEF runs, recs, hnd
<1>7. \A t \in Subagent, j \in 1..MaxRuns : Unsettled(runs[t][j]) => Unsettled(run[t][j])
  BY <1>3 DEF Unsettled
<1>8. \A j \in 1..MaxRuns : ~ Unsettled(run[s][j])
  BY <1>1, <1>2 DEF RecordTells, Unsettled
<1>9. RecordTells(runs, recs, current)
  <2> SUFFICES ASSUME NEW t \in Subagent
               PROVE  /\ \A j \in 1..MaxRuns : Unsettled(runs[t][j]) => j = current[t]
                      /\ recs[t] # "none" => current[t] # 0
                      /\ recs[t] = "running" => Unsettled(runs[t][current[t]])
                      /\ recs[t] = "paused" => runs[t][current[t]] = "paused"
                      /\ recs[t] \in {"queued", "ended"} => \A j \in 1..MaxRuns : ~Unsettled(runs[t][j])
                      /\ recs[t] = "queued" => current[t] < MaxRuns
    BY DEF RecordTells
  <2>1. CASE t = s
    <3>1. recs[t] = "ended" /\ current[t] # 0
      BY <1>2, <1>4, <2>1
    <3> QED
      BY <1>7, <1>8, <2>1, <3>1
  <2>2. CASE t # s
    <3>1. current[t] \in 0..MaxRuns
      BY Held
    <3>2. recs[t] = rec[t] /\ \A j \in 1..MaxRuns : runs[t][j] = run[t][j]
      BY <1>3, <1>4, <2>2
    <3>3. rec[t] # "none" => current[t] \in 1..MaxRuns
      BY <1>1, <3>1, ParameterTypes DEF RecordTells
    <3> QED
      BY <1>1, <3>2, <3>3 DEF RecordTells
  <2> QED
    BY <2>1, <2>2
<1>10. HandleTells(runs, current, hnd)
  <2> SUFFICES ASSUME NEW t \in Subagent, hnd[t] # 0 PROVE hnd[t] = current[t] /\ Unsettled(runs[t][hnd[t]])
    BY DEF HandleTells
  <2>1. t # s /\ hnd[t] = handle[t]
    BY <1>5
  <2>2. handle[t] \in 1..MaxRuns
    BY <1>1, <2>1, ParameterTypes DEF Handles
  <2> QED
    BY <1>1, <1>3, <2>1, <2>2 DEF HandleTells
<1>11. QueueTells(recs, resumeQueue)
  <2>1. \A t \in Subagent : recs[t] = "queued" <=> rec[t] = "queued"
    BY <1>2, <1>4
  <2> QED
    BY <1>1, <2>1 DEF QueueTells
<1>12. On(runs) \subseteq On(run)
  <2> SUFFICES ASSUME NEW t \in Subagent, NEW j \in 1..MaxRuns, runs[t][j] = "running"
               PROVE  run[t][j] = "running"
    BY DEF On
  <2> QED
    BY <1>3
<1>13. Told(runs, recs, current, hnd, resumeQueue)
  BY <1>9, <1>10, <1>11 DEF Told
<1>14. OthersOn(bash) \subseteq OthersOn(bash) /\ bash' = bash /\ UNCHANGED <<begun, asked, runner>>
  BY <1>6
<1> QED
  BY <1>1, <1>3, <1>4, <1>5, <1>6, <1>12, <1>13, <1>14, DrainStep

LEMMA CancelRunningStep ==
  ASSUME SubagentsInv, NEW s \in Subagent, CancelRunning(s)
  PROVE  SubagentsInv'
<1> DEFINE k == current[s]
<1>1. /\ rec[s] = "running" /\ run[s][k] = "running" /\ run' = [run EXCEPT ![s][k] = "cancelling"]
      /\ UNCHANGED <<runOwner, rec, current, handle, begun, asked, resumeQueue, runner, bash>>
  BY DEF CancelRunning
<1>2. /\ run \in Runs /\ handle \in Handles
      /\ RecordTells(run, rec, current) /\ HandleTells(run, current, handle) /\ QueueTells(rec, resumeQueue)
  BY Held
<1>3. k \in 1..MaxRuns
  <2>1. k \in 0..MaxRuns /\ MaxRuns \in Nat
    BY Held, ParameterTypes
  <2> QED
    BY <1>1, <1>2, <2>1 DEF RecordTells
<1>4. /\ run' \in Runs
      /\ \A t \in Subagent, j \in 1..MaxRuns : run'[t][j] = IF t = s /\ j = k THEN "cancelling" ELSE run[t][j]
  BY <1>1, <1>2, <1>3 DEF Runs, JobStatus
<1> HIDE DEF k
<1>5. \A t \in Subagent, j \in 1..MaxRuns :
        /\ Unsettled(run'[t][j]) <=> Unsettled(run[t][j])
        /\ run'[t][j] = "paused" <=> run[t][j] = "paused"
        /\ run'[t][j] = "running" => run[t][j] = "running"
  BY <1>1, <1>4 DEF Unsettled
<1>6. \A t \in Subagent : rec[t] # "none" => current[t] \in 1..MaxRuns
  BY <1>2, Held, ParameterTypes DEF RecordTells
<1>7. SubagentTypeOK'
  BY <1>1, <1>4, Held DEF SubagentTypeOK, Runs
<1>8. RecordTells(run', rec', current')
  BY <1>1, <1>2, <1>5, <1>6 DEF RecordTells
<1>9. \A t \in Subagent : handle[t] # 0 => handle[t] \in 1..MaxRuns
  BY <1>2, ParameterTypes DEF Handles
<1>10. HandleTells(run', current', handle')
  BY <1>1, <1>2, <1>5, <1>9 DEF HandleTells
<1>11. QueueTells(rec', resumeQueue')
  BY <1>1, <1>2
<1>12. SlotsInv'
  <2>1. On(run') \subseteq On(run)
    BY <1>5 DEF On
  <2>2. bash' = bash /\ OthersOn(bash') \subseteq OthersOn(bash)
    BY <1>1
  <2>3. Running(run', bash') <= MaxRunning
    BY <2>1, <2>2, SlotsFreed, SlotsAreCounted, Held
  <2>4. Cancelling(run', bash')
    BY <1>3, <1>4 DEF Cancelling
  <2> QED
    BY <2>3, <2>4, Held, SlotsKept
<1> QED
  BY <1>7, <1>8, <1>10, <1>11, <1>12 DEF SubagentsInv, Told

LEMMA CancelOwnerStep ==
  ASSUME SubagentsInv, NEW o \in Owner, CancelOwner(o)
  PROVE  SubagentsInv'
<1> DEFINE mine == {s \in Subagent : LauncherOf[s] = o}
<1>1. /\ rec' = [s \in Subagent |-> IF s \in mine THEN "none" ELSE rec[s]]
      /\ handle' = [s \in Subagent |-> IF s \in mine /\ rec[s] # "none" THEN 0 ELSE handle[s]]
      /\ resumeQueue' = Filter(resumeQueue, Subagent \ mine)
      /\ run' = [s \in Subagent |-> [k \in 1..MaxRuns |->
                   IF run[s][k] = "running" /\ runOwner[s][k] = o THEN "cancelling" ELSE run[s][k]]]
      /\ UNCHANGED <<runOwner, current, begun, asked, runner, bash>>
  BY DEF CancelOwner
<1> HIDE DEF mine
<1>2. /\ run \in Runs /\ rec \in Records /\ handle \in Handles /\ resumeQueue \in Seq(Subagent)
      /\ RecordTells(run, rec, current) /\ HandleTells(run, current, handle) /\ QueueTells(rec, resumeQueue)
  BY Held DEF SubagentTypeOK
<1>3. /\ run' \in Runs
      /\ \A t \in Subagent, j \in 1..MaxRuns :
           run'[t][j] = IF run[t][j] = "running" /\ runOwner[t][j] = o THEN "cancelling" ELSE run[t][j]
  BY <1>1, <1>2 DEF Runs, JobStatus
<1>4. \A t \in Subagent, j \in 1..MaxRuns :
        /\ Unsettled(run'[t][j]) <=> Unsettled(run[t][j])
        /\ run'[t][j] = "paused" <=> run[t][j] = "paused"
        /\ run'[t][j] = "running" => run[t][j] = "running"
  BY <1>3 DEF Unsettled
<1>5. rec' \in Records /\ \A t \in Subagent : rec'[t] = IF t \in mine THEN "none" ELSE rec[t]
  BY <1>1, <1>2 DEF Records
<1>6. handle' \in Handles /\ \A t \in Subagent : handle'[t] # 0 => handle'[t] = handle[t]
  BY <1>1, <1>2, ParameterTypes DEF Handles
<1>7. /\ resumeQueue' \in Seq(Subagent) /\ Distinct(resumeQueue')
      /\ ToSet(resumeQueue') = ToSet(resumeQueue) \intersect (Subagent \ mine)
  BY <1>1, <1>2, FilterTakes DEF QueueTells
<1>8. SubagentTypeOK'
  BY <1>1, <1>3, <1>5, <1>6, <1>7, Held DEF SubagentTypeOK, Runs, Records, Handles
<1>9. \A t \in Subagent : rec[t] # "none" => current[t] \in 1..MaxRuns
  BY <1>2, Held, ParameterTypes DEF RecordTells
<1>10. RecordTells(run', rec', current')
  <2>1. \A t \in Subagent : rec'[t] # "none" => rec'[t] = rec[t]
    BY <1>5
  <2>2. current' = current
    BY <1>1
  <2> QED
    BY <1>2, <1>4, <1>9, <2>1, <2>2 DEF RecordTells
<1>11. HandleTells(run', current', handle')
  <2>1. \A t \in Subagent : handle[t] # 0 => handle[t] \in 1..MaxRuns
    BY <1>2, ParameterTypes DEF Handles
  <2> QED
    BY <1>1, <1>2, <1>4, <1>6, <2>1 DEF HandleTells
<1>12. QueueTells(rec', resumeQueue')
  <2>1. \A t \in Subagent : rec'[t] = "queued" <=> rec[t] = "queued" /\ t \notin mine
    BY <1>5
  <2> QED
    BY <1>2, <1>7, <2>1 DEF QueueTells
<1>13. SlotsInv'
  <2>1. bash' = bash /\ OthersOn(bash') \subseteq OthersOn(bash)
    BY <1>1
  <2>2. On(run') \subseteq On(run)
    BY <1>4 DEF On
  <2>3. Running(run', bash') <= MaxRunning
    BY <2>1, <2>2, SlotsFreed, SlotsAreCounted, Held
  <2>4. CASE \E t \in Subagent, j \in 1..MaxRuns : run[t][j] = "running" /\ runOwner[t][j] = o
    <3>1. Cancelling(run', bash')
      BY <1>3, <2>4 DEF Cancelling
    <3> QED
      BY <2>3, <3>1, Held, SlotsKept
  <2>5. CASE ~ \E t \in Subagent, j \in 1..MaxRuns : run[t][j] = "running" /\ runOwner[t][j] = o
    <3>1. \A t \in Subagent, j \in 1..MaxRuns : run'[t][j] = run[t][j]
      BY <1>3, <2>5
    <3>2. On(run) \subseteq On(run') /\ OthersOn(bash) \subseteq OthersOn(bash')
      BY <2>1, <3>1 DEF On
    <3>3. Running(run, bash) <= Running(run', bash')
      BY <3>2, SlotsFreed
    <3>4. Cancelling(run, bash) => Cancelling(run', bash')
      BY <2>1, <3>1 DEF Cancelling
    <3>5. resumeQueue' # <<>> => resumeQueue # <<>>
      <4>1. resumeQueue = <<>> => ToSet(resumeQueue') = {}
        BY <1>7 DEF ToSet
      <4>2. ToSet(resumeQueue') = {} => resumeQueue' = <<>>
        BY <1>7 DEF ToSet
      <4> QED
        BY <4>1, <4>2
    <3> QED
      BY <2>3, <3>3, <3>4, <3>5, Held, SlotsKept
  <2> QED
    BY <2>4, <2>5
<1> QED
  BY <1>8, <1>10, <1>11, <1>12, <1>13 DEF SubagentsInv, Told

-----------------------------------------------------------------------------
LEMMA SubagentsStep ==
  ASSUME SubagentsInv, [SubagentNext]_subagentVars
  PROVE  SubagentsInv'
<1>1. CASE UNCHANGED subagentVars
  <2>1. UNCHANGED <<run, runOwner, rec, current, handle, begun, asked, resumeQueue, runner, bash>>
    BY <1>1 DEF subagentVars
  <2>2. SubagentTypeOK'
    BY <2>1, Held DEF SubagentTypeOK
  <2>3. Told(run', rec', current', handle', resumeQueue')
    BY <2>1, Held
  <2>4. SlotsInv'
    BY <2>1, SlotsSame
  <2> QED
    BY <2>2, <2>3, <2>4 DEF SubagentsInv
<1>2. ASSUME NEW o \in Owner, SetResumeRunner(o) \/ CancelOwner(o) PROVE SubagentsInv'
  BY <1>2, RunnerStep, CancelOwnerStep
<1>3. ASSUME NEW s \in Subagent,
             \/ Launch(s) \/ PauseSubagent(s) \/ ResumeNow(s) \/ ResumeQueued(s)
             \/ CancelRunning(s) \/ CancelPaused(s) \/ CancelQueued(s)
      PROVE  SubagentsInv'
  BY <1>3, LaunchStep, PauseStep, ResumeNowStep, ResumeQueuedStep, CancelRunningStep,
     CancelPausedStep, CancelQueuedStep
<1>4. ASSUME NEW s \in Subagent, NEW k \in 1..MaxRuns,
             RegisterLiveHandle(s, k) \/ RemoveLiveHandle(s, k) \/ SettleRun(s, k)
      PROVE  SubagentsInv'
  BY <1>4, HandleStep, SettleStep
<1>5. ASSUME NEW b \in Bash, BashStart(b) \/ BashCancel(b) \/ BashSettle(b)
      PROVE  SubagentsInv'
  BY <1>5, BashStep, BashSettleStep
<1> QED
  BY <1>1, <1>2, <1>3, <1>4, <1>5 DEF SubagentNext

(* Record, current job, live handle and queue of every subagent agree, the      *)
(* limit of running jobs holds and no slot idles beside a waiting resume.        *)
THEOREM SubagentsInvariant == SubagentSpec => []SubagentsInv
<1>1. SubagentInit => SubagentsInv
  BY InitSubagents
<1>2. SubagentsInv /\ [SubagentNext]_subagentVars => SubagentsInv'
  BY SubagentsStep
<1> QED
  BY <1>1, <1>2, PTL DEF SubagentSpec

(* The types of the control plane's state, and the agreement of its parts: what  *)
(* the record of a subagent says is what its jobs, its live handle and the       *)
(* queue of resumes say (SubagentRecord, #liveHandles, #resumeQueue).            *)
THEOREM RecordsOfSubagentsAgree == SubagentSpec => []RecordsInv
<1>1. SubagentsInv => RecordsInv
  <2> SUFFICES ASSUME SubagentsInv, NEW s \in Subagent
               PROVE  /\ rec[s] = "running" => current[s] # 0 /\ Unsettled(run[s][current[s]])
                      /\ rec[s] = "paused" => run[s][current[s]] = "paused"
                      /\ rec[s] \in {"queued", "ended"} => \A k \in 1..MaxRuns : ~Unsettled(run[s][k])
                      /\ Cardinality({i \in DOMAIN resumeQueue : resumeQueue[i] = s})
                           = IF rec[s] = "queued" THEN 1 ELSE 0
                      /\ handle[s] # 0 => handle[s] = current[s] /\ Unsettled(run[s][handle[s]])
    BY Held DEF RecordsInv, RecordsAgree
  <2>1. RecordTells(run, rec, current) /\ HandleTells(run, current, handle) /\ QueueTells(rec, resumeQueue)
    BY Held
  <2>2. Cardinality({i \in DOMAIN resumeQueue : resumeQueue[i] = s}) = IF rec[s] = "queued" THEN 1 ELSE 0
    <3>1. resumeQueue \in Seq(Subagent) /\ Distinct(resumeQueue) /\ (s \in ToSet(resumeQueue) <=> rec[s] = "queued")
      BY <2>1, Held DEF SubagentTypeOK, QueueTells
    <3>2. Cardinality({i \in DOMAIN resumeQueue : resumeQueue[i] = s}) = IF s \in ToSet(resumeQueue) THEN 1 ELSE 0
      BY <3>1, HeldOnce
    <3> QED
      BY <3>1, <3>2
  <2> QED
    BY <2>1, <2>2 DEF RecordTells, HandleTells
<1> QED
  BY <1>1, SubagentsInvariant, PTL

(* Two runs of one subagent, which write the same session file, never overlap:   *)
(* resumeSubagent waits for a cancelled run to settle.                           *)
THEOREM RunsNeverOverlap == SubagentSpec => []OneRunPerSubagent
<1>1. SubagentsInv => OneRunPerSubagent
  BY Held DEF RecordTells, OneRunPerSubagent
<1> QED
  BY <1>1, SubagentsInvariant, PTL

(* #drainResumeQueue exceeds no limit of running jobs, and no resume waits while  *)
(* a slot is free, but for a cancelled job that has not settled.                 *)
THEOREM SlotsAreUsed == SubagentSpec => []SlotsInv
<1>1. SubagentsInv => SlotsInv
  BY Held
<1> QED
  BY <1>1, SubagentsInvariant, PTL
=============================================================================
