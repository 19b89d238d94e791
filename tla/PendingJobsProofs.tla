------------------------- MODULE PendingJobsProofs -------------------------
(***************************************************************************)
(* Theorems about the counters of conversions in progress, for any         *)
(* entities and workers and any number of events, retries and faults.      *)
(*                                                                         *)
(* A counter that nothing has disturbed, with what the events in hand and  *)
(* those waiting for a retry have still to add to it, is always the number *)
(* of conversions queued less the number of results.                       *)
(***************************************************************************)
EXTENDS PendingJobs, FiniteSetTheorems, SequenceTheorems, TLAPS

-----------------------------------------------------------------------------
(* Events                                                                    *)

\* Every event names some keys, each of them once.
EventOK(e) ==
  /\ e \in Events
  /\ Len(e.keys) > 0
  /\ \A i, j \in 1..Len(e.keys) : e.keys[i] = e.keys[j] => i = j

LEMMA EventParts ==
  ASSUME NEW e \in Events
  PROVE  /\ e.by \in {1, -1} /\ e.keys \in Seq(Key) /\ e.written \in SUBSET Key
         /\ e.retries \in 0..MaxRetries
         /\ Len(e.keys) \in Nat /\ DOMAIN e.keys = 1..Len(e.keys)
         /\ \A i \in 1..Len(e.keys) : e.keys[i] \in Key
         /\ KeysOf(e) = {e.keys[i] : i \in 1..Len(e.keys)}
         /\ KeysOf(e) \subseteq Key
<1>1. e.keys \in Seq(Key) /\ e.by \in {1, -1} /\ e.written \in SUBSET Key
      /\ e.retries \in 0..MaxRetries
  BY DEF Events
<1>2. /\ Len(e.keys) \in Nat /\ DOMAIN e.keys = 1..Len(e.keys)
      /\ \A i \in 1..Len(e.keys) : e.keys[i] \in Key
  BY <1>1, LenProperties, ElementOfSeq
<1>3. QED
  BY <1>1, <1>2 DEF KeysOf

LEMMA NewEventOK ==
  ASSUME NEW by \in {1, -1}, NEW keys \in Seq(Key), Len(keys) > 0,
         \A i, j \in 1..Len(keys) : keys[i] = keys[j] => i = j
  PROVE  /\ EventOK(NewEvent(by, keys))
         /\ NewEvent(by, keys).by = by /\ NewEvent(by, keys).written = {}
         /\ NewEvent(by, keys).keys = keys
         /\ KeysOf(NewEvent(by, keys)) = {keys[i] : i \in DOMAIN keys}
  BY PendingAssumption DEF EventOK, NewEvent, Events, KeysOf

LEMMA OneKey ==
  ASSUME NEW k \in Key
  PROVE  /\ <<k>> \in Seq(Key) /\ Len(<<k>>) = 1 /\ <<k>>[1] = k
         /\ {<<k>>[i] : i \in DOMAIN <<k>>} = {k}
         /\ \A i, j \in 1..Len(<<k>>) : <<k>>[i] = <<k>>[j] => i = j
<1>1. DOMAIN <<k>> = {1} /\ <<k>>[1] = k
  OBVIOUS
<1>2. QED
  BY <1>1

(* There are two platforms: a sequence of two keys that lists both for an    *)
(* entity lists each of them once.                                           *)
LEMMA TwoKeys ==
  ASSUME NEW e \in Entity, NEW keys \in [1..2 -> Key],
         {keys[i] : i \in DOMAIN keys} = Platform \X {e}
  PROVE  /\ keys \in Seq(Key) /\ Len(keys) = 2
         /\ \A i, j \in 1..Len(keys) : keys[i] = keys[j] => i = j
<1>1. keys \in Seq(Key)
  BY SeqDef
<1>2. Len(keys) = 2
  BY <1>1, LenProperties
<1>3. PICK p, q : p # q /\ Platform = {p, q}
  BY PendingAssumption
<1>4. <<p, e>> # <<q, e>> /\ <<p, e>> \in Platform \X {e} /\ <<q, e>> \in Platform \X {e}
  BY <1>3
<1>5. keys[1] # keys[2]
  BY <1>4
<1>6. QED
  BY <1>1, <1>2, <1>5

-----------------------------------------------------------------------------
(* What events owe to a counter                                              *)

\* The event e has still to add `by` to the counter k.
Owes(e, k, by) == e.by = by /\ k \in KeysOf(e) \ e.written

\* What e has still to add to k.
Due(e, k) == IF k \in KeysOf(e) \ e.written THEN e.by ELSE 0

JobOwes(j, k, by) == j # Idle /\ Owes(j.event, k, by)

JobDue(j, k) == IF j = Idle THEN 0 ELSE Due(j.event, k)

(* The updates by `by` that are still to come to k: of a worker, or of one   *)
(* of the copies that the bag holds of an event.                             *)
Owed(jobs, bag, k, by) ==
  {<<w, 0>> : w \in {v \in Worker : JobOwes(jobs[v], k, by)}}
    \cup {c \in BagToSet(bag) \X (Nat \ {0}) : c[2] <= bag[c[1]] /\ Owes(c[1], k, by)}

CountedDebt(jobs, bag, k) ==
  IsFiniteSet(Owed(jobs, bag, k, 1)) /\ IsFiniteSet(Owed(jobs, bag, k, -1))

Debt(jobs, bag, k) ==
  Cardinality(Owed(jobs, bag, k, 1)) - Cardinality(Owed(jobs, bag, k, -1))

LEMMA JobOwed ==
  ASSUME NEW jobs, NEW next, NEW bag, NEW w \in Worker, NEW k, NEW by,
         \A v \in Worker \ {w} : next[v] = jobs[v]
  PROVE  LET S == Owed(jobs, bag, k, by)
             T == Owed(next, bag, k, by)
         IN  /\ <<w, 0>> \in S <=> JobOwes(jobs[w], k, by)
             /\ T = IF JobOwes(next[w], k, by) THEN S \cup {<<w, 0>>} ELSE S \ {<<w, 0>>}
<1> DEFINE waiting == {c \in BagToSet(bag) \X (Nat \ {0}) :
                         c[2] <= bag[c[1]] /\ Owes(c[1], k, by)}
           S == Owed(jobs, bag, k, by)
           T == Owed(next, bag, k, by)
<1>1. \A v : <<v, 0>> \notin waiting
  OBVIOUS
<1>2. \A t : t \in S <=> t \in waiting \/ \E v \in Worker : t = <<v, 0>> /\ JobOwes(jobs[v], k, by)
  BY DEF Owed
<1>3. \A t : t \in T <=> t \in waiting \/ \E v \in Worker : t = <<v, 0>> /\ JobOwes(next[v], k, by)
  BY DEF Owed
<1> HIDE DEF waiting, S, T
<1>4. <<w, 0>> \in S <=> JobOwes(jobs[w], k, by)
  BY <1>1, <1>2
<1>5. \A t : t # <<w, 0>> => (t \in T <=> t \in S)
  BY <1>2, <1>3
<1>6. <<w, 0>> \in T <=> JobOwes(next[w], k, by)
  BY <1>1, <1>3
<1>7. T = IF JobOwes(next[w], k, by) THEN S \cup {<<w, 0>>} ELSE S \ {<<w, 0>>}
  BY <1>5, <1>6
<1>8. QED
  BY <1>4, <1>7 DEF S, T

LEMMA AddOwed ==
  ASSUME NEW jobs, NEW bag, IsABag(bag), NEW e, NEW k, NEW by
  PROVE  LET S == Owed(jobs, bag, k, by)
             T == Owed(jobs, bag (+) One(e), k, by)
         IN  IF Owes(e, k, by) THEN \E c : c \notin S /\ T = S \cup {c} ELSE T = S
<1> DEFINE more == bag (+) One(e)
           handled == {<<w, 0>> : w \in {v \in Worker : JobOwes(jobs[v], k, by)}}
           S == Owed(jobs, bag, k, by)
           T == Owed(jobs, more, k, by)
           n == IF e \in DOMAIN bag THEN bag[e] + 1 ELSE 1
<1>1. /\ n \in Nat \ {0}
      /\ e \in DOMAIN bag => bag[e] = n - 1 /\ bag[e] \in Nat
      /\ e \notin DOMAIN bag => n = 1
  BY DEF IsABag
<1>2. /\ DOMAIN more = DOMAIN bag \cup {e} /\ more[e] = n
      /\ \A d \in DOMAIN bag : d # e => more[d] = bag[d]
  <2>1. more = [d \in DOMAIN bag \cup {e} |->
                  (IF d \in DOMAIN bag THEN bag[d] ELSE 0) + (IF d \in {e} THEN 1 ELSE 0)]
    BY DEF (+), One, SetToBag
  <2>2. \A d \in DOMAIN bag : bag[d] \in Nat
    BY DEF IsABag
  <2> HIDE DEF more
  <2>3. QED
    BY <1>1, <2>1, <2>2
<1>3. \A t : t \in S <=> t \in handled \/ \E d \in DOMAIN bag, i \in Nat \ {0} :
                                        t = <<d, i>> /\ i <= bag[d] /\ Owes(d, k, by)
  BY DEF Owed, BagToSet
<1>4. \A t : t \in T <=> t \in handled \/ \E d \in DOMAIN more, i \in Nat \ {0} :
                                        t = <<d, i>> /\ i <= more[d] /\ Owes(d, k, by)
  BY DEF Owed, BagToSet
<1>5. <<e, n>> \notin handled
  BY <1>1
<1> HIDE DEF more, handled, S, T, n
<1>6. <<e, n>> \notin S
  BY <1>1, <1>3, <1>5
<1>7. <<e, n>> \in T <=> Owes(e, k, by)
  BY <1>1, <1>2, <1>4, <1>5
<1>8. ASSUME NEW t, t # <<e, n>> PROVE t \in T <=> t \in S
  <2>1. CASE \A d \in DOMAIN more, i \in Nat \ {0} : t # <<d, i>>
    BY <2>1, <1>2, <1>3, <1>4
  <2>2. CASE ~\A d \in DOMAIN more, i \in Nat \ {0} : t # <<d, i>>
    <3>1. PICK d \in DOMAIN more, i \in Nat \ {0} : t = <<d, i>>
      BY <2>2
    <3>2. CASE d = e
      <4>1. i # n
        BY <3>1, <3>2, <1>8
      <4>2. i <= n <=> e \in DOMAIN bag /\ i <= bag[e]
        BY <3>1, <4>1, <1>1
      <4>3. QED
        BY <3>1, <3>2, <4>2, <1>2, <1>3, <1>4
    <3>3. CASE d # e
      BY <3>1, <3>3, <1>2, <1>3, <1>4
    <3>4. QED
      BY <3>2, <3>3
  <2>3. QED
    BY <2>1, <2>2
<1>9. CASE Owes(e, k, by)
  <2>1. T = S \cup {<<e, n>>}
    BY <1>7, <1>8, <1>9
  <2>2. QED
    BY <2>1, <1>6, <1>9 DEF S, T, more
<1>10. CASE ~Owes(e, k, by)
  <2>1. T = S
    BY <1>6, <1>7, <1>8, <1>10
  <2>2. QED
    BY <2>1, <1>10 DEF S, T, more
<1>11. QED
  BY <1>9, <1>10

LEMMA RemoveOwed ==
  ASSUME NEW jobs, NEW bag, IsABag(bag), NEW e \in BagToSet(bag), NEW k, NEW by
  PROVE  LET S == Owed(jobs, bag, k, by)
             T == Owed(jobs, bag (-) One(e), k, by)
         IN  IF Owes(e, k, by) THEN \E c \in S : T = S \ {c} ELSE T = S
<1> DEFINE less == bag (-) One(e)
           handled == {<<w, 0>> : w \in {v \in Worker : JobOwes(jobs[v], k, by)}}
           S == Owed(jobs, bag, k, by)
           T == Owed(jobs, less, k, by)
           n == bag[e]
<1>1. n \in Nat \ {0} /\ e \in DOMAIN bag
  BY DEF IsABag, BagToSet
<1>2. /\ DOMAIN less = IF n = 1 THEN DOMAIN bag \ {e} ELSE DOMAIN bag
      /\ n # 1 => less[e] = n - 1
      /\ \A d \in DOMAIN bag : d # e => less[d] = bag[d]
  <2> DEFINE B == [d \in DOMAIN bag |-> IF d \in {e} THEN bag[d] - 1 ELSE bag[d]]
  <2>1. less = [d \in {c \in DOMAIN B : B[c] > 0} |-> B[d]]
    BY DEF (-), One, SetToBag
  <2>2. \A d \in DOMAIN bag : bag[d] \in Nat \ {0}
    BY DEF IsABag
  <2>3. /\ B[e] = n - 1
        /\ \A d \in DOMAIN bag : d # e => B[d] = bag[d]
    BY <1>1
  <2>4. DOMAIN B = DOMAIN bag
    OBVIOUS
  <2> HIDE DEF less, B, n
  <2>5. DOMAIN less = {c \in DOMAIN B : B[c] > 0} /\ \A d \in DOMAIN less : less[d] = B[d]
    BY <2>1
  <2>6. n = bag[e] /\ n \in Nat \ {0}
    BY <1>1 DEF n
  <2>7. QED
    BY <1>1, <2>2, <2>3, <2>4, <2>5, <2>6
<1>3. \A t : t \in S <=> t \in handled \/ \E d \in DOMAIN bag, i \in Nat \ {0} :
                                        t = <<d, i>> /\ i <= bag[d] /\ Owes(d, k, by)
  BY DEF Owed, BagToSet
<1>4. \A t : t \in T <=> t \in handled \/ \E d \in DOMAIN less, i \in Nat \ {0} :
                                        t = <<d, i>> /\ i <= less[d] /\ Owes(d, k, by)
  BY DEF Owed, BagToSet
<1>5. <<e, n>> \notin handled
  BY <1>1
<1>0. n = bag[e]
  OBVIOUS
<1> HIDE DEF less, handled, S, T, n
<1>6. <<e, n>> \notin T
  BY <1>1, <1>2, <1>4, <1>5
<1>7. <<e, n>> \in S <=> Owes(e, k, by)
  BY <1>0, <1>1, <1>3, <1>5
<1>8. ASSUME NEW t, t # <<e, n>> PROVE t \in T <=> t \in S
  <2>1. CASE \A d \in DOMAIN bag, i \in Nat \ {0} : t # <<d, i>>
    BY <2>1, <1>2, <1>3, <1>4
  <2>2. CASE ~\A d \in DOMAIN bag, i \in Nat \ {0} : t # <<d, i>>
    <3>1. PICK d \in DOMAIN bag, i \in Nat \ {0} : t = <<d, i>>
      BY <2>2
    <3>2. CASE d = e
      <4>1. i # n
        BY <3>1, <3>2, <1>8
      <4>2. i <= n <=> e \in DOMAIN less /\ i <= less[e]
        BY <3>1, <4>1, <1>1, <1>2
      <4>3. QED
        BY <3>1, <3>2, <4>2, <1>0, <1>1, <1>3, <1>4
    <3>3. CASE d # e
      BY <3>1, <3>3, <1>2, <1>3, <1>4
    <3>4. QED
      BY <3>2, <3>3
  <2>3. QED
    BY <2>1, <2>2
<1>9. CASE Owes(e, k, by)
  <2>1. T = S \ {<<e, n>>}
    BY <1>6, <1>8
  <2>2. QED
    BY <2>1, <1>7, <1>9 DEF S, T, less
<1>10. CASE ~Owes(e, k, by)
  <2>1. T = S
    BY <1>6, <1>7, <1>8, <1>10
  <2>2. QED
    BY <2>1, <1>10 DEF S, T, less
<1>11. QED
  BY <1>9, <1>10

LEMMA JobDebt ==
  ASSUME NEW jobs, NEW next, NEW bag, NEW w \in Worker, NEW k,
         \A v \in Worker \ {w} : next[v] = jobs[v],
         CountedDebt(jobs, bag, k),
         jobs[w] # Idle => jobs[w].event \in Events, next[w] # Idle => next[w].event \in Events
  PROVE  /\ CountedDebt(next, bag, k)
         /\ Debt(next, bag, k) = Debt(jobs, bag, k) - JobDue(jobs[w], k) + JobDue(next[w], k)
<1> DEFINE one(P) == IF P THEN 1 ELSE 0
<1>1. ASSUME NEW by \in {1, -1}
      PROVE  /\ IsFiniteSet(Owed(next, bag, k, by))
             /\ Cardinality(Owed(jobs, bag, k, by)) \in Nat
             /\ Cardinality(Owed(next, bag, k, by)) =
                  Cardinality(Owed(jobs, bag, k, by)) - one(JobOwes(jobs[w], k, by))
                    + one(JobOwes(next[w], k, by))
  <2> DEFINE S == Owed(jobs, bag, k, by)
             T == Owed(next, bag, k, by)
  <2>1. IsFiniteSet(S) /\ Cardinality(S) \in Nat
    BY FS_CardinalityType DEF CountedDebt
  <2>2. /\ <<w, 0>> \in S <=> JobOwes(jobs[w], k, by)
        /\ T = IF JobOwes(next[w], k, by) THEN S \cup {<<w, 0>>} ELSE S \ {<<w, 0>>}
    BY JobOwed DEF S, T
  <2> HIDE DEF S, T
  <2>3. CASE JobOwes(next[w], k, by)
    <3>1. /\ IsFiniteSet(T)
          /\ Cardinality(T) = IF <<w, 0>> \in S THEN Cardinality(S) ELSE Cardinality(S) + 1
      BY <2>1, <2>2, <2>3, FS_AddElement
    <3>2. QED
      BY <2>1, <2>2, <2>3, <3>1 DEF S, T
  <2>4. CASE ~JobOwes(next[w], k, by)
    <3>1. /\ IsFiniteSet(T)
          /\ Cardinality(T) = IF <<w, 0>> \in S THEN Cardinality(S) - 1 ELSE Cardinality(S)
      BY <2>1, <2>2, <2>4, FS_RemoveElement
    <3>2. QED
      BY <2>1, <2>2, <2>4, <3>1 DEF S, T
  <2>5. QED
    BY <2>3, <2>4
<1>2. ASSUME NEW i, i # Idle => i.event \in Events
      PROVE  JobDue(i, k) = one(JobOwes(i, k, 1)) - one(JobOwes(i, k, -1))
  BY <1>2 DEF JobDue, JobOwes, Owes, Due, Events
<1>3. QED
  BY <1>1, <1>2 DEF CountedDebt, Debt

LEMMA AddDebt ==
  ASSUME NEW jobs, NEW bag, IsABag(bag), NEW e \in Events, NEW k, CountedDebt(jobs, bag, k)
  PROVE  /\ CountedDebt(jobs, bag (+) One(e), k)
         /\ Debt(jobs, bag (+) One(e), k) = Debt(jobs, bag, k) + Due(e, k)
<1> DEFINE one(P) == IF P THEN 1 ELSE 0
<1>1. ASSUME NEW by \in {1, -1}
      PROVE  /\ IsFiniteSet(Owed(jobs, bag (+) One(e), k, by))
             /\ Cardinality(Owed(jobs, bag, k, by)) \in Nat
             /\ Cardinality(Owed(jobs, bag (+) One(e), k, by)) =
                  Cardinality(Owed(jobs, bag, k, by)) + one(Owes(e, k, by))
  <2> DEFINE S == Owed(jobs, bag, k, by)
             T == Owed(jobs, bag (+) One(e), k, by)
  <2>1. IsFiniteSet(S) /\ Cardinality(S) \in Nat
    BY FS_CardinalityType DEF CountedDebt
  <2>2. IF Owes(e, k, by) THEN \E c : c \notin S /\ T = S \cup {c} ELSE T = S
    BY AddOwed
  <2> HIDE DEF S, T
  <2>3. CASE Owes(e, k, by)
    BY <2>1, <2>2, <2>3, FS_AddElement DEF S, T
  <2>4. CASE ~Owes(e, k, by)
    BY <2>1, <2>2, <2>4 DEF S, T
  <2>5. QED
    BY <2>3, <2>4
<1>2. Due(e, k) = one(Owes(e, k, 1)) - one(Owes(e, k, -1))
  BY DEF Due, Owes, Events
<1>3. QED
  BY <1>1, <1>2 DEF CountedDebt, Debt

LEMMA RemoveDebt ==
  ASSUME NEW jobs, NEW bag, IsABag(bag), NEW e \in BagToSet(bag), e \in Events, NEW k,
         CountedDebt(jobs, bag, k)
  PROVE  /\ CountedDebt(jobs, bag (-) One(e), k)
         /\ Debt(jobs, bag (-) One(e), k) = Debt(jobs, bag, k) - Due(e, k)
<1> DEFINE one(P) == IF P THEN 1 ELSE 0
<1>1. ASSUME NEW by \in {1, -1}
      PROVE  /\ IsFiniteSet(Owed(jobs, bag (-) One(e), k, by))
             /\ Cardinality(Owed(jobs, bag, k, by)) \in Nat
             /\ Cardinality(Owed(jobs, bag (-) One(e), k, by)) =
                  Cardinality(Owed(jobs, bag, k, by)) - one(Owes(e, k, by))
  <2> DEFINE S == Owed(jobs, bag, k, by)
             T == Owed(jobs, bag (-) One(e), k, by)
  <2>1. IsFiniteSet(S) /\ Cardinality(S) \in Nat
    BY FS_CardinalityType DEF CountedDebt
  <2>2. IF Owes(e, k, by) THEN \E c \in S : T = S \ {c} ELSE T = S
    BY RemoveOwed
  <2> HIDE DEF S, T
  <2>3. CASE Owes(e, k, by)
    BY <2>1, <2>2, <2>3, FS_RemoveElement DEF S, T
  <2>4. CASE ~Owes(e, k, by)
    BY <2>1, <2>2, <2>4 DEF S, T
  <2>5. QED
    BY <2>3, <2>4
<1>2. Due(e, k) = one(Owes(e, k, 1)) - one(Owes(e, k, -1))
  BY DEF Due, Owes, Events
<1>3. QED
  BY <1>1, <1>2 DEF CountedDebt, Debt

LEMMA BagOfEvents ==
  ASSUME NEW bag, IsABag(bag), NEW e
  PROVE  /\ IsABag(bag (+) One(e)) /\ BagToSet(bag (+) One(e)) = BagToSet(bag) \cup {e}
         /\ IsABag(bag (-) One(e)) /\ BagToSet(bag (-) One(e)) \subseteq BagToSet(bag)
<1>1. IsABag(bag (+) One(e)) /\ BagToSet(bag (+) One(e)) = BagToSet(bag) \cup {e}
  BY DEF (+), One, SetToBag, IsABag, BagToSet
<1> DEFINE D == [d \in DOMAIN bag |-> IF d \in {e} THEN bag[d] - 1 ELSE bag[d]]
<1>2. bag (-) One(e) = [d \in {c \in DOMAIN D : D[c] > 0} |-> D[d]]
  BY DEF (-), One, SetToBag
<1>3. \A d \in DOMAIN D : D[d] \in Int
  BY DEF IsABag
<1>4. DOMAIN D = DOMAIN bag
  OBVIOUS
<1> HIDE DEF D
<1>5. IsABag(bag (-) One(e)) /\ BagToSet(bag (-) One(e)) \subseteq BagToSet(bag)
  BY <1>2, <1>3, <1>4 DEF IsABag, BagToSet
<1>6. QED
  BY <1>1, <1>5

LEMMA NothingOwed ==
  ASSUME NEW jobs, NEW bag, NEW k, \A by \in {1, -1} : Owed(jobs, bag, k, by) = {}
  PROVE  CountedDebt(jobs, bag, k) /\ Debt(jobs, bag, k) = 0
<1>1. IsFiniteSet({}) /\ Cardinality({}) = 0
  BY FS_EmptySet
<1>2. Owed(jobs, bag, k, 1) = {} /\ Owed(jobs, bag, k, -1) = {}
  OBVIOUS
<1>3. QED
  BY <1>1, <1>2 DEF CountedDebt, Debt

-----------------------------------------------------------------------------
(* The inductive invariant                                                   *)

Working == [pc : {"read", "write", "rest"}, event : Events, at : Nat, value : Int]

ValueIn(s, k) == IF s[k] = Absent THEN 0 ELSE s[k]

(* A worker updates the keys of its event in their order.  A key before the  *)
(* one it is at is written; one from there on that is written already is one *)
(* of a retry, so disturbed.  The value it has read is that of the counter,  *)
(* or another update was or will be lost.                                    *)
InHand(j, D, s) ==
  \/ j = Idle
  \/ /\ j \in Working /\ EventOK(j.event) /\ j.at \in 1..Len(j.event.keys)
     /\ j.pc = "rest" => KeysOf(j.event) \subseteq j.event.written
     /\ j.pc # "rest" => \A i \in 1..Len(j.event.keys) :
          IF i < j.at THEN j.event.keys[i] \in j.event.written
          ELSE j.event.keys[i] \in j.event.written => j.event.keys[i] \in D
     /\ j.pc = "write" => \/ j.event.keys[j.at] \in D
                          \/ j.value = ValueIn(s, j.event.keys[j.at])

PendingTypes ==
  /\ stored \in [Key -> Int \cup {Absent}]
  /\ job \in [Worker -> {Idle} \cup Working]
  /\ IsABag(requeued) /\ \A e \in BagToSet(requeued) : EventOK(e)
  /\ queued \in [Key -> 0..MaxEvents] /\ finished \in [Key -> 0..MaxEvents]
  /\ faults \in 0..MaxFaults
  /\ disturbed \subseteq Key

(* What is stored, with what is still owed to it, is what there should be.   *)
Balanced ==
  \A k \in Key :
    /\ CountedDebt(job, requeued, k)
    /\ k \notin disturbed =>
         ValueIn(stored, k) + Debt(job, requeued, k) = queued[k] - finished[k]

PendingInv ==
  PendingTypes /\ Balanced /\ \A w \in Worker : InHand(job[w], disturbed, stored)

LEMMA PendingBegins == PendingInit => PendingInv
<1> SUFFICES ASSUME PendingInit PROVE PendingInv
  OBVIOUS
<1>1. PendingTypes
  <2>1. IsABag(EmptyBag) /\ BagToSet(EmptyBag) = {}
    BY DEF IsABag, BagToSet, EmptyBag, SetToBag
  <2>2. QED
    BY <2>1, PendingAssumption DEF PendingInit, PendingTypes
<1>2. ASSUME NEW k \in Key, NEW by PROVE Owed(job, requeued, k, by) = {}
  BY DEF PendingInit, Owed, JobOwes, BagToSet, EmptyBag, SetToBag
<1>3. Balanced
  BY <1>2, NothingOwed DEF PendingInit, Balanced, ValueIn
<1>4. QED
  BY <1>1, <1>3 DEF PendingInv, PendingInit, InHand

\* Job, event and debt of a worker.
LEMMA InHandParts ==
  ASSUME NEW j, NEW D, NEW s, InHand(j, D, s)
  PROVE  /\ j \in {Idle} \cup Working
         /\ j # Idle => /\ j \in Working /\ EventOK(j.event) /\ j.event \in Events
                        /\ j.at \in 1..Len(j.event.keys) /\ j.event.keys[j.at] \in Key
         /\ \A k : JobDue(j, k) \in Int
<1>1. CASE j = Idle
  BY <1>1 DEF JobDue
<1>2. CASE j # Idle
  BY <1>2, EventParts DEF InHand, EventOK, JobDue, Due
<1>3. QED
  BY <1>1, <1>2

\* More that is disturbed, and the other counters as they were, leaves a job in hand.
LEMMA StaysInHand ==
  ASSUME NEW j, NEW D, NEW s, NEW E, NEW t, InHand(j, D, s), D \subseteq E,
         \A k \in Key \ E : t[k] = s[k]
  PROVE  InHand(j, E, t)
<1>1. CASE j = Idle
  BY <1>1 DEF InHand
<1>2. CASE j # Idle
  <2>1. j.event.keys[j.at] \in Key
    BY <1>2, InHandParts
  <2>2. QED
    BY <1>2, <2>1 DEF InHand, ValueIn
<1>3. QED
  BY <1>1, <1>2

LEMMA StoredValue ==
  ASSUME NEW s \in [Key -> Int \cup {Absent}], NEW k \in Key
  PROVE  ValueIn(s, k) \in Int
  BY DEF ValueIn

LEMMA DebtInteger ==
  ASSUME NEW jobs, NEW bag, NEW k, CountedDebt(jobs, bag, k)
  PROVE  Debt(jobs, bag, k) \in Int
  BY FS_CardinalityType DEF CountedDebt, Debt

(* A step of one worker that keeps the balance of every counter which is not *)
(* disturbed.                                                                *)
LEMMA JobStep ==
  ASSUME PendingInv, NEW w \in Worker, NEW j,
         job' = [job EXCEPT ![w] = j], requeued' = requeued,
         InHand(j, disturbed', stored'),
         \A v \in Worker \ {w} : InHand(job[v], disturbed', stored'),
         stored' \in [Key -> Int \cup {Absent}],
         queued' \in [Key -> 0..MaxEvents], finished' \in [Key -> 0..MaxEvents],
         faults' \in 0..MaxFaults,
         disturbed \subseteq disturbed', disturbed' \subseteq Key,
         \A k \in Key \ disturbed' :
           ValueIn(stored', k) + JobDue(j, k) - (queued'[k] - finished'[k])
             = ValueIn(stored, k) + JobDue(job[w], k) - (queued[k] - finished[k])
  PROVE  PendingInv'
<1>1. /\ job'[w] = j /\ \A v \in Worker \ {w} : job'[v] = job[v]
      /\ job' \in [Worker -> {Idle} \cup Working]
  BY InHandParts DEF PendingInv, PendingTypes
<1>2. PendingTypes'
  BY <1>1 DEF PendingInv, PendingTypes
<1>3. ASSUME NEW k \in Key
      PROVE  /\ CountedDebt(job', requeued', k)
             /\ k \notin disturbed' =>
                  ValueIn(stored', k) + Debt(job', requeued', k) = queued'[k] - finished'[k]
  <2>1. CountedDebt(job, requeued, k)
    BY DEF PendingInv, Balanced
  <2>2. /\ job[w] # Idle => job[w].event \in Events
        /\ job'[w] # Idle => job'[w].event \in Events
        /\ JobDue(job[w], k) \in Int /\ JobDue(j, k) \in Int
    BY <1>1, InHandParts DEF PendingInv
  <2>3. /\ CountedDebt(job', requeued, k)
        /\ Debt(job', requeued, k) = Debt(job, requeued, k) - JobDue(job[w], k) + JobDue(j, k)
    <3>1. \A v \in Worker \ {w} : job'[v] = job[v]
      BY <1>1
    <3>2. CountedDebt(job', requeued, k)
      BY <3>1, <2>1, <2>2, JobDebt
    <3>3. ASSUME NEW jobs, NEW next, jobs = job, next = job'
          PROVE  Debt(next, requeued, k) =
                   Debt(jobs, requeued, k) - JobDue(jobs[w], k) + JobDue(next[w], k)
      <4>1. /\ \A v \in Worker \ {w} : next[v] = jobs[v]
            /\ CountedDebt(jobs, requeued, k)
            /\ jobs[w] # Idle => jobs[w].event \in Events
            /\ next[w] # Idle => next[w].event \in Events
        BY <3>1, <3>3, <2>1, <2>2
      <4>2. QED
        BY ONLY <4>1, JobDebt
    <3>4. QED
      BY <1>1, <3>2, <3>3
  <2>4. Debt(job, requeued, k) \in Int
    BY <2>1, DebtInteger
  <2>5. /\ ValueIn(stored, k) \in Int /\ ValueIn(stored', k) \in Int
        /\ queued[k] \in Int /\ finished[k] \in Int
        /\ queued'[k] \in Int /\ finished'[k] \in Int
    BY StoredValue DEF PendingInv, PendingTypes
  <2>6. k \notin disturbed' =>
          ValueIn(stored, k) + Debt(job, requeued, k) = queued[k] - finished[k]
    BY DEF PendingInv, Balanced
  <2>7. k \notin disturbed' =>
          ValueIn(stored', k) + JobDue(j, k) - (queued'[k] - finished'[k])
            = ValueIn(stored, k) + JobDue(job[w], k) - (queued[k] - finished[k])
    OBVIOUS
  <2>8. CountedDebt(job', requeued', k)
    BY <2>3
  <2>9. Debt(job', requeued', k) = Debt(job, requeued, k) - JobDue(job[w], k) + JobDue(j, k)
    BY <2>3
  <2>10. QED
    BY <2>2, <2>4, <2>5, <2>6, <2>7, <2>8, <2>9
<1>4. Balanced'
  BY <1>3 DEF Balanced
<1>5. QED
  BY <1>1, <1>2, <1>4 DEF PendingInv

-----------------------------------------------------------------------------
(* New events                                                                *)

\* An event that starts adds to what is owed what it adds to what there should be.
LEMMA StartStep ==
  ASSUME PendingInv, NEW w \in Worker, NEW by \in {1, -1}, NEW keys \in Seq(Key), NEW ks,
         ks = {keys[i] : i \in DOMAIN keys},
         Len(keys) > 0, \A i, k \in 1..Len(keys) : keys[i] = keys[k] => i = k,
         Start(w, NewEvent(by, keys)),
         UNCHANGED <<stored, requeued, faults, disturbed>>,
         queued' \in [Key -> 0..MaxEvents], finished' \in [Key -> 0..MaxEvents],
         \A k \in Key : queued'[k] - finished'[k] =
                          IF k \in ks THEN queued[k] - finished[k] + by
                          ELSE queued[k] - finished[k]
  PROVE  PendingInv'
<1> DEFINE event == NewEvent(by, keys)
           j == [pc |-> "read", event |-> event, at |-> 1, value |-> 0]
<1>1. /\ EventOK(event) /\ event.by = by /\ event.written = {} /\ event.keys = keys
      /\ KeysOf(event) = {keys[i] : i \in DOMAIN keys}
  BY NewEventOK
<1>2. job[w] = Idle /\ job' = [job EXCEPT ![w] = j]
  BY DEF Start
<1>3. InHand(j, disturbed', stored')
  <2>1. /\ j.pc = "read" /\ j.event = event /\ j.at = 1
        /\ j \in Working /\ 1 \in 1..Len(keys)
    BY <1>1, LenProperties DEF Working, EventOK
  <2> HIDE DEF j, event
  <2>2. QED
    BY <1>1, <2>1 DEF InHand
<1>4. \A k \in Key : JobDue(j, k) = IF k \in ks THEN by ELSE 0
  <2>1. j # Idle /\ j.event = event
    BY DEF Idle
  <2> HIDE DEF j, event
  <2>2. QED
    BY <1>1, <2>1 DEF JobDue, Due
<1>5. \A k \in Key : JobDue(job[w], k) = 0
  BY <1>2 DEF JobDue
<1> HIDE DEF j, event
<1>6. \A v \in Worker : InHand(job[v], disturbed', stored')
  BY DEF PendingInv
<1>7. \A k \in Key \ disturbed' :
        ValueIn(stored', k) + JobDue(j, k) - (queued'[k] - finished'[k])
          = ValueIn(stored, k) + JobDue(job[w], k) - (queued[k] - finished[k])
  <2> TAKE k \in Key \ disturbed'
  <2>1. ValueIn(stored', k) = ValueIn(stored, k) /\ ValueIn(stored, k) \in Int
    BY StoredValue DEF PendingInv, PendingTypes
  <2>2. queued[k] \in Int /\ finished[k] \in Int /\ queued'[k] \in Int /\ finished'[k] \in Int
    BY DEF PendingInv, PendingTypes
  <2>3. /\ JobDue(job[w], k) = 0 /\ JobDue(j, k) = IF k \in ks THEN by ELSE 0
        /\ queued'[k] - finished'[k] = IF k \in ks THEN queued[k] - finished[k] + by
                                      ELSE queued[k] - finished[k]
    BY <1>4, <1>5
  <2>4. CASE k \in ks
    <3>1. JobDue(j, k) = by /\ by \in Int
      BY <2>3, <2>4
    <3>2. queued'[k] - finished'[k] = queued[k] - finished[k] + by
      BY <2>3, <2>4
    <3>3. ValueIn(stored, k) + by - (queued[k] - finished[k] + by)
            = ValueIn(stored, k) + 0 - (queued[k] - finished[k])
      BY ONLY <2>1, <2>2, <3>1
    <3>4. QED
      BY <2>1, <2>3, <3>1, <3>2, <3>3
  <2>5. CASE k \notin ks
    BY <2>1, <2>2, <2>3, <2>5
  <2>6. QED
    BY <2>4, <2>5
<1>8. /\ stored' \in [Key -> Int \cup {Absent}] /\ faults' \in 0..MaxFaults
      /\ disturbed \subseteq disturbed' /\ disturbed' \subseteq Key /\ requeued' = requeued
  BY DEF PendingInv, PendingTypes
<1>9. QED
  BY <1>2, <1>3, <1>6, <1>7, <1>8, JobStep

LEMMA CountedOne ==
  ASSUME NEW counts \in [Key -> 0..MaxEvents], NEW ks, \A k \in ks : counts[k] < MaxEvents
  PROVE  /\ CountOne(counts, ks) \in [Key -> 0..MaxEvents]
         /\ \A k \in Key : CountOne(counts, ks)[k] = IF k \in ks THEN counts[k] + 1 ELSE counts[k]
  BY PendingAssumption DEF CountOne

LEMMA ManuallyQueuedStep ==
  ASSUME PendingInv, NEW w \in Worker, NEW k \in Key, ManuallyQueued(w, k)
  PROVE  PendingInv'
<1>1. queued \in [Key -> 0..MaxEvents] /\ finished \in [Key -> 0..MaxEvents]
  BY DEF PendingInv, PendingTypes
<1>2. /\ queued' \in [Key -> 0..MaxEvents]
      /\ \A l \in Key : queued'[l] = IF l \in {k} THEN queued[l] + 1 ELSE queued[l]
  BY <1>1, CountedOne DEF ManuallyQueued
<1>3. UNCHANGED finished /\ Start(w, NewEvent(1, <<k>>))
      /\ UNCHANGED <<stored, requeued, faults, disturbed>>
  BY DEF ManuallyQueued
<1>4. \A l \in Key : queued'[l] - finished'[l] =
                       IF l \in {k} THEN queued[l] - finished[l] + 1
                       ELSE queued[l] - finished[l]
  BY <1>1, <1>2, <1>3
<1>5. /\ <<k>> \in Seq(Key) /\ Len(<<k>>) > 0 /\ {k} = {<<k>>[i] : i \in DOMAIN <<k>>}
      /\ \A i, l \in 1..Len(<<k>>) : <<k>>[i] = <<k>>[l] => i = l
  BY OneKey
<1>6. QED
  BY <1>1, <1>2, <1>3, <1>4, <1>5, StartStep

LEMMA ConversionFinishedStep ==
  ASSUME PendingInv, NEW w \in Worker, NEW k \in Key, ConversionFinished(w, k)
  PROVE  PendingInv'
<1>1. queued \in [Key -> 0..MaxEvents] /\ finished \in [Key -> 0..MaxEvents]
  BY DEF PendingInv, PendingTypes
<1>2. /\ finished' \in [Key -> 0..MaxEvents]
      /\ \A l \in Key : finished'[l] = IF l \in {k} THEN finished[l] + 1 ELSE finished[l]
  BY <1>1, CountedOne DEF ConversionFinished
<1>3. UNCHANGED queued /\ Start(w, NewEvent(-1, <<k>>))
      /\ UNCHANGED <<stored, requeued, faults, disturbed>>
  BY DEF ConversionFinished
<1>4. \A l \in Key : queued'[l] - finished'[l] =
                       IF l \in {k} THEN queued[l] - finished[l] + (-1)
                       ELSE queued[l] - finished[l]
  BY <1>1, <1>2, <1>3
<1>5. /\ <<k>> \in Seq(Key) /\ Len(<<k>>) > 0 /\ {k} = {<<k>>[i] : i \in DOMAIN <<k>>}
      /\ \A i, l \in 1..Len(<<k>>) : <<k>>[i] = <<k>>[l] => i = l
  BY OneKey
<1>6. QED
  BY <1>1, <1>2, <1>3, <1>4, <1>5, StartStep

LEMMA DeployedStep ==
  ASSUME PendingInv, NEW w \in Worker, NEW e \in Entity, NEW keys \in [1..2 -> Key],
         Deployed(w, e, keys)
  PROVE  PendingInv'
<1>1. queued \in [Key -> 0..MaxEvents] /\ finished \in [Key -> 0..MaxEvents]
  BY DEF PendingInv, PendingTypes
<1>2. {keys[i] : i \in DOMAIN keys} = Platform \X {e}
  BY DEF Deployed
<1>3. /\ keys \in Seq(Key) /\ Len(keys) = 2
      /\ \A i, k \in 1..Len(keys) : keys[i] = keys[k] => i = k
  BY <1>2, TwoKeys
<1>4. \A k \in Platform \X {e} : queued[k] < MaxEvents
  BY <1>2 DEF Deployed
<1>5. /\ queued' \in [Key -> 0..MaxEvents]
      /\ \A l \in Key : queued'[l] = IF l \in Platform \X {e} THEN queued[l] + 1 ELSE queued[l]
  BY <1>1, <1>4, CountedOne DEF Deployed
<1>6. /\ Start(w, NewEvent(1, keys)) /\ UNCHANGED finished
      /\ UNCHANGED <<stored, requeued, faults, disturbed>>
  BY DEF Deployed
<1>7. \A l \in Key : queued'[l] - finished'[l] =
                       IF l \in Platform \X {e} THEN queued[l] - finished[l] + 1
                       ELSE queued[l] - finished[l]
  BY <1>1, <1>5, <1>6
<1>8. Len(keys) > 0 /\ finished' \in [Key -> 0..MaxEvents]
  BY <1>1, <1>3, <1>6
<1>9. /\ UNCHANGED <<stored, requeued, faults, disturbed>>
      /\ queued' \in [Key -> 0..MaxEvents] /\ finished' \in [Key -> 0..MaxEvents]
      /\ 1 \in {1, -1} /\ Platform \X {e} = {keys[i] : i \in DOMAIN keys}
  BY <1>2, <1>5, <1>6, <1>8
<1> DEFINE ks == Platform \X {e}
<1> HIDE DEF ks
<1>10. QED
  BY <1>3, <1>6, <1>7, <1>8, <1>9, StartStep DEF ks

-----------------------------------------------------------------------------
(* The counters                                                              *)

LEMMA WorkerParts ==
  ASSUME PendingInv, NEW w \in Worker, job[w] # Idle
  PROVE  /\ job[w] \in Working /\ EventOK(job[w].event) /\ job[w].event \in Events
         /\ job[w].at \in 1..Len(job[w].event.keys) /\ KeyOf(w) \in Key
         /\ InHand(job[w], disturbed, stored)
         /\ job \in [Worker -> {Idle} \cup Working]
  BY InHandParts DEF PendingInv, PendingTypes, KeyOf

LEMMA ReadStep ==
  ASSUME PendingInv, NEW w \in Worker, Read(w)
  PROVE  PendingInv'
<1> DEFINE j == [job[w] EXCEPT !.pc = "write", !.value = Value(KeyOf(w))]
<1>1. job[w] # Idle /\ job[w].pc = "read"
  BY DEF Read, Idle
<1>2. Value(KeyOf(w)) = ValueIn(stored, KeyOf(w)) /\ ValueIn(stored, KeyOf(w)) \in Int
  BY <1>1, WorkerParts, StoredValue DEF Value, ValueIn, PendingInv, PendingTypes
<1>3. /\ j \in Working /\ j.pc = "write" /\ j.event = job[w].event /\ j.at = job[w].at
      /\ j.value = ValueIn(stored, j.event.keys[j.at])
  BY <1>1, <1>2, WorkerParts DEF Working, KeyOf
<1>4. j # Idle
  BY <1>3 DEF Idle
<1>5. job' = [job EXCEPT ![w] = j]
  BY <1>1, WorkerParts DEF Read
<1> HIDE DEF j
<1>6. InHand(j, disturbed, stored)
  BY <1>1, <1>3, WorkerParts DEF InHand
<1>7. \A k : JobDue(j, k) = JobDue(job[w], k)
  BY <1>1, <1>3, <1>4 DEF JobDue
<1>8. UNCHANGED <<stored, requeued, queued, finished, faults, disturbed>>
  BY DEF Read
<1>9. PendingTypes /\ \A v \in Worker : InHand(job[v], disturbed, stored)
  BY DEF PendingInv
<1>10. QED
  BY <1>5, <1>6, <1>7, <1>8, <1>9, JobStep DEF PendingTypes

LEMMA RestStep ==
  ASSUME PendingInv, NEW w \in Worker, Rest(w)
  PROVE  PendingInv'
<1>1. job[w] # Idle /\ job[w].pc = "rest"
  BY DEF Rest, Idle
<1>2. KeysOf(job[w].event) \subseteq job[w].event.written
  BY <1>1, WorkerParts DEF InHand
<1>3. \A k : JobDue(Idle, k) = JobDue(job[w], k)
  BY <1>1, <1>2 DEF JobDue, Due
<1>4. InHand(Idle, disturbed, stored)
  BY DEF InHand
<1>5. job' = [job EXCEPT ![w] = Idle] /\ UNCHANGED <<stored, requeued, queued, finished, faults, disturbed>>
  BY DEF Rest
<1>6. PendingTypes /\ \A v \in Worker : InHand(job[v], disturbed, stored)
  BY DEF PendingInv
<1>7. QED
  BY <1>3, <1>4, <1>5, <1>6, JobStep DEF PendingTypes

(* What is written over the value that was read is that value and the        *)
(* update.                                                                   *)
LEMMA StoredUpdate ==
  ASSUME NEW by \in {1, -1}, NEW v \in Int, NEW s, NEW k, s[k] = Stored(by, v)
  PROVE  ValueIn(s, k) = v + by /\ Stored(by, v) \in Int \cup {Absent}
<1>1. v + by \in Int /\ v + by # Absent
  BY PendingAssumption
<1>2. CASE by = -1 /\ v + by = 0
  BY <1>1, <1>2 DEF Stored, ValueIn
<1>3. CASE ~(by = -1 /\ v + by = 0)
  <2>1. Stored(by, v) = v + by
    BY <1>3 DEF Stored
  <2>2. QED
    BY <1>1, <2>1 DEF ValueIn
<1>4. QED
  BY <1>2, <1>3

LEMMA WriteStep ==
  ASSUME PendingInv, NEW w \in Worker, Write(w)
  PROVE  PendingInv'
<1> DEFINE e == job[w].event
           at == job[w].at
           k0 == KeyOf(w)
           f == [e EXCEPT !.written = @ \cup {k0}]
           j == AfterWrite(w)
<1>1. job[w] # Idle /\ job[w].pc = "write"
  BY DEF Write, Idle
<1>2. /\ job[w] \in Working /\ EventOK(e) /\ e \in Events /\ InHand(job[w], disturbed, stored)
      /\ at \in 1..Len(e.keys) /\ k0 \in Key /\ k0 = e.keys[at] /\ k0 \in KeysOf(e)
      /\ Len(e.keys) \in Nat /\ e.written \subseteq Key /\ e.by \in {1, -1}
      /\ KeysOf(e) = {e.keys[i] : i \in 1..Len(e.keys)}
  BY <1>1, WorkerParts, EventParts DEF KeyOf
<1>3. /\ f \in Events /\ f.by = e.by /\ f.keys = e.keys /\ f.written = e.written \cup {k0}
  BY <1>2 DEF Events
<1>4. EventOK(f) /\ KeysOf(f) = KeysOf(e)
  BY <1>2, <1>3 DEF EventOK, KeysOf
<1>5. \A i \in 1..Len(e.keys) :
        /\ i < at => e.keys[i] \in e.written
        /\ i >= at /\ e.keys[i] \in e.written => e.keys[i] \in disturbed
        /\ e.keys[i] = k0 => i = at
  BY <1>1, <1>2 DEF InHand, EventOK
<1>6. \/ /\ at < Len(e.keys) /\ j \in Working /\ j # Idle
         /\ j.pc = "read" /\ j.event = f /\ j.at = at + 1
      \/ /\ at = Len(e.keys) /\ j \in Working /\ j # Idle
         /\ j.pc = "rest" /\ j.event = f /\ j.at = at
      \/ at = Len(e.keys) /\ j = Idle
  <2> DEFINE r == [job[w] EXCEPT !.event.written = @ \cup {KeyOf(w)}]
  <2>1. r = [job[w] EXCEPT !.event = f]
    OBVIOUS
  <2>2. r \in Working /\ r.event = f /\ r.at = at /\ r.event.keys = e.keys
    BY <1>2, <1>3, <2>1 DEF Working
  <2>3. j = IF r.at < Len(r.event.keys) THEN [r EXCEPT !.pc = "read", !.at = @ + 1]
            ELSE IF r.event.by = -1 THEN [r EXCEPT !.pc = "rest"] ELSE Idle
    BY DEF AfterWrite
  <2> HIDE DEF r, j, f
  <2>4. CASE at < Len(e.keys)
    <3>1. j = [r EXCEPT !.pc = "read", !.at = @ + 1]
      BY <2>2, <2>3, <2>4
    <3>2. at + 1 \in Nat /\ r.at + 1 = at + 1
      BY <1>2, <2>2
    <3>3. j \in Working /\ j.pc = "read" /\ j.event = f /\ j.at = at + 1
      BY <2>2, <3>1, <3>2 DEF Working
    <3>4. QED
      BY <2>4, <3>3 DEF Idle
  <2>5. CASE at = Len(e.keys) /\ r.event.by = -1
    <3>1. j = [r EXCEPT !.pc = "rest"]
      BY <1>2, <2>2, <2>3, <2>5
    <3>2. j \in Working /\ j.pc = "rest" /\ j.event = f /\ j.at = at
      BY <2>2, <3>1 DEF Working
    <3>3. QED
      BY <2>5, <3>2 DEF Idle
  <2>6. CASE at = Len(e.keys) /\ r.event.by # -1
    BY <1>2, <2>2, <2>3, <2>6
  <2>7. QED
    BY <1>2, <2>4, <2>5, <2>6
<1>7. /\ stored' = [stored EXCEPT ![k0] = Stored(e.by, job[w].value)]
      /\ disturbed' = IF Raced(w) THEN disturbed \cup {k0} ELSE disturbed
      /\ job' = [job EXCEPT ![w] = j]
      /\ UNCHANGED <<requeued, queued, finished, faults>>
  BY DEF Write
<1>8. /\ stored \in [Key -> Int \cup {Absent}] /\ disturbed \subseteq Key
      /\ queued \in [Key -> 0..MaxEvents] /\ finished \in [Key -> 0..MaxEvents]
      /\ faults \in 0..MaxFaults
  BY DEF PendingInv, PendingTypes
<1>9. /\ stored'[k0] = Stored(e.by, job[w].value)
      /\ \A k \in Key : k # k0 => stored'[k] = stored[k]
      /\ job[w].value \in Int
  BY <1>2, <1>7, <1>8 DEF Working
<1> HIDE DEF f, j, e, at, k0
<1>10. /\ ValueIn(stored', k0) = job[w].value + e.by
       /\ stored' \in [Key -> Int \cup {Absent}]
  <2>1. /\ ValueIn(stored', k0) = job[w].value + e.by
        /\ Stored(e.by, job[w].value) \in Int \cup {Absent}
    BY <1>2, <1>9, StoredUpdate
  <2>2. QED
    BY <1>7, <1>8, <2>1
<1>11. InHand(j, disturbed', stored')
  <2>1. disturbed \subseteq disturbed'
    BY <1>7
  <2>2. CASE j = Idle
    BY <2>2 DEF InHand
  <2>3. CASE j # Idle /\ j.pc = "read"
    <3>1. at < Len(e.keys) /\ j \in Working /\ j.event = f /\ j.at = at + 1
      BY <1>6, <2>3
    <3>2. \A i \in 1..Len(e.keys) : IF i < at + 1 THEN e.keys[i] \in f.written
                                    ELSE e.keys[i] \in f.written => e.keys[i] \in disturbed'
      BY <1>2, <1>3, <1>5, <2>1
    <3>3. QED
      BY <1>2, <1>3, <1>4, <2>3, <3>1, <3>2 DEF InHand
  <2>4. CASE j # Idle /\ j.pc # "read"
    <3>1. at = Len(e.keys) /\ j \in Working /\ j.pc = "rest" /\ j.event = f /\ j.at = at
      BY <1>6, <2>4
    <3>2. KeysOf(f) \subseteq f.written
      BY <1>2, <1>3, <1>4, <1>5, <3>1
    <3>3. QED
      BY <1>2, <1>3, <1>4, <3>1, <3>2 DEF InHand
  <2>5. QED
    BY <2>2, <2>3, <2>4
<1>12. \A k \in Key : JobDue(j, k) = IF k = k0 THEN 0 ELSE JobDue(job[w], k)
  <2> TAKE k \in Key
  <2>1. JobDue(job[w], k) = IF k \in KeysOf(e) \ e.written THEN e.by ELSE 0
    BY <1>1 DEF JobDue, Due, e
  <2>2. CASE j # Idle
    <3>1. j.event = f
      BY <1>6, <2>2
    <3>2. JobDue(j, k) = IF k \in KeysOf(e) \ f.written THEN e.by ELSE 0
      BY <1>3, <1>4, <2>2, <3>1 DEF JobDue, Due
    <3>3. QED
      BY <1>3, <2>1, <3>2
  <2>3. CASE j = Idle
    <3>1. at = Len(e.keys)
      BY <1>6, <2>3
    <3>2. KeysOf(e) \subseteq e.written \cup {k0}
      BY <1>2, <1>5, <3>1
    <3>3. QED
      BY <2>1, <2>3, <3>2 DEF JobDue
  <2>4. QED
    BY <2>2, <2>3
<1>13. ASSUME NEW v \in Worker \ {w} PROVE InHand(job[v], disturbed', stored')
  <2>1. InHand(job[v], disturbed, stored)
    BY DEF PendingInv
  <2>2. CASE Raced(w)
    <3>1. disturbed \subseteq disturbed' /\ \A k \in Key \ disturbed' : stored'[k] = stored[k]
      BY <1>7, <1>9, <2>2
    <3>2. QED
      BY <2>1, <3>1, StaysInHand
  <2>3. CASE ~Raced(w)
    <3>1. disturbed' = disturbed /\ ~(job[v].pc = "write" /\ KeyOf(v) = k0)
      BY <1>7, <2>3 DEF Raced, k0
    <3>2. CASE job[v] = Idle
      BY <3>2 DEF InHand
    <3>3. CASE job[v] # Idle
      <4>1. KeyOf(v) \in Key
        BY <3>3, WorkerParts
      <4>2. job[v].pc = "write" => ValueIn(stored', KeyOf(v)) = ValueIn(stored, KeyOf(v))
        BY <1>9, <3>1, <4>1 DEF ValueIn
      <4>3. QED
        BY <2>1, <3>1, <3>3, <4>2 DEF InHand, KeyOf
    <3>4. QED
      BY <3>2, <3>3
  <2>4. QED
    BY <2>2, <2>3
<1>14. ASSUME NEW k \in Key \ disturbed'
       PROVE  ValueIn(stored', k) + JobDue(j, k) - (queued'[k] - finished'[k])
                = ValueIn(stored, k) + JobDue(job[w], k) - (queued[k] - finished[k])
  <2>1. /\ queued'[k] = queued[k] /\ finished'[k] = finished[k]
        /\ queued[k] \in Int /\ finished[k] \in Int
    BY <1>7, <1>8
  <2>2. CASE k # k0
    <3>1. ValueIn(stored', k) = ValueIn(stored, k)
      BY <1>9, <2>2 DEF ValueIn
    <3>2. QED
      BY <1>12, <2>1, <2>2, <3>1
  <2>3. CASE k = k0
    <3>1. k0 \notin disturbed
      BY <1>7, <2>3
    <3>2. job[w].value = ValueIn(stored, k0)
      BY <1>1, <1>2, <3>1 DEF InHand, e, at
    <3>3. k0 \notin e.written
      BY <1>2, <1>5, <3>1
    <3>4. JobDue(job[w], k) = e.by /\ JobDue(j, k) = 0
      BY <1>1, <1>2, <1>12, <2>3, <3>3 DEF JobDue, Due, e
    <3>5. ValueIn(stored', k) = ValueIn(stored, k) + e.by
      BY <1>10, <2>3, <3>2
    <3>6. e.by \in Int /\ ValueIn(stored, k) \in Int
      BY <1>2, <1>9, <2>3, <3>2
    <3>7. QED
      BY <2>1, <3>4, <3>5, <3>6
  <2>4. QED
    BY <2>2, <2>3
<1>15. disturbed \subseteq disturbed' /\ disturbed' \subseteq Key
  BY <1>2, <1>7, <1>8
<1>16. /\ queued' \in [Key -> 0..MaxEvents] /\ finished' \in [Key -> 0..MaxEvents]
       /\ faults' \in 0..MaxFaults /\ requeued' = requeued /\ job' = [job EXCEPT ![w] = j]
  BY <1>7, <1>8
<1>17. QED
  BY <1>10, <1>11, <1>13, <1>14, <1>15, <1>16, JobStep

-----------------------------------------------------------------------------
(* Retries and faults                                                        *)

\* What a retry still owes goes from the queue to the worker.
LEMMA RetriedStep ==
  ASSUME PendingInv, NEW w \in Worker, NEW event \in BagToSet(requeued), Retried(w, event)
  PROVE  PendingInv'
<1> DEFINE j == [pc |-> "read", event |-> event, at |-> 1, value |-> 0]
<1>1. /\ EventOK(event) /\ event \in Events /\ 1 \in 1..Len(event.keys)
      /\ event.written \subseteq Key
  <2>1. EventOK(event) /\ event \in Events /\ Len(event.keys) > 0
    BY DEF PendingInv, PendingTypes, EventOK
  <2>2. QED
    BY <2>1, EventParts
<1>2. /\ job[w] = Idle /\ job' = [job EXCEPT ![w] = j] /\ requeued' = requeued (-) One(event)
      /\ disturbed' = disturbed \cup event.written
      /\ UNCHANGED <<stored, queued, finished, faults>>
  BY DEF Retried, Start
<1>3. /\ j.pc = "read" /\ j.event = event /\ j.at = 1 /\ j \in Working /\ j # Idle
  BY <1>1 DEF Working, Idle
<1> HIDE DEF j
<1>4. PendingTypes
  BY DEF PendingInv
<1>5. /\ job' \in [Worker -> {Idle} \cup Working]
      /\ job'[w] = j /\ \A v \in Worker \ {w} : job'[v] = job[v]
  BY <1>2, <1>3, <1>4 DEF PendingTypes
<1>6. InHand(j, disturbed', stored')
  BY <1>1, <1>2, <1>3 DEF InHand
<1>7. \A v \in Worker \ {w} : InHand(job[v], disturbed', stored')
  BY <1>2, StaysInHand DEF PendingInv
<1>8. IsABag(requeued') /\ \A e \in BagToSet(requeued') : EventOK(e)
  BY <1>2, <1>4, BagOfEvents DEF PendingTypes
<1>9. PendingTypes'
  BY <1>1, <1>2, <1>4, <1>5, <1>8 DEF PendingTypes
<1>10. ASSUME NEW k \in Key
       PROVE  /\ CountedDebt(job', requeued', k)
              /\ Debt(job', requeued', k) = Debt(job, requeued, k)
  <2>1. CountedDebt(job, requeued, k) /\ IsABag(requeued)
    BY <1>4 DEF PendingInv, Balanced, PendingTypes
  <2>2. CountedDebt(job, requeued', k)
    BY <1>1, <1>2, <2>1, RemoveDebt
  <2>3. Debt(job, requeued', k) = Debt(job, requeued, k) - Due(event, k)
    BY <1>1, <1>2, <2>1, RemoveDebt
  <2>4. ASSUME NEW jobs, NEW next, NEW bag, jobs = job, next = job', bag = requeued'
        PROVE  /\ CountedDebt(next, bag, k)
               /\ Debt(next, bag, k) = Debt(jobs, bag, k) - JobDue(jobs[w], k) + JobDue(next[w], k)
    <3>1. /\ \A v \in Worker \ {w} : next[v] = jobs[v]
          /\ CountedDebt(jobs, bag, k)
          /\ jobs[w] # Idle => jobs[w].event \in Events
          /\ next[w] # Idle => next[w].event \in Events
      BY <1>1, <1>2, <1>3, <1>5, <2>2, <2>4
    <3>2. QED
      BY ONLY <3>1, JobDebt
  <2>5. JobDue(job[w], k) = 0 /\ JobDue(job'[w], k) = Due(event, k)
    BY <1>2, <1>3, <1>5 DEF JobDue
  <2>6. Debt(job, requeued, k) \in Int /\ Due(event, k) \in Int
    BY <1>1, <2>1, DebtInteger DEF Due, Events
  <2>7. QED
    BY <2>3, <2>4, <2>5, <2>6
<1>11. Balanced'
  BY <1>2, <1>10 DEF PendingInv, Balanced
<1>12. QED
  BY <1>5, <1>6, <1>7, <1>9, <1>11 DEF PendingInv

\* An event is given up: what it still owed is disturbed.
LEMMA GiveUpStep ==
  ASSUME PendingInv, NEW w \in Worker, job[w] # Idle, job' = [job EXCEPT ![w] = Idle],
         faults' \in 0..MaxFaults,
         disturbed' = disturbed \cup (KeysOf(job[w].event) \ job[w].event.written),
         UNCHANGED <<stored, requeued, queued, finished>>
  PROVE  PendingInv'
<1>1. InHand(Idle, disturbed', stored')
  BY DEF InHand
<1>2. \A v \in Worker \ {w} : InHand(job[v], disturbed', stored')
  BY StaysInHand DEF PendingInv
<1>3. \A k \in Key \ disturbed' : JobDue(Idle, k) = JobDue(job[w], k)
  BY DEF JobDue, Due
<1>4. disturbed' \subseteq Key
  BY WorkerParts, EventParts DEF PendingInv, PendingTypes
<1>5. PendingTypes
  BY DEF PendingInv
<1>6. QED
  BY <1>1, <1>2, <1>3, <1>4, <1>5, JobStep DEF PendingTypes

\* An event waits for its retry: it still owes what it owed.
LEMMA RequeueStep ==
  ASSUME PendingInv, NEW w \in Worker, NEW f, job[w] # Idle, job' = [job EXCEPT ![w] = Idle],
         f = [job[w].event EXCEPT !.retries = @ + 1], job[w].event.retries < MaxRetries,
         requeued' = requeued (+) One(f), faults' \in 0..MaxFaults,
         UNCHANGED <<stored, queued, finished, disturbed>>
  PROVE  PendingInv'
<1> DEFINE e == job[w].event
<1>1. EventOK(e) /\ e \in Events
  BY WorkerParts
<1>2. /\ f \in Events /\ f.by = e.by /\ f.keys = e.keys /\ f.written = e.written
  BY <1>1, PendingAssumption DEF Events
<1>3. EventOK(f) /\ KeysOf(f) = KeysOf(e)
  BY <1>1, <1>2 DEF EventOK, KeysOf
<1>4. PendingTypes
  BY DEF PendingInv
<1>5. /\ job' \in [Worker -> {Idle} \cup Working]
      /\ job'[w] = Idle /\ \A v \in Worker \ {w} : job'[v] = job[v]
  BY <1>4 DEF PendingTypes
<1>6. IsABag(requeued') /\ \A d \in BagToSet(requeued') : EventOK(d)
  BY <1>3, <1>4, BagOfEvents DEF PendingTypes
<1>7. PendingTypes'
  BY <1>4, <1>5, <1>6 DEF PendingTypes
<1>8. \A v \in Worker : InHand(job'[v], disturbed', stored')
  BY <1>5 DEF PendingInv, InHand
<1>9. ASSUME NEW k \in Key
      PROVE  /\ CountedDebt(job', requeued', k)
             /\ Debt(job', requeued', k) = Debt(job, requeued, k)
  <2>1. CountedDebt(job, requeued, k) /\ IsABag(requeued)
    BY <1>4 DEF PendingInv, Balanced, PendingTypes
  <2>2. CountedDebt(job, requeued', k)
    BY <1>2, <2>1, AddDebt
  <2>3. Debt(job, requeued', k) = Debt(job, requeued, k) + Due(f, k)
    BY <1>2, <2>1, AddDebt
  <2>4. ASSUME NEW jobs, NEW next, NEW bag, jobs = job, next = job', bag = requeued'
        PROVE  /\ CountedDebt(next, bag, k)
               /\ Debt(next, bag, k) = Debt(jobs, bag, k) - JobDue(jobs[w], k) + JobDue(next[w], k)
    <3>1. /\ \A v \in Worker \ {w} : next[v] = jobs[v]
          /\ CountedDebt(jobs, bag, k)
          /\ jobs[w] # Idle => jobs[w].event \in Events
          /\ next[w] # Idle => next[w].event \in Events
      BY <1>1, <1>5, <2>2, <2>4
    <3>2. QED
      BY ONLY <3>1, JobDebt
  <2>5. JobDue(job[w], k) = Due(f, k) /\ JobDue(job'[w], k) = 0
    BY <1>2, <1>3, <1>5 DEF JobDue, Due
  <2>6. Debt(job, requeued, k) \in Int /\ Due(f, k) \in Int
    BY <1>2, <2>1, DebtInteger DEF Due, Events
  <2>7. /\ CountedDebt(job', requeued', k)
        /\ Debt(job', requeued', k) =
             Debt(job, requeued', k) - JobDue(job[w], k) + JobDue(job'[w], k)
    BY <2>4
  <2>8. QED
    BY <2>3, <2>5, <2>6, <2>7
<1>10. Balanced'
  BY <1>9 DEF PendingInv, Balanced
<1>11. QED
  BY <1>7, <1>8, <1>10 DEF PendingInv

LEMMA FailStep ==
  ASSUME PendingInv, NEW w \in Worker, Fail(w)
  PROVE  PendingInv'
<1>1. faults' \in 0..MaxFaults
  BY PendingAssumption DEF Fail, PendingInv, PendingTypes
<1>2. /\ job[w] # Idle /\ job' = [job EXCEPT ![w] = Idle]
      /\ UNCHANGED <<stored, queued, finished>>
  BY DEF Fail
<1>3. CASE /\ job[w].event.retries < MaxRetries
           /\ requeued' = requeued (+) One([job[w].event EXCEPT !.retries = @ + 1])
           /\ UNCHANGED disturbed
  BY <1>1, <1>2, <1>3, RequeueStep
<1>4. CASE /\ disturbed' = disturbed \cup (KeysOf(job[w].event) \ job[w].event.written)
           /\ UNCHANGED requeued
  BY <1>1, <1>2, <1>4, GiveUpStep
<1>5. QED
  BY <1>3, <1>4 DEF Fail

\* Counters disappear; the others stay as they are.
LEMMA PurgeStep ==
  ASSUME PendingInv, NEW ks \in SUBSET Key, disturbed' = disturbed \cup ks,
         stored' \in [Key -> Int \cup {Absent}],
         \A k \in Key \ ks : stored'[k] = stored[k],
         faults' \in 0..MaxFaults, UNCHANGED <<job, requeued, queued, finished>>
  PROVE  PendingInv'
<1>1. PendingTypes'
  BY DEF PendingInv, PendingTypes
<1>2. \A w \in Worker : InHand(job'[w], disturbed', stored')
  BY StaysInHand DEF PendingInv
<1>3. Balanced'
  BY DEF PendingInv, Balanced, ValueIn
<1>4. QED
  BY <1>1, <1>2, <1>3 DEF PendingInv

LEMMA ExpireStep ==
  ASSUME PendingInv, NEW k \in Key, Expire(k)
  PROVE  PendingInv'
<1>1. faults' \in 0..MaxFaults
  BY PendingAssumption DEF Expire, PendingInv, PendingTypes
<1>2. /\ stored' \in [Key -> Int \cup {Absent}]
      /\ \A l \in Key \ {k} : stored'[l] = stored[l]
  BY DEF Expire, PendingInv, PendingTypes
<1>3. {k} \in SUBSET Key /\ disturbed' = disturbed \cup {k} /\ UNCHANGED <<job, requeued, queued, finished>>
  BY DEF Expire
<1>4. QED
  BY <1>1, <1>2, <1>3, PurgeStep

LEMMA FlushCacheStep ==
  ASSUME PendingInv, FlushCache
  PROVE  PendingInv'
<1>1. faults' \in 0..MaxFaults
  BY PendingAssumption DEF FlushCache, PendingInv, PendingTypes
<1>2. PICK K \in SUBSET Key :
        /\ stored' = [k \in Key |-> IF k \in K THEN Absent ELSE stored[k]]
        /\ disturbed' = disturbed \cup K
  BY DEF FlushCache
<1>3. stored' \in [Key -> Int \cup {Absent}] /\ \A l \in Key \ K : stored'[l] = stored[l]
  BY <1>2 DEF PendingInv, PendingTypes
<1>4. UNCHANGED <<job, requeued, queued, finished>>
  BY DEF FlushCache
<1>5. QED
  BY <1>1, <1>2, <1>3, <1>4, PurgeStep

-----------------------------------------------------------------------------
(* Theorems                                                                  *)

(* PendingInv holds in every reachable state: what an undisturbed counter    *)
(* stores and what is owed to it make up what it counts.                     *)
THEOREM PendingInvariant == PendingSpec => []PendingInv
<1>1. ASSUME PendingInv, PendingNext PROVE PendingInv'
  <2>1. ASSUME NEW w \in Worker, Step(w) PROVE PendingInv'
    <3>1. CASE \E k \in Key : ManuallyQueued(w, k)
      BY <1>1, <3>1, ManuallyQueuedStep
    <3>2. CASE \E k \in Key : ConversionFinished(w, k)
      BY <1>1, <3>2, ConversionFinishedStep
    <3>3. CASE \E e \in Entity, keys \in [1..2 -> Key] : Deployed(w, e, keys)
      BY <1>1, <3>3, DeployedStep
    <3>4. CASE \E event \in BagToSet(requeued) : Retried(w, event)
      BY <1>1, <3>4, RetriedStep
    <3>5. CASE Read(w)
      BY <1>1, <3>5, ReadStep
    <3>6. CASE Write(w)
      BY <1>1, <3>6, WriteStep
    <3>7. CASE Rest(w)
      BY <1>1, <3>7, RestStep
    <3>8. CASE Fail(w)
      BY <1>1, <3>8, FailStep
    <3>9. QED
      BY <2>1, <3>1, <3>2, <3>3, <3>4, <3>5, <3>6, <3>7, <3>8 DEF Step
  <2>2. CASE \E k \in Key : Expire(k)
    BY <1>1, <2>2, ExpireStep
  <2>3. CASE FlushCache
    BY <1>1, <2>3, FlushCacheStep
  <2>4. QED
    BY <1>1, <2>1, <2>2, <2>3 DEF PendingNext
<1>2. ASSUME PendingInv, UNCHANGED pendingVars PROVE PendingInv'
  BY <1>2 DEF pendingVars, PendingInv, PendingTypes, Balanced
<1>3. QED
  BY PendingBegins, <1>1, <1>2, PTL DEF PendingSpec

(* The variables always have their types: the workers hold well-formed      *)
(* events at one of their keys, and the bag of retries is a bag.            *)
THEOREM PendingTypesHold == PendingSpec => []PendingTypeOK
<1>1. PendingInv => PendingTypeOK
  BY DEF PendingInv, PendingTypes, PendingTypeOK, InHand, Working, EventOK
<1>2. QED
  BY <1>1, PendingInvariant, PTL

(* A counter that nothing disturbed and no event is about counts the         *)
(* conversions in progress: queued, and without a result.                    *)
THEOREM CountersHold == PendingSpec => []CountersExact
<1>1. ASSUME PendingInv, NEW k \in Key, Settled(k), k \notin disturbed
      PROVE  Value(k) = queued[k] - finished[k]
  <2>1. ASSUME NEW by PROVE Owed(job, requeued, k, by) = {}
    BY <1>1 DEF Settled, Owed, JobOwes, Owes
  <2>2. Debt(job, requeued, k) = 0
    BY <2>1, NothingOwed
  <2>3. ValueIn(stored, k) + Debt(job, requeued, k) = queued[k] - finished[k]
    BY <1>1 DEF PendingInv, Balanced
  <2>4. ValueIn(stored, k) \in Int
    BY <1>1, StoredValue DEF PendingInv, PendingTypes
  <2>5. QED
    BY <2>2, <2>3, <2>4 DEF Value, ValueIn
<1>2. PendingInv => CountersExact
  BY <1>1 DEF CountersExact
<1>3. QED
  BY <1>2, PendingInvariant, PTL

=============================================================================
