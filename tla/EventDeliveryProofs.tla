------------------------ MODULE EventDeliveryProofs ------------------------
(***************************************************************************)
(* Theorems about the delivery of events, for any events, handlers and     *)
(* consumers, any batch size, number of retries and number of faults.      *)
(*                                                                         *)
(* An event may be lost only if it is endangered: one of its handlers      *)
(* still has to run, and no copy of the event would run it.  Each fault    *)
(* endangers one event at most.                                            *)
(*                                                                         *)
(* What a handler has run on an event is counted together with what it may *)
(* still be made to run by the copies of the event, wherever they are: a   *)
(* fault that makes messages visible again at most doubles the sum.        *)
(***************************************************************************)
EXTENDS EventDelivery, FiniteSetTheorems, TLAPS

-----------------------------------------------------------------------------
(* Bags                                                                      *)

LEMMA UnionMembers ==
  ASSUME NEW B, NEW C, IsABag(B), IsABag(C)
  PROVE  /\ BagToSet(B (+) C) = BagToSet(B) \cup BagToSet(C)
         /\ IsABag(B (+) C)
  BY DEF BagToSet, (+), IsABag

LEMMA SetAsBag ==
  ASSUME NEW S
  PROVE  BagToSet(SetToBag(S)) = S /\ IsABag(SetToBag(S))
  BY DEF BagToSet, SetToBag, IsABag

LEMMA RemoveMember ==
  ASSUME NEW B, NEW m, IsABag(B)
  PROVE  /\ BagToSet(B (-) One(m)) \subseteq BagToSet(B)
         /\ BagToSet(B) \subseteq BagToSet(B (-) One(m)) \cup {m}
         /\ IsABag(B (-) One(m))
<1> DEFINE D == [e \in DOMAIN B |-> IF e \in {m} THEN B[e] - 1 ELSE B[e]]
<1>1. B (-) One(m) = [e \in {d \in DOMAIN D : D[d] > 0} |-> D[e]]
  BY DEF (-), One, SetToBag
<1>2. D \in [DOMAIN B -> Int] /\ \A e \in DOMAIN B : e # m => D[e] > 0
  BY DEF IsABag
<1> HIDE DEF D
<1>3. QED
  BY <1>1, <1>2 DEF BagToSet, IsABag

LEMMA EmptyMembers == BagToSet(EmptyBag) = {} /\ IsABag(EmptyBag)
  BY SetAsBag DEF EmptyBag

LEMMA BatchMembers ==
  ASSUME NEW B \in Batches, IsABag(visible)
  PROVE  /\ IsABag(B) /\ IsABag(visible (-) B)
         /\ BagToSet(visible) = BagToSet(visible (-) B) \cup BagToSet(B)
<1>1. PICK S \in SUBSET BagToSet(visible) : B \in [S -> 1..BatchSize]
  BY DEF Batches
<1>2. IsABag(B) /\ BagToSet(B) = S
  BY <1>1, DeliveryAssumption DEF IsABag, BagToSet
<1> DEFINE D == [e \in DOMAIN visible |-> IF e \in DOMAIN B THEN visible[e] - B[e]
                                          ELSE visible[e]]
<1>3. visible (-) B = [e \in {d \in DOMAIN D : D[d] > 0} |-> D[e]]
  BY DEF (-)
<1>4. D \in [DOMAIN visible -> Int]
  BY <1>1, DeliveryAssumption DEF IsABag, BagToSet
<1>5. \A e \in DOMAIN visible \ DOMAIN B : D[e] = visible[e] /\ D[e] > 0
  BY DEF IsABag
<1> HIDE DEF D
<1>6. IsABag(visible (-) B)
  BY <1>3, <1>4 DEF IsABag
<1>7. BagToSet(visible (-) B) = {d \in DOMAIN visible : D[d] > 0}
  BY <1>3, <1>4 DEF BagToSet
<1>8. QED
  BY <1>1, <1>2, <1>5, <1>6, <1>7 DEF BagToSet

-----------------------------------------------------------------------------
(* Counting                                                                  *)

AtMost(S, n) == IsFiniteSet(S) /\ Cardinality(S) <= n

LEMMA NoMore ==
  ASSUME NEW S, NEW T, NEW n \in Nat, AtMost(S, n), T \subseteq S
  PROVE  AtMost(T, n)
<1>1. IsFiniteSet(S) /\ Cardinality(S) <= n /\ T \in SUBSET S
  BY DEF AtMost
<1>2. Cardinality(S) \in Nat
  BY <1>1, FS_CardinalityType
<1>3. IsFiniteSet(T) /\ Cardinality(T) <= Cardinality(S)
  BY <1>1, FS_Subset
<1>4. Cardinality(T) \in Nat
  BY <1>3, FS_CardinalityType
<1>5. QED
  BY <1>1, <1>2, <1>3, <1>4 DEF AtMost

LEMMA OneMore ==
  ASSUME NEW S, NEW T, NEW x, NEW n \in Nat, AtMost(S, n), T \subseteq S \cup {x}
  PROVE  AtMost(T, n + 1)
<1>1. IsFiniteSet(S) /\ Cardinality(S) <= n
  BY DEF AtMost
<1>2. Cardinality(S) \in Nat
  BY <1>1, FS_CardinalityType
<1>3. /\ IsFiniteSet(S \cup {x})
      /\ Cardinality(S \cup {x}) = IF x \in S THEN Cardinality(S) ELSE Cardinality(S) + 1
  BY <1>1, FS_AddElement
<1>4. AtMost(S \cup {x}, n + 1)
  BY <1>1, <1>2, <1>3 DEF AtMost
<1>5. QED
  BY <1>4, NoMore

-----------------------------------------------------------------------------
(* What the messages and the consumers know                                  *)

\* What a message says has failed has failed as often as it says.
Honest(m, fails) ==
  /\ m \in Message
  /\ m.failed = {} => m.attempt = 0
  /\ \A h \in m.failed : fails[m.event][h] >= m.attempt

\* The message m is in the hands of a consumer, whose state is r.
InHands(r, m, ok, fails) ==
  /\ r.current = {m}
  /\ Honest(m, fails)
  /\ r.todo \cup r.failed \subseteq HandlersToRun(m)
  /\ r.todo \cap r.failed = {}
  /\ \A h \in r.failed : fails[m.event][h] >= m.attempt + 1
  /\ \A h \in HandlersToRun(m) : h \in r.todo \cup r.failed \/ ok[m.event][h] # 0
  /\ r.pc = "resend" => r.todo = {} /\ r.failed # {}

IsState(r) ==
  /\ DOMAIN r = {"pc", "batch", "current", "todo", "failed", "late"}
  /\ r = [x \in DOMAIN r |-> r[x]]

Sensible(r, ok, fails) ==
  /\ IsState(r)
  /\ r.pc \in {"receive", "next", "handle", "resend", "discard"}
  /\ r.late \in BOOLEAN
  /\ IsABag(r.batch) /\ \A m \in BagToSet(r.batch) : Honest(m, fails)
  /\ r.pc = "receive" => BagToSet(r.batch) = {}
  /\ r.pc \in {"receive", "next"} => r.current = {} /\ r.todo = {} /\ r.failed = {}
  /\ r.pc \in {"handle", "resend", "discard"} => \E m : InHands(r, m, ok, fails)

Counts ==
  /\ done \in [Event -> [Handler -> Nat]]
  /\ failures \in [Event -> [Handler -> 0..MaxRetries]]
  /\ faults \in 0..MaxFaults

Delivering ==
  /\ Counts
  /\ IsABag(visible) /\ \A m \in BagToSet(visible) : Honest(m, failures)
  /\ consumer = [c \in Consumer |-> consumer[c]]
  /\ \A c \in Consumer : Sensible(consumer[c], done, failures)

-----------------------------------------------------------------------------
(* Endangered events                                                         *)

Offers(m, e, h) == m.event = e /\ h \in HandlersToRun(m)

\* The consumer will run h on e, or put a message back that will.
Promises(r, e, h) ==
  \/ /\ ~r.late
     /\ \E m \in BagToSet(r.batch) \cup (IF r.pc = "handle" THEN r.current ELSE {}) :
          Offers(m, e, h)
  \/ /\ r.pc = "resend" /\ h \in r.failed
     /\ \E m \in r.current : m.event = e

Settled(e, h) == done[e][h] # 0 \/ failures[e][h] = MaxRetries

Offered(e, h) == \E m \in BagToSet(visible) : Offers(m, e, h)

Covered(e, h) ==
  Settled(e, h) \/ Offered(e, h) \/ \E c \in Consumer : Promises(consumer[c], e, h)

Discarding(r, e) == r.pc = "discard" /\ \E m \in r.current : m.event = e

Endangered ==
  {e \in Event : \/ \E h \in HandlersOf[e] : ~Covered(e, h)
                 \/ \E c \in Consumer : Discarding(consumer[c], e)}

DeliveryInv == Delivering /\ AtMost(Endangered, faults)

LEMMA LostIsEndangered ==
  ASSUME Delivering, NEW e \in Event, Lost(e)
  PROVE  e \in Endangered
<1>1. PICK h \in HandlersOf[e] : done[e][h] = 0 /\ failures[e][h] < MaxRetries
  BY DEF Lost
<1>2. ~Settled(e, h)
  BY <1>1, DeliveryAssumption DEF Settled, Delivering, Counts
<1>3. ~Offered(e, h)
  BY DEF Lost, Gone, Offered, Offers
<1>4. ASSUME NEW c \in Consumer PROVE ~Promises(consumer[c], e, h)
  BY DEF Lost, Gone, Holds, Promises, Offers
<1>5. QED
  BY <1>2, <1>3, <1>4 DEF Endangered, Covered

LEMMA InvBoundsLoss == DeliveryInv => LossBounded
<1> SUFFICES ASSUME DeliveryInv PROVE LossBounded
  OBVIOUS
<1>1. {e \in Event : Lost(e)} \subseteq Endangered
  BY LostIsEndangered DEF DeliveryInv
<1>2. faults \in Nat
  BY DeliveryAssumption DEF DeliveryInv, Delivering, Counts
<1>3. QED
  BY <1>1, <1>2, NoMore DEF DeliveryInv, AtMost, LossBounded

-----------------------------------------------------------------------------
(* Frames                                                                    *)

\* Successes and failures are counted up.
Grown(ok, ok2, fails, fails2) ==
  /\ ok \in [Event -> [Handler -> Nat]] /\ ok2 \in [Event -> [Handler -> Nat]]
  /\ fails \in [Event -> [Handler -> 0..MaxRetries]]
  /\ fails2 \in [Event -> [Handler -> 0..MaxRetries]]
  /\ \A e \in Event, h \in Handler :
       (ok[e][h] # 0 => ok2[e][h] # 0) /\ fails[e][h] <= fails2[e][h]

LEMMA GrownHonest ==
  ASSUME NEW ok, NEW ok2, NEW fails, NEW fails2, Grown(ok, ok2, fails, fails2),
         NEW m, Honest(m, fails)
  PROVE  Honest(m, fails2)
<1>1. m.event \in Event /\ m.attempt \in Int /\ m.failed \subseteq Handler
  BY DeliveryAssumption DEF Honest, Message
<1>2. ASSUME NEW h \in m.failed PROVE fails2[m.event][h] >= m.attempt
  <2>1. fails[m.event][h] >= m.attempt /\ fails[m.event][h] <= fails2[m.event][h]
    BY <1>1 DEF Honest, Grown
  <2>2. fails[m.event][h] \in Int /\ fails2[m.event][h] \in Int
    BY <1>1, DeliveryAssumption DEF Grown
  <2>3. QED
    BY <1>1, <2>1, <2>2
<1>3. QED
  BY <1>2 DEF Honest

LEMMA RunHandlers ==
  ASSUME NEW m \in Message
  PROVE  /\ HandlersToRun(m) \subseteq HandlersOf[m.event]
         /\ HandlersToRun(m) \subseteq Handler
         /\ m.event \in Event /\ m.attempt \in 0..MaxRetries
         /\ m.attempt \in Nat /\ MaxRetries \in Nat
         /\ \A h \in HandlersToRun(m) : m.attempt < MaxRetries
         /\ \A h \in HandlersToRun(m) : m.failed = {} \/ h \in m.failed
<1>1. m.event \in Event /\ m.attempt \in 0..MaxRetries
  BY DEF Message
<1>2. HandlersOf[m.event] \subseteq Handler
  BY <1>1, DeliveryAssumption
<1>3. QED
  BY <1>1, <1>2, DeliveryAssumption DEF HandlersToRun

LEMMA GrownSensible ==
  ASSUME NEW ok, NEW ok2, NEW fails, NEW fails2, Grown(ok, ok2, fails, fails2),
         NEW r, Sensible(r, ok, fails)
  PROVE  Sensible(r, ok2, fails2)
<1>1. \A m \in BagToSet(r.batch) : Honest(m, fails2)
  BY GrownHonest DEF Sensible
<1>2. ASSUME NEW m, InHands(r, m, ok, fails) PROVE InHands(r, m, ok2, fails2)
  <2>1. Honest(m, fails2) /\ m \in Message
    BY <1>2, GrownHonest DEF InHands, Honest
  <2>2. m.event \in Event /\ m.attempt \in Nat /\ HandlersToRun(m) \subseteq Handler
    BY <2>1, RunHandlers
  <2>3. \A h \in Handler : /\ fails[m.event][h] \in Int /\ fails2[m.event][h] \in Int
                           /\ fails[m.event][h] <= fails2[m.event][h]
                           /\ ok[m.event][h] # 0 => ok2[m.event][h] # 0
    BY <2>2, DeliveryAssumption DEF Grown
  <2>4. r.failed \subseteq Handler
    BY <1>2, <2>2 DEF InHands
  <2>5. \A h \in r.failed : fails2[m.event][h] >= m.attempt + 1
    BY <1>2, <2>2, <2>3, <2>4 DEF InHands
  <2>6. QED
    BY <1>2, <2>1, <2>2, <2>3, <2>5 DEF InHands
<1>3. QED
  BY <1>1, <1>2 DEF Sensible

\* A step of consumer c that leaves it in the state r.
LEMMA DeliveringStep ==
  ASSUME Delivering, NEW c \in Consumer, NEW r, Set(c, r), Counts',
         Grown(done, done', failures, failures'),
         Sensible(r, done', failures'),
         IsABag(visible'), \A m \in BagToSet(visible') : Honest(m, failures')
  PROVE  Delivering'
<1>1. consumer' = [d \in Consumer |-> IF d = c THEN r ELSE consumer[d]]
  BY DEF Delivering, Set
<1>2. \A d \in Consumer : Sensible(consumer'[d], done', failures')
  BY <1>1, GrownSensible DEF Delivering
<1>3. consumer' = [d \in Consumer |-> consumer'[d]]
  BY <1>1
<1>4. QED
  BY <1>2, <1>3 DEF Delivering

\* An event that c does not put at risk stays out of danger.
LEMMA SafeStep ==
  ASSUME Delivering, NEW c \in Consumer, NEW r, Set(c, r),
         Grown(done, done', failures, failures'),
         NEW e \in Event, e \notin Endangered, ~Discarding(r, e),
         \A h \in HandlersOf[e] :
           Offered(e, h) \/ Promises(consumer[c], e, h) =>
             Settled(e, h)' \/ Offered(e, h)' \/ Promises(r, e, h)
  PROVE  e \notin Endangered'
<1>1. /\ consumer'[c] = r
      /\ \A d \in Consumer : d # c => consumer'[d] = consumer[d]
  BY DEF Delivering, Set
<1>2. ASSUME NEW d \in Consumer PROVE ~Discarding(consumer'[d], e)
  BY <1>1 DEF Endangered
<1>3. ASSUME NEW h \in HandlersOf[e] PROVE Covered(e, h)'
  <2>1. Covered(e, h) /\ h \in Handler
    BY DeliveryAssumption DEF Endangered
  <2>2. CASE Settled(e, h)
    <3>1. Settled(e, h)'
      BY <2>1, <2>2, DeliveryAssumption DEF Settled, Grown
    <3>2. QED
      BY <3>1 DEF Covered
  <2>3. CASE Offered(e, h) \/ Promises(consumer[c], e, h)
    BY <1>1, <2>3 DEF Covered
  <2>4. ASSUME NEW d \in Consumer, d # c, Promises(consumer[d], e, h)
        PROVE  Covered(e, h)'
    BY <1>1, <2>4 DEF Covered
  <2>5. QED
    BY <2>1, <2>2, <2>3, <2>4 DEF Covered
<1>4. QED
  BY <1>2, <1>3 DEF Endangered

LEMMA WithoutFault ==
  ASSUME DeliveryInv, Delivering', UNCHANGED faults,
         \A e \in Event : e \notin Endangered => e \notin Endangered'
  PROVE  DeliveryInv'
<1>1. Endangered' \subseteq Endangered
  BY DEF Endangered
<1>2. faults \in Nat
  BY DeliveryAssumption DEF DeliveryInv, Delivering, Counts
<1>3. AtMost(Endangered', faults)
  BY <1>1, <1>2, NoMore DEF DeliveryInv
<1>4. QED
  BY <1>3 DEF DeliveryInv

LEMMA WithFault ==
  ASSUME DeliveryInv, Delivering', Fault, NEW x,
         \A e \in Event : e \notin Endangered /\ e # x => e \notin Endangered'
  PROVE  DeliveryInv'
<1>1. Endangered' \subseteq Endangered \cup {x}
  BY DEF Endangered
<1>2. faults \in Nat /\ faults' = faults + 1
  BY DeliveryAssumption DEF DeliveryInv, Delivering, Counts, Fault
<1>3. AtMost(Endangered', faults + 1)
  BY <1>1, <1>2, OneMore DEF DeliveryInv
<1>4. QED
  BY <1>2, <1>3 DEF DeliveryInv

-----------------------------------------------------------------------------
(* The actions                                                               *)

LEMMA NothingGrown ==
  ASSUME Counts, UNCHANGED <<done, failures>>
  PROVE  Grown(done, done', failures, failures')
<1>1. \A e \in Event, h \in Handler : failures[e][h] \in Int
  BY DeliveryAssumption DEF Counts
<1>2. QED
  BY <1>1 DEF Grown, Counts

LEMMA InHandsOf ==
  ASSUME Delivering, NEW c \in Consumer, consumer[c].pc \in {"handle", "resend", "discard"}
  PROVE  \E m : /\ InHands(consumer[c], m, done, failures)
                /\ Current(c) = m /\ consumer[c].current = {m}
                /\ m \in Message
<1>1. PICK m : InHands(consumer[c], m, done, failures)
  BY DEF Delivering, Sensible
<1>2. consumer[c].current = {m} /\ m \in Message
  BY <1>1 DEF InHands, Honest
<1>3. Current(c) = m
  BY <1>2 DEF Current
<1>4. QED
  BY <1>1, <1>2, <1>3

LEMMA NextEffect ==
  ASSUME Delivering, NEW c \in Consumer, NextMessage(c)
  PROVE  \E r : /\ Set(c, r) /\ Sensible(r, done, failures)
                /\ \A e : ~Discarding(r, e)
                /\ \A e, h : /\ ~consumer[c].late
                             /\ \E m \in BagToSet(consumer[c].batch) : Offers(m, e, h)
                             => Promises(r, e, h)
<1>1. Sensible(consumer[c], done, failures)
  BY DEF Delivering
<1>2. CASE consumer[c].batch = EmptyBag
  <2>1. Set(c, Receiving)
    BY <1>2 DEF NextMessage
  <2>2. Sensible(Receiving, done, failures)
    BY EmptyMembers DEF Sensible, Receiving, IsState
  <2>3. \A e : ~Discarding(Receiving, e)
    BY DEF Discarding, Receiving
  <2>4. QED
    BY <1>2, <2>1, <2>2, <2>3, EmptyMembers
<1>3. CASE consumer[c].batch # EmptyBag
  <2> DEFINE r == [consumer[c] EXCEPT !.pc = "next", !.current = {},
                                      !.todo = {}, !.failed = {}]
  <2>1. Set(c, r)
    BY <1>3 DEF NextMessage
  <2>2. /\ IsState(r) /\ r.pc = "next" /\ r.batch = consumer[c].batch
        /\ r.current = {} /\ r.todo = {} /\ r.failed = {} /\ r.late = consumer[c].late
    BY <1>1 DEF Sensible, IsState
  <2> HIDE DEF r
  <2>3. Sensible(r, done, failures)
    BY <1>1, <2>2 DEF Sensible
  <2>4. \A e : ~Discarding(r, e)
    BY <2>2 DEF Discarding
  <2>5. \A e, h : ~consumer[c].late /\ (\E m \in BagToSet(consumer[c].batch) : Offers(m, e, h))
                    => Promises(r, e, h)
    BY <2>2 DEF Promises
  <2>6. QED
    BY <2>1, <2>3, <2>4, <2>5
<1>4. QED
  BY <1>2, <1>3

LEMMA ReceiveStep ==
  ASSUME DeliveryInv, NEW c \in Consumer, Receive(c)
  PROVE  DeliveryInv'
<1>a. Delivering /\ IsABag(visible)
  BY DEF DeliveryInv, Delivering
<1>1. PICK B \in Batches : visible' = visible (-) B
                           /\ Set(c, [Receiving EXCEPT !.pc = "next", !.batch = B])
  BY DEF Receive
<1> DEFINE r == [Receiving EXCEPT !.pc = "next", !.batch = B]
<1>2. /\ Set(c, r) /\ IsState(r) /\ r.pc = "next" /\ r.batch = B
      /\ r.current = {} /\ r.todo = {} /\ r.failed = {} /\ r.late = FALSE
  BY <1>1 DEF Receiving, IsState
<1> HIDE DEF r
<1>3. UNCHANGED <<done, failures, faults>> /\ consumer[c].pc = "receive"
  BY DEF Receive, At
<1>4. /\ IsABag(B) /\ IsABag(visible')
      /\ BagToSet(visible) = BagToSet(visible') \cup BagToSet(B)
  BY <1>a, <1>1, BatchMembers
<1>5. Counts' /\ Grown(done, done', failures, failures')
  BY <1>a, <1>3, NothingGrown DEF Delivering, Counts
<1>6. \A m \in BagToSet(visible') \cup BagToSet(B) : Honest(m, failures')
  BY <1>a, <1>3, <1>4 DEF Delivering
<1>7. Sensible(r, done', failures')
  BY <1>2, <1>4, <1>6 DEF Sensible
<1>8. Delivering'
  BY <1>a, <1>2, <1>4, <1>5, <1>6, <1>7, DeliveringStep
<1>9. ASSUME NEW e \in Event, e \notin Endangered PROVE e \notin Endangered'
  <2>1. ~Discarding(r, e)
    BY <1>2 DEF Discarding
  <2>2. ASSUME NEW h PROVE Offered(e, h) => Offered(e, h)' \/ Promises(r, e, h)
    BY <1>2, <1>4 DEF Offered, Promises
  <2>3. ASSUME NEW h, Promises(consumer[c], e, h) PROVE Offered(e, h)' \/ Promises(r, e, h)
    <3>1. \E m \in BagToSet(consumer[c].batch) : Offers(m, e, h)
      BY <1>3, <2>3 DEF Promises
    <3>2. QED
      BY <3>1, <1>3, <1>a DEF Delivering, Sensible
  <2>4. QED
    BY <1>a, <1>2, <1>5, <1>9, <2>1, <2>2, <2>3, SafeStep
<1>10. QED
  BY <1>3, <1>8, <1>9, WithoutFault

LEMMA BeginStep ==
  ASSUME DeliveryInv, NEW c \in Consumer, Begin(c)
  PROVE  DeliveryInv'
<1>a. Delivering /\ IsABag(visible) /\ Sensible(consumer[c], done, failures)
  BY DEF DeliveryInv, Delivering
<1>1. PICK m \in BagToSet(consumer[c].batch) :
         Set(c, [consumer[c] EXCEPT !.pc = "handle", !.current = {m},
                                    !.batch = @ (-) One(m), !.todo = HandlersToRun(m)])
  BY DEF Begin
<1> DEFINE r == [consumer[c] EXCEPT !.pc = "handle", !.current = {m},
                                    !.batch = @ (-) One(m), !.todo = HandlersToRun(m)]
<1>2. /\ Set(c, r) /\ IsState(r) /\ r.pc = "handle" /\ r.current = {m}
      /\ r.batch = consumer[c].batch (-) One(m) /\ r.todo = HandlersToRun(m)
      /\ r.failed = consumer[c].failed /\ r.late = consumer[c].late
  BY <1>a, <1>1 DEF Sensible, IsState
<1> HIDE DEF r
<1>3. UNCHANGED <<visible, done, failures, faults>> /\ consumer[c].pc = "next"
  BY DEF Begin, At
<1>4. /\ IsABag(r.batch) /\ BagToSet(r.batch) \subseteq BagToSet(consumer[c].batch)
      /\ BagToSet(consumer[c].batch) \subseteq BagToSet(r.batch) \cup {m}
  BY <1>a, <1>2, RemoveMember DEF Sensible
<1>5. Counts' /\ Grown(done, done', failures, failures')
  BY <1>a, <1>3, NothingGrown DEF Delivering, Counts
<1>6. Sensible(r, done', failures')
  <2>1. r.failed = {} /\ Honest(m, failures')
    BY <1>a, <1>2, <1>3 DEF Sensible
  <2>2. InHands(r, m, done', failures')
    BY <1>2, <2>1 DEF InHands
  <2>3. \A x \in BagToSet(r.batch) : Honest(x, failures')
    BY <1>a, <1>3, <1>4 DEF Sensible
  <2>4. QED
    BY <1>a, <1>2, <1>4, <2>2, <2>3 DEF Sensible
<1>7. Delivering'
  BY <1>a, <1>2, <1>3, <1>5, <1>6, DeliveringStep DEF Delivering
<1>8. ASSUME NEW e \in Event, e \notin Endangered PROVE e \notin Endangered'
  <2>1. ~Discarding(r, e)
    BY <1>2 DEF Discarding
  <2>2. ASSUME NEW h PROVE Offered(e, h) => Offered(e, h)'
    BY <1>3 DEF Offered
  <2>3. ASSUME NEW h PROVE Promises(consumer[c], e, h) => Promises(r, e, h)
    BY <1>2, <1>3, <1>4 DEF Promises
  <2>4. QED
    BY <1>a, <1>2, <1>5, <1>8, <2>1, <2>2, <2>3, SafeStep
<1>9. QED
  BY <1>3, <1>7, <1>8, WithoutFault

\* A handler that ends: it succeeds, or it fails.
LEMMA HandlerStep ==
  ASSUME DeliveryInv, NEW c \in Consumer, NEW h \in Handler,
         HandlerSucceeds(c, h) \/ HandlerFails(c, h)
  PROVE  DeliveryInv'
<1>a. Delivering /\ IsABag(visible) /\ Sensible(consumer[c], done, failures) /\ Counts
  BY DEF DeliveryInv, Delivering
<1>b. consumer[c].pc = "handle" /\ h \in consumer[c].todo
  BY DEF HandlerSucceeds, HandlerFails, At
<1>1. PICK m : /\ InHands(consumer[c], m, done, failures)
               /\ Current(c) = m /\ consumer[c].current = {m} /\ m \in Message
  BY <1>a, <1>b, InHandsOf
<1>2. /\ m.event \in Event /\ m.attempt \in Nat /\ MaxRetries \in Nat
      /\ h \in HandlersToRun(m) /\ m.attempt < MaxRetries
      /\ m.failed = {} \/ h \in m.failed
      /\ consumer[c].failed \subseteq Handler
  BY <1>1, <1>b, RunHandlers DEF InHands
<1>3. /\ failures[m.event][h] \in 0..MaxRetries
      /\ failures[m.event][h] >= m.attempt
      /\ done[m.event][h] \in Nat
  BY <1>a, <1>1, <1>2 DEF InHands, Honest, Counts
<1>4. UNCHANGED <<visible, faults>>
  BY DEF HandlerSucceeds, HandlerFails
<1>5. CASE HandlerSucceeds(c, h)
  <2> DEFINE r == [consumer[c] EXCEPT !.todo = @ \ {h}]
  <2>1. /\ done' = [done EXCEPT ![m.event][h] = @ + 1] /\ UNCHANGED failures
        /\ Set(c, r)
    BY <1>1, <1>5 DEF HandlerSucceeds
  <2>2. /\ IsState(r) /\ r.pc = "handle" /\ r.current = {m}
        /\ r.batch = consumer[c].batch /\ r.todo = consumer[c].todo \ {h}
        /\ r.failed = consumer[c].failed /\ r.late = consumer[c].late
    BY <1>a, <1>b, <1>1 DEF Sensible, IsState
  <2> HIDE DEF r
  <2>3. done' \in [Event -> [Handler -> Nat]] /\ done'[m.event][h] # 0
    BY <1>a, <1>2, <1>3, <2>1 DEF Counts
  <2>4. Counts' /\ Grown(done, done', failures, failures')
    <3>1. \A e \in Event, g \in Handler : failures[e][g] \in Int
      BY <1>2, <1>a DEF Counts
    <3>2. \A e \in Event, g \in Handler : done[e][g] # 0 => done'[e][g] # 0
      BY <1>a, <1>2, <1>3, <2>1 DEF Counts
    <3>3. QED
      BY <1>a, <1>4, <2>1, <2>3, <3>1, <3>2 DEF Counts, Grown
  <2>5. Sensible(consumer[c], done', failures') /\ InHands(consumer[c], m, done', failures')
    <3>1. Sensible(consumer[c], done', failures')
      BY <1>a, <2>4, GrownSensible
    <3>2. QED
      BY <3>1, <1>1, <1>b DEF Sensible, InHands
  <2>6. InHands(r, m, done', failures')
    BY <1>b, <2>2, <2>3, <2>5 DEF InHands
  <2>7. Sensible(r, done', failures')
    BY <2>2, <2>5, <2>6 DEF Sensible
  <2>8. Delivering'
    BY <1>a, <1>4, <2>1, <2>4, <2>7, DeliveringStep DEF Delivering
  <2>9. ASSUME NEW e \in Event, e \notin Endangered PROVE e \notin Endangered'
    <3>1. ~Discarding(r, e)
      BY <2>2 DEF Discarding
    <3>2. ASSUME NEW g PROVE Offered(e, g) => Offered(e, g)'
      BY <1>4 DEF Offered
    <3>3. ASSUME NEW g PROVE Promises(consumer[c], e, g) => Promises(r, e, g)
      BY <1>1, <1>b, <2>2 DEF Promises
    <3>4. QED
      BY <1>a, <2>1, <2>4, <2>9, <3>1, <3>2, <3>3, SafeStep
  <2>10. QED
    BY <1>4, <2>8, <2>9, WithoutFault
<1>6. CASE HandlerFails(c, h)
  <2> DEFINE r == [consumer[c] EXCEPT !.todo = @ \ {h}, !.failed = @ \cup {h}]
             n == IF failures[m.event][h] < MaxRetries THEN failures[m.event][h] + 1
                  ELSE failures[m.event][h]
  <2>1. /\ failures' = [failures EXCEPT ![m.event][h] = n] /\ UNCHANGED done
        /\ Set(c, r)
    BY <1>1, <1>6 DEF HandlerFails
  <2>2. /\ IsState(r) /\ r.pc = "handle" /\ r.current = {m}
        /\ r.batch = consumer[c].batch /\ r.todo = consumer[c].todo \ {h}
        /\ r.failed = consumer[c].failed \cup {h} /\ r.late = consumer[c].late
    BY <1>a, <1>b, <1>1 DEF Sensible, IsState
  <2> HIDE DEF r
  <2>3. /\ n \in 0..MaxRetries /\ failures[m.event][h] <= n
        /\ n >= m.attempt + 1
    BY <1>2, <1>3
  <2> HIDE DEF n
  <2>4. Counts' /\ Grown(done, done', failures, failures') /\ failures'[m.event][h] = n
    <3>1. failures' \in [Event -> [Handler -> 0..MaxRetries]] /\ failures'[m.event][h] = n
      BY <1>a, <1>2, <2>1, <2>3 DEF Counts
    <3>2. \A e \in Event, g \in Handler : failures[e][g] \in Int
      BY <1>2, <1>a DEF Counts
    <3>3. \A e \in Event, g \in Handler : failures[e][g] <= failures'[e][g]
      BY <1>a, <1>2, <2>1, <2>3, <3>2 DEF Counts
    <3>4. QED
      BY <1>a, <1>4, <2>1, <3>1, <3>3 DEF Counts, Grown
  <2>5. Sensible(consumer[c], done', failures') /\ InHands(consumer[c], m, done', failures')
    <3>1. Sensible(consumer[c], done', failures')
      BY <1>a, <2>4, GrownSensible
    <3>2. QED
      BY <3>1, <1>1, <1>b DEF Sensible, InHands
  <2>6. InHands(r, m, done', failures')
    BY <1>b, <2>2, <2>3, <2>4, <2>5 DEF InHands
  <2>7. Sensible(r, done', failures')
    BY <2>2, <2>5, <2>6 DEF Sensible
  <2>8. \A x \in BagToSet(visible') : Honest(x, failures')
    BY <1>a, <1>4, <2>4, GrownHonest DEF Delivering
  <2>9. Delivering'
    BY <1>a, <1>4, <2>1, <2>4, <2>7, <2>8, DeliveringStep
  <2>10. ASSUME NEW e \in Event, e \notin Endangered PROVE e \notin Endangered'
    <3>1. ~Discarding(r, e)
      BY <2>2 DEF Discarding
    <3>2. ASSUME NEW g PROVE Offered(e, g) => Offered(e, g)'
      BY <1>4 DEF Offered
    <3>3. ASSUME NEW g PROVE Promises(consumer[c], e, g) => Promises(r, e, g)
      BY <1>1, <1>b, <2>2 DEF Promises
    <3>4. QED
      BY <1>a, <2>1, <2>4, <2>10, <3>1, <3>2, <3>3, SafeStep
  <2>11. QED
    BY <1>4, <2>9, <2>10, WithoutFault
<1>7. QED
  BY <1>5, <1>6

\* A step of c during which no handler ends.
LEMMA QuietStep ==
  ASSUME Delivering, NEW c \in Consumer, NEW r, Set(c, r), UNCHANGED <<done, failures>>,
         Counts', Sensible(r, done, failures),
         IsABag(visible'), \A m \in BagToSet(visible') : Honest(m, failures)
  PROVE  Delivering' /\ Grown(done, done', failures, failures')
<1>1. Grown(done, done', failures, failures')
  BY NothingGrown DEF Delivering
<1>2. Sensible(r, done', failures') /\ \A m \in BagToSet(visible') : Honest(m, failures')
  OBVIOUS
<1>3. QED
  BY <1>1, <1>2, DeliveringStep

LEMMA DeletedEffect ==
  ASSUME IsABag(visible), NEW c, NEW m, Current(c) = m, Deleted(c)
  PROVE  /\ IsABag(visible')
         /\ BagToSet(visible') \subseteq BagToSet(visible)
         /\ BagToSet(visible) \subseteq BagToSet(visible') \cup {m}
  BY RemoveMember DEF Deleted

LEMMA RemoveStep ==
  ASSUME DeliveryInv, NEW c \in Consumer, Remove(c)
  PROVE  DeliveryInv'
<1>a. /\ Delivering /\ IsABag(visible) /\ Sensible(consumer[c], done, failures) /\ Counts
      /\ \A x \in BagToSet(visible) : Honest(x, failures)
  BY DEF DeliveryInv, Delivering
<1>b. /\ consumer[c].pc = "handle" /\ consumer[c].todo = {} /\ Deleted(c)
      /\ UNCHANGED <<done, failures, faults>>
  BY DEF Remove, At
<1>1. PICK m : /\ InHands(consumer[c], m, done, failures)
               /\ Current(c) = m /\ consumer[c].current = {m} /\ m \in Message
  BY <1>a, <1>b, InHandsOf
<1>2. /\ IsABag(visible') /\ BagToSet(visible') \subseteq BagToSet(visible)
      /\ BagToSet(visible) \subseteq BagToSet(visible') \cup {m}
  BY <1>a, <1>b, <1>1, DeletedEffect
<1>3. Counts'
  BY <1>a, <1>b DEF Counts
<1>4. \A h \in HandlersToRun(m) : h \in consumer[c].failed \/ done'[m.event][h] # 0
  BY <1>1, <1>b DEF InHands
<1>5. ASSUME NEW r, Set(c, r), Sensible(r, done, failures), \A e : ~Discarding(r, e),
             \A e, h : ~consumer[c].late /\ (\E x \in BagToSet(consumer[c].batch) : Offers(x, e, h))
                         => Promises(r, e, h),
             \A e, h : Offers(m, e, h) => Settled(e, h)' \/ Promises(r, e, h)
      PROVE  DeliveryInv'
  <2>1. Delivering' /\ Grown(done, done', failures, failures')
    BY <1>a, <1>b, <1>2, <1>3, <1>5, QuietStep
  <2>2. ASSUME NEW e \in Event, e \notin Endangered PROVE e \notin Endangered'
    <3>1. ASSUME NEW h, Offered(e, h)
          PROVE  Settled(e, h)' \/ Offered(e, h)' \/ Promises(r, e, h)
      BY <1>2, <1>5, <3>1 DEF Offered
    <3>2. ASSUME NEW h, Promises(consumer[c], e, h)
          PROVE  Settled(e, h)' \/ Promises(r, e, h)
      <4>1. \E x \in BagToSet(consumer[c].batch) \cup {m} : ~consumer[c].late /\ Offers(x, e, h)
        BY <1>1, <1>b, <3>2 DEF Promises
      <4>2. QED
        BY <1>5, <4>1
    <3>3. QED
      BY <1>a, <1>5, <2>1, <2>2, <3>1, <3>2, SafeStep
  <2>3. QED
    BY <1>b, <2>1, <2>2, WithoutFault
<1>6. CASE consumer[c].failed = {}
  <2>1. NextMessage(c)
    BY <1>6 DEF Remove
  <2>2. \A e, h : Offers(m, e, h) => Settled(e, h)'
    BY <1>4, <1>6 DEF Offers, Settled
  <2>3. QED
    BY <1>a, <1>5, <2>1, <2>2, NextEffect
<1>7. CASE consumer[c].failed # {}
  <2> DEFINE r == [consumer[c] EXCEPT !.pc = "resend"]
  <2>1. Set(c, r)
    BY <1>7 DEF Remove
  <2>2. /\ IsState(r) /\ r.pc = "resend" /\ r.current = {m} /\ r.todo = {}
        /\ r.batch = consumer[c].batch /\ r.failed = consumer[c].failed
        /\ r.late = consumer[c].late
    BY <1>a, <1>b, <1>1 DEF Sensible, IsState
  <2> HIDE DEF r
  <2>3. InHands(r, m, done, failures)
    BY <1>1, <1>7, <1>b, <2>2 DEF InHands
  <2>4. Sensible(r, done, failures)
    BY <1>a, <2>2, <2>3 DEF Sensible
  <2>5. \A e : ~Discarding(r, e)
    BY <2>2 DEF Discarding
  <2>6. \A e, h : ~consumer[c].late /\ (\E x \in BagToSet(consumer[c].batch) : Offers(x, e, h))
                    => Promises(r, e, h)
    BY <2>2 DEF Promises
  <2>7. \A e, h : Offers(m, e, h) => Settled(e, h)' \/ Promises(r, e, h)
    BY <1>4, <2>2 DEF Offers, Settled, Promises
  <2>8. QED
    BY <1>5, <2>1, <2>4, <2>5, <2>6, <2>7
<1>8. QED
  BY <1>6, <1>7

\* The retry of a message: what failed on it is settled or will be run again.
LEMMA RetryIsHonest ==
  ASSUME Counts, NEW r, NEW m, InHands(r, m, done, failures), r.pc = "resend",
         NEW retry, retry = [event |-> m.event, attempt |-> m.attempt + 1,
                             failed |-> r.failed]
  PROVE  /\ Honest(retry, failures) /\ retry.event = m.event
         /\ \A h \in r.failed : Settled(m.event, h) \/ h \in HandlersToRun(retry)
<1>1. m \in Message /\ r.failed # {} /\ r.failed \subseteq HandlersToRun(m)
  BY DEF InHands, Honest
<1>2. /\ m.event \in Event /\ m.attempt \in Nat /\ m.attempt < MaxRetries
      /\ MaxRetries \in Nat
      /\ r.failed \subseteq Handler /\ r.failed \subseteq HandlersOf[m.event]
  BY <1>1, RunHandlers
<1>3. /\ retry.event = m.event /\ retry.attempt = m.attempt + 1
      /\ retry.failed = r.failed /\ retry \in Message
  BY <1>2 DEF Message
<1>4. \A h \in r.failed : /\ failures[m.event][h] >= m.attempt + 1
                          /\ failures[m.event][h] \in 0..MaxRetries
  BY <1>2 DEF InHands, Counts
<1>5. Honest(retry, failures)
  BY <1>1, <1>3, <1>4 DEF Honest
<1>6. CASE m.attempt + 1 >= MaxRetries
  BY <1>2, <1>3, <1>4, <1>5, <1>6 DEF Settled
<1>7. CASE ~(m.attempt + 1 >= MaxRetries)
  BY <1>1, <1>2, <1>3, <1>5, <1>7 DEF HandlersToRun
<1>8. QED
  BY <1>6, <1>7

LEMMA ResendStep ==
  ASSUME DeliveryInv, NEW c \in Consumer, Resend(c)
  PROVE  DeliveryInv'
<1>a. /\ Delivering /\ IsABag(visible) /\ Counts
      /\ \A x \in BagToSet(visible) : Honest(x, failures)
  BY DEF DeliveryInv, Delivering
<1>b. /\ consumer[c].pc = "resend" /\ NextMessage(c)
      /\ UNCHANGED <<done, failures, faults>>
  BY DEF Resend, At
<1>1. PICK m : /\ InHands(consumer[c], m, done, failures)
               /\ Current(c) = m /\ consumer[c].current = {m} /\ m \in Message
  BY <1>a, <1>b, InHandsOf
<1> DEFINE retry == [event |-> m.event, attempt |-> m.attempt + 1,
                     failed |-> consumer[c].failed]
<1>2. visible' = visible (+) One(retry)
  BY <1>1 DEF Resend
<1>3. /\ Honest(retry, failures) /\ retry.event = m.event
      /\ \A h \in consumer[c].failed : Settled(m.event, h) \/ h \in HandlersToRun(retry)
  BY <1>a, <1>b, <1>1, RetryIsHonest
<1> HIDE DEF retry
<1>4. IsABag(visible') /\ BagToSet(visible') = BagToSet(visible) \cup {retry}
  BY <1>a, <1>2, SetAsBag, UnionMembers DEF One
<1>5. PICK r : /\ Set(c, r) /\ Sensible(r, done, failures)
               /\ \A e : ~Discarding(r, e)
               /\ \A e, h : /\ ~consumer[c].late
                            /\ \E x \in BagToSet(consumer[c].batch) : Offers(x, e, h)
                            => Promises(r, e, h)
  BY <1>a, <1>b, NextEffect
<1>6. Counts'
  BY <1>a, <1>b DEF Counts
<1>7. Delivering' /\ Grown(done, done', failures, failures')
  BY <1>a, <1>b, <1>3, <1>4, <1>5, <1>6, QuietStep
<1>8. ASSUME NEW e \in Event, e \notin Endangered PROVE e \notin Endangered'
  <2>1. ASSUME NEW h, Offered(e, h) PROVE Offered(e, h)'
    BY <1>4, <2>1 DEF Offered
  <2>2. ASSUME NEW h, Promises(consumer[c], e, h)
        PROVE  Settled(e, h)' \/ Offered(e, h)' \/ Promises(r, e, h)
    <3>1. CASE \E x \in BagToSet(consumer[c].batch) : ~consumer[c].late /\ Offers(x, e, h)
      BY <1>5, <3>1
    <3>2. CASE m.event = e /\ h \in consumer[c].failed
      BY <1>3, <1>4, <1>b, <3>2 DEF Settled, Offered, Offers
    <3>3. QED
      BY <1>1, <1>b, <2>2, <3>1, <3>2 DEF Promises
  <2>3. QED
    BY <1>a, <1>5, <1>7, <1>8, <2>1, <2>2, SafeStep
<1>9. QED
  BY <1>b, <1>7, <1>8, WithoutFault

LEMMA DiscardStep ==
  ASSUME DeliveryInv, NEW c \in Consumer, Discard(c)
  PROVE  DeliveryInv'
<1>a. /\ Delivering /\ IsABag(visible) /\ Counts
      /\ \A x \in BagToSet(visible) : Honest(x, failures)
  BY DEF DeliveryInv, Delivering
<1>b. /\ consumer[c].pc = "discard" /\ NextMessage(c) /\ Deleted(c)
      /\ UNCHANGED <<done, failures, faults>>
  BY DEF Discard, At
<1>1. PICK m : /\ InHands(consumer[c], m, done, failures)
               /\ Current(c) = m /\ consumer[c].current = {m} /\ m \in Message
  BY <1>a, <1>b, InHandsOf
<1>2. /\ IsABag(visible') /\ BagToSet(visible') \subseteq BagToSet(visible)
      /\ BagToSet(visible) \subseteq BagToSet(visible') \cup {m}
  BY <1>a, <1>b, <1>1, DeletedEffect
<1>3. PICK r : /\ Set(c, r) /\ Sensible(r, done, failures)
               /\ \A e : ~Discarding(r, e)
               /\ \A e, h : /\ ~consumer[c].late
                            /\ \E x \in BagToSet(consumer[c].batch) : Offers(x, e, h)
                            => Promises(r, e, h)
  BY <1>a, <1>b, NextEffect
<1>4. Counts'
  BY <1>a, <1>b DEF Counts
<1>5. Delivering' /\ Grown(done, done', failures, failures')
  BY <1>a, <1>b, <1>2, <1>3, <1>4, QuietStep
<1>6. ASSUME NEW e \in Event, e \notin Endangered PROVE e \notin Endangered'
  <2>1. m.event # e
    BY <1>1, <1>b, <1>6 DEF Endangered, Discarding
  <2>2. ASSUME NEW h, Offered(e, h) PROVE Offered(e, h)'
    BY <1>2, <2>1, <2>2 DEF Offered, Offers
  <2>3. ASSUME NEW h, Promises(consumer[c], e, h) PROVE Promises(r, e, h)
    <3>1. \E x \in BagToSet(consumer[c].batch) : ~consumer[c].late /\ Offers(x, e, h)
      BY <1>b, <2>3 DEF Promises
    <3>2. QED
      BY <1>3, <3>1
  <2>4. QED
    BY <1>a, <1>3, <1>5, <1>6, <2>2, <2>3, SafeStep
<1>7. QED
  BY <1>b, <1>5, <1>6, WithoutFault

-----------------------------------------------------------------------------
(* The faults                                                                *)

LEMMA CountsOneFault ==
  ASSUME Counts, Fault, UNCHANGED <<done, failures>>
  PROVE  Counts'
  BY DeliveryAssumption DEF Counts, Fault

LEMMA RemoveFailsStep ==
  ASSUME DeliveryInv, NEW c \in Consumer, RemoveFails(c)
  PROVE  DeliveryInv'
<1>a. /\ Delivering /\ IsABag(visible) /\ Sensible(consumer[c], done, failures) /\ Counts
      /\ \A x \in BagToSet(visible) : Honest(x, failures)
  BY DEF DeliveryInv, Delivering
<1>b. /\ consumer[c].pc = "handle" /\ consumer[c].todo = {} /\ Fault
      /\ UNCHANGED <<visible, done, failures>>
  BY DEF RemoveFails, At
<1>1. PICK m : /\ InHands(consumer[c], m, done, failures)
               /\ Current(c) = m /\ consumer[c].current = {m} /\ m \in Message
  BY <1>a, <1>b, InHandsOf
<1> DEFINE r == [consumer[c] EXCEPT !.pc = "discard"]
<1>2. Set(c, r)
  BY DEF RemoveFails
<1>3. /\ IsState(r) /\ r.pc = "discard" /\ r.current = {m} /\ r.todo = {}
      /\ r.batch = consumer[c].batch /\ r.failed = consumer[c].failed
      /\ r.late = consumer[c].late
  BY <1>a, <1>b, <1>1 DEF Sensible, IsState
<1> HIDE DEF r
<1>4. InHands(r, m, done, failures)
  BY <1>1, <1>b, <1>3 DEF InHands
<1>5. Sensible(r, done, failures)
  BY <1>a, <1>3, <1>4 DEF Sensible
<1>6. Counts'
  BY <1>a, <1>b, CountsOneFault
<1>7. Delivering' /\ Grown(done, done', failures, failures')
  BY <1>a, <1>b, <1>2, <1>5, <1>6, QuietStep
<1>8. ASSUME NEW e \in Event, e \notin Endangered, e # m.event PROVE e \notin Endangered'
  <2>1. ~Discarding(r, e)
    BY <1>3, <1>8 DEF Discarding
  <2>2. ASSUME NEW h, Offered(e, h) PROVE Offered(e, h)'
    BY <1>b, <2>2 DEF Offered
  <2>3. ASSUME NEW h, Promises(consumer[c], e, h) PROVE Promises(r, e, h)
    BY <1>1, <1>b, <1>3, <1>8, <2>3 DEF Promises, Offers
  <2>4. QED
    BY <1>a, <1>2, <1>7, <1>8, <2>1, <2>2, <2>3, SafeStep
<1>9. QED
  BY <1>b, <1>7, <1>8, WithFault

LEMMA ResendFailsStep ==
  ASSUME DeliveryInv, NEW c \in Consumer, ResendFails(c)
  PROVE  DeliveryInv'
<1>a. /\ Delivering /\ IsABag(visible) /\ Counts
      /\ \A x \in BagToSet(visible) : Honest(x, failures)
  BY DEF DeliveryInv, Delivering
<1>b. /\ consumer[c].pc = "resend" /\ NextMessage(c) /\ Fault
      /\ UNCHANGED <<visible, done, failures>>
  BY DEF ResendFails, At
<1>1. PICK m : /\ InHands(consumer[c], m, done, failures)
               /\ Current(c) = m /\ consumer[c].current = {m} /\ m \in Message
  BY <1>a, <1>b, InHandsOf
<1>2. PICK r : /\ Set(c, r) /\ Sensible(r, done, failures)
               /\ \A e : ~Discarding(r, e)
               /\ \A e, h : /\ ~consumer[c].late
                            /\ \E x \in BagToSet(consumer[c].batch) : Offers(x, e, h)
                            => Promises(r, e, h)
  BY <1>a, <1>b, NextEffect
<1>3. Counts'
  BY <1>a, <1>b, CountsOneFault
<1>4. Delivering' /\ Grown(done, done', failures, failures')
  BY <1>a, <1>b, <1>2, <1>3, QuietStep
<1>5. ASSUME NEW e \in Event, e \notin Endangered, e # m.event PROVE e \notin Endangered'
  <2>1. ASSUME NEW h, Offered(e, h) PROVE Offered(e, h)'
    BY <1>b, <2>1 DEF Offered
  <2>2. ASSUME NEW h, Promises(consumer[c], e, h) PROVE Promises(r, e, h)
    <3>1. \E x \in BagToSet(consumer[c].batch) : ~consumer[c].late /\ Offers(x, e, h)
      BY <1>1, <1>b, <1>5, <2>2 DEF Promises
    <3>2. QED
      BY <1>2, <3>1
  <2>3. QED
    BY <1>a, <1>2, <1>4, <1>5, <2>1, <2>2, SafeStep
<1>6. QED
  BY <1>b, <1>4, <1>5, WithFault

\* What a consumer has received and not deleted can be received again.
LEMMA UndeletedMembers ==
  ASSUME Delivering, NEW c \in Consumer
  PROVE  /\ IsABag(Undeleted(c))
         /\ BagToSet(Undeleted(c)) =
              BagToSet(consumer[c].batch) \cup
              (IF consumer[c].pc = "resend" THEN {} ELSE consumer[c].current)
         /\ \A m \in BagToSet(Undeleted(c)) : Honest(m, failures)
<1>1. Sensible(consumer[c], done, failures)
  BY DEF Delivering
<1>2. /\ IsABag(consumer[c].batch)
      /\ \A m \in BagToSet(consumer[c].batch) : Honest(m, failures)
  BY <1>1 DEF Sensible
<1>3. \A m \in consumer[c].current : Honest(m, failures)
  BY <1>1 DEF Sensible, InHands
<1>4. CASE consumer[c].pc = "resend"
  BY <1>2, <1>4 DEF Undeleted, At
<1>5. CASE consumer[c].pc # "resend"
  BY <1>2, <1>3, <1>5, SetAsBag, UnionMembers DEF Undeleted, At
<1>6. QED
  BY <1>4, <1>5

LEMMA CrashStep ==
  ASSUME DeliveryInv, NEW c \in Consumer, Crash(c)
  PROVE  DeliveryInv'
<1>a. /\ Delivering /\ IsABag(visible) /\ Sensible(consumer[c], done, failures) /\ Counts
      /\ \A x \in BagToSet(visible) : Honest(x, failures)
  BY DEF DeliveryInv, Delivering
<1>b. Fault /\ UNCHANGED <<done, failures>> /\ Set(c, Receiving)
  BY DEF Crash
<1>1. /\ IsABag(visible') /\ \A x \in BagToSet(visible') : Honest(x, failures)
      /\ BagToSet(visible) \subseteq BagToSet(visible')
      /\ ~consumer[c].late => BagToSet(Undeleted(c)) \subseteq BagToSet(visible')
  BY <1>a, UndeletedMembers, UnionMembers DEF Crash
<1>2. Sensible(Receiving, done, failures)
  BY EmptyMembers DEF Sensible, Receiving, IsState
<1>3. Counts'
  BY <1>a, <1>b, CountsOneFault
<1>4. Delivering' /\ Grown(done, done', failures, failures')
  BY <1>a, <1>b, <1>1, <1>2, <1>3, QuietStep
<1>5. PICK x : \A m \in consumer[c].current : m.event = x
  <2>1. consumer[c].current = {} \/ \E m : consumer[c].current = {m}
    BY <1>a DEF Sensible, InHands
  <2>2. QED
    BY <2>1
<1>6. ASSUME NEW e \in Event, e \notin Endangered, e # x PROVE e \notin Endangered'
  <2>1. ~Discarding(Receiving, e)
    BY DEF Discarding, Receiving
  <2>2. ASSUME NEW h, Offered(e, h) PROVE Offered(e, h)'
    BY <1>1, <2>2 DEF Offered
  <2>3. ASSUME NEW h, Promises(consumer[c], e, h) PROVE Offered(e, h)'
    <3>1. /\ ~consumer[c].late
          /\ \E m \in BagToSet(consumer[c].batch) : Offers(m, e, h)
      BY <1>5, <1>6, <2>3 DEF Promises, Offers
    <3>2. QED
      BY <1>a, <1>1, <3>1, UndeletedMembers DEF Offered
  <2>4. QED
    BY <1>a, <1>b, <1>4, <1>6, <2>1, <2>2, <2>3, SafeStep
<1>7. QED
  BY <1>b, <1>4, <1>6, WithFault

LEMMA ExpireStep ==
  ASSUME DeliveryInv, NEW c \in Consumer, VisibilityExpires(c)
  PROVE  DeliveryInv'
<1>a. /\ Delivering /\ IsABag(visible) /\ Sensible(consumer[c], done, failures) /\ Counts
      /\ \A x \in BagToSet(visible) : Honest(x, failures)
  BY DEF DeliveryInv, Delivering
<1> DEFINE r == [consumer[c] EXCEPT !.late = TRUE]
<1>b. Fault /\ UNCHANGED <<done, failures>> /\ Set(c, r)
  BY DEF VisibilityExpires
<1>1. /\ IsState(r) /\ r.pc = consumer[c].pc /\ r.current = consumer[c].current
      /\ r.batch = consumer[c].batch /\ r.failed = consumer[c].failed
      /\ r.todo = consumer[c].todo /\ r.late = TRUE
  BY <1>a DEF Sensible, IsState
<1> HIDE DEF r
<1>2. visible' = visible (+) Undeleted(c)
  BY DEF VisibilityExpires
<1>3. /\ IsABag(visible') /\ \A x \in BagToSet(visible') : Honest(x, failures)
      /\ BagToSet(visible') = BagToSet(visible) \cup BagToSet(Undeleted(c))
  BY <1>a, <1>2, UndeletedMembers, UnionMembers
<1>4. Sensible(r, done, failures)
  <2>1. ASSUME NEW m, InHands(consumer[c], m, done, failures)
        PROVE  InHands(r, m, done, failures)
    BY <1>1, <2>1 DEF InHands
  <2>2. QED
    BY <1>a, <1>1, <2>1 DEF Sensible
<1>5. Counts'
  BY <1>a, <1>b, CountsOneFault
<1>6. Delivering' /\ Grown(done, done', failures, failures')
  BY <1>a, <1>b, <1>3, <1>4, <1>5, QuietStep
<1>7. ASSUME NEW e \in Event, e \notin Endangered PROVE e \notin Endangered'
  <2>1. ~Discarding(r, e)
    BY <1>1, <1>7 DEF Discarding, Endangered
  <2>2. ASSUME NEW h, Offered(e, h) PROVE Offered(e, h)'
    BY <1>3, <2>2 DEF Offered
  <2>3. ASSUME NEW h, Promises(consumer[c], e, h)
        PROVE  Offered(e, h)' \/ Promises(r, e, h)
    <3>1. CASE consumer[c].pc = "resend" /\ h \in consumer[c].failed
                /\ \E m \in consumer[c].current : m.event = e
      BY <1>1, <3>1 DEF Promises
    <3>2. CASE \E m \in BagToSet(consumer[c].batch) : Offers(m, e, h)
      BY <1>a, <1>3, <3>2, UndeletedMembers DEF Offered
    <3>3. CASE consumer[c].pc = "handle" /\ \E m \in consumer[c].current : Offers(m, e, h)
      BY <1>a, <1>3, <3>3, UndeletedMembers DEF Offered
    <3>4. QED
      BY <2>3, <3>1, <3>2, <3>3 DEF Promises
  <2>4. QED
    BY <1>a, <1>b, <1>6, <1>7, <2>1, <2>2, <2>3, SafeStep
<1>8. QED
  BY <1>b, <1>6, <1>7, WithFault

-----------------------------------------------------------------------------
(* The loss is bounded                                                       *)

LEMMA DeliveryBegins == DeliveryInit => DeliveryInv
<1> SUFFICES ASSUME DeliveryInit PROVE DeliveryInv
  OBVIOUS
<1>1. Counts
  BY DeliveryAssumption DEF DeliveryInit, Counts
<1>2. IsABag(visible) /\ BagToSet(visible) = {NewMessage(e) : e \in Event}
  BY SetAsBag DEF DeliveryInit
<1>3. ASSUME NEW e \in Event
      PROVE  /\ Honest(NewMessage(e), failures)
             /\ \A h \in HandlersOf[e] : Offers(NewMessage(e), e, h)
  BY DeliveryAssumption DEF NewMessage, Honest, Message, Offers, HandlersToRun
<1>4. \A c \in Consumer : consumer[c] = Receiving
  BY DEF DeliveryInit
<1>5. Sensible(Receiving, done, failures)
  BY EmptyMembers DEF Sensible, Receiving, IsState
<1>6. Delivering
  BY <1>1, <1>2, <1>3, <1>4, <1>5 DEF Delivering, DeliveryInit
<1>7. Endangered = {}
  <2>1. ASSUME NEW e \in Event, NEW h \in HandlersOf[e] PROVE Covered(e, h)
    BY <1>2, <1>3 DEF Covered, Offered
  <2>2. ASSUME NEW e \in Event, NEW c \in Consumer PROVE ~Discarding(consumer[c], e)
    BY <1>4 DEF Discarding, Receiving
  <2>3. QED
    BY <2>1, <2>2 DEF Endangered
<1>8. AtMost({}, 0)
  BY FS_EmptySet DEF AtMost
<1>9. QED
  BY <1>6, <1>7, <1>8 DEF DeliveryInv, DeliveryInit

THEOREM DeliveryInvariant == DeliverySpec => []DeliveryInv
<1>1. DeliveryInv /\ [DeliveryNext]_deliveryVars => DeliveryInv'
  <2> SUFFICES ASSUME DeliveryInv, [DeliveryNext]_deliveryVars PROVE DeliveryInv'
    OBVIOUS
  <2>1. ASSUME NEW c \in Consumer, Consume(c) PROVE DeliveryInv'
    BY <2>1, ReceiveStep, BeginStep, RemoveStep, ResendStep, DiscardStep, HandlerStep
       DEF Consume
  <2>2. ASSUME NEW c \in Consumer, Failure(c) PROVE DeliveryInv'
    BY <2>2, RemoveFailsStep, ResendFailsStep, CrashStep, ExpireStep DEF Failure
  <2>3. CASE UNCHANGED deliveryVars
    BY <2>3 DEF deliveryVars, DeliveryInv, Delivering, Counts, Endangered, Covered,
                Settled, Offered, AtMost
  <2>4. QED
    BY <2>1, <2>2, <2>3 DEF DeliveryNext
<1>2. QED
  BY <1>1, DeliveryBegins, PTL DEF DeliverySpec

(* However many events, handlers, consumers and retries there are, no more   *)
(* events are lost than there were crashes and failures of the queue.        *)
THEOREM LossIsBounded == DeliverySpec => []LossBounded
  BY DeliveryInvariant, InvBoundsLoss, PTL

(* The queue and the consumers hold messages the code could have sent.       *)
THEOREM DeliveryTypesHold == DeliverySpec => []DeliveryTypeOK
<1>1. DeliveryInv => DeliveryTypeOK
  <2> SUFFICES ASSUME DeliveryInv PROVE DeliveryTypeOK
    OBVIOUS
  <2>1. Counts /\ IsABag(visible) /\ BagToSet(visible) \subseteq Message
    BY DEF DeliveryInv, Delivering, Honest
  <2>2. ASSUME NEW c \in Consumer
        PROVE  /\ consumer[c].pc \in {"receive", "next", "handle", "resend", "discard"}
               /\ IsABag(consumer[c].batch) /\ BagToSet(consumer[c].batch) \subseteq Message
               /\ consumer[c].current \in SUBSET Message
               /\ Cardinality(consumer[c].current) =
                    IF consumer[c].pc \in {"receive", "next"} THEN 0 ELSE 1
               /\ consumer[c].todo \subseteq Handler /\ consumer[c].failed \subseteq Handler
               /\ consumer[c].late \in BOOLEAN
    <3>1. Sensible(consumer[c], done, failures)
      BY DEF DeliveryInv, Delivering
    <3>2. /\ consumer[c].late \in BOOLEAN /\ IsABag(consumer[c].batch)
          /\ BagToSet(consumer[c].batch) \subseteq Message
      BY <3>1 DEF Sensible, Honest
    <3>3. CASE consumer[c].pc \in {"receive", "next"}
      BY <3>1, <3>2, <3>3, FS_EmptySet DEF Sensible
    <3>4. CASE consumer[c].pc \in {"handle", "resend", "discard"}
      <4>1. PICK m : InHands(consumer[c], m, done, failures)
        BY <3>1, <3>4 DEF Sensible
      <4>2. /\ consumer[c].current = {m} /\ m \in Message
            /\ consumer[c].todo \cup consumer[c].failed \subseteq HandlersToRun(m)
        BY <4>1 DEF InHands, Honest
      <4>3. Cardinality({m}) = 1
        BY FS_Singleton
      <4>4. HandlersToRun(m) \subseteq Handler
        BY <4>2, RunHandlers
      <4>5. QED
        BY <3>2, <3>4, <4>2, <4>3, <4>4
    <3>5. QED
      BY <3>1, <3>3, <3>4 DEF Sensible
  <2>3. QED
    BY <2>1, <2>2 DEF DeliveryTypeOK, Counts
<1>2. QED
  BY <1>1, DeliveryInvariant, PTL

-----------------------------------------------------------------------------
(* Powers of two count sets of faults                                        *)

LEMMA PowerSets ==
  ASSUME NEW n \in Nat
  PROVE  2^n = Cardinality(SUBSET (1..n)) /\ IsFiniteSet(SUBSET (1..n)) /\ 2^n \in Nat
<1>1. IsFiniteSet(1..n) /\ Cardinality(1..n) = n
  BY FS_Interval
<1>2. QED
  BY <1>1, FS_SUBSET, FS_CardinalityType

LEMMA Apart ==
  ASSUME NEW S, NEW T, IsFiniteSet(S), IsFiniteSet(T), S \cap T = {}
  PROVE  /\ IsFiniteSet(S \cup T)
         /\ Cardinality(S \cup T) = Cardinality(S) + Cardinality(T)
         /\ Cardinality(S) \in Nat /\ Cardinality(T) \in Nat
<1>1. Cardinality(S) \in Nat /\ Cardinality(T) \in Nat
  BY FS_CardinalityType
<1>2. /\ IsFiniteSet(S \cup T)
      /\ Cardinality(S \cup T) = Cardinality(S) + Cardinality(T) - Cardinality(S \cap T)
  BY FS_Union
<1>3. Cardinality(S \cap T) = 0
  BY FS_EmptySet
<1>4. QED
  BY <1>1, <1>2, <1>3

LEMMA PowerZero == 2^0 = 1
<1>1. 0 = Cardinality({}) /\ IsFiniteSet({})
  BY FS_EmptySet
<1>2. 2^Cardinality({}) = Cardinality(SUBSET {})
  BY <1>1, FS_SUBSET
<1>3. SUBSET {} = {{}} /\ Cardinality({{}}) = 1
  BY FS_Singleton
<1>4. QED
  BY <1>1, <1>2, <1>3

\* Half of the subsets of 1..n+1 do without n+1.
LEMMA PowerDoubles == ASSUME NEW n \in Nat PROVE 2^(n + 1) = 2^n + 2^n
<1> DEFINE A == SUBSET (1..n)
           B == {S \cup {n + 1} : S \in A}
           f == [S \in A |-> S \cup {n + 1}]
<1>1. 1..n+1 = (1..n) \cup {n+1} /\ n + 1 \notin 1..n /\ n + 1 \in Nat
  OBVIOUS
<1>2. SUBSET (1..n+1) = A \cup B
  <2>1. ASSUME NEW S \in SUBSET (1..n+1) PROVE S \in A \cup B
    <3>1. CASE n+1 \in S
      <4>1. S \ {n+1} \in A /\ S = (S \ {n+1}) \cup {n+1}
        BY <1>1, <3>1
      <4>2. QED
        BY <4>1
    <3>2. CASE n+1 \notin S
      BY <1>1, <3>2
    <3>3. QED
      BY <3>1, <3>2
  <2>2. A \cup B \subseteq SUBSET (1..n+1)
    BY <1>1
  <2>3. QED
    BY <2>1, <2>2
<1>3. A \cap B = {}
  BY <1>1
<1>4. f \in Bijection(A, B)
  <2>1. ASSUME NEW S \in A, NEW T \in A, S \cup {n+1} = T \cup {n+1} PROVE S = T
    <3>1. S = (S \cup {n+1}) \ {n+1} /\ T = (T \cup {n+1}) \ {n+1}
      BY <1>1
    <3>2. QED
      BY <2>1, <3>1
  <2>2. f \in [A -> B] /\ \A S \in A : f[S] = S \cup {n+1}
    OBVIOUS
  <2>3. \A T \in B : \E S \in A : f[S] = T
    OBVIOUS
  <2> HIDE DEF f, A, B
  <2>4. f \in Injection(A, B)
    BY <2>1, <2>2 DEF Injection, IsInjective
  <2>5. f \in Surjection(A, B)
    BY <2>2, <2>3 DEF Surjection
  <2>6. QED
    BY <2>4, <2>5 DEF Bijection
<1>5. IsFiniteSet(A) /\ Cardinality(A) = 2^n /\ 2^n \in Nat
  BY PowerSets
<1>6. 2^(n+1) = Cardinality(A \cup B)
  BY <1>1, <1>2, PowerSets
<1> HIDE DEF A, B, f
<1>7. IsFiniteSet(B) /\ Cardinality(B) = Cardinality(A)
  BY <1>4, <1>5, FS_Bijection DEF ExistsBijection
<1>8. Cardinality(A \cup B) = Cardinality(A) + Cardinality(B)
  BY <1>3, <1>5, <1>7, Apart
<1>9. QED
  BY <1>5, <1>6, <1>7, <1>8

-----------------------------------------------------------------------------
(* The runs a handler h still owes on an event e                             *)

\* The copies in B of the messages that would run h on e.
Copies(B, e, h) ==
  {x \in BagToSet(B) \X Nat : Offers(x[1], e, h) /\ 1 <= x[2] /\ x[2] <= B[x[1]]}

\* The message in the hands of a consumer has still to run h, or h failed on it.
Working(r, e, h) == h \in r.todo \cup r.failed /\ \E m \in r.current : m.event = e

\* The runs a consumer in the state r may lead to.
Runs(r, e, h) ==
  Copies(r.batch, e, h) \cup (IF Working(r, e, h) THEN {<<NewMessage(e), 0>>} ELSE {})

HeldBy(f, e, h) ==
  {x \in Consumer \X (UNION {Runs(f[c], e, h) : c \in Consumer}) :
     x[2] \in Runs(f[x[1]], e, h)}

\* What has been run and what may still be run is bounded by the faults.
Owing(e, h) ==
  /\ IsFiniteSet(Copies(visible, e, h)) /\ IsFiniteSet(HeldBy(consumer, e, h))
  /\ \A c \in Consumer : IsFiniteSet(Copies(consumer[c].batch, e, h))
  /\ done[e][h] + Cardinality(Copies(visible, e, h)) + Cardinality(HeldBy(consumer, e, h))
       <= 2^faults

OnceInv == DeliveryInv /\ \A e \in Event, h \in Handler : Owing(e, h)

LEMMA CopiesUnion ==
  ASSUME NEW B, NEW C, IsABag(B), IsABag(C), NEW e, NEW h,
         IsFiniteSet(Copies(B, e, h)), IsFiniteSet(Copies(C, e, h))
  PROVE  /\ IsFiniteSet(Copies(B (+) C, e, h))
         /\ Cardinality(Copies(B (+) C, e, h)) =
              Cardinality(Copies(B, e, h)) + Cardinality(Copies(C, e, h))
         /\ Cardinality(Copies(B, e, h)) \in Nat
         /\ Cardinality(Copies(C, e, h)) \in Nat
<1> DEFINE b(m) == IF m \in DOMAIN B THEN B[m] ELSE 0
           f == [x \in Copies(C, e, h) |-> <<x[1], x[2] + b(x[1])>>]
           D == {f[x] : x \in Copies(C, e, h)}
<1>1. /\ \A m \in DOMAIN B : B[m] \in Nat /\ B[m] > 0 /\ b(m) = B[m]
      /\ \A m \in DOMAIN C : C[m] \in Nat /\ C[m] > 0
      /\ \A m : b(m) \in Nat /\ (m \notin DOMAIN B => b(m) = 0)
  BY DEF IsABag
<1>2. /\ DOMAIN (B (+) C) = DOMAIN B \cup DOMAIN C
      /\ \A m \in DOMAIN C : (B (+) C)[m] = b(m) + C[m]
      /\ \A m \in DOMAIN B \ DOMAIN C : (B (+) C)[m] = b(m)
  BY <1>1 DEF (+)
<1> HIDE DEF b
<1>3. Copies(B (+) C, e, h) = Copies(B, e, h) \cup D
  <2>1. ASSUME NEW x \in Copies(B (+) C, e, h) PROVE x \in Copies(B, e, h) \cup D
    <3>1. /\ x = <<x[1], x[2]>> /\ x[1] \in DOMAIN B \cup DOMAIN C /\ x[2] \in Nat
          /\ Offers(x[1], e, h) /\ 1 <= x[2] /\ x[2] <= (B (+) C)[x[1]]
      BY <1>2 DEF Copies, BagToSet
    <3>2. CASE x[2] <= b(x[1])
      <4>1. x[1] \in DOMAIN B
        BY <1>1, <3>1, <3>2
      <4>2. QED
        BY <1>1, <3>1, <3>2, <4>1 DEF Copies, BagToSet
    <3>3. CASE ~(x[2] <= b(x[1]))
      <4>1. x[1] \in DOMAIN C
        BY <1>1, <1>2, <3>1, <3>3
      <4>2. x[2] - b(x[1]) \in Nat /\ 1 <= x[2] - b(x[1]) /\ x[2] - b(x[1]) <= C[x[1]]
        BY <1>1, <1>2, <3>1, <3>3, <4>1
      <4>3. <<x[1], x[2] - b(x[1])>> \in Copies(C, e, h)
        BY <3>1, <4>1, <4>2 DEF Copies, BagToSet
      <4>4. f[<<x[1], x[2] - b(x[1])>>] = x
        BY <1>1, <3>1, <4>3
      <4>5. QED
        BY <4>3, <4>4
    <3>4. QED
      BY <3>2, <3>3
  <2>2. ASSUME NEW x \in Copies(B, e, h) PROVE x \in Copies(B (+) C, e, h)
    <3>1. /\ x = <<x[1], x[2]>> /\ x[1] \in DOMAIN B /\ x[2] \in Nat
          /\ Offers(x[1], e, h) /\ 1 <= x[2] /\ x[2] <= B[x[1]]
      BY DEF Copies, BagToSet
    <3>2. x[2] <= (B (+) C)[x[1]]
      BY <1>1, <1>2, <3>1
    <3>3. QED
      BY <1>2, <3>1, <3>2 DEF Copies, BagToSet
  <2>3. ASSUME NEW x \in Copies(C, e, h) PROVE f[x] \in Copies(B (+) C, e, h)
    <3>1. /\ x[1] \in DOMAIN C /\ x[2] \in Nat
          /\ Offers(x[1], e, h) /\ 1 <= x[2] /\ x[2] <= C[x[1]]
      BY DEF Copies, BagToSet
    <3>2. /\ f[x] = <<x[1], x[2] + b(x[1])>> /\ x[2] + b(x[1]) \in Nat
          /\ 1 <= x[2] + b(x[1]) /\ x[2] + b(x[1]) <= (B (+) C)[x[1]]
      BY <1>1, <1>2, <3>1
    <3>3. QED
      BY <1>2, <3>1, <3>2 DEF Copies, BagToSet
  <2>4. QED
    BY <2>1, <2>2, <2>3
<1>4. Copies(B, e, h) \cap D = {}
  <2>1. ASSUME NEW x \in Copies(C, e, h), f[x] \in Copies(B, e, h) PROVE FALSE
    <3>1. x[1] \in DOMAIN C /\ x[2] \in Nat /\ 1 <= x[2]
      BY DEF Copies, BagToSet
    <3>2. f[x] = <<x[1], x[2] + b(x[1])>>
      OBVIOUS
    <3>3. x[1] \in DOMAIN B /\ x[2] + b(x[1]) <= B[x[1]]
      BY <2>1, <3>2 DEF Copies, BagToSet
    <3>4. QED
      BY <1>1, <3>1, <3>3
  <2>2. QED
    BY <2>1
<1>5. f \in Bijection(Copies(C, e, h), D)
  <2>1. f \in [Copies(C, e, h) -> D] /\ \A y \in D : \E x \in Copies(C, e, h) : f[x] = y
    OBVIOUS
  <2>2. ASSUME NEW x \in Copies(C, e, h), NEW y \in Copies(C, e, h), f[x] = f[y]
        PROVE  x = y
    <3>1. /\ x = <<x[1], x[2]>> /\ y = <<y[1], y[2]>> /\ x[2] \in Nat /\ y[2] \in Nat
      BY DEF Copies
    <3>2. x[1] = y[1] /\ x[2] + b(x[1]) = y[2] + b(y[1])
      BY <2>2
    <3>3. x[2] = y[2]
      BY <1>1, <3>1, <3>2
    <3>4. QED
      BY <3>1, <3>2, <3>3
  <2> HIDE DEF f, D
  <2>3. QED
    BY <2>1, <2>2 DEF Bijection, Injection, IsInjective, Surjection
<1> HIDE DEF f, D
<1>6. IsFiniteSet(D) /\ Cardinality(D) = Cardinality(Copies(C, e, h))
  BY <1>5, FS_Bijection DEF ExistsBijection
<1>7. QED
  BY <1>3, <1>4, <1>6, Apart

\* One copy of a message that runs h on e owes one run, any other none.
LEMMA CopiesOfSet ==
  ASSUME NEW m, NEW e, NEW h
  PROVE  /\ Copies(SetToBag({m}), e, h) = IF Offers(m, e, h) THEN {<<m, 1>>} ELSE {}
         /\ Copies(EmptyBag, e, h) = {}
<1>1. DOMAIN SetToBag({m}) = {m} /\ SetToBag({m})[m] = 1
  BY DEF SetToBag
<1>2. \A x \in {m} \X Nat : 1 <= x[2] /\ x[2] <= 1 <=> x = <<m, 1>>
  OBVIOUS
<1>3. DOMAIN EmptyBag = {}
  BY DEF EmptyBag, SetToBag
<1>4. Copies(EmptyBag, e, h) = {}
  BY <1>3 DEF Copies, BagToSet
<1>5. Copies(SetToBag({m}), e, h) =
        {x \in {m} \X Nat : Offers(x[1], e, h) /\ 1 <= x[2] /\ x[2] <= SetToBag({m})[x[1]]}
  BY <1>1 DEF Copies, BagToSet
<1>6. \A x \in {m} \X Nat : x[1] = m
  OBVIOUS
<1>7. Copies(SetToBag({m}), e, h) = {x \in {m} \X Nat : Offers(m, e, h) /\ x = <<m, 1>>}
  BY <1>1, <1>2, <1>5, <1>6
<1>8. QED
  BY <1>4, <1>7

\* A bag is what is taken from it and what is left.
LEMMA TakenAndLeft ==
  ASSUME NEW B, NEW C, IsABag(B), IsABag(C), C \sqsubseteq B
  PROVE  (B (-) C) (+) C = B /\ IsABag(B (-) C)
<1> DEFINE D == [m \in DOMAIN B |-> IF m \in DOMAIN C THEN B[m] - C[m] ELSE B[m]]
           L == B (-) C
<1>1. /\ \A m \in DOMAIN B : B[m] \in Nat /\ B[m] > 0
      /\ \A m \in DOMAIN C : C[m] \in Nat /\ C[m] > 0
      /\ DOMAIN C \subseteq DOMAIN B /\ \A m \in DOMAIN C : C[m] <= B[m]
      /\ B = [m \in DOMAIN B |-> B[m]]
  BY DEF IsABag, \sqsubseteq
<1>2. L = [m \in {d \in DOMAIN D : D[d] > 0} |-> D[m]]
  BY DEF (-)
<1>3. /\ DOMAIN D = DOMAIN B
      /\ \A m \in DOMAIN B \ DOMAIN C : D[m] = B[m]
      /\ \A m \in DOMAIN C : D[m] = B[m] - C[m]
  BY <1>1
<1> HIDE DEF D
<1>4. /\ DOMAIN L \subseteq DOMAIN B
      /\ \A m \in DOMAIN L : L[m] = D[m] /\ D[m] > 0
      /\ \A m \in DOMAIN B \ DOMAIN L : ~(D[m] > 0)
  BY <1>2, <1>3
<1>5. \A m \in DOMAIN B \ DOMAIN L : m \in DOMAIN C /\ C[m] = B[m]
  BY <1>1, <1>3, <1>4
<1>6. IsABag(L)
  <2>1. \A m \in DOMAIN L : D[m] \in Nat
    BY <1>1, <1>3, <1>4
  <2>2. QED
    BY <1>2, <1>4, <2>1 DEF IsABag
<1> HIDE DEF L
<1>7. /\ DOMAIN (L (+) C) = DOMAIN B
      /\ L (+) C = [m \in DOMAIN (L (+) C) |-> (L (+) C)[m]]
  BY <1>1, <1>4, <1>5 DEF (+)
<1>8. \A m \in DOMAIN B : (L (+) C)[m] = B[m]
  BY <1>1, <1>3, <1>4, <1>5 DEF (+)
<1>9. L (+) C = B
  BY <1>1, <1>7, <1>8
<1>10. QED
  BY <1>6, <1>9 DEF L

LEMMA CopiesTaken ==
  ASSUME NEW B, NEW C, IsABag(B), IsABag(C), C \sqsubseteq B, NEW e, NEW h,
         IsFiniteSet(Copies(B, e, h))
  PROVE  /\ IsFiniteSet(Copies(B (-) C, e, h)) /\ IsFiniteSet(Copies(C, e, h))
         /\ Cardinality(Copies(B (-) C, e, h)) \in Nat
         /\ Cardinality(Copies(C, e, h)) \in Nat
         /\ Cardinality(Copies(B, e, h)) =
              Cardinality(Copies(B (-) C, e, h)) + Cardinality(Copies(C, e, h))
<1>1. \A m \in DOMAIN C : m \in DOMAIN B /\ C[m] <= B[m] /\ C[m] \in Nat /\ B[m] \in Nat
  BY DEF IsABag, \sqsubseteq
<1>2. Copies(C, e, h) \subseteq Copies(B, e, h)
  BY <1>1 DEF Copies, BagToSet
<1>3. \A m \in DOMAIN (B (-) C) : m \in DOMAIN B /\ (B (-) C)[m] <= B[m]
                                  /\ (B (-) C)[m] \in Nat /\ B[m] \in Nat
  BY <1>1 DEF (-), IsABag
<1>4. Copies(B (-) C, e, h) \subseteq Copies(B, e, h)
  BY <1>3 DEF Copies, BagToSet
<1>5. IsFiniteSet(Copies(B (-) C, e, h)) /\ IsFiniteSet(Copies(C, e, h))
  BY <1>2, <1>4, FS_Subset
<1>6. (B (-) C) (+) C = B /\ IsABag(B (-) C)
  BY TakenAndLeft
<1>7. QED
  BY <1>5, <1>6, CopiesUnion

LEMMA RunsCount ==
  ASSUME NEW r, NEW e, NEW h, IsFiniteSet(Copies(r.batch, e, h))
  PROVE  /\ IsFiniteSet(Runs(r, e, h))
         /\ Cardinality(Copies(r.batch, e, h)) \in Nat
         /\ Working(r, e, h) =>
              Cardinality(Runs(r, e, h)) = Cardinality(Copies(r.batch, e, h)) + 1
         /\ ~Working(r, e, h) =>
              Cardinality(Runs(r, e, h)) = Cardinality(Copies(r.batch, e, h))
<1>1. Cardinality(Copies(r.batch, e, h)) \in Nat
  BY FS_CardinalityType
<1>2. <<NewMessage(e), 0>> \notin Copies(r.batch, e, h)
  BY DEF Copies
<1>3. CASE Working(r, e, h)
  BY <1>1, <1>2, <1>3, FS_AddElement DEF Runs
<1>4. CASE ~Working(r, e, h)
  <2>1. Runs(r, e, h) = Copies(r.batch, e, h)
    BY <1>4 DEF Runs
  <2>2. QED
    BY <1>1, <1>4, <2>1
<1>5. QED
  BY <1>1, <1>3, <1>4

\* What one consumer holds, as part of what all hold.
Share(c, r, e, h) == {c} \X Runs(r, e, h)

LEMMA ShareCount ==
  ASSUME NEW c, NEW r, NEW e, NEW h, IsFiniteSet(Runs(r, e, h))
  PROVE  /\ IsFiniteSet(Share(c, r, e, h))
         /\ Cardinality(Share(c, r, e, h)) = Cardinality(Runs(r, e, h))
         /\ Cardinality(Runs(r, e, h)) \in Nat
<1> DEFINE S == Runs(r, e, h)
           T == Share(c, r, e, h)
           f == [x \in S |-> <<c, x>>]
<1>1. f \in Bijection(S, T)
  <2>1. /\ f \in [S -> T]
        /\ \A x, y \in S : f[x] = f[y] => x = y
        /\ \A z \in T : \E x \in S : f[x] = z
    BY DEF Share
  <2> HIDE DEF f, S, T
  <2>2. QED
    BY <2>1 DEF Bijection, Injection, IsInjective, Surjection
<1> HIDE DEF f
<1>2. QED
  BY <1>1, FS_Bijection, FS_CardinalityType DEF ExistsBijection

\* A step of the consumer c changes its share and no other.
LEMMA HeldStep ==
  ASSUME NEW f, NEW g, NEW c \in Consumer, NEW e, NEW h,
         \A d \in Consumer : d # c => g[d] = f[d],
         IsFiniteSet(HeldBy(f, e, h)), IsFiniteSet(Runs(f[c], e, h)),
         IsFiniteSet(Runs(g[c], e, h))
  PROVE  /\ IsFiniteSet(HeldBy(g, e, h))
         /\ Cardinality(HeldBy(f, e, h)) \in Nat /\ Cardinality(HeldBy(g, e, h)) \in Nat
         /\ Cardinality(Runs(f[c], e, h)) \in Nat /\ Cardinality(Runs(g[c], e, h)) \in Nat
         /\ Cardinality(Runs(f[c], e, h)) <= Cardinality(HeldBy(f, e, h))
         /\ Cardinality(HeldBy(g, e, h)) + Cardinality(Runs(f[c], e, h)) =
              Cardinality(HeldBy(f, e, h)) + Cardinality(Runs(g[c], e, h))
<1> DEFINE rest == {x \in HeldBy(f, e, h) : x[1] # c}
           old == Share(c, f[c], e, h)
           new == Share(c, g[c], e, h)
<1>1. HeldBy(f, e, h) = rest \cup old /\ rest \cap old = {}
  BY DEF HeldBy, Share
<1>2. HeldBy(g, e, h) = rest \cup new /\ rest \cap new = {}
  <2>1. \A x : x \in HeldBy(f, e, h) <=>
               \E d \in Consumer : \E y \in Runs(f[d], e, h) : x = <<d, y>>
    BY DEF HeldBy
  <2>2. \A x : x \in HeldBy(g, e, h) <=>
               \E d \in Consumer : \E y \in Runs(g[d], e, h) : x = <<d, y>>
    BY DEF HeldBy
  <2>3. \A x : x \in new <=> \E y \in Runs(g[c], e, h) : x = <<c, y>>
    BY DEF Share
  <2>4. \A x : x \in rest <=>
               \E d \in Consumer \ {c} : \E y \in Runs(f[d], e, h) : x = <<d, y>>
    BY <2>1
  <2> HIDE DEF rest, new
  <2>5. HeldBy(g, e, h) = rest \cup new
    BY <2>2, <2>3, <2>4
  <2>6. rest \cap new = {}
    BY <2>3, <2>4
  <2>7. QED
    BY <2>5, <2>6
<1>3. IsFiniteSet(rest)
  BY FS_Subset
<1>4. /\ IsFiniteSet(old) /\ Cardinality(old) = Cardinality(Runs(f[c], e, h))
      /\ IsFiniteSet(new) /\ Cardinality(new) = Cardinality(Runs(g[c], e, h))
  BY ShareCount
<1> HIDE DEF rest, old, new
<1>5. /\ Cardinality(HeldBy(f, e, h)) = Cardinality(rest) + Cardinality(old)
      /\ Cardinality(rest) \in Nat /\ Cardinality(old) \in Nat
  BY <1>1, <1>3, <1>4, Apart
<1>6. /\ Cardinality(HeldBy(g, e, h)) = Cardinality(rest) + Cardinality(new)
      /\ Cardinality(new) \in Nat /\ IsFiniteSet(HeldBy(g, e, h))
  BY <1>2, <1>3, <1>4, Apart
<1>7. QED
  BY <1>4, <1>5, <1>6

\* What e and h owe, from the side of the consumer c.
Due(c, e, h) ==
  done[e][h] + Cardinality(Copies(visible, e, h)) + Cardinality(Runs(consumer[c], e, h))

(* A step of c keeps the bound when what is due from its side does not grow, *)
(* and with a fault when it at most doubles.                                 *)
LEMMA OwingStep ==
  ASSUME OnceInv, NEW c \in Consumer, NEW r, Set(c, r), Counts', NEW e \in Event,
         NEW h \in Handler,
         IsFiniteSet(Copies(visible', e, h)), IsFiniteSet(Copies(r.batch, e, h)),
         \/ UNCHANGED faults /\ Due(c, e, h)' <= Due(c, e, h)
         \/ Fault /\ Due(c, e, h)' <= Due(c, e, h) + Due(c, e, h)
  PROVE  Owing(e, h)'
<1>1. /\ consumer'[c] = r
      /\ \A d \in Consumer : d # c => consumer'[d] = consumer[d]
  BY DEF Set, OnceInv, DeliveryInv, Delivering
<1>2. Owing(e, h)
  BY DEF OnceInv
<1>3. \A d \in Consumer : IsFiniteSet(Copies(consumer'[d].batch, e, h))
  BY <1>1, <1>2 DEF Owing
<1>4. IsFiniteSet(Runs(consumer[c], e, h)) /\ IsFiniteSet(Runs(consumer'[c], e, h))
  BY <1>2, <1>3, RunsCount DEF Owing
<1> DEFINE H == Cardinality(HeldBy(consumer, e, h))
           H2 == Cardinality(HeldBy(consumer', e, h))
           K == Cardinality(Runs(consumer[c], e, h))
           K2 == Cardinality(Runs(consumer'[c], e, h))
           V == Cardinality(Copies(visible, e, h))
           V2 == Cardinality(Copies(visible', e, h))
           P == 2^faults
           P2 == 2^faults'
<1>5. /\ IsFiniteSet(HeldBy(consumer', e, h))
      /\ H \in Nat /\ H2 \in Nat /\ K \in Nat /\ K2 \in Nat /\ K <= H
      /\ H2 + K = H + K2
  BY <1>1, <1>2, <1>4, HeldStep DEF Owing
<1>6. V \in Nat /\ V2 \in Nat
  BY <1>2, FS_CardinalityType DEF Owing
<1>7. done[e][h] \in Nat /\ done'[e][h] \in Nat /\ faults \in Nat /\ faults' \in Nat
  BY DeliveryAssumption DEF OnceInv, DeliveryInv, Delivering, Counts
<1>8. P \in Nat /\ 2^(faults + 1) = P + P
  BY <1>7, PowerSets, PowerDoubles
<1>9. done[e][h] + V + H <= P
  BY <1>2 DEF Owing
<1>10. done'[e][h] + V2 + H2 <= P2
  <2>1. Due(c, e, h) = done[e][h] + V + K /\ Due(c, e, h)' = done'[e][h] + V2 + K2
    BY DEF Due
  <2>a. UNCHANGED faults => P2 = P
    OBVIOUS
  <2>b. Fault => P2 = P + P
    BY <1>8 DEF Fault
  <2> HIDE DEF H, H2, K, K2, V, V2, P, P2
  <2>2. CASE UNCHANGED faults /\ Due(c, e, h)' <= Due(c, e, h)
    <3>1. done'[e][h] + V2 + H2 <= done[e][h] + V + H
      BY <1>5, <1>6, <1>7, <2>1, <2>2
    <3>2. P2 = P
      BY <2>a, <2>2
    <3>3. QED
      BY <1>5, <1>6, <1>7, <1>8, <1>9, <3>1, <3>2
  <2>3. CASE Fault /\ Due(c, e, h)' <= Due(c, e, h) + Due(c, e, h)
    <3>1. done'[e][h] + V2 + H2 <= (done[e][h] + V + H) + (done[e][h] + V + H)
      BY <1>5, <1>6, <1>7, <2>1, <2>3
    <3>2. P2 = P + P
      BY <2>b, <2>3
    <3>3. QED
      BY <1>5, <1>6, <1>7, <1>8, <1>9, <3>1, <3>2
  <2>4. QED
    BY <2>2, <2>3
<1>11. QED
  BY <1>3, <1>5, <1>10 DEF Owing

-----------------------------------------------------------------------------
(* No action adds to what is owed, a fault at most doubles it                *)

LEMMA NextRuns ==
  ASSUME Delivering, NEW c \in Consumer, NextMessage(c)
  PROVE  \E r : Set(c, r) /\ r.batch = consumer[c].batch /\ r.current = {}
<1>1. CASE consumer[c].batch = EmptyBag
  BY <1>1 DEF NextMessage, Receiving
<1>2. CASE consumer[c].batch # EmptyBag
  <2> DEFINE r == [consumer[c] EXCEPT !.pc = "next", !.current = {},
                                      !.todo = {}, !.failed = {}]
  <2>1. Set(c, r)
    BY <1>2 DEF NextMessage
  <2>2. r.batch = consumer[c].batch /\ r.current = {}
    BY DEF Delivering, Sensible, IsState
  <2> HIDE DEF r
  <2>3. QED
    BY <2>1, <2>2
<1>3. QED
  BY <1>1, <1>2

\* The numbers that what is due from the side of c is the sum of.
LEMMA DueTypes ==
  ASSUME OnceInv, NEW c \in Consumer, NEW e \in Event, NEW h \in Handler
  PROVE  /\ done[e][h] \in Nat
         /\ IsFiniteSet(Copies(visible, e, h))
         /\ Cardinality(Copies(visible, e, h)) \in Nat
         /\ IsFiniteSet(Copies(consumer[c].batch, e, h))
         /\ Cardinality(Copies(consumer[c].batch, e, h)) \in Nat
         /\ Cardinality(Runs(consumer[c], e, h)) \in Nat
         /\ Working(consumer[c], e, h) =>
              Cardinality(Runs(consumer[c], e, h)) =
                Cardinality(Copies(consumer[c].batch, e, h)) + 1
         /\ ~Working(consumer[c], e, h) =>
              Cardinality(Runs(consumer[c], e, h)) =
                Cardinality(Copies(consumer[c].batch, e, h))
<1>1. done[e][h] \in Nat
  BY DEF OnceInv, DeliveryInv, Delivering, Counts
<1>2. /\ IsFiniteSet(Copies(visible, e, h))
      /\ IsFiniteSet(Copies(consumer[c].batch, e, h))
  BY DEF OnceInv, Owing
<1>3. QED
  BY <1>1, <1>2, RunsCount, FS_CardinalityType

(* What c is left with after a step that moves it to r, when no handler ends *)
(* during the step.                                                          *)
LEMMA DueAfter ==
  ASSUME OnceInv, NEW c \in Consumer, NEW r, Set(c, r), UNCHANGED done,
         NEW e \in Event, NEW h \in Handler, IsFiniteSet(Copies(r.batch, e, h))
  PROVE  /\ Due(c, e, h)' = done[e][h] + Cardinality(Copies(visible', e, h))
                              + Cardinality(Runs(r, e, h))
         /\ Cardinality(Copies(r.batch, e, h)) \in Nat
         /\ Working(r, e, h) =>
              Cardinality(Runs(r, e, h)) = Cardinality(Copies(r.batch, e, h)) + 1
         /\ ~Working(r, e, h) =>
              Cardinality(Runs(r, e, h)) = Cardinality(Copies(r.batch, e, h))
<1>1. consumer'[c] = r
  BY DEF Set, OnceInv, DeliveryInv, Delivering
<1>2. QED
  BY <1>1, RunsCount DEF Due

LEMMA ReceiveOnce ==
  ASSUME OnceInv, Counts', NEW c \in Consumer, Receive(c), NEW e \in Event, NEW h \in Handler
  PROVE  Owing(e, h)'
<1>a. Delivering /\ IsABag(visible)
  BY DEF OnceInv, DeliveryInv, Delivering
<1>1. PICK B \in Batches : visible' = visible (-) B
                           /\ Set(c, [Receiving EXCEPT !.pc = "next", !.batch = B])
  BY DEF Receive
<1> DEFINE r == [Receiving EXCEPT !.pc = "next", !.batch = B]
<1>2. Set(c, r) /\ r.batch = B /\ r.current = {}
  BY <1>1 DEF Receiving
<1> HIDE DEF r
<1>3. IsABag(B) /\ B \sqsubseteq visible
  BY <1>a, <1>1, BatchMembers DEF Batches
<1>4. UNCHANGED <<done, faults>>
  BY DEF Receive
<1> DEFINE V == Cardinality(Copies(visible, e, h))
           V2 == Cardinality(Copies(visible', e, h))
           K == Cardinality(Runs(consumer[c], e, h))
           M == Cardinality(Copies(B, e, h))
<1>5. /\ IsFiniteSet(Copies(visible', e, h)) /\ IsFiniteSet(Copies(r.batch, e, h))
      /\ V2 \in Nat /\ M \in Nat /\ V = V2 + M
  BY <1>a, <1>1, <1>2, <1>3, DueTypes, CopiesTaken
<1>6. ~Working(r, e, h)
  BY <1>2 DEF Working
<1>7. Due(c, e, h)' = done[e][h] + V2 + M
  BY <1>2, <1>4, <1>5, <1>6, DueAfter
<1>8. Due(c, e, h) = done[e][h] + V + K /\ done[e][h] \in Nat /\ K \in Nat
  BY DueTypes DEF Due
<1> HIDE DEF V, V2, M, K
<1>9. Due(c, e, h)' <= Due(c, e, h)
  BY <1>5, <1>7, <1>8
<1>10. QED
  BY <1>2, <1>4, <1>5, <1>9, OwingStep

LEMMA BeginOnce ==
  ASSUME OnceInv, Counts', NEW c \in Consumer, Begin(c), NEW e \in Event, NEW h \in Handler
  PROVE  Owing(e, h)'
<1>a. Delivering /\ Sensible(consumer[c], done, failures)
  BY DEF OnceInv, DeliveryInv, Delivering
<1>1. PICK m \in BagToSet(consumer[c].batch) :
         Set(c, [consumer[c] EXCEPT !.pc = "handle", !.current = {m},
                                    !.batch = @ (-) One(m), !.todo = HandlersToRun(m)])
  BY DEF Begin
<1> DEFINE r == [consumer[c] EXCEPT !.pc = "handle", !.current = {m},
                                    !.batch = @ (-) One(m), !.todo = HandlersToRun(m)]
<1>2. /\ Set(c, r) /\ r.current = {m}
      /\ r.batch = consumer[c].batch (-) One(m) /\ r.todo = HandlersToRun(m)
      /\ r.failed = consumer[c].failed
  BY <1>a, <1>1 DEF Sensible, IsState
<1> HIDE DEF r
<1>3. UNCHANGED <<visible, done, faults>> /\ consumer[c].pc = "next"
  BY DEF Begin, At
<1>4. consumer[c].current = {} /\ consumer[c].failed = {} /\ IsABag(consumer[c].batch)
  BY <1>a, <1>3 DEF Sensible
<1>5. IsABag(One(m)) /\ One(m) \sqsubseteq consumer[c].batch
  <2>1. DOMAIN One(m) = {m} /\ One(m)[m] = 1
    BY DEF One, SetToBag
  <2>2. m \in DOMAIN consumer[c].batch
    BY DEF BagToSet
  <2>3. consumer[c].batch[m] >= 1
    BY <1>4, <2>2 DEF IsABag
  <2>4. QED
    BY <2>1, <2>2, <2>3, SetAsBag DEF \sqsubseteq, One
<1> DEFINE V == Cardinality(Copies(visible, e, h))
           N == Cardinality(Copies(consumer[c].batch, e, h))
           N2 == Cardinality(Copies(r.batch, e, h))
           K == Cardinality(Runs(consumer[c], e, h))
           K2 == Cardinality(Runs(r, e, h))
           M == Cardinality(Copies(One(m), e, h))
<1>6. /\ IsFiniteSet(Copies(r.batch, e, h))
      /\ N2 \in Nat /\ M \in Nat /\ N = N2 + M
  BY <1>2, <1>4, <1>5, DueTypes, CopiesTaken
<1>7. Working(r, e, h) => M = 1
  <2>1. ASSUME Working(r, e, h) PROVE Offers(m, e, h)
    BY <1>2, <1>4, <2>1 DEF Working, Offers
  <2>2. ASSUME Offers(m, e, h) PROVE M = 1
    BY <2>2, CopiesOfSet, FS_Singleton DEF One
  <2>3. QED
    BY <2>1, <2>2
<1>8. /\ Due(c, e, h)' = done[e][h] + V + K2
      /\ Working(r, e, h) => K2 = N2 + 1
      /\ ~Working(r, e, h) => K2 = N2
  BY <1>2, <1>3, <1>6, DueAfter
<1>9. K = N
  BY <1>4, DueTypes DEF Working
<1>10. Due(c, e, h) = done[e][h] + V + K /\ done[e][h] \in Nat /\ V \in Nat
  BY DueTypes DEF Due
<1> HIDE DEF V, N, N2, K, K2, M
<1>11. Due(c, e, h)' <= Due(c, e, h)
  <2>1. K2 <= K
    BY <1>6, <1>7, <1>8, <1>9
  <2>2. K2 \in Nat /\ K \in Nat
    BY <1>6, <1>8, <1>9
  <2>3. QED
    BY <1>8, <1>10, <2>1, <2>2
<1>12. IsFiniteSet(Copies(visible', e, h))
  BY <1>3, DueTypes
<1>13. QED
  BY <1>2, <1>3, <1>6, <1>11, <1>12, OwingStep

LEMMA HandlerOnce ==
  ASSUME OnceInv, Counts', NEW c \in Consumer, NEW g \in Handler,
         HandlerSucceeds(c, g) \/ HandlerFails(c, g), NEW e \in Event, NEW h \in Handler
  PROVE  Owing(e, h)'
<1>a. Delivering /\ Sensible(consumer[c], done, failures) /\ Counts
  BY DEF OnceInv, DeliveryInv, Delivering
<1>b. consumer[c].pc = "handle" /\ g \in consumer[c].todo /\ UNCHANGED <<visible, faults>>
  BY DEF HandlerSucceeds, HandlerFails, At
<1>1. PICK m : /\ InHands(consumer[c], m, done, failures)
               /\ Current(c) = m /\ consumer[c].current = {m} /\ m \in Message
  BY <1>a, <1>b, InHandsOf
<1>2. m.event \in Event /\ g \notin consumer[c].failed
  BY <1>1, <1>b, RunHandlers DEF InHands
<1> DEFINE V == Cardinality(Copies(visible, e, h))
           K == Cardinality(Runs(consumer[c], e, h))
<1>3. /\ Due(c, e, h) = done[e][h] + V + K /\ done[e][h] \in Nat /\ V \in Nat
      /\ K \in Nat /\ IsFiniteSet(Copies(visible', e, h))
  BY <1>b, DueTypes DEF Due
<1>4. PICK r : /\ Set(c, r) /\ r.batch = consumer[c].batch /\ r.current = {m}
               /\ r.todo = consumer[c].todo \ {g}
               /\ \/ HandlerSucceeds(c, g) /\ r.failed = consumer[c].failed
                  \/ HandlerFails(c, g) /\ r.failed = consumer[c].failed \cup {g}
  <2>1. CASE HandlerSucceeds(c, g)
    <3> DEFINE r == [consumer[c] EXCEPT !.todo = @ \ {g}]
    <3>1. /\ Set(c, r) /\ r.batch = consumer[c].batch /\ r.current = {m}
          /\ r.todo = consumer[c].todo \ {g} /\ r.failed = consumer[c].failed
      BY <1>a, <1>1, <2>1 DEF HandlerSucceeds, Sensible, IsState
    <3> HIDE DEF r
    <3>2. QED
      BY <2>1, <3>1
  <2>2. CASE HandlerFails(c, g)
    <3> DEFINE r == [consumer[c] EXCEPT !.todo = @ \ {g}, !.failed = @ \cup {g}]
    <3>1. /\ Set(c, r) /\ r.batch = consumer[c].batch /\ r.current = {m}
          /\ r.todo = consumer[c].todo \ {g} /\ r.failed = consumer[c].failed \cup {g}
      BY <1>a, <1>1, <2>2 DEF HandlerFails, Sensible, IsState
    <3> HIDE DEF r
    <3>2. QED
      BY <2>2, <3>1
  <2>3. QED
    BY <2>1, <2>2
<1>5. consumer'[c] = r
  BY <1>a, <1>4 DEF Set, Delivering
<1>6. Due(c, e, h)' <= Due(c, e, h)
  <2> DEFINE K2 == Cardinality(Runs(r, e, h))
  <2>1. Due(c, e, h)' = done'[e][h] + V + K2
    BY <1>5, <1>b DEF Due
  <2>2. IsFiniteSet(Copies(r.batch, e, h))
    BY <1>4, DueTypes
  <2>3. \/ Working(consumer[c], e, h) /\ Working(r, e, h) /\ K2 = K
        \/ Working(consumer[c], e, h) /\ ~Working(r, e, h) /\ K = K2 + 1
        \/ ~Working(consumer[c], e, h) /\ ~Working(r, e, h) /\ K2 = K
    <3>1. Working(r, e, h) => Working(consumer[c], e, h)
      BY <1>1, <1>b, <1>4 DEF Working
    <3>2. QED
      BY <1>4, <2>2, <3>1, RunsCount
  <2>4. K2 \in Nat
    BY <2>2, RunsCount, FS_CardinalityType
  <2>5. CASE HandlerFails(c, g) /\ r.failed = consumer[c].failed \cup {g}
    <3>1. UNCHANGED done /\ (Working(consumer[c], e, h) => Working(r, e, h))
      BY <1>1, <1>4, <2>5 DEF HandlerFails, Working
    <3> HIDE DEF V, K, K2
    <3>2. QED
      BY <1>3, <2>1, <2>3, <3>1
  <2>6. CASE HandlerSucceeds(c, g) /\ r.failed = consumer[c].failed
    <3>1. done' = [done EXCEPT ![m.event][g] = @ + 1]
      BY <1>1, <2>6 DEF HandlerSucceeds
    <3>2. CASE m.event = e /\ g = h
      <4>1. done'[e][h] = done[e][h] + 1
        BY <1>a, <1>2, <3>1, <3>2 DEF Counts
      <4>2. Working(consumer[c], e, h) /\ ~Working(r, e, h)
        BY <1>1, <1>2, <1>4, <1>b, <2>6, <3>2 DEF Working
      <4> HIDE DEF V, K, K2
      <4>3. QED
        BY <1>3, <2>1, <2>3, <2>4, <4>1, <4>2
    <3>3. CASE ~(m.event = e /\ g = h)
      <4>1. done'[e][h] = done[e][h]
        BY <1>a, <1>2, <3>1, <3>3 DEF Counts
      <4> HIDE DEF V, K, K2
      <4>2. QED
        BY <1>3, <2>1, <2>3, <2>4, <4>1
    <3>4. QED
      BY <3>2, <3>3
  <2>7. QED
    BY <1>4, <2>5, <2>6
<1>7. IsFiniteSet(Copies(r.batch, e, h))
  BY <1>4, DueTypes
<1>8. QED
  BY <1>b, <1>3, <1>4, <1>6, <1>7, OwingStep

\* A step of c that only deletes its message and goes on to the state r.
LEMMA ShedOnce ==
  ASSUME OnceInv, Counts', NEW c \in Consumer, NEW r, Set(c, r), UNCHANGED done,
         r.batch = consumer[c].batch,
         visible' = visible \/ visible' = visible (-) One(Current(c)),
         UNCHANGED faults \/ Fault,
         NEW e \in Event, NEW h \in Handler,
         Working(r, e, h) => Working(consumer[c], e, h)
  PROVE  Owing(e, h)'
<1> DEFINE V == Cardinality(Copies(visible, e, h))
           V2 == Cardinality(Copies(visible', e, h))
           N == Cardinality(Copies(consumer[c].batch, e, h))
           K == Cardinality(Runs(consumer[c], e, h))
           K2 == Cardinality(Runs(r, e, h))
<1>1. /\ Due(c, e, h) = done[e][h] + V + K /\ done[e][h] \in Nat /\ V \in Nat
      /\ N \in Nat /\ K \in Nat
      /\ Working(consumer[c], e, h) => K = N + 1
      /\ ~Working(consumer[c], e, h) => K = N
  BY DueTypes DEF Due
<1>2. IsFiniteSet(Copies(visible', e, h)) /\ V2 \in Nat /\ V2 <= V
  <2>1. CASE visible' = visible
    BY <2>1, DueTypes
  <2>2. CASE visible' = visible (-) One(Current(c))
    <3>1. IsABag(visible)
      BY DEF OnceInv, DeliveryInv, Delivering
    <3>2. \A m \in DOMAIN (visible (-) One(Current(c))) :
            /\ m \in DOMAIN visible /\ visible[m] \in Nat
            /\ (visible (-) One(Current(c)))[m] \in Int
            /\ (visible (-) One(Current(c)))[m] <= visible[m]
      BY <3>1 DEF (-), One, SetToBag, IsABag
    <3>3. Copies(visible (-) One(Current(c)), e, h) \subseteq Copies(visible, e, h)
      BY <3>2 DEF Copies, BagToSet
    <3>4. QED
      BY <2>2, <3>3, DueTypes, FS_Subset, FS_CardinalityType
  <2>3. QED
    BY <2>1, <2>2
<1>3. IsFiniteSet(Copies(r.batch, e, h))
  BY DueTypes
<1>4. /\ Due(c, e, h)' = done[e][h] + V2 + K2
      /\ Working(r, e, h) => K2 = N + 1
      /\ ~Working(r, e, h) => K2 = N
  BY <1>3, DueAfter
<1> HIDE DEF V, V2, N, K, K2
<1>5. K2 \in Nat /\ K2 <= K
  BY <1>1, <1>4
<1>6. Due(c, e, h)' <= Due(c, e, h) /\ Due(c, e, h) \in Nat /\ Due(c, e, h)' \in Nat
  BY <1>1, <1>2, <1>4, <1>5
<1>7. Due(c, e, h)' <= Due(c, e, h) + Due(c, e, h)
  BY <1>6
<1>8. QED
  BY <1>2, <1>3, <1>6, <1>7, OwingStep

LEMMA RemoveOnce ==
  ASSUME OnceInv, Counts', NEW c \in Consumer,
         Remove(c) \/ Discard(c) \/ RemoveFails(c) \/ ResendFails(c),
         NEW e \in Event, NEW h \in Handler
  PROVE  Owing(e, h)'
<1>a. Delivering /\ Sensible(consumer[c], done, failures)
  BY DEF OnceInv, DeliveryInv, Delivering
<1>1. /\ UNCHANGED done /\ (UNCHANGED faults \/ Fault)
      /\ visible' = visible \/ visible' = visible (-) One(Current(c))
  BY DEF Remove, Discard, RemoveFails, ResendFails, Deleted
<1>2. PICK r : /\ Set(c, r) /\ r.batch = consumer[c].batch
               /\ \/ r.current = {}
                  \/ /\ r.current = consumer[c].current
                     /\ r.todo = consumer[c].todo /\ r.failed = consumer[c].failed
  <2>1. CASE NextMessage(c)
    BY <1>a, <2>1, NextRuns
  <2>2. ASSUME NEW pc, Set(c, [consumer[c] EXCEPT !.pc = pc])
        PROVE  \E r : /\ Set(c, r) /\ r.batch = consumer[c].batch
                      /\ r.current = consumer[c].current
                      /\ r.todo = consumer[c].todo /\ r.failed = consumer[c].failed
    <3> DEFINE r == [consumer[c] EXCEPT !.pc = pc]
    <3>1. /\ r.batch = consumer[c].batch /\ r.current = consumer[c].current
          /\ r.todo = consumer[c].todo /\ r.failed = consumer[c].failed
      BY <1>a DEF Sensible, IsState
    <3> HIDE DEF r
    <3>2. Set(c, r)
      BY <2>2 DEF r
    <3>3. QED
      BY <3>1, <3>2
  <2>3. \/ NextMessage(c)
        \/ Set(c, [consumer[c] EXCEPT !.pc = "resend"])
        \/ Set(c, [consumer[c] EXCEPT !.pc = "discard"])
    BY DEF Remove, Discard, RemoveFails, ResendFails
  <2>4. QED
    BY <2>1, <2>2, <2>3
<1>3. Working(r, e, h) => Working(consumer[c], e, h)
  BY <1>2 DEF Working
<1>4. QED
  BY <1>1, <1>2, <1>3, ShedOnce

LEMMA ResendOnce ==
  ASSUME OnceInv, Counts', NEW c \in Consumer, Resend(c), NEW e \in Event, NEW h \in Handler
  PROVE  Owing(e, h)'
<1>a. Delivering /\ IsABag(visible) /\ Counts
  BY DEF OnceInv, DeliveryInv, Delivering
<1>b. consumer[c].pc = "resend" /\ NextMessage(c) /\ UNCHANGED <<done, failures, faults>>
  BY DEF Resend, At
<1>1. PICK m : /\ InHands(consumer[c], m, done, failures)
               /\ Current(c) = m /\ consumer[c].current = {m} /\ m \in Message
  BY <1>a, <1>b, InHandsOf
<1> DEFINE retry == [event |-> m.event, attempt |-> m.attempt + 1,
                     failed |-> consumer[c].failed]
<1>2. visible' = visible (+) One(retry)
  BY <1>1 DEF Resend
<1>3. retry.event = m.event /\ retry.failed = consumer[c].failed /\ consumer[c].failed # {}
  BY <1>1, <1>b DEF InHands
<1> HIDE DEF retry
<1>4. PICK r : Set(c, r) /\ r.batch = consumer[c].batch /\ r.current = {}
  BY <1>a, <1>b, NextRuns
<1> DEFINE V == Cardinality(Copies(visible, e, h))
           V2 == Cardinality(Copies(visible', e, h))
           N == Cardinality(Copies(consumer[c].batch, e, h))
           K == Cardinality(Runs(consumer[c], e, h))
           K2 == Cardinality(Runs(r, e, h))
           M == Cardinality(Copies(One(retry), e, h))
<1>5. /\ Due(c, e, h) = done[e][h] + V + K /\ done[e][h] \in Nat /\ V \in Nat
      /\ N \in Nat /\ IsFiniteSet(Copies(visible, e, h))
      /\ Working(consumer[c], e, h) => K = N + 1
      /\ ~Working(consumer[c], e, h) => K = N
  BY DueTypes DEF Due
<1>6. /\ IsFiniteSet(Copies(One(retry), e, h)) /\ (M = 0 \/ M = 1)
      /\ M = 1 => Offers(retry, e, h)
  BY CopiesOfSet, FS_Singleton, FS_EmptySet DEF One
<1>7. Offers(retry, e, h) => Working(consumer[c], e, h)
  BY <1>1, <1>3 DEF Offers, HandlersToRun, Working
<1>8. IsABag(One(retry))
  BY SetAsBag DEF One
<1>9. IsFiniteSet(Copies(visible', e, h)) /\ V2 = V + M
  BY <1>a, <1>2, <1>5, <1>6, <1>8, CopiesUnion
<1>10. IsFiniteSet(Copies(r.batch, e, h)) /\ ~Working(r, e, h)
  BY <1>4, DueTypes DEF Working
<1>11. Due(c, e, h)' = done[e][h] + V2 + K2 /\ K2 = N
  BY <1>b, <1>4, <1>10, DueAfter
<1> HIDE DEF V, V2, N, K, K2, M
<1>12. M + N <= K
  BY <1>5, <1>6, <1>7
<1>13. Due(c, e, h)' <= Due(c, e, h)
  <2>1. M \in Nat /\ K \in Nat
    BY <1>5, <1>6
  <2>2. QED
    BY <1>5, <1>9, <1>11, <1>12, <2>1
<1>14. QED
  BY <1>b, <1>4, <1>9, <1>10, <1>13, OwingStep

(* A message that is received again owes what its consumer has run already   *)
(* or would run.                                                             *)
LEMMA UndeletedOnce ==
  ASSUME OnceInv, NEW c \in Consumer, NEW e \in Event, NEW h \in Handler
  PROVE  /\ IsABag(Undeleted(c)) /\ IsFiniteSet(Copies(Undeleted(c), e, h))
         /\ Cardinality(Copies(Undeleted(c), e, h)) \in Nat
         /\ Cardinality(Copies(Undeleted(c), e, h)) <=
              done[e][h] + Cardinality(Runs(consumer[c], e, h))
<1>a. Delivering /\ Sensible(consumer[c], done, failures) /\ IsABag(consumer[c].batch)
  BY DEF OnceInv, DeliveryInv, Delivering, Sensible
<1> DEFINE N == Cardinality(Copies(consumer[c].batch, e, h))
           K == Cardinality(Runs(consumer[c], e, h))
<1>1. /\ done[e][h] \in Nat /\ N \in Nat /\ K \in Nat
      /\ IsFiniteSet(Copies(consumer[c].batch, e, h))
      /\ Working(consumer[c], e, h) => K = N + 1
      /\ ~Working(consumer[c], e, h) => K = N
  BY DueTypes
<1>2. N <= K
  <2> HIDE DEF N, K
  <2>1. QED
    BY <1>1
<1>3. CASE consumer[c].pc = "resend"
  BY <1>a, <1>1, <1>2, <1>3 DEF Undeleted, At
<1>4. CASE consumer[c].pc # "resend" /\ consumer[c].current = {}
  <2>1. Undeleted(c) = consumer[c].batch (+) EmptyBag
    BY <1>4 DEF Undeleted, At, EmptyBag
  <2>2. /\ IsABag(EmptyBag) /\ IsFiniteSet(Copies(EmptyBag, e, h))
        /\ Cardinality(Copies(EmptyBag, e, h)) = 0
    BY EmptyMembers, CopiesOfSet, FS_EmptySet
  <2>3. IsABag(Undeleted(c))
    BY <1>a, <2>1, <2>2, UnionMembers
  <2>4. /\ IsFiniteSet(Copies(Undeleted(c), e, h))
        /\ Cardinality(Copies(Undeleted(c), e, h)) = N + 0
    BY <1>a, <1>1, <2>1, <2>2, CopiesUnion
  <2>5. N + 0 = N /\ N <= done[e][h] + K
    <3> HIDE DEF N, K
    <3>1. QED
      BY <1>1, <1>2
  <2>6. QED
    BY <1>1, <2>3, <2>4, <2>5
<1>5. ASSUME NEW m, InHands(consumer[c], m, done, failures), consumer[c].pc # "resend"
      PROVE  /\ IsABag(Undeleted(c)) /\ IsFiniteSet(Copies(Undeleted(c), e, h))
             /\ Cardinality(Copies(Undeleted(c), e, h)) \in Nat
             /\ Cardinality(Copies(Undeleted(c), e, h)) <= done[e][h] + K
  <2> DEFINE B == SetToBag({m})
             M == Cardinality(Copies(B, e, h))
  <2>1. Undeleted(c) = consumer[c].batch (+) B /\ consumer[c].current = {m}
    BY <1>5 DEF Undeleted, At, InHands
  <2>2. /\ IsABag(B) /\ IsFiniteSet(Copies(B, e, h)) /\ (M = 0 \/ M = 1)
        /\ M = 1 => Offers(m, e, h)
    <3>1. IsABag(B)
      BY SetAsBag
    <3>2. Copies(B, e, h) = IF Offers(m, e, h) THEN {<<m, 1>>} ELSE {}
      BY CopiesOfSet
    <3> HIDE DEF B
    <3>3. QED
      BY <3>1, <3>2, FS_EmptySet, FS_Singleton
  <2>3. Offers(m, e, h) => Working(consumer[c], e, h) \/ done[e][h] # 0
    BY <1>5 DEF Offers, Working, InHands
  <2> HIDE DEF B
  <2>4. IsABag(Undeleted(c))
    BY <1>a, <2>1, <2>2, UnionMembers
  <2>5. /\ IsFiniteSet(Copies(Undeleted(c), e, h))
        /\ Cardinality(Copies(Undeleted(c), e, h)) = N + M
    BY <1>a, <1>1, <2>1, <2>2, CopiesUnion
  <2> HIDE DEF N, K, M
  <2>6. N + M <= done[e][h] + K /\ N + M \in Nat
    BY <1>1, <2>2, <2>3
  <2>7. QED
    BY <2>4, <2>5, <2>6
<1>6. consumer[c].current = {} \/ \E m : InHands(consumer[c], m, done, failures)
  BY <1>a DEF Sensible
<1>7. QED
  BY <1>3, <1>4, <1>5, <1>6

LEMMA AgainOnce ==
  ASSUME OnceInv, Counts', NEW c \in Consumer, Crash(c) \/ VisibilityExpires(c),
         NEW e \in Event, NEW h \in Handler
  PROVE  Owing(e, h)'
<1>a. Delivering /\ IsABag(visible) /\ Sensible(consumer[c], done, failures)
  BY DEF OnceInv, DeliveryInv, Delivering
<1>b. Fault /\ UNCHANGED done
  BY DEF Crash, VisibilityExpires
<1> DEFINE V == Cardinality(Copies(visible, e, h))
           V2 == Cardinality(Copies(visible', e, h))
           K == Cardinality(Runs(consumer[c], e, h))
           U == Cardinality(Copies(Undeleted(c), e, h))
<1>1. /\ Due(c, e, h) = done[e][h] + V + K /\ done[e][h] \in Nat /\ V \in Nat
      /\ K \in Nat /\ IsFiniteSet(Copies(visible, e, h))
      /\ IsFiniteSet(Copies(consumer[c].batch, e, h))
  BY DueTypes DEF Due
<1>2. /\ IsABag(Undeleted(c)) /\ IsFiniteSet(Copies(Undeleted(c), e, h))
      /\ U \in Nat /\ U <= done[e][h] + K
  BY UndeletedOnce
<1>3. visible' = visible \/ visible' = visible (+) Undeleted(c)
  BY DEF Crash, VisibilityExpires
<1>4. IsFiniteSet(Copies(visible', e, h)) /\ V2 \in Nat /\ V2 <= V + U
  <2>1. CASE visible' = visible
    BY <1>1, <1>2, <2>1
  <2>2. CASE visible' = visible (+) Undeleted(c)
    <3>1. IsFiniteSet(Copies(visible', e, h)) /\ V2 = V + U
      BY <1>a, <1>1, <1>2, <2>2, CopiesUnion
    <3> HIDE DEF V, V2, U
    <3>2. QED
      BY <1>1, <1>2, <3>1
  <2>3. QED
    BY <1>3, <2>1, <2>2
<1>5. PICK r : /\ Set(c, r) /\ IsFiniteSet(Copies(r.batch, e, h))
               /\ Cardinality(Runs(r, e, h)) \in Nat
               /\ Cardinality(Runs(r, e, h)) <= K
  <2>1. CASE Crash(c)
    <3>1. Set(c, Receiving) /\ Receiving.batch = EmptyBag /\ ~Working(Receiving, e, h)
      BY <2>1 DEF Crash, Receiving, Working
    <3>2. IsFiniteSet(Copies(EmptyBag, e, h)) /\ Cardinality(Copies(EmptyBag, e, h)) = 0
      BY CopiesOfSet, FS_EmptySet
    <3>3. Cardinality(Runs(Receiving, e, h)) = 0
      BY <3>1, <3>2, RunsCount
    <3> HIDE DEF K
    <3>4. QED
      BY <1>1, <3>1, <3>2, <3>3
  <2>2. CASE VisibilityExpires(c)
    <3> DEFINE r == [consumer[c] EXCEPT !.late = TRUE]
    <3>1. /\ Set(c, r) /\ r.batch = consumer[c].batch /\ r.current = consumer[c].current
          /\ r.todo = consumer[c].todo /\ r.failed = consumer[c].failed
      BY <1>a, <2>2 DEF VisibilityExpires, Sensible, IsState
    <3> HIDE DEF r
    <3>2. Runs(r, e, h) = Runs(consumer[c], e, h)
      BY <3>1 DEF Runs, Working
    <3>3. Cardinality(Runs(r, e, h)) = K
      BY <3>2
    <3> HIDE DEF K
    <3>4. QED
      BY <1>1, <3>1, <3>3
  <2>3. QED
    BY <2>1, <2>2
<1>6. Due(c, e, h)' = done[e][h] + V2 + Cardinality(Runs(r, e, h))
  BY <1>b, <1>5, DueAfter
<1> HIDE DEF V, V2, K, U
<1>7. Due(c, e, h)' <= Due(c, e, h) + Due(c, e, h)
  BY <1>1, <1>2, <1>4, <1>5, <1>6
<1>8. QED
  BY <1>b, <1>4, <1>5, <1>7, OwingStep

-----------------------------------------------------------------------------
(* The repetitions are bounded                                               *)

LEMMA OnceBegins == DeliveryInit => OnceInv
<1> SUFFICES ASSUME DeliveryInit PROVE OnceInv
  OBVIOUS
<1>1. DeliveryInv
  BY DeliveryBegins
<1>2. ASSUME NEW e \in Event, NEW h \in Handler PROVE Owing(e, h)
  <2>1. /\ \A m \in DOMAIN visible : visible[m] = 1
        /\ DOMAIN visible = {NewMessage(x) : x \in Event}
    BY DEF DeliveryInit, SetToBag
  <2>2. Copies(visible, e, h) \subseteq {<<NewMessage(e), 1>>}
    <3>1. ASSUME NEW x \in Copies(visible, e, h) PROVE x = <<NewMessage(e), 1>>
      <4>1. /\ x = <<x[1], x[2]>> /\ x[1] \in DOMAIN visible /\ x[2] \in Nat
            /\ x[1].event = e /\ 1 <= x[2] /\ x[2] <= visible[x[1]]
        BY DEF Copies, BagToSet, Offers
      <4>2. x[1] = NewMessage(e)
        BY <2>1, <4>1 DEF NewMessage
      <4>3. x[2] = 1
        BY <2>1, <4>1
      <4>4. QED
        BY <4>1, <4>2, <4>3
    <3>2. QED
      BY <3>1
  <2>3. /\ IsFiniteSet(Copies(visible, e, h))
        /\ Cardinality(Copies(visible, e, h)) \in Nat
        /\ Cardinality(Copies(visible, e, h)) <= 1
    <3> DEFINE S == {<<NewMessage(e), 1>>}
    <3>1. IsFiniteSet(S) /\ Cardinality(S) = 1
      BY FS_Singleton
    <3> HIDE DEF S
    <3>2. QED
      BY <2>2, <3>1, FS_Subset, FS_CardinalityType DEF S
  <2>4. ASSUME NEW c \in Consumer
        PROVE  /\ Copies(consumer[c].batch, e, h) = {}
               /\ Runs(consumer[c], e, h) = {}
    <3>1. consumer[c] = Receiving
      BY DEF DeliveryInit
    <3>2. consumer[c].batch = EmptyBag /\ ~Working(consumer[c], e, h)
      BY <3>1 DEF Receiving, Working
    <3>3. QED
      BY <3>2, CopiesOfSet DEF Runs
  <2>5. HeldBy(consumer, e, h) = {}
    BY <2>4 DEF HeldBy
  <2>6. faults = 0 /\ done[e][h] = 0 /\ 2^0 = 1
    BY PowerZero DEF DeliveryInit
  <2>7. IsFiniteSet({}) /\ Cardinality({}) = 0
    BY FS_EmptySet
  <2>8. done[e][h] + Cardinality(Copies(visible, e, h)) + Cardinality(HeldBy(consumer, e, h))
          <= 2^faults
    BY <2>3, <2>5, <2>6, <2>7
  <2>9. QED
    BY <2>3, <2>4, <2>5, <2>7, <2>8 DEF Owing
<1>3. QED
  BY <1>1, <1>2 DEF OnceInv

LEMMA OnceStep ==
  ASSUME OnceInv, DeliveryInv', DeliveryNext, NEW e \in Event, NEW h \in Handler
  PROVE  Owing(e, h)'
<1>1. Counts'
  BY DEF DeliveryInv, Delivering
<1>2. ASSUME NEW c \in Consumer, Consume(c) PROVE Owing(e, h)'
  BY <1>1, <1>2, ReceiveOnce, BeginOnce, RemoveOnce, ResendOnce, HandlerOnce DEF Consume
<1>3. ASSUME NEW c \in Consumer, Failure(c) PROVE Owing(e, h)'
  BY <1>1, <1>3, RemoveOnce, AgainOnce DEF Failure
<1>4. QED
  BY <1>2, <1>3 DEF DeliveryNext

(* What a handler has run on an event, together with all that copies of the  *)
(* event may still make it run, at most doubles with each fault.             *)
THEOREM RunsAreBounded == DeliverySpec => []OnceInv
<1>1. OnceInv /\ DeliveryInv' /\ [DeliveryNext]_deliveryVars => OnceInv'
  <2> SUFFICES ASSUME OnceInv, DeliveryInv', [DeliveryNext]_deliveryVars PROVE OnceInv'
    OBVIOUS
  <2>1. CASE DeliveryNext
    BY <2>1, OnceStep DEF OnceInv
  <2>2. CASE UNCHANGED deliveryVars
    BY <2>2 DEF deliveryVars, OnceInv, Owing
  <2>3. QED
    BY <2>1, <2>2
<1>2. QED
  BY <1>1, OnceBegins, DeliveryInvariant, PTL DEF DeliverySpec

(* A handler that succeeded on an event is not run on it again unless a      *)
(* consumer crashed or was too slow, and each such fault at most doubles the *)
(* times it is, however many consumers, retries and messages there are.      *)
THEOREM AppliedOnceHolds == DeliverySpec => []AppliedOnce
<1>1. OnceInv => AppliedOnce
  <2> SUFFICES ASSUME OnceInv, NEW e \in Event, NEW h \in Handler
               PROVE  done[e][h] <= 2^faults
    BY DEF AppliedOnce
  <2> DEFINE V == Cardinality(Copies(visible, e, h))
             H == Cardinality(HeldBy(consumer, e, h))
             P == 2^faults
  <2>1. done[e][h] \in Nat /\ faults \in Nat
    BY DeliveryAssumption DEF OnceInv, DeliveryInv, Delivering, Counts
  <2>2. V \in Nat /\ H \in Nat /\ P \in Nat
    BY <2>1, PowerSets, FS_CardinalityType DEF OnceInv, Owing
  <2>3. done[e][h] + V + H <= P
    BY DEF OnceInv, Owing
  <2> HIDE DEF V, H, P
  <2>4. done[e][h] <= P
    BY <2>1, <2>2, <2>3
  <2>5. QED
    BY <2>4 DEF P
<1>2. QED
  BY <1>1, RunsAreBounded, PTL

=============================================================================
