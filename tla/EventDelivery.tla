--------------------------- MODULE EventDelivery ---------------------------
(***************************************************************************)
(* The consumers of the events queue and the retries of what they failed.  *)
(*                                                                         *)
(* A consumer receives a batch and goes through it one message at a time:  *)
(* every handler of the message runs, concurrently; the message is deleted *)
(* and, where a handler failed, sent again with the handlers still to run. *)
(* Several instances of the service share the queue.                       *)
(*                                                                         *)
(* The queue is external (SQS): messages come in any order, those received *)
(* and not deleted come back when their consumer dies or is too slow for   *)
(* the visibility timeout, and a late delete may have no effect.           *)
(***************************************************************************)
EXTENDS Integers, FiniteSets, Bags

CONSTANTS
  Event,
  Handler,
  HandlersOf,  \* the handlers whose canHandle accepts the event; none for an
               \* event that cannot be parsed or whose host is not allowed
  Consumer,
  BatchSize,   \* what receiveMessages asks for, 10 in the code
  MaxRetries,  \* MAX_RETRIES
  MaxFaults    \* bound on the failures explored

ASSUME DeliveryAssumption ==
  /\ HandlersOf \in [Event -> SUBSET Handler]
  /\ BatchSize \in Nat \ {0}
  /\ MaxRetries \in Nat \ {0}
  /\ MaxFaults \in Nat

VARIABLES
  visible,   \* bag of the messages that can be received
  consumer,  \* what each consumer is doing
  done,      \* how many times each handler has succeeded on each event
  failures,  \* how many times it has failed, counted up to MaxRetries
  faults     \* failures of the queue and of the consumers so far

deliveryVars == <<visible, consumer, done, failures, faults>>

Message == [event : Event, attempt : 0..MaxRetries, failed : SUBSET Handler]

\* A message as its producer sends it, without retry data.
NewMessage(e) == [event |-> e, attempt |-> 0, failed |-> {}]

(* `batch` holds the messages received and not begun, `current` the one being *)
(* processed, `todo` its handlers still running and `failed` those that have  *)
(* failed; `late` says that the visibility timeout of the batch has expired.  *)
Receiving ==
  [pc |-> "receive", batch |-> EmptyBag, current |-> {}, todo |-> {},
   failed |-> {}, late |-> FALSE]

DeliveryTypeOK ==
  /\ IsABag(visible) /\ BagToSet(visible) \subseteq Message
  /\ \A c \in Consumer :
       /\ consumer[c].pc \in {"receive", "next", "handle", "resend", "discard"}
       /\ IsABag(consumer[c].batch) /\ BagToSet(consumer[c].batch) \subseteq Message
       /\ consumer[c].current \in SUBSET Message
       /\ Cardinality(consumer[c].current) = IF consumer[c].pc \in {"receive", "next"}
                                             THEN 0 ELSE 1
       /\ consumer[c].todo \subseteq Handler
       /\ consumer[c].failed \subseteq Handler
       /\ consumer[c].late \in BOOLEAN
  /\ done \in [Event -> [Handler -> Nat]]
  /\ failures \in [Event -> [Handler -> 0..MaxRetries]]
  /\ faults \in 0..MaxFaults

DeliveryInit ==
  /\ visible = SetToBag({NewMessage(e) : e \in Event})
  /\ consumer = [c \in Consumer |-> Receiving]
  /\ done = [e \in Event |-> [h \in Handler |-> 0]]
  /\ failures = [e \in Event |-> [h \in Handler |-> 0]]
  /\ faults = 0

-----------------------------------------------------------------------------

At(c, pc) == consumer[c].pc = pc

\* The bag of one message.
One(m) == SetToBag({m})

Set(c, rec) == consumer' = [consumer EXCEPT ![c] = rec]

\* The message in the hands of c.
Current(c) == CHOOSE m \in consumer[c].current : TRUE

\* The loop goes on with the next message, or asks for more.
NextMessage(c) ==
  Set(c, IF consumer[c].batch = EmptyBag
         THEN Receiving
         ELSE [consumer[c] EXCEPT !.pc = "next", !.current = {},
                                  !.todo = {}, !.failed = {}])

\* What receiveMessages may return: some of the visible messages.
Batches ==
  {B \in UNION {[S -> 1..BatchSize] : S \in SUBSET BagToSet(visible)} :
     B \sqsubseteq visible /\ BagCardinality(B) \in 1..BatchSize}

Receive(c) ==
  /\ At(c, "receive")
  /\ \E B \in Batches :
       /\ visible' = visible (-) B
       /\ Set(c, [Receiving EXCEPT !.pc = "next", !.batch = B])
  /\ UNCHANGED <<done, failures, faults>>

\* Mutant: a retry runs every handler of the event again.
AllHandlers(m) == IF m.attempt >= MaxRetries THEN {} ELSE HandlersOf[m.event]

\* Mutant: the attempts are not looked at.
HandlersUncounted(m) ==
  IF m.failed = {} THEN HandlersOf[m.event] ELSE HandlersOf[m.event] \cap m.failed

\* process(): the handlers of a message, none once it has been retried enough.
HandlersToRun(m) ==
  IF m.attempt >= MaxRetries THEN {}
  ELSE IF m.failed = {} THEN HandlersOf[m.event]
  ELSE HandlersOf[m.event] \cap m.failed

Begin(c) ==
  /\ At(c, "next")
  /\ \E m \in BagToSet(consumer[c].batch) :
       Set(c, [consumer[c] EXCEPT !.pc = "handle", !.current = {m},
                                  !.batch = @ (-) One(m),
                                  !.todo = HandlersToRun(m)])
  /\ UNCHANGED <<visible, done, failures, faults>>

HandlerSucceeds(c, h) ==
  /\ At(c, "handle") /\ h \in consumer[c].todo
  /\ done' = [done EXCEPT ![Current(c).event][h] = @ + 1]
  /\ Set(c, [consumer[c] EXCEPT !.todo = @ \ {h}])
  /\ UNCHANGED <<visible, failures, faults>>

HandlerFails(c, h) ==
  /\ At(c, "handle") /\ h \in consumer[c].todo
  /\ failures' = [failures EXCEPT ![Current(c).event][h] =
                     IF @ < MaxRetries THEN @ + 1 ELSE @]
  /\ Set(c, [consumer[c] EXCEPT !.todo = @ \ {h}, !.failed = @ \cup {h}])
  /\ UNCHANGED <<visible, done, faults>>

-----------------------------------------------------------------------------

\* deleteMessage: a receipt that has expired deletes the message only if it
\* has not been received again, and maybe not even then.
Deleted(c) ==
  IF consumer[c].late
  THEN visible' \in {visible, visible (-) One(Current(c))}
  ELSE UNCHANGED visible

\* Mutant: a message counts as processed as soon as one handler succeeded.
RemoveIfAnyOk(c) ==
  /\ At(c, "handle") /\ consumer[c].todo = {}
  /\ Deleted(c)
  /\ IF consumer[c].failed # HandlersToRun(Current(c)) \/ consumer[c].failed = {}
     THEN NextMessage(c)
     ELSE Set(c, [consumer[c] EXCEPT !.pc = "resend"])
  /\ UNCHANGED <<done, failures, faults>>

\* All handlers have ended: the message is deleted...
Remove(c) ==
  /\ At(c, "handle") /\ consumer[c].todo = {}
  /\ Deleted(c)
  /\ IF consumer[c].failed = {}
     THEN NextMessage(c)
     ELSE Set(c, [consumer[c] EXCEPT !.pc = "resend"])
  /\ UNCHANGED <<done, failures, faults>>

\* Mutant: the retry keeps the attempt it was received with.
ResendSameAttempt(c) ==
  /\ At(c, "resend")
  /\ visible' = visible (+) One([Current(c) EXCEPT !.failed = consumer[c].failed])
  /\ NextMessage(c)
  /\ UNCHANGED <<done, failures, faults>>

\* ... and only then sent again, with the handlers that failed.
Resend(c) ==
  /\ At(c, "resend")
  /\ visible' = visible (+) One([event   |-> Current(c).event,
                                 attempt |-> Current(c).attempt + 1,
                                 failed  |-> consumer[c].failed])
  /\ NextMessage(c)
  /\ UNCHANGED <<done, failures, faults>>

\* The catch of the loop deletes the message and forgets about it.
Discard(c) ==
  /\ At(c, "discard")
  /\ Deleted(c)
  /\ NextMessage(c)
  /\ UNCHANGED <<done, failures, faults>>

-----------------------------------------------------------------------------
(* Faults                                                                    *)

Fault == faults < MaxFaults /\ faults' = faults + 1

\* What c has received and not deleted.
Undeleted(c) ==
  IF At(c, "resend") THEN consumer[c].batch
  ELSE consumer[c].batch (+) SetToBag(consumer[c].current)

\* deleteMessage throws.
RemoveFails(c) ==
  /\ At(c, "handle") /\ consumer[c].todo = {}
  /\ Fault
  /\ Set(c, [consumer[c] EXCEPT !.pc = "discard"])
  /\ UNCHANGED <<visible, done, failures>>

(* sendMessage throws: the catch deletes a message that is no longer there,  *)
(* and the loop goes on.                                                     *)
ResendFails(c) ==
  /\ At(c, "resend")
  /\ Fault
  /\ NextMessage(c)
  /\ UNCHANGED <<visible, done, failures>>

(* The process stops and starts again; an exception outside the inner try,   *)
(* in the last delete or in receiveMessages, ends the loop with it.          *)
Crash(c) ==
  /\ ~At(c, "receive")
  /\ Fault
  /\ visible' = IF consumer[c].late THEN visible ELSE visible (+) Undeleted(c)
  /\ Set(c, Receiving)
  /\ UNCHANGED <<done, failures>>

\* The batch takes longer than the visibility timeout.
VisibilityExpires(c) ==
  /\ ~consumer[c].late
  /\ Undeleted(c) # EmptyBag
  /\ Fault
  /\ visible' = visible (+) Undeleted(c)
  /\ Set(c, [consumer[c] EXCEPT !.late = TRUE])
  /\ UNCHANGED <<done, failures>>

-----------------------------------------------------------------------------

Consume(c) ==
  \/ Receive(c) \/ Begin(c) \/ Remove(c) \/ Resend(c) \/ Discard(c)
  \/ \E h \in Handler : HandlerSucceeds(c, h) \/ HandlerFails(c, h)

Failure(c) == RemoveFails(c) \/ ResendFails(c) \/ Crash(c) \/ VisibilityExpires(c)

DeliveryNext == \E c \in Consumer : Consume(c) \/ Failure(c)

(* The loop runs as long as the service does, and each await of it comes     *)
(* back: a handler answers, if only with a failure.                          *)
DeliveryFairness == \A c \in Consumer : WF_deliveryVars(Consume(c))

DeliverySpec == DeliveryInit /\ [][DeliveryNext]_deliveryVars /\ DeliveryFairness

-----------------------------------------------------------------------------
(* Properties                                                                *)

Holds(c, e) ==
  \/ \E m \in BagToSet(consumer[c].batch) : m.event = e
  \/ \E m \in consumer[c].current : m.event = e

\* No copy of the event is left anywhere.
Gone(e) ==
  /\ \A m \in BagToSet(visible) : m.event # e
  /\ \A c \in Consumer : ~Holds(c, e)

\* A handler of the event neither succeeded nor used up its attempts.
Lost(e) ==
  /\ Gone(e)
  /\ \E h \in HandlersOf[e] : done[e][h] = 0 /\ failures[e][h] < MaxRetries

(* An event leaves the queue only when each of its handlers has succeeded, or *)
(* failed MAX_RETRIES times, except that deleting it before sending the retry *)
(* loses one event, and no more, for each crash or queue failure.             *)
LossBounded == Cardinality({e \in Event : Lost(e)}) <= faults

(* A handler that succeeded is not run again for the same event, although the *)
(* message comes back for the handlers that failed.  Only a crash or a late   *)
(* consumer repeats work; each at most doubles the copies of a message.       *)
AppliedOnce == \A e \in Event, h \in Handler : done[e][h] <= 2^faults

(* A message that always fails does not stay in the queue forever: attempts   *)
(* are counted across consumers and redeliveries.                             *)
EventsLeaveQueue == \A e \in Event : <>[]Gone(e)

=============================================================================
