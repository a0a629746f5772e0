----------------------------- MODULE WebhookQueue -----------------------------
(***************************************************************************)
(* A webhook queue of the broker, its dead-letter queue and the one worker *)
(* that consumes it with a prefetch of 1.  The order in which the broker   *)
(* redelivers is not relied upon: any queued message may come next.        *)
(***************************************************************************)
EXTENDS Naturals

CONSTANTS
  Events,         \* webhook payloads
  DeliveryLimit,  \* x-delivery-limit
  MaxSends        \* how often a provider sends one event

ASSUME LimitsAssumption == DeliveryLimit \in Nat /\ MaxSends \in Nat \ {0}

VARIABLES
  sent,   \* how often each event was received by the API and published
  queue,  \* messages waiting for delivery
  hand,   \* the message the worker is handling, if any
  dead    \* the dead-letter queue

broker == <<sent, queue, hand, dead>>

Message == [event : Events, copy : 1 .. MaxSends, returns : 0 .. DeliveryLimit]

BrokerInit ==
  /\ sent = [e \in Events |-> 0]
  /\ queue = {} /\ hand = {} /\ dead = {}

BrokerTypeOK ==
  /\ sent \in [Events -> 0 .. MaxSends]
  /\ queue \subseteq Message /\ hand \subseteq Message /\ dead \subseteq Message

\* A provider delivers at least once; the API publishes what it verified.
Publish(e) ==
  /\ sent[e] < MaxSends
  /\ sent' = [sent EXCEPT ![e] = @ + 1]
  /\ queue' = queue \union {[event |-> e, copy |-> sent[e] + 1, returns |-> 0]}
  /\ UNCHANGED <<hand, dead>>

Deliver(m) ==
  /\ hand = {} /\ m \in queue
  /\ hand' = {m} /\ queue' = queue \ {m}
  /\ UNCHANGED <<sent, dead>>

Ack ==
  /\ hand' = {}
  /\ UNCHANGED <<sent, queue, dead>>

\* Variant: one delivery more than the limit.
ReturnOnceMore(m) ==
  /\ hand' = {}
  /\ IF m.returns > DeliveryLimit
     THEN dead' = dead \union {m} /\ UNCHANGED queue
     ELSE queue' = queue \union {[m EXCEPT !.returns = @ + 1]} /\ UNCHANGED dead
  /\ UNCHANGED sent

\* Nack with requeue, or the consumer's connection is lost: the message returns
\* to the queue, or is dead-lettered when it exceeds the delivery limit.
Return(m) ==
  /\ hand' = {}
  /\ IF m.returns = DeliveryLimit
     THEN dead' = dead \union {m} /\ UNCHANGED queue
     ELSE queue' = queue \union {[m EXCEPT !.returns = @ + 1]} /\ UNCHANGED dead
  /\ UNCHANGED sent

===============================================================================
