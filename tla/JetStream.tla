----------------------------- MODULE JetStream -----------------------------
(***************************************************************************)
(* The part of a NATS JetStream server that adapters/nats.py talks to: the *)
(* stream of one channel, its durable push consumer with explicit          *)
(* acknowledgement, and the dead letter stream.  The server and the client *)
(* library are not part of the repository; each operator is one thing the  *)
(* adapter asks of them or may see them do.                                *)
(*                                                                         *)
(* Messages are the numbers 1, 2, ... in the order of their sequences.     *)
(***************************************************************************)
EXTENDS Integers, FiniteSets

CONSTANTS
    MaxMsg,         \* bound: number of messages ever published
    MaxDeliveries,  \* bound: deliveries of one message
    MaxAckPending   \* max_ack_pending of the consumer: channel.max_in_flight

ASSUME JetStreamAssumption ==
    /\ MaxMsg \in Nat
    /\ MaxDeliveries \in Nat \ {0}
    /\ MaxAckPending \in Nat \ {0}

Msgs == 1 .. MaxMsg

VARIABLES
    published,  \* number of messages published so far; the last one's sequence
    consumer,   \* the durable consumer exists
    start,      \* messages up to here are older than the consumer
    last,       \* the last message delivered for the first time
    pending,    \* delivered, not acknowledged
    due,        \* pending messages to be delivered again
    delivered,  \* delivery count of each message
    dlq         \* number of dead letter entries of each message

consumerVars == <<consumer, start, last>>
pendingVars  == <<pending, due, delivered>>
jsVars       == <<published, consumer, start, last, pending, due, delivered, dlq>>

JetStreamTypeOK ==
    /\ published \in 0 .. MaxMsg
    /\ consumer \in BOOLEAN
    /\ start \in 0 .. MaxMsg
    /\ last \in 0 .. MaxMsg
    /\ pending \subseteq Msgs
    /\ due \subseteq pending
    /\ delivered \in [Msgs -> 0 .. MaxDeliveries]
    /\ dlq \in [Msgs -> Nat]

JetStreamInit ==
    /\ published = 0
    /\ consumer = FALSE
    /\ start = 0
    /\ last = 0
    /\ pending = {}
    /\ due = {}
    /\ delivered = [m \in Msgs |-> 0]
    /\ dlq = [m \in Msgs |-> 0]

-----------------------------------------------------------------------------
PubMessage ==
    /\ published < MaxMsg
    /\ published' = published + 1
    /\ UNCHANGED <<consumerVars, pendingVars, dlq>>

(* add_consumer with a durable name: deliver_policy "new" says where a new  *)
(* consumer starts; an existing one goes on where it was.                   *)
AddConsumer_NotDurable ==  \* mutant: every subscription starts at "new"
    /\ consumer' = TRUE
    /\ start' = IF consumer THEN start ELSE published
    /\ last' = published
    /\ UNCHANGED <<published, pendingVars, dlq>>

AddConsumer ==
    /\ consumer' = TRUE
    /\ start' = IF consumer THEN start ELSE published
    /\ last' = IF consumer THEN last ELSE published
    /\ UNCHANGED <<published, pendingVars, dlq>>

FirstDelivery(m) ==
    /\ consumer
    /\ m = last + 1 /\ m <= published
    /\ Cardinality(pending) < MaxAckPending
    /\ last' = m
    /\ pending' = pending \cup {m}
    /\ delivered' = [delivered EXCEPT ![m] = 1]
    /\ UNCHANGED <<published, consumer, start, due, dlq>>

Redelivery(m) ==
    /\ m \in due
    /\ delivered[m] < MaxDeliveries
    /\ due' = due \ {m}
    /\ delivered' = [delivered EXCEPT ![m] = @ + 1]
    /\ UNCHANGED <<published, consumerVars, pending, dlq>>

(* +ACK, -NAK and +WPI; the last two do nothing to a settled message. *)
AckMsg(m) ==
    /\ pending' = pending \ {m}
    /\ due' = due \ {m}
    /\ UNCHANGED <<published, consumerVars, delivered, dlq>>

NakMsg(m) ==
    /\ due' = due \cup ({m} \cap pending)
    /\ UNCHANGED <<published, consumerVars, pending, delivered, dlq>>

WorkInProgress(m) ==
    /\ due' = due \ {m}
    /\ UNCHANGED <<published, consumerVars, pending, delivered, dlq>>

AckWaitPasses(m) ==
    /\ m \in pending \ due
    /\ due' = due \cup {m}
    /\ UNCHANGED <<published, consumerVars, pending, delivered, dlq>>

PubDeadLetter(m) ==
    /\ dlq' = [dlq EXCEPT ![m] = @ + 1]
    /\ UNCHANGED <<published, consumerVars, pendingVars>>
=============================================================================
