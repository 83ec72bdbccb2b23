---------------------------- MODULE AtLeastOnce ----------------------------
(***************************************************************************)
(* What a durable channel with retries and a dead letter queue promises to *)
(* one consumer group, without saying how: a published message is owed to  *)
(* the group until a handler has returned for it or it is dead-lettered,   *)
(* and it is dead-lettered only after MaxRetries attempts.                 *)
(***************************************************************************)
EXTENDS Integers

CONSTANTS
    Messages,    \* every message that may be published
    MaxRetries,  \* attempts before a message may be dead-lettered
    Unusable,    \* messages that no handler can be called with
    Capped       \* the channel may forget old messages

VARIABLES
    sent,      \* messages published
    owed,      \* messages the group has yet to be done with
    attempts,  \* times each message was handed to a consumer
    handled,   \* messages a handler returned for
    dead       \* messages in the dead letter queue

vars == <<sent, owed, attempts, handled, dead>>

Init ==
    /\ sent = {} /\ owed = {} /\ handled = {} /\ dead = {}
    /\ attempts = [m \in Messages |-> 0]

\* A capped channel may forget messages whenever it is used.
Forget(S) == IF Capped THEN SUBSET S ELSE {{}}

Publish ==
    \E m \in Messages \ sent :
        /\ sent' = sent \cup {m}
        /\ \E F \in Forget(owed \cup {m}) : owed' = (owed \cup {m}) \ F
        /\ UNCHANGED <<attempts, handled, dead>>

\* A batch of owed messages is handed out, for the first time or again.
Attempt ==
    \E S \in SUBSET owed :
        /\ attempts' = [m \in Messages |-> IF m \in S THEN attempts[m] + 1 ELSE attempts[m]]
        /\ \E F \in Forget(owed) : owed' = owed \ F
        /\ UNCHANGED <<sent, handled, dead>>

Handle ==
    \E m \in sent :
        /\ attempts[m] > 0
        /\ handled' = handled \cup {m}
        /\ UNCHANGED <<sent, owed, attempts, dead>>

DeadLetter ==
    \E m \in sent :
        /\ attempts[m] >= MaxRetries
        /\ dead' = dead \cup {m}
        /\ UNCHANGED <<sent, owed, attempts, handled>>

Settle ==
    \E m \in handled \cup dead \cup Unusable :
        /\ owed' = owed \ {m}
        /\ UNCHANGED <<sent, attempts, handled, dead>>

Next == Publish \/ Attempt \/ Handle \/ DeadLetter \/ Settle

Spec == Init /\ [][Next]_vars
=============================================================================
