---------------------------- MODULE RedisServer ----------------------------
(***************************************************************************)
(* The part of a Redis server that adapters/redis.py talks to: one stream  *)
(* with one consumer group, the hash that holds the error of the last      *)
(* failed attempt of each message, and the dead letter stream.  The server *)
(* is not part of the repository; each operator below is one command as    *)
(* the adapter issues it (Redis 7, the version of the integration tests).  *)
(*                                                                         *)
(* Messages are the numbers 1, 2, ... in the order of their stream ids.    *)
(* Every command is atomic and changes all of serverVars.                  *)
(***************************************************************************)
EXTENDS Integers, FiniteSets

CONSTANTS
    MaxMsg,         \* bound: number of messages ever published
    MaxDeliveries,  \* bound: deliveries of one message
    ReadCount,      \* COUNT of XREADGROUP
    ClaimCount,     \* COUNT of XAUTOCLAIM
    PendingCount    \* COUNT of XPENDING

ASSUME ServerAssumption ==
    /\ MaxMsg \in Nat
    /\ MaxDeliveries \in Nat \ {0}
    /\ ReadCount \in Nat \ {0}
    /\ ClaimCount \in Nat \ {0}
    /\ PendingCount \in Nat \ {0}

Msgs == 1 .. MaxMsg

VARIABLES
    published,  \* number of messages added so far; the last one's id
    stream,     \* the messages the stream still holds
    group,      \* the consumer group exists
    lastId,     \* last id the group has delivered
    pel,        \* pending entries list: delivered, not acknowledged
    delivered,  \* delivery count of each message
    idle,       \* pending entries idle for at least min_idle_time
    errInfo,    \* messages that have an error hash
    dlq         \* number of dead letter entries of each message

streamVars == <<published, stream>>
groupVars  == <<group, lastId, pel, delivered, idle>>
errVars    == <<errInfo>>
dlqVars    == <<dlq>>
serverVars == <<published, stream, group, lastId, pel, delivered, idle,
                errInfo, dlq>>

ServerTypeOK ==
    /\ published \in 0 .. MaxMsg
    /\ stream \subseteq Msgs
    /\ group \in BOOLEAN
    /\ lastId \in 0 .. MaxMsg
    /\ pel \subseteq Msgs
    /\ delivered \in [Msgs -> 0 .. MaxDeliveries]
    /\ idle \subseteq pel
    /\ errInfo \subseteq Msgs
    /\ dlq \in [Msgs -> Nat]

ServerInit ==
    /\ published = 0
    /\ stream = {}
    /\ group = FALSE
    /\ lastId = 0
    /\ pel = {}
    /\ delivered = [m \in Msgs |-> 0]
    /\ idle = {}
    /\ errInfo = {}
    /\ dlq = [m \in Msgs |-> 0]

-----------------------------------------------------------------------------
(* XADD name fields [MAXLEN len]: append, then keep the len newest entries. *)
(* len = 0 is XADD without MAXLEN.                                          *)
Newest(S, len) == {m \in S : Cardinality({k \in S : k > m}) < len}

XADD(len) ==
    /\ published < MaxMsg
    /\ published' = published + 1
    /\ stream' = LET all == stream \cup {published + 1}
                 IN  IF len = 0 THEN all ELSE Newest(all, len)
    /\ UNCHANGED <<groupVars, errVars, dlqVars>>

(* XGROUP CREATE name group 0 MKSTREAM; BUSYGROUP leaves everything alone. *)
XGROUP_CREATE_AtEnd ==  \* mutant: id "$", only messages published from now on
    /\ group' = TRUE
    /\ lastId' = IF group THEN lastId ELSE published
    /\ UNCHANGED <<streamVars, pel, delivered, idle, errVars, dlqVars>>

XGROUP_CREATE ==
    /\ group' = TRUE
    /\ lastId' = IF group THEN lastId ELSE 0
    /\ UNCHANGED <<streamVars, pel, delivered, idle, errVars, dlqVars>>

(* XREADGROUP ... COUNT ReadCount STREAMS name >.  The reply ends with hi: *)
(* the oldest ReadCount undelivered entries, or all of them.               *)
Undelivered == {m \in stream : m > lastId}
ReadBatch(hi) == {m \in Undelivered : m <= hi}

XREADGROUP(hi) ==
    /\ group
    /\ hi \in Undelivered
    /\ \/ Cardinality(ReadBatch(hi)) = ReadCount
       \/ Cardinality(ReadBatch(hi)) < ReadCount /\ ReadBatch(hi) = Undelivered
    /\ lastId' = hi
    /\ pel' = pel \cup ReadBatch(hi)
    /\ delivered' = [m \in Msgs |-> IF m \in ReadBatch(hi) THEN 1 ELSE delivered[m]]
    /\ UNCHANGED <<streamVars, group, idle, errVars, dlqVars>>

(* XAUTOCLAIM ... start COUNT ClaimCount: scan the pending entries from     *)
(* start; an entry whose message was trimmed is dropped, one that has been  *)
(* idle long enough is delivered again, and both count.  hi is where the    *)
(* scan ends, NextCursor(hi) the cursor in the reply (0 is "0-0").          *)
Claimable(start) == {m \in pel : m >= start /\ (m \in idle \/ m \notin stream)}

ScanEnd(start, hi) ==
    IF Cardinality(Claimable(start)) < ClaimCount
    THEN hi = MaxMsg
    ELSE /\ hi \in Claimable(start)
         /\ Cardinality({m \in Claimable(start) : m <= hi}) = ClaimCount

Claimed(start, hi) == {m \in Claimable(start) : m <= hi /\ m \in stream}
Purged(start, hi)  == {m \in Claimable(start) : m <= hi /\ m \notin stream}
NextCursor(hi)     == IF \E m \in pel : m > hi THEN hi + 1 ELSE 0

XAUTOCLAIM(start, hi) ==
    /\ ScanEnd(start, hi)
    /\ pel' = pel \ Purged(start, hi)
    /\ idle' = idle \ (Purged(start, hi) \cup Claimed(start, hi))
    /\ delivered' = [m \in Msgs |-> IF m \in Claimed(start, hi)
                                    THEN delivered[m] + 1 ELSE delivered[m]]
    /\ UNCHANGED <<streamVars, group, lastId, errVars, dlqVars>>

(* XPENDING name group - + PendingCount: the oldest pending entries. *)
XPENDING == {m \in pel : Cardinality({k \in pel : k < m}) < PendingCount}

XACK(m) ==
    /\ pel' = pel \ {m}
    /\ idle' = idle \ {m}
    /\ UNCHANGED <<streamVars, group, lastId, delivered, errVars, dlqVars>>

(* HSET of a message's error hash.  Its 24 hour time to live is beyond the  *)
(* time the model covers.                                                   *)
HSET(m) ==
    /\ errInfo' = errInfo \cup {m}
    /\ UNCHANGED <<streamVars, groupVars, dlqVars>>

(* DEL of the error hash. *)
DEL(m) ==
    /\ errInfo' = errInfo \ {m}
    /\ UNCHANGED <<streamVars, groupVars, dlqVars>>

(* XADD to the dead letter stream. *)
XADD_DLQ(m) ==
    /\ dlq' = [dlq EXCEPT ![m] = @ + 1]
    /\ UNCHANGED <<streamVars, groupVars, errVars>>

(* min_idle_time passes since the last delivery of m.  Bound: a message     *)
(* delivered MaxDeliveries times is not claimed again.                      *)
IdleTimePasses(m) ==
    /\ m \in pel \ idle
    /\ delivered[m] < MaxDeliveries
    /\ idle' = idle \cup {m}
    /\ UNCHANGED <<streamVars, group, lastId, pel, delivered, errVars, dlqVars>>
=============================================================================
