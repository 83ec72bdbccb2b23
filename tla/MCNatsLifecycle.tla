-------------------------- MODULE MCNatsLifecycle --------------------------
(* Channels "a.b" and "a_b", which have one stream name, and a third one. *)
EXTENDS NatsLifecycle, TLC

CONSTANTS dotted, scored, other, stream1, stream2

Colliding == {dotted, scored}
Distinct  == {dotted, other}
All       == {dotted, scored, other}
Streams(C) == [c \in C |-> IF c = other THEN stream2 ELSE stream1]
CollidingStreams == Streams(Colliding)
DistinctStreams  == Streams(Distinct)
AllStreams       == Streams(All)
=============================================================================
