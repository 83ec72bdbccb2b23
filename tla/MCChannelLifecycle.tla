------------------------- MODULE MCChannelLifecycle -------------------------
(* Three services, one with two channels and one whose second definition   *)
(* is refused.                                                             *)
EXTENDS ChannelLifecycle, TLC

CONSTANTS s1, s2, s3, c1, c2, c3, c4, c5

TwoServices   == {s1, s2}
Schemas       == s1 :> <<c1, c2>> @@ s2 :> <<c3>>
ThreeServices == {s1, s2, s3}
AllSchemas    == Schemas @@ s3 :> <<c4, c5>>
=============================================================================
