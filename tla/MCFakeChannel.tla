--------------------------- MODULE MCFakeChannel ---------------------------
(* Two channels of one name. *)
EXTENDS FakeChannel, TLC

CONSTANTS audit, billing

TwoConsumers == {audit, billing}
Symmetric    == Permutations(TwoConsumers)
=============================================================================
