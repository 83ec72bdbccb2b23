--------------------------- MODULE MCNatsChannel ---------------------------
(* Model values for the configurations of NatsChannel. *)
EXTENDS NatsChannel, TLC

NoFaults     == {}
AllFaults    == AnyFault
QuietFaults  == {"deliver", "answer"}
DrainFault   == {"drain"}
=============================================================================
