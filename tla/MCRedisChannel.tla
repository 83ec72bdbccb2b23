--------------------------- MODULE MCRedisChannel ---------------------------
(* Model values for the configurations of RedisChannel. *)
EXTENDS RedisChannel, TLC

CONSTANTS a1, a2

OneAdapter  == {a1}
TwoAdapters == {a1, a2}
OneOfTwo    == {a1}
None        == {}
NoCap       == {0}
CapOne      == {0, 1}
SecondMalformed == {2}

\* A view of the state without what is known of errors: errInfo and dlqErr are in no
\* guard, and of the properties only the one on errors asks for them.
ButErrors ==
    <<streamVars, groupVars, dlq, life, taskVars, readVars, claimVars,
      dlqLoop, dlqTodo, handled, faults>>
=============================================================================
