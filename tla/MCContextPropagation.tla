------------------------ MODULE MCContextPropagation ------------------------
(* Model values for the configurations of ContextPropagation.  A request   *)
(* begins with a context that has everything or with one that has nothing. *)
EXTENDS ContextPropagation, TLC

CONSTANTS orders, dlq, shop, plain, coded

TwoChannels == {orders, dlq}
OneService  == {shop}
TwoErrors   == {plain, coded}
CodedErrors == {coded}
Bare == [tracing |-> FALSE, meta |-> {}, headers |-> {}, service |-> None]
Full == [tracing |-> TRUE, meta |-> {"meta"}, headers |-> {"app"}, service |-> shop]
ToDlq == [c \in TwoChannels |-> dlq]
FullOnly    == {Full}
FullAndBare == {Full, Bare}
=============================================================================
