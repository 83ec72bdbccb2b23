------------------------- MODULE ContextPropagation -------------------------
(***************************************************************************)
(* middleware.py: a request that travels from context to context through   *)
(* channels.  send_to_channel writes a context into message headers,       *)
(* context_handler makes a new context of them, and on the way a message   *)
(* may be moved to dead letter queues, with an error that an attempt       *)
(* ended with, and be consumed there.  adapters/redis.py keeps the errors  *)
(* of the attempts in a hash of the message until the move.                *)
(*                                                                         *)
(* Contexts are numbered in the order they are made; the number is ctx.id. *)
(* What applications put into meta and headers is one token each, "meta"   *)
(* and "app"; an error stands for what each of its fields says.            *)
(***************************************************************************)
EXTENDS Integers, Sequences, FiniteSets, Functions

CONSTANTS
    Channels, Services,
    None,         \* no value
    OnRedis,        \* the channels are on adapters/redis.py, or on adapters/nats.py
    DlqOf,          \* dead_lettering.queue_name of each channel
    Errors,         \* what handlers raise
    Coded,          \* those with an attribute code
    ReusesHeaders,  \* a caller may pass one headers dictionary to several calls
    Origins,        \* the contexts that requests begin with
    MaxContexts,  \* bound: contexts ever made
    MaxMessages,  \* bound: messages ever published
    MaxFailing    \* bound: messages that have an error at a time

ASSUME ContextAssumption ==
    /\ None \notin Channels \cup Services \cup Errors \cup Nat
    /\ DlqOf \in [Channels -> Channels]
    /\ Coded \subseteq Errors
    /\ {OnRedis, ReusesHeaders} \subseteq BOOLEAN
    /\ Origins \subseteq [tracing : BOOLEAN, meta : SUBSET {"meta"},
                          headers : SUBSET {"app"}, service : Services \cup {None}]
    /\ MaxContexts \in Nat
    /\ {MaxMessages, MaxFailing} \subseteq Nat

VARIABLES
    contexts,  \* the contexts made so far
    messages,  \* the messages published so far: channel, headers, the hash
               \* "chan:{name}:msg:{id}", and, for the properties, the context that
               \* published it, whether its headers were its own, the error that the
               \* hash was written for last, whether an attempt failed since, and the
               \* error it was moved to a dead letter queue for
    reused     \* the headers dictionary that a caller keeps

vars == <<contexts, messages, reused>>

\* What x-error- headers are read into, and the application's headers.
Fields == {"name", "code", "stack"}
NoHeaders == <<>>

\* ctx.meta: the application's part, and what its entry "$headers" holds.
NoMeta == [meta |-> {}, headers |-> NoHeaders]

\* {**f, **g}
Update(f, g) == [x \in DOMAIN f \cup DOMAIN g |-> IF x \in DOMAIN g THEN g[x] ELSE f[x]]

Init == contexts = <<>> /\ messages = {} /\ reused = NoHeaders

-----------------------------------------------------------------------------
(* The conversions between values and header strings *)

Str(v)     == <<"str", v>>            \* str() of a number
Number_Next(s) == s[2] + 1            \* mutant: reader and writer count the hop
Number(s)  == s[2]                    \* int() of it
StrBool(b) == IF b THEN "True" ELSE "False"
IsTrue(s)  == s = "true"
Encode(v)  == <<"base64", v>>         \* serialize, then base64
Decode(s)  == s[2]

-----------------------------------------------------------------------------
(* send_to_channel *)

HeadersOf(c) ==
    LET present == {"$requestID", "$parentID", "$tracing", "$level"}
                   \cup (IF c.service # None THEN {"$caller"} ELSE {})
                   \cup (IF c.channel # None THEN {"$parentChannelName"} ELSE {})
                   \cup (IF c.meta # NoMeta THEN {"$meta"} ELSE {})
                   \cup (IF c.headers # NoHeaders THEN {"$headers"} ELSE {})
    IN [h \in present |->
          CASE h = "$requestID" -> c.request
            [] h = "$parentID" -> c.id
            [] h = "$tracing" -> StrBool(c.tracing)
            [] h = "$level" -> Str(c.level)
            [] h = "$caller" -> c.service
            [] h = "$parentChannelName" -> c.channel
            [] h = "$meta" -> Encode(c.meta)
            [] h = "$headers" -> Encode(c.headers)]

Put(message) ==
    /\ Cardinality(messages) < MaxMessages
    /\ messages' = messages \cup {message}
    /\ UNCHANGED contexts

\* A message with that hash, written last for e, and no attempt since or one.
WithErrors(m, hash, e, late) == [m EXCEPT !.hash = hash, !.saved = e, !.late = late]

Clean(m) == WithErrors(m, NoHeaders, None, FALSE)

\* headers are written into the dictionary of the caller, over what is there.
SendToChannel(headers, cause, ch, again) ==
    LET all == IF again THEN Update(reused, headers) ELSE headers IN
    /\ Put([channel |-> ch, headers |-> all, cause |-> cause,
            own |-> ~again, error |-> None, moved |-> FALSE,
            hash |-> NoHeaders, saved |-> None, late |-> FALSE])
    /\ reused' = IF again THEN all ELSE reused

Send(c, ch, again) == SendToChannel(HeadersOf(c), c.id, ch, again)

\* A call without opts["ctx"]; the first call of a kind deletes it from opts.
SendBare(ch, again) == SendToChannel(NoHeaders, None, ch, again)

-----------------------------------------------------------------------------
(* context_handler *)

Has(m, h) == h \in DOMAIN m.headers

ErrorHeader(f) ==
    CASE f = "name" -> "x-error-name" [] f = "code" -> "x-error-code" [] f = "stack" -> "x-error-stack"

\* transform_headers_to_error_data: every field as it stands in its header.
ErrorData(m) == [f \in {f \in Fields : Has(m, ErrorHeader(f))} |-> m.headers[ErrorHeader(f)]]

CtxHeaders(m) ==
    Update(IF Has(m, "$headers") THEN Decode(m.headers["$headers"]) ELSE NoHeaders, ErrorData(m))

MergedMeta_OnlyHeaders(m) ==  \* mutant: $meta is dropped when there are headers
    LET meta == IF Has(m, "$meta") THEN Decode(m.headers["$meta"]) ELSE NoMeta IN
    IF CtxHeaders(m) = NoHeaders THEN meta ELSE [NoMeta EXCEPT !.headers = CtxHeaders(m)]

\* $headers and the error go to meta["$headers"], in place of what was there.
MergedMeta(m) ==
    LET meta == IF Has(m, "$meta") THEN Decode(m.headers["$meta"]) ELSE NoMeta IN
    IF CtxHeaders(m) = NoHeaders THEN meta ELSE [meta EXCEPT !.headers = CtxHeaders(m)]

NewId == Len(contexts) + 1

\* Without $requestID the context begins a request of its own.
ContextOf(m, s) ==
    LET child == Has(m, "$requestID")
        get(h) == IF child /\ Has(m, h) THEN m.headers[h] ELSE None
    IN [id |-> NewId,
        request |-> IF child THEN m.headers["$requestID"] ELSE NewId,
        parent |-> get("$parentID"),
        level |-> IF child THEN Number(m.headers["$level"]) + 1 ELSE 1,
        tracing |-> child /\ IsTrue(m.headers["$tracing"]),
        caller |-> get("$caller"),
        channel |-> m.channel,
        parentChannel |-> get("$parentChannelName"),
        meta |-> MergedMeta(m), headers |-> NoHeaders, service |-> s,
        cause |-> m.cause, own |-> m.own, error |-> m.error, moved |-> m.moved]

Enter(c) ==
    /\ Len(contexts) < MaxContexts
    /\ contexts' = Append(contexts, c)
    /\ UNCHANGED <<messages, reused>>

Handle(m, s) == Enter(ContextOf(m, s))

\* The broker makes the first context of a request.
Begin(o) ==
    Enter([id |-> NewId, request |-> NewId, parent |-> None, level |-> 1,
           tracing |-> o.tracing, caller |-> None, channel |-> None,
           parentChannel |-> None, meta |-> [meta |-> o.meta, headers |-> NoHeaders],
           headers |-> [h \in o.headers |-> h], service |-> o.service,
           cause |-> None, own |-> TRUE, error |-> None, moved |-> FALSE])

-----------------------------------------------------------------------------
(* The adapters: attempts that fail, and moves to the dead letter queue *)

\* The x-error- headers of an error: adapters/redis.py and utils.py differ in the
\* form of the stack trace.
ErrorHeaders(e) ==
    LET fields == {"name", "stack"} \cup (IF e \in Coded THEN {"code"} ELSE {})
    IN [h \in {ErrorHeader(f) : f \in fields} |->
          IF h = "x-error-stack" /\ OnRedis THEN Encode(e) ELSE e]

Replace(m, n) ==
    /\ messages' = (messages \ {m}) \cup {n}
    /\ Cardinality({k \in messages' : k.saved # None}) <= MaxFailing
    /\ UNCHANGED <<contexts, reused>>

StoreError_FirstWins(m, e) ==  \* mutant: HSETNX, what the hash has stays
    Replace(m, WithErrors(m, Update(ErrorHeaders(e), m.hash), e, FALSE))

\* An attempt of any group raises e: HSET writes its fields over those of earlier
\* attempts, and leaves a field that e has not.
StoreError(m, e) ==
    Replace(m, WithErrors(m, Update(m.hash, ErrorHeaders(e)), e, FALSE))

\* An attempt that left no error: HSET failed, or the process ended first.
NotStored(m) == Replace(m, WithErrors(m, m.hash, m.saved, m.saved # None))

\* DEL after an attempt that succeeded or by a move that then failed, or the TTL.
Forget(m) == Replace(m, Clean(m))

DeadHeaders(m, errors) ==
    Update(Update(IF OnRedis THEN m.headers ELSE NoHeaders,
                  [h \in {"x-original-channel"} |-> m.channel]),
           errors)

Dead(m, errors, e) ==
    [Clean(m) EXCEPT !.channel = DlqOf[m.channel], !.headers = DeadHeaders(m, errors),
                     !.error = e, !.moved = TRUE, !.late = m.late]

\* The hash is read as it is, and deleted.
MoveToDlq(m) ==
    /\ Cardinality(messages) < MaxMessages
    /\ messages' = (messages \ {m}) \cup {Clean(m), Dead(m, m.hash, m.saved)}
    /\ UNCHANGED <<contexts, reused>>

\* adapters/nats.py moves in the attempt that raised e.
RaiseAndMove(m, e) == Put(Dead(m, ErrorHeaders(e), e)) /\ UNCHANGED reused

Again == IF ReusesHeaders THEN BOOLEAN ELSE {FALSE}

Fails(m) ==
    IF OnRedis THEN NotStored(m) \/ Forget(m) \/ MoveToDlq(m) \/ \E e \in Errors : StoreError(m, e)
    ELSE \E e \in Errors : RaiseAndMove(m, e)

Next ==
    \/ \E o \in Origins : Begin(o)
    \/ \E c \in Range(contexts), ch \in Channels, again \in Again : Send(c, ch, again)
    \/ \E ch \in Channels, again \in Again : SendBare(ch, again)
    \/ \E m \in messages, s \in Services : Handle(m, s)
    \/ \E m \in messages : Fails(m)

Spec == Init /\ [][Next]_vars

-----------------------------------------------------------------------------
(* Properties.  Sender(c) is the context whose message c was made for. *)

Received  == {c \in Range(contexts) : c.cause # None}
Sender(c) == contexts[c.cause]

\* A context is numbered by its place, descends from earlier ones only, and is
\* no deeper than there are contexts.
TypeOK ==
    /\ \A i \in DOMAIN contexts :
         LET c == contexts[i] IN
         /\ c.id = i
         /\ c.request \in 1..i
         /\ c.level \in 1..i
         /\ c.parent \in {None} \cup 1..i-1
         /\ c.cause \in {None} \cup 1..i-1
         /\ {c.service, c.caller} \subseteq {None} \cup Services
         /\ {c.channel, c.parentChannel} \subseteq {None} \cup Channels
         /\ {c.tracing, c.own, c.moved} \subseteq BOOLEAN
         /\ c.error \in {None} \cup Errors
         /\ c.meta.meta \subseteq {"meta"}
         /\ DOMAIN c.meta.headers \subseteq {"app"} \cup Fields
    /\ \A m \in messages :
         /\ m.channel \in Channels
         /\ m.cause \in {None} \cup 1..Len(contexts)
         /\ m.error # None => m.moved
         /\ m.saved \in {None} \cup Errors
         /\ DOMAIN m.hash \subseteq {ErrorHeader(f) : f \in Fields}

\* "Full Context Propagation: requestID, parentID, level, caller": also when
\* the message took the way over dead letter queues; and what the sender has
\* comes over also when its caller reuses the headers of an earlier call.
ContextPropagated ==
    \A c \in Received :
        LET same(got, had) == got = had \/ (~c.own /\ had = None) IN
        /\ c.request = Sender(c).request
        /\ c.parent = Sender(c).id
        /\ c.level = Sender(c).level + 1
        /\ same(c.caller, Sender(c).service)
        /\ same(c.parentChannel, Sender(c).channel)

\* What the sender has not is not there either, and a call without a context
\* begins a request: not so when the headers of an earlier call are reused.
NothingStale ==
    \A c \in Range(contexts) :
        IF c.cause = None THEN c.request = c.id
        ELSE /\ c.caller = Sender(c).service
             /\ c.parentChannel = Sender(c).channel
             /\ c.meta.meta = Sender(c).meta.meta

\* Meta reaches every context of a request, whatever headers came with it.
MetaKept == \A c \in Received : Sender(c).meta.meta \subseteq c.meta.meta

\* "Error headers from DLQ": the handler of a dead letter queue sees the last
\* error that an attempt stored, all of it, beside the request's own context:
\* over the errors that earlier attempts left in the hash, those that earlier
\* moves left in the headers, and the one its sender saw.
Shows(c, f) == f \in DOMAIN c.meta.headers /\ c.meta.headers[f] = c.error

ErrorVisible ==
    \A c \in Range(contexts) : c.error # None =>
        /\ Shows(c, "name")
        /\ c.error \in Coded => Shows(c, "code")
        /\ "stack" \in DOMAIN c.meta.headers
        /\ c.meta.headers["stack"] \in {c.error, Encode(c.error)}

\* It is the error of the last attempt that failed: not so on Redis when HSET
\* failed, or the process ended, after an earlier attempt had stored its error.
ErrorOfLastAttempt == \A m \in messages : m.moved => ~m.late

\* It sees that error only: not so when an earlier attempt left a field in the
\* hash, the message has been moved before, or the sender's own $headers hold
\* an error.
ErrorUnmixed ==
    \A c \in Range(contexts) : c.moved =>
        \A f \in DOMAIN c.meta.headers \cap {"name", "code"} : Shows(c, f)

\* "Full error context (stack, timestamp) in DLQ": the stack trace is readable.
StackReadable == \A c \in Range(contexts) : c.error # None => Shows(c, "stack")

\* "Complete distributed tracing": the headers of a request reach each of its
\* contexts.
HeadersKept ==
    \A c \in Received :
        "app" \in DOMAIN Sender(c).headers \cup DOMAIN Sender(c).meta.headers =>
            "app" \in DOMAIN c.meta.headers

\* "Transfer Context properties to headers": a traced request stays traced.
TracingKept == \A c \in Received : Sender(c).tracing => c.tracing
=============================================================================
