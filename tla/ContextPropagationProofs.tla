---------------------- MODULE ContextPropagationProofs ----------------------
(***************************************************************************)
(* Safety of ContextPropagation for every number of contexts and messages: *)
(* in every configuration type correctness and that a dead letter shows    *)
(* its error; and, over the dead letter queue of adapters/redis.py, which  *)
(* keeps the headers, that a context descends from its sender's.           *)
(***************************************************************************)
EXTENDS ContextPropagation, ListProofs

(* What headers and contexts say, C being the contexts made so far. *)

MetaOK(v) ==
    /\ v = [meta |-> v.meta, headers |-> v.headers]
    /\ v.meta \subseteq {"meta"}
    /\ DOMAIN v.headers \subseteq {"app"} \cup Fields

\* What context_handler may find in headers.
Readable(h, C) ==
    /\ "$requestID" \in DOMAIN h =>
          /\ {"$parentID", "$level", "$tracing"} \subseteq DOMAIN h
          /\ h["$requestID"] \in 1 .. Len(C)
          /\ h["$requestID"] = C[h["$parentID"]].request
    /\ "$parentID" \in DOMAIN h => h["$parentID"] \in 1 .. Len(C)
    /\ "$level" \in DOMAIN h => Number(h["$level"]) \in 1 .. Len(C)
    /\ "$caller" \in DOMAIN h => h["$caller"] \in Services
    /\ "$parentChannelName" \in DOMAIN h => h["$parentChannelName"] \in Channels
    /\ "$meta" \in DOMAIN h => MetaOK(Decode(h["$meta"]))
    /\ "$headers" \in DOMAIN h => DOMAIN Decode(h["$headers"]) \subseteq {"app"}

\* Headers that convey the context c; those of its own say nothing else.
Conveys(h, c, own) ==
    /\ {"$requestID", "$parentID", "$level"} \subseteq DOMAIN h
    /\ h["$requestID"] = c.request /\ h["$parentID"] = c.id /\ h["$level"] = Str(c.level)
    /\ c.service # None => "$caller" \in DOMAIN h /\ h["$caller"] = c.service
    /\ c.channel # None => "$parentChannelName" \in DOMAIN h /\ h["$parentChannelName"] = c.channel
    /\ c.meta # NoMeta => "$meta" \in DOMAIN h /\ h["$meta"] = Encode(c.meta)
    /\ own => /\ c.service = None => "$caller" \notin DOMAIN h
              /\ c.channel = None => "$parentChannelName" \notin DOMAIN h
              /\ c.meta = NoMeta => "$meta" \notin DOMAIN h

\* Headers, or a hash, that show the error e; what a hash may hold.
Tells(h, e) ==
    /\ "x-error-name" \in DOMAIN h /\ h["x-error-name"] = e
    /\ e \in Coded => "x-error-code" \in DOMAIN h /\ h["x-error-code"] = e
    /\ "x-error-stack" \in DOMAIN h /\ h["x-error-stack"] \in {e, Encode(e)}

ErrorKeys == {"x-error-name", "x-error-code", "x-error-stack"}

HashOK(h, e) == DOMAIN h \subseteq ErrorKeys /\ (e # None => Tells(h, e))

\* The headers convey the context that published the message.
FromSender(m, C) ==
    OnRedis =>
        /\ m.cause # None => Conveys(m.headers, C[m.cause], m.own)
        /\ m.cause = None /\ m.own => "$requestID" \notin DOMAIN m.headers

MessageOK(m, C) ==
    /\ m = [channel |-> m.channel, headers |-> m.headers, cause |-> m.cause,
            own |-> m.own, error |-> m.error, moved |-> m.moved,
            hash |-> m.hash, saved |-> m.saved, late |-> m.late]
    /\ m.saved \in {None} \cup Errors
    /\ HashOK(m.hash, m.saved)
    /\ m.channel \in Channels
    /\ m.cause \in {None} \cup 1 .. Len(C)
    /\ {m.own, m.moved} \subseteq BOOLEAN
    /\ m.error \in {None} \cup Errors
    /\ m.error # None => m.moved /\ Tells(m.headers, m.error)
    /\ Readable(m.headers, C)
    /\ FromSender(m, C)
    /\ ~ReusesHeaders => m.own

\* The error as a handler sees it.
Displays(v, e) ==
    /\ "name" \in DOMAIN v /\ v["name"] = e
    /\ e \in Coded => "code" \in DOMAIN v /\ v["code"] = e
    /\ "stack" \in DOMAIN v /\ v["stack"] \in {e, Encode(e)}

Flags(c) == {c.tracing, c.own, c.moved} \subseteq BOOLEAN /\ (~ReusesHeaders => c.own)

ContextOK(c, i) ==
    /\ Flags(c)
    /\ c.id = i
    /\ c.request \in 1 .. i /\ c.level \in 1 .. i
    /\ c.parent \in {None} \cup 1 .. i - 1 /\ c.cause \in {None} \cup 1 .. i - 1
    /\ {c.service, c.caller} \subseteq {None} \cup Services
    /\ {c.channel, c.parentChannel} \subseteq {None} \cup Channels
    /\ c.error \in {None} \cup Errors
    /\ MetaOK(c.meta)
    /\ DOMAIN c.headers \subseteq {"app"}
    /\ c.error # None => Displays(c.meta.headers, c.error)

\* What a context took over from the one whose message it was made for.
Same(c, got, had) == got = had \/ (~c.own /\ had = None)

Descends(c, u) ==
    /\ c.request = u.request /\ c.parent = u.id /\ c.level = u.level + 1
    /\ Same(c, c.caller, u.service) /\ Same(c, c.parentChannel, u.channel)
    /\ u.meta.meta \subseteq c.meta.meta
    /\ c.own => c.meta.meta = u.meta.meta

\* A context is of its parent's request, and what its message conveyed is there.
Connected(c, C) ==
    /\ c.parent # None => C[c.parent].request = c.request
    /\ OnRedis =>
          /\ c.cause # None => Descends(c, C[c.cause])
          /\ c.cause = None /\ c.own => c.request = c.id

CInv ==
    /\ contexts \in Seq(Range(contexts))
    /\ Readable(reused, contexts)
    /\ \A i \in DOMAIN contexts : ContextOK(contexts[i], i) /\ Connected(contexts[i], contexts)
    /\ \A m \in messages : MessageOK(m, contexts)

-----------------------------------------------------------------------------
(* The conversions, and {**f, **g} *)

LEMMA Kinds ==
  /\ None \notin Channels \cup Services \cup Errors \cup Nat
  /\ \A ch \in Channels : DlqOf[ch] \in Channels
  /\ OnRedis \in BOOLEAN /\ ReusesHeaders \in BOOLEAN
  /\ \A o \in Origins : /\ o.tracing \in BOOLEAN /\ o.meta \subseteq {"meta"}
                        /\ o.headers \subseteq {"app"} /\ o.service \in Services \cup {None}
  BY ContextAssumption

LEMMA Conversions ==
  ASSUME NEW v
  PROVE  Number(Str(v)) = v /\ Decode(Encode(v)) = v
  BY DEF Number, Str, Decode, Encode

LEMMA UpdateFacts ==
  ASSUME NEW f, NEW g
  PROVE  /\ DOMAIN Update(f, g) = DOMAIN f \cup DOMAIN g
         /\ \A x \in DOMAIN g : Update(f, g)[x] = g[x]
         /\ \A x \in DOMAIN f \ DOMAIN g : Update(f, g)[x] = f[x]
  BY DEF Update

LEMMA NoHeadersFacts == DOMAIN NoHeaders = {}
  BY DEF NoHeaders

\* What send_to_channel writes of a context.
LEMMA HeadersOfFacts ==
  ASSUME NEW c
  PROVE  LET h == HeadersOf(c) IN
         /\ DOMAIN h \subseteq {"$requestID", "$parentID", "$tracing", "$level", "$caller",
                                "$parentChannelName", "$meta", "$headers"}
         /\ {"$requestID", "$parentID", "$tracing", "$level"} \subseteq DOMAIN h
         /\ "$caller" \in DOMAIN h <=> c.service # None
         /\ "$parentChannelName" \in DOMAIN h <=> c.channel # None
         /\ "$meta" \in DOMAIN h <=> c.meta # NoMeta
         /\ "$headers" \in DOMAIN h <=> c.headers # NoHeaders
         /\ h["$requestID"] = c.request /\ h["$parentID"] = c.id
         /\ h["$level"] = Str(c.level)
         /\ "$caller" \in DOMAIN h => h["$caller"] = c.service
         /\ "$parentChannelName" \in DOMAIN h => h["$parentChannelName"] = c.channel
         /\ "$meta" \in DOMAIN h => h["$meta"] = Encode(c.meta)
         /\ "$headers" \in DOMAIN h => h["$headers"] = Encode(c.headers)
  <1> DEFINE h == HeadersOf(c)
             P == {"$requestID", "$parentID", "$tracing", "$level"}
                  \cup (IF c.service # None THEN {"$caller"} ELSE {})
                  \cup (IF c.channel # None THEN {"$parentChannelName"} ELSE {})
                  \cup (IF c.meta # NoMeta THEN {"$meta"} ELSE {})
                  \cup (IF c.headers # NoHeaders THEN {"$headers"} ELSE {})
             v(x) == CASE x = "$requestID" -> c.request
                       [] x = "$parentID" -> c.id
                       [] x = "$tracing" -> StrBool(c.tracing)
                       [] x = "$level" -> Str(c.level)
                       [] x = "$caller" -> c.service
                       [] x = "$parentChannelName" -> c.channel
                       [] x = "$meta" -> Encode(c.meta)
                       [] x = "$headers" -> Encode(c.headers)
  <1>1. h = [x \in P |-> v(x)]
    BY DEF HeadersOf
  <1> HIDE DEF h, v
  <1>2. DOMAIN h = P /\ \A x \in P : h[x] = v(x)
    BY <1>1
  <1>3. /\ v("$requestID") = c.request /\ v("$parentID") = c.id
        /\ v("$level") = Str(c.level) /\ v("$caller") = c.service
        /\ v("$parentChannelName") = c.channel /\ v("$meta") = Encode(c.meta)
        /\ v("$headers") = Encode(c.headers)
    BY DEF v
  <1>4. /\ DOMAIN h \subseteq {"$requestID", "$parentID", "$tracing", "$level", "$caller",
                                "$parentChannelName", "$meta", "$headers"}
        /\ {"$requestID", "$parentID", "$tracing", "$level"} \subseteq DOMAIN h
        /\ "$caller" \in DOMAIN h <=> c.service # None
        /\ "$parentChannelName" \in DOMAIN h <=> c.channel # None
        /\ "$meta" \in DOMAIN h <=> c.meta # NoMeta
        /\ "$headers" \in DOMAIN h <=> c.headers # NoHeaders
    BY <1>2
  <1> QED
    BY <1>2, <1>3, <1>4 DEF h

\* The x-error- headers of an error.
LEMMA ErrorHeadersFacts ==
  ASSUME NEW e
  PROVE  HashOK(ErrorHeaders(e), e) /\ Tells(ErrorHeaders(e), e)
  <1> DEFINE fields == {"name", "stack"} \cup (IF e \in Coded THEN {"code"} ELSE {})
             D == {ErrorHeader(f) : f \in fields}
  <1>1. DOMAIN ErrorHeaders(e) = D
    BY DEF ErrorHeaders
  <1>2. /\ \A h \in D : h # "x-error-stack" => ErrorHeaders(e)[h] = e
        /\ "x-error-stack" \in D => ErrorHeaders(e)["x-error-stack"] \in {e, Encode(e)}
    BY DEF ErrorHeaders
  <1>3. /\ ErrorHeader("name") = "x-error-name" /\ ErrorHeader("code") = "x-error-code"
        /\ ErrorHeader("stack") = "x-error-stack"
    BY DEF ErrorHeader
  <1>4. /\ D \subseteq ErrorKeys
        /\ "x-error-name" \in D /\ "x-error-stack" \in D
        /\ e \in Coded => "x-error-code" \in D
    BY <1>3 DEF ErrorKeys
  <1> HIDE DEF D
  <1> QED
    BY <1>1, <1>2, <1>4 DEF Tells, HashOK

\* An error written over what earlier attempts left: the hash shows it.
LEMMA StoredFacts ==
  ASSUME NEW h, NEW x, NEW e, HashOK(h, x)
  PROVE  HashOK(Update(h, ErrorHeaders(e)), e)
  <1> DEFINE g == ErrorHeaders(e)
             u == Update(h, g)
  <1>1. /\ DOMAIN u = DOMAIN h \cup DOMAIN g
        /\ \A k \in DOMAIN g : u[k] = g[k]
    BY UpdateFacts
  <1>2. HashOK(g, e) /\ Tells(g, e)
    BY ErrorHeadersFacts
  <1> HIDE DEF g, u
  <1>3. HashOK(u, e)
    BY <1>1, <1>2 DEF HashOK, Tells
  <1> QED
    BY <1>3 DEF u, g

-----------------------------------------------------------------------------
(* Publishing: messages are only added, and contexts stay *)

\* Headers written over others, all of a context or none.
LEMMA UpdateReadable ==
  ASSUME NEW C, NEW f, NEW g, Readable(f, C), Readable(g, C),
         \/ {"$requestID", "$parentID"} \subseteq DOMAIN g
         \/ {"$requestID", "$parentID"} \cap DOMAIN g = {}
  PROVE  Readable(Update(f, g), C)
  <1> DEFINE h == Update(f, g)
  <1>1. /\ DOMAIN h = DOMAIN f \cup DOMAIN g
        /\ \A x \in DOMAIN g : h[x] = g[x]
        /\ \A x \in DOMAIN f \ DOMAIN g : h[x] = f[x]
    BY UpdateFacts
  <1> HIDE DEF h
  <1>2. ASSUME "$requestID" \in DOMAIN h
        PROVE  /\ {"$parentID", "$level", "$tracing"} \subseteq DOMAIN h
               /\ h["$requestID"] \in 1 .. Len(C)
               /\ h["$requestID"] = C[h["$parentID"]].request
    BY <1>1, <1>2 DEF Readable
  <1>3. "$parentID" \in DOMAIN h => h["$parentID"] \in 1 .. Len(C)
    BY <1>1 DEF Readable
  <1>4. "$level" \in DOMAIN h => Number(h["$level"]) \in 1 .. Len(C)
    BY <1>1 DEF Readable
  <1>5. /\ "$caller" \in DOMAIN h => h["$caller"] \in Services
        /\ "$parentChannelName" \in DOMAIN h => h["$parentChannelName"] \in Channels
    BY <1>1 DEF Readable
  <1>6. /\ "$meta" \in DOMAIN h => MetaOK(Decode(h["$meta"]))
        /\ "$headers" \in DOMAIN h => DOMAIN Decode(h["$headers"]) \subseteq {"app"}
    BY <1>1 DEF Readable
  <1> QED
    BY <1>2, <1>3, <1>4, <1>5, <1>6 DEF Readable, h

LEMMA NoneReadable == ASSUME NEW C PROVE Readable(NoHeaders, C)
  BY NoHeadersFacts DEF Readable

LEMMA SentReadable ==
  ASSUME NEW C, NEW i \in 1 .. Len(C), Len(C) \in Nat, ContextOK(C[i], i)
  PROVE  Readable(HeadersOf(C[i]), C)
  <1> DEFINE c == C[i]
             h == HeadersOf(c)
  <1>1. /\ c.id = i /\ c.request \in 1 .. Len(C) /\ c.level \in 1 .. Len(C)
        /\ c.service \in {None} \cup Services /\ c.channel \in {None} \cup Channels
        /\ MetaOK(c.meta) /\ DOMAIN c.headers \subseteq {"app"}
    BY DEF ContextOK
  <1>2. /\ {"$requestID", "$parentID", "$tracing", "$level"} \subseteq DOMAIN h
        /\ "$caller" \in DOMAIN h <=> c.service # None
        /\ "$parentChannelName" \in DOMAIN h <=> c.channel # None
        /\ h["$requestID"] = c.request /\ h["$parentID"] = c.id
        /\ h["$level"] = Str(c.level)
        /\ "$caller" \in DOMAIN h => h["$caller"] = c.service
        /\ "$parentChannelName" \in DOMAIN h => h["$parentChannelName"] = c.channel
        /\ "$meta" \in DOMAIN h => h["$meta"] = Encode(c.meta)
        /\ "$headers" \in DOMAIN h => h["$headers"] = Encode(c.headers)
    BY HeadersOfFacts
  <1>3. /\ Number(Str(c.level)) = c.level /\ Decode(Encode(c.meta)) = c.meta
        /\ Decode(Encode(c.headers)) = c.headers
    BY Conversions
  <1>4. C[h["$parentID"]] = c
    BY <1>1, <1>2
  <1> HIDE DEF c, h
  <1>5. /\ h["$requestID"] \in 1 .. Len(C) /\ h["$parentID"] \in 1 .. Len(C)
        /\ Number(h["$level"]) \in 1 .. Len(C)
    BY <1>1, <1>2, <1>3
  <1>6. /\ "$caller" \in DOMAIN h => h["$caller"] \in Services
        /\ "$parentChannelName" \in DOMAIN h => h["$parentChannelName"] \in Channels
    BY <1>1, <1>2
  <1>7. /\ "$meta" \in DOMAIN h => MetaOK(Decode(h["$meta"]))
        /\ "$headers" \in DOMAIN h => DOMAIN Decode(h["$headers"]) \subseteq {"app"}
    BY <1>1, <1>2, <1>3
  <1>8. Readable(h, C)
    BY <1>2, <1>4, <1>5, <1>6, <1>7 DEF Readable
  <1> QED
    BY <1>8 DEF h, c

LEMMA SentConveys ==
  ASSUME NEW c, NEW r
  PROVE  Conveys(HeadersOf(c), c, TRUE) /\ Conveys(Update(r, HeadersOf(c)), c, FALSE)
  <1> DEFINE h == HeadersOf(c)
             a == Update(r, h)
  <1>1. /\ {"$requestID", "$parentID", "$tracing", "$level"} \subseteq DOMAIN h
        /\ "$caller" \in DOMAIN h <=> c.service # None
        /\ "$parentChannelName" \in DOMAIN h <=> c.channel # None
        /\ "$meta" \in DOMAIN h <=> c.meta # NoMeta
        /\ h["$requestID"] = c.request /\ h["$parentID"] = c.id
        /\ h["$level"] = Str(c.level)
        /\ "$caller" \in DOMAIN h => h["$caller"] = c.service
        /\ "$parentChannelName" \in DOMAIN h => h["$parentChannelName"] = c.channel
        /\ "$meta" \in DOMAIN h => h["$meta"] = Encode(c.meta)
    BY HeadersOfFacts
  <1>2. /\ DOMAIN a = DOMAIN r \cup DOMAIN h
        /\ \A x \in DOMAIN h : a[x] = h[x]
    BY UpdateFacts
  <1> HIDE DEF h, a
  <1>3. Conveys(h, c, TRUE)
    BY <1>1 DEF Conveys
  <1>4. Conveys(a, c, FALSE)
    BY <1>1, <1>2 DEF Conveys
  <1> QED
    BY <1>3, <1>4 DEF h, a

LEMMA PutKeeps ==
  ASSUME CInv, NEW m, MessageOK(m, contexts), Put(m), Readable(reused', contexts)
  PROVE  CInv'
  <1>1. contexts' = contexts /\ messages' = messages \cup {m}
    BY DEF Put
  <1>2. \A k \in messages' : MessageOK(k, contexts)
    BY <1>1 DEF CInv
  <1> QED
    BY <1>1, <1>2 DEF CInv

LEMMA SendKeeps ==
  ASSUME CInv, NEW headers, NEW cause \in {None} \cup DOMAIN contexts, NEW ch \in Channels,
         NEW again \in Again, SendToChannel(headers, cause, ch, again),
         cause = None => headers = NoHeaders,
         cause # None => headers = HeadersOf(contexts[cause])
  PROVE  CInv'
  <1> DEFINE all == IF again THEN Update(reused, headers) ELSE headers
             m == [channel |-> ch, headers |-> all, cause |-> cause,
                   own |-> ~again, error |-> None, moved |-> FALSE,
                   hash |-> NoHeaders, saved |-> None, late |-> FALSE]
  <1>1. Put(m) /\ reused' = (IF again THEN all ELSE reused)
    BY DEF SendToChannel
  <1>2. again \in BOOLEAN /\ (~ReusesHeaders => ~again)
    BY DEF Again
  <1>3. /\ Len(contexts) \in Nat /\ DOMAIN contexts = 1 .. Len(contexts)
        /\ \A i \in DOMAIN contexts : ContextOK(contexts[i], i)
        /\ Readable(reused, contexts)
    BY LenProperties DEF CInv
  <1>4. Readable(headers, contexts)
    BY <1>3, NoneReadable, SentReadable
  <1>5. \/ {"$requestID", "$parentID"} \subseteq DOMAIN headers
        \/ {"$requestID", "$parentID"} \cap DOMAIN headers = {}
    BY HeadersOfFacts, NoHeadersFacts
  <1>6. Readable(all, contexts)
    BY <1>3, <1>4, <1>5, UpdateReadable
  <1>7. cause # None => Conveys(all, contexts[cause], ~again)
    <2>1. CASE again
      BY <2>1, SentConveys
    <2>2. CASE ~again
      BY <2>2, SentConveys
    <2> QED
      BY <2>1, <2>2
  <1>8. cause = None /\ ~again => DOMAIN all = {}
    BY NoHeadersFacts
  <1>9. MessageOK(m, contexts)
    <2>1. /\ m.channel = ch /\ m.headers = all /\ m.cause = cause /\ m.own = ~again
          /\ m.error = None /\ m.moved = FALSE /\ m.hash = NoHeaders /\ m.saved = None
          /\ m = [channel |-> m.channel, headers |-> m.headers, cause |-> m.cause,
                  own |-> m.own, error |-> m.error, moved |-> m.moved,
                  hash |-> m.hash, saved |-> m.saved, late |-> m.late]
      OBVIOUS
    <2> HIDE DEF m, all
    <2>2. FromSender(m, contexts)
      BY <2>1, <1>7, <1>8 DEF FromSender
    <2>3. HashOK(m.hash, m.saved)
      BY <2>1, NoHeadersFacts DEF HashOK
    <2> QED
      BY <2>1, <2>2, <2>3, <1>2, <1>3, <1>6 DEF MessageOK
  <1>10. Readable(reused', contexts)
    BY <1>1, <1>3, <1>6
  <1> HIDE DEF m
  <1> QED
    BY <1>1, <1>9, <1>10, PutKeeps

\* The move to a dead letter queue leaves the headers that context_handler reads
\* of the sender as they are, or leaves none.
LEMMA DeadHeadersFacts ==
  ASSUME NEW m, NEW g, NEW e, HashOK(g, e)
  PROVE  LET h == DeadHeaders(m, g) IN
         /\ e # None => Tells(h, e)
         /\ OnRedis => \A x : x \notin {"x-original-channel"} \cup ErrorKeys =>
               /\ x \in DOMAIN h <=> x \in DOMAIN m.headers
               /\ x \in DOMAIN h => h[x] = m.headers[x]
         /\ ~OnRedis => DOMAIN h \subseteq {"x-original-channel"} \cup ErrorKeys
  <1> DEFINE a == IF OnRedis THEN m.headers ELSE NoHeaders
             b == [h \in {"x-original-channel"} |-> m.channel]
             u == Update(a, b)
             h == Update(u, g)
  <1>1. DeadHeaders(m, g) = h
    BY DEF DeadHeaders
  <1> HIDE DEF a, b
  <1>2. /\ DOMAIN h = DOMAIN u \cup DOMAIN g
        /\ \A x \in DOMAIN g : h[x] = g[x]
        /\ \A x \in DOMAIN u \ DOMAIN g : h[x] = u[x]
    BY UpdateFacts
  <1>3. /\ DOMAIN u = DOMAIN a \cup DOMAIN b
        /\ \A x \in DOMAIN a \ DOMAIN b : u[x] = a[x]
    BY UpdateFacts
  <1>4. DOMAIN g \subseteq ErrorKeys /\ (e # None => Tells(g, e))
    BY DEF HashOK
  <1>5. DOMAIN b = {"x-original-channel"}
    BY DEF b
  <1>6. /\ OnRedis => a = m.headers
        /\ ~OnRedis => DOMAIN a = {}
    BY NoHeadersFacts DEF a
  <1> HIDE DEF u, h
  <1>7. e # None => Tells(h, e)
    BY <1>2, <1>4 DEF Tells
  <1>8. ASSUME OnRedis, NEW x, x \notin {"x-original-channel"} \cup ErrorKeys
        PROVE  /\ x \in DOMAIN h <=> x \in DOMAIN m.headers
               /\ x \in DOMAIN h => h[x] = m.headers[x]
    BY <1>2, <1>3, <1>4, <1>5, <1>6, <1>8
  <1>9. ~OnRedis => DOMAIN h \subseteq {"x-original-channel"} \cup ErrorKeys
    BY <1>2, <1>3, <1>4, <1>5, <1>6
  <1> QED
    BY <1>1, <1>7, <1>8, <1>9

\* A message with other fields, those that the adapters change.
With(m, ch, h, x, y, g, e, l) ==
    [channel |-> ch, headers |-> h, cause |-> m.cause, own |-> m.own, error |-> x, moved |-> y,
     hash |-> g, saved |-> e, late |-> l]

LEMMA WithFields ==
  ASSUME NEW m, NEW ch, NEW h, NEW x, NEW y, NEW g, NEW e, NEW l
  PROVE  LET n == With(m, ch, h, x, y, g, e, l) IN
         /\ n.channel = ch /\ n.headers = h /\ n.cause = m.cause /\ n.own = m.own
         /\ n.error = x /\ n.moved = y /\ n.hash = g /\ n.saved = e
         /\ n = [channel |-> n.channel, headers |-> n.headers, cause |-> n.cause,
                 own |-> n.own, error |-> n.error, moved |-> n.moved,
                 hash |-> n.hash, saved |-> n.saved, late |-> n.late]
  BY DEF With

IsMessage(m) ==
    m = [channel |-> m.channel, headers |-> m.headers, cause |-> m.cause,
         own |-> m.own, error |-> m.error, moved |-> m.moved,
         hash |-> m.hash, saved |-> m.saved, late |-> m.late]

LEMMA HashRecord ==
  ASSUME NEW m, IsMessage(m), NEW g, NEW e, NEW l
  PROVE  WithErrors(m, g, e, l)
           = With(m, m.channel, m.headers, m.error, m.moved, g, e, l)
  <1> DEFINE a == m.channel
             b == m.headers
             c == m.cause
             d == m.own
             x == m.error
             y == m.moved
             p == m.hash
             q == m.saved
             r == m.late
             n == [channel |-> a, headers |-> b, cause |-> c, own |-> d, error |-> x,
                   moved |-> y, hash |-> p, saved |-> q, late |-> r]
             n1 == [n EXCEPT !.hash = g]
             n2 == [n1 EXCEPT !.saved = e]
             n3 == [n2 EXCEPT !.late = l]
  <1>1. m = n
    BY DEF IsMessage
  <1>2. With(m, a, b, x, y, g, e, l)
          = [channel |-> a, headers |-> b, cause |-> c, own |-> d, error |-> x,
             moved |-> y, hash |-> g, saved |-> e, late |-> l]
    BY DEF With
  <1> HIDE DEF a, b, c, d, x, y, p, q, r
  <1>3. n1 = [channel |-> a, headers |-> b, cause |-> c, own |-> d, error |-> x,
             moved |-> y, hash |-> g, saved |-> q, late |-> r]
    OBVIOUS
  <1> HIDE DEF n1
  <1>4. n2 = [channel |-> a, headers |-> b, cause |-> c, own |-> d, error |-> x,
             moved |-> y, hash |-> g, saved |-> e, late |-> r]
    BY <1>3
  <1> HIDE DEF n2
  <1>5. n3 = [channel |-> a, headers |-> b, cause |-> c, own |-> d, error |-> x,
             moved |-> y, hash |-> g, saved |-> e, late |-> l]
    BY <1>4
  <1> HIDE DEF n3
  <1> HIDE DEF n
  <1>6. WithErrors(m, g, e, l) = n3
    BY <1>1 DEF WithErrors, n1, n2, n3
  <1>7. WithErrors(m, g, e, l) = With(m, a, b, x, y, g, e, l)
    BY <1>2, <1>5, <1>6
  <1> QED
    BY <1>7 DEF a, b, x, y

LEMMA DeadRecord ==
  ASSUME NEW m, IsMessage(m), NEW f, NEW x
  PROVE  Dead(m, f, x)
           = With(m, DlqOf[m.channel], DeadHeaders(m, f), x, TRUE, NoHeaders, None, m.late)
  <1> DEFINE yes == TRUE
             no == FALSE
             k == With(m, m.channel, m.headers, m.error, m.moved, NoHeaders, None, no)
             ch == DlqOf[m.channel]
             dh == DeadHeaders(m, f)
             la == m.late
             a == m.channel
             b == m.headers
             c == m.cause
             d == m.own
             y == m.error
             z == m.moved
             n == [channel |-> a, headers |-> b, cause |-> c, own |-> d, error |-> y,
                   moved |-> z, hash |-> NoHeaders, saved |-> None, late |-> no]
             n1 == [n EXCEPT !.channel = ch]
             n2 == [n1 EXCEPT !.headers = dh]
             n3 == [n2 EXCEPT !.error = x]
             n4 == [n3 EXCEPT !.moved = yes]
             n5 == [n4 EXCEPT !.late = la]
  <1>1. Clean(m) = k
    <2>1. Clean(m) = WithErrors(m, NoHeaders, None, no)
      BY DEF Clean
    <2> HIDE DEF no
    <2> QED
      BY <2>1, HashRecord
  <1>2. k = n
    BY DEF With
  <1>3. With(m, ch, dh, x, yes, NoHeaders, None, la)
          = [channel |-> ch, headers |-> dh, cause |-> c, own |-> d, error |-> x,
             moved |-> yes, hash |-> NoHeaders, saved |-> None, late |-> la]
    BY DEF With
  <1> HIDE DEF yes, no, ch, dh, la, a, b, c, d, y, z, k
  <1>4. n1 = [channel |-> ch, headers |-> b, cause |-> c, own |-> d, error |-> y,
             moved |-> z, hash |-> NoHeaders, saved |-> None, late |-> no]
    OBVIOUS
  <1> HIDE DEF n1
  <1>5. n2 = [channel |-> ch, headers |-> dh, cause |-> c, own |-> d, error |-> y,
             moved |-> z, hash |-> NoHeaders, saved |-> None, late |-> no]
    BY <1>4
  <1> HIDE DEF n2
  <1>6. n3 = [channel |-> ch, headers |-> dh, cause |-> c, own |-> d, error |-> x,
             moved |-> z, hash |-> NoHeaders, saved |-> None, late |-> no]
    BY <1>5
  <1> HIDE DEF n3
  <1>7. n4 = [channel |-> ch, headers |-> dh, cause |-> c, own |-> d, error |-> x,
             moved |-> yes, hash |-> NoHeaders, saved |-> None, late |-> no]
    BY <1>6
  <1> HIDE DEF n4
  <1>8. n5 = [channel |-> ch, headers |-> dh, cause |-> c, own |-> d, error |-> x,
             moved |-> yes, hash |-> NoHeaders, saved |-> None, late |-> la]
    BY <1>7
  <1> HIDE DEF n5
  <1> HIDE DEF n
  <1>9. Dead(m, f, x) = n5
    BY <1>1, <1>2 DEF Dead, yes, ch, dh, la, n1, n2, n3, n4, n5
  <1>10. Dead(m, f, x) = With(m, ch, dh, x, yes, NoHeaders, None, la)
    BY <1>3, <1>8, <1>9
  <1> QED
    BY <1>10 DEF yes, ch, dh, la

\* A message of the same sender, whose hash shows what it should and whose headers
\* say no more of the sender.
LEMMA WithOK ==
  ASSUME CInv, NEW m \in messages, NEW ch \in Channels, NEW h, NEW x \in {None} \cup Errors,
         NEW y \in BOOLEAN, NEW g, NEW e \in {None} \cup Errors, NEW l,
         x # None => y /\ Tells(h, x), HashOK(g, e),
         \/ /\ OnRedis
            /\ \A k \in {"$requestID", "$parentID", "$tracing", "$level", "$caller",
                       "$parentChannelName", "$meta", "$headers"} :
                 /\ k \in DOMAIN h <=> k \in DOMAIN m.headers
                 /\ k \in DOMAIN h => h[k] = m.headers[k]
         \/ /\ ~OnRedis
            /\ \A k \in {"$requestID", "$parentID", "$tracing", "$level", "$caller",
                       "$parentChannelName", "$meta", "$headers"} : k \notin DOMAIN h
  PROVE  MessageOK(With(m, ch, h, x, y, g, e, l), contexts)
  <1> DEFINE d == With(m, ch, h, x, y, g, e, l)
  <1>1. /\ d.channel = ch /\ d.headers = h /\ d.cause = m.cause /\ d.own = m.own
        /\ d.error = x /\ d.moved = y /\ d.hash = g /\ d.saved = e
        /\ d = [channel |-> d.channel, headers |-> d.headers, cause |-> d.cause,
                own |-> d.own, error |-> d.error, moved |-> d.moved,
                hash |-> d.hash, saved |-> d.saved, late |-> d.late]
    BY WithFields
  <1>2. MessageOK(m, contexts)
    BY DEF CInv
  <1>3. /\ m.cause \in {None} \cup 1 .. Len(contexts)
        /\ m.own \in BOOLEAN /\ (~ReusesHeaders => m.own)
        /\ Readable(m.headers, contexts) /\ FromSender(m, contexts)
    BY <1>2 DEF MessageOK
  <1> HIDE DEF d
  <1>4. Readable(h, contexts)
    <2>1. CASE OnRedis
      BY <2>1, <1>3 DEF Readable
    <2>2. CASE ~OnRedis
      BY <2>2 DEF Readable
    <2> QED
      BY <2>1, <2>2
  <1>5. FromSender(d, contexts)
    <2>1. ASSUME OnRedis, m.cause # None
          PROVE  Conveys(h, contexts[m.cause], m.own)
      <3>1. Conveys(m.headers, contexts[m.cause], m.own)
        BY <1>3, <2>1 DEF FromSender
      <3> QED
        BY <3>1, <2>1 DEF Conveys
    <2>2. ASSUME OnRedis, m.cause = None, m.own
          PROVE  "$requestID" \notin DOMAIN h
      BY <1>3, <2>2 DEF FromSender
    <2> QED
      BY <2>1, <2>2, <1>1 DEF FromSender
  <1>6. d.own \in BOOLEAN /\ d.moved \in BOOLEAN
    BY <1>1, <1>3, Zenon
  <1>7. MessageOK(d, contexts)
    BY <1>1, <1>3, <1>4, <1>5, <1>6 DEF MessageOK
  <1> QED
    BY <1>7 DEF d

\* Messages come, and are replaced by others that are as they should be.
LEMMA MessagesKeep ==
  ASSUME CInv, \A k \in messages' : k \in messages \/ MessageOK(k, contexts),
         UNCHANGED <<contexts, reused>>
  PROVE  CInv'
  <1>1. contexts' = contexts /\ reused' = reused
    OBVIOUS
  <1>2. \A k \in messages' : MessageOK(k, contexts)
    BY DEF CInv
  <1> QED
    BY <1>1, <1>2 DEF CInv

\* The message with a hash that shows e.
LEMMA HashedOK ==
  ASSUME CInv, NEW m \in messages, NEW g, NEW e \in {None} \cup Errors, NEW l, HashOK(g, e)
  PROVE  MessageOK(WithErrors(m, g, e, l), contexts)
  <1>1. MessageOK(m, contexts)
    BY DEF CInv
  <1>2. /\ m = [channel |-> m.channel, headers |-> m.headers, cause |-> m.cause,
                own |-> m.own, error |-> m.error, moved |-> m.moved,
                hash |-> m.hash, saved |-> m.saved, late |-> m.late]
        /\ m.channel \in Channels /\ m.error \in {None} \cup Errors
        /\ m.error # None => m.moved /\ Tells(m.headers, m.error)
        /\ {m.own, m.moved} \subseteq BOOLEAN
        /\ m.cause \in {None} \cup 1 .. Len(contexts)
        /\ Readable(m.headers, contexts) /\ FromSender(m, contexts)
        /\ ~ReusesHeaders => m.own
    BY <1>1 DEF MessageOK
  <1> DEFINE d == With(m, m.channel, m.headers, m.error, m.moved, g, e, l)
  <1>3. WithErrors(m, g, e, l) = d
    <2>1. IsMessage(m)
      BY <1>2, Zenon DEF IsMessage
    <2> HIDE DEF d
    <2>2. WithErrors(m, g, e, l) = With(m, m.channel, m.headers, m.error, m.moved, g, e, l)
      BY <2>1, HashRecord
    <2> QED
      BY <2>2 DEF d
  <1>4. /\ d.channel = m.channel /\ d.headers = m.headers /\ d.cause = m.cause /\ d.own = m.own
        /\ d.error = m.error /\ d.moved = m.moved /\ d.hash = g /\ d.saved = e
        /\ d = [channel |-> d.channel, headers |-> d.headers, cause |-> d.cause,
                own |-> d.own, error |-> d.error, moved |-> d.moved,
                hash |-> d.hash, saved |-> d.saved, late |-> d.late]
    BY WithFields
  <1> HIDE DEF d
  <1>5. FromSender(d, contexts)
    BY <1>2, <1>4, Zenon DEF FromSender
  <1>6. {d.own, d.moved} \subseteq BOOLEAN
    BY <1>2, <1>4, Zenon
  <1>7. d.error # None => d.moved /\ Tells(d.headers, d.error)
    BY <1>2, <1>4, Zenon
  <1>8. ~ReusesHeaders => d.own
    BY <1>2, <1>4, Zenon
  <1>9. MessageOK(d, contexts)
    BY <1>2, <1>4, <1>5, <1>6, <1>7, <1>8 DEF MessageOK
  <1> QED
    BY <1>3, <1>9, Zenon

\* A message of the dead letter queue.
LEMMA DeadOK ==
  ASSUME CInv, NEW m \in messages, NEW f, NEW e \in {None} \cup Errors, HashOK(f, e)
  PROVE  MessageOK(Dead(m, f, e), contexts)
  <1> DEFINE h == DeadHeaders(m, f)
  <1>1. MessageOK(m, contexts)
    BY DEF CInv
  <1>2. /\ m = [channel |-> m.channel, headers |-> m.headers, cause |-> m.cause,
                own |-> m.own, error |-> m.error, moved |-> m.moved,
                hash |-> m.hash, saved |-> m.saved, late |-> m.late]
        /\ m.channel \in Channels
    BY <1>1 DEF MessageOK
  <1>3. Dead(m, f, e) = With(m, DlqOf[m.channel], h, e, TRUE, NoHeaders, None, m.late)
    BY <1>2, DeadRecord, Zenon DEF IsMessage
  <1>4. /\ e # None => Tells(h, e)
        /\ OnRedis => \A x : x \notin {"x-original-channel"} \cup ErrorKeys =>
              /\ x \in DOMAIN h <=> x \in DOMAIN m.headers
              /\ x \in DOMAIN h => h[x] = m.headers[x]
        /\ ~OnRedis => DOMAIN h \subseteq {"x-original-channel"} \cup ErrorKeys
    BY DeadHeadersFacts
  <1> HIDE DEF h
  <1>5. /\ OnRedis =>
              \A k \in {"$requestID", "$parentID", "$tracing", "$level", "$caller",
                        "$parentChannelName", "$meta", "$headers"} :
                 /\ k \in DOMAIN h <=> k \in DOMAIN m.headers
                 /\ k \in DOMAIN h => h[k] = m.headers[k]
        /\ ~OnRedis =>
              \A k \in {"$requestID", "$parentID", "$tracing", "$level", "$caller",
                        "$parentChannelName", "$meta", "$headers"} : k \notin DOMAIN h
    BY <1>4 DEF ErrorKeys
  <1>6. DlqOf[m.channel] \in Channels
    BY <1>2, Kinds
  <1>7. HashOK(NoHeaders, None)
    BY NoHeadersFacts DEF HashOK
  <1>8. e # None => TRUE /\ Tells(h, e)
    BY <1>4
  <1>9. MessageOK(With(m, DlqOf[m.channel], h, e, TRUE, NoHeaders, None, m.late), contexts)
    <2>1. CASE OnRedis
      BY <1>5, <1>6, <1>7, <1>8, <2>1, WithOK
    <2>2. CASE ~OnRedis
      BY <1>5, <1>6, <1>7, <1>8, <2>2, WithOK
    <2> QED
      BY <2>1, <2>2
  <1> QED
    BY <1>3, <1>9, Zenon

\* One step per action: what the adapters do with a message.
LEMMA FailsKeeps ==
  ASSUME CInv, NEW m \in messages, Fails(m)
  PROVE  CInv'
  <1>1. /\ HashOK(m.hash, m.saved) /\ m.saved \in {None} \cup Errors
        /\ m = [channel |-> m.channel, headers |-> m.headers, cause |-> m.cause,
                own |-> m.own, error |-> m.error, moved |-> m.moved,
                hash |-> m.hash, saved |-> m.saved, late |-> m.late]
    BY DEF CInv, MessageOK
  <1>2. MessageOK(Clean(m), contexts)
    <2>1. HashOK(NoHeaders, None)
      BY NoHeadersFacts DEF HashOK
    <2> QED
      BY <2>1, HashedOK DEF Clean
  <1>3. ASSUME NEW n, Replace(m, n), MessageOK(n, contexts)
        PROVE  CInv'
    <2>1. /\ \A k \in messages' : k \in messages \/ MessageOK(k, contexts)
          /\ UNCHANGED <<contexts, reused>>
      BY <1>3 DEF Replace
    <2> QED
      BY <2>1, MessagesKeep
  <1>4. ASSUME NEW e \in Errors, StoreError(m, e)
        PROVE  CInv'
    <2>1. HashOK(Update(m.hash, ErrorHeaders(e)), e)
      BY <1>1, StoredFacts
    <2> QED
      BY <1>3, <1>4, <2>1, HashedOK DEF StoreError
  <1>5. CASE NotStored(m)
    <2>1. MessageOK(WithErrors(m, m.hash, m.saved, m.saved # None), contexts)
      BY <1>1, HashedOK
    <2> QED
      BY <1>3, <1>5, <2>1 DEF NotStored
  <1>6. CASE Forget(m)
    BY <1>2, <1>3, <1>6 DEF Forget
  <1>7. CASE MoveToDlq(m)
    <2>1. MessageOK(Dead(m, m.hash, m.saved), contexts)
      BY <1>1, DeadOK
    <2>2. /\ \A k \in messages' : k \in messages \/ MessageOK(k, contexts)
          /\ UNCHANGED <<contexts, reused>>
      BY <1>2, <1>7, <2>1 DEF MoveToDlq
    <2> QED
      BY <2>2, MessagesKeep
  <1>8. ASSUME NEW e \in Errors, RaiseAndMove(m, e)
        PROVE  CInv'
    <2>1. MessageOK(Dead(m, ErrorHeaders(e), e), contexts)
      BY DeadOK, ErrorHeadersFacts
    <2>2. /\ \A k \in messages' : k \in messages \/ MessageOK(k, contexts)
          /\ UNCHANGED <<contexts, reused>>
      BY <1>8, <2>1 DEF RaiseAndMove, Put
    <2> QED
      BY <2>2, MessagesKeep
  <1> QED
    BY <1>4, <1>5, <1>6, <1>7, <1>8 DEF Fails

-----------------------------------------------------------------------------
(* A context more: what was said of the others stays so *)

LEMMA ReadableStays ==
  ASSUME NEW T, NEW C \in Seq(T), NEW c \in T, NEW h, Readable(h, C)
  PROVE  Readable(h, Append(C, c))
  <1> DEFINE D == Append(C, c)
  <1>1. /\ Len(C) \in Nat /\ Len(D) = Len(C) + 1
        /\ \A i \in 1 .. Len(C) : D[i] = C[i]
    BY AppendFacts
  <1> HIDE DEF D
  <1>2. \A k \in 1 .. Len(C) : k \in 1 .. Len(D)
    BY <1>1
  <1>3. Readable(h, D)
    BY <1>1, <1>2 DEF Readable
  <1> QED
    BY <1>3 DEF D

LEMMA MessageStays ==
  ASSUME NEW T, NEW C \in Seq(T), NEW c \in T, NEW m, MessageOK(m, C)
  PROVE  MessageOK(m, Append(C, c))
  <1> DEFINE D == Append(C, c)
  <1>1. /\ Len(C) \in Nat /\ Len(D) = Len(C) + 1
        /\ \A i \in 1 .. Len(C) : D[i] = C[i]
    BY AppendFacts
  <1>2. Readable(m.headers, D)
    BY ReadableStays DEF MessageOK
  <1> HIDE DEF D
  <1>3. m.cause \in {None} \cup 1 .. Len(D)
    BY <1>1 DEF MessageOK
  <1>4. FromSender(m, D)
    BY <1>1 DEF MessageOK, FromSender
  <1>5. MessageOK(m, D)
    BY <1>2, <1>3, <1>4 DEF MessageOK
  <1> QED
    BY <1>5 DEF D

LEMMA ContextStays ==
  ASSUME NEW T, NEW C \in Seq(T), NEW c \in T, NEW i \in 1 .. Len(C),
         ContextOK(C[i], i), Connected(C[i], C)
  PROVE  Append(C, c)[i] = C[i] /\ Connected(C[i], Append(C, c))
  <1> DEFINE D == Append(C, c)
  <1>1. /\ Len(C) \in Nat
        /\ \A k \in 1 .. Len(C) : D[k] = C[k]
    BY AppendFacts
  <1> HIDE DEF D
  <1>2. \A k \in 1 .. i - 1 : k \in 1 .. Len(C)
    BY <1>1
  <1>3. /\ C[i].parent # None => D[C[i].parent] = C[C[i].parent]
        /\ C[i].cause # None => D[C[i].cause] = C[C[i].cause]
    BY <1>1, <1>2 DEF ContextOK
  <1>4. D[i] = C[i] /\ Connected(C[i], D)
    BY <1>1, <1>3 DEF Connected
  <1> QED
    BY <1>4 DEF D

LEMMA EnterKeeps ==
  ASSUME CInv, NEW c, Enter(c), ContextOK(c, NewId), Connected(c, contexts)
  PROVE  CInv'
  <1> DEFINE T == Range(contexts) \cup {c}
  <1>1. contexts \in Seq(T) /\ c \in T
    <2>1. contexts \in Seq(Range(contexts)) /\ Range(contexts) \subseteq T
      BY DEF CInv
    <2> QED
      BY <2>1, SeqMonotonic
  <1>2. /\ contexts' = Append(contexts, c)
        /\ messages' = messages /\ reused' = reused
    BY DEF Enter
  <1>3. /\ Append(contexts, c) \in Seq(T) /\ Len(contexts) \in Nat
        /\ DOMAIN contexts = 1 .. Len(contexts)
        /\ DOMAIN Append(contexts, c) = DOMAIN contexts \cup {NewId}
        /\ Append(contexts, c)[NewId] = c
        /\ \A i \in DOMAIN contexts : Append(contexts, c)[i] = contexts[i]
        /\ Range(Append(contexts, c)) = T
    BY <1>1, AppendFacts DEF NewId
  <1> HIDE DEF T
  <1>4. contexts' \in Seq(Range(contexts'))
    BY <1>2, <1>3
  <1>5. Readable(reused', contexts')
    BY <1>1, <1>2, ReadableStays DEF CInv
  <1>6. \A m \in messages' : MessageOK(m, contexts')
    BY <1>1, <1>2, MessageStays DEF CInv
  <1>7. ASSUME NEW i \in DOMAIN contexts'
        PROVE  ContextOK(contexts'[i], i) /\ Connected(contexts'[i], contexts')
    <2>1. CASE i \in DOMAIN contexts
      <3>1. ContextOK(contexts[i], i) /\ Connected(contexts[i], contexts)
        BY <2>1 DEF CInv
      <3> QED
        BY <1>1, <1>2, <1>3, <2>1, <3>1, ContextStays
    <2>2. CASE i = NewId
      <3>1. contexts'[i] = c
        BY <1>2, <1>3, <2>2
      <3>2. /\ c.parent # None => contexts'[c.parent] = contexts[c.parent]
            /\ c.cause # None => contexts'[c.cause] = contexts[c.cause]
        BY <1>2, <1>3 DEF ContextOK, NewId
      <3> QED
        BY <2>2, <3>1, <3>2 DEF Connected
    <2> QED
      BY <1>2, <1>3, <2>1, <2>2
  <1> QED
    BY <1>4, <1>5, <1>6, <1>7 DEF CInv

-----------------------------------------------------------------------------
(* The context that context_handler makes of a message *)

\* Meta comes as the sender encoded it, and the error beside it.
LEMMA MergedMetaFacts ==
  ASSUME NEW m, NEW C, Readable(m.headers, C)
  PROVE  /\ MetaOK(MergedMeta(m))
         /\ MergedMeta(m).meta = IF Has(m, "$meta") THEN Decode(m.headers["$meta"]).meta ELSE {}
         /\ \A e : Tells(m.headers, e) =>
               Displays(MergedMeta(m).headers, e)
  <1> DEFINE a == IF Has(m, "$headers") THEN Decode(m.headers["$headers"]) ELSE NoHeaders
             d == ErrorData(m)
             u == Update(a, d)
             v == IF Has(m, "$meta") THEN Decode(m.headers["$meta"]) ELSE NoMeta
             w == MergedMeta(m)
  <1>1. /\ DOMAIN d = {f \in Fields : Has(m, ErrorHeader(f))}
        /\ \A f \in DOMAIN d : d[f] = m.headers[ErrorHeader(f)]
    BY DEF ErrorData
  <1>2. DOMAIN a \subseteq {"app"}
    BY NoHeadersFacts DEF Readable, Has
  <1> HIDE DEF a, d
  <1>3. /\ DOMAIN u = DOMAIN a \cup DOMAIN d
        /\ \A f \in DOMAIN d : u[f] = d[f]
    BY UpdateFacts
  <1>4. MetaOK(v)
    <2>1. MetaOK(NoMeta)
      BY NoHeadersFacts DEF MetaOK, NoMeta
    <2> QED
      BY <2>1 DEF Readable, Has
  <1>5. v.meta = IF Has(m, "$meta") THEN Decode(m.headers["$meta"]).meta ELSE {}
    BY DEF NoMeta
  <1>6. w = IF u = NoHeaders THEN v ELSE [v EXCEPT !.headers = u]
    BY DEF MergedMeta, CtxHeaders, a, d
  <1> HIDE DEF u, v, w
  <1>7. v = [meta |-> v.meta, headers |-> v.headers] /\ v.meta \subseteq {"meta"}
        /\ DOMAIN v.headers \subseteq {"app"} \cup Fields
    BY <1>4 DEF MetaOK
  <1>8. /\ u # NoHeaders => w = [meta |-> v.meta, headers |-> u]
        /\ u = NoHeaders => w = v
    BY <1>6, <1>7
  <1>9. DOMAIN u \subseteq {"app"} \cup Fields
    BY <1>1, <1>2, <1>3
  <1>10. MetaOK(w) /\ w.meta = v.meta
    <2>1. CASE u = NoHeaders
      BY <2>1, <1>8, <1>4
    <2>2. CASE u # NoHeaders
      <3>1. w = [meta |-> v.meta, headers |-> u]
        BY <2>2, <1>8
      <3>2. w.meta = v.meta /\ w.headers = u /\ w = [meta |-> w.meta, headers |-> w.headers]
        BY <3>1
      <3> QED
        BY <3>2, <1>7, <1>9 DEF MetaOK
    <2> QED
      BY <2>1, <2>2
  <1>11. ASSUME NEW e, Tells(m.headers, e)
         PROVE  Displays(w.headers, e)
    <2>1. Displays(d, e)
      BY <1>1, <1>11 DEF Tells, Has, ErrorHeader, Fields, Displays
    <2>2. Displays(u, e)
      BY <1>3, <2>1 DEF Displays
    <2>3. w.headers = u
      <3>1. u # NoHeaders
        BY <2>2, NoHeadersFacts DEF Displays
      <3>2. w = [meta |-> v.meta, headers |-> u]
        BY <3>1, <1>8
      <3> QED
        BY <3>2
    <2> QED
      BY <2>2, <2>3
  <1> QED
    BY <1>5, <1>10, <1>11 DEF w

LEMMA ContextOfOK ==
  ASSUME CInv, NEW m \in messages, NEW s \in Services
  PROVE  ContextOK(ContextOf(m, s), NewId) /\ Connected(ContextOf(m, s), contexts)
  <1> DEFINE c == ContextOf(m, s)
             h == m.headers
             n == Len(contexts)
             child == "$requestID" \in DOMAIN h
             get(x) == IF child /\ x \in DOMAIN h THEN h[x] ELSE None
  <1>1. /\ c.id = n + 1
        /\ c.request = IF child THEN h["$requestID"] ELSE n + 1
        /\ c.parent = get("$parentID")
        /\ c.level = IF child THEN Number(h["$level"]) + 1 ELSE 1
        /\ c.caller = get("$caller") /\ c.channel = m.channel
        /\ c.parentChannel = get("$parentChannelName")
        /\ c.meta = MergedMeta(m) /\ c.headers = NoHeaders /\ c.service = s
        /\ c.cause = m.cause /\ c.own = m.own /\ c.error = m.error
    BY DEF ContextOf, Has, NewId
  <1>2. c.tracing = (child /\ IsTrue(h["$tracing"])) /\ c.moved = m.moved
    BY DEF ContextOf, Has
  <1>3. MessageOK(m, contexts) /\ n \in Nat
    BY LenProperties DEF CInv
  <1>4. /\ m.channel \in Channels /\ m.cause \in {None} \cup 1 .. n
        /\ m.own \in BOOLEAN /\ m.moved \in BOOLEAN /\ (~ReusesHeaders => m.own)
        /\ m.error \in {None} \cup Errors
        /\ m.error # None => Tells(h, m.error)
        /\ Readable(h, contexts) /\ FromSender(m, contexts)
    BY <1>3 DEF MessageOK
  <1>5. /\ MetaOK(c.meta)
        /\ c.meta.meta = IF "$meta" \in DOMAIN h THEN Decode(h["$meta"]).meta ELSE {}
        /\ m.error # None => Displays(c.meta.headers, m.error)
    <2>1. Readable(m.headers, contexts)
      BY <1>4
    <2>2. /\ MetaOK(MergedMeta(m))
          /\ MergedMeta(m).meta = IF Has(m, "$meta") THEN Decode(m.headers["$meta"]).meta ELSE {}
          /\ Tells(m.headers, m.error) => Displays(MergedMeta(m).headers, m.error)
      BY <2>1, MergedMetaFacts
    <2>3. c.meta = MergedMeta(m)
      BY <1>1
    <2>4. m.error # None => Tells(m.headers, m.error)
      BY <1>4
    <2> HIDE DEF c
    <2> QED
      BY <2>2, <2>3, <2>4 DEF Has
  <1> HIDE DEF c, h, n
  <1>6. /\ c.request \in 1 .. n + 1 /\ c.level \in 1 .. n + 1
        /\ c.parent \in {None} \cup 1 .. n
    <2>1. CASE child
      <3>1. /\ h["$requestID"] \in 1 .. n /\ h["$parentID"] \in 1 .. n
            /\ Number(h["$level"]) \in 1 .. n
        BY <1>4, <2>1 DEF Readable, n
      <3>2. c.parent \in {None} \cup 1 .. n
        BY <1>1, <3>1
      <3> QED
        BY <1>1, <1>3, <2>1, <3>1, <3>2
    <2>2. CASE ~child
      BY <1>1, <1>3, <2>2
    <2> QED
      BY <2>1, <2>2
  <1>7. /\ c.caller \in {None} \cup Services
        /\ c.parentChannel \in {None} \cup Channels
    BY <1>1, <1>4 DEF Readable
  <1>8. DOMAIN c.headers \subseteq {"app"}
    BY <1>1, NoHeadersFacts
  <1>9. c.error # None => Displays(c.meta.headers, c.error)
    BY <1>1, <1>5, Zenon
  <1>10. Flags(c)
    <2>1. (child /\ IsTrue(h["$tracing"])) \in BOOLEAN
      OBVIOUS
    <2>2. {c.tracing, c.own, c.moved} \subseteq BOOLEAN
      BY <1>1, <1>2, <1>4, <2>1, Zenon
    <2>3. ~ReusesHeaders => c.own
      BY <1>1, <1>4, Zenon
    <2> QED
      BY <2>2, <2>3, Zenon DEF Flags
  <1>11. ContextOK(c, n + 1)
    <2>1. (n + 1) - 1 = n
      BY <1>3
    <2>3. /\ c.parent \in {None} \cup 1 .. (n + 1) - 1
          /\ c.cause \in {None} \cup 1 .. (n + 1) - 1
      BY <1>1, <1>4, <1>6, <2>1
    <2>4. /\ {c.service, c.caller} \subseteq {None} \cup Services
          /\ {c.channel, c.parentChannel} \subseteq {None} \cup Channels
          /\ c.error \in {None} \cup Errors
      BY <1>1, <1>4, <1>7
    <2>5. c.id = n + 1 /\ c.request \in 1 .. n + 1 /\ c.level \in 1 .. n + 1
      BY <1>1, <1>6
    <2>6. MetaOK(c.meta)
      BY <1>5
    <2> QED
      BY <1>8, <1>9, <1>10, <2>3, <2>4, <2>5, <2>6 DEF ContextOK
  <1>12. c.parent # None => contexts[c.parent].request = c.request
    BY <1>1, <1>4 DEF Readable
  <1>13. ASSUME OnRedis, c.cause # None
         PROVE  Descends(c, contexts[c.cause])
    <2> DEFINE u == contexts[c.cause]
    <2>1. Conveys(h, u, c.own)
      BY <1>1, <1>4, <1>13 DEF FromSender, h
    <2>2. Number(Str(u.level)) = u.level /\ Decode(Encode(u.meta)) = u.meta
      BY Conversions
    <2>3. NoMeta.meta = {}
      BY DEF NoMeta
    <2> HIDE DEF u
    <2>4. c.request = u.request /\ c.parent = u.id /\ c.level = u.level + 1
      BY <1>1, <2>1, <2>2 DEF Conveys
    <2>5. Same(c, c.caller, u.service) /\ Same(c, c.parentChannel, u.channel)
      BY <1>1, <2>1 DEF Conveys, Same
    <2>6. u.meta.meta \subseteq c.meta.meta /\ (c.own => c.meta.meta = u.meta.meta)
      <3>1. CASE u.meta = NoMeta
        BY <1>5, <2>1, <2>3, <3>1 DEF Conveys
      <3>2. CASE u.meta # NoMeta
        BY <1>5, <2>1, <2>2, <3>2 DEF Conveys
      <3> QED
        BY <3>1, <3>2
    <2>7. Descends(c, u)
      BY <2>4, <2>5, <2>6 DEF Descends
    <2> QED
      BY <2>7 DEF u
  <1>14. OnRedis /\ c.cause = None /\ c.own => c.request = c.id
    BY <1>1, <1>4 DEF FromSender, h
  <1>15. Connected(c, contexts)
    BY <1>12, <1>13, <1>14 DEF Connected
  <1> QED
    BY <1>11, <1>15 DEF c, n, NewId

LEMMA HandleKeeps ==
  ASSUME CInv, NEW m \in messages, NEW s \in Services, Handle(m, s)
  PROVE  CInv'
  BY ContextOfOK, EnterKeeps DEF Handle

LEMMA BeginKeeps ==
  ASSUME CInv, NEW o \in Origins, Begin(o)
  PROVE  CInv'
  <1> DEFINE c == [id |-> NewId, request |-> NewId, parent |-> None, level |-> 1,
                   tracing |-> o.tracing, caller |-> None, channel |-> None,
                   parentChannel |-> None, meta |-> [meta |-> o.meta, headers |-> NoHeaders],
                   headers |-> [h \in o.headers |-> h], service |-> o.service,
                   cause |-> None, own |-> TRUE, error |-> None, moved |-> FALSE]
  <1>1. Enter(c)
    BY DEF Begin
  <1>2. /\ c.id = NewId /\ c.request = NewId /\ c.parent = None /\ c.level = 1
        /\ c.caller = None /\ c.channel = None /\ c.parentChannel = None
        /\ c.meta = [meta |-> o.meta, headers |-> NoHeaders]
        /\ c.headers = [h \in o.headers |-> h] /\ c.service = o.service
        /\ c.cause = None /\ c.error = None
    OBVIOUS
  <1>3. c.tracing = o.tracing /\ c.own = TRUE /\ c.moved = FALSE
    OBVIOUS
  <1> HIDE DEF c
  <1>4. /\ o.tracing \in BOOLEAN /\ o.meta \subseteq {"meta"} /\ o.headers \subseteq {"app"}
        /\ o.service \in Services \cup {None}
    BY Kinds
  <1>5. Flags(c)
    BY <1>3, <1>4, Zenon DEF Flags
  <1>6. MetaOK(c.meta)
    <2>1. c.meta.meta = o.meta /\ c.meta.headers = NoHeaders
      BY <1>2
    <2> QED
      BY <1>2, <1>4, <2>1, NoHeadersFacts DEF MetaOK
  <1>7. Len(contexts) \in Nat
    BY LenProperties DEF CInv
  <1>8. DOMAIN c.headers \subseteq {"app"}
    BY <1>2, <1>4
  <1>9. ContextOK(c, NewId)
    BY <1>2, <1>4, <1>5, <1>6, <1>7, <1>8 DEF ContextOK, NewId
  <1>10. Connected(c, contexts)
    BY <1>2 DEF Connected
  <1> QED
    BY <1>1, <1>9, <1>10, EnterKeeps

LEMMA SendStepKeeps ==
  ASSUME CInv, NEW c \in Range(contexts), NEW ch \in Channels, NEW again \in Again,
         Send(c, ch, again)
  PROVE  CInv'
  <1>1. PICK i \in DOMAIN contexts : contexts[i] = c
    BY DEF Range
  <1>2. ContextOK(contexts[i], i)
    BY <1>1 DEF CInv
  <1>3. c.id = i
    BY <1>1, <1>2 DEF ContextOK
  <1>4. SendToChannel(HeadersOf(contexts[i]), i, ch, again)
    BY <1>1, <1>3 DEF Send
  <1>5. i # None
    BY Kinds, LenProperties DEF CInv
  <1> QED
    BY <1>4, <1>5, SendKeeps

LEMMA InitHolds == Init => CInv
  <1> SUFFICES ASSUME Init PROVE CInv
    OBVIOUS
  <1>1. contexts = <<>> /\ messages = {} /\ reused = NoHeaders
    BY DEF Init
  <1>2. contexts \in Seq(Range(contexts)) /\ DOMAIN contexts = {}
    BY <1>1
  <1> QED
    BY <1>1, <1>2, NoneReadable DEF CInv

\* The inductive invariant: whatever headers are under way can be read back to
\* contexts that were made, a message's own headers convey the context that
\* published it, and a context took over what its message conveyed.
THEOREM Invariance == Spec => []CInv
  <1>1. Init => CInv
    BY InitHolds
  <1>2. CInv /\ [Next]_vars => CInv'
    <2> SUFFICES ASSUME CInv, [Next]_vars PROVE CInv'
      OBVIOUS
    <2>1. CASE \E o \in Origins : Begin(o)
      BY <2>1, BeginKeeps
    <2>2. CASE \E c \in Range(contexts), ch \in Channels, again \in Again : Send(c, ch, again)
      BY <2>2, SendStepKeeps
    <2>3. CASE \E ch \in Channels, again \in Again : SendBare(ch, again)
      BY <2>3, SendKeeps DEF SendBare
    <2>4. CASE \E m \in messages, s \in Services : Handle(m, s)
      BY <2>4, HandleKeeps
    <2>5. CASE \E m \in messages : Fails(m)
      BY <2>5, FailsKeeps
    <2>6. CASE UNCHANGED vars
      <3>1. contexts' = contexts /\ messages' = messages /\ reused' = reused
        BY <2>6 DEF vars
      <3> QED
        BY <3>1 DEF CInv
    <2> QED
      BY <2>1, <2>2, <2>3, <2>4, <2>5, <2>6 DEF Next
  <1> QED
    BY <1>1, <1>2, PTL DEF Spec

-----------------------------------------------------------------------------
(* What it implies *)

LEMMA CInvTypes == CInv => TypeOK
  <1> SUFFICES ASSUME CInv PROVE TypeOK
    OBVIOUS
  <1>1. ASSUME NEW i \in DOMAIN contexts
        PROVE  LET c == contexts[i] IN
               /\ c.id = i
               /\ c.request \in 1..i
               /\ c.level \in 1..i
               /\ c.parent \in {None} \cup 1..i-1
               /\ c.cause \in {None} \cup 1..i-1
               /\ {c.service, c.caller} \subseteq {None} \cup Services
               /\ {c.channel, c.parentChannel} \subseteq {None} \cup Channels
               /\ {c.tracing, c.own, c.moved} \subseteq BOOLEAN
               /\ c.error \in {None} \cup Errors
               /\ c.meta.meta \subseteq {"meta"}
               /\ DOMAIN c.meta.headers \subseteq {"app"} \cup Fields
    <2> DEFINE c == contexts[i]
    <2>1. ContextOK(c, i)
      BY DEF CInv
    <2> HIDE DEF c
    <2>2. {c.tracing, c.own, c.moved} \subseteq BOOLEAN
      BY <2>1, Zenon DEF ContextOK, Flags
    <2>3. /\ c.id = i /\ c.request \in 1..i /\ c.level \in 1..i
          /\ c.parent \in {None} \cup 1..i-1 /\ c.cause \in {None} \cup 1..i-1
          /\ {c.service, c.caller} \subseteq {None} \cup Services
          /\ {c.channel, c.parentChannel} \subseteq {None} \cup Channels
          /\ c.error \in {None} \cup Errors
          /\ MetaOK(c.meta)
      BY <2>1, Zenon DEF ContextOK
    <2>4. c.meta.meta \subseteq {"meta"} /\ DOMAIN c.meta.headers \subseteq {"app"} \cup Fields
      BY <2>3, Zenon DEF MetaOK
    <2> QED
      BY <2>2, <2>3, <2>4, Zenon DEF c
  <1>2. ASSUME NEW m \in messages
        PROVE  /\ m.channel \in Channels
               /\ m.cause \in {None} \cup 1..Len(contexts)
               /\ m.error # None => m.moved
               /\ m.saved \in {None} \cup Errors
               /\ DOMAIN m.hash \subseteq {ErrorHeader(f) : f \in Fields}
    <2>1. MessageOK(m, contexts)
      BY DEF CInv
    <2>2. ErrorKeys = {ErrorHeader(f) : f \in Fields}
      BY DEF ErrorKeys, ErrorHeader, Fields
    <2> QED
      BY <2>1, <2>2, Zenon DEF MessageOK, HashOK
  <1> QED
    BY <1>1, <1>2, Zenon DEF TypeOK

LEMMA CInvDescent ==
  ASSUME CInv, OnRedis, NEW c \in Received
  PROVE  c.cause \in DOMAIN contexts /\ Descends(c, Sender(c))
  <1>1. PICK i \in DOMAIN contexts : contexts[i] = c
    BY DEF Received, Range
  <1>2. ContextOK(c, i) /\ Connected(c, contexts) /\ c.cause # None
    BY <1>1 DEF CInv, Received
  <1>3. Len(contexts) \in Nat /\ DOMAIN contexts = 1 .. Len(contexts)
    BY LenProperties DEF CInv
  <1>4. c.cause \in 1 .. i - 1
    BY <1>2 DEF ContextOK
  <1> QED
    BY <1>2, <1>3, <1>4 DEF Connected, Sender

LEMMA CInvPropagated == CInv /\ OnRedis => ContextPropagated /\ MetaKept
  <1> SUFFICES ASSUME CInv, OnRedis PROVE ContextPropagated /\ MetaKept
    OBVIOUS
  <1>1. \A c \in Received : Descends(c, Sender(c))
    BY CInvDescent
  <1> QED
    BY <1>1, Zenon DEF Descends, Same, ContextPropagated, MetaKept

LEMMA CInvVisible == CInv => ErrorVisible
  <1> SUFFICES ASSUME CInv, NEW c \in Range(contexts), c.error # None
               PROVE  Displays(c.meta.headers, c.error)
    BY Zenon DEF ErrorVisible, Displays, Shows
  <1>1. PICK i \in DOMAIN contexts : contexts[i] = c
    BY DEF Range
  <1>2. ContextOK(c, i)
    BY <1>1 DEF CInv
  <1> QED
    BY <1>2, Zenon DEF ContextOK

\* Contexts and messages have their types in every configuration; a context
\* descends from earlier ones only and is no deeper than its place, so that
\* what context_handler reads of headers is always there to read, also after
\* any number of moves and calls that reuse a dictionary.
THEOREM TypeCorrect == Spec => []TypeOK
  BY Invariance, CInvTypes, PTL

\* Over the dead letter queue of adapters/redis.py, which keeps the headers,
\* requestID, parentID, level, caller and channel of the sender arrive in
\* every context, however often the message was moved.
THEOREM Propagated ==
  ASSUME OnRedis
  PROVE  Spec => []ContextPropagated
  <1>1. CInv => ContextPropagated
    BY CInvPropagated
  <1> QED
    BY <1>1, Invariance, PTL

\* And the application's meta, whatever $headers and errors come with it.
THEOREM MetaArrives ==
  ASSUME OnRedis
  PROVE  Spec => []MetaKept
  <1>1. CInv => MetaKept
    BY CInvPropagated
  <1> QED
    BY <1>1, Invariance, PTL

\* In every configuration, the handler of a dead letter queue sees name, code
\* and stack of one error, the last that an attempt stored, also when earlier
\* attempts, an earlier move or the sender's own $headers had left another.
THEOREM Visible == Spec => []ErrorVisible
  BY Invariance, CInvVisible, PTL

\* A caller that passes no headers dictionary twice: what the sender has not
\* is not in the context either, and a call without a context begins a request.
THEOREM NothingLeftOver ==
  ASSUME OnRedis, ~ReusesHeaders
  PROVE  Spec => []NothingStale
  <1>1. ASSUME CInv PROVE NothingStale
    <2> SUFFICES ASSUME NEW c \in Range(contexts)
                 PROVE  IF c.cause = None THEN c.request = c.id
                        ELSE /\ c.caller = Sender(c).service
                             /\ c.parentChannel = Sender(c).channel
                             /\ c.meta.meta = Sender(c).meta.meta
      BY DEF NothingStale
    <2>1. PICK i \in DOMAIN contexts : contexts[i] = c
      BY DEF Range
    <2>2. ContextOK(c, i) /\ Connected(c, contexts)
      BY <1>1, <2>1 DEF CInv
    <2>3. c.own
      BY <2>2, Zenon DEF ContextOK, Flags
    <2>4. CASE c.cause = None
      BY <2>2, <2>3, <2>4 DEF Connected
    <2>5. CASE c.cause # None
      <3>1. Descends(c, Sender(c))
        BY <1>1, <2>5, CInvDescent DEF Received
      <3> QED
        BY <2>3, <2>5, <3>1, Zenon DEF Descends, Same
    <2> QED
      BY <2>4, <2>5
  <1>2. CInv => NothingStale
    BY <1>1
  <1> QED
    BY <1>2, Invariance, PTL
=============================================================================
