-------------------------- MODULE FakeChannelProofs --------------------------
(***************************************************************************)
(* Safety of FakeChannel for every number of channels, subscriptions and   *)
(* messages: type correctness, who waits for whom, and that publish has    *)
(* delivered when it returns; and, when no channel is subscribed twice,    *)
(* that the active messages are those of the handlers at work and that     *)
(* unsubscribe removes a channel only while none is.                       *)
(***************************************************************************)
EXTENDS FakeChannel, ListProofs

\* The callers of publish, one for each message.
CallerInv == caller \in Seq(Deliveries \cup {Outside})

\* A handler waits for the call that returns to it, and is cancelled with it.
WaitsInv ==
    \A d \in Deliveries : waitsFor[d] # Nothing =>
        /\ at[d] = "running"
        /\ waitsFor[d] \in Consumers =>
              /\ waitsFor[d] \in DOMAIN waiting /\ waiting[waitsFor[d]] = d
              /\ d[1] \notin cancelled
        /\ waitsFor[d] \in Messages =>
              /\ caller[waitsFor[d]] = d /\ waitsFor[d] \notin returned
              /\ d[1] \in cancelled => waitsFor[d] \in cancelled

\* A publish that returned left no task behind.
DoneInv == \A m \in returned : \A i \in DOMAIN target[m] : at[<<m, i>>] = "done"

\* publish reached every channel that was subscribed before it, and every task
\* that ended has called its handler.
ReachedInv ==
    /\ \A m \in Messages : \A c \in Range(subscriptions) \ unsubscribing :
          m > since[c] => c \in Range(target[m])
    /\ \A d \in Deliveries :
          at[d] = "done" /\ d[1] \notin cancelled => <<d[1], To(d)>> \in called

GInv == TypeOK /\ CallerInv /\ WaitsInv /\ DoneInv /\ ReachedInv

\* An active message has a handler at work on it.
ActiveIsRunning == \A c \in Consumers : active[c] \subseteq {d[1] : d \in Running(c)}

\* No channel is subscribed twice, and no message delivered twice to one.
OnceInv == IsInjective(subscriptions) /\ \A m \in Messages : IsInjective(target[m])

\* A handler at work has its message active.
RunningIsActive == \A d \in Deliveries : at[d] = "running" => d[1] \in active[To(d)]

-----------------------------------------------------------------------------
(* The parts of the state *)

LEMMA Kinds ==
  /\ MaxSubscriptions \in Nat /\ MaxMessages \in Nat
  /\ Outside # Nothing /\ Outside \notin Nat \X Nat /\ Nothing \notin Nat
  /\ \A c \in Consumers : c \notin Nat /\ c # Nothing /\ c # Outside
  BY FakeAssumption

\* A delivery is a message with one of the subscriptions it was delivered to.
LEMMA DeliveryFacts ==
  ASSUME TypeOK
  PROVE  /\ Messages = 1 .. Len(target) /\ Len(target) \in Nat
         /\ \A m \in Messages : target[m] \in Seq(Consumers) /\ DOMAIN target[m] \subseteq Nat
         /\ \A d : d \in Deliveries <=>
               d = <<d[1], d[2]>> /\ d[1] \in Messages /\ d[2] \in DOMAIN target[d[1]]
         /\ \A d \in Deliveries : /\ d \in Nat \X Nat /\ d # Outside
                                  /\ To(d) \in Consumers /\ To(d) \in Range(target[d[1]])
         /\ \A m \in Messages : \A i \in DOMAIN target[m] :
               <<m, i>> \in Deliveries /\ To(<<m, i>>) = target[m][i]
  <1>1. Messages = 1 .. Len(target) /\ Len(target) \in Nat
        /\ \A m \in Messages : target[m] \in Seq(Consumers)
    BY LenProperties DEF TypeOK, Messages
  <1>2. ASSUME NEW m \in Messages
        PROVE  /\ DOMAIN target[m] \subseteq Nat
               /\ \A i \in DOMAIN target[m] : target[m][i] \in Consumers
    <2>1. DOMAIN target[m] = 1 .. Len(target[m])
      BY <1>1, LenProperties
    <2> QED
      BY <1>1, <2>1, LenProperties
  <1>3. ASSUME NEW d
        PROVE  d \in Deliveries <=>
                  d = <<d[1], d[2]>> /\ d[1] \in Messages /\ d[2] \in DOMAIN target[d[1]]
    <2>1. Deliveries = UNION {{m} \X DOMAIN target[m] : m \in Messages}
      BY DEF TypeOK
    <2>2. d \in Deliveries <=> \E m \in Messages : d \in {m} \X DOMAIN target[m]
      BY <2>1
    <2> QED
      BY <2>2
  <1>4. \A d \in Deliveries : d \in Nat \X Nat
    <2>1. Messages \subseteq Nat
      BY <1>1
    <2> QED
      BY <1>2, <1>3, <2>1
  <1>5. \A d \in Deliveries : To(d) \in Consumers /\ To(d) \in Range(target[d[1]])
    BY <1>2, <1>3 DEF To, Range
  <1>6. \A m \in Messages : \A i \in DOMAIN target[m] :
           <<m, i>> \in Deliveries /\ To(<<m, i>>) = target[m][i]
    BY <1>3 DEF To
  <1> QED
    BY <1>1, <1>2, <1>3, <1>4, <1>5, <1>6, Kinds

LEMMA InitGInv == Init => GInv
  <1> SUFFICES ASSUME Init PROVE GInv
    OBVIOUS
  <1>1. /\ <<>> \in Seq(Consumers) /\ <<>> \in Seq(Seq(Consumers)) /\ Len(<<>>) = 0
        /\ \A S : <<>> \in Seq(S)
        /\ DOMAIN <<>> = {} /\ Range(<<>>) = {}
    BY EmptySeq, EmptyListFacts
  <1>2. Messages = {} /\ Deliveries = {}
    BY <1>1 DEF Init, Messages, Deliveries
  <1>3. at \in [Deliveries -> {"ready", "running", "done"}]
        /\ waitsFor \in [Deliveries -> Messages \cup Consumers \cup {Nothing}]
    BY <1>1, <1>2 DEF Init
  <1>4. Deliveries = UNION {{m} \X DOMAIN target[m] : m \in Messages}
    BY <1>2
  <1>5. TypeOK
    <2>1. since \in [Consumers -> 0 .. MaxMessages] /\ 0 <= MaxMessages
      BY Kinds DEF Init
    <2>2. active \in [Consumers -> SUBSET Messages]
      BY DEF Init
    <2>3. /\ connected \in BOOLEAN /\ subscriptions \in Seq(Consumers) /\ unsubscribing = {}
          /\ DOMAIN waiting = {} /\ Range(waiting) = {}
          /\ target \in Seq(Seq(Consumers)) /\ Len(target) = 0
          /\ DOMAIN caller = {} /\ Range(caller) = {}
          /\ cancelled = {} /\ returned = {} /\ called = {}
      BY <1>1 DEF Init
    <2> QED
      BY <1>2, <1>3, <1>4, <2>1, <2>2, <2>3 DEF TypeOK
  <1>6. CallerInv
    BY <1>1 DEF Init, CallerInv
  <1>7. WaitsInv /\ DoneInv /\ ReachedInv
    BY <1>1, <1>2 DEF Init, WaitsInv, DoneInv, ReachedInv
  <1> QED
    BY <1>5, <1>6, <1>7 DEF GInv

-----------------------------------------------------------------------------
(* Every step keeps GInv. *)

\* What a caller is told leaves the other handlers as they were.
LEMMA AwaitFacts ==
  ASSUME TypeOK, NEW who, NEW what, Await(who, what), UNCHANGED at
  PROVE  /\ DOMAIN waitsFor' = Deliveries
         /\ \A d \in Deliveries : waitsFor'[d] = IF d = who THEN what ELSE waitsFor[d]
         /\ what \in Messages \cup Consumers \cup {Nothing} =>
               waitsFor' \in [Deliveries -> Messages \cup Consumers \cup {Nothing}]
  BY DEF Await, Deliveries, TypeOK

LEMMA SubGStep ==
  ASSUME GInv, Connect \/ Disconnect \/ \E c \in Consumers : Subscribe(c)
  PROVE  GInv'
  <1> USE DEF GInv
  <1>0. /\ UNCHANGED <<unsubscribing, waiting, target, caller, cancelled, returned,
                       active, at, waitsFor, called>>
    BY DEF Connect, Disconnect, Subscribe, waitVars, pubVars, taskVars
  <1>1. Messages' = Messages /\ Deliveries' = Deliveries /\ \A d : To(d)' = To(d)
    BY <1>0 DEF Messages, Deliveries, To
  <1>2. /\ connected' \in BOOLEAN /\ subscriptions' \in Seq(Consumers)
        /\ since' \in [Consumers -> 0 .. MaxMessages]
        /\ \A c \in Range(subscriptions') : \/ c \in Range(subscriptions) /\ since'[c] = since[c]
                                            \/ since'[c] = Len(target)
    <2>1. CASE Connect
      BY <2>1 DEF Connect, TypeOK
    <2>2. CASE Disconnect
      BY <2>2, EmptySeq, EmptyListFacts DEF Disconnect, TypeOK
    <2>3. CASE \E c \in Consumers : Subscribe(c)
      <3>1. PICK c \in Consumers : Subscribe(c)
        BY <2>3
      <3>2. /\ Append(subscriptions, c) \in Seq(Consumers)
            /\ Range(Append(subscriptions, c)) = Range(subscriptions) \cup {c}
        BY AppendFacts DEF TypeOK
      <3>3. Len(target) \in 0 .. MaxMessages
        BY DeliveryFacts, Kinds DEF TypeOK
      <3>4. /\ subscriptions' = Append(subscriptions, c) /\ connected' = connected
            /\ since' = [since EXCEPT ![c] = Len(target)]
        BY <3>1 DEF Subscribe
      <3>5. /\ since' \in [Consumers -> 0 .. MaxMessages] /\ since'[c] = Len(target)
            /\ \A d \in Consumers \ {c} : since'[d] = since[d]
        BY <3>3, <3>4 DEF TypeOK
      <3>6. \A d \in Range(subscriptions) : d \in Consumers
        BY RangeOfSeq DEF TypeOK
      <3> QED
        BY <3>2, <3>4, <3>5, <3>6 DEF TypeOK
    <2> QED
      BY <2>1, <2>2, <2>3
  <1>3. TypeOK'
    BY <1>0, <1>1, <1>2 DEF TypeOK
  <1>4. CallerInv' /\ WaitsInv' /\ DoneInv'
    BY <1>0, <1>1 DEF CallerInv, WaitsInv, DoneInv
  <1>5. ReachedInv'
    <2>1. ASSUME NEW m \in Messages, NEW c \in Range(subscriptions') \ unsubscribing,
                 m > since'[c]
          PROVE  c \in Range(target[m])
      <3>1. ~(m > Len(target))
        BY DeliveryFacts
      <3> QED
        BY <1>2, <2>1, <3>1 DEF ReachedInv
    <2> QED
      BY <1>0, <1>1, <2>1 DEF ReachedInv
  <1> QED
    BY <1>3, <1>4, <1>5

\* publish adds one message, with one delivery for each subscription that stays.
Published(who, m, to) ==
    /\ m = Len(target) + 1 /\ m \in Nat /\ m <= MaxMessages /\ m \notin Messages
    /\ to \in Seq(Consumers) /\ Range(to) = Range(subscriptions) \cap (Consumers \ unsubscribing)
    /\ IsInjective(subscriptions) => IsInjective(to)
    /\ Messages' = Messages \cup {m}
    /\ target' \in Seq(Seq(Consumers)) /\ Len(target') = m
    /\ target'[m] = to /\ \A n \in Messages : target'[n] = target[n]
    /\ caller' \in Seq(Deliveries \cup {Outside}) /\ DOMAIN caller' = Messages'
    /\ caller'[m] = who /\ \A n \in Messages : caller'[n] = caller[n]
    /\ Deliveries' = Deliveries \cup ({m} \X DOMAIN to)
    /\ \A d \in {m} \X DOMAIN to : d \notin Deliveries /\ d[1] = m
    /\ at' \in [Deliveries' -> {"ready", "running", "done"}]
    /\ \A d \in Deliveries : at'[d] = at[d]
    /\ \A d \in {m} \X DOMAIN to : at'[d] = "ready" /\ waitsFor'[d] = Nothing
    /\ waitsFor' \in [Deliveries' -> Messages' \cup Consumers \cup {Nothing}]
    /\ \A d \in Deliveries : waitsFor'[d] = IF d = who THEN m ELSE waitsFor[d]
    /\ UNCHANGED <<connected, subscriptions, since, unsubscribing, waiting, cancelled,
                   returned, active, called>>

LEMMA PublishFacts ==
  ASSUME TypeOK, CallerInv, NEW who \in Acting \cup {Outside}, Publish(who)
  PROVE  \E m, to : Published(who, m, to)
  <1> DEFINE m == Len(target) + 1
             to == Keep(subscriptions, Consumers \ unsubscribing)
             new == {m} \X DOMAIN to
  <1>1. /\ target' = Append(target, to) /\ caller' = Append(caller, who)
        /\ at' = [d \in Deliveries \cup new |-> IF d \in Deliveries THEN at[d] ELSE "ready"]
        /\ Await(who, m) /\ Len(target) < MaxMessages
        /\ UNCHANGED <<connected, subscriptions, since, unsubscribing, waiting, cancelled,
                       returned, active, called>>
    BY DEF Publish, subVars, waitVars
  <1>2. /\ to \in Seq(Consumers) /\ Range(to) = Range(subscriptions) \cap (Consumers \ unsubscribing)
        /\ IsInjective(subscriptions) => IsInjective(to)
    BY KeepFacts DEF TypeOK
  <1>3. Len(target) \in Nat /\ Messages = 1 .. Len(target)
    BY DeliveryFacts
  <1>4. /\ m \in Nat /\ m <= MaxMessages /\ m \notin Messages
    BY <1>1, <1>3, Kinds
  <1> HIDE DEF to
  <1>5. /\ target' \in Seq(Seq(Consumers)) /\ Len(target') = m
        /\ target'[m] = to /\ \A n \in Messages : target'[n] = target[n]
        /\ Messages' = Messages \cup {m}
    BY <1>1, <1>2, AppendFacts DEF TypeOK, Messages
  <1>6. who \in Deliveries \cup {Outside}
    BY DEF Acting
  <1>7. Len(caller) = Len(target)
    BY <1>3, LenProperties DEF TypeOK, CallerInv
  <1>8. /\ caller' \in Seq(Deliveries \cup {Outside}) /\ DOMAIN caller' = Messages'
        /\ caller'[m] = who /\ \A n \in Messages : caller'[n] = caller[n]
    BY <1>1, <1>5, <1>6, <1>7, AppendFacts DEF TypeOK, CallerInv
  <1> HIDE DEF m
  <1>9. \A d \in new : d \notin Deliveries /\ d[1] = m
    BY <1>4, DeliveryFacts
  <1>10. who \notin new
    BY <1>4, <1>6, <1>9, Kinds, LenProperties, <1>2
  <1> HIDE DEF new
  <1>11. /\ Deliveries' = Deliveries \cup new
         /\ at' \in [Deliveries' -> {"ready", "running", "done"}]
         /\ \A d \in Deliveries : at'[d] = at[d]
         /\ \A d \in new : at'[d] = "ready"
    BY <1>1, <1>9 DEF Deliveries, TypeOK
  <1>12. /\ DOMAIN waitsFor' = Deliveries'
         /\ \A d \in Deliveries' : waitsFor'[d] =
               IF d = who THEN m ELSE IF d \in Deliveries THEN waitsFor[d] ELSE Nothing
         /\ waitsFor' = [d \in Deliveries' |-> waitsFor'[d]]
    BY <1>1 DEF Await, Deliveries
  <1>13. /\ waitsFor' \in [Deliveries' -> Messages' \cup Consumers \cup {Nothing}]
         /\ \A d \in Deliveries : waitsFor'[d] = IF d = who THEN m ELSE waitsFor[d]
         /\ \A d \in new : waitsFor'[d] = Nothing
    <2>1. \A d \in Deliveries : waitsFor[d] \in Messages \cup Consumers \cup {Nothing}
      BY DEF TypeOK
    <2>2. \A d \in Deliveries' : waitsFor'[d] \in Messages' \cup Consumers \cup {Nothing}
      BY <1>5, <1>12, <2>1
    <2> QED
      BY <1>9, <1>10, <1>11, <1>12, <2>2
  <1>14. m = Len(target) + 1 /\ new = {m} \X DOMAIN to
    BY DEF m, new
  <1> WITNESS m, to
  <1> QED
    BY <1>1, <1>2, <1>4, <1>5, <1>8, <1>9, <1>11, <1>13, <1>14 DEF Published

LEMMA PublishGStep ==
  ASSUME GInv, NEW who \in Acting \cup {Outside}, Publish(who)
  PROVE  GInv'
  <1> USE DEF GInv
  <1>0. PICK m, to : Published(who, m, to)
    BY PublishFacts
  <1>1. /\ m = Len(target) + 1 /\ m \in Nat /\ m <= MaxMessages /\ m \notin Messages
        /\ to \in Seq(Consumers) /\ Range(to) = Range(subscriptions) \cap (Consumers \ unsubscribing)
        /\ Messages' = Messages \cup {m}
        /\ target' \in Seq(Seq(Consumers)) /\ Len(target') = m
        /\ target'[m] = to /\ \A n \in Messages : target'[n] = target[n]
        /\ caller' \in Seq(Deliveries \cup {Outside}) /\ DOMAIN caller' = Messages'
        /\ caller'[m] = who /\ \A n \in Messages : caller'[n] = caller[n]
        /\ Deliveries' = Deliveries \cup ({m} \X DOMAIN to)
        /\ \A d \in {m} \X DOMAIN to : d \notin Deliveries /\ d[1] = m
        /\ at' \in [Deliveries' -> {"ready", "running", "done"}]
        /\ \A d \in Deliveries : at'[d] = at[d]
        /\ \A d \in {m} \X DOMAIN to : at'[d] = "ready" /\ waitsFor'[d] = Nothing
        /\ waitsFor' \in [Deliveries' -> Messages' \cup Consumers \cup {Nothing}]
        /\ \A d \in Deliveries : waitsFor'[d] = IF d = who THEN m ELSE waitsFor[d]
        /\ UNCHANGED <<connected, subscriptions, since, unsubscribing, waiting, cancelled,
                       returned, active, called>>
    BY <1>0 DEF Published
  <1> DEFINE new == {m} \X DOMAIN to
  <1>2. CallerInv'
    BY <1>1, SeqMonotonic DEF CallerInv
  <1>3. TypeOK'
    <2>1. Deliveries' = UNION {{n} \X DOMAIN target'[n] : n \in Messages'}
      <3>1. Deliveries = UNION {{n} \X DOMAIN target[n] : n \in Messages}
        BY DEF TypeOK
      <3>2. UNION {{n} \X DOMAIN target'[n] : n \in Messages} = Deliveries
        BY <1>1, <3>1
      <3> QED
        BY <1>1, <3>2
    <2>2. Range(caller') \subseteq Deliveries' \cup {Outside}
      BY <1>2, RangeOfSeq DEF CallerInv
    <2>3. /\ Range(waiting') \subseteq Deliveries' \cup {Outside}
          /\ active' \in [Consumers -> SUBSET Messages']
          /\ cancelled' \subseteq Messages' /\ returned' \subseteq Messages'
          /\ called' \subseteq Messages' \X Consumers
      BY <1>1 DEF TypeOK
    <2>4. /\ connected' \in BOOLEAN /\ subscriptions' \in Seq(Consumers)
          /\ unsubscribing' \subseteq Consumers /\ DOMAIN waiting' \subseteq unsubscribing'
          /\ since' \in [Consumers -> 0 .. MaxMessages]
      BY <1>1 DEF TypeOK
    <2> QED
      BY <1>1, <2>1, <2>2, <2>3, <2>4 DEF TypeOK
  <1>4. WaitsInv'
    <2> SUFFICES ASSUME NEW d \in Deliveries', waitsFor'[d] # Nothing
                 PROVE  /\ at'[d] = "running"
                        /\ waitsFor'[d] \in Consumers =>
                              /\ waitsFor'[d] \in DOMAIN waiting /\ waiting[waitsFor'[d]] = d
                              /\ d[1] \notin cancelled
                        /\ waitsFor'[d] \in Messages' =>
                              /\ caller'[waitsFor'[d]] = d /\ waitsFor'[d] \notin returned
                              /\ d[1] \in cancelled => waitsFor'[d] \in cancelled
      BY <1>1 DEF WaitsInv
    <2>1. d \in Deliveries
      BY <1>1
    <2>2. CASE d = who
      <3>1. at[d] = "running" /\ d[1] \notin cancelled
        BY <2>1, <2>2, DeliveryFacts DEF Acting
      <3>2. waitsFor'[d] = m /\ m \notin Consumers /\ m \notin returned
        BY <1>1, <2>1, <2>2, Kinds DEF TypeOK
      <3> QED
        BY <1>1, <2>1, <2>2, <3>1, <3>2
    <2>3. CASE d # who
      <3>1. waitsFor'[d] = waitsFor[d] /\ waitsFor[d] \in Messages \cup Consumers \cup {Nothing}
        BY <1>1, <2>1, <2>3 DEF TypeOK
      <3>2. waitsFor[d] \in Messages' => waitsFor[d] \in Messages
        BY <1>1, <3>1, Kinds
      <3>3. /\ at'[d] = at[d] /\ UNCHANGED <<waiting, returned, cancelled>>
            /\ \A n \in Messages : caller'[n] = caller[n]
        BY <1>1, <2>1
      <3> QED
        BY <2>1, <3>1, <3>2, <3>3 DEF WaitsInv
    <2> QED
      BY <2>2, <2>3
  <1>5. DoneInv'
    <2>1. ASSUME NEW n \in returned PROVE \A i \in DOMAIN target'[n] : at'[<<n, i>>] = "done"
      <3>1. n \in Messages /\ target'[n] = target[n]
        BY <1>1 DEF TypeOK
      <3>2. \A i \in DOMAIN target[n] : <<n, i>> \in Deliveries /\ at[<<n, i>>] = "done"
        BY <3>1, DeliveryFacts DEF DoneInv
      <3> QED
        BY <1>1, <3>1, <3>2
    <2> QED
      BY <1>1, <2>1 DEF DoneInv
  <1>6. ReachedInv'
    <2>1. ASSUME NEW n \in Messages', NEW c \in Range(subscriptions) \ unsubscribing, n > since[c]
          PROVE  c \in Range(target'[n])
      <3>1. c \in Consumers
        BY RangeOfSeq DEF TypeOK
      <3> QED
        BY <1>1, <2>1, <3>1 DEF ReachedInv
    <2>2. ASSUME NEW d \in Deliveries', at'[d] = "done", d[1] \notin cancelled
          PROVE  <<d[1], To(d)'>> \in called
      <3>1. d \in Deliveries /\ at[d] = "done"
        BY <1>1, <2>2
      <3>2. To(d)' = To(d)
        BY <1>1, <3>1, DeliveryFacts DEF To
      <3> QED
        BY <2>2, <3>1, <3>2 DEF ReachedInv
    <2> QED
      BY <1>1, <2>1, <2>2 DEF ReachedInv
  <1> QED
    BY <1>2, <1>3, <1>4, <1>5, <1>6

LEMMA TaskGStep ==
  ASSUME GInv, NEW d \in Deliveries, Begin(d) \/ End(d) \/ Skip(d)
  PROVE  GInv'
  <1> USE DEF GInv
  <1>1. /\ UNCHANGED <<connected, subscriptions, since, unsubscribing, waiting, target, caller,
                       cancelled, returned, waitsFor>>
        /\ \E pc \in {"running", "done"} : at' = [at EXCEPT ![d] = pc]
    BY DEF Begin, End, Skip, subVars, waitVars, pubVars
  <1>2. /\ Messages' = Messages /\ Deliveries' = Deliveries /\ (\A e : To(e)' = To(e))
        /\ at' \in [Deliveries -> {"ready", "running", "done"}]
        /\ \A e \in Deliveries \ {d} : at'[e] = at[e]
    BY <1>1 DEF Messages, Deliveries, To, TypeOK
  <1>3. d[1] \in Messages /\ To(d) \in Consumers /\ <<d[1], To(d)>> \in Messages \X Consumers
    BY DeliveryFacts
  <1>4. TypeOK'
    <2>1. active' \in [Consumers -> SUBSET Messages] /\ called' \subseteq Messages \X Consumers
      <3>1. active \in [Consumers -> SUBSET Messages] /\ called \subseteq Messages \X Consumers
        BY DEF TypeOK
      <3>2. /\ called' = called \/ called' = called \cup {<<d[1], To(d)>>}
            /\ \/ active' = active
               \/ active' = [active EXCEPT ![To(d)] = @ \cup {d[1]}]
               \/ active' = [active EXCEPT ![To(d)] = @ \ {d[1]}]
        BY DEF Begin, End, Skip
      <3> QED
        BY <1>3, <3>1, <3>2
    <2> QED
      BY <1>1, <1>2, <2>1 DEF TypeOK
  <1>5. CallerInv'
    BY <1>1, <1>2 DEF CallerInv
  <1>6. /\ at[d] # "done" /\ at'[d] = "done" => /\ waitsFor[d] = Nothing \/ at[d] = "ready"
                                                /\ d[1] \notin cancelled => <<d[1], To(d)>> \in called'
        /\ at'[d] # "done" => at'[d] = "running"
        /\ called \subseteq called' /\ at[d] # "done"
    BY <1>1, <1>2 DEF Begin, End, Skip, TypeOK
  <1>7. WaitsInv'
    BY <1>1, <1>2, <1>6 DEF WaitsInv
  <1>8. DoneInv'
    <2>1. ASSUME NEW n \in returned, NEW i \in DOMAIN target[n] PROVE at'[<<n, i>>] = "done"
      <3>1. <<n, i>> \in Deliveries /\ at[<<n, i>>] = "done"
        BY <2>1, DeliveryFacts DEF DoneInv, TypeOK
      <3> QED
        BY <1>2, <1>6, <3>1
    <2> QED
      BY <1>1, <2>1 DEF DoneInv
  <1>9. ReachedInv'
    BY <1>1, <1>2, <1>6 DEF ReachedInv
  <1> QED
    BY <1>4, <1>5, <1>7, <1>8, <1>9

LEMMA ReturnGStep ==
  ASSUME GInv, NEW m \in Messages, Return(m)
  PROVE  GInv'
  <1> USE DEF GInv
  <1>1. /\ UNCHANGED <<connected, subscriptions, since, unsubscribing, waiting, target, caller,
                       cancelled, active, at, called>>
        /\ returned' = returned \cup {m} /\ Await(caller[m], Nothing)
        /\ \A i \in DOMAIN target[m] : at[<<m, i>>] = "done"
    BY DEF Return, subVars, waitVars
  <1>2. Messages' = Messages /\ Deliveries' = Deliveries /\ \A e : To(e)' = To(e)
    BY <1>1 DEF Messages, Deliveries, To
  <1>3. /\ waitsFor' \in [Deliveries -> Messages \cup Consumers \cup {Nothing}]
        /\ \A e \in Deliveries : waitsFor'[e] = IF e = caller[m] THEN Nothing ELSE waitsFor[e]
    BY <1>1, AwaitFacts
  <1>4. TypeOK'
    BY <1>1, <1>2, <1>3 DEF TypeOK
  <1>5. CallerInv' /\ DoneInv' /\ ReachedInv'
    BY <1>1, <1>2 DEF CallerInv, DoneInv, ReachedInv
  <1>6. WaitsInv'
    BY <1>1, <1>2, <1>3 DEF WaitsInv
  <1> QED
    BY <1>4, <1>5, <1>6

\* The channels that are left after one was removed.
LEMMA RemoveFacts ==
  ASSUME TypeOK, NEW c \in Consumers, Remove(c)
  PROVE  /\ subscriptions' \in Seq(Consumers)
         /\ Range(subscriptions') = Range(subscriptions) \ {c}
         /\ IsInjective(subscriptions) => IsInjective(subscriptions')
  <1> DEFINE kept == Keep(subscriptions, Consumers \ {c})
  <1>1. /\ kept \in Seq(Consumers)
        /\ Range(kept) = Range(subscriptions) \cap (Consumers \ {c})
        /\ IsInjective(subscriptions) => IsInjective(kept)
    BY KeepFacts DEF TypeOK
  <1>2. subscriptions' = kept
    BY DEF Remove
  <1> HIDE DEF kept
  <1>3. Range(subscriptions) \subseteq Consumers
    BY RangeOfSeq DEF TypeOK
  <1>4. Range(kept) = Range(subscriptions) \ {c}
    BY <1>1, <1>3
  <1> QED
    BY <1>1, <1>2, <1>4

\* A call of unsubscribe that is over returns to the one who waits.
LEMMA UnsubscribedGStep ==
  ASSUME GInv, NEW c \in Consumers, Unsubscribed(c) \/ UnsubscribeTimeout(c)
  PROVE  GInv'
  <1> USE DEF GInv
  <1>1. /\ UNCHANGED <<connected, since, unsubscribing, target, caller, returned,
                       cancelled, active, at, called>>
        /\ StopsWaiting(c) /\ Await(waiting[c], Nothing) /\ c \in DOMAIN waiting
        /\ Remove(c) \/ UNCHANGED subscriptions
    BY DEF Unsubscribed, UnsubscribeTimeout, subVars, pubVars
  <1>2. Messages' = Messages /\ Deliveries' = Deliveries /\ \A e : To(e)' = To(e)
    BY <1>1 DEF Messages, Deliveries, To
  <1>3. /\ waitsFor' \in [Deliveries -> Messages \cup Consumers \cup {Nothing}]
        /\ \A e \in Deliveries : waitsFor'[e] = IF e = waiting[c] THEN Nothing ELSE waitsFor[e]
    BY <1>1, AwaitFacts
  <1>4. /\ DOMAIN waiting' = DOMAIN waiting \ {c} /\ \A d \in DOMAIN waiting' : waiting'[d] = waiting[d]
    BY <1>1 DEF StopsWaiting
  <1>5. Range(waiting') \subseteq Range(waiting)
    BY <1>4 DEF Range
  <1>6. subscriptions' \in Seq(Consumers) /\ Range(subscriptions') \subseteq Range(subscriptions)
    BY <1>1, RemoveFacts DEF TypeOK
  <1>7. TypeOK'
    BY <1>1, <1>2, <1>3, <1>4, <1>5, <1>6 DEF TypeOK
  <1>8. CallerInv' /\ DoneInv' /\ ReachedInv'
    BY <1>1, <1>2, <1>6 DEF CallerInv, DoneInv, ReachedInv
  <1>9. WaitsInv'
    <2> SUFFICES ASSUME NEW d \in Deliveries, waitsFor'[d] # Nothing
                 PROVE  /\ at[d] = "running"
                        /\ waitsFor'[d] \in Consumers =>
                              /\ waitsFor'[d] \in DOMAIN waiting' /\ waiting'[waitsFor'[d]] = d
                              /\ d[1] \notin cancelled
                        /\ waitsFor'[d] \in Messages =>
                              /\ caller[waitsFor'[d]] = d /\ waitsFor'[d] \notin returned
                              /\ d[1] \in cancelled => waitsFor'[d] \in cancelled
      BY <1>1, <1>2 DEF WaitsInv
    <2>1. d # waiting[c] /\ waitsFor'[d] = waitsFor[d]
      BY <1>3
    <2>2. waitsFor[d] \in Consumers => waitsFor[d] # c
      BY <2>1 DEF WaitsInv
    <2> QED
      BY <1>4, <2>1, <2>2 DEF WaitsInv
  <1> QED
    BY <1>7, <1>8, <1>9

LEMMA UnsubscribeGStep ==
  ASSUME GInv, NEW c \in Consumers, NEW who \in Acting \cup {Outside}, Unsubscribe(c, who)
  PROVE  GInv'
  <1> USE DEF GInv
  <1>1. /\ UNCHANGED <<connected, since, target, caller, returned, cancelled, active, at, called>>
        /\ unsubscribing' = unsubscribing \cup {c} /\ c \notin DOMAIN waiting
    BY DEF Unsubscribe, pubVars
  <1>2. Messages' = Messages /\ Deliveries' = Deliveries /\ \A e : To(e)' = To(e)
    BY <1>1 DEF Messages, Deliveries, To
  <1>3. CASE active[c] = {}
    <2>1. Remove(c) /\ UNCHANGED <<waiting, waitsFor>>
      BY <1>3 DEF Unsubscribe
    <2>2. subscriptions' \in Seq(Consumers) /\ Range(subscriptions') \subseteq Range(subscriptions)
      BY <2>1, RemoveFacts
    <2>3. TypeOK'
      BY <1>1, <1>2, <2>1, <2>2 DEF TypeOK
    <2>4. CallerInv' /\ DoneInv' /\ ReachedInv' /\ WaitsInv'
      BY <1>1, <1>2, <2>1, <2>2 DEF CallerInv, DoneInv, ReachedInv, WaitsInv
    <2> QED
      BY <2>3, <2>4
  <1>4. CASE active[c] # {}
    <2>1. /\ waiting' = [d \in DOMAIN waiting \cup {c} |-> IF d = c THEN who ELSE waiting[d]]
          /\ Await(who, c) /\ UNCHANGED subscriptions
      BY <1>4 DEF Unsubscribe
    <2>2. /\ DOMAIN waiting' = DOMAIN waiting \cup {c} /\ waiting'[c] = who
          /\ \A d \in DOMAIN waiting : waiting'[d] = waiting[d]
      BY <1>1, <2>1
    <2>3. who \in Deliveries \cup {Outside}
      BY DEF Acting
    <2>4. /\ waitsFor' \in [Deliveries -> Messages \cup Consumers \cup {Nothing}]
          /\ \A e \in Deliveries : waitsFor'[e] = IF e = who THEN c ELSE waitsFor[e]
      BY <1>1, <2>1, AwaitFacts
    <2>5. Range(waiting') \subseteq Deliveries \cup {Outside}
      <3>1. \A d \in DOMAIN waiting : waiting[d] \in Deliveries \cup {Outside}
        BY DEF Range, TypeOK
      <3>2. \A d \in DOMAIN waiting' : waiting'[d] \in Deliveries \cup {Outside}
        BY <2>2, <2>3, <3>1
      <3> QED
        BY <3>2 DEF Range
    <2>6. TypeOK'
      <3>1. DOMAIN waiting' \subseteq unsubscribing' /\ unsubscribing' \subseteq Consumers
        BY <1>1, <2>2 DEF TypeOK
      <3>2. UNCHANGED <<connected, subscriptions, since, target, caller, returned, cancelled,
                        active, at, called>>
        BY <1>1, <2>1
      <3> QED
        BY <1>2, <2>4, <2>5, <3>1, <3>2 DEF TypeOK
    <2>7. CallerInv' /\ DoneInv' /\ ReachedInv'
      BY <1>1, <1>2, <2>1 DEF CallerInv, DoneInv, ReachedInv
    <2>8. WaitsInv'
      <3> SUFFICES ASSUME NEW d \in Deliveries, waitsFor'[d] # Nothing
                   PROVE  /\ at[d] = "running"
                          /\ waitsFor'[d] \in Consumers =>
                                /\ waitsFor'[d] \in DOMAIN waiting' /\ waiting'[waitsFor'[d]] = d
                                /\ d[1] \notin cancelled
                          /\ waitsFor'[d] \in Messages =>
                                /\ caller[waitsFor'[d]] = d /\ waitsFor'[d] \notin returned
                                /\ d[1] \in cancelled => waitsFor'[d] \in cancelled
        BY <1>1, <1>2 DEF WaitsInv
      <3>1. CASE d = who
        <4>1. at[d] = "running" /\ d[1] \notin cancelled /\ waitsFor'[d] = c
          BY <2>4, <3>1, DeliveryFacts DEF Acting
        <4>2. c \notin Messages
          BY DeliveryFacts, Kinds
        <4> QED
          BY <2>2, <3>1, <4>1, <4>2
      <3>2. CASE d # who
        BY <1>1, <2>2, <2>4, <3>2 DEF WaitsInv
      <3> QED
        BY <3>1, <3>2
    <2> QED
      BY <2>6, <2>7, <2>8
  <1> QED
    BY <1>3, <1>4

\* The messages that are cancelled with one hold it and what their handlers wait for.
LEMMA NestedFacts ==
  ASSUME GInv, NEW m \in Messages
  PROVE  /\ Nested(m) \subseteq Messages /\ m \in Nested(m)
         /\ \A d \in Deliveries : waitsFor[d] \in Messages /\ d[1] \in Nested(m)
                                    => waitsFor[d] \in Nested(m)
  <1> USE DEF GInv
  <1> DEFINE open == {n \in Messages : n \notin returned /\ caller[n] # Outside}
             Closed(S) == m \in S /\ \A n \in open : caller[n][1] \in S => n \in S
  <1>1. Nested(m) = {n \in Messages : \A S \in SUBSET Messages : Closed(S) => n \in S}
    BY DEF Nested
  <1>2. ASSUME NEW d \in Deliveries, waitsFor[d] \in Messages, d[1] \in Nested(m)
        PROVE  waitsFor[d] \in Nested(m)
    <2>1. waitsFor[d] # Nothing
      BY <1>2, DeliveryFacts, Kinds
    <2>2. /\ caller[waitsFor[d]] = d /\ waitsFor[d] \notin returned /\ d # Outside
      BY <1>2, <2>1, DeliveryFacts DEF WaitsInv
    <2>3. waitsFor[d] \in open /\ caller[waitsFor[d]][1] = d[1]
      BY <1>2, <2>2
    <2> HIDE DEF open
    <2> QED
      BY <1>1, <1>2, <2>3
  <1> QED
    BY <1>1, <1>2

LEMMA CancelGStep ==
  ASSUME GInv, NEW m \in Messages, Cancel(m)
  PROVE  GInv'
  <1> USE DEF GInv
  <1> DEFINE nested == Nested(m)
  <1>1. /\ nested \subseteq Messages
        /\ \A d \in Deliveries : waitsFor[d] \in Messages /\ d[1] \in nested
                                   => waitsFor[d] \in nested
    BY NestedFacts
  <1>2. /\ UNCHANGED <<connected, subscriptions, since, unsubscribing, target, caller, returned,
                       active, at, called>>
        /\ cancelled' = cancelled \cup nested
        /\ waiting' = [c \in {c \in DOMAIN waiting :
                                waiting[c] = Outside \/ waiting[c][1] \notin nested} |-> waiting[c]]
        /\ waitsFor' = [d \in Deliveries |->
                          IF d[1] \in nested /\ waitsFor[d] \in Consumers THEN Nothing
                          ELSE waitsFor[d]]
    BY DEF Cancel, subVars
  <1> HIDE DEF nested
  <1>3. Messages' = Messages /\ Deliveries' = Deliveries /\ \A e : To(e)' = To(e)
    BY <1>2 DEF Messages, Deliveries, To
  <1>4. /\ DOMAIN waiting' \subseteq DOMAIN waiting /\ Range(waiting') \subseteq Range(waiting)
    BY <1>2 DEF Range
  <1>5. waitsFor' \in [Deliveries -> Messages \cup Consumers \cup {Nothing}]
    BY <1>2 DEF TypeOK
  <1>6. TypeOK'
    <2>1. cancelled' \subseteq Messages
      BY <1>1, <1>2 DEF TypeOK
    <2>2. DOMAIN waiting' \subseteq unsubscribing /\ Range(waiting') \subseteq Deliveries \cup {Outside}
      BY <1>4 DEF TypeOK
    <2>3. UNCHANGED <<connected, subscriptions, since, unsubscribing, target, caller, returned,
                      active, at, called>>
      BY <1>2
    <2> QED
      BY <1>3, <1>5, <2>1, <2>2, <2>3 DEF TypeOK
  <1>7. CallerInv' /\ DoneInv' /\ ReachedInv'
    BY <1>2, <1>3 DEF CallerInv, DoneInv, ReachedInv
  <1>8. WaitsInv'
    <2> SUFFICES ASSUME NEW d \in Deliveries, waitsFor'[d] # Nothing
                 PROVE  /\ at[d] = "running"
                        /\ waitsFor'[d] \in Consumers =>
                              /\ waitsFor'[d] \in DOMAIN waiting' /\ waiting'[waitsFor'[d]] = d
                              /\ d[1] \notin cancelled'
                        /\ waitsFor'[d] \in Messages =>
                              /\ caller[waitsFor'[d]] = d /\ waitsFor'[d] \notin returned
                              /\ d[1] \in cancelled' => waitsFor'[d] \in cancelled'
      BY <1>2, <1>3 DEF WaitsInv
    <2>1. /\ waitsFor'[d] = waitsFor[d]
          /\ waitsFor[d] \in Consumers => d[1] \notin nested
      BY <1>2
    <2>2. waitsFor[d] \in Consumers => /\ waitsFor[d] \in DOMAIN waiting'
                                       /\ waiting'[waitsFor[d]] = d
                                       /\ d[1] \notin cancelled'
      BY <1>2, <2>1 DEF WaitsInv
    <2>3. waitsFor[d] \in Messages => /\ caller[waitsFor[d]] = d /\ waitsFor[d] \notin returned
                                      /\ d[1] \in cancelled' => waitsFor[d] \in cancelled'
      BY <1>1, <1>2, <2>1 DEF WaitsInv
    <2> QED
      BY <2>1, <2>2, <2>3 DEF WaitsInv
  <1> QED
    BY <1>6, <1>7, <1>8

LEMMA NextGInv == GInv /\ [Next]_vars => GInv'
  <1> SUFFICES ASSUME GInv, [Next]_vars PROVE GInv'
    OBVIOUS
  <1>1. CASE UNCHANGED vars
    <2>1. /\ UNCHANGED <<connected, subscriptions, since, unsubscribing, waiting, target, caller,
                         cancelled, returned, active, at, waitsFor, called>>
          /\ Messages' = Messages /\ Deliveries' = Deliveries /\ \A e : To(e)' = To(e)
      BY <1>1 DEF vars, subVars, waitVars, pubVars, taskVars, Messages, Deliveries, To
    <2>2. TypeOK' /\ CallerInv'
      BY <2>1 DEF GInv, TypeOK, CallerInv
    <2>3. DoneInv' /\ ReachedInv' /\ WaitsInv'
      BY <2>1 DEF GInv, DoneInv, ReachedInv, WaitsInv
    <2> QED
      BY <2>2, <2>3 DEF GInv
  <1> QED
    BY <1>1, SubGStep, PublishGStep, TaskGStep, ReturnGStep, UnsubscribedGStep, UnsubscribeGStep,
       CancelGStep DEF Next

LEMMA GInvariance == Spec => []GInv
  BY InitGInv, NextGInv, PTL DEF Spec

(* The adapter's tables and its tasks fit together in every configuration.   *)
THEOREM TypeCorrect == Spec => []TypeOK
  BY GInvariance, PTL DEF GInv

(* A handler that waits for publish or unsubscribe is the one that call      *)
(* returns to, everything it waits for is cancelled with it, and a publish   *)
(* that returned left no task behind.                                        *)
THEOREM Invariance == Spec => []IInv
  <1>1. GInv => IInv
    BY DEF GInv, WaitsInv, DoneInv, IInv
  <1> QED
    BY <1>1, GInvariance, PTL

(* When publish has returned, every channel that was subscribed before and is *)
(* not unsubscribing has handled the message.                                 *)
THEOREM Synchronous == Spec => []SynchronousDelivery
  <1>1. GInv => SynchronousDelivery
    <2> SUFFICES ASSUME GInv, NEW m \in returned \ cancelled,
                        NEW c \in Range(subscriptions) \ unsubscribing, m > since[c]
                 PROVE  <<m, c>> \in called
      BY DEF SynchronousDelivery
    <2>1. m \in Messages
      BY DEF GInv, TypeOK
    <2>2. c \in Range(target[m])
      BY <2>1 DEF GInv, ReachedInv
    <2>3. PICK i \in DOMAIN target[m] : c = target[m][i]
      BY <2>2 DEF Range
    <2>4. /\ <<m, i>> \in Deliveries /\ To(<<m, i>>) = c /\ <<m, i>>[1] = m
          /\ at[<<m, i>>] = "done"
      BY <2>1, <2>3, DeliveryFacts DEF GInv, DoneInv
    <2> DEFINE d == <<m, i>>
    <2>5. d \in Deliveries /\ To(d) = c /\ d[1] = m /\ at[d] = "done"
      BY <2>4
    <2> HIDE DEF d
    <2> QED
      BY <2>5 DEF GInv, ReachedInv
  <1> QED
    BY <1>1, GInvariance, PTL

-----------------------------------------------------------------------------
(* The active messages *)

LEMMA OnceStep ==
  ASSUME MaxSubscriptions <= 1, GInv, OnceInv, [Next]_vars
  PROVE  OnceInv'
  <1> USE DEF GInv
  <1>1. CASE \E who \in Acting \cup {Outside} : Publish(who)
    <2>1. PICK who \in Acting \cup {Outside} : Publish(who)
      BY <1>1
    <2>2. PICK m, to : Published(who, m, to)
      BY <2>1, PublishFacts
    <2> QED
      BY <2>2 DEF Published, OnceInv
  <1>2. CASE \E c \in Consumers : Subscribe(c)
    <2>1. PICK c \in Consumers : Subscribe(c)
      BY <1>2
    <2> DEFINE same == Keep(subscriptions, {c})
    <2>2. same \in Seq(Consumers) /\ Range(same) = Range(subscriptions) \cap {c}
      BY KeepFacts DEF TypeOK
    <2>3. Len(same) < MaxSubscriptions /\ subscriptions' = Append(subscriptions, c)
          /\ UNCHANGED target
      BY <2>1 DEF Subscribe, pubVars
    <2> HIDE DEF same
    <2>4. same = <<>>
      <3>1. Len(same) \in Nat
        BY <2>2, LenProperties
      <3>2. Len(same) = 0
        BY <2>3, <3>1, Kinds
      <3> QED
        BY <2>2, <3>2, EmptySeq
    <2>5. c \notin Range(subscriptions)
      BY <2>2, <2>4, EmptyListFacts
    <2>6. IsInjective(subscriptions')
      BY <2>3, <2>5, AppendFacts DEF TypeOK, OnceInv
    <2> QED
      BY <2>3, <2>6 DEF OnceInv, Messages
  <1>3. CASE \E c \in Consumers : Remove(c) /\ UNCHANGED target
    BY <1>3, RemoveFacts DEF OnceInv, Messages
  <1>4. CASE UNCHANGED target /\ (subscriptions' = subscriptions \/ subscriptions' = <<>>)
    BY <1>4, EmptyListFacts DEF OnceInv, Messages
  <1>5. \/ \E who \in Acting \cup {Outside} : Publish(who)
        \/ \E c \in Consumers : Subscribe(c)
        \/ \E c \in Consumers : Remove(c) /\ UNCHANGED target
        \/ UNCHANGED target /\ (subscriptions' = subscriptions \/ subscriptions' = <<>>)
    BY DEF Next, Connect, Disconnect, Unsubscribed, UnsubscribeTimeout, Unsubscribe,
           Begin, End, Skip, Return, Cancel, vars, subVars, pubVars
  <1> QED
    BY <1>1, <1>2, <1>3, <1>4, <1>5

\* The two halves of ActiveTracksHandlers, for one step that is no publish.
LEMMA ActiveFrame ==
  ASSUME GInv, UNCHANGED <<target, at, active>>
  PROVE  /\ ActiveIsRunning => ActiveIsRunning'
         /\ RunningIsActive => RunningIsActive'
  <1>1. Deliveries' = Deliveries /\ \A d : To(d)' = To(d)
    BY DEF Deliveries, To
  <1> QED
    BY <1>1 DEF ActiveIsRunning, RunningIsActive, Running

\* What a task does to the active messages of its channel.
LEMMA TaskActive ==
  ASSUME TypeOK, NEW d \in Deliveries, Begin(d) \/ End(d) \/ Skip(d)
  PROVE  /\ \A e \in Deliveries \ {d} : at'[e] = at[e]
         /\ \A c \in Consumers \ {To(d)} : active'[c] = active[c]
         /\ \/ /\ at[d] = "ready" /\ at'[d] = "running"
               /\ active'[To(d)] = active[To(d)] \cup {d[1]}
            \/ /\ at[d] = "running" /\ at'[d] = "done"
               /\ active'[To(d)] = active[To(d)] \ {d[1]}
            \/ /\ at[d] = "ready" /\ at'[d] = "done"
               /\ active'[To(d)] = active[To(d)]
  <1>1. To(d) \in Consumers
    BY DeliveryFacts
  <1>2. CASE Begin(d)
    BY <1>1, <1>2 DEF Begin, TypeOK
  <1>3. CASE End(d)
    BY <1>1, <1>3 DEF End, TypeOK
  <1>4. CASE Skip(d)
    BY <1>4 DEF Skip, TypeOK
  <1> QED
    BY <1>2, <1>3, <1>4

LEMMA ActiveStep ==
  ASSUME GInv, ActiveIsRunning, [Next]_vars
  PROVE  ActiveIsRunning'
  <1> USE DEF GInv
  <1>1. CASE \E who \in Acting \cup {Outside} : Publish(who)
    <2>1. PICK who \in Acting \cup {Outside} : Publish(who)
      BY <1>1
    <2>2. /\ \A n \in Messages : target'[n] = target[n]
          /\ Deliveries \subseteq Deliveries' /\ \A d \in Deliveries : at'[d] = at[d]
          /\ UNCHANGED active
      <3>1. PICK m, to : Published(who, m, to)
        BY <2>1, PublishFacts
      <3> QED
        BY <3>1 DEF Published
    <2>3. \A d \in Deliveries : To(d)' = To(d)
      BY <2>2, DeliveryFacts DEF To
    <2>4. \A c \in Consumers : \A d \in Running(c) : d \in Running(c)'
      BY <2>2, <2>3 DEF Running
    <2> QED
      BY <2>2, <2>4 DEF ActiveIsRunning
  <1>2. CASE \E d \in Deliveries : Begin(d) \/ End(d) \/ Skip(d)
    <2>1. PICK d \in Deliveries : Begin(d) \/ End(d) \/ Skip(d)
      BY <1>2
    <2>2. Deliveries' = Deliveries /\ \A e : To(e)' = To(e)
      BY <2>1 DEF Begin, End, Skip, pubVars, Deliveries, To, TypeOK
    <2>3. /\ \A e \in Deliveries \ {d} : at'[e] = at[e]
          /\ \A c \in Consumers \ {To(d)} : active'[c] = active[c]
          /\ \/ at'[d] = "running" /\ active'[To(d)] = active[To(d)] \cup {d[1]}
             \/ at[d] = "running" /\ active'[To(d)] = active[To(d)] \ {d[1]}
             \/ at[d] = "ready" /\ active'[To(d)] = active[To(d)]
      BY <2>1, TaskActive
    <2> SUFFICES ASSUME NEW c \in Consumers, NEW m \in active'[c]
                 PROVE  \E e \in Deliveries : at'[e] = "running" /\ To(e) = c /\ e[1] = m
      BY <2>2 DEF ActiveIsRunning, Running
    <2>4. CASE m \in active[c]
      <3>1. PICK e \in Deliveries : at[e] = "running" /\ To(e) = c /\ e[1] = m
        BY <2>4 DEF ActiveIsRunning, Running
      <3>2. CASE e = d
        BY <2>3, <3>1, <3>2
      <3>3. CASE e # d
        BY <2>3, <3>1, <3>3
      <3> QED
        BY <3>2, <3>3
    <2>5. CASE m \notin active[c]
      BY <2>3, <2>5
    <2> QED
      BY <2>4, <2>5
  <1>3. CASE UNCHANGED <<target, at, active>>
    BY <1>3, ActiveFrame
  <1>4. \/ \E who \in Acting \cup {Outside} : Publish(who)
        \/ \E d \in Deliveries : Begin(d) \/ End(d) \/ Skip(d)
        \/ UNCHANGED <<target, at, active>>
    BY DEF Next, Connect, Disconnect, Subscribe, Unsubscribed, UnsubscribeTimeout, Unsubscribe,
           Return, Cancel, vars, pubVars, taskVars
  <1> QED
    BY <1>1, <1>2, <1>3, <1>4

LEMMA RunningStep ==
  ASSUME GInv, OnceInv, RunningIsActive, [Next]_vars
  PROVE  RunningIsActive'
  <1> USE DEF GInv
  <1>1. CASE \E who \in Acting \cup {Outside} : Publish(who)
    <2>1. PICK who \in Acting \cup {Outside} : Publish(who)
      BY <1>1
    <2>2. /\ \A n \in Messages : target'[n] = target[n]
          /\ \A d \in Deliveries : at'[d] = at[d]
          /\ \A d \in Deliveries' \ Deliveries : at'[d] = "ready"
          /\ UNCHANGED active
      <3>1. PICK m, to : Published(who, m, to)
        BY <2>1, PublishFacts
      <3> QED
        BY <3>1 DEF Published
    <2>3. \A d \in Deliveries : To(d)' = To(d)
      BY <2>2, DeliveryFacts DEF To
    <2> QED
      BY <2>2, <2>3 DEF RunningIsActive
  <1>2. CASE \E d \in Deliveries : Begin(d) \/ End(d) \/ Skip(d)
    <2>1. PICK d \in Deliveries : Begin(d) \/ End(d) \/ Skip(d)
      BY <1>2
    <2>2. Deliveries' = Deliveries /\ \A e : To(e)' = To(e)
      BY <2>1 DEF Begin, End, Skip, pubVars, Deliveries, To, TypeOK
    <2>3. /\ \A e \in Deliveries \ {d} : at'[e] = at[e]
          /\ \A c \in Consumers \ {To(d)} : active'[c] = active[c]
          /\ \/ at'[d] = "running" /\ active'[To(d)] = active[To(d)] \cup {d[1]}
             \/ at'[d] = "done" /\ active'[To(d)] = active[To(d)] \ {d[1]}
             \/ at'[d] = "done" /\ active'[To(d)] = active[To(d)]
      BY <2>1, TaskActive
    <2>4. \A e \in Deliveries \ {d} : To(e) = To(d) => e[1] # d[1]
      <3> SUFFICES ASSUME NEW e \in Deliveries, To(e) = To(d), e[1] = d[1] PROVE e = d
        OBVIOUS
      <3>1. /\ e = <<e[1], e[2]>> /\ d = <<d[1], d[2]>> /\ d[1] \in Messages
            /\ e[2] \in DOMAIN target[d[1]] /\ d[2] \in DOMAIN target[d[1]]
        BY DeliveryFacts
      <3>2. target[d[1]][e[2]] = target[d[1]][d[2]]
        BY DEF To
      <3>3. e[2] = d[2]
        BY <3>1, <3>2 DEF OnceInv, IsInjective
      <3> QED
        BY <3>1, <3>3
    <2> SUFFICES ASSUME NEW e \in Deliveries, at'[e] = "running" PROVE e[1] \in active'[To(e)]
      BY <2>2 DEF RunningIsActive
    <2>5. CASE e = d
      BY <2>3, <2>5
    <2>6. CASE e # d
      <3>1. e[1] \in active[To(e)] /\ To(e) \in Consumers
        BY <2>3, <2>6, DeliveryFacts DEF RunningIsActive
      <3> QED
        BY <2>3, <2>4, <2>6, <3>1
    <2> QED
      BY <2>5, <2>6
  <1>3. CASE UNCHANGED <<target, at, active>>
    BY <1>3, ActiveFrame
  <1>4. \/ \E who \in Acting \cup {Outside} : Publish(who)
        \/ \E d \in Deliveries : Begin(d) \/ End(d) \/ Skip(d)
        \/ UNCHANGED <<target, at, active>>
    BY DEF Next, Connect, Disconnect, Subscribe, Unsubscribed, UnsubscribeTimeout, Unsubscribe,
           Return, Cancel, vars, pubVars, taskVars
  <1> QED
    BY <1>1, <1>2, <1>3, <1>4

LEMMA InitActive == Init => ActiveIsRunning /\ OnceInv /\ RunningIsActive
  <1>1. Init => Deliveries = {} /\ Messages = {}
    BY EmptyListFacts DEF Init, Deliveries, Messages
  <1> QED
    BY <1>1, EmptyListFacts DEF Init, ActiveIsRunning, OnceInv, RunningIsActive

(* unsubscribe never waits for a message that no handler is at work on, also *)
(* when a channel is subscribed more than once.                              *)
THEOREM ActiveHandled == Spec => []ActiveIsRunning
  BY InitActive, ActiveStep, InitGInv, NextGInv, PTL DEF Spec

LEMMA OnceInvariance ==
  ASSUME MaxSubscriptions <= 1
  PROVE  Spec => [](GInv /\ ActiveIsRunning /\ OnceInv /\ RunningIsActive)
  <1> DEFINE I == GInv /\ ActiveIsRunning /\ OnceInv /\ RunningIsActive
  <1>1. I /\ [Next]_vars => I'
    BY NextGInv, ActiveStep, OnceStep, RunningStep
  <1>2. Init => I
    BY InitGInv, InitActive
  <1> QED
    BY <1>1, <1>2, PTL DEF Spec

(* The active messages of a channel are those its handlers are at work on,   *)
(* whether they return, raise or are cancelled.                              *)
THEOREM ActiveTracked ==
  ASSUME MaxSubscriptions <= 1
  PROVE  Spec => []ActiveTracksHandlers
  <1>1. GInv /\ ActiveIsRunning /\ RunningIsActive => ActiveTracksHandlers
    BY DEF ActiveIsRunning, RunningIsActive, ActiveTracksHandlers, Running
  <1> QED
    BY <1>1, OnceInvariance, PTL

(* unsubscribe removes a channel only while none of its handlers runs.       *)
THEOREM Removed ==
  ASSUME MaxSubscriptions <= 1
  PROVE  Spec => RemovedWhenQuiet
  <1> DEFINE A == \A c \in Range(subscriptions) \ Range(subscriptions') :
                     connected' => Running(c) = {}
  <1>1. ASSUME GInv, RunningIsActive, [Next]_vars PROVE [A]_vars
    <2> SUFFICES ASSUME Next, NEW c \in Range(subscriptions) \ Range(subscriptions'), connected'
                 PROVE  Running(c) = {}
      BY <1>1
    <2>1. TypeOK
      BY <1>1 DEF GInv
    <2>2. \/ \E d \in Consumers : Remove(d) /\ active[d] = {}
          \/ \E d \in Consumers : subscriptions' = Append(subscriptions, d)
          \/ subscriptions' = subscriptions
      BY DEF Next, Connect, Disconnect, Subscribe, Unsubscribed, UnsubscribeTimeout, Unsubscribe,
             Publish, Begin, End, Skip, Return, Cancel, subVars
    <2>3. active[c] = {}
      <3>1. CASE \E d \in Consumers : Remove(d) /\ active[d] = {}
        BY <2>1, <3>1, RemoveFacts
      <3>2. CASE \E d \in Consumers : subscriptions' = Append(subscriptions, d)
        <4>1. PICK d \in Consumers : subscriptions' = Append(subscriptions, d)
          BY <3>2
        <4>2. Range(subscriptions) \subseteq Range(subscriptions')
          BY <2>1, <4>1, AppendFacts DEF TypeOK
        <4> QED
          BY <4>2
      <3> QED
        BY <2>2, <3>1, <3>2
    <2> QED
      BY <1>1, <2>3 DEF RunningIsActive, Running
  <1> QED
    BY <1>1, OnceInvariance, PTL DEF RemovedWhenQuiet, Spec
=============================================================================
