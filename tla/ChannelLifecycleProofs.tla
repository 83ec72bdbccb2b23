----------------------- MODULE ChannelLifecycleProofs -----------------------
(***************************************************************************)
(* Safety of ChannelLifecycle for every number of services and channels,   *)
(* every refused definition and every number of starts: type correctness   *)
(* in every configuration; that every loop can be found and that nothing   *)
(* is left of a service or a connection that is gone, when no service      *)
(* stops in the middle of a hook of the broker; and that a running broker  *)
(* consumes every channel, when besides no service is created there.       *)
(***************************************************************************)
EXTENDS ChannelLifecycle, ListProofs

LEMMA OwnFacts ==
  /\ IsFiniteSet(Channels)
  /\ MaxStarts \in Nat /\ MaxFaults \in Nat
  /\ StopWhileBusy \in BOOLEAN /\ CreateWhileStarting \in BOOLEAN
  /\ \A s \in Services : /\ ChannelsOf[s] \in Seq(Channels) /\ IsInjective(ChannelsOf[s])
                         /\ Own(s) = Range(ChannelsOf[s]) /\ Own(s) \subseteq Channels
  /\ \A s, t \in Services : \A c : c \in Own(s) /\ c \in Own(t) => s = t
  <1>1. \A s \in Services : ChannelsOf[s] \in Seq(Channels)
    BY LifecycleAssumption
  <1>2. \A s \in Services : Range(ChannelsOf[s]) \subseteq Channels
    BY <1>1, RangeOfSeq
  <1> QED
    BY <1>2, LifecycleAssumption DEF Own

-----------------------------------------------------------------------------
(* What holds in every configuration. *)
\* What each list and each program counter says, in every configuration.
TypeInv ==
    /\ broker \in {"idle", "connecting", "joining", "running", "cancelling",
                   "closing", "failed"}
    /\ service \in [Services -> {"absent", "joining", "present", "waiting",
                                 "gathering", "gone", "failed"}]
    /\ todo \in Seq(Channels) /\ registry \in Seq(Channels)
    /\ work \in [Services -> Seq(Channels)]
    /\ started \in BOOLEAN /\ connected \in BOOLEAN
    /\ joined \in [Channels -> Nat]
    /\ loops \subseteq Channels \X (Nat \ {0})
    /\ DOMAIN table \subseteq Channels
    /\ unsubscribing \subseteq Channels
    /\ visited \subseteq Channels
    /\ size \in 0 .. Cardinality(Channels)
    /\ starts \in 0 .. MaxStarts
    /\ faults \in 0 .. MaxFaults

\* A service works on channels of its own, each once.
ServiceList(s) ==
    /\ IsInjective(work[s]) /\ Range(work[s]) \subseteq Own(s)
    /\ service[s] = "absent" => Own(s) \cap Range(registry) = {}
    /\ service[s] = "joining" => Range(Tail(work[s])) \cap Range(registry) = {}
    /\ service[s] \in {"joining", "waiting", "gathering"} <=> work[s] # <<>>

\* No list has a channel twice.
ListInv ==
    /\ IsInjective(todo) /\ IsInjective(registry)
    /\ \A s \in Services : ServiceList(s)
    /\ broker = "joining" <=> todo # <<>>

\* Subscriptions are numbered without gaps at the newest.
TableInv ==
    /\ started \/ broker = "joining" => connected
    /\ \A c \in DOMAIN table : table[c] = joined[c] /\ joined[c] # 0
    /\ \A l \in loops : l[2] <= joined[l[1]]

\* service_created has yet to subscribe c, or will not.
Pending(c) ==
    \E s \in Services : c \in Own(s) /\ \/ service[s] = "absent"
                                        \/ service[s] = "joining" /\ c \in Range(work[s])

\* broker_starting has yet to subscribe c.
Owed(c) == broker = "connecting" \/ c \in Range(todo)

\* A channel is subscribed once by its service and once by each start.
CountInv ==
    \A c \in Channels : joined[c] + (IF Owed(c) THEN 1 ELSE 0)
                          <= starts + (IF Pending(c) THEN 0 ELSE 1)

GInv == TypeInv /\ ListInv /\ TableInv /\ CountInv

LEMMA InitGInv == Init => GInv
  <1> SUFFICES ASSUME Init PROVE GInv
    OBVIOUS
  <1>1. TypeInv
    <2>1. 0 \in 0 .. Cardinality(Channels) /\ 0 \in 0 .. MaxStarts /\ 0 \in 0 .. MaxFaults
      BY OwnFacts, FS_CardinalityType
    <2>2. <<>> \in Seq(Channels) /\ DOMAIN <<>> = {}
      BY EmptySeq
    <2>3. /\ todo \in Seq(Channels) /\ registry \in Seq(Channels)
          /\ work \in [Services -> Seq(Channels)]
      BY <2>2 DEF Init
    <2>4. DOMAIN table \subseteq Channels /\ joined \in [Channels -> Nat]
      BY <2>2 DEF Init
    <2> QED
      BY <2>1, <2>3, <2>4 DEF Init, TypeInv
  <1>2. ListInv
    BY EmptyListFacts DEF Init, ListInv, ServiceList
  <1>3. TableInv
    BY DEF Init, TableInv
  <1>4. CountInv
    <2>1. ASSUME NEW c \in Channels PROVE Pending(c) /\ ~Owed(c)
      <3>1. PICK s \in Services : c \in Own(s)
        BY DEF Channels, Own
      <3> QED
        BY <3>1, EmptyListFacts DEF Init, Pending, Owed
    <2> QED
      BY <2>1 DEF Init, CountInv
  <1> QED
    BY <1>1, <1>2, <1>3, <1>4 DEF GInv

-----------------------------------------------------------------------------
(* The operators of the hooks *)

\* The definitions that are parsed are the first ones of the list.
LEMMA ParsedFacts ==
  ASSUME NEW rest \in Seq(Channels), IsInjective(rest)
  PROVE  /\ Parsed(rest) \in Seq(Channels) /\ IsInjective(Parsed(rest))
         /\ Range(Parsed(rest)) \subseteq Range(rest)
         /\ Parsed(rest) # <<>> => rest # <<>> /\ Head(Parsed(rest)) = Head(rest)
  <1> DEFINE D == {i \in DOMAIN rest : \A j \in 1 .. i : rest[j] \notin Invalid}
             k == Cardinality(D)
  <1>1. Len(rest) \in Nat /\ DOMAIN rest = 1 .. Len(rest)
    BY LenProperties
  <1>2. IsFiniteSet(1 .. Len(rest)) /\ Cardinality(1 .. Len(rest)) = Len(rest)
    BY <1>1, FS_Interval
  <1>3. D \in SUBSET (1 .. Len(rest))
    BY <1>1
  <1> HIDE DEF D
  <1>4. IsFiniteSet(D) /\ k <= Len(rest) /\ k \in Nat
    <2>1. IsFiniteSet(D) /\ Cardinality(D) <= Cardinality(1 .. Len(rest))
      BY <1>2, <1>3, FS_Subset
    <2>2. Cardinality(D) \in Nat
      BY <2>1, FS_CardinalityType
    <2> QED
      BY <1>2, <2>1, <2>2
  <1>5. k \in 0 .. Len(rest)
    BY <1>1, <1>4
  <1>6. Parsed(rest) = SubSeq(rest, 1, k)
    BY DEF Parsed, D
  <1>7. rest = <<>> => Parsed(rest) = <<>>
    <2> SUFFICES ASSUME rest = <<>> PROVE Parsed(rest) = <<>>
      OBVIOUS
    <2>1. k = 0
      BY <1>1, <1>4
    <2> QED
      BY <1>6, <2>1, SubSeqEmpty
  <1> HIDE DEF k
  <1> QED
    BY <1>5, <1>6, <1>7, PrefixFacts

\* What service_created does with the channels it has left: it is over, or will
\* subscribe the first of them, which is in the registry now.
LEMMA RegisterFacts ==
  ASSUME TypeInv, ListInv, NEW s \in Services, NEW rest \in Seq(Channels), IsInjective(rest),
         Range(rest) \subseteq Own(s), Range(rest) \cap Range(registry) = {}, Register(s, rest)
  PROVE  /\ registry' \in Seq(Channels) /\ IsInjective(registry')
         /\ Range(registry) \subseteq Range(registry')
         /\ Range(registry') \subseteq Range(registry) \cup Range(rest)
         /\ \A t \in Services \ {s} : work'[t] = work[t] /\ service'[t] = service[t]
         /\ \/ /\ service'[s] = "present" /\ work'[s] = <<>>
               /\ Range(rest) \subseteq Range(registry') /\ (started => rest = <<>>)
            \/ /\ service'[s] = "joining" /\ work'[s] = rest /\ rest # <<>>
               /\ started /\ connected
               /\ Head(rest) \in Range(registry')
               /\ Range(Tail(rest)) \cap Range(registry') = {}
            \/ service'[s] = "failed" /\ work'[s] = <<>>
         /\ work' \in [Services -> Seq(Channels)]
         /\ service' \in [Services -> {"absent", "joining", "present", "waiting",
                                       "gathering", "gone", "failed"}]
  <1> DEFINE all == Parsed(rest)
             one == IF started /\ all # <<>> THEN <<Head(all)>> ELSE all
  <1>1. /\ all \in Seq(Channels) /\ IsInjective(all) /\ Range(all) \subseteq Range(rest)
        /\ all # <<>> => rest # <<>> /\ Head(all) = Head(rest)
    BY ParsedFacts
  <1>2. /\ registry' = registry \o one
        /\ work' = [work EXCEPT ![s] = IF started /\ connected /\ one # <<>> THEN rest ELSE <<>>]
        /\ service' = [service EXCEPT ![s] =
              IF rest = <<>> \/ (~started /\ all = rest) THEN "present"
              ELSE IF started /\ connected /\ one # <<>> THEN "joining" ELSE "failed"]
    BY DEF Register
  <1> HIDE DEF all
  <1>3. rest # <<>> => Head(rest) \in Range(rest) /\ Head(rest) \in Channels
    BY HeadTailFacts
  <1>4. CASE started /\ all # <<>>
    <2>1. /\ one = <<Head(rest)>> /\ one # <<>> /\ rest # <<>>
          /\ one \in Seq(Channels) /\ Range(one) = {Head(rest)} /\ IsInjective(one)
      BY <1>1, <1>3, <1>4, SingleFacts
    <2>2. Range(one) \cap Range(registry) = {} /\ Range(one) \subseteq Range(rest)
      BY <1>3, <2>1
    <2> HIDE DEF one
    <2>3. /\ registry' \in Seq(Channels) /\ IsInjective(registry')
          /\ Range(registry') = Range(registry) \cup {Head(rest)}
      <3>1. registry' = registry \o <<Head(rest)>>
        BY <1>2, <2>1
      <3>2. registry \in Seq(Channels) /\ IsInjective(registry)
        BY DEF TypeInv, ListInv
      <3>3. registry' = registry \o one
        BY <2>1, <3>1
      <3>4. one \in Seq(Channels) /\ IsInjective(one) /\ Range(registry) \cap Range(one) = {}
        BY <2>1, <2>2
      <3>5. /\ registry' \in Seq(Channels) /\ IsInjective(registry')
            /\ Range(registry') = Range(registry) \cup Range(one)
        BY <3>2, <3>3, <3>4, ConcatFacts
      <3> QED
        BY <2>1, <3>5
    <2>4. Head(rest) \notin Range(Tail(rest)) /\ Range(Tail(rest)) \subseteq Range(rest)
      BY <2>1, HeadTailFacts
    <2>5. Range(Tail(rest)) \cap Range(registry') = {}
      BY <2>3, <2>4
    <2>6. /\ work' = [work EXCEPT ![s] = IF connected THEN rest ELSE <<>>]
          /\ service' = [service EXCEPT ![s] = IF connected THEN "joining" ELSE "failed"]
      BY <1>2, <1>4, <2>1
    <2>7. <<>> \in Seq(Channels)
      BY EmptySeq
    <2> QED
      BY <1>3, <1>4, <2>1, <2>2, <2>3, <2>5, <2>6, <2>7 DEF TypeInv
  <1>5. CASE ~(started /\ all # <<>>)
    <2>1. one = all /\ ~(started /\ connected /\ one # <<>>)
      BY <1>5
    <2>2. Range(all) \cap Range(registry) = {}
      BY <1>1
    <2>3. /\ registry' \in Seq(Channels) /\ IsInjective(registry')
          /\ Range(registry') = Range(registry) \cup Range(all)
      <3>1. registry' = registry \o all
        BY <1>2, <2>1
      <3>2. registry \in Seq(Channels) /\ IsInjective(registry)
        BY DEF TypeInv, ListInv
      <3> QED
        BY <1>1, <2>2, <3>1, <3>2, ConcatFacts
    <2> HIDE DEF one
    <2>4. /\ work' = [work EXCEPT ![s] = <<>>]
          /\ service' = [service EXCEPT ![s] =
               IF rest = <<>> \/ (~started /\ all = rest) THEN "present" ELSE "failed"]
      BY <1>2, <2>1
    <2>5. <<>> \in Seq(Channels) /\ Range(<<>>) = {}
      BY EmptySeq, EmptyListFacts
    <2> QED
      BY <1>1, <1>5, <2>3, <2>4, <2>5 DEF TypeInv
  <1> QED
    BY <1>4, <1>5

\* What service_stopping does with the channels it has left.
LEMMA LeaveFacts ==
  ASSUME TypeInv, ListInv, NEW s \in Services, NEW rest \in Seq(Channels), IsInjective(rest),
         Range(rest) \subseteq Own(s), Leave(s, rest)
  PROVE  /\ registry' \in Seq(Channels) /\ IsInjective(registry')
         /\ Range(registry') = IF rest = <<>> THEN Range(registry) \ Own(s) ELSE Range(registry)
         /\ unsubscribing' = IF rest = <<>> THEN unsubscribing ELSE unsubscribing \cup {Head(rest)}
         /\ rest # <<>> => Head(rest) \in Own(s)
         /\ \A t \in Services \ {s} : work'[t] = work[t] /\ service'[t] = service[t]
         /\ work'[s] = rest /\ service'[s] = IF rest = <<>> THEN "gone" ELSE "waiting"
         /\ work' \in [Services -> Seq(Channels)]
         /\ service' \in [Services -> {"absent", "joining", "present", "waiting",
                                       "gathering", "gone", "failed"}]
  <1>1. rest # <<>> => Head(rest) \in Own(s)
    BY HeadTailFacts
  <1>2. CASE rest = <<>>
    <2> DEFINE kept == Keep(registry, Channels \ Own(s))
    <2>1. registry \in Seq(Channels) /\ IsInjective(registry) /\ Range(registry) \subseteq Channels
      BY RangeOfSeq DEF TypeInv, ListInv
    <2>2. /\ kept \in Seq(Channels) /\ IsInjective(kept)
          /\ Range(kept) = Range(registry) \cap (Channels \ Own(s))
      BY <2>1, KeepFacts
    <2>3. registry' = kept
      BY <1>2 DEF Leave
    <2> HIDE DEF kept
    <2>4. Range(registry') = Range(registry) \ Own(s)
      BY <2>1, <2>2, <2>3
    <2> QED
      BY <1>2, <2>2, <2>3, <2>4 DEF Leave, TypeInv
  <1>3. CASE rest # <<>>
    BY <1>1, <1>3 DEF Leave, TypeInv, ListInv
  <1> QED
    BY <1>2, <1>3

LEMMA JoinFacts ==
  ASSUME TypeInv, TableInv, NEW c \in Channels, Join(c)
  PROVE  /\ joined' \in [Channels -> Nat]
         /\ joined'[c] = joined[c] + 1 /\ \A d \in Channels \ {c} : joined'[d] = joined[d]
         /\ loops' = loops \cup {<<c, joined[c] + 1>>}
         /\ loops' \subseteq Channels \X (Nat \ {0})
         /\ DOMAIN table' = DOMAIN table \cup {c}
         /\ table'[c] = joined[c] + 1 /\ \A d \in DOMAIN table \ {c} : table'[d] = table[d]
         /\ \A d \in DOMAIN table' : table'[d] = joined'[d] /\ joined'[d] # 0
         /\ \A l \in loops' : l[2] <= joined'[l[1]]
  <1>1. /\ joined' \in [Channels -> Nat]
        /\ joined'[c] = joined[c] + 1 /\ \A d \in Channels \ {c} : joined'[d] = joined[d]
        /\ joined[c] \in Nat
    BY DEF Join, TypeInv
  <1>2. /\ loops' = loops \cup {<<c, joined[c] + 1>>}
        /\ table' = [d \in DOMAIN table \cup {c} |-> IF d = c THEN joined[c] + 1 ELSE table[d]]
    BY <1>1 DEF Join
  <1>3. <<c, joined[c] + 1>> \in Channels \X (Nat \ {0})
    BY <1>1
  <1>4. loops' \subseteq Channels \X (Nat \ {0})
    BY <1>2, <1>3 DEF TypeInv
  <1>5. /\ DOMAIN table' = DOMAIN table \cup {c}
        /\ table'[c] = joined[c] + 1 /\ \A d \in DOMAIN table \ {c} : table'[d] = table[d]
    BY <1>2
  <1>6. \A d \in DOMAIN table' : table'[d] = joined'[d] /\ joined'[d] # 0
    BY <1>1, <1>5 DEF TypeInv, TableInv
  <1>7. ASSUME NEW l \in loops' PROVE l[2] <= joined'[l[1]]
    <2>1. CASE l = <<c, joined[c] + 1>>
      BY <1>1, <2>1
    <2>2. CASE l \in loops
      <3>1. l[1] \in Channels /\ l[2] \in Nat /\ l[2] <= joined[l[1]] /\ joined[l[1]] \in Nat
        BY <2>2 DEF TypeInv, TableInv
      <3>2. joined'[l[1]] = joined[l[1]] \/ joined'[l[1]] = joined[l[1]] + 1
        BY <1>1, <3>1
      <3> QED
        BY <3>1, <3>2
    <2> QED
      BY <1>2, <2>1, <2>2
  <1> QED
    BY <1>1, <1>2, <1>4, <1>5, <1>6, <1>7

\* What disconnect does with the table.
LEMMA VisitFacts ==
  ASSUME TypeInv, NEW seen \in SUBSET Channels, Visit(seen)
  PROVE  /\ loops' \subseteq loops
         /\ table' = table \/ table' = <<>>
         /\ visited' \subseteq Channels
         /\ broker' \in {"cancelling", "closing"}
  BY DEF Visit, Cancel, TypeInv

-----------------------------------------------------------------------------
(* Every step keeps the lists, the numbers and the counts. *)

\* A service that goes on leaves the lists of the others alone.
LEMMA ServiceListStep ==
  ASSUME TypeInv, ListInv, NEW s \in Services,
         \A t \in Services \ {s} : work'[t] = work[t] /\ service'[t] = service[t],
         Range(registry') \subseteq Range(registry) \cup Own(s), IsInjective(registry'),
         ServiceList(s)', UNCHANGED <<todo, broker>>
  PROVE  ListInv'
  <1>1. ASSUME NEW t \in Services \ {s} PROVE ServiceList(t)'
    <2>1. ServiceList(t) /\ work'[t] = work[t] /\ service'[t] = service[t]
      BY DEF ListInv
    <2>2. Own(t) \cap Own(s) = {}
      BY OwnFacts
    <2>3. work[t] # <<>> => Range(Tail(work[t])) \subseteq Own(t)
      <3>1. work[t] \in Seq(Channels)
        BY DEF TypeInv
      <3> QED
        BY <2>1, <3>1, HeadTailFacts DEF ServiceList
    <2> HIDE DEF Own
    <2> QED
      BY <2>1, <2>2, <2>3 DEF ServiceList
  <1> QED
    BY <1>1 DEF ListInv

LEMMA CountKept ==
  ASSUME CountInv, UNCHANGED <<joined, starts>>,
         \A c \in Channels : Owed(c)' => Owed(c),
         \A c \in Channels : Pending(c)' => Pending(c),
         TypeInv
  PROVE  CountInv'
  <1> SUFFICES ASSUME NEW c \in Channels
               PROVE  joined[c] + (IF Owed(c)' THEN 1 ELSE 0)
                        <= starts + (IF Pending(c)' THEN 0 ELSE 1)
    BY DEF CountInv
  <1>1. joined[c] \in Nat /\ starts \in Nat
    BY OwnFacts DEF TypeInv
  <1>2. joined[c] + (IF Owed(c) THEN 1 ELSE 0) <= starts + (IF Pending(c) THEN 0 ELSE 1)
    BY DEF CountInv
  <1> QED
    BY <1>1, <1>2

\* A service that goes on has no more to subscribe than before.
LEMMA PendingStep ==
  ASSUME NEW s \in Services,
         \A t \in Services \ {s} : work'[t] = work[t] /\ service'[t] = service[t],
         service'[s] # "absent",
         service'[s] = "joining" =>
            \/ service[s] = "absent"
            \/ service[s] = "joining" /\ Range(work'[s]) \subseteq Range(work[s])
  PROVE  \A c \in Channels : Pending(c)' => Pending(c)
  BY DEF Pending

LEMMA BrokerGStep == GInv /\ BrokerStep => GInv'
  <1> SUFFICES ASSUME GInv, BrokerStep PROVE GInv'
    OBVIOUS
  <1> USE DEF GInv
  <1>0. /\ MaxStarts \in Nat /\ MaxFaults \in Nat /\ starts \in Nat /\ faults \in Nat
        /\ <<>> \in Seq(Channels)
    BY OwnFacts, EmptySeq DEF TypeInv
  <1>1. CASE BrokerStarting
    <2>1. TypeInv' /\ ListInv' /\ TableInv'
      BY <1>0, <1>1 DEF BrokerStarting, TypeInv, ListInv, ServiceList, TableInv,
                        serviceVars, tableVars, closeVars
    <2>2. UNCHANGED joined /\ starts' = starts + 1 /\ \A c : Pending(c)' <=> Pending(c)
      BY <1>1 DEF BrokerStarting, Pending, serviceVars, tableVars
    <2>3. CountInv'
      <3> SUFFICES ASSUME NEW c \in Channels
                   PROVE  joined[c] + (IF Owed(c)' THEN 1 ELSE 0)
                            <= starts + 1 + (IF Pending(c)' THEN 0 ELSE 1)
        BY <2>2 DEF CountInv
      <3>1. joined[c] \in Nat
        BY DEF TypeInv
      <3>2. joined[c] + (IF Owed(c) THEN 1 ELSE 0) <= starts + (IF Pending(c) THEN 0 ELSE 1)
        BY DEF CountInv
      <3> QED
        BY <1>0, <2>2, <3>1, <3>2
    <2> QED
      BY <2>1, <2>3
  <1>2. CASE BrokerConnects
    <2>1. TypeInv' /\ ListInv' /\ TableInv'
      BY <1>0, <1>2, EmptyListFacts
         DEF BrokerConnects, Continue, TypeInv, ListInv, ServiceList, TableInv,
             serviceVars, tableVars, closeVars
    <2>2. /\ UNCHANGED <<joined, starts>> /\ \A c : Pending(c)' <=> Pending(c)
          /\ \A c : Owed(c)
      BY <1>2 DEF BrokerConnects, Pending, Owed, serviceVars, tableVars
    <2> QED
      BY <2>1, <2>2, CountKept
  <1>3. CASE BrokerJoins
    <2> DEFINE c == Head(todo)
    <2>1. todo \in Seq(Channels) /\ todo # <<>>
      BY <1>3 DEF BrokerJoins, TypeInv, ListInv
    <2>2. /\ c \in Channels /\ Tail(todo) \in Seq(Channels) /\ c \in Range(todo)
          /\ Range(Tail(todo)) \subseteq Range(todo)
          /\ IsInjective(Tail(todo)) /\ c \notin Range(Tail(todo))
      BY <2>1, HeadTailFacts DEF ListInv
    <2> HIDE DEF c
    <2>3. Join(c)
      BY <1>3 DEF BrokerJoins, c
    <2>4. /\ joined' \in [Channels -> Nat]
          /\ joined'[c] = joined[c] + 1 /\ \A d \in Channels \ {c} : joined'[d] = joined[d]
          /\ loops' \subseteq Channels \X (Nat \ {0})
          /\ DOMAIN table' = DOMAIN table \cup {c}
          /\ \A d \in DOMAIN table' : table'[d] = joined'[d] /\ joined'[d] # 0
          /\ \A l \in loops' : l[2] <= joined'[l[1]]
      BY <2>2, <2>3, JoinFacts
    <2>5. /\ todo' = Tail(todo) /\ broker' = (IF Tail(todo) = <<>> THEN "running" ELSE "joining")
          /\ started' = (Tail(todo) = <<>>) /\ connected
          /\ UNCHANGED <<starts, service, work, registry, connected, unsubscribing,
                         visited, size, faults>>
      BY <1>3 DEF BrokerJoins, Continue, serviceVars, closeVars, TableInv
    <2>6. TypeInv'
      BY <2>2, <2>4, <2>5 DEF TypeInv
    <2>7. ListInv'
      BY <2>2, <2>5 DEF ListInv, ServiceList
    <2>8. TableInv'
      BY <2>4, <2>5 DEF TableInv
    <2>9. CountInv'
      <3> SUFFICES ASSUME NEW d \in Channels
                   PROVE  joined'[d] + (IF Owed(d)' THEN 1 ELSE 0)
                            <= starts' + (IF Pending(d)' THEN 0 ELSE 1)
        BY DEF CountInv
      <3>1. Pending(d)' <=> Pending(d)
        BY <2>5 DEF Pending
      <3>2. /\ Owed(d)' => Owed(d) /\ d # c
            /\ d = c => Owed(d)
        BY <2>2, <2>5 DEF Owed
      <3>3. joined[d] \in Nat
        BY DEF TypeInv
      <3>4. joined[d] + (IF Owed(d) THEN 1 ELSE 0) <= starts + (IF Pending(d) THEN 0 ELSE 1)
        BY DEF CountInv
      <3>5. CASE d = c
        BY <1>0, <2>4, <2>5, <3>1, <3>2, <3>3, <3>4, <3>5
      <3>6. CASE d # c
        BY <1>0, <2>4, <2>5, <3>1, <3>2, <3>3, <3>4, <3>6
      <3> QED
        BY <3>5, <3>6
    <2> QED
      BY <2>6, <2>7, <2>8, <2>9
  <1>4. CASE BrokerJoinFails
    <2>1. TypeInv' /\ ListInv' /\ TableInv'
      BY <1>0, <1>4, EmptyListFacts
         DEF BrokerJoinFails, Fault, TypeInv, ListInv, ServiceList, TableInv,
             serviceVars, tableVars, closeVars
    <2>2. /\ UNCHANGED <<joined, starts>> /\ \A c : Pending(c)' <=> Pending(c)
          /\ \A c : ~Owed(c)'
      BY <1>4, EmptyListFacts DEF BrokerJoinFails, Pending, Owed, serviceVars, tableVars
    <2> QED
      BY <2>1, <2>2, CountKept
  <1>5. CASE BrokerStopped \/ BrokerGathered
    <2>1. /\ UNCHANGED <<todo, starts, service, work, registry, started, connected, joined,
                         unsubscribing, faults>>
          /\ broker \notin {"connecting", "joining"}
      BY <1>5 DEF BrokerStopped, BrokerGathered, serviceVars
    <2>2. /\ loops' \subseteq loops /\ (table' = table \/ table' = <<>>)
          /\ visited' \subseteq Channels
          /\ broker' \in {"cancelling", "closing", "failed"}
      BY <1>5, VisitFacts DEF BrokerStopped, BrokerGathered, TypeInv
    <2>3. size' \in 0 .. Cardinality(Channels)
      <3>1. CASE BrokerStopped
        <4>1. IsFiniteSet(Channels) /\ DOMAIN table \subseteq Channels
          BY OwnFacts DEF TypeInv
        <4>2. /\ IsFiniteSet(DOMAIN table)
              /\ Cardinality(DOMAIN table) <= Cardinality(Channels)
          BY <4>1, FS_Subset
        <4>3. Cardinality(DOMAIN table) \in Nat /\ Cardinality(Channels) \in Nat
          BY <4>1, <4>2, FS_CardinalityType
        <4>4. size' = Cardinality(DOMAIN table)
          BY <3>1 DEF BrokerStopped
        <4> QED
          BY <4>2, <4>3, <4>4
      <3>2. CASE BrokerGathered
        BY <3>2 DEF BrokerGathered, TypeInv
      <3> QED
        BY <1>5, <3>1, <3>2
    <2>4. DOMAIN table' \subseteq DOMAIN table /\ \A c \in DOMAIN table' : table'[c] = table[c]
      BY <2>2
    <2>5. TypeInv'
      BY <2>1, <2>2, <2>3, <2>4 DEF TypeInv
    <2>6. ListInv'
      BY <2>1, <2>2 DEF ListInv, ServiceList
    <2>7. TableInv'
      BY <2>1, <2>2, <2>4 DEF TableInv
    <2>8. (\A c : Pending(c)' <=> Pending(c)) /\ \A c : Owed(c)' => Owed(c)
      BY <2>1, <2>2 DEF Pending, Owed
    <2> QED
      BY <2>1, <2>5, <2>6, <2>7, <2>8, CountKept
  <1>6. CASE BrokerCloses
    <2>1. TypeInv' /\ ListInv' /\ TableInv'
      BY <1>6 DEF BrokerCloses, TypeInv, ListInv, ServiceList, TableInv,
                  serviceVars, tableVars, closeVars
    <2>2. /\ UNCHANGED <<joined, starts>> /\ \A c : Pending(c)' <=> Pending(c)
          /\ \A c : Owed(c)' => Owed(c)
      BY <1>6 DEF BrokerCloses, Pending, Owed, serviceVars, tableVars
    <2> QED
      BY <2>1, <2>2, CountKept
  <1> QED
    BY <1>1, <1>2, <1>3, <1>4, <1>5, <1>6 DEF BrokerStep

LEMMA ServiceGStep ==
  ASSUME GInv, NEW s \in Services, ServiceStep(s)
  PROVE  GInv'
  <1> USE DEF GInv
  <1>0. /\ work[s] \in Seq(Channels) /\ <<>> \in Seq(Channels)
        /\ IsInjective(work[s]) /\ Range(work[s]) \subseteq Own(s)
        /\ MaxFaults \in Nat /\ faults \in Nat
        /\ Own(s) \subseteq Channels /\ registry \in Seq(Channels) /\ IsInjective(registry)
    BY OwnFacts, EmptySeq DEF TypeInv, ListInv, ServiceList
  <1>1. work[s] # <<>> => /\ Tail(work[s]) \in Seq(Channels) /\ IsInjective(Tail(work[s]))
                          /\ Range(Tail(work[s])) \subseteq Range(work[s])
                          /\ Head(work[s]) \in Range(work[s])
                          /\ Head(work[s]) \notin Range(Tail(work[s]))
    BY <1>0, HeadTailFacts
  <1>2. CASE ServiceCreated(s)
    <2> DEFINE rest == ChannelsOf[s]
    <2>1. /\ rest \in Seq(Channels) /\ IsInjective(rest) /\ Range(rest) = Own(s)
          /\ Range(rest) \cap Range(registry) = {} /\ Register(s, rest)
          /\ service[s] = "absent"
          /\ UNCHANGED <<broker, todo, starts, started, connected, table, joined, loops,
                         unsubscribing, visited, size, faults>>
      BY <1>2, OwnFacts DEF ServiceCreated, ListInv, ServiceList, brokerVars, tableVars, closeVars
    <2> HIDE DEF rest
    <2>2. /\ registry' \in Seq(Channels) /\ IsInjective(registry')
          /\ Range(registry') \subseteq Range(registry) \cup Range(rest)
          /\ \A t \in Services \ {s} : work'[t] = work[t] /\ service'[t] = service[t]
          /\ \/ service'[s] \in {"present", "failed"} /\ work'[s] = <<>>
             \/ /\ service'[s] = "joining" /\ work'[s] = rest /\ rest # <<>>
                /\ Range(Tail(rest)) \cap Range(registry') = {}
          /\ work' \in [Services -> Seq(Channels)]
          /\ service' \in [Services -> {"absent", "joining", "present", "waiting",
                                        "gathering", "gone", "failed"}]
      BY <2>1, RegisterFacts
    <2>3. TypeInv' /\ TableInv'
      BY <2>1, <2>2 DEF TypeInv, TableInv
    <2>4. ServiceList(s)'
      BY <2>1, <2>2, EmptyListFacts DEF ServiceList
    <2>5. ListInv'
      BY <2>1, <2>2, <2>4, ServiceListStep
    <2>6. \A c \in Channels : Pending(c)' => Pending(c)
      BY <2>1, <2>2, PendingStep
    <2>7. \A c : Owed(c)' => Owed(c)
      BY <2>1 DEF Owed
    <2> QED
      BY <2>1, <2>3, <2>5, <2>6, <2>7, CountKept
  <1>3. CASE ServiceJoins(s)
    <2> DEFINE rest == Tail(work[s])
               c == Head(work[s])
    <2>1. /\ service[s] = "joining" /\ connected /\ Join(c) /\ Register(s, rest)
          /\ UNCHANGED <<broker, todo, starts, started, connected,
                         unsubscribing, visited, size, faults>>
      BY <1>3 DEF ServiceJoins, brokerVars, closeVars
    <2>2. /\ work[s] # <<>> /\ rest \in Seq(Channels) /\ IsInjective(rest)
          /\ Range(rest) \subseteq Own(s) /\ Range(rest) \cap Range(registry) = {}
          /\ Range(rest) \subseteq Range(work[s])
          /\ c \in Channels /\ c \in Own(s) /\ c \in Range(work[s]) /\ c \notin Range(rest)
      BY <1>0, <1>1, <2>1 DEF ListInv, ServiceList
    <2> HIDE DEF rest, c
    <2>3. /\ registry' \in Seq(Channels) /\ IsInjective(registry')
          /\ Range(registry') \subseteq Range(registry) \cup Range(rest)
          /\ \A t \in Services \ {s} : work'[t] = work[t] /\ service'[t] = service[t]
          /\ \/ service'[s] \in {"present", "failed"} /\ work'[s] = <<>>
             \/ /\ service'[s] = "joining" /\ work'[s] = rest /\ rest # <<>>
                /\ Range(Tail(rest)) \cap Range(registry') = {}
          /\ work' \in [Services -> Seq(Channels)]
          /\ service' \in [Services -> {"absent", "joining", "present", "waiting",
                                        "gathering", "gone", "failed"}]
      BY <2>1, <2>2, RegisterFacts
    <2>4. /\ joined' \in [Channels -> Nat]
          /\ joined'[c] = joined[c] + 1 /\ \A d \in Channels \ {c} : joined'[d] = joined[d]
          /\ loops' \subseteq Channels \X (Nat \ {0})
          /\ DOMAIN table' = DOMAIN table \cup {c}
          /\ \A d \in DOMAIN table' : table'[d] = joined'[d] /\ joined'[d] # 0
          /\ \A l \in loops' : l[2] <= joined'[l[1]]
      BY <2>1, <2>2, JoinFacts
    <2>5. TypeInv'
      BY <2>1, <2>2, <2>3, <2>4 DEF TypeInv
    <2>6. TableInv'
      BY <2>1, <2>4 DEF TableInv
    <2>7. ServiceList(s)'
      BY <2>2, <2>3, EmptyListFacts DEF ServiceList
    <2>8. ListInv'
      BY <2>1, <2>2, <2>3, <2>7, ServiceListStep
    <2>9. CountInv'
      <3> SUFFICES ASSUME NEW d \in Channels
                   PROVE  joined'[d] + (IF Owed(d)' THEN 1 ELSE 0)
                            <= starts' + (IF Pending(d)' THEN 0 ELSE 1)
        BY DEF CountInv
      <3>1. Owed(d)' <=> Owed(d)
        BY <2>1 DEF Owed
      <3>2. Pending(d)' => Pending(d)
        BY <2>1, <2>2, <2>3, PendingStep, EmptyListFacts
      <3>3. d = c => Pending(d) /\ ~Pending(d)'
        <4> SUFFICES ASSUME d = c PROVE Pending(d) /\ ~Pending(d)'
          OBVIOUS
        <4>1. \A t \in Services : c \in Own(t) => t = s
          BY <2>2, OwnFacts
        <4>2. service'[s] # "absent" /\ (service'[s] = "joining" => c \notin Range(work'[s]))
          BY <2>2, <2>3
        <4> QED
          BY <2>1, <2>2, <4>1, <4>2 DEF Pending
      <3>4. joined[d] \in Nat /\ starts \in Nat /\ starts' = starts
        BY <2>1, OwnFacts DEF TypeInv
      <3>5. joined[d] + (IF Owed(d) THEN 1 ELSE 0) <= starts + (IF Pending(d) THEN 0 ELSE 1)
        BY DEF CountInv
      <3>6. CASE d = c
        <4>1. joined'[d] = joined[d] + 1
          BY <2>4, <3>6
        <4> QED
          BY <3>1, <3>3, <3>4, <3>5, <3>6, <4>1
      <3>7. CASE d # c
        <4>1. joined'[d] = joined[d]
          BY <2>4, <3>7
        <4> QED
          BY <3>1, <3>2, <3>4, <3>5, <4>1
      <3> QED
        BY <3>6, <3>7
    <2> QED
      BY <2>5, <2>6, <2>8, <2>9
  <1>4. CASE ServiceJoinFails(s)
    <2>1. /\ UNCHANGED <<broker, todo, starts, registry, started, connected, table, joined, loops,
                         unsubscribing, visited, size>>
          /\ faults' \in 0 .. MaxFaults
          /\ \A t \in Services \ {s} : work'[t] = work[t] /\ service'[t] = service[t]
          /\ service'[s] = "failed" /\ work'[s] = <<>>
          /\ work' \in [Services -> Seq(Channels)]
          /\ service' \in [Services -> {"absent", "joining", "present", "waiting",
                                        "gathering", "gone", "failed"}]
      BY <1>0, <1>4 DEF ServiceJoinFails, Fault, brokerVars, tableVars, closeVars, TypeInv
    <2>2. TypeInv' /\ TableInv'
      BY <2>1 DEF TypeInv, TableInv
    <2>3. ServiceList(s)'
      BY <2>1, EmptyListFacts DEF ServiceList
    <2>4. ListInv'
      BY <1>0, <2>1, <2>3, ServiceListStep
    <2>5. \A c \in Channels : Pending(c)' => Pending(c)
      BY <2>1, PendingStep
    <2>6. \A c : Owed(c)' => Owed(c)
      BY <2>1 DEF Owed
    <2> QED
      BY <2>1, <2>2, <2>4, <2>5, <2>6, CountKept
  <1>5. ASSUME NEW rest \in Seq(Channels), IsInjective(rest), Range(rest) \subseteq Own(s),
               Leave(s, rest), loops' \subseteq loops,
               DOMAIN table' \subseteq DOMAIN table, \A c \in DOMAIN table' : table'[c] = table[c],
               UNCHANGED <<broker, todo, starts, started, connected, joined, visited, size, faults>>
        PROVE  GInv'
    <2>1. /\ registry' \in Seq(Channels) /\ IsInjective(registry')
          /\ Range(registry') \subseteq Range(registry)
          /\ unsubscribing' \subseteq unsubscribing \cup Own(s)
          /\ \A t \in Services \ {s} : work'[t] = work[t] /\ service'[t] = service[t]
          /\ work'[s] = rest /\ service'[s] = IF rest = <<>> THEN "gone" ELSE "waiting"
          /\ work' \in [Services -> Seq(Channels)]
          /\ service' \in [Services -> {"absent", "joining", "present", "waiting",
                                        "gathering", "gone", "failed"}]
      BY <1>5, LeaveFacts
    <2>2. unsubscribing' \subseteq Channels
      BY <1>0, <2>1 DEF TypeInv
    <2>3. TypeInv' /\ TableInv'
      BY <1>5, <2>1, <2>2 DEF TypeInv, TableInv
    <2>4. ServiceList(s)'
      BY <1>5, <2>1 DEF ServiceList
    <2>5. ListInv'
      BY <1>5, <2>1, <2>4, ServiceListStep
    <2>6. \A c \in Channels : Pending(c)' => Pending(c)
      BY <2>1, PendingStep
    <2>7. \A c : Owed(c)' => Owed(c)
      BY <1>5 DEF Owed
    <2> QED
      BY <1>5, <2>3, <2>5, <2>6, <2>7, CountKept
  <1>6. CASE ServiceStopping(s)
    <2> DEFINE rest == Keep(registry, Own(s))
    <2>1. /\ rest \in Seq(Channels) /\ IsInjective(rest) /\ Range(rest) \subseteq Own(s)
      BY <1>0, KeepFacts
    <2>2. /\ Leave(s, rest)
          /\ UNCHANGED <<broker, todo, starts, started, connected, table, joined, loops,
                         visited, size, faults>>
      BY <1>6 DEF ServiceStopping, brokerVars, tableVars, closeVars
    <2> HIDE DEF rest
    <2> QED
      BY <1>5, <2>1, <2>2
  <1>7. CASE ServiceWaited(s)
    <2>1. work[s] # <<>>
      BY <1>7 DEF ServiceWaited, ListInv, ServiceList
    <2>2. CASE Head(work[s]) \in DOMAIN table
      <3>1. /\ UNCHANGED <<broker, todo, starts, work, registry, started, connected, table, joined,
                           unsubscribing, visited, size, faults>>
            /\ service' = [service EXCEPT ![s] = "gathering"]
            /\ loops' \subseteq loops /\ service[s] = "waiting"
        BY <1>7, <2>2 DEF ServiceWaited, Cancel, brokerVars, closeVars
      <3>2. /\ \A t \in Services \ {s} : service'[t] = service[t]
            /\ service'[s] = "gathering"
        BY <3>1 DEF TypeInv
      <3>3. TypeInv' /\ TableInv'
        BY <3>1 DEF TypeInv, TableInv
      <3>4. ServiceList(s)'
        BY <1>0, <2>1, <3>1, <3>2 DEF ServiceList
      <3>5. ListInv'
        BY <1>0, <3>1, <3>2, <3>4, ServiceListStep
      <3>6. \A c \in Channels : Pending(c)' => Pending(c)
        BY <3>1, <3>2, PendingStep
      <3>7. \A c : Owed(c)' => Owed(c)
        BY <3>1 DEF Owed
      <3> QED
        BY <3>1, <3>3, <3>5, <3>6, <3>7, CountKept
    <2>3. CASE Head(work[s]) \notin DOMAIN table
      <3>1. /\ Leave(s, Tail(work[s]))
            /\ UNCHANGED <<broker, todo, starts, started, connected, table, joined, loops,
                           visited, size, faults>>
        BY <1>7, <2>3 DEF ServiceWaited, brokerVars, closeVars
      <3> QED
        BY <1>0, <1>1, <1>5, <2>1, <3>1
    <2> QED
      BY <2>2, <2>3
  <1>8. CASE ServiceGathered(s)
    <2>1. work[s] # <<>>
      BY <1>8 DEF ServiceGathered, ListInv, ServiceList
    <2>2. CASE Head(work[s]) \in DOMAIN table
      <3>1. /\ Leave(s, Tail(work[s]))
            /\ table' = [d \in DOMAIN table \ {Head(work[s])} |-> table[d]]
            /\ UNCHANGED <<broker, todo, starts, started, connected, joined, loops,
                           visited, size, faults>>
        BY <1>8, <2>2 DEF ServiceGathered, brokerVars, closeVars
      <3>2. DOMAIN table' \subseteq DOMAIN table /\ \A c \in DOMAIN table' : table'[c] = table[c]
        BY <3>1
      <3> QED
        BY <1>0, <1>1, <1>5, <2>1, <3>1, <3>2
    <2>3. CASE Head(work[s]) \notin DOMAIN table
      <3>1. /\ UNCHANGED <<broker, todo, starts, registry, started, connected, table, joined, loops,
                           unsubscribing, visited, size, faults>>
            /\ \A t \in Services \ {s} : work'[t] = work[t] /\ service'[t] = service[t]
            /\ service'[s] = "failed" /\ work'[s] = <<>>
            /\ work' \in [Services -> Seq(Channels)]
            /\ service' \in [Services -> {"absent", "joining", "present", "waiting",
                                          "gathering", "gone", "failed"}]
        BY <1>0, <1>8, <2>3 DEF ServiceGathered, brokerVars, closeVars, TypeInv
      <3>2. TypeInv' /\ TableInv'
        BY <3>1 DEF TypeInv, TableInv
      <3>3. ServiceList(s)'
        BY <3>1, EmptyListFacts DEF ServiceList
      <3>4. ListInv'
        BY <1>0, <3>1, <3>3, ServiceListStep
      <3>5. \A c \in Channels : Pending(c)' => Pending(c)
        BY <3>1, PendingStep
      <3>6. \A c : Owed(c)' => Owed(c)
        BY <3>1 DEF Owed
      <3> QED
        BY <3>1, <3>2, <3>4, <3>5, <3>6, CountKept
    <2> QED
      BY <2>2, <2>3
  <1> QED
    BY <1>2, <1>3, <1>4, <1>6, <1>7, <1>8 DEF ServiceStep

LEMMA NextGInv == GInv /\ [Next]_vars => GInv'
  <1> SUFFICES ASSUME GInv, [Next]_vars PROVE GInv'
    OBVIOUS
  <1>1. CASE \E l \in Loops : LoopExits(l)
    <2>1. /\ loops' \subseteq loops
          /\ UNCHANGED <<brokerVars, serviceVars, registry, started, connected, table,
                         joined, unsubscribing, closeVars, faults>>
      BY <1>1 DEF LoopExits
    <2>2. TypeInv' /\ ListInv' /\ TableInv'
      BY <2>1 DEF GInv, TypeInv, ListInv, ServiceList, TableInv, brokerVars, serviceVars, closeVars
    <2>3. CountInv'
      BY <2>1 DEF GInv, CountInv, Owed, Pending, brokerVars, serviceVars
    <2> QED
      BY <2>2, <2>3 DEF GInv
  <1>2. CASE UNCHANGED vars
    <2>1. TypeInv' /\ ListInv' /\ TableInv'
      BY <1>2 DEF GInv, TypeInv, ListInv, ServiceList, TableInv,
                  vars, brokerVars, serviceVars, tableVars, closeVars
    <2>2. CountInv'
      BY <1>2 DEF GInv, CountInv, Owed, Pending, vars, brokerVars, serviceVars, tableVars
    <2> QED
      BY <2>1, <2>2 DEF GInv
  <1> QED
    BY <1>1, <1>2, BrokerGStep, ServiceGStep DEF Next

THEOREM GInvariance == Spec => []GInv
  BY InitGInv, NextGInv, PTL DEF Spec

LEMMA GInvTypeOK == GInv => TypeOK
  <1> SUFFICES ASSUME GInv PROVE TypeOK
    OBVIOUS
  <1>1. MaxStarts \in Nat /\ starts \in 0 .. MaxStarts
    BY OwnFacts DEF GInv, TypeInv
  <1>2. \A c \in Channels : joined[c] \in 0 .. MaxStarts + 1
    <2> SUFFICES ASSUME NEW c \in Channels PROVE joined[c] \in 0 .. MaxStarts + 1
      OBVIOUS
    <2>1. joined[c] \in Nat
      BY DEF GInv, TypeInv
    <2>2. joined[c] + (IF Owed(c) THEN 1 ELSE 0) <= starts + (IF Pending(c) THEN 0 ELSE 1)
      BY DEF GInv, CountInv
    <2> QED
      BY <1>1, <2>1, <2>2
  <1>3. \A c \in Channels : \A k \in Nat \ {0} : k <= joined[c] => <<c, k>> \in Loops
    <2> SUFFICES ASSUME NEW c \in Channels, NEW k \in Nat \ {0}, k <= joined[c]
                 PROVE  <<c, k>> \in Loops
      OBVIOUS
    <2>1. k \in 1 .. MaxStarts + 1
      BY <1>1, <1>2
    <2> QED
      BY <2>1 DEF Loops
  <1>4. \A c \in DOMAIN table : <<c, table[c]>> \in Loops
    BY <1>2, <1>3 DEF GInv, TypeInv, TableInv
  <1>5. loops \subseteq Loops
    <2> SUFFICES ASSUME NEW l \in loops PROVE l \in Loops
      OBVIOUS
    <2>1. l = <<l[1], l[2]>> /\ l[1] \in Channels /\ l[2] \in Nat \ {0} /\ l[2] <= joined[l[1]]
      BY DEF GInv, TypeInv, TableInv
    <2> QED
      BY <1>3, <2>1
  <1>6. joined \in [Channels -> 0 .. MaxStarts + 1]
    BY <1>2 DEF GInv, TypeInv
  <1> QED
    BY <1>4, <1>5, <1>6 DEF GInv, TypeInv, TypeOK

(* The hooks keep the shape of the state in every configuration, also when  *)
(* they overlap: in particular no channel is ever subscribed more often     *)
(* than once by its service and once by each start of the broker.           *)
THEOREM TypeCorrect == Spec => []TypeOK
  BY GInvariance, GInvTypeOK, PTL

-----------------------------------------------------------------------------
(* What holds when no hook of a service is under way while disconnect is, and *)
(* no service stops while the broker starts.                                  *)

Orderly == ~StopWhileBusy

\* Which hooks of services go together with which of the broker; nothing changes
\* the table under disconnect's iteration.
PhaseInv ==
    /\ \A s \in Services : service[s] = "joining" => broker = "running"
    /\ \A s \in Services : Stopping(s) => broker \in {"idle", "running", "failed"}
    /\ started => broker \in {"running", "cancelling", "closing"}
    /\ broker = "running" => started
    /\ connected <=> broker \in {"joining", "running", "failed", "cancelling", "closing"}
    /\ broker = "cancelling" => size = Cardinality(DOMAIN table)

\* What the registry holds of a service.
RegistryOf(s) ==
    /\ service[s] = "present" => Own(s) \subseteq Range(registry)
    /\ service[s] = "gone" => Own(s) \cap Range(registry) = {}
    /\ service[s] = "joining" => Head(work[s]) \in Range(registry)

\* What the registry holds, and whose channels are flagged.
RegistryInv ==
    /\ \A s \in Services : RegistryOf(s)
    /\ Range(todo) \subseteq Range(registry)
    /\ \A c \in unsubscribing :
          \E s \in Services : c \in Own(s) /\ (Stopping(s) \/ service[s] = "gone")

\* Every running loop can be found, by its owner and by disconnect.
LoopInv ==
    /\ \A l \in loops : l[1] \in DOMAIN table /\ table[l[1]] = l[2] /\ l[1] \in Range(registry)
    /\ ~connected \/ broker = "closing" => loops = {}
    /\ broker = "cancelling" => \A c \in visited : ~Consumed(c)
    /\ \A c \in Range(todo) : ~Consumed(c)

\* How far the hook of a service has come.
HookOf(s) ==
    /\ service[s] = "joining" => /\ \A c \in Range(work[s]) : ~Consumed(c)
                                 /\ \A c \in Own(s) \ Range(work[s]) : Consumed(c)
    /\ Stopping(s) => \A c \in Own(s) : Consumed(c) => c \in Range(work[s])
    /\ service[s] = "gathering" => ~Consumed(Head(work[s])) /\ Head(work[s]) \in DOMAIN table
    /\ ~CreateWhileStarting /\ broker = "running" /\ service[s] = "present" =>
          \A c \in Own(s) : Consumed(c)

\* How far the hooks under way have come.
HookInv ==
    /\ \A s \in Services : HookOf(s)
    /\ ~CreateWhileStarting /\ broker = "joining" =>
          \A c \in Range(registry) : c \in Range(todo) \/ Consumed(c)

OInv == PhaseInv /\ RegistryInv /\ LoopInv /\ HookInv

LEMMA InitOInv == Init => OInv
  <1> SUFFICES ASSUME Init PROVE OInv
    OBVIOUS
  <1>1. \A s \in Services : service[s] = "absent"
    BY DEF Init
  <1>2. PhaseInv
    BY <1>1 DEF Init, PhaseInv, Stopping
  <1>3. RegistryInv /\ LoopInv
    BY <1>1, EmptyListFacts DEF Init, RegistryInv, RegistryOf, LoopInv, Consumed
  <1>4. HookInv
    BY <1>1 DEF Init, HookInv, HookOf, Stopping
  <1> QED
    BY <1>2, <1>3, <1>4 DEF OInv

LEMMA ConsumedJoin ==
  ASSUME TypeInv, TableInv, NEW c \in Channels, Join(c)
  PROVE  \A d : Consumed(d)' <=> Consumed(d) \/ d = c
  <1>1. loops' = loops \cup {<<c, joined[c] + 1>>}
    BY JoinFacts
  <1> DEFINE new == <<c, joined[c] + 1>>
  <1>2. new[1] = c /\ loops' = loops \cup {new}
    BY <1>1
  <1> HIDE DEF new
  <1> QED
    BY <1>2 DEF Consumed

LEMMA ConsumedCancel ==
  ASSUME TypeInv, LoopInv, NEW c \in Channels, Cancel(c)
  PROVE  loops' \subseteq loops /\ \A d : Consumed(d)' <=> Consumed(d) /\ d # c
  <1>1. loops' = loops \ {<<c, table[c]>>}
    BY DEF Cancel
  <1>2. \A l \in loops : l = <<l[1], l[2]>> /\ table[l[1]] = l[2]
    BY DEF TypeInv, LoopInv
  <1> QED
    BY <1>1, <1>2 DEF Consumed

\* The loops of a subscription that is new are the only ones of its channel.
LEMMA LoopsJoin ==
  ASSUME TypeInv, TableInv, LoopInv, NEW c \in Channels, Join(c), ~Consumed(c),
         c \in Range(registry'), Range(registry) \subseteq Range(registry')
  PROVE  \A l \in loops' : l[1] \in DOMAIN table' /\ table'[l[1]] = l[2] /\ l[1] \in Range(registry')
  <1>1. /\ loops' = loops \cup {<<c, joined[c] + 1>>}
        /\ DOMAIN table' = DOMAIN table \cup {c}
        /\ table'[c] = joined[c] + 1 /\ \A d \in DOMAIN table \ {c} : table'[d] = table[d]
    BY JoinFacts
  <1> QED
    BY <1>1 DEF LoopInv, Consumed

\* What the end of a connection leaves: disconnect has cancelled every loop.
LEMMA VisitLoops ==
  ASSUME TypeInv, LoopInv, NEW seen \in SUBSET Channels, \A c \in seen : ~Consumed(c), Visit(seen)
  PROVE  /\ \/ broker' = "cancelling" /\ table' = table
            \/ broker' = "closing" /\ loops' = {}
         /\ loops' \subseteq loops
         /\ \A l \in loops' : l[1] \in DOMAIN table' /\ table'[l[1]] = l[2]
         /\ broker' = "cancelling" => \A c \in visited' : ~Consumed(c)'
  <1>1. CASE \E c \in DOMAIN table \ seen :
                Cancel(c) /\ visited' = seen \cup {c} /\ broker' = "cancelling" /\ table' = table
    <2>1. PICK c \in DOMAIN table \ seen :
                Cancel(c) /\ visited' = seen \cup {c} /\ broker' = "cancelling" /\ table' = table
      BY <1>1
    <2>2. loops' \subseteq loops /\ \A d : Consumed(d)' <=> Consumed(d) /\ d # c
      BY <2>1, ConsumedCancel DEF TypeInv
    <2>3. \A d \in visited' : ~Consumed(d)'
      BY <2>1, <2>2
    <2> QED
      BY <2>1, <2>2, <2>3 DEF LoopInv
  <1>2. CASE /\ DOMAIN table \subseteq seen /\ table' = <<>> /\ visited' = {}
             /\ broker' = "closing" /\ loops' = loops
    <2>1. loops = {}
      BY <1>2 DEF LoopInv, Consumed
    <2> QED
      BY <1>2, <2>1
  <1> QED
    BY <1>1, <1>2 DEF Visit

LEMMA BrokerOStep ==
  ASSUME Orderly, GInv, OInv, BrokerStep
  PROVE  OInv'
  <1> USE DEF GInv, OInv
  <1>0. ~StopWhileBusy
    BY DEF Orderly
  <1>1. CASE BrokerStarting
    <2>1. /\ broker = "idle" /\ broker' = "connecting" /\ \A s \in Services : ~Stopping(s)
          /\ UNCHANGED <<todo, service, work, registry, started, connected, table, joined, loops,
                         unsubscribing, visited, size, faults>>
      BY <1>0, <1>1 DEF BrokerStarting, serviceVars, tableVars, closeVars
    <2>2. PhaseInv'
      BY <2>1 DEF PhaseInv, Stopping
    <2>3. RegistryInv'
      BY <2>1 DEF RegistryInv, RegistryOf, Stopping
    <2>4. LoopInv'
      BY <2>1 DEF LoopInv, Consumed
    <2>5. HookInv'
      BY <2>1 DEF HookInv, HookOf, Stopping, Consumed
    <2> QED
      BY <2>2, <2>3, <2>4, <2>5
  <1>2. CASE BrokerConnects
    <2>1. /\ broker = "connecting" /\ connected' = TRUE /\ todo' = registry
          /\ broker' = (IF registry = <<>> THEN "running" ELSE "joining")
          /\ started' = (registry = <<>>)
          /\ UNCHANGED <<service, work, registry, table, joined, loops, unsubscribing, visited, size>>
      BY <1>2 DEF BrokerConnects, Continue, serviceVars, tableVars, closeVars
    <2>2. /\ loops = {} /\ \A s \in Services : service[s] # "joining" /\ ~Stopping(s)
      BY <2>1 DEF PhaseInv, LoopInv
    <2>3. PhaseInv'
      BY <2>1, <2>2 DEF PhaseInv, Stopping
    <2>4. RegistryInv'
      BY <2>1 DEF RegistryInv, RegistryOf, Stopping
    <2>5. LoopInv'
      BY <2>1, <2>2 DEF LoopInv, Consumed
    <2>6. HookInv'
      <3>1. ASSUME NEW s \in Services PROVE HookOf(s)'
        BY <2>1, <2>2, EmptyListFacts DEF HookInv, HookOf, Stopping, Consumed, RegistryInv, RegistryOf
      <3> QED
        BY <2>1, <3>1 DEF HookInv
    <2> QED
      BY <2>3, <2>4, <2>5, <2>6
  <1>3. CASE BrokerJoins
    <2> DEFINE c == Head(todo)
               rest == Tail(todo)
    <2>1. todo \in Seq(Channels) /\ todo # <<>>
      BY <1>3 DEF BrokerJoins, TypeInv, ListInv
    <2>2. /\ c \in Channels /\ rest \in Seq(Channels)
          /\ Range(todo) = {c} \cup Range(rest) /\ c \notin Range(rest)
      BY <2>1, HeadTailFacts DEF ListInv
    <2>3. /\ broker = "joining" /\ Join(c) /\ todo' = rest
          /\ broker' = (IF rest = <<>> THEN "running" ELSE "joining")
          /\ started' = (rest = <<>>)
          /\ UNCHANGED <<service, work, registry, connected, unsubscribing, visited, size>>
      BY <1>3 DEF BrokerJoins, Continue, serviceVars, closeVars
    <2> HIDE DEF c, rest
    <2>4. \A d : Consumed(d)' <=> Consumed(d) \/ d = c
      BY <2>2, <2>3, ConsumedJoin
    <2>5. ~Consumed(c) /\ c \in Range(registry')
      BY <2>2, <2>3 DEF LoopInv, RegistryInv
    <2>6. \A s \in Services : service[s] # "joining" /\ ~Stopping(s)
      BY <2>3 DEF PhaseInv
    <2>7. PhaseInv'
      BY <2>3, <2>6 DEF PhaseInv, Stopping
    <2>8. RegistryInv'
      BY <2>2, <2>3 DEF RegistryInv, RegistryOf, Stopping
    <2>9. LoopInv'
      <3>1. \A l \in loops' : /\ l[1] \in DOMAIN table' /\ table'[l[1]] = l[2]
                              /\ l[1] \in Range(registry')
        BY <2>2, <2>3, <2>5, LoopsJoin
      <3>2. \A d \in Range(todo') : ~Consumed(d)'
        BY <2>2, <2>3, <2>4 DEF LoopInv
      <3>3. connected' /\ broker' \notin {"closing", "cancelling"}
        BY <2>3 DEF PhaseInv
      <3> QED
        BY <3>1, <3>2, <3>3 DEF LoopInv
    <2>10. HookInv'
      <3>1. ~CreateWhileStarting => \A d \in Range(registry) : d \in Range(rest) \/ Consumed(d)'
        BY <2>2, <2>3, <2>4 DEF HookInv
      <3>2. ASSUME NEW s \in Services PROVE HookOf(s)'
        <4>1. service'[s] # "joining" /\ ~Stopping(s)' /\ service'[s] # "gathering"
          BY <2>3, <2>6 DEF Stopping
        <4>2. ~CreateWhileStarting /\ broker' = "running" /\ service'[s] = "present" =>
                 \A d \in Own(s) : Consumed(d)'
          BY <2>3, <3>1, EmptyListFacts DEF RegistryInv, RegistryOf
        <4> QED
          BY <4>1, <4>2 DEF HookOf
      <3> QED
        BY <2>3, <3>1, <3>2 DEF HookInv
    <2> QED
      BY <2>7, <2>8, <2>9, <2>10
  <1>4. CASE BrokerJoinFails
    <2>1. /\ broker = "joining" /\ broker' = "failed" /\ todo' = <<>>
          /\ UNCHANGED <<service, work, registry, started, connected, table, joined, loops,
                         unsubscribing, visited, size>>
      BY <1>4 DEF BrokerJoinFails, serviceVars, tableVars, closeVars
    <2>2. Range(todo') = {}
      BY <2>1, EmptyListFacts
    <2>3. PhaseInv'
      BY <2>1 DEF PhaseInv, Stopping
    <2>4. RegistryInv'
      BY <2>1, <2>2 DEF RegistryInv, RegistryOf, Stopping
    <2>5. LoopInv'
      BY <2>1, <2>2 DEF LoopInv, Consumed, PhaseInv
    <2>6. HookInv'
      BY <2>1 DEF HookInv, HookOf, Stopping, Consumed
    <2> QED
      BY <2>3, <2>4, <2>5, <2>6
  <1>5. CASE BrokerStopped \/ BrokerGathered
    <2>1. /\ broker \in {"running", "failed", "cancelling"} /\ connected
          /\ UNCHANGED <<todo, starts, service, work, registry, started, connected, joined,
                         unsubscribing, faults>>
          /\ \A s \in Services : service[s] # "joining" /\ ~Stopping(s)
      BY <1>0, <1>5 DEF BrokerStopped, BrokerGathered, serviceVars, PhaseInv
    <2>2. \E seen \in SUBSET Channels : Visit(seen) /\ \A c \in seen : ~Consumed(c)
      <3>1. CASE BrokerStopped
        BY <3>1 DEF BrokerStopped
      <3>2. CASE BrokerGathered
        BY <3>2 DEF BrokerGathered, PhaseInv, LoopInv, TypeInv
      <3> QED
        BY <1>5, <3>1, <3>2
    <2>3. /\ \/ broker' = "cancelling" /\ table' = table
             \/ broker' = "closing" /\ loops' = {}
          /\ loops' \subseteq loops
          /\ \A l \in loops' : l[1] \in DOMAIN table' /\ table'[l[1]] = l[2]
          /\ broker' = "cancelling" => \A c \in visited' : ~Consumed(c)'
      BY <2>2, VisitLoops
    <2>4. size' = Cardinality(DOMAIN table)
      BY <1>5 DEF BrokerStopped, BrokerGathered, PhaseInv
    <2>5. Range(todo) = {}
      <3>1. todo = <<>>
        BY <2>1 DEF ListInv
      <3> QED
        BY <3>1, EmptyListFacts
    <2>6. PhaseInv'
      BY <2>1, <2>3, <2>4 DEF PhaseInv, Stopping
    <2>7. RegistryInv'
      BY <2>1 DEF RegistryInv, RegistryOf, Stopping
    <2>8. LoopInv'
      BY <2>1, <2>3, <2>5 DEF LoopInv
    <2>9. HookInv'
      <3>1. ASSUME NEW s \in Services PROVE HookOf(s)'
        BY <2>1, <2>3 DEF HookOf, Stopping
      <3> QED
        BY <2>3, <3>1 DEF HookInv
    <2> QED
      BY <2>6, <2>7, <2>8, <2>9
  <1>6. CASE BrokerCloses
    <2>1. /\ broker = "closing" /\ broker' = "idle" /\ connected' = FALSE /\ started' = FALSE
          /\ UNCHANGED <<todo, service, work, registry, table, joined, loops,
                         unsubscribing, visited, size>>
      BY <1>6 DEF BrokerCloses, serviceVars, tableVars, closeVars
    <2>2. PhaseInv'
      BY <2>1 DEF PhaseInv, Stopping
    <2>3. RegistryInv'
      BY <2>1 DEF RegistryInv, RegistryOf, Stopping
    <2>4. LoopInv'
      BY <2>1 DEF LoopInv, Consumed
    <2>5. HookInv'
      BY <2>1 DEF HookInv, HookOf, Stopping, Consumed
    <2> QED
      BY <2>2, <2>3, <2>4, <2>5
  <1> QED
    BY <1>1, <1>2, <1>3, <1>4, <1>5, <1>6 DEF BrokerStep

\* A hook of one service disturbs nothing of the others.
LEMMA OthersKept ==
  ASSUME GInv, OInv, NEW s \in Services, UNCHANGED broker,
         \A t \in Services \ {s} : work'[t] = work[t] /\ service'[t] = service[t],
         \A d \in Channels \ Own(s) : /\ d \in Range(registry') <=> d \in Range(registry)
                                      /\ Consumed(d)' <=> Consumed(d)
                                      /\ d \in DOMAIN table' <=> d \in DOMAIN table
  PROVE  \A t \in Services \ {s} : RegistryOf(t)' /\ HookOf(t)'
  <1> SUFFICES ASSUME NEW t \in Services \ {s} PROVE RegistryOf(t)' /\ HookOf(t)'
    OBVIOUS
  <1>1. RegistryOf(t) /\ HookOf(t) /\ ServiceList(t) /\ work[t] \in Seq(Channels)
    BY DEF GInv, OInv, TypeInv, ListInv, RegistryInv, HookInv
  <1>2. Own(t) \subseteq Channels \ Own(s)
    BY OwnFacts
  <1>3. Range(work[t]) \subseteq Own(t)
    BY <1>1 DEF ServiceList
  <1>4. service[t] \in {"joining", "waiting", "gathering"} => Head(work[t]) \in Own(t)
    BY <1>1, <1>3, HeadTailFacts DEF ServiceList
  <1>5. \A d \in Own(t) : /\ d \in Range(registry') <=> d \in Range(registry)
                          /\ Consumed(d)' <=> Consumed(d)
                          /\ d \in DOMAIN table' <=> d \in DOMAIN table
    BY <1>2
  <1>6. work'[t] = work[t] /\ service'[t] = service[t]
    OBVIOUS
  <1>7. RegistryOf(t)'
    BY <1>1, <1>4, <1>5, <1>6 DEF RegistryOf
  <1>8. HookOf(t)'
    BY <1>1, <1>3, <1>4, <1>5, <1>6 DEF HookOf, Stopping
  <1> QED
    BY <1>7, <1>8

\* service_stopping goes on to the next channel of the service: none that it
\* has gone through is consumed.
LEMMA LeaveOStep ==
  ASSUME GInv, OInv, NEW s \in Services, NEW rest \in Seq(Channels), IsInjective(rest),
         Range(rest) \subseteq Own(s), Leave(s, rest),
         broker \in {"idle", "running", "failed"},
         \A c \in Own(s) : Consumed(c) => c \in Range(rest),
         \A d \in Own(s) \cap Range(rest) : d \in DOMAIN table => d \in DOMAIN table',
         \A d \in Channels \ Own(s) : d \in DOMAIN table' <=> d \in DOMAIN table,
         \A c \in DOMAIN table' : table'[c] = table[c],
         UNCHANGED <<broker, todo, starts, started, connected, joined, loops, visited, size>>
  PROVE  OInv'
  <1> USE DEF GInv, OInv
  <1>1. /\ Range(registry') = IF rest = <<>> THEN Range(registry) \ Own(s) ELSE Range(registry)
        /\ unsubscribing' = IF rest = <<>> THEN unsubscribing ELSE unsubscribing \cup {Head(rest)}
        /\ rest # <<>> => Head(rest) \in Own(s)
        /\ \A t \in Services \ {s} : work'[t] = work[t] /\ service'[t] = service[t]
        /\ work'[s] = rest /\ service'[s] = IF rest = <<>> THEN "gone" ELSE "waiting"
    BY LeaveFacts
  <1>2. \A d : Consumed(d)' <=> Consumed(d)
    BY DEF Consumed
  <1>3. todo = <<>> /\ Range(todo) = {}
    BY EmptyListFacts DEF ListInv
  <1>4. PhaseInv'
    <2>1. \A t \in Services : service'[t] = "joining" => broker' = "running"
      BY <1>1 DEF PhaseInv
    <2> QED
      BY <2>1 DEF PhaseInv
  <1>5. \A t \in Services \ {s} : RegistryOf(t)' /\ HookOf(t)'
    <2>1. \A d \in Channels \ Own(s) : d \in Range(registry') <=> d \in Range(registry)
      BY <1>1
    <2> QED
      BY <1>1, <1>2, <2>1, OthersKept
  <1>6. RegistryInv'
    <2>1. RegistryOf(s)'
      BY <1>1 DEF RegistryOf
    <2>2. ASSUME NEW c \in unsubscribing'
          PROVE  \E t \in Services : c \in Own(t) /\ (Stopping(t)' \/ service'[t] = "gone")
      <3>1. Stopping(s)' \/ service'[s] = "gone"
        BY <1>1 DEF Stopping
      <3>2. CASE c \in unsubscribing
        <4>1. PICK t \in Services : c \in Own(t) /\ (Stopping(t) \/ service[t] = "gone")
          BY <3>2 DEF RegistryInv
        <4> QED
          BY <1>1, <3>1, <4>1 DEF Stopping
      <3>3. CASE c \in Own(s)
        BY <3>1, <3>3
      <3> QED
        BY <1>1, <3>2, <3>3
    <2> QED
      BY <1>3, <1>5, <2>1, <2>2 DEF RegistryInv
  <1>7. LoopInv'
    <2>1. ASSUME NEW l \in loops'
          PROVE  l[1] \in DOMAIN table' /\ table'[l[1]] = l[2] /\ l[1] \in Range(registry')
      <3>1. /\ l \in loops /\ l[1] \in Channels
            /\ l[1] \in DOMAIN table /\ table[l[1]] = l[2] /\ l[1] \in Range(registry)
        BY DEF LoopInv, TypeInv
      <3>2. l[1] \in Own(s) => l[1] \in Range(rest)
        BY <3>1 DEF Consumed
      <3>3. l[1] \in DOMAIN table'
        BY <3>1, <3>2
      <3>4. l[1] \in Range(registry')
        BY <1>1, <3>1, <3>2, EmptyListFacts
      <3> QED
        BY <3>1, <3>3, <3>4
    <2>2. broker' \notin {"closing", "cancelling"} /\ (~connected' => loops' = {})
      BY DEF LoopInv
    <2> QED
      BY <1>3, <2>1, <2>2 DEF LoopInv
  <1>8. HookInv'
    <2>1. HookOf(s)'
      BY <1>1, <1>2 DEF HookOf, Stopping
    <2> QED
      BY <1>5, <2>1 DEF HookInv
  <1> QED
    BY <1>4, <1>6, <1>7, <1>8

LEMMA ServiceOStep ==
  ASSUME Orderly, GInv, OInv, NEW s \in Services, ServiceStep(s)
  PROVE  OInv'
  <1> USE DEF GInv, OInv
  <1>0. /\ work[s] \in Seq(Channels) /\ IsInjective(work[s]) /\ Range(work[s]) \subseteq Own(s)
        /\ Own(s) \subseteq Channels /\ registry \in Seq(Channels) /\ IsInjective(registry)
        /\ ~StopWhileBusy
    BY OwnFacts DEF TypeInv, ListInv, ServiceList, Orderly
  <1>1. work[s] # <<>> => /\ Tail(work[s]) \in Seq(Channels) /\ IsInjective(Tail(work[s]))
                          /\ Range(work[s]) = {Head(work[s])} \cup Range(Tail(work[s]))
                          /\ Head(work[s]) \notin Range(Tail(work[s]))
                          /\ Head(work[s]) \in Own(s)
    BY <1>0, HeadTailFacts
  <1>2. \A t \in Services : (Stopping(t) \/ service[t] = "gone") /\ ~Stopping(s)
                              /\ service[s] # "gone" => t # s
    OBVIOUS
  <1>3. CASE ServiceCreated(s)
    <2> DEFINE rest == ChannelsOf[s]
    <2>1. /\ rest \in Seq(Channels) /\ IsInjective(rest) /\ Range(rest) = Own(s)
          /\ Range(rest) \cap Range(registry) = {} /\ Register(s, rest)
          /\ service[s] = "absent" /\ broker \notin {"cancelling", "closing"}
          /\ CreateWhileStarting \/ broker # "joining"
          /\ UNCHANGED <<broker, todo, starts, started, connected, table, joined, loops,
                         unsubscribing, visited, size, faults>>
      BY <1>0, <1>3, OwnFacts DEF ServiceCreated, ListInv, ServiceList, brokerVars, tableVars, closeVars
    <2> HIDE DEF rest
    <2>2. /\ Range(registry) \subseteq Range(registry')
          /\ Range(registry') \subseteq Range(registry) \cup Own(s)
          /\ \A t \in Services \ {s} : work'[t] = work[t] /\ service'[t] = service[t]
          /\ \/ /\ service'[s] = "present" /\ work'[s] = <<>>
                /\ Own(s) \subseteq Range(registry') /\ (started => rest = <<>>)
             \/ /\ service'[s] = "joining" /\ work'[s] = rest /\ rest # <<>>
                /\ started /\ connected
                /\ Head(rest) \in Range(registry')
             \/ service'[s] = "failed" /\ work'[s] = <<>>
      BY <2>1, RegisterFacts
    <2>3. \A d : Consumed(d)' <=> Consumed(d)
      BY <2>1 DEF Consumed
    <2>4. \A d \in Own(s) : ~Consumed(d)
      BY <2>1 DEF LoopInv, Consumed
    <2>5. started => broker = "running"
      BY <2>1 DEF PhaseInv
    <2>6. PhaseInv'
      BY <2>1, <2>2, <2>5 DEF PhaseInv, Stopping
    <2>7. \A t \in Services \ {s} : RegistryOf(t)' /\ HookOf(t)'
      <3>1. \A d \in Channels \ Own(s) : d \in Range(registry') <=> d \in Range(registry)
        BY <2>2
      <3> QED
        BY <2>1, <2>2, <2>3, <3>1, OthersKept
    <2>8. RegistryInv'
      <3>1. RegistryOf(s)'
        BY <2>2 DEF RegistryOf
      <3>2. \A c \in unsubscribing' :
               \E t \in Services : c \in Own(t) /\ (Stopping(t)' \/ service'[t] = "gone")
        BY <2>1, <2>2 DEF RegistryInv, Stopping
      <3>3. Range(todo') \subseteq Range(registry')
        BY <2>1, <2>2 DEF RegistryInv
      <3> QED
        BY <2>7, <3>1, <3>2, <3>3 DEF RegistryInv
    <2>9. LoopInv'
      BY <2>1, <2>2, <2>3 DEF LoopInv
    <2>10. HookInv'
      <3>1. HookOf(s)'
        <4>1. CASE service'[s] = "joining"
          BY <2>1, <2>2, <2>3, <2>4, <4>1 DEF HookOf, Stopping
        <4>2. CASE service'[s] = "present"
          <5>1. broker = "running" => Own(s) = {}
            BY <2>1, <2>2, <4>2, EmptyListFacts DEF PhaseInv
          <5> QED
            BY <2>1, <4>2, <5>1 DEF HookOf, Stopping
        <4>3. CASE service'[s] = "failed"
          BY <4>3 DEF HookOf, Stopping
        <4> QED
          BY <2>2, <4>1, <4>2, <4>3
      <3> QED
        BY <2>1, <2>7, <3>1 DEF HookInv
    <2> QED
      BY <2>6, <2>8, <2>9, <2>10
  <1>4. CASE ServiceJoins(s)
    <2> DEFINE rest == Tail(work[s])
               c == Head(work[s])
    <2>1. /\ service[s] = "joining" /\ connected /\ Join(c) /\ Register(s, rest)
          /\ UNCHANGED <<broker, todo, starts, started, connected,
                         unsubscribing, visited, size, faults>>
      BY <1>4 DEF ServiceJoins, brokerVars, closeVars
    <2>2. /\ work[s] # <<>> /\ rest \in Seq(Channels) /\ IsInjective(rest)
          /\ Range(rest) \subseteq Own(s) /\ Range(rest) \cap Range(registry) = {}
          /\ Range(work[s]) = {c} \cup Range(rest) /\ c \notin Range(rest)
          /\ c \in Channels /\ c \in Own(s)
          /\ broker = "running" /\ todo = <<>> /\ Range(todo) = {}
      BY <1>0, <1>1, <2>1, EmptyListFacts DEF ListInv, ServiceList, PhaseInv
    <2>3. /\ c \in Range(registry)
          /\ \A d \in {c} \cup Range(rest) : ~Consumed(d)
          /\ \A d \in Own(s) \ ({c} \cup Range(rest)) : Consumed(d)
      BY <2>1, <2>2 DEF RegistryInv, RegistryOf, HookInv, HookOf
    <2> HIDE DEF rest, c
    <2>4. /\ Range(registry) \subseteq Range(registry')
          /\ Range(registry') \subseteq Range(registry) \cup Range(rest)
          /\ \A t \in Services \ {s} : work'[t] = work[t] /\ service'[t] = service[t]
          /\ \/ /\ service'[s] = "present" /\ work'[s] = <<>>
                /\ (started => rest = <<>>)
             \/ /\ service'[s] = "joining" /\ work'[s] = rest /\ rest # <<>>
                /\ Head(rest) \in Range(registry')
             \/ service'[s] = "failed" /\ work'[s] = <<>>
      BY <2>1, <2>2, RegisterFacts
    <2>5. \A d : Consumed(d)' <=> Consumed(d) \/ d = c
      BY <2>1, <2>2, ConsumedJoin
    <2>6. DOMAIN table' = DOMAIN table \cup {c}
      BY <2>1, <2>2, JoinFacts
    <2>7. \A l \in loops' : l[1] \in DOMAIN table' /\ table'[l[1]] = l[2] /\ l[1] \in Range(registry')
      BY <2>1, <2>2, <2>3, <2>4, LoopsJoin
    <2>8. PhaseInv'
      BY <2>1, <2>2, <2>4 DEF PhaseInv, Stopping
    <2>9. LoopInv'
      BY <2>1, <2>2, <2>7 DEF LoopInv
    <2>10. \A t \in Services \ {s} : RegistryOf(t)' /\ HookOf(t)'
      <3>1. \A d \in Channels \ Own(s) : /\ d \in Range(registry') <=> d \in Range(registry)
                                         /\ Consumed(d)' <=> Consumed(d)
                                         /\ d \in DOMAIN table' <=> d \in DOMAIN table
        BY <2>2, <2>4, <2>5, <2>6
      <3> QED
        BY <2>1, <2>4, <3>1, OthersKept
    <2>11. service'[s] = "present" => \A d \in Own(s) : Consumed(d)' /\ d \in Range(registry')
      <3> SUFFICES ASSUME service'[s] = "present", NEW d \in Own(s)
                   PROVE  Consumed(d)' /\ d \in Range(registry')
        OBVIOUS
      <3>1. Range(rest) = {}
        BY <2>2, <2>4, EmptyListFacts DEF PhaseInv
      <3>2. Consumed(d)'
        BY <2>3, <2>5, <3>1
      <3> QED
        BY <2>7, <3>2 DEF Consumed
    <2>12. RegistryInv'
      <3>1. RegistryOf(s)'
        BY <2>4, <2>11 DEF RegistryOf
      <3>2. \A d \in unsubscribing' :
               \E t \in Services : d \in Own(t) /\ (Stopping(t)' \/ service'[t] = "gone")
        BY <2>1, <2>4 DEF RegistryInv, Stopping
      <3> QED
        BY <2>1, <2>2, <2>10, <3>1, <3>2 DEF RegistryInv
    <2>13. HookInv'
      <3>1. HookOf(s)'
        <4>1. CASE service'[s] = "joining"
          <5>1. \A d \in Range(rest) : ~Consumed(d)'
            BY <2>2, <2>3, <2>5
          <5>2. \A d \in Own(s) \ Range(rest) : Consumed(d)'
            BY <2>3, <2>5
          <5> QED
            BY <2>4, <4>1, <5>1, <5>2 DEF HookOf, Stopping
        <4>2. CASE service'[s] = "present"
          BY <2>11, <4>2 DEF HookOf, Stopping
        <4>3. CASE service'[s] = "failed"
          BY <4>3 DEF HookOf, Stopping
        <4> QED
          BY <2>4, <4>1, <4>2, <4>3
      <3> QED
        BY <2>1, <2>2, <2>10, <3>1 DEF HookInv
    <2> QED
      BY <2>8, <2>9, <2>12, <2>13
  <1>5. CASE ServiceJoinFails(s)
    <2>1. /\ UNCHANGED <<broker, todo, starts, registry, started, connected, table, joined, loops,
                         unsubscribing, visited, size>>
          /\ \A t \in Services \ {s} : work'[t] = work[t] /\ service'[t] = service[t]
          /\ service[s] = "joining" /\ service'[s] = "failed"
      BY <1>5 DEF ServiceJoinFails, brokerVars, tableVars, closeVars, TypeInv
    <2>2. \A d : Consumed(d)' <=> Consumed(d)
      BY <2>1 DEF Consumed
    <2>3. \A t \in Services \ {s} : RegistryOf(t)' /\ HookOf(t)'
      BY <2>1, <2>2, OthersKept
    <2>4. RegistryOf(s)' /\ HookOf(s)'
      BY <2>1 DEF RegistryOf, HookOf, Stopping
    <2>5. PhaseInv'
      BY <2>1 DEF PhaseInv, Stopping
    <2>6. RegistryInv'
      <3>1. \A c \in unsubscribing' :
               \E t \in Services : c \in Own(t) /\ (Stopping(t)' \/ service'[t] = "gone")
        BY <2>1 DEF RegistryInv, Stopping
      <3> QED
        BY <2>1, <2>3, <2>4, <3>1 DEF RegistryInv
    <2>7. LoopInv'
      BY <2>1, <2>2 DEF LoopInv
    <2>8. HookInv'
      BY <2>1, <2>2, <2>3, <2>4 DEF HookInv
    <2> QED
      BY <2>5, <2>6, <2>7, <2>8
  <1>6. CASE ServiceStopping(s)
    <2> DEFINE rest == Keep(registry, Own(s))
    <2>1. /\ rest \in Seq(Channels) /\ IsInjective(rest)
          /\ Range(rest) = Range(registry) \cap Own(s)
      BY <1>0, KeepFacts
    <2>2. /\ Leave(s, rest) /\ broker \in {"idle", "running", "failed"}
          /\ UNCHANGED <<broker, todo, starts, started, connected, table, joined, loops,
                         visited, size, faults>>
      BY <1>0, <1>6 DEF ServiceStopping, brokerVars, tableVars, closeVars
    <2> HIDE DEF rest
    <2>3. \A c \in Own(s) : Consumed(c) => c \in Range(rest)
      BY <2>1 DEF LoopInv, Consumed
    <2> QED
      BY <2>1, <2>2, <2>3, LeaveOStep
  <1>7. CASE ServiceWaited(s)
    <2>1. /\ work[s] # <<>> /\ service[s] = "waiting" /\ Stopping(s)
          /\ broker \in {"idle", "running", "failed"}
      BY <1>7 DEF ServiceWaited, ListInv, ServiceList, PhaseInv, Stopping
    <2>2. \A d \in Own(s) : Consumed(d) => d \in Range(work[s])
      BY <2>1 DEF HookInv, HookOf
    <2>3. CASE Head(work[s]) \in DOMAIN table
      <3> DEFINE c == Head(work[s])
      <3>1. /\ UNCHANGED <<broker, todo, starts, work, registry, started, connected, table, joined,
                           unsubscribing, visited, size, faults>>
            /\ \A t \in Services \ {s} : service'[t] = service[t]
            /\ service'[s] = "gathering"
            /\ Cancel(c) /\ c \in Own(s) /\ c \in Channels /\ c \in DOMAIN table
        BY <1>0, <1>1, <1>7, <2>1, <2>3 DEF ServiceWaited, brokerVars, closeVars, TypeInv
      <3>2. c = Head(work'[s])
        BY <3>1
      <3> HIDE DEF c
      <3>3. loops' \subseteq loops /\ \A d : Consumed(d)' <=> Consumed(d) /\ d # c
        BY <3>1, ConsumedCancel
      <3>4. todo = <<>> /\ Range(todo) = {}
        BY <2>1, EmptyListFacts DEF ListInv
      <3>5. \A t \in Services \ {s} : RegistryOf(t)' /\ HookOf(t)'
        <4>1. \A d \in Channels \ Own(s) : Consumed(d)' <=> Consumed(d)
          BY <3>1, <3>3
        <4> QED
          BY <3>1, <4>1, OthersKept
      <3>6. RegistryOf(s)'
        BY <3>1 DEF RegistryOf
      <3>7. HookOf(s)'
        BY <2>2, <3>1, <3>2, <3>3 DEF HookOf, Stopping
      <3>8. PhaseInv'
        BY <2>1, <3>1 DEF PhaseInv, Stopping
      <3>9. RegistryInv'
        <4>1. \A d \in unsubscribing' :
                 \E t \in Services : d \in Own(t) /\ (Stopping(t)' \/ service'[t] = "gone")
          BY <3>1 DEF RegistryInv, Stopping
        <4> QED
          BY <3>1, <3>4, <3>5, <3>6, <4>1 DEF RegistryInv
      <3>10. LoopInv'
        BY <2>1, <3>1, <3>3, <3>4 DEF LoopInv
      <3>11. HookInv'
        BY <2>1, <3>1, <3>5, <3>7 DEF HookInv
      <3> QED
        BY <3>8, <3>9, <3>10, <3>11
    <2>4. CASE Head(work[s]) \notin DOMAIN table
      <3> DEFINE rest == Tail(work[s])
      <3>1. /\ Leave(s, rest)
            /\ UNCHANGED <<broker, todo, starts, started, connected, table, joined, loops,
                           visited, size, faults>>
        BY <1>7, <2>4 DEF ServiceWaited, brokerVars, closeVars
      <3>2. ~Consumed(Head(work[s]))
        BY <2>4 DEF LoopInv, Consumed
      <3>3. /\ rest \in Seq(Channels) /\ IsInjective(rest) /\ Range(rest) \subseteq Own(s)
            /\ \A d \in Own(s) : Consumed(d) => d \in Range(rest)
        BY <1>0, <1>1, <2>1, <2>2, <3>2
      <3> HIDE DEF rest
      <3> QED
        BY <2>1, <3>1, <3>3, LeaveOStep
    <2> QED
      BY <2>3, <2>4
  <1>8. CASE ServiceGathered(s)
    <2> DEFINE c == Head(work[s])
               rest == Tail(work[s])
    <2>1. /\ work[s] # <<>> /\ service[s] = "gathering" /\ Stopping(s)
          /\ broker \in {"idle", "running", "failed"}
      BY <1>8 DEF ServiceGathered, ListInv, ServiceList, PhaseInv, Stopping
    <2>2. /\ \A d \in Own(s) : Consumed(d) => d \in Range(work[s])
          /\ ~Consumed(c) /\ c \in DOMAIN table
      BY <2>1 DEF HookInv, HookOf
    <2>3. /\ Leave(s, rest)
          /\ table' = [d \in DOMAIN table \ {c} |-> table[d]]
          /\ UNCHANGED <<broker, todo, starts, started, connected, joined, loops,
                         visited, size, faults>>
      BY <1>8, <2>2 DEF ServiceGathered, brokerVars, closeVars
    <2>4. /\ rest \in Seq(Channels) /\ IsInjective(rest) /\ Range(rest) \subseteq Own(s)
          /\ \A d \in Own(s) : Consumed(d) => d \in Range(rest)
          /\ c \in Own(s) /\ c \notin Range(rest)
      BY <1>0, <1>1, <2>1, <2>2
    <2> HIDE DEF c, rest
    <2>5. /\ DOMAIN table' = DOMAIN table \ {c}
          /\ \A d \in DOMAIN table' : table'[d] = table[d]
      BY <2>3
    <2>6. /\ \A d \in Own(s) \cap Range(rest) : d \in DOMAIN table => d \in DOMAIN table'
          /\ \A d \in Channels \ Own(s) : d \in DOMAIN table' <=> d \in DOMAIN table
      BY <2>4, <2>5
    <2> QED
      BY <2>1, <2>3, <2>4, <2>5, <2>6, LeaveOStep
  <1> QED
    BY <1>3, <1>4, <1>5, <1>6, <1>7, <1>8 DEF ServiceStep

\* A loop that ends by itself belongs to a service that stops.
LEMMA LoopOStep ==
  ASSUME GInv, OInv, NEW l \in Loops, LoopExits(l)
  PROVE  OInv'
  <1> USE DEF GInv, OInv
  <1>1. /\ l \in loops /\ l[1] \in unsubscribing /\ loops' = loops \ {l}
        /\ UNCHANGED <<broker, todo, starts, service, work, registry, started, connected, table,
                       joined, unsubscribing, visited, size>>
    BY DEF LoopExits, brokerVars, serviceVars, closeVars
  <1>2. PICK s \in Services : l[1] \in Own(s) /\ (Stopping(s) \/ service[s] = "gone")
    BY <1>1 DEF RegistryInv
  <1>3. l[1] \in Range(registry)
    BY <1>1 DEF LoopInv
  <1>4. Stopping(s)
    BY <1>2, <1>3 DEF RegistryInv, RegistryOf
  <1>5. \A d : (Consumed(d)' => Consumed(d)) /\ (d # l[1] => (Consumed(d) => Consumed(d)'))
    BY <1>1 DEF Consumed
  <1>6. PhaseInv'
    BY <1>1 DEF PhaseInv, Stopping
  <1>7. RegistryInv'
    BY <1>1 DEF RegistryInv, RegistryOf, Stopping
  <1>8. LoopInv'
    BY <1>1, <1>5 DEF LoopInv
  <1>9. HookInv'
    <2>1. \A d \in Channels \ Own(s) : Consumed(d)' <=> Consumed(d)
      BY <1>2, <1>5
    <2>2. \A t \in Services \ {s} : HookOf(t)'
      BY <1>1, <2>1, OthersKept
    <2>3. HookOf(s)'
      BY <1>1, <1>4, <1>5 DEF HookInv, HookOf, Stopping
    <2>4. broker # "joining"
      BY <1>4 DEF PhaseInv
    <2> QED
      BY <1>1, <2>2, <2>3, <2>4 DEF HookInv
  <1> QED
    BY <1>6, <1>7, <1>8, <1>9

LEMMA NextOInv ==
  ASSUME Orderly, GInv, OInv, [Next]_vars
  PROVE  OInv'
  <1>1. CASE UNCHANGED vars
    BY <1>1 DEF OInv, PhaseInv, RegistryInv, RegistryOf, LoopInv, HookInv, HookOf, Stopping, Consumed,
                vars, brokerVars, serviceVars, tableVars, closeVars
  <1> QED
    BY <1>1, BrokerOStep, ServiceOStep, LoopOStep DEF Next

LEMMA OInvariance ==
  ASSUME Orderly
  PROVE  Spec => [](GInv /\ OInv)
  <1>1. GInv /\ OInv /\ [Next]_vars => (GInv /\ OInv)'
    BY NextGInv, NextOInv
  <1> QED
    BY <1>1, InitGInv, InitOInv, PTL DEF Spec

(* What the hooks rely on across their awaits holds when they keep clear of  *)
(* each other.                                                               *)
THEOREM Invariance ==
  ASSUME Orderly
  PROVE  Spec => []IInv
  <1>1. GInv /\ OInv => IInv
    BY GInvTypeOK DEF GInv, OInv, TableInv, ListInv, ServiceList, HookInv, HookOf, IInv
  <1> QED
    BY <1>1, OInvariance, PTL

(* While the broker runs, every channel of a service that was created is     *)
(* consumed, whether service_created registered it before broker_starting    *)
(* connected or after the broker had started.                                *)
THEOREM Subscribed ==
  ASSUME Orderly, ~CreateWhileStarting
  PROVE  Spec => []AllSubscribed
  <1>1. OInv => AllSubscribed
    BY DEF OInv, HookInv, HookOf, AllSubscribed
  <1> QED
    BY <1>1, OInvariance, PTL

(* unsubscribe and disconnect find every loop that runs.                     *)
THEOREM Tracked ==
  ASSUME Orderly
  PROVE  Spec => []LoopsTracked
  <1>1. OInv => LoopsTracked
    BY DEF OInv, LoopInv, LoopsTracked
  <1> QED
    BY <1>1, OInvariance, PTL

(* No loop outlives its connection, and nothing is left of a service that    *)
(* was stopped.                                                              *)
THEOREM Left ==
  ASSUME Orderly
  PROVE  Spec => []NothingLeft
  <1>1. OInv => NothingLeft
    BY DEF OInv, LoopInv, RegistryInv, RegistryOf, NothingLeft, Consumed
  <1> QED
    BY <1>1, OInvariance, PTL
=============================================================================
