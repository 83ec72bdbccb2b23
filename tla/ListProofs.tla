------------------------------ MODULE ListProofs ------------------------------
(***************************************************************************)
(* What Keep returns, for every list, and the facts about lists without    *)
(* repetition that the proofs about registries and subscriptions need.     *)
(* Induction is taken from the well-foundedness of the strict subset       *)
(* ordering, which the library states of sets and not of operators.        *)
(***************************************************************************)
EXTENDS Lists, Functions, SequenceTheorems, FiniteSetTheorems, WellFoundedInduction, TLAPS

-----------------------------------------------------------------------------
(* Induction over the natural numbers, for a set of them. *)

LEMMA SmallestOf ==
  ASSUME NEW T, T \subseteq Nat, T # {}
  PROVE  \E m \in T : \A k \in T : m <= k
  <1> DEFINE R == StrictSubsetOrdering(Nat)
             F == {0 .. m : m \in T}
  <1>1. IsWellFoundedOn(R, FiniteSubsetsOf(Nat))
    BY FS_StrictSubsetOrderingWellFounded
  <1>2. F \subseteq FiniteSubsetsOf(Nat) /\ F # {}
    <2>1. \A m \in T : IsFiniteSet(0 .. m) /\ 0 .. m \subseteq Nat
      BY FS_Interval
    <2> QED
      BY <2>1 DEF FiniteSubsetsOf
  <1> HIDE DEF R
  <1>3. PICK X \in F : \A Y \in F : ~(<<Y, X>> \in R)
    <2> HIDE DEF F
    <2> QED
      BY <1>1, <1>2, WFMin
  <1>4. PICK m \in T : X = 0 .. m
    BY <1>3
  <1>5. ASSUME NEW k \in T, k < m PROVE FALSE
    <2>1. m \in 0 .. m /\ m \notin 0 .. k
      BY <1>5
    <2>2. /\ 0 .. k \in F /\ 0 .. k \subseteq 0 .. m /\ 0 .. k # 0 .. m
          /\ 0 .. k \subseteq Nat /\ 0 .. m \subseteq Nat
      BY <1>5, <2>1
    <2> QED
      BY <1>3, <1>4, <2>2 DEF R, StrictSubsetOrdering
  <1> QED
    BY <1>5

LEMMA SetInduction ==
  ASSUME NEW T, 0 \in T, \A n \in Nat : n \in T => n + 1 \in T
  PROVE  Nat \subseteq T
  <1> DEFINE N == Nat \ T
  <1> SUFFICES ASSUME N # {} PROVE FALSE
    OBVIOUS
  <1>1. PICK m \in N : \A k \in N : m <= k
    BY SmallestOf
  <1>2. m # 0 /\ m - 1 \in Nat /\ m - 1 \notin N
    BY <1>1
  <1> QED
    BY <1>2

-----------------------------------------------------------------------------
(* Ascending and Keep *)

IsAscending(p, I) ==
    p \in [1 .. Cardinality(I) -> I] /\ \A i, j \in DOMAIN p : i < j => p[i] < p[j]

\* Every finite set of numbers can be put into ascending order.
LEMMA AscendingExists ==
  ASSUME NEW n \in Nat, NEW I \in SUBSET (1 .. n)
  PROVE  \E p : IsAscending(p, I)
  <1> DEFINE T == {m \in Nat : \A J \in SUBSET (1 .. m) : \E p : IsAscending(p, J)}
  <1>1. 0 \in T
    <2> SUFFICES ASSUME NEW J \in SUBSET (1 .. 0) PROVE \E p : IsAscending(p, J)
      OBVIOUS
    <2>1. J = {} /\ Cardinality(J) = 0
      <3>1. J = {}
        OBVIOUS
      <3> QED
        BY <3>1, FS_EmptySet
    <2> DEFINE p == [i \in {} |-> i]
    <2>2. p \in [1 .. Cardinality(J) -> J] /\ DOMAIN p = {}
      <3>1. 1 .. 0 = {}
        OBVIOUS
      <3>2. p \in [{} -> {}]
        OBVIOUS
      <3> QED
        BY <2>1, <3>1, <3>2
    <2> HIDE DEF p
    <2>3. IsAscending(p, J)
      BY <2>2 DEF IsAscending
    <2> QED
      BY <2>3
  <1>2. ASSUME NEW m \in Nat, m \in T PROVE m + 1 \in T
    <2> SUFFICES ASSUME NEW J \in SUBSET (1 .. m + 1) PROVE \E p : IsAscending(p, J)
      BY <1>2
    <2> DEFINE K == J \ {m + 1}
    <2>1. K \in SUBSET (1 .. m)
      OBVIOUS
    <2>2. PICK p : IsAscending(p, K)
      BY <1>2, <2>1
    <2>3. CASE m + 1 \notin J
      BY <2>2, <2>3
    <2>4. CASE m + 1 \in J
      <3> DEFINE c == Cardinality(K)
                 r == [i \in 1 .. c + 1 |-> IF i = c + 1 THEN m + 1 ELSE p[i]]
      <3>0. IsFiniteSet(1 .. m)
        BY FS_Interval
      <3>1. IsFiniteSet(K) /\ c \in Nat
        BY <2>1, <3>0, FS_Subset, FS_CardinalityType
      <3>2. Cardinality(K \cup {m + 1}) = c + 1 /\ K \cup {m + 1} = J
        <4>1. m + 1 \notin K /\ K \cup {m + 1} = J
          BY <2>4
        <4> QED
          BY <3>1, <4>1, FS_AddElement
      <3> HIDE DEF c
      <3>3. p \in [1 .. c -> K] /\ \A i, j \in 1 .. c : i < j => p[i] < p[j]
        BY <2>2 DEF IsAscending, c
      <3>4. r \in [1 .. c + 1 -> J]
        BY <2>4, <3>1, <3>3
      <3>5. ASSUME NEW i \in 1 .. c + 1, NEW j \in 1 .. c + 1, i < j PROVE r[i] < r[j]
        <4>0. i \in 1 .. c
          BY <3>1, <3>5
        <4>1. r[i] = p[i] /\ p[i] \in K /\ p[i] < m + 1
          <5>1. i # c + 1 /\ i \in 1 .. c + 1
            BY <3>1, <4>0
          <5>2. p[i] \in K
            BY <3>3, <4>0
          <5>3. \A x \in K : x \in 1 .. m
            BY <2>1
          <5>4. r[i] = p[i]
            BY <5>1
          <5>5. p[i] \in 1 .. m
            BY <5>2, <5>3
          <5> HIDE DEF r
          <5> QED
            BY <5>2, <5>4, <5>5
        <4>2. CASE j = c + 1
          <5>1. r[j] = m + 1
            BY <4>2
          <5> QED
            BY <4>1, <5>1
        <4>3. CASE j # c + 1
          BY <3>1, <3>3, <3>5, <4>1, <4>3
        <4> QED
          BY <4>2, <4>3
      <3>6. IsAscending(r, J)
        BY <3>2, <3>4, <3>5 DEF IsAscending
      <3> QED
        BY <3>6
    <2> QED
      BY <2>3, <2>4
  <1>3. Nat \subseteq T
    <2> HIDE DEF T
    <2> QED
      BY <1>1, <1>2, SetInduction
  <1> QED
    BY <1>3

LEMMA AscendingFacts ==
  ASSUME NEW n \in Nat, NEW I \in SUBSET (1 .. n)
  PROVE  /\ Cardinality(I) \in Nat
         /\ Ascending(I) \in [1 .. Cardinality(I) -> I]
         /\ \A i, j \in 1 .. Cardinality(I) : Ascending(I)[i] = Ascending(I)[j] => i = j
         /\ \A x \in I : \E i \in 1 .. Cardinality(I) : Ascending(I)[i] = x
  <1> DEFINE p == Ascending(I)
             c == Cardinality(I)
  <1>0. IsFiniteSet(1 .. n)
    BY FS_Interval
  <1>1. IsFiniteSet(I) /\ c \in Nat
    BY <1>0, FS_Subset, FS_CardinalityType
  <1>2. IsAscending(p, I)
    <2>1. PICK q : IsAscending(q, I)
      BY AscendingExists
    <2>2. \E x \in [1 .. Cardinality(I) -> I] : \A i, j \in DOMAIN x : i < j => x[i] < x[j]
      BY <2>1 DEF IsAscending
    <2> QED
      BY <2>2 DEF IsAscending, Ascending
  <1> HIDE DEF p, c
  <1>3. p \in [1 .. c -> I] /\ \A i, j \in 1 .. c : i < j => p[i] < p[j]
    BY <1>2 DEF IsAscending, c
  <1>4. \A i, j \in 1 .. c : p[i] = p[j] => i = j
    <2> SUFFICES ASSUME NEW i \in 1 .. c, NEW j \in 1 .. c, p[i] = p[j], i # j PROVE FALSE
      OBVIOUS
    <2>1. i < j \/ j < i
      BY <1>1
    <2>2. p[i] \in I /\ p[i] \in 1 .. n
      BY <1>3
    <2>3. p[i] < p[j] \/ p[j] < p[i]
      BY <1>3, <2>1
    <2> QED
      BY <2>2, <2>3
  <1>5. p \in Injection(1 .. c, I)
    BY <1>3, <1>4 DEF Injection, IsInjective
  <1>6. Cardinality(1 .. c) = c
    BY <1>1, FS_Interval
  <1>7. p \in Surjection(1 .. c, I)
    BY <1>1, <1>5, <1>6, FS_Injection DEF c
  <1> QED
    BY <1>1, <1>3, <1>4, <1>7 DEF Surjection, p, c

(* A list comprehension keeps the elements that are asked for and no others, *)
(* and repeats none that the list did not repeat.                            *)
LEMMA KeepFacts ==
  ASSUME NEW T, NEW q \in Seq(T), NEW S
  PROVE  /\ Keep(q, S) \in Seq(T)
         /\ Range(Keep(q, S)) = Range(q) \cap S
         /\ IsInjective(q) => IsInjective(Keep(q, S))
  <1> DEFINE I == {i \in DOMAIN q : q[i] \in S}
             p == Ascending(I)
             c == Cardinality(I)
             r == Keep(q, S)
  <1>1. Len(q) \in Nat /\ DOMAIN q = 1 .. Len(q) /\ \A i \in 1 .. Len(q) : q[i] \in T
    BY LenProperties
  <1>2. I \in SUBSET (1 .. Len(q))
    BY <1>1
  <1>3. /\ c \in Nat /\ p \in [1 .. c -> I]
        /\ \A i, j \in 1 .. c : p[i] = p[j] => i = j
        /\ \A x \in I : \E i \in 1 .. c : p[i] = x
    BY <1>1, <1>2, AscendingFacts
  <1>4. r = [k \in 1 .. c |-> q[p[k]]]
    BY <1>3 DEF Keep
  <1> HIDE DEF p, c, r
  <1>5. r \in [1 .. c -> T]
    BY <1>1, <1>2, <1>3, <1>4
  <1>6. r \in Seq(T)
    BY <1>3, <1>5, SeqDef
  <1>7. \A x : x \in Range(r) <=> x \in Range(q) \cap S
    <2>1. ASSUME NEW x \in Range(r) PROVE x \in Range(q) \cap S
      <3>1. PICK k \in 1 .. c : x = q[p[k]]
        BY <1>4, <2>1 DEF Range
      <3> QED
        BY <1>3, <3>1 DEF Range
    <2>2. ASSUME NEW x \in Range(q) \cap S PROVE x \in Range(r)
      <3>1. PICK i \in DOMAIN q : x = q[i]
        BY DEF Range
      <3>2. PICK k \in 1 .. c : p[k] = i
        BY <1>3, <2>2, <3>1
      <3> QED
        BY <1>4, <3>1, <3>2 DEF Range
    <2> QED
      BY <2>1, <2>2
  <1>8. ASSUME IsInjective(q) PROVE IsInjective(r)
    BY <1>3, <1>4, <1>8 DEF IsInjective
  <1> QED
    BY <1>6, <1>7, <1>8 DEF r

-----------------------------------------------------------------------------
(* Lists that are gone through, cut and joined. *)

LEMMA EmptyListFacts ==
  /\ Range(<<>>) = {} /\ IsInjective(<<>>)
  /\ \A T : \A q \in Seq(T) : q # <<>> => Range(q) # {}
  <1>1. DOMAIN <<>> = {}
    OBVIOUS
  <1>2. ASSUME NEW T, NEW q \in Seq(T), q # <<>> PROVE Range(q) # {}
    <2>1. Len(q) \in Nat \ {0} /\ DOMAIN q = 1 .. Len(q)
      BY <1>2, EmptySeq, LenProperties
    <2>2. 1 \in DOMAIN q
      BY <2>1
    <2> QED
      BY <2>2 DEF Range
  <1> QED
    BY <1>1, <1>2 DEF Range, IsInjective

LEMMA HeadTailFacts ==
  ASSUME NEW T, NEW q \in Seq(T), q # <<>>
  PROVE  /\ Head(q) \in T /\ Head(q) \in Range(q) /\ Tail(q) \in Seq(T)
         /\ Range(q) = {Head(q)} \cup Range(Tail(q))
         /\ IsInjective(q) => IsInjective(Tail(q)) /\ Head(q) \notin Range(Tail(q))
  <1> DEFINE t == Tail(q)
  <1>1. Len(q) \in Nat \ {0} /\ DOMAIN q = 1 .. Len(q)
    BY EmptySeq, LenProperties
  <1>2. /\ Head(q) \in T /\ t \in Seq(T) /\ Len(t) = Len(q) - 1
        /\ \A i \in 1 .. Len(t) : t[i] = q[i + 1]
    BY HeadTailProperties
  <1>3. DOMAIN t = 1 .. Len(t) /\ Len(t) \in Nat
    BY <1>2, LenProperties
  <1>4. Head(q) = q[1]
    OBVIOUS
  <1> HIDE DEF t
  <1>5. \A x : x \in Range(q) <=> x = q[1] \/ x \in Range(t)
    <2>1. ASSUME NEW x \in Range(q), x # q[1] PROVE x \in Range(t)
      <3>1. PICK i \in 1 .. Len(q) : x = q[i]
        BY <1>1 DEF Range
      <3>2. i - 1 \in 1 .. Len(t) /\ t[i - 1] = q[i - 1 + 1] /\ i - 1 + 1 = i
        BY <1>1, <1>2, <2>1, <3>1
      <3> QED
        BY <1>3, <3>1, <3>2 DEF Range
    <2>2. ASSUME NEW x \in Range(t) PROVE x \in Range(q)
      <3>1. PICK i \in 1 .. Len(t) : x = t[i]
        BY <1>3 DEF Range
      <3>2. i + 1 \in 1 .. Len(q) /\ x = q[i + 1]
        BY <1>1, <1>2, <3>1
      <3> QED
        BY <1>1, <3>2 DEF Range
    <2>3. q[1] \in Range(q)
      BY <1>1 DEF Range
    <2> QED
      BY <2>1, <2>2, <2>3
  <1>6. ASSUME IsInjective(q) PROVE IsInjective(t) /\ q[1] \notin Range(t)
    <2>1. \A i \in 1 .. Len(t) : i + 1 \in DOMAIN q /\ i + 1 # 1
      BY <1>1, <1>2, <1>3
    <2>2. \A i, j \in 1 .. Len(t) : i + 1 = j + 1 => i = j
      OBVIOUS
    <2>3. 1 \in DOMAIN q
      BY <1>1
    <2>4. \A i, j \in 1 .. Len(t) : t[i] = t[j] => i = j
      BY <1>2, <1>6, <2>1, <2>2 DEF IsInjective
    <2>5. \A i \in 1 .. Len(t) : t[i] # q[1]
      BY <1>2, <1>6, <2>1, <2>3 DEF IsInjective
    <2> QED
      BY <1>3, <2>4, <2>5 DEF IsInjective, Range
  <1> QED
    BY <1>2, <1>4, <1>5, <1>6 DEF t

LEMMA SingleFacts ==
  ASSUME NEW T, NEW x \in T
  PROVE  <<x>> \in Seq(T) /\ Range(<<x>>) = {x} /\ IsInjective(<<x>>)
  BY DEF Range, IsInjective

LEMMA PrefixFacts ==
  ASSUME NEW T, NEW q \in Seq(T), NEW k \in 0 .. Len(q)
  PROVE  /\ SubSeq(q, 1, k) \in Seq(T)
         /\ Range(SubSeq(q, 1, k)) \subseteq Range(q)
         /\ IsInjective(q) => IsInjective(SubSeq(q, 1, k))
         /\ SubSeq(q, 1, k) # <<>> => Head(SubSeq(q, 1, k)) = Head(q)
  <1> DEFINE r == SubSeq(q, 1, k)
  <1>1. Len(q) \in Nat /\ DOMAIN q = 1 .. Len(q) /\ \A i \in 1 .. Len(q) : q[i] \in T
    BY LenProperties
  <1>2. /\ r \in Seq(T)
        /\ Len(r) = IF 1 <= k THEN k - 1 + 1 ELSE 0
        /\ \A i \in 1 .. k - 1 + 1 : r[i] = q[1 + i - 1]
    <2>1. \A i \in 1 .. k : q[i] \in T
      BY <1>1
    <2> QED
      BY <1>1, <2>1, SubSeqProperties
  <1>3. Len(r) = k /\ DOMAIN r = 1 .. k /\ \A i \in 1 .. k : r[i] = q[i] /\ i \in DOMAIN q
    <2>1. Len(r) = k
      BY <1>1, <1>2
    <2>2. DOMAIN r = 1 .. k
      BY <1>2, <2>1, LenProperties
    <2>3. \A i \in 1 .. k : i \in 1 .. k - 1 + 1 /\ 1 + i - 1 = i /\ i \in DOMAIN q
      BY <1>1
    <2> QED
      BY <1>2, <2>1, <2>2, <2>3
  <1> HIDE DEF r
  <1>4. r # <<>> => Head(r) = Head(q)
    <2> SUFFICES ASSUME r # <<>> PROVE Head(r) = Head(q)
      OBVIOUS
    <2>1. 1 \in 1 .. k
      BY <1>2, <1>3, EmptySeq
    <2>2. Head(r) = r[1] /\ Head(q) = q[1]
      <3>1. \A z \in Seq(T) : z # <<>> => Head(z) = z[1]
        OBVIOUS
      <3>2. q # <<>>
        BY <1>1, <2>1, EmptySeq
      <3> QED
        BY <1>2, <3>1, <3>2
    <2> QED
      BY <1>3, <2>1, <2>2
  <1> QED
    BY <1>2, <1>3, <1>4 DEF Range, IsInjective, r

LEMMA ConcatFacts ==
  ASSUME NEW T, NEW q \in Seq(T), NEW r \in Seq(T)
  PROVE  /\ q \o r \in Seq(T)
         /\ Range(q \o r) = Range(q) \cup Range(r)
         /\ IsInjective(q) /\ IsInjective(r) /\ Range(q) \cap Range(r) = {} => IsInjective(q \o r)
  <1> DEFINE s == q \o r
  <1>1. s \in Seq(T) /\ Range(s) = Range(q) \cup Range(r)
    BY ConcatProperties, RangeConcatenation
  <1>2. /\ Len(q) \in Nat /\ Len(r) \in Nat /\ Len(s) = Len(q) + Len(r)
        /\ DOMAIN q = 1 .. Len(q) /\ DOMAIN r = 1 .. Len(r) /\ DOMAIN s = 1 .. Len(s)
        /\ \A i \in 1 .. Len(q) + Len(r) : s[i] = IF i <= Len(q) THEN q[i] ELSE r[i - Len(q)]
    <2>1. DOMAIN s = 1 .. Len(s)
      BY <1>1, LenProperties
    <2> QED
      BY <2>1, ConcatProperties, LenProperties
  <1> HIDE DEF s
  <1>3. ASSUME IsInjective(q), IsInjective(r), Range(q) \cap Range(r) = {},
               NEW i \in DOMAIN s, NEW j \in DOMAIN s, s[i] = s[j]
        PROVE  i = j
    <2>1. i \in Int /\ j \in Int /\ i \in 1 .. Len(q) + Len(r) /\ j \in 1 .. Len(q) + Len(r)
      BY <1>2
    <2>2. CASE i <= Len(q) /\ j <= Len(q)
      <3>1. s[i] = q[i] /\ s[j] = q[j] /\ i \in DOMAIN q /\ j \in DOMAIN q
        BY <1>2, <2>1, <2>2
      <3> QED
        BY <1>3, <3>1 DEF IsInjective
    <2>3. CASE ~(i <= Len(q)) /\ ~(j <= Len(q))
      <3>1. /\ s[i] = r[i - Len(q)] /\ s[j] = r[j - Len(q)]
            /\ i - Len(q) \in DOMAIN r /\ j - Len(q) \in DOMAIN r
        BY <1>2, <2>1, <2>3
      <3>2. i - Len(q) = j - Len(q)
        BY <1>3, <3>1 DEF IsInjective
      <3> QED
        BY <1>2, <2>1, <3>2
    <2>4. CASE i <= Len(q) /\ ~(j <= Len(q))
      <3>1. s[i] = q[i] /\ i \in DOMAIN q /\ s[j] = r[j - Len(q)] /\ j - Len(q) \in DOMAIN r
        BY <1>2, <2>1, <2>4
      <3>2. s[i] \in Range(q) /\ s[j] \in Range(r)
        BY <3>1 DEF Range
      <3> QED
        BY <1>3, <3>2
    <2>5. CASE ~(i <= Len(q)) /\ j <= Len(q)
      <3>1. s[j] = q[j] /\ j \in DOMAIN q /\ s[i] = r[i - Len(q)] /\ i - Len(q) \in DOMAIN r
        BY <1>2, <2>1, <2>5
      <3>2. s[j] \in Range(q) /\ s[i] \in Range(r)
        BY <3>1 DEF Range
      <3> QED
        BY <1>3, <3>2
    <2> QED
      BY <2>2, <2>3, <2>4, <2>5
  <1> QED
    BY <1>1, <1>3 DEF IsInjective, s

LEMMA AppendFacts ==
  ASSUME NEW T, NEW q \in Seq(T), NEW x \in T
  PROVE  /\ Append(q, x) \in Seq(T) /\ Len(Append(q, x)) = Len(q) + 1
         /\ DOMAIN q = 1 .. Len(q) /\ DOMAIN Append(q, x) = 1 .. Len(q) + 1
         /\ Len(q) \in Nat /\ Len(q) + 1 \notin DOMAIN q
         /\ DOMAIN Append(q, x) = DOMAIN q \cup {Len(q) + 1}
         /\ Append(q, x)[Len(q) + 1] = x
         /\ \A i \in DOMAIN q : Append(q, x)[i] = q[i] /\ q[i] \in T
         /\ Range(Append(q, x)) = Range(q) \cup {x}
         /\ IsInjective(q) /\ x \notin Range(q) => IsInjective(Append(q, x))
  <1> DEFINE r == Append(q, x)
  <1>1. /\ r \in Seq(T) /\ Len(r) = Len(q) + 1
        /\ \A i \in 1 .. Len(q) : r[i] = q[i]
        /\ r[Len(q) + 1] = x
    BY AppendProperties
  <1>2. /\ Len(q) \in Nat /\ DOMAIN q = 1 .. Len(q) /\ \A i \in 1 .. Len(q) : q[i] \in T
        /\ DOMAIN r = 1 .. Len(r)
    BY <1>1, LenProperties
  <1> HIDE DEF r
  <1>3. DOMAIN r = DOMAIN q \cup {Len(q) + 1} /\ Len(q) + 1 \notin DOMAIN q
    BY <1>1, <1>2
  <1>4. Range(r) = Range(q) \cup {x}
    BY <1>1, <1>2, <1>3 DEF Range
  <1>5. IsInjective(q) /\ x \notin Range(q) => IsInjective(r)
    BY <1>1, <1>2, <1>3 DEF Range, IsInjective
  <1> QED
    BY <1>1, <1>2, <1>3, <1>4, <1>5 DEF r
=============================================================================
