----------------------------- MODULE RingLemmas -----------------------------
(***************************************************************************)
(* Facts about the sequences and sets that the data plane is built from:   *)
(* what a ring contains after entries are added at its end or taken from   *)
(* its front, and how many chunks a family of rings can hold.              *)
(***************************************************************************)
EXTENDS Integers, Sequences, FiniteSets, Functions, SequenceTheorems,
        FiniteSetTheorems, TLAPS

\* Two rings with no entry in common, put one after the other, have no
\* entry twice.
LEMMA ConcatFacts ==
  ASSUME NEW S, NEW s \in Seq(S), NEW t \in Seq(S)
  PROVE  /\ s \o t \in Seq(S)
         /\ Len(s \o t) = Len(s) + Len(t)
         /\ Range(s \o t) = Range(s) \cup Range(t)
         /\ IsInjective(s) /\ IsInjective(t) /\ Range(s) \cap Range(t) = {}
              => IsInjective(s \o t)
<1>1. /\ s \o t \in Seq(S)
      /\ Len(s \o t) = Len(s) + Len(t)
      /\ \A i \in 1 .. Len(s) + Len(t) :
           (s \o t)[i] = IF i <= Len(s) THEN s[i] ELSE t[i - Len(s)]
  BY ConcatProperties
<1>2. /\ Len(s) \in Nat /\ Len(t) \in Nat
      /\ DOMAIN s = 1..Len(s) /\ DOMAIN t = 1..Len(t)
      /\ DOMAIN (s \o t) = 1..(Len(s) + Len(t))
  BY <1>1, LenProperties
<1>3. Range(s \o t) \subseteq Range(s) \cup Range(t)
  BY <1>1, <1>2 DEF Range
<1>4. Range(s) \subseteq Range(s \o t)
  BY <1>1, <1>2 DEF Range
<1>5. Range(t) \subseteq Range(s \o t)
  <2>1. ASSUME NEW i \in 1..Len(t) PROVE t[i] \in Range(s \o t)
    <3>1. /\ i + Len(s) \in 1..(Len(s) + Len(t))
          /\ (s \o t)[i + Len(s)] = t[i]
      BY <1>1, <1>2
    <3> QED BY <3>1, <1>2 DEF Range
  <2> QED BY <2>1, <1>2 DEF Range
<1>6. ASSUME IsInjective(s), IsInjective(t), Range(s) \cap Range(t) = {}
      PROVE  IsInjective(s \o t)
  <2>1. \A i \in DOMAIN s, j \in DOMAIN t : s[i] # t[j]
    BY <1>6 DEF Range
  <2>2. SUFFICES ASSUME NEW i \in 1..(Len(s) + Len(t)),
                        NEW j \in 1..(Len(s) + Len(t)),
                        (s \o t)[i] = (s \o t)[j]
                 PROVE  i = j
    BY <1>2 DEF IsInjective
  <2>3. CASE i <= Len(s) /\ j <= Len(s)
    BY <2>2, <2>3, <1>1, <1>2, <1>6 DEF IsInjective
  <2>4. CASE i > Len(s) /\ j > Len(s)
    <3>1. i - Len(s) \in DOMAIN t /\ j - Len(s) \in DOMAIN t
      BY <2>4, <1>2
    <3>2. t[i - Len(s)] = t[j - Len(s)]
      BY <2>2, <2>4, <1>1, <1>2
    <3>3. i - Len(s) = j - Len(s)
      BY <3>1, <3>2, <1>6 DEF IsInjective
    <3> QED BY <3>3, <1>2
  <2>5. CASE i <= Len(s) /\ j > Len(s)
    BY <2>1, <2>2, <2>5, <1>1, <1>2
  <2>6. CASE i > Len(s) /\ j <= Len(s)
    BY <2>1, <2>2, <2>6, <1>1, <1>2
  <2> QED BY <2>3, <2>4, <2>5, <2>6, <1>2
<1> QED BY <1>1, <1>3, <1>4, <1>5, <1>6

\* Cutting a ring after its first k entries splits what it contains.
LEMMA SplitFacts ==
  ASSUME NEW S, NEW s \in Seq(S), NEW k \in 0..Len(s)
  PROVE  LET p == SubSeq(s, 1, k)
             q == SubSeq(s, k + 1, Len(s))
         IN  /\ p \in Seq(S) /\ q \in Seq(S)
             /\ Len(p) = k /\ Len(q) = Len(s) - k
             /\ Range(p) \cup Range(q) = Range(s)
             /\ IsInjective(s) => /\ IsInjective(p) /\ IsInjective(q)
                                  /\ Range(p) \cap Range(q) = {}
<1> DEFINE p == SubSeq(s, 1, k)
           q == SubSeq(s, k + 1, Len(s))
<1>1. Len(s) \in Nat /\ DOMAIN s = 1..Len(s) /\ s \in [1..Len(s) -> S]
  BY LenProperties
<1>2. /\ p \in Seq(S) /\ Len(p) = k
      /\ \A i \in 1..k : p[i] = s[i]
  BY <1>1, SubSeqProperties
<1>3. /\ q \in Seq(S) /\ Len(q) = Len(s) - k
      /\ \A i \in 1..(Len(s) - k) : q[i] = s[k + i]
  <2>1. \A i \in (k + 1)..Len(s) : s[i] \in S
    BY <1>1
  <2>2. /\ q \in Seq(S)
        /\ Len(q) = IF k + 1 <= Len(s) THEN Len(s) - (k + 1) + 1 ELSE 0
        /\ \A i \in 1..(Len(s) - (k + 1) + 1) : q[i] = s[(k + 1) + i - 1]
    BY <1>1, <2>1, SubSeqProperties
  <2>3. Len(q) = Len(s) - k
    <3>1. Len(q) = IF k + 1 <= Len(s) THEN Len(s) - (k + 1) + 1 ELSE 0
      BY <2>2
    <3> HIDE DEF p, q
    <3>2. k \in Nat /\ k <= Len(s) /\ Len(s) \in Nat
      BY <1>1
    <3>3. CASE k + 1 <= Len(s)
      BY <3>1, <3>2, <3>3, <1>1
    <3>4. CASE ~(k + 1 <= Len(s))
      <4>1. Len(q) = 0
        BY <3>1, <3>4
      <4>2. Len(s) - k = 0
        BY <3>2, <3>4
      <4> QED BY <4>1, <4>2
    <3> QED BY <3>3, <3>4
  <2>4. \A i \in 1..(Len(s) - k) : q[i] = s[k + i]
    <3>1. TAKE i \in 1..(Len(s) - k)
    <3>2. i \in 1..(Len(s) - (k + 1) + 1) /\ (k + 1) + i - 1 = k + i
      BY <1>1
    <3> HIDE DEF q
    <3> QED BY <2>2, <3>2
  <2> QED BY <2>2, <2>3, <2>4
<1>4. DOMAIN p = 1..k /\ DOMAIN q = 1..(Len(s) - k)
  BY <1>2, <1>3, LenProperties
<1> HIDE DEF p, q
<1>5. Range(p) \cup Range(q) \subseteq Range(s)
  <2>1. \A i \in 1..k : p[i] \in Range(s)
    BY <1>1, <1>2 DEF Range
  <2>2. ASSUME NEW i \in 1..(Len(s) - k) PROVE q[i] \in Range(s)
    <3>1. k + i \in DOMAIN s /\ q[i] = s[k + i]
      BY <1>1, <1>3
    <3> QED BY <3>1 DEF Range
  <2> QED BY <2>1, <2>2, <1>4 DEF Range
<1>6. Range(s) \subseteq Range(p) \cup Range(q)
  <2>1. ASSUME NEW i \in 1..Len(s) PROVE s[i] \in Range(p) \cup Range(q)
    <3>1. CASE i <= k
      BY <3>1, <1>1, <1>2, <1>4 DEF Range
    <3>2. CASE i > k
      <4>1. i - k \in 1..(Len(s) - k) /\ q[i - k] = s[i]
        BY <3>2, <1>1, <1>3
      <4> QED BY <4>1, <1>4 DEF Range
    <3> QED BY <3>1, <3>2, <1>1
  <2> QED BY <2>1, <1>1 DEF Range
<1>7. ASSUME IsInjective(s)
      PROVE  /\ IsInjective(p) /\ IsInjective(q)
             /\ Range(p) \cap Range(q) = {}
  <2>1. \A i, j \in 1..Len(s) : s[i] = s[j] => i = j
    BY <1>7, <1>1 DEF IsInjective
  <2>2. IsInjective(p)
    BY <2>1, <1>1, <1>2, <1>4 DEF IsInjective
  <2>3. IsInjective(q)
    <3>1. ASSUME NEW i \in 1..(Len(s) - k), NEW j \in 1..(Len(s) - k),
                 q[i] = q[j]
          PROVE  i = j
      <4>1. k + i \in 1..Len(s) /\ k + j \in 1..Len(s)
        BY <1>1
      <4>2. k + i = k + j
        BY <2>1, <3>1, <4>1, <1>3
      <4> QED BY <4>2, <1>1
    <3> QED BY <3>1, <1>4 DEF IsInjective
  <2>4. \A i \in 1..k, j \in 1..(Len(s) - k) : p[i] # q[j]
    <3>1. TAKE i \in 1..k, j \in 1..(Len(s) - k)
    <3>2. i \in 1..Len(s) /\ k + j \in 1..Len(s) /\ i # k + j
      BY <1>1
    <3> QED BY <2>1, <3>2, <1>2, <1>3
  <2> QED BY <2>2, <2>3, <2>4, <1>4 DEF Range
<1> QED BY <1>2, <1>3, <1>5, <1>6, <1>7 DEF p, q

\* Taking the entry at the head of a ring, and adding one at its end.
LEMMA HeadTailFacts ==
  ASSUME NEW S, NEW s \in Seq(S), s # <<>>
  PROVE  /\ Head(s) \in S /\ Tail(s) \in Seq(S)
         /\ Len(s) \in Nat \ {0} /\ Len(Tail(s)) = Len(s) - 1
         /\ Range(s) = {Head(s)} \cup Range(Tail(s))
         /\ IsInjective(s) => /\ IsInjective(Tail(s))
                              /\ Head(s) \notin Range(Tail(s))
<1>1. /\ Head(s) \in S /\ Tail(s) \in Seq(S)
      /\ Len(s) \in Nat \ {0} /\ Len(Tail(s)) = Len(s) - 1
      /\ Head(s) = s[1]
      /\ \A i \in 1..(Len(s) - 1) : Tail(s)[i] = s[i + 1]
  BY HeadTailProperties, EmptySeq
<1>2. DOMAIN s = 1..Len(s) /\ DOMAIN Tail(s) = 1..(Len(s) - 1)
  BY <1>1, LenProperties
<1>3. Range(s) \subseteq {Head(s)} \cup Range(Tail(s))
  <2>1. ASSUME NEW i \in 1..Len(s), i # 1 PROVE s[i] \in Range(Tail(s))
    <3>1. i - 1 \in DOMAIN Tail(s) /\ Tail(s)[i - 1] = s[i]
      BY <2>1, <1>1, <1>2
    <3> QED BY <3>1 DEF Range
  <2> QED BY <2>1, <1>1, <1>2 DEF Range
<1>4. {Head(s)} \cup Range(Tail(s)) \subseteq Range(s)
  <2>1. ASSUME NEW i \in 1..(Len(s) - 1) PROVE Tail(s)[i] \in Range(s)
    <3>1. i + 1 \in DOMAIN s /\ Tail(s)[i] = s[i + 1]
      BY <1>1, <1>2
    <3> QED BY <3>1 DEF Range
  <2>2. 1 \in DOMAIN s
    BY <1>1, <1>2
  <2> QED BY <2>1, <2>2, <1>1, <1>2 DEF Range
<1>5. ASSUME IsInjective(s)
      PROVE  IsInjective(Tail(s)) /\ Head(s) \notin Range(Tail(s))
  <2>1. \A i, j \in 1..Len(s) : s[i] = s[j] => i = j
    BY <1>5, <1>2 DEF IsInjective
  <2>2. ASSUME NEW i \in 1..(Len(s) - 1) PROVE Tail(s)[i] # s[1]
    <3>1. 1 \in 1..Len(s) /\ i + 1 \in 1..Len(s) /\ i + 1 # 1
      BY <1>1
    <3> QED BY <3>1, <2>1, <1>1
  <2>3. ASSUME NEW i \in 1..(Len(s) - 1), NEW j \in 1..(Len(s) - 1),
               Tail(s)[i] = Tail(s)[j]
        PROVE  i = j
    <3>1. i + 1 \in 1..Len(s) /\ j + 1 \in 1..Len(s)
      BY <1>1
    <3>2. i + 1 = j + 1
      BY <3>1, <2>1, <2>3, <1>1
    <3> QED BY <3>2, <1>1
  <2> QED BY <2>2, <2>3, <1>1, <1>2 DEF IsInjective, Range
<1> QED BY <1>1, <1>3, <1>4, <1>5

\* Appending an element that does not occur keeps a sequence free of repetition.
LEMMA AppendFacts ==
  ASSUME NEW S, NEW s \in Seq(S), NEW e \in S
  PROVE  /\ Append(s, e) \in Seq(S) /\ Len(Append(s, e)) = Len(s) + 1
         /\ Range(Append(s, e)) = Range(s) \cup {e}
         /\ IsInjective(s) /\ e \notin Range(s) => IsInjective(Append(s, e))
<1> DEFINE t == <<e>>
<1>1. /\ t \in Seq(S) /\ Len(t) = 1 /\ Append(s, e) = s \o t
      /\ DOMAIN t = {1} /\ t[1] = e
  BY AppendIsConcat
<1> HIDE DEF t
<1>2. Range(t) = {e} /\ IsInjective(t)
  BY <1>1 DEF Range, IsInjective
<1>3. /\ Len(s \o t) = Len(s) + Len(t)
      /\ s \o t \in Seq(S)
      /\ Range(s \o t) = Range(s) \cup Range(t)
      /\ IsInjective(s) /\ IsInjective(t) /\ Range(s) \cap Range(t) = {}
           => IsInjective(s \o t)
  BY <1>1, ConcatFacts
<1> QED BY <1>1, <1>2, <1>3

\* An injective ring contains as many different entries as it is long.
LEMMA RangeFacts ==
  ASSUME NEW S, NEW s \in Seq(S)
  PROVE  /\ Range(s) \subseteq S
         /\ IsFiniteSet(Range(s)) /\ Cardinality(Range(s)) <= Len(s)
         /\ IsInjective(s) => Cardinality(Range(s)) = Len(s)
<1>1. Len(s) \in Nat /\ DOMAIN s = 1..Len(s) /\ s \in [1..Len(s) -> S]
  BY LenProperties
<1>2. s \in [1..Len(s) -> Range(s)]
  BY <1>1 DEF Range
<1>3. s \in Surjection(1..Len(s), Range(s))
  BY <1>1, <1>2 DEF Surjection, Range
<1>4. IsFiniteSet(1..Len(s)) /\ Cardinality(1..Len(s)) = Len(s)
  BY <1>1, FS_Interval
<1>5. /\ IsFiniteSet(Range(s)) /\ Cardinality(Range(s)) <= Cardinality(1..Len(s))
      /\ Cardinality(Range(s)) = Cardinality(1..Len(s))
           <=> s \in Injection(1..Len(s), Range(s))
  BY <1>3, <1>4, FS_Surjection
<1>6. IsInjective(s) => s \in Injection(1..Len(s), Range(s))
  BY <1>2 DEF Injection
<1>7. Range(s) \subseteq S
  BY <1>1 DEF Range
<1> QED BY <1>4, <1>5, <1>6, <1>7

\* In an injective sequence an element of S has one place or none.
LEMMA PlaceFacts ==
  ASSUME NEW S, NEW s \in Seq(S), IsInjective(s), NEW c
  PROVE  Cardinality({i \in DOMAIN s : s[i] = c})
           = IF c \in Range(s) THEN 1 ELSE 0
<1>1. CASE c \in Range(s)
  <2>1. PICK i \in DOMAIN s : s[i] = c
    BY <1>1 DEF Range
  <2>2. {j \in DOMAIN s : s[j] = c} = {i}
    BY <2>1 DEF IsInjective
  <2> QED BY <1>1, <2>2, FS_Singleton
<1>2. CASE c \notin Range(s)
  <2>1. {j \in DOMAIN s : s[j] = c} = {}
    BY <1>2 DEF Range
  <2> QED BY <1>2, <2>1, FS_EmptySet
<1> QED BY <1>1, <1>2

\* A family of rings over a finite index set M, none longer than k, holds at
\* most k entries for every index.
LEMMA FamilyBound ==
  ASSUME NEW S, NEW M, IsFiniteSet(M), NEW k \in Nat,
         NEW ring \in [M -> Seq(S)], \A m \in M : Len(ring[m]) <= k
  PROVE  LET U == UNION {Range(ring[m]) : m \in M}
         IN  IsFiniteSet(U) /\ Cardinality(U) <= Cardinality(M) * k
<1> DEFINE U == UNION {Range(ring[m]) : m \in M}
           who(c) == CHOOSE m \in M : c \in Range(ring[m])
           place(c) == CHOOSE i \in DOMAIN ring[who(c)] : ring[who(c)][i] = c
           at == [c \in U |-> <<who(c), place(c)>>]
<1>1. ASSUME NEW c \in U
      PROVE  /\ who(c) \in M /\ place(c) \in 1..k
             /\ ring[who(c)][place(c)] = c
  <2>1. \E m \in M : c \in Range(ring[m])
    OBVIOUS
  <2>2. who(c) \in M /\ c \in Range(ring[who(c)])
    BY <2>1
  <2>3. \E i \in DOMAIN ring[who(c)] : ring[who(c)][i] = c
    BY <2>2 DEF Range
  <2>4. place(c) \in DOMAIN ring[who(c)] /\ ring[who(c)][place(c)] = c
    BY <2>3
  <2>5. /\ Len(ring[who(c)]) \in Nat /\ Len(ring[who(c)]) <= k
        /\ DOMAIN ring[who(c)] = 1..Len(ring[who(c)])
    BY <2>2, LenProperties
  <2> HIDE DEF who, place
  <2> QED BY <2>2, <2>4, <2>5
<1> HIDE DEF who, place
<1>2. at \in [U -> M \X (1..k)]
  BY <1>1
<1>3. ASSUME NEW c \in U, NEW d \in U, at[c] = at[d] PROVE c = d
  <2>1. who(c) = who(d) /\ place(c) = place(d)
    BY <1>3
  <2> HIDE DEF at, U
  <2> QED BY <2>1, <1>1
<1>4. at \in Injection(U, M \X (1..k))
  BY <1>2, <1>3 DEF Injection, IsInjective
<1>5. IsFiniteSet(1..k) /\ Cardinality(1..k) = k
  BY FS_Interval
<1>6. /\ IsFiniteSet(M \X (1..k))
      /\ Cardinality(M \X (1..k)) = Cardinality(M) * k
  BY <1>5, FS_Product
<1> HIDE DEF at, U
<1>7. IsFiniteSet(U) /\ Cardinality(U) <= Cardinality(M \X (1..k))
  BY <1>4, <1>6, FS_Injection
<1> QED BY <1>6, <1>7 DEF U

\* A union has at most as many elements as its parts together.
LEMMA UnionBound ==
  ASSUME NEW S, IsFiniteSet(S), NEW T, IsFiniteSet(T)
  PROVE  /\ IsFiniteSet(S \cup T) /\ Cardinality(S \cup T) \in Nat
         /\ Cardinality(S) \in Nat /\ Cardinality(T) \in Nat
         /\ Cardinality(S \cup T) <= Cardinality(S) + Cardinality(T)
<1> DEFINE a == Cardinality(S)
           b == Cardinality(T)
           c == Cardinality(S \cap T)
           d == Cardinality(S \cup T)
<1>1. IsFiniteSet(S \cup T) /\ d = a + b - c
  BY FS_Union
<1>2. IsFiniteSet(S \cap T)
  BY FS_Intersection
<1>3. a \in Nat /\ b \in Nat /\ c \in Nat /\ d \in Nat
  BY <1>1, <1>2, FS_CardinalityType
<1> HIDE DEF a, b, c, d
<1>4. d <= a + b
  BY <1>1, <1>3
<1> QED BY <1>1, <1>3, <1>4 DEF a, b, d
=============================================================================
