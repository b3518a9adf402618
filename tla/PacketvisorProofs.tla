------------------------- MODULE PacketvisorProofs -------------------------
(***************************************************************************)
(* Theorems about the data plane, for every number of Nics and chunks, all *)
(* ring sizes and every bound on the packets held.  The inductive          *)
(* invariant is Inv: the type and the ring bounds, one owner for every     *)
(* chunk, and no chunk lost.  Each action has a lemma that says it keeps   *)
(* Inv.                                                                    *)
(***************************************************************************)
EXTENDS Packetvisor, RingLemmas

\* A Nic that Nic::new has not returned has nothing in its fill and receive
\* rings.
Closed ==
  \A n \in Nic \ opened : fq[n] = <<>> /\ rx[n] = <<>> /\ unreleased[n] = 0

Inv == TypeOK /\ SingleOwner /\ NoLeak /\ Closed

-----------------------------------------------------------------------------
(* What the helpers of the model do.                                       *)

\* xsk_ring_prod__reserve grants no more than was asked for or is free.
LEMMA ReserveFacts ==
  ASSUME NEW free \in Nat, NEW len \in Nat
  PROVE  /\ Reserve(free, len) \in Nat
         /\ Reserve(free, len) <= free /\ Reserve(free, len) <= len
BY DEF Reserve

\* xsk_ring_cons__peek shows no more than was asked for or is there.
LEMMA PeekFacts ==
  ASSUME NEW available \in Nat, NEW len \in Nat
  PROVE  /\ Peek(available, len) \in Nat
         /\ Peek(available, len) <= available /\ Peek(available, len) <= len
BY DEF Peek

\* A fill ring that is not overfull has a number of free slots.
LEMMA FreeFacts ==
  ASSUME NEW n \in Nic, Len(fq[n]) \in Nat, unreleased[n] \in Nat, RingsFit(n)
  PROVE  /\ FqFree(n) \in Nat
         /\ FqFree(n) = FqSize - (Len(fq[n]) + unreleased[n])
<1>1. FqSize \in Nat /\ Len(fq[n]) + unreleased[n] <= FqSize
  BY SizesAssumption DEF RingsFit
<1>2. FqFree(n) = FqSize - (Len(fq[n]) + unreleased[n])
  BY DEF FqFree
<1> QED BY <1>1, <1>2

\* k calls of alloc_addr return k different free chunks.
LEMMA AllocFacts ==
  ASSUME TypeOK, NEW k \in Nat, NEW s \in AllocAddrs(k)
  PROVE  /\ s \in Seq(Chunk) /\ Len(s) = k
         /\ IsInjective(s) /\ Range(s) \subseteq pool
<1>1. s \in [1..k -> pool] /\ IsInjective(s)
  BY DEF AllocAddrs
<1>2. s \in Seq(pool) /\ Len(s) = k
  BY <1>1
<1>3. Range(s) \subseteq pool
  BY <1>2, RangeFacts
<1> QED BY <1>1, <1>2, <1>3 DEF TypeOK

\* Wrapping chunks that no Packet stands for makes one Packet of each.
LEMMA WrapFacts ==
  ASSUME TypeOK, \A c \in Chunk : held[c] <= 1,
         NEW s \in Seq(Chunk), IsInjective(s), Range(s) \cap Held = {},
         held' = Wrapped(s)
  PROVE  /\ held' \in [Chunk -> Nat]
         /\ \A c \in Chunk : held'[c] <= 1
         /\ Held' = Held \cup Range(s)
<1>1. \A c \in Chunk : held[c] \in Nat
  BY DEF TypeOK
<1>2. ASSUME NEW c \in Chunk
      PROVE  held'[c] = IF c \in Range(s) THEN held[c] + 1 ELSE held[c]
  <2>1. held'[c] = held[c] + Cardinality({i \in DOMAIN s : s[i] = c})
    BY DEF Wrapped
  <2>2. Cardinality({i \in DOMAIN s : s[i] = c})
          = IF c \in Range(s) THEN 1 ELSE 0
    BY PlaceFacts
  <2> QED BY <2>1, <2>2, <1>1
<1>3. DOMAIN held' = Chunk /\ held' = [c \in Chunk |-> held'[c]]
  BY DEF Wrapped
<1>4. \A c \in Range(s) : c \in Chunk /\ held[c] = 0
  BY <1>1, RangeFacts DEF Held
<1>5. held' \in [Chunk -> Nat]
  BY <1>1, <1>2, <1>3
<1>6. \A c \in Chunk : held'[c] <= 1
  BY <1>1, <1>2, <1>4
<1>7. Held' = Held \cup Range(s)
  BY <1>1, <1>2, <1>4 DEF Held
<1> QED BY <1>5, <1>6, <1>7

\* Dropping Packets of chunks held once leaves those chunks without one.
LEMMA DropFacts ==
  ASSUME TypeOK, \A c \in Chunk : held[c] <= 1,
         NEW C \in SUBSET Held, held' = Dropped(C)
  PROVE  /\ held' \in [Chunk -> Nat]
         /\ \A c \in Chunk : held'[c] <= 1
         /\ Held' = Held \ C
<1>1. \A c \in Chunk : held[c] \in Nat
  BY DEF TypeOK
<1>2. \A c \in C : c \in Chunk /\ held[c] = 1
  BY <1>1 DEF Held
<1>3. \A c \in Chunk : held'[c] = IF c \in C THEN 0 ELSE held[c]
  BY <1>1, <1>2 DEF Dropped
<1>4. held' = [c \in Chunk |-> held'[c]]
  BY DEF Dropped
<1> QED BY <1>1, <1>2, <1>3, <1>4 DEF Held

-----------------------------------------------------------------------------
(* Every action keeps Inv.                                                 *)

\* The pool Pool::init makes owns every chunk, and the invariant holds.
LEMMA InitInv == ASSUME Init PROVE Inv
<1>1. Held = {}
  BY DEF Init, Held
<1>2. \A n \in Nic : fq[n] = <<>> /\ rx[n] = <<>> /\ tx[n] = <<>>
                     /\ sending[n] = <<>>
  BY DEF Init
<1>3. Len(<<>>) = 0 /\ <<>> \in Seq(Chunk) /\ Range(<<>>) = {}
      /\ IsInjective(<<>>)
  BY EmptySeq DEF Range, IsInjective
<1>4. TypeOK
  <2>1. /\ fq \in [Nic -> Seq(Chunk)] /\ rx \in [Nic -> Seq(Chunk)]
        /\ tx \in [Nic -> Seq(Chunk)] /\ sending \in [Nic -> Seq(Chunk)]
    BY <1>3 DEF Init
  <2>2. \A n \in Nic : /\ Len(fq[n]) = 0 /\ Len(rx[n]) = 0 /\ Len(tx[n]) = 0
                       /\ Len(sending[n]) = 0
                       /\ unreleased[n] = 0 /\ cq[n] = 0
    BY <1>2, <1>3 DEF Init
  <2> QED BY <2>1, <2>2, SizesAssumption DEF Init, TypeOK, RingsFit
<1>5. SingleOwner
  BY <1>1, <1>2, <1>3 DEF Init, SingleOwner, Filling
<1>6. NoLeak /\ Closed
  <2>1. \A n \in Nic : Filling(n) = {} /\ unreleased[n] = 0
    BY <1>2, <1>3 DEF Init, Filling
  <2> QED BY <2>1, <1>1, <1>2 DEF Init, NoLeak, Closed
<1> QED BY <1>4, <1>5, <1>6 DEF Inv

\* Nic::new moves chunks from the pool into a fill ring, nothing else.
LEMMA OpenInv ==
  ASSUME Inv, NEW n \in Nic, Open(n)
  PROVE  Inv'
<1> DEFINE r == Reserve(FqFree(n), FqSize)
<1>1. /\ n \notin opened
      /\ fq[n] = <<>> /\ rx[n] = <<>> /\ unreleased[n] = 0
      /\ UNCHANGED <<unreleased, rx, tx, sending, cq, held>>
  BY DEF Open, Inv, Closed
<1>2. Len(<<>>) = 0 /\ Range(<<>>) = {}
  BY EmptySeq DEF Range
<1>3. FqFree(n) = FqSize /\ r = FqSize
  <2>1. Len(fq[n]) + unreleased[n] = 0
    BY <1>1, <1>2
  <2>2. FqFree(n) = FqSize
    BY <2>1, SizesAssumption DEF FqFree
  <2> QED BY <2>2, SizesAssumption DEF Reserve
<1>4. Held' = Held
  BY <1>1 DEF Held
<1>5. CASE \E s \in AllocAddrs(r) :
             /\ opened' = opened \cup {n}
             /\ fq' = [fq EXCEPT ![n] = @ \o s]
             /\ pool' = PoolWithout(s)
             /\ UNCHANGED alive
  <2>1. PICK s \in AllocAddrs(r) :
          /\ opened' = opened \cup {n}
          /\ fq' = [fq EXCEPT ![n] = @ \o s]
          /\ pool' = pool \ Range(s)
          /\ UNCHANGED alive
    BY <1>5 DEF PoolWithout
  <2>2. /\ s \in Seq(Chunk) /\ Len(s) = FqSize
        /\ IsInjective(s) /\ Range(s) \subseteq pool
    BY <1>3, AllocFacts, SizesAssumption DEF Inv
  <2>3. fq'[n] = s /\ \A m \in Nic \ {n} : fq'[m] = fq[m]
    BY <2>1, <2>2, <1>1, ConcatEmptySeq DEF Inv, TypeOK
  <2>4. TypeOK'
    <3>1. \A m \in Nic : RingsFit(m)'
      <4>1. \A m \in Nic : RingsFit(m)
        BY DEF Inv, TypeOK
      <4>2. RingsFit(n)'
        BY <4>1, <2>2, <2>3, <1>1, SizesAssumption DEF RingsFit
      <4>3. ASSUME NEW m \in Nic \ {n} PROVE RingsFit(m)'
        BY <4>1, <4>3, <2>3, <1>1 DEF RingsFit
      <4> QED BY <4>2, <4>3
    <3>2. fq' \in [Nic -> Seq(Chunk)]
      BY <2>1, <2>2, <2>3 DEF Inv, TypeOK
    <3> QED BY <3>1, <3>2, <2>1, <1>1 DEF Inv, TypeOK
  <2>5. /\ Filling(n)' = Range(s) /\ Filling(n) = {}
        /\ \A m \in Nic \ {n} : Filling(m)' = Filling(m)
    BY <2>3, <1>1, <1>2 DEF Filling
  <2>6. SingleOwner'
    <3>1. \A m \in Nic : IsInjective(fq'[m]) /\ IsInjective(rx'[m])
                         /\ Range(fq'[m]) \cap Range(rx'[m]) = {}
      BY <2>2, <2>3, <1>1, <1>2 DEF Inv, SingleOwner
    <3>2. \A m \in Nic : Filling(m)' \cap (pool' \cup Held') = {}
      BY <2>1, <2>2, <2>5, <1>4 DEF Inv, SingleOwner
    <3>3. \A m, k \in Nic : m # k => Filling(m)' \cap Filling(k)' = {}
      BY <2>2, <2>5 DEF Inv, SingleOwner
    <3> QED BY <3>1, <3>2, <3>3, <2>1, <1>1, <1>4 DEF Inv, SingleOwner
  <2>7. NoLeak'
    BY <2>1, <2>2, <2>5, <1>4 DEF Inv, NoLeak
  <2>8. Closed'
    BY <2>1, <2>3, <1>1 DEF Inv, Closed
  <2> QED BY <2>4, <2>6, <2>7, <2>8 DEF Inv
<1>6. CASE pool' = {} /\ alive' = FALSE /\ UNCHANGED <<opened, fq>>
  BY <1>1, <1>4, <1>6 DEF Inv, TypeOK, RingsFit, SingleOwner, NoLeak, Closed,
         Filling
<1> QED BY <1>5, <1>6 DEF Open

\* alloc_packet moves one chunk from the pool to a Packet.
LEMMA AllocPacketInv ==
  ASSUME Inv, AllocPacket
  PROVE  Inv'
<1>1. UNCHANGED <<opened, fq, unreleased, rx, tx, sending, cq, alive>>
  BY DEF AllocPacket
<1>2. PICK s \in AllocAddrs(1) : pool' = pool \ Range(s) /\ held' = Wrapped(s)
  BY DEF AllocPacket, PoolWithout
<1>3. s \in Seq(Chunk) /\ IsInjective(s) /\ Range(s) \subseteq pool
  BY AllocFacts DEF Inv
<1>4. /\ held' \in [Chunk -> Nat]
      /\ \A c \in Chunk : held'[c] <= 1
      /\ Held' = Held \cup Range(s)
  BY <1>2, <1>3, WrapFacts DEF Inv, SingleOwner
<1>5. \A m \in Nic : Filling(m)' = Filling(m)
  BY <1>1 DEF Filling
<1>6. TypeOK'
  BY <1>1, <1>2, <1>4 DEF Inv, TypeOK, RingsFit
<1>7. SingleOwner'
  BY <1>1, <1>2, <1>3, <1>4, <1>5 DEF Inv, SingleOwner
<1>8. NoLeak'
  BY <1>1, <1>2, <1>3, <1>4, <1>5 DEF Inv, NoLeak
<1>9. Closed'
  BY <1>1 DEF Inv, Closed
<1> QED BY <1>6, <1>7, <1>8, <1>9 DEF Inv

\* Drop for Packet moves its chunk back to the pool.
LEMMA DropPacketInv ==
  ASSUME Inv, NEW c \in Chunk, DropPacket(c)
  PROVE  Inv'
<1>1. UNCHANGED <<opened, fq, unreleased, rx, tx, sending, cq, alive>>
  BY DEF DropPacket
<1>2. c \in Held /\ held' = Dropped({c}) /\ pool' = pool \cup {c}
  BY DEF DropPacket, PoolWith, Held
<1>3. /\ held' \in [Chunk -> Nat]
      /\ \A d \in Chunk : held'[d] <= 1
      /\ Held' = Held \ {c}
  BY <1>2, DropFacts DEF Inv, SingleOwner
<1>4. \A m \in Nic : Filling(m)' = Filling(m)
  BY <1>1 DEF Filling
<1>5. TypeOK'
  BY <1>1, <1>2, <1>3 DEF Inv, TypeOK, RingsFit
<1>6. SingleOwner'
  BY <1>1, <1>2, <1>3, <1>4 DEF Inv, SingleOwner
<1>7. NoLeak'
  BY <1>1, <1>2, <1>3, <1>4 DEF Inv, NoLeak
<1>8. Closed'
  BY <1>1 DEF Inv, Closed
<1> QED BY <1>5, <1>6, <1>7, <1>8 DEF Inv

\* What a receive of k packets does to the rings and to the owners, when the
\* refill succeeds.
LEMMA ReceiveInv ==
  ASSUME Inv, NEW n \in Nic, NEW len \in 1..MaxHeld, Receive(n, len)
  PROVE  Inv'
<1>1. PICK k \in Peeks(Len(rx[n]), len) :
        LET batch == SubSeq(rx[n], 1, k)
            r == RefillLen(n, k)
        IN  /\ n \in opened
            /\ rx' = [rx EXCEPT ![n] = SubSeq(@, k + 1, Len(@))]
            /\ held' = Wrapped(batch)
            /\ \/ \E s \in AllocAddrs(r) :
                    /\ fq' = [fq EXCEPT ![n] = @ \o s]
                    /\ pool' = PoolWithout(s)
                    /\ UNCHANGED alive
               \/ /\ pool' = {}
                  /\ alive' = FALSE
                  /\ UNCHANGED fq
            /\ UNCHANGED <<opened, unreleased, tx, sending, cq>>
  BY DEF Receive
<1> DEFINE batch == SubSeq(rx[n], 1, k)
           rest == SubSeq(rx[n], k + 1, Len(rx[n]))
           r == RefillLen(n, k)
<1>2. /\ rx[n] \in Seq(Chunk) /\ fq[n] \in Seq(Chunk) /\ unreleased[n] \in Nat
      /\ Len(rx[n]) \in Nat /\ Len(fq[n]) \in Nat
      /\ RingsFit(n)
  BY LenProperties DEF Inv, TypeOK
<1>3. k \in 1..Len(rx[n])
  <2>1. len \in Nat
    BY SizesAssumption
  <2>2. /\ Peek(Len(rx[n]), len) \in Nat
        /\ Peek(Len(rx[n]), len) <= Len(rx[n])
    BY <2>1, <1>2, PeekFacts
  <2> QED BY <2>2, <1>1, <1>2 DEF Peeks
<1>4. /\ batch \in Seq(Chunk) /\ rest \in Seq(Chunk)
      /\ Len(batch) = k /\ Len(rest) = Len(rx[n]) - k
      /\ Range(batch) \cup Range(rest) = Range(rx[n])
      /\ IsInjective(batch) /\ IsInjective(rest)
      /\ Range(batch) \cap Range(rest) = {}
  <2>1. IsInjective(rx[n])
    BY DEF Inv, SingleOwner
  <2> QED BY <2>1, <1>2, <1>3, SplitFacts
<1> HIDE DEF batch, rest
<1>5. /\ FqFree(n) \in Nat /\ r \in Nat /\ r <= k
      /\ Len(fq[n]) + r + unreleased[n] <= FqSize
  <2>1. FqFree(n) \in Nat /\ FqFree(n) = FqSize - (Len(fq[n]) + unreleased[n])
    BY <1>2, FreeFacts
  <2>2. r \in Nat /\ r <= FqFree(n) /\ r <= k
    <3>1. k \in Nat
      BY <1>2, <1>3
    <3>2. r = Reserve(FqFree(n), k)
      BY DEF RefillLen
    <3> HIDE DEF r
    <3> QED BY <3>1, <3>2, <2>1, ReserveFacts
  <2> HIDE DEF r
  <2> QED BY <2>1, <2>2, <1>2, <1>3, SizesAssumption
<1> HIDE DEF r
<1>6. /\ rx'[n] = rest /\ \A m \in Nic \ {n} : rx'[m] = rx[m]
      /\ rx' \in [Nic -> Seq(Chunk)]
  BY <1>1, <1>4 DEF Inv, TypeOK, rest
<1>7. /\ Range(rx[n]) \subseteq Filling(n)
      /\ Range(batch) \cap (pool \cup Held) = {}
  BY <1>4 DEF Inv, SingleOwner, Filling
<1>8. /\ held' \in [Chunk -> Nat]
      /\ \A c \in Chunk : held'[c] <= 1
      /\ Held' = Held \cup Range(batch)
  <2>1. held' = Wrapped(batch)
    BY <1>1 DEF batch
  <2> QED BY <2>1, <1>4, <1>7, WrapFacts DEF Inv, SingleOwner
<1>11. /\ \A m \in Nic : Filling(m) \cap (pool \cup Held) = {}
       /\ \A m \in Nic \ {n} : Filling(m) \cap Filling(n) = {}
       /\ Range(batch) \subseteq Filling(n)
       /\ pool \cap Held = {}
  BY <1>4, <1>7 DEF Inv, SingleOwner
<1>9. CASE \E s \in AllocAddrs(r) : /\ fq' = [fq EXCEPT ![n] = @ \o s]
                                    /\ pool' = PoolWithout(s)
                                    /\ UNCHANGED alive
  <2>1. PICK s \in AllocAddrs(r) : /\ fq' = [fq EXCEPT ![n] = @ \o s]
                                   /\ pool' = pool \ Range(s)
                                   /\ UNCHANGED alive
    BY <1>9 DEF PoolWithout
  <2>2. /\ s \in Seq(Chunk) /\ Len(s) = r
        /\ IsInjective(s) /\ Range(s) \subseteq pool
    BY <1>5, AllocFacts DEF Inv
  <2>3. /\ fq'[n] = fq[n] \o s /\ \A m \in Nic \ {n} : fq'[m] = fq[m]
    BY <2>1 DEF Inv, TypeOK
  <2>4. Range(fq[n]) \cap Range(s) = {}
    BY <2>2 DEF Inv, SingleOwner, Filling
  <2>5. /\ fq'[n] \in Seq(Chunk) /\ Len(fq'[n]) = Len(fq[n]) + r
        /\ Range(fq'[n]) = Range(fq[n]) \cup Range(s)
        /\ IsInjective(fq'[n])
    <3>1. IsInjective(fq[n])
      BY DEF Inv, SingleOwner
    <3>2. /\ fq[n] \o s \in Seq(Chunk)
          /\ Len(fq[n] \o s) = Len(fq[n]) + Len(s)
          /\ Range(fq[n] \o s) = Range(fq[n]) \cup Range(s)
          /\ IsInjective(fq[n]) /\ IsInjective(s) /\ Range(fq[n]) \cap Range(s) = {}
               => IsInjective(fq[n] \o s)
      BY <2>2, <1>2, ConcatFacts
    <3> QED BY <3>1, <3>2, <2>2, <2>3, <2>4
  <2>6. fq' \in [Nic -> Seq(Chunk)]
    BY <2>1, <2>3, <2>5 DEF Inv, TypeOK
  <2>7. TypeOK'
    <3>1. RingsFit(n)'
      BY <2>5, <1>1, <1>2, <1>3, <1>4, <1>5, <1>6, SizesAssumption DEF RingsFit
    <3>2. ASSUME NEW m \in Nic \ {n} PROVE RingsFit(m)'
      BY <2>3, <1>1, <1>6, <3>2 DEF Inv, TypeOK, RingsFit
    <3> QED BY <3>1, <3>2, <2>1, <2>6, <1>1, <1>6, <1>8 DEF Inv, TypeOK
  <2>8. /\ Filling(n)' = (Filling(n) \ Range(batch)) \cup Range(s)
        /\ \A m \in Nic \ {n} : Filling(m)' = Filling(m)
    BY <2>3, <2>5, <1>4, <1>6 DEF Inv, SingleOwner, Filling
  <2>9. SingleOwner'
    <3>1. \A m \in Nic : IsInjective(fq'[m]) /\ IsInjective(rx'[m])
                         /\ Range(fq'[m]) \cap Range(rx'[m]) = {}
      BY <2>2, <2>3, <2>5, <1>4, <1>6 DEF Inv, SingleOwner, Filling
    <3>2. Filling(n)' \cap (pool' \cup Held') = {}
      BY <2>1, <2>2, <2>8, <1>8, <1>11
    <3>5. ASSUME NEW m \in Nic \ {n}
          PROVE  Filling(m)' \cap (pool' \cup Held') = {}
      BY <2>1, <2>8, <1>8, <1>11, <3>5
    <3>3. \A m, j \in Nic : m # j => Filling(m)' \cap Filling(j)' = {}
      BY <2>2, <2>8 DEF Inv, SingleOwner
    <3>4. pool' \cap Held' = {}
      BY <2>1, <1>7, <1>8 DEF Inv, SingleOwner
    <3> QED BY <3>1, <3>2, <3>3, <3>4, <3>5, <1>8 DEF SingleOwner
  <2>10. NoLeak'
    BY <2>1, <2>8, <1>7, <1>8 DEF Inv, NoLeak
  <2>11. Closed'
    BY <2>3, <1>1, <1>6 DEF Inv, Closed
  <2> QED BY <2>7, <2>9, <2>10, <2>11 DEF Inv
<1>10. CASE pool' = {} /\ alive' = FALSE /\ UNCHANGED fq
  <2>1. TypeOK'
    <3>1. RingsFit(n)'
      BY <1>1, <1>2, <1>3, <1>4, <1>6, <1>10, SizesAssumption DEF RingsFit
    <3>2. ASSUME NEW m \in Nic \ {n} PROVE RingsFit(m)'
      BY <1>1, <1>6, <1>10, <3>2 DEF Inv, TypeOK, RingsFit
    <3> QED BY <3>1, <3>2, <1>1, <1>6, <1>8, <1>10 DEF Inv, TypeOK
  <2>2. /\ Filling(n)' = Filling(n) \ Range(batch)
        /\ \A m \in Nic \ {n} : Filling(m)' = Filling(m)
    BY <1>4, <1>6, <1>10 DEF Inv, SingleOwner, Filling
  <2>3. SingleOwner'
    <3>1. \A m \in Nic : IsInjective(fq'[m]) /\ IsInjective(rx'[m])
                         /\ Range(fq'[m]) \cap Range(rx'[m]) = {}
      <4>1. \A m \in Nic : IsInjective(fq[m]) /\ IsInjective(rx[m])
                           /\ Range(fq[m]) \cap Range(rx[m]) = {}
        BY DEF Inv, SingleOwner
      <4>2. Range(rest) \subseteq Range(rx[n])
        BY <1>4
      <4> QED BY <4>1, <4>2, <1>4, <1>6, <1>10
    <3>2. \A m \in Nic : Filling(m)' \cap (pool' \cup Held') = {}
      <4>1. Filling(n)' \cap Held' = {}
        BY <2>2, <1>8 DEF Inv, SingleOwner
      <4>2. ASSUME NEW m \in Nic \ {n} PROVE Filling(m)' \cap Held' = {}
        BY <2>2, <1>8, <1>11, <4>2
      <4> QED BY <4>1, <4>2, <1>10
    <3>3. \A m, j \in Nic : m # j => Filling(m)' \cap Filling(j)' = {}
      BY <2>2 DEF Inv, SingleOwner
    <3> QED BY <3>1, <3>2, <3>3, <1>8, <1>10 DEF SingleOwner
  <2>4. NoLeak' /\ Closed'
    BY <1>1, <1>6, <1>10 DEF Inv, NoLeak, Closed
  <2> QED BY <2>1, <2>3, <2>4 DEF Inv
<1> QED BY <1>1, <1>9, <1>10 DEF r, RefillLen

\* send moves the chunks of the packets it sent to the pool.
LEMMA SendInv ==
  ASSUME Inv, NEW n \in Nic, NEW s \in Vectors, Send(n, s)
  PROVE  Inv'
<1> DEFINE r == ReserveTxq(n, Len(s))
           sent == SubSeq(s, 1, r)
<1>1. s \in Seq(Chunk) /\ IsInjective(s) /\ Range(s) \subseteq Held
  <2>1. PICK k \in 0..MaxHeld : s \in [1..k -> Held]
    BY DEF Vectors
  <2>2. k \in Nat
    BY SizesAssumption
  <2>3. s \in Seq(Held)
    BY <2>1, <2>2
  <2>4. IsInjective(s)
    BY DEF Vectors
  <2>5. Range(s) \subseteq Held /\ Held \subseteq Chunk
    BY <2>3, RangeFacts DEF Held
  <2> QED BY <2>3, <2>4, <2>5
<1>2. /\ tx[n] \in Seq(Chunk) /\ Len(tx[n]) \in Nat /\ Len(s) \in Nat
      /\ sending[n] \in Seq(Chunk) /\ Len(sending[n]) \in Nat /\ cq[n] \in Nat
      /\ RingsFit(n)
  BY <1>1, LenProperties DEF Inv, TypeOK
<1>3. /\ r \in 0..Len(s) /\ Len(tx[n]) + r <= TxSize
  <2>1. TxFree(n) \in Nat /\ TxFree(n) = TxSize - Len(tx[n])
    BY <1>2, SizesAssumption DEF TxFree, RingsFit
  <2>2. r \in Nat /\ r <= TxFree(n) /\ r <= Len(s)
    BY <2>1, <1>2, ReserveFacts DEF ReserveTxq
  <2> HIDE DEF r
  <2> QED BY <2>1, <2>2, <1>2, SizesAssumption
<1> HIDE DEF r
<1>4. /\ sent \in Seq(Chunk) /\ Len(sent) = r
      /\ Range(sent) \subseteq Held
  BY <1>1, <1>3, SplitFacts
<1>5. /\ cq' = [cq EXCEPT ![n] = @ - Peek(@, CqSize)]
      /\ tx' = [tx EXCEPT ![n] = @ \o sent]
      /\ held' = Dropped(Range(sent))
      /\ pool' = pool \cup Range(sent)
      /\ UNCHANGED <<opened, fq, unreleased, rx, sending, alive>>
  BY DEF Send, PoolWith, r
<1> HIDE DEF sent
<1>6. /\ held' \in [Chunk -> Nat]
      /\ \A c \in Chunk : held'[c] <= 1
      /\ Held' = Held \ Range(sent)
  BY <1>4, <1>5, DropFacts DEF Inv, SingleOwner
<1>7. \A m \in Nic : Filling(m)' = Filling(m)
  BY <1>5 DEF Filling
<1>8. TypeOK'
  <2>1. tx[n] \o sent \in Seq(Chunk) /\ Len(tx[n] \o sent) = Len(tx[n]) + r
    BY <1>2, <1>4, ConcatProperties
  <2>2. /\ tx' \in [Nic -> Seq(Chunk)] /\ Len(tx'[n]) = Len(tx[n]) + r
        /\ \A m \in Nic \ {n} : tx'[m] = tx[m]
    BY <2>1, <1>5 DEF Inv, TypeOK
  <2>3. /\ Peek(cq[n], CqSize) \in Nat /\ Peek(cq[n], CqSize) <= cq[n]
    BY <1>2, SizesAssumption, PeekFacts
  <2>4. /\ cq[n] - Peek(cq[n], CqSize) \in Nat
        /\ cq[n] - Peek(cq[n], CqSize) <= cq[n]
    BY <2>3, <1>2
  <2>5. /\ cq' \in [Nic -> Nat] /\ cq'[n] <= cq[n]
        /\ \A m \in Nic \ {n} : cq'[m] = cq[m]
    BY <2>4, <1>5 DEF Inv, TypeOK
  <2>6. RingsFit(n)'
    BY <2>2, <2>5, <1>2, <1>3, <1>5, SizesAssumption DEF RingsFit
  <2>7. ASSUME NEW m \in Nic \ {n} PROVE RingsFit(m)'
    BY <2>2, <2>5, <2>7, <1>5 DEF Inv, TypeOK, RingsFit
  <2>8. pool' \subseteq Chunk
    BY <1>4, <1>5 DEF Inv, TypeOK, Held
  <2> QED BY <2>2, <2>5, <2>6, <2>7, <2>8, <1>5, <1>6 DEF Inv, TypeOK
<1>9. SingleOwner'
  BY <1>4, <1>5, <1>6, <1>7 DEF Inv, SingleOwner
<1>10. NoLeak' /\ Closed'
  BY <1>5, <1>6, <1>7 DEF Inv, NoLeak, Closed
<1> QED BY <1>8, <1>9, <1>10 DEF Inv

\* A received frame moves a chunk from the fill to the receive ring.
LEMMA KernelRxInv ==
  ASSUME Inv, NEW n \in Nic, KernelRx(n)
  PROVE  Inv'
<1> DEFINE c == Head(fq[n])
<1>1. /\ fq[n] \in Seq(Chunk) /\ rx[n] \in Seq(Chunk) /\ unreleased[n] \in Nat
      /\ Len(rx[n]) \in Nat /\ fq[n] # <<>> /\ Len(rx[n]) < RxSize
      /\ IsInjective(fq[n]) /\ IsInjective(rx[n])
      /\ Range(fq[n]) \cap Range(rx[n]) = {}
      /\ RingsFit(n)
  BY LenProperties DEF KernelRx, Inv, TypeOK, SingleOwner
<1>2. /\ c \in Chunk /\ Tail(fq[n]) \in Seq(Chunk)
      /\ Len(fq[n]) \in Nat \ {0} /\ Len(Tail(fq[n])) = Len(fq[n]) - 1
      /\ Range(fq[n]) = {c} \cup Range(Tail(fq[n]))
      /\ IsInjective(Tail(fq[n])) /\ c \notin Range(Tail(fq[n]))
  BY <1>1, HeadTailFacts
<1> HIDE DEF c
<1>3. /\ Append(rx[n], c) \in Seq(Chunk)
      /\ Len(Append(rx[n], c)) = Len(rx[n]) + 1
      /\ Range(Append(rx[n], c)) = Range(rx[n]) \cup {c}
      /\ IsInjective(rx[n]) /\ c \notin Range(rx[n])
           => IsInjective(Append(rx[n], c))
  BY <1>1, <1>2, AppendFacts
<1>4. /\ fq' = [fq EXCEPT ![n] = Tail(@)]
      /\ rx' = [rx EXCEPT ![n] = Append(@, c)]
      /\ unreleased' = IF n \in PromptNic THEN unreleased
                       ELSE [unreleased EXCEPT ![n] = @ + 1]
      /\ UNCHANGED <<pool, opened, tx, sending, cq, held, alive>>
  BY DEF KernelRx, c
<1>5. /\ fq' \in [Nic -> Seq(Chunk)] /\ rx' \in [Nic -> Seq(Chunk)]
      /\ fq'[n] = Tail(fq[n]) /\ rx'[n] = Append(rx[n], c)
      /\ \A m \in Nic \ {n} : fq'[m] = fq[m] /\ rx'[m] = rx[m]
  BY <1>2, <1>3, <1>4 DEF Inv, TypeOK
<1>6. /\ unreleased' \in [Nic -> Nat] /\ unreleased'[n] <= unreleased[n] + 1
      /\ \A m \in Nic \ {n} : unreleased'[m] = unreleased[m]
  BY <1>1, <1>4 DEF Inv, TypeOK
<1>7. TypeOK'
  <2>1. RingsFit(n)'
    <3>1. unreleased'[n] \in Nat
      BY <1>6
    <3> QED BY <3>1, <1>1, <1>2, <1>3, <1>4, <1>5, <1>6, SizesAssumption
            DEF RingsFit
  <2>2. ASSUME NEW m \in Nic \ {n} PROVE RingsFit(m)'
    BY <1>4, <1>5, <1>6, <2>2 DEF Inv, TypeOK, RingsFit
  <2> QED BY <2>1, <2>2, <1>4, <1>5, <1>6 DEF Inv, TypeOK
<1>8. \A m \in Nic : Filling(m)' = Filling(m)
  BY <1>2, <1>3, <1>5 DEF Filling
<1>9. Held' = Held
  BY <1>4 DEF Held
<1>10. SingleOwner'
  <2>1. /\ IsInjective(fq'[n]) /\ IsInjective(rx'[n])
        /\ Range(fq'[n]) \cap Range(rx'[n]) = {}
    BY <1>1, <1>2, <1>3, <1>5
  <2>2. \A m \in Nic \ {n} : /\ IsInjective(fq'[m]) /\ IsInjective(rx'[m])
                              /\ Range(fq'[m]) \cap Range(rx'[m]) = {}
    BY <1>5 DEF Inv, SingleOwner
  <2> QED BY <2>1, <2>2, <1>4, <1>8, <1>9 DEF Inv, SingleOwner
<1>11. NoLeak'
  BY <1>4, <1>8, <1>9 DEF Inv, NoLeak
<1>12. Closed'
  <2>1. n \in opened
    BY <1>1 DEF Inv, Closed
  <2> QED BY <2>1, <1>4, <1>5, <1>6 DEF Inv, Closed
<1> QED BY <1>7, <1>10, <1>11, <1>12 DEF Inv

\* A step that moves no chunk that is free, held or filled keeps the owners.
LEMMA OwnersKept ==
  ASSUME Inv, UNCHANGED <<pool, opened, fq, rx, held, alive>>,
         \A n \in Nic : unreleased'[n] = unreleased[n] \/ unreleased'[n] = 0
  PROVE  SingleOwner' /\ NoLeak' /\ Closed'
<1>1. Held' = Held /\ \A m \in Nic : Filling(m)' = Filling(m)
  BY DEF Held, Filling
<1> QED BY <1>1 DEF Inv, SingleOwner, NoLeak, Closed

\* Giving fill ring slots back moves no chunk.
LEMMA KernelFqReleaseInv ==
  ASSUME Inv, NEW n \in Nic, KernelFqRelease(n)
  PROVE  Inv'
<1>1. /\ unreleased' = [unreleased EXCEPT ![n] = 0]
      /\ UNCHANGED <<pool, opened, fq, rx, tx, sending, cq, held, alive>>
  BY DEF KernelFqRelease
<1>2. ASSUME NEW m \in Nic PROVE RingsFit(m)'
  <2>1. fq[m] \in Seq(Chunk) /\ Len(fq[m]) \in Nat /\ unreleased[m] \in Nat
        /\ RingsFit(m)
    BY LenProperties DEF Inv, TypeOK
  <2> QED BY <2>1, <1>1, SizesAssumption DEF Inv, TypeOK, RingsFit
<1>3. TypeOK'
  BY <1>1, <1>2 DEF Inv, TypeOK
<1>4. SingleOwner' /\ NoLeak' /\ Closed'
  BY <1>1, OwnersKept DEF Inv, TypeOK
<1> QED BY <1>3, <1>4 DEF Inv

\* Taking a descriptor moves no chunk that anyone owns.
LEMMA KernelTxTakeInv ==
  ASSUME Inv, NEW n \in Nic, KernelTxTake(n)
  PROVE  Inv'
<1> DEFINE c == Head(tx[n])
<1>1. /\ tx[n] \in Seq(Chunk) /\ sending[n] \in Seq(Chunk) /\ tx[n] # <<>>
      /\ Len(sending[n]) \in Nat /\ cq[n] \in Nat /\ RingsFit(n)
      /\ cq[n] + Len(sending[n]) < CqSize
  BY LenProperties DEF KernelTxTake, Inv, TypeOK
<1>2. /\ c \in Chunk /\ Tail(tx[n]) \in Seq(Chunk)
      /\ Len(tx[n]) \in Nat \ {0} /\ Len(Tail(tx[n])) = Len(tx[n]) - 1
  BY <1>1, HeadTailFacts
<1> HIDE DEF c
<1>3. /\ Append(sending[n], c) \in Seq(Chunk)
      /\ Len(Append(sending[n], c)) = Len(sending[n]) + 1
  BY <1>1, <1>2, AppendFacts
<1>4. /\ tx' = [tx EXCEPT ![n] = Tail(@)]
      /\ sending' = [sending EXCEPT ![n] = Append(@, c)]
      /\ UNCHANGED <<pool, opened, fq, unreleased, rx, cq, held, alive>>
  BY DEF KernelTxTake, c
<1>5. /\ tx' \in [Nic -> Seq(Chunk)] /\ sending' \in [Nic -> Seq(Chunk)]
      /\ tx'[n] = Tail(tx[n]) /\ sending'[n] = Append(sending[n], c)
      /\ \A m \in Nic \ {n} : tx'[m] = tx[m] /\ sending'[m] = sending[m]
  BY <1>2, <1>3, <1>4 DEF Inv, TypeOK
<1>6. RingsFit(n)'
  BY <1>1, <1>2, <1>3, <1>4, <1>5, SizesAssumption DEF RingsFit
<1>7. ASSUME NEW m \in Nic \ {n} PROVE RingsFit(m)'
  BY <1>4, <1>5, <1>7 DEF Inv, TypeOK, RingsFit
<1>8. TypeOK'
  BY <1>4, <1>5, <1>6, <1>7 DEF Inv, TypeOK
<1>9. SingleOwner' /\ NoLeak' /\ Closed'
  BY <1>4, OwnersKept
<1> QED BY <1>8, <1>9 DEF Inv

\* Completing a transmission moves no chunk that anyone owns.
LEMMA KernelTxDoneInv ==
  ASSUME Inv, NEW n \in Nic, KernelTxDone(n)
  PROVE  Inv'
<1>1. /\ sending[n] \in Seq(Chunk) /\ sending[n] # <<>>
      /\ cq[n] \in Nat /\ RingsFit(n)
  BY DEF KernelTxDone, Inv, TypeOK
<1>2. /\ Tail(sending[n]) \in Seq(Chunk) /\ Len(sending[n]) \in Nat \ {0}
      /\ Len(Tail(sending[n])) = Len(sending[n]) - 1
  BY <1>1, HeadTailFacts
<1>3. /\ sending' = [sending EXCEPT ![n] = Tail(@)]
      /\ cq' = [cq EXCEPT ![n] = @ + 1]
      /\ UNCHANGED <<pool, opened, fq, unreleased, rx, tx, held, alive>>
  BY DEF KernelTxDone
<1>4. /\ sending' \in [Nic -> Seq(Chunk)] /\ cq' \in [Nic -> Nat]
      /\ sending'[n] = Tail(sending[n]) /\ cq'[n] = cq[n] + 1
      /\ \A m \in Nic \ {n} : sending'[m] = sending[m] /\ cq'[m] = cq[m]
  BY <1>1, <1>2, <1>3 DEF Inv, TypeOK
<1>5. RingsFit(n)'
  BY <1>1, <1>2, <1>3, <1>4, SizesAssumption DEF RingsFit
<1>6. ASSUME NEW m \in Nic \ {n} PROVE RingsFit(m)'
  BY <1>3, <1>4, <1>6 DEF Inv, TypeOK, RingsFit
<1>7. TypeOK'
  BY <1>3, <1>4, <1>5, <1>6 DEF Inv, TypeOK
<1>8. SingleOwner' /\ NoLeak' /\ Closed'
  BY <1>3, OwnersKept
<1> QED BY <1>7, <1>8 DEF Inv

\* A stuttering step keeps the invariant.
LEMMA StutterInv == ASSUME Inv, UNCHANGED vars PROVE Inv'
<1>1. TypeOK'
  BY DEF Inv, TypeOK, RingsFit, vars
<1>2. SingleOwner' /\ NoLeak' /\ Closed'
  BY OwnersKept DEF vars
<1> QED BY <1>1, <1>2 DEF Inv

\* Every step keeps the invariant.
LEMMA NextInv == ASSUME Inv, [Next]_vars PROVE Inv'
<1>1. CASE AllocPacket
  BY <1>1, AllocPacketInv
<1>2. CASE \E c \in Chunk : DropPacket(c)
  BY <1>2, DropPacketInv
<1>3. CASE \E n \in Nic : Open(n)
  BY <1>3, OpenInv
<1>4. CASE \E n \in Nic, len \in 1..MaxHeld : Receive(n, len)
  BY <1>4, ReceiveInv
<1>5. CASE \E n \in Nic, s \in Vectors : Send(n, s)
  BY <1>5, SendInv
<1>6. CASE \E n \in Nic : KernelRx(n)
  BY <1>6, KernelRxInv
<1>7. CASE \E n \in Nic : KernelFqRelease(n)
  BY <1>7, KernelFqReleaseInv
<1>8. CASE \E n \in Nic : KernelTxTake(n)
  BY <1>8, KernelTxTakeInv
<1>9. CASE \E n \in Nic : KernelTxDone(n)
  BY <1>9, KernelTxDoneInv
<1>10. CASE UNCHANGED vars
  BY <1>10, StutterInv
<1> QED BY <1>1, <1>2, <1>3, <1>4, <1>5, <1>6, <1>7, <1>8, <1>9, <1>10
        DEF Next, Application, Kernel

\* Types, single ownership and the absence of leaks hold together.
THEOREM Invariance == Spec => []Inv
<1>1. Init => Inv
  BY InitInv
<1>2. Inv /\ [Next]_vars => Inv'
  BY NextInv
<1> QED BY <1>1, <1>2, PTL DEF Spec

-----------------------------------------------------------------------------
(* What follows from Inv alone.                                            *)

\* The state has its type, and no ring of any Nic ever holds more entries
\* than it has slots, whatever order library calls and kernel steps take.
THEOREM TypeCorrect == Spec => []TypeOK
<1>1. Inv => TypeOK
  BY DEF Inv
<1> QED BY <1>1, Invariance, PTL

\* Free, fill ring, receive ring and Packet never share a chunk: alloc_addr,
\* free_addr, recv and send hand every chunk over without keeping it.
THEOREM OneOwner == Spec => []SingleOwner
<1>1. Inv => SingleOwner
  BY DEF Inv
<1> QED BY <1>1, Invariance, PTL

\* While the process runs no chunk is lost by alloc_packet, receive, send or
\* the drop of a Packet.
THEOREM NothingLost == Spec => []NoLeak
<1>1. Inv => NoLeak
  BY DEF Inv
<1> QED BY <1>1, Invariance, PTL

-----------------------------------------------------------------------------
(* The stock of an open Nic.                                               *)

\* With a kernel that gives FQ slots back promptly, none is ever withheld.
Prompt == \A n \in PromptNic : unreleased[n] = 0

StockInv == Inv /\ FillStock /\ Prompt

\* No Nic is open at the start, so no stock is owed.
LEMMA InitStock == ASSUME Init PROVE StockInv
BY InitInv, PromptAssumption DEF Init, StockInv, FillStock, Prompt

\* Nic::new gives the new Nic a full stock.
LEMMA OpenStock ==
  ASSUME StockInv, NEW n \in Nic, Open(n)
  PROVE  FillStock' /\ Prompt'
<1>1. /\ n \notin opened /\ fq[n] = <<>> /\ rx[n] = <<>> /\ unreleased[n] = 0
      /\ UNCHANGED <<unreleased, rx>>
  BY DEF Open, StockInv, Inv, Closed
<1>2. Len(<<>>) = 0
  BY EmptySeq
<1>3. FqFree(n) = FqSize
  <2>1. Len(fq[n]) + unreleased[n] = 0
    BY <1>1, <1>2
  <2> QED BY <2>1, SizesAssumption DEF FqFree
<1>4. Reserve(FqFree(n), FqSize) = FqSize
  BY <1>3, SizesAssumption DEF Reserve
<1>5. CASE \E s \in AllocAddrs(FqSize) : /\ opened' = opened \cup {n}
                                         /\ fq' = [fq EXCEPT ![n] = @ \o s]
                                         /\ alive' = alive
  <2>1. PICK s \in AllocAddrs(FqSize) : /\ opened' = opened \cup {n}
                                        /\ fq' = [fq EXCEPT ![n] = @ \o s]
                                        /\ alive' = alive
    BY <1>5
  <2>2. s \in Seq(Chunk) /\ Len(s) = FqSize
    BY AllocFacts, SizesAssumption DEF StockInv, Inv
  <2>3. fq'[n] = s /\ \A m \in Nic \ {n} : fq'[m] = fq[m]
    BY <2>1, <2>2, <1>1, ConcatEmptySeq DEF StockInv, Inv, TypeOK
  <2>4. StockOf(n)' = FqSize /\ \A m \in Nic \ {n} : StockOf(m)' = StockOf(m)
    <3>1. Len(fq'[n]) = FqSize /\ Len(rx'[n]) = 0
      BY <2>2, <2>3, <1>1, <1>2
    <3>2. StockOf(n)' = FqSize
      BY <3>1, SizesAssumption DEF StockOf
    <3> QED BY <3>2, <2>3, <1>1 DEF StockOf
  <2>5. FillStock'
    BY <2>1, <2>4, SizesAssumption DEF StockInv, Inv, TypeOK, FillStock
  <2> QED BY <2>5, <1>1 DEF StockInv, Prompt
<1>6. CASE alive' = FALSE
  BY <1>1, <1>6 DEF StockInv, FillStock, Prompt
<1> QED BY <1>4, <1>5, <1>6 DEF Open

\* receive pays for every packet with a chunk when slots come back promptly.
LEMMA ReceiveStock ==
  ASSUME StockInv, NEW n \in Nic, NEW len \in 1..MaxHeld, Receive(n, len)
  PROVE  FillStock' /\ Prompt'
<1>1. PICK k \in Peeks(Len(rx[n]), len) :
        LET r == RefillLen(n, k)
        IN  /\ n \in opened
            /\ rx' = [rx EXCEPT ![n] = SubSeq(@, k + 1, Len(@))]
            /\ \/ /\ \E s \in AllocAddrs(r) : fq' = [fq EXCEPT ![n] = @ \o s]
                  /\ alive' = alive
               \/ alive' = FALSE
            /\ UNCHANGED <<opened, unreleased>>
  BY DEF Receive
<1> DEFINE r == RefillLen(n, k)
<1>2. /\ rx[n] \in Seq(Chunk) /\ fq[n] \in Seq(Chunk) /\ unreleased[n] \in Nat
      /\ Len(rx[n]) \in Nat /\ Len(fq[n]) \in Nat
      /\ RingsFit(n)
  BY LenProperties DEF StockInv, Inv, TypeOK
<1>3. k \in 1..Len(rx[n])
  <2>1. len \in Nat
    BY SizesAssumption
  <2>2. /\ Peek(Len(rx[n]), len) \in Nat
        /\ Peek(Len(rx[n]), len) <= Len(rx[n])
    BY <2>1, <1>2, PeekFacts
  <2>3. k \in 1..Peek(Len(rx[n]), len)
    BY <1>1 DEF Peeks
  <2> QED BY <2>2, <2>3, <1>2
<1>8. k \in Nat /\ 1 <= k /\ k <= Len(rx[n])
  BY <1>2, <1>3
<1>4. /\ FqFree(n) \in Nat /\ FqFree(n) = FqSize - (Len(fq[n]) + unreleased[n])
  BY <1>2, FreeFacts
<1>5. r \in Nat /\ r <= k
  <2>1. r = Reserve(FqFree(n), k)
    BY DEF RefillLen
  <2> HIDE DEF r
  <2> QED BY <2>1, <1>4, <1>8, ReserveFacts
<1>6. CASE alive' = FALSE
  BY <1>1, <1>6 DEF StockInv, FillStock, Prompt
<1>7. CASE (\E s \in AllocAddrs(r) : fq' = [fq EXCEPT ![n] = @ \o s]) /\ alive' = alive
  <2> SUFFICES ASSUME alive PROVE FillStock' /\ Prompt'
    BY <1>1, <1>7 DEF StockInv, FillStock, Prompt
  <2>1. PICK s \in AllocAddrs(r) : fq' = [fq EXCEPT ![n] = @ \o s]
    BY <1>7
  <2>2. s \in Seq(Chunk) /\ Len(s) = r
    BY <1>5, AllocFacts DEF StockInv, Inv
  <2> HIDE DEF r
  <2>3. Len(fq'[n]) = Len(fq[n]) + r /\ \A m \in Nic \ {n} : fq'[m] = fq[m]
    BY <2>1, <2>2, <1>2, ConcatProperties DEF StockInv, Inv, TypeOK
  <2>4. Len(rx'[n]) = Len(rx[n]) - k /\ \A m \in Nic \ {n} : rx'[m] = rx[m]
    BY <1>1, <1>2, <1>3, SplitFacts DEF StockInv, Inv, TypeOK
  <2> DEFINE f == Len(fq[n])
             x == Len(rx[n])
             u == unreleased[n]
  <2>5. /\ StockOf(n) = f + x /\ StockOf(n)' = (f + r) + (x - k)
        /\ FqFree(n) = FqSize - (f + u)
        /\ f \in Nat /\ x \in Nat /\ u \in Nat /\ k <= x
        /\ k \in Nat /\ r \in Nat /\ r <= k /\ FqSize \in Nat
    BY <2>3, <2>4, <1>2, <1>4, <1>5, <1>8, SizesAssumption DEF StockOf
  <2>6. StockOf(n) <= FqSize /\ (n \in PromptNic => StockOf(n) = FqSize)
    BY <1>1 DEF StockInv, FillStock
  <2>10. \A m \in Nic \ {n} : StockOf(m)' = StockOf(m)
    BY <2>3, <2>4 DEF StockOf
  <2> HIDE DEF f, x, u
  <2>7. StockOf(n)' <= FqSize
    BY <2>5, <2>6
  <2>8. ASSUME n \in PromptNic PROVE StockOf(n)' = FqSize
    <3>1. u = 0
      BY <2>8 DEF StockInv, Prompt, u
    <3>2. FqFree(n) = x
      BY <3>1, <2>5, <2>6, <2>8
    <3>3. r = k
      BY <3>2, <2>5 DEF r, RefillLen, Reserve
    <3> QED BY <3>3, <2>5, <2>6, <2>8
  <2>9. FillStock'
    BY <2>7, <2>8, <2>10, <1>1, <1>7 DEF StockInv, Inv, TypeOK, FillStock
  <2> QED BY <2>9, <1>1 DEF StockInv, Prompt
<1> QED BY <1>1, <1>6, <1>7

\* A received frame keeps the stock: its chunk only changes the ring.
LEMMA KernelRxStock ==
  ASSUME StockInv, NEW n \in Nic, KernelRx(n)
  PROVE  FillStock' /\ Prompt'
<1>1. /\ fq[n] \in Seq(Chunk) /\ rx[n] \in Seq(Chunk) /\ fq[n] # <<>>
      /\ Len(rx[n]) \in Nat
  BY LenProperties DEF KernelRx, StockInv, Inv, TypeOK
<1>2. /\ Head(fq[n]) \in Chunk
      /\ Len(fq[n]) \in Nat /\ Len(Tail(fq[n])) = Len(fq[n]) - 1
  BY <1>1, HeadTailFacts
<1>3. Len(Append(rx[n], Head(fq[n]))) = Len(rx[n]) + 1
  BY <1>1, <1>2, AppendFacts
<1>4. \A m \in Nic : StockOf(m)' = StockOf(m)
  <2>1. /\ fq'[n] = Tail(fq[n]) /\ rx'[n] = Append(rx[n], Head(fq[n]))
        /\ \A m \in Nic \ {n} : fq'[m] = fq[m] /\ rx'[m] = rx[m]
    BY DEF KernelRx, StockInv, Inv, TypeOK
  <2> DEFINE f == Len(fq[n])
             x == Len(rx[n])
  <2>2. /\ StockOf(n)' = (f - 1) + (x + 1) /\ StockOf(n) = f + x
        /\ f \in Nat /\ x \in Nat
    BY <2>1, <1>1, <1>2, <1>3 DEF StockOf
  <2> HIDE DEF f, x
  <2>3. StockOf(n)' = StockOf(n)
    BY <2>2
  <2> QED BY <2>1, <2>3 DEF StockOf
<1>5. opened' = opened /\ alive' = alive
      /\ \A m \in PromptNic : unreleased'[m] = unreleased[m]
  BY PromptAssumption DEF KernelRx, StockInv, Inv, TypeOK
<1> QED BY <1>4, <1>5 DEF StockInv, Inv, TypeOK, FillStock, Prompt

\* No other step touches the fill and receive rings.
LEMMA OtherStock ==
  ASSUME StockInv, UNCHANGED <<opened, fq, rx, alive>>,
         \A n \in Nic : unreleased'[n] = unreleased[n] \/ unreleased'[n] = 0
  PROVE  FillStock' /\ Prompt'
<1>1. \A m \in Nic : StockOf(m)' = StockOf(m)
  BY DEF StockOf
<1> QED BY <1>1, PromptAssumption DEF StockInv, Inv, TypeOK, FillStock, Prompt

\* Every step keeps the bound on the stock.
LEMMA NextStock == ASSUME StockInv, [Next]_vars PROVE StockInv'
<1>1. Inv'
  BY NextInv DEF StockInv
<1>2. CASE \E n \in Nic : Open(n)
  BY <1>1, <1>2, OpenStock DEF StockInv
<1>3. CASE \E n \in Nic, len \in 1..MaxHeld : Receive(n, len)
  BY <1>1, <1>3, ReceiveStock DEF StockInv
<1>4. CASE \E n \in Nic : KernelRx(n)
  BY <1>1, <1>4, KernelRxStock DEF StockInv
<1>5. CASE \E n \in Nic : KernelFqRelease(n)
  <2>1. /\ UNCHANGED <<opened, fq, rx, alive>>
        /\ \A m \in Nic : unreleased'[m] = unreleased[m] \/ unreleased'[m] = 0
    BY <1>5 DEF KernelFqRelease, StockInv, Inv, TypeOK
  <2> QED BY <2>1, <1>1, OtherStock DEF StockInv
<1>6. CASE \/ AllocPacket
           \/ \E c \in Chunk : DropPacket(c)
           \/ \E n \in Nic, s \in Vectors : Send(n, s)
           \/ \E n \in Nic : KernelTxTake(n) \/ KernelTxDone(n)
           \/ UNCHANGED vars
  <2>1. UNCHANGED <<opened, fq, rx, alive, unreleased>>
    BY <1>6 DEF AllocPacket, DropPacket, Send, KernelTxTake, KernelTxDone, vars
  <2> QED BY <2>1, <1>1, OtherStock DEF StockInv
<1> QED BY <1>2, <1>3, <1>4, <1>5, <1>6 DEF Next, Application, Kernel

\* An open Nic never takes more chunks than its fill ring has slots, and with
\* prompt release recv pays for every packet it hands out, so the Nic always
\* has exactly that many and cannot run dry.
THEOREM StockHolds == Spec => []FillStock
<1>1. Init => StockInv
  BY InitStock
<1>2. StockInv /\ [Next]_vars => StockInv'
  BY NextStock
<1>3. StockInv => FillStock
  BY DEF StockInv
<1> QED BY <1>1, <1>2, <1>3, PTL DEF Spec

-----------------------------------------------------------------------------
(* No panic when there are enough chunks.                                  *)

HeldBound == Cardinality(Held) <= MaxHeld

EnoughInv == StockInv /\ HeldBound

\* The application holds finitely many packets.
LEMMA HeldFinite == IsFiniteSet(Held) /\ Cardinality(Held) \in Nat
<1>1. Held \subseteq Chunk
  BY DEF Held
<1> QED BY <1>1, FiniteAssumption, FS_Subset, FS_CardinalityType

\* The chunks in fill and receive rings are at most FqSize per open Nic.
LEMMA FillingBound ==
  ASSUME StockInv, alive
  PROVE  LET U == UNION {Filling(n) : n \in Nic}
         IN  IsFiniteSet(U) /\ Cardinality(U) <= Cardinality(opened) * FqSize
<1> DEFINE ring == [n \in opened |-> fq[n] \o rx[n]]
<1>1. /\ opened \subseteq Nic /\ IsFiniteSet(opened)
  BY FiniteAssumption, FS_Subset DEF StockInv, Inv, TypeOK
<1>2. ASSUME NEW n \in opened
      PROVE  /\ ring[n] \in Seq(Chunk) /\ Len(ring[n]) <= FqSize
             /\ Range(ring[n]) = Filling(n)
  <2>1. fq[n] \in Seq(Chunk) /\ rx[n] \in Seq(Chunk) /\ ring[n] = fq[n] \o rx[n]
    BY <1>1 DEF StockInv, Inv, TypeOK
  <2> HIDE DEF ring
  <2>2. /\ ring[n] \in Seq(Chunk) /\ Len(ring[n]) = Len(fq[n]) + Len(rx[n])
        /\ Range(ring[n]) = Range(fq[n]) \cup Range(rx[n])
    BY <2>1, ConcatFacts
  <2>3. Len(fq[n]) + Len(rx[n]) <= FqSize
    BY DEF StockInv, FillStock, StockOf
  <2> QED BY <2>2, <2>3 DEF Filling
<1>3. ring \in [opened -> Seq(Chunk)] /\ \A n \in opened : Len(ring[n]) <= FqSize
  BY <1>2
<1> HIDE DEF ring
<1>4. /\ IsFiniteSet(UNION {Range(ring[n]) : n \in opened})
      /\ Cardinality(UNION {Range(ring[n]) : n \in opened})
           <= Cardinality(opened) * FqSize
  BY <1>1, <1>3, FamilyBound, SizesAssumption
<1>5. UNION {Filling(n) : n \in Nic} = UNION {Range(ring[n]) : n \in opened}
  <2>1. \A n \in Nic \ opened : Filling(n) = {}
    <3>1. Range(<<>>) = {}
      BY DEF Range
    <3> QED BY <3>1 DEF StockInv, Inv, Closed, Filling
  <2> QED BY <2>1, <1>1, <1>2
<1> QED BY <1>4, <1>5

\* So the pool covers what the application may still ask for, and with enough
\* chunks for one Nic more a whole fill ring besides.
LEMMA PoolSuffices ==
  ASSUME StockInv, alive
  PROVE  /\ Cardinality(pool) \in Nat
         /\ Enough(Cardinality(opened))
              => Cardinality(pool) + Cardinality(Held) >= MaxHeld
         /\ Enough(Cardinality(opened) + 1)
              => Cardinality(pool) + Cardinality(Held) >= MaxHeld + FqSize
<1> DEFINE U == UNION {Filling(n) : n \in Nic}
           o == Cardinality(opened)
<1>1. IsFiniteSet(U) /\ Cardinality(U) \in Nat /\ Cardinality(U) <= o * FqSize
  BY FillingBound, FS_CardinalityType
<1>2. IsFiniteSet(pool) /\ Cardinality(pool) \in Nat
  BY FiniteAssumption, FS_Subset, FS_CardinalityType DEF StockInv, Inv, TypeOK
<1>3. o \in Nat
  BY FiniteAssumption, FS_Subset, FS_CardinalityType DEF StockInv, Inv, TypeOK
<1>4. Chunk \subseteq (pool \cup Held) \cup U
  BY DEF StockInv, Inv, NoLeak
<1> HIDE DEF U, o
<1>5. /\ IsFiniteSet(pool \cup Held)
      /\ Cardinality(pool \cup Held) <= Cardinality(pool) + Cardinality(Held)
  BY <1>2, HeldFinite, UnionBound
<1>6. /\ IsFiniteSet((pool \cup Held) \cup U)
      /\ Cardinality((pool \cup Held) \cup U)
           <= Cardinality(pool \cup Held) + Cardinality(U)
  BY <1>1, <1>5, UnionBound
<1>7. Cardinality(Chunk) <= Cardinality((pool \cup Held) \cup U)
  BY <1>4, <1>6, FS_Subset
<1>8. Cardinality(Chunk) <= Cardinality(pool) + Cardinality(Held) + o * FqSize
  <2>1. /\ Cardinality(Chunk) \in Nat
        /\ Cardinality((pool \cup Held) \cup U) \in Nat
        /\ Cardinality(pool \cup Held) \in Nat
    BY <1>5, <1>6, FiniteAssumption, FS_CardinalityType
  <2>2. o * FqSize \in Nat
    BY <1>3, SizesAssumption
  <2> QED BY <2>1, <2>2, <1>1, <1>2, <1>5, <1>6, <1>7, HeldFinite
<1>9. (o + 1) * FqSize = o * FqSize + FqSize /\ o * FqSize \in Nat
  BY <1>3, SizesAssumption
<1>10. Cardinality(Chunk) \in Nat
  BY FiniteAssumption, FS_CardinalityType
<1>11. ASSUME Enough(o) PROVE Cardinality(pool) + Cardinality(Held) >= MaxHeld
  BY <1>2, <1>8, <1>9, <1>10, <1>11, HeldFinite, SizesAssumption DEF Enough
<1>12. ASSUME Enough(o + 1)
       PROVE  Cardinality(pool) + Cardinality(Held) >= MaxHeld + FqSize
  BY <1>2, <1>8, <1>9, <1>10, <1>12, HeldFinite, SizesAssumption DEF Enough
<1> QED BY <1>2, <1>11, <1>12 DEF o

\* No step makes the application hold more than MaxHeld packets.
LEMMA HeldBoundKept == ASSUME StockInv, HeldBound, [Next]_vars PROVE HeldBound'
<1>1. CASE AllocPacket
  <2>1. PICK s \in AllocAddrs(1) : held' = Wrapped(s)
    BY <1>1 DEF AllocPacket
  <2>2. /\ s \in Seq(Chunk) /\ Len(s) = 1 /\ IsInjective(s)
        /\ Range(s) \subseteq pool
    BY AllocFacts DEF StockInv, Inv
  <2>3. Held' = Held \cup Range(s)
    BY <2>1, <2>2, WrapFacts DEF StockInv, Inv, SingleOwner
  <2>4. IsFiniteSet(Range(s)) /\ Cardinality(Range(s)) = 1
    BY <2>2, RangeFacts
  <2>5. /\ Cardinality(Held \cup Range(s)) \in Nat
        /\ Cardinality(Held \cup Range(s)) <= Cardinality(Held) + 1
    BY <2>4, HeldFinite, UnionBound
  <2>6. Cardinality(Held) < MaxHeld
    BY <1>1 DEF AllocPacket
  <2>7. Cardinality(Held \cup Range(s)) <= MaxHeld
    BY <2>5, <2>6, HeldFinite, SizesAssumption
  <2> QED BY <2>3, <2>7 DEF HeldBound
<1>2. CASE \E n \in Nic, len \in 1..MaxHeld : Receive(n, len)
  <2>1. PICK n \in Nic, len \in 1..MaxHeld : Receive(n, len)
    BY <1>2
  <2>2. PICK k \in Peeks(Len(rx[n]), len) : held' = Wrapped(SubSeq(rx[n], 1, k))
    BY <2>1 DEF Receive
  <2> DEFINE batch == SubSeq(rx[n], 1, k)
  <2>3. rx[n] \in Seq(Chunk) /\ Len(rx[n]) \in Nat
    BY LenProperties DEF StockInv, Inv, TypeOK
  <2>4. len \in Nat
    BY SizesAssumption
  <2>5. k \in 1..Len(rx[n]) /\ k <= len
    <3>1. /\ Peek(Len(rx[n]), len) \in Nat
          /\ Peek(Len(rx[n]), len) <= Len(rx[n])
          /\ Peek(Len(rx[n]), len) <= len
      BY <2>3, <2>4, PeekFacts
    <3>2. k \in 1..Peek(Len(rx[n]), len)
      BY DEF Peeks
    <3> QED BY <3>1, <3>2, <2>3, <2>4
  <2>6. /\ batch \in Seq(Chunk) /\ Len(batch) = k /\ IsInjective(batch)
        /\ Range(batch) \subseteq Range(rx[n])
    BY <2>3, <2>5, SplitFacts DEF StockInv, Inv, SingleOwner
  <2> HIDE DEF batch
  <2>7. Range(batch) \cap Held = {}
    BY <2>6 DEF StockInv, Inv, SingleOwner, Filling
  <2>8. Held' = Held \cup Range(batch)
    <3>1. held' = Wrapped(batch)
      BY <2>2 DEF batch
    <3> QED BY <3>1, <2>6, <2>7, WrapFacts DEF StockInv, Inv, SingleOwner
  <2>9. IsFiniteSet(Range(batch)) /\ Cardinality(Range(batch)) = k
    BY <2>6, RangeFacts
  <2>10. /\ Cardinality(Held \cup Range(batch)) \in Nat
         /\ Cardinality(Held \cup Range(batch)) <= Cardinality(Held) + k
    BY <2>9, HeldFinite, UnionBound
  <2>11. Cardinality(Held) + len <= MaxHeld
    BY <2>1 DEF Receive
  <2>12. Cardinality(Held \cup Range(batch)) <= MaxHeld
    BY <2>4, <2>5, <2>10, <2>11, HeldFinite, SizesAssumption
  <2> QED BY <2>8, <2>12 DEF HeldBound
<1>3. CASE Held' \subseteq Held
  <2>1. Cardinality(Held') \in Nat /\ Cardinality(Held') <= Cardinality(Held)
    BY <1>3, HeldFinite, FS_Subset, FS_CardinalityType
  <2> QED BY <2>1, HeldFinite, SizesAssumption DEF HeldBound
<1>4. CASE \/ \E n \in Nic : Open(n) \/ Kernel(n)
           \/ UNCHANGED vars
  <2>1. held' = held
    BY <1>4 DEF Open, Kernel, KernelRx, KernelFqRelease, KernelTxTake,
                KernelTxDone, vars
  <2> QED BY <2>1, <1>3 DEF Held
<1>5. CASE \/ \E c \in Chunk : DropPacket(c)
           \/ \E n \in Nic, s \in Vectors : Send(n, s)
  <2>1. PICK C : held' = Dropped(C)
    BY <1>5 DEF DropPacket, Send
  <2>2. \A c \in Chunk : held[c] \in Nat
    BY DEF StockInv, Inv, TypeOK
  <2>3. \A c \in Chunk : held'[c] <= held[c] /\ held'[c] \in Int
    BY <2>1, <2>2 DEF Dropped
  <2>4. Held' \subseteq Held
    BY <2>2, <2>3 DEF Held
  <2> QED BY <2>4, <1>3
<1> QED BY <1>1, <1>2, <1>4, <1>5 DEF Next, Application

\* With enough chunks no step ends the process.
LEMMA AliveKept == ASSUME EnoughInv, [Next]_vars, Aborts PROVE Short
<1> DEFINE o == Cardinality(opened)
<1>1. /\ Cardinality(pool) \in Nat /\ Cardinality(Held) \in Nat
      /\ Enough(o) => Cardinality(pool) + Cardinality(Held) >= MaxHeld
      /\ Enough(o + 1)
           => Cardinality(pool) + Cardinality(Held) >= MaxHeld + FqSize
      /\ Cardinality(Held) <= MaxHeld
  BY PoolSuffices, HeldFinite DEF EnoughInv, HeldBound, Aborts
<1>2. CASE \E n \in Nic : Open(n)
  <2> SUFFICES ASSUME Enough(o + 1) PROVE FALSE
    BY <1>2 DEF Short
  <2>1. PICK n \in Nic : Open(n)
    BY <1>2
  <2>2. n \notin opened /\ Cardinality(pool) < Reserve(FqFree(n), FqSize)
    BY <2>1 DEF Open, Aborts
  <2>3. Reserve(FqFree(n), FqSize) <= FqSize /\ Reserve(FqFree(n), FqSize) \in Nat
    BY SizesAssumption DEF Reserve
  <2>4. Cardinality(pool) >= FqSize
    BY <1>1, SizesAssumption
  <2> QED BY <2>2, <2>3, <2>4, <1>1, SizesAssumption
<1>3. CASE \E n \in Nic, len \in 1..MaxHeld : Receive(n, len)
  <2> SUFFICES ASSUME Enough(o) PROVE FALSE
    BY DEF Short
  <2>1. PICK n \in Nic, len \in 1..MaxHeld : Receive(n, len)
    BY <1>3
  <2>2. PICK k \in Peeks(Len(rx[n]), len) : Cardinality(pool) < RefillLen(n, k)
    BY <2>1 DEF Receive, Aborts
  <2>3. Cardinality(Held) + len <= MaxHeld
    BY <2>1 DEF Receive
  <2>4. Len(rx[n]) \in Nat /\ len \in Nat
    BY LenProperties, SizesAssumption DEF EnoughInv, StockInv, Inv, TypeOK
  <2>5. k \in Nat /\ k <= len
    <3>1. Peek(Len(rx[n]), len) \in Nat /\ Peek(Len(rx[n]), len) <= len
      BY <2>4, PeekFacts
    <3>2. k \in 1..Peek(Len(rx[n]), len)
      BY DEF Peeks
    <3> QED BY <3>1, <3>2, <2>4
  <2>6. RefillLen(n, k) <= k
    BY <2>5 DEF RefillLen, Reserve
  <2>7. RefillLen(n, k) \in Nat
    BY <2>5 DEF RefillLen, Reserve
  <2> QED BY <2>2, <2>3, <2>4, <2>5, <2>6, <2>7, <1>1, SizesAssumption
<1>4. CASE \/ AllocPacket
           \/ \E c \in Chunk : DropPacket(c)
           \/ \E n \in Nic, s \in Vectors : Send(n, s)
           \/ \E n \in Nic : Kernel(n)
           \/ UNCHANGED vars
  BY <1>4 DEF AllocPacket, DropPacket, Send, Kernel, KernelRx, Aborts,
              KernelFqRelease, KernelTxTake, KernelTxDone, vars
<1> QED BY <1>2, <1>3, <1>4 DEF Next, Application

\* The invariants the sizing argument needs hold together.
LEMMA EnoughInvariance == Spec => []EnoughInv
<1>1. Init => EnoughInv
  <2>1. ASSUME Init PROVE StockInv
    BY <2>1, InitStock
  <2>2. ASSUME Init PROVE HeldBound
    <3>1. Held = {}
      BY <2>2 DEF Init, Held
    <3> QED BY <3>1, FS_EmptySet, SizesAssumption DEF HeldBound
  <2> QED BY <2>1, <2>2 DEF EnoughInv
<1>2. EnoughInv /\ [Next]_vars => EnoughInv'
  BY NextStock, HeldBoundKept DEF EnoughInv
<1> QED BY <1>1, <1>2, PTL DEF Spec

\* As long as the UMEM has a chunk for every fill ring slot of the open Nics
\* and for every packet the application holds, the unwrap of reserve_fq in
\* recv never panics; and open never runs out of chunks if there is a fill
\* ring's worth of chunks more.
THEOREM NoAbort == Spec => NeverAborts
<1>1. EnoughInv /\ [Next]_vars => [Aborts => Short]_vars
  BY AliveKept
<1> QED BY <1>1, EnoughInvariance, PTL DEF Spec, NeverAborts

-----------------------------------------------------------------------------
(* The data plane implements ChunkLease.                                   *)

\* What `owner` says in a state of a running process.
OwnerOK ==
  /\ owner = [c \in Chunk |-> owner[c]]
  /\ \A c \in Chunk : /\ owner[c] = "pool" <=> c \in pool
                      /\ owner[c] = "app" <=> c \in Held
                      /\ \A n \in Nic : owner[c] = n <=> c \in Filling(n)

\* The refinement mapping names the owner of each chunk.
LEMMA OwnerIs == Inv /\ alive => OwnerOK
<1> SUFFICES ASSUME Inv, alive PROVE OwnerOK
  OBVIOUS
<1>1. owner = [c \in Chunk |-> owner[c]]
  BY DEF owner
<1>2. ASSUME NEW c \in Chunk
      PROVE  /\ owner[c] = "pool" <=> c \in pool
             /\ owner[c] = "app" <=> c \in Held
             /\ \A n \in Nic : owner[c] = n <=> c \in Filling(n)
  <2>1. \A n \in Nic : n # "pool" /\ n # "app"
    BY NamesAssumption
  <2>2. CASE c \in pool
    <3>1. owner[c] = "pool"
      BY <2>2 DEF owner
    <3> QED BY <2>1, <2>2, <3>1 DEF Inv, SingleOwner
  <2>3. CASE \E n \in Nic : c \in Filling(n)
    <3>1. PICK n \in Nic : c \in Filling(n)
      BY <2>3
    <3>2. c \notin pool /\ c \notin Held
          /\ \A m \in Nic : c \in Filling(m) => m = n
      BY <3>1 DEF Inv, SingleOwner
    <3>3. owner[c] = CHOOSE m \in Nic : c \in Filling(m)
      BY <2>3, <3>2 DEF owner
    <3>4. owner[c] = n
      BY <3>1, <3>2, <3>3
    <3> QED BY <2>1, <3>1, <3>2, <3>4
  <2>4. CASE c \in Held
    <3>1. c \notin pool /\ \A n \in Nic : c \notin Filling(n)
      BY <2>4 DEF Inv, SingleOwner
    <3>2. owner[c] = "app"
      BY <3>1 DEF owner
    <3> QED BY <2>1, <2>4, <3>1, <3>2
  <2> QED BY <2>2, <2>3, <2>4 DEF Inv, NoLeak
<1> QED BY <1>1, <1>2 DEF OwnerOK

\* Two mappings that say the same of every chunk are equal.
LEMMA OwnerEqual ==
  ASSUME OwnerOK, OwnerOK',
         NEW f, f = [c \in Chunk |-> f[c]],
         \A c \in Chunk : owner'[c] = f[c]
  PROVE  owner' = f
BY DEF OwnerOK

\* The abstract specification counts as this one does.
LEMMA SameCount == ASSUME NEW C PROVE Lease!Cardinality(C) = Cardinality(C)
BY DEF Cardinality, Lease!Cardinality

\* Nic::new implements Lend.
LEMMA OpenLends ==
  ASSUME Inv, OwnerOK, OwnerOK', alive, alive', NEW n \in Nic, Open(n)
  PROVE  Lease!Lend(n)
<1>1. n \notin opened /\ fq[n] = <<>> /\ rx[n] = <<>> /\ unreleased[n] = 0
      /\ rx' = rx /\ held' = held
  BY DEF Open, Inv, Closed
<1>2. Len(<<>>) = 0 /\ Range(<<>>) = {}
  BY EmptySeq DEF Range
<1>3. Reserve(FqFree(n), FqSize) = FqSize
  <2>1. Len(fq[n]) + unreleased[n] = 0
    BY <1>1, <1>2
  <2> QED BY <2>1, SizesAssumption DEF FqFree, Reserve
<1>4. PICK s \in AllocAddrs(FqSize) : /\ fq' = [fq EXCEPT ![n] = @ \o s]
                                      /\ pool' = pool \ Range(s)
  BY <1>3 DEF Open, PoolWithout
<1>5. /\ s \in Seq(Chunk) /\ Len(s) = FqSize
      /\ IsInjective(s) /\ Range(s) \subseteq pool
  BY AllocFacts, SizesAssumption DEF Inv
<1>6. fq'[n] = s /\ \A m \in Nic \ {n} : fq'[m] = fq[m]
  BY <1>1, <1>4, <1>5, ConcatEmptySeq DEF Inv, TypeOK
<1>7. /\ Filling(n) = {} /\ Filling(n)' = Range(s)
      /\ \A m \in Nic \ {n} : Filling(m)' = Filling(m)
      /\ Held' = Held
  BY <1>1, <1>2, <1>6 DEF Filling, Held
<1>8. Range(s) \in SUBSET Lease!OwnedBy("pool") /\ Lease!OwnedBy(n) = {}
  BY <1>5, <1>7, RangeFacts DEF OwnerOK, Lease!OwnedBy
<1>9. Cardinality(Range(s)) = FqSize
  BY <1>5, RangeFacts
<1>10. owner' = Lease!Give(Range(s), n)
  <2> DEFINE f == [c \in Chunk |-> IF c \in Range(s) THEN n ELSE owner[c]]
  <2>1. ASSUME NEW c \in Chunk PROVE owner'[c] = f[c]
    <3>1. CASE c \in Range(s)
      BY <3>1, <1>7 DEF OwnerOK
    <3>2. CASE c \notin Range(s)
      <4>1. CASE c \in pool
        BY <3>2, <4>1, <1>4 DEF OwnerOK
      <4>2. CASE c \in Held
        BY <3>2, <4>2, <1>7 DEF OwnerOK
      <4>3. CASE \E m \in Nic : c \in Filling(m)
        BY <3>2, <4>3, <1>7 DEF OwnerOK
      <4> QED BY <4>1, <4>2, <4>3 DEF Inv, NoLeak
    <3> QED BY <3>1, <3>2
  <2>2. owner' = f
    BY <2>1, OwnerEqual
  <2> QED BY <2>2 DEF Lease!Give
<1> QED
  <2>1. \E C \in SUBSET Lease!OwnedBy("pool") :
          Lease!OwnedBy(n) = {} /\ Cardinality(C) = FqSize
          /\ owner' = Lease!Give(C, n)
    BY <1>8, <1>9, <1>10
  <2> QED BY <2>1, SameCount DEF Lease!Lend

\* receive implements Exchange.
LEMMA ReceiveExchanges ==
  ASSUME Inv, OwnerOK, OwnerOK', alive, alive',
         NEW n \in Nic, NEW len \in 1..MaxHeld, Receive(n, len)
  PROVE  Lease!Exchange(n)
<1>1. PICK k \in Peeks(Len(rx[n]), len) :
        /\ rx' = [rx EXCEPT ![n] = SubSeq(@, k + 1, Len(@))]
        /\ held' = Wrapped(SubSeq(rx[n], 1, k))
        /\ \E s \in AllocAddrs(RefillLen(n, k)) :
             /\ fq' = [fq EXCEPT ![n] = @ \o s]
             /\ pool' = pool \ Range(s)
  BY DEF Receive, PoolWithout
<1> DEFINE batch == SubSeq(rx[n], 1, k)
           rest == SubSeq(rx[n], k + 1, Len(rx[n]))
<1>2. /\ rx[n] \in Seq(Chunk) /\ fq[n] \in Seq(Chunk)
      /\ Len(rx[n]) \in Nat
  BY LenProperties DEF Inv, TypeOK
<1>3. k \in 1..Len(rx[n])
  <2>1. len \in Nat
    BY SizesAssumption
  <2>2. Peek(Len(rx[n]), len) \in Nat /\ Peek(Len(rx[n]), len) <= Len(rx[n])
    BY <2>1, <1>2, PeekFacts
  <2>3. k \in 1..Peek(Len(rx[n]), len)
    BY DEF Peeks
  <2> QED BY <2>2, <2>3, <1>2
<1>4. /\ batch \in Seq(Chunk) /\ Len(batch) = k
      /\ Range(batch) \cup Range(rest) = Range(rx[n])
      /\ IsInjective(batch) /\ Range(batch) \cap Range(rest) = {}
  BY <1>2, <1>3, SplitFacts DEF Inv, SingleOwner
<1>5. rx'[n] = rest /\ \A m \in Nic \ {n} : rx'[m] = rx[m]
  BY <1>1 DEF Inv, TypeOK
<1>6. held' = Wrapped(batch)
  BY <1>1
<1> HIDE DEF batch, rest
<1>7. RefillLen(n, k) \in Nat /\ (RefillLen(n, k) = k \/ RefillLen(n, k) = 0)
  BY <1>2, <1>3 DEF RefillLen, Reserve
<1>8. PICK s \in AllocAddrs(RefillLen(n, k)) :
        /\ fq' = [fq EXCEPT ![n] = @ \o s]
        /\ pool' = pool \ Range(s)
  BY <1>1
<1>9. /\ s \in Seq(Chunk) /\ Len(s) = RefillLen(n, k)
      /\ IsInjective(s) /\ Range(s) \subseteq pool
  BY <1>7, AllocFacts DEF Inv
<1>10. /\ Range(fq'[n]) = Range(fq[n]) \cup Range(s)
       /\ \A m \in Nic \ {n} : fq'[m] = fq[m]
  <2>1. fq'[n] = fq[n] \o s /\ \A m \in Nic \ {n} : fq'[m] = fq[m]
    BY <1>8 DEF Inv, TypeOK
  <2>2. Range(fq[n] \o s) = Range(fq[n]) \cup Range(s)
    BY <1>2, <1>9, ConcatFacts
  <2> QED BY <2>1, <2>2
<1>11. /\ Range(batch) \subseteq Filling(n) /\ Range(batch) \cap Held = {}
       /\ Range(batch) \cap Range(s) = {}
  BY <1>4, <1>9 DEF Inv, SingleOwner, Filling
<1>12. /\ Filling(n)' = (Filling(n) \ Range(batch)) \cup Range(s)
       /\ \A m \in Nic \ {n} : Filling(m)' = Filling(m)
  BY <1>4, <1>5, <1>10 DEF Inv, SingleOwner, Filling
<1>13. Held' = Held \cup Range(batch)
  BY <1>4, <1>6, <1>11, WrapFacts DEF Inv, SingleOwner
<1>14. /\ Range(batch) \in SUBSET Lease!OwnedBy(n)
       /\ Range(s) \in SUBSET Lease!OwnedBy("pool")
  BY <1>4, <1>9, <1>11, RangeFacts DEF OwnerOK, Lease!OwnedBy
<1>15. Cardinality(Range(s)) = Cardinality(Range(batch)) \/ Range(s) = {}
  <2>1. /\ Cardinality(Range(batch)) = k
        /\ Cardinality(Range(s)) = RefillLen(n, k) /\ IsFiniteSet(Range(s))
    BY <1>4, <1>9, RangeFacts
  <2> QED BY <2>1, <1>7, FS_EmptySet
<1> DEFINE f == [c \in Chunk |-> IF c \in Range(batch) THEN "app"
                                 ELSE IF c \in Range(s) THEN n ELSE owner[c]]
<1>16. ASSUME NEW c \in Chunk PROVE owner'[c] = f[c]
  <2>1. CASE c \in Range(batch)
    BY <2>1, <1>13 DEF OwnerOK
  <2>2. CASE c \in Range(s)
    BY <2>2, <1>11, <1>12 DEF OwnerOK
  <2>3. CASE c \notin Range(batch) /\ c \notin Range(s)
    <3>1. CASE c \in pool
      BY <2>3, <3>1, <1>8 DEF OwnerOK
    <3>2. CASE c \in Held
      BY <2>3, <3>2, <1>13 DEF OwnerOK
    <3>3. CASE c \in Filling(n)
      BY <2>3, <3>3, <1>12 DEF OwnerOK
    <3>4. CASE \E m \in Nic \ {n} : c \in Filling(m)
      BY <2>3, <3>4, <1>12 DEF OwnerOK
    <3> QED BY <3>1, <3>2, <3>3, <3>4 DEF Inv, NoLeak
  <2> QED BY <2>1, <2>2, <2>3
<1>17. owner' = f
  BY <1>16, OwnerEqual
<1>18. \E R \in SUBSET Lease!OwnedBy(n) : \E C \in SUBSET Lease!OwnedBy("pool") :
         /\ Cardinality(C) = Cardinality(R) \/ C = {}
         /\ owner' = [c \in Chunk |-> IF c \in R THEN "app"
                                      ELSE IF c \in C THEN n ELSE owner[c]]
  BY <1>14, <1>15, <1>17
<1> QED BY <1>18, SameCount DEF Lease!Exchange

\* alloc_packet implements Take.
LEMMA AllocTakes ==
  ASSUME Inv, OwnerOK, OwnerOK', alive, AllocPacket
  PROVE  Lease!Take
<1>1. PICK s \in AllocAddrs(1) : pool' = pool \ Range(s) /\ held' = Wrapped(s)
  BY DEF AllocPacket, PoolWithout
<1>2. /\ s \in Seq(Chunk) /\ Len(s) = 1
      /\ IsInjective(s) /\ Range(s) \subseteq pool
  BY AllocFacts DEF Inv
<1>3. PICK d \in Chunk : Range(s) = {d}
  <2>1. DOMAIN s = 1..1
    BY <1>2, LenProperties
  <2>2. DOMAIN s = {1} /\ s[1] \in Chunk
    BY <2>1, <1>2, ElementOfSeq
  <2> QED BY <2>2 DEF Range
<1>4. Held' = Held \cup {d}
  BY <1>1, <1>2, <1>3, WrapFacts DEF Inv, SingleOwner
<1>5. \A m \in Nic : Filling(m)' = Filling(m)
  BY DEF AllocPacket, Filling
<1>6. d \in Lease!OwnedBy("pool")
  BY <1>2, <1>3 DEF OwnerOK, Lease!OwnedBy
<1> DEFINE f == [c \in Chunk |-> IF c \in {d} THEN "app" ELSE owner[c]]
<1>7. ASSUME NEW c \in Chunk PROVE owner'[c] = f[c]
  <2>1. CASE c = d
    BY <2>1, <1>4 DEF OwnerOK
  <2>2. CASE c # d /\ c \in pool
    BY <2>2, <1>1, <1>3 DEF OwnerOK
  <2>3. CASE c # d /\ c \in Held
    BY <2>3, <1>4 DEF OwnerOK
  <2>4. CASE c # d /\ \E m \in Nic : c \in Filling(m)
    BY <2>4, <1>5 DEF OwnerOK
  <2> QED BY <2>1, <2>2, <2>3, <2>4 DEF Inv, NoLeak
<1>8. owner' = f
  BY <1>7, OwnerEqual
<1> QED BY <1>6, <1>8 DEF Lease!Take, Lease!Give

\* Dropping Packets, or sending them, gives their chunks back.
LEMMA FreeReturns ==
  ASSUME Inv, OwnerOK, OwnerOK', alive,
         NEW C \in SUBSET Held, held' = Dropped(C), pool' = pool \cup C,
         UNCHANGED <<fq, rx>>
  PROVE  Lease!Return
<1>1. Held' = Held \ C
  BY DropFacts DEF Inv, SingleOwner
<1>2. \A m \in Nic : Filling(m)' = Filling(m)
  BY DEF Filling
<1>3. C \in SUBSET Lease!OwnedBy("app")
  BY DEF OwnerOK, Lease!OwnedBy, Held
<1> DEFINE f == [c \in Chunk |-> IF c \in C THEN "pool" ELSE owner[c]]
<1>4. ASSUME NEW c \in Chunk PROVE owner'[c] = f[c]
  <2>1. CASE c \in C
    BY <2>1 DEF OwnerOK
  <2>2. CASE c \notin C /\ c \in pool
    BY <2>2 DEF OwnerOK
  <2>3. CASE c \notin C /\ c \in Held
    BY <2>3, <1>1 DEF OwnerOK
  <2>4. CASE c \notin C /\ \E m \in Nic : c \in Filling(m)
    BY <2>4, <1>2 DEF OwnerOK
  <2> QED BY <2>1, <2>2, <2>3, <2>4 DEF Inv, NoLeak
<1>5. owner' = f
  BY <1>4, OwnerEqual
<1> QED BY <1>3, <1>5 DEF Lease!Return, Lease!Give

\* send implements Return of the packets it sent.
LEMMA SendReturns ==
  ASSUME Inv, OwnerOK, OwnerOK', alive, NEW n \in Nic, NEW s \in Vectors, Send(n, s)
  PROVE  Lease!Return
<1>1. s \in Seq(Held)
  <2>1. PICK k \in 0..MaxHeld : s \in [1..k -> Held]
    BY DEF Vectors
  <2> QED BY <2>1, SizesAssumption
<1>2. tx[n] \in Seq(Chunk) /\ Len(tx[n]) \in Nat /\ Len(s) \in Nat /\ RingsFit(n)
  BY <1>1, LenProperties DEF Inv, TypeOK
<1>3. ReserveTxq(n, Len(s)) \in 0..Len(s)
  <2>1. TxFree(n) \in Nat
    BY <1>2, SizesAssumption DEF TxFree, RingsFit
  <2>2. ReserveTxq(n, Len(s)) \in Nat /\ ReserveTxq(n, Len(s)) <= Len(s)
    BY <2>1, <1>2, ReserveFacts DEF ReserveTxq
  <2> QED BY <2>2, <1>2
<1> DEFINE sent == SubSeq(s, 1, ReserveTxq(n, Len(s)))
<1>4. Range(sent) \subseteq Held
  <2>1. sent \in Seq(Held)
    BY <1>1, <1>3, SplitFacts
  <2> QED BY <2>1, RangeFacts
<1>5. /\ held' = Dropped(Range(sent)) /\ pool' = pool \cup Range(sent)
      /\ UNCHANGED <<fq, rx>>
  BY DEF Send, PoolWith
<1> QED BY <1>4, <1>5, FreeReturns

\* A step of the kernel moves no chunk to another owner.
LEMMA KernelStutters ==
  ASSUME Inv, OwnerOK, OwnerOK', alive,
         UNCHANGED <<pool, held>>, \A m \in Nic : Filling(m)' = Filling(m)
  PROVE  owner' = owner
<1>1. Held' = Held
  BY DEF Held
<1>2. ASSUME NEW c \in Chunk PROVE owner'[c] = owner[c]
  <2>1. CASE c \in pool
    BY <2>1 DEF OwnerOK
  <2>2. CASE c \in Held
    BY <2>2, <1>1 DEF OwnerOK
  <2>3. CASE \E m \in Nic : c \in Filling(m)
    BY <2>3 DEF OwnerOK
  <2> QED BY <2>1, <2>2, <2>3 DEF Inv, NoLeak
<1> QED BY <1>2, OwnerEqual DEF OwnerOK

\* A received frame leaves the owner of every chunk as it was.
LEMMA KernelRxFilling ==
  ASSUME Inv, NEW n \in Nic, KernelRx(n)
  PROVE  \A m \in Nic : Filling(m)' = Filling(m)
<1>1. fq[n] \in Seq(Chunk) /\ rx[n] \in Seq(Chunk) /\ fq[n] # <<>>
  BY DEF KernelRx, Inv, TypeOK
<1>2. Head(fq[n]) \in Chunk /\ Range(fq[n]) = {Head(fq[n])} \cup Range(Tail(fq[n]))
  BY <1>1, HeadTailFacts
<1>3. Range(Append(rx[n], Head(fq[n]))) = Range(rx[n]) \cup {Head(fq[n])}
  BY <1>1, <1>2, AppendFacts
<1>4. /\ fq'[n] = Tail(fq[n]) /\ rx'[n] = Append(rx[n], Head(fq[n]))
      /\ \A m \in Nic \ {n} : fq'[m] = fq[m] /\ rx'[m] = rx[m]
  BY DEF KernelRx, Inv, TypeOK
<1> QED BY <1>2, <1>3, <1>4 DEF Filling

\* Every step implements a step of ChunkLease or changes no owner.
LEMMA StepMaps ==
  ASSUME Inv, OwnerOK, OwnerOK', alive, alive', [Next]_vars
  PROVE  [Lease!Next]_owner
<1>1. CASE AllocPacket
  BY <1>1, AllocTakes DEF Lease!Next
<1>2. CASE \E c \in Chunk : DropPacket(c)
  <2>1. PICK c \in Chunk : DropPacket(c)
    BY <1>2
  <2>2. /\ c \in Held /\ held' = Dropped({c}) /\ pool' = pool \cup {c}
        /\ UNCHANGED <<fq, rx>>
    BY <2>1 DEF DropPacket, PoolWith, Held
  <2> QED BY <2>2, FreeReturns DEF Lease!Next
<1>3. CASE \E n \in Nic : Open(n)
  BY <1>3, OpenLends DEF Lease!Next
<1>4. CASE \E n \in Nic, len \in 1..MaxHeld : Receive(n, len)
  BY <1>4, ReceiveExchanges DEF Lease!Next
<1>5. CASE \E n \in Nic, s \in Vectors : Send(n, s)
  BY <1>5, SendReturns DEF Lease!Next
<1>6. CASE \E n \in Nic : KernelRx(n)
  <2>1. UNCHANGED <<pool, held>> /\ \A m \in Nic : Filling(m)' = Filling(m)
    BY <1>6, KernelRxFilling DEF KernelRx
  <2> QED BY <2>1, KernelStutters
<1>7. CASE \/ \E n \in Nic : \/ KernelFqRelease(n)
                           \/ KernelTxTake(n)
                           \/ KernelTxDone(n)
           \/ UNCHANGED vars
  <2>1. UNCHANGED <<pool, held, fq, rx>>
    BY <1>7 DEF KernelFqRelease, KernelTxTake, KernelTxDone, vars
  <2>2. \A m \in Nic : Filling(m)' = Filling(m)
    BY <2>1 DEF Filling
  <2> QED BY <2>1, <2>2, KernelStutters
<1> QED BY <1>1, <1>2, <1>3, <1>4, <1>5, <1>6, <1>7 DEF Next, Application, Kernel

\* When the process ends, all chunks go with it, and nothing happens after.
LEMMA EndMaps ==
  ASSUME ~alive \/ ~alive', [Next]_vars
  PROVE  [Lease!Next]_owner
<1>1. CASE ~alive'
  <2>1. owner' = [c \in Chunk |-> "gone"]
    BY <1>1 DEF owner
  <2> QED BY <2>1 DEF Lease!Next, Lease!End
<1>2. CASE ~alive /\ alive'
  <2>1. Next
    BY <1>2 DEF vars
  <2> QED BY <1>2, <2>1 DEF Next, Application, Kernel, AllocPacket, DropPacket, Open,
        Receive, Send, KernelRx, KernelFqRelease, KernelTxTake, KernelTxDone
<1> QED BY <1>1, <1>2

\* Every library call and kernel step is one exchange of ChunkLease or leaves
\* all owners as they are: chunks go from the pool to a Nic or the
\* application, from a Nic to the application, from the application to the
\* pool, and no other way until the process ends.
THEOREM ImplementsLease == Spec => LeaseSpec
<1>1. Init => Lease!Init
  BY DEF Init, Lease!Init, owner
<1>2. Inv /\ alive => OwnerOK
  BY OwnerIs
<1>3. (Inv /\ alive => OwnerOK)'
  BY <1>2, PTL
<1>4. Inv /\ Inv' /\ [Next]_vars => [Lease!Next]_owner
  <2>1. CASE alive /\ alive'
    BY <1>2, <1>3, <2>1, StepMaps
  <2>2. CASE ~alive \/ ~alive'
    BY <2>2, EndMaps
  <2> QED BY <2>1, <2>2
<1> QED BY <1>1, <1>4, Invariance, PTL DEF Spec, LeaseSpec, Lease!Spec
=============================================================================
