---------------------------- MODULE Packetvisor ----------------------------
(***************************************************************************)
(* The data plane of the library: the chunks of one UMEM, the BufferPool   *)
(* that hands them out, the four rings of every open Nic and the Packet    *)
(* values the application holds.  The kernel and the libxdp ring accessors *)
(* are outside the repository; they appear only as far as lib.rs relies on *)
(* them (KernelRx, KernelFqRelease, KernelTxTake, KernelTxDone, Reserve,   *)
(* Peek).                                                                  *)
(*                                                                         *)
(* A chunk stands for its address: `alloc_addr`, `free_addr` and           *)
(* `Packet.private` all name the chunk by its aligned address, so equality *)
(* of chunks is all they tell apart.  An application thread is the only    *)
(* caller of the library here, and every public method is one action: the  *)
(* rings are single-producer single-consumer queues, so a kernel step that *)
(* falls inside a call has the same effect before or after it.             *)
(*                                                                         *)
(* An operator named ...Faulty is a bug one could put in its place; it is  *)
(* used by no specification, only to see that a property would notice.     *)
(***************************************************************************)
EXTENDS Integers, Sequences, FiniteSets, Functions

CONSTANTS
  Nic,            \* the network interfaces the application opens
  Chunk,          \* the chunks of the UMEM (chunk_count of them)
  FqSize,         \* entries of a fill ring (fq_size)
  CqSize,         \* entries of a completion ring (cq_size)
  RxSize,         \* entries of a receive ring
  TxSize,         \* entries of a transmit ring
  MaxHeld,        \* the most packets the application holds at one time
  PromptNic       \* the Nics whose driver gives an FQ slot back before the
                  \* packet that used it can be seen in the RX ring

ASSUME SizesAssumption ==
  /\ FqSize \in Nat \ {0} /\ CqSize \in Nat \ {0}
  /\ RxSize \in Nat \ {0} /\ TxSize \in Nat \ {0}
  /\ MaxHeld \in Nat

ASSUME PromptAssumption == PromptNic \subseteq Nic

ASSUME FiniteAssumption == IsFiniteSet(Nic) /\ IsFiniteSet(Chunk)

\* The owners of ChunkLease that are no Nic.
ASSUME NamesAssumption == {"pool", "app", "gone"} \cap Nic = {}

VARIABLES
  pool,        \* BufferPool.pool, the free chunks
  opened,      \* the Nics that Nic::new has returned
  fq,          \* fq[n]: chunks submitted to the fill ring, not yet taken
  unreleased,  \* unreleased[n]: slots of fq[n] taken, not yet given back
  rx,          \* rx[n]: chunks of the packets waiting in the receive ring
  tx,          \* tx[n]: chunks submitted to the transmit ring
  sending,     \* sending[n]: chunks the kernel took from tx[n] and transmits
  cq,          \* cq[n]: number of entries waiting in the completion ring
  held,        \* held[c]: live Packet values whose `private` is c
  alive        \* FALSE once the process has ended

vars == <<pool, opened, fq, unreleased, rx, tx, sending, cq, held, alive>>

-----------------------------------------------------------------------------
(* The ring accessors of libxdp, as lib.rs uses them.                      *)

\* xsk_ring_prod__reserve grants all the slots asked for, or none.
Reserve(free, len) == IF len <= free THEN len ELSE 0

\* xsk_ring_cons__peek shows at most len of the entries available.
Peek(available, len) == IF len <= available THEN len ELSE available

\* When an earlier peek left entries over, the accessor answers from the
\* producer index it cached then, so it may show fewer (but at least one).
Peeks(available, len) == 1..Peek(available, len)

FqFree(n) == FqSize - (Len(fq[n]) + unreleased[n])
TxFree(n) == TxSize - Len(tx[n])

-----------------------------------------------------------------------------
(* BufferPool                                                              *)

\* k calls of alloc_addr: a HashSet yields its elements in any order.
AllocAddrsFaulty(k) == {s \in [1..k -> Chunk] : IsInjective(s)}
AllocAddrs(k) == {s \in [1..k -> pool] : IsInjective(s)}

\* What the pool keeps after those calls ...
PoolWithoutFaulty(s) == pool \ {s[i] : i \in 2..Len(s)}
PoolWithout(s) == pool \ Range(s)

\* ... and after free_addr of every chunk in C.
PoolWithFaulty(C) == pool
PoolWith(C) == pool \cup C

\* How many slots recv's reserve_fq(fq, packets.len()) gets.
RefillLenFaulty(n, k) == Reserve(FqFree(n), k - 1)
RefillLen(n, k) == Reserve(FqFree(n), k)

\* How many slots reserve_txq gets for len packets.
ReserveTxqFaulty(n, len) == len
ReserveTxq(n, len) == Reserve(TxFree(n), len)

\* The packets the application holds.
Held == {c \in Chunk : held[c] > 0}

\* The bag `held` after wrapping every entry of s in a new Packet ...
Wrapped(s) ==
  [c \in Chunk |-> held[c] + Cardinality({i \in DOMAIN s : s[i] = c})]

\* ... and after dropping one Packet for every chunk in C.
Dropped(C) == [c \in Chunk |-> IF c \in C THEN held[c] - 1 ELSE held[c]]

-----------------------------------------------------------------------------
(* Before any Nic is open, the pool is the one Pool::init has just made.   *)
Init ==
  /\ pool = Chunk
  /\ opened = {}
  /\ fq = [n \in Nic |-> <<>>]
  /\ unreleased = [n \in Nic |-> 0]
  /\ rx = [n \in Nic |-> <<>>]
  /\ tx = [n \in Nic |-> <<>>]
  /\ sending = [n \in Nic |-> <<>>]
  /\ cq = [n \in Nic |-> 0]
  /\ held = [c \in Chunk |-> 0]
  /\ alive = TRUE

(***************************************************************************)
(* Nic::new, from the data plane's side: when the socket exists, open      *)
(* fills the whole fill ring from the pool.  When the pool is too small    *)
(* alloc_addr fails after emptying it, nothing is submitted, and the       *)
(* application gives up, as every example does.  Sockets, fallbacks and    *)
(* the reference count are the subject of NicLifecycle.                    *)
(***************************************************************************)
Open(n) ==
  LET r == Reserve(FqFree(n), FqSize)
  IN  /\ alive
      /\ n \notin opened
      /\ \/ \E s \in AllocAddrs(r) :
              /\ opened' = opened \cup {n}
              /\ fq' = [fq EXCEPT ![n] = @ \o s]
              /\ pool' = PoolWithout(s)
              /\ UNCHANGED alive
         \/ /\ Cardinality(pool) < r
            /\ pool' = {}
            /\ alive' = FALSE
            /\ UNCHANGED <<opened, fq>>
      /\ UNCHANGED <<unreleased, rx, tx, sending, cq, held>>

\* Nic::alloc_packet, which takes any open Nic; on an empty pool it returns
\* None and changes nothing.
AllocPacket ==
  /\ alive
  /\ opened # {}
  /\ Cardinality(Held) < MaxHeld
  /\ \E s \in AllocAddrs(1) :
       /\ pool' = PoolWithout(s)
       /\ held' = Wrapped(s)
  /\ UNCHANGED <<opened, fq, unreleased, rx, tx, sending, cq, alive>>

\* Drop for Packet.
DropPacket(c) ==
  /\ alive
  /\ held[c] > 0
  /\ held' = Dropped({c})
  /\ pool' = PoolWith({c})
  /\ UNCHANGED <<opened, fq, unreleased, rx, tx, sending, cq, alive>>

(***************************************************************************)
(* Nic::receive(len).  The packets seen in the RX ring become Packet       *)
(* values, their RX slots are released, and the fill ring is refilled with *)
(* as many chunks as packets were received.  When the pool is too small    *)
(* for the slots reserved, alloc_addr fails after emptying it and the      *)
(* unwrap panics; the pool is still mutably borrowed while the packets are *)
(* dropped, so the second panic aborts the process.                        *)
(***************************************************************************)
Receive(n, len) ==
  \E k \in Peeks(Len(rx[n]), len) :
    LET batch == SubSeq(rx[n], 1, k)
        r == RefillLen(n, k)
    IN  /\ alive
        /\ n \in opened
        /\ Cardinality(Held) + len <= MaxHeld
        /\ rx' = [rx EXCEPT ![n] = SubSeq(@, k + 1, Len(@))]
        /\ held' = Wrapped(batch)
        /\ \/ \E s \in AllocAddrs(r) :
                /\ fq' = [fq EXCEPT ![n] = @ \o s]
                /\ pool' = PoolWithout(s)
                /\ UNCHANGED alive
           \/ /\ Cardinality(pool) < r
              /\ pool' = {}
              /\ alive' = FALSE
              /\ UNCHANGED fq
        /\ UNCHANGED <<opened, unreleased, tx, sending, cq>>

(***************************************************************************)
(* Nic::send of the packets s, in that order.  The completion ring is      *)
(* emptied without looking at the chunks in it; the packets that got a TX  *)
(* slot are submitted and then drained from the vector, which drops them   *)
(* and frees their chunks at once.                                         *)
(***************************************************************************)
Send(n, s) ==
  LET r == ReserveTxq(n, Len(s))
      sent == SubSeq(s, 1, r)
  IN  /\ alive
      /\ n \in opened
      /\ cq' = [cq EXCEPT ![n] = @ - Peek(@, CqSize)]
      /\ tx' = [tx EXCEPT ![n] = @ \o sent]
      /\ held' = Dropped(Range(sent))
      /\ pool' = PoolWith(Range(sent))
      /\ UNCHANGED <<opened, fq, unreleased, rx, sending, alive>>

\* The vectors of distinct packets the application may pass to send.
Vectors ==
  {s \in UNION {[1..k -> Held] : k \in 0..MaxHeld} : IsInjective(s)}

-----------------------------------------------------------------------------
(* The kernel                                                              *)

\* A frame arrives: the chunk at the head of the fill ring carries it to RX.
KernelRx(n) ==
  /\ alive
  /\ fq[n] # <<>>
  /\ Len(rx[n]) < RxSize
  /\ fq' = [fq EXCEPT ![n] = Tail(@)]
  /\ rx' = [rx EXCEPT ![n] = Append(@, Head(fq[n]))]
  /\ unreleased' = IF n \in PromptNic THEN unreleased
                   ELSE [unreleased EXCEPT ![n] = @ + 1]
  /\ UNCHANGED <<pool, opened, tx, sending, cq, held, alive>>

\* The kernel publishes how far it has consumed the fill ring.
KernelFqRelease(n) ==
  /\ alive
  /\ unreleased[n] > 0
  /\ unreleased' = [unreleased EXCEPT ![n] = 0]
  /\ UNCHANGED <<pool, opened, fq, rx, tx, sending, cq, held, alive>>

\* The kernel takes a descriptor when the completion ring has room for it.
KernelTxTake(n) ==
  /\ alive
  /\ tx[n] # <<>>
  /\ cq[n] + Len(sending[n]) < CqSize
  /\ tx' = [tx EXCEPT ![n] = Tail(@)]
  /\ sending' = [sending EXCEPT ![n] = Append(@, Head(tx[n]))]
  /\ UNCHANGED <<pool, opened, fq, unreleased, rx, cq, held, alive>>

\* The frame has left; its chunk is reported in the completion ring.
KernelTxDone(n) ==
  /\ alive
  /\ sending[n] # <<>>
  /\ sending' = [sending EXCEPT ![n] = Tail(@)]
  /\ cq' = [cq EXCEPT ![n] = @ + 1]
  /\ UNCHANGED <<pool, opened, fq, unreleased, rx, tx, held, alive>>

-----------------------------------------------------------------------------
Kernel(n) ==
  \/ KernelRx(n)
  \/ KernelFqRelease(n)
  \/ KernelTxTake(n)
  \/ KernelTxDone(n)

Application ==
  \/ AllocPacket
  \/ \E c \in Chunk : DropPacket(c)
  \/ \E n \in Nic :
       \/ Open(n)
       \/ \E len \in 1..MaxHeld : Receive(n, len)
       \/ \E s \in Vectors : Send(n, s)

Next == Application \/ \E n \in Nic : Kernel(n)

Spec == Init /\ [][Next]_vars

-----------------------------------------------------------------------------
(* Properties                                                              *)

RingsFit(n) ==
  /\ Len(fq[n]) + unreleased[n] <= FqSize
  /\ Len(rx[n]) <= RxSize
  /\ Len(tx[n]) <= TxSize
  /\ cq[n] + Len(sending[n]) <= CqSize

\* The state has its type and no ring holds more entries than it has slots.
TypeOK ==
  /\ pool \subseteq Chunk
  /\ opened \subseteq Nic
  /\ fq \in [Nic -> Seq(Chunk)]
  /\ unreleased \in [Nic -> Nat]
  /\ rx \in [Nic -> Seq(Chunk)]
  /\ tx \in [Nic -> Seq(Chunk)]
  /\ sending \in [Nic -> Seq(Chunk)]
  /\ cq \in [Nic -> Nat]
  /\ held \in [Chunk -> Nat]
  /\ alive \in BOOLEAN
  /\ \A n \in Nic : RingsFit(n)

\* The chunks the kernel may write a received frame into, or has.
Filling(n) == Range(fq[n]) \cup Range(rx[n])

(***************************************************************************)
(* No chunk has two owners: it is free, or in one slot of one fill or      *)
(* receive ring, or behind one Packet.  Hence no two Packet values share a *)
(* buffer, the kernel never writes into a buffer the application or the    *)
(* pool has, and free_addr never finds the chunk it frees already in the   *)
(* pool (the case its debug assertion reports).                            *)
(***************************************************************************)
SingleOwner ==
  /\ \A c \in Chunk : held[c] <= 1
  /\ pool \cap Held = {}
  /\ \A n \in Nic :
       /\ IsInjective(fq[n]) /\ IsInjective(rx[n])
       /\ Range(fq[n]) \cap Range(rx[n]) = {}
       /\ Filling(n) \cap (pool \cup Held) = {}
       /\ \A m \in Nic \ {n} : Filling(m) \cap Filling(n) = {}

(***************************************************************************)
(* No chunk is lost: while the process runs, every chunk of the UMEM is    *)
(* free, in a fill or receive ring, or behind a Packet, however calls of   *)
(* alloc_packet, receive, send and drop are mixed.                         *)
(***************************************************************************)
NoLeak ==
  alive => Chunk \subseteq pool \cup Held \cup UNION {Filling(n) : n \in Nic}

\* Chunks that nic n keeps out of the pool for reception.
StockOf(n) == Len(fq[n]) + Len(rx[n])

(***************************************************************************)
(* The stock of an open Nic never exceeds its fill ring, and if its slots  *)
(* come back promptly it is always exactly the fill ring's size: every     *)
(* packet received is paid for by one chunk given to the kernel, so        *)
(* reception cannot starve.                                                *)
(***************************************************************************)
FillStock ==
  alive => \A n \in opened : /\ StockOf(n) <= FqSize
                             /\ n \in PromptNic => StockOf(n) = FqSize

\* A chunk for every fill ring slot of k Nics and for every packet held.
Enough(k) == Cardinality(Chunk) >= k * FqSize + MaxHeld

Aborts == alive /\ ~alive'

(***************************************************************************)
(* As long as there are enough chunks for the fill rings of the Nics that  *)
(* are open and for the packets the application holds, the unwrap of       *)
(* reserve_fq in recv never panics, and Nic::new fails only if they are    *)
(* not enough for one Nic more.                                            *)
(***************************************************************************)
Short ==
  \/ ~Enough(Cardinality(opened))
  \/ (\E n \in Nic : Open(n)) /\ ~Enough(Cardinality(opened) + 1)

NeverAborts == [][Aborts => Short]_vars

-----------------------------------------------------------------------------
(* A statement of the documentation that the code does not keep.           *)

(***************************************************************************)
(* README.md, TX side procedure: the chunk of a sent packet is reused once *)
(* it has been read from the completion ring; until then it is not free.   *)
(***************************************************************************)
NoReuseBeforeCompletion ==
  \A n \in Nic : (Range(tx[n]) \cup Range(sending[n])) \cap pool = {}

-----------------------------------------------------------------------------
(* What the data plane promises: every chunk is leased to one owner, until *)
(* the process ends.                                                       *)
owner ==
  [c \in Chunk |->
     IF ~alive THEN "gone"
     ELSE IF c \in pool THEN "pool"
     ELSE IF \E n \in Nic : c \in Filling(n)
          THEN CHOOSE n \in Nic : c \in Filling(n)
          ELSE "app"]

Lease == INSTANCE ChunkLease WITH Stock <- FqSize
LeaseSpec == Lease!Spec
=============================================================================
