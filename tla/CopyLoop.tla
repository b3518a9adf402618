------------------------------ MODULE CopyLoop ------------------------------
(***************************************************************************)
(* The loops of the filter, change_word and tunnel examples as clients of  *)
(* the library.  Unlike echo and forward they allocate packets while they  *)
(* hold received ones: a copy of each packet that passes, two resets for   *)
(* one that does not, or a packet for a datagram from the tunnel's socket. *)
(* All unwrap what alloc_packet returns.  The question is what the pool    *)
(* must hold for that, and what becomes of a batch that finds no room.     *)
(*                                                                         *)
(* Chunks are counted here and have no identity (Packetvisor gives them    *)
(* one); what is written into packets is left to the modules Rewrite and   *)
(* FilterReset.                                                            *)
(*                                                                         *)
(* An operator named ...Faulty is a bug one could put in its place; it is  *)
(* used by no specification, only to see that a property would notice.     *)
(***************************************************************************)
EXTENDS Integers, Sequences

CONSTANTS
  Program,     \* the examples considered
  ChunkCount,  \* the values of --chunk-count considered
  FqSize, RxSize, TxSize, CqSize,   \* ring sizes
  Batch,       \* rx_batch_size
  PromptNic    \* the Nics whose driver gives an FQ slot back before the
               \* packet that used it can be seen, as in Packetvisor

ASSUME CopyAssumption ==
  /\ Program \subseteq {"filter", "change_word", "tunnel"}
  /\ FqSize \in Nat \ {0} /\ RxSize \in Nat \ {0}
  /\ TxSize \in Nat \ {0} /\ CqSize \in Nat \ {0} /\ Batch \in Nat \ {0}
  /\ ChunkCount \subseteq Nat

VARIABLES
  program,     \* the example that runs
  chunks,      \* its chunk_count
  pool,        \* free chunks
  fq,          \* fq[n]: chunks in the fill ring of Nic n
  unreleased,  \* unreleased[n]: slots of it taken but not yet given back
  rx,          \* rx[n]: packets in the receive ring
  tx,          \* tx[n]: packets in the transmit ring
  cq,          \* cq[n]: entries of the completion ring
  pc,          \* the next step of the loop
  from,        \* the Nic of this round's receive
  packets,     \* received packets not yet looked at
  done,        \* received packets it has looked at and still holds
  copies,      \* new packets that wait for the round's send
  singles,     \* the Nics on which a packet of its own is still to be sent
  spare,       \* allocated packets not yet sent, 0 or 1
  tries,       \* calls of send made for the copies
  ended        \* "no", or why the process has ended

kernelVars == <<fq, unreleased, rx, tx, cq>>
loopVars == <<pc, from, packets, done, copies, singles, spare, tries>>
appVars == <<program, chunks, pool, loopVars, ended>>
vars == <<kernelVars, appVars>>

Nic == 1..2
Other(n) == 3 - n

\* The tunnel opens one Nic, the others two.
Opened == IF program = "tunnel" THEN {1} ELSE Nic

\* xsk_ring_prod__reserve and xsk_ring_cons__peek, as in Packetvisor.
Reserve(free, len) == IF len <= free THEN len ELSE 0
Peek(available, len) == IF len <= available THEN len ELSE available

At(step) == ended = "no" /\ pc = step

\* An unwrap or expect that fails ends the process.
Panic(why) == ended' = why /\ UNCHANGED <<pool, kernelVars, loopVars>>

\* The loop starts when Nic::new has filled the rings, which takes enough chunks.
Init ==
  /\ program \in Program /\ chunks \in ChunkCount
  /\ fq = [n \in Nic |-> IF n \in Opened THEN FqSize ELSE 0]
  /\ fq[1] + fq[2] <= chunks
  /\ pool = chunks - (fq[1] + fq[2])
  /\ unreleased = [n \in Nic |-> 0]
  /\ rx = [n \in Nic |-> 0] /\ tx = [n \in Nic |-> 0]
  /\ cq = [n \in Nic |-> 0]
  /\ pc = "receive" /\ from = 1
  /\ packets = 0 /\ done = 0 /\ copies = 0
  /\ singles = <<>> /\ spare = 0 /\ tries = 0
  /\ ended = "no"

-----------------------------------------------------------------------------
(* receive                                                                 *)

\* With nothing received, a round of filter and change_word is over; the
\* tunnel goes on to its socket.
ReceiveNone ==
  /\ At("receive") /\ rx[from] = 0
  /\ IF program = "tunnel" THEN pc' = "socket" /\ UNCHANGED from
     ELSE from' = Other(from) /\ UNCHANGED pc
  /\ UNCHANGED <<pool, kernelVars, packets, done, copies, singles, spare,
                 tries, ended>>

\* Otherwise the fill ring is paid back from the pool, which must not run dry.
RefillFaulty(n, k) == Reserve(FqSize - fq[n], k)
Refill(n, k) == Reserve(FqSize - (fq[n] + unreleased[n]), k)
ReceiveSome ==
  /\ At("receive")
  /\ \E k \in 1..Peek(rx[from], Batch) :
       LET r == Refill(from, k)
       IN  \/ /\ r <= pool
              /\ rx' = [rx EXCEPT ![from] = @ - k]
              /\ fq' = [fq EXCEPT ![from] = @ + r]
              /\ pool' = pool - r
              /\ packets' = k
              /\ pc' = "process"
              /\ UNCHANGED <<unreleased, tx, cq, from, done, copies, singles,
                             spare, tries, ended>>
           \/ r > pool /\ Panic("pool")

-----------------------------------------------------------------------------
(* The packets of the batch, one by one                                    *)

\* A packet that passes, changed or not, is copied into a new one.
Copy ==
  /\ At("process") /\ program # "tunnel" /\ packets > 0
  /\ \/ /\ pool > 0
        /\ pool' = pool - 1
        /\ packets' = packets - 1 /\ done' = done + 1
        /\ copies' = copies + 1
        /\ UNCHANGED <<kernelVars, pc, from, singles, spare, tries, ended>>
     \/ pool = 0 /\ Panic("pool")

\* For one that does not, the filter resets both ends, first the one it came
\* from.
Reject ==
  /\ At("process") /\ program = "filter" /\ packets > 0
  /\ packets' = packets - 1 /\ done' = done + 1
  /\ singles' = <<from, Other(from)>>
  /\ pc' = "single"
  /\ UNCHANGED <<pool, kernelVars, from, copies, spare, tries, ended>>

\* The tunnel hands it to its socket.
Relay ==
  /\ At("process") /\ program = "tunnel" /\ packets > 0
  /\ \/ /\ packets' = packets - 1 /\ done' = done + 1
        /\ UNCHANGED <<pool, kernelVars, pc, from, copies, singles, spare,
                       tries, ended>>
     \/ Panic("socket")

Processed ==
  /\ At("process") /\ packets = 0
  /\ pc' = IF program = "tunnel" THEN "drop" ELSE "send"
  /\ UNCHANGED <<pool, kernelVars, from, packets, done, copies, singles,
                 spare, tries, ended>>

-----------------------------------------------------------------------------
(* Packets sent on their own                                               *)

\* The tunnel's recv_from: a datagram, nothing, or an error.
ReadSocket ==
  /\ At("socket")
  /\ \/ /\ pc' = "single" /\ singles' = <<1>>
        /\ UNCHANGED <<pool, kernelVars, from, packets, done, copies, spare,
                       tries, ended>>
     \/ /\ pc' = "receive"
        /\ UNCHANGED <<pool, kernelVars, from, packets, done, copies, singles,
                       spare, tries, ended>>
     \/ Panic("socket")

AllocSingle ==
  /\ At("single") /\ spare = 0
  /\ \/ /\ pool > 0
        /\ pool' = pool - 1 /\ spare' = 1
        /\ UNCHANGED <<kernelVars, pc, from, packets, done, copies, singles,
                       tries, ended>>
     \/ pool = 0 /\ Panic("pool")

\* send empties the completion ring and gets a slot for every packet, or none.
TxSlots(n, len) == Reserve(TxSize - tx[n], len)
ReleaseCqFaulty(n) == cq[n]
ReleaseCq(n) == cq[n] - Peek(cq[n], CqSize)
Submit(n, r) ==
  /\ cq' = [cq EXCEPT ![n] = ReleaseCq(n)]
  /\ tx' = [tx EXCEPT ![n] = @ + r]

\* send(&mut vec![packet]): sent or not, the packet is gone afterwards and its
\* chunk is free.
FreedBySingleFaulty(r) == r
FreedBySingle(r) == 1
SendSingle ==
  LET n == Head(singles)
      r == TxSlots(n, 1)
  IN  /\ At("single") /\ spare = 1
      /\ Submit(n, r)
      /\ pool' = pool + FreedBySingle(r) /\ spare' = 0
      /\ singles' = Tail(singles)
      /\ pc' = IF Tail(singles) # <<>> THEN "single"
               ELSE IF program = "tunnel" THEN "receive" ELSE "process"
      /\ UNCHANGED <<fq, unreleased, rx, from, packets, done, copies, tries,
                     ended>>

-----------------------------------------------------------------------------
(* The copies                                                              *)

\* At most three calls of send; the first that sends anything is the last.
Send ==
  LET r == TxSlots(Other(from), copies)
  IN  /\ At("send")
      /\ Submit(Other(from), r)
      /\ copies' = copies - r /\ pool' = pool + r
      /\ IF r > 0 \/ tries = 2
         THEN pc' = "drop" /\ UNCHANGED tries
         ELSE tries' = tries + 1 /\ UNCHANGED pc
      /\ UNCHANGED <<fq, unreleased, rx, from, packets, done, singles, spare,
                     ended>>

\* What the loop still holds goes out of scope: the packets received, the
\* copies not sent.
LeftOverFaulty == copies
LeftOver == done + copies
Drop ==
  /\ At("drop")
  /\ pool' = pool + LeftOver
  /\ done' = 0 /\ copies' = 0 /\ tries' = 0
  /\ IF program = "tunnel" THEN pc' = "socket" /\ UNCHANGED from
     ELSE pc' = "receive" /\ from' = Other(from)
  /\ UNCHANGED <<kernelVars, packets, singles, spare, ended>>

-----------------------------------------------------------------------------
(* The kernel                                                              *)

KernelRx(n) ==
  /\ ended = "no" /\ fq[n] > 0 /\ rx[n] < RxSize
  /\ fq' = [fq EXCEPT ![n] = @ - 1]
  /\ rx' = [rx EXCEPT ![n] = @ + 1]
  /\ unreleased' = IF n \in PromptNic THEN unreleased
                   ELSE [unreleased EXCEPT ![n] = @ + 1]
  /\ UNCHANGED <<tx, cq, appVars>>

KernelFqRelease(n) ==
  /\ ended = "no" /\ unreleased[n] > 0
  /\ unreleased' = [unreleased EXCEPT ![n] = 0]
  /\ UNCHANGED <<fq, rx, tx, cq, appVars>>

KernelTx(n) ==
  /\ ended = "no" /\ tx[n] > 0 /\ cq[n] < CqSize
  /\ tx' = [tx EXCEPT ![n] = @ - 1]
  /\ cq' = [cq EXCEPT ![n] = @ + 1]
  /\ UNCHANGED <<fq, unreleased, rx, appVars>>

-----------------------------------------------------------------------------
Loop ==
  /\ UNCHANGED <<program, chunks>>
  /\ \/ ReceiveNone \/ ReceiveSome
     \/ Copy \/ Reject \/ Relay \/ Processed
     \/ ReadSocket \/ AllocSingle \/ SendSingle
     \/ Send \/ Drop

Kernel(n) == KernelRx(n) \/ KernelFqRelease(n) \/ KernelTx(n)

Next == Loop \/ \E n \in Nic : Kernel(n)

\* The loop runs until a signal ends it, and nothing in it waits for the
\* kernel; a packet in a transmit ring is transmitted while there is room for
\* its completion.
Fairness == WF_vars(Loop) /\ \A n \in Nic : WF_vars(KernelTx(n))

Spec == Init /\ [][Next]_vars /\ Fairness

-----------------------------------------------------------------------------
(* Properties                                                              *)

Steps == {"receive", "process", "single", "socket", "send", "drop"}

RingsFit ==
  /\ pool \in Nat
  /\ fq \in [Nic -> Nat] /\ unreleased \in [Nic -> Nat]
  /\ rx \in [Nic -> 0..RxSize] /\ tx \in [Nic -> 0..TxSize]
  /\ cq \in [Nic -> 0..CqSize]
  /\ \A n \in Nic : fq[n] + unreleased[n] <= FqSize

\* Every variable has its type and no ring holds more than it has slots.
TypeOK ==
  /\ RingsFit
  /\ program \in Program /\ chunks \in ChunkCount
  /\ pc \in Steps /\ from \in Nic
  /\ {packets, done, copies} \subseteq 0..Batch
  /\ singles \in {<<>>, <<1>>, <<2>>, <<1, 2>>, <<2, 1>>}
  /\ spare \in 0..1 /\ tries \in 0..2
  /\ ended \in {"no", "pool", "socket"}

Stock(n) == fq[n] + rx[n]
Held == packets + done + copies + spare

(***************************************************************************)
(* No chunk is lost on any way through a round, whichever packets pass,    *)
(* are rejected, find a transmit slot or do not: what is not free is in a  *)
(* fill or receive ring or behind a packet the loop holds.                 *)
(***************************************************************************)
NothingLost == ended = "no" => pool + Stock(1) + Stock(2) + Held = chunks

(***************************************************************************)
(* With a chunk for every fill ring slot, every packet of a batch and, if  *)
(* copies are made, every copy, neither alloc_packet().unwrap() nor the    *)
(* refill in recv panics.                                                  *)
(***************************************************************************)
Sizing == IF program = "tunnel" THEN chunks >= FqSize + Batch
          ELSE chunks >= 2 * FqSize + 2 * Batch
NeverPanics == Sizing => ended # "pool"

(***************************************************************************)
(* If every batch fits into the transmit ring, then change_word does not   *)
(* drop all its batches for ever: of infinitely many it has for a Nic,     *)
(* infinitely many are sent.                                               *)
(***************************************************************************)
Waiting(n) == program = "change_word" /\ At("send") /\ from = Other(n)
              /\ copies > 0
KeepsForwarding ==
  Batch <= TxSize =>
    \A n \in Nic : []<>Waiting(n) => []<><<Waiting(n) /\ copies' = 0>>_vars
=============================================================================
