----------------------------- MODULE EventLoop -----------------------------
(***************************************************************************)
(* The main loop of the echo and forward examples, and the handshake with  *)
(* the driver through the need_wakeup flags of the fill and the transmit   *)
(* ring.  A driver that runs out of work raises the flag of the ring and   *)
(* sleeps; recv and send look at the flag and wake it by recvfrom and      *)
(* sendto.  The question is whether anything can be left asleep.           *)
(*                                                                         *)
(* Rings are counted here, chunks have no identity, and the pool always    *)
(* has the chunks recv asks for (Packetvisor, NeverAborts).  A call of     *)
(* receive or send is two steps, the ring update and the look at the flag, *)
(* between which the driver moves.                                         *)
(*                                                                         *)
(* An operator named ...Faulty is a bug one could put in its place; it is  *)
(* used by no specification, only to see that a property would notice.     *)
(***************************************************************************)
EXTENDS Integers, Sequences

CONSTANTS
  Nic,            \* the open Nics
  Route,          \* the hops <<from, to>> one round of the loop serves
  FqSize, RxSize, TxSize, CqSize,   \* ring sizes
  Batch,          \* rx_batch_size
  PromptNic       \* the Nics whose driver, as in Packetvisor, gives FQ slots
                  \* back promptly, and which finds a ring empty and raises
                  \* its flag in one step; with another driver, a refill or
                  \* a send may fall in between

ASSUME LoopAssumption ==
  /\ {FqSize, RxSize, TxSize, CqSize, Batch} \subseteq Nat \ {0}
  /\ Route \in Seq(Nic \X Nic) /\ Route # <<>>
  /\ PromptNic \subseteq Nic

VARIABLES
  fq,          \* fq[n]: chunks in the fill ring
  unreleased,  \* unreleased[n]: slots of it taken but not yet given back
  rx,          \* rx[n]: packets in the receive ring
  rxDriver,    \* rxDriver[n]: "polling", "empty" (it found the fill ring
               \* empty), or "asleep" with the flag of the ring raised
  tx,          \* tx[n]: packets in the transmit ring
  cq,          \* cq[n]: entries of the completion ring
  txDriver,    \* txDriver[n]: the same for transmission
  pc,          \* the next step of the loop
  hop,         \* the hop it serves
  packets,     \* packets it holds
  sent,        \* what the last send returned
  tries        \* calls of send made for these packets

rxVars == <<fq, unreleased, rx, rxDriver>>
txVars == <<tx, cq, txDriver>>
loopVars == <<pc, hop, packets, sent, tries>>
vars == <<rxVars, txVars, loopVars>>

From == Route[hop][1]
To == Route[hop][2]

\* xsk_ring_prod__reserve and xsk_ring_cons__peek, as in Packetvisor.
Reserve(free, len) == IF len <= free THEN len ELSE 0
Peek(available, len) == IF len <= available THEN len ELSE available

\* Does the flag tell the program to wake the driver?
NeedsWakeup(driver) == driver = "asleep"

Init ==
  /\ fq = [n \in Nic |-> FqSize] /\ unreleased = [n \in Nic |-> 0]
  /\ rx = [n \in Nic |-> 0] /\ rxDriver = [n \in Nic |-> "polling"]
  /\ tx = [n \in Nic |-> 0] /\ cq = [n \in Nic |-> 0]
  /\ txDriver = [n \in Nic |-> "asleep"]
  /\ pc = "receive" /\ hop = 1
  /\ packets = 0 /\ sent = 0 /\ tries = 0

-----------------------------------------------------------------------------
(* The loop                                                                *)

NextHop ==
  /\ hop' = (hop % Len(Route)) + 1
  /\ pc' = "receive"
  /\ packets' = 0 /\ sent' = 0 /\ tries' = 0

\* recv returns at once when nothing was received, and so does the round.
ReceiveNone ==
  /\ pc = "receive" /\ rx[From] = 0
  /\ NextHop
  /\ UNCHANGED <<rxVars, txVars>>

\* Otherwise it takes what it sees and refills the fill ring ...
RefillFaulty(n, k) == Reserve(FqSize - fq[n] - unreleased[n], k - 1)
Refill(n, k) == Reserve(FqSize - fq[n] - unreleased[n], k)
ReceiveSome ==
  /\ pc = "receive"
  /\ \E k \in 1..Peek(rx[From], Batch) :
       /\ rx' = [rx EXCEPT ![From] = @ - k]
       /\ fq' = [fq EXCEPT ![From] = @ + Refill(From, k)]
       /\ packets' = k
  /\ pc' = "wake rx"
  /\ UNCHANGED <<unreleased, rxDriver, txVars, hop, sent, tries>>

\* ... and wakes the driver if the flag is up.  The application processes the
\* packets and may drop some of them.
WakeRx ==
  /\ pc = "wake rx"
  /\ rxDriver' = IF NeedsWakeup(rxDriver[From])
                 THEN [rxDriver EXCEPT ![From] = "polling"] ELSE rxDriver
  /\ packets' \in 0..packets
  /\ pc' = "send"
  /\ UNCHANGED <<fq, unreleased, rx, txVars, hop, sent, tries>>

\* send empties the completion ring and gets a slot for every packet, or none.
ReleaseCqFaulty(n) == cq[n]
ReleaseCq(n) == cq[n] - Peek(cq[n], CqSize)
TxSlotsFaulty(n, len) == len
TxSlots(n, len) == Reserve(TxSize - tx[n], len)
Send ==
  LET r == TxSlots(To, packets)
  IN  /\ pc = "send"
      /\ cq' = [cq EXCEPT ![To] = ReleaseCq(To)]
      /\ tx' = [tx EXCEPT ![To] = @ + r]
      /\ sent' = r /\ packets' = packets - r
      /\ pc' = "wake tx"
      /\ UNCHANGED <<rxVars, txDriver, hop, tries>>

\* Then it wakes the driver.  The round ends when something was sent or the
\* third try failed, and the packets still held are dropped.
WakeTx ==
  /\ pc = "wake tx"
  /\ txDriver' = IF NeedsWakeup(txDriver[To])
                 THEN [txDriver EXCEPT ![To] = "polling"] ELSE txDriver
  /\ IF sent > 0 \/ tries = 2
     THEN NextHop
     ELSE /\ pc' = "send" /\ tries' = tries + 1
          /\ UNCHANGED <<hop, packets, sent>>
  /\ UNCHANGED <<rxVars, tx, cq>>

-----------------------------------------------------------------------------
(* The driver of Nic n                                                     *)

RxFrame(n) ==
  /\ rxDriver[n] = "polling" /\ fq[n] > 0 /\ rx[n] < RxSize
  /\ fq' = [fq EXCEPT ![n] = @ - 1]
  /\ rx' = [rx EXCEPT ![n] = @ + 1]
  /\ unreleased' = IF n \in PromptNic THEN unreleased
                   ELSE [unreleased EXCEPT ![n] = @ + 1]
  /\ UNCHANGED <<rxDriver, txVars, loopVars>>

ReleaseFq(n) ==
  /\ unreleased[n] > 0
  /\ unreleased' = [unreleased EXCEPT ![n] = 0]
  /\ UNCHANGED <<fq, rx, rxDriver, txVars, loopVars>>

\* What becomes of a driver that has run out of work.
Sleepy(n) == IF n \in PromptNic THEN "asleep" ELSE "empty"

RxEmpty(n) ==
  /\ rxDriver[n] = "polling" /\ fq[n] = 0
  /\ rxDriver' = [rxDriver EXCEPT ![n] = Sleepy(n)]
  /\ UNCHANGED <<fq, unreleased, rx, txVars, loopVars>>

RxSleep(n) ==
  /\ rxDriver[n] = "empty"
  /\ rxDriver' = [rxDriver EXCEPT ![n] = "asleep"]
  /\ UNCHANGED <<fq, unreleased, rx, txVars, loopVars>>

Transmit(n) ==
  /\ txDriver[n] = "polling" /\ tx[n] > 0 /\ cq[n] < CqSize
  /\ tx' = [tx EXCEPT ![n] = @ - 1]
  /\ cq' = [cq EXCEPT ![n] = @ + 1]
  /\ UNCHANGED <<rxVars, txDriver, loopVars>>

TxEmpty(n) ==
  /\ txDriver[n] = "polling" /\ (tx[n] = 0 \/ cq[n] = CqSize)
  /\ txDriver' = [txDriver EXCEPT ![n] = Sleepy(n)]
  /\ UNCHANGED <<rxVars, tx, cq, loopVars>>

TxSleep(n) ==
  /\ txDriver[n] = "empty"
  /\ txDriver' = [txDriver EXCEPT ![n] = "asleep"]
  /\ UNCHANGED <<rxVars, tx, cq, loopVars>>

-----------------------------------------------------------------------------
Loop == ReceiveNone \/ ReceiveSome \/ WakeRx \/ Send \/ WakeTx

Driver(n) == \/ RxFrame(n) \/ ReleaseFq(n) \/ RxEmpty(n) \/ RxSleep(n)
             \/ Transmit(n) \/ TxEmpty(n) \/ TxSleep(n)

Next == Loop \/ \E n \in Nic : Driver(n)

\* The loop runs until a signal ends the program.  A driver that is awake goes
\* on working, and traffic does not cease: RxFrame is fair because the claims
\* below are about a Nic on which frames keep arriving.
Fairness ==
  /\ WF_vars(Loop)
  /\ \A n \in Nic :
       /\ WF_vars(RxFrame(n)) /\ WF_vars(ReleaseFq(n))
       /\ WF_vars(RxEmpty(n)) /\ WF_vars(RxSleep(n))
       /\ WF_vars(Transmit(n)) /\ WF_vars(TxEmpty(n)) /\ WF_vars(TxSleep(n))

Spec == Init /\ [][Next]_vars /\ Fairness

-----------------------------------------------------------------------------
(* Properties                                                              *)

States == {"polling", "empty", "asleep"}

\* Every variable has its type and every ring its size.
TypeOK ==
  /\ fq \in [Nic -> 0..FqSize] /\ unreleased \in [Nic -> 0..FqSize]
  /\ rx \in [Nic -> 0..RxSize] /\ rxDriver \in [Nic -> States]
  /\ tx \in [Nic -> 0..TxSize] /\ cq \in [Nic -> 0..CqSize]
  /\ txDriver \in [Nic -> States]
  /\ pc \in {"receive", "wake rx", "send", "wake tx"}
  /\ hop \in 1..Len(Route)
  /\ packets \in Nat /\ sent \in Nat /\ tries \in 0..2
  /\ \A n \in Nic : fq[n] + unreleased[n] <= FqSize

\* A receiving driver that sleeps can be woken, on a Nic with a prompt driver
\* whatever the others do: a packet waits, so that the next receive gets past
\* its early return, or receive is about to look at the flag already.
SleeperHasWork ==
  \A n \in PromptNic :
    rxDriver[n] = "asleep" => \/ rx[n] > 0
                              \/ pc = "wake rx" /\ From = n

\* The hops whose packets come from a Nic with a prompt driver.
PromptHop == {h \in DOMAIN Route : Route[h][1] \in PromptNic}

\* While frames keep arriving, receive hands out packets again and again, on
\* every prompt Nic the loop serves.
ReceivesForever == \A h \in PromptHop : []<>(pc = "wake rx" /\ hop = h)

\* Nothing submitted stays for ever in a transmit ring that such a hop feeds,
\* however late its driver raises the flag: the driver transmits again and
\* again, or the ring empties again and again.
TransmitsForever ==
  \A h \in PromptHop :
    LET n == Route[h][2] IN []<>(tx[n] = 0) \/ []<><<Transmit(n)>>_vars

-----------------------------------------------------------------------------
(* A statement of a comment that the code does not keep.                   *)

(***************************************************************************)
(* lib.rs, in recv: "the interrupt is woken up whenever Recv() is called". *)
(* A call that returns early, without a look at the flag, leaves no driver *)
(* asleep that it should have woken.                                       *)
(***************************************************************************)
RecvWakes == [][ReceiveNone => ~NeedsWakeup(rxDriver[From])]_vars
=============================================================================
