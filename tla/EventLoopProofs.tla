-------------------------- MODULE EventLoopProofs --------------------------
(***************************************************************************)
(* Why the early return of recv does not leave a sleeping driver asleep,   *)
(* for every number of Nics, route and ring size, on each Nic whose driver *)
(* gives fill ring slots back promptly and raises its flag in the step     *)
(* that finds the ring empty, whatever the drivers of the others do; and   *)
(* that loop and drivers keep every ring, of any Nic, within its size.     *)
(***************************************************************************)
EXTENDS EventLoop, TLAPS

\* The part of the type invariant about reception.
RxTypes ==
  /\ fq \in [Nic -> Nat] /\ unreleased \in [Nic -> Nat]
  /\ rx \in [Nic -> Nat] /\ rxDriver \in [Nic -> States]
  /\ hop \in 1..Len(Route)

\* Every chunk of the fill ring's stock is in the fill or the receive ring: so
\* a driver that finds the first one empty leaves the second one full.
Stocked == \A n \in PromptNic : unreleased[n] = 0 /\ fq[n] + rx[n] = FqSize

\* The inductive invariant.
Inv ==
  /\ RxTypes
  /\ Stocked
  /\ \A n \in PromptNic : rxDriver[n] # "empty"
  /\ SleeperHasWork

\* Every hop of a route starts and ends at a Nic.
LEMMA RouteEnds ==
  ASSUME hop \in 1..Len(Route)
  PROVE  From \in Nic /\ To \in Nic
<1>1. Route[hop] \in Nic \X Nic
  BY LoopAssumption
<1> QED BY <1>1 DEF From, To

\* The next hop is a hop of the route.
LEMMA NextHopType ==
  ASSUME hop \in 1..Len(Route), NextHop
  PROVE  hop' \in 1..Len(Route)
<1>1. Len(Route) \in Nat \ {0}
  BY LoopAssumption
<1>2. hop % Len(Route) \in 0..(Len(Route) - 1)
  BY <1>1
<1> QED BY <1>1, <1>2 DEF NextHop

\* At the start the fill rings are full and every driver polls.
LEMMA InitInv == Init => Inv
<1> SUFFICES ASSUME Init PROVE Inv
  OBVIOUS
<1>1. /\ Len(Route) \in Nat \ {0} /\ FqSize \in Nat
      /\ PromptNic \subseteq Nic
  BY LoopAssumption
<1> QED BY <1>1 DEF Init, Inv, RxTypes, Stocked, SleeperHasWork, States

\* What a step does to the reception of the Nics.
LEMMA StepInv == Inv /\ [Next]_vars => Inv'
<1> SUFFICES ASSUME Inv, [Next]_vars PROVE Inv'
  OBVIOUS
<1>t. /\ fq \in [Nic -> Nat] /\ unreleased \in [Nic -> Nat]
      /\ rx \in [Nic -> Nat] /\ rxDriver \in [Nic -> States]
      /\ hop \in 1..Len(Route) /\ From \in Nic
  BY RouteEnds DEF Inv, RxTypes
<1>p. PromptNic \subseteq Nic
  BY LoopAssumption
<1>s. \A n \in PromptNic : unreleased[n] = 0 /\ fq[n] + rx[n] = FqSize
  BY DEF Inv, Stocked
<1>e. \A n \in PromptNic : rxDriver[n] # "empty"
  BY DEF Inv
<1>w. \A n \in PromptNic : rxDriver[n] = "asleep" =>
                       rx[n] > 0 \/ (pc = "wake rx" /\ From = n)
  BY DEF Inv, SleeperHasWork
<1>c. FqSize \in Nat \ {0} /\ Batch \in Nat \ {0}
  BY LoopAssumption
<1>1. CASE ReceiveNone
  <2>1. hop' \in 1..Len(Route)
    BY <1>1, <1>t, NextHopType DEF ReceiveNone
  <2>2. UNCHANGED rxVars /\ pc = "receive"
    BY <1>1 DEF ReceiveNone
  <2> QED BY <2>1, <2>2, <1>t, <1>s, <1>e, <1>w
          DEF rxVars, Inv, RxTypes, Stocked, SleeperHasWork
<1>2. CASE ReceiveSome
  <2> DEFINE n == From
  <2>1. PICK k \in 1..Peek(rx[n], Batch) :
          /\ rx' = [rx EXCEPT ![n] = @ - k]
          /\ fq' = [fq EXCEPT ![n] = @ + Refill(n, k)]
    BY <1>2 DEF ReceiveSome
  <2>2. k \in Nat /\ k <= rx[n] /\ rx[n] \in Nat
    BY <1>t, <1>c DEF Peek
  <2>3. Refill(n, k) \in Int /\ fq[n] + Refill(n, k) \in Nat
    <3>1. /\ fq[n] \in Nat /\ unreleased[n] \in Nat /\ FqSize \in Nat
      BY <1>t, <1>c
    <3> QED BY <3>1, <2>2 DEF Refill, Reserve
  <2>4. n \in PromptNic => Refill(n, k) = k
    <3> SUFFICES ASSUME n \in PromptNic PROVE Refill(n, k) = k
      OBVIOUS
    <3>1. FqSize - fq[n] - unreleased[n] = rx[n]
      BY <1>s, <1>t, <1>c
    <3> QED BY <3>1, <2>2 DEF Refill, Reserve
  <2>5. fq' = [fq EXCEPT ![n] = @ + Refill(n, k)]
    BY <2>1
  <2>6. /\ UNCHANGED <<unreleased, rxDriver, hop>> /\ pc = "receive"
        /\ pc' = "wake rx" /\ From' = From
    BY <1>2 DEF ReceiveSome, From
  <2> HIDE DEF n
  <2>7. n = From /\ n \in Nic
    BY <1>t DEF n
  <2>8. \A m \in Nic : /\ fq'[m] \in Nat /\ rx'[m] \in Nat
                       /\ m # n => rx'[m] = rx[m] /\ fq'[m] = fq[m]
    BY <2>1, <2>2, <2>3, <2>5, <2>7, <1>t
  <2>12. \A m \in PromptNic : fq'[m] + rx'[m] = FqSize
    <3> SUFFICES ASSUME NEW m \in PromptNic PROVE fq'[m] + rx'[m] = FqSize
      OBVIOUS
    <3>1. CASE m = n
      BY <3>1, <2>1, <2>2, <2>4, <2>5, <2>7, <1>t, <1>s, <1>c
    <3>2. CASE m # n
      BY <3>2, <2>8, <1>s, <1>p
    <3> QED BY <3>1, <3>2
  <2>9. RxTypes'
    BY <2>1, <2>5, <2>6, <2>8, <1>t DEF RxTypes
  <2>10. Stocked'
    BY <2>6, <2>12, <1>s DEF Stocked
  <2>11. SleeperHasWork'
    BY <2>6, <2>7, <2>8, <1>w, <1>p DEF SleeperHasWork
  <2> QED BY <2>6, <2>9, <2>10, <2>11, <1>e DEF Inv
<1>3. CASE WakeRx
  <2>1. /\ UNCHANGED <<fq, unreleased, rx, hop>> /\ From' = From
        /\ rxDriver' = IF rxDriver[From] = "asleep"
                       THEN [rxDriver EXCEPT ![From] = "polling"] ELSE rxDriver
    BY <1>3 DEF WakeRx, NeedsWakeup, From
  <2>2. rxDriver' \in [Nic -> States] /\ rxDriver'[From] # "asleep"
    BY <2>1, <1>t DEF States
  <2>3. \A n \in PromptNic : rxDriver'[n] # "empty"
                       /\ (n # From => rxDriver'[n] = rxDriver[n])
    BY <2>1, <1>t, <1>e, <1>p
  <2> QED BY <2>1, <2>2, <2>3, <1>t, <1>s, <1>w, <1>p
          DEF Inv, RxTypes, Stocked, SleeperHasWork
<1>4. CASE Send
  BY <1>4, <1>t, <1>s, <1>e, <1>w
     DEF Send, rxVars, Inv, RxTypes, Stocked, SleeperHasWork
<1>5. CASE WakeTx
  <2>1. hop' \in 1..Len(Route)
    BY <1>5, <1>t, NextHopType DEF WakeTx
  <2>2. UNCHANGED rxVars /\ pc = "wake tx"
    BY <1>5 DEF WakeTx
  <2> QED BY <2>1, <2>2, <1>t, <1>s, <1>e, <1>w
          DEF rxVars, Inv, RxTypes, Stocked, SleeperHasWork
<1>6. ASSUME NEW n \in Nic, RxFrame(n) PROVE Inv'
  <2>1. /\ UNCHANGED <<rxDriver, hop, pc>> /\ From' = From
        /\ fq[n] > 0
        /\ fq' = [fq EXCEPT ![n] = @ - 1] /\ rx' = [rx EXCEPT ![n] = @ + 1]
        /\ unreleased' = IF n \in PromptNic THEN unreleased
                         ELSE [unreleased EXCEPT ![n] = @ + 1]
    BY <1>6 DEF RxFrame, loopVars, From
  <2>2. /\ \A m \in Nic : /\ fq'[m] \in Nat /\ rx'[m] \in Nat
                          /\ rx'[m] >= rx[m]
        /\ \A m \in PromptNic : fq'[m] + rx'[m] = FqSize
    <3>1. ASSUME NEW m \in Nic
          PROVE  /\ fq'[m] \in Nat /\ rx'[m] \in Nat /\ rx'[m] >= rx[m]
                 /\ fq'[m] + rx'[m] = fq[m] + rx[m]
      <4>1. CASE m = n
        <5>1. fq[n] \in Nat /\ rx[n] \in Nat /\ fq[n] > 0
          BY <2>1, <1>t
        <5>2. fq'[n] = fq[n] - 1 /\ rx'[n] = rx[n] + 1
          BY <2>1, <1>t
        <5> QED BY <4>1, <5>1, <5>2
      <4>2. CASE m # n
        BY <4>2, <2>1, <1>t
      <4> QED BY <4>1, <4>2
    <3> QED BY <3>1, <1>s, <1>p
  <2>3. unreleased' \in [Nic -> Nat]
        /\ \A m \in PromptNic : unreleased'[m] = unreleased[m]
    BY <2>1, <1>t, <1>p
  <2>4. RxTypes'
    BY <2>1, <2>2, <2>3, <1>t DEF RxTypes
  <2>5. SleeperHasWork'
    <3> SUFFICES ASSUME NEW m \in PromptNic, rx[m] > 0 PROVE rx'[m] > 0
      BY <2>1, <1>w DEF SleeperHasWork
    <3>1. rx[m] \in Nat /\ rx'[m] \in Nat /\ rx'[m] >= rx[m]
      BY <2>2, <1>t, <1>p
    <3> QED BY <3>1
  <2> QED BY <2>1, <2>2, <2>3, <2>4, <2>5, <1>s, <1>e DEF Inv, Stocked
<1>7. ASSUME NEW n \in Nic, ReleaseFq(n) PROVE Inv'
  <2>1. /\ UNCHANGED <<fq, rx, rxDriver, hop, pc>> /\ From' = From
        /\ unreleased' = [unreleased EXCEPT ![n] = 0]
    BY <1>7 DEF ReleaseFq, loopVars, From
  <2> QED BY <2>1, <1>t, <1>s, <1>e, <1>w, <1>p
          DEF Inv, RxTypes, Stocked, SleeperHasWork
<1>8. ASSUME NEW n \in Nic, RxEmpty(n) PROVE Inv'
  <2>1. /\ UNCHANGED <<fq, unreleased, rx, hop, pc>> /\ From' = From
        /\ fq[n] = 0 /\ rxDriver' = [rxDriver EXCEPT ![n] = Sleepy(n)]
    BY <1>8 DEF RxEmpty, loopVars, From
  <2>2. n \in PromptNic => rx[n] > 0
    BY <2>1, <1>s, <1>t, <1>c
  <2>3. Sleepy(n) \in States /\ (n \in PromptNic => Sleepy(n) = "asleep")
    BY DEF Sleepy, States
  <2> QED BY <2>1, <2>2, <2>3, <1>t, <1>s, <1>e, <1>w, <1>p
          DEF Inv, RxTypes, Stocked, SleeperHasWork
<1>9. ASSUME NEW n \in Nic, RxSleep(n) PROVE Inv'
  <2>1. /\ UNCHANGED <<fq, unreleased, rx, hop, pc>> /\ From' = From
        /\ rxDriver[n] = "empty"
        /\ rxDriver' = [rxDriver EXCEPT ![n] = "asleep"]
    BY <1>9 DEF RxSleep, loopVars, From
  <2>2. n \notin PromptNic /\ "asleep" \in States
    BY <2>1, <1>e DEF States
  <2> QED BY <2>1, <2>2, <1>t, <1>s, <1>e, <1>w, <1>p
          DEF Inv, RxTypes, Stocked, SleeperHasWork
<1>10. ASSUME NEW n \in Nic, Transmit(n) \/ TxEmpty(n) \/ TxSleep(n)
       PROVE  Inv'
  BY <1>10, <1>t, <1>s, <1>e, <1>w
     DEF Transmit, TxEmpty, TxSleep, rxVars, loopVars, From,
         Inv, RxTypes, Stocked, SleeperHasWork
<1>11. CASE UNCHANGED vars
  BY <1>11, <1>t, <1>s, <1>e, <1>w
     DEF vars, rxVars, loopVars, From, Inv, RxTypes, Stocked, SleeperHasWork
<1> QED
  BY <1>1, <1>2, <1>3, <1>4, <1>5, <1>6, <1>7, <1>8, <1>9, <1>10, <1>11
     DEF Next, Loop, Driver

\* No prompt receiving driver sleeps without work for the next receive, so the early
\* return of recv never passes over a flag that is up.
THEOREM NoSleeperForgotten == Spec => []SleeperHasWork
<1>1. Inv /\ [Next]_vars => Inv'
  BY StepInv
<1>2. Inv => SleeperHasWork
  BY DEF Inv
<1> QED BY <1>1, <1>2, InitInv, PTL DEF Spec
-----------------------------------------------------------------------------
(* The rings keep their sizes                                              *)

\* What xsk_ring_prod__reserve grants fits, what xsk_ring_cons__peek shows is
\* there.
LEMMA Grants ==
  ASSUME NEW free \in Int, free >= 0, NEW len \in Nat
  PROVE  /\ Reserve(free, len) \in {0, len} /\ Reserve(free, len) <= free
         /\ Peek(free, len) \in 0..free /\ Peek(free, len) <= len
BY DEF Reserve, Peek

\* One entry of a table changes.
LEMMA OneEntry ==
  ASSUME NEW f, NEW S, NEW T, f \in [S -> T], NEW n \in S, NEW v \in T
  PROVE  /\ [f EXCEPT ![n] = v] \in [S -> T]
         /\ \A m \in S : [f EXCEPT ![n] = v][m] = IF m = n THEN v ELSE f[m]
OBVIOUS

LEMMA InitTypes == Init => TypeOK
<1> SUFFICES ASSUME Init PROVE TypeOK
  OBVIOUS
<1>1. /\ FqSize \in Nat /\ RxSize \in Nat /\ TxSize \in Nat /\ CqSize \in Nat
      /\ Len(Route) \in Nat \ {0}
  BY LoopAssumption
<1> QED BY <1>1 DEF Init, TypeOK, States

\* The application's side.
LEMMA LoopTypes == TypeOK /\ Loop => TypeOK'
<1> SUFFICES ASSUME TypeOK, Loop PROVE TypeOK'
  OBVIOUS
<1>c. /\ FqSize \in Nat /\ RxSize \in Nat /\ TxSize \in Nat /\ CqSize \in Nat
      /\ Batch \in Nat \ {0}
  BY LoopAssumption
<1>t. /\ fq \in [Nic -> 0..FqSize] /\ unreleased \in [Nic -> 0..FqSize]
      /\ rx \in [Nic -> 0..RxSize] /\ rxDriver \in [Nic -> States]
      /\ tx \in [Nic -> 0..TxSize] /\ cq \in [Nic -> 0..CqSize]
      /\ txDriver \in [Nic -> States]
      /\ hop \in 1..Len(Route) /\ packets \in Nat /\ sent \in Nat /\ tries \in 0..2
      /\ \A n \in Nic : fq[n] + unreleased[n] <= FqSize
      /\ From \in Nic /\ To \in Nic
  BY RouteEnds DEF TypeOK
<1>n. \A m \in Nic : /\ fq[m] \in Nat /\ unreleased[m] \in Nat /\ rx[m] \in Nat
                     /\ fq[m] + unreleased[m] <= FqSize /\ rx[m] <= RxSize
                     /\ tx[m] \in Nat /\ tx[m] <= TxSize
                     /\ cq[m] \in Nat /\ cq[m] <= CqSize
  BY <1>c, <1>t
<1>h. NextHop => hop' \in 1..Len(Route) /\ pc' = "receive"
                 /\ packets' = 0 /\ sent' = 0 /\ tries' = 0
  BY <1>t, NextHopType DEF NextHop
<1>1. CASE ReceiveNone
  <2>1. NextHop /\ UNCHANGED <<rxVars, txVars>>
    BY <1>1 DEF ReceiveNone
  <2>2. hop' \in 1..Len(Route) /\ packets' \in Nat /\ sent' \in Nat /\ tries' \in 0..2
        /\ pc' = "receive"
    BY <1>h, <2>1
  <2> QED BY <1>t, <2>1, <2>2 DEF rxVars, txVars, TypeOK
<1>2. CASE ReceiveSome
  <2> DEFINE n == From
  <2>1. PICK k \in 1..Peek(rx[n], Batch) :
          /\ rx' = [rx EXCEPT ![n] = rx[n] - k]
          /\ fq' = [fq EXCEPT ![n] = fq[n] + Refill(n, k)]
          /\ packets' = k
    BY <1>2 DEF ReceiveSome
  <2>0. /\ n \in Nic /\ rx[n] \in Nat /\ rx[n] <= RxSize
        /\ fq[n] \in Nat /\ unreleased[n] \in Nat /\ fq[n] + unreleased[n] <= FqSize
    BY <1>n, <1>t
  <2>2. k \in Nat /\ rx[n] - k \in 0..RxSize
    <3>1. Peek(rx[n], Batch) \in Int /\ Peek(rx[n], Batch) <= rx[n]
      BY <1>c, <2>0 DEF Peek
    <3> QED BY <1>c, <2>0, <3>1
  <2>3. Refill(n, k) \in Nat /\ Refill(n, k) <= FqSize - fq[n] - unreleased[n]
    <3>1. FqSize - fq[n] - unreleased[n] \in Nat
      BY <1>c, <2>0
    <3> QED BY <2>2, <3>1 DEF Refill, Reserve
  <2>4. /\ fq[n] + Refill(n, k) \in 0..FqSize
        /\ (fq[n] + Refill(n, k)) + unreleased[n] <= FqSize
    BY <1>c, <2>0, <2>3
  <2>5. fq' \in [Nic -> 0..FqSize] /\ rx' \in [Nic -> 0..RxSize]
    BY <1>t, <2>1, <2>2, <2>4, OneEntry
  <2>6. \A m \in Nic : fq'[m] + unreleased[m] <= FqSize
    <3>1. \A m \in Nic : fq'[m] = IF m = n THEN fq[n] + Refill(n, k) ELSE fq[m]
      BY <1>t, <2>1, <2>4, OneEntry
    <3> QED BY <1>t, <2>4, <3>1
  <2> QED BY <1>2, <1>t, <2>1, <2>2, <2>5, <2>6 DEF ReceiveSome, txVars, TypeOK
<1>3. CASE WakeRx
  <2>1. rxDriver' \in [Nic -> States]
    BY <1>3, <1>t DEF WakeRx, States
  <2>2. packets' \in Nat
    <3>1. packets' \in 0..packets /\ packets \in Nat
      BY <1>3, <1>t DEF WakeRx
    <3> QED BY <3>1
  <2> QED BY <1>3, <1>t, <2>1, <2>2 DEF WakeRx, txVars, TypeOK
<1>4. CASE Send
  <2> DEFINE r == TxSlots(To, packets)
  <2>1. /\ r \in {0, packets} /\ tx[To] + r \in 0..TxSize
    <3>1. TxSize - tx[To] \in Int /\ TxSize - tx[To] >= 0
      <4>1. tx[To] \in Nat /\ tx[To] <= TxSize
        BY <1>n, <1>t
      <4> QED BY <1>c, <4>1
    <3>2. r \in {0, packets} /\ r <= TxSize - tx[To] /\ packets \in Nat
      <4>1. packets \in Nat
        BY <1>t
      <4>2. r = Reserve(TxSize - tx[To], packets)
        BY DEF TxSlots
      <4> QED BY <3>1, <4>1, <4>2, Grants
    <3>3. tx[To] \in Nat
      BY <1>n, <1>t
    <3> QED BY <1>c, <3>2, <3>3
  <2>2. ReleaseCq(To) \in 0..CqSize
    <3>1. cq[To] \in Nat /\ cq[To] <= CqSize
      BY <1>n, <1>t
    <3> QED BY <1>c, <3>1 DEF ReleaseCq, Peek
  <2>3. tx' \in [Nic -> 0..TxSize] /\ cq' \in [Nic -> 0..CqSize]
    <3>1. tx' = [tx EXCEPT ![To] = tx[To] + r] /\ cq' = [cq EXCEPT ![To] = ReleaseCq(To)]
      BY <1>4 DEF Send
    <3> QED BY <1>t, <2>1, <2>2, <3>1, OneEntry
  <2>4. sent' \in Nat /\ packets' \in Nat
    <3>1. sent' = r /\ packets' = packets - r /\ packets \in Nat
      BY <1>4, <1>t DEF Send
    <3> QED BY <2>1, <3>1
  <2> QED BY <1>4, <1>t, <2>3, <2>4 DEF Send, rxVars, TypeOK
<1>5. CASE WakeTx
  <2>1. txDriver' \in [Nic -> States]
    BY <1>5, <1>t DEF WakeTx, States
  <2>2. /\ hop' \in 1..Len(Route) /\ pc' \in {"receive", "send"}
        /\ packets' \in Nat /\ sent' \in Nat /\ tries' \in 0..2
    <3>1. hop \in 1..Len(Route) /\ packets \in Nat /\ sent \in Nat /\ tries \in 0..2
      BY <1>t
    <3>2. CASE NextHop
      BY <1>h, <3>2
    <3>3. CASE /\ tries # 2 /\ pc' = "send" /\ tries' = tries + 1
               /\ UNCHANGED <<hop, packets, sent>>
      BY <3>1, <3>3
    <3> QED BY <1>5, <3>2, <3>3 DEF WakeTx
  <2> QED BY <1>5, <1>t, <2>1, <2>2 DEF WakeTx, rxVars, TypeOK
<1> QED BY <1>1, <1>2, <1>3, <1>4, <1>5 DEF Loop

\* The driver's side.
LEMMA DriverTypes == ASSUME TypeOK, NEW n \in Nic, Driver(n) PROVE TypeOK'
<1>c. /\ FqSize \in Nat /\ RxSize \in Nat /\ TxSize \in Nat /\ CqSize \in Nat
  BY LoopAssumption
<1>t. /\ fq \in [Nic -> 0..FqSize] /\ unreleased \in [Nic -> 0..FqSize]
      /\ rx \in [Nic -> 0..RxSize] /\ rxDriver \in [Nic -> States]
      /\ tx \in [Nic -> 0..TxSize] /\ cq \in [Nic -> 0..CqSize]
      /\ txDriver \in [Nic -> States]
      /\ \A m \in Nic : fq[m] + unreleased[m] <= FqSize
  BY DEF TypeOK
<1>s. "asleep" \in States /\ Sleepy(n) \in States
  BY DEF Sleepy, States
<1>1. CASE RxFrame(n)
  <2>1. fq[n] - 1 \in 0..FqSize /\ rx[n] + 1 \in 0..RxSize
    BY <1>1, <1>c, <1>t DEF RxFrame
  <2>2. fq' \in [Nic -> 0..FqSize] /\ rx' \in [Nic -> 0..RxSize]
        /\ \A m \in Nic : fq'[m] = IF m = n THEN fq[n] - 1 ELSE fq[m]
    <3>1. fq' = [fq EXCEPT ![n] = fq[n] - 1] /\ rx' = [rx EXCEPT ![n] = rx[n] + 1]
      BY <1>1 DEF RxFrame
    <3> QED BY <1>t, <2>1, <3>1, OneEntry
  <2>3. unreleased[n] + 1 \in 0..FqSize
    BY <1>1, <1>c, <1>t DEF RxFrame
  <2>4. /\ unreleased' \in [Nic -> 0..FqSize]
        /\ \A m \in Nic : \/ unreleased'[m] = unreleased[m]
                          \/ m = n /\ unreleased'[m] = unreleased[n] + 1
    <3>1. \/ unreleased' = unreleased
          \/ unreleased' = [unreleased EXCEPT ![n] = unreleased[n] + 1]
      BY <1>1 DEF RxFrame
    <3>2. CASE unreleased' = unreleased
      BY <1>t, <3>2
    <3>3. CASE unreleased' = [unreleased EXCEPT ![n] = unreleased[n] + 1]
      BY <1>t, <2>3, <3>3, OneEntry
    <3> QED BY <3>1, <3>2, <3>3
  <2>5. \A m \in Nic : fq'[m] + unreleased'[m] <= FqSize
    <3> SUFFICES ASSUME NEW m \in Nic PROVE fq'[m] + unreleased'[m] <= FqSize
      OBVIOUS
    <3>1. /\ fq[m] \in Nat /\ unreleased[m] \in Nat /\ fq[m] + unreleased[m] <= FqSize
      BY <1>t
    <3>2. CASE m = n
      BY <1>c, <2>2, <2>4, <3>1, <3>2
    <3>3. CASE m # n
      BY <2>2, <2>4, <3>1, <3>3
    <3> QED BY <3>2, <3>3
  <2> QED BY <1>1, <2>2, <2>4, <2>5 DEF RxFrame, txVars, loopVars, TypeOK
<1>2. CASE ReleaseFq(n)
  <2>1. /\ unreleased' \in [Nic -> 0..FqSize]
        /\ \A m \in Nic : unreleased'[m] = IF m = n THEN 0 ELSE unreleased[m]
    BY <1>2, <1>c, <1>t DEF ReleaseFq
  <2>2. \A m \in Nic : fq[m] + unreleased'[m] <= FqSize
    BY <1>c, <1>t, <2>1
  <2> QED BY <1>2, <2>1, <2>2 DEF ReleaseFq, txVars, loopVars, TypeOK
<1>3. CASE RxEmpty(n) \/ RxSleep(n)
  <2>1. rxDriver' \in [Nic -> States]
    BY <1>3, <1>s, <1>t DEF RxEmpty, RxSleep
  <2> QED BY <1>3, <2>1 DEF RxEmpty, RxSleep, txVars, loopVars, TypeOK
<1>4. CASE Transmit(n)
  <2>1. tx[n] - 1 \in 0..TxSize /\ cq[n] + 1 \in 0..CqSize
    BY <1>4, <1>c, <1>t DEF Transmit
  <2>2. tx' \in [Nic -> 0..TxSize] /\ cq' \in [Nic -> 0..CqSize]
    <3>1. tx' = [tx EXCEPT ![n] = tx[n] - 1] /\ cq' = [cq EXCEPT ![n] = cq[n] + 1]
      BY <1>4 DEF Transmit
    <3> QED BY <1>t, <2>1, <3>1, OneEntry
  <2> QED BY <1>4, <2>2 DEF Transmit, rxVars, loopVars, TypeOK
<1>5. CASE TxEmpty(n) \/ TxSleep(n)
  <2>1. txDriver' \in [Nic -> States]
    BY <1>5, <1>s, <1>t DEF TxEmpty, TxSleep
  <2> QED BY <1>5, <2>1 DEF TxEmpty, TxSleep, rxVars, loopVars, TypeOK
<1> QED BY <1>1, <1>2, <1>3, <1>4, <1>5 DEF Driver

(***************************************************************************)
(* Loop and drivers keep every variable in its type.  In particular no     *)
(* ring ever holds more than its size: what the loop puts into a fill or   *)
(* transmit ring, and a driver into a receive or completion ring, fits.    *)
(***************************************************************************)
THEOREM TypeCorrect == Spec => []TypeOK
<1>1. TypeOK /\ [Next]_vars => TypeOK'
  <2>1. TypeOK /\ UNCHANGED vars => TypeOK'
    BY DEF TypeOK, vars, rxVars, txVars, loopVars
  <2> QED BY <2>1, LoopTypes, DriverTypes DEF Next
<1> QED BY <1>1, InitTypes, PTL DEF Spec
=============================================================================
