--------------------------- MODULE CopyLoopProofs ---------------------------
(***************************************************************************)
(* What the loops of filter, change_word and tunnel need of the pool, for  *)
(* every ring size, batch size and chunk count.                            *)
(*                                                                         *)
(* The argument is by counting.  Every chunk is free, in the stock of a    *)
(* Nic or behind a packet the loop holds (NothingLost); a stock is at most *)
(* a fill ring (Stocked); and the loop holds at most two packets for each  *)
(* packet of the batch, the packet itself and its copy or its reset        *)
(* (Phase).  So whenever a packet is allocated or a fill ring paid back,   *)
(* the sizing leaves enough in the pool.                                   *)
(***************************************************************************)
EXTENDS CopyLoop, TLAPS

\* TypeOK without the rings.
LoopTypes ==
  /\ program \in Program /\ chunks \in ChunkCount
  /\ pc \in Steps /\ from \in Nic
  /\ packets \in 0..Batch /\ done \in 0..Batch /\ copies \in 0..Batch
  /\ singles \in {<<>>, <<1>>, <<2>>, <<1, 2>>, <<2, 1>>}
  /\ spare \in 0..1 /\ tries \in 0..2
  /\ ended \in {"no", "pool", "socket"}

\* No Nic keeps more chunks than its fill ring has slots, and the Nic that
\* the tunnel does not open keeps none.
Stocked ==
  /\ Stock(1) <= FqSize /\ Stock(2) <= FqSize
  /\ program = "tunnel" => Stock(2) = 0

\* What the loop holds at each of its steps.
Phase ==
  /\ packets + done <= Batch
  /\ copies <= done
  /\ pc \in {"receive", "socket"} => done = 0
  /\ pc \notin {"process", "single"} => packets = 0
  /\ pc = "socket" => program = "tunnel"
  /\ pc = "single" => singles # <<>>
  /\ pc # "single" => singles = <<>> /\ spare = 0
  /\ pc = "single" /\ program = "tunnel" => packets = 0 /\ done = 0
  /\ pc = "single" /\ program # "tunnel" => copies < done
  /\ program = "tunnel" => copies = 0 /\ from = 1 /\ pc # "send"

\* The inductive invariant.
Inv == RingsFit /\ LoopTypes /\ Stocked /\ Phase /\ NothingLost /\ NeverPanics

-----------------------------------------------------------------------------
(* Facts used in several steps                                             *)

\* The constants as numbers.
LEMMA Sizes ==
  /\ FqSize \in Nat /\ FqSize > 0 /\ RxSize \in Nat /\ TxSize \in Nat
  /\ CqSize \in Nat /\ Batch \in Nat /\ Batch > 0
BY CopyAssumption

\* The loop's counters as numbers.
LEMMA Counters ==
  ASSUME LoopTypes
  PROVE  /\ packets \in Nat /\ done \in Nat /\ copies \in Nat
         /\ spare \in Nat /\ chunks \in Nat /\ from \in Nic
         /\ packets <= Batch /\ done <= Batch /\ copies <= Batch
BY CopyAssumption DEF LoopTypes

LEMMA StockTypes ==
  ASSUME RingsFit PROVE Stock(1) \in Nat /\ Stock(2) \in Nat
BY Sizes DEF RingsFit, Stock, Nic

LEMMA Others == ASSUME NEW n \in Nic PROVE Other(n) \in Nic /\ Other(n) # n
BY DEF Nic, Other

\* A step that leaves fill and receive rings alone leaves the stocks alone.
LEMMA SameStock ==
  ASSUME UNCHANGED <<fq, rx, program>>, Stocked
  PROVE  Stocked' /\ Stock(1)' = Stock(1) /\ Stock(2)' = Stock(2)
BY DEF Stocked, Stock

\* If what the loop holds changes by as much as the pool, nothing is lost.
LEMMA Balanced ==
  ASSUME RingsFit, LoopTypes, NothingLost, LoopTypes', RingsFit',
         UNCHANGED <<fq, rx, program, chunks>>,
         ended' = "no" => ended = "no",
         NEW d \in Int, pool' = pool - d, Held' = Held + d
  PROVE  NothingLost'
<1>1. Stock(1)' = Stock(1) /\ Stock(2)' = Stock(2)
  BY DEF Stock
<1>2. Held \in Nat
  BY Counters DEF Held
<1>4. pool \in Int /\ chunks \in Int
  BY Counters DEF RingsFit
<1>5. Stock(1) \in Int /\ Stock(2) \in Int
  BY StockTypes
<1>6. CASE ended' = "no"
  <2>1. pool + Stock(1) + Stock(2) + Held = chunks
    BY <1>6 DEF NothingLost
  <2>2. pool' + Stock(1) + Stock(2) + Held' = chunks
    BY <1>2, <1>4, <1>5, <2>1
  <2> QED BY <1>1, <2>2 DEF NothingLost
<1>7. CASE ended' # "no"
  BY <1>7 DEF NothingLost
<1> QED BY <1>6, <1>7

\* send gets a slot for every packet or none, and never more than are free.
LEMMA SlotsBound ==
  ASSUME RingsFit, NEW n \in Nic, NEW len \in Nat
  PROVE  /\ TxSlots(n, len) \in {0, len}
         /\ tx[n] \in Nat /\ tx[n] + TxSlots(n, len) <= TxSize
BY Sizes DEF RingsFit, TxSlots, Reserve

LEMMA SubmitFits ==
  ASSUME RingsFit, NEW n \in Nic, NEW r \in Nat, Submit(n, r),
         tx[n] + r <= TxSize
  PROVE  tx' \in [Nic -> 0..TxSize] /\ cq' \in [Nic -> 0..CqSize]
<1>1. tx[n] + r \in 0..TxSize /\ ReleaseCq(n) \in 0..CqSize
  BY Sizes DEF RingsFit, ReleaseCq, Peek
<1> QED BY <1>1 DEF Submit, RingsFit

\* A panic leaves all but `ended` alone.
LEMMA PanicInv ==
  ASSUME Inv, Loop, NEW why \in {"pool", "socket"}, Panic(why),
         why = "pool" => ~Sizing
  PROVE  Inv'
<1>1. RingsFit'
  BY DEF Inv, RingsFit, Panic, kernelVars
<1>2. LoopTypes'
  BY DEF Inv, LoopTypes, Loop, Panic, loopVars
<1>3. Stocked'
  BY SameStock DEF Inv, Loop, Panic, kernelVars
<1>4. Phase'
  BY DEF Inv, Phase, Loop, Panic, loopVars
<1>5. NothingLost'
  BY DEF NothingLost, Panic
<1>6. NeverPanics'
  BY DEF Inv, NeverPanics, Sizing, Loop, Panic
<1> QED BY <1>1, <1>2, <1>3, <1>4, <1>5, <1>6 DEF Inv

-----------------------------------------------------------------------------
(* What the pool still holds                                               *)

\* By the sizing the pool has room for two chunks for every packet of a batch
\* (one in the tunnel), less those the loop holds.
LEMMA PoolCovers ==
  ASSUME Inv, ended = "no", Sizing
  PROVE  pool + Held >= IF program = "tunnel" THEN Batch ELSE 2 * Batch
<1>1. pool + Stock(1) + Stock(2) + Held = chunks
  BY DEF Inv, NothingLost
<1>2. Held \in Nat /\ chunks \in Nat
  BY Counters DEF Inv, Held
<1>3. pool \in Nat
  BY DEF Inv, RingsFit
<1>4. /\ Stock(1) <= FqSize /\ Stock(2) <= FqSize
      /\ program = "tunnel" => Stock(2) = 0
  BY DEF Inv, Stocked
<1>5. Stock(1) \in Nat /\ Stock(2) \in Nat
  BY StockTypes DEF Inv
<1> QED BY <1>1, <1>2, <1>3, <1>4, <1>5, Sizes DEF Sizing

\* So it can pay for a refill ...
LEMMA RefillPaid ==
  ASSUME Inv, At("receive"), Sizing PROVE pool >= Batch
<1>1. Held = 0
  BY Counters DEF Inv, Phase, At, Held
<1> QED BY <1>1, PoolCovers, Sizes DEF At, Inv, RingsFit

\* ... for a copy ...
LEMMA CopyPaid ==
  ASSUME Inv, At("process"), program # "tunnel", packets > 0, Sizing
  PROVE  pool > 0
<1>1. Held < 2 * Batch /\ Held \in Nat
  BY Counters, Sizes DEF Inv, Phase, At, Held
<1> QED BY <1>1, PoolCovers, Sizes DEF At, Inv, RingsFit

\* ... and for a packet of its own.
LEMMA SinglePaid ==
  ASSUME Inv, At("single"), spare = 0, Sizing
  PROVE  pool > 0
<1>1. CASE program = "tunnel"
  <2>1. Held = 0
    BY <1>1, Counters DEF Inv, Phase, At, Held
  <2> QED BY <1>1, <2>1, PoolCovers, Sizes DEF At, Inv, RingsFit
<1>2. CASE program # "tunnel"
  <2>1. Held < 2 * Batch /\ Held \in Nat
    BY <1>2, Counters, Sizes DEF Inv, Phase, At, Held
  <2> QED BY <1>2, <2>1, PoolCovers, Sizes DEF At, Inv, RingsFit
<1> QED BY <1>1, <1>2

-----------------------------------------------------------------------------
(* One lemma for each step                                                 *)

LEMMA InitInv == Init => Inv
<1> SUFFICES ASSUME Init PROVE Inv
  OBVIOUS
<1>1. chunks \in Nat /\ fq[1] + fq[2] <= chunks
  BY CopyAssumption DEF Init
<1>2. /\ fq[1] = FqSize
      /\ IF program = "tunnel" THEN fq[2] = 0 ELSE fq[2] = FqSize
      /\ fq \in [Nic -> Nat] /\ \A n \in Nic : fq[n] <= FqSize
  BY Sizes DEF Init, Nic, Opened
<1>3. Stock(1) = fq[1] /\ Stock(2) = fq[2]
  BY <1>2, Sizes DEF Init, Stock, Nic
<1>4. RingsFit
  BY <1>1, <1>2, Sizes DEF Init, RingsFit, Nic
<1>5. LoopTypes
  BY CopyAssumption DEF Init, LoopTypes, Nic, Steps
<1>6. Stocked
  BY <1>2, <1>3, Sizes DEF Stocked
<1>7. Phase
  BY Sizes DEF Init, Phase
<1>8. NothingLost
  BY <1>1, <1>2, <1>3, Sizes DEF Init, NothingLost, Held
<1>9. NeverPanics
  BY DEF Init, NeverPanics
<1> QED BY <1>4, <1>5, <1>6, <1>7, <1>8, <1>9 DEF Inv

LEMMA ReceiveNoneInv ==
  ASSUME Inv, Loop, ReceiveNone PROVE Inv'
<1>1. RingsFit'
  BY DEF Inv, RingsFit, ReceiveNone, kernelVars
<1>2. LoopTypes'
  BY Counters, Others DEF Inv, LoopTypes, Loop, ReceiveNone, Steps
<1>3. Stocked'
  BY SameStock DEF Inv, Loop, ReceiveNone, kernelVars
<1>4. Phase'
  BY DEF Inv, Phase, Loop, ReceiveNone, At
<1>5. NothingLost'
  BY DEF Inv, NothingLost, Stock, Held, Loop, ReceiveNone, kernelVars
<1>6. NeverPanics'
  BY DEF Inv, NeverPanics, Sizing, Loop, ReceiveNone
<1> QED BY <1>1, <1>2, <1>3, <1>4, <1>5, <1>6 DEF Inv

\* A batch of k packets and a refill of r slots.
LEMMA BatchInv ==
  ASSUME Inv, Loop, At("receive"), NEW k \in Nat, NEW r \in Nat,
         k > 0, k <= Batch, k <= rx[from], r <= k, r <= pool,
         fq[from] + unreleased[from] + r <= FqSize,
         rx' = [rx EXCEPT ![from] = @ - k],
         fq' = [fq EXCEPT ![from] = @ + r],
         pool' = pool - r, packets' = k, pc' = "process",
         UNCHANGED <<unreleased, tx, cq, from, done, copies, singles, spare,
                     tries, ended>>
  PROVE  Inv'
<1>0. from \in Nic /\ pool \in Nat /\ rx[from] \in Nat /\ fq[from] \in Nat
  BY Counters, Sizes DEF Inv, RingsFit
<1>1. RingsFit'
  BY <1>0, Sizes DEF Inv, RingsFit
<1>2. LoopTypes'
  BY Sizes DEF Inv, LoopTypes, Loop, Steps
<1>3. /\ Stock(1)' \in Nat /\ Stock(2)' \in Nat
      /\ Stock(1)' + Stock(2)' = Stock(1) + Stock(2) + r - k
      /\ Stock(1)' <= Stock(1) /\ Stock(2)' <= Stock(2)
  <2>1. Stock(1) \in Nat /\ Stock(2) \in Nat
    BY StockTypes DEF Inv
  <2>2. /\ rx'[from] = rx[from] - k /\ fq'[from] = fq[from] + r
        /\ \A n \in Nic \ {from} : rx'[n] = rx[n] /\ fq'[n] = fq[n]
    <3>1. rx \in [Nic -> 0..RxSize] /\ fq \in [Nic -> Nat]
      BY DEF Inv, RingsFit
    <3> QED BY <1>0, <3>1
  <2>3. from = 1 \/ from = 2
    BY <1>0 DEF Nic
  <2>4. /\ rx[1] \in Nat /\ rx[2] \in Nat /\ fq[1] \in Nat /\ fq[2] \in Nat
    BY Sizes DEF Inv, RingsFit, Nic
  <2> QED BY <1>0, <2>1, <2>2, <2>3, <2>4 DEF Stock, Nic
<1>4. Stocked'
  BY <1>3, StockTypes, Sizes DEF Inv, Stocked, Loop
<1>5. Phase'
  BY Counters DEF Inv, Phase, Loop, At
<1>6. NothingLost'
  <2>1. Held = 0 /\ Held' = k
    BY Counters DEF Inv, Phase, At, Held
  <2>2. pool + Stock(1) + Stock(2) = chunks
    BY <2>1, <1>0, StockTypes DEF Inv, NothingLost, At
  <2>3. pool' + Stock(1)' + Stock(2)' + k = chunks
    BY <1>0, <1>3, <2>2, StockTypes DEF Inv
  <2> QED BY <2>1, <2>3 DEF NothingLost, Loop
<1>7. NeverPanics'
  BY DEF Inv, NeverPanics, Sizing, Loop
<1> QED BY <1>1, <1>2, <1>4, <1>5, <1>6, <1>7 DEF Inv

LEMMA ReceiveSomeInv ==
  ASSUME Inv, Loop, ReceiveSome PROVE Inv'
<1>1. PICK k \in 1..Peek(rx[from], Batch) :
        \/ /\ Refill(from, k) <= pool
           /\ rx' = [rx EXCEPT ![from] = @ - k]
           /\ fq' = [fq EXCEPT ![from] = @ + Refill(from, k)]
           /\ pool' = pool - Refill(from, k)
           /\ packets' = k
           /\ pc' = "process"
           /\ UNCHANGED <<unreleased, tx, cq, from, done, copies, singles,
                          spare, tries, ended>>
        \/ Refill(from, k) > pool /\ Panic("pool")
  BY DEF ReceiveSome
<1>a. At("receive")
  BY DEF ReceiveSome
<1>2. from \in Nic /\ rx[from] \in Nat
  BY Counters, Sizes DEF Inv, RingsFit
<1>3. k \in Nat /\ k > 0 /\ k <= rx[from] /\ k <= Batch
  BY <1>2, Sizes DEF Peek
<1>4. /\ Refill(from, k) \in Nat /\ Refill(from, k) <= k
      /\ fq[from] + unreleased[from] + Refill(from, k) <= FqSize
  BY <1>2, <1>3, Sizes DEF Inv, RingsFit, Refill, Reserve
<1>5. CASE Refill(from, k) > pool /\ Panic("pool")
  <2>1. pool \in Nat
    BY DEF Inv, RingsFit
  <2>2. ~Sizing
    BY <1>a, <1>3, <1>4, <1>5, <2>1, RefillPaid, Sizes
  <2> QED BY <1>5, <2>2, PanicInv
<1>6. CASE ~(Refill(from, k) > pool /\ Panic("pool"))
  BY <1>a, <1>1, <1>3, <1>4, <1>6, BatchInv
<1> QED BY <1>5, <1>6

LEMMA CopyInv ==
  ASSUME Inv, Loop, Copy PROVE Inv'
<1>a. At("process") /\ program # "tunnel" /\ packets > 0
  BY DEF Copy
<1>p. pool \in Nat
  BY DEF Inv, RingsFit
<1>1. CASE pool = 0 /\ Panic("pool")
  BY <1>a, <1>1, CopyPaid, PanicInv
<1>2. CASE ~(pool = 0 /\ Panic("pool"))
  <2>1. /\ pool > 0 /\ pool' = pool - 1
        /\ packets' = packets - 1 /\ done' = done + 1 /\ copies' = copies + 1
        /\ UNCHANGED <<kernelVars, pc, from, singles, spare, tries, ended>>
    BY <1>2 DEF Copy
  <2>2. RingsFit'
    BY <1>p, <2>1 DEF Inv, RingsFit, kernelVars
  <2>3. LoopTypes'
    BY <1>a, <2>1, Counters, Sizes DEF Inv, LoopTypes, Phase, Loop
  <2>4. Stocked'
    BY <2>1, SameStock DEF Inv, Loop, kernelVars
  <2>5. Phase'
    BY <1>a, <2>1, Counters DEF Inv, Phase, Loop, At
  <2>6. NothingLost'
    BY <1>p, <2>1, <2>2, <2>3, Balanced, Counters
       DEF Inv, Held, kernelVars, Loop
  <2>7. NeverPanics'
    BY <2>1 DEF Inv, NeverPanics, Sizing, Loop
  <2> QED BY <2>2, <2>3, <2>4, <2>5, <2>6, <2>7 DEF Inv
<1> QED BY <1>1, <1>2

LEMMA RejectInv ==
  ASSUME Inv, Loop, Reject PROVE Inv'
<1>a. /\ At("process") /\ program = "filter" /\ packets > 0
      /\ packets' = packets - 1 /\ done' = done + 1
      /\ singles' = <<from, Other(from)>> /\ pc' = "single"
      /\ UNCHANGED <<pool, kernelVars, from, copies, spare, tries, ended>>
  BY DEF Reject
<1>1. RingsFit'
  BY <1>a DEF Inv, RingsFit, kernelVars
<1>2. LoopTypes'
  <2>1. singles' \in {<<1, 2>>, <<2, 1>>}
    BY <1>a DEF Inv, LoopTypes, Nic, Other
  <2>2. packets' \in 0..Batch /\ done' \in 0..Batch
    BY <1>a, Counters, Sizes DEF Inv, Phase
  <2> QED BY <1>a, <2>1, <2>2 DEF Inv, LoopTypes, Loop, Steps
<1>3. Stocked'
  BY <1>a, SameStock DEF Inv, Loop, kernelVars
<1>4. Phase'
  BY <1>a, Counters DEF Inv, Phase, Loop, At
<1>5. NothingLost'
  <2>1. pool \in Nat /\ pool' = pool - 0
    BY <1>a DEF Inv, RingsFit
  <2>2. Held' = Held + 0
    BY <1>a, Counters DEF Inv, Held
  <2> QED BY <1>a, <1>1, <1>2, <2>1, <2>2, Balanced DEF Inv, kernelVars, Loop
<1>6. NeverPanics'
  BY <1>a DEF Inv, NeverPanics, Sizing, Loop
<1> QED BY <1>1, <1>2, <1>3, <1>4, <1>5, <1>6 DEF Inv

LEMMA RelayInv ==
  ASSUME Inv, Loop, Relay PROVE Inv'
<1>a. At("process") /\ program = "tunnel" /\ packets > 0
  BY DEF Relay
<1>0. CASE Panic("socket")
  BY <1>0, PanicInv
<1>b. CASE ~Panic("socket")
  <2>a. /\ packets' = packets - 1 /\ done' = done + 1
        /\ UNCHANGED <<pool, kernelVars, pc, from, copies, singles, spare,
                       tries, ended>>
    BY <1>b DEF Relay
  <2>1. RingsFit'
    BY <2>a DEF Inv, RingsFit, kernelVars
  <2>2. LoopTypes'
    <3>1. packets' \in 0..Batch /\ done' \in 0..Batch
      BY <1>a, <2>a, Counters, Sizes DEF Inv, Phase
    <3> QED BY <2>a, <3>1 DEF Inv, LoopTypes, Loop
  <2>3. Stocked'
    BY <2>a, SameStock DEF Inv, Loop, kernelVars
  <2>4. Phase'
    BY <1>a, <2>a, Counters DEF Inv, Phase, Loop, At
  <2>5. NothingLost'
    <3>1. pool \in Nat /\ pool' = pool - 0
      BY <2>a DEF Inv, RingsFit
    <3>2. Held' = Held + 0
      BY <2>a, Counters DEF Inv, Held
    <3> QED BY <2>a, <2>1, <2>2, <3>1, <3>2, Balanced
            DEF Inv, kernelVars, Loop
  <2>6. NeverPanics'
    BY <2>a DEF Inv, NeverPanics, Sizing, Loop
  <2> QED BY <2>1, <2>2, <2>3, <2>4, <2>5, <2>6 DEF Inv
<1> QED BY <1>0, <1>b

LEMMA ProcessedInv ==
  ASSUME Inv, Loop, Processed PROVE Inv'
<1>1. RingsFit'
  BY DEF Inv, RingsFit, Processed, kernelVars
<1>2. LoopTypes'
  BY DEF Inv, LoopTypes, Loop, Processed, Steps
<1>3. Stocked'
  BY SameStock DEF Inv, Loop, Processed, kernelVars
<1>4. Phase'
  BY DEF Inv, Phase, Loop, Processed, At
<1>5. NothingLost'
  BY DEF Inv, NothingLost, Stock, Held, Loop, Processed, kernelVars
<1>6. NeverPanics'
  BY DEF Inv, NeverPanics, Sizing, Loop, Processed
<1> QED BY <1>1, <1>2, <1>3, <1>4, <1>5, <1>6 DEF Inv

LEMMA ReadSocketInv ==
  ASSUME Inv, Loop, ReadSocket PROVE Inv'
<1>0. CASE Panic("socket")
  BY <1>0, PanicInv
<1>b. CASE ~Panic("socket")
  <2>a. /\ At("socket")
        /\ program = "tunnel"
        /\ \/ pc' = "single" /\ singles' = <<1>>
           \/ pc' = "receive" /\ UNCHANGED singles
        /\ UNCHANGED <<pool, kernelVars, from, packets, done, copies, spare,
                       tries, ended>>
    BY <1>b DEF ReadSocket, Inv, Phase, At
  <2>1. RingsFit'
    BY <2>a DEF Inv, RingsFit, kernelVars
  <2>2. LoopTypes'
    BY <2>a DEF Inv, LoopTypes, Loop, Steps
  <2>3. Stocked'
    BY <2>a, SameStock DEF Inv, Loop, kernelVars
  <2>4. Phase'
    BY <2>a DEF Inv, Phase, Loop, At
  <2>5. NothingLost'
    BY <2>a DEF Inv, NothingLost, Stock, Held, Loop, kernelVars
  <2>6. NeverPanics'
    BY <2>a DEF Inv, NeverPanics, Sizing, Loop
  <2> QED BY <2>1, <2>2, <2>3, <2>4, <2>5, <2>6 DEF Inv
<1> QED BY <1>0, <1>b

LEMMA AllocSingleInv ==
  ASSUME Inv, Loop, AllocSingle PROVE Inv'
<1>a. At("single") /\ spare = 0
  BY DEF AllocSingle
<1>p. pool \in Nat
  BY DEF Inv, RingsFit
<1>1. CASE pool = 0 /\ Panic("pool")
  BY <1>a, <1>1, SinglePaid, PanicInv
<1>2. CASE ~(pool = 0 /\ Panic("pool"))
  <2>1. /\ pool > 0 /\ pool' = pool - 1 /\ spare' = 1
        /\ UNCHANGED <<kernelVars, pc, from, packets, done, copies, singles,
                       tries, ended>>
    BY <1>2 DEF AllocSingle
  <2>2. RingsFit'
    BY <1>p, <2>1 DEF Inv, RingsFit, kernelVars
  <2>3. LoopTypes'
    BY <2>1 DEF Inv, LoopTypes, Loop
  <2>4. Stocked'
    BY <2>1, SameStock DEF Inv, Loop, kernelVars
  <2>5. Phase'
    BY <1>a, <2>1 DEF Inv, Phase, Loop, At
  <2>6. NothingLost'
    BY <1>a, <1>p, <2>1, <2>2, <2>3, Balanced, Counters
       DEF Inv, Held, kernelVars, Loop
  <2>7. NeverPanics'
    BY <2>1 DEF Inv, NeverPanics, Sizing, Loop
  <2> QED BY <2>2, <2>3, <2>4, <2>5, <2>6, <2>7 DEF Inv
<1> QED BY <1>1, <1>2

LEMMA SendSingleInv ==
  ASSUME Inv, Loop, SendSingle PROVE Inv'
<1> DEFINE n == Head(singles)
           r == TxSlots(n, 1)
<1>a. At("single") /\ spare = 1 /\ singles # <<>>
  BY DEF SendSingle, Inv, Phase, At
<1>n. /\ n \in Nic
      /\ Tail(singles) \in {<<>>, <<1>>, <<2>>}
  <2>1. singles \in {<<1>>, <<2>>, <<1, 2>>, <<2, 1>>}
    BY <1>a DEF Inv, LoopTypes
  <2>2. CASE singles = <<1>>
    BY <2>2 DEF Nic
  <2>5. CASE singles = <<2>>
    BY <2>5 DEF Nic
  <2>3. CASE singles = <<1, 2>>
    BY <2>3 DEF Nic
  <2>4. CASE singles = <<2, 1>>
    BY <2>4 DEF Nic
  <2> QED BY <2>1, <2>2, <2>3, <2>4, <2>5
<1>r. r \in Nat /\ tx[n] + r <= TxSize
  BY <1>n, SlotsBound DEF Inv
<1>b. /\ Submit(n, r)
      /\ pool' = pool + 1 /\ spare' = 0 /\ singles' = Tail(singles)
      /\ pc' = IF Tail(singles) # <<>> THEN "single"
               ELSE IF program = "tunnel" THEN "receive" ELSE "process"
      /\ UNCHANGED <<fq, unreleased, rx, from, packets, done, copies, tries,
                     ended>>
  BY DEF SendSingle, FreedBySingle
<1> HIDE DEF n, r
<1>p. pool \in Nat
  BY DEF Inv, RingsFit
<1>1. RingsFit'
  <2>1. tx' \in [Nic -> 0..TxSize] /\ cq' \in [Nic -> 0..CqSize]
    BY <1>n, <1>r, <1>b, SubmitFits DEF Inv
  <2>2. pool' \in Nat
    BY <1>b, <1>p
  <2> QED BY <1>b, <2>1, <2>2 DEF Inv, RingsFit
<1>2. LoopTypes'
  BY <1>n, <1>b DEF Inv, LoopTypes, Loop, Steps
<1>3. Stocked'
  BY <1>b, SameStock DEF Inv, Loop
<1>4. Phase'
  BY <1>a, <1>b DEF Inv, Phase, Loop, At
<1>5. NothingLost'
  <2>1. pool' = pool - (-1)
    BY <1>b, <1>p
  <2>2. Held' = Held + (-1)
    BY <1>a, <1>b, Counters DEF Inv, Held
  <2> QED BY <1>b, <1>1, <1>2, <2>1, <2>2, Balanced DEF Inv, Loop
<1>6. NeverPanics'
  BY <1>b DEF Inv, NeverPanics, Sizing, Loop
<1> QED BY <1>1, <1>2, <1>3, <1>4, <1>5, <1>6 DEF Inv

LEMMA SendInv ==
  ASSUME Inv, Loop, Send PROVE Inv'
<1> DEFINE n == Other(from)
           r == TxSlots(n, copies)
<1>n. n \in Nic /\ copies \in Nat /\ pool \in Nat
  BY Counters, Others DEF Inv, RingsFit
<1>r. r \in {0, copies} /\ r \in Nat /\ tx[n] + r <= TxSize
  BY <1>n, SlotsBound DEF Inv
<1>b. /\ At("send") /\ Submit(n, r)
      /\ copies' = copies - r /\ pool' = pool + r
      /\ pc' \in {"send", "drop"} /\ (pc' = "send" => tries # 2)
      /\ tries' \in {tries, tries + 1} /\ (tries' # tries => pc' = "send")
      /\ UNCHANGED <<fq, unreleased, rx, from, packets, done, singles, spare,
                     ended>>
  BY DEF Send, At
<1> HIDE DEF n, r
<1>1. RingsFit'
  BY <1>n, <1>r, <1>b, SubmitFits DEF Inv, RingsFit
<1>2. LoopTypes'
  <2>1. copies' \in 0..Batch
    BY <1>r, <1>b, <1>n, Sizes DEF Inv, LoopTypes
  <2>2. tries' \in 0..2
    BY <1>b DEF Inv, LoopTypes
  <2> QED BY <1>b, <2>1, <2>2 DEF Inv, LoopTypes, Loop, Steps
<1>3. Stocked'
  BY <1>b, SameStock DEF Inv, Loop
<1>4. Phase'
  BY <1>r, <1>b, <1>n, Counters DEF Inv, Phase, Loop, At
<1>5. NothingLost'
  <2>1. -r \in Int /\ pool' = pool - (-r)
    BY <1>b, <1>r, <1>n
  <2>2. Held' = Held + (-r)
    BY <1>b, <1>r, Counters DEF Inv, Held
  <2> QED BY <1>b, <1>1, <1>2, <2>1, <2>2, Balanced DEF Inv, Loop
<1>6. NeverPanics'
  BY <1>b DEF Inv, NeverPanics, Sizing, Loop
<1> QED BY <1>1, <1>2, <1>3, <1>4, <1>5, <1>6 DEF Inv

LEMMA DropInv ==
  ASSUME Inv, Loop, Drop PROVE Inv'
<1>a. /\ At("drop") /\ pool' = pool + (done + copies)
      /\ done' = 0 /\ copies' = 0 /\ tries' = 0
      /\ IF program = "tunnel" THEN pc' = "socket" /\ UNCHANGED from
         ELSE pc' = "receive" /\ from' = Other(from)
      /\ UNCHANGED <<kernelVars, packets, singles, spare, ended>>
  BY DEF Drop, LeftOver
<1>p. pool \in Nat /\ done \in Nat /\ copies \in Nat /\ from \in Nic
  BY Counters DEF Inv, RingsFit
<1>1. RingsFit'
  BY <1>a, <1>p DEF Inv, RingsFit, kernelVars
<1>2. LoopTypes'
  BY <1>a, <1>p, Others, Sizes DEF Inv, LoopTypes, Loop, Steps
<1>3. Stocked'
  BY <1>a, SameStock DEF Inv, Loop, kernelVars
<1>4. Phase'
  BY <1>a, Sizes DEF Inv, Phase, Loop, At
<1>5. NothingLost'
  <2>1. -(done + copies) \in Int /\ pool' = pool - (-(done + copies))
    BY <1>a, <1>p
  <2>2. Held' = Held + (-(done + copies))
    BY <1>a, Counters DEF Inv, Held
  <2> QED BY <1>a, <1>1, <1>2, <2>1, <2>2, Balanced DEF Inv, kernelVars, Loop
<1>6. NeverPanics'
  BY <1>a DEF Inv, NeverPanics, Sizing, Loop
<1> QED BY <1>1, <1>2, <1>3, <1>4, <1>5, <1>6 DEF Inv

\* The kernel moves chunks within a stock and none out of a transmit ring,
\* where the packets sent hold none.
LEMMA KernelInv ==
  ASSUME Inv, NEW n \in Nic, Kernel(n) PROVE Inv'
<1>1. UNCHANGED appVars /\ UNCHANGED <<loopVars, ended, program, chunks, pool>>
  BY DEF Kernel, KernelRx, KernelFqRelease, KernelTx, appVars
<1>2. RingsFit'
  <2>1. CASE KernelRx(n)
    BY <1>1, <2>1, Sizes DEF Inv, RingsFit, KernelRx
  <2>2. CASE KernelFqRelease(n)
    BY <1>1, <2>2, Sizes DEF Inv, RingsFit, KernelFqRelease
  <2>3. CASE KernelTx(n)
    BY <1>1, <2>3, Sizes DEF Inv, RingsFit, KernelTx
  <2> QED BY <2>1, <2>2, <2>3 DEF Kernel
<1>3. Stock(1)' = Stock(1) /\ Stock(2)' = Stock(2)
  <2>1. CASE UNCHANGED <<fq, rx>>
    BY <2>1 DEF Stock
  <2>2. CASE KernelRx(n)
    <3>1. /\ fq \in [Nic -> Nat] /\ rx \in [Nic -> 0..RxSize]
          /\ 1 \in Nic /\ 2 \in Nic
      BY DEF Inv, RingsFit, Nic
    <3>2. /\ fq' = [fq EXCEPT ![n] = @ - 1]
          /\ rx' = [rx EXCEPT ![n] = @ + 1]
      BY <2>2 DEF KernelRx
    <3>3. ASSUME NEW m \in Nic PROVE Stock(m)' = Stock(m)
      BY <3>1, <3>2, Sizes DEF Stock
    <3> QED BY <3>1, <3>3
  <2> QED BY <2>1, <2>2 DEF Kernel, KernelFqRelease, KernelTx
<1>4. Stocked'
  BY <1>1, <1>3 DEF Inv, Stocked
<1>5. LoopTypes' /\ Phase'
  BY <1>1 DEF Inv, LoopTypes, Phase, loopVars
<1>6. NothingLost'
  BY <1>1, <1>3 DEF Inv, NothingLost, Held, loopVars
<1>7. NeverPanics'
  BY <1>1 DEF Inv, NeverPanics, Sizing
<1> QED BY <1>2, <1>4, <1>5, <1>6, <1>7 DEF Inv

LEMMA StepInv == Inv /\ [Next]_vars => Inv'
<1> SUFFICES ASSUME Inv, [Next]_vars PROVE Inv'
  OBVIOUS
<1>1. CASE Loop
  <2>1. CASE ReceiveNone
    BY <1>1, <2>1, ReceiveNoneInv
  <2>2. CASE ReceiveSome
    BY <1>1, <2>2, ReceiveSomeInv
  <2>3. CASE Copy
    BY <1>1, <2>3, CopyInv
  <2>4. CASE Reject
    BY <1>1, <2>4, RejectInv
  <2>5. CASE Relay
    BY <1>1, <2>5, RelayInv
  <2>6. CASE Processed
    BY <1>1, <2>6, ProcessedInv
  <2>7. CASE ReadSocket
    BY <1>1, <2>7, ReadSocketInv
  <2>8. CASE AllocSingle
    BY <1>1, <2>8, AllocSingleInv
  <2>9. CASE SendSingle
    BY <1>1, <2>9, SendSingleInv
  <2>10. CASE Send
    BY <1>1, <2>10, SendInv
  <2>11. CASE Drop
    BY <1>1, <2>11, DropInv
  <2> QED BY <1>1, <2>1, <2>2, <2>3, <2>4, <2>5, <2>6, <2>7, <2>8, <2>9,
             <2>10, <2>11 DEF Loop
<1>2. CASE \E n \in Nic : Kernel(n)
  BY <1>2, KernelInv
<1>3. CASE UNCHANGED vars
  <2>1. /\ UNCHANGED <<pool, fq, unreleased, rx, tx, cq>>
        /\ UNCHANGED <<program, chunks, pc, from, packets, done, copies,
                       singles, spare, tries, ended>>
    BY <1>3 DEF vars, kernelVars, appVars, loopVars
  <2>2. RingsFit' /\ Stocked'
    BY <2>1 DEF Inv, RingsFit, Stocked, Stock
  <2>3. LoopTypes' /\ Phase'
    BY <2>1 DEF Inv, LoopTypes, Phase
  <2>4. NothingLost' /\ NeverPanics'
    BY <2>1 DEF Inv, NothingLost, Held, Stock, NeverPanics, Sizing
  <2> QED BY <2>2, <2>3, <2>4 DEF Inv
<1> QED BY <1>1, <1>2, <1>3 DEF Next

LEMMA Invariant == Spec => []Inv
BY InitInv, StepInv, PTL DEF Spec

-----------------------------------------------------------------------------
(* The theorems                                                            *)

\* Whatever the sizes, no ring of the loops of filter, change_word and tunnel
\* overflows and every variable keeps its type.
THEOREM TypeCorrect == Spec => []TypeOK
<1>1. Inv => TypeOK
  <2> SUFFICES ASSUME Inv PROVE TypeOK
    OBVIOUS
  <2>1. {packets, done, copies} \subseteq 0..Batch
    BY DEF Inv, LoopTypes
  <2> QED BY <2>1 DEF Inv, LoopTypes, TypeOK
<1> QED BY <1>1, Invariant, PTL

\* No way through a round of these loops loses a chunk, for every number of
\* chunks, ring size and batch size.
THEOREM ChunksKept == Spec => []NothingLost
<1>1. Inv => NothingLost
  BY DEF Inv
<1> QED BY <1>1, Invariant, PTL

\* With two fill rings and two batches of chunks (one of each in the tunnel)
\* the unwraps of alloc_packet and the refill in recv never panic.
THEOREM SizedForCopies == Spec => []NeverPanics
<1>1. Inv => NeverPanics
  BY DEF Inv
<1> QED BY <1>1, Invariant, PTL
=============================================================================
