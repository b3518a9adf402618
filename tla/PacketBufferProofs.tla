------------------------- MODULE PacketBufferProofs -------------------------
(***************************************************************************)
(* Proofs about PacketBuffer: the payload never leaves its buffer, no call *)
(* writes into another chunk, and the Packet is the string of bytes that   *)
(* Payload specifies, for every chunk size, headroom and UMEM.             *)
(***************************************************************************)
EXTENDS PacketBuffer, TLAPS

USE BufferAssumption

\* A chunk lies inside the UMEM (BufferPool::new's i * chunk_size).
LEMMA ChunkFits ==
  ASSUME NEW c \in ChunkAddr
  PROVE  c \in Nat /\ c + Size <= UmemSize
<1>1. PICK i \in 0..(ChunkCount - 1) : c = i * Size
  BY DEF ChunkAddr
<1>2. i * Size \in Nat /\ (i + 1) * Size = i * Size + Size
  BY <1>1
<1>3. (i + 1) * Size <= ChunkCount * Size
  <2>1. PICK d \in Nat : ChunkCount = (i + 1) + d
    <3>1. ChunkCount - (i + 1) \in Nat
      BY <1>1
    <3> QED BY <3>1
  <2>2. ChunkCount * Size = (i + 1) * Size + d * Size /\ d * Size \in Nat
    BY <2>1
  <2> QED BY <2>2, <1>2
<1> QED BY <1>1, <1>2, <1>3 DEF UmemSize

\* The UMEM is not empty and its size is a number.
LEMMA UmemNat == UmemSize \in Nat
BY DEF UmemSize

\* Writing a string of bytes leaves an array of bytes.
LEMMA WrittenType ==
  ASSUME mem \in [Addr -> Byte], NEW a \in Int, NEW n \in Int,
         NEW d \in Bytes(n)
  PROVE  Written(a, d) \in [Addr -> Byte]
BY DEF Written, Bytes

\* A slice inside the UMEM is a string of bytes.
LEMMA SliceType ==
  ASSUME mem \in [Addr -> Byte], NEW a \in Nat, NEW n \in Nat,
         a + n <= UmemSize
  PROVE  Slice(a, n) \in Bytes(n)
BY UmemNat DEF Slice, Bytes, Addr

\* The inductive invariant, in two parts: the Packet lies in its buffer, and
\* the history variables have their types.
StateOK ==
  /\ mem \in [Addr -> Byte]
  /\ live \in BOOLEAN /\ alive \in BOOLEAN
  /\ private \in ChunkAddr
  /\ start \in Nat /\ end \in Nat
  /\ InBuffer

HistoryOK ==
  /\ \E n \in 0..Size : wire \in Bytes(n)
  /\ reads \subseteq Nat
  /\ call[1] \in {"none", "alloc", "receive", "replace_data", "resize",
                  "get_buffer_mut", "send", "drop", "dump", "crash"}

Inv == StateOK /\ HistoryOK

-----------------------------------------------------------------------------
(* Every step keeps the invariant                                          *)

\* The initial states satisfy the invariant.
LEMMA InitInv == Init => Inv
<1> SUFFICES ASSUME Init PROVE Inv
  OBVIOUS
<1>1. HistoryOK
  BY DEF Init, HistoryOK
<1>2. mem \in [Addr -> Byte] /\ private \in ChunkAddr
  BY DEF Init
<1>3. start = Headroom /\ end = Headroom /\ live = FALSE /\ alive = TRUE
  BY DEF Init
<1>4. start \in Nat /\ end \in Nat /\ InBuffer
  BY <1>3 DEF InBuffer
<1> QED BY <1>1, <1>2, <1>3, <1>4 DEF Inv, StateOK

\* A call that sends and reads nothing leaves history well typed.
LEMMA SilentHistory ==
  ASSUME NEW arg,
         NEW name \in {"alloc", "receive", "replace_data", "resize",
                       "get_buffer_mut", "drop"},
         Silent(name, arg)
  PROVE  HistoryOK'
BY DEF Silent, Called, HistoryOK

\* Every step leaves the history variables well typed.
LEMMA StepHistory == Inv /\ [Next]_vars => HistoryOK'
<1> SUFFICES ASSUME StateOK, HistoryOK, [Next]_vars PROVE HistoryOK'
  BY DEF Inv
<1>t. /\ mem \in [Addr -> Byte] /\ private \in ChunkAddr
      /\ start \in Nat /\ end \in Nat /\ start <= end /\ end <= Size
  BY DEF StateOK, InBuffer
<1>c. private \in Nat /\ private + Size <= UmemSize
  BY <1>t, ChunkFits
<1>1. ASSUME NEW c \in ChunkAddr, Alloc(c) PROVE HistoryOK'
  <2>1. Silent("alloc", c)
    BY <1>1 DEF Alloc
  <2> QED BY <2>1, SilentHistory
<1>2. ASSUME NEW c \in ChunkAddr, NEW len \in 0..(Size - Headroom),
             NEW frame \in Bytes(len), Receive(c, len, frame)
      PROVE  HistoryOK'
  <2>1. Silent("receive", frame)
    BY <1>2 DEF Receive
  <2> QED BY <2>1, SilentHistory
<1>3. ASSUME NEW n \in 0..(Size + 1), ResizeInPlace(n) PROVE HistoryOK'
  <2>1. Silent("resize", n)
    BY <1>3 DEF ResizeInPlace
  <2> QED BY <2>1, SilentHistory
<1>4. ASSUME NEW n \in 0..(Size + 1), ResizeMove(n) PROVE HistoryOK'
  <2>1. start..(start + end - 1) \subseteq Nat
    BY <1>t
  <2>2. Called("resize", n) \/ Called("crash", n)
    BY <1>4 DEF ResizeMove
  <2>3. reads' \subseteq Nat
    BY <1>4, <2>1 DEF ResizeMove
  <2> QED BY <2>2, <2>3 DEF Called, HistoryOK
<1>5. ASSUME NEW len \in 0..(Size + 1), NEW d \in Bytes(len),
             ReplaceData(len, d)
      PROVE  HistoryOK'
  <2>1. Silent("replace_data", d)
    BY <1>5 DEF ReplaceData
  <2> QED BY <2>1, SilentHistory
<1>6. ASSUME NEW i \in 0..(Size - 1), NEW b \in Byte, Write(i, b)
      PROVE  HistoryOK'
  <2>1. Silent("get_buffer_mut", <<i, b>>)
    BY <1>6 DEF Write
  <2> QED BY <2>1, SilentHistory
<1>7. ASSUME Dump PROVE HistoryOK'
  <2>1. start..(end - 1) \subseteq Nat
        /\ start..(UmemSize - private - 1) \subseteq Nat
    BY <1>t, <1>c, UmemNat
  <2> QED BY <1>7, <2>1 DEF Dump, Called, HistoryOK
<1>8. ASSUME Send PROVE HistoryOK'
  <2>1. /\ DescAddr \in Nat /\ DescLen \in 0..Size
        /\ DescAddr + DescLen <= UmemSize
    BY <1>t, <1>c, UmemNat DEF DescAddr, DescLen
  <2>2. wire' \in Bytes(DescLen)
    BY <1>8, <2>1, <1>t, SliceType DEF Send
  <2> QED BY <1>8, <2>1, <2>2 DEF Send, HistoryOK
<1>9. ASSUME Drop PROVE HistoryOK'
  <2>1. Silent("drop", 0)
    BY <1>9 DEF Drop
  <2> QED BY <2>1, SilentHistory
<1>10. CASE UNCHANGED vars
  BY <1>10 DEF vars, HistoryOK
<1> QED
  BY <1>1, <1>2, <1>3, <1>4, <1>5, <1>6, <1>7, <1>8, <1>9, <1>10
     DEF Next, Resize

\* The offset arithmetic of every step keeps the payload in the buffer.
LEMMA StepState == Inv /\ [Next]_vars => StateOK'
<1> SUFFICES ASSUME StateOK, [Next]_vars PROVE StateOK'
  BY DEF Inv
<1>t. /\ mem \in [Addr -> Byte] /\ private \in ChunkAddr
      /\ start \in Nat /\ end \in Nat /\ start <= end /\ end <= Size
  BY DEF StateOK, InBuffer
<1>c. private \in Nat /\ private + Size <= UmemSize
  BY <1>t, ChunkFits
<1>1. ASSUME NEW c \in ChunkAddr, Alloc(c) PROVE StateOK'
  BY <1>1 DEF Alloc, Silent, StateOK, InBuffer
<1>2. ASSUME NEW c \in ChunkAddr, NEW len \in 0..(Size - Headroom),
             NEW frame \in Bytes(len), Receive(c, len, frame)
      PROVE  StateOK'
  <2>1. c \in Nat /\ RxAddr(c) \in Nat /\ RxPrivate(RxAddr(c)) = c
    BY ChunkFits DEF RxAddr, RxPrivate
  <2>2. mem' \in [Addr -> Byte]
    BY <1>2, <2>1, <1>t, WrittenType DEF Receive
  <2> QED BY <1>2, <2>1, <2>2 DEF Receive, Silent, StateOK, InBuffer
<1>3. ASSUME NEW n \in 0..(Size + 1), ResizeInPlace(n) PROVE StateOK'
  BY <1>3 DEF ResizeInPlace, NeedsMove, Silent, StateOK, InBuffer
<1>4. ASSUME NEW n \in 0..(Size + 1), ResizeMove(n) PROVE StateOK'
  <2>1. CASE alive' = FALSE /\ UNCHANGED <<mem, start, end>>
    BY <1>4, <2>1 DEF ResizeMove, StateOK, InBuffer
  <2>2. CASE \E junk \in Byte :
               /\ mem' = Written(private,
                           [i \in 0..(end - 1) |-> IF MovedFrom + i \in Addr
                                                   THEN mem[MovedFrom + i]
                                                   ELSE junk])
               /\ start' = 0 /\ end' = n /\ UNCHANGED alive
    <3>1. PICK junk \in Byte :
               mem' = Written(private,
                        [i \in 0..(end - 1) |-> IF MovedFrom + i \in Addr
                                                THEN mem[MovedFrom + i]
                                                ELSE junk])
      BY <2>2
    <3>2. [i \in 0..(end - 1) |-> IF MovedFrom + i \in Addr
                                  THEN mem[MovedFrom + i] ELSE junk]
            \in Bytes(end)
      BY <1>t DEF Bytes
    <3>3. mem' \in [Addr -> Byte]
      BY <3>1, <3>2, <1>t, <1>c, WrittenType
    <3> QED BY <3>3, <1>4, <2>2 DEF ResizeMove, StateOK, InBuffer
  <2> QED BY <1>4, <2>1, <2>2 DEF ResizeMove
<1>5. ASSUME NEW len \in 0..(Size + 1), NEW d \in Bytes(len),
             ReplaceData(len, d)
      PROVE  StateOK'
  <2>1. mem' \in [Addr -> Byte]
    BY <1>5, <1>t, <1>c, WrittenType DEF ReplaceData
  <2> QED
    BY <1>5, <2>1 DEF ReplaceData, Fits, Silent, StateOK, InBuffer
<1>6. ASSUME NEW i \in 0..(Size - 1), NEW b \in Byte, Write(i, b)
      PROVE  StateOK'
  BY <1>6 DEF Write, Silent, StateOK, InBuffer
<1>7. ASSUME Dump PROVE StateOK'
  BY <1>7 DEF Dump, StateOK, InBuffer
<1>8. ASSUME Send PROVE StateOK'
  BY <1>8 DEF Send, StateOK, InBuffer
<1>9. ASSUME Drop PROVE StateOK'
  BY <1>9 DEF Drop, Silent, StateOK, InBuffer
<1>10. CASE UNCHANGED vars
  BY <1>10 DEF vars, StateOK, InBuffer
<1> QED
  BY <1>1, <1>2, <1>3, <1>4, <1>5, <1>6, <1>7, <1>8, <1>9, <1>10
     DEF Next, Resize

\* The invariant holds in every reachable state.
THEOREM BufferInvariance == Spec => []Inv
<1>1. Inv /\ [Next]_vars => Inv'
  BY StepState, StepHistory DEF Inv
<1> QED BY <1>1, InitInv, PTL DEF Spec

\* Every reachable state has its type.
THEOREM BufferTypes == Spec => []TypeOK
<1>1. Inv => TypeOK
  BY DEF Inv, StateOK, HistoryOK, TypeOK
<1> QED BY <1>1, BufferInvariance, PTL

\* However replace_data and resize are mixed, the payload lies in the buffer.
THEOREM PayloadInBuffer == Spec => []InBuffer
<1>1. Inv => InBuffer
  BY DEF Inv, StateOK
<1> QED BY <1>1, BufferInvariance, PTL

-----------------------------------------------------------------------------
(* No call writes into a neighbouring chunk                                *)

\* A written string that starts and ends inside the chunk at c leaves the
\* rest of the UMEM alone.
LEMMA WrittenInside ==
  ASSUME NEW c \in Nat, NEW a \in Nat, NEW n \in Nat, c <= a, a + n <= c + Size,
         NEW d \in Bytes(n), NEW b \in Addr, b \notin c..(c + Size - 1)
  PROVE  Written(a, d)[b] = mem[b]
BY UmemNat DEF Written, Bytes, Addr

\* From a state that satisfies the invariant no step changes a byte outside
\* the chunk of the Packet.
LEMMA StepOwn ==
  Inv /\ [Next]_vars => \A a \in Addr : ~Own(a) => mem'[a] = mem[a]
<1> SUFFICES ASSUME Inv, [Next]_vars, NEW a \in Addr, ~Own(a)
             PROVE  mem'[a] = mem[a]
  OBVIOUS
<1>t. /\ mem \in [Addr -> Byte] /\ private \in ChunkAddr
      /\ start \in Nat /\ end \in Nat /\ start <= end /\ end <= Size
  BY DEF Inv, StateOK, InBuffer
<1>c. private \in Nat /\ private + Size <= UmemSize
  BY <1>t, ChunkFits
<1>1. CASE UNCHANGED mem
  BY <1>1
<1>2. CASE \E c \in ChunkAddr, len \in 0..(Size - Headroom) :
             \E frame \in Bytes(len) : Receive(c, len, frame)
  <2>1. PICK c \in ChunkAddr, len \in 0..(Size - Headroom) :
               \E frame \in Bytes(len) : Receive(c, len, frame)
    BY <1>2
  <2>2. PICK frame \in Bytes(len) : Receive(c, len, frame)
    BY <2>1
  <2>3. c \in Nat /\ RxAddr(c) = c + Headroom /\ private' = c
    BY <2>2, ChunkFits DEF RxAddr, RxPrivate, Receive
  <2>4. a \notin c..(c + Size - 1)
    BY <2>3 DEF Own
  <2>5. /\ RxAddr(c) \in Nat /\ len \in Nat
        /\ c <= RxAddr(c) /\ RxAddr(c) + len <= c + Size
    BY <2>3
  <2>6. mem' = Written(RxAddr(c), frame)
    BY <2>2 DEF Receive
  <2>7. Written(RxAddr(c), frame)[a] = mem[a]
    <3>1. PICK r \in Nat : r = RxAddr(c)
      BY <2>5
    <3>2. c \in Nat /\ len \in Nat /\ c <= r /\ r + len <= c + Size
      BY <2>3, <2>5, <3>1
    <3>3. Written(r, frame)[a] = mem[a]
      BY <3>2, <2>4, WrittenInside
    <3> QED BY <3>1, <3>3
  <2> QED BY <2>6, <2>7
<1>3. CASE \E len \in 0..(Size + 1) : \E d \in Bytes(len) : ReplaceData(len, d)
  <2>1. PICK len \in 0..(Size + 1) : \E d \in Bytes(len) : ReplaceData(len, d)
    BY <1>3
  <2>2. PICK d \in Bytes(len) : ReplaceData(len, d)
    BY <2>1
  <2>3. a \notin private..(private + Size - 1)
    BY <2>2, <1>c DEF ReplaceData, Own
  <2> QED BY <2>2, <2>3, <1>c, WrittenInside DEF ReplaceData, Fits
<1>4. CASE \E n \in 0..(Size + 1) : ResizeMove(n)
  <2>1. PICK n \in 0..(Size + 1) : ResizeMove(n)
    BY <1>4
  <2>2. a \notin private..(private + Size - 1)
    BY <2>1, <1>c DEF ResizeMove, Own
  <2>3. CASE UNCHANGED mem
    BY <2>3
  <2>4. CASE \E junk \in Byte :
               mem' = Written(private,
                        [i \in 0..(end - 1) |-> IF MovedFrom + i \in Addr
                                                THEN mem[MovedFrom + i]
                                                ELSE junk])
    <3>1. PICK junk \in Byte :
               mem' = Written(private,
                        [i \in 0..(end - 1) |-> IF MovedFrom + i \in Addr
                                                THEN mem[MovedFrom + i]
                                                ELSE junk])
      BY <2>4
    <3> DEFINE d == [i \in 0..(end - 1) |-> IF MovedFrom + i \in Addr
                                            THEN mem[MovedFrom + i] ELSE junk]
    <3>2. d \in Bytes(end)
      BY <1>t DEF Bytes
    <3>3. mem' = Written(private, d)
      BY <3>1
    <3> HIDE DEF d
    <3> QED BY <3>2, <3>3, <2>2, <1>t, <1>c, WrittenInside
  <2> QED BY <2>1, <2>3, <2>4 DEF ResizeMove
<1>5. CASE \E i \in 0..(Size - 1), b \in Byte : Write(i, b)
  BY <1>5, <1>t, <1>c DEF Write, SliceStart, Own
<1> QED
  BY <1>1, <1>2, <1>3, <1>4, <1>5
     DEF Next, Resize, ResizeInPlace, Alloc, Dump, Send, Drop, vars

\* No call on a Packet ever writes into a chunk other than its own.
THEOREM NeighboursSafe == Spec => NeighboursUntouched
<1>1. Inv /\ [Next]_vars => [\A a \in Addr : ~Own(a) => mem'[a] = mem[a]]_vars
  BY StepOwn
<1> QED BY <1>1, BufferInvariance, PTL DEF Spec, NeighboursUntouched

-----------------------------------------------------------------------------
(* A Packet is the string of bytes that Payload specifies                  *)

\* The string is where the offsets say and as long as they say.
PayloadOK == payload \in Bytes(IF live THEN end - start ELSE 0)

\* The payload always has the length that start and end give it.
LEMMA PayloadType == Inv => PayloadOK
<1> SUFFICES ASSUME Inv PROVE PayloadOK
  OBVIOUS
<1>1. /\ mem \in [Addr -> Byte] /\ private \in ChunkAddr
      /\ start \in Nat /\ end \in Nat /\ start <= end /\ end <= Size
  BY DEF Inv, StateOK, InBuffer
<1>2. private \in Nat /\ private + Size <= UmemSize
  BY <1>1, ChunkFits
<1>3. Slice(0, 0) \in Bytes(0)
  BY <1>1, UmemNat, SliceType
<1>4. Payload \in Bytes(end - start)
  <2>1. /\ private + start \in Nat /\ end - start \in Nat
        /\ (private + start) + (end - start) <= UmemSize
    BY <1>1, <1>2, UmemNat
  <2> QED BY <2>1, <1>1, SliceType DEF Payload
<1> QED BY <1>3, <1>4 DEF PayloadOK, payload

\* What was written can be read back.
LEMMA WrittenAt ==
  ASSUME NEW a \in Nat, NEW n \in Nat, a + n <= UmemSize,
         NEW d \in Bytes(n), NEW i \in 0..(n - 1)
  PROVE  Written(a, d)[a + i] = d[i]
BY UmemNat DEF Written, Bytes, Addr

\* The initial states are initial states of Payload.
LEMMA AbstractInit == Init => Abstract!Init
<1> SUFFICES ASSUME Init PROVE Abstract!Init
  OBVIOUS
<1>1. PayloadOK /\ live = FALSE
  BY InitInv, PayloadType DEF Init
<1> QED BY <1>1 DEF PayloadOK, Abstract!Init, Bytes, Abstract!Bytes

\* Every step is a step of Payload or leaves what Payload shows unchanged.
LEMMA AbstractStep ==
  Inv /\ Inv' /\ [Next]_vars
    => [Abstract!Next]_<<live, payload, wire, call>>
<1> SUFFICES ASSUME Inv, Inv', [Next]_vars
             PROVE  Abstract!Next \/ UNCHANGED <<live, payload, wire, call>>
  OBVIOUS
<1>t. /\ mem \in [Addr -> Byte] /\ private \in ChunkAddr
      /\ start \in Nat /\ end \in Nat /\ start <= end /\ end <= Size
      /\ live \in BOOLEAN
  BY DEF Inv, StateOK, InBuffer
<1>c. private \in Nat /\ private + Size <= UmemSize
  BY <1>t, ChunkFits
<1>p. PayloadOK
  BY PayloadType
<1>q. payload' \in Bytes(IF live' THEN end' - start' ELSE 0)
  <2>1. Inv' => PayloadOK'
    BY PayloadType, PTL
  <2> QED BY <2>1 DEF PayloadOK, Bytes
<1>d. live => payload = [i \in 0..(end - start - 1) |-> mem[private + start + i]]
  BY DEF payload, Payload, Slice
<1>e. live' => payload' = [i \in 0..(end' - start' - 1) |->
                             mem'[private' + start' + i]]
  BY DEF payload, Payload, Slice
<1>1. ASSUME NEW c \in ChunkAddr, Alloc(c) PROVE Abstract!Alloc
  BY <1>1, <1>q DEF Alloc, Silent, Called, Abstract!Alloc, Bytes, Abstract!Bytes
<1>2. ASSUME NEW c \in ChunkAddr, NEW len \in 0..(Size - Headroom),
             NEW frame \in Bytes(len), Receive(c, len, frame)
      PROVE  Abstract!Receive
  <2>1. /\ c \in Nat /\ c + Size <= UmemSize /\ RxAddr(c) = c + Headroom
        /\ private' = c /\ start' = Headroom /\ end' = Headroom + len
    BY <1>2, ChunkFits DEF Receive, RxAddr, RxPrivate
  <2>2. \A i \in 0..(len - 1) : mem'[c + Headroom + i] = frame[i]
    <3> SUFFICES ASSUME NEW i \in 0..(len - 1)
                 PROVE  mem'[c + Headroom + i] = frame[i]
      OBVIOUS
    <3>1. RxAddr(c) \in Nat /\ len \in Nat /\ RxAddr(c) + len <= UmemSize
      BY <2>1, UmemNat
    <3>2. Written(RxAddr(c), frame)[RxAddr(c) + i] = frame[i]
      BY <3>1, WrittenAt
    <3> QED BY <3>2, <2>1, <1>2 DEF Receive
  <2>3. payload' = [i \in 0..(len - 1) |-> mem'[c + Headroom + i]]
    BY <2>1, <1>e, <1>2 DEF Receive
  <2>4. payload' = frame
    BY <2>2, <2>3 DEF Bytes
  <2> QED BY <2>4, <1>2 DEF Receive, Silent, Called, Abstract!Receive
<1>3. ASSUME NEW n \in 0..(Size + 1), ResizeInPlace(n) PROVE Abstract!Resize
  <2>1. call' = <<"resize", n>> /\ live /\ live'
    BY <1>3 DEF ResizeInPlace, Silent, Called
  <2>2. CASE n <= Size
    <3>1. mem' = mem /\ private' = private /\ start' = start /\ end' = start + n
      BY <1>3, <2>2 DEF ResizeInPlace
    <3>2. payload' \in Bytes(n)
      BY <3>1, <2>1, <1>q, <1>t
    <3>3. \A i \in DOMAIN payload \cap DOMAIN payload' :
            payload'[i] = payload[i]
      BY <3>1, <2>1, <1>d, <1>e
    <3> QED BY <2>1, <2>2, <3>2, <3>3
            DEF Abstract!Resize, Bytes, Abstract!Bytes
  <2>3. CASE ~(n <= Size)
    <3>1. payload' = payload
      BY <1>3, <2>1, <2>3, <1>d, <1>e DEF ResizeInPlace
    <3> QED BY <2>1, <2>3, <3>1 DEF Abstract!Resize
  <2> QED BY <2>2, <2>3
<1>4. ASSUME NEW n \in 0..(Size + 1), ResizeMove(n)
      PROVE  Abstract!Resize \/ Abstract!Look
  <2>1. CASE /\ Called("crash", n) /\ UNCHANGED <<mem, start, end>>
    <3>1. UNCHANGED <<live, payload>>
      BY <1>4, <2>1, <1>d, <1>e DEF ResizeMove
    <3> QED BY <3>1, <2>1 DEF Called, Abstract!Look
  <2>2. ASSUME NEW junk \in Byte,
               mem' = Written(private,
                        [i \in 0..(end - 1) |-> IF MovedFrom + i \in Addr
                                                THEN mem[MovedFrom + i]
                                                ELSE junk]),
               start' = 0, end' = n, Called("resize", n)
        PROVE  Abstract!Resize
    <3> DEFINE d == [i \in 0..(end - 1) |-> IF MovedFrom + i \in Addr
                                            THEN mem[MovedFrom + i] ELSE junk]
    <3>1. d \in Bytes(end) /\ mem' = Written(private, d)
      BY <2>2, <1>t DEF Bytes
    <3>2. \A i \in 0..(end - start - 1) : d[i] = mem[private + start + i]
      BY <1>t, <1>c, UmemNat DEF MovedFrom, Addr
    <3> HIDE DEF d
    <3>3. \A i \in 0..(end - 1) : mem'[private + i] = d[i]
      <4>1. private + end <= UmemSize
        BY <1>t, <1>c, UmemNat
      <4>2. \A i \in 0..(end - 1) : Written(private, d)[private + i] = d[i]
        BY <3>1, <4>1, <1>t, <1>c, WrittenAt
      <4> QED BY <3>1, <4>2
    <3>4. live /\ live' /\ private' = private /\ n <= Size /\ call' = <<"resize", n>>
      BY <1>4, <2>2 DEF ResizeMove, Called
    <3>5. payload' = [i \in 0..(n - 1) |-> mem'[private + i]]
      BY <3>4, <2>2, <1>e, <1>c
    <3>6. payload' \in Bytes(n)
      BY <3>4, <2>2, <1>q
    <3>7. \A i \in DOMAIN payload \cap DOMAIN payload' :
            payload'[i] = payload[i]
      BY <3>2, <3>3, <3>4, <3>5, <1>d, <1>t
    <3> QED BY <3>4, <3>6, <3>7 DEF Abstract!Resize, Bytes, Abstract!Bytes
  <2> QED BY <1>4, <2>1, <2>2 DEF ResizeMove
<1>5. ASSUME NEW len \in 0..(Size + 1), NEW d \in Bytes(len),
             ReplaceData(len, d)
      PROVE  Abstract!Replace
  <2>1. live /\ live' /\ private' = private /\ call' = <<"replace_data", d>>
    BY <1>5 DEF ReplaceData, Silent, Called
  <2>2. CASE len <= Size
    <3>1. mem' = Written(private, d) /\ start' = 0 /\ end' = len
      BY <1>5, <2>2 DEF ReplaceData, Fits
    <3>2. \A i \in 0..(len - 1) : mem'[private + i] = d[i]
      <4>1. private + len <= UmemSize
        BY <2>2, <1>c, UmemNat
      <4>2. \A i \in 0..(len - 1) : Written(private, d)[private + i] = d[i]
        BY <4>1, <1>c, WrittenAt
      <4> QED BY <3>1, <4>2
    <3>3. payload' = [i \in 0..(len - 1) |-> mem'[private + i]]
      BY <3>1, <2>1, <1>e, <1>c
    <3>4. payload' = d
      BY <3>2, <3>3 DEF Bytes
    <3>5. \E n \in 0..Size : d \in Abstract!Bytes(n)
      BY <2>2 DEF Bytes, Abstract!Bytes
    <3> QED BY <2>1, <3>4, <3>5 DEF Abstract!Replace
  <2>3. CASE ~(len <= Size)
    <3>1. payload' = payload
      BY <1>5, <2>1, <2>3, <1>d, <1>e DEF ReplaceData, Fits
    <3>2. ~ \E n \in 0..Size : d \in Abstract!Bytes(n)
      <4> SUFFICES ASSUME NEW n \in 0..Size, d \in Abstract!Bytes(n)
                   PROVE  FALSE
        OBVIOUS
      <4>1. DOMAIN d = 0..(n - 1) /\ DOMAIN d = 0..(len - 1)
        BY DEF Bytes, Abstract!Bytes
      <4>2. n \in 0..(len - 1) /\ n \notin 0..(n - 1)
        BY <2>3
      <4> QED BY <4>1, <4>2
    <3> QED BY <2>1, <3>1, <3>2 DEF Abstract!Replace
  <2> QED BY <2>2, <2>3
<1>6. ASSUME NEW i \in 0..(Size - 1), NEW b \in Byte, Write(i, b)
      PROVE  Abstract!Edit
  <2>1. /\ live /\ live' /\ i \in 0..(end - start - 1)
        /\ UNCHANGED <<private, start, end>>
        /\ call' = <<"get_buffer_mut", <<i, b>>>>
        /\ mem' = [mem EXCEPT ![private + start + i] = b]
    BY <1>6 DEF Write, Silent, Called, SliceStart
  <2>2. /\ payload' = [j \in 0..(end - start - 1) |-> mem'[private + start + j]]
        /\ payload = [j \in 0..(end - start - 1) |-> mem[private + start + j]]
    BY <2>1, <1>d, <1>e
  <2>3. \A j \in 0..(end - start - 1) :
          mem'[private + start + j] =
            IF j = i THEN b ELSE mem[private + start + j]
    BY <2>1, <1>t, <1>c, UmemNat DEF Addr
  <2>4. payload' = [payload EXCEPT ![i] = b]
    BY <2>1, <2>2, <2>3
  <2>5. i \in DOMAIN payload
    BY <2>1, <2>2
  <2> QED BY <2>1, <2>4, <2>5 DEF Abstract!Edit
<1>7. ASSUME Dump PROVE Abstract!Look
  <2>1. UNCHANGED <<live, payload>>
    BY <1>7, <1>d, <1>e DEF Dump
  <2> QED BY <2>1, <1>7 DEF Dump, Called, Abstract!Look
<1>8. ASSUME Send PROVE Abstract!Send
  <2>1. /\ live /\ ~live' /\ call' = <<"send", 0>>
        /\ wire' = [i \in 0..(end - start - 1) |-> mem[private + start + i]]
    BY <1>8 DEF Send, Slice, DescAddr, DescLen
  <2>2. wire' = payload
    BY <2>1, <1>d
  <2> QED BY <2>1, <2>2, <1>q DEF Abstract!Send, Bytes, Abstract!Bytes
<1>9. ASSUME Drop PROVE Abstract!Drop
  BY <1>9, <1>q DEF Drop, Silent, Called, Abstract!Drop, Bytes, Abstract!Bytes
<1>10. CASE UNCHANGED vars
  BY <1>10 DEF vars, payload, Payload, Slice
<1> QED
  BY <1>1, <1>2, <1>3, <1>4, <1>5, <1>6, <1>7, <1>8, <1>9, <1>10
     DEF Next, Resize, Abstract!Next

\* For the user, a Packet is a string of bytes: replace_data sets it, resize
\* keeps its prefix, and send transmits exactly this string.
THEOREM ImplementsPayload == Spec => PayloadSpec
<1>1. Inv /\ Inv' /\ [Next]_vars
        => [Abstract!Next]_<<live, payload, wire, call>>
  BY AbstractStep
<1> QED
  BY <1>1, AbstractInit, BufferInvariance, PTL DEF Spec, PayloadSpec, Abstract!Spec

=============================================================================
