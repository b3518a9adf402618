------------------------- MODULE NicLifecycleProofs -------------------------
(***************************************************************************)
(* What the reference count is worth.  For a program that opens and closes *)
(* Nics from one thread, each failed Nic::new leaves the count one too low *)
(* (CountIsOwed).  As long as none has failed, no UMEM is replaced under a *)
(* Nic (UmemIsRight); and if the program drops its Packets before it opens *)
(* a first Nic again, every chunk has one owner (ChunksAreOwned).  Types   *)
(* hold for any program.                                                   *)
(***************************************************************************)
EXTENDS NicLifecycle, FiniteSetTheorems, TLAPS

NicRecord ==
  [umem : 0..MaxUmem, fill : SUBSET Chunk, by : Thread \cup {NoThread}]
PacketRecord ==
  [chunk : Chunk, data : 0..MaxUmem, buffer : 0..MaxUmem, by : Thread]
CallRecord ==
  [at : Steps, iface : Iface \cup {"none"}, sock : 0..MaxUmem,
   ring : 0..MaxUmem, seen : 0..UsizeMax, delta : {-1, 0, 1}]

\* Constants that a bound below is made of.
LEMMA Numbers ==
  /\ UsizeMax \in Nat /\ UsizeMax > 0 /\ MaxUmem \in Nat
  /\ MaxFailed \in 0..UsizeMax
  /\ IsFiniteSet(Iface) /\ IsFiniteSet(Chunk)
BY LifeAssumption

\* An integer near the range of the count, wrapped.
LEMMA WrapNear ==
  ASSUME NEW d \in (0 - UsizeMax - 1)..(UsizeMax + 1)
  PROVE  Wrap(d) = IF d < 0 THEN d + UsizeMax + 1
                   ELSE IF d = UsizeMax + 1 THEN 0 ELSE d
<1>0. UsizeMax \in Nat /\ d \in Int
  BY Numbers
<1>1. CASE d < 0
  BY <1>0, <1>1 DEF Wrap
<1>2. CASE d = UsizeMax + 1
  BY <1>0, <1>2 DEF Wrap
<1>3. CASE 0 <= d /\ d <= UsizeMax
  BY <1>0, <1>3 DEF Wrap
<1> QED BY <1>0, <1>1, <1>2, <1>3

\* Any integer, wrapped, is a count.
LEMMA WrapType == ASSUME NEW d \in Int PROVE Wrap(d) \in 0..UsizeMax
BY Numbers DEF Wrap

-----------------------------------------------------------------------------
(* Types                                                                   *)

\* The updates of two or three fields keep the type of `call`.
LEMMA CallUpdates ==
  ASSUME TypeOK, NEW t \in Thread, NEW a \in Steps
  PROVE  /\ \A b \in Iface \cup {"none"}, c \in CallRecord :
              [c EXCEPT !.at = a, !.iface = b] \in CallRecord
         /\ \A d \in {-1, 0, 1}, c \in CallRecord :
              [c EXCEPT !.at = a, !.delta = d] \in CallRecord
         /\ \A d \in {-1, 0, 1} :
              [call EXCEPT ![t].at = a, ![t].delta = d] \in [Thread -> CallRecord]
         /\ \A e \in 0..UsizeMax :
              [call EXCEPT ![t].at = a, ![t].seen = e] \in [Thread -> CallRecord]
         /\ \A x \in 0..MaxUmem :
              [call EXCEPT ![t].at = a, ![t].sock = x] \in [Thread -> CallRecord]
         /\ \A x \in 0..MaxUmem :
              [call EXCEPT ![t].at = a, ![t].ring = x] \in [Thread -> CallRecord]
         /\ \A x \in 0..MaxUmem, y \in 0..MaxUmem :
              [call EXCEPT ![t].at = a, ![t].sock = x, ![t].ring = y]
                \in [Thread -> CallRecord]
<1> DEFINE B == Iface \cup {"none"}
           C == 0..MaxUmem
           E == 0..UsizeMax
           F == {-1, 0, 1}
<1>1. call \in [Thread -> CallRecord]
  BY DEF TypeOK, CallRecord
<1>2. CallRecord = [at : Steps, iface : B, sock : C, ring : C, seen : E, delta : F]
  BY DEF CallRecord
<1> HIDE DEF B, C, E, F
<1>3. \A b \in B, c \in CallRecord : [c EXCEPT !.at = a, !.iface = b] \in CallRecord
  BY <1>2
<1>4. \A d \in F, c \in CallRecord : [c EXCEPT !.at = a, !.delta = d] \in CallRecord
  BY <1>2
<1>5. \A d \in F : [call EXCEPT ![t].at = a, ![t].delta = d] \in [Thread -> CallRecord]
  BY <1>1, <1>2
<1>6. \A x \in C : [call EXCEPT ![t].at = a, ![t].sock = x] \in [Thread -> CallRecord]
  BY <1>1, <1>2
<1>7. \A x \in C : [call EXCEPT ![t].at = a, ![t].ring = x] \in [Thread -> CallRecord]
  BY <1>1, <1>2
<1>8. \A x \in C, y \in C :
        [call EXCEPT ![t].at = a, ![t].sock = x, ![t].ring = y]
          \in [Thread -> CallRecord]
  BY <1>1, <1>2
<1>9. \A e \in E : [call EXCEPT ![t].at = a, ![t].seen = e] \in [Thread -> CallRecord]
  BY <1>1, <1>2
<1> QED BY <1>3, <1>4, <1>5, <1>6, <1>7, <1>8, <1>9 DEF B, C, E, F

\* A call changes to another one.
LEMMA CallType ==
  ASSUME TypeOK, NEW t \in Thread, NEW c \in CallRecord, call' = [call EXCEPT ![t] = c]
  PROVE  call' \in [Thread -> CallRecord]
BY DEF TypeOK, CallRecord

LEMMA IdleType == Idle \in CallRecord
BY Numbers DEF Idle, CallRecord, Steps

\* A thread goes on to its next step.
LEMMA GotoType ==
  ASSUME TypeOK, NEW t \in Thread, NEW s \in Steps, Goto(t, s)
  PROVE  call' \in [Thread -> CallRecord]
BY DEF TypeOK, Goto, CallRecord

LEMMA InitType == Init => TypeOK
<1> SUFFICES ASSUME Init PROVE TypeOK
  OBVIOUS
<1>1. Idle \in CallRecord
  BY Numbers DEF Idle, CallRecord, Steps
<1>2. NoNic \in NicRecord
  BY Numbers DEF NoNic, NicRecord
<1>3. call \in [Thread -> CallRecord] /\ nic \in [Iface -> NicRecord]
  BY <1>1, <1>2 DEF Init
<1>4. packet \in [Slot -> PacketRecord \cup {NoPacket}]
  BY DEF Init
<1>5. /\ refcount \in 0..UsizeMax /\ failed \in 0..MaxFailed
      /\ umem \in 0..MaxUmem /\ stored \in 0..MaxUmem
  BY Numbers DEF Init
<1>6. /\ deleted \in BOOLEAN /\ checked \in BOOLEAN /\ ended = "no"
      /\ free \subseteq Chunk /\ lost \subseteq Chunk
  BY DEF Init
<1> QED BY <1>3, <1>4, <1>5, <1>6 DEF TypeOK, CallRecord, NicRecord, PacketRecord

LEMMA PoolType ==
  ASSUME TypeOK, ReInit
  PROVE  /\ umem' \in 0..MaxUmem /\ stored' \in 0..MaxUmem
         /\ deleted' \in BOOLEAN /\ free' \subseteq Chunk /\ lost' \subseteq Chunk
         /\ refcount' = refcount /\ failed' = failed
<1>1. umem \in 0..MaxUmem /\ umem < MaxUmem
  BY DEF TypeOK, ReInit
<1>2. umem + 1 \in 0..MaxUmem
  BY <1>1, Numbers
<1>3. /\ umem' = umem + 1 /\ stored' = umem + 1
      /\ deleted' = FALSE /\ free' = Chunk /\ lost' = {}
      /\ refcount' = refcount /\ failed' = failed
  BY DEF ReInit
<1> QED BY <1>2, <1>3

LEMMA CallNewType ==
  ASSUME TypeOK, NEW t \in Thread, NEW i \in Iface, CallNew(t, i), UNCHANGED checked
  PROVE  TypeOK'
<1>1. [Idle EXCEPT !.at = "init", !.iface = i] \in CallRecord
  <2>1. "init" \in Steps /\ i \in Iface \cup {"none"}
    BY DEF Steps
  <2>2. \A b \in Iface \cup {"none"}, c \in CallRecord :
          [c EXCEPT !.at = "init", !.iface = b] \in CallRecord
    BY <2>1, CallUpdates
  <2> QED BY <2>1, <2>2, IdleType
<1>2. call' \in [Thread -> CallRecord]
  BY <1>1, CallType DEF CallNew
<1> QED BY <1>2 DEF TypeOK, CallNew, poolVars, CallRecord

LEMMA InitPoolType ==
  ASSUME TypeOK, NEW t \in Thread, UNCHANGED checked,
         NEW h, NEW r \in Steps, NEW n \in Steps, InitPool(t, h, r, n)
  PROVE  TypeOK'
<1>1. call' \in [Thread -> CallRecord]
  BY GotoType DEF InitPool
<1> QED BY <1>1 DEF TypeOK, InitPool, poolVars, CallRecord

LEMMA UmemType ==
  ASSUME TypeOK, NEW t \in Thread, UNCHANGED checked, MakeUmem(t) \/ RemakeUmem(t)
  PROVE  TypeOK'
<1>0. {"drv", "skb", "dropnew"} \subseteq Steps
  BY DEF Steps
<1>1. call' \in [Thread -> CallRecord]
  BY <1>0, GotoType DEF MakeUmem, RemakeUmem, TypeOK, CallRecord
<1>2. CASE ReInit
  BY <1>1, <1>2, PoolType DEF TypeOK, MakeUmem, RemakeUmem, CallRecord
<1>3. CASE UNCHANGED poolVars
  BY <1>1, <1>3 DEF TypeOK, MakeUmem, RemakeUmem, CallRecord, poolVars
<1> QED BY <1>2, <1>3 DEF MakeUmem, RemakeUmem

LEMMA CreateType ==
  ASSUME TypeOK, NEW t \in Thread, UNCHANGED checked, CreateDrv(t) \/ CreateSkb(t)
  PROVE  TypeOK'
<1>0. {"assign", "fallback", "dropnew"} \subseteq Steps
  BY DEF Steps
<1>c. /\ call \in [Thread -> CallRecord] /\ call[t] \in CallRecord
      /\ umem \in 0..MaxUmem
  BY DEF TypeOK, CallRecord
<1>1. call' \in [Thread -> CallRecord]
  <2>1. CASE \E s \in {"fallback", "dropnew"} : Goto(t, s)
    BY <1>0, <2>1, GotoType
  <2>2. CASE call' = [call EXCEPT ![t].at = "assign", ![t].sock = umem,
                                  ![t].ring = umem]
    BY <1>0, <1>c, <2>2, CallUpdates
  <2>3. CASE call' = [call EXCEPT ![t].at = "assign", ![t].sock = umem]
    BY <1>0, <1>c, <2>3, CallUpdates
  <2> QED BY <2>1, <2>2, <2>3 DEF CreateDrv, CreateSkb
<1> QED BY <1>1 DEF TypeOK, CreateDrv, CreateSkb, poolVars, CallRecord

LEMMA FallType ==
  ASSUME TypeOK, NEW t \in Thread, UNCHANGED checked,
         UseDeleted(t) \/ FallBack(t) \/ AssignRings(t)
  PROVE  TypeOK'
<1>0. {"init again", "skb", "fill"} \subseteq Steps
  BY DEF Steps
<1>1. CASE UseDeleted(t)
  BY <1>1 DEF TypeOK, UseDeleted, poolVars
<1>2. CASE FallBack(t)
  <2>1. call' \in [Thread -> CallRecord]
    BY <1>0, <1>2, GotoType DEF FallBack
  <2>2. deleted' \in BOOLEAN
    BY <1>2 DEF FallBack, TypeOK
  <2> QED BY <1>2, <2>1, <2>2 DEF TypeOK, FallBack, CallRecord
<1>3. CASE AssignRings(t)
  <2>1. call' \in [Thread -> CallRecord]
    <3>1. CASE refcount = 0
      <4>1. call' = [call EXCEPT ![t].at = "fill", ![t].ring = stored]
        BY <1>3, <3>1 DEF AssignRings
      <4>2. stored \in 0..MaxUmem
        BY DEF TypeOK
      <4> QED BY <1>0, <4>1, <4>2, CallUpdates
    <3>2. CASE refcount # 0
      BY <1>0, <1>3, <3>2, GotoType DEF AssignRings
    <3> QED BY <3>1, <3>2
  <2>2. stored' \in 0..MaxUmem
    BY <1>3, Numbers DEF AssignRings, TypeOK
  <2> QED BY <1>3, <2>1, <2>2 DEF TypeOK, AssignRings, CallRecord
<1> QED BY <1>1, <1>2, <1>3

LEMMA FillType ==
  ASSUME TypeOK, NEW t \in Thread, UNCHANGED checked, FillRing(t),
         call[t].iface \in Iface
  PROVE  TypeOK'
<1> DEFINE i == call[t].iface
<1>0. {"load", "dropnew"} \subseteq Steps
  BY DEF Steps
<1>1. ASSUME NEW C \in SUBSET free,
             nic' = [nic EXCEPT ![i].umem = call[t].sock, ![i].fill = C]
      PROVE  nic' \in [Iface -> NicRecord]
  <2>1. call[t].sock \in 0..MaxUmem /\ C \subseteq Chunk
    BY <1>1 DEF TypeOK
  <2>2. [nic[i] EXCEPT !.umem = call[t].sock, !.fill = C] \in NicRecord
    <3> DEFINE U == 0..MaxUmem  F == SUBSET Chunk  B == Thread \cup {NoThread}
    <3>1. /\ nic[i] \in [umem : U, fill : F, by : B] /\ call[t].sock \in U /\ C \in F
          /\ NicRecord = [umem : U, fill : F, by : B]
      BY <2>1 DEF TypeOK, NicRecord
    <3> HIDE DEF U, F, B
    <3> QED BY <3>1
  <2>3. nic \in [Iface -> NicRecord]
    BY DEF TypeOK, NicRecord
  <2>4. nic' = [nic EXCEPT ![i] = [nic[i] EXCEPT !.umem = call[t].sock, !.fill = C]]
    BY <1>1, <2>3
  <2> QED BY <2>2, <2>3, <2>4
<1>2. nic' \in [Iface -> NicRecord]
  BY <1>1 DEF FillRing, TypeOK, NicRecord
<1>3. call' \in [Thread -> CallRecord]
  <2>1. CASE call' = [call EXCEPT ![t].at = "load", ![t].delta = 1]
    BY <1>0, <2>1, CallUpdates
  <2>2. CASE Goto(t, "dropnew")
    BY <1>0, <2>2, GotoType
  <2>3. CASE UNCHANGED call
    BY <2>3 DEF TypeOK, CallRecord
  <2> QED BY <2>1, <2>2, <2>3 DEF FillRing
<1>4. free' \subseteq Chunk /\ lost' \subseteq Chunk
  BY DEF FillRing, TypeOK
<1>5. ended' \in {"no", "segfault"}
  BY DEF FillRing, At
<1> QED BY <1>2, <1>3, <1>4, <1>5 DEF TypeOK, FillRing, NicRecord, CallRecord

LEMMA CountType ==
  ASSUME TypeOK, NEW t \in Thread, UNCHANGED checked, Load(t) \/ DropNew(t)
  PROVE  TypeOK'
<1>0. {"load", "store"} \subseteq Steps
  BY DEF Steps
<1>1. CASE Load(t)
  <2>1. call' \in [Thread -> CallRecord]
    <3>1. refcount \in 0..UsizeMax
      BY DEF TypeOK
    <3> QED BY <1>0, <1>1, <3>1, CallUpdates DEF Load
  <2> QED BY <1>1, <2>1 DEF TypeOK, Load, poolVars, CallRecord
<1>2. CASE DropNew(t)
  <2>1. call' \in [Thread -> CallRecord]
    <3>1. CASE UNCHANGED call
      BY <3>1 DEF TypeOK, CallRecord
    <3>2. CASE call' = [call EXCEPT ![t].at = "load", ![t].delta = -1]
      BY <1>0, <3>2, CallUpdates
    <3> QED BY <1>2, <3>1, <3>2 DEF DropNew
  <2>2. failed' \in 0..MaxFailed
    BY <1>2, Numbers DEF DropNew, TypeOK
  <2> QED BY <1>2, <2>1, <2>2 DEF TypeOK, DropNew, CallRecord
<1> QED BY <1>1, <1>2

LEMMA StoreType ==
  ASSUME TypeOK, NEW t \in Thread, UNCHANGED checked, Store(t)
  PROVE  TypeOK'
<1>1. Idle \in CallRecord
  BY Numbers DEF Idle, CallRecord, Steps
<1>2. call' \in [Thread -> CallRecord]
  BY <1>1 DEF TypeOK, Store, CallRecord
<1>3. Sum(t) \in Int
  BY Numbers DEF Sum, TypeOK
<1>4. refcount' \in 0..UsizeMax
  BY <1>3, WrapType DEF Store, TypeOK
<1>5. nic' \in [Iface -> NicRecord]
  BY DEF Store, TypeOK, NicRecord
<1> QED BY <1>2, <1>4, <1>5 DEF TypeOK, Store, CallRecord, NicRecord

LEMMA CloseType ==
  ASSUME TypeOK, NEW t \in Thread, UNCHANGED checked, NEW i \in Iface, CloseNic(t, i)
  PROVE  TypeOK'
<1>1. [Idle EXCEPT !.at = "load", !.delta = -1] \in CallRecord
  <2>1. "load" \in Steps /\ -1 \in {-1, 0, 1}
    BY DEF Steps
  <2>2. \A d \in {-1, 0, 1}, c \in CallRecord :
          [c EXCEPT !.at = "load", !.delta = d] \in CallRecord
    BY <2>1, CallUpdates
  <2> QED BY <2>1, <2>2, IdleType
<1>2. call' \in [Thread -> CallRecord]
  BY <1>1, CallType DEF CloseNic
<1>3. NoNic \in NicRecord
  BY Numbers DEF NoNic, NicRecord
<1>4. nic' \in [Iface -> NicRecord]
  BY <1>3 DEF TypeOK, CloseNic, NicRecord
<1>5. lost' \subseteq Chunk
  BY DEF TypeOK, CloseNic
<1> QED BY <1>2, <1>4, <1>5 DEF TypeOK, CloseNic, CallRecord, NicRecord

LEMMA PacketType ==
  ASSUME TypeOK, NEW t \in Thread, UNCHANGED checked, NEW s \in Slot,
         \/ AllocPacket(t, s) \/ DropPacket(t, s)
         \/ \E i \in Iface : Receive(t, i, s)
  PROVE  TypeOK'
<1>0. packet \in [Slot -> PacketRecord \cup {NoPacket}]
  BY DEF TypeOK, PacketRecord
<1>1. CASE AllocPacket(t, s)
  <2>1. packet' \in [Slot -> PacketRecord \cup {NoPacket}]
    BY <1>0, <1>1 DEF AllocPacket, TypeOK, PacketRecord
  <2> QED BY <1>1, <2>1 DEF AllocPacket, TypeOK, PacketRecord
<1>2. CASE DropPacket(t, s)
  <2>1. packet[s] \in PacketRecord
    BY <1>0, <1>2 DEF DropPacket, Kept
  <2>2. packet' \in [Slot -> PacketRecord \cup {NoPacket}]
    BY <1>0, <1>2 DEF DropPacket
  <2> QED BY <1>2, <2>1, <2>2 DEF DropPacket, Freed, TypeOK, PacketRecord
<1>3. ASSUME NEW i \in Iface, Receive(t, i, s) PROVE TypeOK'
  <2>1. packet' \in [Slot -> PacketRecord \cup {NoPacket}]
    <3>1. PICK c \in nic[i].fill :
            packet' = [packet EXCEPT ![s] = [chunk |-> c, data |-> nic[i].umem,
                                             buffer |-> umem, by |-> t]]
      BY <1>3 DEF Receive
    <3>2. c \in Chunk /\ nic[i].umem \in 0..MaxUmem /\ umem \in 0..MaxUmem
      BY DEF TypeOK
    <3>3. [chunk |-> c, data |-> nic[i].umem, buffer |-> umem, by |-> t] \in PacketRecord
      BY <3>2 DEF PacketRecord
    <3> QED BY <1>0, <3>1, <3>3
  <2>2. nic' \in [Iface -> NicRecord]
    <3>1. nic \in [Iface -> NicRecord] /\ nic[i].fill \subseteq Chunk /\ free \subseteq Chunk
      BY DEF TypeOK, NicRecord
    <3>2. ASSUME NEW S \in SUBSET Chunk
          PROVE  [nic EXCEPT ![i].fill = S] \in [Iface -> NicRecord]
      BY <3>1 DEF NicRecord
    <3>3. PICK c \in nic[i].fill :
            \/ \E d \in free : nic' = [nic EXCEPT ![i].fill = (@ \ {c}) \cup {d}]
            \/ nic' = [nic EXCEPT ![i].fill = @ \ {c}]
      BY <1>3 DEF Receive
    <3>4. CASE nic' = [nic EXCEPT ![i].fill = @ \ {c}]
      <4>1. nic' = [nic EXCEPT ![i].fill = nic[i].fill \ {c}]
        BY <3>1, <3>4
      <4> QED BY <3>1, <3>2, <4>1
    <3>5. ASSUME NEW d \in free, nic' = [nic EXCEPT ![i].fill = (@ \ {c}) \cup {d}]
          PROVE  nic' \in [Iface -> NicRecord]
      <4>1. nic' = [nic EXCEPT ![i].fill = (nic[i].fill \ {c}) \cup {d}]
        BY <3>1, <3>5
      <4> QED BY <3>1, <3>2, <4>1
    <3> QED BY <3>3, <3>4, <3>5
  <2>3. free' \subseteq Chunk /\ ended' \in {"no", "abort"}
    BY <1>3 DEF Receive, TypeOK, At
  <2> QED BY <1>3, <2>1, <2>2, <2>3 DEF Receive, TypeOK, PacketRecord, NicRecord
<1> QED BY <1>1, <1>2, <1>3

-----------------------------------------------------------------------------
(* The call under way is about an interface                                *)

Opening == Steps \ {"idle", "load", "store"}
Counting(c) == c.at \in {"load", "store"}

Named ==
  \A t \in Thread :
    call[t].at \in Opening \/ (Counting(call[t]) /\ call[t].delta = 1)
    => call[t].iface \in Iface

\* How a step of a thread changes its call.
LEMMA Moves ==
  ASSUME TypeOK, NEW t \in Thread, Step(t)
  PROVE  /\ \A u \in Thread \ {t} : call'[u] = call[u]
         /\ \/ /\ call[t].at = "idle" /\ call'[t].at = "init"
               /\ call'[t].iface \in Iface /\ nic[call'[t].iface].by = NoThread
            \/ /\ call[t].at \in Opening /\ call'[t].at \in Opening
               /\ call'[t].iface = call[t].iface
            \/ /\ call[t].at = "fill" /\ call'[t].at = "load"
               /\ call'[t].delta = 1 /\ call'[t].iface = call[t].iface
            \/ /\ DropNew(t) \/ \E i \in Iface : CloseNic(t, i)
               /\ call'[t].at = "load" /\ call'[t].delta = -1
            \/ /\ call[t].at = "load" /\ call'[t].at = "store"
               /\ call'[t].delta = call[t].delta /\ call'[t].iface = call[t].iface
               /\ call'[t].seen = refcount
            \/ Store(t) /\ call'[t].at = "idle"
            \/ call' = call
<1>0. call \in [Thread -> CallRecord]
  BY DEF TypeOK, CallRecord
<1>1. ASSUME NEW i \in Iface, CallNew(t, i)
      PROVE  /\ \A u \in Thread \ {t} : call'[u] = call[u]
             /\ call[t].at = "idle" /\ call'[t].at = "init"
             /\ call'[t].iface \in Iface /\ nic[call'[t].iface].by = NoThread
  BY <1>0, <1>1 DEF CallNew, At, Idle, NoNic
<1>2. ASSUME NEW i \in Iface, CloseNic(t, i)
      PROVE  /\ \A u \in Thread \ {t} : call'[u] = call[u]
             /\ call'[t].at = "load" /\ call'[t].delta = -1
  BY <1>0, <1>2 DEF CloseNic, Idle
<1>3. ASSUME NEW s \in Opening, call[t].at \in Opening, Goto(t, s)
      PROVE  /\ \A u \in Thread \ {t} : call'[u] = call[u]
             /\ call'[t].at \in Opening /\ call'[t].iface = call[t].iface
  BY <1>0, <1>3 DEF Goto, CallRecord
<1>4. {"init", "umem", "drv", "fallback", "init again", "umem again", "skb", "assign",
       "fill", "dropnew"} \subseteq Opening
  BY DEF Opening, Steps
<1>5. CASE InitPool(t, "init", "umem", "drv") \/ MakeUmem(t)
           \/ InitPool(t, "init again", "umem again", "skb") \/ RemakeUmem(t)
           \/ FallBack(t) \/ UseDeleted(t)
  <2>1. call[t].at \in Opening /\ (call' = call \/ \E s \in Opening : Goto(t, s))
    BY <1>4, <1>5 DEF InitPool, MakeUmem, RemakeUmem, FallBack, UseDeleted, At
  <2> QED BY <2>1, <1>3
<1>6. CASE CreateDrv(t) \/ CreateSkb(t) \/ AssignRings(t)
  <2>0. call[t].at \in Opening
    BY <1>4, <1>6 DEF CreateDrv, CreateSkb, AssignRings, At
  <2>1. CASE \E s \in Opening : Goto(t, s)
    BY <2>0, <2>1, <1>3
  <2>2. CASE \/ call' = [call EXCEPT ![t].at = "assign", ![t].sock = umem,
                                     ![t].ring = umem]
             \/ call' = [call EXCEPT ![t].at = "assign", ![t].sock = umem]
             \/ call' = [call EXCEPT ![t].at = "fill", ![t].ring = stored]
    <3> DEFINE Moved == /\ \A u \in Thread \ {t} : call'[u] = call[u]
                        /\ call'[t].at \in Opening /\ call'[t].iface = call[t].iface
    <3>1. CASE call' = [call EXCEPT ![t].at = "assign", ![t].sock = umem,
                                    ![t].ring = umem]
      <4>1. Moved
        BY <1>0, <1>4, <3>1 DEF CallRecord
      <4> QED BY <2>0, <4>1
    <3>2. CASE call' = [call EXCEPT ![t].at = "assign", ![t].sock = umem]
      <4>1. Moved
        BY <1>0, <1>4, <3>2 DEF CallRecord
      <4> QED BY <2>0, <4>1
    <3>3. CASE call' = [call EXCEPT ![t].at = "fill", ![t].ring = stored]
      <4>1. Moved
        BY <1>0, <1>4, <3>3 DEF CallRecord
      <4> QED BY <2>0, <4>1
    <3> QED BY <2>2, <3>1, <3>2, <3>3
  <2> QED BY <1>4, <1>6, <2>1, <2>2 DEF CreateDrv, CreateSkb, AssignRings
<1>7. CASE FillRing(t)
  <2>1. call[t].at = "fill"
    BY <1>7 DEF FillRing, At
  <2>2. CASE call' = [call EXCEPT ![t].at = "load", ![t].delta = 1]
    BY <1>0, <2>1, <2>2 DEF CallRecord
  <2>3. CASE Goto(t, "dropnew")
    BY <1>3, <1>4, <2>1, <2>3
  <2> QED BY <1>7, <2>2, <2>3 DEF FillRing
<1>8. CASE DropNew(t)
  BY <1>0, <1>8 DEF DropNew, CallRecord
<1>9. CASE Load(t)
  BY <1>0, <1>9 DEF Load, CallRecord, At
<1>10. CASE Store(t)
  BY <1>0, <1>10 DEF Store, Idle
<1>11. ASSUME NEW s \in Slot,
              \/ AllocPacket(t, s) \/ DropPacket(t, s)
              \/ \E i \in Iface : Receive(t, i, s)
       PROVE  call' = call
  BY <1>11 DEF AllocPacket, DropPacket, Receive
<1> QED BY <1>1, <1>2, <1>5, <1>6, <1>7, <1>8, <1>9, <1>10, <1>11 DEF Step

LEMMA NamedStep ==
  ASSUME TypeOK, Named, NEW t \in Thread, Step(t)
  PROVE  Named'
<1>1. "fill" \in Opening /\ "load" \notin Opening /\ "store" \notin Opening
      /\ "idle" \notin Opening
  BY DEF Opening, Steps
<1>2. ASSUME NEW u \in Thread,
             call'[u].at \in Opening \/ (Counting(call'[u]) /\ call'[u].delta = 1)
      PROVE  call'[u].iface \in Iface
  <2>1. CASE u = t
    BY <1>1, <1>2, <2>1, Moves DEF Named, Counting
  <2>2. CASE u # t
    BY <1>2, <2>2, Moves DEF Named
  <2> QED BY <2>1, <2>2
<1> QED BY <1>2 DEF Named, Counting

LEMMA TypeStep ==
  ASSUME TypeOK /\ Named, [Next]_vars
  PROVE  TypeOK' /\ Named'
<1>0. {"init", "umem", "drv", "init again", "umem again", "skb"} \subseteq Steps
  BY DEF Steps
<1>1. ASSUME NEW t \in Thread, Step(t), UNCHANGED checked PROVE TypeOK'
  <2>1. CASE \E i \in Iface : CallNew(t, i) \/ CloseNic(t, i)
    BY <1>1, <2>1, CallNewType, CloseType
  <2>2. CASE InitPool(t, "init", "umem", "drv")
             \/ InitPool(t, "init again", "umem again", "skb")
    BY <1>0, <1>1, <2>2, InitPoolType
  <2>3. CASE MakeUmem(t) \/ RemakeUmem(t)
    BY <1>1, <2>3, UmemType
  <2>4. CASE CreateDrv(t) \/ CreateSkb(t)
    BY <1>1, <2>4, CreateType
  <2>5. CASE UseDeleted(t) \/ FallBack(t) \/ AssignRings(t)
    BY <1>1, <2>5, FallType
  <2>6. CASE FillRing(t)
    <3>1. call[t].iface \in Iface
      BY <2>6 DEF Named, FillRing, At, Opening, Steps
    <3> QED BY <1>1, <2>6, <3>1, FillType
  <2>7. CASE Load(t) \/ DropNew(t)
    BY <1>1, <2>7, CountType
  <2>8. CASE Store(t)
    BY <1>1, <2>8, StoreType
  <2>9. CASE \E s \in Slot : \/ AllocPacket(t, s) \/ DropPacket(t, s)
                             \/ \E i \in Iface : Receive(t, i, s)
    BY <1>1, <2>9, PacketType
  <2> QED BY <1>1, <2>1, <2>2, <2>3, <2>4, <2>5, <2>6, <2>7, <2>8, <2>9 DEF Step
<1>2. CASE UNCHANGED vars
  BY <1>2 DEF vars, poolVars, TypeOK, Named, Counting
<1> QED BY <1>1, <1>2, NamedStep DEF Next

(***************************************************************************)
(* Whatever the program and its threads do, every variable keeps its type: *)
(* the count stays a usize, and a Nic, Packet or call in progress never    *)
(* refers to a UMEM that was not made.                                     *)
(***************************************************************************)
THEOREM TypeCorrect == Spec => []TypeOK
<1>1. Init => TypeOK /\ Named
  BY InitType DEF Init, Idle, Named, Counting, Opening
<1>2. (TypeOK /\ Named) /\ [Next]_vars => (TypeOK /\ Named)'
  BY TypeStep
<1> QED BY <1>1, <1>2, PTL DEF Spec

-----------------------------------------------------------------------------
(* One thread: what the reference count is                                 *)

\* A Nic that is counted though its drop is under way, or that never was.
Owed(c) == IF Counting(c) /\ c.delta = -1 THEN 1 ELSE 0

\* The reference count, and that what a call is about to add is not there yet.
CountFor(t) ==
  LET c == call[t]
  IN  /\ c.at \in Opening => nic[c.iface].by = NoThread
      /\ Counting(c) => c.delta = -1 \/ (c.delta = 1 /\ nic[c.iface].by = NoThread)
      /\ c.at = "store" => c.seen = refcount
      /\ Cardinality(Live) + Owed(c) <= Cardinality(Iface)
      /\ refcount = Wrap((Cardinality(Live) + Owed(c)) - failed)

\* There is one thread, and the interfaces can be counted.
OneThread(t) ==
  /\ Thread = {t} /\ NoThread \notin Thread
  /\ Cardinality(Iface) <= UsizeMax

\* Wrapping early or late makes no difference.
LEMMA WrapStep ==
  ASSUME NEW d \in (0 - UsizeMax)..UsizeMax, NEW e \in {-1, 1}
  PROVE  Wrap(Wrap(d) + e) = Wrap(d + e)
<1>1. UsizeMax \in Nat
  BY Numbers
<1>2. /\ d \in (0 - UsizeMax - 1)..(UsizeMax + 1)
      /\ d + e \in (0 - UsizeMax - 1)..(UsizeMax + 1)
  BY <1>1
<1>3. Wrap(d) = IF d < 0 THEN d + UsizeMax + 1 ELSE d
  BY <1>1, <1>2, WrapNear
<1>4. Wrap(d + e) = IF d + e < 0 THEN d + e + UsizeMax + 1
                    ELSE IF d + e = UsizeMax + 1 THEN 0 ELSE d + e
  BY <1>2, WrapNear
<1>5. Wrap(d) + e \in (0 - UsizeMax - 1)..(UsizeMax + 1)
  BY <1>1, <1>3
<1>6. Wrap(Wrap(d) + e) = IF Wrap(d) + e < 0 THEN Wrap(d) + e + UsizeMax + 1
                          ELSE IF Wrap(d) + e = UsizeMax + 1 THEN 0 ELSE Wrap(d) + e
  BY <1>5, WrapNear
<1> QED BY <1>1, <1>3, <1>4, <1>6

\* The open Nics are finitely many.
LEMMA LiveFinite ==
  /\ IsFiniteSet(Live) /\ Cardinality(Live) \in Nat /\ Cardinality(Iface) \in Nat
  /\ Cardinality(Live) <= Cardinality(Iface)
  /\ \A i \in Iface \ Live : Cardinality(Live) + 1 <= Cardinality(Iface)
<1>1. Live \subseteq Iface
  BY DEF Live
<1>2. IsFiniteSet(Live) /\ Cardinality(Live) <= Cardinality(Iface)
  BY <1>1, Numbers, FS_Subset
<1>3. Cardinality(Live) \in Nat /\ Cardinality(Iface) \in Nat
  BY <1>2, Numbers, FS_CardinalityType
<1>4. ASSUME NEW i \in Iface \ Live PROVE Cardinality(Live) + 1 <= Cardinality(Iface)
  <2>1. Cardinality(Live \cup {i}) = Cardinality(Live) + 1
    BY <1>2, <1>4, FS_AddElement
  <2>2. Cardinality(Live \cup {i}) <= Cardinality(Iface)
    BY <1>1, Numbers, FS_Subset
  <2> QED BY <2>1, <2>2
<1> QED BY <1>2, <1>3, <1>4

\* Steps that leave count, failures and open Nics alone.
LEMMA CountStays ==
  ASSUME TypeOK, NEW t, OneThread(t), CountFor(t),
         refcount' = refcount, failed' = failed,
         \A i \in Iface : nic'[i].by = nic[i].by,
         LET c == call[t]  d == call'[t]
         IN  \/ /\ c.at \notin Opening /\ ~Counting(c)
                /\ d.at = "init" /\ d.iface \in Iface /\ nic[d.iface].by = NoThread
             \/ /\ c.at \in Opening /\ d.at \in Opening /\ d.iface = c.iface
                /\ c.iface \in Iface
             \/ /\ c.at \in Opening /\ d.at = "load" /\ d.delta = 1
                /\ d.iface = c.iface /\ c.iface \in Iface
             \/ /\ c.at = "load" /\ d.at = "store" /\ d.delta = c.delta
                /\ d.iface = c.iface /\ (c.delta = 1 => c.iface \in Iface)
                /\ d.seen = refcount
             \/ /\ d = c /\ ((c.at \in Opening \/ (c.delta = 1 /\ Counting(c)))
                             => c.iface \in Iface)
  PROVE  CountFor(t)'
<1> DEFINE c == call[t]
           d == call'[t]
<1>1. Live' = Live
  BY DEF Live
<1>2. "init" \in Opening /\ "load" \notin Opening /\ "store" \notin Opening
  BY DEF Opening, Steps
<1>3. Owed(d) = Owed(c)
  <2>1. CASE c.at \notin Opening /\ ~Counting(c) /\ d.at = "init"
    BY <2>1 DEF Owed, Counting
  <2>2. CASE c.at \in Opening /\ d.at \in Opening
    BY <1>2, <2>2 DEF Owed, Counting
  <2>3. CASE c.at \in Opening /\ d.at = "load" /\ d.delta = 1
    BY <1>2, <2>3 DEF Owed, Counting
  <2>4. CASE c.at = "load" /\ d.at = "store" /\ d.delta = c.delta
    BY <2>4 DEF Owed, Counting
  <2> QED BY <2>1, <2>2, <2>3, <2>4
<1>4. /\ Cardinality(Live) + Owed(d) <= Cardinality(Iface)
      /\ refcount = Wrap((Cardinality(Live) + Owed(d)) - failed)
  BY <1>3 DEF CountFor
<1>5. /\ d.at \in Opening => nic'[d.iface].by = NoThread
      /\ Counting(d) => d.delta = -1 \/ (d.delta = 1 /\ nic'[d.iface].by = NoThread)
      /\ d.at = "store" => d.seen = refcount
  <2>0. /\ c.at \in Opening => nic[c.iface].by = NoThread
        /\ Counting(c) => c.delta = -1 \/ (c.delta = 1 /\ nic[c.iface].by = NoThread)
        /\ c.at = "store" => c.seen = refcount
    BY DEF CountFor
  <2>1. CASE /\ d.at = "init" /\ d.iface \in Iface /\ nic[d.iface].by = NoThread
    BY <1>2, <2>1 DEF Counting
  <2>2. CASE /\ c.at \in Opening /\ d.at \in Opening /\ d.iface = c.iface
             /\ c.iface \in Iface
    BY <1>2, <2>0, <2>2 DEF Counting
  <2>3. CASE /\ c.at \in Opening /\ d.at = "load" /\ d.delta = 1
             /\ d.iface = c.iface /\ c.iface \in Iface
    BY <1>2, <2>0, <2>3 DEF Counting
  <2>4. CASE /\ c.at = "load" /\ d.at = "store" /\ d.delta = c.delta
             /\ d.iface = c.iface /\ (c.delta = 1 => c.iface \in Iface)
             /\ d.seen = refcount
    BY <1>2, <2>0, <2>4 DEF Counting
  <2>5. CASE d = c /\ ((c.at \in Opening \/ (c.delta = 1 /\ Counting(c)))
                       => c.iface \in Iface)
    BY <2>0, <2>5 DEF Counting
  <2> QED BY <2>1, <2>2, <2>3, <2>4, <2>5
<1> QED BY <1>1, <1>4, <1>5 DEF CountFor

\* Most steps are such.
LEMMA OtherSteps ==
  ASSUME TypeOK, Named, NEW t \in Thread, OneThread(t), CountFor(t), Step(t),
         ~DropNew(t), ~Store(t), \A i \in Iface : ~CloseNic(t, i)
  PROVE  CountFor(t)'
<1>1. refcount' = refcount /\ failed' = failed /\ \A i \in Iface : nic'[i].by = nic[i].by
  <2>0. nic \in [Iface -> NicRecord] /\ t \in Thread
    BY DEF TypeOK, NicRecord
  <2>1. CASE UNCHANGED <<refcount, failed, nic>>
    BY <2>1
  <2>2. ASSUME NEW i \in Iface, NEW s \in Slot, Receive(t, i, s)
        PROVE  refcount' = refcount /\ failed' = failed
               /\ \A j \in Iface : nic'[j].by = nic[j].by
    BY <2>0, <2>2 DEF Receive, NicRecord
  <2>3. CASE FillRing(t)
    <3>1. CASE nic' = nic
      BY <2>3, <3>1 DEF FillRing
    <3>2. ASSUME NEW C,
                 nic' = [nic EXCEPT ![call[t].iface].umem = call[t].sock,
                                    ![call[t].iface].fill = C]
          PROVE  \A j \in Iface : nic'[j].by = nic[j].by
      BY <2>0, <3>2 DEF NicRecord
    <3> QED BY <2>3, <3>1, <3>2 DEF FillRing
  <2>4. ASSUME ReInit \/ UNCHANGED poolVars PROVE UNCHANGED <<refcount, failed>>
    BY <2>4 DEF ReInit, poolVars
  <2>5. CASE \/ InitPool(t, "init", "umem", "drv") \/ MakeUmem(t)
             \/ InitPool(t, "init again", "umem again", "skb") \/ RemakeUmem(t)
             \/ CreateDrv(t) \/ FallBack(t) \/ UseDeleted(t)
             \/ CreateSkb(t) \/ AssignRings(t) \/ Load(t)
    BY <2>1, <2>4, <2>5 DEF InitPool, MakeUmem, RemakeUmem, CreateDrv, FallBack,
       UseDeleted, CreateSkb, AssignRings, Load, poolVars
  <2>6. CASE \E i \in Iface : CallNew(t, i)
    BY <2>1, <2>6 DEF CallNew, poolVars
  <2>7. CASE \E s \in Slot : AllocPacket(t, s) \/ DropPacket(t, s)
    BY <2>1, <2>7 DEF AllocPacket, DropPacket
  <2> QED BY <2>2, <2>3, <2>5, <2>6, <2>7 DEF Step
<1>2. {"idle", "load", "store"} \cap Opening = {} /\ "fill" \in Opening
  BY DEF Opening, Steps
<1>3. call[t].at \in Opening \/ (Counting(call[t]) /\ call[t].delta = 1)
        => call[t].iface \in Iface
  BY DEF Named
<1>4. \/ /\ call[t].at \notin Opening /\ ~Counting(call[t])
         /\ call'[t].at = "init" /\ call'[t].iface \in Iface
         /\ nic[call'[t].iface].by = NoThread
      \/ /\ call[t].at \in Opening /\ call'[t].at \in Opening
         /\ call'[t].iface = call[t].iface /\ call[t].iface \in Iface
      \/ /\ call[t].at \in Opening /\ call'[t].at = "load" /\ call'[t].delta = 1
         /\ call'[t].iface = call[t].iface /\ call[t].iface \in Iface
      \/ /\ call[t].at = "load" /\ call'[t].at = "store"
         /\ call'[t].delta = call[t].delta /\ call'[t].iface = call[t].iface
         /\ (call[t].delta = 1 => call[t].iface \in Iface)
         /\ call'[t].seen = refcount
      \/ call'[t] = call[t]
  BY <1>2, <1>3, Moves DEF Counting
<1> QED BY <1>1, <1>3, <1>4, CountStays DEF Counting

\* The bounds within which the lemmas on Wrap speak.
LEMMA CountBounds ==
  ASSUME TypeOK, NEW t \in Thread, OneThread(t), NEW n \in 0..Cardinality(Iface)
  PROVE  n - failed \in (0 - UsizeMax)..UsizeMax
<1>1. failed \in 0..UsizeMax /\ UsizeMax \in Nat /\ Cardinality(Iface) \in Nat
  BY Numbers, LiveFinite DEF TypeOK
<1>2. Cardinality(Iface) <= UsizeMax
  BY DEF OneThread
<1> QED BY <1>1, <1>2

LEMMA CountDropNew ==
  ASSUME TypeOK, Named, NEW t \in Thread, OneThread(t), CountFor(t), DropNew(t)
  PROVE  ended' = "no" => CountFor(t)'
<1> DEFINE n == Cardinality(Live)
<1>0. /\ n \in Nat /\ UsizeMax \in Nat /\ failed \in 0..UsizeMax
      /\ Cardinality(Iface) \in Nat /\ Cardinality(Iface) <= UsizeMax
  BY Numbers, LiveFinite DEF TypeOK, OneThread
<1>1. "dropnew" \in Opening /\ {"load", "store"} \cap Opening = {}
  BY DEF Opening, Steps
<1>2. call[t].at = "dropnew" /\ ~Counting(call[t])
  BY DEF DropNew, At, Counting
<1>3. call[t].iface \in Iface /\ call[t].iface \notin Live
  BY <1>1, <1>2 DEF Named, CountFor, Live
<1>4. n + 1 <= Cardinality(Iface) /\ n < UsizeMax
  BY <1>0, <1>3, LiveFinite
<1>5. refcount = Wrap(n - failed)
  <2>1. Owed(call[t]) = 0
    BY <1>2 DEF Owed
  <2>2. refcount = Wrap((n + Owed(call[t])) - failed)
    BY DEF CountFor
  <2> QED BY <1>0, <2>1, <2>2
<1>6. refcount' = refcount /\ nic' = nic /\ Live' = Live /\ failed' = failed + 1
  BY DEF DropNew, Live
<1>7. refcount = Wrap((n + 1) - (failed + 1))
  <2>1. (n + 1) - (failed + 1) = n - failed
    BY <1>0
  <2> QED BY <1>5, <2>1
<1>8. CASE ended' = "segfault"
  BY <1>8
<1>9. CASE call' = [call EXCEPT ![t].at = "load", ![t].delta = -1]
  <2>1. call'[t].at = "load" /\ call'[t].delta = -1
    BY <1>9 DEF TypeOK
  <2>2. Owed(call'[t]) = 1
    BY <2>1 DEF Owed, Counting
  <2> QED BY <1>1, <1>4, <1>6, <1>7, <2>1, <2>2 DEF CountFor, Counting
<1> QED BY <1>8, <1>9 DEF DropNew

LEMMA CountClose ==
  ASSUME TypeOK, NEW t \in Thread, OneThread(t), CountFor(t),
         NEW i \in Iface, CloseNic(t, i)
  PROVE  CountFor(t)'
<1> DEFINE n == Cardinality(Live)
           m == Cardinality(Live')
<1>0. n \in Nat /\ Cardinality(Iface) \in Nat /\ n <= Cardinality(Iface)
      /\ failed \in 0..UsizeMax /\ UsizeMax \in Nat
  BY LiveFinite, Numbers DEF TypeOK
<1>1. {"idle", "load", "store"} \cap Opening = {}
  BY DEF Opening, Steps
<1>2. ~Counting(call[t]) /\ i \in Live
  BY DEF CloseNic, At, Counting, Live, OneThread
<1>3. Live' = Live \ {i}
  BY DEF CloseNic, Live, NoNic, TypeOK
<1>4. m = n - 1
  BY <1>2, <1>3, LiveFinite, FS_RemoveElement
<1>5. refcount = Wrap(n - failed)
  <2>1. Owed(call[t]) = 0
    BY <1>2 DEF Owed
  <2>2. refcount = Wrap((n + Owed(call[t])) - failed)
    BY DEF CountFor
  <2> QED BY <1>0, <2>1, <2>2
<1>6. refcount' = refcount /\ failed' = failed
  BY DEF CloseNic
<1>7. call'[t].at = "load" /\ call'[t].delta = -1
  BY DEF TypeOK, CloseNic, Idle
<1>8. Owed(call'[t]) = 1
  BY <1>7 DEF Owed, Counting
<1>9. m + Owed(call'[t]) = n
  BY <1>0, <1>4, <1>8
<1>10. m + Owed(call'[t]) <= Cardinality(Iface)
       /\ refcount' = Wrap((m + Owed(call'[t])) - failed')
  <2>1. (m + Owed(call'[t])) - failed' = n - failed
    BY <1>6, <1>9
  <2>2. m + Owed(call'[t]) <= Cardinality(Iface)
    BY <1>0, <1>9
  <2> QED BY <1>5, <1>6, <2>1, <2>2
<1> QED BY <1>1, <1>7, <1>10 DEF CountFor, Counting

LEMMA CountStore ==
  ASSUME TypeOK, Named, NEW t \in Thread, OneThread(t), CountFor(t), Store(t)
  PROVE  ended' = "no" => CountFor(t)'
<1> SUFFICES ASSUME ended' = "no" PROVE CountFor(t)'
  OBVIOUS
<1> DEFINE n == Cardinality(Live)
           m == Cardinality(Live')
           i == call[t].iface
<1>0. n \in Nat /\ Cardinality(Iface) \in Nat /\ n <= Cardinality(Iface)
      /\ failed \in 0..UsizeMax /\ UsizeMax \in Nat
  BY LiveFinite, Numbers DEF TypeOK
<1>1. {"idle", "load", "store"} \cap Opening = {}
  BY DEF Opening, Steps
<1>2. /\ Counting(call[t]) /\ call[t].seen = refcount
      /\ call[t].delta = -1 \/ (call[t].delta = 1 /\ nic[i].by = NoThread)
  BY DEF Store, At, Counting, CountFor
<1>3. /\ refcount' = Wrap(refcount + call[t].delta) /\ failed' = failed
      /\ call'[t] = Idle
      /\ nic' = IF call[t].delta = 1 THEN [nic EXCEPT ![i].by = t] ELSE nic
  BY <1>2 DEF Store, Sum, TypeOK
<1>4. refcount = Wrap((n + Owed(call[t])) - failed) /\ n + Owed(call[t]) <= Cardinality(Iface)
  BY DEF CountFor
<1>5. refcount' = Wrap(m - failed) /\ m <= Cardinality(Iface)
  <2>1. CASE call[t].delta = -1
    <3>1. Owed(call[t]) = 1
      BY <1>2, <2>1 DEF Owed
    <3>2. n + 1 \in 0..Cardinality(Iface)
      BY <1>0, <1>4, <3>1
    <3>3. (n + 1) - failed \in (0 - UsizeMax)..UsizeMax
      BY <3>2, CountBounds
    <3>4. Wrap(Wrap((n + 1) - failed) + (-1)) = Wrap(((n + 1) - failed) + (-1))
      BY <3>3, WrapStep
    <3>5. ((n + 1) - failed) + (-1) = n - failed
      BY <1>0
    <3>6. refcount = Wrap((n + 1) - failed)
      BY <1>0, <1>4, <3>1
    <3>7. refcount' = Wrap(n - failed)
      BY <1>3, <2>1, <3>4, <3>5, <3>6
    <3>8. Live' = Live
      BY <1>3, <2>1 DEF Live
    <3> QED BY <1>0, <3>7, <3>8
  <2>2. CASE call[t].delta = 1 /\ nic[i].by = NoThread
    <3>1. Owed(call[t]) = 0 /\ i \in Iface
      BY <1>2, <2>2 DEF Owed, Named
    <3>2. n \in 0..Cardinality(Iface)
      BY <1>0
    <3>3. n - failed \in (0 - UsizeMax)..UsizeMax
      BY <3>2, CountBounds
    <3>4. Wrap(Wrap(n - failed) + 1) = Wrap((n - failed) + 1)
      BY <3>3, WrapStep
    <3>5. refcount = Wrap(n - failed)
      BY <1>0, <1>4, <3>1
    <3>6. Live' = Live \cup {i} /\ i \notin Live
      <4>1. t # NoThread
        BY DEF OneThread
      <4>2. nic' = [nic EXCEPT ![i].by = t] /\ nic \in [Iface -> NicRecord]
        BY <1>3, <2>2 DEF TypeOK, NicRecord
      <4>3. \A j \in Iface : nic'[j].by = IF j = i THEN t ELSE nic[j].by
        BY <4>2, <3>1 DEF NicRecord
      <4> QED BY <2>2, <3>1, <4>1, <4>3 DEF Live
    <3>7. m = n + 1
      BY <3>6, LiveFinite, FS_AddElement
    <3>8. n + 1 <= Cardinality(Iface)
      BY <3>1, <3>6, LiveFinite
    <3>9. (n - failed) + 1 = m - failed
      BY <1>0, <3>7
    <3> QED BY <1>3, <2>2, <3>4, <3>5, <3>7, <3>8, <3>9
  <2> QED BY <1>2, <2>1, <2>2
<1>6. Owed(call'[t]) = 0 /\ ~Counting(call'[t]) /\ call'[t].at = "idle"
  BY <1>3 DEF Idle, Owed, Counting
<1>7. m \in Nat
  <2>1. Live' \subseteq Iface
    BY DEF Live
  <2> QED BY <2>1, Numbers, FS_Subset, FS_CardinalityType
<1>8. /\ refcount' = Wrap((m + Owed(call'[t])) - failed')
      /\ m + Owed(call'[t]) <= Cardinality(Iface)
  BY <1>0, <1>3, <1>5, <1>6, <1>7
<1> QED BY <1>1, <1>6, <1>8 DEF CountFor, Counting

LEMMA CountStep ==
  ASSUME NEW t, OneThread(t), TypeOK /\ Named, ended = "no" => CountFor(t),
         [Next]_vars
  PROVE  ended' = "no" => CountFor(t)'
<1>0. t \in Thread
  BY DEF OneThread
<1>1. ASSUME Next PROVE ended' = "no" => CountFor(t)'
  <2>1. Step(t)
    BY <1>1 DEF Next, OneThread
  <2>2. ended = "no"
    BY <2>1 DEF Step, At, CallNew, CloseNic, InitPool, MakeUmem, RemakeUmem, CreateDrv,
       FallBack, UseDeleted, CreateSkb, AssignRings, FillRing, DropNew, Load, Store,
       AllocPacket, DropPacket, Receive
  <2> QED BY <1>0, <2>1, <2>2, OtherSteps, CountDropNew, CountClose, CountStore
<1>2. ASSUME UNCHANGED vars PROVE ended' = "no" => CountFor(t)'
  <2>1. UNCHANGED <<call, nic, refcount, failed, ended>> /\ Live' = Live
    BY <1>2 DEF vars, poolVars, Live
  <2> QED BY <2>1 DEF CountFor
<1> QED BY <1>1, <1>2

LEMMA CountInit == ASSUME NEW t, OneThread(t), Init PROVE CountFor(t)
<1>1. call[t] = Idle /\ Live = {} /\ refcount = 0 /\ failed = 0
  BY DEF OneThread, Init, Live, NoNic
<1>2. ~Counting(Idle) /\ Idle.at = "idle" /\ "idle" \notin Opening
  BY DEF Idle, Counting, Opening, Steps
<1>3. Owed(Idle) = 0 /\ Cardinality({}) = 0 /\ Cardinality(Iface) \in Nat
  BY <1>2, FS_EmptySet, LiveFinite DEF Owed
<1>4. Wrap(0 + 0 - 0) = 0
  BY Numbers, WrapNear
<1> QED BY <1>1, <1>2, <1>3, <1>4 DEF CountFor, Counting

(***************************************************************************)
(* A program with one thread: whenever it is outside the library, the      *)
(* reference count is the number of its open Nics less the calls of        *)
(* Nic::new that failed, modulo 2^w.  A Nic that Nic::new does not return  *)
(* is dropped without having been counted, so each failure is an error in  *)
(* the count that no later call repairs.                                   *)
(***************************************************************************)
THEOREM CountIsOwed ==
  ASSUME NEW t, OneThread(t)
  PROVE  Spec => []CountOwesFailures
<1> DEFINE I == TypeOK /\ Named /\ (ended = "no" => CountFor(t))
<1>1. Init => I
  <2>1. Init => TypeOK /\ Named
    BY InitType DEF Init, Idle, Named, Counting, Opening
  <2> QED BY <2>1, CountInit
<1>2. I /\ [Next]_vars => I'
  BY TypeStep, CountStep
<1>3. I => CountOwesFailures
  <2> SUFFICES ASSUME I, Quiet PROVE refcount = Wrap(Cardinality(Live) - failed)
    BY DEF CountOwesFailures
  <2>1. call[t].at = "idle" /\ ended = "no"
    BY DEF Quiet, OneThread
  <2>2. Owed(call[t]) = 0
    BY <2>1 DEF Owed, Counting
  <2>3. refcount = Wrap((Cardinality(Live) + Owed(call[t])) - failed)
    BY <2>1 DEF CountFor
  <2>4. Cardinality(Live) \in Nat /\ failed \in Nat
    BY LiveFinite, Numbers DEF TypeOK
  <2> QED BY <2>2, <2>3, <2>4
<1> QED BY <1>1, <1>2, <1>3, PTL DEF Spec
-----------------------------------------------------------------------------
(* One thread and no failed Nic::new: every Nic is on the current UMEM      *)

\* The count is zero just when no Nic is open.
LEMMA ZeroMeansClosed ==
  ASSUME TypeOK, NEW t \in Thread, OneThread(t), CountFor(t), failed = 0,
         call[t].at \in Opening \cup {"idle"}
  PROVE  refcount = Cardinality(Live) /\ (refcount = 0 <=> Live = {})
<1>1. Owed(call[t]) = 0
  BY DEF Owed, Counting, Opening, Steps
<1>2. refcount = Wrap((Cardinality(Live) + Owed(call[t])) - failed)
  BY DEF CountFor
<1>3. /\ Cardinality(Live) \in Nat /\ UsizeMax \in Nat
      /\ Cardinality(Live) <= UsizeMax
  BY LiveFinite, Numbers DEF OneThread
<1>4. (Cardinality(Live) + 0) - 0 = Cardinality(Live)
  BY <1>3
<1>5. Wrap(Cardinality(Live)) = Cardinality(Live)
  BY <1>3, WrapNear
<1>6. Cardinality(Live) = 0 <=> Live = {}
  BY LiveFinite, FS_EmptySet
<1> QED BY <1>1, <1>2, <1>4, <1>5, <1>6

\* What a call under way knows of the UMEM.
UmemFor(t) ==
  LET c == call[t]
  IN  /\ c.at \in {"umem", "umem again", "init again"} => Live = {}
      /\ c.at \in {"assign", "fill"} => ~deleted /\ c.sock = umem
      /\ Counting(c) /\ c.delta = 1 => ~deleted /\ nic[c.iface].umem = umem

UmemInv(t) ==
  /\ TypeOK /\ Named
  /\ ended = "no" => CountFor(t) /\ UmemFor(t)
  /\ CurrentUmem
  /\ RightBuffer

\* Without a failure, the steps of a call.
LEMMA UmemCall ==
  ASSUME NEW t \in Thread, OneThread(t), UmemInv(t), failed = 0, ended = "no",
         \/ InitPool(t, "init", "umem", "drv") \/ MakeUmem(t)
         \/ InitPool(t, "init again", "umem again", "skb") \/ RemakeUmem(t)
         \/ CreateDrv(t) \/ FallBack(t) \/ UseDeleted(t)
         \/ CreateSkb(t) \/ AssignRings(t)
  PROVE  CurrentUmem' /\ RightBuffer' /\ (ended' = "no" => UmemFor(t)')
<1> DEFINE c == call[t]
           d == call'[t]
<1>0. /\ TypeOK /\ CountFor(t) /\ UmemFor(t) /\ CurrentUmem /\ RightBuffer
      /\ call \in [Thread -> CallRecord] /\ c \in CallRecord
  BY DEF UmemInv, TypeOK, CallRecord
<1>1. Live' = Live /\ nic' = nic /\ packet' = packet /\ Kept' = Kept
  BY DEF Live, Kept, InitPool, MakeUmem, RemakeUmem, CreateDrv, FallBack, UseDeleted,
     CreateSkb, AssignRings
<1>2. RightBuffer'
  BY <1>0, <1>1 DEF RightBuffer
<1>3. ASSUME NEW s \in Steps, Goto(t, s) PROVE d.at = s
  BY <1>0, <1>3 DEF Goto, CallRecord
<1>4. c.at \in {"init", "fallback"} => (refcount = 0 <=> Live = {})
  BY <1>0, ZeroMeansClosed DEF Opening, Steps
<1>5. CASE InitPool(t, "init", "umem", "drv")
           \/ InitPool(t, "init again", "umem again", "skb")
  <2>1. umem' = umem /\ deleted' = deleted
    BY <1>5 DEF InitPool, poolVars
  <2>2. d.at \in {"umem", "umem again", "drv", "skb"}
        /\ (d.at \in {"umem", "umem again"} => Live = {})
    BY <1>0, <1>3, <1>4, <1>5 DEF InitPool, At, NeedsInit, UmemFor, Steps
  <2> QED BY <1>0, <1>1, <1>2, <2>1, <2>2 DEF CurrentUmem, UmemFor, Counting
<1>6. CASE MakeUmem(t) \/ RemakeUmem(t)
  <2>1. Live = {}
    BY <1>0, <1>6 DEF MakeUmem, RemakeUmem, At, UmemFor
  <2>2. d.at \in {"umem", "drv", "skb", "dropnew"} \/ ended' # "no"
    BY <1>3, <1>6 DEF MakeUmem, RemakeUmem, Steps
  <2> QED BY <1>1, <1>2, <2>1, <2>2 DEF CurrentUmem, UmemFor, Counting
<1>7. CASE CreateDrv(t) \/ CreateSkb(t)
  <2>1. umem' = umem /\ deleted' = deleted /\ ~deleted
    BY <1>7 DEF CreateDrv, CreateSkb, poolVars
  <2>2. d.at \in {"assign", "fallback", "dropnew"} /\ (d.at = "assign" => d.sock = umem)
    <3>1. CASE \E s \in {"fallback", "dropnew"} : Goto(t, s)
      BY <1>3, <3>1 DEF Steps
    <3>2. CASE call' = [call EXCEPT ![t].at = "assign", ![t].sock = umem,
                                    ![t].ring = umem]
      BY <1>0, <3>2 DEF CallRecord
    <3>3. CASE call' = [call EXCEPT ![t].at = "assign", ![t].sock = umem]
      BY <1>0, <3>3 DEF CallRecord
    <3> QED BY <1>7, <3>1, <3>2, <3>3 DEF CreateDrv, CreateSkb
  <2> QED BY <1>0, <1>1, <1>2, <2>1, <2>2 DEF CurrentUmem, UmemFor, Counting
<1>8. CASE FallBack(t)
  <2>1. umem' = umem /\ c.at = "fallback"
    BY <1>8 DEF FallBack, At
  <2>2. CASE refcount = 0
    <3>1. Live = {} /\ d.at = "init again"
      BY <1>3, <1>4, <1>8, <2>1, <2>2 DEF FallBack, Steps
    <3> QED BY <1>1, <1>2, <3>1 DEF CurrentUmem, UmemFor, Counting
  <2>3. CASE refcount # 0
    <3>1. deleted' = deleted /\ d.at = "skb"
      BY <1>3, <1>8, <2>3 DEF FallBack, Steps
    <3> QED BY <1>0, <1>1, <1>2, <2>1, <3>1 DEF CurrentUmem, UmemFor, Counting
  <2> QED BY <2>2, <2>3
<1>9. CASE UseDeleted(t)
  BY <1>0, <1>1, <1>2, <1>9 DEF UseDeleted, poolVars, CurrentUmem
<1>10. CASE AssignRings(t)
  <2>1. umem' = umem /\ deleted' = deleted /\ c.at = "assign" /\ ~deleted /\ c.sock = umem
    BY <1>0, <1>10 DEF AssignRings, At, UmemFor
  <2>2. d.at = "fill" /\ d.sock = c.sock
    <3>1. CASE Goto(t, "fill")
      BY <1>0, <3>1 DEF Goto, CallRecord
    <3>2. CASE call' = [call EXCEPT ![t].at = "fill", ![t].ring = stored]
      BY <1>0, <3>2 DEF CallRecord
    <3> QED BY <1>10, <3>1, <3>2 DEF AssignRings
  <2> QED BY <1>0, <1>1, <1>2, <2>1, <2>2 DEF CurrentUmem, UmemFor, Counting
<1> QED BY <1>5, <1>6, <1>7, <1>8, <1>9, <1>10

\* The steps that create, count and close a Nic.
LEMMA UmemNic ==
  ASSUME NEW t \in Thread, OneThread(t), UmemInv(t), failed = 0, failed' = 0,
         ended = "no",
         \/ FillRing(t) \/ DropNew(t) \/ Load(t) \/ Store(t)
         \/ \E i \in Iface : CallNew(t, i) \/ CloseNic(t, i)
  PROVE  CurrentUmem' /\ RightBuffer' /\ (ended' = "no" => UmemFor(t)')
<1> DEFINE c == call[t]
           d == call'[t]
<1>0. /\ TypeOK /\ Named /\ CountFor(t) /\ UmemFor(t) /\ CurrentUmem /\ RightBuffer
      /\ call \in [Thread -> CallRecord] /\ c \in CallRecord
      /\ nic \in [Iface -> NicRecord]
  BY DEF UmemInv, TypeOK, CallRecord, NicRecord
<1>1. umem' = umem /\ deleted' = deleted /\ packet' = packet /\ Kept' = Kept
  BY DEF FillRing, DropNew, Load, Store, CallNew, CloseNic, poolVars, Kept
<1>2. RightBuffer'
  BY <1>0, <1>1 DEF RightBuffer
<1>3. CASE FillRing(t)
  <2>0. /\ c.at = "fill" /\ ~deleted /\ c.sock = umem /\ c.iface \in Iface
        /\ nic[c.iface].by = NoThread
    BY <1>0, <1>3 DEF FillRing, At, UmemFor, Named, CountFor, Opening, Steps
  <2>1. ASSUME NEW C,
               nic' = [nic EXCEPT ![c.iface].umem = c.sock, ![c.iface].fill = C],
               call' = [call EXCEPT ![t].at = "load", ![t].delta = 1]
        PROVE  CurrentUmem' /\ UmemFor(t)'
    <3>1. d.at = "load" /\ d.delta = 1 /\ d.iface = c.iface
      BY <1>0, <2>1 DEF CallRecord
    <3>2. /\ nic'[c.iface].umem = umem /\ nic'[c.iface].by = NoThread
          /\ \A i \in Iface \ {c.iface} : nic'[i] = nic[i]
      BY <1>0, <2>0, <2>1 DEF NicRecord
    <3>3. CurrentUmem'
      BY <1>0, <1>1, <2>0, <3>2 DEF CurrentUmem, Live
    <3> QED BY <1>1, <2>0, <3>1, <3>2, <3>3 DEF UmemFor, Counting
  <2>2. CASE nic' = nic /\ (ended' = "segfault" \/ Goto(t, "dropnew"))
    <3>1. CurrentUmem'
      BY <1>0, <1>1, <2>2 DEF CurrentUmem, Live
    <3>2. ended' = "no" => d.at = "dropnew"
      BY <1>0, <2>2 DEF Goto, CallRecord
    <3> QED BY <1>1, <1>2, <3>1, <3>2 DEF UmemFor, Counting
  <2> QED BY <1>2, <1>3, <2>1, <2>2 DEF FillRing
<1>4. ~DropNew(t)
  BY DEF DropNew
<1>5. CASE Load(t)
  <2>1. /\ d.at = "store" /\ d.delta = c.delta /\ d.iface = c.iface /\ c.at = "load"
        /\ nic' = nic
    BY <1>0, <1>5 DEF Load, At, CallRecord
  <2> QED BY <1>0, <1>1, <1>2, <2>1 DEF UmemFor, Counting, CurrentUmem, Live
<1>6. CASE Store(t)
  <2>1. /\ Counting(c)
        /\ nic' = nic \/ (c.delta = 1 /\ nic' = [nic EXCEPT ![c.iface].by = t])
        /\ ended' = "no" => d.at = "idle"
    BY <1>0, <1>6 DEF Store, At, Counting, Idle
  <2>2. CASE nic' = nic
    BY <1>0, <1>1, <1>2, <2>1, <2>2 DEF UmemFor, Counting, CurrentUmem, Live
  <2>3. CASE nic' = [nic EXCEPT ![c.iface].by = t] /\ c.delta = 1
    <3>1. ~deleted /\ nic[c.iface].umem = umem /\ c.iface \in Iface
      BY <1>0, <2>1, <2>3 DEF UmemFor, Named
    <3>2. \A i \in Iface : /\ nic'[i].umem = nic[i].umem
                           /\ i # c.iface => nic'[i].by = nic[i].by
      BY <1>0, <2>3, <3>1 DEF NicRecord
    <3>3. CurrentUmem'
      BY <1>0, <1>1, <3>1, <3>2 DEF CurrentUmem, Live
    <3> QED BY <1>2, <2>1, <3>3 DEF UmemFor, Counting
  <2> QED BY <2>1, <2>2, <2>3
<1>7. ASSUME NEW i \in Iface, CallNew(t, i)
      PROVE  CurrentUmem' /\ UmemFor(t)'
  <2>1. d.at = "init" /\ nic' = nic
    BY <1>0, <1>7 DEF CallNew, Idle
  <2> QED BY <1>0, <1>1, <2>1 DEF CurrentUmem, Live, UmemFor, Counting
<1>8. ASSUME NEW i \in Iface, CloseNic(t, i)
      PROVE  CurrentUmem' /\ UmemFor(t)'
  <2>1. d.at = "load" /\ d.delta = -1 /\ nic' = [nic EXCEPT ![i] = NoNic]
    BY <1>0, <1>8 DEF CloseNic, Idle
  <2>2. CurrentUmem'
    BY <1>0, <1>1, <2>1 DEF CurrentUmem, Live, NoNic
  <2> QED BY <2>1, <2>2 DEF UmemFor, Counting
<1> QED BY <1>2, <1>3, <1>4, <1>5, <1>6, <1>7, <1>8

\* Packets come from the current UMEM.
LEMMA UmemPacket ==
  ASSUME NEW t \in Thread, OneThread(t), UmemInv(t), failed = 0, ended = "no", NEW s \in Slot,
         \/ AllocPacket(t, s) \/ DropPacket(t, s)
         \/ \E i \in Iface : Receive(t, i, s)
  PROVE  CurrentUmem' /\ RightBuffer' /\ UmemFor(t)'
<1>0. /\ TypeOK /\ UmemFor(t) /\ CurrentUmem /\ RightBuffer
      /\ nic \in [Iface -> NicRecord] /\ packet \in [Slot -> PacketRecord \cup {NoPacket}]
      /\ t # NoThread
  BY DEF UmemInv, TypeOK, NicRecord, PacketRecord, OneThread
<1>1. umem' = umem /\ deleted' = deleted /\ call' = call /\ call[t].at = "idle"
  BY DEF AllocPacket, DropPacket, Receive, At
<1>2. \A i \in Iface : nic'[i].umem = nic[i].umem /\ nic'[i].by = nic[i].by
  <2>1. CASE nic' = nic
    BY <2>1
  <2>2. ASSUME NEW i \in Iface, Receive(t, i, s)
        PROVE  \A j \in Iface : nic'[j].umem = nic[j].umem /\ nic'[j].by = nic[j].by
    BY <1>0, <2>2 DEF Receive, NicRecord
  <2> QED BY <2>1, <2>2 DEF AllocPacket, DropPacket
<1>3. CurrentUmem' /\ UmemFor(t)'
  BY <1>0, <1>1, <1>2 DEF CurrentUmem, Live, UmemFor, Counting
<1>4. RightBuffer'
  <2>1. ASSUME NEW p, packet' = [packet EXCEPT ![s] = p], p = NoPacket \/ p.buffer = p.data
        PROVE  RightBuffer'
    BY <1>0, <2>1 DEF RightBuffer, Kept
  <2>2. CASE AllocPacket(t, s)
    BY <2>1, <2>2 DEF AllocPacket
  <2>3. CASE DropPacket(t, s)
    BY <2>1, <2>3 DEF DropPacket
  <2>4. ASSUME NEW i \in Iface, Receive(t, i, s) PROVE RightBuffer'
    <3>1. i \in Live /\ nic[i].umem = umem
      BY <1>0, <2>4 DEF Receive, Live, CurrentUmem
    <3> QED BY <2>1, <2>4, <3>1 DEF Receive
  <2> QED BY <2>2, <2>3, <2>4
<1> QED BY <1>3, <1>4

LEMMA UmemStep ==
  ASSUME NEW t, OneThread(t), UmemInv(t), failed = 0, failed' = 0, [Next]_vars
  PROVE  UmemInv(t)'
<1>0. t \in Thread /\ TypeOK /\ Named
  BY DEF OneThread, UmemInv
<1>1. TypeOK' /\ Named' /\ (ended' = "no" => CountFor(t)')
  BY <1>0, TypeStep, CountStep DEF UmemInv
<1>2. ASSUME Next
      PROVE  CurrentUmem' /\ RightBuffer' /\ (ended' = "no" => UmemFor(t)')
  <2>1. Step(t)
    BY <1>2 DEF Next, OneThread
  <2>2. ended = "no"
    BY <2>1 DEF Step, At, CallNew, CloseNic, InitPool, MakeUmem, RemakeUmem, CreateDrv,
       FallBack, UseDeleted, CreateSkb, AssignRings, FillRing, DropNew, Load, Store,
       AllocPacket, DropPacket, Receive
  <2> QED BY <1>0, <2>1, <2>2, UmemCall, UmemNic, UmemPacket DEF Step
<1>3. ASSUME UNCHANGED vars
      PROVE  CurrentUmem' /\ RightBuffer' /\ (ended' = "no" => UmemFor(t)')
  <2>1. UNCHANGED <<call, nic, packet, umem, deleted, ended>> /\ Live' = Live /\ Kept' = Kept
    BY <1>3 DEF vars, poolVars, Live, Kept
  <2> QED BY <2>1 DEF UmemInv, CurrentUmem, RightBuffer, UmemFor
<1> QED BY <1>1, <1>2, <1>3 DEF UmemInv

LEMMA UmemInit == ASSUME NEW t, OneThread(t), Init PROVE UmemInv(t)
<1>1. TypeOK /\ Named
  BY InitType DEF Init, Idle, Named, Counting, Opening
<1>2. CountFor(t) /\ UmemFor(t)
  <2>1. call[t].at = "idle"
    BY DEF Init, Idle, OneThread
  <2> QED BY <2>1, CountInit DEF UmemFor, Counting
<1>3. CurrentUmem /\ RightBuffer
  BY DEF Init, CurrentUmem, RightBuffer, Live, Kept, NoNic
<1> QED BY <1>1, <1>2, <1>3 DEF UmemInv

\* A failure is never forgotten.
LEMMA FailedStays ==
  ASSUME TypeOK, [Next]_vars, failed' = 0
  PROVE  failed = 0
<1>1. failed \in Nat
  BY Numbers DEF TypeOK
<1>2. ASSUME NEW t \in Thread, Step(t) PROVE failed' = failed \/ failed' = failed + 1
  <2>1. CASE MakeUmem(t) \/ RemakeUmem(t)
    BY <2>1 DEF MakeUmem, RemakeUmem, ReInit, poolVars
  <2>2. CASE ~MakeUmem(t) /\ ~RemakeUmem(t)
    BY <1>2, <2>2 DEF Step, CallNew, CloseNic, InitPool, CreateDrv, FallBack, UseDeleted,
       CreateSkb, AssignRings, FillRing, DropNew, Load, Store, AllocPacket, DropPacket,
       Receive, poolVars
  <2> QED BY <2>1, <2>2
<1>3. failed' = failed \/ failed' = failed + 1
  BY <1>2 DEF Next, vars, poolVars
<1> QED BY <1>1, <1>3

(***************************************************************************)
(* A program with one thread, as long as no call of its Nic::new has       *)
(* failed: however it opens, falls back, closes and reopens, and whatever  *)
(* Packets it keeps, Pool::re_init and the deletion of a UMEM never happen *)
(* under an open Nic, and the buffer pointer of a Packet is of the UMEM    *)
(* that holds its payload.                                                 *)
(***************************************************************************)
THEOREM UmemIsRight ==
  ASSUME NEW t, OneThread(t)
  PROVE  Spec => []CurrentUmem /\ []RightBuffer
<1> DEFINE I == TypeOK /\ Named /\ (failed = 0 => UmemInv(t))
<1>1. Init => I
  BY UmemInit DEF UmemInv
<1>2. I /\ [Next]_vars => I'
  BY TypeStep, FailedStays, UmemStep
<1>3. I => CurrentUmem /\ RightBuffer
  BY DEF UmemInv, CurrentUmem, RightBuffer
<1> QED BY <1>1, <1>2, <1>3, PTL DEF Spec

(***************************************************************************)
(* In such a program the buffer pointer of a Packet stays right for as     *)
(* long as the Packet lives, be its Nic open or closed, and whatever Nics  *)
(* are opened after it.                                                    *)
(***************************************************************************)
THEOREM BuffersAreRight ==
  ASSUME NEW t, OneThread(t)
  PROVE  Spec => []RightBuffer
<1>1. Spec => []CurrentUmem /\ []RightBuffer
  BY UmemIsRight
<1> QED BY <1>1, PTL
-----------------------------------------------------------------------------
(* One tidy thread and no failed Nic::new: every chunk has one owner        *)

\* Rings are filled only for a Nic that is open or about to be counted, and
\* the first Nic is opened when no Packet is left.
OwnerFor(t) ==
  LET c == call[t]
  IN  /\ \A i \in Iface : nic[i].fill # {} =>
           i \in Live \/ (Counting(c) /\ c.delta = 1 /\ c.iface = i)
      /\ c.at \in Opening /\ Live = {} => Kept = {}

Owners(t) == OneOwner /\ Accounted /\ (ended = "no" => OwnerFor(t))

OwnInv(t) == UmemInv(t) /\ Owners(t)

LEMMA Stages == {"idle", "load", "store"} \cap Opening = {}
BY DEF Opening

\* Steps that move no chunk.
LEMMA OwnCall ==
  ASSUME NEW t \in Thread, OneThread(t), OwnInv(t), failed = 0, Tidy, ended = "no",
         UNCHANGED <<umem, nic, packet, free, lost>>,
         \/ call[t].at \in Opening
         \/ Load(t)
         \/ \E i \in Iface : CallNew(t, i)
  PROVE  Owners(t)'
<1> DEFINE c == call[t]
           d == call'[t]
<1>0. /\ OwnerFor(t) /\ OneOwner /\ Accounted
      /\ call \in [Thread -> CallRecord]
  BY DEF OwnInv, Owners, UmemInv, TypeOK, CallRecord
<1>1. Live' = Live /\ Kept' = Kept
  BY DEF Live, Kept
<1>2. OneOwner' /\ Accounted'
  BY <1>0, <1>1 DEF OneOwner, Accounted
<1>3. CASE c.at \in Opening
  BY <1>0, <1>1, <1>2, <1>3, Stages DEF Owners, OwnerFor, Counting
<1>4. CASE Load(t)
  <2>1. /\ c.at = "load" /\ d.at = "store" /\ d.delta = c.delta /\ d.iface = c.iface
    BY <1>0, <1>4 DEF Load, At, CallRecord
  <2> QED BY <1>0, <1>1, <1>2, <2>1, Stages DEF Owners, OwnerFor, Counting
<1>5. CASE \E i \in Iface : CallNew(t, i)
  <2>1. c.at = "idle" /\ (Live = {} => Kept = {})
    BY <1>5 DEF CallNew, At
  <2> QED BY <1>0, <1>1, <1>2, <2>1, Stages DEF Owners, OwnerFor, Counting
<1> QED BY <1>3, <1>4, <1>5

\* A UMEM is made when no chunk of the last one is in use.
LEMMA OwnUmem ==
  ASSUME NEW t \in Thread, OneThread(t), OwnInv(t), failed = 0, ended = "no", ReInit,
         call[t].at \in {"umem", "umem again"}, UNCHANGED <<nic, packet>>
  PROVE  Owners(t)'
<1>0. OwnerFor(t) /\ UmemFor(t) /\ {"umem", "umem again"} \subseteq Opening
  BY DEF OwnInv, Owners, UmemInv, Opening, Steps
<1>1. Live = {} /\ Kept = {} /\ Live' = {} /\ Kept' = {}
  BY <1>0 DEF UmemFor, OwnerFor, Live, Kept
<1>2. \A i \in Iface : nic'[i].fill = {}
  BY <1>0, <1>1, Stages DEF OwnerFor, Counting
<1>3. OneOwner'
  BY <1>1, <1>2 DEF OneOwner
<1>4. Accounted'
  BY DEF Accounted, ReInit
<1> QED BY <1>1, <1>2, <1>3, <1>4 DEF Owners, OwnerFor

\* A ring is filled.
LEMMA OwnFill ==
  ASSUME NEW t \in Thread, OneThread(t), OwnInv(t), failed = 0, ended = "no", FillRing(t)
  PROVE  Owners(t)'
<1> DEFINE c == call[t]
           d == call'[t]
           i == c.iface
<1>0. /\ TypeOK /\ OwnerFor(t) /\ OneOwner /\ Accounted /\ CountFor(t) /\ Named
      /\ call \in [Thread -> CallRecord] /\ c \in CallRecord
      /\ nic \in [Iface -> NicRecord]
  BY DEF OwnInv, Owners, UmemInv, TypeOK, CallRecord, NicRecord
<1>1. c.at = "fill" /\ c.at \in Opening /\ ~Counting(c)
  BY DEF FillRing, At, Opening, Steps, Counting
<1>2. i \in Iface /\ i \notin Live /\ nic[i].by = NoThread
  BY <1>0, <1>1 DEF Named, CountFor, Live
<1>3. nic[i].fill = {}
  BY <1>0, <1>1, <1>2 DEF OwnerFor
<1>4. umem' = umem /\ packet' = packet /\ Kept' = Kept
  BY DEF FillRing, Kept
<1>5. CASE UNCHANGED <<free, lost, nic, call>>
  BY <1>0, <1>1, <1>4, <1>5, OwnCall DEF Owners, OneOwner, Accounted, OwnerFor, Live
<1>6. ASSUME NEW C \in SUBSET free, free' = free \ C, lost' = lost,
             nic' = [nic EXCEPT ![i].umem = c.sock, ![i].fill = C],
             call' = [call EXCEPT ![t].at = "load", ![t].delta = 1]
      PROVE  Owners(t)'
  <2>1. d.at = "load" /\ d.delta = 1 /\ d.iface = i
    BY <1>0, <1>6 DEF CallRecord
  <2>2. /\ nic'[i].fill = C /\ nic'[i].by = nic[i].by
        /\ \A j \in Iface \ {i} : nic'[j] = nic[j]
    BY <1>0, <1>2, <1>6 DEF NicRecord
  <2>3. Live' = Live
    BY <1>2, <2>2 DEF Live
  <2>4. OneOwner'
    BY <1>0, <1>2, <1>4, <1>6, <2>2 DEF OneOwner
  <2>5. Accounted'
    <3> SUFFICES ASSUME umem # 0, NEW x \in Chunk
                 PROVE  \/ \E j \in Iface : x \in nic'[j].fill
                        \/ x \in free' \/ x \in lost'
                        \/ \E s \in Kept' : x = packet'[s].chunk
      BY <1>4 DEF Accounted
    <3>1. \/ \E j \in Iface : x \in nic[j].fill
          \/ x \in free \/ x \in lost
          \/ \E s \in Kept : x = packet[s].chunk
      BY <1>0 DEF Accounted, OwnInv
    <3> QED BY <1>2, <1>3, <1>4, <1>6, <2>2, <3>1
  <2>6. OwnerFor(t)'
    BY <1>0, <1>1, <2>1, <2>2, <2>3, Stages DEF OwnerFor, Counting
  <2> QED BY <2>4, <2>5, <2>6 DEF Owners
<1>7. CASE free' = {} /\ lost' = lost \cup free /\ nic' = nic /\ Goto(t, "dropnew")
  <2>1. Live' = Live
    BY <1>7 DEF Live
  <2>2. OneOwner'
    BY <1>0, <1>4, <1>7 DEF OneOwner
  <2>3. Accounted'
    BY <1>0, <1>4, <1>7 DEF Accounted
  <2> QED BY <1>0, <1>1, <1>4, <1>7, <2>1, <2>2, <2>3 DEF Owners, OwnerFor
<1> QED BY <1>5, <1>6, <1>7 DEF FillRing

\* A Nic is counted, or its drop is.
LEMMA OwnStore ==
  ASSUME NEW t \in Thread, OneThread(t), OwnInv(t), failed = 0, ended = "no", Store(t)
  PROVE  Owners(t)'
<1> DEFINE c == call[t]
           d == call'[t]
<1>0. /\ TypeOK /\ OwnerFor(t) /\ OneOwner /\ Accounted /\ Named
      /\ call \in [Thread -> CallRecord] /\ nic \in [Iface -> NicRecord]
      /\ t # NoThread
  BY DEF OwnInv, Owners, UmemInv, TypeOK, CallRecord, NicRecord, OneThread
<1>1. UNCHANGED <<umem, free, lost, packet>> /\ Kept' = Kept
  BY DEF Store, Kept
<1>2. /\ c.at = "store" /\ Counting(c)
      /\ ended' = "no" => d.at = "idle" /\ (c.delta = 1 =>
                            nic' = [nic EXCEPT ![c.iface].by = t])
      /\ nic' = nic \/ (c.delta = 1 /\ nic' = [nic EXCEPT ![c.iface].by = t])
  BY <1>0 DEF Store, At, Counting, Idle
<1>3. \A i \in Iface : nic'[i].fill = nic[i].fill
  BY <1>0, <1>2 DEF NicRecord
<1>4. OneOwner' /\ Accounted'
  <2>1. OneOwner'
    BY <1>0, <1>1, <1>3 DEF OneOwner
  <2>2. Accounted'
    BY <1>0, <1>1, <1>3 DEF Accounted
  <2> QED BY <2>1, <2>2
<1>5. ASSUME ended' = "no" PROVE OwnerFor(t)'
  <2>1. d.at = "idle"
    BY <1>2, <1>5
  <2>2. ASSUME NEW i \in Iface, nic'[i].fill # {} PROVE i \in Live'
    <3>1. i \in Live \/ (c.delta = 1 /\ c.iface = i)
      BY <1>0, <1>3, <2>2 DEF OwnerFor
    <3>2. CASE i \in Live
      BY <1>0, <1>2, <3>2 DEF Live, NicRecord
    <3>3. CASE c.delta = 1 /\ c.iface = i
      <4>1. nic' = [nic EXCEPT ![i].by = t]
        BY <1>2, <1>5, <3>3
      <4> QED BY <1>0, <4>1 DEF Live, NicRecord
    <3> QED BY <3>1, <3>2, <3>3
  <2> QED BY <2>1, <2>2, Stages DEF OwnerFor, Counting
<1> QED BY <1>4, <1>5 DEF Owners

\* A Nic is closed: it was on the current UMEM, its chunks are lost.
LEMMA OwnClose ==
  ASSUME NEW t \in Thread, OneThread(t), OwnInv(t), failed = 0, ended = "no",
         NEW i \in Iface, CloseNic(t, i)
  PROVE  Owners(t)'
<1> DEFINE c == call[t]
           d == call'[t]
<1>0. /\ TypeOK /\ OwnerFor(t) /\ OneOwner /\ Accounted /\ CurrentUmem
      /\ call \in [Thread -> CallRecord] /\ nic \in [Iface -> NicRecord]
      /\ t # NoThread
  BY DEF OwnInv, Owners, UmemInv, TypeOK, CallRecord, NicRecord, OneThread
<1>1. UNCHANGED <<umem, free, packet, ended>> /\ Kept' = Kept
  BY DEF CloseNic, Kept
<1>2. i \in Live /\ nic[i].umem = umem
  BY <1>0 DEF CloseNic, Live, CurrentUmem
<1>3. lost' = lost \cup nic[i].fill
  BY <1>2 DEF CloseNic
<1>4. /\ nic'[i].fill = {} /\ nic'[i].by = NoThread
      /\ \A j \in Iface \ {i} : nic'[j] = nic[j]
  BY <1>0 DEF CloseNic, NoNic
<1>5. c.at = "idle" /\ d.at = "load" /\ ~Counting(c)
  BY <1>0 DEF CloseNic, At, Idle, Counting
<1>6. OneOwner'
  BY <1>0, <1>1, <1>4 DEF OneOwner
<1>7. Accounted'
  <2> SUFFICES ASSUME umem # 0, NEW x \in Chunk
               PROVE  \/ \E j \in Iface : x \in nic'[j].fill
                      \/ x \in free' \/ x \in lost'
                      \/ \E s \in Kept' : x = packet'[s].chunk
    BY <1>1 DEF Accounted
  <2>1. \/ \E j \in Iface : x \in nic[j].fill
        \/ x \in free \/ x \in lost
        \/ \E s \in Kept : x = packet[s].chunk
    BY <1>0 DEF Accounted
  <2> QED BY <1>1, <1>3, <1>4, <2>1
<1>8. OwnerFor(t)'
  <2>1. \A j \in Iface : nic'[j].fill # {} => j \in Live'
    BY <1>0, <1>4, <1>5 DEF OwnerFor, Live
  <2> QED BY <1>5, <2>1, Stages DEF OwnerFor, Counting
<1> QED BY <1>6, <1>7, <1>8 DEF Owners
\* A chunk that no one is missing has one of these owners.
Owned(x) ==
  \/ \E j \in Iface : x \in nic[j].fill
  \/ x \in free \/ x \in lost
  \/ \E s \in Kept : x = packet[s].chunk

LEMMA OwnedChunks ==
  Accounted <=> (failed = 0 /\ ended = "no" /\ umem # 0 => \A x \in Chunk : Owned(x))
<1> DEFINE U == UNION {nic[i].fill : i \in Iface}
           P == {packet[s].chunk : s \in Kept}
<1>1. \A x : x \in U <=> \E j \in Iface : x \in nic[j].fill
  OBVIOUS
<1>2. \A x : x \in P <=> \E s \in Kept : x = packet[s].chunk
  OBVIOUS
<1>3. Accounted <=>
        (failed = 0 /\ ended = "no" /\ umem # 0
           => Chunk \subseteq U \cup free \cup lost \cup P)
  BY DEF Accounted
<1> HIDE DEF U, P
<1>4. Chunk \subseteq U \cup free \cup lost \cup P
        <=> \A x \in Chunk : x \in U \/ x \in free \/ x \in lost \/ x \in P
  OBVIOUS
<1> QED BY <1>1, <1>2, <1>3, <1>4 DEF Owned

LEMMA OwnedChunksNext ==
  Accounted' <=> (failed = 0 /\ ended = "no" /\ umem # 0 => \A x \in Chunk : Owned(x))'
BY OwnedChunks, PTL

\* Chunks pass between the pool, a Packet and a ring.
LEMMA OwnAlloc ==
  ASSUME NEW t \in Thread, OneThread(t), OwnInv(t), failed = 0, ended = "no",
         NoPacket \notin PacketRecord, NEW s \in Slot, AllocPacket(t, s)
  PROVE  Owners(t)'
<1>0. /\ TypeOK /\ OwnerFor(t) /\ OneOwner /\ Accounted
      /\ packet \in [Slot -> PacketRecord \cup {NoPacket}]
  BY DEF OwnInv, Owners, UmemInv, TypeOK, PacketRecord
<1>1. UNCHANGED <<umem, nic, lost, call, ended>> /\ Live' = Live /\ s \notin Kept
      /\ call[t].at = "idle"
  BY DEF AllocPacket, Live, Kept, At
<1>2. PICK c \in free :
        /\ free' = free \ {c}
        /\ packet' = [packet EXCEPT ![s] =
                       [chunk |-> c, data |-> umem, buffer |-> umem, by |-> t]]
  BY DEF AllocPacket
<1>3. packet'[s].chunk = c /\ \A r \in Slot \ {s} : packet'[r] = packet[r]
  BY <1>0, <1>2
<1>4. Kept' = Kept \cup {s}
  <2>1. packet'[s] \in PacketRecord
    BY <1>0, <1>2 DEF TypeOK, PacketRecord
  <2> QED BY <1>1, <1>3, <2>1 DEF Kept
<1>5. OneOwner'
  BY <1>0, <1>1, <1>2, <1>3, <1>4 DEF OneOwner, Kept
<1>6. Accounted'
  <2>1. ASSUME NEW x, Owned(x) PROVE Owned(x)'
    BY <1>1, <1>2, <1>3, <1>4, <2>1 DEF Owned, Kept
  <2>2. (\A x \in Chunk : Owned(x)) => (\A x \in Chunk : Owned(x)')
    BY <2>1
  <2> QED BY <1>0, <1>1, <2>2, OwnedChunks, OwnedChunksNext
<1> QED BY <1>0, <1>1, <1>5, <1>6, Stages DEF Owners, OwnerFor, Counting

LEMMA OwnReceive ==
  ASSUME NEW t \in Thread, OneThread(t), OwnInv(t), failed = 0, ended = "no",
         NoPacket \notin PacketRecord, NEW s \in Slot, NEW i \in Iface,
         Receive(t, i, s)
  PROVE  Owners(t)'
<1>0. /\ TypeOK /\ OwnerFor(t) /\ OneOwner /\ Accounted
      /\ packet \in [Slot -> PacketRecord \cup {NoPacket}]
      /\ nic \in [Iface -> NicRecord] /\ t # NoThread
  BY DEF OwnInv, Owners, UmemInv, TypeOK, PacketRecord, NicRecord, OneThread
<1>1. UNCHANGED <<umem, lost, call>> /\ s \notin Kept /\ call[t].at = "idle" /\ i \in Live
  BY <1>0 DEF Receive, Live, Kept, At
<1>2. PICK c \in nic[i].fill :
        /\ packet' = [packet EXCEPT ![s] =
             [chunk |-> c, data |-> nic[i].umem, buffer |-> umem, by |-> t]]
        /\ \/ \E d \in free :
                /\ free' = free \ {d}
                /\ nic' = [nic EXCEPT ![i].fill = (@ \ {c}) \cup {d}]
                /\ UNCHANGED ended
           \/ /\ free = {}
              /\ nic' = [nic EXCEPT ![i].fill = @ \ {c}]
              /\ ended' = "abort"
              /\ UNCHANGED free
  BY DEF Receive
<1>3. packet'[s].chunk = c /\ \A r \in Slot \ {s} : packet'[r] = packet[r]
  BY <1>0, <1>2
<1>4. Kept' = Kept \cup {s}
  <2>1. c \in Chunk /\ nic[i].umem \in 0..MaxUmem /\ umem \in 0..MaxUmem
    BY DEF OwnInv, UmemInv, TypeOK
  <2>2. [chunk |-> c, data |-> nic[i].umem, buffer |-> umem, by |-> t] \in PacketRecord
    BY <2>1 DEF PacketRecord
  <2>3. packet'[s] \in PacketRecord
    BY <1>0, <1>2, <2>2
  <2> QED BY <1>1, <1>3, <2>3 DEF Kept
<1>5. /\ \A j \in Iface : nic'[j].by = nic[j].by
      /\ \A j \in Iface \ {i} : nic'[j] = nic[j]
      /\ nic[i].fill \ {c} \subseteq nic'[i].fill
      /\ nic'[i].fill \subseteq (nic[i].fill \ {c}) \cup (free \ free')
      /\ free' \subseteq free
  <2>1. PICK R : /\ nic' = [nic EXCEPT ![i].fill = R]
                 /\ nic[i].fill \ {c} \subseteq R
                 /\ R \subseteq (nic[i].fill \ {c}) \cup (free \ free')
    <3>1. CASE nic' = [nic EXCEPT ![i].fill = @ \ {c}]
      <4>1. nic' = [nic EXCEPT ![i].fill = nic[i].fill \ {c}]
        BY <3>1
      <4> QED BY <4>1
    <3>2. ASSUME NEW d \in free, free' = free \ {d},
                 nic' = [nic EXCEPT ![i].fill = (@ \ {c}) \cup {d}]
          PROVE  \E R : /\ nic' = [nic EXCEPT ![i].fill = R]
                        /\ nic[i].fill \ {c} \subseteq R
                        /\ R \subseteq (nic[i].fill \ {c}) \cup (free \ free')
      <4>1. nic' = [nic EXCEPT ![i].fill = (nic[i].fill \ {c}) \cup {d}]
        BY <3>2
      <4>2. d \in free \ free'
        BY <3>2
      <4> DEFINE S == (nic[i].fill \ {c}) \cup {d}
      <4>3. nic[i].fill \ {c} \subseteq S /\ S \subseteq (nic[i].fill \ {c}) \cup (free \ free')
        BY <4>2
      <4> HIDE DEF S
      <4> WITNESS S
      <4> QED BY <4>1, <4>3 DEF S
    <3> QED BY <1>2, <3>1, <3>2
  <2>2. /\ nic'[i].fill = R /\ \A j \in Iface \ {i} : nic'[j] = nic[j]
        /\ \A j \in Iface : nic'[j].by = nic[j].by
    BY <1>0, <2>1 DEF NicRecord
  <2> QED BY <1>2, <2>1, <2>2
<1>6. ended' = "no" => free \subseteq free' \cup nic'[i].fill
  BY <1>0, <1>2 DEF NicRecord
<1>7. Live' = Live
  BY <1>5 DEF Live
<1>8. OneOwner'
  <2>1. \A j \in Iface : nic'[j].fill \cap free' = {}
    BY <1>0, <1>5 DEF OneOwner
  <2>2. \A j, k \in Iface : j # k => nic'[j].fill \cap nic'[k].fill = {}
    BY <1>0, <1>5 DEF OneOwner
  <2>3. c \notin free /\ \A j \in Iface : c \notin nic'[j].fill
    <3>1. c \notin free /\ \A j \in Iface \ {i} : c \notin nic[j].fill
      BY <1>0 DEF OneOwner
    <3> QED BY <1>5, <3>1
  <2>4. \A r \in Kept : /\ r # s /\ r \in Slot /\ packet'[r] = packet[r]
                        /\ packet[r].chunk \notin free'
                        /\ \A j \in Iface : packet[r].chunk \notin nic'[j].fill
                        /\ packet[r].chunk # c
    BY <1>0, <1>1, <1>3, <1>5 DEF OneOwner, Kept
  <2>5. \A q, r \in Kept : q # r => packet[q].chunk # packet[r].chunk
    BY <1>0 DEF OneOwner
  <2> QED BY <1>3, <1>4, <1>5, <2>1, <2>2, <2>3, <2>4, <2>5 DEF OneOwner
<1>9. Accounted'
  <2>1. ASSUME NEW x, Owned(x), ended' = "no" PROVE Owned(x)'
    <3>1. \A r \in Kept : r \in Slot /\ r # s
      BY <1>1 DEF Kept
    <3>2. CASE x \in free \/ x \in lost
      BY <1>1, <1>6, <2>1, <3>2 DEF Owned
    <3>3. ASSUME NEW j \in Iface, x \in nic[j].fill PROVE Owned(x)'
      BY <1>3, <1>4, <1>5, <3>3 DEF Owned
    <3>4. ASSUME NEW r \in Kept, x = packet[r].chunk PROVE Owned(x)'
      BY <1>3, <1>4, <3>1, <3>4 DEF Owned
    <3> QED BY <2>1, <3>2, <3>3, <3>4 DEF Owned
  <2>2. ended' = "no" /\ (\A x \in Chunk : Owned(x)) => (\A x \in Chunk : Owned(x)')
    BY <2>1
  <2> QED BY <1>0, <1>1, <2>2, OwnedChunks, OwnedChunksNext
<1>10. OwnerFor(t)'
  <2>1. ASSUME NEW j \in Iface, nic'[j].fill # {} PROVE j \in Live
    BY <1>0, <1>1, <1>5, <2>1 DEF OwnerFor, Counting
  <2> QED BY <1>1, <1>7, <2>1, Stages DEF OwnerFor
<1> QED BY <1>8, <1>9, <1>10 DEF Owners

LEMMA OwnDrop ==
  ASSUME NEW t \in Thread, OneThread(t), OwnInv(t), failed = 0, ended = "no",
         NEW s \in Slot, DropPacket(t, s)
  PROVE  Owners(t)'
<1>0. /\ TypeOK /\ OwnerFor(t) /\ OneOwner /\ Accounted
      /\ packet \in [Slot -> PacketRecord \cup {NoPacket}]
  BY DEF OwnInv, Owners, UmemInv, TypeOK, PacketRecord
<1>1. UNCHANGED <<umem, nic, lost, call, ended>> /\ Live' = Live /\ s \in Kept
      /\ call[t].at = "idle" /\ free' = free \cup {packet[s].chunk}
  BY DEF DropPacket, Live, At, Freed
<1>2. packet'[s] = NoPacket /\ \A r \in Slot \ {s} : packet'[r] = packet[r]
  BY <1>0 DEF DropPacket
<1>3. Kept' = Kept \ {s}
  BY <1>2 DEF Kept
<1>4. OneOwner'
  <2>1. \A r \in Kept' : r \in Kept /\ r # s /\ packet'[r] = packet[r]
    BY <1>2, <1>3 DEF Kept
  <2> QED BY <1>0, <1>1, <2>1 DEF OneOwner
<1>5. Accounted'
  <2>1. ASSUME NEW x, Owned(x) PROVE Owned(x)'
    <3>1. ASSUME NEW r \in Kept, x = packet[r].chunk PROVE Owned(x)'
      BY <1>1, <1>2, <1>3, <3>1 DEF Owned, Kept
    <3> QED BY <1>1, <2>1, <3>1 DEF Owned
  <2>2. (\A x \in Chunk : Owned(x)) => (\A x \in Chunk : Owned(x)')
    BY <2>1
  <2> QED BY <1>0, <1>1, <2>2, OwnedChunks, OwnedChunksNext
<1>6. OwnerFor(t)'
  BY <1>0, <1>1, Stages DEF OwnerFor, Counting
<1> QED BY <1>4, <1>5, <1>6 DEF Owners

LEMMA OwnStep ==
  ASSUME NEW t, OneThread(t), Tidy, NoPacket \notin PacketRecord,
         OwnInv(t), failed = 0, failed' = 0, [Next]_vars
  PROVE  OwnInv(t)'
<1>0. t \in Thread /\ UmemInv(t)
  BY DEF OneThread, OwnInv
<1>1. UmemInv(t)'
  BY <1>0, UmemStep
<1>2. ASSUME Next PROVE Owners(t)'
  <2>1. Step(t)
    BY <1>2 DEF Next, OneThread
  <2>2. ended = "no"
    BY <2>1 DEF Step, At, CallNew, CloseNic, InitPool, MakeUmem, RemakeUmem, CreateDrv,
       FallBack, UseDeleted, CreateSkb, AssignRings, FillRing, DropNew, Load, Store,
       AllocPacket, DropPacket, Receive
  <2>3. Opening = {"init", "umem", "drv", "fallback", "init again", "umem again", "skb",
                   "assign", "fill", "dropnew"}
    BY DEF Opening, Steps
  <2>4. CASE MakeUmem(t) \/ RemakeUmem(t)
    <3>1. CASE ReInit
      BY <1>0, <2>2, <2>4, <3>1, OwnUmem DEF MakeUmem, RemakeUmem, At
    <3>2. CASE UNCHANGED poolVars
      BY <1>0, <2>2, <2>3, <2>4, <3>2, OwnCall DEF MakeUmem, RemakeUmem, At, poolVars
    <3> QED BY <2>4, <3>1, <3>2 DEF MakeUmem, RemakeUmem
  <2>5. CASE \/ InitPool(t, "init", "umem", "drv") \/ CreateDrv(t) \/ FallBack(t)
             \/ InitPool(t, "init again", "umem again", "skb") \/ UseDeleted(t)
             \/ CreateSkb(t) \/ AssignRings(t) \/ DropNew(t)
    <3>1. UNCHANGED <<umem, nic, packet, free, lost>> /\ call[t].at \in Opening
      BY <2>3, <2>5 DEF InitPool, CreateDrv, FallBack, UseDeleted, CreateSkb,
         AssignRings, DropNew, At, poolVars
    <3> QED BY <1>0, <2>2, <3>1, OwnCall
  <2>6. CASE Load(t) \/ \E i \in Iface : CallNew(t, i)
    <3>1. UNCHANGED <<umem, nic, packet, free, lost>>
      BY <2>6 DEF Load, CallNew, poolVars
    <3> QED BY <1>0, <2>2, <2>6, <3>1, OwnCall
  <2>7. CASE FillRing(t) \/ Store(t) \/ \E i \in Iface : CloseNic(t, i)
    BY <1>0, <2>2, <2>7, OwnFill, OwnStore, OwnClose
  <2>8. CASE \E s \in Slot : \/ AllocPacket(t, s) \/ DropPacket(t, s)
                             \/ \E i \in Iface : Receive(t, i, s)
    BY <1>0, <2>2, <2>8, OwnAlloc, OwnDrop, OwnReceive
  <2> QED BY <2>1, <2>4, <2>5, <2>6, <2>7, <2>8 DEF Step
<1>3. ASSUME UNCHANGED vars PROVE Owners(t)'
  <2>1. /\ UNCHANGED <<call, nic, packet, umem, free, lost, ended>>
        /\ Live' = Live /\ Kept' = Kept
    BY <1>3 DEF vars, poolVars, Live, Kept
  <2> QED BY <2>1 DEF OwnInv, Owners, OneOwner, Accounted, OwnerFor, Counting
<1> QED BY <1>1, <1>2, <1>3 DEF OwnInv

(***************************************************************************)
(* A program with one thread that opens a first Nic only when no Packet is *)
(* left: as long as no Nic::new has failed, through closing, reopening and *)
(* falling back, a chunk always has one owner among the pool, the rings    *)
(* and the Packets, and none disappears but with a ring that is closed.    *)
(***************************************************************************)
THEOREM ChunksAreOwned ==
  ASSUME NEW t, OneThread(t), Tidy, NoPacket \notin PacketRecord
  PROVE  Spec => []OneOwner /\ []Accounted
<1> DEFINE I == TypeOK /\ Named /\ (failed = 0 => OwnInv(t))
<1>1. Init => I
  <2> SUFFICES ASSUME Init PROVE OwnInv(t)
    BY DEF OwnInv, UmemInv
  <2>1. UmemInv(t)
    BY UmemInit
  <2>2. umem = 0 /\ Kept = {} /\ \A i \in Iface : nic[i].fill = {}
    BY DEF Init, Kept, NoNic
  <2>3. OneOwner /\ Accounted /\ OwnerFor(t)
    BY <2>2 DEF OneOwner, Accounted, OwnerFor
  <2> QED BY <2>1, <2>3 DEF OwnInv, Owners
<1>2. I /\ [Next]_vars => I'
  BY TypeStep, FailedStays, OwnStep
<1>3. I => OneOwner /\ Accounted
  BY DEF OwnInv, Owners, OneOwner, Accounted
<1> QED BY <1>1, <1>2, <1>3, PTL DEF Spec

(***************************************************************************)
(* In such a program no chunk of the UMEM in use disappears, however often *)
(* its Nics are closed and opened, but with a ring that is closed: a chunk *)
(* that was moved between the pool, a ring and a Packet is still in one of *)
(* them.                                                                   *)
(***************************************************************************)
THEOREM ChunksAreAccounted ==
  ASSUME NEW t, OneThread(t), Tidy, NoPacket \notin PacketRecord
  PROVE  Spec => []Accounted
<1>1. Spec => []OneOwner /\ []Accounted
  BY ChunksAreOwned
<1> QED BY <1>1, PTL
=============================================================================
