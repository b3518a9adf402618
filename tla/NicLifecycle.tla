---------------------------- MODULE NicLifecycle ----------------------------
(***************************************************************************)
(* How Nics come and go, and what becomes of the one Pool they share:      *)
(* Pool::init and re_init, Nic::new and open with the fallback from native *)
(* to generic XDP mode, Drop for Nic, and the Packets that outlive them.   *)
(*                                                                         *)
(* Nic and Packet hold raw pointers and stay in their thread, but every    *)
(* thread may call Nic::new, and all calls work on the static Pool, which  *)
(* is declared Sync and has no lock.  Nic::new and the drop of a Nic are   *)
(* therefore sequences of steps; call[t].at names the next one.            *)
(*                                                                         *)
(* Every re_init makes a new UMEM; `umem` numbers them.  Rings and kernel  *)
(* are reduced here to the chunks a Nic has taken from the pool;           *)
(* Packetvisor models them.                                                *)
(*                                                                         *)
(* An operator named ...Faulty is a bug one could put in its place; it is  *)
(* used by no specification, only to see that a property would notice.     *)
(***************************************************************************)
EXTENDS Integers, FiniteSets

CONSTANTS
  Thread,          \* the threads that call the library
  Iface,           \* network interfaces
  NativeIface,     \* those whose driver supports native (DRV) mode
  RefusedIface,    \* those on which no XSK socket can be created
  Chunk,           \* the chunks of a UMEM, by address
  FqSize,          \* chunks a Nic puts into its fill ring
  Slot,            \* places where the application keeps a Packet
  NoPacket,        \* what a Slot without one holds
  UsizeMax,        \* usize::MAX, the largest reference count
  MemoryFails,     \* may mmap or xsk_umem__create fail?
  Tidy,            \* does the application keep no Packet for the next UMEM?
  MaxUmem,         \* bound: UMEMs made in a behaviour
  MaxFailed        \* bound: calls of Nic::new that fail in a behaviour

ASSUME LifeAssumption ==
  /\ NativeIface \subseteq Iface /\ RefusedIface \subseteq Iface
  /\ IsFiniteSet(Iface) /\ IsFiniteSet(Chunk)
  /\ FqSize \in Nat \ {0} /\ UsizeMax \in Nat \ {0} /\ MaxUmem \in Nat
  /\ MaxFailed \in 0..UsizeMax
  /\ {MemoryFails, Tidy} \subseteq BOOLEAN

VARIABLES
  checked,    \* was the program built with overflow checks (a debug build)?
  refcount,   \* Pool.refcount
  umem,       \* the UMEM that Pool.umem and Pool.buffer_pool describe, or 0
  deleted,    \* has xsk_umem__delete freed it?
  stored,     \* the UMEM whose rings Pool.umem_fq and umem_cq are; 0: zeroed
  free,       \* Pool.buffer_pool.pool
  lost,       \* history: chunks of this UMEM that no one can free any more
  failed,     \* history: calls of Nic::new that failed
  nic,        \* nic[i]: the Nic of interface i
  packet,     \* packet[s]: the Packet kept in s, or NoPacket
  call,       \* call[t]: what thread t is doing inside the library
  ended       \* how the process ended, "no" while it runs

poolVars == <<refcount, umem, deleted, stored, free, lost, failed>>
vars == <<checked, poolVars, nic, packet, call, ended>>

\* A Nic: the UMEM its socket was created with, the chunks in its fill and
\* receive rings, and its thread, NoThread until Nic::new has returned it.
NoThread == "no thread"
NoNic == [umem |-> 0, fill |-> {}, by |-> NoThread]
Live == {i \in Iface : nic[i].by # NoThread}

\* A Packet: `chunk` is its private address, `data` the UMEM that holds its
\* payload, `buffer` the UMEM its buffer pointer points into.
Kept == {s \in Slot : packet[s] # NoPacket}

\* A call: its next step, its interface, the UMEM of the socket it created
\* (0: none), the UMEM of the rings in its Nic (0: no usable ring), the
\* reference count it has read and what it adds to that count.
Idle == [at |-> "idle", iface |-> "none", sock |-> 0, ring |-> 0, seen |-> 0,
         delta |-> 0]
At(t, step) == call[t].at = step /\ ended = "no"
Wrap(n) == n % (UsizeMax + 1)
Goto(t, step) == call' = [call EXCEPT ![t].at = step]

-----------------------------------------------------------------------------
(* Pool                                                                    *)

\* re_init makes a fresh UMEM with every chunk free; the old one stays
\* allocated, and whoever still uses it goes on doing so.
ReInit ==
  /\ umem < MaxUmem
  /\ umem' = umem + 1
  /\ deleted' = FALSE
  /\ stored' = umem + 1
  /\ free' = Chunk
  /\ lost' = {}
  /\ UNCHANGED <<refcount, failed>>

\* Pool::init calls re_init when no Nic is counted.
NeedsInitFaulty == refcount <= 1
NeedsInit == refcount = 0

Init ==
  /\ checked \in BOOLEAN
  /\ refcount = 0 /\ umem = 0 /\ deleted = FALSE /\ stored = 0
  /\ free = {} /\ lost = {} /\ failed = 0
  /\ nic = [i \in Iface |-> NoNic]
  /\ packet = [s \in Slot |-> NoPacket]
  /\ call = [t \in Thread |-> Idle]
  /\ ended = "no"

-----------------------------------------------------------------------------
(* Nic::new and open                                                       *)

\* The application calls Nic::new for an interface it has no Nic of.  A tidy
\* one that has no Nic open has dropped every Packet before.
CallNew(t, i) ==
  /\ At(t, "idle")
  /\ nic[i] = NoNic /\ \A u \in Thread : call[u].iface # i
  /\ Tidy /\ Live = {} => Kept = {}
  /\ call' = [call EXCEPT ![t] = [Idle EXCEPT !.at = "init", !.iface = i]]
  /\ UNCHANGED <<poolVars, nic, packet, ended>>

\* Pool::init(..).unwrap() in Nic::new, Pool::init(..)? in the fallback: the
\* test of the count and the re_init are two steps.
InitPool(t, here, remake, next) ==
  /\ At(t, here)
  /\ Goto(t, IF NeedsInit THEN remake ELSE next)
  /\ UNCHANGED <<poolVars, nic, packet, ended>>

MakeUmem(t) ==
  /\ At(t, "umem")
  /\ \/ ReInit /\ Goto(t, "drv") /\ UNCHANGED ended
     \/ MemoryFails /\ ended' = "unwrap" /\ UNCHANGED <<poolVars, call>>
  /\ UNCHANGED <<nic, packet>>

RemakeUmem(t) ==
  /\ At(t, "umem again")
  /\ \/ ReInit /\ Goto(t, "skb")
     \/ MemoryFails /\ Goto(t, "dropnew") /\ UNCHANGED poolVars
  /\ UNCHANGED <<nic, packet, ended>>

\* xsk_socket__create_shared in native mode, with the rings of the Nic.
CreateDrv(t) ==
  /\ At(t, "drv") /\ ~deleted
  /\ \/ /\ call[t].iface \in NativeIface \ RefusedIface
        /\ call' = [call EXCEPT ![t].at = "assign", ![t].sock = umem,
                                ![t].ring = umem]
     \/ /\ call[t].iface \notin NativeIface \ RefusedIface
        /\ Goto(t, "fallback")
  /\ UNCHANGED <<poolVars, nic, packet, ended>>

\* Either mode, given the UMEM that xsk_umem__delete has freed.
UseDeleted(t) ==
  /\ call[t].at \in {"drv", "skb"} /\ ended = "no" /\ deleted
  /\ ended' = "segfault"
  /\ UNCHANGED <<poolVars, nic, packet, call>>

\* A UMEM that a socket uses cannot be deleted.
InUse(u) == \/ \E i \in Iface : nic[i].umem = u
            \/ \E t \in Thread : call[t].sock = u

\* Full fallback, when no Nic is counted: the UMEM is deleted and made again.
\* Semi fallback: it is kept.
FallBack(t) ==
  /\ At(t, "fallback")
  /\ IF refcount = 0
     THEN deleted' = ~InUse(umem) /\ Goto(t, "init again")
     ELSE UNCHANGED deleted /\ Goto(t, "skb")
  /\ UNCHANGED <<refcount, umem, stored, free, lost, failed, nic, packet,
                 ended>>

\* xsk_socket__create_shared in generic mode, with the rings of the Pool.
CreateSkb(t) ==
  /\ At(t, "skb") /\ ~deleted
  /\ \/ /\ call[t].iface \notin RefusedIface
        /\ call' = [call EXCEPT ![t].at = "assign", ![t].sock = umem]
        /\ stored' = umem
     \/ /\ call[t].iface \in RefusedIface
        /\ Goto(t, "dropnew")
        /\ UNCHANGED stored
  /\ UNCHANGED <<refcount, umem, deleted, free, lost, failed, nic, packet,
                 ended>>

\* The first Nic takes the rings out of the Pool and leaves zeroed ones.
AssignRings(t) ==
  /\ At(t, "assign")
  /\ IF refcount = 0
     THEN /\ call' = [call EXCEPT ![t].at = "fill", ![t].ring = stored]
          /\ stored' = 0
     ELSE /\ Goto(t, "fill")
          /\ UNCHANGED stored
  /\ UNCHANGED <<refcount, umem, deleted, free, lost, failed, nic, packet,
                 ended>>

\* reserve_fq(&mut self.umem_fq, fq_size)?  Without a usable ring the write
\* goes through a null or a stale pointer: the process crashes, or the new
\* rings happen to be where the old ones were.
FillRing(t) ==
  LET i == call[t].iface
  IN  /\ At(t, "fill")
      /\ \/ /\ call[t].ring = 0
            /\ ended' = "segfault"
            /\ UNCHANGED <<free, lost, nic, call>>
         \/ \E C \in SUBSET free :
              /\ Cardinality(C) = FqSize
              /\ free' = free \ C
              /\ nic' = [nic EXCEPT ![i].umem = call[t].sock, ![i].fill = C]
              /\ call' = [call EXCEPT ![t].at = "load", ![t].delta = 1]
              /\ UNCHANGED <<lost, ended>>
         \/ /\ Cardinality(free) < FqSize
            /\ free' = {}
            /\ lost' = lost \cup free
            /\ Goto(t, "dropnew")
            /\ UNCHANGED <<nic, ended>>
      /\ UNCHANGED <<refcount, umem, deleted, stored, failed, packet>>

\* The Nic that Nic::new does not return is dropped all the same.  Its socket,
\* if it was never created, is a zeroed one: to delete it may be a read through
\* its null context.
DropNew(t) ==
  /\ At(t, "dropnew")
  /\ failed < MaxFailed /\ failed' = failed + 1
  /\ \/ /\ call[t].sock = 0
        /\ ended' = "segfault"
        /\ UNCHANGED call
     \/ /\ call' = [call EXCEPT ![t].at = "load", ![t].delta = -1]
        /\ UNCHANGED ended
  /\ UNCHANGED <<refcount, umem, deleted, stored, free, lost, nic, packet>>

-----------------------------------------------------------------------------
(* The reference count: `refcount += 1` and `refcount -= 1` read and write  *)
(* a field that all threads share.                                          *)
Load(t) ==
  /\ At(t, "load")
  /\ call' = [call EXCEPT ![t].at = "store", ![t].seen = refcount]
  /\ UNCHANGED <<poolVars, nic, packet, ended>>

SumFaulty(t) == call[t].seen + 1
Sum(t) == call[t].seen + call[t].delta

Store(t) ==
  LET i == call[t].iface
      opens == call[t].delta = 1
  IN  /\ At(t, "store")
      /\ \/ /\ Sum(t) \in 0..UsizeMax \/ ~checked
            /\ refcount' = Wrap(Sum(t))
            /\ nic' = IF opens THEN [nic EXCEPT ![i].by = t] ELSE nic
            /\ call' = [call EXCEPT ![t] = Idle]
            /\ UNCHANGED ended
         \/ /\ Sum(t) \notin 0..UsizeMax /\ checked
            /\ ended' = "overflow"
            /\ UNCHANGED <<refcount, nic, call>>
      /\ UNCHANGED <<umem, deleted, stored, free, lost, failed, packet>>

\* Drop for Nic.  The chunks in its rings go with it.
CloseNic(t, i) ==
  /\ At(t, "idle")
  /\ nic[i].by = t
  /\ nic' = [nic EXCEPT ![i] = NoNic]
  /\ lost' = IF nic[i].umem = umem THEN lost \cup nic[i].fill ELSE lost
  /\ call' = [call EXCEPT ![t] = [Idle EXCEPT !.at = "load", !.delta = -1]]
  /\ UNCHANGED <<refcount, umem, deleted, stored, free, failed, packet, ended>>

-----------------------------------------------------------------------------
(* Packets                                                                 *)

\* Nic::alloc_packet; on an empty pool it returns None.
AllocPacket(t, s) ==
  /\ At(t, "idle")
  /\ Live # {} /\ packet[s] = NoPacket
  /\ \E c \in free :
       /\ free' = free \ {c}
       /\ packet' = [packet EXCEPT ![s] =
                      [chunk |-> c, data |-> umem, buffer |-> umem, by |-> t]]
  /\ UNCHANGED <<refcount, umem, deleted, stored, lost, failed, nic, call,
                 ended>>

\* Nic::receive(1).  The buffer pointer is computed from the buffer of the
\* pool as it is now, and the refill unwraps.
Receive(t, i, s) ==
  /\ At(t, "idle")
  /\ nic[i].by = t /\ packet[s] = NoPacket
  /\ \E c \in nic[i].fill :
       /\ packet' = [packet EXCEPT ![s] =
                      [chunk |-> c, data |-> nic[i].umem, buffer |-> umem,
                       by |-> t]]
       /\ \/ \E d \in free :
               /\ free' = free \ {d}
               /\ nic' = [nic EXCEPT ![i].fill = (@ \ {c}) \cup {d}]
               /\ UNCHANGED ended
          \/ /\ free = {}
             /\ nic' = [nic EXCEPT ![i].fill = @ \ {c}]
             /\ ended' = "abort"
             /\ UNCHANGED free
  /\ UNCHANGED <<refcount, umem, deleted, stored, lost, failed, call>>

FreedFaulty(s) == free \cup {packet[s].buffer}
Freed(s) == free \cup {packet[s].chunk}

\* Drop for Packet: the chunk goes to the pool there is now.
DropPacket(t, s) ==
  /\ At(t, "idle")
  /\ s \in Kept /\ packet[s].by = t
  /\ free' = Freed(s)
  /\ packet' = [packet EXCEPT ![s] = NoPacket]
  /\ UNCHANGED <<refcount, umem, deleted, stored, lost, failed, nic, call,
                 ended>>

-----------------------------------------------------------------------------
Step(t) ==
  \/ \E i \in Iface : CallNew(t, i) \/ CloseNic(t, i)
  \/ InitPool(t, "init", "umem", "drv") \/ MakeUmem(t)
  \/ InitPool(t, "init again", "umem again", "skb") \/ RemakeUmem(t)
  \/ CreateDrv(t) \/ FallBack(t) \/ UseDeleted(t)
  \/ CreateSkb(t) \/ AssignRings(t) \/ FillRing(t) \/ DropNew(t)
  \/ Load(t) \/ Store(t)
  \/ \E s \in Slot : \/ AllocPacket(t, s)
                     \/ DropPacket(t, s)
                     \/ \E i \in Iface : Receive(t, i, s)

Next == UNCHANGED checked /\ \E t \in Thread : Step(t)

Spec == Init /\ [][Next]_vars

-----------------------------------------------------------------------------
(* Properties                                                              *)

Steps == {"idle", "init", "umem", "drv", "fallback", "init again",
          "umem again", "skb", "assign", "fill", "dropnew", "load", "store"}

\* Every variable has its type.
TypeOK ==
  /\ checked \in BOOLEAN
  /\ refcount \in 0..UsizeMax
  /\ umem \in 0..MaxUmem /\ stored \in 0..MaxUmem
  /\ deleted \in BOOLEAN
  /\ free \subseteq Chunk /\ lost \subseteq Chunk /\ failed \in 0..MaxFailed
  /\ nic \in [Iface -> [umem : 0..MaxUmem, fill : SUBSET Chunk,
                        by : Thread \cup {NoThread}]]
  /\ packet \in [Slot -> [chunk : Chunk, data : 0..MaxUmem,
                          buffer : 0..MaxUmem, by : Thread] \cup {NoPacket}]
  /\ call \in [Thread -> [at : Steps, iface : Iface \cup {"none"},
                          sock : 0..MaxUmem, ring : 0..MaxUmem,
                          seen : 0..UsizeMax, delta : {-1, 0, 1}]]
  /\ ended \in {"no", "unwrap", "segfault", "overflow", "abort"}

Quiet == ended = "no" /\ \A t \in Thread : call[t].at = "idle"

\* What a failed Nic::new does to the count: the Nic it drops was never
\* counted, so each failure leaves the count one too low, and nothing else
\* disturbs it.  Without one, Pool.refcount is between calls the number of Nics
\* that are open: only then does Pool::init make a new UMEM exactly when the
\* old one has no user.
CountOwesFailures == Quiet => refcount = Wrap(Cardinality(Live) - failed)

\* The next four are claimed as long as no Nic::new has failed; a count that is
\* off may break each of them.

\* No Nic is left on a UMEM that re_init has replaced: its rings, the free
\* set and the buffer address it computes with are of one UMEM.
CurrentUmem == failed = 0 => \A i \in Live : nic[i].umem = umem /\ ~deleted

\* Across closing, reopening and falling back, no chunk has two owners among
\* the pool, the rings of the Nics and the Packets.
OneOwner ==
  failed = 0 =>
    /\ \A i \in Iface : nic[i].fill \cap free = {}
    /\ \A i, j \in Iface : i # j => nic[i].fill \cap nic[j].fill = {}
    /\ \A s \in Kept : /\ packet[s].chunk \notin free
                       /\ \A i \in Iface : packet[s].chunk \notin nic[i].fill
    /\ \A s, r \in Kept : s # r => packet[s].chunk # packet[r].chunk

\* No chunk of the current UMEM disappears, but those of a ring that was
\* closed and those a failing reserve_fq has taken.
Accounted ==
  failed = 0 /\ ended = "no" /\ umem # 0 =>
    Chunk \subseteq (UNION {nic[i].fill : i \in Iface}) \cup free \cup lost
                    \cup {packet[s].chunk : s \in Kept}

\* The buffer pointer of a Packet points into the UMEM that holds its payload.
RightBuffer ==
  failed = 0 => \A s \in Kept : packet[s].buffer = packet[s].data

\* A Nic::new that fails gives the caller an error, it does not end the
\* process.
FailureReturns == ended \notin {"segfault", "overflow"}
=============================================================================
