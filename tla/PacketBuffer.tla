---------------------------- MODULE PacketBuffer ----------------------------
(***************************************************************************)
(* One Packet and the memory it lives in: the UMEM, an array of bytes cut  *)
(* into chunks, and the offsets start and end between which the payload    *)
(* lies in the packet's chunk.  The other chunks belong to other Packets,  *)
(* to the pool or to the kernel, and no call on this Packet may write      *)
(* there.                                                                  *)
(*                                                                         *)
(* `buffer` points at the chunk `private` names, so both are one address   *)
(* here, counted from the start of the UMEM.                               *)
(*                                                                         *)
(* An operator named ...Faulty is a bug one could put in its place; it is  *)
(* used by no specification, only to see that a property would notice.     *)
(***************************************************************************)
EXTENDS Integers

CONSTANTS
  Byte,        \* the values of a byte
  Size,        \* chunk_size, which becomes buffer_size
  ChunkCount,  \* chunk_count
  Headroom     \* DEFAULT_HEADROOM, in front of a new packet's payload

ASSUME BufferAssumption ==
  /\ Size \in Nat \ {0} /\ ChunkCount \in Nat \ {0}
  /\ Headroom \in 0..Size
  /\ Byte # {}

VARIABLES
  mem,      \* mem[a]: the byte at address a of the UMEM
  live,     \* does the application hold the Packet?
  private,  \* the address of its chunk
  start,    \* offset of the first byte of its payload
  end,      \* offset of the byte behind its payload
  wire,     \* history: the frame the last call sent, if any
  reads,    \* history: the offsets from the start of the chunk that the last
            \* call read through the raw pointer
  call,     \* history: the last call and its argument
  alive     \* FALSE once the process has ended

vars == <<mem, live, private, start, end, wire, reads, call, alive>>

-----------------------------------------------------------------------------
UmemSize == ChunkCount * Size
Addr == 0..(UmemSize - 1)
ChunkAddr == {i * Size : i \in 0..(ChunkCount - 1)}

\* The strings of n bytes, numbered from 0.
Bytes(n) == [0..(n - 1) -> Byte]

\* The n bytes from address a.
Slice(a, n) == [i \in 0..(n - 1) |-> mem[a + i]]

\* The memory after writing the string d at address a.
Written(a, d) ==
  [b \in Addr |-> IF b - a \in DOMAIN d THEN d[b - a] ELSE mem[b]]

Payload == Slice(private + start, end - start)

-----------------------------------------------------------------------------
Init ==
  /\ mem \in [Addr -> Byte]
  /\ live = FALSE
  /\ private \in ChunkAddr
  /\ start = Headroom /\ end = Headroom
  /\ wire \in Bytes(0)
  /\ reads = {}
  /\ call = <<"none", 0>>
  /\ alive = TRUE

\* A call that sends no frame, and reads nothing through the raw pointer.
Called(name, arg) ==
  /\ wire' \in Bytes(0)
  /\ call' = <<name, arg>>

Silent(name, arg) == Called(name, arg) /\ reads' = {} /\ UNCHANGED alive

\* Nic::alloc_packet: Packet::new on a chunk as its last user left it.
Alloc(c) ==
  /\ alive /\ ~live
  /\ live' = TRUE
  /\ private' = c
  /\ start' = Headroom /\ end' = Headroom
  /\ Silent("alloc", c)
  /\ UNCHANGED mem

\* Nic::receive: the kernel wrote the frame behind the headroom and reports
\* its address; Packet::new, then end += len and private = addr - headroom.
RxAddr(c) == c + Headroom
RxPrivateFaulty(addr) == addr
RxPrivate(addr) == addr - Headroom
Receive(c, len, frame) ==
  /\ alive /\ ~live
  /\ mem' = Written(RxAddr(c), frame)
  /\ live' = TRUE
  /\ private' = RxPrivate(RxAddr(c))
  /\ start' = Headroom /\ end' = Headroom + len
  /\ Silent("receive", frame)

\* replace_data: the payload now begins where the buffer begins.
FitsFaulty(n) == n <= Size + 1
Fits(n) == n <= Size
ReplaceData(len, d) ==
  /\ alive /\ live
  /\ IF Fits(len)
     THEN /\ mem' = Written(private, d)
          /\ start' = 0 /\ end' = len
     ELSE UNCHANGED <<mem, start, end>>
  /\ Silent("replace_data", d)
  /\ UNCHANGED <<live, private>>

\* A write through the slice that get_buffer_mut returns.
SliceStart == private + start
Write(i, b) ==
  /\ alive /\ live
  /\ i \in 0..(end - start - 1)
  /\ mem' = [mem EXCEPT ![SliceStart + i] = b]
  /\ Silent("get_buffer_mut", <<i, b>>)
  /\ UNCHANGED <<live, private, start, end>>

\* resize, when the payload stays where it is or the request is refused.
NeedsMoveFaulty(n) == FALSE
NeedsMove(n) == n > Size - start
ResizeInPlace(n) ==
  /\ alive /\ live
  /\ ~(n <= Size /\ NeedsMove(n))
  /\ end' = IF n <= Size THEN start + n ELSE end
  /\ Silent("resize", n)
  /\ UNCHANGED <<mem, live, private, start>>

(***************************************************************************)
(* resize, when the payload has to move to the front of the buffer.  The   *)
(* copy takes `end` bytes from the payload's first byte on; where that     *)
(* reaches behind the UMEM it copies whatever is there, or the process     *)
(* crashes.                                                                *)
(***************************************************************************)
MovedFrom == private + start
ResizeMove(n) ==
  /\ alive /\ live
  /\ n <= Size /\ NeedsMove(n)
  /\ reads' = start..(start + end - 1)
  /\ \/ \E junk \in Byte :
          /\ MovedFrom + end <= UmemSize => junk = mem[0]
          /\ mem' = Written(private,
                      [i \in 0..(end - 1) |-> IF MovedFrom + i \in Addr
                                              THEN mem[MovedFrom + i]
                                              ELSE junk])
          /\ start' = 0 /\ end' = n
          /\ Called("resize", n)
          /\ UNCHANGED alive
     \/ /\ MovedFrom + end > UmemSize
        /\ Called("crash", n)
        /\ alive' = FALSE
        /\ UNCHANGED <<mem, start, end>>
  /\ UNCHANGED <<live, private>>

Resize(n) == ResizeInPlace(n) \/ ResizeMove(n)

(***************************************************************************)
(* dump prints a byte before it compares its count with the length, so an  *)
(* empty payload never satisfies the comparison and the loop runs through  *)
(* the memory until the process crashes.                                   *)
(***************************************************************************)
Dump ==
  /\ alive /\ live
  /\ alive' = (end # start)
  /\ reads' = IF end = start THEN start..(UmemSize - private - 1)
                              ELSE start..(end - 1)
  /\ Called("dump", 0)
  /\ UNCHANGED <<mem, live, private, start, end>>

\* Nic::send, when the packet gets a TX slot: the descriptor names the
\* payload, and the kernel sends those bytes.
DescAddrFaulty == private
DescAddr == private + start
DescLen == end - start
Send ==
  /\ alive /\ live
  /\ wire' = Slice(DescAddr, DescLen)
  /\ call' = <<"send", 0>>
  /\ live' = FALSE
  /\ reads' = {}
  /\ UNCHANGED <<mem, private, start, end, alive>>

\* Drop for Packet.
Drop ==
  /\ alive /\ live
  /\ live' = FALSE
  /\ Silent("drop", 0)
  /\ UNCHANGED <<mem, private, start, end>>

Next ==
  \/ \E c \in ChunkAddr :
       \/ Alloc(c)
       \/ \E len \in 0..(Size - Headroom) :
            \E frame \in Bytes(len) : Receive(c, len, frame)
  \/ \E len \in 0..(Size + 1) :
       \/ Resize(len)
       \/ \E d \in Bytes(len) : ReplaceData(len, d)
  \/ \E i \in 0..(Size - 1), b \in Byte : Write(i, b)
  \/ Dump \/ Send \/ Drop

Spec == Init /\ [][Next]_vars

-----------------------------------------------------------------------------
(* Properties                                                              *)

\* Every variable has its type.
TypeOK ==
  /\ mem \in [Addr -> Byte]
  /\ live \in BOOLEAN /\ alive \in BOOLEAN
  /\ private \in ChunkAddr
  /\ start \in Nat /\ end \in Nat
  /\ \E n \in 0..Size : wire \in Bytes(n)
  /\ reads \subseteq Nat
  /\ call[1] \in {"none", "alloc", "receive", "replace_data", "resize",
                  "get_buffer_mut", "send", "drop", "dump", "crash"}

(***************************************************************************)
(* However replace_data and resize are mixed, the payload lies inside the  *)
(* buffer.  On this rest the unsafe slice of get_buffer_mut, the           *)
(* subtractions of unsigned offsets in resize, dump and send, and the      *)
(* kernel's check of the descriptor.                                       *)
(***************************************************************************)
InBuffer == start <= end /\ end <= Size

\* No call on a Packet writes into a chunk other than its own.
Own(a) == a \in private'..(private' + Size - 1)
NeighboursUntouched == [][\A a \in Addr : ~Own(a) => mem'[a] = mem[a]]_vars

\* The Packet is a string of bytes: replace_data sets it, resize keeps the
\* common prefix whether or not it moves the payload, and send puts exactly
\* this string on the wire.
payload == IF live THEN Payload ELSE Slice(0, 0)
Abstract == INSTANCE Payload WITH MaxSize <- Size
PayloadSpec == Abstract!Spec

-----------------------------------------------------------------------------
(* Statements of the documentation that the code does not keep.            *)

\* resize moves the payload within a buffer of buffer_size bytes: it reads
\* nothing that lies behind the buffer.
ResizeReadsBuffer == call[1] = "resize" => reads \subseteq 0..(Size - 1)
=============================================================================
