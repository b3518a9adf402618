# Packetvisor in TLA+

Packetvisor is a Rust library that moves Ethernet frames between an application
and the kernel through AF_XDP sockets. Its core is `src/src/lib.rs`: one shared
packet memory (the UMEM), cut into chunks; a pool of free chunks; four rings per
network interface, which the program and the kernel work on at the same time;
`Packet` values that own a chunk; and a reference count that decides when the
memory is made anew. Five example programs run on it. This directory models the
library and the examples and checks them with TLC; the theorems are checked by
TLAPS.

Line numbers below are those of `src/src/lib.rs` unless a file is named.

## 1. Inventory

| Component | State | Operations | Modules |
|---|---|---|---|
| `BufferPool` (67-77, 138-338) | set of free chunk addresses, chunk size, ring sizes | `alloc_addr`, `free_addr`, `reserve_fq`, `reserve_txq`, `release`, `recv`, `send` | Packetvisor |
| `Nic`, data path (663-704) | RX, TX, fill (FQ) and completion (CQ) ring | `alloc_packet`, `receive`, `send`; filling the FQ in `open` | Packetvisor |
| `Pool` (83-95, 341-475) | UMEM handle, `refcount`, rings kept for the first Nic, `buffer_pool` | `init`, `re_init`, `try_alloc_packet` | NicLifecycle |
| `Nic`, life cycle (494-676, 857-867) | socket, rings | `new`, `open` with full and semi fallback to generic mode, `Drop` | NicLifecycle |
| `Packet` (112-126, 726-873) | `start`, `end`, `buffer_size`, `buffer`, `private` | `new`, `replace_data`, `get_buffer_mut`, `resize`, `dump`, `Drop` | PacketBuffer |
| Wakeup handshake (274-295, 324-338) | `need_wakeup` flags of FQ and TX ring | `recvfrom` in `recv`, `sendto` in `send` | EventLoop |
| Loops of `examples/echo`, `examples/forward` | packets of the current round | receive, process, up to three calls of `send` | EventLoop |
| Loops of `examples/filter`, `change_word`, `tunnel` | received packets, copies of them, packets of their own | receive, copy or reset, relay, send | CopyLoop |
| The TCP filter of `examples/filter` | none of its own; the connection is in the hosts | `process_packet`, `send_tcp_rst` | FilterReset |
| Handlers of `examples/echo` | none | ARP, ICMP, UDP, ICMPv6 and neighbor discovery answers | EchoReply, Rewrite |
| Handlers of `examples/change_word`, `tunnel` | none | `change_word`, `set_mms` | WordChange, MssOption, Rewrite |
| Command lines, `set_veth.sh`, build script, generated bindings | none | option parsing, code generation | no |

**Interaction.** The application calls `receive`, `send` and `alloc_packet` on a
`Nic`; all three borrow the one `BufferPool` behind the static `Pool`. Dropping a
`Packet` calls back into that pool. The kernel is the other end of the four rings:
it takes chunks from the FQ and shows them in RX, takes descriptors from TX and
reports them in CQ. A kernel that runs out of work raises `need_wakeup` and waits
for a system call. `Nic::new` and the drop of a `Nic` change `refcount`; a
`Nic::new` that finds it 0 replaces UMEM and pool. `filter` and `change_word` copy
what they received into new packets while they still hold the received ones;
`filter` sends its resets at once and its copies when the batch is done; `tunnel`
hands packets to a socket and turns datagrams from it into packets.

**What is hard here.** The repository has no tests. The hazards, each with its
line and the properties aimed at it, are the list `hazards` in `PROJECT.json`.
In short:

- the rings are shared with the kernel, which moves between any two calls and
  between two accesses within one call;
- one pool serves all Nics, and `recv` panics when the pool cannot pay for the
  packets it hands out;
- a send frees chunks that the kernel has still to read;
- a Nic whose FQ is refilled with fewer chunks than it lost never gets them back;
- the reference count is the only guard against replacing a UMEM in use, and it
  is changed by calls that fail and by several threads;
- the payload of a packet moves within its chunk by unsigned arithmetic on two
  offsets and unsafe copies;
- the early return of `recv` passes over the wakeup;
- the copying loops draw on the pool that also refills the fill rings, and unwrap
  what they get;
- a reset overtakes the segments before it, may be lost, and may be too old for
  its receiver;
- the handlers rewrite a frame in place, so a field may be read after it was
  overwritten, and lengths, sizes and checksums must follow every change.

**What makes each component correct.** Pool and rings: every chunk has exactly one
owner, none is lost, each open Nic keeps its stock of chunks, and a large enough
pool never makes the program panic. Life cycle: between calls `refcount` is the
number of open Nics less the failed calls of `Nic::new`; until the first failure,
no Nic is left on a UMEM that was replaced. Packet:
the payload stays within the buffer, no other chunk is written, and what is sent
is what was put in. Loops: reception and transmission do not come to a halt, no
chunk is lost on any way through a round, and a known pool size excludes every
panic for want of chunks. Filter: the word never reaches the receiver's stream,
its sender is closed, connections without it get through whole, and for either end
the connection stays TCP. Handlers: the
receiver of a rewritten frame can read it as what it is meant to be.

## 2. Modules

```
ChunkLease <-- implements -- Packetvisor  <-- MCPacketvisor
                             RingLemmas, PacketvisorProofs
Payload    <-- implements -- PacketBuffer <-- PacketBufferProofs
                             NicLifecycle <-- MCNicLifecycle, NicLifecycleProofs
                             EventLoop    <-- MCEventLoop, EventLoopProofs
                             CopyLoop     <-- CopyLoopProofs
FilteredStream <-- implements -- FilterReset <-- MCFilterReset, FilterResetProofs
EchoReply, WordChange, MssOption --> Rewrite <-- MCRewrite, RewriteProofs
```

The first four models look at one library from four sides, the others at the
examples. They share vocabulary, not state: each abstracts what another one models
in detail, and says so.

### Packetvisor: chunks, rings, send and receive

A chunk stands for its address. `pool`, `fq[n]`, `rx[n]`, `tx[n]` are the pool and
the contents of the rings; `sending[n]` are descriptors the kernel has taken from
TX; `cq[n]` only counts, because `release` (219-234) empties the completion ring
without looking at the addresses. `held[c]` counts `Packet` values of chunk c.
`alive` becomes FALSE when the process ends.

Every public call is one action. The rings are single-producer single-consumer
queues, so a kernel step inside a call has the effect it has before or after it;
the two places where the program looks at a ring that the kernel has half updated
are kept: `Peeks` (the accessor answers from a producer index it cached) and
`unreleased` (the kernel shows a packet in RX before it gives the FQ slot back).
The latter happens on the Nics that are not in the constant `PromptNic`.

| Action | Code |
|---|---|
| `Open` | `open` fills the FQ, 663-673; the application gives up if it fails |
| `AllocPacket` | `try_alloc_packet`, 456-475 |
| `Receive` | `recv`, 236-295, with the refill and its `unwrap` at 272 |
| `Send` | `send`, 297-338, and the drain at 684-704 that frees the chunks at once |
| `DropPacket` | `Drop for Packet`, 869-873 |
| `KernelRx`, `KernelFqRelease`, `KernelTxTake`, `KernelTxDone` | the kernel, as far as the rings show it |

`ChunkLease` is the abstract specification: every chunk has one owner, the pool,
the application or one Nic, and moves only by `Lend` (a Nic opens), `Exchange`
(receive), `Take` (alloc) and `Return` (drop or send), until the process ends
(`End`). The refinement maps a chunk to the place it is in, and to "gone" when the
process has ended; kernel steps are stuttering.

`NeverAborts` says how large the pool must be. `Enough(k)` is a chunk for every fill
ring slot of k Nics and for every packet held: with enough for the Nics that are
open `recv` does not panic, and with enough for one more `Nic::new` does not fail.

### NicLifecycle: the reference count and the fallbacks

`Nic::new` and the drop of a `Nic` are sequences of steps (`call[t].at`), because
all threads work on the static `Pool`, which is declared `Sync` (478) and has no
lock: the test of the count and `re_init`, native socket, fallback, generic
socket, assignment of the rings, filling the FQ, and the read and the write of
`refcount += 1`. UMEMs are numbered in the order they are made, so a Nic or a
Packet of an older one can be told from one of the current one. `checked` is the
build profile: with overflow checks a count below zero ends the process, without
them it wraps to `usize::MAX`.

The rings of an open Nic are reduced to the set of chunks in them (`fill`), the
kernel is left out. Deleting a zeroed socket (`DropNew` after no socket was made)
and writing through a ring that was never set up are undefined: the process may
crash or not, so both outcomes are there.

### PacketBuffer: one Packet, byte by byte

The UMEM is an array of bytes, the Packet two offsets into one chunk of it, and
`resize` copies as the code does: `end` bytes from the payload's start. `reads`
records what a call read through the raw pointer, `wire` the frame a send put on
the wire, `call` the call itself. `Payload` is the abstract specification: a string
of bytes that is replaced, resized with its prefix kept, edited and sent.
`xsk_ring` details are left to Packetvisor. Other writers (the kernel, other
Packets) write to other chunks only and are left out; Packetvisor's `SingleOwner`
is the reason.

### EventLoop: can anything be left asleep?

The loop of `forward` (`src/examples/forward/main.rs:63-99`) over a list of hops;
`echo` (`src/examples/echo/main.rs:80-100`) is the list with the one hop from a Nic
to itself. Rings are counters. A call of `receive` or `send` is two steps, the ring
update and the look at the flag, between which the driver moves; a driver is
polling, has found its ring empty, or sleeps with the flag raised. After `receive`
the application may drop any number of packets, as `echo` does.

Nics in `PromptNic` have a driver that gives FQ slots back before the packet can
be seen and raises its flag in the step that finds the ring empty. Others do
neither: their slots come back late, and a refill or a send may fall between
finding the ring empty and raising the flag.

### CopyLoop: what the copying loops need of the pool

The loops of `filter` (`main.rs:88-123`, `154-226`), `change_word` (`92-130`) and
`tunnel` (`45-82`); the variable `program` says which one a behaviour is of.
Chunks are counted, the wakeup is left to EventLoop.

| Action | Code |
|---|---|
| `ReceiveNone`, `ReceiveSome` | `receive`, with the refill, whose `unwrap` ends the process (`ended = "pool"`) |
| `Copy` | `alloc_packet().unwrap()` and the copy of a packet that passes |
| `Reject`, `AllocSingle`, `SendSingle` | `send_tcp_rst`: two packets, each allocated and sent on its own, the result of `send` ignored |
| `Relay`, `ReadSocket` | the tunnel's socket; its `expect` ends the process (`ended = "socket"`) |
| `Processed`, `Send`, `Drop` | the three calls of `send`, and all that the round still holds going out of scope |
| `KernelRx`, `KernelFqRelease`, `KernelTx` | as in Packetvisor |

### FilterReset: a connection through the filter

`Passes`, `ResetBack` and `ResetOn` are `process_packet` and `send_tcp_rst`
(`src/examples/filter/main.rs:125-226`) on a segment, and the filter's actions are the round of
CopyLoop with real queues. The two hosts are external: they send in order, send
again until acknowledged, take what is next in order, close on a reset only from
the peer with exactly the next sequence number (RFC 9293), and refuse segments when
closed. They send no challenge acknowledgement, and their timeout is longer than a
round. A sequence number counts segments. Frames are lost where a receive or
transmit ring is full. The fill rings are left out, so reception does not starve
here: `CleanArrives` and `SenderReset` are about Nics with prompt drivers.

Two things the model keeps because the code does: a forged reset still carries the
payload with the word, and the copies of a batch are dropped when the resets have
taken the room in the ring. The peer of the sender may stay half-open, if its reset
is lost or too old. The word is within one segment; `process_packet` keeps no state,
so a word split over two segments passes.

`FilteredStream` is the abstract specification, what the two ends may rely on
without knowing of the filter: `Send` (a host sends the next segment of its
stream), `Take` (a host gets the peer's next segment or an acknowledgement of its
own, of data that has arrived), and `Close` (an end is closed, only after the word
was sent). The refinement maps the hosts' counters to the streams; all the filter
does is stuttering.

### Rewrite: what the receiver makes of a rewritten frame

`EchoReply`, `WordChange` and `MssOption` hold the handlers as operators, from the
frame received to the one sent, the frame ignored, or the panic. Frames are records
of the fields the handlers read or write; pnet's accessors and checksums are
external. A checksum is a sum over the fields it covers (EchoReply), or a flag that
says whether it is that of the contents (`fresh`). `Rewrite` puts frames on a wire,
hands them to the program, and delivers an answer of `echo` to the other echo hosts
on the link, which may answer it. In `MssOption` a header has its options twice: as
pnet's iterator shows them (`options`, each a string of bytes) and as the raw bytes
that are written (`raw`, their concatenation), and the code must find the one in the
other by adding up lengths.

What the handlers do, and the properties allow for: the target protocol address of
an ARP reply is the address that was asked for and not the asker's (`AnswerTaken`
looks at the sender fields and the hardware addresses of a reply, `ArpAddressed` at
the target); ARP requests, IPv6 packets and
neighbor solicitations are answered whoever they ask for; an IPv4 or IPv6 frame on
an interface without an address of that family, and a solicitation without option,
end the process; a datagram from port 7 to port 7 goes back and forth for ever
between two echo hosts; `change_word` takes the data of a later fragment for a UDP
header; `tunnel` also raises an MSS that is smaller than its own.

## 3. Runs

| Run | Asks | Bounds |
|---|---|---|
| `pv_ops` | `SingleOwner`, `NoLeak`, `FillStock`, `NeverAborts`, `LeaseSpec` with two Nics on one pool, one prompt, one late | FQ and RX of 2, TX and CQ of 1, 4 chunks, 2 held packets: exactly enough for one open Nic, too few for two |
| `pv_reuse` | violated: `NoReuseBeforeCompletion` | rings of 1, 3 chunks |
| `life_reopen` | `CountOwesFailures`, `CurrentUmem`, `OneOwner`, `RightBuffer`, `Accounted` over open, close, reopen and both fallbacks, in both build profiles | three interfaces: a native, a generic and a refused one; 4 chunks, FQ 2, 2 packets, 4 UMEMs, up to 3 failures, count modulo 4 |
| `life_refused` | violated: `FailureReturns` | one interface that refuses both modes |
| `buf_ops` | every sequence of calls on a Packet: `InBuffer`, `NeighboursUntouched`, `PayloadSpec` | two chunks of three bytes, headroom 1, bytes 0 and 1 |
| `buf_resize` | violated: `ResizeReadsBuffer` | as above |
| `loop_forward` | `SleeperHasWork`, `ReceivesForever`, `TransmitsForever` | two Nics, FQ 2, RX 2, TX 1, CQ 1, batches of up to 2 |
| `recv_wakes` | violated: `RecvWakes` | as above |
| `copy_loops` | `NothingLost`, `NeverPanics`, `KeepsForwarding` for `filter`, `change_word` and `tunnel` | rings of 2, CQ 1, batches of up to 2, one prompt and one late Nic; pools of 8 and 7 chunks (exactly `Sizing` for two Nics, and one less), of 4 and 3 (the same for the tunnel) |
| `filter_reset` | `WordStopped`, `StreamSpec`, `CleanArrives`, `SenderReset`: a connection with and without the word | a sends two segments, b one; the word in a's second or nowhere; a has port 80; receive rings of 2 and 1, TX 2, batches of 2 |
| `rewrites` | `AnswerTaken`, `SumsRight`, `FallsSilent`; `ChangeArrives`, `OnlyFullPanics`; `MssClamped` | two echo hosts with addresses and one without, requests from an echo host and another one; texts of up to 4 over two letters, padding 0 or 3, both readings of the payload's end; up to 3 of 6 TCP options over two ethertypes and protocols |
| `echo_arp` | violated: `ArpAddressed` | as above |

The bounds are small and enough for what can go wrong. Chunks are only compared,
so two per owner show every way of sharing one, and permuting them is a sound
symmetry (also for slots in NicLifecycle). Rings of one or two entries are empty,
full, and partly filled; a batch of two is refused as a whole by a ring with one
free slot. Three bytes per chunk are enough for a payload in the middle, at the
front and at the end of its chunk, and two chunks for one that is read beyond its
end. The fourth UMEM of `life_reopen` allows two reopenings after a full
fallback, and its failures take the count below zero, also with Nics open; its pool
is too small for two Nics and a Packet, so allocation and the filling of the FQ fail
too. In `filter_reset` one segment may come before the word and be under way
with it, in one batch or in two, and b's segment supplies the traffic against
which resets go stale; the receive ring of one entry loses frames. In `rewrites`
source words overlap themselves (`aa`) and texts shrink, keep their length and
grow, also beyond the chunk; an option's data look like an MSS option. `MaxHeld`,
`MaxUmem`, `MaxFailed`, the batch and the ring sizes are the only bounds, and all are
constants. The
deadlock check is off where the process may end (`alive`, `ended`), the hosts may
have nothing left to send or the wire may fall silent.

Every property of a passing run is paired, in `mutants` of `PROJECT.json`, with a
plausible bug in one definition (the operators named `...Faulty`) under which TLC
finds it violated; so no property holds whatever the code does.

**Violated statements.** Each of the violation runs checks a sentence of the
documentation, a comment or an assertion that the code does not keep; they are
quoted in `PROJECT.json` under `findings`:

- `pv_reuse`: `Nic::send` frees a chunk as soon as its descriptor is submitted
  (701), while `README.md:112` has it reused after its completion was read.
- `life_refused`: the first `Nic::new` on an interface that refuses a socket drops
  a Nic that was neither counted nor connected, and ends the process.
- `recv_wakes`: the early return of `recv` (249) passes over the flag, while the
  comment at 279 has the driver woken "whenever Recv() is called". On a prompt Nic
  this does no harm (`SleeperHasWork`); one with a late driver may be left asleep for
  good.
- `echo_arp`: `process_arp` sets the target protocol address of the reply to itself
  (`src/examples/echo/main.rs:136`), so it is the address asked for. `arping`, which
  `src/examples/README.md:31-32` and `src/examples/echo/README.md:17-18` prescribe for
  the test, looks for its own address there.
- `buf_resize`: `resize` copies `end` bytes from offset `start`, so it reads up to
  `start` bytes behind the payload, possibly behind the chunk or the UMEM.

Other behaviours the models show that no document speaks of:

- On a Nic outside `PromptNic`, FQ slots that come back after the packets are
  reserved by no later `reserve_fq`: each such receive shrinks the Nic's stock, in
  the end to nothing. `FillStock` therefore gives such Nics an upper bound only.
- Dropping a Nic that was never counted lowers the count of another one that is
  open; the next `Nic::new` then replaces the UMEM under it. `CountOwesFailures`
  says by how much the count is off. The other properties of `life_reopen` begin with
  `failed = 0`, because a single failure can break each of them.
- Two threads that open or drop Nics lose an update of `refcount`: with
  `Thread = {t1, t2}` TLC finds `CountOwesFailures` violated.
- With `Tidy = FALSE` a Packet that outlives its UMEM frees an address of the next
  one (871), so `OneOwner` fails without any failed call.
- The semi fallback leaves the second Nic without rings (643-661), which ends in
  `ended = "segfault"`; `dump` of an empty packet runs on until the process crashes
  (828).
- The tunnel's socket is nonblocking and a full buffer is an error like any other:
  `expect` ends the process.

## 4. Fairness

**EventLoop.** The loop is weakly fair: `while !term` runs until a signal ends the
program, and nothing in a round blocks (`recvfrom` and `sendto` are called with
`MSG_DONTWAIT`). The driver's steps are weakly fair: a driver that is awake goes on
working. Weak fairness of `RxFrame` says that frames keep arriving, which is the
premise of the claims: without traffic nothing need be received. The two properties
speak of hops whose packets come from a prompt Nic; on the others reception may
starve, which the late driver in the same run does.

**CopyLoop.** Weak fairness of the loop and of `KernelTx`: what is in a transmit
ring is transmitted while there is room for its completion. Nothing forces packets
to arrive; `KeepsForwarding` assumes batches instead. It is claimed for
`change_word` with batches that fit into the ring; the resets of `filter` may take
the room of its copies again and again.

**FilterReset.** Weak fairness of the filter's loop, of `HostReceive` (frames that
were sent on arrive) and of sending or sending again, one or the other: a host goes
on until it is acknowledged.

**Rewrite.** Weak fairness of `Next`: frames on the wire are received and handled.

No strong fairness is assumed anywhere.

## 5. Proofs

All theorems hold for every value of the constants that meets the named
assumptions (`SizesAssumption`, `PromptAssumption`, `FiniteAssumption`,
`NamesAssumption`; `LifeAssumption`; `BufferAssumption`; `LoopAssumption`;
`CopyAssumption`; `FilterAssumption`; `EchoAssumption`, `DatagramAssumption`,
`PaddingAssumption`, `SegmentAssumption`, `WordAssumption`, `MmsAssumption`), which
TLC evaluates. Assumptions beyond these stand in the theorem.

**PacketvisorProofs.** `SingleOwner` is not inductive alone: that a chunk taken
from the pool is in no ring needs the type, that it is not lost needs `NoLeak`,
and that a Nic just opened brings nothing along needs `Closed` (a Nic not opened
has empty rings). `Inv == TypeOK /\ SingleOwner /\ NoLeak /\ Closed` is inductive
(`Invariance`), with one lemma per action. From it `TypeCorrect`, `OneOwner` and
`NothingLost`. `StockHolds` adds that prompt Nics have no withheld slots.
`NoAbort` needs a counting argument: the stocks of the open Nics are disjoint and at
most `FqSize` each, the packets held are at most `MaxHeld`, so with `Enough` chunks
the pool covers the next refill (`PoolSuffices`). `ImplementsLease` maps every step to
a step of ChunkLease or a stutter, in a pool of any size: when it runs dry the process
ends, and the step maps to `End`.

**RingLemmas** holds what the proofs need of sequences (concatenation, split,
append, their ranges and injectivity) and of cardinalities of unions.

**PacketBufferProofs.** `Inv` joins the offsets' bounds with the types of the
history variables. `BufferTypes`, `PayloadInBuffer` and `NeighboursSafe` follow;
the last one rests on `end <= Size`: the over-long copy of `resize` writes `end`
bytes to the front of the chunk, so it *reads* beyond the payload but *writes* no
other chunk. `ImplementsPayload` shows that every call has the effect Payload
gives it, in particular that `resize` keeps the prefix although it copies too
much.

**NicLifecycleProofs.** `TypeCorrect` holds for any number of threads. The others
are about a program with one thread (`OneThread`), where the calls of a Nic's
life cycle do not overlap; with more, `CountOwesFailures` is false.

- `CountIsOwed`: the count is the number of open Nics less the failed calls of
  `Nic::new`, modulo the word size. In the middle of a call the count is ahead of or
  behind the set of open Nics, by an amount that the step of the call decides;
  `CountFor` states it for every step and is inductive together with `TypeOK` and
  `Named` (a call that opens a Nic names an interface).
- `UmemIsRight` and `BuffersAreRight`: `CurrentUmem` and `RightBuffer`, until the
  first failure. The invariant is an implication from `failed = 0`; it is inductive
  because a failure is never forgotten (`FailedStays`). `UmemFor` says
  what a call under way knows of the UMEM: no Nic is open at the steps that replace
  it, because the count was found 0 and by `CountFor` is the number of open Nics; and
  the socket just made is on the UMEM of that moment.
- `ChunksAreOwned` and `ChunksAreAccounted`: `OneOwner` and `Accounted`, for a tidy
  program. `OwnerFor` adds that only a Nic that is open or about to be counted has
  chunks in its rings, and that the first Nic is opened when no Packet is left; so a
  new pool may start complete.

**EventLoopProofs.** `TypeCorrect`, for prompt and late drivers.
`NoSleeperForgotten`: on a prompt Nic the chunks in FQ and RX add up to `FqSize`
(`Stocked`), so a driver that finds its FQ empty leaves RX full, and the next
`receive` does not return early.

**CopyLoopProofs.** `Inv` says how many chunks each step of a round can hold
(`LoopTypes`, `Phase`), that a Nic's stock is at most its fill ring (`Stocked`), and
that pool, stock and held packets add up to all chunks (`NothingLost`). With
`Sizing`, `2 * FqSize + 2 * Batch` chunks for two Nics and `FqSize + Batch` for the
tunnel, there is then a free chunk at every allocation (`SizedForCopies`). The
defaults of the examples, 1024 chunks, rings of 64 and batches of 64, satisfy it. It
is also where the bound `MaxHeld` of Packetvisor comes from: a loop holds at most a
batch and its copies.

**FilterResetProofs.** `WordNeverArrives`, for one of the hosts having port 80: the
segment with the word is marked as long as the filter has not looked at it; what
waits to be copied to b or is in its transmit ring is another segment or a reset,
which is no data; so the segment b waits for is never one after the marked one.

`ImplementsStream` (same premise) refines FilteredStream. Its invariant `Honest` says
that every segment under way speaks the truth: it acknowledges no more than its
sender has taken (`Said`), its data has been sent, it shows the word or resets only
if the word was sent; of a segment to a host nothing but the last need hold if it is
a reset (`Told`), and this is where a forged segment must be flagged as one. Streams
only grow (`Grows`), so what was true when a segment was sent is true when it is
taken, however late; `Ends` carries it over to the hosts.

**RewriteProofs.** `Inv` says that what waits on the wire, and what was handled last,
is a host with a frame, an edit with a datagram, or a segment, and that the outcome
is the handler's of that pair. The theorems then follow from what the handlers make
of *any* frame, text and list of options:

- `EchoGood` (for `EchoAnswers`, `EchoSums`): handler by handler, each field
  of the answer is traced to the field of the request it comes from. An answer is
  again a `Frame`, so it may be a request to the next host. For ARP `EchoAnswers` says
  that the reply's sender fields and hardware addresses are right, not whom it names
  as its target.
- `ChangeGood` (for `WordsArrive`, `FullChunksPanic`): the replaced text fits its new
  length fields, the new size and the slice it is copied into. If pnet shows the
  padding with the text, the word is searched in both; `ReplacePad` shows that this
  changes nothing, because no source word can begin in the text and end in the
  padding.
- `ClampGood` (for `SizesClamped`): the index is the length of the concatenation of
  all options before the first MSS option, so the write falls into that option and
  is a write into the concatenation of all (`WriteHere`, `WriteBefore`).

`Replace`, `IndexOf` and the community modules' `FlattenSeq` are recursive functions.
`Recursion` shows that a function given by such a definition exists, `Induct` is
induction for a set of naturals; it is derived from the library's well-foundedness
of the subset ordering (`FS_StrictSubsetOrderingWellFounded`, `WFMin`), which takes
sets and not operators as parameters. The facts about `Replace` and the index are
then proved by induction over the positions of the text and the options.

Out of the prover's reach and left to TLC: the liveness properties (fairness and
ENABLED), that is `ReceivesForever`, `TransmitsForever`, `KeepsForwarding`,
`CleanArrives`, `SenderReset` and `FallsSilent`. Every other property of a passing
run is also a theorem. No module uses RECURSIVE operators.

## 6. Not modelled

- Races of two threads on the `RefCell` flag and the `HashSet` of the pool (448,
  463): the outcome is corrupted memory, not a state one can enumerate. The race on
  `refcount` is modelled.
- The XSK ring indices, which are 32-bit and wrap inside libxdp; multi-buffer
  frames; sleeps and signals.
- Truncated headers in the examples: every frame given to a handler is long enough
  for the headers it announces, and the options of a TCP header are as long as they
  say (`Option`). So the handlers of EchoReply lack the panics on too short a frame,
  such as those of `src/examples/echo/main.rs:126`, `146`, `173-174`, `265` and `290`,
  and those of `113` and `116`: an echo host's interface has a MAC address.
  In `change_word` the source word is not empty, and the padding of a frame does not
  contain it.
- The panic of `change_word` where a copy does not fit its chunk
  (`src/examples/change_word/main.rs:163`, `167`) is in WordChange; CopyLoop goes on as
  if it fitted. If pnet shows the padding with the text, the checksum set covers the
  padding too and is not `fresh`; `ChangeArrives` asks for a fresh one only of payloads
  that end where the IP header says.
- The kernel reads a chunk some time after `send` freed it. PacketBuffer takes for the
  frame on the wire what the chunk held when it was submitted; that it may be
  overwritten before is the violation `pv_reuse` shows.
- `src/src/bindings.rs`, the bulk of the repository's lines, is generated from the
  headers of libxdp and has no behaviour; `build.rs` generates it. What the library
  calls through it is modelled from its use in `lib.rs`.
- Option parsing and the test script `set_veth.sh`: set-up without state.
- Ring sizes: `Nic::new` passes TX and RX size in the opposite order of `open`'s
  parameters (533-541, 557-564). The models take both as independent constants, so
  all properties hold for either order.

## 7. Plan

Done: Packetvisor with ChunkLease; NicLifecycle; PacketBuffer with Payload;
EventLoop; CopyLoop; FilterReset with FilteredStream; the handlers and Rewrite;
proofs for all of them.

What could follow:

1. Packetvisor composed with the round of CopyLoop, chunks with identity, so that
   `MaxHeld` is derived in the model and not only from the counting proof.
2. Locks in NicLifecycle: which steps of `Nic::new` must exclude each other for the
   theorems to hold with several threads.
3. Bursts in EventLoop: the last packets of a burst when the completion ring is full
   and the program stops calling `send`.
