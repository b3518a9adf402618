----------------------------- MODULE WordChange -----------------------------
(***************************************************************************)
(* What the change_word example makes of a UDP datagram over IPv4: the     *)
(* functions of examples/change_word/main.rs.                              *)
(*                                                                         *)
(* A datagram is a record: data, the bytes behind the UDP header up to the *)
(* end of the packet's payload, that is, the text and whatever pads the    *)
(* frame; total, the length field of the IP header; ulen, the one of the   *)
(* UDP header; and fresh, whether the UDP checksum is that of the header   *)
(* and the text now in it.  Bytes are symbols.                             *)
(*                                                                         *)
(* An operator named ...Faulty is a bug one could put in its place; it is  *)
(* used by no specification, only to see that a property would notice.     *)
(***************************************************************************)
EXTENDS Integers, Sequences, FiniteSetsExt

CONSTANTS
  Symbol,       \* what a byte may be
  BufferSize,   \* buffer_size of a packet, its chunk
  Stale         \* what the buffer holds behind the payload

\* Chunks are no larger than a page, less than a length field can count.
ASSUME WordAssumption ==
  /\ BufferSize \in Nat /\ BufferSize < 65536
  /\ Stale \in Symbol

EthHeader == 14
IpHeader == 20     \* without options
UdpHeader == 8
Headers == EthHeader + IpHeader + UdpHeader

U16(n) == n % 65536

\* str::replace: from left to right, without overlaps.  The source word is
\* not empty.
Replace(text, source, target) ==
  LET n == Len(source)
      From[i \in 1..(Len(text) + 1)] ==
        IF i > Len(text) THEN <<>>
        ELSE IF i + n - 1 <= Len(text) /\ SubSeq(text, i, i + n - 1) = source
             THEN target \o From[i + n]
             ELSE <<text[i]>> \o From[i + 1]
  IN  From[1]

\* The payload pnet shows for a UDP header: up to the end the IP header gives,
\* if cut, and otherwise up to the end of the packet.
PayloadLen(d, cut) ==
  IF cut THEN Min({Len(d.data), d.total - IpHeader - UdpHeader})
  ELSE Len(d.data)
Payload(d, cut) == SubSeq(d.data, 1, PayloadLen(d, cut))

\* get_diff and get_original_payload_data.
Changed(d, source, target, cut) == Replace(Payload(d, cut), source, target)
DiffFaulty(d, source, target, cut) == Len(target) - Len(source)
Diff(d, source, target, cut) ==
  Len(Changed(d, source, target, cut)) - PayloadLen(d, cut)

\* Packet::resize as seen through the payload: cut off, or continued by what
\* is in the buffer.  It refuses a size beyond the buffer.
Fits(d, diff) == Headers + Len(d.data) + diff <= BufferSize
Resized(data, diff) ==
  IF diff < 0 THEN SubSeq(data, 1, Len(data) + diff)
  ELSE data \o [i \in 1..diff |-> Stale]

\* The two length fields.
WithLengthsFaulty(d, diff) == [d EXCEPT !.ulen = U16(@ + diff)]
WithLengths(d, diff) ==
  [d EXCEPT !.total = U16(@ + diff), !.ulen = U16(@ + diff)]

\* copy_from_slice wants slices of one length.  A shrunk payload takes all of
\* the new text, a grown one as much as it has room for.
Copies(room, new, diff) == IF diff < 0 THEN room = Len(new)
                           ELSE room <= Len(new)

\* change_word; the unwrap of resize and copy_from_slice may panic.  The
\* checksum set covers what pnet shows as payload, padding included.
ChangeWord(d, source, target, cut) ==
  LET diff == Diff(d, source, target, cut)
      new == Changed(d, source, target, cut)
      r == [WithLengths(d, diff) EXCEPT !.data = Resized(d.data, diff)]
      room == PayloadLen(r, cut)
  IN  IF Fits(d, diff) /\ Copies(room, new, diff)
      THEN [kind |-> "sent",
            frame |-> [r EXCEPT !.data = SubSeq(new, 1, room)
                                         \o SubSeq(r.data, room + 1, Len(r.data)),
                                !.fresh = (room = r.ulen - UdpHeader)]]
      ELSE [kind |-> "panicked"]
=============================================================================
