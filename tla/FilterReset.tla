---------------------------- MODULE FilterReset ----------------------------
(***************************************************************************)
(* A TCP connection through the filter example.  The filter copies every   *)
(* segment from one Nic to the other, except those to or from port 80 with *)
(* the filtered word in their payload; for such a segment it forges a      *)
(* reset for either end.  Resets are sent at once, copies at the end of    *)
(* the round, and both are lost if the transmit ring has no room.  The     *)
(* refill in receive and the fill ring slots that come back late are left  *)
(* out: a receive ring never runs dry here as it may in EventLoop.         *)
(*                                                                         *)
(* The hosts at both ends, "a" and "b", are outside the code.  They do     *)
(* what TCP asks of a host (RFC 9293): they send their stream in order and *)
(* again until it is acknowledged, take what is next in order, and close   *)
(* on a reset only if it comes from the peer with exactly the next         *)
(* sequence number, while a closed host answers segments with a reset.  A  *)
(* sequence number counts segments.                                        *)
(*                                                                         *)
(* An operator named ...Faulty is a bug one could put in its place; it is  *)
(* used by no specification, only to see that a property would notice.     *)
(***************************************************************************)
EXTENDS Integers, Sequences

CONSTANTS
  Server,    \* the host with port 80, or neither
  Size,      \* Size[h]: segments in the stream of host h
  Words,     \* segments of a's stream the word may be in, Size["a"] for none
  RxSize,    \* RxSize[h]: packets from h that fit into the receive ring
  TxSize,    \* packets that fit into a transmit ring
  Batch      \* rx_batch_size

Host == {"a", "b"}
Peer(h) == IF h = "a" THEN "b" ELSE "a"

ASSUME FilterAssumption ==
  /\ Size \in [Host -> Nat] /\ Words \subseteq 0..Size["a"]
  /\ RxSize \in [Host -> Nat \ {0}] /\ TxSize \in Nat \ {0} /\ Batch \in Nat \ {0}

VARIABLES
  word,      \* the segment of a's stream with the word in it, if there is one
  host,      \* host[h]: what its end of the connection knows
  up,        \* up[h]: segments from h in the receive ring of the Nic it is on
  down,      \* down[h]: segments for h in the transmit ring of that Nic
  pc,        \* the next step of the filter
  from,      \* the host whose Nic this round receives from
  packets,   \* received packets not yet looked at
  copies     \* those that passed

hostVars == <<word, host>>
filterVars == <<pc, from, packets, copies>>
vars == <<hostVars, up, down, filterVars>>

\* A segment names the hosts by whose addresses and ports it goes.
Segment(h, seq, len) ==
  [src |-> h, dst |-> Peer(h), seq |-> seq, ack |-> host[h].rcv, len |-> len,
   rst |-> FALSE, word |-> h = "a" /\ len = 1 /\ seq = word]

Init ==
  /\ word \in Words
  /\ host = [h \in Host |-> [next |-> 0, una |-> 0, rcv |-> 0, open |-> TRUE]]
  /\ up = [h \in Host |-> <<>>] /\ down = [h \in Host |-> <<>>]
  /\ pc = "receive" /\ from = "a" /\ packets = <<>> /\ copies = <<>>

-----------------------------------------------------------------------------
(* The filter                                                              *)

\* What send does with new packets: all fit into the ring, or none is sent.
Queued(ring, new) == IF Len(ring) + Len(new) <= TxSize THEN ring \o new ELSE ring

\* process_packet
PassesFaulty(s) == ~(s.word /\ s.dst = Server)
Passes(s) == ~(s.word /\ Server \in {s.src, s.dst})

\* send_tcp_rst: the packet with only the flags changed, and for the host it
\* came from with the ends swapped and the sequence number it expects.  The
\* payload stays.
ResetBackFaulty(s) == [s EXCEPT !.src = s.dst, !.dst = s.src, !.rst = TRUE]
ResetBackUnflagged(s) == [s EXCEPT !.src = s.dst, !.dst = s.src, !.seq = s.ack]
ResetBack(s) ==
  [s EXCEPT !.src = s.dst, !.dst = s.src, !.seq = s.ack, !.rst = TRUE]
ResetOn(s) == [s EXCEPT !.rst = TRUE]

\* Nothing received, the round is over.
ReceiveNoneFaulty ==
  pc = "receive" /\ up[from] = <<>> /\ UNCHANGED vars
ReceiveNone ==
  /\ pc = "receive" /\ up[from] = <<>>
  /\ from' = Peer(from)
  /\ UNCHANGED <<hostVars, up, down, pc, packets, copies>>

Receive ==
  LET k == IF Len(up[from]) <= Batch THEN Len(up[from]) ELSE Batch
  IN  /\ pc = "receive" /\ up[from] # <<>>
      /\ packets' = SubSeq(up[from], 1, k)
      /\ up' = [up EXCEPT ![from] = SubSeq(@, k + 1, Len(@))]
      /\ pc' = "process"
      /\ UNCHANGED <<hostVars, down, from, copies>>

Pass ==
  /\ pc = "process" /\ packets # <<>> /\ Passes(Head(packets))
  /\ packets' = Tail(packets)
  /\ copies' = Append(copies, Head(packets))
  /\ UNCHANGED <<hostVars, up, down, pc, from>>

Reject ==
  /\ pc = "process" /\ packets # <<>> /\ ~Passes(Head(packets))
  /\ packets' = Tail(packets)
  /\ down' = [h \in Host |->
                Queued(down[h], <<IF h = from THEN ResetBack(Head(packets))
                                  ELSE ResetOn(Head(packets))>>)]
  /\ UNCHANGED <<hostVars, up, pc, from, copies>>

\* The end of a round.
Send ==
  /\ pc = "process" /\ packets = <<>>
  /\ down' = [down EXCEPT ![Peer(from)] = Queued(@, copies)]
  /\ copies' = <<>> /\ pc' = "receive" /\ from' = Peer(from)
  /\ UNCHANGED <<hostVars, up, packets>>

Filter == ReceiveNone \/ Receive \/ Pass \/ Reject \/ Send

-----------------------------------------------------------------------------
(* The hosts                                                               *)

\* A frame that finds the ring full is lost.
Emitted(h, s) == [up EXCEPT ![h] = IF Len(@) < RxSize[h] THEN Append(@, s) ELSE @]

HostSend(h) ==
  /\ host[h].open /\ host[h].next < Size[h] /\ Len(up[h]) < RxSize[h]
  /\ up' = Emitted(h, Segment(h, host[h].next, 1))
  /\ host' = [host EXCEPT ![h].next = @ + 1]
  /\ UNCHANGED <<word, down, filterVars>>

\* Its timeout is longer than a round of the filter.
HostResend(h) ==
  /\ host[h].open /\ host[h].una < host[h].next
  /\ up[h] = <<>> /\ ~(pc = "process" /\ from = h)
  /\ up' = Emitted(h, Segment(h, host[h].una, 1))
  /\ UNCHANGED <<hostVars, down, filterVars>>

\* What an open host makes of a segment for it, and its acknowledgement.
Took(h, s) ==
  [host[h] EXCEPT
     !.una = IF s.ack \in host[h].una..host[h].next THEN s.ack ELSE @,
     !.rcv = IF s.len = 1 /\ s.seq = @ THEN @ + 1 ELSE @]
HostTakes(h, s) ==
  /\ s.dst = h /\ host[h].open /\ ~s.rst
  /\ host' = [host EXCEPT ![h] = Took(h, s)]
  /\ up' = IF s.len = 0 THEN up
           ELSE Emitted(h, [Segment(h, host[h].next, 0) EXCEPT !.ack = Took(h, s).rcv])

HostIsReset(h, s) ==
  /\ s.dst = h /\ host[h].open /\ s.rst
  /\ host' = [host EXCEPT ![h].open = s.seq # host[h].rcv]
  /\ UNCHANGED up

\* A closed host answers with a reset, though never to a reset.
HostRefuses(h, s) ==
  /\ s.dst = h /\ ~host[h].open /\ ~s.rst
  /\ up' = Emitted(h, [Segment(h, s.ack, 0) EXCEPT !.rst = TRUE])
  /\ UNCHANGED host

HostIgnores(h, s) ==
  /\ s.dst # h \/ (~host[h].open /\ s.rst)
  /\ UNCHANGED <<host, up>>

HostReceive(h) ==
  /\ down[h] # <<>>
  /\ down' = [down EXCEPT ![h] = Tail(@)]
  /\ LET s == Head(down[h])
     IN  HostTakes(h, s) \/ HostIsReset(h, s) \/ HostRefuses(h, s) \/ HostIgnores(h, s)
  /\ UNCHANGED <<word, filterVars>>

HostStep(h) == HostSend(h) \/ HostResend(h) \/ HostReceive(h)

-----------------------------------------------------------------------------
Next == Filter \/ \E h \in Host : HostStep(h)

\* The filter's loop never stops, frames that were sent arrive, and a host
\* sends and repeats what is not acknowledged.
Fairness ==
  /\ WF_vars(Filter)
  /\ \A h \in Host :
       WF_vars(HostReceive(h)) /\ WF_vars(HostSend(h) \/ HostResend(h))

Spec == Init /\ [][Next]_vars /\ Fairness

-----------------------------------------------------------------------------
(* Properties                                                              *)

(***************************************************************************)
(* However segments are repeated, batched and reordered with resets, the   *)
(* receiver's stream never gets to the segment with the word.              *)
(***************************************************************************)
WordStopped == host["b"].rcv <= word

(***************************************************************************)
(* For its ends the connection is still TCP: what arrives is the stream    *)
(* that was sent, in order and short of the word, an acknowledgement is of *)
(* what has arrived, forged segments or not, and only a connection whose   *)
(* word was sent is closed.                                                *)
(***************************************************************************)
Stream == INSTANCE FilteredStream
  WITH sent  <- [h \in Host |-> host[h].next],
       got   <- [h \in Host |-> host[Peer(h)].rcv],
       acked <- [h \in Host |-> host[h].una],
       open  <- [h \in Host |-> host[h].open]
StreamSpec == Stream!Spec

(***************************************************************************)
(* All of a connection without the word arrives, acknowledged at either    *)
(* end, if a batch fits into the transmit ring.                            *)
(***************************************************************************)
CleanArrives ==
  word = Size["a"] /\ Batch <= TxSize =>
    <>(\A h \in Host : host[h].una = Size[h])

(***************************************************************************)
(* The host that goes on sending the word ends up closed, though a reset   *)
(* may be too old for it when it arrives, or be lost.                      *)
(***************************************************************************)
SenderReset == word < Size["a"] => <>(~host["a"].open)
=============================================================================
