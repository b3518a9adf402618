------------------------- MODULE FilterResetProofs -------------------------
(***************************************************************************)
(* Theorems of FilterReset, for streams, rings and batches of any size.    *)
(*                                                                         *)
(* The segment with the filtered word never gets into the receiver's       *)
(* stream (Inv): it stays marked until the filter looks at it, what the    *)
(* filter lets through is not marked, and a reset that still has it as its *)
(* payload is no data.  And with the filter between them the hosts still   *)
(* speak TCP (Honest): FilterReset implements FilteredStream.              *)
(***************************************************************************)
EXTENDS FilterReset, TLAPS

Packet ==
  [src : Host, dst : Host, seq : Nat, ack : Nat, len : {0, 1}, rst : BOOLEAN,
   word : BOOLEAN]

\* On the way from h to the filter: the word shows.
Sent(h) ==
  {s \in Packet : /\ s.src = h /\ s.dst = Peer(h)
                  /\ h = "a" /\ s.len = 1 /\ s.seq = word => s.word}

\* On the way from the filter to h: b is sent no data from where the word is.
Clean(h) ==
  {s \in Packet : h = "b" /\ ~s.rst /\ s.len = 1 => s.seq # word}

HostTypes ==
  /\ word \in Nat
  /\ host \in [Host -> [next : Nat, una : Nat, rcv : Nat, open : BOOLEAN]]

Rings ==
  /\ up \in [Host -> Seq(Packet)] /\ \A h \in Host : up[h] \in Seq(Sent(h))
  /\ down \in [Host -> Seq(Packet)] /\ \A h \in Host : down[h] \in Seq(Clean(h))

Round ==
  /\ from \in Host
  /\ packets \in Seq(Sent(from)) /\ copies \in Seq(Clean(Peer(from)))
  /\ pc = "receive" => packets = <<>> /\ copies = <<>>

Inv == HostTypes /\ Rings /\ Round /\ WordStopped

-----------------------------------------------------------------------------
\* The only other host.
LEMMA PeerFacts ==
  ASSUME NEW h \in Host
  PROVE  Peer(h) \in Host /\ Peer(h) # h /\ (h = "a" <=> Peer(h) = "b")
BY DEF Host, Peer

\* A transmit ring holds what it held or was given.
LEMMA QueuedIn ==
  ASSUME NEW S, NEW ring \in Seq(S), NEW new \in Seq(S)
  PROVE  Queued(ring, new) \in Seq(S)
BY DEF Queued

\* So does a receive ring.
LEMMA EmittedIn ==
  ASSUME Rings, NEW h \in Host, NEW s \in Sent(h), up' = Emitted(h, s)
  PROVE  /\ up' \in [Host -> Seq(Packet)]
         /\ \A g \in Host : up'[g] \in Seq(Sent(g))
<1>1. s \in Packet
  BY DEF Sent
<1>2. Append(up[h], s) \in Seq(Packet)
  BY <1>1 DEF Rings
<1>3. Append(up[h], s) \in Seq(Sent(h))
  BY DEF Rings
<1>4. up' \in [Host -> Seq(Packet)]
  BY <1>2 DEF Emitted, Rings
<1>5. ASSUME NEW g \in Host PROVE up'[g] \in Seq(Sent(g))
  <2>1. CASE g = h
    BY <2>1, <1>3 DEF Emitted, Rings
  <2>2. CASE g # h
    BY <2>2 DEF Emitted, Rings
  <2> QED BY <2>1, <2>2
<1> QED BY <1>4, <1>5

\* Taking a packet from a transmit ring leaves the others.
LEMMA DownIn ==
  ASSUME Rings,
         \/ UNCHANGED down
         \/ \E g \in Host : down[g] # <<>> /\ down' = [down EXCEPT ![g] = Tail(@)]
  PROVE  /\ down' \in [Host -> Seq(Packet)]
         /\ \A h \in Host : down'[h] \in Seq(Clean(h))
<1>1. CASE UNCHANGED down
  BY <1>1 DEF Rings
<1>2. ASSUME NEW g \in Host, down[g] # <<>>, down' = [down EXCEPT ![g] = Tail(@)]
      PROVE  /\ down' \in [Host -> Seq(Packet)]
             /\ \A h \in Host : down'[h] \in Seq(Clean(h))
  <2>1. Tail(down[g]) \in Seq(Packet) /\ Tail(down[g]) \in Seq(Clean(g))
    BY <1>2 DEF Rings
  <2>2. ASSUME NEW h \in Host PROVE down'[h] \in Seq(Clean(h))
    <3>1. CASE h = g
      BY <3>1, <1>2, <2>1 DEF Rings
    <3>2. CASE h # g
      BY <3>2, <1>2 DEF Rings
    <3> QED BY <3>1, <3>2
  <2> QED BY <1>2, <2>1, <2>2 DEF Rings
<1> QED BY <1>1, <1>2

\* A host sends what it may.
LEMMA SegmentSent ==
  ASSUME HostTypes, NEW h \in Host, NEW q \in Nat, NEW n \in {0, 1}
  PROVE  /\ Segment(h, q, n) \in Sent(h)
         /\ \A k \in Nat : n = 0 => [Segment(h, q, n) EXCEPT !.ack = k] \in Sent(h)
         /\ n = 0 => [Segment(h, q, n) EXCEPT !.rst = TRUE] \in Sent(h)
<1>1. Peer(h) \in Host
  BY PeerFacts
<1>2. host[h].rcv \in Nat
  BY DEF HostTypes
<1> QED BY <1>1, <1>2 DEF Segment, Sent, Packet

\* Sent and Clean depend on the place of the word only.
LEMMA SetsStay ==
  ASSUME word' = word
  PROVE  \A h : Sent(h)' = Sent(h) /\ Clean(h)' = Clean(h)
BY DEF Sent, Clean

-----------------------------------------------------------------------------
LEMMA InvInit == Init => Inv
<1> SUFFICES ASSUME Init PROVE Inv
  OBVIOUS
<1>1. word \in Nat /\ 0 <= word
  BY FilterAssumption DEF Init, Host
<1>2. "a" \in Host /\ "b" \in Host
  BY DEF Host
<1> QED BY <1>1, <1>2 DEF Init, Inv, HostTypes, Rings, Round, WordStopped

-----------------------------------------------------------------------------
(* The steps of the filter                                                 *)

LEMMA ReceiveInv ==
  ASSUME Inv, Receive
  PROVE  Inv'
<1>1. from \in Host /\ up[from] \in Seq(Sent(from)) /\ up[from] \in Seq(Packet)
  BY DEF Inv, Round, Rings
<1>2. PICK k \in Nat :
        /\ k <= Len(up[from])
        /\ packets' = SubSeq(up[from], 1, k)
        /\ up' = [up EXCEPT ![from] = SubSeq(@, k + 1, Len(@))]
  <2> DEFINE k == IF Len(up[from]) <= Batch THEN Len(up[from]) ELSE Batch
  <2>1. k \in Nat /\ k <= Len(up[from])
    BY <1>1, FilterAssumption
  <2> QED BY <2>1 DEF Receive
<1>3. ASSUME NEW S, up[from] \in Seq(S)
      PROVE  /\ SubSeq(up[from], 1, k) \in Seq(S)
             /\ SubSeq(up[from], k + 1, Len(up[from])) \in Seq(S)
  BY <1>2, <1>3
<1>4. SubSeq(up[from], k + 1, Len(up[from])) \in Seq(Packet)
  BY <1>1, <1>3
<1>5. /\ SubSeq(up[from], 1, k) \in Seq(Sent(from))
      /\ SubSeq(up[from], k + 1, Len(up[from])) \in Seq(Sent(from))
  BY <1>1, <1>3
<1>6. \A h : Sent(h)' = Sent(h) /\ Clean(h)' = Clean(h)
  BY SetsStay DEF Receive, hostVars
<1>7. Rings'
  BY <1>1, <1>2, <1>4, <1>5, <1>6 DEF Rings, Inv, Receive
<1>8. Round'
  BY <1>1, <1>2, <1>5, <1>6 DEF Round, Inv, Receive
<1> QED BY <1>7, <1>8 DEF Inv, HostTypes, WordStopped, Receive, hostVars

LEMMA PassInv ==
  ASSUME Inv, Pass, Server \in Host
  PROVE  Inv'
<1> DEFINE s == Head(packets)
<1>1. s \in Sent(from) /\ Tail(packets) \in Seq(Sent(from)) /\ from \in Host
  BY DEF Inv, Round, Pass
<1>2. s \in Clean(Peer(from))
  <2>1. /\ s \in Packet /\ s.src = from /\ s.dst = Peer(from)
        /\ from = "a" /\ s.len = 1 /\ s.seq = word => s.word
    BY <1>1 DEF Sent
  <2>2. CASE from = "b"
    BY <2>1, <2>2 DEF Clean, Peer
  <2>3. CASE from = "a"
    <3>1. {s.src, s.dst} = Host
      BY <2>1, <2>3 DEF Peer, Host
    <3>2. ~s.word
      BY <3>1 DEF Pass, Passes
    <3> QED BY <2>1, <2>3, <3>2 DEF Clean
  <2> QED BY <2>2, <2>3, <1>1 DEF Host
<1>3. \A h : Sent(h)' = Sent(h) /\ Clean(h)' = Clean(h)
  BY SetsStay DEF Pass, hostVars
<1>4. copies' \in Seq(Clean(Peer(from)))
  BY <1>2 DEF Inv, Round, Pass
<1>5. Round'
  BY <1>1, <1>3, <1>4 DEF Round, Pass
<1>6. Rings'
  BY <1>3 DEF Inv, Rings, Pass
<1> QED BY <1>5, <1>6 DEF Inv, HostTypes, WordStopped, Pass, hostVars

\* A reset is no data, whatever its payload.
LEMMA RejectInv ==
  ASSUME Inv, Reject
  PROVE  Inv'
<1> DEFINE s == Head(packets)
           new(h) == <<IF h = from THEN ResetBack(s) ELSE ResetOn(s)>>
<1>1. /\ s \in Sent(from) /\ Tail(packets) \in Seq(Sent(from))
      /\ from \in Host /\ copies \in Seq(Clean(Peer(from)))
  BY DEF Inv, Round, Reject
<1>2. s \in Packet
  BY <1>1 DEF Sent
<1>3. ASSUME NEW h
      PROVE  /\ ResetBack(s) \in Packet /\ ResetBack(s) \in Clean(h)
             /\ ResetOn(s) \in Packet /\ ResetOn(s) \in Clean(h)
  BY <1>2 DEF ResetBack, ResetOn, Clean, Packet
<1>4. \A h : Sent(h)' = Sent(h) /\ Clean(h)' = Clean(h)
  BY SetsStay DEF Reject, hostVars
<1>5. ASSUME NEW h \in Host
      PROVE  Queued(down[h], new(h)) \in Seq(Packet) \cap Seq(Clean(h))
  <2>1. new(h) \in Seq(Packet) /\ new(h) \in Seq(Clean(h))
    BY <1>3
  <2>2. down[h] \in Seq(Packet) /\ down[h] \in Seq(Clean(h))
    BY DEF Inv, Rings
  <2> HIDE DEF new
  <2> QED BY <2>1, <2>2, QueuedIn
<1>6. down' = [h \in Host |-> Queued(down[h], new(h))]
  BY DEF Reject
<1> HIDE DEF new
<1>7. Rings'
  BY <1>4, <1>5, <1>6 DEF Rings, Inv, Reject
<1>8. Round'
  BY <1>1, <1>4 DEF Round, Reject
<1> QED BY <1>7, <1>8 DEF Inv, HostTypes, WordStopped, Reject, hostVars

LEMMA SendInv ==
  ASSUME Inv, Send
  PROVE  Inv'
<1> DEFINE p == Peer(from)
<1>1. from \in Host /\ p \in Host /\ copies \in Seq(Clean(p))
  BY PeerFacts DEF Inv, Round
<1>2. down[p] \in Seq(Packet) /\ down[p] \in Seq(Clean(p))
  BY <1>1 DEF Inv, Rings
<1>3. copies \in Seq(Packet)
  <2>1. Clean(p) \subseteq Packet
    BY DEF Clean
  <2> QED BY <1>1, <2>1
<1>4. Queued(down[p], copies) \in Seq(Packet) /\ Queued(down[p], copies) \in Seq(Clean(p))
  BY <1>1, <1>2, <1>3, QueuedIn
<1>5. down' = [down EXCEPT ![p] = Queued(@, copies)]
  BY DEF Send
<1>6. \A h : Sent(h)' = Sent(h) /\ Clean(h)' = Clean(h)
  BY SetsStay DEF Send, hostVars
<1>7. Rings'
  <2>1. down' \in [Host -> Seq(Packet)]
    BY <1>1, <1>4, <1>5 DEF Inv, Rings
  <2>2. ASSUME NEW h \in Host PROVE down'[h] \in Seq(Clean(h))
    <3>1. CASE h = p
      BY <3>1, <1>4, <1>5 DEF Inv, Rings
    <3>2. CASE h # p
      BY <3>2, <1>5 DEF Inv, Rings
    <3> QED BY <3>1, <3>2
  <2> QED BY <2>1, <2>2, <1>6 DEF Inv, Rings, Send
<1>8. Round'
  BY <1>1, <1>6 DEF Inv, Round, Send
<1> QED BY <1>7, <1>8 DEF Inv, HostTypes, WordStopped, Send, hostVars

LEMMA ReceiveNoneInv ==
  ASSUME Inv, ReceiveNone
  PROVE  Inv'
<1>1. \A h : Sent(h)' = Sent(h) /\ Clean(h)' = Clean(h)
  BY SetsStay DEF ReceiveNone, hostVars
<1>2. Round'
  BY <1>1, PeerFacts DEF Inv, Round, ReceiveNone
<1> QED BY <1>1, <1>2 DEF Inv, HostTypes, Rings, WordStopped, ReceiveNone, hostVars
-----------------------------------------------------------------------------
(* The steps of the hosts                                                  *)

\* What a host sends leaves the rest as it is.
LEMMA HostSends ==
  ASSUME Inv, NEW h \in Host, NEW s \in Sent(h), up' = Emitted(h, s),
         HostTypes', host'["b"].rcv = host["b"].rcv, word' = word,
         \/ UNCHANGED down
         \/ \E g \in Host : down[g] # <<>> /\ down' = [down EXCEPT ![g] = Tail(@)],
         UNCHANGED filterVars
  PROVE  Inv'
<1>1. \A g : Sent(g)' = Sent(g) /\ Clean(g)' = Clean(g)
  BY SetsStay
<1>2. Rings'
  <2>1. down' \in [Host -> Seq(Packet)] /\ \A g \in Host : down'[g] \in Seq(Clean(g))
    BY DownIn DEF Inv
  <2> QED BY <1>1, <2>1, EmittedIn DEF Inv, Rings
<1> QED BY <1>1, <1>2 DEF Inv, Round, WordStopped, filterVars

LEMMA HostSendInv ==
  ASSUME Inv, NEW h \in Host, HostSend(h)
  PROVE  Inv'
<1>1. HostTypes /\ HostTypes'
  <2>1. HostTypes /\ word' = word
    BY DEF Inv, HostSend
  <2>2. [host[h] EXCEPT !.next = @ + 1] \in
          [next : Nat, una : Nat, rcv : Nat, open : BOOLEAN]
    BY <2>1 DEF HostTypes
  <2>3. host' = [host EXCEPT ![h] = [host[h] EXCEPT !.next = @ + 1]]
    BY <2>1 DEF HostSend, HostTypes
  <2> QED BY <2>1, <2>2, <2>3 DEF HostTypes
<1>2. Segment(h, host[h].next, 1) \in Sent(h)
  BY <1>1, SegmentSent DEF HostTypes
<1>3. host'["b"].rcv = host["b"].rcv
  BY <1>1 DEF HostSend, HostTypes, Host
<1> QED BY <1>1, <1>2, <1>3, HostSends DEF HostSend

LEMMA HostResendInv ==
  ASSUME Inv, NEW h \in Host, HostResend(h)
  PROVE  Inv'
<1>1. HostTypes /\ HostTypes'
  BY DEF Inv, HostTypes, HostResend, hostVars
<1>2. Segment(h, host[h].una, 1) \in Sent(h)
  BY <1>1, SegmentSent DEF HostTypes
<1> QED BY <1>1, <1>2, HostSends DEF HostResend, hostVars

\* The one step that moves a stream on.
LEMMA HostTakesInv ==
  ASSUME Inv, NEW h \in Host, HostReceive(h), HostTakes(h, Head(down[h]))
  PROVE  Inv'
<1> DEFINE s == Head(down[h])
           x == Took(h, s)
<1>1. s \in Clean(h) /\ s \in Packet
  <2>1. down[h] \in Seq(Clean(h)) /\ down[h] # <<>>
    BY DEF Inv, Rings, HostReceive
  <2>2. s \in Clean(h)
    BY <2>1
  <2> QED BY <2>2 DEF Clean
<1>2. HostTypes
  BY DEF Inv
<1>3. x \in [next : Nat, una : Nat, rcv : Nat, open : BOOLEAN]
  <2>1. host[h] \in [next : Nat, una : Nat, rcv : Nat, open : BOOLEAN]
    BY <1>2 DEF HostTypes
  <2>2. s.ack \in Nat
    BY <1>1 DEF Packet
  <2> DEFINE u == IF s.ack \in host[h].una..host[h].next THEN s.ack ELSE host[h].una
             r == IF s.len = 1 /\ s.seq = host[h].rcv THEN host[h].rcv + 1
                  ELSE host[h].rcv
  <2>3. u \in Nat /\ r \in Nat
    BY <2>1, <2>2
  <2>4. x = [host[h] EXCEPT !.una = u, !.rcv = r]
    BY DEF Took
  <2> HIDE DEF u, r, x
  <2> QED BY <2>1, <2>3, <2>4
<1>4. host' = [host EXCEPT ![h] = x] /\ word' = word
  BY DEF HostTakes, HostReceive
<1>5. HostTypes'
  BY <1>2, <1>3, <1>4 DEF HostTypes
<1>6. WordStopped'
  <2>1. CASE h = "b" /\ s.len = 1 /\ s.seq = host[h].rcv
    <3>1. s.seq # word
      BY <1>1, <2>1 DEF Clean, HostTakes
    <3>2. x.rcv = host["b"].rcv + 1
      BY <1>2, <2>1 DEF Took, HostTypes
    <3> QED BY <1>2, <1>4, <2>1, <3>1, <3>2 DEF Inv, WordStopped, HostTypes
  <2>2. CASE ~(s.len = 1 /\ s.seq = host[h].rcv)
    <3>1. x.rcv = host[h].rcv
      BY <1>2, <2>2 DEF Took, HostTypes
    <3> QED BY <1>2, <1>4, <3>1 DEF Inv, WordStopped, HostTypes, Host
  <2>3. CASE h # "b"
    BY <1>2, <1>4, <2>3 DEF Inv, WordStopped, HostTypes, Host
  <2> QED BY <2>1, <2>2, <2>3
<1>7. \A g : Sent(g)' = Sent(g) /\ Clean(g)' = Clean(g)
  BY <1>4, SetsStay
<1>8. Rings'
  <2>1. /\ down' \in [Host -> Seq(Packet)]
        /\ \A g \in Host : down'[g] \in Seq(Clean(g))
    BY DownIn DEF Inv, HostReceive
  <2>2. /\ up' \in [Host -> Seq(Packet)]
        /\ \A g \in Host : up'[g] \in Seq(Sent(g))
    <3>1. CASE up' = up
      BY <3>1 DEF Inv, Rings
    <3>2. CASE up' = Emitted(h, [Segment(h, host[h].next, 0) EXCEPT !.ack = x.rcv])
      <4>1. [Segment(h, host[h].next, 0) EXCEPT !.ack = x.rcv] \in Sent(h)
        BY <1>2, <1>3, SegmentSent DEF HostTypes
      <4> QED BY <3>2, <4>1, EmittedIn DEF Inv
    <3> QED BY <3>1, <3>2 DEF HostTakes
  <2> QED BY <1>7, <2>1, <2>2 DEF Rings
<1>9. Round'
  BY <1>7 DEF Inv, Round, HostReceive, filterVars
<1> QED BY <1>5, <1>6, <1>8, <1>9 DEF Inv

LEMMA HostReceiveInv ==
  ASSUME Inv, NEW h \in Host, HostReceive(h)
  PROVE  Inv'
<1> DEFINE s == Head(down[h])
<1>1. word' = word /\ HostTypes
  BY DEF HostReceive, Inv
<1>2. \A g : Sent(g)' = Sent(g) /\ Clean(g)' = Clean(g)
  BY <1>1, SetsStay
<1>3. /\ down' \in [Host -> Seq(Packet)]
      /\ \A g \in Host : down'[g] \in Seq(Clean(g))
  BY DownIn DEF Inv, HostReceive
<1>4. CASE HostTakes(h, s)
  BY <1>4, HostTakesInv
<1>5. CASE HostIsReset(h, s)
  <2>1. HostTypes' /\ host'["b"].rcv = host["b"].rcv
    BY <1>1, <1>5 DEF HostIsReset, HostTypes, Host
  <2> QED BY <1>1, <1>2, <1>3, <1>5, <2>1
          DEF Inv, Rings, Round, WordStopped, HostReceive, HostIsReset, filterVars
<1>6. CASE HostRefuses(h, s)
  <2>1. s \in Packet
    <3>1. down[h] \in Seq(Packet) /\ down[h] # <<>>
      BY DEF Inv, Rings, HostReceive
    <3> QED BY <3>1
  <2>2. [Segment(h, s.ack, 0) EXCEPT !.rst = TRUE] \in Sent(h)
    BY <1>1, <2>1, SegmentSent DEF Packet
  <2>3. HostTypes' /\ host' = host /\ up' = Emitted(h, [Segment(h, s.ack, 0) EXCEPT !.rst = TRUE])
    BY <1>1, <1>6 DEF HostRefuses, HostTypes
  <2> QED BY <1>1, <2>2, <2>3, HostSends DEF HostReceive
<1>7. CASE HostIgnores(h, s)
  BY <1>1, <1>2, <1>3, <1>7
     DEF Inv, HostTypes, Rings, Round, WordStopped, HostReceive, HostIgnores, filterVars
<1> QED BY <1>4, <1>5, <1>6, <1>7 DEF HostReceive

-----------------------------------------------------------------------------
LEMMA InvStep ==
  ASSUME Inv, [Next]_vars, Server \in Host
  PROVE  Inv'
<1>1. CASE Filter
  BY <1>1, ReceiveNoneInv, ReceiveInv, PassInv, RejectInv, SendInv DEF Filter
<1>2. ASSUME NEW h \in Host, HostStep(h) PROVE Inv'
  BY <1>2, HostSendInv, HostResendInv, HostReceiveInv DEF HostStep
<1>3. CASE UNCHANGED vars
  BY <1>3 DEF vars, hostVars, filterVars, Inv, HostTypes, Rings, Round, WordStopped,
              Sent, Clean
<1> QED BY <1>1, <1>2, <1>3 DEF Next

(***************************************************************************)
(* If either end has port 80, the receiver's stream never gets to the      *)
(* segment with the word, whatever process_packet and send_tcp_rst are     *)
(* given, however full the rings are and however often it is sent.         *)
(***************************************************************************)
THEOREM WordNeverArrives == ASSUME Server \in Host PROVE Spec => []WordStopped
<1>1. Inv => WordStopped
  BY DEF Inv
<1>2. Inv /\ [Next]_vars => Inv'
  BY InvStep
<1> QED BY <1>1, <1>2, InvInit, PTL DEF Spec

-----------------------------------------------------------------------------
(* The connection is TCP for its ends: FilterReset implements              *)
(* FilteredStream.  A segment says what is so: it acknowledges no more     *)
(* than has arrived, its data has been sent, it shows the word or resets   *)
(* only if the word has been sent.  Streams only grow, so that what was    *)
(* true when a segment was sent still is when it is taken.                 *)

WordSent == word < host["a"].next

\* What h says to the filter.
Said(h) ==
  {s \in Packet : /\ s.src = h /\ s.dst = Peer(h)
                  /\ s.ack <= host[h].rcv
                  /\ s.len = 1 => s.seq < host[h].next
                  /\ s.word \/ s.rst => WordSent}

\* What the filter says to h: a reset may be false in all but its reason.
Told(h) ==
  {s \in Packet : /\ s.rst => WordSent
                  /\ ~s.rst => s \in Said(Peer(h))}

Segments ==
  /\ \A h \in Host : up[h] \in Seq(Said(h)) /\ down[h] \in Seq(Told(h))
  /\ packets \in Seq(Said(from)) /\ copies \in Seq(Said(from))

Ends ==
  \A h \in Host : /\ host[h].una <= host[Peer(h)].rcv
                  /\ host[Peer(h)].rcv <= host[h].next
                  /\ ~host[h].open => WordSent

Honest == Segments /\ Ends

\* Nothing is taken back.
Grows ==
  /\ word' = word
  /\ \A h \in Host : /\ host[h].next <= host'[h].next
                     /\ host[h].rcv <= host'[h].rcv

LEMMA SeqGrows ==
  ASSUME NEW S, NEW T, S \subseteq T
  PROVE  Seq(S) \subseteq Seq(T)
OBVIOUS

LEMMA SaidGrows ==
  ASSUME HostTypes, HostTypes', Grows, NEW h \in Host
  PROVE  /\ Seq(Said(h)) \subseteq Seq(Said(h)')
         /\ Seq(Told(h)) \subseteq Seq(Told(h)')
<1>0. "a" \in Host /\ Peer(h) \in Host
  BY PeerFacts DEF Host
<1>1. WordSent => WordSent'
  BY <1>0 DEF WordSent, Grows, HostTypes
<1>2. ASSUME NEW g \in Host PROVE Said(g) \subseteq Said(g)'
  <2> SUFFICES ASSUME NEW s \in Said(g) PROVE s \in Said(g)'
    OBVIOUS
  <2>1. /\ s \in Packet /\ s.src = g /\ s.dst = Peer(g) /\ s.ack <= host[g].rcv
        /\ s.len = 1 => s.seq < host[g].next
        /\ s.word \/ s.rst => WordSent
    BY DEF Said
  <2>2. /\ s.ack \in Nat /\ s.seq \in Nat
        /\ host[g].rcv \in Nat /\ host'[g].rcv \in Nat
        /\ host[g].next \in Nat /\ host'[g].next \in Nat
    BY <2>1 DEF Packet, HostTypes
  <2>3. host[g].rcv <= host'[g].rcv /\ host[g].next <= host'[g].next
    BY DEF Grows
  <2>4. s.ack <= host'[g].rcv /\ (s.len = 1 => s.seq < host'[g].next)
    BY ONLY <2>1, <2>2, <2>3
  <2> QED BY ONLY <1>1, <2>1, <2>4 DEF Said
<1>3. Told(h) \subseteq Told(h)'
  <2>1. Said(Peer(h)) \subseteq Said(Peer(h))'
    BY <1>0, <1>2
  <2> QED BY <1>1, <2>1 DEF Told
<1>4. Said(h) \subseteq Said(h)'
  BY <1>2
<1> QED BY <1>3, <1>4, SeqGrows

\* What the filter lets through from one host is said to the other.
LEMMA SaidIsTold ==
  ASSUME NEW h \in Host
  PROVE  Said(h) \subseteq Told(Peer(h))
<1>1. Peer(Peer(h)) = h
  BY DEF Peer, Host
<1> QED BY <1>1 DEF Told, Said

LEMMA HonestInit ==
  ASSUME Init
  PROVE  Honest
BY PeerFacts DEF Init, Honest, Segments, Ends

-----------------------------------------------------------------------------
\* What the filter does leaves what can be said as it is.
LEMMA FilterKeeps ==
  ASSUME UNCHANGED hostVars
  PROVE  /\ \A h : Said(h)' = Said(h) /\ Told(h)' = Told(h)
         /\ Ends => Ends'
BY DEF hostVars, Said, Told, WordSent, Ends

LEMMA FilterHonest ==
  ASSUME Inv, Honest, Filter
  PROVE  Honest' /\ UNCHANGED hostVars
<1>0. UNCHANGED hostVars
  BY DEF Filter, ReceiveNone, Receive, Pass, Reject, Send, hostVars
<1>1. /\ \A h : Said(h)' = Said(h) /\ Told(h)' = Told(h)
      /\ Ends'
  BY <1>0, FilterKeeps DEF Honest
<1>2. from \in Host /\ Peer(from) \in Host
  BY PeerFacts DEF Inv, Round
<1>3. /\ \A h \in Host : up[h] \in Seq(Said(h)) /\ down[h] \in Seq(Told(h))
      /\ packets \in Seq(Said(from)) /\ copies \in Seq(Said(from))
  BY DEF Honest, Segments
<1>4. CASE ReceiveNone
  <2>1. packets = <<>> /\ copies = <<>>
    BY <1>4 DEF ReceiveNone, Inv, Round
  <2> QED BY <1>1, <1>3, <1>4, <2>1 DEF ReceiveNone, Honest, Segments
<1>5. CASE Receive
  <2>1. PICK k \in Nat :
          /\ k <= Len(up[from])
          /\ packets' = SubSeq(up[from], 1, k)
          /\ up' = [up EXCEPT ![from] = SubSeq(@, k + 1, Len(@))]
    <3> DEFINE k == IF Len(up[from]) <= Batch THEN Len(up[from]) ELSE Batch
    <3>1. k \in Nat /\ k <= Len(up[from])
      BY <1>2, <1>3, FilterAssumption
    <3> QED BY <1>5, <3>1 DEF Receive
  <2>2. /\ SubSeq(up[from], 1, k) \in Seq(Said(from))
        /\ SubSeq(up[from], k + 1, Len(up[from])) \in Seq(Said(from))
    <3>1. up[from] \in Seq(Said(from))
      BY <1>2, <1>3
    <3> QED BY <2>1, <3>1
  <2>3. \A h \in Host : up'[h] \in Seq(Said(h))
    BY <1>3, <2>1, <2>2 DEF Inv, Rings
  <2> QED BY <1>1, <1>3, <1>5, <2>1, <2>2, <2>3 DEF Receive, Honest, Segments
<1>6. CASE Pass
  <2>1. packets # <<>> /\ Head(packets) \in Said(from) /\ Tail(packets) \in Seq(Said(from))
    BY <1>3, <1>6 DEF Pass
  <2>2. Append(copies, Head(packets)) \in Seq(Said(from))
    BY <1>3, <2>1
  <2> QED BY <1>1, <1>3, <1>6, <2>1, <2>2 DEF Pass, Honest, Segments
<1>7. CASE Reject
  <2> DEFINE s == Head(packets)
             new(h) == <<IF h = from THEN ResetBack(s) ELSE ResetOn(s)>>
  <2>1. s \in Said(from) /\ Tail(packets) \in Seq(Said(from))
    BY <1>3, <1>7 DEF Reject
  <2>2. s.word /\ s \in Packet /\ WordSent
    BY <1>7, <2>1 DEF Reject, Passes, Said
  <2>3. ASSUME NEW h \in Host
        PROVE  ResetBack(s) \in Told(h) /\ ResetOn(s) \in Told(h)
    BY <2>2 DEF ResetBack, ResetOn, Told, Packet
  <2>4. ASSUME NEW h \in Host
        PROVE  Queued(down[h], new(h)) \in Seq(Told(h))
    <3>1. new(h) \in Seq(Told(h)) /\ down[h] \in Seq(Told(h))
      BY <1>3, <2>3
    <3> HIDE DEF new
    <3> QED BY <3>1, QueuedIn
  <2>5. down' = [h \in Host |-> Queued(down[h], new(h))]
    BY <1>7 DEF Reject
  <2> HIDE DEF new
  <2>6. \A h \in Host : down'[h] \in Seq(Told(h))
    BY <2>4, <2>5
  <2> QED BY <1>1, <1>3, <1>7, <2>1, <2>6 DEF Reject, Honest, Segments
<1>8. CASE Send
  <2> DEFINE p == Peer(from)
  <2>1. copies \in Seq(Told(p))
    BY <1>2, <1>3, SaidIsTold, SeqGrows
  <2>2. Queued(down[p], copies) \in Seq(Told(p))
    BY <1>2, <1>3, <2>1, QueuedIn
  <2>3. down' = [down EXCEPT ![p] = Queued(@, copies)]
    BY <1>8 DEF Send
  <2>4. ASSUME NEW h \in Host PROVE down'[h] \in Seq(Told(h))
    <3>1. CASE h = p
      BY <3>1, <1>2, <2>2, <2>3 DEF Inv, Rings
    <3>2. CASE h # p
      BY <3>2, <1>3, <2>3 DEF Inv, Rings
    <3> QED BY <3>1, <3>2
  <2>5. packets' = <<>> /\ copies' = <<>>
    BY <1>8 DEF Send
  <2>6. up' = up
    BY <1>8 DEF Send
  <2>7. Segments'
    BY <1>1, <1>3, <2>4, <2>5, <2>6 DEF Segments
  <2> QED BY <1>0, <1>1, <2>7 DEF Honest
<1> QED BY <1>0, <1>4, <1>5, <1>6, <1>7, <1>8 DEF Filter

-----------------------------------------------------------------------------
(* The steps of the hosts                                                  *)

\* Segments is kept by a step that lets streams grow, takes at most a
\* segment from a transmit ring and adds at most one to a receive ring.
LEMMA HostSays ==
  ASSUME Inv, Inv', Honest, Grows, UNCHANGED filterVars, NEW h \in Host,
         \/ UNCHANGED down
         \/ down[h] # <<>> /\ down' = [down EXCEPT ![h] = Tail(@)],
         \/ UNCHANGED up
         \/ \E s \in Said(h)' : up' = Emitted(h, s)
  PROVE  Segments'
<1>1. /\ \A g \in Host : up[g] \in Seq(Said(g)) /\ down[g] \in Seq(Told(g))
      /\ packets \in Seq(Said(from)) /\ copies \in Seq(Said(from))
      /\ from \in Host /\ from' = from /\ packets' = packets /\ copies' = copies
  BY DEF Honest, Segments, Inv, Round, filterVars
<1>2. \A g \in Host : /\ Seq(Said(g)) \subseteq Seq(Said(g)')
                      /\ Seq(Told(g)) \subseteq Seq(Told(g)')
  BY SaidGrows DEF Inv
<1>3. /\ up \in [Host -> Seq(Packet)] /\ down \in [Host -> Seq(Packet)]
  BY DEF Inv, Rings
<1>4. ASSUME NEW g \in Host PROVE down'[g] \in Seq(Told(g)')
  <2>1. down[g] \in Seq(Told(g)')
    BY <1>1, <1>2
  <2>2. CASE UNCHANGED down
    BY <2>1, <2>2
  <2>3. CASE down[h] # <<>> /\ down' = [down EXCEPT ![h] = Tail(@)]
    <3>1. CASE g = h
      <4>1. Tail(down[h]) \in Seq(Told(h)')
        BY <2>1, <2>3, <3>1
      <4> QED BY <1>3, <2>3, <3>1, <4>1
    <3>2. CASE g # h
      BY <1>3, <2>1, <2>3, <3>2
    <3> QED BY <3>1, <3>2
  <2> QED BY <2>2, <2>3
<1>5. ASSUME NEW g \in Host PROVE up'[g] \in Seq(Said(g)')
  <2>1. up[g] \in Seq(Said(g)')
    BY <1>1, <1>2
  <2>2. CASE UNCHANGED up
    BY <2>1, <2>2
  <2>3. ASSUME NEW s \in Said(h)', up' = Emitted(h, s)
        PROVE  up'[g] \in Seq(Said(g)')
    <3>1. CASE g = h
      <4>1. Append(up[h], s) \in Seq(Said(h)')
        BY <2>1, <3>1
      <4> QED BY <1>3, <2>1, <2>3, <3>1, <4>1 DEF Emitted
    <3>2. CASE g # h
      BY <1>3, <2>1, <2>3, <3>2 DEF Emitted
    <3> QED BY <3>1, <3>2
  <2> QED BY <2>2, <2>3
<1>6. packets' \in Seq(Said(from)') /\ copies' \in Seq(Said(from)')
  BY <1>1, <1>2
<1> QED BY <1>1, <1>4, <1>5, <1>6 DEF Segments, Said, Told

\* How a connection looks from outside: nothing but the state of its ends.
Unmoved == UNCHANGED hostVars

\* A segment h may say, be it data or an answer.
LEMMA MaySay ==
  ASSUME HostTypes, NEW h \in Host, NEW q \in Nat, NEW n \in {0, 1},
         n = 1 => q < host[h].next
  PROVE  /\ Segment(h, q, n) \in Said(h)
         /\ n = 0 /\ WordSent => [Segment(h, q, n) EXCEPT !.rst = TRUE] \in Said(h)
<1> DEFINE s == Segment(h, q, n)
           r == [s EXCEPT !.rst = TRUE]
<1>1. host[h].rcv \in Nat /\ host[h].rcv <= host[h].rcv
  BY DEF HostTypes
<1>2. s \in Packet
  BY SegmentSent DEF Sent
<1>3. /\ s.src = h /\ s.dst = Peer(h) /\ s.seq = q /\ s.ack = host[h].rcv
      /\ s.len = n /\ ~s.rst /\ (s.word => h = "a" /\ n = 1 /\ q = word)
  BY DEF Segment
<1>4. s.word => WordSent
  BY <1>3 DEF WordSent
<1>5. /\ r \in Packet /\ r.src = s.src /\ r.dst = s.dst /\ r.ack = s.ack
      /\ r.len = s.len
  BY <1>2 DEF Packet
<1> HIDE DEF s, r
<1>6. s \in Said(h)
  BY ONLY <1>1, <1>2, <1>3, <1>4, n = 1 => q < host[h].next DEF Said
<1>7. ASSUME n = 0, WordSent PROVE r \in Said(h)
  BY ONLY <1>1, <1>3, <1>5, <1>7 DEF Said
<1> QED BY <1>6, <1>7 DEF s, r

LEMMA SendHonest ==
  ASSUME Inv, Inv', Honest, NEW h \in Host, HostSend(h)
  PROVE  Honest' /\ Stream!Send(h)
<1>1. HostTypes /\ HostTypes' /\ Ends /\ "a" \in Host /\ Peer(h) \in Host
  BY PeerFacts DEF Inv, Honest, Host
<1>2. /\ host' = [host EXCEPT ![h].next = @ + 1] /\ word' = word /\ down' = down
      /\ UNCHANGED filterVars /\ up' = Emitted(h, Segment(h, host[h].next, 1))
      /\ host[h].open /\ host[h].next < Size[h]
  BY DEF HostSend
<1>3. /\ \A g \in Host : host'[g].rcv = host[g].rcv /\ host'[g].una = host[g].una
                         /\ host'[g].open = host[g].open
      /\ \A g \in Host : host'[g].next = IF g = h THEN host[g].next + 1 ELSE host[g].next
  BY <1>1, <1>2 DEF HostTypes
<1>4. Grows
  BY <1>1, <1>2, <1>3 DEF Grows, HostTypes
<1>5. Segment(h, host[h].next, 1) \in Said(h)'
  <2>1. host[h].next \in Nat /\ host[h].next < host'[h].next /\ 1 \in {0, 1}
    BY <1>1, <1>3 DEF HostTypes
  <2> DEFINE s == Segment(h, host[h].next, 1)
  <2>2. s \in Packet
    BY <1>1, <2>1, SegmentSent DEF Sent
  <2>3. /\ s.src = h /\ s.dst = Peer(h) /\ s.seq = host[h].next
        /\ s.ack = host'[h].rcv /\ ~s.rst
        /\ s.word => h = "a" /\ host[h].next = word'
    BY <1>2, <1>3 DEF Segment
  <2>4. s.word => WordSent'
    BY <2>1, <2>3 DEF WordSent
  <2>5. s.ack <= host'[h].rcv
    BY <1>1, <2>3 DEF HostTypes
  <2>6. s.seq < host'[h].next
    BY <2>1, <2>3
  <2> HIDE DEF s
  <2>7. s \in Said(h)'
    BY ONLY <2>2, <2>3, <2>4, <2>5, <2>6 DEF Said, Packet
  <2> QED BY <2>7 DEF s
<1>6. Segments'
  BY <1>2, <1>4, <1>5, HostSays
<1>7. Ends'
  <2>1. WordSent => WordSent'
    BY <1>1, <1>2, <1>3 DEF WordSent, HostTypes
  <2> QED BY <1>1, <1>3, <2>1, PeerFacts DEF Ends, HostTypes
<1>8. Stream!Send(h)
  <2>1. h \in Stream!Host
    BY DEF Host, Stream!Host
  <2>2. /\ [g \in Host |-> host'[g].next]
            = [[g \in Host |-> host[g].next] EXCEPT ![h] = @ + 1]
        /\ [g \in Host |-> host'[Peer(g)].rcv] = [g \in Host |-> host[Peer(g)].rcv]
        /\ [g \in Host |-> host'[g].una] = [g \in Host |-> host[g].una]
        /\ [g \in Host |-> host'[g].open] = [g \in Host |-> host[g].open]
    BY <1>3, PeerFacts
  <2> QED BY <1>2, <2>2 DEF Stream!Send
<1> QED BY <1>6, <1>7, <1>8 DEF Honest

LEMMA ResendHonest ==
  ASSUME Inv, Inv', Honest, NEW h \in Host, HostResend(h)
  PROVE  Honest' /\ Unmoved
<1>1. HostTypes /\ HostTypes'
  BY DEF Inv
<1>2. UNCHANGED <<hostVars, down, filterVars>> /\ word' = word /\ host' = host
  BY DEF HostResend, hostVars
<1>3. Grows
  BY <1>1, <1>2 DEF Grows, HostTypes
<1>4. Segment(h, host[h].una, 1) \in Said(h)
  <2>1. host[h].una \in Nat /\ host[h].una < host[h].next
    BY <1>1 DEF HostTypes, HostResend
  <2> QED BY <1>1, <2>1, MaySay
<1>5. Said(h)' = Said(h) /\ Ends'
  BY <1>2, FilterKeeps DEF Honest
<1>6. up' = Emitted(h, Segment(h, host[h].una, 1))
  BY DEF HostResend
<1>7. Segments'
  BY <1>2, <1>3, <1>4, <1>5, <1>6, HostSays
<1> QED BY <1>2, <1>5, <1>7 DEF Honest, Unmoved

\* What is taken has been told.
LEMMA HeadTold ==
  ASSUME Inv, Honest, NEW h \in Host, down[h] # <<>>
  PROVE  Head(down[h]) \in Told(h) /\ Head(down[h]) \in Packet
<1>1. down[h] \in Seq(Told(h))
  BY DEF Honest, Segments
<1>2. Head(down[h]) \in Told(h)
  BY <1>1
<1> QED BY <1>2 DEF Told

\* The one step that moves a stream on: it is the next segment that was
\* sent, and what is acknowledged has arrived.
LEMMA TakesHonest ==
  ASSUME Inv, Inv', Honest, NEW h \in Host, HostReceive(h),
         HostTakes(h, Head(down[h]))
  PROVE  Honest' /\ Stream!Take(h)
<1> DEFINE s == Head(down[h])
           x == Took(h, s)
           p == Peer(h)
<1>1. /\ HostTypes /\ HostTypes' /\ Ends /\ h \in Host /\ p \in Host /\ p # h
      /\ Peer(p) = h /\ "a" \in Host /\ \A g \in Host : g # h => g = p
  BY PeerFacts DEF Inv, Honest, Host, Peer
<1>2. /\ down[h] # <<>> /\ down' = [down EXCEPT ![h] = Tail(@)]
      /\ host' = [host EXCEPT ![h] = x] /\ word' = word /\ UNCHANGED filterVars
      /\ host[h].open /\ ~s.rst
      /\ up' = IF s.len = 0 THEN up
               ELSE Emitted(h, [Segment(h, host[h].next, 0) EXCEPT !.ack = x.rcv])
  BY DEF HostReceive, HostTakes
<1>3. /\ s \in Packet /\ s.ack <= host[p].rcv
      /\ s.len = 1 => s.seq < host[p].next
  <2>1. s \in Told(h) /\ s \in Packet
    BY <1>2, HeadTold
  <2> HIDE DEF s
  <2>2. s \in Said(p)
    BY <1>2, <2>1 DEF Told
  <2> QED BY <2>1, <2>2 DEF Said
<1>4. PICK u \in Nat, n \in {0, 1} :
        /\ x = [host[h] EXCEPT !.una = u, !.rcv = host[h].rcv + n]
        /\ u \in host[h].una..host[p].rcv
        /\ host[h].rcv + n <= host[p].next
  <2>1. /\ host[h].una \in Nat /\ host[h].next \in Nat /\ host[h].rcv \in Nat
        /\ host[p].rcv \in Nat /\ host[p].next \in Nat
        /\ s.ack \in Nat /\ s.seq \in Nat
        /\ host[h].una <= host[p].rcv /\ host[h].rcv <= host[p].next
    BY <1>1, <1>3 DEF HostTypes, Ends, Packet
  <2> DEFINE u == IF s.ack \in host[h].una..host[h].next THEN s.ack ELSE host[h].una
             n == IF s.len = 1 /\ s.seq = host[h].rcv THEN 1 ELSE 0
  <2>2. u \in Nat /\ u \in host[h].una..host[p].rcv
    BY <1>3, <2>1
  <2>3. n \in {0, 1} /\ host[h].rcv + n <= host[p].next
    BY <1>3, <2>1
  <2> DEFINE m == IF s.len = 1 /\ s.seq = host[h].rcv THEN host[h].rcv + 1
                  ELSE host[h].rcv
  <2>a. m = host[h].rcv + n
    BY <2>1
  <2>b. x = [host[h] EXCEPT !.una = u, !.rcv = m]
    BY DEF Took
  <2> HIDE DEF u, n, m, x
  <2>4. x = [host[h] EXCEPT !.una = u, !.rcv = host[h].rcv + n]
    BY <2>a, <2>b
  <2> QED BY <2>2, <2>3, <2>4
<1> HIDE DEF x, s
<1>5. /\ host[h] \in [next : Nat, una : Nat, rcv : Nat, open : BOOLEAN]
      /\ x.next = host[h].next /\ x.open = host[h].open
      /\ x.una = u /\ x.rcv = host[h].rcv + n
  BY <1>1, <1>4 DEF HostTypes
<1>6. host'[h] = x /\ host'[p] = host[p]
  BY <1>1, <1>2 DEF HostTypes
<1>7. /\ host[h].rcv \in Nat /\ host[p].rcv \in Nat /\ host[h].una \in Nat
      /\ host[p].una \in Nat /\ host[h].next \in Nat /\ host[p].next \in Nat
  BY <1>1 DEF HostTypes
<1>8. Grows
  <2>1. host[h].rcv <= x.rcv /\ host[h].next <= x.next
    BY <1>5, <1>7
  <2>2. host[p].rcv <= host'[p].rcv /\ host[p].next <= host'[p].next
    BY <1>6, <1>7
  <2> QED BY <1>1, <1>2, <1>6, <2>1, <2>2 DEF Grows
<1>9. ~(s.len = 0) => [Segment(h, host[h].next, 0) EXCEPT !.ack = x.rcv] \in Said(h)'
  <2> DEFINE r == Segment(h, host[h].next, 0)
             k == x.rcv
             q == [r EXCEPT !.ack = k]
  <2>1. k \in Nat /\ k <= host'[h].rcv
    BY <1>5, <1>6, <1>7
  <2>2. r \in Packet
    BY <1>1, <1>7, SegmentSent DEF Sent
  <2>a. /\ r.src = h /\ r.dst = p /\ r.len = 0 /\ ~r.rst
        /\ r.word => h = "a" /\ 0 = 1 /\ host[h].next = word
    BY DEF Segment
  <2> HIDE DEF r, k
  <2>3. r.src = h /\ r.dst = p /\ r.len = 0 /\ ~r.rst /\ ~r.word
    BY <2>a
  <2>4. /\ q \in Packet /\ q.src = h /\ q.dst = p /\ q.len = 0 /\ ~q.rst
        /\ ~q.word /\ q.ack = k
    BY <2>1, <2>2, <2>3 DEF Packet
  <2> HIDE DEF q
  <2>5. q \in Said(h)'
    BY ONLY <2>1, <2>4 DEF Said, Packet
  <2> QED BY <2>5 DEF q, r, k
<1>10. Segments'
  BY <1>2, <1>8, <1>9, HostSays
<1>11. Ends'
  <2>1. WordSent <=> WordSent'
    BY <1>1, <1>2, <1>5, <1>6 DEF WordSent
  <2>2. /\ host[h].una <= host[p].rcv /\ host[p].rcv <= host[h].next
        /\ host[p].una <= host[h].rcv /\ host[h].rcv <= host[p].next
        /\ (~host[h].open => WordSent) /\ (~host[p].open => WordSent)
    BY <1>1 DEF Ends
  <2>3. /\ host'[h].una <= host'[p].rcv /\ host'[p].rcv <= host'[h].next
        /\ ~host'[h].open => WordSent'
    BY <1>4, <1>5, <1>6, <1>7, <2>1, <2>2
  <2>4. /\ host'[p].una <= host'[h].rcv /\ host'[h].rcv <= host'[p].next
        /\ ~host'[p].open => WordSent'
    BY <1>4, <1>5, <1>6, <1>7, <2>1, <2>2
  <2> QED BY <1>1, <2>3, <2>4 DEF Ends
<1>12. Stream!Take(h)
  <2> DEFINE got == [g \in Host |-> host[Peer(g)].rcv]
             acked == [g \in Host |-> host[g].una]
  <2>1. /\ [g \in Host |-> host'[Peer(g)].rcv] = [got EXCEPT ![p] = @ + n]
        /\ [g \in Host |-> host'[g].una] = [acked EXCEPT ![h] = u]
    BY <1>1, <1>5, <1>6
  <2>2. /\ [g \in Host |-> host'[g].next] = [g \in Host |-> host[g].next]
        /\ [g \in Host |-> host'[g].open] = [g \in Host |-> host[g].open]
    BY <1>1, <1>5, <1>6
  <2>3. u \in acked[h]..got[h]
    BY <1>1, <1>4
  <2>4. [g \in Host |-> host'[Peer(g)].rcv][p] <= [g \in Host |-> host[g].next][p]
    BY <1>1, <1>4, <1>5, <1>6
  <2>5. h = "b" => [g \in Host |-> host'[Peer(g)].rcv]["a"] <= word
    <3>1. host'["b"].rcv <= word
      BY <1>2 DEF Inv, WordStopped
    <3> QED BY <1>1, <3>1 DEF Peer
  <2>6. Stream!Peer(h) = p
    BY DEF Peer, Stream!Peer
  <2>7. [g \in Host |-> host[g].open][h]
    BY <1>2
  <2> QED BY <1>2, <1>4, <2>1, <2>2, <2>3, <2>4, <2>5, <2>6, <2>7 DEF Stream!Take
<1> QED BY <1>10, <1>11, <1>12 DEF Honest

\* Only a reset with the next sequence number closes, and it comes of the word.
LEMMA ResetHonest ==
  ASSUME Inv, Inv', Honest, NEW h \in Host, HostReceive(h),
         HostIsReset(h, Head(down[h]))
  PROVE  Honest' /\ (Stream!Close(h) \/ Unmoved)
<1> DEFINE s == Head(down[h])
           o == s.seq # host[h].rcv
<1>1. HostTypes /\ HostTypes' /\ Ends /\ "a" \in Host
  BY DEF Inv, Honest, Host
<1>2. /\ down[h] # <<>> /\ down' = [down EXCEPT ![h] = Tail(@)]
      /\ host' = [host EXCEPT ![h].open = o] /\ word' = word
      /\ UNCHANGED filterVars /\ up' = up /\ host[h].open /\ s.rst
  BY DEF HostReceive, HostIsReset
<1>3. WordSent
  <2>1. s \in Told(h)
    BY <1>2, HeadTold
  <2> HIDE DEF s
  <2> QED BY <1>2, <2>1 DEF Told
<1> HIDE DEF s
<1>4. \A g \in Host : /\ host'[g].next = host[g].next /\ host'[g].una = host[g].una
                      /\ host'[g].rcv = host[g].rcv
                      /\ host'[g].open = IF g = h THEN o ELSE host[g].open
  BY <1>1, <1>2 DEF HostTypes
<1>5. Grows
  BY <1>1, <1>2, <1>4 DEF Grows, HostTypes
<1>6. Segments'
  BY <1>2, <1>5, HostSays
<1>7. Ends'
  <2>1. WordSent'
    BY <1>1, <1>2, <1>3, <1>4 DEF WordSent
  <2> QED BY <1>1, <1>4, <2>1, PeerFacts DEF Ends
<1>8. CASE o
  <2>1. host' = host
    BY <1>1, <1>2, <1>8 DEF HostTypes
  <2> QED BY <1>2, <1>6, <1>7, <2>1 DEF Honest, Unmoved, hostVars
<1>9. CASE ~o
  <2>0. o = FALSE
    BY <1>9
  <2> HIDE DEF o
  <2>1. /\ [g \in Host |-> host'[g].next] = [g \in Host |-> host[g].next]
        /\ [g \in Host |-> host'[Peer(g)].rcv] = [g \in Host |-> host[Peer(g)].rcv]
        /\ [g \in Host |-> host'[g].una] = [g \in Host |-> host[g].una]
        /\ [g \in Host |-> host'[g].open]
             = [[g \in Host |-> host[g].open] EXCEPT ![h] = FALSE]
    BY <1>4, <2>0, PeerFacts
  <2>2. word < [g \in Host |-> host[g].next]["a"]
    BY <1>1, <1>3 DEF WordSent
  <2>3. [g \in Host |-> host[g].open][h]
    BY <1>2
  <2>4. Stream!Close(h)
    BY <1>2, <2>1, <2>2, <2>3 DEF Stream!Close
  <2> QED BY <1>6, <1>7, <2>4 DEF Honest
<1> QED BY <1>8, <1>9

LEMMA RestHonest ==
  ASSUME Inv, Inv', Honest, NEW h \in Host, HostReceive(h),
         \/ HostRefuses(h, Head(down[h])) \/ HostIgnores(h, Head(down[h]))
  PROVE  Honest' /\ Unmoved
<1> DEFINE s == Head(down[h])
<1>1. HostTypes /\ HostTypes' /\ Ends
  BY DEF Inv, Honest
<1>2. /\ down[h] # <<>> /\ down' = [down EXCEPT ![h] = Tail(@)]
      /\ UNCHANGED filterVars /\ host' = host /\ word' = word
  BY DEF HostReceive, HostRefuses, HostIgnores
<1>3. Grows
  BY <1>1, <1>2 DEF Grows, HostTypes
<1>4. Unmoved /\ Said(h)' = Said(h) /\ Ends'
  BY <1>1, <1>2, FilterKeeps DEF Unmoved, hostVars
<1>5. UNCHANGED up \/ \E r \in Said(h) : up' = Emitted(h, r)
  <2>1. CASE HostIgnores(h, s)
    BY <2>1 DEF HostIgnores
  <2>2. CASE HostRefuses(h, s)
    <3> DEFINE r == [Segment(h, s.ack, 0) EXCEPT !.rst = TRUE]
    <3>1. ~host[h].open /\ up' = Emitted(h, r)
      BY <2>2 DEF HostRefuses
    <3>2. WordSent
      BY <1>1, <3>1 DEF Ends
    <3>3. s \in Packet
      BY <1>2, HeadTold
    <3>4. s.ack \in Nat
      BY <3>3 DEF Packet
    <3>5. r \in Said(h)
      BY <1>1, <3>2, <3>4, MaySay
    <3> QED BY <3>1, <3>5
  <2> QED BY <2>1, <2>2
<1>6. Segments'
  BY <1>2, <1>3, <1>4, <1>5, HostSays
<1> QED BY <1>4, <1>6 DEF Honest

-----------------------------------------------------------------------------
LEMMA StreamInit ==
  ASSUME Init
  PROVE  Stream!Init
<1>1. /\ [h \in Host |-> host[h].next] = [h \in Host |-> 0]
      /\ [h \in Host |-> host[Peer(h)].rcv] = [h \in Host |-> 0]
      /\ [h \in Host |-> host[h].una] = [h \in Host |-> 0]
      /\ [h \in Host |-> host[h].open] = [h \in Host |-> TRUE]
  BY PeerFacts DEF Init
<1>2. word \in Words /\ Stream!Host = Host
  BY DEF Init, Host, Stream!Host
<1> QED BY <1>1, <1>2 DEF Stream!Init

StreamStep ==
  [Stream!Next]_<<word, [h \in Host |-> host[h].next],
                  [h \in Host |-> host[Peer(h)].rcv],
                  [h \in Host |-> host[h].una], [h \in Host |-> host[h].open]>>

LEMMA HonestStep ==
  ASSUME Inv, Inv', Honest, [Next]_vars
  PROVE  Honest' /\ StreamStep
<1>1. Unmoved => StreamStep
  BY DEF Unmoved, hostVars, StreamStep
<1>2. ASSUME NEW h \in Host, Stream!Send(h) \/ Stream!Take(h) \/ Stream!Close(h)
      PROVE  StreamStep
  <2>1. h \in Stream!Host
    BY DEF Host, Stream!Host
  <2> QED BY <1>2, <2>1 DEF StreamStep, Stream!Next
<1>3. CASE Filter
  BY <1>1, <1>3, FilterHonest DEF Unmoved
<1>4. ASSUME NEW h \in Host, HostStep(h) PROVE Honest' /\ StreamStep
  <2>1. CASE HostSend(h)
    BY <1>2, <2>1, SendHonest
  <2>2. CASE HostResend(h)
    BY <1>1, <2>2, ResendHonest
  <2>3. CASE HostReceive(h)
    <3> DEFINE s == Head(down[h])
    <3>1. CASE HostTakes(h, s)
      BY <1>2, <2>3, <3>1, TakesHonest
    <3>2. CASE HostIsReset(h, s)
      BY <1>1, <1>2, <2>3, <3>2, ResetHonest
    <3>3. CASE HostRefuses(h, s) \/ HostIgnores(h, s)
      BY <1>1, <2>3, <3>3, RestHonest
    <3> QED BY <2>3, <3>1, <3>2, <3>3 DEF HostReceive
  <2> QED BY <1>4, <2>1, <2>2, <2>3 DEF HostStep
<1>5. CASE UNCHANGED vars
  <2>1. Unmoved
    BY <1>5 DEF vars, Unmoved
  <2>2. Honest'
    BY <1>5, FilterKeeps DEF vars, filterVars, Honest, Segments
  <2> QED BY <1>1, <2>1, <2>2
<1> QED BY <1>3, <1>4, <1>5 DEF Next

(***************************************************************************)
(* If either end has port 80, a connection through the filter is what      *)
(* FilteredStream says: nothing the filter forges, loses or reorders makes *)
(* a host take data out of order or believe an acknowledgement of data     *)
(* that has not arrived, and an end is closed only if the word was sent.   *)
(***************************************************************************)
THEOREM ImplementsStream == ASSUME Server \in Host PROVE Spec => StreamSpec
<1>1. Init => Inv /\ Honest /\ Stream!Init
  BY InvInit, HonestInit, StreamInit
<1>2. Inv /\ [Next]_vars => Inv'
  BY InvStep
<1>3. Inv /\ Inv' /\ Honest /\ [Next]_vars
        => Honest' /\ [Stream!Next]_<<word, [h \in Host |-> host[h].next],
                        [h \in Host |-> host[Peer(h)].rcv],
                        [h \in Host |-> host[h].una], [h \in Host |-> host[h].open]>>
  BY HonestStep DEF StreamStep
<1> QED BY <1>1, <1>2, <1>3, PTL DEF Spec, StreamSpec, Stream!Spec
=============================================================================
