------------------------------ MODULE Payload ------------------------------
(***************************************************************************)
(* What a Packet promises its user: a string of bytes that is replaced,    *)
(* resized, edited in place and, when sent, appears unchanged on the wire. *)
(* Nothing is said of buffers, offsets and headroom; PacketBuffer refines  *)
(* this specification.  `call` makes the call of a step visible, so that a *)
(* step cannot pass for another call that would have allowed it.           *)
(***************************************************************************)
EXTENDS Integers

CONSTANTS Byte,     \* the values of a byte
          MaxSize   \* the size of the largest payload

VARIABLES live,     \* is there a Packet?
          payload,  \* its bytes, numbered from 0
          wire,     \* the frame the last call put on the wire, if any
          call      \* the last call and its argument

\* The strings of n bytes.
Bytes(n) == [0..(n - 1) -> Byte]

Init == live = FALSE /\ payload \in Bytes(0)

\* alloc_packet returns an empty Packet, receive one that holds the frame.
Alloc ==
  /\ call'[1] = "alloc"
  /\ ~live /\ live'
  /\ payload' \in Bytes(0)

Receive ==
  /\ call'[1] = "receive"
  /\ ~live /\ live'
  /\ payload' = call'[2]

\* The whole content changes, if there is room for it.
Replace ==
  /\ call'[1] = "replace_data"
  /\ live /\ live'
  /\ payload' = IF \E n \in 0..MaxSize : call'[2] \in Bytes(n)
                THEN call'[2] ELSE payload

\* The common prefix stays, and what is added is not specified.
Resize ==
  /\ call'[1] = "resize"
  /\ live /\ live'
  /\ IF call'[2] <= MaxSize
     THEN /\ payload' \in Bytes(call'[2])
          /\ \A i \in DOMAIN payload \cap DOMAIN payload' :
               payload'[i] = payload[i]
     ELSE payload' = payload

Edit ==
  /\ call'[1] = "get_buffer_mut"
  /\ live /\ live'
  /\ call'[2][1] \in DOMAIN payload
  /\ payload' = [payload EXCEPT ![call'[2][1]] = call'[2][2]]

Send ==
  /\ call'[1] = "send"
  /\ live /\ ~live'
  /\ wire' = payload
  /\ payload' \in Bytes(0)

Drop ==
  /\ call'[1] = "drop"
  /\ live /\ ~live'
  /\ payload' \in Bytes(0)

\* dump, and a call during which the process crashes.
Look == UNCHANGED <<live, payload>> /\ call'[1] \in {"dump", "crash"}

Next ==
  \/ Alloc \/ Receive \/ Replace \/ Resize \/ Edit \/ Send \/ Drop \/ Look

Spec == Init /\ [][Next]_<<live, payload, wire, call>>
=============================================================================
