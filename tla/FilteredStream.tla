--------------------------- MODULE FilteredStream ---------------------------
(***************************************************************************)
(* What the ends of a TCP connection through the filter may rely on: two   *)
(* streams that arrive in order and without gaps, the one from "a" only up *)
(* to a filtered word, acknowledgements only of what has arrived, and no   *)
(* end of the connection but by a word that was sent.  Nothing is said of  *)
(* segments, rings, batches and resets; FilterReset refines this           *)
(* specification.                                                          *)
(***************************************************************************)
EXTENDS Integers

CONSTANTS Size,   \* Size[h]: segments in the stream of host h
          Words   \* segments of a's stream the word may be in

VARIABLES word,   \* the one it is in, Size["a"] if there is none
          sent,   \* sent[h]: segments of h's stream sent so far,
          got,    \* those of them that its peer has,
          acked,  \* and those h knows its peer to have
          open    \* open[h]: h's end of the connection

Host == {"a", "b"}
Peer(h) == IF h = "a" THEN "b" ELSE "a"

Init ==
  /\ word \in Words
  /\ sent = [h \in Host |-> 0] /\ got = sent /\ acked = sent
  /\ open = [h \in Host |-> TRUE]

Send(h) ==
  /\ open[h] /\ sent[h] < Size[h]
  /\ sent' = [sent EXCEPT ![h] = @ + 1]
  /\ UNCHANGED <<word, got, acked, open>>

\* A segment arrives at h: the next of its peer's stream, or an
\* acknowledgement of its own, or both.
Take(h) ==
  /\ open[h]
  /\ \E n \in {0, 1}, m \in acked[h]..got[h] :
       /\ got' = [got EXCEPT ![Peer(h)] = @ + n]
       /\ acked' = [acked EXCEPT ![h] = m]
  /\ got'[Peer(h)] <= sent[Peer(h)]
  /\ h = "b" => got'["a"] <= word
  /\ UNCHANGED <<word, sent, open>>

Close(h) ==
  /\ open[h] /\ word < sent["a"]
  /\ open' = [open EXCEPT ![h] = FALSE]
  /\ UNCHANGED <<word, sent, got, acked>>

Next == \E h \in Host : Send(h) \/ Take(h) \/ Close(h)

Spec == Init /\ [][Next]_<<word, sent, got, acked, open>>
=============================================================================
