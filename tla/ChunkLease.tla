----------------------------- MODULE ChunkLease -----------------------------
(***************************************************************************)
(* What the buffer pool of packetvisor promises, without rings, batches of *)
(* descriptors or a kernel: every chunk of the UMEM has one owner, which   *)
(* is the pool, the application, or the Nic whose kernel side may receive  *)
(* into it.  A chunk goes from the pool to a Nic or to the application,    *)
(* from a Nic to the application, and from the application to the pool;    *)
(* no other way, until the process ends and the UMEM with it.              *)
(***************************************************************************)
EXTENDS Integers, FiniteSets

CONSTANTS
  Nic,     \* the network interfaces
  Chunk,   \* the chunks of the UMEM
  Stock    \* how many chunks a Nic is lent when it opens

VARIABLE owner

OwnedBy(o) == {c \in Chunk : owner[c] = o}

\* The chunks in C go to o.
Give(C, o) == [c \in Chunk |-> IF c \in C THEN o ELSE owner[c]]

Init == owner = [c \in Chunk |-> "pool"]

\* A Nic opens and is lent its stock.
Lend(n) ==
  \E C \in SUBSET OwnedBy("pool") :
    /\ OwnedBy(n) = {}
    /\ Cardinality(C) = Stock
    /\ owner' = Give(C, n)

\* The application receives the chunks in R; the pool pays for them in full
\* or, if the Nic has no room, not at all.
Exchange(n) ==
  \E R \in SUBSET OwnedBy(n) :
  \E C \in SUBSET OwnedBy("pool") :
    /\ Cardinality(C) = Cardinality(R) \/ C = {}
    /\ owner' = [c \in Chunk |-> IF c \in R THEN "app"
                                 ELSE IF c \in C THEN n ELSE owner[c]]

\* The application allocates one chunk.
Take == \E c \in OwnedBy("pool") : owner' = Give({c}, "app")

\* The application drops or sends packets.
Return == \E C \in SUBSET OwnedBy("app") : owner' = Give(C, "pool")

\* The process ends, and the UMEM with it.
End == owner' = [c \in Chunk |-> "gone"]

Next ==
  \/ Take
  \/ Return
  \/ End
  \/ \E n \in Nic : Lend(n) \/ Exchange(n)

Spec == Init /\ [][Next]_owner
=============================================================================
