--------------------------- MODULE MCPacketvisor ---------------------------
(* Model-checking parameters of Packetvisor.                               *)
EXTENDS Packetvisor, TLC

\* Chunks are only compared with each other, so they may be permuted.
ChunkSymmetry == Permutations(Chunk)
=============================================================================
