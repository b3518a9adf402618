--------------------------- MODULE MCNicLifecycle ---------------------------
(* Values of the constants of NicLifecycle for TLC.                        *)
EXTENDS NicLifecycle, TLC

\* No definition tells one chunk or one slot from another.
LifeSymmetry == Permutations(Chunk) \cup Permutations(Slot)
=============================================================================
