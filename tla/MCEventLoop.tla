---------------------------- MODULE MCEventLoop ----------------------------
(* The route of the forward example, for TLC.                              *)
EXTENDS EventLoop

CONSTANTS nic1, nic2

\* It serves two Nics in turn and sends on the other one.
ForwardRoute == << <<nic1, nic2>>, <<nic2, nic1>> >>
=============================================================================
