---------------------------- MODULE MCUvcFrames ----------------------------
(* The instance of UvcFrames for TLC: two buffers of the driver, and nodes  *)
(* that nothing tells apart.                                                *)
EXTENDS UvcFrames, TLC

MCBuffers == 1 .. 2

\* The nodes are interchangeable: no definition names one or orders them.
NodeSymmetry == Permutations(Node)
=============================================================================
