---------------------------- MODULE MCSpscQueue ----------------------------
(* Small instances of SpscQueue for TLC.                                   *)
EXTENDS SpscQueue, Bitwise

\* Why Slot and QueueAssumption may stand for the mask: for every capacity that
\* stereo_queue_init accepts, "x & (c - 1)" is x % c and c divides the index
\* space.
ASSUME MaskIsModulo ==
    \A c \in 1 .. IdxMod - 1 :
        InitAccepts(c) =>
            /\ IdxMod % c = 0
            /\ \A x \in 0 .. IdxMod - 1 : x & (c - 1) = x % c

ASSUME CapacityAccepted == InitAccepts(Capacity)
=============================================================================
