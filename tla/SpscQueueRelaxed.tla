-------------------------- MODULE SpscQueueRelaxed --------------------------
(***************************************************************************)
(* SpscQueue on a processor that may perform two loads out of order, which  *)
(* ARMv8 may when nothing but a branch separates them.  try_pop loads       *)
(* write_idx, branches, and loads the slot; its only barrier comes after    *)
(* both.  The slot may thus be loaded before write_idx is.  (The producer's *)
(* load of read_idx and its store to the slot keep their order: a store is  *)
(* not performed before the branch it depends on.)                          *)
(***************************************************************************)
EXTENDS SpscQueue

EarlyLoad ==
    /\ cpc = "check"
    /\ got' = slots[Slot(read_idx)]
    /\ cpc' = "early"
    /\ UNCHANGED <<slots, write_idx, read_idx, run, pvars, pop_op, elapsed, ret>>

\* The test succeeds and the pointer loaded before it is used.
EarlyNonEmpty ==
    /\ cpc = "early"
    /\ ~Empty
    /\ cpc' = "advance"
    /\ UNCHANGED <<slots, write_idx, read_idx, run, pvars, pop_op, elapsed, got, ret>>

\* The test fails and the early load is discarded.
EarlyEmpty ==
    /\ cpc = "early"
    /\ Empty
    /\ cpc' = "check" /\ got' = NULL
    /\ UNCHANGED <<slots, write_idx, read_idx, run, pvars, pop_op, elapsed, ret>>

RelaxedNext == Next \/ EarlyLoad \/ EarlyNonEmpty \/ EarlyEmpty

RelaxedSpec == Init /\ [][RelaxedNext]_vars

\* stereo_queue.h:68-69 promise "pointer on success, NULL if empty": the
\* pointer a pop is about to return is the one the producer put in the slot.
PopsWhatWasPushed == cpc = "advance" => got = slots[Slot(read_idx)]
=============================================================================
