----------------------------- MODULE SpscQueue -----------------------------
(***************************************************************************)
(* stereo_queue.c: the single-producer single-consumer ring through which   *)
(* every thread of the stereo pipeline hands pointers to the next one.      *)
(*                                                                         *)
(* One action per access to shared memory.  Both indices are u32 counters   *)
(* that run freely and wrap (IdxMod stands for 2^32); a slot is picked with *)
(* "index & mask", which for the capacities stereo_queue_init accepts is    *)
(* index % Capacity.  The producer's local w is write_idx and the           *)
(* consumer's local r is read_idx: nobody else writes them.                 *)
(***************************************************************************)
EXTENDS Naturals, Sequences

CONSTANTS
    Items,      \* the pointers that are pushed
    NULL,       \* the null pointer
    Capacity,   \* q->capacity
    IdxMod,     \* 2^32, the number of values of an index
    Timeout     \* timeout_ms of pop_timeout, in polls of 1 ms

\* stereo_queue_init refuses 0 and everything that is not a power of two.
InitAccepts(c) == c # 0 /\ \E k \in 0 .. c : 2 ^ k = c

\* What a power of two below 2^32 gives: the ring divides the index space.
ASSUME QueueAssumption ==
    /\ Capacity \in Nat \ {0}
    /\ IdxMod \in Nat
    /\ Capacity < IdxMod
    /\ IdxMod % Capacity = 0
    /\ NULL \notin Items
    /\ Timeout \in Nat

VARIABLES
    slots,      \* q->slots
    write_idx,  \* q->write_idx, advanced by the producer only
    read_idx,   \* q->read_idx, advanced by the consumer only
    run,        \* *quit_flag: FALSE asks pop_timeout to return
    ppc,        \* where the producer is
    pop_op,     \* the operation the consumer is in
    push_op,    \* the operation the producer is in
    item,       \* the producer's argument, NULL outside a call
    pushed,     \* the last value try_push returned
    cpc,        \* where the consumer is
    elapsed,    \* pop_timeout's local
    got,        \* the pointer loaded from the slot
    ret         \* the last value a pop returned

pvars == <<ppc, push_op, item, pushed>>
cvars == <<cpc, pop_op, elapsed, got, ret>>
vars  == <<slots, write_idx, read_idx, run, pvars, cvars>>

PushOps == {"push", "try_push"}
PopOps  == {"pop", "try_pop", "pop_timeout"}

-----------------------------------------------------------------------------
Slot(i) == i % Capacity

NextIdxUnwrapped(i) == i + 1        \* mutant: an index that never wraps
NextIdx(i) == (i + 1) % IdxMod

\* Mutant: the difference taken in plain integers.
UsedNoWrap == IF write_idx >= read_idx THEN write_idx - read_idx ELSE 0

\* "w - read_idx" in u32 arithmetic.
Used == (write_idx + IdxMod - read_idx) % IdxMod

FullLate == Used > Capacity         \* mutant: one pointer too many
Full  == Used >= Capacity
Empty == read_idx = write_idx

Init ==
    /\ slots = [s \in 0 .. Capacity - 1 |-> NULL]
    /\ write_idx = 0
    /\ read_idx = 0
    /\ run = TRUE
    /\ ppc = "idle" /\ push_op = "try_push" /\ item = NULL /\ pushed = TRUE
    /\ cpc = "idle" /\ pop_op = "try_pop" /\ elapsed = 0
    /\ got = NULL /\ ret = NULL

-----------------------------------------------------------------------------
(* The producer.                                                           *)

PushCall(op, i) ==
    /\ ppc = "idle"
    /\ ppc' = "check" /\ push_op' = op /\ item' = i
    /\ UNCHANGED <<slots, write_idx, read_idx, run, pushed, cvars>>

PushHasRoom ==
    /\ ppc = "check"
    /\ ~Full
    /\ ppc' = "store"
    /\ UNCHANGED <<slots, write_idx, read_idx, run, push_op, item, pushed, cvars>>

\* try_push gives up; push sleeps 100 us and looks again (a stutter).
PushRefused ==
    /\ ppc = "check"
    /\ Full
    /\ push_op = "try_push"
    /\ ppc' = "idle" /\ item' = NULL /\ pushed' = FALSE
    /\ UNCHANGED <<slots, write_idx, read_idx, run, push_op, cvars>>

PushStore ==
    /\ ppc = "store"
    /\ slots' = [slots EXCEPT ![Slot(write_idx)] = item]
    /\ ppc' = "publish"
    /\ UNCHANGED <<write_idx, read_idx, run, push_op, item, pushed, cvars>>

\* After the full barrier.
PushPublish ==
    /\ ppc = "publish"
    /\ write_idx' = NextIdx(write_idx)
    /\ ppc' = "idle" /\ item' = NULL /\ pushed' = TRUE
    /\ UNCHANGED <<slots, read_idx, run, push_op, cvars>>

-----------------------------------------------------------------------------
(* The consumer.                                                           *)

\* pop_timeout looks at the quit flag before anything else.
PopCall(op) ==
    /\ cpc = "idle"
    /\ cpc' = IF op = "pop_timeout" THEN "flag" ELSE "check"
    /\ pop_op' = op /\ elapsed' = 0
    /\ UNCHANGED <<slots, write_idx, read_idx, run, pvars, got, ret>>

ReturnNull ==
    /\ cpc' = "idle" /\ ret' = NULL /\ got' = NULL
    /\ UNCHANGED <<pop_op, elapsed>>

PopFlag ==
    /\ cpc = "flag"
    /\ IF run THEN cpc' = "check" /\ UNCHANGED <<pop_op, elapsed, got, ret>>
              ELSE ReturnNull
    /\ UNCHANGED <<slots, write_idx, read_idx, run, pvars>>

PopNonEmpty ==
    /\ cpc = "check"
    /\ ~Empty
    /\ cpc' = "load"
    /\ UNCHANGED <<slots, write_idx, read_idx, run, pvars, pop_op, elapsed, got, ret>>

\* pop sleeps 100 us and looks again (a stutter); try_pop returns NULL.
PopEmpty ==
    /\ cpc = "check"
    /\ Empty
    /\ \/ pop_op = "try_pop" /\ ReturnNull
       \/ pop_op = "pop_timeout" /\ cpc' = "timeout"
          /\ UNCHANGED <<pop_op, elapsed, got, ret>>
    /\ UNCHANGED <<slots, write_idx, read_idx, run, pvars>>

\* "timeout_ms > 0 && elapsed >= timeout_ms"; with timeout_ms = 0 elapsed is
\* never read, so it is not counted.
PopTimeout ==
    /\ cpc = "timeout"
    /\ IF Timeout > 0 /\ elapsed >= Timeout
       THEN ReturnNull
       ELSE cpc' = "sleep" /\ UNCHANGED <<pop_op, elapsed, got, ret>>
    /\ UNCHANGED <<slots, write_idx, read_idx, run, pvars>>

PopSleepUncounted ==                \* mutant: the polls are not counted
    /\ cpc = "sleep"
    /\ cpc' = "flag"
    /\ UNCHANGED <<slots, write_idx, read_idx, run, pvars, pop_op, elapsed, got, ret>>

PopSleep ==
    /\ cpc = "sleep"
    /\ cpc' = "flag"
    /\ elapsed' = IF Timeout = 0 THEN 0 ELSE elapsed + 1
    /\ UNCHANGED <<slots, write_idx, read_idx, run, pvars, pop_op, got, ret>>

PopLoad ==
    /\ cpc = "load"
    /\ got' = slots[Slot(read_idx)]
    /\ cpc' = "advance"
    /\ UNCHANGED <<slots, write_idx, read_idx, run, pvars, pop_op, elapsed, ret>>

\* After the full barrier.  pop_timeout takes a null pointer for "empty".
PopAdvance ==
    /\ cpc = "advance"
    /\ read_idx' = NextIdx(read_idx)
    /\ cpc' = IF pop_op = "pop_timeout" /\ got = NULL THEN "timeout" ELSE "idle"
    /\ ret' = got /\ got' = NULL
    /\ UNCHANGED <<slots, write_idx, run, pvars, pop_op, elapsed>>

\* The main thread clears the consumer's run flag, once.
ClearRun ==
    /\ run
    /\ run' = FALSE
    /\ UNCHANGED <<slots, write_idx, read_idx, pvars, cvars>>

-----------------------------------------------------------------------------
ProducerStep == PushHasRoom \/ PushRefused \/ PushStore \/ PushPublish
ConsumerStep ==
    \/ PopFlag \/ PopNonEmpty \/ PopEmpty \/ PopTimeout \/ PopSleep
    \/ PopLoad \/ PopAdvance

Next ==
    \/ \E op \in PushOps, i \in Items : PushCall(op, i)
    \/ ProducerStep
    \/ \E op \in PopOps : PopCall(op)
    \/ ConsumerStep
    \/ ClearRun

Spec == Init /\ [][Next]_vars

\* Both threads are scheduled while they are inside a call; nothing says that
\* a caller calls again.
FairSpec == Spec /\ WF_vars(ProducerStep) /\ WF_vars(ConsumerStep)

-----------------------------------------------------------------------------
(* Properties.                                                             *)

\* Every variable has the type the C declaration gives it.
TypeOK ==
    /\ slots \in [0 .. Capacity - 1 -> Items \cup {NULL}]
    /\ write_idx \in 0 .. IdxMod - 1
    /\ read_idx \in 0 .. IdxMod - 1
    /\ run \in BOOLEAN
    /\ ppc \in {"idle", "check", "store", "publish"}
    /\ push_op \in PushOps
    /\ item \in Items \cup {NULL}
    /\ pushed \in BOOLEAN
    /\ cpc \in {"idle", "flag", "check", "timeout", "sleep", "load", "advance"}
    /\ pop_op \in PopOps
    /\ elapsed \in Nat
    /\ got \in Items \cup {NULL}
    /\ ret \in Items \cup {NULL}

\* The two threads never touch the same slot at the same time: between its
\* fullness test and its publication the producer owns a slot the consumer is
\* neither about to load nor about to give back.
SlotExclusive ==
    ~ /\ ppc \in {"store", "publish"}
      /\ cpc \in {"load", "advance"}
      /\ Slot(write_idx) = Slot(read_idx)

\* The pointers between the two indices, oldest first.
Content == [k \in 1 .. Used |-> slots[Slot(read_idx + (k - 1))]]

Fifo == INSTANCE BoundedFifo
            WITH fifo <- Content, pending <- item, accepted <- pushed, out <- ret

\* The ring implements the bounded FIFO: whatever the interleaving and however
\* often the u32 indices have wrapped, pops return the accepted pointers once
\* each and in order, and try_push refuses only when the queue is full.
ImplementsFifo == Fifo!FSpec

\* A consumer that waits gets out of its call: out of pop when a pointer is
\* published, out of pop_timeout also when its time has passed or its run flag
\* has been cleared, so that stereo_media_shutdown can join it.
WaiterReturns ==
    /\ (cpc # "idle" /\ ~Empty) ~> (cpc = "idle")
    /\ (pop_op = "pop_timeout" /\ (Timeout > 0 \/ ~run)) ~> (cpc = "idle")
=============================================================================
