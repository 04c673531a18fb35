---------------------------- MODULE BoundedFifo ----------------------------
(***************************************************************************)
(* What stereo_queue promises its two users, with no indices and no slots:  *)
(* one producer offers pointers, one consumer takes them in the order in    *)
(* which they were accepted, at most Capacity are held, and a refusal or a   *)
(* NULL is only given when the queue justifies it.                          *)
(***************************************************************************)
EXTENDS Naturals, Sequences

CONSTANTS
    Items,      \* the pointers that are pushed
    NULL,       \* "no pointer"
    Capacity    \* how many pointers the queue may hold

VARIABLES
    fifo,       \* the pointers held, oldest first
    pending,    \* the pointer being offered, NULL when none is
    accepted,   \* the answer to the last offer
    out         \* what the last take returned

fvars == <<fifo, pending, accepted, out>>

FInit ==
    /\ fifo = <<>>
    /\ pending = NULL
    /\ accepted = TRUE
    /\ out = NULL

Offer(i) ==
    /\ pending = NULL
    /\ pending' = i
    /\ UNCHANGED <<fifo, accepted, out>>

Accept ==
    /\ pending # NULL
    /\ Len(fifo) < Capacity
    /\ fifo' = Append(fifo, pending)
    /\ pending' = NULL
    /\ accepted' = TRUE
    /\ UNCHANGED out

\* An offer is refused only at a moment when the queue is full.
Refuse ==
    /\ pending # NULL
    /\ Len(fifo) = Capacity
    /\ pending' = NULL
    /\ accepted' = FALSE
    /\ UNCHANGED <<fifo, out>>

\* The consumer gets the oldest pointer, and it leaves the queue.
Take ==
    /\ fifo # <<>>
    /\ out' = Head(fifo)
    /\ fifo' = Tail(fifo)
    /\ UNCHANGED <<pending, accepted>>

\* NULL: the queue was empty, or the caller was told to quit.
Miss ==
    /\ out' = NULL
    /\ UNCHANGED <<fifo, pending, accepted>>

FNext ==
    \/ \E i \in Items : Offer(i)
    \/ Accept
    \/ Refuse
    \/ Take
    \/ Miss

FSpec == FInit /\ [][FNext]_fvars
=============================================================================
