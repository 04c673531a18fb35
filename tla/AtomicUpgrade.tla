--------------------------- MODULE AtomicUpgrade ---------------------------
(***************************************************************************)
(* What the upgrade promises: the image changes only while a job runs, and *)
(* only in the components of the job; a job that runs is never replaced; it *)
(* ends as done only when all its components hold one whole version,       *)
(* otherwise it ends as failed.  The power may fail at any time: it is not *)
(* a step here.                                                            *)
(***************************************************************************)
EXTENDS Integers

CONSTANTS Comps, Half, Factory

VARIABLES
    image,    \* image[c]: the version in component c, or Half
    job,      \* the components of the open job, {} when there is none
    phase     \* "asked" and "running" while a job is open; how the last ended

vars == <<image, job, phase>>

Init == /\ image = [c \in Comps |-> Factory]
        /\ job = {}
        /\ phase = "none"

(* a request opens a job, or replaces one that has not begun *)
Request ==
    /\ UNCHANGED image
    /\ phase # "running"
    /\ job' \in (SUBSET Comps) \ {{}}
    /\ phase' = "asked"

Begin ==
    /\ phase = "asked"
    /\ phase' = "running"
    /\ UNCHANGED <<image, job>>

Install(c) ==
    /\ phase = "running"
    /\ c \in job
    /\ image' = [image EXCEPT ![c] = image'[c]]
    /\ UNCHANGED <<job, phase>>

Finish ==
    /\ phase = "running"
    /\ \A c, d \in job : image[c] = image[d] /\ image[c] # Half
    /\ job' = {}
    /\ phase' = "done"
    /\ UNCHANGED image

GiveUp ==
    /\ phase = "running"
    /\ job' = {}
    /\ phase' = "failed"
    /\ UNCHANGED image

Next == Request \/ Begin \/ (\E c \in Comps : Install(c)) \/ Finish \/ GiveUp

Spec == Init /\ [][Next]_vars
=============================================================================
