---------------------------- MODULE FramePairing ----------------------------
(***************************************************************************)
(* How stereo_get_frame_proc makes a stereo pair out of the frames of two   *)
(* VPROC channels.  Each channel is a FIFO of at most two frames, filled by *)
(* the hardware; the thread takes one frame of each, then drains both       *)
(* channels for something fresher before it hands the pair on.  The         *)
(* hardware works while the thread is anywhere in that loop.                *)
(*                                                                         *)
(* A frame is its index, counted from 1; 0 stands for no frame.  What        *)
(* happens to the pair afterwards is StereoPipeline.                        *)
(***************************************************************************)
EXTENDS Naturals, Sequences

CONSTANTS
    MaxIndex,   \* bound: frames each sensor produces
    Depth       \* STEREO_VPROC_QUEUE_DEPTH

Sides == {"left", "right"}
Other(s) == IF s = "left" THEN "right" ELSE "left"

VARIABLES
    chan,       \* the frames waiting in each channel, oldest first
    made,       \* the index of the last frame of each sensor
    pair,       \* pair->left_full and pair->right_full
    new,        \* nl and nr
    out,        \* frames of each channel acquired and not yet released
    pc,         \* where get_frame is
    run,        \* g_get_frm_run
    pushed      \* the pair last handed on

vars == <<chan, made, pair, new, out, pc, run, pushed>>

NoPair == [s \in Sides |-> 0]

Init ==
    /\ chan \in [Sides -> {<<>>, <<1>>}]
    /\ made = [s \in Sides |-> Len(chan[s])]
    /\ pair = NoPair /\ new = NoPair /\ pushed = NoPair
    /\ out = [s \in Sides |-> 0]
    /\ pc = "stale"
    /\ run = TRUE

-----------------------------------------------------------------------------
(* The hardware.  Into a full channel either the new frame is not queued,   *)
(* or it replaces the oldest.                                               *)

Filled(s) ==
    IF Len(chan[s]) < Depth
    THEN {Append(chan[s], made[s] + 1)}
    ELSE {chan[s], Append(Tail(chan[s]), made[s] + 1)}

\* A sensor delivers, whatever the other does.
Deliver(s) ==
    /\ made[s] < MaxIndex
    /\ made' = [made EXCEPT ![s] = @ + 1]
    /\ \E frames \in Filled(s) : chan' = [chan EXCEPT ![s] = frames]
    /\ UNCHANGED <<pair, new, out, pc, run, pushed>>

Hardware == \E s \in Sides : Deliver(s)

-----------------------------------------------------------------------------
(* The thread.                                                             *)

\* ot_eis_vproc_chn_acquire_frame succeeds.
Take(s) ==
    /\ chan[s] # <<>>
    /\ chan' = [chan EXCEPT ![s] = Tail(@)]
    /\ out' = [out EXCEPT ![s] = @ + 1]

\* Before the loop, old frames are acquired and released until there are none.
Stale ==
    /\ pc = "stale"
    /\ \E s \in Sides :
          /\ s = "right" => chan["left"] = <<>>
          /\ chan[s] # <<>>
          /\ chan' = [chan EXCEPT ![s] = Tail(@)]
    /\ UNCHANGED <<made, pair, new, out, pc, run, pushed>>

StaleDone ==
    /\ pc = "stale"
    /\ chan["right"] = <<>>
    /\ pc' = "acquire_left"
    /\ UNCHANGED <<chan, made, pair, new, out, run, pushed>>

ContinueAlways == TRUE              \* mutant: while (1)
\* "while (g_get_frm_run == OT_TRUE)", the condition of both loops.
Continue == run

Top == pc = "acquire_left" /\ Continue

\* No left frame for 500 ms.
NoLeft == Top /\ chan["left"] = <<>> /\ UNCHANGED vars

AcquireLeft ==
    /\ Top
    /\ Take("left")
    /\ pair' = [pair EXCEPT !["left"] = Head(chan["left"])]
    /\ pc' = "acquire_right"
    /\ UNCHANGED <<made, new, run, pushed>>

AcquireRight ==
    /\ pc = "acquire_right"
    /\ Take("right")
    /\ pair' = [pair EXCEPT !["right"] = Head(chan["right"])]
    /\ pc' = "drain"
    /\ UNCHANGED <<made, new, run, pushed>>

\* Mutant: the left frame is forgotten when there is no right one.
NoRightKeepsLeft ==
    /\ pc = "acquire_right"
    /\ chan["right"] = <<>>
    /\ pair' = NoPair
    /\ pc' = "acquire_left"
    /\ UNCHANGED <<chan, made, new, out, run, pushed>>

\* No right frame for 500 ms.
NoRight ==
    /\ pc = "acquire_right"
    /\ chan["right"] = <<>>
    /\ out' = [out EXCEPT !["left"] = @ - 1]
    /\ pair' = NoPair
    /\ pc' = "acquire_left"
    /\ UNCHANGED <<chan, made, new, run, pushed>>

\* The first of the two acquisitions of the drain, which do not wait.
DrainLeft ==
    /\ pc = "drain"
    /\ Continue
    /\ pc' = "drain_right"
    /\ IF chan["left"] # <<>>
       THEN Take("left") /\ new' = [new EXCEPT !["left"] = Head(chan["left"])]
       ELSE UNCHANGED <<chan, out, new>>
    /\ UNCHANGED <<made, pair, run, pushed>>

DrainRight ==
    /\ pc = "drain_right"
    /\ pc' = "decide"
    /\ IF chan["right"] # <<>>
       THEN Take("right") /\ new' = [new EXCEPT !["right"] = Head(chan["right"])]
       ELSE UNCHANGED <<chan, out, new>>
    /\ UNCHANGED <<made, pair, run, pushed>>

DrainStopped ==
    /\ pc = "drain"
    /\ ~Continue
    /\ pc' = "check"
    /\ UNCHANGED <<chan, made, pair, new, out, run, pushed>>

\* Mutant: the old pair is not released.
DecideBothNoRelease ==
    /\ pc = "decide"
    /\ new["left"] # 0 /\ new["right"] # 0
    /\ pair' = new
    /\ new' = NoPair
    /\ pc' = "drain"
    /\ UNCHANGED <<chan, made, out, run, pushed>>

\* Two new frames replace the old ones and the drain goes on, whether their
\* indices agree or not.
DecideBoth ==
    /\ pc = "decide"
    /\ new["left"] # 0 /\ new["right"] # 0
    /\ out' = [s \in Sides |-> out[s] - 1]
    /\ pair' = new
    /\ new' = NoPair
    /\ pc' = "drain"
    /\ UNCHANGED <<chan, made, run, pushed>>

\* Mutant: the new frame is put on the other side.
DecideOneOtherSide(s) ==
    /\ pc = "decide"
    /\ new[s] # 0 /\ new[Other(s)] = 0
    /\ out' = [out EXCEPT ![s] = @ - 1]
    /\ IF new[s] >= pair[Other(s)]
       THEN pair' = [pair EXCEPT ![Other(s)] = new[s]]
       ELSE UNCHANGED pair
    /\ new' = NoPair
    /\ pc' = IF new[s] = pair[Other(s)] THEN "drain" ELSE "check"
    /\ UNCHANGED <<chan, made, run, pushed>>

\* A single new frame that matches the other side replaces the old one and the
\* drain goes on; one that is ahead replaces it and ends the drain; one that is
\* behind is given back and ends the drain.  Either way one frame is released.
DecideOne(s) ==
    /\ pc = "decide"
    /\ new[s] # 0 /\ new[Other(s)] = 0
    /\ out' = [out EXCEPT ![s] = @ - 1]
    /\ IF new[s] >= pair[Other(s)]
       THEN pair' = [pair EXCEPT ![s] = new[s]]
       ELSE UNCHANGED pair
    /\ new' = NoPair
    /\ pc' = IF new[s] = pair[Other(s)] THEN "drain" ELSE "check"
    /\ UNCHANGED <<chan, made, run, pushed>>

DecideNone ==
    /\ pc = "decide"
    /\ new = NoPair
    /\ pc' = "check"
    /\ UNCHANGED <<chan, made, pair, new, out, run, pushed>>

\* The flag is read again: a pair got during a shutdown is released.
CheckStopped ==
    /\ pc = "check"
    /\ ~run
    /\ out' = [s \in Sides |-> out[s] - 1]
    /\ pair' = NoPair
    /\ pc' = "exit"
    /\ UNCHANGED <<chan, made, new, run, pushed>>

Check ==
    /\ pc = "check"
    /\ run
    /\ pc' = "push"
    /\ UNCHANGED <<chan, made, pair, new, out, run, pushed>>

\* The pair is handed on, or released because the queue is full.
Push ==
    /\ pc = "push"
    /\ out' = [s \in Sides |-> out[s] - 1]
    /\ pushed' \in {pair, pushed}
    /\ pair' = NoPair
    /\ pc' = "acquire_left"
    /\ UNCHANGED <<chan, made, new, run>>

Exit ==
    /\ pc = "acquire_left"
    /\ ~Continue
    /\ pc' = "exit"
    /\ UNCHANGED <<chan, made, pair, new, out, run, pushed>>

GetFrame ==
    \/ Stale \/ StaleDone \/ AcquireLeft \/ NoLeft
    \/ AcquireRight \/ NoRight
    \/ DrainLeft \/ DrainRight \/ DrainStopped
    \/ DecideBoth \/ (\E s \in Sides : DecideOne(s)) \/ DecideNone
    \/ CheckStopped \/ Check \/ Push \/ Exit

Stop ==
    /\ run
    /\ run' = FALSE
    /\ UNCHANGED <<chan, made, pair, new, out, pc, pushed>>

Finished == pc = "exit" /\ UNCHANGED vars

Next == Hardware \/ GetFrame \/ Stop \/ Finished

Spec == Init /\ [][Next]_vars

-----------------------------------------------------------------------------
(* Properties.                                                             *)

TypeOK ==
    /\ chan \in [Sides -> Seq(1 .. MaxIndex)]
    /\ \A s \in Sides : Len(chan[s]) <= Depth
    /\ made \in [Sides -> 0 .. MaxIndex]
    /\ pair \in [Sides -> 0 .. MaxIndex] /\ new \in [Sides -> 0 .. MaxIndex]
    /\ pushed \in [Sides -> 0 .. MaxIndex]
    /\ out \in [Sides -> 0 .. 2]
    /\ pc \in {"stale", "acquire_left", "acquire_right", "drain", "drain_right",
               "decide", "check", "push", "exit"}
    /\ run \in BOOLEAN

One(b) == IF b THEN 1 ELSE 0

\* The thread never holds more than the pair and one newer frame of a channel,
\* and every frame it acquired is in one of those places: no branch of the
\* drain forgets a release or gives the same frame back twice.
FramesAccounted ==
    \A s \in Sides : out[s] = One(pair[s] # 0) + One(new[s] # 0)

\* What is handed on is always fresher, on both sides, than what was handed on
\* before: no branch of the drain goes back to an older frame or mixes the sides.
OnlyForward ==
    [][pushed' # pushed => \A s \in Sides : pushed'[s] > pushed[s]]_vars

\* The thread notices the shutdown wherever it is, also in the middle of a
\* drain that the sensors keep feeding.
StopNoticed == ~run ~> pc = "exit"
=============================================================================
