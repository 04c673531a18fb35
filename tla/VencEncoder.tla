----------------------------- MODULE VencEncoder -----------------------------
(***************************************************************************)
(* stereo_venc_encode: a frame's left and right image go through a hardware *)
(* JPEG channel each, one after the other, and the disparity map is packed  *)
(* by software; the three packets are handed on, or all of them freed.      *)
(*                                                                         *)
(* A channel codes the frames it is sent in order; a stream stays in the    *)
(* channel until it is acquired.  stereo_venc_encode_one polls for about    *)
(* 100 ms and takes the oldest stream there is.  A frame is its number,     *)
(* counted from 1; 0 stands for none.                                       *)
(***************************************************************************)
EXTENDS Naturals, Sequences

CONSTANTS
    MaxFrame,       \* bound: frames encoded
    Happens         \* what may happen: "failure" of a send or a malloc,
                    \* "late" streams and failing stream acquisitions

Channels == {"left", "right"}
Packets == {"left", "right", "disparity"}

VARIABLES
    frame,      \* the frame being encoded, or the last one
    pc,         \* "idle", "send", "poll" or "acquire" on channel ch, "disparity"
    ch,
    coding,     \* coding[c]: frames sent to channel c and not coded yet
    streams,    \* streams[c]: coded streams not acquired yet, oldest first
    packet,     \* packet[p]: the frame whose data packet p points to
    heap,       \* packet buffers malloc'ed and not freed
    held,       \* packet buffers of the outputs handed on
    done        \* packet at the last success

vars == <<frame, pc, ch, coding, streams, packet, heap, held, done>>

NoPackets == [p \in Packets |-> 0]

Init ==
    /\ frame = 0
    /\ pc = "idle" /\ ch = "left"
    /\ coding = [c \in Channels |-> <<>>]
    /\ streams = [c \in Channels |-> <<>>]
    /\ packet = NoPackets /\ done = NoPackets
    /\ heap = 0 /\ held = 0

\* The number of packets that have a buffer.
Filled == LET has(p) == IF packet[p] # 0 THEN 1 ELSE 0
          IN  has("left") + has("right") + has("disparity")

-----------------------------------------------------------------------------
(* The hardware.                                                           *)

Code(c) ==
    /\ coding[c] # <<>>
    /\ streams' = [streams EXCEPT ![c] = Append(@, Head(coding[c]))]
    /\ coding' = [coding EXCEPT ![c] = Tail(@)]
    /\ UNCHANGED <<frame, pc, ch, packet, heap, held, done>>

-----------------------------------------------------------------------------
(* The encoder thread.                                                     *)

\* The output is zeroed by the caller.
Begin ==
    /\ pc = "idle"
    /\ frame < MaxFrame
    /\ frame' = frame + 1
    /\ packet' = NoPackets
    /\ pc' = "send"
    /\ ch' = "left"
    /\ UNCHANGED <<coding, streams, heap, held, done>>

CleanupNothing == UNCHANGED heap    \* mutant: no buffer is freed
CleanupAll == heap' = heap - 3      \* mutant: packets without data included
\* "goto cleanup": the buffers of this output are freed.
Cleanup == heap' = heap - Filled

Fail ==
    /\ Cleanup
    /\ packet' = NoPackets
    /\ pc' = "idle"

\* ot_eis_venc_send_frame, with its retries.
Send ==
    /\ pc = "send"
    /\ coding' = [coding EXCEPT ![ch] = Append(@, frame)]
    /\ pc' = "poll"
    /\ UNCHANGED <<frame, ch, streams, packet, heap, held, done>>

SendFails ==
    /\ pc = "send"
    /\ "failure" \in Happens
    /\ Fail
    /\ UNCHANGED <<frame, ch, coding, streams, held, done>>

Poll ==
    /\ pc = "poll"
    /\ streams[ch] # <<>>
    /\ pc' = "acquire"
    /\ UNCHANGED <<frame, ch, coding, streams, packet, heap, held, done>>

\* No stream in a hundred polls.  What the hardware is coding is forgotten, not
\* cancelled.
PollTimeout ==
    /\ pc = "poll"
    /\ streams[ch] = <<>>
    /\ "late" \in Happens
    /\ Fail
    /\ UNCHANGED <<frame, ch, coding, streams, held, done>>

AcquireNewest ==                    \* mutant: the newest stream is taken
    /\ pc = "acquire"
    /\ packet' = [packet EXCEPT ![ch] = streams[ch][Len(streams[ch])]]
    /\ streams' = [streams EXCEPT ![ch] = SubSeq(@, 1, Len(@) - 1)]
    /\ heap' = heap + 1
    /\ IF ch = "left" THEN ch' = "right" /\ pc' = "send"
                      ELSE pc' = "disparity" /\ UNCHANGED ch
    /\ UNCHANGED <<frame, coding, held, done>>

\* The oldest stream is copied to the packet and given back.
Acquire ==
    /\ pc = "acquire"
    /\ packet' = [packet EXCEPT ![ch] = Head(streams[ch])]
    /\ streams' = [streams EXCEPT ![ch] = Tail(@)]
    /\ heap' = heap + 1
    /\ IF ch = "left" THEN ch' = "right" /\ pc' = "send"
                      ELSE pc' = "disparity" /\ UNCHANGED ch
    /\ UNCHANGED <<frame, coding, held, done>>

\* The stream could not be acquired and stays, or there is no memory to copy it
\* and it is given back.
AcquireFails ==
    /\ pc = "acquire"
    /\ \/ "late" \in Happens /\ UNCHANGED streams
       \/ "failure" \in Happens /\ streams' = [streams EXCEPT ![ch] = Tail(@)]
    /\ Fail
    /\ UNCHANGED <<frame, ch, coding, held, done>>

\* LZ4 or raw; without memory for either the output has two packets with data
\* and is a success all the same.  The caller hands it on.
Disparity ==
    /\ pc = "disparity"
    /\ \/ /\ packet' = [packet EXCEPT !["disparity"] = frame]
          /\ heap' = heap + 1
          /\ held' = held + 3
       \/ /\ "failure" \in Happens
          /\ UNCHANGED <<packet, heap>>
          /\ held' = held + 2
    /\ done' = packet'
    /\ pc' = "idle"
    /\ UNCHANGED <<frame, ch, coding, streams>>

\* The receiver of the outputs, stereo_net_proc, frees their buffers.
Free ==
    /\ held > 0
    /\ held' = 0
    /\ heap' = heap - held
    /\ UNCHANGED <<frame, pc, ch, coding, streams, packet, done>>

Finished == pc = "idle" /\ frame = MaxFrame /\ UNCHANGED vars

Next ==
    \/ (\E c \in Channels : Code(c))
    \/ Begin \/ Send \/ SendFails \/ Poll \/ PollTimeout
    \/ Acquire \/ AcquireFails \/ Disparity \/ Free \/ Finished

Spec == Init /\ [][Next]_vars

-----------------------------------------------------------------------------
(* Properties.                                                             *)

TypeOK ==
    /\ frame \in 0 .. MaxFrame
    /\ pc \in {"idle", "send", "poll", "acquire", "disparity"}
    /\ ch \in Channels
    /\ coding \in [Channels -> Seq(1 .. MaxFrame)]
    /\ streams \in [Channels -> Seq(1 .. MaxFrame)]
    /\ packet \in [Packets -> 0 .. MaxFrame]
    /\ done \in [Packets -> 0 .. MaxFrame]
    /\ heap \in Nat /\ held \in Nat

\* The buffers in use are those of the output being built and of the outputs
\* handed on: no failure path leaks a JPEG it had copied before, or frees one
\* twice.
BuffersAccounted ==
    heap = held + (IF pc = "idle" THEN 0 ELSE Filled)

\* The images of a channel come out in the order of their frames, each at most
\* once, however late they are.
ImagesAdvance ==
    [][\A c \in Channels : done'[c] # done[c] => done'[c] > done[c]]_vars

\* stereo_venc.c:258: "Encode a single frame to JPEG. Encoded stream is copied
\* to output packet."
EncodesItsFrame ==
    \A c \in Channels : packet[c] # 0 => packet[c] = frame
=============================================================================
