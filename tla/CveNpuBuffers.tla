---------------------------- MODULE CveNpuBuffers ----------------------------
(***************************************************************************)
(* The NPU input images.  stereo_cve_process writes a pair's left and right *)
(* image into one of STEREO_CVE_NPU_BUF_NUM buffers, in turn; the item that *)
(* goes through g_q_npu only names the buffer, and the NPU reads the images *)
(* there, without a copy, from stereo_npu_trigger until stereo_npu_wait     *)
(* returns.  Nothing tells the CVE thread that a buffer is in use.          *)
(*                                                                         *)
(* A pair is its number, counted from 1; 0 stands for none.                 *)
(***************************************************************************)
EXTENDS Naturals, Sequences

CONSTANTS
    MaxPair,        \* bound: pairs the CVE thread processes
    BufNum,         \* STEREO_CVE_NPU_BUF_NUM
    QueueDepth      \* capacity of g_q_npu

Buf == 0 .. BufNum - 1

VARIABLES
    left,       \* left[b]: the pair whose left image is in buffer b
    right,
    buf_idx,    \* g_cve_buf_idx
    cve,        \* where the CVE thread is
    pair,       \* the pair it works on
    queue,      \* g_q_npu: items [pair, buf]
    npu,        \* "idle", "left" or "right": what the NPU reads next
    item,       \* what the NPU thread has in hand
    read        \* the left image the inference in progress has read

vars == <<left, right, buf_idx, cve, pair, queue, npu, item, read>>

NoItem == [pair |-> 0, buf |-> 0]
Item == [pair : 0 .. MaxPair, buf : Buf]

Init ==
    /\ left = [b \in Buf |-> 0] /\ right = [b \in Buf |-> 0]
    /\ buf_idx = 0
    /\ cve = "pop" /\ pair = 0
    /\ queue = <<>>
    /\ npu = "idle" /\ item = NoItem /\ read = 0

-----------------------------------------------------------------------------
(* The CVE thread.                                                         *)

NpuUnchanged == UNCHANGED <<npu, item, read>>

CvePop ==
    /\ cve = "pop"
    /\ pair < MaxPair
    /\ pair' = pair + 1
    /\ cve' = "left"
    /\ UNCHANGED <<left, right, buf_idx, queue>>
    /\ NpuUnchanged

\* The map operation of the left image, after the steps that use intermediate
\* images only.
CveLeft ==
    /\ cve = "left"
    /\ left' = [left EXCEPT ![buf_idx] = pair]
    /\ cve' = "right"
    /\ UNCHANGED <<right, buf_idx, pair, queue>>
    /\ NpuUnchanged

CveRight ==
    /\ cve = "right"
    /\ right' = [right EXCEPT ![buf_idx] = pair]
    /\ cve' = "push"
    /\ UNCHANGED <<left, buf_idx, pair, queue>>
    /\ NpuUnchanged

\* An early return of stereo_cve_process: the index stays, so that the next
\* pair overwrites whatever was written.
CveFail ==
    /\ cve \in {"left", "right"}
    /\ cve' = "pop"
    /\ UNCHANGED <<left, right, buf_idx, pair, queue>>
    /\ NpuUnchanged

OutputNext == (buf_idx + 1) % BufNum        \* mutant: the index after the step
\* The buffer whose images are handed out.
Output == buf_idx

HasRoomAlways == TRUE               \* mutant: a full queue is not looked for
HasRoom == Len(queue) < QueueDepth

\* Mutant: the index is not moved on.
CvePushStays ==
    /\ cve = "push"
    /\ queue' = IF HasRoom
                THEN Append(queue, [pair |-> pair, buf |-> Output])
                ELSE queue
    /\ cve' = "pop"
    /\ UNCHANGED <<left, right, buf_idx, pair>>
    /\ NpuUnchanged

\* stereo_cve_process returns and the item is pushed, or dropped by a full
\* queue: the index has moved on either way.
CvePush ==
    /\ cve = "push"
    /\ queue' = IF HasRoom
                THEN Append(queue, [pair |-> pair, buf |-> Output])
                ELSE queue
    /\ buf_idx' = (buf_idx + 1) % BufNum
    /\ cve' = "pop"
    /\ UNCHANGED <<left, right, pair>>
    /\ NpuUnchanged

Cve == CvePop \/ CveLeft \/ CveRight \/ CveFail \/ CvePush

-----------------------------------------------------------------------------
(* The NPU thread and the NPU.                                             *)

CveUnchanged == UNCHANGED <<left, right, buf_idx, cve, pair>>

\* The item is popped and its buffer bound to the network's inputs.
NpuTrigger ==
    /\ npu = "idle"
    /\ queue # <<>>
    /\ item' = Head(queue)
    /\ queue' = Tail(queue)
    /\ npu' = "left"
    /\ read' = 0
    /\ CveUnchanged

\* A buffer could not be bound or the inference not started: the item is
\* dropped.
NpuTriggerFails ==
    /\ npu = "idle"
    /\ queue # <<>>
    /\ queue' = Tail(queue)
    /\ UNCHANGED <<npu, item, read>>
    /\ CveUnchanged

NpuLeft ==
    /\ npu = "left"
    /\ read' = left[item.buf]
    /\ npu' = "right"
    /\ UNCHANGED <<queue, item>>
    /\ CveUnchanged

\* The right image is read and stereo_npu_wait returns.
NpuRight ==
    /\ npu = "right"
    /\ npu' = "idle"
    /\ item' = NoItem
    /\ read' = 0
    /\ UNCHANGED queue
    /\ CveUnchanged

\* stereo_npu_wait fails, whatever the NPU has read by then.
NpuWaitFails ==
    /\ npu = "left"
    /\ npu' = "idle"
    /\ item' = NoItem
    /\ UNCHANGED <<queue, read>>
    /\ CveUnchanged

Npu == NpuTrigger \/ NpuTriggerFails \/ NpuLeft \/ NpuRight \/ NpuWaitFails

Finished ==
    /\ pair = MaxPair /\ cve = "pop" /\ queue = <<>> /\ npu = "idle"
    /\ UNCHANGED vars

Next == Cve \/ Npu \/ Finished

Spec == Init /\ [][Next]_vars

-----------------------------------------------------------------------------
(* Properties.                                                             *)

TypeOK ==
    /\ left \in [Buf -> 0 .. MaxPair] /\ right \in [Buf -> 0 .. MaxPair]
    /\ buf_idx \in Buf
    /\ cve \in {"pop", "left", "right", "push"}
    /\ pair \in 0 .. MaxPair
    /\ queue \in Seq(Item) /\ Len(queue) <= QueueDepth
    /\ npu \in {"idle", "left", "right"}
    /\ item \in Item
    /\ read \in 0 .. MaxPair

\* The buffers protect the images of an item from the next BufNum - 1 pairs,
\* from a map that fails half-way as well: until the CVE thread begins the
\* BufNum-th pair after it, both images of an item that waits or is inferred on
\* are its own.
ImagesKept ==
    /\ \A k \in 1 .. Len(queue) : pair < queue[k].pair + BufNum =>
          left[queue[k].buf] = queue[k].pair /\ right[queue[k].buf] = queue[k].pair
    /\ pair < item.pair + BufNum =>
          /\ npu = "left" => left[item.buf] = item.pair /\ right[item.buf] = item.pair
          /\ npu = "right" => read = item.pair /\ right[item.buf] = item.pair

\* The images of an item may be overwritten while it waits or is inferred on,
\* but by newer pairs only: the depth map of a frame is never computed from
\* images older than the frame.
NeverOlder ==
    /\ \A k \in 1 .. Len(queue) :
          left[queue[k].buf] >= queue[k].pair /\ right[queue[k].buf] >= queue[k].pair
    /\ npu = "left" => left[item.buf] >= item.pair
    /\ npu = "right" => read >= item.pair /\ right[item.buf] >= item.pair

\* stereo_cve.c:25-26: "map writes XOR'd data here, NPU reads from the other
\* set. Eliminates CVE/NPU buffer race condition."
NoBufferRace ==
    /\ npu = "left" => left[item.buf] = item.pair
    /\ npu = "right" => read = item.pair /\ right[item.buf] = item.pair
=============================================================================
