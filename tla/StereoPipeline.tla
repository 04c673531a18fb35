--------------------------- MODULE StereoPipeline ---------------------------
(***************************************************************************)
(* The five threads of stereo_media.c and the four queues between them:     *)
(*                                                                         *)
(*   get_frm --vproc--> cve --npu--> npu --venc--> venc --net--> net        *)
(*                                                                         *)
(* An item is known by its frame_index.  What is followed is who owns the   *)
(* VPROC frame pair of an item (blocks of the hardware's pool, to be        *)
(* released exactly once) and the heap objects that carry it, on every path *)
(* a thread can take: success, a full queue, a failing call, a failing      *)
(* malloc, a shutdown.  The queues are the FIFOs that SpscQueue is proved   *)
(* to implement; pop_timeout is one step, because a stage's run flag is     *)
(* only cleared when its producer has been joined.  How a pair is acquired  *)
(* is FramePairing, what the NPU thread does is DetectionLoop.              *)
(***************************************************************************)
EXTENDS Naturals, Sequences, FiniteSets

CONSTANTS
    MaxFrames,      \* bound: frame indices given out
    PoolBlocks,     \* blocks of a VPROC channel's buffer pool (10)
    Happens         \* what may happen: "failure" of mallocs and calls, a
                    \* "client" connecting, a "shutdown"

ASSUME PipelineAssumption ==
    /\ MaxFrames \in Nat \ {0}
    /\ PoolBlocks \in Nat
    /\ Happens \subseteq {"failure", "client", "shutdown"}

\* The order in which stereo_media_shutdown stops and joins the threads.
StopOrder == <<"get_frm", "cve", "npu", "venc", "net">>
Stages == {"get_frm", "cve", "npu", "venc", "net"}
Queues == {"vproc", "npu", "venc", "net"}

Idx  == 0 .. MaxFrames - 1
None == MaxFrames               \* "holds no item"

\* stereo_queue_init in stereo_media_startup; STEREO_QUEUE_CAPACITY is 2.
Depth(k) == IF k \in {"vproc", "npu"} THEN 1 ELSE 2

VARIABLES
    q,          \* the four queues, each a sequence of frame indices
    pc,         \* where each thread is
    hold,       \* the item each thread has in hand
    run,        \* g_get_frm_run, g_cve_run, ...
    joining,    \* the main thread: 0 running, k joining StopOrder[k], 6 joined all
    frame_cnt,  \* get_frm's counter, the next frame_index
    frames,     \* frames[i]: VPROC pairs of item i acquired and not released
    heap,       \* live heap objects of each kind
    lost,       \* disparity maps nobody points to any more
    leaked,     \* what each queue held when stereo_queue_destroy freed its slots
    client,     \* the TCP client: "none", "knocking", "open" or "gone"
    taken       \* the next index the net thread may see: one past the last one

vars == <<q, pc, hold, run, joining, frame_cnt, frames, heap, lost, leaked, client,
          taken>>

Kinds == {"pair", "npu_in", "out", "disparity", "venc_out"}

NoItems == [k \in Queues |-> <<>>]

Init ==
    /\ q = NoItems
    /\ pc = [s \in Stages |-> IF s = "get_frm" THEN "alloc" ELSE "pop"]
    /\ hold = [s \in Stages |-> None]
    /\ run = [s \in Stages |-> TRUE]
    /\ joining = 0
    /\ frame_cnt = 0
    /\ frames = [i \in Idx |-> 0]
    /\ heap = [k \in Kinds |-> 0]
    /\ lost = 0
    /\ leaked = NoItems
    /\ client = "none"
    /\ taken = 0

-----------------------------------------------------------------------------
(* What the threads have in common.                                        *)

Goto(s, l) == pc' = [pc EXCEPT ![s] = l]

\* ot_eis_vproc_chn_release_frame on both channels.
Release(i) == frames' = [frames EXCEPT ![i] = @ - 1]

\* malloc and free of one object of each kind in the two sets.
Alloc(new, freed) ==
    heap' = [k \in Kinds |-> heap[k] + (IF k \in new THEN 1 ELSE 0)
                                     - (IF k \in freed THEN 1 ELSE 0)]

LeaveNever(s, k) == FALSE           \* mutant: the flag is not looked at
\* "while (g_x_run == OT_TRUE)", and the first test of pop_timeout.
Leave(s, k) == ~run[s]

\* pop_timeout on queue k.
Pop(s, k, next) ==
    /\ pc[s] = "pop"
    /\ ~Leave(s, k)
    /\ q[k] # <<>>
    /\ hold' = [hold EXCEPT ![s] = Head(q[k])]
    /\ q' = [q EXCEPT ![k] = Tail(@)]
    /\ Goto(s, next)

\* Nothing for 100 ms: the thread looks at its flag and pops again.
PopTimeout(s, k) ==
    /\ pc[s] = "pop"
    /\ ~Leave(s, k)
    /\ q[k] = <<>>
    /\ UNCHANGED vars

Exit(s, k) ==
    /\ pc[s] = "pop"
    /\ Leave(s, k)
    /\ Goto(s, "exit")
    /\ UNCHANGED <<q, hold, run, joining, frame_cnt, frames, heap, lost, leaked,
                   client, taken>>

HasRoomAlways(k) == TRUE            \* mutant: the result of try_push ignored
HasRoom(k) == Len(q[k]) < Depth(k)

\* A successful stereo_queue_try_push of the item in hand.
Push(s, k) ==
    /\ HasRoom(k)
    /\ q' = [q EXCEPT ![k] = Append(@, hold[s])]
    /\ hold' = [hold EXCEPT ![s] = None]

Drop(s) == hold' = [hold EXCEPT ![s] = None] /\ UNCHANGED q

-----------------------------------------------------------------------------
(* stereo_get_frame_proc.                                                  *)

\* A failing malloc sleeps and tries again, a stutter.
GetFrmAlloc ==
    /\ pc["get_frm"] = "alloc"
    /\ run["get_frm"]
    /\ Alloc({"pair"}, {})
    /\ Goto("get_frm", "acquire")
    /\ UNCHANGED <<q, hold, run, joining, frame_cnt, frames, lost, leaked, client, taken>>

GetFrmExit ==
    /\ pc["get_frm"] = "alloc"
    /\ ~run["get_frm"]
    /\ Goto("get_frm", "exit")
    /\ UNCHANGED <<q, hold, run, joining, frame_cnt, frames, heap, lost, leaked,
                   client, taken>>

\* Both channels gave a frame; the pair carries the next index.
GetFrmAcquire ==
    /\ pc["get_frm"] = "acquire"
    /\ frame_cnt < MaxFrames
    /\ hold' = [hold EXCEPT !["get_frm"] = frame_cnt]
    /\ frames' = [frames EXCEPT ![frame_cnt] = @ + 1]
    /\ Goto("get_frm", "check")
    /\ UNCHANGED <<q, run, joining, frame_cnt, heap, lost, leaked, client, taken>>

\* No frame within 500 ms on one of the channels.
GetFrmNoFrame ==
    /\ pc["get_frm"] = "acquire"
    /\ Alloc({}, {"pair"})
    /\ Goto("get_frm", "alloc")
    /\ UNCHANGED <<q, hold, run, joining, frame_cnt, frames, lost, leaked, client, taken>>

\* The run flag is read once more after the drain.
GetFrmCheck ==
    /\ pc["get_frm"] = "check"
    /\ IF run["get_frm"]
       THEN Goto("get_frm", "push") /\ UNCHANGED <<q, hold, frames, heap>>
       ELSE /\ Release(hold["get_frm"])
            /\ Alloc({}, {"pair"})
            /\ Drop("get_frm")
            /\ Goto("get_frm", "exit")
    /\ UNCHANGED <<run, joining, frame_cnt, lost, leaked, client, taken>>

\* Mutant: the counter is advanced for dropped pairs only.
GetFrmPushNoCount ==
    /\ pc["get_frm"] = "push"
    /\ Push("get_frm", "vproc")
    /\ Goto("get_frm", "alloc")
    /\ UNCHANGED <<run, joining, frame_cnt, frames, heap, lost, leaked, client, taken>>

GetFrmPush ==
    /\ pc["get_frm"] = "push"
    /\ Push("get_frm", "vproc")
    /\ frame_cnt' = frame_cnt + 1
    /\ Goto("get_frm", "alloc")
    /\ UNCHANGED <<run, joining, frames, heap, lost, leaked, client, taken>>

\* Mutant: the dropped pair's struct is not freed.
GetFrmDropNoFree ==
    /\ pc["get_frm"] = "push"
    /\ ~HasRoom("vproc")
    /\ Release(hold["get_frm"])
    /\ Drop("get_frm")
    /\ Goto("get_frm", "alloc")
    /\ UNCHANGED <<run, joining, frame_cnt, heap, lost, leaked, client, taken>>

\* The queue is full: the index is given to the next pair.
GetFrmDrop ==
    /\ pc["get_frm"] = "push"
    /\ ~HasRoom("vproc")
    /\ Release(hold["get_frm"])
    /\ Alloc({}, {"pair"})
    /\ Drop("get_frm")
    /\ Goto("get_frm", "alloc")
    /\ UNCHANGED <<run, joining, frame_cnt, lost, leaked, client, taken>>

GetFrm ==
    \/ GetFrmAlloc \/ GetFrmExit \/ GetFrmAcquire \/ GetFrmNoFrame
    \/ GetFrmCheck \/ GetFrmPush \/ GetFrmDrop

-----------------------------------------------------------------------------
(* stereo_cve_proc.                                                        *)

CvePop ==
    /\ Pop("cve", "vproc", "work")
    /\ UNCHANGED <<run, joining, frame_cnt, frames, heap, lost, leaked, client, taken>>

\* The item survives: the pair's frames move to a new npu_in.
CveProcess ==
    /\ pc["cve"] = "work"
    /\ Alloc({"npu_in"}, {"pair"})
    /\ Goto("cve", "push")
    /\ UNCHANGED <<q, hold, run, joining, frame_cnt, frames, lost, leaked, client, taken>>

\* Mutant: the frames of a pair that could not be processed stay acquired.
CveFailNoRelease ==
    /\ pc["cve"] = "work"
    /\ "failure" \in Happens
    /\ Alloc({}, {"pair"})
    /\ Drop("cve")
    /\ Goto("cve", "pop")
    /\ UNCHANGED <<run, joining, frame_cnt, frames, lost, leaked, client, taken>>

\* No memory for npu_in, or stereo_cve_process failed.
CveFail ==
    /\ pc["cve"] = "work"
    /\ "failure" \in Happens
    /\ Release(hold["cve"])
    /\ Alloc({}, {"pair"})
    /\ Drop("cve")
    /\ Goto("cve", "pop")
    /\ UNCHANGED <<run, joining, frame_cnt, lost, leaked, client, taken>>

CvePush ==
    /\ pc["cve"] = "push"
    /\ Push("cve", "npu")
    /\ Goto("cve", "pop")
    /\ UNCHANGED <<run, joining, frame_cnt, frames, heap, lost, leaked, client, taken>>

CveDrop ==
    /\ pc["cve"] = "push"
    /\ ~HasRoom("npu")
    /\ Release(hold["cve"])
    /\ Alloc({}, {"npu_in"})
    /\ Drop("cve")
    /\ Goto("cve", "pop")
    /\ UNCHANGED <<run, joining, frame_cnt, lost, leaked, client, taken>>

Cve ==
    \/ CvePop \/ PopTimeout("cve", "vproc") \/ Exit("cve", "vproc")
    \/ CveProcess \/ CveFail \/ CvePush \/ CveDrop

-----------------------------------------------------------------------------
(* stereo_npu_proc.                                                        *)

NpuPop ==
    /\ Pop("npu", "npu", "work")
    /\ UNCHANGED <<run, joining, frame_cnt, frames, heap, lost, leaked, client, taken>>

\* Inference, refinement and upsampling: out and its disparity replace npu_in.
NpuInfer ==
    /\ pc["npu"] = "work"
    /\ Alloc({"out", "disparity"}, {"npu_in"})
    /\ Goto("npu", "push")
    /\ UNCHANGED <<q, hold, run, joining, frame_cnt, frames, lost, leaked, client, taken>>

\* The inference, one of the two mallocs or the refinement failed; whatever
\* had been allocated by then is freed again.
NpuFail ==
    /\ pc["npu"] = "work"
    /\ "failure" \in Happens
    /\ Release(hold["npu"])
    /\ Alloc({}, {"npu_in"})
    /\ Drop("npu")
    /\ Goto("npu", "pop")
    /\ UNCHANGED <<run, joining, frame_cnt, lost, leaked, client, taken>>

NpuPush ==
    /\ pc["npu"] = "push"
    /\ Push("npu", "venc")
    /\ Goto("npu", "pop")
    /\ UNCHANGED <<run, joining, frame_cnt, frames, heap, lost, leaked, client, taken>>

NpuDrop ==
    /\ pc["npu"] = "push"
    /\ ~HasRoom("venc")
    /\ Release(hold["npu"])
    /\ Alloc({}, {"out", "disparity"})
    /\ Drop("npu")
    /\ Goto("npu", "pop")
    /\ UNCHANGED <<run, joining, frame_cnt, lost, leaked, client, taken>>

Npu ==
    \/ NpuPop \/ PopTimeout("npu", "npu") \/ Exit("npu", "npu")
    \/ NpuInfer \/ NpuFail \/ NpuPush \/ NpuDrop

-----------------------------------------------------------------------------
(* stereo_venc_proc.                                                       *)

VencPop ==
    /\ Pop("venc", "venc", "work")
    /\ UNCHANGED <<run, joining, frame_cnt, frames, heap, lost, leaked, client, taken>>

\* No memory for venc_out: out is freed, the disparity it points to is not.
VencNoMemory ==
    /\ pc["venc"] = "work"
    /\ "failure" \in Happens
    /\ Release(hold["venc"])
    /\ Alloc({}, {"out"})
    /\ lost' = lost + 1
    /\ Drop("venc")
    /\ Goto("venc", "pop")
    /\ UNCHANGED <<run, joining, frame_cnt, leaked, client, taken>>

\* The frames go back to the pool whether or not the encoding succeeded.
VencEncode ==
    /\ pc["venc"] = "work"
    /\ Release(hold["venc"])
    /\ Alloc({"venc_out"}, {"out", "disparity"})
    /\ Goto("venc", "push")
    /\ UNCHANGED <<q, hold, run, joining, frame_cnt, lost, leaked, client, taken>>

VencFail ==
    /\ pc["venc"] = "work"
    /\ "failure" \in Happens
    /\ Release(hold["venc"])
    /\ Alloc({}, {"out", "disparity"})
    /\ Drop("venc")
    /\ Goto("venc", "pop")
    /\ UNCHANGED <<run, joining, frame_cnt, lost, leaked, client, taken>>

VencPush ==
    /\ pc["venc"] = "push"
    /\ Push("venc", "net")
    /\ Goto("venc", "pop")
    /\ UNCHANGED <<run, joining, frame_cnt, frames, heap, lost, leaked, client, taken>>

\* Mutant: the frames, which the encoding has given back, released once more.
VencDropTwice ==
    /\ pc["venc"] = "push"
    /\ ~HasRoom("net")
    /\ Release(hold["venc"])
    /\ Alloc({}, {"venc_out"})
    /\ Drop("venc")
    /\ Goto("venc", "pop")
    /\ UNCHANGED <<run, joining, frame_cnt, lost, leaked, client, taken>>

VencDrop ==
    /\ pc["venc"] = "push"
    /\ ~HasRoom("net")
    /\ Alloc({}, {"venc_out"})
    /\ Drop("venc")
    /\ Goto("venc", "pop")
    /\ UNCHANGED <<run, joining, frame_cnt, frames, lost, leaked, client, taken>>

Venc ==
    \/ VencPop \/ PopTimeout("venc", "venc") \/ Exit("venc", "venc")
    \/ VencNoMemory \/ VencEncode \/ VencFail \/ VencPush \/ VencDrop

-----------------------------------------------------------------------------
(* stereo_net_proc.                                                        *)

Connected == client \in {"open", "gone"}

\* Not connected: try to accept, then throw away what has queued up.
NetIdle ==
    /\ pc["net"] = "pop"
    /\ ~Leave("net", "net")
    /\ ~Connected
    /\ client' = IF client = "knocking" THEN "open" ELSE client
    /\ Goto("net", "drain")
    /\ UNCHANGED <<q, hold, run, joining, frame_cnt, frames, heap, lost, leaked, taken>>

NetDrain ==
    /\ pc["net"] = "drain"
    /\ q["net"] # <<>>
    /\ taken' = Head(q["net"]) + 1
    /\ q' = [q EXCEPT !["net"] = Tail(@)]
    /\ Alloc({}, {"venc_out"})
    /\ UNCHANGED <<pc, hold, run, joining, frame_cnt, frames, lost, leaked, client>>

NetDrained ==
    /\ pc["net"] = "drain"
    /\ q["net"] = <<>>
    /\ Goto("net", "pop")
    /\ UNCHANGED <<q, hold, run, joining, frame_cnt, frames, heap, lost, leaked,
                   client, taken>>

NetPop ==
    /\ Connected
    /\ Pop("net", "net", "send")
    /\ taken' = Head(q["net"]) + 1
    /\ UNCHANGED <<run, joining, frame_cnt, frames, heap, lost, leaked, client>>

\* stereo_network_send closes the connection when a send fails; the first
\* sends after the client has gone may still succeed.
NetSend ==
    /\ pc["net"] = "send"
    /\ \/ UNCHANGED client
       \/ client = "gone" /\ client' = "none"
    /\ Alloc({}, {"venc_out"})
    /\ Drop("net")
    /\ Goto("net", "pop")
    /\ UNCHANGED <<run, joining, frame_cnt, frames, lost, leaked, taken>>

Net ==
    \/ NetIdle \/ NetDrain \/ NetDrained \/ NetPop \/ NetSend
    \/ (Connected /\ PopTimeout("net", "net")) \/ Exit("net", "net")

ClientKnocks ==
    /\ "client" \in Happens
    /\ client = "none"
    /\ client' = "knocking"
    /\ UNCHANGED <<q, pc, hold, run, joining, frame_cnt, frames, heap, lost, leaked,
                   taken>>

ClientGoes ==
    /\ client = "open"
    /\ client' = "gone"
    /\ UNCHANGED <<q, pc, hold, run, joining, frame_cnt, frames, heap, lost, leaked,
                   taken>>

-----------------------------------------------------------------------------
(* stereo_media_shutdown, called by the main thread.                       *)

Shutdown ==
    /\ "shutdown" \in Happens
    /\ joining = 0
    /\ joining' = 1
    /\ run' = [run EXCEPT ![StopOrder[1]] = FALSE]
    /\ UNCHANGED <<q, pc, hold, frame_cnt, frames, heap, lost, leaked, client, taken>>

Joined(s) == pc[s] = "exit"

\* pthread_join returns and the next flag is cleared; after the last thread
\* stereo_queue_destroy frees the slots of the queues, but not what they point to.
Join ==
    /\ joining \in 1 .. 5
    /\ Joined(StopOrder[joining])
    /\ joining' = joining + 1
    /\ run' = [s \in Stages |->
                  IF joining < 5 /\ s = StopOrder[joining + 1] THEN FALSE ELSE run[s]]
    /\ IF joining = 5 THEN q' = NoItems /\ leaked' = q ELSE UNCHANGED <<q, leaked>>
    /\ UNCHANGED <<pc, hold, frame_cnt, frames, heap, lost, client, taken>>

Finished == joining = 6 /\ UNCHANGED vars

Next ==
    \/ GetFrm \/ Cve \/ Npu \/ Venc \/ Net
    \/ ClientKnocks \/ ClientGoes
    \/ Shutdown \/ Join \/ Finished

Spec == Init /\ [][Next]_vars

\* Every thread is scheduled, and a blocking send returns: the client reads or
\* its connection breaks.  The main thread goes on once it has been told to
\* stop.
FairSpec ==
    /\ Spec
    /\ WF_vars(GetFrm) /\ WF_vars(Cve) /\ WF_vars(Npu)
    /\ WF_vars(Venc) /\ WF_vars(Net) /\ WF_vars(Join)

-----------------------------------------------------------------------------
(* Properties.                                                             *)

HasItem(s) == hold[s] # None

TypeOK ==
    /\ q \in [Queues -> Seq(Idx)]
    /\ \A k \in Queues : Len(q[k]) <= Depth(k)
    /\ pc \in [Stages -> {"alloc", "acquire", "check", "push", "pop", "work",
                          "drain", "send", "exit"}]
    /\ hold \in [Stages -> Idx \cup {None}]
    /\ run \in [Stages -> BOOLEAN]
    /\ joining \in 0 .. 6
    /\ frame_cnt \in 0 .. MaxFrames
    /\ frames \in [Idx -> Nat]
    /\ heap \in [Kinds -> Nat]
    /\ lost \in Nat
    /\ leaked \in [Queues -> Seq(Idx)]
    /\ client \in {"none", "knocking", "open", "gone"}
    /\ taken \in 0 .. MaxFrames

InHand(s) == IF HasItem(s) THEN <<hold[s]>> ELSE <<>>

\* The items whose VPROC frames are in use, oldest first.
WithFrames ==
    (IF pc["venc"] = "work" THEN InHand("venc") ELSE <<>>)
        \o q["venc"] \o InHand("npu") \o q["npu"] \o InHand("cve")
        \o q["vproc"] \o InHand("get_frm")

\* All items, oldest first.
InFlight ==
    InHand("net") \o q["net"]
        \o (IF pc["venc"] = "push" THEN InHand("venc") ELSE <<>>) \o WithFrames

\* The items whose frames are acquired: those in the pipeline, and those that were
\* still queued when the queues were destroyed.
Owners == WithFrames \o leaked["venc"] \o leaked["npu"] \o leaked["vproc"]

\* Every VPROC pair that was acquired and not released belongs to exactly one
\* item that some thread or queue still holds: none is forgotten on a failure
\* path, none is released twice. The shutdown leaves the pairs of the items that
\* are queued at stereo_queue_destroy, and no others.
FramesOwned ==
    \A i \in Idx :
        frames[i] = Cardinality({p \in 1 .. Len(Owners) : Owners[p] = i})

\* Items keep their order through four queues and five threads, no frame_index
\* is used for two of them at a time, and the net thread sees increasing
\* indices only, although the index of a dropped pair is given out again.
InOrder ==
    /\ \A a, b \in 1 .. Len(InFlight) : a < b => InFlight[a] < InFlight[b]
    /\ \A a \in 1 .. Len(q["net"]) : q["net"][a] >= taken

One(b) == IF b THEN 1 ELSE 0

\* The heap objects are those of the items in the queues and in the threads'
\* hands, and what the program leaks: the disparity maps abandoned when
\* stereo_venc_proc has no memory for its output (stereo_media.c:1441-1446), and,
\* after a shutdown, the items that are still queued at stereo_queue_destroy.
HeapAccounted ==
    /\ heap["pair"] = Len(q["vproc"]) + Len(leaked["vproc"]) + One(pc["cve"] = "work")
                        + One(pc["get_frm"] \in {"acquire", "check", "push"})
    /\ heap["npu_in"] = Len(q["npu"]) + Len(leaked["npu"]) + One(pc["cve"] = "push")
                        + One(pc["npu"] = "work")
    /\ heap["out"] = Len(q["venc"]) + Len(leaked["venc"]) + One(pc["npu"] = "push")
                        + One(pc["venc"] = "work")
    /\ heap["disparity"] = heap["out"] + lost
    /\ heap["venc_out"] = Len(q["net"]) + Len(leaked["net"]) + One(pc["venc"] = "push")
                        + One(pc["net"] = "send")

\* stereo_user_buf_pool_create gives a channel 10 blocks.  With all queues and
\* threads full, and one more frame acquired by get_frm's drain, the channel
\* still has a block of its own, so capture never depends on the network.
ChannelKeepsABlock == Len(WithFrames) + 1 < PoolBlocks

\* When stereo_media_shutdown frees the slots of the queues no thread is left
\* that could touch them.
NoUserAtDestroy == joining = 6 => \A s \in Stages : pc[s] = "exit"

\* Every acquired pair is released while the pipeline runs, whatever the
\* client does and whichever calls fail.
FramesReturn ==
    \A i \in Idx : (frames[i] > 0 /\ joining = 0) ~> (frames[i] = 0 \/ joining > 0)

\* stereo_media_shutdown returns.
ShutdownReturns == (joining = 1) ~> (joining = 6)
=============================================================================
