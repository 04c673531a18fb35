---------------------------- MODULE StereoStages ----------------------------
(***************************************************************************)
(* Five stages of the pipeline, each at the detail of its own mutexes,      *)
(* queues and hardware:                                                     *)
(*                                                                         *)
(*   "pair"     FramePairing     the channels and stereo_get_frame_proc     *)
(*   "rectify"  CveNpuBuffers    the CVE thread, the NPU and their buffers  *)
(*   "detect"   DetectionLoop    the detection and the NPU thread           *)
(*   "encode"   VencEncoder      the JPEG channels of stereo_venc_encode    *)
(*   "send"     StereoNetwork    the TCP server and its client              *)
(*                                                                         *)
(* They meet only at the queues, which StereoPipeline composes, and share   *)
(* no variable: which steps a stage can take does not depend on where the   *)
(* others are.  So a behaviour is that of one stage, chosen at the start,   *)
(* and the others rest.                                                     *)
(***************************************************************************)
EXTENDS Naturals, Sequences, FiniteSets

CONSTANTS
    MaxIndex,                   \* FramePairing
    MaxPair, BufNum,            \* CveNpuBuffers
    MaxDet,                     \* DetectionLoop
    MaxFrame, Depth, Window,    \* StereoNetwork, VencEncoder, FramePairing
    Happens                     \* what may happen to any of them

ASSUME StagesAssumption ==
    /\ MaxIndex \in Nat \ {0}
    /\ MaxPair \in Nat /\ BufNum \in Nat \ {0}
    /\ MaxDet \in Nat
    /\ MaxFrame \in Nat \ {0}
    /\ Depth \in Nat \ {0} /\ Window \in Nat \ {0}
    /\ Happens \subseteq {"failure", "late", "shutdown"}

VARIABLES
    stage,      \* the one that runs
    p_chan, p_made, p_pair, p_new, p_out, p_pc, p_run, p_pushed,
    b_left, b_right, b_idx, b_cve, b_pair, b_queue, b_npu, b_item, b_read,
    d_slot, d_lock, d_det, d_img, d_npu, d_late, d_ready, d_enabled, d_got,
    d_held, d_consumed, d_yolo, d_stop,
    v_frame, v_pc, v_ch, v_coding, v_streams, v_packet, v_heap, v_held, v_done,
    n_queue, n_frame, n_net, n_item, n_nth, n_fd, n_listening, n_run, n_waiting,
    n_peer, n_wire, n_since, n_target, n_result, n_shown

pvars == <<p_chan, p_made, p_pair, p_new, p_out, p_pc, p_run, p_pushed>>
bvars == <<b_left, b_right, b_idx, b_cve, b_pair, b_queue, b_npu, b_item, b_read>>
dvars == <<d_slot, d_lock, d_det, d_img, d_npu, d_late, d_ready, d_enabled,
           d_got, d_held, d_consumed, d_yolo, d_stop>>
vvars == <<v_frame, v_pc, v_ch, v_coding, v_streams, v_packet, v_heap, v_held,
           v_done>>
nvars == <<n_queue, n_frame, n_net, n_item, n_nth, n_fd, n_listening, n_run,
           n_waiting, n_peer, n_wire, n_since, n_target, n_result, n_shown>>
vars == <<stage, pvars, bvars, dvars, vvars, nvars>>

P == INSTANCE FramePairing WITH
        chan <- p_chan, made <- p_made, pair <- p_pair, new <- p_new,
        out <- p_out, pc <- p_pc, run <- p_run,
        pushed <- p_pushed
B == INSTANCE CveNpuBuffers WITH
        QueueDepth <- Depth,
        left <- b_left, right <- b_right, buf_idx <- b_idx, cve <- b_cve,
        pair <- b_pair, queue <- b_queue, npu <- b_npu, item <- b_item,
        read <- b_read
D == INSTANCE DetectionLoop WITH
        slot <- d_slot, lock <- d_lock, det <- d_det, img <- d_img,
        npu <- d_npu, late <- d_late, det_ready <- d_ready,
        enabled <- d_enabled, got <- d_got, held <- d_held,
        consumed <- d_consumed, yolo <- d_yolo, stop <- d_stop
V == INSTANCE VencEncoder WITH
        frame <- v_frame, pc <- v_pc, ch <- v_ch, coding <- v_coding,
        streams <- v_streams, packet <- v_packet, heap <- v_heap,
        held <- v_held, done <- v_done
N == INSTANCE StereoNetwork WITH
        queue <- n_queue, frame <- n_frame, net <- n_net, item <- n_item,
        nth <- n_nth, fd <- n_fd, listening <- n_listening, run <- n_run,
        waiting <- n_waiting, peer <- n_peer, wire <- n_wire,
        since <- n_since, target <- n_target, result <- n_result,
        shown <- n_shown

\* Where a stage that does not run rests: any one of its initial states.
Rest ==
    /\ stage # "pair" => p_chan = [s \in P!Sides |-> <<>>]
    /\ stage # "detect" => d_det = "stale" /\ d_enabled = TRUE

Init ==
    /\ stage \in {"pair", "rectify", "detect", "encode", "send"}
    /\ P!Init /\ B!Init /\ D!Init /\ V!Init /\ N!Init
    /\ Rest

Pair ==
    stage = "pair" /\ P!Next /\ UNCHANGED <<stage, bvars, dvars, vvars, nvars>>
Rectify ==
    stage = "rectify" /\ B!Next /\ UNCHANGED <<stage, pvars, dvars, vvars, nvars>>
Detect ==
    stage = "detect" /\ D!Next /\ UNCHANGED <<stage, pvars, bvars, vvars, nvars>>
Encode ==
    stage = "encode" /\ V!Next /\ UNCHANGED <<stage, pvars, bvars, dvars, nvars>>
Send ==
    stage = "send" /\ N!Next /\ UNCHANGED <<stage, pvars, bvars, dvars, vvars>>

Next == Pair \/ Rectify \/ Detect \/ Encode \/ Send

Spec == Init /\ [][Next]_vars

\* "pair": the thread is scheduled; nothing is assumed of the sensors.
PairFair == WF_pvars(stage = "pair" /\ P!GetFrame)

\* "detect": both threads run, time passes, and a thread that wants the lock gets
\* it unless the other takes it over and over again.  A call of the NPU library
\* returns.
DetectFair ==
    /\ WF_dvars(stage = "detect" /\ D!Det) /\ WF_dvars(stage = "detect" /\ D!Npu)
    /\ WF_dvars(stage = "detect" /\ D!Deadline)
    /\ SF_dvars(stage = "detect" /\ D!DetLock)
    /\ SF_dvars(stage = "detect" /\ D!NpuLock)
    /\ WF_dvars(stage = "detect" /\ d_stop > 0 /\ D!Shutdown)

\* "send": the threads run and frames keep coming; throwing a frame away takes
\* less time than encoding one, so that the drain finds the queue empty; the
\* kernel reports a client that has gone to one of the sends that follow; a
\* client reads what it is sent.
SendFair ==
    /\ WF_nvars(stage = "send" /\ N!Net) /\ WF_nvars(stage = "send" /\ N!Enqueue)
    /\ WF_nvars(stage = "send" /\ N!Disconnect)
    /\ WF_nvars(stage = "send" /\ N!Receive)
    /\ SF_nvars(stage = "send" /\ n_peer = "gone" /\ N!SendFails)
    /\ SF_nvars(stage = "send" /\ N!Pop)
    /\ []<>(n_net = "drain" => n_queue = <<>>)
    /\ SF_nvars(stage = "send" /\ n_queue = <<>> /\ N!Drain)

\* Nothing is assumed of the encoder and of the rectification.
FairSpec == Spec /\ PairFair /\ DetectFair /\ SendFair

-----------------------------------------------------------------------------
(* Properties.                                                             *)

TypeOK ==
    /\ stage \in {"pair", "rectify", "detect", "encode", "send"}
    /\ P!TypeOK /\ B!TypeOK /\ D!TypeOK /\ V!TypeOK /\ N!TypeOK

\* Every frame and every packet buffer a stage has acquired is in exactly one
\* place, so that whichever of its failure, drain and shutdown paths is taken it
\* is released once: FramePairing FramesAccounted, DetectionLoop FramesOwned,
\* VencEncoder BuffersAccounted.
ReleasedOnce == P!FramesAccounted /\ D!FramesOwned /\ V!BuffersAccounted

\* No yolo inference that was triggered runs on while the NPU thread goes to its
\* next item, except for one whose item was dropped (DetectionLoop).
InferencesFinished == D!InferencesFinished

\* The buffers protect the images of an item from the next BufNum - 1 pairs, from a
\* map that fails half-way as well (CveNpuBuffers).
ImagesKept == B!ImagesKept

\* The images of an item may be overwritten while it waits or is inferred on, but by
\* newer pairs only: the depth map of a frame is never computed from images older than
\* the frame (CveNpuBuffers).
NeverOlder == B!NeverOlder

\* Each stage hands on only what is newer than what it handed on before, however
\* the sensors, the lock and the hardware interleave with it, and what the receiver
\* shows never goes back in time, neither on a connection nor from one to the next:
\* FramePairing OnlyForward, DetectionLoop ConsumesNewer, VencEncoder ImagesAdvance,
\* StereoNetwork ShownAdvances.
NeverBack == P!OnlyForward /\ D!ConsumesNewer /\ V!ImagesAdvance /\ N!ShownAdvances

\* No thread waits or drains for ever (FramePairing StopNoticed, DetectionLoop
\* WaitEnds and ShutdownReturns), and a client that waits is accepted, or refused by
\* the shutdown, even if an earlier one disappeared without a word (StereoNetwork).
WaitsEnd ==
    /\ stage = "pair" => P!StopNoticed
    /\ stage = "detect" => D!WaitEnds /\ D!ShutdownReturns
    /\ stage = "send" => N!NextClientServed

\* A client gets frames encoded after it was accepted, never the backlog of the time
\* without a client, and each triplet whole and in order, unless its connection
\* ends (StereoNetwork).
FreshAndWhole == N!FreshStart /\ N!TripletsWhole
=============================================================================
