---------------------------- MODULE DetectionLoop ----------------------------
(***************************************************************************)
(* The detection thread (stereo_det_proc), the single slot in which it      *)
(* leaves its newest frame, and the NPU thread (stereo_npu_proc), which     *)
(* waits for that slot under g_det_lock and g_det_cond before it triggers   *)
(* the stereo network and the yolo network.                                 *)
(*                                                                         *)
(* A detection frame is its number, counted from 1; 0 stands for none.  An  *)
(* item is always there for the NPU thread: its queue is StereoPipeline.    *)
(***************************************************************************)
EXTENDS Integers

CONSTANTS
    MaxDet,         \* bound: frames of the detection channel
    Happens         \* what may happen: "failure" of calls, a "shutdown"

DetFrame == 1 .. MaxDet

VARIABLES
    slot,           \* g_det_slot_frame, 0 when g_det_slot_valid is false
    lock,           \* owner of g_det_lock: "none", "det" or "npu"
    det,            \* where the detection thread is
    img,            \* the frame it has in hand
    npu,            \* where the NPU thread is
    late,           \* the absolute deadline of this wait has passed
    det_ready,      \* the local of that name
    enabled,        \* g_yolo_enabled
    got,            \* frames the detection channel has given out
    held,           \* held[i]: acquisitions of frame i minus its releases
    consumed,       \* the frame last copied into the yolo input
    yolo,           \* the yolo inference: "idle", "running", or "orphaned"
                    \* when its item was dropped without stereo_yolo_wait
    stop            \* shutdown: 0 running, 1 joining npu, 2 joining det, 3 done

vars == <<slot, lock, det, img, npu, late, det_ready, enabled, got, held,
          consumed, yolo, stop>>

\* Without a detection channel the thread leaves at once.
Init ==
    /\ slot = 0 /\ img = 0 /\ got = 0 /\ consumed = 0
    /\ lock = "none"
    /\ det \in {"stale", "exit"}
    /\ npu = "pop" /\ yolo = "idle"
    /\ late = FALSE /\ det_ready = FALSE
    /\ enabled \in BOOLEAN
    /\ held = [i \in DetFrame |-> 0]
    /\ stop = 0

\* held after acquiring and releasing the frames of two sets.
Moved(acquired, released) ==
    [i \in DetFrame |-> held[i] + (IF i \in acquired THEN 1 ELSE 0)
                                - (IF i \in released THEN 1 ELSE 0)]

-----------------------------------------------------------------------------
(* stereo_det_proc.                                                        *)

DetUnchanged == UNCHANGED <<npu, late, det_ready, enabled, consumed, yolo, stop>>

\* A frame left over from before is acquired and released in one go.
DetStale ==
    /\ det = "stale"
    /\ \/ got < MaxDet /\ got' = got + 1 /\ UNCHANGED det
       \/ det' = "acquire" /\ UNCHANGED got
    /\ UNCHANGED <<slot, lock, img, held>>
    /\ DetUnchanged

DetRunsOn == stop < 3               \* mutant: the flag cleared after the join
\* g_det_run.
DetRuns == stop < 2

DetAcquire ==
    /\ det = "acquire"
    /\ DetRuns
    /\ got < MaxDet
    /\ got' = got + 1
    /\ img' = got'
    /\ held' = Moved({got'}, {})
    /\ det' = "lock"
    /\ UNCHANGED <<slot, lock>>
    /\ DetUnchanged

\* No frame for 500 ms: the flag is looked at again.
DetNoFrame == det = "acquire" /\ DetRuns /\ UNCHANGED vars

DetLock ==
    /\ det \in {"lock", "last"}
    /\ lock = "none"
    /\ lock' = "det"
    /\ det' = IF det = "lock" THEN "store" ELSE "empty"
    /\ UNCHANGED <<slot, img, got, held>>
    /\ DetUnchanged

\* The newest frame wins: the one it replaces is released; then the unlock.
DetStore ==
    /\ det = "store"
    /\ held' = Moved({}, {slot})
    /\ slot' = img
    /\ img' = 0
    /\ lock' = "none"
    /\ det' = "signal"
    /\ UNCHANGED got
    /\ DetUnchanged

\* pthread_cond_broadcast comes after the unlock: the slot may be empty again
\* when it wakes the NPU thread.
DetSignal ==
    /\ det = "signal"
    /\ det' = "acquire"
    /\ npu' = IF npu = "wait" THEN "relock" ELSE npu
    /\ UNCHANGED <<slot, lock, img, late, det_ready, enabled, got, held,
                   consumed, yolo, stop>>

DetLeave ==
    /\ det = "acquire"
    /\ ~DetRuns
    /\ det' = "last"
    /\ UNCHANGED <<slot, lock, img, got, held>>
    /\ DetUnchanged

DetEmptyForgets ==                  \* mutant: the last frame is not released
    /\ det = "empty"
    /\ slot' = 0
    /\ lock' = "none"
    /\ det' = "exit"
    /\ UNCHANGED <<img, got, held>>
    /\ DetUnchanged

\* What nobody consumed is released on the way out.
DetEmpty ==
    /\ det = "empty"
    /\ held' = Moved({}, {slot})
    /\ slot' = 0
    /\ lock' = "none"
    /\ det' = "exit"
    /\ UNCHANGED <<img, got>>
    /\ DetUnchanged

Det ==
    \/ DetStale \/ DetAcquire \/ DetNoFrame \/ DetLock \/ DetStore \/ DetSignal
    \/ DetLeave \/ DetEmpty

-----------------------------------------------------------------------------
(* stereo_det_copy_latest, called by the NPU thread.                        *)

NpuUnchanged == UNCHANGED <<det, img, enabled, got, stop>>
CopyUnchanged == NpuUnchanged /\ UNCHANGED yolo

\* The next item: with yolo, first a detection frame.
NpuPop ==
    /\ npu = "pop"
    /\ stop = 0
    /\ npu' = IF enabled THEN "lock" ELSE "trigger"
    /\ det_ready' = FALSE
    /\ late' = FALSE
    /\ UNCHANGED <<slot, lock, held, consumed>>
    /\ CopyUnchanged

NpuLock ==
    /\ npu \in {"lock", "relock", "relock_late"}
    /\ lock = "none"
    /\ lock' = "npu"
    /\ npu' = IF npu = "relock_late" THEN "give_up" ELSE "test"
    /\ UNCHANGED <<slot, late, det_ready, held, consumed>>
    /\ CopyUnchanged

\* The deadline is set once, before the loop.
Deadline ==
    /\ npu \in {"test", "wait", "relock"}
    /\ ~late
    /\ late' = TRUE
    /\ UNCHANGED <<slot, lock, npu, det_ready, held, consumed>>
    /\ CopyUnchanged

NpuWaitRearmed ==                   \* mutant: a new deadline for every wait
    /\ npu = "test"
    /\ slot = 0
    /\ npu' = "wait"
    /\ lock' = "none"
    /\ late' = FALSE
    /\ UNCHANGED <<slot, det_ready, held, consumed>>
    /\ CopyUnchanged

\* pthread_cond_timedwait gives the lock back.
NpuWait ==
    /\ npu = "test"
    /\ slot = 0
    /\ npu' = "wait"
    /\ lock' = "none"
    /\ UNCHANGED <<slot, late, det_ready, held, consumed>>
    /\ CopyUnchanged

\* It may return without a broadcast, and does return once it is late.
NpuWake ==
    /\ npu = "wait"
    /\ npu' = IF late THEN "relock_late" ELSE "relock"
    /\ UNCHANGED <<slot, lock, late, det_ready, held, consumed>>
    /\ CopyUnchanged

\* A timeout is final, even if a frame has come in the meantime.
NpuGiveUp ==
    /\ npu = "give_up"
    /\ npu' = "trigger"
    /\ lock' = "none"
    /\ UNCHANGED <<slot, late, det_ready, held, consumed>>
    /\ CopyUnchanged

NpuCopyKeepsValid ==                \* mutant: the slot stays valid
    /\ npu = "test"
    /\ slot # 0
    /\ det_ready' \in {TRUE} \cup (IF "failure" \in Happens THEN {FALSE} ELSE {})
    /\ consumed' = slot
    /\ held' = Moved({}, {slot})
    /\ lock' = "none"
    /\ npu' = "trigger"
    /\ UNCHANGED <<slot, late>>
    /\ CopyUnchanged

\* The frame is copied into the yolo input, released and taken out of the slot,
\* also when the preprocessing failed.
NpuCopy ==
    /\ npu = "test"
    /\ slot # 0
    /\ det_ready' \in {TRUE} \cup (IF "failure" \in Happens THEN {FALSE} ELSE {})
    /\ consumed' = slot
    /\ held' = Moved({}, {slot})
    /\ slot' = 0
    /\ lock' = "none"
    /\ npu' = "trigger"
    /\ UNCHANGED <<late>>
    /\ CopyUnchanged

-----------------------------------------------------------------------------
(* The rest of stereo_npu_proc.                                            *)

\* stereo_yolo_wait, called on the items that prepared a detection frame.
YoloWait == yolo' = IF det_ready THEN "idle" ELSE yolo

\* stereo_npu_trigger succeeds; then yolo's trigger, which may fail.
NpuTrigger ==
    /\ npu = "trigger"
    /\ npu' = "infer"
    /\ \/ yolo' = (IF det_ready THEN "running" ELSE yolo) /\ UNCHANGED det_ready
       \/ det_ready /\ "failure" \in Happens /\ det_ready' = FALSE /\ UNCHANGED yolo
    /\ UNCHANGED <<slot, lock, late, held, consumed>>
    /\ NpuUnchanged

\* stereo_npu_trigger fails.  stereo_yolo_wait is called all the same, though
\* nothing was triggered for this item.
NpuTriggerFails ==
    /\ npu = "trigger"
    /\ "failure" \in Happens
    /\ npu' = "pop"
    /\ YoloWait
    /\ UNCHANGED <<slot, lock, late, det_ready, held, consumed>>
    /\ NpuUnchanged

NpuInfer ==
    /\ npu = "infer"
    /\ npu' = "output"
    /\ UNCHANGED <<slot, lock, late, det_ready, held, consumed, yolo>>
    /\ NpuUnchanged

NpuInferFailsAlone ==               \* mutant: the second model is not finished
    /\ npu = "infer"
    /\ "failure" \in Happens
    /\ npu' = "pop"
    /\ UNCHANGED <<slot, lock, late, det_ready, held, consumed, yolo>>
    /\ NpuUnchanged

NpuInferFails ==
    /\ npu = "infer"
    /\ "failure" \in Happens
    /\ npu' = "pop"
    /\ YoloWait
    /\ UNCHANGED <<slot, lock, late, det_ready, held, consumed>>
    /\ NpuUnchanged

\* No memory for the output or its disparity, or stereo_subpixel_process
\* failed: the item is dropped, without a call of stereo_yolo_wait.
NpuOutputFails ==
    /\ npu = "output"
    /\ "failure" \in Happens
    /\ npu' = "pop"
    /\ yolo' = IF yolo = "running" THEN "orphaned" ELSE yolo
    /\ UNCHANGED <<slot, lock, late, det_ready, held, consumed>>
    /\ NpuUnchanged

\* "Finish the second model": stereo_yolo_wait, decode and draw.
NpuFinish ==
    /\ npu = "output"
    /\ npu' = "pop"
    /\ YoloWait
    /\ UNCHANGED <<slot, lock, late, det_ready, held, consumed>>
    /\ NpuUnchanged

NpuLeave ==
    /\ npu = "pop"
    /\ stop > 0
    /\ npu' = "exit"
    /\ UNCHANGED <<slot, lock, late, det_ready, held, consumed, yolo>>
    /\ NpuUnchanged

Npu ==
    \/ NpuPop \/ NpuLock \/ NpuWait \/ NpuWake \/ NpuGiveUp \/ NpuCopy
    \/ NpuTrigger \/ NpuTriggerFails \/ NpuInfer \/ NpuInferFails
    \/ NpuOutputFails \/ NpuFinish \/ NpuLeave

-----------------------------------------------------------------------------
(* stereo_media_shutdown: the NPU thread is joined before the detection     *)
(* thread is told to stop.                                                  *)

Shutdown ==
    /\ \/ stop = 0 /\ "shutdown" \in Happens
       \/ stop = 1 /\ npu = "exit"
       \/ stop = 2 /\ det = "exit"
    /\ stop' = stop + 1
    /\ UNCHANGED <<slot, lock, det, img, npu, late, det_ready, enabled, got,
                   held, consumed, yolo>>

Finished == stop = 3 /\ UNCHANGED vars

Next == Det \/ Npu \/ Deadline \/ Shutdown \/ Finished

Spec == Init /\ [][Next]_vars

-----------------------------------------------------------------------------
(* Properties.                                                             *)

TypeOK ==
    /\ slot \in 0 .. MaxDet /\ img \in 0 .. MaxDet
    /\ lock \in {"none", "det", "npu"}
    /\ det \in {"stale", "acquire", "lock", "store", "signal", "last", "empty",
                "exit"}
    /\ npu \in {"pop", "lock", "test", "wait", "relock", "relock_late",
                "give_up", "trigger", "infer", "output", "exit"}
    /\ late \in BOOLEAN /\ det_ready \in BOOLEAN /\ enabled \in BOOLEAN
    /\ got \in 0 .. MaxDet /\ consumed \in 0 .. MaxDet
    /\ held \in [DetFrame -> {0, 1}]
    /\ yolo \in {"idle", "running", "orphaned"}
    /\ stop \in 0 .. 3

\* Whoever frees a frame is its only owner: a detection frame is acquired
\* exactly while it is in the detection thread's hand or in the slot, so
\* replacing, consuming and shutting down each release it once.  Nothing stays
\* acquired when the shutdown has joined both threads.
FramesOwned ==
    /\ \A i \in DetFrame : held[i] = 1 <=> i \in {slot, img}
    /\ stop = 3 => slot = 0 /\ img = 0

\* "latest frame wins, copy consumes": the yolo input never goes back to an
\* older frame and never takes the same one twice, whoever gets the lock first.
ConsumesNewer ==
    [][npu = "test" /\ npu' = "trigger" => consumed' > consumed]_vars

\* "ABAB: ... trigger yolo, wait stereo, finish with yolo": between two items, and
\* while the next detection frame is copied into the yolo input, no inference is
\* running on it, whichever of the calls failed.  The one exception in the code is
\* an item dropped in its output stage, which leaves its inference "orphaned".
InferencesFinished == npu \notin {"infer", "output"} => yolo # "running"

\* A stalled detection channel does not stop the pipeline: the NPU thread comes
\* out of stereo_det_copy_latest whatever the detection thread does.
WaitEnds == (npu \in {"lock", "wait"}) ~> (npu = "trigger")

\* stereo_media_shutdown gets both threads to leave.
ShutdownReturns == stop = 1 ~> stop = 3
=============================================================================
