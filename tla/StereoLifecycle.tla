--------------------------- MODULE StereoLifecycle ---------------------------
(***************************************************************************)
(* The main thread: what stereo_camera.c, stereo_media_sys_init, _startup,  *)
(* _shutdown and _sys_deinit acquire, in which order, and what each of      *)
(* their failure paths gives back.  The worker threads are StereoPipeline   *)
(* and DetectionLoop; here they are one resource among the others.  The     *)
(* raw capture server, one more of them, runs beside it in StereoApp.       *)
(***************************************************************************)
EXTENDS Naturals, Sequences

CONSTANT MayFail        \* the steps that may fail

Sides == {"0", "1"}

\* The steps of stereo_media_sys_init and of the two startups, in order.
SysInit(raw) ==
    IF raw
    THEN <<"sys", "vi_vproc_cfg", "media_pipe", "buffer_pool">>
    ELSE <<"sys", "vi_vproc_cfg", "media_pipe", "buffer_pool",
           "sec", "npu", "yolo", "cve", "venc", "net">>

Startup(raw) ==
    IF raw
    THEN <<"vi0", "vi1", "scene", "raw">>
    ELSE <<"queues", "vi0", "vi1", "lut", "pool0", "pool1", "pool_det",
           "vproc0", "vproc1", "apply_lut", "bind", "scene", "raw", "threads">>

\* Steps that leave nothing behind to be released.
Checks == {"vi_vproc_cfg", "sec", "apply_lut", "bind"}
Resources == {"sys", "media_pipe", "buffer_pool", "npu", "yolo", "cve", "venc",
              "net", "queues", "vi0", "vi1", "lut", "pool0", "pool1", "pool_det",
              "vproc0", "vproc1", "scene", "raw", "threads"}
Steps == Resources \cup Checks

\* Steps whose failure is logged and otherwise ignored.
Optional(raw) == {"yolo", "scene"} \cup IF raw THEN {} ELSE {"raw"}

ASSUME LifecycleAssumption == MayFail \subseteq Steps \ {"queues", "threads"}

VARIABLES
    raw_only,   \* g_raw_only_mode
    phase,      \* "init", "startup", "running", "unwind", "shutdown", "deinit", "exit"
    todo,       \* the steps still to make, or the resources still to release
    held,       \* the resources acquired and not released
    failed,     \* the step whose failure ended initialisation or startup
    quit,       \* g_need_quit_flag
    sys_inited  \* g_sys_inited

vars == <<raw_only, phase, todo, held, failed, quit, sys_inited>>

Init ==
    /\ raw_only \in BOOLEAN
    /\ phase = "init"
    /\ todo = SysInit(raw_only)
    /\ held = {}
    /\ failed = "none"
    /\ quit = FALSE
    /\ sys_inited = FALSE

-----------------------------------------------------------------------------
(* What the failure labels and the orderly way out release, in order.       *)

\* The labels at the end of stereo_media_sys_init, entered at the one for the
\* step that failed and falling through the rest.
InitUnwind(step) ==
    CASE step = "sys" -> <<>>
      [] step \in {"vi_vproc_cfg", "media_pipe"} -> <<"sys">>
      [] step = "buffer_pool" -> <<"media_pipe", "sys">>
      [] step \in {"sec", "npu"} -> <<"buffer_pool", "media_pipe", "sys">>
      [] step = "cve" -> <<"npu", "buffer_pool", "media_pipe", "sys">>
      [] step = "venc" -> <<"cve", "npu", "buffer_pool", "media_pipe", "sys">>
      [] step = "net" -> <<"venc", "cve", "npu", "buffer_pool", "media_pipe", "sys">>

\* Of a and b those that were started, in that order.
Those(a, b) ==
    (IF a \in held THEN <<a>> ELSE <<>>) \o (IF b \in held THEN <<b>> ELSE <<>>)

UnwindAllVi(raw) ==                 \* mutant: both VI, started or not
    IF raw THEN <<"raw", "scene", "vi1", "vi0">>
    ELSE Those("vproc1", "vproc0") \o <<"lut", "vi1", "vi0", "queues">>

UnwindBind(raw) ==                  \* mutant: the binding, a check, is undone too
    <<"bind">> \o Those("vi1", "vi0")

\* The labels of the two startups; started_vproc and started_vi count.
StartupUnwind(raw) ==
    (IF raw THEN <<"raw", "scene">> ELSE Those("vproc1", "vproc0") \o <<"lut">>)
        \o Those("vi1", "vi0")
        \o (IF raw THEN <<>> ELSE <<"queues">>)

RawLate(raw) ==                     \* mutant: raw capture stopped after VI
    IF raw THEN <<"scene", "vi0", "vi1", "raw">>
    ELSE <<"threads", "scene", "lut", "vproc0", "vi0", "vproc1", "vi1", "raw", "queues">>

\* stereo_media_shutdown.
Shutdown(raw) ==
    IF raw THEN <<"raw", "scene", "vi0", "vi1">>
    ELSE <<"threads", "raw", "scene", "lut", "vproc0", "vi0", "vproc1", "vi1", "queues">>

DeinitNoYolo(raw) ==                \* mutant: the second model is forgotten
    (IF raw THEN <<>> ELSE <<"net", "venc", "cve", "npu">>)
        \o <<"buffer_pool", "media_pipe", "sys">>

\* stereo_media_sys_deinit.
Deinit(raw) ==
    IF raw THEN <<"buffer_pool", "media_pipe", "sys">>
    ELSE <<"net", "venc", "cve", "yolo", "npu", "buffer_pool", "media_pipe", "sys">>

\* Functions that return at once when there is nothing to release; the others
\* hand whatever they are given to a driver.
Guarded == {"npu", "yolo", "cve", "venc", "net", "lut", "scene", "raw", "queues"}

-----------------------------------------------------------------------------
(* The steps.                                                              *)

\* The next step succeeds.
Succeed ==
    /\ phase \in {"init", "startup"}
    /\ todo # <<>>
    /\ held' = held \cup ({Head(todo)} \cap Resources)
    /\ todo' = Tail(todo)
    /\ UNCHANGED <<raw_only, phase, failed, quit, sys_inited>>

\* It fails, and is optional.
Skip ==
    /\ phase \in {"init", "startup"}
    /\ todo # <<>>
    /\ Head(todo) \in MayFail \cap Optional(raw_only)
    /\ todo' = Tail(todo)
    /\ UNCHANGED <<raw_only, phase, held, failed, quit, sys_inited>>

\* It fails; the labels from here on are executed.
Fail ==
    /\ phase \in {"init", "startup"}
    /\ todo # <<>>
    /\ Head(todo) \in MayFail \ Optional(raw_only)
    /\ todo' = IF phase = "init" THEN InitUnwind(Head(todo)) ELSE StartupUnwind(raw_only)
    /\ phase' = "unwind"
    /\ failed' = Head(todo)
    /\ UNCHANGED <<raw_only, held, quit, sys_inited>>

InitDone ==
    /\ phase = "init"
    /\ todo = <<>>
    /\ sys_inited' = TRUE
    /\ phase' = "startup"
    /\ todo' = Startup(raw_only)
    /\ UNCHANGED <<raw_only, held, failed, quit>>

StartupDone ==
    /\ phase = "startup"
    /\ todo = <<>>
    /\ phase' = "running"
    /\ UNCHANGED <<raw_only, todo, held, failed, quit, sys_inited>>

QuitSeen == quit

\* stereo_camera_run sees the flag.
Stop ==
    /\ phase = "running"
    /\ QuitSeen
    /\ phase' = "shutdown"
    /\ todo' = Shutdown(raw_only)
    /\ UNCHANGED <<raw_only, held, failed, quit, sys_inited>>

\* The flag is looked at every 50 ms.
Idle == phase = "running" /\ ~QuitSeen /\ UNCHANGED vars

Release ==
    /\ phase \in {"unwind", "shutdown", "deinit"}
    /\ todo # <<>>
    /\ held' = held \ {Head(todo)}
    /\ todo' = Tail(todo)
    /\ UNCHANGED <<raw_only, phase, failed, quit, sys_inited>>

\* main's "err:" label, which the orderly way out passes as well.
Close ==
    /\ phase \in {"unwind", "shutdown"}
    /\ todo = <<>>
    /\ IF sys_inited THEN phase' = "deinit" /\ todo' = Deinit(raw_only)
                     ELSE phase' = "exit" /\ UNCHANGED todo
    /\ UNCHANGED <<raw_only, held, failed, quit, sys_inited>>

Exit ==
    /\ phase = "deinit"
    /\ todo = <<>>
    /\ sys_inited' = FALSE
    /\ phase' = "exit"
    /\ UNCHANGED <<raw_only, todo, held, failed, quit>>

\* SIGINT or SIGTERM, at any time.
Signal ==
    /\ ~quit
    /\ quit' = TRUE
    /\ UNCHANGED <<raw_only, phase, todo, held, failed, sys_inited>>

-----------------------------------------------------------------------------
(* Properties.                                                             *)

Releasing == phase \in {"unwind", "shutdown", "deinit"} /\ todo # <<>>

TypeOK ==
    /\ raw_only \in BOOLEAN /\ quit \in BOOLEAN /\ sys_inited \in BOOLEAN
    /\ phase \in {"init", "startup", "running", "unwind", "shutdown", "deinit", "exit"}
    /\ todo \in Seq(IF Releasing THEN Resources ELSE Steps)
    /\ failed \in MayFail \cup {"none"}
    /\ held \subseteq Resources

\* What each resource uses while it lives.
Needs ==
    [threads |-> {"queues", "vproc0", "vproc1", "npu", "cve", "venc", "net"},
     raw     |-> {"vi0", "vi1"},
     scene   |-> {"vi0", "vi1"} \cup IF raw_only THEN {} ELSE {"vproc0", "vproc1"},
     vproc0  |-> {"vi0", "pool0", "pool_det", "buffer_pool"},
     vproc1  |-> {"vi1", "pool1", "buffer_pool"},
     vi0     |-> {"sys", "media_pipe"},
     vi1     |-> {"sys", "media_pipe"},
     npu     |-> {"sys"},
     cve     |-> {"sys"},
     venc    |-> {"sys"},
     media_pipe |-> {"sys"}]

\* Nothing is torn down under something that still uses it, on no way in and no
\* way out, with three exceptions that are left out of Needs: the shutdown frees
\* the rectification tables before it stops the VPROC groups that use them
\* (stereo_media.c:880-886), and a failing stereo_cve_init, stereo_venc_init or
\* stereo_network_init shuts the NPU library down under the second model
\* (stereo_media.c:422-427), and the buffer pool module goes before the pools.
TornDownInOrder ==
    \A r \in held \cap DOMAIN Needs : Needs[r] \subseteq held

\* Whichever step fails, the way out releases what was acquired and nothing else: no
\* driver is told to stop what was not started or was stopped before, and the
\* process leaves nothing acquired but the user buffer pools, which no path destroys,
\* and the second model, if initialisation failed after loading it.  On the way nothing
\* goes before what uses it.
ReleasesExactly ==
    /\ TornDownInOrder
    /\ Releasing => Head(todo) \in held \cup Guarded
    /\ phase = "exit" =>
        held \subseteq {"pool0", "pool1", "pool_det"}
                          \cup IF failed \in {"cve", "venc", "net"} THEN {"yolo"} ELSE {}
=============================================================================
