------------------------------ MODULE UvcFrames ------------------------------
(***************************************************************************)
(* The buffers ("nodes") of a frame in uvc_app: frame_cache.c, and the      *)
(* three threads of one USB camera that pass them round.  The media thread  *)
(* takes a node from free_queue, copies a frame into it and puts it into    *)
(* ok_queue.  The data thread exchanges what the USB driver has sent for a  *)
(* node of ok_queue.  The event thread starts and stops the stream, which   *)
(* allocates and frees the nodes.                                           *)
(*                                                                         *)
(* ok_queue is a sequence of nodes, oldest first; free_queue, whose order   *)
(* nothing depends on, a set.  One operation on a list is one step, since   *)
(* it is done under the lock of its queue.  No lock guards frame_node[i]:   *)
(* that it is tested, given back and forgotten are three steps, in two       *)
(* places of the code, and two threads may be there for the same i.  What    *)
(* becomes of a list into which a node is put that is in a list already, or  *)
(* freed, is left open: the model stops there.                              *)
(***************************************************************************)
EXTENDS Integers, Sequences, FiniteSetsExt

CONSTANTS
    Buffers,        \* 1 .. MAX_SAVE_FRAME_NUMS, the buffers of the driver
    Cache,          \* DEFALT_PAYLOAD_CACHE_CNT, the nodes allocated for a stream
    Node,           \* what malloc can return; bound: nodes that exist at a time
    None,
    MaxStreams      \* bound: streams started

Threads == {"event", "data"}

ASSUME UvcAssumption ==
    /\ IsFiniteSet(Buffers) /\ Buffers = 1 .. Cardinality(Buffers) /\ Buffers # {}
    /\ Cache \in Nat /\ Cardinality(Buffers) < Cache
    /\ IsFiniteSet(Node)
    /\ {None, "idle", "away"} \cap Node = {}

VARIABLES
    ok, free,       \* ok_queue, free_queue
    live,           \* the nodes that are allocated
    slot,           \* frame_node[i]
    todo,           \* what the event thread has yet to do
    moved,          \* the index of uvc_frame_nodes_free
    at,             \* where a thread is in ot_uvc_video_fill_buffer_userptr, or the
                    \* event thread in clear_uvc_frame_nodes
    idx, c, ptr,    \* its v_cache.dw_index, c_node and v_cache.n.ul_usr
    old,            \* frame_node[i] as it was when the thread tested it
    streaming,      \* i_streaming
    run, media,     \* get_frm_run; "away", "idle" or the node of the media thread
    queued,         \* the driver: the memory behind a buffer it has to send
    streams,        \* streams started so far
    crossed,        \* history: the stream ended since the data thread dequeued
    torn,           \* history: buffers a crossing or an expired fill has touched
    overlap,        \* history: two threads were past the test of one slot
    twice,          \* history: a node was put that is in a list, or freed
    enough          \* history: the last stream got more nodes than buffers

cache == <<ok, free, live>>
fill == <<at, idx, c, ptr, old>>
work == <<todo, moved>>
races == <<overlap, twice>>
history == <<crossed, torn, races, enough>>
vars == <<cache, slot, work, fill, streaming, run, media, queued, streams, history>>

Init ==
    /\ ok = <<>> /\ free = {} /\ live = {}
    /\ slot = [i \in Buffers |-> None]
    /\ todo = <<>> /\ moved = 0
    /\ at = [t \in Threads |-> "out"]
    /\ idx = [t \in Threads |-> 1]
    /\ c = [t \in Threads |-> None] /\ ptr = [t \in Threads |-> None]
    /\ old = [t \in Threads |-> None]
    /\ streaming = FALSE /\ run = FALSE /\ media = "away"
    /\ queued = [i \in Buffers |-> None]
    /\ streams = 0
    /\ crossed = FALSE /\ torn = {}
    /\ overlap = FALSE /\ twice = FALSE /\ enough = TRUE

-----------------------------------------------------------------------------

\* Where a thread is, and what the event thread has to do next, in a state that is not
\* broken by a second put.
At(t, place) == ~twice /\ at[t] = place
Idle         == ~twice /\ todo = <<>>
Doing(op)    == ~twice /\ todo # <<>> /\ Head(todo) = op
Does(op)     == Doing(op) /\ todo' = Tail(todo) /\ UNCHANGED moved

(* The event thread.                                                       *)

\* ot_uvc_video_disable and ot_uvc_video_enable, the latter with the former in it.
DisableClearsFirst ==               \* mutant: the nodes are given back before the end
    <<"move", "free", "clear", "off", "join">>
Disable == <<"move", "free", "off", "join", "clear">>
Enable  == <<"clear">> \o Disable \o <<"alloc", "start", "fill", "on">>

\* A host starts a stream (isochronous), or commits to a format (bulk: if a stream is
\* on, StreamOff goes before it).
StreamOn ==
    /\ Idle
    /\ streams < MaxStreams
    /\ streams' = streams + 1
    /\ ~streaming
    /\ todo' = Enable
    /\ UNCHANGED <<cache, slot, moved, fill, streaming, run, media, queued, history>>

\* A host stops the stream, or goes away.
StreamOff ==
    /\ Idle
    /\ streams > 0
    /\ todo' = Disable
    /\ UNCHANGED <<cache, slot, moved, fill, streaming, run, media, queued, streams, history>>

\* uvc_frame_nodes_free goes on while its index is less than a count that falls as
\* the index rises: it moves about the older half of ok_queue.
MoveOk ==
    /\ Doing("move")
    /\ IF moved < Len(ok)
       THEN /\ ok' = Tail(ok) /\ free' = free \cup {Head(ok)}
            /\ moved' = moved + 1
            /\ UNCHANGED todo
       ELSE /\ moved' = 0 /\ todo' = Tail(todo)
            /\ UNCHANGED <<ok, free>>
    /\ UNCHANGED <<live, slot, fill, streaming, run, media, queued, streams, history>>

\* Then it frees what is in free_queue.
FreeNodes ==
    /\ Does("free")
    /\ live' = live \ free
    /\ free' = {}
    /\ UNCHANGED <<ok, slot, fill, streaming, run, media, queued, streams, history>>

\* VIDEO_IOCTL_STREAM_OFF takes all buffers from the driver; ot_stream_shutdown ends
\* the media thread.
Off ==
    /\ Does("off")
    /\ streaming' = FALSE
    /\ queued' = [i \in Buffers |-> None]
    /\ run' = FALSE
    /\ crossed' = (at["data"] # "out")
    /\ torn' = {}
    /\ UNCHANGED <<cache, slot, fill, media, streams, races, enough>>

Join ==
    /\ media = "away"
    /\ Does("join")
    /\ UNCHANGED <<cache, slot, fill, streaming, run, media, queued, streams, history>>

\* clear_uvc_frame_nodes takes one slot after the other.
ClearFirst ==
    /\ Doing("clear") /\ At("event", "out")
    /\ at' = [at EXCEPT !["event"] = "test"]
    /\ idx' = [idx EXCEPT !["event"] = 1]
    /\ UNCHANGED <<cache, slot, work, c, ptr, old, streaming, run, media, queued, streams,
                   history>>

\* uvc_frame_nodes_alloc, which stops at a malloc that fails; nobody looks at it.
Alloc ==
    /\ Does("alloc")
    /\ \E k \in 0 .. Cache : \E new \in kSubset(k, Node \ live) :
        /\ free' = free \cup new
        /\ live' = live \cup new
        /\ enough' = (k > Cardinality(Buffers))
    /\ UNCHANGED <<ok, slot, fill, streaming, run, media, queued, streams, crossed, torn,
                   races>>

\* ot_stream_startup; that it fails is not looked at.
Start ==
    /\ Does("start")
    /\ \/ run' = TRUE /\ media' = "idle"
       \/ UNCHANGED <<run, media>>
    /\ UNCHANGED <<cache, slot, fill, streaming, queued, streams, history>>

\* ot_uvc_video_stream_user_ptr fills and queues the buffers one after the other.
FillFirst ==
    /\ Doing("fill") /\ At("event", "out")
    /\ at' = [at EXCEPT !["event"] = "get"]
    /\ idx' = [idx EXCEPT !["event"] = 1]
    /\ ptr' = [ptr EXCEPT !["event"] = None]
    /\ UNCHANGED <<cache, slot, work, c, old, streaming, run, media, queued, streams,
                   history>>

\* A buffer without memory is refused, and one that is queued already.
Refused(i, p) == p = None \/ queued[i] # None

\* A refused buffer ends the start of the stream.
QueueFirst ==
    LET i == idx["event"]
    IN  /\ At("event", "queue")
        /\ IF Refused(i, ptr["event"])
           THEN /\ at' = [at EXCEPT !["event"] = "out"]
                /\ todo' = <<>>
                /\ UNCHANGED <<idx, ptr, queued>>
           ELSE /\ queued' = [queued EXCEPT ![i] = ptr["event"]]
                /\ ptr' = [ptr EXCEPT !["event"] = None]
                /\ IF i + 1 \in Buffers
                   THEN /\ idx' = [idx EXCEPT !["event"] = i + 1]
                        /\ at' = [at EXCEPT !["event"] = "get"]
                        /\ UNCHANGED todo
                   ELSE /\ at' = [at EXCEPT !["event"] = "out"]
                        /\ todo' = Tail(todo)
                        /\ UNCHANGED idx
    /\ UNCHANGED <<cache, slot, moved, c, old, streaming, run, media, streams, history>>

On ==
    /\ Does("on")
    /\ streaming' = TRUE
    /\ UNCHANGED <<cache, slot, fill, run, media, queued, streams, history>>

Event ==
    \/ MoveOk \/ FreeNodes \/ Off \/ Join \/ ClearFirst
    \/ Alloc \/ Start \/ FillFirst \/ QueueFirst \/ On

-----------------------------------------------------------------------------
(* frame_node[i] given back, and ot_uvc_video_fill_buffer_userptr, which two *)
(* threads call.                                                           *)

\* What the data thread does for a stream that has ended meanwhile.
Marked(t) == IF t = "data" /\ crossed THEN torn \cup {idx[t]} ELSE torn

\* The oldest frame, if there is one, into c_node.
Get(t) ==
    /\ At(t, "get")
    /\ IF ok = <<>>
       THEN c' = [c EXCEPT ![t] = None] /\ UNCHANGED ok
       ELSE c' = [c EXCEPT ![t] = Head(ok)] /\ ok' = Tail(ok)
    /\ at' = [at EXCEPT ![t] = "test"]
    /\ UNCHANGED <<free, live, slot, work, idx, ptr, old, streaming, run, media, queued,
                   streams, history>>

\* The slot is dealt with: the next one, or on with the fill.
Handled(t) ==
    IF t = "event" /\ Head(todo) = "clear"
    THEN IF idx[t] + 1 \in Buffers
         THEN /\ at' = [at EXCEPT ![t] = "test"]
              /\ idx' = [idx EXCEPT ![t] = @ + 1]
              /\ UNCHANGED todo
         ELSE /\ at' = [at EXCEPT ![t] = "out"]
              /\ todo' = Tail(todo)
              /\ UNCHANGED idx
    ELSE /\ at' = [at EXCEPT ![t] = "set"]
         /\ UNCHANGED <<idx, todo>>

Past(t) == at[t] \in {"put", "null"}

Test(t) ==
    /\ At(t, "test")
    /\ IF slot[idx[t]] = None
       THEN Handled(t) /\ UNCHANGED <<old, overlap>>
       ELSE /\ at' = [at EXCEPT ![t] = "put"]
            /\ old' = [old EXCEPT ![t] = slot[idx[t]]]
            /\ overlap' = (overlap \/ \E u \in Threads \ {t} : Past(u) /\ idx[u] = idx[t])
            /\ UNCHANGED <<idx, todo>>
    /\ UNCHANGED <<cache, slot, moved, c, ptr, streaming, run, media, queued, streams,
                   crossed, torn, twice, enough>>

Listed == {ok[k] : k \in DOMAIN ok}

\* put_node_to_queue refuses a NULL.
PutNode_Null(p) == {p}              \* mutant: it does not
PutNode_Lost(p) == {}               \* mutant: it never puts
PutNode(p) == {p} \ {None}

\* The slot is read once more, unless the compiler has kept what was tested.
GiveBack(t) ==
    /\ At(t, "put")
    /\ \E p \in {old[t], slot[idx[t]]} :
        /\ free' = free \cup PutNode(p)
        /\ twice' = (p # None /\ p \in free \cup Listed \cup (Node \ live))
    /\ at' = [at EXCEPT ![t] = "null"]
    /\ old' = [old EXCEPT ![t] = None]
    /\ torn' = Marked(t)
    /\ UNCHANGED <<ok, live, slot, work, idx, c, ptr, streaming, run, media, queued, streams,
                   crossed, overlap, enough>>

ForgetNot(t) ==                     \* mutant: the slot keeps what was given back
    /\ At(t, "null")
    /\ Handled(t)
    /\ torn' = Marked(t)
    /\ UNCHANGED <<cache, slot, moved, c, ptr, old, streaming, run, media, queued, streams,
                   crossed, races, enough>>

Forget(t) ==
    /\ At(t, "null")
    /\ slot' = [slot EXCEPT ![idx[t]] = None]
    /\ Handled(t)
    /\ torn' = Marked(t)
    /\ UNCHANGED <<cache, moved, c, ptr, old, streaming, run, media, queued, streams,
                   crossed, races, enough>>

\* A hundred tries, 5 ms apart, if there is no frame.
FillSet(t) ==
    /\ At(t, "set")
    /\ IF c[t] # None
       THEN /\ slot' = [slot EXCEPT ![idx[t]] = c[t]]
            /\ ptr' = [ptr EXCEPT ![t] = c[t]]
            /\ c' = [c EXCEPT ![t] = None]
            /\ at' = [at EXCEPT ![t] = "queue"]
            /\ torn' = Marked(t)
       ELSE \/ at' = [at EXCEPT ![t] = "get"] /\ UNCHANGED <<slot, ptr, c, torn>>
            \/ /\ at' = [at EXCEPT ![t] = "queue"]
               /\ torn' = torn \cup {idx[t]}
               /\ UNCHANGED <<slot, ptr, c>>
    /\ UNCHANGED <<cache, work, idx, old, streaming, run, media, queued, streams, crossed,
                   races, enough>>

Fill(t) == Get(t) \/ Test(t) \/ GiveBack(t) \/ Forget(t) \/ FillSet(t)

-----------------------------------------------------------------------------
(* The data thread, the media thread and the driver.                       *)

\* ot_uvc_video_process_user_ptr: a buffer that was sent, in whatever order, and the
\* memory behind it.
Dequeue ==
    /\ streaming
    /\ At("data", "out")
    /\ \E i \in {j \in Buffers : queued[j] # None} :
        /\ idx' = [idx EXCEPT !["data"] = i]
        /\ ptr' = [ptr EXCEPT !["data"] = queued[i]]
        /\ queued' = [queued EXCEPT ![i] = None]
        /\ torn' = torn \ {i}
    /\ at' = [at EXCEPT !["data"] = "get"]
    /\ crossed' = FALSE
    /\ UNCHANGED <<cache, slot, work, c, old, streaming, run, media, streams, races, enough>>

\* It is queued again unless the stream has ended, with what memory it has.
Queue ==
    LET i == idx["data"]
    IN  /\ At("data", "queue")
        /\ queued' = IF streaming /\ ~Refused(i, ptr["data"])
                     THEN [queued EXCEPT ![i] = ptr["data"]] ELSE queued
    /\ at' = [at EXCEPT !["data"] = "out"]
    /\ ptr' = [ptr EXCEPT !["data"] = None]
    /\ crossed' = FALSE
    /\ UNCHANGED <<cache, slot, work, idx, c, old, streaming, run, media, streams, torn,
                   races, enough>>

MediaGet ==
    /\ ~twice /\ run /\ media = "idle"
    /\ \E n \in free :
        /\ media' = n
        /\ free' = free \ {n}
    /\ UNCHANGED <<ok, live, slot, work, fill, streaming, run, queued, streams, history>>

MediaPut ==
    /\ ~twice /\ media \in Node
    /\ ok' = Append(ok, media)
    /\ media' = "idle"
    /\ UNCHANGED <<free, live, slot, work, fill, streaming, run, queued, streams,
                   history>>

MediaEnds ==
    /\ ~twice /\ ~run /\ media = "idle"
    /\ media' = "away"
    /\ UNCHANGED <<cache, slot, work, fill, streaming, run, queued, streams, history>>

Broken == twice /\ UNCHANGED vars

Next ==
    \/ StreamOn \/ StreamOff \/ Event
    \/ \E t \in Threads : Fill(t)
    \/ Dequeue \/ Queue
    \/ MediaGet \/ MediaPut \/ MediaEnds
    \/ Broken

Spec == Init /\ [][Next]_vars

-----------------------------------------------------------------------------
(* Properties.                                                             *)

\* A slot holds its node until that has been given back.
Given(i) == \E t \in Threads : at[t] = "null" /\ idx[t] = i
Saved  == {slot[i] : i \in {j \in Buffers : ~Given(j)}} \ {None}
InHand == {c[t] : t \in Threads} \ {None}
Copied == {media} \cap Node

TypeOK ==
    /\ ok \in Seq(Node) /\ free \subseteq Node /\ moved \in Nat
    /\ live \subseteq Node
    /\ slot \in [Buffers -> Node \cup {None}]
    /\ at \in [Threads -> {"out", "get", "test", "put", "null", "set", "queue"}]
    /\ idx \in [Threads -> Buffers]
    /\ c \in [Threads -> Node \cup {None}] /\ ptr \in [Threads -> Node \cup {None}]
    /\ old \in [Threads -> Node \cup {None}]
    /\ streaming \in BOOLEAN /\ run \in BOOLEAN
    /\ media \in Node \cup {"idle", "away"}
    /\ queued \in [Buffers -> Node \cup {None}]
    /\ crossed \in BOOLEAN /\ torn \subseteq Buffers
    /\ overlap \in BOOLEAN /\ twice \in BOOLEAN /\ enough \in BOOLEAN

\* "After frame_node (in ok_queue) really transfer to uvc driver, application need to pop
\* this frame_node frome ok_queue, and push into free_queue again" (frame_cache.c:226):
\* no node is in two places, neither twice in a list nor with two threads, so that none
\* is freed twice or written by one thread while another uses it; and every node that
\* some place names is allocated.
OnePlace ==
    /\ ~twice
    /\ \A i, j \in DOMAIN ok : ok[i] = ok[j] => i = j
    /\ \A i, j \in Buffers : slot[i] = slot[j] /\ ~Given(i) /\ ~Given(j) =>
                                i = j \/ slot[i] = None
    /\ c["event"] = c["data"] => c["event"] = None
    /\ free \cap Listed = {}
    /\ Saved \cap (free \cup Listed) = {}
    /\ InHand \cap (free \cup Listed \cup Saved) = {}
    /\ Copied \cap (free \cup Listed \cup Saved \cup InHand) = {}
    /\ free \cup Listed \cup Saved \cup InHand \cup Copied \subseteq live

\* But for two threads that are past the test of one slot at a time, wherever else the
\* end of a stream crosses a fill.
OnePlaceApart == ~overlap => OnePlace

\* While the driver sends a frame nobody writes over it or frees it: it is the one that
\* frame_node remembers, in no queue and with no thread.  But for a buffer that the
\* data thread has filled for a stream that ended meanwhile, or queued
\* again without a new frame, and after two threads were past one test.
SendsWhole ==
    streaming /\ ~overlap => \A i \in Buffers \ torn :
        queued[i] # None => queued[i] = slot[i] /\ ~Given(i) /\ queued[i] \in live

\* A thread that waits for a frame while the media thread runs waits for a node
\* that can still come, unless the stream is being stopped, malloc has failed for so many
\* nodes that the buffers hold them all, or two threads were past one test.
FramesComing ==
    enough /\ ~overlap /\ (\A k \in DOMAIN todo : todo[k] # "off") =>
    \A t \in Threads :
        at[t] \in {"get", "test", "put", "null", "set"} /\ c[t] = None /\ run =>
            \/ ok # <<>> \/ free # {} \/ media \in Node
            \/ \E u \in Threads : c[u] # None
            \/ \E u \in Threads : at[u] \in {"get", "test", "put"} /\ slot[idx[u]] # None
=============================================================================
