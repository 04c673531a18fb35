---------------------------- MODULE StereoNetwork ----------------------------
(***************************************************************************)
(* The TCP stream on port 9000: stereo_net_proc and stereo_network.c on the *)
(* board, receive_frame of scripts/stereo_receiver.py on the PC, and the    *)
(* connection between them.  The encoder keeps filling g_q_net meanwhile.   *)
(*                                                                         *)
(* A packet is its type and the frame_index it carries, counted from 1 here *)
(* so that 0 can stand for none.  TCP neither loses nor reorders packets of *)
(* a connection; a connection ends when the client goes or a send fails.    *)
(***************************************************************************)
EXTENDS Naturals, Sequences, FiniteSets

CONSTANTS
    MaxFrame,   \* bound: from this index on, frames carry the same one
    Depth,      \* capacity of g_q_net
    Window,     \* bound: packets the socket buffers hold
    Happens     \* what may happen: "failure" of malloc, send and the
                \* calibration file

Triplet == {"left", "right", "disparity"}
Order == <<"left", "right", "disparity">>
Packet == [type : Triplet \cup {"calib", "perf"}, idx : 0 .. MaxFrame]

VARIABLES
    queue,      \* g_q_net
    frame,      \* index of the last frame the encoder has queued or dropped
    net,        \* net thread: "loop", "calib", "drain", "send", "perf", "exit"
    item,       \* the frame it sends
    nth,        \* the packet of the triplet it sends next
    fd,         \* g_client_fd is open
    listening,  \* g_listen_fd is open
    run,        \* g_net_run
    waiting,    \* a client in the listen backlog
    peer,       \* the connected client is "up" or "gone"; "none" before
    wire,       \* packets sent on this connection and not yet read
    since,      \* value of frame when the connection was accepted
    target,     \* the receiver's target_frame_idx
    result,     \* result[t]: frame whose packet of type t it has, 0 if none
    shown       \* the last complete result it returned

vars == <<queue, frame, net, item, nth, fd, listening, run, waiting, peer, wire,
          since, target, result, shown>>

Empty == [t \in Triplet |-> 0]

Init ==
    /\ queue = <<>> /\ frame = 0
    /\ net = "loop" /\ item = 0 /\ nth = 1
    /\ fd = FALSE /\ listening = TRUE /\ run = TRUE
    /\ waiting = FALSE /\ peer = "none" /\ wire = <<>> /\ since = 0
    /\ target = 0 /\ result = Empty /\ shown = Empty

-----------------------------------------------------------------------------
(* The encoder thread: pushes or drops.                                    *)

HasRoomAlways == TRUE               \* mutant: the queue is never full
HasRoom == Len(queue) < Depth

Enqueue ==
    /\ run
    /\ frame' = IF frame < MaxFrame THEN frame + 1 ELSE frame
    /\ queue' = IF HasRoom THEN Append(queue, frame') ELSE queue
    /\ UNCHANGED <<net, item, nth, fd, listening, run, waiting, peer, wire,
                   since, target, result, shown>>

-----------------------------------------------------------------------------
(* The net thread.                                                         *)

OthersUnchanged == UNCHANGED <<frame, listening, run>>
ReceiverUnchanged == UNCHANGED <<target, result, shown>>

\* stereo_network_accept.  The client may have gone while it waited.
Accept ==
    /\ net = "loop" /\ run /\ ~fd
    /\ waiting
    /\ waiting' = FALSE
    /\ fd' = TRUE
    /\ peer' \in {"up", "gone"}
    /\ wire' = <<>> /\ target' = 0 /\ result' = Empty
    /\ since' = frame
    /\ net' = "calib"
    /\ UNCHANGED <<queue, item, nth, shown>>
    /\ OthersUnchanged

NoClient ==
    /\ net = "loop" /\ run /\ ~fd
    /\ ~waiting
    /\ net' = "drain"
    /\ UNCHANGED <<queue, item, nth, fd, waiting, peer, wire, since>>
    /\ OthersUnchanged /\ ReceiverUnchanged

\* stereo_network_send_packet succeeds: the packet is on its way, or lost with
\* a client whose leaving is not known yet.  It blocks while the buffers of a
\* connected client are full.
SendPacket(p) ==
    \/ peer = "up" /\ Len(wire) < Window /\ wire' = Append(wire, p)
    \/ peer = "gone" /\ UNCHANGED wire

\* It fails: before anything was sent, or because the client has gone.
CannotSend == peer = "gone" \/ "failure" \in Happens

\* stereo_network_send_calib: neither an unreadable file nor a failing send
\* closes the connection.
Calib ==
    /\ net = "calib"
    /\ \/ SendPacket([type |-> "calib", idx |-> 0])
       \/ CannotSend /\ UNCHANGED wire
    /\ net' = "drain"
    /\ UNCHANGED <<queue, item, nth, fd, waiting, peer, since>>
    /\ OthersUnchanged /\ ReceiverUnchanged

DrainNothing ==                     \* mutant: the queue is not emptied
    /\ net = "drain"
    /\ net' = "loop"
    /\ UNCHANGED <<queue, item, nth, fd, waiting, peer, wire, since>>
    /\ OthersUnchanged /\ ReceiverUnchanged

\* Frames queued while there was no client are thrown away, those that came
\* in while the client was being accepted included.
Drain ==
    /\ net = "drain"
    /\ IF queue = <<>>
       THEN net' = "loop" /\ UNCHANGED queue
       ELSE queue' = Tail(queue) /\ UNCHANGED net
    /\ UNCHANGED <<item, nth, fd, waiting, peer, wire, since>>
    /\ OthersUnchanged /\ ReceiverUnchanged

PopNewest ==                        \* mutant: the queue as a stack
    /\ net = "loop" /\ run /\ fd
    /\ queue # <<>>
    /\ item' = queue[Len(queue)]
    /\ queue' = SubSeq(queue, 1, Len(queue) - 1)
    /\ nth' = 1
    /\ net' = "send"
    /\ UNCHANGED <<fd, waiting, peer, wire, since>>
    /\ OthersUnchanged /\ ReceiverUnchanged

\* pop_timeout.
Pop ==
    /\ net = "loop" /\ run /\ fd
    /\ queue # <<>>
    /\ item' = Head(queue)
    /\ queue' = Tail(queue)
    /\ nth' = 1
    /\ net' = "send"
    /\ UNCHANGED <<fd, waiting, peer, wire, since>>
    /\ OthersUnchanged /\ ReceiverUnchanged

PopTimeout == net = "loop" /\ run /\ fd /\ queue = <<>> /\ UNCHANGED vars

Send ==
    /\ net = "send"
    /\ SendPacket([type |-> Order[nth], idx |-> item])
    /\ IF nth < 3 THEN nth' = nth + 1 /\ UNCHANGED net
                  ELSE net' = "perf" /\ UNCHANGED nth
    /\ UNCHANGED <<queue, item, fd, waiting, peer, since>>
    /\ OthersUnchanged /\ ReceiverUnchanged

SendFailsOpen ==                    \* mutant: the connection stays open
    /\ net = "send"
    /\ CannotSend
    /\ net' = "loop"
    /\ UNCHANGED <<queue, item, nth, fd, waiting, peer, wire, since>>
    /\ OthersUnchanged /\ ReceiverUnchanged

\* A triplet that cannot be sent whole ends the connection.
SendFails ==
    /\ net = "send"
    /\ CannotSend
    /\ fd' = FALSE
    /\ net' = "loop"
    /\ UNCHANGED <<queue, item, nth, waiting, peer, wire, since>>
    /\ OthersUnchanged /\ ReceiverUnchanged

\* The result of sending the timing packet is not looked at.
Perf ==
    /\ net = "perf"
    /\ \/ SendPacket([type |-> "perf", idx |-> item])
       \/ CannotSend /\ UNCHANGED wire
    /\ net' = "loop"
    /\ UNCHANGED <<queue, item, nth, fd, waiting, peer, since>>
    /\ OthersUnchanged /\ ReceiverUnchanged

Leave ==
    /\ net = "loop"
    /\ ~run
    /\ net' = "exit"
    /\ UNCHANGED <<queue, item, nth, fd, waiting, peer, wire, since>>
    /\ OthersUnchanged /\ ReceiverUnchanged

Net ==
    \/ Accept \/ NoClient \/ Calib \/ Drain \/ Pop \/ PopTimeout
    \/ Send \/ SendFails \/ Perf \/ Leave

-----------------------------------------------------------------------------
(* The main thread.                                                        *)

Stop ==
    /\ run
    /\ run' = FALSE
    /\ UNCHANGED <<queue, frame, net, item, nth, fd, listening, waiting, peer,
                   wire, since, target, result, shown>>

\* stereo_network_disconnect, from stereo_media_sys_deinit, once the net
\* thread has been joined.
Disconnect ==
    /\ net = "exit"
    /\ listening
    /\ listening' = FALSE
    /\ fd' = FALSE
    /\ waiting' = FALSE
    /\ UNCHANGED <<queue, frame, net, item, nth, run, peer, wire, since, target,
                   result, shown>>

Finished == net = "exit" /\ UNCHANGED vars

-----------------------------------------------------------------------------
(* The client.                                                             *)

BoardUnchanged ==
    UNCHANGED <<queue, frame, net, item, nth, fd, listening, run, since>>

Connect ==
    /\ listening
    /\ ~waiting
    /\ waiting' = TRUE
    /\ UNCHANGED <<peer, wire, target, result, shown>>
    /\ BoardUnchanged

\* The client leaves, or has seen the connection closed.
Go ==
    /\ peer = "up"
    /\ peer' = "gone"
    /\ wire' = <<>> /\ target' = 0 /\ result' = Empty
    /\ UNCHANGED <<waiting, shown>>
    /\ BoardUnchanged

\* What is kept of the partial result when p arrives: a packet of another frame
\* starts afresh.
Kept(p) == IF p.idx = target THEN result ELSE Empty

\* receive_frame: the next packet; after three types the result is returned.
Receive ==
    /\ peer = "up"
    /\ wire # <<>>
    /\ wire' = Tail(wire)
    /\ LET p == Head(wire)
           more == [Kept(p) EXCEPT ![p.type] = IF @ = 0 THEN p.idx ELSE @]
       IN  IF p.type \notin Triplet
           THEN ReceiverUnchanged
           ELSE IF \E t \in Triplet : more[t] = 0
           THEN target' = p.idx /\ result' = more /\ UNCHANGED shown
           ELSE target' = 0 /\ result' = Empty /\ shown' = more
    /\ UNCHANGED <<waiting, peer>>
    /\ BoardUnchanged

Next ==
    \/ Enqueue \/ Net \/ Stop \/ Disconnect \/ Finished
    \/ Connect \/ Go \/ Receive

Spec == Init /\ [][Next]_vars

-----------------------------------------------------------------------------
(* Properties.                                                             *)

TypeOK ==
    /\ queue \in Seq(1 .. MaxFrame) /\ Len(queue) <= Depth
    /\ frame \in 0 .. MaxFrame /\ item \in 0 .. MaxFrame
    /\ net \in {"loop", "calib", "drain", "send", "perf", "exit"}
    /\ nth \in 1 .. 3
    /\ fd \in BOOLEAN /\ listening \in BOOLEAN /\ run \in BOOLEAN
    /\ waiting \in BOOLEAN /\ peer \in {"none", "up", "gone"}
    /\ wire \in Seq(Packet) /\ Len(wire) <= Window
    /\ since \in 0 .. MaxFrame /\ target \in 0 .. MaxFrame
    /\ result \in [Triplet -> 0 .. MaxFrame]
    /\ shown \in [Triplet -> 0 .. MaxFrame]

\* The results of the receiver are whole triplets that never go back in time,
\* neither on a connection nor from one to the next, although a connection may
\* break off within a triplet and the queue is refilled all the time.
ShownAdvances ==
    [][shown' # shown =>
          /\ \A t \in Triplet : shown'[t] = shown'["left"]
          /\ shown'["left"] > shown["left"]]_vars

\* A client is sent frames that were encoded after it was accepted, never the
\* backlog of the time when there was no client.
FreshStart ==
    \A k \in 1 .. Len(wire) :
        wire[k].type # "calib" => wire[k].idx > since \/ since = MaxFrame

\* A triplet reaches a client whole and in order, unless its connection ends:
\* what follows a left image on the wire is the rest of its triplet.
TripletsWhole ==
    \A k \in 1 .. Len(wire) - 1 : \A n \in 1 .. 2 :
        wire[k].type = Order[n] =>
            wire[k + 1] = [type |-> Order[n + 1], idx |-> wire[k].idx]

\* "If client disconnects, board resumes listening": a client that waits is
\* accepted, or refused by the shutdown, even if an earlier one disappeared
\* without a word.
NextClientServed == (waiting /\ peer # "up") ~> (~waiting \/ peer = "up")
=============================================================================
