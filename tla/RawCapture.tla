------------------------------ MODULE RawCapture ------------------------------
(***************************************************************************)
(* The raw capture server on port 9001 (stereo_raw_capture.c): a thread     *)
(* that accepts one client at a time, reads one command and answers it with *)
(* the next frame of one or both VI channels, while the main thread may     *)
(* stop it.  A frame is taken from a channel by enabling its dump, getting  *)
(* the frame, and, whatever happens then, disabling the dump again.         *)
(* When the server is started and stopped is said in StereoApp.             *)
(***************************************************************************)
EXTENDS Naturals, Sequences

CONSTANTS
    MaxClients,     \* bound: clients that connect
    Happens         \* what may happen: "failure" of a call

Cams == {"left", "right"}

VARIABLES
    main,       \* the main thread: "off", "on", "stopping" or "joining"
    run,        \* g_raw_run
    fd,         \* g_raw_listen_fd is open
    pc,         \* where the thread is; "none" before it is created
    todo,       \* the cameras still to be captured for this client
    dump,       \* the channels whose dump is enabled
    held,       \* the channels whose frame is held
    clients,    \* clients that have connected
    client,     \* "none", "waiting" in the backlog, "up" or "gone"
    asked,      \* the mask the client sent, {} before
    got         \* the frames it has received

vars == <<main, run, fd, pc, todo, dump, held, clients, client, asked, got>>

Init ==
    /\ main = "off" /\ run = FALSE /\ fd = FALSE /\ pc = "none"
    /\ todo = <<>> /\ dump = {} /\ held = {}
    /\ clients = 0 /\ client = "none" /\ asked = {} /\ got = <<>>

-----------------------------------------------------------------------------
(* The main thread.                                                        *)

ServerUnchanged == UNCHANGED <<todo, dump, held, clients, client, asked, got>>

\* stereo_raw_capture_start.  When it fails everything it opened is closed.
Start ==
    /\ main = "off" /\ pc = "none"
    /\ main' = "on" /\ run' = TRUE /\ fd' = TRUE
    /\ pc' = "loop"
    /\ ServerUnchanged

\* stereo_raw_capture_stop: the flag first, then the port.
StopFlag ==
    /\ main = "on"
    /\ main' = "stopping"
    /\ run' = FALSE
    /\ UNCHANGED <<fd, pc>>
    /\ ServerUnchanged

StopClose ==
    /\ main = "stopping"
    /\ main' = "joining"
    /\ fd' = FALSE
    /\ client' = IF client = "waiting" THEN "gone" ELSE client
    /\ UNCHANGED <<run, pc, todo, dump, held, clients, asked, got>>

JoinAtOnce == TRUE                  \* mutant: pthread_join forgotten
Joined == pc = "exit"

StopJoin ==
    /\ main = "joining"
    /\ Joined
    /\ main' = "off"
    /\ UNCHANGED <<run, fd, pc>>
    /\ ServerUnchanged

-----------------------------------------------------------------------------
(* raw_capture_proc and raw_handle_client.                                  *)

MainUnchanged == UNCHANGED <<main, run, fd, clients>>

RunIgnored == TRUE                  \* mutant: the loop does not look at the flag
Runs == run

Leave ==
    /\ pc = "loop"
    /\ ~Runs
    /\ pc' = "exit"
    /\ UNCHANGED <<todo, dump, held, client, asked, got>>
    /\ MainUnchanged

Loop ==
    /\ pc = "loop"
    /\ Runs
    /\ pc' = "accept"
    /\ UNCHANGED <<todo, dump, held, client, asked, got>>
    /\ MainUnchanged

Accept ==
    /\ pc = "accept"
    /\ fd /\ client = "waiting"
    /\ client' = "up"
    /\ pc' = "recv"
    /\ UNCHANGED <<todo, dump, held, asked, got>>
    /\ MainUnchanged

\* Nobody waits, a signal came, or the port has been closed meanwhile.
AcceptFails ==
    /\ pc = "accept"
    /\ ~fd \/ client # "waiting" \/ "failure" \in Happens
    /\ pc' = "loop"
    /\ UNCHANGED <<todo, dump, held, client, asked, got>>
    /\ MainUnchanged

BothInstead(mask) ==                \* mutant: both cameras whatever the mask
    <<"left", "right">>
\* The cameras of a mask, in the order in which they are captured; 0 means both.
Wanted(mask) ==
    (IF mask = {} \/ "left" \in mask THEN <<"left">> ELSE <<>>)
        \o (IF mask = {} \/ "right" \in mask THEN <<"right">> ELSE <<>>)

\* raw_recv_all waits until the command is there; "other" stands for the bits
\* of the mask that name no camera.
Recv ==
    /\ pc = "recv"
    /\ client = "up"
    /\ \E mask \in SUBSET (Cams \cup {"other"}) :
          /\ todo' = Wanted(mask)
          /\ asked' = IF mask = {} THEN Cams ELSE mask \cap Cams
    /\ pc' = "enable"
    /\ UNCHANGED <<dump, held, client, got>>
    /\ MainUnchanged

\* The client has gone, a signal came or the command is not a valid one.
RecvFails ==
    /\ pc = "recv"
    /\ client = "gone" \/ "failure" \in Happens
    /\ pc' = "close"
    /\ UNCHANGED <<todo, dump, held, client, asked, got>>
    /\ MainUnchanged

Enable ==
    /\ pc = "enable"
    /\ todo # <<>>
    /\ dump' = dump \cup {Head(todo)}
    /\ pc' = "get"
    /\ UNCHANGED <<todo, held, client, asked, got>>
    /\ MainUnchanged

\* The other camera is captured all the same.
EnableFails ==
    /\ pc = "enable"
    /\ todo # <<>>
    /\ "failure" \in Happens
    /\ todo' = Tail(todo)
    /\ UNCHANGED <<pc, dump, held, client, asked, got>>
    /\ MainUnchanged

Get ==
    /\ pc = "get"
    /\ held' = held \cup {Head(todo)}
    /\ pc' = "send"
    /\ UNCHANGED <<todo, dump, client, asked, got>>
    /\ MainUnchanged

GetFailsEnabled ==                  \* mutant: the dump stays enabled
    /\ pc = "get"
    /\ "failure" \in Happens
    /\ todo' = Tail(todo)
    /\ pc' = "enable"
    /\ UNCHANGED <<dump, held, client, asked, got>>
    /\ MainUnchanged

\* No frame within three seconds.
GetFails ==
    /\ pc = "get"
    /\ "failure" \in Happens
    /\ dump' = dump \ {Head(todo)}
    /\ todo' = Tail(todo)
    /\ pc' = "enable"
    /\ UNCHANGED <<held, client, asked, got>>
    /\ MainUnchanged

\* raw_send_frame, which may fail before or while sending; the frame is
\* released and the dump disabled in any case.
Send ==
    /\ pc = "send"
    /\ \/ client = "up" /\ got' = Append(got, Head(todo))
       \/ (client = "gone" \/ "failure" \in Happens) /\ UNCHANGED got
    /\ held' = held \ {Head(todo)}
    /\ dump' = dump \ {Head(todo)}
    /\ todo' = Tail(todo)
    /\ pc' = "enable"
    /\ UNCHANGED <<client, asked>>
    /\ MainUnchanged

Done ==
    /\ pc = "enable"
    /\ todo = <<>>
    /\ pc' = "close"
    /\ UNCHANGED <<todo, dump, held, client, asked, got>>
    /\ MainUnchanged

Close ==
    /\ pc = "close"
    /\ client' = "none"
    /\ asked' = {} /\ got' = <<>>
    /\ pc' = "loop"
    /\ UNCHANGED <<todo, dump, held>>
    /\ MainUnchanged

Thread ==
    \/ Leave \/ Loop \/ Accept \/ AcceptFails \/ Recv \/ RecvFails
    \/ Enable \/ EnableFails \/ Get \/ GetFails \/ Send \/ Done \/ Close

-----------------------------------------------------------------------------
(* The client.                                                             *)

Connect ==
    /\ fd
    /\ client = "none"
    /\ clients < MaxClients
    /\ clients' = clients + 1
    /\ client' = "waiting"
    /\ UNCHANGED <<main, run, fd, pc, todo, dump, held, asked, got>>

Go ==
    /\ client = "up"
    /\ client' = "gone"
    /\ UNCHANGED <<main, run, fd, pc, todo, dump, held, clients, asked, got>>

-----------------------------------------------------------------------------
(* Properties.                                                             *)

TypeOK ==
    /\ main \in {"off", "on", "stopping", "joining"}
    /\ run \in BOOLEAN /\ fd \in BOOLEAN
    /\ pc \in {"none", "loop", "accept", "recv", "enable", "get", "send", "close",
               "exit"}
    /\ todo \in Seq(Cams) /\ Len(todo) <= 2
    /\ dump \subseteq Cams /\ held \subseteq Cams
    /\ clients \in 0 .. MaxClients
    /\ client \in {"none", "waiting", "up", "gone"}
    /\ asked \subseteq Cams
    /\ got \in Seq(Cams) /\ Len(got) <= 2

\* A camera is in dump mode, and its frame held, only while that camera is
\* captured: whichever call fails and whenever the client leaves, the channel
\* goes back to the pipeline.
ChannelsGivenBack ==
    \A c \in Cams :
        /\ c \in dump => pc \in {"get", "send"} /\ c = Head(todo)
        /\ c \in held => c \in dump

\* A client gets frames of the cameras it asked for, each once, left before
\* right, even if one of them could not be captured.
AnswersTheMask ==
    /\ \A k \in 1 .. Len(got) : got[k] \in asked
    /\ Len(got) = 2 => got = <<"left", "right">>
=============================================================================
