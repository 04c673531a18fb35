------------------------------ MODULE StereoApp ------------------------------
(***************************************************************************)
(* The process: the main thread of StereoLifecycle with the raw capture     *)
(* server of RawCapture, which is started and stopped as one of its         *)
(* resources and uses the VI devices the main thread starts and stops.      *)
(* Stopping it takes three steps, between which its thread goes on.         *)
(***************************************************************************)
EXTENDS StereoLifecycle

CONSTANTS
    MaxClients,     \* bound: clients of the raw capture port
    Happens         \* what may happen to the server: "failure" of its calls

ASSUME AppAssumption ==
    /\ MaxClients \in Nat
    /\ Happens \subseteq {"failure"}

VARIABLES           \* the variables of RawCapture
    raw_main, raw_run, raw_fd, raw_pc, raw_todo, raw_dump, raw_held,
    raw_clients, raw_client, raw_asked, raw_got

Raw == INSTANCE RawCapture
    WITH main <- raw_main, run <- raw_run, fd <- raw_fd, pc <- raw_pc,
         todo <- raw_todo, dump <- raw_dump, held <- raw_held,
         clients <- raw_clients, client <- raw_client, asked <- raw_asked,
         got <- raw_got

rawvars == <<raw_main, raw_run, raw_fd, raw_pc, raw_todo, raw_dump, raw_held,
             raw_clients, raw_client, raw_asked, raw_got>>
appvars == <<vars, rawvars>>

AppInit == Init /\ Raw!Init

-----------------------------------------------------------------------------
Starting == phase = "startup" /\ todo # <<>> /\ Head(todo) = "raw"
Stopping == Releasing /\ Head(todo) = "raw" /\ raw_main # "off"

\* The step that starts the server.
StartRaw == Starting /\ Succeed /\ Raw!Start

\* The steps of stereo_raw_capture_stop, which has returned after the last.
StopRaw ==
    \/ Stopping /\ (Raw!StopFlag \/ Raw!StopClose) /\ UNCHANGED vars
    \/ Stopping /\ Raw!StopJoin /\ Release

\* Everything else the main thread does.
MainOnly ==
    /\ \/ ~Starting /\ Succeed
       \/ Skip \/ Fail \/ InitDone \/ StartupDone \/ Idle \/ Stop
       \/ ~Stopping /\ Release
       \/ Close \/ Exit
    /\ UNCHANGED rawvars

Server == Raw!Thread /\ UNCHANGED vars

Finished == phase = "exit" /\ UNCHANGED appvars

AppNext ==
    \/ StartRaw \/ StopRaw \/ MainOnly
    \/ Server
    \/ (Raw!Connect \/ Raw!Go) /\ UNCHANGED vars
    \/ Signal /\ UNCHANGED rawvars
    \/ Finished

AppSpec == AppInit /\ [][AppNext]_appvars

\* Both threads run, and the calls of the main thread return: StereoPipeline and
\* DetectionLoop show that of the joins.  A client of the raw capture port that
\* has connected sends its command or leaves: raw_recv_all has no timeout.
AppFairSpec ==
    /\ AppSpec
    /\ WF_appvars(StartRaw \/ StopRaw \/ MainOnly)
    /\ WF_appvars(Server)

-----------------------------------------------------------------------------
(* Properties.                                                             *)

AppTypeOK == TypeOK /\ Raw!TypeOK

\* The server never touches a VI device that is not running: stopping it leaves
\* no thread behind that might still dump a channel while VI is torn down, in
\* either mode and on every failure path of the startup.
DumpsLiveVi ==
    /\ "left" \in raw_dump => "vi0" \in held
    /\ "right" \in raw_dump => "vi1" \in held

\* Each capture gives its channel back, whichever of its calls fails, a client gets
\* frames of the cameras it asked for (RawCapture), and only a device that runs is
\* dumped.
CapturesClean == Raw!ChannelsGivenBack /\ Raw!AnswersTheMask /\ DumpsLiveVi

\* A signal ends the process, whenever it comes, also while the server has a
\* client.
QuitEnds == quit ~> phase = "exit"
=============================================================================
