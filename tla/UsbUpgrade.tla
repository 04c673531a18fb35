----------------------------- MODULE UsbUpgrade -----------------------------
(***************************************************************************)
(* The upgrade over USB, up to the reboot.                                 *)
(*                                                                         *)
(*   usb_mode_ctl.sh   switches the gadget between the camera (uvc) and    *)
(*                     the upgrade function, and starts and kills          *)
(*                     usb_receiver; a lock drops a second call            *)
(*   usb_receiver      takes a package from the PC fragment by fragment    *)
(*   ota_prepare       forked by usb_receiver, verifies and stores it      *)
(*                                                                         *)
(* usb_receiver and ota_prepare write the stage and the error code to one  *)
(* status file, which survives both and the reboot.  A control transfer is *)
(* synchronous, so a command of the PC and its handler are one step; the   *)
(* time limits are flags that time sets.  A fragment is its number.        *)
(***************************************************************************)
EXTENDS Integers, Sequences

CONSTANTS
    Frags,       \* fragments of a package
    Percent,     \* Percent[n]: the progress shown after n fragments
    MaxSessions, \* bound: CMD_ENTER_UPGRADEs that are accepted
    MaxPackages, \* bound: CMD_SEND_PACKAGEs
    MaxFaults    \* bound: failing calls and damaged or late fragments

ASSUME UsbAssumption ==
    /\ Frags \in Nat \ {0}
    /\ Percent \in [0..Frags -> Nat]
    /\ MaxSessions \in Nat /\ MaxPackages \in Nat /\ MaxFaults \in Nat

Fragment == 0..(Frags - 1)
Whole    == [n \in 1..Frags |-> n - 1]
Jobs     == 1..MaxSessions
None     == -1

VARIABLES
    mode,     \* what the gadget is bound as: "uvc", "upgrade", or "none" in between
    ctl,      \* the usb_mode_ctl.sh that holds the lock, "none" when none does
    armed,    \* its 60 s watchdog is asleep
    norevert, \* the upgrade mode is the fallback of a uvc mode that failed
    stage, err,     \* the status file: stage, error_code # USB_ERR_NONE
    rpc,      \* the main loop of usb_receiver, "down" when it does not run
    inited,   \* status_boot_init's done
    entered,  \* the file usb_upgrade_entered
    paused,   \* g_media_paused
    rx,       \* g_rx: started; acc, what crc_acc was computed over; sound, the
              \* announced CRC is that of the package
    shown,    \* g_last_progress
    late,     \* the limit of the stage has passed: 600 s, or 120 s in WAITING
    file,     \* the fragments in upgrade.img, None when it does not exist
    linked,   \* the receiver's pkg_fd is that file
    job,      \* job[j]: what the j-th ota_prepare is doing
    pc, k,    \* the PC: what it does next, and its current fragment
    clean,    \* history: the last fragment reached the receiver intact
    sessions, packages, faults   \* counters for the bounds

ctlvars == <<mode, ctl, armed, norevert>>
rxvars  == <<rx, shown, file, linked>>
pcvars  == <<pc, k, clean>>
counts  == <<sessions, packages, faults>>
vars == <<ctlvars, stage, err, rpc, inited, entered, paused, rxvars, late, job,
          pcvars, counts>>

Stages == {"IDLE", "RECEIVING", "WAITING", "VERIFYING", "FLASHING",
           "SWITCHING", "FAILED"}

NoPackage == [started |-> FALSE, acc |-> <<>>, sound |-> FALSE]

(* the file on /data is what an earlier boot left *)
Init ==
    /\ mode = "uvc" /\ ctl = "none" /\ armed = FALSE /\ norevert = FALSE
    /\ stage \in Stages /\ err \in BOOLEAN
    /\ rpc = "down" /\ inited = FALSE /\ entered = FALSE /\ paused = FALSE
    /\ rx = NoPackage /\ shown = None /\ late = FALSE
    /\ file = {None} /\ linked = FALSE
    /\ job = [j \in Jobs |-> "none"]
    /\ pc = "idle" /\ k = 0 /\ clean = TRUE
    /\ sessions = 0 /\ packages = 0 /\ faults = 0

NoFile == {None}
Fault  == faults < MaxFaults /\ faults' = faults + 1

(* status_update *)
Status(s, e) == stage' = s /\ err' = e

(* rx_reset *)
Reset == rx' = NoPackage /\ shown' = None /\ file' = NoFile /\ linked' = FALSE
-----------------------------------------------------------------------------
(* usb_mode_ctl.sh.  A call that finds the lock taken exits and does nothing. *)
Call(m) == ctl' = IF ctl = "none" THEN m ELSE ctl

(* uvc_app's extension unit or a serial command asks for the upgrade mode *)
Trigger ==
    /\ mode = "uvc" /\ ctl = "none"
    /\ Call("upgrade")
    /\ UNCHANGED <<mode, armed, norevert, stage, err, rpc, inited, entered, paused,
                   rxvars, late, job, pcvars, counts>>

(* stop_mode: usb_receiver gets SIGTERM, leaves its loop and resets; it is
   gone before its mount is *)
StopMode ==
    /\ ctl \in {"uvc", "upgrade"}
    /\ ctl' = IF ctl = "uvc" THEN "start_uvc" ELSE "start_upgrade"
    /\ mode' = "none" /\ armed' = FALSE /\ entered' = FALSE
    /\ rpc' = "down"
    /\ IF rpc # "down" THEN Reset ELSE UNCHANGED rxvars
    /\ UNCHANGED <<norevert, stage, err, inited, paused, late, job, pcvars, counts>>

StartUvc ==
    /\ ctl = "start_uvc"
    /\ mode' = "uvc" /\ ctl' = "none" /\ norevert' = FALSE
    /\ UNCHANGED <<armed, stage, err, rpc, inited, entered, paused, rxvars, late,
                   job, pcvars, counts>>

(* a new usb_receiver, with its memory as it is at the start of main *)
StartReceiver ==
    /\ rpc' = "poll" /\ inited' = FALSE /\ paused' = FALSE /\ late' = FALSE
    /\ rx' = NoPackage /\ shown' = None /\ linked' = FALSE
    /\ pc' = "idle"
    /\ UNCHANGED <<stage, err, entered, file, job, k, clean, sessions, packages>>

StartUpgrade ==
    /\ ctl = "start_upgrade"
    /\ mode' = "upgrade" /\ ctl' = "none"
    /\ StartReceiver
    /\ armed' = TRUE /\ norevert' = FALSE
    /\ UNCHANGED faults

(* run.sh failed: the upgrade mode without a watchdog *)
FallBack ==
    /\ ctl = "start_uvc"
    /\ Fault
    /\ mode' = "upgrade" /\ ctl' = "none"
    /\ StartReceiver
    /\ armed' = FALSE /\ norevert' = TRUE

(* one of the exits of start_uvc and start_upgrade: no UDC, no directory, no
   mount, no receiver that is ready, no link, no bind. The gadget is bound as
   nothing, with a receiver that nobody reaches or with none. *)
SwitchFails ==
    /\ ctl \in {"start_uvc", "start_upgrade"}
    /\ Fault
    /\ ctl' = "none" /\ norevert' = FALSE
    /\ \/ StartReceiver
       \/ UNCHANGED <<stage, err, rpc, inited, entered, paused, rxvars, late, job,
                      pcvars, sessions, packages>>
    /\ UNCHANGED <<mode, armed>>

(* the PC asked for the upgrade mode and did not follow through *)
Watchdog ==
    /\ armed
    /\ armed' = FALSE
    /\ IF entered THEN UNCHANGED ctl ELSE Call("uvc")
    /\ UNCHANGED <<mode, norevert, stage, err, rpc, inited, entered, paused,
                   rxvars, late, job, pcvars, counts>>

Ctl == StopMode \/ StartUvc \/ StartUpgrade \/ FallBack \/ SwitchFails
-----------------------------------------------------------------------------
(* usb_receiver: the commands of the PC *)

(* the first turn of the loop is about the gadget's own events *)
Command == rpc = "poll" /\ inited /\ mode = "upgrade" /\ rpc' = "check"

EnterUpgrade ==
    /\ Command
    /\ IF stage \in {"IDLE", "FAILED"}
       THEN /\ sessions < MaxSessions /\ sessions' = sessions + 1
            /\ Reset
            /\ late' = FALSE /\ entered' = TRUE /\ paused' = TRUE
            /\ Status("RECEIVING", FALSE)
            /\ pc' = "package"
       ELSE UNCHANGED <<sessions, rxvars, late, entered, paused, stage, err, pc>>
    /\ UNCHANGED <<ctlvars, inited, job, k, clean, packages, faults>>

(* sizes, tmpfs and open are checked; an error leaves the stage as it is *)
SendPackage ==
    /\ pc = "package"
    /\ Command
    /\ packages < MaxPackages /\ packages' = packages + 1
    /\ \/ /\ stage = "RECEIVING"
          /\ \E sound \in BOOLEAN :
                rx' = [started |-> TRUE, acc |-> <<>>, sound |-> sound]
          /\ shown' = None /\ file' = {} /\ linked' = TRUE /\ late' = FALSE
          /\ pc' = "send" /\ k' = 0
          /\ UNCHANGED <<stage, err, faults>>
       \/ /\ stage = "RECEIVING"
          /\ Fault
          /\ Status("RECEIVING", TRUE)
          /\ Reset \/ UNCHANGED rxvars
          /\ UNCHANGED <<late, pc, k>>
       \/ /\ stage # "RECEIVING"
          /\ pc' = "idle"
          /\ UNCHANGED <<rxvars, late, stage, err, k, faults>>
    /\ UNCHANGED <<ctlvars, inited, entered, paused, job, clean, sessions>>

(* rx_finish_check, with what the last fragment made of rx and stage.  The CRC
   of the whole package is compared, then ota_prepare is forked. *)
CrcOk_Size(r) == Len(r.acc) = Frags      \* mutant: the size is enough
CrcOk(r) == r.acc = Whole /\ r.sound

Launch(r, s, f) ==
    \/ /\ ~CrcOk(r)
       /\ Reset /\ paused' = FALSE /\ Call("uvc")
       /\ Status("FAILED", TRUE)
       /\ UNCHANGED <<late, job, faults>>
    \/ /\ CrcOk(r)
       /\ rx' = r /\ shown' = s /\ file' = f /\ linked' = FALSE
       /\ \/ /\ Status("WAITING", FALSE)
             /\ late' = FALSE
             /\ \/ \E j \in Jobs : /\ job[j] = "none"
                                   /\ \A i \in 1..(j - 1) : job[i] # "none"
                                   /\ job' = [job EXCEPT ![j] = "start"]
                                   /\ UNCHANGED faults
                \/ Fault /\ UNCHANGED job                 \* exec fails
          \/ /\ Fault                                     \* no ota_prepare, fork
             /\ Status("FAILED", TRUE)
             /\ UNCHANGED <<job, late>>
       /\ UNCHANGED <<paused, ctl>>

(* what was accepted last comes again *)
Duplicate == k + 1 = Len(rx.acc)

(* the status file is written when the percentage changes or an error shows *)
Write_Throttled(n) == Percent[n] # shown \* mutant: whatever error shows
Write(n) == Percent[n] # shown \/ err

Accept ==
    LET r == [rx EXCEPT !.acc = Append(@, k)]
        n == Len(r.acc)
        f == IF linked THEN file \union {k} ELSE file
    IN  IF n = Frags
        THEN Launch(r, Percent[n], f)
        ELSE /\ rx' = r /\ file' = f
             /\ IF Write(n) THEN shown' = Percent[n] /\ err' = FALSE
                            ELSE UNCHANGED <<shown, err>>
             /\ UNCHANGED <<stage, linked, paused, ctl, late, job, faults>>

(* handle_send_data: a fragment that came intact *)
SendData ==
    /\ pc \in {"send", "query"}
    /\ Command
    /\ pc' = "query" /\ clean' = TRUE
    /\ IF stage = "RECEIVING" /\ rx.started /\ k = Len(rx.acc)
       THEN Accept
       ELSE /\ IF stage = "RECEIVING" /\ rx.started
               THEN err' = ~Duplicate
               ELSE UNCHANGED err
            /\ UNCHANGED <<stage, rxvars, paused, ctl, late, job, faults>>
    /\ UNCHANGED <<mode, armed, norevert, inited, entered, k, sessions, packages>>

(* one that is late or damaged, or that tmpfs does not take *)
SendDataFails ==
    /\ pc \in {"send", "query"}
    /\ Command
    /\ stage = "RECEIVING" /\ rx.started
    /\ Fault
    /\ pc' = "query" /\ clean' = FALSE
    /\ err' = TRUE
    /\ stage' \in IF k = Len(rx.acc) THEN {"RECEIVING", "FAILED"} ELSE {"RECEIVING"}
    /\ UNCHANGED <<ctlvars, inited, entered, paused, rxvars, late, job, k,
                   sessions, packages>>

(* CMD_QUERY_STATUS: on an error the same fragment again, else the next *)
Query ==
    /\ pc = "query"
    /\ Command
    /\ IF stage # "RECEIVING"
       THEN pc' = "idle" /\ UNCHANGED k
       ELSE pc' = "send" /\ k' = IF err THEN k ELSE k + 1
    /\ UNCHANGED <<ctlvars, stage, err, inited, entered, paused, rxvars, late,
                   job, clean, counts>>

(* rx_abort_to_idle *)
Abort(e) ==
    /\ Reset
    /\ paused' = FALSE /\ Call("uvc")
    /\ Status("IDLE", e)

ExitUpgrade ==
    /\ Command
    /\ stage = "RECEIVING"
    /\ Abort(FALSE)
    /\ pc' = "idle"
    /\ UNCHANGED <<mode, armed, norevert, inited, entered, late, job, k, clean, counts>>

(* cmd_check: a PC of another protocol version *)
Mismatch ==
    /\ pc = "package"
    /\ Command
    /\ Status("FAILED", TRUE)
    /\ pc' = "idle"
    /\ UNCHANGED <<ctlvars, inited, entered, paused, rxvars, late, job, k, clean, counts>>

Pc == EnterUpgrade \/ SendPackage \/ SendData \/ SendDataFails \/ Query
      \/ ExitUpgrade \/ Mismatch
-----------------------------------------------------------------------------
(* usb_receiver: the end of the loop, also reached when poll times out *)

(* status_boot_init takes whatever stage it finds at its start for stale *)
Stage == IF inited THEN stage ELSE "IDLE"

(* the camera applications were stopped for a session that failed *)
Deserted_Never == FALSE                  \* mutant: they stay stopped
Deserted == Stage = "FAILED" /\ paused

(* check_total_timeout *)
Check ==
    /\ rpc \in {"poll", "check"}
    /\ rpc' = "poll" /\ inited' = TRUE
    /\ \/ /\ Deserted
          /\ paused' = FALSE /\ Call("uvc")
          /\ UNCHANGED <<stage, err, rxvars, late>>
       \/ /\ Stage = "WAITING" /\ late
          /\ Status("FAILED", TRUE) /\ late' = FALSE
          /\ UNCHANGED <<rxvars, paused, ctl>>
       \/ /\ Stage = "RECEIVING" /\ late
          /\ Abort(TRUE)
          /\ UNCHANGED late
       \/ /\ ~Deserted
          /\ ~(Stage \in {"WAITING", "RECEIVING"} /\ late)
          /\ stage' = Stage
          /\ UNCHANGED <<err, rxvars, late, paused, ctl>>
    /\ UNCHANGED <<mode, armed, norevert, entered, job, pcvars, counts>>

(* poll fails: the loop ends and main cleans up, the mark of a session stays *)
ReceiverDies ==
    /\ rpc = "poll"
    /\ Fault
    /\ rpc' = "down"
    /\ Reset
    /\ UNCHANGED <<ctlvars, stage, err, inited, entered, paused, late, job, pcvars,
                   sessions, packages>>

(* 120 s are enough for ota_prepare to start *)
Time ==
    /\ ~late /\ rpc # "down"
    /\ \/ stage = "RECEIVING"
       \/ stage = "WAITING" /\ \A j \in Jobs : job[j] # "start"
    /\ late' = TRUE
    /\ UNCHANGED <<ctlvars, stage, err, rpc, inited, entered, paused, rxvars, job,
                   pcvars, counts>>
-----------------------------------------------------------------------------
(* ota_prepare *)

OtaUnchanged == UNCHANGED <<ctlvars, rpc, inited, entered, paused, rx, shown,
                            late, pcvars, sessions, packages>>

OtaStep(j, from, to, s) ==
    /\ job[j] = from
    /\ job' = [job EXCEPT ![j] = to]
    /\ Status(s, FALSE)
    /\ UNCHANGED <<file, linked, faults>>
    /\ OtaUnchanged

OtaStart(j) == OtaStep(j, "start", "verify", "VERIFYING")
OtaVerified(j) == file = Fragment /\ OtaStep(j, "verify", "volume", "FLASHING")
OtaStored(j) == file # NoFile /\ OtaStep(j, "volume", "flag", "FLASHING")
\* mutant: the stage of a success that only the next boot can report
OtaFlagged_Success(j) == OtaStep(j, "flag", "reboot", "SUCCESS")
OtaFlagged(j) == OtaStep(j, "flag", "reboot", "SWITCHING")

(* OTA_FAIL: the package does not verify or has gone, or a call fails *)
OtaFails(j) ==
    /\ job[j] \in {"verify", "volume", "flag"}
    /\ IF \/ job[j] = "verify" /\ file # Fragment
          \/ job[j] = "volume" /\ file = NoFile
       THEN UNCHANGED faults ELSE Fault
    /\ job' = [job EXCEPT ![j] = "unlink"]
    /\ Status("FAILED", TRUE)
    /\ UNCHANGED <<file, linked>>
    /\ OtaUnchanged

(* after the status, by its name: the file may be another one by now *)
OtaUnlink(j) ==
    /\ job[j] = "unlink"
    /\ job' = [job EXCEPT ![j] = "done"]
    /\ file' = NoFile /\ linked' = FALSE
    /\ UNCHANGED <<stage, err, faults>>
    /\ OtaUnchanged

(* reboot(RB_AUTOBOOT): what is left is the status file *)
OtaReboots(j) ==
    /\ job[j] = "reboot"
    /\ mode' = "uvc" /\ ctl' = "none" /\ armed' = FALSE /\ norevert' = FALSE
    /\ rpc' = "down" /\ inited' = FALSE /\ entered' = FALSE /\ paused' = FALSE
    /\ rx' = NoPackage /\ shown' = None /\ late' = FALSE
    /\ file' = NoFile /\ linked' = FALSE
    /\ job' = [i \in Jobs |-> IF job[i] = "none" THEN "none" ELSE "done"]
    /\ pc' = "idle"
    /\ UNCHANGED <<stage, err, k, clean, counts>>

(* it fails, and the user has to do it *)
OtaStuck(j) ==
    /\ job[j] = "reboot"
    /\ Fault
    /\ job' = [job EXCEPT ![j] = "by hand"]
    /\ Status("SWITCHING", FALSE)
    /\ UNCHANGED <<file, linked>>
    /\ OtaUnchanged

Ota(j) == OtaStart(j) \/ OtaVerified(j) \/ OtaStored(j) \/ OtaFlagged(j)
          \/ OtaFails(j) \/ OtaUnlink(j) \/ OtaReboots(j) \/ OtaStuck(j)
-----------------------------------------------------------------------------
(* outside the camera mode with no receiver and no switch under way: what is left
   is ota_prepare, a watchdog, or the user *)
Stranded == mode # "uvc" /\ rpc = "down" /\ ctl = "none" /\ UNCHANGED vars

Next == Trigger \/ Ctl \/ Watchdog \/ Pc \/ Check \/ ReceiverDies \/ Time
        \/ (\E j \in Jobs : Ota(j)) \/ Stranded

(* The processes of the device are scheduled and time passes.  Nothing is
   assumed of the PC, and nothing has to fail. *)
Spec == Init /\ [][Next]_vars
        /\ WF_vars(Ctl) /\ WF_vars(Watchdog) /\ WF_vars(Time)
        /\ WF_vars(Check) /\ \A j \in Jobs : WF_vars(Ota(j))
-----------------------------------------------------------------------------
Packages == [started: BOOLEAN, acc: Seq(Fragment), sound: BOOLEAN]
Images   == {NoFile} \union SUBSET Fragment
JobStates == {"none", "start", "verify", "volume", "flag", "reboot", "unlink", "done",
              "by hand"}

TypeOK ==
    /\ mode \in {"uvc", "upgrade", "none"}
    /\ ctl \in {"none", "uvc", "upgrade", "start_uvc", "start_upgrade"}
    /\ armed \in BOOLEAN /\ norevert \in BOOLEAN
    /\ stage \in Stages /\ err \in BOOLEAN
    /\ rpc \in {"down", "poll", "check"}
    /\ inited \in BOOLEAN /\ entered \in BOOLEAN /\ paused \in BOOLEAN
    /\ rx \in Packages /\ Len(rx.acc) <= Frags
    /\ shown \in Nat \union {None} /\ late \in BOOLEAN
    /\ file \in Images /\ linked \in BOOLEAN
    /\ job \in [Jobs -> JobStates]
    /\ pc \in {"idle", "package", "send", "query"}
    /\ k \in Fragment /\ clean \in BOOLEAN
    /\ sessions \in 0..MaxSessions /\ packages \in 0..MaxPackages
    /\ faults \in 0..MaxFaults

(* What ota_prepare is started for is the announced package, every fragment of
   it once and in order, however often fragments were lost, damaged or sent
   again; or nothing, when an ota_prepare that fails unlinks the file of the
   next session. *)
LaunchesWhole ==
    [][\A j \in Jobs : job[j] = "none" /\ job'[j] = "start" =>
          /\ rx'.acc = Whole /\ rx'.sound
          /\ file' \in {Fragment, NoFile}]_vars

(* The PC has no other answer to a fragment than the error code of the status
   file, which is written at most once per percent: no error is shown if, and
   only if, the fragment just sent was taken, so that the PC neither skips a
   fragment nor repeats one for ever. *)
StatusTellsTheTruth ==
    pc = "query" /\ rpc # "down" /\ stage = "RECEIVING" /\ rx.started =>
        /\ err = ~clean
        /\ ~err => Len(rx.acc) = k + 1

(* "UVC keeps working when not upgrading": whatever the PC does or stops doing,
   and whether the package, ota_prepare or the reboot fails, the device leaves the
   upgrade mode by itself.  Four ends are left, all of a failing call: the camera
   could not be started (norevert), the reboot has to be made by hand, the mode
   switch itself failed (NoGadget), and the receiver died in a session, whose mark
   silences the watchdog (NoReceiver). *)
ByHand     == \E j \in Jobs : job[j] = "by hand"
NoGadget   == mode = "none" /\ ctl = "none"
NoReceiver == mode = "upgrade" /\ rpc = "down" /\ entered /\ ctl = "none"
CameraComesBack ==
    mode = "upgrade" ~> (mode = "uvc" \/ norevert \/ ByHand \/ NoGadget \/ NoReceiver)
=============================================================================
