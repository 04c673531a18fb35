-------------------------- MODULE UsbUpgradeProofs --------------------------
(***************************************************************************)
(* UsbUpgrade proved for every number of fragments, sessions, packages and  *)
(* faults: the PC is told the truth about each fragment, and nothing but    *)
(* the whole package is given to ota_prepare.                               *)
(***************************************************************************)
EXTENDS UsbUpgrade, SequenceTheorems, TLAPS

\* The receiver runs and takes a package.
Up == rpc # "down" /\ stage = "RECEIVING"
Taking == Up /\ rx.started

\* What has been received is the beginning of the package, and not all of it while more is
\* awaited; upgrade.img holds it, unless an older ota_prepare has unlinked it.
IReceived ==
    /\ \A n \in 1 .. Len(rx.acc) : rx.acc[n] = n - 1
    /\ Up => Len(rx.acc) < Frags
    /\ linked => file = 0 .. Len(rx.acc) - 1
    /\ ~linked /\ Taking => file = NoFile

\* The PC is at the fragment that is due, or at the one before it.
ITogether ==
    /\ pc \in {"send", "query"} /\ Up => rx.started /\ k \in {Len(rx.acc) - 1, Len(rx.acc)}
    /\ pc = "query" /\ Up => err = ~clean
    /\ pc = "query" /\ Up /\ ~err => Len(rx.acc) = k + 1

IInv == TypeOK /\ IReceived /\ ITogether

\* The types in three parts.
TControl ==
    /\ mode \in {"uvc", "upgrade", "none"}
    /\ ctl \in {"none", "uvc", "upgrade", "start_uvc", "start_upgrade"}
    /\ armed \in BOOLEAN /\ norevert \in BOOLEAN
    /\ stage \in Stages /\ err \in BOOLEAN
    /\ rpc \in {"down", "poll", "check"}
    /\ inited \in BOOLEAN /\ entered \in BOOLEAN /\ paused \in BOOLEAN /\ late \in BOOLEAN
TReceiver ==
    /\ rx \in Packages /\ Len(rx.acc) <= Frags
    /\ shown \in Nat \union {None}
    /\ file \in Images /\ linked \in BOOLEAN
TSender ==
    /\ pc \in {"idle", "package", "send", "query"}
    /\ k \in Fragment /\ clean \in BOOLEAN
    /\ job \in [Jobs -> JobStates]
    /\ sessions \in 0..MaxSessions /\ packages \in 0..MaxPackages
    /\ faults \in 0..MaxFaults

LEMMA Typed == TypeOK <=> TControl /\ TReceiver /\ TSender
  BY DEF TypeOK, TControl, TReceiver, TSender

LEMMA TypedNext == TypeOK' <=> TControl' /\ TReceiver' /\ TSender'
  BY DEF TypeOK, TControl, TReceiver, TSender

\* The bounds of the faults, and the lengths of what is received.
LEMMA FaultsBound ==
    ASSUME TypeOK, Fault \/ UNCHANGED faults
    PROVE  faults' \in 0 .. MaxFaults
<1>1. faults \in 0 .. MaxFaults
  BY Typed DEF TSender
<1> QED
  BY <1>1, UsbAssumption DEF Fault

LEMMA CallTyped ==
    ASSUME TypeOK, NEW m \in {"uvc", "upgrade"}, Call(m)
    PROVE  ctl' \in {"none", "uvc", "upgrade", "start_uvc", "start_upgrade"}
  BY Typed DEF TControl, Call

LEMMA JobBound ==
    ASSUME TypeOK, NEW j \in Jobs, NEW s \in JobStates
    PROVE  [job EXCEPT ![j] = s] \in [Jobs -> JobStates]
  BY Typed DEF TSender

LEMMA Lengths ==
    ASSUME TypeOK
    PROVE  /\ rx.acc \in Seq(Fragment) /\ Len(rx.acc) \in Nat /\ Len(rx.acc) <= Frags
           /\ rx.started \in BOOLEAN /\ rx.sound \in BOOLEAN /\ rx \in Packages
           /\ k \in Fragment /\ k \in Nat
<1>1. rx \in Packages /\ Len(rx.acc) <= Frags /\ k \in Fragment
  BY Typed DEF TReceiver, TSender
<1>2. rx.acc \in Seq(Fragment) /\ rx.started \in BOOLEAN /\ rx.sound \in BOOLEAN
  BY <1>1 DEF Packages
<1>3. Len(rx.acc) \in Nat
  BY <1>2, LenProperties
<1> QED
  BY <1>1, <1>2, <1>3 DEF Fragment

\* What rx_reset leaves is well formed.
LEMMA ResetRx ==
    /\ NoPackage \in Packages
    /\ NoPackage.acc = <<>> /\ Len(NoPackage.acc) = 0 /\ ~NoPackage.started
    /\ 0 <= Frags /\ 0 < Frags /\ 0 \in Fragment
    /\ NoFile \in Images /\ {} \in Images
<1>1. <<>> \in Seq(Fragment) /\ Len(<<>>) = 0
  BY EmptySeq
<1>2. NoPackage.acc = <<>> /\ ~NoPackage.started
  BY DEF NoPackage
<1> QED
  BY <1>1, <1>2, UsbAssumption DEF NoPackage, Packages, Images, Fragment

\* A step of no consequence to what is received.
LEMMA SameIInv ==
    ASSUME IInv, TypeOK', UNCHANGED <<rx, file, linked>>, Up' => Up,
           pc' \in {"send", "query"} /\ Up' => UNCHANGED <<pc, k, clean, err>>
    PROVE  IInv'
  BY DEF IInv, IReceived, ITogether, Taking

\* A step that resets the receiver or leaves it at another stage.
LEMMA ResetIInv ==
    ASSUME TypeOK', rx' = NoPackage, ~linked', Up' => pc' \notin {"send", "query"}
    PROVE  IInv'
  BY ResetRx DEF IInv, IReceived, ITogether, Taking

LEMMA InitIInv == Init => IInv
<1> SUFFICES ASSUME Init PROVE IInv
  OBVIOUS
<1>1. TypeOK
  <2>1. TControl
    BY DEF Init, TControl
  <2>2. TReceiver
    BY ResetRx DEF Init, TReceiver, NoFile
  <2>3. TSender
    BY ResetRx, UsbAssumption DEF Init, TSender, JobStates
  <2> QED
    BY <2>1, <2>2, <2>3, Typed
<1> QED
  BY <1>1, ResetRx DEF Init, IInv, IReceived, ITogether, Taking, Up

-----------------------------------------------------------------------------
(* The scripts and the clock.                                              *)

LEMMA TriggerIInv == IInv /\ Trigger => IInv'
<1> SUFFICES ASSUME IInv, Trigger PROVE IInv'
  OBVIOUS
<1>1. TypeOK'
  BY DEF IInv, TypeOK, Trigger, Call, rxvars, pcvars, counts
<1> QED
  BY <1>1, SameIInv DEF Trigger, Up, rxvars, pcvars

LEMMA StopModeIInv == IInv /\ StopMode => IInv'
<1> SUFFICES ASSUME IInv, StopMode PROVE IInv'
  OBVIOUS
<1>1. ~Up'
  BY DEF StopMode, Up
<1>2. CASE rpc # "down"
  <2>1. Reset
    BY <1>2 DEF StopMode
  <2>2. TypeOK'
    BY <2>1, ResetRx DEF IInv, TypeOK, StopMode, Reset, pcvars, counts
  <2> QED
    BY <1>1, <2>1, <2>2, ResetIInv DEF Reset
<1>3. CASE rpc = "down"
  <2>1. TypeOK'
    <3>1. TControl'
      BY Typed DEF IInv, TControl, StopMode
    <3>2. TReceiver'
      BY <1>3, Typed DEF IInv, TReceiver, StopMode, rxvars
    <3>3. TSender'
      BY Typed DEF IInv, TSender, StopMode, pcvars, counts
    <3> QED
      BY <3>1, <3>2, <3>3, TypedNext
  <2> QED
    BY <1>1, <1>3, <2>1, SameIInv DEF StopMode, rxvars
<1> QED
  BY <1>2, <1>3

LEMMA StartUvcIInv == IInv /\ StartUvc => IInv'
<1> SUFFICES ASSUME IInv, StartUvc PROVE IInv'
  OBVIOUS
<1>1. TypeOK'
  <2>1. TControl'
    BY Typed DEF IInv, TControl, StartUvc
  <2>2. TReceiver'
    BY Typed DEF IInv, TReceiver, StartUvc, rxvars
  <2>3. TSender'
    BY Typed DEF IInv, TSender, StartUvc, pcvars, counts
  <2> QED
    BY <2>1, <2>2, <2>3, TypedNext
<1> QED
  BY <1>1, SameIInv DEF StartUvc, Up, rxvars, pcvars

LEMMA StartReceiverIInv == IInv /\ (StartUpgrade \/ FallBack) => IInv'
<1> SUFFICES ASSUME IInv, StartUpgrade \/ FallBack PROVE IInv'
  OBVIOUS
<1>1. StartReceiver
  BY DEF StartUpgrade, FallBack
<1>2. faults' \in 0 .. MaxFaults
  BY FaultsBound DEF StartUpgrade, FallBack, IInv
<1>3. TypeOK'
  BY <1>1, <1>2, ResetRx DEF IInv, TypeOK, StartUpgrade, FallBack, StartReceiver
<1> QED
  BY <1>1, <1>3, ResetIInv DEF StartReceiver

LEMMA SwitchFailsIInv == IInv /\ SwitchFails => IInv'
<1> SUFFICES ASSUME IInv, SwitchFails PROVE IInv'
  OBVIOUS
<1>1. /\ faults' \in 0 .. MaxFaults
      /\ ctl' = "none" /\ norevert' = FALSE /\ UNCHANGED <<mode, armed>>
  BY FaultsBound DEF SwitchFails, IInv
<1>2. CASE StartReceiver
  <2>1. TypeOK'
    <3>1. TControl'
      BY <1>1, <1>2, Typed DEF IInv, TControl, StartReceiver
    <3>2. TReceiver'
      BY <1>2, ResetRx, Typed DEF IInv, TReceiver, StartReceiver
    <3>3. TSender'
      BY <1>1, <1>2, Typed DEF IInv, TSender, StartReceiver
    <3> QED
      BY <3>1, <3>2, <3>3, TypedNext
  <2> QED
    BY <1>2, <2>1, ResetIInv DEF StartReceiver
<1>3. CASE UNCHANGED <<stage, err, rpc, inited, entered, paused, rxvars, late, job,
                       pcvars, sessions, packages>>
  <2>1. TypeOK'
    <3>1. TControl'
      BY <1>1, <1>3, Typed DEF IInv, TControl
    <3>2. TReceiver'
      BY <1>3, Typed DEF IInv, TReceiver, rxvars
    <3>3. TSender'
      BY <1>1, <1>3, Typed DEF IInv, TSender, pcvars
    <3> QED
      BY <3>1, <3>2, <3>3, TypedNext
  <2> QED
    BY <1>3, <2>1, SameIInv DEF Up, rxvars, pcvars
<1> QED
  BY <1>2, <1>3 DEF SwitchFails

LEMMA ReceiverDiesIInv == IInv /\ ReceiverDies => IInv'
<1> SUFFICES ASSUME IInv, ReceiverDies PROVE IInv'
  OBVIOUS
<1>1. faults' \in 0 .. MaxFaults
  BY FaultsBound DEF ReceiverDies, IInv
<1>2. TypeOK'
  <2>1. TControl'
    BY Typed DEF IInv, TControl, ReceiverDies, ctlvars
  <2>2. TReceiver'
    BY ResetRx DEF TReceiver, ReceiverDies, Reset
  <2>3. TSender'
    BY <1>1, Typed DEF IInv, TSender, ReceiverDies, pcvars
  <2> QED
    BY <2>1, <2>2, <2>3, TypedNext
<1> QED
  BY <1>2, ResetIInv DEF ReceiverDies, Reset, Up

LEMMA WatchdogIInv == IInv /\ Watchdog => IInv'
<1> SUFFICES ASSUME IInv, Watchdog PROVE IInv'
  OBVIOUS
<1>1. TypeOK'
  <2>1. TControl'
    <3>1. ctl' \in {"none", "uvc", "upgrade", "start_uvc", "start_upgrade"}
      BY CallTyped, Typed DEF IInv, TControl, Watchdog
    <3> QED
      BY <3>1, Typed DEF IInv, TControl, Watchdog
  <2>2. TReceiver'
    BY Typed DEF IInv, TReceiver, Watchdog, rxvars
  <2>3. TSender'
    BY Typed DEF IInv, TSender, Watchdog, pcvars, counts
  <2> QED
    BY <2>1, <2>2, <2>3, TypedNext
<1> QED
  BY <1>1, SameIInv DEF Watchdog, Up, rxvars, pcvars

LEMMA TimeIInv == IInv /\ Time => IInv'
<1> SUFFICES ASSUME IInv, Time PROVE IInv'
  OBVIOUS
<1>1. TypeOK'
  BY DEF IInv, TypeOK, Time, ctlvars, rxvars, pcvars, counts
<1> QED
  BY <1>1, SameIInv DEF Time, Up, rxvars, pcvars

LEMMA CheckIInv == IInv /\ Check => IInv'
<1> SUFFICES ASSUME IInv, Check PROVE IInv'
  OBVIOUS
<1>1. CASE UNCHANGED rxvars
  <2>1. Up' => Up /\ err' = err
    BY <1>1 DEF Check, Up, Deserted, Stage, Abort, Status
  <2>2. TypeOK'
    <3>1. TControl'
      <4>1. ctl' \in {"none", "uvc", "upgrade", "start_uvc", "start_upgrade"}
        BY CallTyped, Typed DEF IInv, TControl, Check, Abort
      <4>2. /\ stage' \in Stages /\ err' \in BOOLEAN
            /\ late' \in BOOLEAN /\ paused' \in BOOLEAN
        BY <1>1, Typed DEF IInv, TControl, Check, Stage, Abort, Status, Stages
      <4> QED
        BY <4>1, <4>2, Typed DEF IInv, TControl, Check
    <3>2. TReceiver'
      BY <1>1, Typed DEF IInv, TReceiver, rxvars
    <3>3. TSender'
      BY Typed DEF IInv, TSender, Check, pcvars, counts
    <3> QED
      BY <3>1, <3>2, <3>3, TypedNext
  <2> QED
    BY <1>1, <2>1, <2>2, SameIInv DEF Check, rxvars, pcvars
<1>2. CASE Abort(TRUE)
  <2>1. ~Up'
    BY <1>2 DEF Abort, Status, Up
  <2>2. TypeOK'
    <3>1. TControl'
      BY <1>2, CallTyped, Typed DEF IInv, TControl, Check, Abort, Status, Stages
    <3>2. TReceiver'
      BY <1>2, ResetRx DEF TReceiver, Abort, Reset
    <3>3. TSender'
      BY Typed DEF IInv, TSender, Check, pcvars, counts
    <3> QED
      BY <3>1, <3>2, <3>3, TypedNext
  <2> QED
    BY <1>2, <2>1, <2>2, ResetIInv DEF Abort, Reset
<1> QED
  BY <1>1, <1>2 DEF Check

-----------------------------------------------------------------------------
(* The commands of the PC.                                                 *)

LEMMA EnterUpgradeIInv == IInv /\ EnterUpgrade => IInv'
<1> SUFFICES ASSUME IInv, EnterUpgrade PROVE IInv'
  OBVIOUS
<1>1. CASE stage \in {"IDLE", "FAILED"}
  <2>1. sessions' \in 0 .. MaxSessions
    BY <1>1, UsbAssumption DEF EnterUpgrade, IInv, TypeOK
  <2>2. TypeOK'
    BY <1>1, <2>1, ResetRx
    DEF IInv, TypeOK, EnterUpgrade, Command, Reset, Status, Stages, ctlvars
  <2> QED
    BY <1>1, <2>2, ResetIInv DEF EnterUpgrade, Reset
<1>2. CASE stage \notin {"IDLE", "FAILED"}
  <2>1. TypeOK'
    BY <1>2 DEF IInv, TypeOK, EnterUpgrade, Command, ctlvars, rxvars
  <2> QED
    BY <1>2, <2>1, SameIInv DEF EnterUpgrade, Command, Up, rxvars
<1> QED
  BY <1>1, <1>2

LEMMA SendPackageIInv == IInv /\ SendPackage => IInv'
<1> SUFFICES ASSUME IInv, SendPackage PROVE IInv'
  OBVIOUS
<1>1. /\ packages' \in 0 .. MaxPackages /\ rpc' = "check" /\ pc = "package" /\ rpc = "poll"
      /\ UNCHANGED <<ctlvars, inited, entered, paused, job, clean, sessions>>
  BY UsbAssumption DEF SendPackage, Command, IInv, TypeOK
<1>2. CASE /\ stage = "RECEIVING"
           /\ \E sound \in BOOLEAN :
                 rx' = [started |-> TRUE, acc |-> <<>>, sound |-> sound]
           /\ shown' = None /\ file' = {} /\ linked' = TRUE /\ late' = FALSE
           /\ pc' = "send" /\ k' = 0
           /\ UNCHANGED <<stage, err, faults>>
  <2>1. /\ rx'.acc = <<>> /\ Len(rx'.acc) = 0 /\ rx'.started
        /\ rx' \in Packages
    BY <1>2, EmptySeq DEF Packages
  <2>2. TypeOK'
    <3>1. TControl'
      BY <1>1, <1>2, Typed DEF IInv, TControl, ctlvars
    <3>2. TReceiver'
      BY <1>2, <2>1, ResetRx DEF TReceiver
    <3>3. TSender'
      BY <1>1, <1>2, ResetRx, Typed DEF IInv, TSender
    <3> QED
      BY <3>1, <3>2, <3>3, TypedNext
  <2>3. 0 .. Len(rx'.acc) - 1 = {}
    BY <2>1
  <2> QED
    BY <1>2, <2>1, <2>2, <2>3, ResetRx DEF IInv, IReceived, ITogether, Taking, Up
<1>3. CASE /\ stage = "RECEIVING"
           /\ Fault
           /\ Status("RECEIVING", TRUE)
           /\ Reset \/ UNCHANGED rxvars
           /\ UNCHANGED <<late, pc, k>>
  <2>1. faults' \in 0 .. MaxFaults
    BY <1>3, UsbAssumption DEF Fault, IInv, TypeOK
  <2>2. TypeOK'
    <3>1. TControl'
      BY <1>1, <1>3, Typed DEF IInv, TControl, Status, Stages, ctlvars
    <3>2. TReceiver'
      BY <1>3, ResetRx, Typed DEF IInv, TReceiver, Reset, rxvars
    <3>3. TSender'
      BY <1>1, <1>3, <2>1, Typed DEF IInv, TSender
    <3> QED
      BY <3>1, <3>2, <3>3, TypedNext
  <2>3. CASE Reset
    BY <1>1, <1>3, <2>2, <2>3, ResetIInv DEF Reset
  <2>4. CASE UNCHANGED rxvars
    BY <1>1, <1>3, <2>2, <2>4, SameIInv DEF rxvars, Up
  <2> QED
    BY <1>3, <2>3, <2>4
<1>4. CASE /\ stage # "RECEIVING"
           /\ pc' = "idle"
           /\ UNCHANGED <<rxvars, late, stage, err, k, faults>>
  <2>1. TypeOK'
    BY <1>1, <1>4 DEF IInv, TypeOK, ctlvars, rxvars
  <2> QED
    BY <1>4, <2>1, SameIInv DEF rxvars, Up
<1> QED
  BY <1>2, <1>3, <1>4 DEF SendPackage

\* What one more fragment makes of the package.
Longer == [rx EXCEPT !.acc = Append(@, k)]
Grown  == IF linked THEN file \union {k} ELSE file

LEMMA OneMore ==
    ASSUME IInv, Taking, k = Len(rx.acc)
    PROVE  /\ Longer \in Packages
           /\ Len(Longer.acc) = Len(rx.acc) + 1 /\ Len(Longer.acc) <= Frags
           /\ Len(Longer.acc) \in 0 .. Frags /\ Len(Longer.acc) = k + 1
           /\ Longer.started
           /\ \A n \in 1 .. Len(Longer.acc) : Longer.acc[n] = n - 1
           /\ IF linked THEN Grown = 0 .. Len(Longer.acc) - 1 ELSE Grown = NoFile
           /\ Grown \in Images
<1>1. /\ rx \in Packages /\ k \in Fragment
      /\ rx.acc \in Seq(Fragment) /\ Len(rx.acc) \in Nat
  BY Lengths DEF IInv
<1>2. Longer.acc = Append(rx.acc, k) /\ Longer.started = rx.started /\ Longer.sound = rx.sound
  BY <1>1 DEF Longer
<1>3. /\ Append(rx.acc, k) \in Seq(Fragment) /\ Len(Append(rx.acc, k)) = Len(rx.acc) + 1
      /\ \A n \in 1 .. Len(rx.acc) : Append(rx.acc, k)[n] = rx.acc[n]
      /\ Append(rx.acc, k)[Len(rx.acc) + 1] = k
  BY <1>1, AppendProperties
<1>4. Longer \in Packages
  BY <1>1, <1>3 DEF Longer, Packages
<1>5. Len(rx.acc) < Frags /\ Frags \in Nat
  BY UsbAssumption DEF IInv, IReceived, Taking
<1>6. \A n \in 1 .. Len(Longer.acc) : Longer.acc[n] = n - 1
  <2> SUFFICES ASSUME NEW n \in 1 .. Len(rx.acc) + 1
               PROVE  Append(rx.acc, k)[n] = n - 1
    BY <1>2, <1>3
  <2>1. CASE n = Len(rx.acc) + 1
    BY <1>1, <1>3, <2>1
  <2>2. CASE n # Len(rx.acc) + 1
    <3>1. n \in 1 .. Len(rx.acc)
      BY <1>1, <2>2
    <3> QED
      BY <1>3, <3>1 DEF IInv, IReceived
  <2> QED
    BY <2>1, <2>2
<1>7. IF linked THEN Grown = 0 .. Len(Longer.acc) - 1 ELSE Grown = NoFile
  <2>1. CASE linked
    <3>1. Grown = (0 .. Len(rx.acc) - 1) \cup {Len(rx.acc)}
      BY <2>1 DEF Grown, IInv, IReceived
    <3> QED
      BY <1>1, <1>2, <1>3, <2>1, <3>1
  <2>2. CASE ~linked
    BY <2>2 DEF Grown, IInv, IReceived
  <2> QED
    BY <2>1, <2>2
<1>8. 0 .. Len(Longer.acc) - 1 \subseteq Fragment
  BY <1>1, <1>2, <1>3, <1>5 DEF Fragment
<1>9. Grown \in Images
  <2>1. CASE linked
    BY <1>7, <1>8, <2>1 DEF Images
  <2>2. CASE ~linked
    BY <1>7, <2>2 DEF Images
  <2> QED
    BY <2>1, <2>2
<1>10. /\ Len(Longer.acc) = Len(rx.acc) + 1 /\ Len(Longer.acc) <= Frags
       /\ Len(Longer.acc) \in 0 .. Frags /\ Len(Longer.acc) = k + 1
  BY <1>1, <1>2, <1>3, <1>5
<1> QED
  BY <1>2, <1>4, <1>6, <1>7, <1>9, <1>10 DEF Taking

\* The last fragment ends the taking.
LEMMA LaunchIInv ==
    ASSUME IInv, Taking, k = Len(rx.acc), SendData,
           Launch(Longer, Percent[Len(Longer.acc)], Grown)
    PROVE  IInv'
<1>1. /\ rpc' = "check" /\ pc' = "query" /\ clean' = TRUE
      /\ UNCHANGED <<mode, armed, norevert, inited, entered, k, sessions, packages>>
  BY DEF SendData, Command
<1>2. Percent[Len(Longer.acc)] \in Nat
  BY OneMore, UsbAssumption
<1>3. CASE /\ Reset /\ paused' = FALSE /\ Call("uvc")
           /\ Status("FAILED", TRUE)
           /\ UNCHANGED <<late, job, faults>>
  <2>1. TypeOK'
    <3>1. TControl'
      BY <1>1, <1>3, CallTyped, Typed DEF IInv, TControl, Status, Stages
    <3>2. TReceiver'
      BY <1>3, ResetRx DEF TReceiver, Reset
    <3>3. TSender'
      BY <1>1, <1>3, Typed DEF IInv, TSender
    <3> QED
      BY <3>1, <3>2, <3>3, TypedNext
  <2>2. ~Up'
    BY <1>3 DEF Status, Up
  <2> QED
    BY <1>3, <2>1, <2>2, ResetIInv DEF Reset
<1>4. CASE /\ rx' = Longer /\ shown' = Percent[Len(Longer.acc)] /\ file' = Grown
           /\ linked' = FALSE
           /\ \/ /\ Status("WAITING", FALSE)
                 /\ late' = FALSE
                 /\ \/ \E j \in Jobs : /\ job[j] = "none"
                                       /\ \A i \in 1..(j - 1) : job[i] # "none"
                                       /\ job' = [job EXCEPT ![j] = "start"]
                                       /\ UNCHANGED faults
                    \/ Fault /\ UNCHANGED job
              \/ /\ Fault
                 /\ Status("FAILED", TRUE)
                 /\ UNCHANGED <<job, late>>
           /\ UNCHANGED <<paused, ctl>>
  <2>1. faults' \in 0 .. MaxFaults
    BY <1>4, FaultsBound DEF IInv
  <2>2. job' \in [Jobs -> JobStates]
    BY <1>4, JobBound, Typed DEF IInv, TSender, JobStates
  <2>3. stage' \in {"WAITING", "FAILED"} /\ err' \in BOOLEAN /\ late' \in BOOLEAN
    BY <1>4, Typed DEF Status, IInv, TControl
  <2>4. TypeOK'
    <3>1. TControl'
      BY <1>1, <1>4, <2>3, Typed DEF IInv, TControl, Stages
    <3>2. TReceiver'
      BY <1>2, <1>4, OneMore DEF TReceiver
    <3>3. TSender'
      BY <1>1, <2>1, <2>2, Typed DEF IInv, TSender
    <3> QED
      BY <3>1, <3>2, <3>3, TypedNext
  <2>5. ~Up'
    BY <2>3 DEF Up
  <2> QED
    BY <1>4, <2>4, <2>5, OneMore DEF IInv, IReceived, ITogether, Taking
<1> QED
  BY <1>3, <1>4 DEF Launch

\* Any other is shown to the PC as taken.
LEMMA AcceptIInv ==
    ASSUME IInv, Taking, k = Len(rx.acc), SendData, Accept
    PROVE  IInv'
<1>1. /\ rpc' = "check" /\ pc' = "query" /\ clean' = TRUE
      /\ UNCHANGED <<mode, armed, norevert, inited, entered, k, sessions, packages>>
  BY DEF SendData, Command
<1>2. CASE Len(Longer.acc) = Frags
  <2>1. Launch(Longer, Percent[Len(Longer.acc)], Grown)
    BY <1>2 DEF Accept, Longer, Grown
  <2> QED
    BY <2>1, LaunchIInv
<1>3. CASE Len(Longer.acc) # Frags
  <2>1. /\ rx' = Longer /\ file' = Grown
        /\ IF Write(Len(Longer.acc)) THEN shown' = Percent[Len(Longer.acc)] /\ err' = FALSE
                                     ELSE UNCHANGED <<shown, err>>
        /\ UNCHANGED <<stage, linked, paused, ctl, late, job, faults>>
    BY <1>3 DEF Accept, Longer, Grown
  <2>2. err' = FALSE
    BY <2>1 DEF Write, IInv, TypeOK
  <2>3. shown' \in Nat \union {None}
    BY <2>1, OneMore, UsbAssumption DEF IInv, TypeOK
  <2>4. TypeOK'
    <3>1. TControl'
      BY <1>1, <2>1, <2>2, Typed DEF IInv, TControl
    <3>2. TReceiver'
      BY <2>1, <2>3, OneMore, Typed DEF IInv, TReceiver
    <3>3. TSender'
      BY <1>1, <2>1, Typed DEF IInv, TSender
    <3> QED
      BY <3>1, <3>2, <3>3, TypedNext
  <2>5. Len(rx'.acc) < Frags
    BY <1>3, <2>1, OneMore, UsbAssumption
  <2>6. IReceived'
    BY <1>1, <2>1, <2>5, OneMore DEF IReceived, Taking
  <2>7. Len(rx'.acc) = k' + 1 /\ rx'.started /\ k' = Len(rx'.acc) - 1
    BY <1>1, <2>1, OneMore, Lengths DEF IInv
  <2>8. ITogether'
    BY <1>1, <2>2, <2>7 DEF ITogether
  <2> QED
    BY <2>4, <2>6, <2>8 DEF IInv
<1> QED
  BY <1>2, <1>3

LEMMA SendDataIInv == IInv /\ SendData => IInv'
<1> SUFFICES ASSUME IInv, SendData PROVE IInv'
  OBVIOUS
<1>1. /\ rpc = "poll" /\ rpc' = "check" /\ pc' = "query" /\ clean' = TRUE /\ pc \in {"send", "query"}
      /\ UNCHANGED <<mode, armed, norevert, inited, entered, k, sessions, packages>>
  BY DEF SendData, Command
<1>2. CASE stage = "RECEIVING" /\ rx.started /\ k = Len(rx.acc)
  BY <1>1, <1>2, AcceptIInv DEF SendData, Taking, Up
<1>3. CASE ~(stage = "RECEIVING" /\ rx.started /\ k = Len(rx.acc))
  <2>1. /\ IF stage = "RECEIVING" /\ rx.started THEN err' = ~Duplicate ELSE UNCHANGED err
        /\ UNCHANGED <<stage, rxvars, paused, ctl, late, job, faults>>
    BY <1>3 DEF SendData
  <2>2. TypeOK'
    <3>1. TControl'
      <4>1. err' \in BOOLEAN
        BY <2>1, Typed DEF IInv, TControl, Duplicate
      <4> QED
        BY <1>1, <2>1, <4>1, Typed DEF IInv, TControl
    <3>2. TReceiver'
      BY <2>1, Typed DEF IInv, TReceiver, rxvars
    <3>3. TSender'
      BY <1>1, <2>1, Typed DEF IInv, TSender
    <3> QED
      BY <3>1, <3>2, <3>3, TypedNext
  <2>3. Up => rx.started /\ k = Len(rx.acc) - 1 /\ err' = FALSE
    <3> SUFFICES ASSUME Up PROVE rx.started /\ k = Len(rx.acc) - 1 /\ err' = FALSE
      OBVIOUS
    <3>1. rx.started /\ k = Len(rx.acc) - 1 /\ Len(rx.acc) \in Nat
      BY <1>1, <1>3 DEF IInv, TypeOK, ITogether, Up
    <3>2. Duplicate
      BY <3>1, Lengths DEF IInv, Duplicate
    <3>3. err' = ~Duplicate
      BY <2>1, <3>1 DEF Up
    <3> QED
      BY <3>1, <3>2, <3>3
  <2>4. Up' = Up /\ UNCHANGED <<rx, file, linked>> /\ Len(rx.acc) \in Nat
    BY <1>1, <2>1, Lengths DEF Up, rxvars, IInv
  <2>5. IReceived'
    BY <2>4 DEF IInv, IReceived, Taking
  <2>6. Up' => rx'.started /\ k' = Len(rx'.acc) - 1 /\ Len(rx'.acc) = k' + 1
    BY <1>1, <2>3, <2>4
  <2>7. ITogether'
    BY <1>1, <2>3, <2>4, <2>6 DEF ITogether
  <2> QED
    BY <2>2, <2>5, <2>7 DEF IInv
<1> QED
  BY <1>2, <1>3

LEMMA SendDataFailsIInv == IInv /\ SendDataFails => IInv'
<1> SUFFICES ASSUME IInv, SendDataFails PROVE IInv'
  OBVIOUS
<1>1. /\ pc \in {"send", "query"} /\ stage = "RECEIVING" /\ rpc = "poll" /\ rpc' = "check"
      /\ pc' = "query" /\ clean' = FALSE /\ err' = TRUE /\ stage' \in {"RECEIVING", "FAILED"}
      /\ UNCHANGED <<ctlvars, inited, entered, paused, rxvars, late, job, k, sessions, packages>>
  BY DEF SendDataFails, Command
<1>2. faults' \in 0 .. MaxFaults
  BY UsbAssumption DEF SendDataFails, Fault, IInv, TypeOK
<1>3. TypeOK'
  <2>1. TControl'
    BY <1>1, Typed DEF IInv, TControl, Stages, ctlvars
  <2>2. TReceiver'
    BY <1>1, Typed DEF IInv, TReceiver, rxvars
  <2>3. TSender'
    BY <1>1, <1>2, Typed DEF IInv, TSender
  <2> QED
    BY <2>1, <2>2, <2>3, TypedNext
<1> QED
  BY <1>1, <1>3 DEF IInv, IReceived, ITogether, Taking, Up, rxvars

LEMMA QueryIInv == IInv /\ Query => IInv'
<1> SUFFICES ASSUME IInv, Query PROVE IInv'
  OBVIOUS
<1>1. /\ pc = "query" /\ rpc = "poll" /\ rpc' = "check"
      /\ UNCHANGED <<ctlvars, stage, err, inited, entered, paused, rxvars, late, job, clean,
                     counts>>
  BY DEF Query, Command
<1>2. CASE stage # "RECEIVING"
  <2>1. pc' = "idle" /\ UNCHANGED k
    BY <1>2 DEF Query
  <2>2. TypeOK'
    BY <1>1, <2>1 DEF IInv, TypeOK, ctlvars, rxvars, counts
  <2> QED
    BY <1>1, <1>2, <2>1, <2>2, SameIInv DEF Up, rxvars
<1>3. CASE stage = "RECEIVING"
  <2>1. pc' = "send" /\ k' = IF err THEN k ELSE k + 1
    BY <1>3 DEF Query
  <2>2. Up /\ rx.started /\ Len(rx.acc) \in Nat /\ Len(rx.acc) < Frags
    BY <1>1, <1>3 DEF Up, IInv, TypeOK, ITogether, IReceived
  <2>3. k' \in {Len(rx.acc) - 1, Len(rx.acc)} /\ k' \in Fragment
    BY <1>1, <2>1, <2>2, UsbAssumption DEF IInv, TypeOK, ITogether, Fragment
  <2>4. TypeOK'
    BY <1>1, <2>1, <2>3 DEF IInv, TypeOK, ctlvars, rxvars, counts
  <2> QED
    BY <1>1, <2>1, <2>2, <2>3, <2>4 DEF IInv, IReceived, ITogether, Taking, Up, rxvars
<1> QED
  BY <1>2, <1>3

LEMMA ExitUpgradeIInv == IInv /\ ExitUpgrade => IInv'
<1> SUFFICES ASSUME IInv, ExitUpgrade PROVE IInv'
  OBVIOUS
<1>1. TypeOK'
  BY ResetRx
  DEF IInv, TypeOK, ExitUpgrade, Command, Abort, Reset, Status, Call, Stages, counts
<1> QED
  BY <1>1, ResetIInv DEF ExitUpgrade, Abort, Reset

LEMMA MismatchIInv == IInv /\ Mismatch => IInv'
<1> SUFFICES ASSUME IInv, Mismatch PROVE IInv'
  OBVIOUS
<1>1. TypeOK'
  BY DEF IInv, TypeOK, Mismatch, Command, Status, Stages, ctlvars, rxvars, counts
<1> QED
  BY <1>1, SameIInv DEF Mismatch, Status, Up, rxvars

-----------------------------------------------------------------------------
(* ota_prepare.                                                            *)

LEMMA OtaIInv == ASSUME NEW j \in Jobs PROVE IInv /\ Ota(j) => IInv'
<1> SUFFICES ASSUME IInv, Ota(j) PROVE IInv'
  OBVIOUS
<1>1. CASE \/ OtaStart(j) \/ OtaVerified(j) \/ OtaStored(j) \/ OtaFlagged(j)
           \/ OtaFails(j) \/ OtaStuck(j)
  <2>1. /\ stage' \in {"VERIFYING", "FLASHING", "SWITCHING", "FAILED"} /\ err' \in BOOLEAN
        /\ UNCHANGED <<file, linked>> /\ OtaUnchanged
    BY <1>1 DEF OtaStart, OtaVerified, OtaStored, OtaFlagged, OtaFails, OtaStuck, OtaStep, Status
  <2>2. faults' \in 0 .. MaxFaults
    <3>1. Fault \/ UNCHANGED faults
      BY <1>1
      DEF OtaStart, OtaVerified, OtaStored, OtaFlagged, OtaFails, OtaStuck, OtaStep
    <3> QED
      BY <3>1, FaultsBound DEF IInv
  <2>3. job' \in [Jobs -> JobStates]
    <3>1. \E to \in JobStates : job' = [job EXCEPT ![j] = to]
      BY <1>1
      DEF OtaStart, OtaVerified, OtaStored, OtaFlagged, OtaFails, OtaStuck, OtaStep, JobStates
    <3> QED
      BY <3>1, JobBound DEF IInv
  <2>4. TypeOK'
    BY <2>1, <2>2, <2>3 DEF OtaUnchanged, IInv, TypeOK, Stages, ctlvars, pcvars
  <2> QED
    BY <2>1, <2>4, SameIInv DEF Up, OtaUnchanged
<1>2. CASE OtaUnlink(j)
  <2>1. TypeOK'
    <3>1. TControl'
      BY <1>2, Typed DEF OtaUnlink, OtaUnchanged, IInv, TControl, ctlvars
    <3>2. TReceiver'
      BY <1>2, Typed, ResetRx DEF OtaUnlink, OtaUnchanged, IInv, TReceiver
    <3>3. TSender'
      BY <1>2, Typed, JobBound DEF OtaUnlink, OtaUnchanged, IInv, TSender, JobStates, pcvars
    <3> QED
      BY <3>1, <3>2, <3>3, TypedNext
  <2> QED
    BY <1>2, <2>1
    DEF OtaUnlink, OtaUnchanged, IInv, IReceived, ITogether, Taking, Up, pcvars
<1>3. CASE OtaReboots(j)
  <2>1. TypeOK'
    <3>1. TControl'
      BY <1>3, Typed DEF OtaReboots, IInv, TControl
    <3>2. TReceiver'
      BY <1>3, ResetRx DEF OtaReboots, TReceiver
    <3>3. TSender'
      BY <1>3, Typed DEF OtaReboots, IInv, TSender, JobStates, counts
    <3> QED
      BY <3>1, <3>2, <3>3, TypedNext
  <2> QED
    BY <1>3, <2>1, ResetIInv DEF OtaReboots
<1> QED
  BY <1>1, <1>2, <1>3 DEF Ota

LEMMA NextIInv == IInv /\ [Next]_vars => IInv'
<1> SUFFICES ASSUME IInv, [Next]_vars PROVE IInv'
  OBVIOUS
<1>1. CASE UNCHANGED vars \/ Stranded
  <2>1. UNCHANGED vars
    BY <1>1 DEF Stranded
  <2>2. TypeOK'
    BY <2>1 DEF IInv, TypeOK, vars, ctlvars, rxvars, pcvars, counts
  <2> QED
    BY <2>1, <2>2, SameIInv DEF Up, vars, rxvars, pcvars
<1>2. CASE Trigger \/ Ctl \/ Watchdog \/ Check \/ ReceiverDies \/ Time
  BY <1>2, TriggerIInv, StopModeIInv, StartUvcIInv, StartReceiverIInv, SwitchFailsIInv,
     WatchdogIInv, CheckIInv, ReceiverDiesIInv, TimeIInv DEF Ctl
<1>3. CASE Pc
  BY <1>3, EnterUpgradeIInv, SendPackageIInv, SendDataIInv, SendDataFailsIInv, QueryIInv,
     ExitUpgradeIInv, MismatchIInv DEF Pc
<1>4. CASE \E j \in Jobs : Ota(j)
  BY <1>4, OtaIInv
<1> QED
  BY <1>1, <1>2, <1>3, <1>4 DEF Next

\* An ota_prepare begins in no step but that of the last fragment.
LEMMA NoOtherLaunch ==
    ASSUME IInv, [Next]_vars, ~SendData, NEW j \in Jobs, job[j] = "none"
    PROVE  job'[j] # "start"
<1>1. CASE UNCHANGED job
  BY <1>1
<1>2. CASE \E i \in Jobs : Ota(i)
  <2>1. PICK i \in Jobs : Ota(i)
    BY <1>2
  <2>2. CASE OtaReboots(i)
    BY <2>2 DEF OtaReboots
  <2>3. CASE ~OtaReboots(i)
    <3>1. job[i] # "none"
      BY <2>1, <2>3
      DEF Ota, OtaStart, OtaVerified, OtaStored, OtaFlagged, OtaFails, OtaUnlink, OtaStuck, OtaStep
    <3>2. \E to : job' = [job EXCEPT ![i] = to]
      BY <2>1, <2>3
      DEF Ota, OtaStart, OtaVerified, OtaStored, OtaFlagged, OtaFails, OtaUnlink, OtaStuck, OtaStep
    <3> QED
      BY <3>1, <3>2 DEF IInv, TypeOK
  <2> QED
    BY <2>2, <2>3
<1>3. CASE \/ Trigger \/ Ctl \/ Watchdog \/ Check \/ ReceiverDies \/ Time
           \/ Stranded \/ UNCHANGED vars
  BY <1>1, <1>3
  DEF Trigger, Ctl, StopMode, StartUvc, StartUpgrade, FallBack, SwitchFails, StartReceiver,
      Watchdog, Check, ReceiverDies, Time, Stranded, vars
<1>4. CASE Pc
  BY <1>1, <1>4
  DEF Pc, EnterUpgrade, SendPackage, SendDataFails, Query, ExitUpgrade, Mismatch
<1> QED
  BY <1>2, <1>3, <1>4 DEF Next

\* And that of the last fragment has the whole package.
LEMMA LaunchWhole ==
    ASSUME IInv, SendData, NEW j \in Jobs, job[j] = "none", job'[j] = "start"
    PROVE  rx'.acc = Whole /\ rx'.sound /\ file' \in {Fragment, NoFile}
<1>1. Taking /\ k = Len(rx.acc) /\ Accept
  BY DEF SendData, Command, Taking, Up
<1>2. Launch(Longer, Percent[Len(Longer.acc)], Grown) /\ Len(Longer.acc) = Frags
  BY <1>1 DEF Accept, Longer, Grown
<1>3. CrcOk(Longer) /\ rx' = Longer /\ file' = Grown
  BY <1>2 DEF Launch
<1>4. Grown \in {Fragment, NoFile}
  BY <1>1, <1>2, OneMore DEF Fragment
<1> QED
  BY <1>3, <1>4 DEF CrcOk

-----------------------------------------------------------------------------

\* The types of the variables, for every number of fragments, sessions, packages and faults.
THEOREM UsbTyped == Spec => []TypeOK
<1>1. IInv => TypeOK
  BY DEF IInv
<1> QED
  BY <1>1, InitIInv, NextIInv, PTL DEF Spec

\* However often fragments are lost, damaged or sent again, and however seldom the status
\* file is written, the PC that queries it learns whether its last fragment was taken.
THEOREM PcIsTold == Spec => []StatusTellsTheTruth
<1>1. IInv => StatusTellsTheTruth
  BY DEF IInv, ITogether, StatusTellsTheTruth, Up
<1> QED
  BY <1>1, InitIInv, NextIInv, PTL DEF Spec

\* ota_prepare is started for nothing but the whole package that was announced.
THEOREM OnlyWhole == Spec => LaunchesWhole
<1>1. IInv /\ [Next]_vars =>
        [\A j \in Jobs : job[j] = "none" /\ job'[j] = "start" =>
            /\ rx'.acc = Whole /\ rx'.sound
            /\ file' \in {Fragment, NoFile}]_vars
  BY NoOtherLaunch, LaunchWhole
<1> QED
  BY <1>1, InitIInv, NextIInv, PTL DEF Spec, LaunchesWhole
=============================================================================
