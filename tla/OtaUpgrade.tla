----------------------------- MODULE OtaUpgrade -----------------------------
(***************************************************************************)
(* The upgrade of the NAND image across reboots and power failures.        *)
(*                                                                         *)
(*   ota_prepare (Linux)   puts the verified package in the UBI volume     *)
(*                         "upgrade", then the flag PENDING in uflag;      *)
(*   OTFL                  picks the partition U-Boot is loaded from;      *)
(*   U-Boot bootcmd        runs misc_check and, when it says so,           *)
(*                         nand_ota_upgrade, which flashes the components. *)
(*                                                                         *)
(* uflag is kept in N copies, each in an erase block of its own.  An erase *)
(* or a program operation can fail (the block is then marked bad) and the  *)
(* power can fail between any two steps.  The steps of one flag write are  *)
(* erase and program of one copy at a time: ota_prepare goes up from copy  *)
(* 0, U-Boot down to it.                                                   *)
(***************************************************************************)
EXTENDS Integers, Sequences, FiniteSets

CONSTANTS
    N,           \* UFLAG_REDUNDANT_NUM, 4 in the code
    MaxFaults,   \* bound: copies of uflag lost to bad blocks or torn writes
    WriteOrder,  \* the components in the order they are flashed
    Uboot,       \* the component OTFL loads
    Rootfs,      \* the component that carries /etc/fs-version
    Pkg,         \* Pkg[v]: the components in the package of version v
    MaskValue,   \* MaskValue[S]: completed_mask of S as an integer
    Retries      \* retry_count of a fresh flag, 3 in the code

Copies   == 0..(N - 1)
Comps    == {WriteOrder[k] : k \in 1..Len(WriteOrder)}
Versions == DOMAIN Pkg

ASSUME CopiesAssumption == N \in Nat /\ MaxFaults \in Nat /\ MaxFaults + 2 <= N
ASSUME CompsAssumption ==
    /\ WriteOrder \in Seq(STRING)
    /\ Uboot \in Comps /\ Rootfs \in Comps
    /\ Versions \subseteq Nat \ {0}
    /\ \A v \in Versions : Pkg[v] \subseteq Comps /\ Pkg[v] # {}
ASSUME RetriesAssumption == Retries \in Nat \ {0}
(* the masks are integers whose bits are the components *)
ASSUME MaskAssumption ==
    /\ MaskValue \in [SUBSET Comps -> Nat]
    /\ \A S, T \in SUBSET Comps :
          S \subseteq T /\ S # T => MaskValue[S] < MaskValue[T]

Half    == -1   \* a partition between its erase and its verification
Damaged == -1   \* a volume whose update did not end
Factory == 0    \* the version of the image the device was made with
Torn    == [state |-> "TORN", mask |-> {}, retry |-> 0, ver |-> Factory]

Flags == [state : {"IDLE", "PENDING", "RUNNING", "FAILED"},
          mask  : SUBSET Comps, retry : 0..Retries, ver : Versions]

VARIABLES
    copies,   \* copies[i]: the flag in copy i, Torn when magic or CRC is wrong
    bad,      \* the copies whose block is in the bad block table
    lost,     \* the copies a power failure hit between their erase and
              \* their program, until they are written again
    part,     \* part[c]: the version in the partition of component c
    vol,      \* the version of the package in the UBI volume
    pc,       \* where the processor is
    loader,   \* the partition the running U-Boot was loaded from
    ram,      \* the flag held in memory (struct ota_upgrade_flag uflag, flag)
    todo,     \* copies uflag_write has still to write
    wok,      \* uflag_write: ok > 0
    back,     \* where uflag_write returns to
    gaveUp    \* history: the retries ended over a half written component,
              \* and the image is not whole yet

vars == <<copies, bad, lost, part, vol, pc, loader, ram, todo, wok, back, gaveUp>>
flash == <<copies, bad, lost, part, vol>>
writer == <<todo, wok, back>>

Labels == {"otfl", "uboot", "load", "flash", "burn", "erase",
           "program", "verify", "fail", "linux", "volume", "dead", "off"}
Backs == {"load", "flash", "verify", "reset", "linux"}

(* a flag that magic, version and CRC accept, and that asks for an upgrade *)
Valid(f)   == f # Torn
Pending(f) == f.state \in {"PENDING", "RUNNING"}

(* uflag_read: of the copies in good blocks, the valid one with the largest
   completed_mask, the first of them when several have it *)
Readable == {i \in Copies \ bad : Valid(copies[i])}
Best(R) == CHOOSE i \in R : \A j \in R :
              \/ MaskValue[copies[i].mask] > MaskValue[copies[j].mask]
              \/ MaskValue[copies[i].mask] = MaskValue[copies[j].mask] /\ i <= j
Flag == LET R == Readable IN IF R = {} THEN Torn ELSE copies[Best(R)]

Init ==
    /\ copies = [i \in Copies |-> Torn]
    /\ bad = {}
    /\ lost = {}
    /\ part = [c \in Comps |-> Factory]
    /\ vol = Damaged
    /\ pc = "off"
    /\ loader = "none"
    /\ ram = Torn
    /\ todo = {} /\ wok = FALSE /\ back = "reset"
    /\ gaveUp = FALSE
-----------------------------------------------------------------------------
(* write_uflag and uflag_write: erase and program every copy in turn *)

PutFlag(f, next) ==
    /\ ram' = f
    /\ todo' = Copies \ bad
    /\ wok' = FALSE
    /\ back' = next
    /\ pc' = "erase"

(* the faults that are modelled: few enough to leave two copies whole *)
Bearable == Cardinality(bad \union lost) <= MaxFaults

Turn(i) == /\ i \in todo
           /\ \A j \in todo : IF back = "linux" THEN i <= j ELSE i >= j

EraseCopy(i) ==
    /\ pc = "erase"
    /\ Turn(i)
    /\ copies' = [copies EXCEPT ![i] = Torn]
    /\ pc' = "program"
    /\ UNCHANGED <<bad, lost, part, vol, loader, ram, writer, gaveUp>>

(* the erase fails: what the block held may still be readable *)
EraseFails(i) ==
    /\ pc = "erase"
    /\ Turn(i)
    /\ bad' = bad \union {i}
    /\ \E f \in {copies[i], Torn} : copies' = [copies EXCEPT ![i] = f]
    /\ todo' = todo \ {i}
    /\ UNCHANGED <<lost, part, vol, pc, loader, ram, wok, back, gaveUp>>
    /\ Bearable'

ProgramCopy(i) ==
    /\ pc = "program"
    /\ Turn(i)
    /\ copies' = [copies EXCEPT ![i] = ram]
    /\ todo' = todo \ {i}
    /\ wok' = TRUE
    /\ pc' = "erase"
    /\ lost' = lost \ {i}
    /\ UNCHANGED <<bad, part, vol, loader, ram, back, gaveUp>>

ProgramFails(i) ==
    /\ pc = "program"
    /\ Turn(i)
    /\ bad' = bad \union {i}
    /\ \E f \in {ram, Torn} : copies' = [copies EXCEPT ![i] = f]
    /\ todo' = todo \ {i}
    /\ pc' = "erase"
    /\ UNCHANGED <<lost, part, vol, loader, ram, wok, back, gaveUp>>
    /\ Bearable'

(* every copy was tried: one that was written is enough.  The fail path and
   ota_prepare go on whatever the result *)
AllTried ==
    /\ pc = "erase"
    /\ todo = {}
    /\ pc' = CASE back = "linux" -> "linux"
               [] back = "reset" -> "otfl"
               [] OTHER          -> IF wok THEN back ELSE "fail"
    /\ IF back \in {"linux", "reset"} THEN ram' = Torn /\ loader' = "none"
                                      ELSE UNCHANGED <<ram, loader>>
    /\ wok' = FALSE /\ back' = "reset"
    /\ UNCHANGED <<copies, bad, lost, part, vol, todo, gaveUp>>

WriteFlag == \/ \E i \in Copies : \/ EraseCopy(i) \/ EraseFails(i)
                                  \/ ProgramCopy(i) \/ ProgramFails(i)
             \/ AllTried
-----------------------------------------------------------------------------
(* ota_prepare.  A package that does not verify, or is older than the running
   system, changes nothing here.  Nothing looks at the flag: after a reboot
   that failed the next upgrade overwrites the volume of a PENDING one. *)

PrepareVolume(v) ==
    /\ pc = "linux"
    /\ v >= part[Rootfs]
    /\ vol' = Damaged
    /\ ram' = [state |-> "PENDING", mask |-> {}, retry |-> Retries, ver |-> v]
    /\ pc' = "volume"
    /\ UNCHANGED <<copies, bad, lost, part, loader, writer, gaveUp>>

VolumeWritten ==
    /\ pc = "volume"
    /\ vol' = ram.ver
    /\ PutFlag(ram, "linux")
    /\ UNCHANGED <<copies, bad, lost, part, loader, gaveUp>>

VolumeFails ==
    /\ pc = "volume"
    /\ pc' = "linux"
    /\ ram' = Torn
    /\ UNCHANGED <<flash, loader, writer, gaveUp>>

(* ota_prepare's reboot, or the user's *)
Reboot ==
    /\ pc = "linux"
    /\ pc' = "otfl"
    /\ UNCHANGED <<flash, loader, ram, writer, gaveUp>>
-----------------------------------------------------------------------------
(* mutant: an upgrade that is already running is not looked for *)
OtflPending_Fresh == \E i \in Copies : copies[i].state = "PENDING"

(* otfl_check_upgrade_flag reads the copies raw, bad blocks included, and
   the first pending one decides *)
OtflPending == \E i \in Copies : Valid(copies[i]) /\ Pending(copies[i])

Otfl ==
    /\ pc = "otfl"
    /\ loader' = IF OtflPending THEN "otfl" ELSE "uboot"
    /\ pc' = IF loader' = "uboot" /\ part[Uboot] = Half THEN "dead" ELSE "uboot"
    /\ UNCHANGED <<flash, ram, writer, gaveUp>>

(* bootcmd: misc_check; nand_ota_upgrade when it says 1 *)
NormalBoot ==
    /\ pc = "uboot"
    /\ ~Pending(Flag)
    /\ pc' = IF \A c \in Comps \ {Uboot} : part[c] # Half THEN "linux" ELSE "dead"
    /\ loader' = "none"
    /\ UNCHANGED <<flash, ram, writer, gaveUp>>

StartUpgrade ==
    /\ pc = "uboot"
    /\ Flag.state = "PENDING"
    /\ PutFlag([Flag EXCEPT !.state = "RUNNING"], "load")
    /\ UNCHANGED <<flash, loader, gaveUp>>

ResumeUpgrade ==
    /\ pc = "uboot"
    /\ Flag.state = "RUNNING"
    /\ ram' = Flag
    /\ pc' = "load"
    /\ UNCHANGED <<flash, loader, writer, gaveUp>>

(* the package is the one the flag is about, or a newer one of its shape *)
Accepted == Pkg[vol] = Pkg[ram.ver] /\ vol >= ram.ver

(* the volume of an update that did not end cannot be read, and any read can
   fail *)
LoadFails ==
    /\ pc = "load"
    /\ pc' = "fail"
    /\ UNCHANGED <<flash, loader, ram, writer, gaveUp>>

LoadPackage ==
    /\ pc = "load"
    /\ vol # Damaged
    /\ Accepted
    /\ pc' = "flash"
    /\ UNCHANGED <<flash, loader, ram, writer, gaveUp>>

(* a deterministic failure: no retry *)
RejectPackage ==
    /\ pc = "load"
    /\ vol # Damaged
    /\ ~Accepted
    /\ PutFlag([ram EXCEPT !.state = "FAILED"], "reset")
    /\ UNCHANGED <<flash, loader, gaveUp>>

Left == Pkg[ram.ver] \ ram.mask
Turns(c) == \E k \in 1..Len(WriteOrder) :
               /\ WriteOrder[k] = c /\ c \in Left
               /\ \A l \in 1..(k - 1) : WriteOrder[l] \notin Left

(* nand_write_component: erase, write, verify *)
EraseComponent(c) ==
    /\ pc = "flash"
    /\ Turns(c)
    /\ part' = [part EXCEPT ![c] = Half]
    /\ pc' = "burn"
    /\ UNCHANGED <<copies, bad, lost, vol, loader, ram, writer, gaveUp>>

WriteComponent(c) ==
    /\ pc = "burn"
    /\ Turns(c)
    /\ part' = [part EXCEPT ![c] = vol]
    /\ PutFlag([ram EXCEPT !.mask = @ \union {c}], "flash")
    /\ gaveUp' = (gaveUp /\ \E d \in Comps : part'[d] = Half)
    /\ UNCHANGED <<copies, bad, lost, vol, loader>>

(* mutant: a component that failed is taken for done *)
ComponentFails_Ignored ==
    /\ pc = "burn"
    /\ \E c \in Comps : Turns(c) /\ PutFlag([ram EXCEPT !.mask = @ \union {c}], "flash")
    /\ UNCHANGED <<flash, loader, gaveUp>>

ComponentFails ==
    /\ pc = "burn"
    /\ pc' = "fail"
    /\ UNCHANGED <<flash, loader, ram, writer, gaveUp>>

(* mutant: the flag is cleared after the first component *)
ClearFlag_Early ==
    /\ pc = "flash"
    /\ ram.mask # {}
    /\ PutFlag([ram EXCEPT !.state = "IDLE", !.mask = {}], "verify")
    /\ UNCHANGED <<flash, loader, gaveUp>>

(* every component is done: back to IDLE *)
ClearFlag ==
    /\ pc = "flash"
    /\ Left = {}
    /\ PutFlag([ram EXCEPT !.state = "IDLE", !.mask = {}], "verify")
    /\ UNCHANGED <<flash, loader, gaveUp>>

VerifyCleared ==
    /\ pc = "verify"
    /\ IF Flag.state = "IDLE" THEN pc' = "otfl" /\ ram' = Torn /\ loader' = "none"
                             ELSE pc' = "fail" /\ UNCHANGED <<ram, loader>>
    /\ UNCHANGED <<flash, writer, gaveUp>>

(* mutant: the counter is not taken down *)
Retry_Forever ==
    /\ pc = "fail"
    /\ PutFlag(ram, "reset")
    /\ UNCHANGED <<flash, loader, gaveUp>>

(* mutant: one retry more than the counter has *)
Retry_Late ==
    /\ pc = "fail"
    /\ PutFlag([ram EXCEPT !.retry = @ - 1,
                           !.state = IF ram.retry = 0 THEN "FAILED" ELSE @], "reset")
    /\ UNCHANGED <<flash, loader, gaveUp>>

(* mutant: an I/O error is final *)
Retry_Never ==
    /\ pc = "fail"
    /\ PutFlag([ram EXCEPT !.state = "FAILED"], "reset")
    /\ UNCHANGED <<flash, loader, gaveUp>>

(* the fail path of an I/O error *)
Retry ==
    /\ pc = "fail"
    /\ LET left == IF ram.retry > 0 THEN ram.retry - 1 ELSE 0
       IN  PutFlag([ram EXCEPT !.retry = left,
                               !.state = IF left = 0 THEN "FAILED" ELSE @], "reset")
           /\ gaveUp' = (gaveUp \/ (left = 0 /\ \E c \in Comps : part[c] = Half))
    /\ UNCHANGED <<flash, loader>>

Boot == \/ Otfl \/ NormalBoot \/ StartUpgrade \/ ResumeUpgrade
        \/ LoadPackage \/ LoadFails \/ RejectPackage
        \/ \E c \in Comps : EraseComponent(c) \/ WriteComponent(c)
        \/ ComponentFails \/ ClearFlag \/ VerifyCleared \/ Retry
-----------------------------------------------------------------------------
(* a power failure loses the memory and keeps the flash *)
PowerFails ==
    /\ pc # "off" /\ pc' = "off"
    /\ ram' = Torn
    /\ todo' = {} /\ wok' = FALSE /\ back' = "reset"
    /\ loader' = "none"
    /\ lost' = IF pc = "program" THEN lost \union {i \in Copies : Turn(i)} ELSE lost
    /\ UNCHANGED <<copies, bad, part, vol, gaveUp>>
    /\ Bearable'

PowerOn ==
    /\ pc = "off" /\ pc' = "otfl"
    /\ UNCHANGED <<flash, loader, ram, writer, gaveUp>>

Linux == VolumeWritten \/ VolumeFails \/ Reboot
         \/ \E v \in Versions : PrepareVolume(v)

Next == Linux \/ Boot \/ WriteFlag \/ PowerFails \/ PowerOn

(* the boot code is sequential: it goes on as long as there is power *)
Spec == Init /\ [][Next]_vars /\ WF_vars(Boot \/ WriteFlag)
-----------------------------------------------------------------------------
TypeOK ==
    /\ copies \in [Copies -> Flags \union {Torn}]
    /\ bad \subseteq Copies /\ lost \subseteq Copies /\ Bearable
    /\ part \in [Comps -> Versions \union {Half, Factory}]
    /\ vol \in Versions \union {Damaged}
    /\ pc \in Labels /\ loader \in {"none", "otfl", "uboot"}
    /\ ram \in Flags \union {Torn}
    /\ todo \subseteq Copies /\ wok \in BOOLEAN /\ back \in Backs
    /\ gaveUp \in BOOLEAN

(* Every step of nand_ota_upgrade that may erase or program a component runs
   from the U-Boot in the otfl partition, so that erasing the uboot partition
   does not remove the code that would resume (nand_ota_upgrade.c: "uboot
   component is safe"), although OTFL and misc_check read the copies with
   different rules. *)
RecoveryFromOtfl == pc \in {"flash", "burn"} => loader = "otfl"

(* A component misc_check's flag counts as done really holds the package of
   the volume, whatever was torn, retried or left by an earlier upgrade: so
   "already done" may be skipped. *)
DoneIsFlashed ==
    Pending(Flag) => \A c \in Flag.mask : part[c] = vol /\ part[c] # Damaged

(* A partition is left half written only while a flag is pending, or when the
   retries were used up over it: a power failure never strands the device, and
   a deterministic rejection never comes over a half written image. *)
NeverStranded ==
    (\E c \in Comps : part[c] = Half) =>
        Pending(Flag) \/ gaveUp

(* Every boot ends, in Linux or in a device that gave up, unless the power
   fails: the retry counter ends the loop of resets, also when the same step
   fails every time. *)
Booting == /\ pc \notin {"linux", "volume", "dead", "off"}
           /\ ~(pc \in {"erase", "program"} /\ back = "linux")
BootEnds == Booting ~> ~Booting

(* The refinement: an upgrade as the one step it is meant to be.  No reader of
   the flag ever takes a job that began for one that was only asked for, nor
   one that ended for one that runs, however the power failed between the
   copies. *)
Job == LET f == Flag IN IF Pending(f) THEN Pkg[f.ver] ELSE {}
Phase == LET s == Flag.state IN
         CASE s = "PENDING" -> "asked"
           [] s = "RUNNING" -> "running"
           [] s = "IDLE"    -> "done"
           [] s = "FAILED"  -> "failed"
           [] OTHER         -> "none"
Abstract == INSTANCE AtomicUpgrade
              WITH image <- part, job <- Job, phase <- Phase
UpgradeIsAtomic == Abstract!Spec
=============================================================================
