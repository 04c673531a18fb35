# Verification of the stereo application and its platform

The repository is the SDK of a vision SoC: closed media libraries behind headers,
kernel drivers, a boot loader, tools, and a set of applications. Most of the
program logic that can go wrong in ways a test would not show is in one of the
applications, `src/main/src/component/media/sample/stereo_app_bk` ("the stereo
application" below): a pipeline of threads that captures stereo pairs, rectifies
them (CVE), runs a disparity network and an object detector (NPU), encodes the result
(VENC) and streams it to one TCP client, while a second server hands out raw
frames. Three more parts of the repository are modelled: the upgrade of the device
(over USB, across reboots, power failures and bad blocks), the ring in which the
driver of the inertial sensor keeps its samples, and the frame cache of the USB
camera `uvc_app`. The other parts are listed at the end, with the reason.

Source paths without a directory are relative to the stereo application, except in the
sections on the other parts.

## 1. Inventory

### The threads of the stereo application

```
 VPROC left  ─┐                                                         one TCP client
 VPROC right ─┴ get_frm ─q_vproc(1)─ cve ─q_npu(1)─ npu ─q_venc(2)─ venc ─q_net(2)─ net ── port 9000
 VPROC det   ── det ── one-slot mailbox (mutex, cond) ──┘
 VI left, VI right ── raw capture thread ── port 9001
 main: init, startup, wait for a signal, shutdown, deinit
```

| Component (files) | State it keeps | Operations | Talks to others by |
|---|---|---|---|
| ring (`stereo_queue.c`) | slots, two free-running u32 indices | push, try_push, pop, try_pop, pop_timeout | shared memory without locks, one producer thread and one consumer thread |
| pipeline (`stereo_media.c:989-1547`) | 4 rings, run flag per thread, `frame_cnt` | get_frm, cve, npu, venc, net procs; `stereo_media_shutdown` | rings; VPROC blocks that must be released; heap objects handed over |
| pair acquisition (`stereo_media.c:989-1160`) | the pair and the newer frames in hand | acquire both sides, drain, hand on | two VPROC channels of depth 2 filled by hardware |
| detection (`stereo_media.c:903-987`, NPU thread) | `g_det_slot_frame`, `g_det_slot_valid`, lock, condition | store the latest, wait at most 1 s, consume | mutex and condition variable |
| CVE and NPU (`stereo_cve.c`, `stereo_npu.c`) | two input buffer pairs, `g_cve_buf_idx` | process, trigger, wait | the buffers, named by an index that travels in q_npu |
| encoder (`stereo_venc.c`) | two JPEG channels, packets being built | send, poll, acquire, copy, release, cleanup | hardware that may answer late |
| network (`stereo_network.c`, `scripts/stereo_receiver.py`) | listen and client sockets; the receiver's triplet | accept, calibration, drain, send | TCP |
| raw capture (`stereo_raw_capture.c`) | run flag, listen socket, dump mode of VI channels | start, stop, serve one client | TCP on 9001; the VI channels the pipeline also uses |
| life cycle (`stereo_main.c`, `stereo_camera.c`, init and startup in `stereo_media.c`) | what has been acquired | init, startup, roll-back, shutdown, deinit, signals | calls |
| post-processing (`stereo_subpixel.c`, `stereo_depth_lut.c`, `stereo_lz4.c`, decoding in `stereo_yolo.c`) | none between calls, but for the published detections | pure functions | calls |

### The other modelled parts

| Component (files) | State it keeps | Operations | Talks to others by |
|---|---|---|---|
| receiver (`component/upgrade/usb_receiver`), `usb_mode_ctl.sh` | the gadget's mode, the package as far as received, a status file | the PC's commands, fragments, watchdogs, mode switches | control transfers, fork, the status file, a lock file |
| preparation (`component/upgrade/ota_prepare`) | none; writes the package's volume and the upgrade flag | verify, store, flag, reboot | the status file, flash |
| boot (`boot/otfl/.../flash.c`, the U-Boot patch) | N copies of the flag, the partitions | choice of the U-Boot, flashing, retries | flash |
| motion sensor ring (`ext_drv/motionfusion/.../motionsensor_buf.c`), `imu_app` | five blocks, a write pointer and read pointers per user | write, push, add, delete, get, release | shared memory mapped into the programs, one kernel lock |
| frame cache (`media/sample/uvc_app`) | `free_queue`, `ok_queue`, `frame_node[]` | get and put a node, fill a buffer, start and stop a stream | two locked lists, the V4L2 driver, three threads |

### What is hard here, and what makes each part correct

* **The ring** has no lock. Its correctness is that the two threads never touch one
  slot at a time, that pointers come out once each and in order while the indices
  wrap at 2^32, and that a parked consumer gets out when its flag is cleared.
* **The pipeline** drops at any full queue and has three to six early exits per
  thread. Every pair of VPROC frames must be given back exactly once, every heap
  object freed, the order kept although the index of a dropped pair is given out
  again, and the join of five threads in turn must not hang.
* **Pair acquisition** interleaves with two sensors between any two of its calls.
  Every branch of the drain must release the right frames.
* **Detection** is a one-slot mailbox with a timed wait. A frame is replaced by one
  thread and consumed by another; a shutdown must free what is left.
* **CVE and NPU** share two buffers without a handshake.
* **The encoder** may answer after the poll has given up.
* **The network** may lose its client in the middle of a triplet or without a word.
* **Raw capture** must put a channel out of dump mode on every path, or that
  channel is lost to the pipeline; it is stopped while it may be serving.
* **The life cycle** has twenty fallible steps and as many labels.
* **The upgrade over flash** must survive a power failure between any two steps, bad
  blocks and repeated failures: no component may stay half written with nobody to
  resume, and none may be taken for done that is not.
* **The upgrade over USB** has one answer to a fragment (a status that is written at
  most once per percent), processes that die and restart, and time limits that race
  with what they limit: a session that fails or is deserted must not keep the camera away.
* **The motion ring** overwrites, pushes slow readers on, and is walked backwards from
  a pointer that means "everything" or "nothing" depending on a flag all users
  share.
* **The frame cache** has as many nodes as there are places for them, and starts the
  next stream while a thread may still be filling a buffer of the last. The slots that
  both threads write have no lock.

`PROJECT.json` lists each of these hazards at its line with the properties that
would catch it.

## 2. Modules

| Module | Models | Composed with |
|---|---|---|
| `BoundedFifo` | what a queue between two threads promises | abstract specification of `SpscQueue` |
| `SpscQueue` | `stereo_queue.c`, one action per access to shared memory | refines `BoundedFifo` |
| `MCSpscQueue` | the instance TLC checks, with the mask arithmetic of the C code as an assumption | extends `SpscQueue` |
| `SpscQueueRelaxed` | the same ring on a processor that reorders two loads of try_pop | extends `SpscQueue` |
| `StereoPipeline` | the five threads, four queues, shutdown | uses the queues as the FIFOs `SpscQueue` implements |
| `FramePairing` | `stereo_get_frame_proc` between acquisition and push | the detail of `GetFrmAcquire` in `StereoPipeline`; instantiated by `StereoStages` |
| `DetectionLoop` | detection thread, mailbox, the NPU thread's wait and its two inferences | the detail of `NpuInfer`; instantiated by `StereoStages` |
| `VencEncoder` | `stereo_venc_encode` and its hardware | the detail of `VencEncode` and `VencFail`; instantiated by `StereoStages` |
| `StereoNetwork` | net thread, connection, receiver | the detail of `Net` and of the client; instantiated by `StereoStages` |
| `CveNpuBuffers` | the NPU input buffers | the detail of `CveProcess` and `NpuInfer`; instantiated by `StereoStages` |
| `StereoStages` | one of these five stages, whichever, step by step | |
| `RawCapture` | the raw capture server | instantiated by `StereoApp` |
| `StereoLifecycle` | the main thread | extended by `StereoApp` |
| `StereoApp` | both of the last two together | |
| `AtomicUpgrade` | what an upgrade promises | abstract specification of `OtaUpgrade` |
| `OtaUpgrade` | the redundant upgrade flag, `ota_prepare`'s writes, the choice of the U-Boot, flashing and retries | refines `AtomicUpgrade` |
| `MCOtaUpgrade` | the instance TLC checks: two components, two package versions | extends `OtaUpgrade` |
| `UsbUpgrade` | the PC, `usb_receiver`, `ota_prepare` as far as the receiver sees it, `usb_mode_ctl.sh` | ends where `OtaUpgrade` begins |
| `MCUsbUpgrade` | the instance TLC checks | extends `UsbUpgrade` |
| `MotionRing` | the ring, its writer, `imu_app`'s consecutive windows and another user's arbitrary ones | |
| `UvcFrames` | the frame cache and the threads of one USB camera | |
| `MCUvcFrames` | the instance TLC checks: two buffers, interchangeable nodes | extends `UvcFrames` |
| `SpscQueueProofs`, `StereoPipelineProofs`, `StereoStagesProofs`, `StereoAppProofs`, `MotionRingProofs`, `UvcFramesProofs`, `OtaUpgradeProofs`, `UsbUpgradeProofs` | theorems | |

### How state and actions correspond to the code

* `SpscQueue`: `write_idx`, `read_idx` and `slots` are the fields of the struct.
  `IdxMod` stands for 2^32. A call is a sequence of steps ("check", "store",
  "publish"; "check", "load", "advance"), one per shared access, each in the order in
  which the barriers of the code make it visible. `Timeout` counts the 1 ms polls of
  pop_timeout.
* `StereoPipeline`: an item is its `frame_index`. `hold[s]` is the local variable of
  thread `s`, `frames[i]` counts the VPROC pairs of item `i` acquired and not released,
  `heap` counts live objects by kind, `lost` counts disparity maps nobody points
  to, and `leaked` is what the queues held when `stereo_queue_destroy` freed their slots.
  A C function between two queue operations is one action per outcome; mallocs
  and frees of the path are `Alloc(new, freed)`. `joining` is the position of
  `stereo_media_shutdown`. pop_timeout is one step: a stage's flag is cleared only
  after its producer has been joined, so what it sees at its first test is what it
  sees at its last.
* `FramePairing`: a frame is its index; `out[s]` counts acquisitions minus
  releases. A full channel either refuses the new frame or replaces the oldest:
  the library does not say which, so both are allowed.
* `DetectionLoop`: one step per acquisition of `g_det_lock`, wait, signal and
  trigger; `late` is the absolute deadline.
* `CveNpuBuffers`: a buffer holds, per side, the number of the pair whose image
  it has; the NPU reads the left image and then the right one.
* `VencEncoder`: a channel is two FIFOs, frames sent and streams coded; the poll ends
  with a stream or without one.
* `StereoNetwork`: `wire` is what has been sent on this connection and not been
  read; `result` and `shown` belong to the receiver's `receive_frame`.
* `RawCapture`: `dump` and `held` are the VI channels in dump mode and the ones whose
  frame is held; a client is one connection with its mask.
* `StereoLifecycle`: `todo` is the list of steps to make, or of resources to release;
  the failure labels are the lists `InitUnwind` and those of the startup.
* `StereoStages`: `stage` says which of the five instances runs; the others stay where
  they start. The stages share no variable with each other but the queues, which
  `StereoPipeline` has, so that their product would show nothing that each alone does
  not.
* `OtaUpgrade`: `copies[i]` is copy `i` of the flag, `Torn` when its magic or CRC is wrong;
  `pc` is where the processor is, from the OTFL to Linux; a write of the flag is an
  erase and a program per copy, in the order of the code, and the power may fail or the
  block go bad at each. `part[c]` is the version in a partition, `Half` between its erase
  and its verification. `lost` is history: the copies a power failure tore that have not been
  written since; `gaveUp` too: the retries were used up over a half-written image, until the
  image is whole again. `part`, `Job` and `Phase` map to the variables of
  `AtomicUpgrade`: a request may be replaced until its upgrade begins to run, a running
  upgrade may not, and it ends as done only over a whole image.
* `UsbUpgrade`: a control transfer is synchronous, so a command and its handler are one
  step. `stage` and `err` are the status file, `rx` what the receiver has of the package,
  `job[j]` the j-th `ota_prepare`, `ctl` the `usb_mode_ctl.sh` that holds the lock. Time
  limits are flags that time sets (`late`, `armed`). `SwitchFails` is any of the exits of
  `start_uvc` and `start_upgrade` behind `stop_mode`: the gadget stays bound as nothing,
  with a receiver that nobody reaches or without one. `ReceiverDies` is the receiver's exit
  by a failing poll.
* `MotionRing`: a sample is its number, which is also its time stamp. The x block and
  the time stamps have pointers of their own (`wx`, `wp`, `rx`, `rp`), because the code reads
  them apart; y, z and the temperature go with x. `got` is what the call returns: two
  counts and an address for each of the two. mng_lock is taken per sample where the code
  takes it per batch, which allows more interleavings. A user that is added between the two
  stores of a sample (`unlucky`) has a time stamp pointer that may run behind its block, by
  less than a block (`Outside`), until a call gives it something; what it reads there is
  memory of another block, taken to be smaller or larger than every time stamp.
* `UvcFrames`: a node is an identity. `ok` is the list in order, `free` a set, since no
  step depends on its order; `slot` is `frame_node[]`, `c` and `ptr` are the locals of a
  fill, `queued` is what memory the driver has for a buffer. A sent buffer is dequeued in
  any order. An operation on a list is one step, since it holds the list's lock; that a slot
  is tested (`Test`), its node put (`GiveBack`) and the slot cleared (`Forget`) are three,
  in the fill of either thread and in `clear_uvc_frame_nodes`. The node that is put is the
  one that was tested or, read once more, the one that is there now. `Alloc` gets any
  number of nodes up to `Cache`. `crossed` and `torn` are history: which buffers were
  filled for a stream that had ended meanwhile, or queued again without a new frame. So are
  `overlap` (two threads were past the test of one slot), `enough` (the last stream got
  more nodes than there are buffers) and `twice`: a node was put that is in a list already,
  or freed. What becomes of such a list is left open; the model stops there (`Broken`).

## 3. Runs

A `pass` run checks its properties over all reachable states of the instance. Each
property also has a mutant in `PROJECT.json`: a plausible slip in the mapped
code (a test left out, a release forgotten, a counter advanced early) that makes
the same run fail.

| Run | Instance | What it shows |
|---|---|---|
| `spsc_queue` | 3 pointers, capacity 2, indices mod 8, timeout of 2 polls | the ring implements `BoundedFifo`; no slot is shared; a waiting consumer returns |
| `spsc_queue_relaxed` | capacity 1, indices mod 4 | *violation*: a stale pointer on ARMv8 |
| `stereo_pipeline` | 3 indices, 10 blocks, all failures, client, shutdown | ownership of frames and heap, what a shutdown leaks, order, frames come back, shutdown returns |
| `stereo_stages` | pairing: 4 frames per sensor, depth 2; rectification: 7 pairs, 2 buffers, queue of 2; detection: 3 frames; encoder: 4 frames; network: 4 indices, window of 3 packets; failures, late streams, shutdown | frames, inferences and packet buffers are released once; both images of an item are its own until the second pair after it is begun, and an inference never reads an older image; nothing goes back in time; what waits goes on; triplets are fresh and whole |
| `cve_npu_buffers_race` | 7 pairs, 2 buffers, queue of 1, as in the code | *violation*: CVE writes the buffer the NPU reads |
| `venc_encoder_late` | 3 frames, late streams | *violation*: a packet holds an earlier frame's image |
| `stereo_app` | 2 raw clients, every step may fail, both modes | only held resources are released, in order; channels given back; a signal ends the process |
| `ota_upgrade` | 2 components, 2 versions, 3 copies of the flag, 1 fault, 2 retries | an upgrade is atomic over power failures; "done" is done; nobody is stranded; every boot ends |
| `usb_upgrade` | 3 fragments, 2 sessions, 2 packages, 2 faults | the PC is told the truth; only whole packages are launched; the camera comes back, but for four ends that are named |
| `motion_ring` | 4 places, gap 2, 6 samples, `imu_app` and one more user | a window is answered exactly and in order; `imu_app` misses nothing the ring has |
| `uvc_frames` | 2 buffers, up to 3 nodes per stream, 4 in memory, 2 streams | but for two threads past one test: no node in two places; none overwritten while sent; a wait for a frame can end |
| `uvc_put_twice` | the same, 1 stream | *violation*: a node is put into `free_queue` twice |

Why the bounds are enough:

* `spsc_queue`: the ring is full, empty and half full at every slot, and both indices
  wrap. The number of pushes is not bounded: the state space is finite without a
  bound. Other capacities are what the proof covers.
* `stereo_pipeline`: three indices in flight fill three of the queues or threads at a
  time, and an index is reused after a drop as often as one likes, since only
  a successful push advances the counter. That all places are occupied at once
  (eight pairs) is beyond TLC here and is what the proof covers.
* `stereo_stages`, pairing: four frames per sensor make one side two frames ahead of the other
  while the thread is in the middle of a second round of the drain.
* `stereo_stages`, detection: one frame in the slot, one in the hand, one more to come.
* `stereo_stages`, rectification: seven pairs go round the two buffers three times. With a queue
  of two, one more than `g_q_npu` has, an item is overtaken in both buffers while it waits.
* `stereo_stages`, encoder: a stream is late by up to three calls.
* `stereo_stages`, network: from index 4 on frames carry one index, so the encoder never
  stops; a window of 3 cuts a connection at every place of a triplet.
* `stereo_app`: one client is served while the second waits in the backlog.
* `ota_upgrade`: the uboot partition and a component that is flashed before it; three
  copies, one of which may be bad, or torn by a power failure and not yet written again
  (`Bearable`; `MaxFaults + 2 <= N`, see the observations; the device has four); two
  retries end by success and by failure. Power failures that hit no copy, and those whose
  copy is whole again, are not bounded. Packages of different components are left
  to the proof.
* `usb_upgrade`: three fragments have a first, a middle and a last; a second session
  begins while the `ota_prepare` of the first still runs; two faults damage one fragment
  twice, or one fragment and one call, or let a switch fail and then the receiver die.
* `motion_ring`: six samples in a ring of four turn it round, and the writer pushes a user
  with its gap of two. One sample may be written in the middle of a call (`MaxSkew`);
  that the writer does not come round while a call lasts is the one assumption
  (`InCall`): the ring holds seconds of samples, a call takes microseconds.
* `uvc_frames`: with one node more than buffers, the least the code works with (it has six
  for four), any node that is not given back shows at once. The second stream starts
  while the fill of the first goes on, with one node of the first still in use; five nodes
  in memory add states and show nothing else. Nodes are a symmetry set, because nothing
  compares or orders them.
* `uvc_put_twice`: one stream and its end are enough for the two threads to meet.

Deadlock is checked in every run. A bound that ends a behaviour has a
`Finished` step, and so has the real end of the program.

### Fairness

* Every thread is scheduled (weak fairness of its steps). In `SpscQueue` that is so only
  within a call: nobody has to call again.
* A blocking send returns, because the client reads or its connection breaks. The
  code has no send timeout, so this is an assumption about the client: one that
  stays connected and stops reading hangs the net thread and with it the shutdown.
* A call of the NPU library returns; time passes (`Deadline`).
* The mutex of the detection slot is eventually given to a thread that asks over and
  over again (strong fairness of `DetLock` and `NpuLock`). pthread mutexes do not
  promise that, the scheduler of a loaded Linux system does; `WaitEnds` would not
  hold of a lock that one thread can take for ever.
* The drain of q_net finds the queue empty infinitely often: freeing a frame takes
  microseconds, encoding one takes milliseconds.
* The kernel reports a client that has gone to one of the sends that follow.
* A client connected to the raw capture port sends its command or leaves. `raw_recv_all`
  has no timeout, so this too is assumed of the client.
* `OtaUpgrade`: there is one processor, and its boot code is sequential and goes on as long
  as there is power (`WF_vars(Boot \/ WriteFlag)`).
* `UsbUpgrade`: the processes of the device are scheduled and time passes. Nothing is
  assumed of the PC. The limit of 120 s is enough for `ota_prepare` to begin, the first
  turn of the receiver's loop comes before the first command, and `usb_mode_ctl.sh` has
  ended when the gadget is bound.
  No failure has to happen and the user does nothing; `Stranded` is the step of a device
  that has no process left to act, there so that it is not taken for a deadlock.
* Nothing is assumed of the sensors, of failures or of signals.

### Findings

1. `stereo_queue.c:94`: try_pop loads `write_idx` and the slot with only a branch
   between them; its one barrier comes after both. On ARMv8 the second load may be
   done first, and the consumer returns what the slot held before
   (`PopsWhatWasPushed`). A load barrier after the test would do.
2. `stereo_cve.c:595`: with one item at the NPU and one in q_npu both buffers are taken,
   and the third pair overwrites the one being read. The comments at
   `stereo_cve.c:25-26` and `stereo_media.c:541` say this cannot be
   (`NoBufferRace`). What does hold is that the NPU never reads something older
   than its item (`NeverOlder`).
3. `stereo_venc.c:310`: a stream that comes after the poll has given up is what the
   next call acquires, so from then on the images of that channel are one frame
   late (`EncodesItsFrame`). They still come out in order (`ImagesAdvance`).
4. `ot_camera_gadget.c:189` (of `uvc_app`): the data thread tests `frame_node[i]`, puts the
   node into `free_queue` and clears the slot (189-191), and so does the event thread when a
   stream ends (111-113), with no lock that covers the three. When both are past the test, the
   node is put twice (`OnePlace`): it is linked to itself or its list is cut, and it is
   later handed out, or freed, twice. The comment at 202-204 says of the missing lock that
   "it works fine now", `frame_cache.c:224-227` that a node that was sent goes back once.
   Joining the data thread, or a lock around the fill, would do. Everything else about the
   nodes holds up to that moment (`OnePlaceApart`).

### Observations

Read in the code while modelling, and not claimed by a run.

The stereo application:

* `stereo_queue.h:81` says timeout 0 is a non-blocking try; the code with 0 polls until its
  flag is cleared. `stereo_queue.h:79` says it returns when the flag becomes
  non-zero; it returns when the flag is `OT_FALSE`. The model follows the code: in
  `WaiterReturns` the wait ends with `Timeout > 0` or with `~run`.
* A single new frame that is ahead of the other side ends the drain at once
  (`stereo_media.c:1083`), with different indices left and right, though the comment at
  1042-1046 says it goes on until both match or both channels are empty. What holds is
  `NeverBack`.
* The NPU thread's exits for a failing malloc or `stereo_subpixel_process`
  (`stereo_media.c:1275-1344`) skip `stereo_yolo_wait`, although an inference of the
  detector is in progress and the comment at 1243-1244 says it is waited for
  (`InferencesFinished` leaves out these as "orphaned"). Conversely, the exit for a
  failing trigger waits with -1 for an inference that nobody has triggered.
* The detections are written by the NPU thread and read by the net thread without a lock
  (`stereo_network.c:205`, `stereo_yolo.c:561-594`).
* `stereo_media.c:1441`: when `venc_out` cannot be allocated, `out` is freed but not its
  disparity map. `HeapAccounted` states exactly this loss (`lost`) and no other.
* The results of pthread_create are not looked at (`stereo_media.c:788`); the models
  start with all threads there.
* The timed wait uses `CLOCK_REALTIME` (`stereo_media.c:927`): a clock set back makes
  it longer.
* `stereo_venc.c:223` destroys three channels, two of which were created.
* Items that are still queued when the queues are destroyed (`stereo_media.c:889-893`) are
  leaked: `stereo_queue_destroy` frees the slots, not what they point to. Their heap objects
  are never freed, and the VPROC pairs of those in the first three queues never given back,
  to channels that were stopped at 885-886. `Join` moves them to `leaked`;
  `HeapAccounted` and `FramesOwned` say that nothing else is leaked but `lost`.
* A map that fails after the left image (`stereo_cve.c:601`) leaves a buffer half
  written, and an item that waits may name that buffer: one pair in buffer 0, one in buffer 1,
  a third that writes left of buffer 0 and fails. `ImagesKept` says how far the two
  buffers protect an item, and no farther: until the second pair after it is begun.
* The three user buffer pools are never destroyed (`stereo_media.c:653`), and a
  failing `stereo_cve_init`, `stereo_venc_init` or `stereo_network_init` leaves the
  detector's model loaded (`stereo_media.c:426`): `ReleasesExactly` names both. The buffer pool
  module goes before its pools, and the rectification tables before the VPROC
  groups that use them: `Needs` leaves both out and says so.
* EINTR from a signal is taken for a lost client by the send and receive loops.

The upgrade over flash:

* A copy of the flag that a power failure tore is not repaired before the next full
  write of the flag, so faults add up: everything in `OtaUpgrade` holds while two copies
  are left (`MaxFaults + 2 <= N`).
* The OTFL reads the copies raw, without the table of bad blocks that U-Boot and Linux
  use. A stale PENDING in a bad block makes it load the recovery U-Boot for ever; that is
  why `RecoveryFromOtfl` states one direction only.
* A power failure does not consume `retry_count`: only errors do.
* A write of the flag by `ota_prepare` that is torn after a FAILED flag with a non-empty mask
  drops the request; a second `ota_prepare` may store its package while the first's flag is
  pending, which is then the package that is flashed.

The upgrade over USB:

* A package that fails its check makes `rx_finish_check` call `media_resume`, that is
  `usb_mode_ctl.sh uvc`, before FAILED is reported; a second later that script kills the
  receiver. A session that the PC begins at once, as the comment at `usb_receiver.c:669-670`
  invites it to ("the PC may start a fresh upgrade immediately"), is lost with it.
* Any exit of `usb_mode_ctl.sh` behind `stop_mode` (56, 60, 85-86, 95, 99, 106-107, 109)
  leaves the gadget bound as nothing, and the watchdog of 110-122 is started only after the
  last of them, so nothing tries again (`NoGadget`).
* A receiver that ends by a failing poll in a session leaves the file `ENTERED`, whose absence is what
  the script's watchdog looks for: it stays silent, and the device stays in the upgrade mode
  without a receiver (`NoReceiver`). Before a session the watchdog does bring the camera back.
* CMD_SEND_PACKAGE that succeeds does not clear an earlier error code. A dropped control
  command would leave PC and receiver one fragment apart; the model's transfers are
  synchronous, as USB's are.
* `status_boot_init` takes any stage but IDLE for stale, which is wrong when
  `usb_mode_ctl.sh` restarts the receiver while `ota_prepare` works. `ota_prepare.c:172-173`
  says the receiver only reads the status file then, but its watchdog writes FAILED.
* A failing `ota_prepare` writes FAILED and then unlinks the package by name, by which time
  the name may be that of the next session's package: `LaunchesWhole` allows "no file" for
  that reason. Nothing watches over an `ota_prepare` that was killed while VERIFYING or
  FLASHING.
* The comment says 30 s where the script sleeps 60.

The motion sensor ring:

* `motionsensor_buf.h:21-25` says that `WR_GAP` keeps the writer away from what is read; but
  `msensor_buf_get_data` walks back to the write pointer, and it releases before the
  program copies, so a slow reader's samples may be overwritten while it copies them.
* A call whose pointer is at the writer and that does not walk back from it, with
  `g_forward` TRUE, returns nothing although the ring has samples of its window.
* A user added in the middle of a write gets pointers of the x block and the time stamps that
  are one sample apart ("unlucky"); one of them may lie behind its block, and the first
  call then reads other memory. A flag stays FALSE if a user is deleted between get and
  release. `msensor_buf_deinit` unmaps the ring without the lock.
* `workqueue_call_times++` in the timer (`icm42670.c:2176-2190`) races with its decrement.

The USB camera:

* `uvc_frame_nodes_free` compares an index that rises with a count that falls
  (`frame_cache.c:239`): half of `ok_queue` outlives the stream, though `frame_cache.c:324` says
  "free all frame node". The next stream begins with frames of the last one.
* A fill gives up after 100 turns of 5 ms (the comment at `ot_camera_gadget.c:209` says 30) and
  the buffer is queued again with the memory it had, whose node another thread may be
  writing: `SendsWhole` leaves these buffers out, and those whose fill crossed the
  end of the stream. Two fills of one slot can also lose a node.
* A start whose first fill finds no frame leaves the stream off, without an answer to the host.
  `sample_uvc_sc_startup` returns success when it failed (`uvc_media.c:820`).
* The result of `uvc_frame_nodes_alloc` is not looked at (`ot_camera_gadget.c:373`). A malloc
  that fails leaves fewer nodes, and with no more of them than buffers all can be with the driver
  while a fill waits for one: the camera freezes until the host starts it again.
  `FramesComing` excepts such a stream (`enough`); the others hold for it too.

## 4. Proofs

TLC checks small instances; the theorems hold for every value of the constants that
satisfies the named assumptions of the modules.

### The ring (`SpscQueueProofs`)

`TypeCorrect` (`TypeOK`), `Exclusion` (`SlotExclusive`) and `Refinement`
(`ImplementsFifo`), from `QueueAssumption`: the capacity divides the number of index
values and is smaller. That is what the power of two checked by `stereo_queue_init`
gives. Neither property is inductive. The invariant adds `CountInv` (the difference of
the indices is the number of pointers in the ring, at most `Capacity`, and what each
thread knows of it between its test and its publication) and `ContentInv`
(what the slots between the indices contain, and what the consumer has loaded).
Refinement maps the contents of the slots between the two indices to the abstract
queue; the step that publishes the index is the abstract push, the one that
advances `read_idx` is the abstract pop, all others stutter. The difficulty is the
arithmetic of indices that wrap while slots are picked modulo the capacity; the lemmas
on `%` come first in the module.

### The pipeline (`StereoPipelineProofs`)

`TypeCorrect` (`TypeOK`), `OwnedFrames` (`FramesOwned`), `OrderKept` (`InOrder`),
`HeapBalance` (`HeapAccounted`), and two that no instance of feasible size can show:

* `CaptureNeverStarves`: with `PoolBlocks >= 10`, the number
  `stereo_user_buf_pool_create` asks for, at most eight pairs are in use at a
  time, nine during the drain, so a block is always left to the hardware, whatever
  the client does and however many pairs come.
* `DestroyIsLast`: when `stereo_media_shutdown` destroys the queues, all users are gone.

The pipeline is seen as a line of nine places, from the net thread's hand through the
queues and hands back to get_frm's. The module first proves, for any such line, that the
moves the actions make (pop, push, loss of a hand, loss of a head, entry at the end) keep
it ordered and do to its set of members what one expects; these lemmas know nothing of
the pipeline. The inductive invariant is `StructInv` (types, the labels of each thread,
a thread holds an item exactly at some of them), `JoinInv` (a joined thread has
left), and until the last join `HeapHeld` (what `HeapAccounted` says when nothing is leaked),
`LineInv` (the line is ordered, below `frame_cnt` and from the
second place on not below `taken`) and `OwnInv` (frame `i` is acquired once if `i` is in
the part of the line that has frames, else not at all). `OwnInv` says "once" where
`FramesOwned` counts occurrences; the order of the line connects the two, because an
item can occur only once in an increasing line. That is why order and ownership have
to be proved together. The last join empties the line into `leaked`; from then on no thread
is left that could act, and the invariant is the properties themselves (`Closed`).

### The stages (`StereoStagesProofs`)

`TypeCorrect` (`TypeOK`), `Released` (`ReleasedOnce`), `Finishes`
(`InferencesFinished`), `ImagesStay` (`ImagesKept`), `NeverOlderImages`
(`NeverOlder`), `Whole` (`FreshAndWhole`) and `Advances` (`NeverBack`), from
`StagesAssumption`: any number of frames, pairs and buffers, any depth of the queues, any
window of the connection, any set of failures. A step of one stage leaves the variables of the
others alone, so each stage has its own inductive invariant:

* `PInv`, of the pairing: `PairShape` says which frames the thread holds at each label,
  `PairOrder` that indices rise from the frame last handed on over those held to the
  ones that wait in the channel. Without it nothing says that the frame taken later is newer.
* `BInv`, of the rectification: `BNewest` says that nothing is newer than the pair in work,
  that a map that was done left that pair's image in the current buffer, and that the
  right image the NPU has not read yet is no older than its item. `BAhead` says that the
  index reaches the buffer of an item only at the `BufNum`-th pair after it; a failing map does
  not move the index, so the distance round the buffers and the number of the pair are
  weighed together.
* `DInv`, of the detection: `DetectShape` says who owns the mutex, and that an inference
  runs only between its trigger and its output; `DetectOrder` that numbers rise
  from the frame consumed to the slot and the hand; `DetectHeld` where a frame may be.
* `VInv`, of the encoder: `EncodeShape` says what the output has got at each label,
  `EncodeOrder` that the streams and what is still being coded of a channel rise between
  the image last given out and the one last sent. It is what makes a late stream,
  left over from a call that gave up, older than the image the next call asks for.
* `NInv`, of the network: what the receiver has got, what is on the wire and what
  the net thread sends next are consecutive (`Follows`), a triplet that broke off is
  followed by nothing on its connection, and the queue holds nothing older than the
  item in hand. `FreshAndWhole` alone is not inductive, since it speaks of the wire only.

### The process (`StereoAppProofs`)

`AppTyped` (`AppTypeOK`), `WaysOutReleaseExactly` (`ReleasesExactly`) and
`RawCapturesClean` (`CapturesClean`), for every set of steps that may fail
(`LifecycleAssumption`: "queues" and "threads" have no failing path) and any number of
clients (`AppAssumption`). The run makes every step fail; the theorems add every
smaller set of steps and clients without a bound. What they are worth is the argument, which
a change of a script or of a label has to go through again:

* On the way in (`IGoing`, `Along`): what is held are the resources of the steps made so far,
  all of them but optional ones. `InitSupplies` and `StartupSupplies` say that each step
  finds in it what it uses.
* On the way out (`ILeaving`): what is left to release is `Orderly` for what is held: each
  resource comes while it is there, or its function does not mind, and after all that use it.
  `Shed` shows that one release keeps that, `Compose` that two orderly lists in a row
  are one. `InitFails`, `StartupFails` and `ShutdownOrderly` show for each label of the
  code that its list is orderly where it is entered, and that with `sys_deinit` it covers
  all that is held but what `ReleasesExactly` excepts.
* Of the server (`RawInv`): a channel is dumped between two steps of its capture and at no other
  time, and `Answer` relates the cameras to come, the frames sent and the mask.
* Of both (`ServerHeld`): a server that has a thread which is not joined is one of the
  resources held. With `ISupplied` so are the VI devices it dumps, and that is why the
  three steps of its stop may interleave with it.

### The ring of samples (`MotionRingProofs`)

`TypeCorrect` (`TypeOK`), `CallsExact` (`RangeExact`) and `StreamMissesNothing`
(`StreamComplete`), for every number of places, every gap and every set of users, from
`RingAssumption`. The two action properties say what a call of `msensor_buf_get_data`
answers, so most of the module is about what its two walks find:

* Places are counted by their offset from the write pointer (`Place`, `Off`). The sample at
  offset `o` is `Stamp(written, o)`, so along the offsets time rises (`Content`).
* The walk back ends at the oldest sample or at one no younger than the window
  (`BackEnds`), the walk forward is an interval of offsets that ends at the writer or behind the
  window (`Walk`; `ForwardSlot`, and `ForwardOutside` for a pointer behind the block,
  whose first step reads other memory). Both are the least of a set of numbers of
  steps; that there is one is well-foundedness (`LeastIs`).
* What lies in the window is then the end of that interval (`Batch`), in one piece or
  in two, and as a sequence it is what is in the ring (`GivenExact`). `FoundAnswer` puts the three
  together, and says where the pointer comes to lie behind what was given.

`Invariance` is the induction: `RingInv` says what the ring holds, also between the two
stores of a sample, and `UserOK` that the two pointers of a user agree unless it is unlucky,
and that what it has got lies within the block. `CallsExact` follows, since `RangeExact`
is about one call in any state that the invariant allows.

`StreamComplete` relates a call to the ones before it, and needs `SInv`, which adds
`StreamOK`: what was taken since the stream's last window lies between its pointer and the
writer's, or the writer pushes it on (`Fresh`). It is proved under `MaxSkew <= Slots - Gap`: the
samples written between a call's look at the FIFO and the release of what it gave do not
reach the gap that the writer keeps free. The hypothesis is needed: with `Slots = 3`,
`Gap = 2`, `MaxSkew = 2` and `imu_app` alone TLC finds a call that misses a sample. The run has
4, 2 and 1.

### The frame cache (`UvcFramesProofs`)

`TypeCorrect` (`TypeOK`), `NodesInOnePlace` (`OnePlaceApart`), `FramesWhole` (`SendsWhole`) and
`FramesCome` (`FramesComing`), for every number of buffers, of nodes per stream and of
streams, from `UvcAssumption`: more nodes than buffers, and a memory that is finite. All but
the types are about states in which no two threads have been past the test of one slot
(`~overlap`): the finding is that they may be, and the theorems, that nothing else is wrong.

`OnePlace` with the types is nearly inductive, since one conjunct says that every
node some place names is allocated: a node that malloc returns is then in no place, and
what `uvc_frame_nodes_free` frees is in none either, because it is in `free_queue`. `IGive`
adds what the three steps of giving a node back rest on: a slot that a thread has found full is
full until that thread clears it, and the node it is about to put is in nobody else's slot,
hand or list, also when it is not the one that is in the slot any more. Two
lemmas say what `ok_queue` holds after its oldest node is taken and after one is
added; the action lemmas have only to say from which place to which a node moves.

The other two need to know where the event thread is. What it has left to do is a suffix of
`Enable` or of `Disable` (`PlanStep`), and `IPlan` says what the rest of the state
is at each: no stream is on while it clears the slots or fills the first buffers, no media thread
runs while the nodes are allocated, and a data thread that has not crossed the end of its stream
has a stream. `ILoss` says which slots are empty while a fill of the old stream is still
under way, since only that fill could put something into them; hence, with `~overlap`,
a thread that puts a node finds the one it tested (`IOld`).

* For `FramesWhole`, `IQueued` says what the driver has: nothing from the end of a stream
  on but the buffers already filled for the next, and all of them once that is done. So
  whatever a data thread of the old stream queues late is refused. `IEvent` and `IData` say
  that what a thread is about to queue is what `frame_node` remembers, `INull` that a late
  thread has marked the slot it is about to clear, and `IWhole` carries
  `SendsWhole` over the time in which no stream is on.
* For `FramesCome`, nodes are counted. A node is lost when one thread fills a slot that the other
  has just filled, which takes a data thread that crossed the end of a stream. `ICount` says
  that as many nodes are somewhere as there are buffers, and one more while such a loss may
  still come (`Over`, `Late`), so that the nodes that are left are not all in slots
  while somebody waits with an empty one.

### The upgrade over flash (`OtaUpgradeProofs`)

`OtaTyped` (`TypeOK`), `OtaRecovery` (`RecoveryFromOtfl`), `OtaDone` (`DoneIsFlashed`),
`OtaNeverStranded` (`NeverStranded`) and the refinement `OtaRefines`
(`UpgradeIsAtomic`), all from `OtaInvariant`. They hold for every number of copies,
faults, components, packages and retries that satisfies `CopiesAssumption` (two copies are
left), `CompsAssumption`, `RetriesAssumption` and `MaskAssumption` (a larger set of
components has a larger mask; that is what an integer of bits does).

What makes it hard is that a flag is N copies, written one at a time, and that a power
failure may leave any mixture of old and new ones, which `uflag_read` then resolves by
taking the largest mask among the valid copies, the lowest index among equals
(`BestFact`, over `LeastNat`, says what its CHOOSE picks). The invariant says which
mixtures there can be, by where the processor is:

* `IResting` (power off, or in the boot chain before the flag is read): the copies are
  `Mixture`. If the flag that wins asks for an upgrade, then every copy that does not ask is
  behind one that does (`Led`), the copies that ask are stages of one upgrade
  (`Ordered`), and what their masks call done is flashed; otherwise all copies have the
  winner's state but older ones that it beats (`Settled`).
* `ILinux`, `IWorking`, `IVerify`: what the programs of each stage may rely on after
  they have read the flag.
* `IPass`, `ILinuxPass`, `IStartPass`, `IWorkPass`: in the middle of a write, what is
  already written (`Over`) holds the new flag, and what is not (`Old`) is still the
  mixture it was. The three kinds of pass differ, because Linux writes the copies upwards
  and U-Boot downwards, and because the first pass of an upgrade meets copies of
  older requests. After each copy the two parts together have to be a `Mixture` again,
  since the power may fail there.
* `IHalf`: a half-written component belongs to the running upgrade, and the package in the
  volume can finish it. `IBlank`: while copies were never written, the first upgrade
  has not begun. `IShape`, `ILoader`: the masks of fresh flags, the U-Boot that runs.

In the refinement a pass changes the abstract state with the write of one copy, the one
from which the new flag wins: of Linux's pass that is a `Request` (`LinuxCopyRefines`); of
U-Boot's first pass the last copy is `Begin` (`StartCopyRefines`), of its others the
last is `Finish` and the first that outweighs what is left `GiveUp`
(`WorkCopyRefines`). A component's erase and its verification are `Install`
(`ComponentRefines`); a power failure stutters.

### The upgrade over USB (`UsbUpgradeProofs`)

`UsbTyped` (`TypeOK`), `PcIsTold` (`StatusTellsTheTruth`) and `OnlyWhole`
(`LaunchesWhole`, an action property), for every number of fragments, sessions, packages
and faults and for any table of percentages, from `UsbAssumption`. Neither property is
inductive: the status after a fragment depends on where the PC and the
receiver were before it. The invariant adds

* `IReceived`: what was received is the beginning of the package, less than all of it while
  the receiver is still in RECEIVING, and `upgrade.img` has exactly that as long as
  the descriptor is the file's. When it is not, because an `ota_prepare` that failed has
  unlinked the file of the next session, the file is gone and stays so.
* `ITogether`: the PC is at the fragment that is due or at the one before it; when it
  asks for the status, the error code says whether the last fragment was intact, and
  if none is shown, the fragment is in. A fragment that is sent again is therefore
  the one accepted last, which the receiver takes as a success, and never another.

For `OnlyWhole`, `OneMore` says what a fragment more makes of package and file, and
`NoOtherLaunch` that no step but that of the last fragment starts an `ota_prepare`.
The percentages do not matter: `Write` clears an error that shows, whatever they are.

### Not proved

* Liveness (`WaiterReturns`, `FramesReturn`, `ShutdownReturns`, `WaitsEnd`, `QuitEnds`, `BootEnds`,
  `CameraComesBack`) is model-checked only: fairness and ENABLED are out of
  this prover's reach. So is induction over data, and so are recursive operators; the
  modules have none.
* That `FramePairing`, `DetectionLoop`, `CveNpuBuffers`, `VencEncoder` and
  `StereoNetwork` are details of single actions of `StereoPipeline` is an argument of
  this document, not a checked refinement.

## 5. What is not modelled

In the stereo application: sensor, VI, ISP and VPROC parameters; pixels (colour
conversion, upsampling, subpixel refinement, depth tables); the bytes of packets, of
LZ4 and of the box decoder; the licence check. All of it is data or straight-line calls.
Detections published by the NPU thread and read by the net thread without a lock
(`stereo_network.c:205`, `stereo_yolo.c:561-594`) are a hazard listed without a
property.

In the modelled other parts: the layout and checksums of packages, the USB endpoints, the
registers and the FIFO format of the sensor, the interpolation of time stamps, the
serial protocol of `imu_app`, the control requests and the audio function of `uvc_app`, the
DDR training and the drivers of the boot loader.

In the rest of the repository:

| Part | Reason |
|---|---|
| `npu/samples/dual_model_abab` | a demonstration; its frame slot under a mutex and a condition (`camera.c:450-630`) is the pattern of `DetectionLoop` |
| `smr` | a sequential search in a list of blocks under one lock; ioctl marshalling |
| other NPU and media samples, `scene_auto` | demonstrations of closed libraries, at most one polling thread |
| media interfaces, other component interfaces | headers of closed libraries |
| sensor, screen, serdes and peripheral drivers, `kal` | register tables, one call each |
| `upgrade/sample` | a demonstration of a closed library |
| vendored code, build, board and host scripts | not the project's own logic |

## 6. What could follow

* A checked refinement between `FramePairing` and the acquisition step of
  `StereoPipeline`.
* The allocator of `smr`, with users that die while they hold blocks.
