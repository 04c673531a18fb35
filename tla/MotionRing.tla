----------------------------- MODULE MotionRing ------------------------------
(***************************************************************************)
(* The ring of motionsensor_buf.c, in which the driver of the inertial      *)
(* sensor keeps the newest samples, and the programs that ask it for the    *)
(* samples of a time window: imu_app, whose windows follow one another      *)
(* without a gap, and others whose windows lie anywhere (dis_dump, and the  *)
(* library that stabilises images).                                         *)
(*                                                                         *)
(* The samples are 1 .. MaxPts, in the order in which they were taken, and  *)
(* their number is their time stamp; 0 is what the memory was cleared to.   *)
(* Five blocks of the ring (x, y, z, temperature, time stamp) are written   *)
(* at one index.  They have a pointer each: y, z and the temperature go     *)
(* with x.  One data type is modelled; the other has blocks and pointers of *)
(* its own and shares mng_lock and g_forward, as another user does.         *)
(***************************************************************************)
EXTENDS Integers, Sequences, FiniteSets

CONSTANTS
    Slots,          \* samples in a block
    Gap,            \* WR_GAP
    MaxPts,         \* bound: samples taken
    MaxSkew,        \* bound: samples written in the middle of a call
    Streams,        \* users that read window after window
    Browsers        \* users that ask for any window

Users == Streams \cup Browsers
Slot == 0 .. Slots - 1
Sample == 1 .. MaxPts

\* Where a pointer of the time stamps may come to lie behind its block: it is less
\* than a block ahead of the pointer of x, which stays inside.
Outside == Slots .. 2 * Slots - 2

ASSUME RingAssumption ==
    /\ Slots \in Nat /\ Gap \in Nat /\ 0 < Gap /\ Gap < Slots
    /\ MaxPts \in Nat /\ MaxSkew \in Nat
    /\ Streams \cap Browsers = {}

VARIABLES
    taken,          \* the last sample in the FIFO of the sensor
    written,        \* the last sample in the ring
    pts,            \* the block of the time stamps, and of what goes with them
    wx, wp,         \* write_ptr of the x block, and of the time stamps
    busy,           \* mng_lock is held by a writer
    ctx,            \* the users with a context
    rx, rp,         \* their read_ptr of the x block, and of the time stamps
    released,       \* g_already_released
    forward,        \* g_forward, which all users share
    pc,             \* where a user is
    window,         \* the window it asked for
    got,            \* what msensor_buf_get_data gave it
    unlucky         \* history: users added while a sample was written, and not
                    \* yet given anything

ring == <<taken, written, pts, wx, wp, busy>>
vars == <<ring, ctx, rx, rp, released, forward, pc, window, got,
          unlucky>>

NoWindow == [begin |-> 0, end |-> 0, fence |-> 0]
Nothing == [x |-> 0, at |-> 0, n0 |-> 0, n1 |-> 0]

\* msensor_buf_init: an empty ring and no users.
Init ==
    /\ taken = 0 /\ written = 0
    /\ pts = [i \in Slot |-> 0]
    /\ wx = 0 /\ wp = 0
    /\ busy = FALSE
    /\ ctx = {}
    /\ rx = [u \in Users |-> 0] /\ rp = [u \in Users |-> 0]
    /\ released = [u \in Users |-> TRUE]
    /\ forward = TRUE
    /\ pc = [u \in Users |-> "out"]
    /\ window = [u \in Users |-> NoWindow]
    /\ got = [u \in Users |-> Nothing]
    /\ unlucky = {}

-----------------------------------------------------------------------------
(* The writer: msensor_mng_write_data_to_buf, from the work of the sensor's *)
(* timer or from a reader that empties the FIFO first.                      *)

Sampled ==
    /\ taken < MaxPts
    /\ taken' = taken + 1
    /\ UNCHANGED <<written, pts, wx, wp, busy, ctx, rx, rp, released, forward,
                   pc, window, got, unlucky>>

\* The readers whose x pointer is Gap samples ahead of the writer.
Overflowing == {u \in ctx : rx[u] = (wx + Gap) % Slots}

PushedWithoutReset(u, p) == p[u] + 1    \* mutant: no wrap at the block's end
\* They are moved on by one sample.  Only x tells whether the block ends, and
\* then all pointers start again.
Pushed(u, p) == IF rx[u] + 1 >= Slots THEN 0 ELSE p[u] + 1

\* A call is short: the writer does not come round while it lasts.
InCall(u) == pc[u] \in {"adding", "flush", "release"}

\* The loop over the users, the sample, and the pointers up to the temperature's.
WriteSample ==
    /\ ~busy
    /\ written < taken
    /\ \A u \in Users : InCall(u) => written < window[u].fence + MaxSkew
    /\ busy' = TRUE
    /\ rx' = [u \in Users |-> IF u \in Overflowing THEN Pushed(u, rx) ELSE rx[u]]
    /\ rp' = [u \in Users |-> IF u \in Overflowing THEN Pushed(u, rp) ELSE rp[u]]
    /\ pts' = [pts EXCEPT ![wx] = written + 1]
    /\ written' = written + 1
    /\ wx' = (wx + 1) % Slots
    /\ UNCHANGED <<taken, wp, ctx, released, forward, pc, window, got,
                   unlucky>>

\* The pointer of the time stamps, and the unlock.
WriteDone ==
    /\ busy
    /\ wp' = wx
    /\ busy' = FALSE
    /\ UNCHANGED <<taken, written, pts, wx, ctx, rx, rp, released, forward, pc,
                   window, got, unlucky>>

-----------------------------------------------------------------------------
(* A user comes and goes.                                                  *)

\* msensor_buf_add_user_create_ctx reads the write pointers one after the other,
\* under the lock of the user and not that of the writer, and prints a line before it
\* comes to the second data type.
AddX(u) ==
    /\ pc[u] = "out"
    /\ rx' = [rx EXCEPT ![u] = wx]
    /\ pc' = [pc EXCEPT ![u] = "adding"]
    /\ window' = [window EXCEPT ![u].fence = written]
    /\ UNCHANGED <<ring, ctx, rp, released, forward, got, unlucky>>

\* Where the next window of a stream begins.
Since(u, e) == [NoWindow EXCEPT !.end = IF u \in Streams THEN e ELSE 0]

\* imu_app then takes the time, where its first window begins.  The 50 ms for which
\* add_user sleeps first are left out.
AddPts(u) ==
    /\ pc[u] = "adding"
    /\ rp' = [rp EXCEPT ![u] = wp]
    /\ forward' = TRUE
    /\ ctx' = ctx \cup {u}
    /\ pc' = [pc EXCEPT ![u] = "idle"]
    /\ window' = [window EXCEPT ![u] = Since(u, taken)]
    /\ unlucky' = IF rx[u] = wp THEN unlucky ELSE unlucky \cup {u}
    /\ UNCHANGED <<ring, rx, released, got>>

\* msensor_buf_delete_user.
Delete(u) ==
    /\ pc[u] = "idle"
    /\ ~busy
    /\ ctx' = ctx \ {u}
    /\ rx' = [rx EXCEPT ![u] = 0]
    /\ rp' = [rp EXCEPT ![u] = 0]
    /\ pc' = [pc EXCEPT ![u] = "out"]
    /\ window' = [window EXCEPT ![u] = NoWindow]
    /\ unlucky' = unlucky \ {u}
    /\ UNCHANGED <<ring, released, forward, got>>

-----------------------------------------------------------------------------
(* msensor_buf_get_data.                                                   *)

\* A window: that of imu_app begins behind the last one and ends now.  Its end
\* has to lie behind its beginning.  The samples up to "fence" have been taken
\* when the call empties the FIFO.
Ask(u) ==
    /\ pc[u] = "idle"
    /\ \E b, e \in Sample :
        /\ u \in Streams => b = window[u].end + 1 /\ e = taken
        /\ b < e
        /\ window' = [window EXCEPT ![u] = [begin |-> b, end |-> e, fence |-> taken]]
    /\ pc' = [pc EXCEPT ![u] = "flush"]
    /\ UNCHANGED <<ring, ctx, rx, rp, released, forward, got, unlucky>>

\* What is read through a pointer of the time stamps.  Behind the block lies the
\* memory of another one, which g stands for.
At(p, g) == IF p \in Outside THEN g[p] ELSE pts[p]

Least(S) == CHOOSE k \in S : \A l \in S : k <= l

\* The pointer k steps before p, and k steps behind it.
Back(p, k) == IF k <= p THEN p - k ELSE (p - k) % Slots
Ahead(p, k) ==
    IF k = 0 THEN p ELSE (IF p \in Outside THEN k - 1 ELSE p + k) % Slots

\* msensor_buf_arrive_back_start_addr: steps back to a sample no younger than the
\* window, at most to the write pointer.
StepsBack(u, g) ==
    Least({k \in 0 .. 2 * Slots :
             LET p == Back(rp[u], k) IN At(p, g) <= window[u].begin \/ p = wp})

StepsAheadToWrite(u, q, fwd, g) ==  \* mutant: g_forward is not looked at
    Least({k \in 0 .. Slots + 1 :
             Ahead(q, k) = wp \/ At(Ahead(q, k), g) > window[u].end})

\* msensor_buf_get_data_process: steps forward from q, to the write pointer or to
\* a sample behind the window.  The write pointer does not count at the start, if
\* one has walked back to it: then its sample is the oldest one.
StepsAhead(u, q, fwd, g) ==
    Least({k \in 0 .. Slots + 1 :
             \/ Ahead(q, k) = wp /\ (k > 0 \/ fwd)
             \/ At(Ahead(q, k), g) > window[u].end})

FoundKeepsX(u, q, steps, g) ==      \* mutant: x moves by as much as the time stamps
    LET hits  == {k \in 0 .. steps - 1 :
                    At(Ahead(q, k), g) \in window[u].begin .. window[u].end}
        first == IF hits = {} THEN q ELSE Ahead(q, Least(hits))
        after == {k \in hits : Ahead(q, k) < first}
    IN  [x |-> (rx[u] + first - rp[u]) % Slots, at |-> first,
         n0 |-> Cardinality(hits \ after), n1 |-> Cardinality(after)]

\* What lies in the window: its first place, in the blocks of x and of the time
\* stamps, and the numbers of places before and after the end of the block.  The
\* x pointer is set anew from that of the time stamps.
Found(u, q, steps, g) ==
    LET hits  == {k \in 0 .. steps - 1 :
                    At(Ahead(q, k), g) \in window[u].begin .. window[u].end}
        first == IF hits = {} THEN q ELSE Ahead(q, Least(hits))
        after == {k \in hits : Ahead(q, k) < first}
    IN  [x |-> first, at |-> first,
         n0 |-> Cardinality(hits \ after), n1 |-> Cardinality(after)]

\* The FIFO has been emptied into the ring; then, under mng_lock, both walks.
\* Without data nothing has to be released.
Get(u) ==
    /\ pc[u] = "flush"
    /\ written >= window[u].fence
    /\ ~busy
    /\ u \in ctx /\ released[u]
    /\ \E g \in [Slots .. rp[u] -> {0, MaxPts + 1}] :
        LET back  == StepsBack(u, g)
            q     == Back(rp[u], back)
            fwd   == forward /\ back = 0
            steps == StepsAhead(u, q, fwd, g)
            info  == Found(u, q, steps, g)
        IN  /\ got' = [got EXCEPT ![u] = info]
            /\ forward' = (fwd \/ steps > 0)
            /\ released' = [released EXCEPT ![u] = info.n0 + info.n1 = 0]
            /\ rx' = [rx EXCEPT ![u] = info.x]
            /\ rp' = [rp EXCEPT ![u] = info.at]
            /\ unlucky' = IF info.n0 + info.n1 = 0 THEN unlucky ELSE unlucky \ {u}
    /\ pc' = [pc EXCEPT ![u] = "release"]
    /\ UNCHANGED <<ring, ctx, window>>

\* Where a pointer is put behind what was got.
Behind(info, p) ==
    IF info.n1 > 0 THEN info.n1
    ELSE IF info.x + info.n0 >= Slots THEN 0 ELSE p + info.n0

\* msensor_buf_release_data, which get_data itself calls once it has given back
\* mng_lock.  The program copies the samples afterwards, and its own
\* MSENSOR_CMD_RELEASE_BUF finds them released.
Release(u) ==
    /\ pc[u] = "release"
    /\ ~busy
    /\ IF released[u] THEN UNCHANGED <<rx, rp, released>>
       ELSE /\ rx' = [rx EXCEPT ![u] = Behind(got[u], got[u].x)]
            /\ rp' = [rp EXCEPT ![u] = Behind(got[u], got[u].at)]
            /\ released' = [released EXCEPT ![u] = TRUE]
    /\ got' = [got EXCEPT ![u] = Nothing]
    /\ window' = [window EXCEPT ![u] = Since(u, window[u].end)]
    /\ pc' = [pc EXCEPT ![u] = "idle"]
    /\ UNCHANGED <<ring, ctx, forward, unlucky>>

User(u) ==
    AddX(u) \/ AddPts(u) \/ Delete(u) \/ Ask(u) \/ Get(u) \/ Release(u)

Next == Sampled \/ WriteSample \/ WriteDone \/ \E u \in Users : User(u)

Spec == Init /\ [][Next]_vars

-----------------------------------------------------------------------------
(* Properties.                                                             *)

TypeOK ==
    /\ taken \in 0 .. MaxPts /\ written \in 0 .. taken
    /\ pts \in [Slot -> 0 .. MaxPts]
    /\ wx \in Slot /\ wp \in Slot /\ (~busy => wx = wp)
    /\ busy \in BOOLEAN /\ forward \in BOOLEAN
    /\ ctx \subseteq Users
    /\ rx \in [Users -> Slot \cup Outside] /\ rp \in [Users -> Slot \cup Outside]
    /\ unlucky \subseteq ctx
    \* The pointers go together and stay in the block, but for the time stamps' after
    \* an unlucky AddX, which x is then set from.
    /\ \A u \in ctx \ unlucky : rx[u] = rp[u] /\ rp[u] \in Slot
    /\ released \in [Users -> BOOLEAN]
    /\ pc \in [Users -> {"out", "adding", "idle", "flush", "release"}]
    /\ window \in [Users -> [begin : 0 .. MaxPts, end : 0 .. MaxPts,
                             fence : 0 .. MaxPts]]
    /\ got \in [Users -> [x : Slot \cup Outside, at : Slot \cup Outside,
                          n0 : 0 .. Slots, n1 : 0 .. Slots]]

\* The time stamps at the places got, read through the x or the other addresses.
Stamps(info, p) ==
    [k \in 1 .. info.n0 + info.n1 |->
        IF k <= info.n0 THEN pts[p + k - 1] ELSE pts[k - info.n0 - 1]]

\* The samples of a window that the ring still has.
InRing(w) == {s \in w.begin .. w.end : \E i \in Slot : pts[i] = s}

Increasing(s) == \A i, j \in DOMAIN s : i < j => s[i] < s[j]

\* What a user is given at once is, in the order of time and each once, every
\* sample of its window that the ring has, with the axes and the time stamp of
\* one sample at each place; whatever was written since its pointer was set,
\* however often the ring has turned round, and whoever walked before it.  If its
\* pointer is at the writer it may be given nothing, and if an unlucky AddX has put it
\* behind the block, less.
RangeExact ==
    [][\A u \in Users : pc[u] = "flush" /\ pc'[u] = "release" =>
        LET info   == got'[u]
            stamps == Stamps(info, info.at)
            wanted == InRing(window[u])
            given  == {stamps[k] : k \in DOMAIN stamps}
        IN  /\ Increasing(stamps)
            /\ Stamps(info, info.x) = stamps
            /\ given \subseteq wanted
            /\ rp[u] # wp /\ u \notin unlucky => given = wanted
      ]_vars

\* imu_app, window after window, gets every sample that was taken up to its call and
\* is still in the ring, although its windows do not overlap and its pointer is at the
\* writer whenever it has caught up.  What an unlucky AddX has put behind the block
\* reads other memory in its first call.
StreamComplete ==
    [][\A u \in Streams :
        pc[u] = "flush" /\ pc'[u] = "release" /\ u \notin unlucky =>
            LET stamps == Stamps(got'[u], got'[u].at)
            IN  InRing(window[u]) = {stamps[k] : k \in DOMAIN stamps}
      ]_vars
=============================================================================
