-------------------------- MODULE SpscQueueProofs --------------------------
(***************************************************************************)
(* SpscQueue proved for every capacity, every index width and every set of  *)
(* pointers: the two threads never share a slot, and the ring implements    *)
(* BoundedFifo.                                                             *)
(***************************************************************************)
EXTENDS SpscQueue, SequenceTheorems, TLAPS

(* Facts about % on the naturals, for indices that wrap and a ring whose    *)
(* slots are picked by a remainder.                                         *)

Positive == Nat \ {0}

\* A remainder is in range.
LEMMA ModRange ==
    ASSUME NEW m \in Positive, NEW x \in Nat
    PROVE  x % m \in 0 .. m - 1
  BY DEF Positive

\* Below the modulus the remainder is the number itself.
LEMMA ModSmall ==
    ASSUME NEW m \in Positive, NEW x \in 0 .. m - 1
    PROVE  x % m = x
  BY DEF Positive

\* Between the modulus and its double one subtraction is enough.
LEMMA ModOnce ==
    ASSUME NEW m \in Positive, NEW x \in m .. 2 * m - 1
    PROVE  x % m = x - m
  BY DEF Positive

\* Division with remainder.
LEMMA ModDiv ==
    ASSUME NEW m \in Positive, NEW x \in Nat
    PROVE  /\ x \div m \in Nat
           /\ x = m * (x \div m) + (x % m)
  BY DEF Positive

\* The remainder is unique.
LEMMA ModUnique ==
    ASSUME NEW m \in Positive, NEW x \in Nat, NEW q \in Nat,
           NEW r \in 0 .. m - 1, x = m * q + r
    PROVE  x % m = r
  BY DEF Positive

\* Adding a multiple of the modulus changes nothing.
LEMMA ModAddMultiple ==
    ASSUME NEW m \in Positive, NEW x \in Nat, NEW k \in Nat
    PROVE  (x + m * k) % m = x % m
<1> DEFINE q == x \div m
           r == x % m
<1>1. q \in Nat /\ r \in 0 .. m - 1 /\ x = m * q + r
  BY ModDiv, ModRange
<1> HIDE DEF q, r
<1>2. x + m * k = m * (q + k) + r
  BY <1>1 DEF Positive
<1>3. x + m * k \in Nat /\ q + k \in Nat
  BY <1>1 DEF Positive
<1>4. (x + m * k) % m = r
  BY <1>1, <1>2, <1>3, ModUnique
<1> QED
  BY <1>4 DEF r

\* Two numbers closer to each other than the modulus have different remainders.
LEMMA ModDistinct ==
    ASSUME NEW m \in Positive, NEW x \in Nat, NEW d \in 1 .. m - 1
    PROVE  (x + d) % m # x % m
<1> DEFINE q == x \div m
           r == x % m
           p == (x + d) \div m
<1>1. q \in Nat /\ r \in 0 .. m - 1 /\ x = m * q + r
  BY ModDiv, ModRange
<1>2. SUFFICES ASSUME (x + d) % m = r
               PROVE  FALSE
  OBVIOUS
<1>3. p \in Nat /\ x + d = m * p + r
  BY <1>2, ModDiv
<1> HIDE DEF q, r, p
<1>4. d = m * (p - q)
  BY <1>1, <1>3 DEF Positive
<1>5. CASE p - q <= 0
  BY <1>1, <1>3, <1>4, <1>5 DEF Positive
<1>6. CASE p - q >= 1
  <2>1. m * (p - q) >= m
    BY <1>1, <1>3, <1>6 DEF Positive
  <2> QED
    BY <1>4, <2>1 DEF Positive
<1> QED
  BY <1>1, <1>3, <1>5, <1>6

\* A wrap at a multiple of the modulus does not show in the remainder.
LEMMA ModOfWrapped ==
    ASSUME NEW m \in Positive, NEW w \in Positive, w % m = 0,
           NEW x \in Nat, NEW y \in Nat, x < 2 * w
    PROVE  ((x % w) + y) % m = (x + y) % m
<1>1. CASE x < w
  BY <1>1, ModSmall DEF Positive
<1>2. CASE x >= w
  <2>1. x % w = x - w
    BY <1>2, ModOnce DEF Positive
  <2> DEFINE k == w \div m
  <2>2. k \in Nat /\ w = m * k
    BY ModDiv DEF Positive
  <2> HIDE DEF k
  <2>3. x - w + y \in Nat
    BY <1>2 DEF Positive
  <2>4. ((x - w + y) + m * k) % m = (x - w + y) % m
    BY <2>2, <2>3, ModAddMultiple
  <2>5. (x - w + y) + m * k = x + y
    BY <2>2 DEF Positive
  <2> QED
    BY <2>1, <2>4, <2>5
<1> QED
  BY <1>1, <1>2 DEF Positive

-----------------------------------------------------------------------------
(* The ring.                                                               *)

\* How many pointers are held, and what each thread knows about that number at
\* each of its steps.
CountInv ==
    /\ Used <= Capacity
    /\ ppc \in {"store", "publish"} => Used < Capacity
    /\ cpc \in {"load", "advance"} => Used > 0

\* What the slots and the threads' locals hold.
ContentInv ==
    /\ \A k \in 1 .. Used : slots[Slot(read_idx + (k - 1))] \in Items
    /\ item = NULL <=> ppc = "idle"
    /\ ppc = "publish" => slots[Slot(write_idx)] = item
    /\ cpc = "advance" => got = slots[Slot(read_idx)]

IInv == TypeOK /\ CountInv /\ ContentInv

-----------------------------------------------------------------------------
(* Arithmetic of the two indices.                                          *)

LEMMA ConstantsTyped ==
    /\ Capacity \in Positive
    /\ IdxMod \in Positive
    /\ Capacity < IdxMod
  BY QueueAssumption DEF Positive

LEMMA RingDivides == IdxMod % Capacity = 0
  BY QueueAssumption

Idx == 0 .. IdxMod - 1

\* "w - r" of two u32 indices.
Dist(w, r) == (w + IdxMod - r) % IdxMod

\* The distance without the remainder.
LEMMA DistCases ==
    ASSUME NEW w \in Idx, NEW r \in Idx
    PROVE  Dist(w, r) = IF w >= r THEN w - r ELSE w + IdxMod - r
<1> DEFINE x == w + IdxMod - r
<1>1. CASE w >= r
  <2>1. x \in IdxMod .. 2 * IdxMod - 1
    BY <1>1, ConstantsTyped DEF Idx, Positive
  <2> HIDE DEF x
  <2>2. x % IdxMod = x - IdxMod
    BY <2>1, ModOnce, ConstantsTyped
  <2>3. x - IdxMod = w - r
    BY ConstantsTyped DEF Idx, Positive, x
  <2> QED
    BY <1>1, <2>2, <2>3 DEF Dist, x
<1>2. CASE ~(w >= r)
  <2>1. x \in 0 .. IdxMod - 1
    BY <1>2, ConstantsTyped DEF Idx, Positive
  <2> HIDE DEF x
  <2>2. x % IdxMod = x
    BY <2>1, ModSmall, ConstantsTyped
  <2> QED
    BY <1>2, <2>2 DEF Dist, x
<1> QED
  BY <1>1, <1>2

LEMMA DistTyped ==
    ASSUME NEW w \in Idx, NEW r \in Idx
    PROVE  Dist(w, r) \in Idx
  BY DistCases, ConstantsTyped DEF Idx, Positive

\* Advancing an index wraps at IdxMod.
LEMMA NextIdxCases ==
    ASSUME NEW i \in Idx
    PROVE  /\ NextIdx(i) \in Idx
           /\ NextIdx(i) = IF i + 1 = IdxMod THEN 0 ELSE i + 1
<1>1. CASE i + 1 # IdxMod
  <2>1. i + 1 \in 0 .. IdxMod - 1
    BY <1>1, ConstantsTyped DEF Idx, Positive
  <2> QED
    BY <1>1, <2>1, ModSmall, ConstantsTyped DEF NextIdx, Idx
<1>2. CASE i + 1 = IdxMod
  <2>1. IdxMod % IdxMod = 0
    BY ModOnce, ConstantsTyped DEF Positive
  <2> QED
    BY <1>2, <2>1, ConstantsTyped DEF NextIdx, Idx, Positive
<1> QED
  BY <1>1, <1>2

\* A publication makes the distance one larger, unless it was maximal.
LEMMA DistAfterPublish ==
    ASSUME NEW w \in Idx, NEW r \in Idx, Dist(w, r) + 1 < IdxMod
    PROVE  Dist(NextIdx(w), r) = Dist(w, r) + 1
<1>1. NextIdx(w) \in Idx
  BY NextIdxCases
<1>2. Dist(NextIdx(w), r)
        = IF NextIdx(w) >= r THEN NextIdx(w) - r ELSE NextIdx(w) + IdxMod - r
  BY <1>1, DistCases
<1>3. Dist(w, r) = IF w >= r THEN w - r ELSE w + IdxMod - r
  BY DistCases
<1>4. NextIdx(w) = IF w + 1 = IdxMod THEN 0 ELSE w + 1
  BY NextIdxCases
<1> QED
  BY <1>2, <1>3, <1>4, ConstantsTyped DEF Idx, Positive

\* A take makes it one smaller, unless it was zero.
LEMMA DistAfterTake ==
    ASSUME NEW w \in Idx, NEW r \in Idx, Dist(w, r) > 0
    PROVE  Dist(w, NextIdx(r)) = Dist(w, r) - 1
<1>1. NextIdx(r) \in Idx
  BY NextIdxCases
<1>2. Dist(w, NextIdx(r))
        = IF w >= NextIdx(r) THEN w - NextIdx(r) ELSE w + IdxMod - NextIdx(r)
  BY <1>1, DistCases
<1>3. Dist(w, r) = IF w >= r THEN w - r ELSE w + IdxMod - r
  BY DistCases
<1>4. NextIdx(r) = IF r + 1 = IdxMod THEN 0 ELSE r + 1
  BY NextIdxCases
<1> QED
  BY <1>2, <1>3, <1>4, ConstantsTyped DEF Idx, Positive

\* The distance is zero exactly when the indices agree.
LEMMA DistZero ==
    ASSUME NEW w \in Idx, NEW r \in Idx
    PROVE  Dist(w, r) = 0 <=> r = w
<1>1. Dist(w, r) = IF w >= r THEN w - r ELSE w + IdxMod - r
  BY DistCases
<1> QED
  BY <1>1, ConstantsTyped DEF Idx, Positive

LEMMA UsedIsDist == Used = Dist(write_idx, read_idx)
  BY DEF Used, Dist

-----------------------------------------------------------------------------
(* Slots.                                                                  *)

LEMMA SlotTyped ==
    ASSUME NEW x \in Nat
    PROVE  Slot(x) \in 0 .. Capacity - 1
  BY ModRange, ConstantsTyped DEF Slot

\* The wrap of the read index moves no pointer to another slot.
LEMMA SlotAfterNext ==
    ASSUME NEW i \in Idx, NEW j \in Nat
    PROVE  Slot(NextIdx(i) + j) = Slot(i + 1 + j)
<1>1. i + 1 \in Nat /\ i + 1 < 2 * IdxMod
  BY ConstantsTyped DEF Idx, Positive
<1> QED
  BY <1>1, ModOfWrapped, ConstantsTyped, RingDivides DEF Slot, NextIdx

\* The slot of the write index is the one just behind the last pointer.
LEMMA SlotOfWrite ==
    ASSUME NEW w \in Idx, NEW r \in Idx
    PROVE  Slot(w) = Slot(r + Dist(w, r))
<1>1. CASE w >= r
  <2>1. r + Dist(w, r) = w
    BY <1>1, DistCases, ConstantsTyped DEF Idx, Positive
  <2> QED
    BY <2>1
<1>2. CASE w < r
  <2>1. r + Dist(w, r) = w + IdxMod
    BY <1>2, DistCases, ConstantsTyped DEF Idx, Positive
  <2>2. w + IdxMod \in Nat /\ w + IdxMod < 2 * IdxMod
    BY ConstantsTyped DEF Idx, Positive
  <2>3. (w + IdxMod) % IdxMod = w
    <3>1. w + IdxMod \in IdxMod .. 2 * IdxMod - 1
      BY ConstantsTyped DEF Idx, Positive
    <3> QED
      BY <3>1, ModOnce, ConstantsTyped DEF Idx, Positive
  <2>4. (((w + IdxMod) % IdxMod) + 0) % Capacity = (w + IdxMod + 0) % Capacity
    BY <2>2, ModOfWrapped, ConstantsTyped, RingDivides
  <2> QED
    BY <2>1, <2>3, <2>4, ConstantsTyped DEF Slot, Idx, Positive
<1> QED
  BY <1>1, <1>2 DEF Idx

\* Two of Capacity consecutive indices never share a slot.
LEMMA SlotsDiffer ==
    ASSUME NEW i \in Nat, NEW j \in Nat, i < j, j - i < Capacity
    PROVE  Slot(i) # Slot(j)
<1>1. j - i \in 1 .. Capacity - 1
  BY ConstantsTyped DEF Positive
<1>2. j = i + (j - i)
  OBVIOUS
<1> QED
  BY <1>1, <1>2, ModDistinct, ConstantsTyped DEF Slot

-----------------------------------------------------------------------------
(* Type correctness.                                                       *)

LEMMA InitTyped == Init => TypeOK
  BY QueueAssumption DEF Init, TypeOK, PushOps, PopOps

LEMMA NextTyped == TypeOK /\ [Next]_vars => TypeOK'
<1> SUFFICES ASSUME TypeOK, [Next]_vars
             PROVE  TypeOK'
  OBVIOUS
<1> USE DEF TypeOK, PushOps, PopOps
<1>1. write_idx \in Idx /\ read_idx \in Idx
  BY DEF Idx
<1>2. NextIdx(write_idx) \in Idx /\ NextIdx(read_idx) \in Idx
  BY <1>1, NextIdxCases
<1>3. ASSUME NEW op \in PushOps, NEW i \in Items, PushCall(op, i)
      PROVE  TypeOK'
  BY <1>3 DEF PushCall, cvars
<1>4. CASE PushHasRoom
  BY <1>4 DEF PushHasRoom, cvars
<1>5. CASE PushRefused
  BY <1>5 DEF PushRefused, cvars
<1>6. CASE PushStore
  BY <1>6 DEF PushStore, cvars
<1>7. CASE PushPublish
  BY <1>2, <1>7 DEF PushPublish, cvars, Idx
<1>8. ASSUME NEW op \in PopOps, PopCall(op)
      PROVE  TypeOK'
  BY <1>8 DEF PopCall, pvars
<1>9. CASE PopFlag
  BY <1>9 DEF PopFlag, ReturnNull, pvars
<1>10. CASE PopNonEmpty
  BY <1>10 DEF PopNonEmpty, pvars
<1>11. CASE PopEmpty
  BY <1>11 DEF PopEmpty, ReturnNull, pvars
<1>12. CASE PopTimeout
  BY <1>12 DEF PopTimeout, ReturnNull, pvars
<1>13. CASE PopSleep
  BY <1>13 DEF PopSleep, pvars
<1>14. CASE PopLoad
  <2>1. slots[Slot(read_idx)] \in Items \cup {NULL}
    BY <1>1, SlotTyped, ConstantsTyped DEF Idx, Positive
  <2> QED
    BY <1>14, <2>1 DEF PopLoad, pvars
<1>15. CASE PopAdvance
  BY <1>2, <1>15 DEF PopAdvance, pvars, Idx
<1>16. CASE ClearRun
  BY <1>16 DEF ClearRun, pvars, cvars
<1>17. CASE UNCHANGED vars
  BY <1>17 DEF vars, pvars, cvars
<1> QED
  BY <1>3, <1>4, <1>5, <1>6, <1>7, <1>8, <1>9, <1>10, <1>11, <1>12, <1>13,
     <1>14, <1>15, <1>16, <1>17
     DEF Next, ProducerStep, ConsumerStep

\* Every reachable state is well typed: the indices stay u32 values and the
\* slots hold pushed pointers or the null pointers of the initial memset.
THEOREM TypeCorrect == Spec => []TypeOK
  BY InitTyped, NextTyped, PTL DEF Spec

-----------------------------------------------------------------------------
(* Counting.                                                               *)

\* The step of each action on the number of pointers held.
LEMMA UsedAfter ==
    ASSUME TypeOK
    PROVE  /\ Used \in Nat /\ Used < IdxMod
           /\ Empty <=> Used = 0
           /\ UNCHANGED <<write_idx, read_idx>> => Used' = Used
           /\ Used < Capacity /\ PushPublish => Used' = Used + 1
           /\ Used > 0 /\ PopAdvance => Used' = Used - 1
<1>1. write_idx \in Idx /\ read_idx \in Idx
  BY DEF TypeOK, Idx
<1>2. Used \in Nat /\ Used < IdxMod
  BY <1>1, DistTyped, UsedIsDist, ConstantsTyped DEF Idx, Positive
<1>3. Empty <=> Used = 0
  BY <1>1, DistZero, UsedIsDist DEF Empty
<1>4. UNCHANGED <<write_idx, read_idx>> => Used' = Used
  BY DEF Used
<1>5. Used < Capacity /\ PushPublish => Used' = Used + 1
  <2> SUFFICES ASSUME Used < Capacity, PushPublish
               PROVE  Used' = Used + 1
    OBVIOUS
  <2>1. Dist(write_idx, read_idx) + 1 < IdxMod
    BY <1>2, UsedIsDist, ConstantsTyped DEF Positive
  <2>2. Dist(NextIdx(write_idx), read_idx) = Dist(write_idx, read_idx) + 1
    BY <1>1, <2>1, DistAfterPublish
  <2>3. Used' = Dist(NextIdx(write_idx), read_idx)
    BY DEF PushPublish, Used, Dist
  <2> QED
    BY <2>2, <2>3, UsedIsDist
<1>6. Used > 0 /\ PopAdvance => Used' = Used - 1
  <2> SUFFICES ASSUME Used > 0, PopAdvance
               PROVE  Used' = Used - 1
    OBVIOUS
  <2>1. Dist(write_idx, NextIdx(read_idx)) = Dist(write_idx, read_idx) - 1
    BY <1>1, DistAfterTake, UsedIsDist
  <2>2. Used' = Dist(write_idx, NextIdx(read_idx))
    BY DEF PopAdvance, pvars, Used, Dist
  <2> QED
    BY <2>1, <2>2, UsedIsDist
<1> QED
  BY <1>2, <1>3, <1>4, <1>5, <1>6

LEMMA InitCount == Init => CountInv
<1> SUFFICES ASSUME Init
             PROVE  CountInv
  OBVIOUS
<1>1. TypeOK /\ Empty
  BY InitTyped DEF Init, Empty
<1>2. Used = 0
  BY <1>1, UsedAfter
<1> QED
  BY <1>2, ConstantsTyped DEF Init, CountInv, Positive

LEMMA NextCount == TypeOK /\ CountInv /\ [Next]_vars => CountInv'
<1> SUFFICES ASSUME TypeOK, CountInv, [Next]_vars
             PROVE  CountInv'
  OBVIOUS
<1> USE UsedAfter DEF CountInv
<1>1. Capacity \in Nat /\ Capacity > 0
  BY ConstantsTyped DEF Positive
<1>2. ASSUME NEW op \in PushOps, NEW i \in Items, PushCall(op, i)
      PROVE  CountInv'
  BY <1>2 DEF PushCall, cvars
<1>3. CASE PushHasRoom
  BY <1>1, <1>3 DEF PushHasRoom, cvars, Full
<1>4. CASE PushRefused
  BY <1>4 DEF PushRefused, cvars
<1>5. CASE PushStore
  BY <1>5 DEF PushStore, cvars
<1>6. CASE PushPublish
  \* The consumer's knowledge that the ring is not empty survives.
  <2>1. Used < Capacity /\ Used' = Used + 1
    BY <1>6 DEF PushPublish
  <2>2. ppc' = "idle" /\ cpc' = cpc
    BY <1>6 DEF PushPublish, cvars
  <2> QED
    BY <1>1, <2>1, <2>2
<1>7. ASSUME NEW op \in PopOps, PopCall(op)
      PROVE  CountInv'
  BY <1>7 DEF PopCall, pvars
<1>8. CASE PopFlag
  BY <1>8 DEF PopFlag, ReturnNull, pvars
<1>9. CASE PopNonEmpty
  BY <1>9 DEF PopNonEmpty, pvars
<1>10. CASE PopEmpty
  BY <1>10 DEF PopEmpty, ReturnNull, pvars
<1>11. CASE PopTimeout
  BY <1>11 DEF PopTimeout, ReturnNull, pvars
<1>12. CASE PopSleep
  BY <1>12 DEF PopSleep, pvars
<1>13. CASE PopLoad
  BY <1>13 DEF PopLoad, pvars
<1>14. CASE PopAdvance
  \* The producer's knowledge that there is room survives.
  <2>1. Used > 0 /\ Used' = Used - 1
    BY <1>14 DEF PopAdvance
  <2>2. cpc' \in {"idle", "timeout"} /\ ppc' = ppc
    BY <1>14 DEF PopAdvance, pvars
  <2> QED
    BY <1>1, <2>1, <2>2
<1>15. CASE ClearRun
  BY <1>15 DEF ClearRun, pvars, cvars
<1>16. CASE UNCHANGED vars
  BY <1>16 DEF vars, pvars, cvars
<1> QED
  BY <1>2, <1>3, <1>4, <1>5, <1>6, <1>7, <1>8, <1>9, <1>10, <1>11, <1>12,
     <1>13, <1>14, <1>15, <1>16
     DEF Next, ProducerStep, ConsumerStep

\* With room behind and a pointer in front, the slot being written and the slot
\* being read are different.
LEMMA CountGivesExclusion == TypeOK /\ CountInv => SlotExclusive
<1> SUFFICES ASSUME TypeOK, CountInv,
                    ppc \in {"store", "publish"}, cpc \in {"load", "advance"}
             PROVE  Slot(write_idx) # Slot(read_idx)
  BY DEF SlotExclusive
<1>1. write_idx \in Idx /\ read_idx \in Idx /\ read_idx \in Nat
  BY DEF TypeOK, Idx
<1>2. Used \in Nat /\ 0 < Used /\ Used < Capacity
  BY UsedAfter DEF CountInv
<1>3. Slot(write_idx) = Slot(read_idx + Used)
  BY <1>1, SlotOfWrite, UsedIsDist
<1>4. Slot(read_idx) # Slot(read_idx + Used)
  BY <1>1, <1>2, SlotsDiffer, ConstantsTyped DEF Positive
<1> QED
  BY <1>3, <1>4

\* The producer and the consumer never touch the same slot, for any capacity
\* and any number of wraps of the indices.
THEOREM Exclusion == Spec => []SlotExclusive
<1>1. Init => TypeOK /\ CountInv
  BY InitTyped, InitCount
<1>2. (TypeOK /\ CountInv) /\ [Next]_vars => (TypeOK /\ CountInv)'
  BY NextTyped, NextCount
<1>3. TypeOK /\ CountInv => SlotExclusive
  BY CountGivesExclusion
<1> QED
  BY <1>1, <1>2, <1>3, PTL DEF Spec

-----------------------------------------------------------------------------
(* Contents.                                                               *)

\* No index but the write index itself shares its slot with a held pointer.
LEMMA WriteSlotIsFree ==
    ASSUME TypeOK, Used < Capacity, NEW k \in 1 .. Used
    PROVE  Slot(read_idx + (k - 1)) # Slot(write_idx)
<1>1. write_idx \in Idx /\ read_idx \in Idx /\ read_idx \in Nat
  BY DEF TypeOK, Idx
<1>2. Used \in Nat
  BY UsedAfter
<1>3. Slot(write_idx) = Slot(read_idx + Used)
  BY <1>1, SlotOfWrite, UsedIsDist
<1>4. Slot(read_idx + (k - 1)) # Slot(read_idx + Used)
  <2>1. read_idx + (k - 1) \in Nat /\ read_idx + Used \in Nat
    BY <1>1, <1>2
  <2>2. read_idx + (k - 1) < read_idx + Used
    BY <1>1, <1>2
  <2>3. (read_idx + Used) - (read_idx + (k - 1)) < Capacity
    BY <1>1, <1>2, ConstantsTyped DEF Positive
  <2> QED
    BY <2>1, <2>2, <2>3, SlotsDiffer
<1> QED
  BY <1>3, <1>4

\* Slot numbers of held pointers are slot numbers.
LEMMA HeldSlotTyped ==
    ASSUME TypeOK, NEW k \in Nat \ {0}
    PROVE  Slot(read_idx + (k - 1)) \in 0 .. Capacity - 1
<1>1. read_idx + (k - 1) \in Nat
  BY DEF TypeOK
<1> QED
  BY <1>1, SlotTyped

LEMMA InitContent == Init => ContentInv
<1> SUFFICES ASSUME Init
             PROVE  ContentInv
  OBVIOUS
<1>1. Used = 0
  BY InitTyped, UsedAfter DEF Init, Empty
<1> QED
  BY <1>1 DEF Init, ContentInv

\* A step that leaves the slots, the indices and the item alone.
LEMMA QuietStep ==
    ASSUME ContentInv, UNCHANGED <<slots, write_idx, read_idx, item>>,
           ppc' = "idle" <=> ppc = "idle",
           ppc' = "publish" <=> ppc = "publish",
           cpc' = "advance" => (cpc = "advance" /\ got' = got)
    PROVE  ContentInv'
  BY DEF ContentInv, Used

LEMMA NextContent == IInv /\ [Next]_vars => ContentInv'
<1> SUFFICES ASSUME TypeOK, CountInv, ContentInv, [Next]_vars
             PROVE  ContentInv'
  BY DEF IInv
<1>0. read_idx \in Idx /\ write_idx \in Idx /\ NULL \notin Items
  BY QueueAssumption DEF TypeOK, Idx
<1>1. ASSUME NEW op \in PushOps, NEW i \in Items, PushCall(op, i)
      PROVE  ContentInv'
  BY <1>0, <1>1 DEF PushCall, cvars, ContentInv, Used
<1>2. CASE PushHasRoom
  BY <1>2, QuietStep DEF PushHasRoom, cvars
<1>3. CASE PushRefused
  BY <1>3 DEF PushRefused, cvars, ContentInv, Used
<1>4. CASE PushStore
  <2>1. Used < Capacity /\ Used' = Used /\ Used \in Nat
    BY <1>4, UsedAfter DEF PushStore, CountInv
  <2>2. Slot(write_idx) \in 0 .. Capacity - 1
    BY <1>0, SlotTyped DEF Idx
  <2>3. ASSUME NEW k \in 1 .. Used'
        PROVE  slots'[Slot(read_idx' + (k - 1))] \in Items
    <3>1. k \in 1 .. Used /\ k \in Nat \ {0}
      BY <2>1
    <3>2. Slot(read_idx + (k - 1)) # Slot(write_idx)
      BY <2>1, <3>1, WriteSlotIsFree
    <3>3. Slot(read_idx + (k - 1)) \in 0 .. Capacity - 1
      BY <3>1, HeldSlotTyped
    <3> QED
      BY <1>4, <3>1, <3>2, <3>3 DEF PushStore, ContentInv, TypeOK
  <2>4. slots'[Slot(write_idx')] = item'
    BY <1>4, <2>2 DEF PushStore, TypeOK
  <2>5. cpc' = "advance" => got' = slots'[Slot(read_idx')]
    <3> SUFFICES ASSUME cpc = "advance"
                 PROVE  got = slots'[Slot(read_idx)]
      BY <1>4 DEF PushStore, cvars
    <3>1. Slot(read_idx) # Slot(write_idx)
      BY <1>4, CountGivesExclusion DEF SlotExclusive, PushStore
    <3>2. Slot(read_idx) \in 0 .. Capacity - 1
      BY <1>0, SlotTyped DEF Idx
    <3> QED
      BY <1>4, <3>1, <3>2 DEF PushStore, ContentInv, TypeOK
  <2> QED
    BY <1>4, <2>3, <2>4, <2>5 DEF PushStore, ContentInv
<1>5. CASE PushPublish
  <2>1. Used < Capacity /\ Used \in Nat /\ Used' = Used + 1
    BY <1>5, UsedAfter DEF PushPublish, CountInv
  <2>2. ASSUME NEW k \in 1 .. Used'
        PROVE  slots'[Slot(read_idx' + (k - 1))] \in Items
    <3>1. slots' = slots /\ read_idx' = read_idx
      BY <1>5 DEF PushPublish
    <3>2. CASE k \in 1 .. Used
      BY <3>1, <3>2 DEF ContentInv
    <3>3. CASE k = Used + 1
      <4>1. Slot(read_idx + (k - 1)) = Slot(write_idx)
        BY <1>0, <2>1, <3>3, SlotOfWrite, UsedIsDist
      <4>2. slots[Slot(write_idx)] \in Items
        BY <1>5 DEF PushPublish, ContentInv, TypeOK
      <4> QED
        BY <3>1, <4>1, <4>2
    <3> QED
      BY <2>1, <3>2, <3>3
  <2> QED
    BY <1>5, <2>2 DEF PushPublish, cvars, ContentInv
<1>6. ASSUME NEW op \in PopOps, PopCall(op)
      PROVE  ContentInv'
  BY <1>6, QuietStep DEF PopCall, pvars
<1>7. CASE PopFlag
  BY <1>7, QuietStep DEF PopFlag, ReturnNull, pvars
<1>8. CASE PopNonEmpty
  BY <1>8, QuietStep DEF PopNonEmpty, pvars
<1>9. CASE PopEmpty
  BY <1>9, QuietStep DEF PopEmpty, ReturnNull, pvars
<1>10. CASE PopTimeout
  BY <1>10, QuietStep DEF PopTimeout, ReturnNull, pvars
<1>11. CASE PopSleep
  BY <1>11, QuietStep DEF PopSleep, pvars
<1>12. CASE PopLoad
  BY <1>12 DEF PopLoad, pvars, ContentInv, Used
<1>13. CASE PopAdvance
  <2>1. Used > 0 /\ Used \in Nat /\ Used' = Used - 1
    BY <1>13, UsedAfter DEF PopAdvance, CountInv
  <2>2. ASSUME NEW k \in 1 .. Used'
        PROVE  slots'[Slot(read_idx' + (k - 1))] \in Items
    <3>1. k + 1 \in 1 .. Used /\ k - 1 \in Nat
      BY <2>1
    <3>2. Slot(NextIdx(read_idx) + (k - 1)) = Slot(read_idx + 1 + (k - 1))
      BY <1>0, <3>1, SlotAfterNext
    <3>3. read_idx + 1 + (k - 1) = read_idx + ((k + 1) - 1)
      BY <1>0, <3>1 DEF Idx
    <3>4. slots[Slot(read_idx + ((k + 1) - 1))] \in Items
      BY <3>1 DEF ContentInv
    <3> QED
      BY <1>13, <3>2, <3>3, <3>4 DEF PopAdvance
  <2>3. /\ UNCHANGED <<slots, write_idx, item, ppc>>
        /\ cpc' # "advance"
    BY <1>13 DEF PopAdvance, pvars
  <2> QED
    BY <2>2, <2>3 DEF ContentInv
<1>14. CASE ClearRun
  BY <1>14, QuietStep DEF ClearRun, pvars, cvars
<1>15. CASE UNCHANGED vars
  BY <1>15, QuietStep DEF vars, pvars, cvars
<1> QED
  BY <1>1, <1>2, <1>3, <1>4, <1>5, <1>6, <1>7, <1>8, <1>9, <1>10, <1>11,
     <1>12, <1>13, <1>14, <1>15
     DEF Next, ProducerStep, ConsumerStep

LEMMA Invariance == Spec => []IInv
<1>1. Init => IInv
  BY InitTyped, InitCount, InitContent DEF IInv
<1>2. IInv /\ [Next]_vars => IInv'
  BY NextTyped, NextCount, NextContent DEF IInv
<1> QED
  BY <1>1, <1>2, PTL DEF Spec

-----------------------------------------------------------------------------
(* Refinement.                                                             *)

LEMMA ContentTyped ==
    ASSUME IInv
    PROVE  /\ Content \in Seq(Items)
           /\ Len(Content) = Used
           /\ Used \in Nat
<1>1. Used \in Nat
  BY UsedAfter DEF IInv
<1>2. \A k \in 1 .. Used : slots[Slot(read_idx + (k - 1))] \in Items
  BY DEF IInv, ContentInv
<1> QED
  BY <1>1, <1>2 DEF Content

\* A step that changes no slot and no index keeps the content.
LEMMA ContentStays ==
    ASSUME UNCHANGED <<slots, write_idx, read_idx>>
    PROVE  Content' = Content
  BY DEF Content, Used

LEMMA InitRefines == Init => Fifo!FInit
<1> SUFFICES ASSUME Init
             PROVE  Fifo!FInit
  OBVIOUS
<1>1. Used = 0
  BY InitTyped, UsedAfter DEF Init, Empty
<1>2. Content = <<>>
  BY <1>1 DEF Content
<1> QED
  BY <1>2 DEF Init, Fifo!FInit

\* The write to a free slot does not show in the content.
LEMMA StoreStutters ==
    ASSUME IInv, PushStore
    PROVE  Content' = Content
<1>1. Used < Capacity /\ Used' = Used /\ Used \in Nat
  BY UsedAfter DEF PushStore, CountInv, IInv
<1>2. ASSUME NEW k \in 1 .. Used
      PROVE  slots'[Slot(read_idx + (k - 1))] = slots[Slot(read_idx + (k - 1))]
  <2>1. Slot(read_idx + (k - 1)) # Slot(write_idx)
    BY <1>1, WriteSlotIsFree DEF IInv
  <2>2. Slot(read_idx + (k - 1)) \in 0 .. Capacity - 1
    BY HeldSlotTyped DEF IInv
  <2> QED
    BY <2>1, <2>2 DEF PushStore, IInv, TypeOK
<1> QED
  BY <1>1, <1>2 DEF PushStore, Content

\* The publication of the write index appends the item.
LEMMA PublishAppends ==
    ASSUME IInv, PushPublish
    PROVE  Content' = Append(Content, item)
<1>1. Used < Capacity /\ Used' = Used + 1 /\ Used \in Nat
  BY UsedAfter DEF PushPublish, CountInv, IInv
<1>2. read_idx \in Idx /\ write_idx \in Idx
  BY DEF IInv, TypeOK, Idx
<1>3. slots[Slot(read_idx + Used)] = item
  <2>1. Slot(read_idx + Used) = Slot(write_idx)
    BY <1>2, SlotOfWrite, UsedIsDist
  <2> QED
    BY <2>1 DEF PushPublish, IInv, ContentInv
<1>4. Content' = [k \in 1 .. Used + 1 |-> slots[Slot(read_idx + (k - 1))]]
  BY <1>1 DEF PushPublish, Content
<1>5. Content \in Seq(Items) /\ Len(Content) = Used
  BY ContentTyped
<1>6. item \in Items
  BY DEF PushPublish, IInv, ContentInv, TypeOK
<1>7. ASSUME NEW k \in 1 .. Used + 1
      PROVE  slots[Slot(read_idx + (k - 1))] = Append(Content, item)[k]
  <2>1. CASE k \in 1 .. Used
    <3>1. Content[k] = slots[Slot(read_idx + (k - 1))]
      BY <2>1 DEF Content
    <3>2. Append(Content, item)[k] = Content[k]
      BY <1>5, <1>6, <2>1, AppendProperties
    <3> QED
      BY <3>1, <3>2
  <2>2. CASE k = Used + 1
    <3>1. Append(Content, item)[k] = item
      BY <1>5, <1>6, <2>2, AppendProperties
    <3>2. read_idx + (k - 1) = read_idx + Used
      BY <1>1, <2>2
    <3> QED
      BY <1>3, <3>1, <3>2
  <2>3. k \in 1 .. Used \/ k = Used + 1
    BY <1>1
  <2> QED
    BY <2>1, <2>2, <2>3
<1> DEFINE A == Append(Content, item)
<1>8. A \in Seq(Items) /\ Len(A) = Used + 1
  BY <1>5, <1>6, AppendProperties
<1>9. \A k \in 1 .. Used + 1 : Content'[k] = A[k]
  BY <1>4, <1>7
<1> HIDE DEF A
<1>10. \A k \in 1 .. Used + 1 : A[k] \in Items
  BY <1>8, LenProperties
<1>11. Content' \in Seq(Items) /\ Len(Content') = Used + 1
  <2>1. Used + 1 \in Nat
    BY <1>1
  <2>2. \A k \in 1 .. Used + 1 : slots[Slot(read_idx + (k - 1))] \in Items
    BY <1>4, <1>9, <1>10
  <2> QED
    BY <1>4, <2>1, <2>2
<1>12. Content' = A
  BY <1>8, <1>9, <1>11, SeqEqual
<1> QED
  BY <1>12 DEF A

\* The publication of the read index takes the head away.
LEMMA AdvanceTakes ==
    ASSUME IInv, PopAdvance
    PROVE  /\ Content # <<>>
           /\ got = Head(Content)
           /\ Content' = Tail(Content)
<1>1. Used > 0 /\ Used \in Nat /\ Used' = Used - 1
  BY UsedAfter DEF PopAdvance, CountInv, IInv
<1>2. read_idx \in Idx
  BY DEF IInv, TypeOK, Idx
<1>3. Content \in Seq(Items) /\ Len(Content) = Used
  BY ContentTyped
<1>4. Content # <<>>
  BY <1>1, <1>3
<1>5. got = Head(Content)
  <2>1. Head(Content) = Content[1]
    BY <1>3, <1>4
  <2>2. Content[1] = slots[Slot(read_idx + (1 - 1))]
    BY <1>1 DEF Content
  <2>3. read_idx + (1 - 1) = read_idx
    BY <1>2 DEF Idx
  <2> QED
    BY <2>1, <2>2, <2>3 DEF PopAdvance, IInv, ContentInv
<1>6. Content' = [k \in 1 .. Used - 1 |-> slots[Slot(NextIdx(read_idx) + (k - 1))]]
  BY <1>1 DEF PopAdvance, pvars, Content
<1>7. ASSUME NEW k \in 1 .. Used - 1
      PROVE  slots[Slot(NextIdx(read_idx) + (k - 1))] = Content[k + 1]
  <2>1. k - 1 \in Nat /\ k + 1 \in 1 .. Used
    BY <1>1
  <2>2. Slot(NextIdx(read_idx) + (k - 1)) = Slot(read_idx + 1 + (k - 1))
    BY <1>2, <2>1, SlotAfterNext
  <2>3. read_idx + 1 + (k - 1) = read_idx + ((k + 1) - 1)
    BY <1>2, <2>1 DEF Idx
  <2> QED
    BY <2>1, <2>2, <2>3 DEF Content
<1> DEFINE T == Tail(Content)
<1>8. /\ T \in Seq(Items) /\ Len(T) = Used - 1
      /\ \A k \in 1 .. Used - 1 : T[k] = Content[k + 1]
  BY <1>3, <1>4, HeadTailProperties
<1>9. \A k \in 1 .. Used - 1 : Content'[k] = T[k]
  BY <1>6, <1>7, <1>8
<1> HIDE DEF T
<1>10. \A k \in 1 .. Used - 1 : T[k] \in Items
  BY <1>8, LenProperties
<1>11. Content' \in Seq(Items) /\ Len(Content') = Used - 1
  <2>1. Used - 1 \in Nat
    BY <1>1
  <2>2. \A k \in 1 .. Used - 1 :
          slots[Slot(NextIdx(read_idx) + (k - 1))] \in Items
    BY <1>6, <1>9, <1>10
  <2> QED
    BY <1>6, <2>1, <2>2
<1>12. Content' = T
  BY <1>8, <1>9, <1>11, SeqEqual
<1> QED
  BY <1>4, <1>5, <1>12 DEF T

LEMMA NextRefines == IInv /\ [Next]_vars => [Fifo!FNext]_(Fifo!fvars)
<1> SUFFICES ASSUME IInv, [Next]_vars
             PROVE  [Fifo!FNext]_(Fifo!fvars)
  OBVIOUS
<1> USE DEF Fifo!FNext, Fifo!fvars
<1>0. item = NULL <=> ppc = "idle"
  BY DEF IInv, ContentInv
<1>1. ASSUME NEW op \in PushOps, NEW i \in Items, PushCall(op, i)
      PROVE  Fifo!Offer(i)
  BY <1>0, <1>1, ContentStays DEF PushCall, cvars, Fifo!Offer
<1>2. CASE PushHasRoom
  BY <1>2, ContentStays DEF PushHasRoom, cvars
<1>3. CASE PushRefused
  <2>1. Len(Content) = Capacity
    BY <1>3, ContentTyped, ConstantsTyped
       DEF PushRefused, Full, IInv, CountInv, Positive
  <2> QED
    BY <1>0, <1>3, <2>1, ContentStays DEF PushRefused, cvars, Fifo!Refuse
<1>4. CASE PushStore
  BY <1>4, StoreStutters DEF PushStore, cvars
<1>5. CASE PushPublish
  <2>1. Len(Content) < Capacity
    BY <1>5, ContentTyped DEF PushPublish, IInv, CountInv
  <2> QED
    BY <1>0, <1>5, <2>1, PublishAppends DEF PushPublish, cvars, Fifo!Accept
<1>6. ASSUME NEW op \in PopOps, PopCall(op)
      PROVE  UNCHANGED Fifo!fvars
  BY <1>6, ContentStays DEF PopCall, pvars
<1>7. CASE PopFlag
  BY <1>7, ContentStays DEF PopFlag, ReturnNull, pvars, Fifo!Miss
<1>8. CASE PopNonEmpty
  BY <1>8, ContentStays DEF PopNonEmpty, pvars
<1>9. CASE PopEmpty
  BY <1>9, ContentStays DEF PopEmpty, ReturnNull, pvars, Fifo!Miss
<1>10. CASE PopTimeout
  BY <1>10, ContentStays DEF PopTimeout, ReturnNull, pvars, Fifo!Miss
<1>11. CASE PopSleep
  BY <1>11, ContentStays DEF PopSleep, pvars
<1>12. CASE PopLoad
  BY <1>12, ContentStays DEF PopLoad, pvars
<1>13. CASE PopAdvance
  BY <1>13, AdvanceTakes DEF PopAdvance, pvars, Fifo!Take
<1>14. CASE ClearRun
  BY <1>14, ContentStays DEF ClearRun, pvars, cvars
<1>15. CASE UNCHANGED vars
  BY <1>15, ContentStays DEF vars, pvars, cvars
<1> QED
  BY <1>1, <1>2, <1>3, <1>4, <1>5, <1>6, <1>7, <1>8, <1>9, <1>10, <1>11,
     <1>12, <1>13, <1>14, <1>15
     DEF Next, ProducerStep, ConsumerStep

\* For every capacity and index width the ring is a bounded FIFO: what the
\* pipeline's threads may rely on without looking at indices.
THEOREM Refinement == Spec => ImplementsFifo
<1>1. Init => Fifo!FInit
  BY InitRefines
<1>2. IInv /\ [Next]_vars => [Fifo!FNext]_(Fifo!fvars)
  BY NextRefines
<1> QED
  BY <1>1, <1>2, Invariance, PTL DEF Spec, ImplementsFifo, Fifo!FSpec
=============================================================================
