------------------------- MODULE MotionRingProofs -------------------------
(***************************************************************************)
(* MotionRing proved for every size of the ring, every gap, and every set   *)
(* of users.  Places in the ring are counted by their offset from the write *)
(* pointer, where the oldest sample lies: along the offsets the samples     *)
(* rise, and both walks of a call are intervals of offsets.                 *)
(***************************************************************************)
EXTENDS MotionRing, FiniteSetTheorems, WellFoundedInduction, TLAPS

\* The place at offset o from the write pointer w.
Place(w, o) == IF w + o < Slots THEN w + o ELSE w + o - Slots

\* The offset of place i.
Off(w, i) == IF w <= i THEN i - w ELSE i - w + Slots

\* The sample at offset o, when n have been written.
Stamp(n, o) == IF Slots < n + o + 1 THEN n + o + 1 - Slots ELSE 0

\* The samples from place r up to the write pointer w.
Unread(r, w) == IF r <= w THEN w - r ELSE w - r + Slots

Reach == 0 .. 2 * Slots - 2

LEMMA Sizes ==
    /\ Slots \in Nat /\ Gap \in Nat /\ 0 < Gap /\ Gap < Slots /\ 2 <= Slots
    /\ MaxPts \in Nat /\ MaxSkew \in Nat
  BY RingAssumption

LEMMA ReachIs ==
    /\ \A p : p \in Slot <=> p \in Int /\ 0 <= p /\ p < Slots
    /\ \A p : p \in Outside <=> p \in Int /\ Slots <= p /\ p <= 2 * Slots - 2
    /\ \A p : p \in Reach <=> p \in Slot \/ p \in Outside
    /\ Reach = Slot \cup Outside
<1>1. \A p : p \in Slot <=> p \in Int /\ 0 <= p /\ p < Slots
  BY Sizes DEF Slot
<1>2. \A p : p \in Outside <=> p \in Int /\ Slots <= p /\ p <= 2 * Slots - 2
  BY Sizes DEF Outside
<1>3. \A p : p \in Reach <=> p \in Int /\ 0 <= p /\ p <= 2 * Slots - 2
  BY Sizes DEF Reach
<1>4. \A p : p \in Reach <=> p \in Slot \/ p \in Outside
  BY <1>1, <1>2, <1>3, Sizes
<1> QED
  BY <1>1, <1>2, <1>4

\* The remainders that the model takes.
LEMMA ModOnce ==
    /\ \A a \in Int : 0 <= a /\ a < Slots => a % Slots = a
    /\ \A a \in Int : Slots <= a /\ a < 2 * Slots => a % Slots = a - Slots
    /\ \A a \in Int : 0 - Slots <= a /\ a < 0 => a % Slots = a + Slots
<1>1. \A a \in Int : 0 <= a /\ a < Slots => a % Slots = a
  BY Sizes
<1>2. \A a \in Int : Slots <= a /\ a < 2 * Slots => a % Slots = a - Slots
  BY Sizes
<1>3. \A a \in Int : 0 - Slots <= a /\ a < 0 => a % Slots = a + Slots
  BY Sizes
<1> QED
  BY <1>1, <1>2, <1>3

\* Places and offsets are each other's inverse.
LEMMA PlaceOff ==
    ASSUME NEW w \in Slot
    PROVE  /\ \A i \in Slot : Off(w, i) \in Slot /\ Place(w, Off(w, i)) = i
           /\ \A o \in Slot : Place(w, o) \in Slot /\ Off(w, Place(w, o)) = o
           /\ Place(w, Slots) = w /\ Place(w, 0) = w
           /\ \A i \in Slot : Unread(i, w) = IF i = w THEN 0 ELSE Slots - Off(w, i)
           /\ \A i \in Slot : Unread(i, w) \in Slot
<1>1. \A i \in Slot : Off(w, i) \in Slot /\ Place(w, Off(w, i)) = i
  BY Sizes, ReachIs DEF Off, Place
<1>2. \A o \in Slot : Place(w, o) \in Slot /\ Off(w, Place(w, o)) = o
  BY Sizes, ReachIs DEF Off, Place
<1>3. Place(w, Slots) = w /\ Place(w, 0) = w
  BY Sizes, ReachIs DEF Place
<1>4. \A i \in Slot : Unread(i, w) = IF i = w THEN 0 ELSE Slots - Off(w, i)
  BY Sizes, ReachIs DEF Off, Unread
<1>5. \A i \in Slot : Unread(i, w) \in Slot
  BY Sizes, ReachIs DEF Unread
<1> QED
  BY <1>1, <1>2, <1>3, <1>4, <1>5

\* The write pointer moves on by one place.
LEMMA NextPlace ==
    ASSUME NEW w \in Slot
    PROVE  /\ (w + 1) % Slots = Place(w, 1) /\ Place(w, 1) \in Slot
           /\ Place(w, 1) # w
           /\ \A o \in Slot : Place(Place(w, 1), o) =
                                  IF o = Slots - 1 THEN w ELSE Place(w, o + 1)
           /\ \A i \in Slot : Unread(i, w) < Slots - 1 =>
                                  Unread(i, Place(w, 1)) = Unread(i, w) + 1
<1>1. (w + 1) % Slots = Place(w, 1) /\ Place(w, 1) \in Slot /\ Place(w, 1) # w
  BY Sizes, ReachIs, ModOnce DEF Place
<1>2. \A o \in Slot : Place(Place(w, 1), o) =
                          IF o = Slots - 1 THEN w ELSE Place(w, o + 1)
  BY Sizes, ReachIs DEF Place
<1>3. \A i \in Slot : Unread(i, w) < Slots - 1 =>
                          Unread(i, Place(w, 1)) = Unread(i, w) + 1
  BY Sizes, ReachIs DEF Place, Unread
<1> QED
  BY <1>1, <1>2, <1>3

\* Along the offsets the samples rise.
LEMMA StampRises ==
    ASSUME NEW n \in Nat
    PROVE  /\ \A o \in Int : Stamp(n, o) \in Int /\ 0 <= Stamp(n, o)
           /\ \A o, p \in Int : o < p /\ 0 < Stamp(n, o) =>
                                    Stamp(n, p) = Stamp(n, o) + (p - o)
           /\ \A o, p \in Int : o < p /\ 0 < Stamp(n, p) => Stamp(n, o) < Stamp(n, p)
           /\ \A o, p \in Int : o <= p => Stamp(n, o) <= Stamp(n, p)
           /\ \A o \in Slot : Stamp(n, o) <= n
           /\ Stamp(n, Slots - 1) = n
  BY Sizes, ReachIs DEF Stamp

-----------------------------------------------------------------------------
(* The walks of a call.                                                    *)

\* A well-founded relation on the naturals that holds the smaller of two.
LEMMA SmallerFounded ==
    \E lt : IsWellFoundedOn(lt, Nat) /\ \A x, y \in Nat : y < x => <<y, x>> \in lt
<1>1. \A x, y \in Nat : y < x => <<y, x>> \in OpToRel(<, Nat)
  BY DEF OpToRel
<1> QED
  BY <1>1, NatLessThanWellFounded

LEMMA LeastIs ==
    ASSUME NEW S, S \subseteq Nat, S # {}
    PROVE  Least(S) \in S /\ \A l \in S : Least(S) <= l
<1>1. PICK lt : IsWellFoundedOn(lt, Nat) /\ \A x, y \in Nat : y < x => <<y, x>> \in lt
  BY SmallerFounded
<1>2. PICK x \in S : \A y \in S : ~ (<<y, x>> \in lt)
  BY <1>1, WFMin
<1>3. \A y \in S : x <= y
  <2> TAKE y \in S
  <2>1. x \in Nat /\ y \in Nat
    OBVIOUS
  <2>2. ~(y < x)
    BY <1>1, <1>2, <2>1
  <2> QED
    BY <2>1, <2>2
<1> QED
  BY <1>3 DEF Least

\* Every place of a walk is one the user's pointer can be at.
LEMMA BackTyped ==
    ASSUME NEW p \in Reach, NEW k \in Nat
    PROVE  /\ Back(p, k) \in Reach
           /\ Back(p, k) \in Slot \/ Back(p, k) <= p
           /\ p \in Slot => Back(p, k) \in Slot
           /\ k = 0 => Back(p, k) = p
<1>1. CASE k <= p
  BY <1>1, Sizes, ReachIs DEF Back
<1>2. CASE ~ (k <= p)
  <2>1. (p - k) % Slots \in 0 .. Slots - 1
    BY Sizes, ReachIs
  <2> QED
    BY <1>2, <2>1, Sizes, ReachIs DEF Back
<1> QED
  BY <1>1, <1>2

\* msensor_buf_arrive_back_start_addr ends, at the write pointer or at a sample no
\* younger than the window.
LEMMA BackEnds ==
    ASSUME wp \in Slot, NEW u \in Users, rp[u] \in Reach, NEW g
    PROVE  /\ StepsBack(u, g) \in Nat
           /\ LET q == Back(rp[u], StepsBack(u, g))
              IN  q = wp \/ At(q, g) <= window[u].begin
<1> DEFINE p == rp[u]
           K == {k \in 0 .. 2 * Slots :
                   At(Back(p, k), g) <= window[u].begin \/ Back(p, k) = wp}
           w == IF wp <= p THEN p - wp ELSE p - wp + Slots
<1>1. w \in 0 .. 2 * Slots /\ Back(p, w) = wp
  <2>1. CASE wp <= p
    BY <2>1, Sizes, ReachIs DEF Back
  <2>2. CASE ~ (wp <= p)
    <3>1. w \in 0 .. 2 * Slots /\ ~ (w <= p) /\ p - w = wp - Slots
      BY <2>2, Sizes, ReachIs
    <3>2. (wp - Slots) % Slots = (wp - Slots) + Slots
      BY ModOnce, Sizes, ReachIs
    <3> QED
      BY <3>1, <3>2, Sizes, ReachIs DEF Back
  <2> QED
    BY <2>1, <2>2
<1> HIDE DEF w, p
<1>2. K \subseteq Nat /\ K # {}
  BY <1>1, Sizes
<1>3. Least(K) \in K
  BY <1>2, LeastIs
<1>4. StepsBack(u, g) = Least(K)
  BY DEF StepsBack, p
<1> QED
  BY <1>2, <1>3, <1>4 DEF p

\* Where the walk forward comes by, as offsets: from a place of the block its own
\* offset, and from behind the block, after one step, that of the first place.
LEMMA AheadOffsets ==
    ASSUME NEW w \in Slot
    PROVE  /\ \A q \in Slot, k \in Nat : Off(w, q) + k <= Slots =>
                  Ahead(q, k) = Place(w, Off(w, q) + k)
           /\ \A q \in Outside, k \in Nat : 0 < k /\ k <= w + 1 =>
                  Ahead(q, k) = Place(w, (Slots - 1 - w) + k)
           /\ \A q : Ahead(q, 0) = q
<1>1. ASSUME NEW q \in Slot, NEW k \in Nat, Off(w, q) + k <= Slots
      PROVE  Ahead(q, k) = Place(w, Off(w, q) + k)
  <2>1. CASE k = 0
    <3>1. Off(w, q) \in Slot /\ Place(w, Off(w, q)) = q
      BY PlaceOff
    <3>2. Off(w, q) + k = Off(w, q)
      BY <2>1, <3>1, ReachIs
    <3> QED
      BY <2>1, <3>1, <3>2 DEF Ahead
  <2>2. CASE k > 0
    <3>1. Ahead(q, k) = (q + k) % Slots
      BY <2>2, Sizes, ReachIs DEF Ahead
    <3>2. q + k \in Int /\ 0 <= q + k /\ q + k < 2 * Slots
      BY <1>1, <2>2, Sizes, ReachIs DEF Off
    <3>3. (q + k) % Slots = IF q + k < Slots THEN q + k ELSE q + k - Slots
      <4>1. \A a \in Int : 0 <= a /\ a < 2 * Slots =>
                a % Slots = IF a < Slots THEN a ELSE a - Slots
        BY ModOnce, Sizes
      <4> QED
        BY <3>2, <4>1, Sizes, ReachIs
    <3>4. Place(w, Off(w, q) + k) = IF q + k < Slots THEN q + k ELSE q + k - Slots
      BY <1>1, <2>2, <3>2, Sizes, ReachIs DEF Off, Place
    <3> QED
      BY <3>1, <3>3, <3>4
  <2> QED
    BY <2>1, <2>2
<1>2. ASSUME NEW q \in Outside, NEW k \in Nat, 0 < k, k <= w + 1
      PROVE  Ahead(q, k) = Place(w, (Slots - 1 - w) + k)
  <2>1. Ahead(q, k) = (k - 1) % Slots
    BY <1>2 DEF Ahead
  <2>2. (k - 1) % Slots = k - 1
    <3>1. k - 1 \in Int /\ 0 <= k - 1 /\ k - 1 < Slots
      BY <1>2, ReachIs, Sizes
    <3> QED
      BY <3>1, ModOnce
  <2>3. Place(w, (Slots - 1 - w) + k) = k - 1
    BY <1>2, Sizes, ReachIs DEF Place
  <2> QED
    BY <2>1, <2>2, <2>3
<1>3. \A q : Ahead(q, 0) = q
  BY DEF Ahead
<1> QED
  BY <1>1, <1>2, <1>3

-----------------------------------------------------------------------------
(* What a walk forward meets.                                              *)

\* The samples lie in the block in the order of their offsets from w.
Content(w) == \A o \in Slot : pts[Place(w, o)] = Stamp(written, o)

\* The walk of n steps from q, for a window that ends with the sample end: from its
\* step z on it goes by the offsets e + z, e + z + 1, and so on, none of them behind
\* the window; before z it reads other memory, which is no sample; and it stops at
\* the write pointer or behind the window.
Walk(q, n, e, z, end, g) ==
    /\ e \in Slot /\ z \in {0, 1} /\ n \in Nat /\ e + n <= Slots
    /\ \A k \in z .. n - 1 :
          /\ Ahead(q, k) = Place(wp, e + k)
          /\ At(Ahead(q, k), g) = Stamp(written, e + k)
          /\ Stamp(written, e + k) <= end
    /\ \A k \in Nat : k < z /\ k < n => At(Ahead(q, k), g) \notin 1 .. MaxPts
    /\ n > 0 => e + n = Slots \/ Stamp(written, e + n) > end

\* The stop of a walk, if its first offset is not that of the write pointer.
LEMMA PlaceOnce ==
    ASSUME NEW w \in Slot, NEW o \in Slot, Place(w, o) = w
    PROVE  o = 0
  BY Sizes, ReachIs DEF Place

LEMMA ForwardSlot ==
    ASSUME wp \in Slot, written \in Nat, Content(wp),
           NEW u \in Users, window[u].end \in Nat,
           NEW q \in Slot, NEW fwd \in BOOLEAN, NEW g
    PROVE  LET n == StepsAhead(u, q, fwd, g)
               e == Off(wp, q)
           IN  /\ Walk(q, n, e, 0, window[u].end, g)
               /\ \/ e + n = Slots
                  \/ Stamp(written, e + n) > window[u].end
                  \/ n = 0 /\ q = wp /\ fwd
<1> DEFINE K == {k \in 0 .. Slots + 1 :
                   \/ Ahead(q, k) = wp /\ (k > 0 \/ fwd)
                   \/ At(Ahead(q, k), g) > window[u].end}
           n == Least(K)
           e == Off(wp, q)
           end == window[u].end
<1>1. e \in Slot /\ end \in Nat /\ wp \in Slot /\ Slots - e \in Nat
  BY PlaceOff, Sizes, ReachIs
<1>2. \A k \in Nat : e + k <= Slots => Ahead(q, k) = Place(wp, e + k)
  BY AheadOffsets
<1>3. \A k \in Nat : e + k < Slots =>
          /\ e + k \in Slot
          /\ Place(wp, e + k) \in Slot
          /\ At(Ahead(q, k), g) = Stamp(written, e + k)
          /\ Stamp(written, e + k) \in Int
  <2> TAKE k \in Nat
  <2> HAVE e + k < Slots
  <2>1. e + k \in Slot
    BY <1>1, ReachIs, Sizes
  <2>2. Place(wp, e + k) \in Slot /\ Place(wp, e + k) \notin Outside
    BY <2>1, PlaceOff, ReachIs, Sizes
  <2>3. Ahead(q, k) = Place(wp, e + k)
    BY <1>1, <1>2, Sizes, ReachIs
  <2>4. At(Ahead(q, k), g) = pts[Place(wp, e + k)]
    BY <2>2, <2>3 DEF At
  <2> QED
    BY <2>1, <2>2, <2>4, StampRises, ReachIs DEF Content
<1> HIDE DEF e, end
<1>4. Slots - e \in K
  <2>1. e + (Slots - e) = Slots /\ Slots - e > 0 /\ Slots - e \in 0 .. Slots + 1
    BY <1>1, Sizes, ReachIs
  <2>2. Ahead(q, Slots - e) = wp
    BY <1>1, <1>2, <2>1, PlaceOff, Sizes
  <2> QED
    BY <2>1, <2>2
<1>5. K \subseteq Nat /\ K # {}
  BY <1>4, Sizes
<1>6. n \in K /\ n \in Nat /\ \A k \in K : n <= k
  BY <1>5, LeastIs
<1>7. n <= Slots - e /\ n = StepsAhead(u, q, fwd, g)
  BY <1>4, <1>6 DEF StepsAhead
<1> HIDE DEF n
<1>8. e + n <= Slots
  BY <1>1, <1>6, <1>7, Sizes, ReachIs
<1>9. ASSUME NEW k \in 0 .. n - 1
      PROVE  /\ Ahead(q, k) = Place(wp, e + k)
             /\ At(Ahead(q, k), g) = Stamp(written, e + k)
             /\ Stamp(written, e + k) <= end
  <2>1. k \in Nat /\ k < n /\ e + k < Slots /\ k \in 0 .. Slots + 1
    BY <1>1, <1>6, <1>8, Sizes, ReachIs
  <2>2. k \notin K
    BY <1>6, <2>1
  <2>3. ~ (At(Ahead(q, k), g) > end)
    BY <2>1, <2>2 DEF end
  <2>4. Ahead(q, k) = Place(wp, e + k)
    BY <1>1, <1>2, <2>1, Sizes, ReachIs
  <2> QED
    BY <1>1, <1>3, <2>1, <2>3, <2>4
<1>10. \/ e + n = Slots
       \/ Stamp(written, e + n) > end
       \/ n = 0 /\ q = wp /\ fwd
  <2> SUFFICES ASSUME e + n < Slots
               PROVE  Stamp(written, e + n) > end \/ (n = 0 /\ q = wp /\ fwd)
    BY <1>1, <1>6, <1>8, Sizes, ReachIs
  <2>1. Ahead(q, n) = Place(wp, e + n) /\ e + n \in Slot
    BY <1>1, <1>2, <1>3, <1>6, <1>8
  <2>2. CASE At(Ahead(q, n), g) > end
    BY <1>3, <1>6, <2>2
  <2>3. CASE Ahead(q, n) = wp /\ (n > 0 \/ fwd)
    <3>1. e + n = 0
      BY <1>1, <2>1, <2>3, PlaceOnce
    <3>2. e = 0 /\ n = 0
      BY <1>1, <1>6, <3>1, ReachIs
    <3>3. q = Ahead(q, 0) /\ ~ (n > 0)
      BY <3>2, AheadOffsets
    <3> QED
      BY <2>3, <3>2, <3>3
  <2> QED
    BY <1>6, <2>2, <2>3 DEF end
<1>11. n > 0 => e + n = Slots \/ Stamp(written, e + n) > end
  BY <1>10, <1>6
<1>12. Walk(q, n, e, 0, end, g)
  BY <1>1, <1>6, <1>8, <1>9, <1>11 DEF Walk
<1> QED
  BY <1>7, <1>10, <1>12 DEF e, end

\* From behind the block: one step over other memory, then from the first place on.
LEMMA ForwardOutside ==
    ASSUME wp \in Slot, written \in Nat, Content(wp),
           NEW u \in Users, window[u].end \in Nat,
           NEW q \in Outside, NEW fwd \in BOOLEAN, NEW g, g[q] \notin 1 .. MaxPts
    PROVE  Walk(q, StepsAhead(u, q, fwd, g), Slots - 1 - wp, 1, window[u].end, g)
<1> DEFINE K == {k \in 0 .. Slots + 1 :
                   \/ Ahead(q, k) = wp /\ (k > 0 \/ fwd)
                   \/ At(Ahead(q, k), g) > window[u].end}
           n == Least(K)
           e == Slots - 1 - wp
           end == window[u].end
<1>1. e \in Slot /\ end \in Nat /\ wp \in Nat /\ wp < Slots /\ e + wp + 1 = Slots
  BY Sizes, ReachIs
<1>2. \A k \in Nat : 0 < k /\ k <= wp + 1 => Ahead(q, k) = Place(wp, e + k)
  BY AheadOffsets
<1> HIDE DEF e, end
<1>3. \A k \in Nat : 0 < k /\ e + k < Slots =>
          /\ e + k \in Slot
          /\ Ahead(q, k) = Place(wp, e + k)
          /\ At(Ahead(q, k), g) = Stamp(written, e + k)
          /\ Stamp(written, e + k) \in Int
  <2> TAKE k \in Nat
  <2> HAVE 0 < k /\ e + k < Slots
  <2>1. e + k \in Slot /\ k <= wp + 1
    BY <1>1, ReachIs, Sizes
  <2>2. Place(wp, e + k) \in Slot /\ Place(wp, e + k) \notin Outside
    BY <2>1, PlaceOff, ReachIs, Sizes
  <2>3. Ahead(q, k) = Place(wp, e + k)
    BY <1>2, <2>1
  <2>4. At(Ahead(q, k), g) = pts[Place(wp, e + k)]
    BY <2>2, <2>3 DEF At
  <2> QED
    BY <2>1, <2>3, <2>4, StampRises, ReachIs DEF Content
<1>4. wp + 1 \in K
  <2>1. wp + 1 \in 0 .. Slots + 1 /\ wp + 1 > 0 /\ e + (wp + 1) = Slots
    BY <1>1, Sizes, ReachIs
  <2>2. Ahead(q, wp + 1) = wp
    BY <1>1, <1>2, <2>1, PlaceOff, Sizes
  <2> QED
    BY <2>1, <2>2
<1>5. K \subseteq Nat /\ K # {}
  BY <1>4, Sizes
<1>6. n \in K /\ n \in Nat /\ \A k \in K : n <= k
  BY <1>5, LeastIs
<1>7. n <= wp + 1 /\ n = StepsAhead(u, q, fwd, g)
  BY <1>4, <1>6 DEF StepsAhead
<1> HIDE DEF n
<1>8. e + n <= Slots
  BY <1>1, <1>6, <1>7, Sizes, ReachIs
<1>9. ASSUME NEW k \in 1 .. n - 1
      PROVE  /\ Ahead(q, k) = Place(wp, e + k)
             /\ At(Ahead(q, k), g) = Stamp(written, e + k)
             /\ Stamp(written, e + k) <= end
  <2>1. k \in Nat /\ 0 < k /\ k < n /\ e + k < Slots /\ k \in 0 .. Slots + 1
    BY <1>1, <1>6, <1>8, Sizes, ReachIs
  <2>2. k \notin K
    BY <1>6, <2>1
  <2>3. ~ (At(Ahead(q, k), g) > end)
    BY <2>1, <2>2 DEF end
  <2> QED
    BY <1>1, <1>3, <2>1, <2>3
<1>10. \A k \in Nat : k < 1 /\ k < n => At(Ahead(q, k), g) \notin 1 .. MaxPts
  <2>1. At(Ahead(q, 0), g) = g[q]
    BY AheadOffsets DEF At
  <2>2. \A k \in Nat : k < 1 => k = 0
    OBVIOUS
  <2> QED
    BY <2>1, <2>2
<1>11. ASSUME n > 0 PROVE e + n = Slots \/ Stamp(written, e + n) > end
  <2> SUFFICES ASSUME e + n < Slots
               PROVE  Stamp(written, e + n) > end
    BY <1>1, <1>6, <1>8, Sizes, ReachIs
  <2>1. Ahead(q, n) = Place(wp, e + n) /\ e + n \in Slot
    BY <1>3, <1>6, <1>11
  <2>2. CASE At(Ahead(q, n), g) > end
    BY <1>3, <1>6, <1>11, <2>2
  <2>3. CASE Ahead(q, n) = wp
    <3>1. e + n = 0
      BY <1>1, <2>1, <2>3, PlaceOnce
    <3> QED
      BY <1>1, <1>6, <1>11, <3>1, ReachIs
  <2> QED
    BY <1>6, <2>2, <2>3 DEF end
<1>12. Walk(q, n, e, 1, end, g)
  BY <1>1, <1>6, <1>8, <1>9, <1>10, <1>11 DEF Walk
<1> QED
  BY <1>7, <1>12 DEF e, end

-----------------------------------------------------------------------------
(* What a call gives.                                                      *)

\* The last m samples of the walk are those of the window, and info says where they
\* lie: in one piece, or in one up to the end of the block and one from its start on.
Batch(info, q, n, e, z, m, begin) ==
    /\ m \in Nat /\ m <= n /\ (m > 0 => z <= n - m)
    /\ info.at = info.x
    /\ info.n0 \in Nat /\ info.n1 \in Nat /\ info.n0 + info.n1 = m
    /\ m = 0 => info.x = q
    /\ m > 0 =>
          /\ info.x = Place(wp, e + (n - m))
          /\ info.n1 = IF info.x + m <= Slots THEN 0 ELSE info.x + m - Slots
    /\ \A k \in z .. n - 1 : begin <= Stamp(written, e + k) <=> n - m <= k

LEMMA FoundBatch ==
    ASSUME wp \in Slot, written \in Nat,
           NEW u \in Users, window[u].begin \in Sample, window[u].end \in Sample,
           NEW q, NEW g, NEW n, NEW e, NEW z,
           Walk(q, n, e, z, window[u].end, g)
    PROVE  \E m \in Nat : Batch(Found(u, q, n, g), q, n, e, z, m, window[u].begin)
<1> DEFINE begin == window[u].begin
           end   == window[u].end
           hits  == {k \in 0 .. n - 1 : At(Ahead(q, k), g) \in begin .. end}
           first == IF hits = {} THEN q ELSE Ahead(q, Least(hits))
           after == {k \in hits : Ahead(q, k) < first}
           info  == Found(u, q, n, g)
<1>1. /\ info.x = first /\ info.at = first
      /\ info.n0 = Cardinality(hits \ after) /\ info.n1 = Cardinality(after)
  BY DEF Found
<1>2. /\ e \in Int /\ 0 <= e /\ e < Slots /\ z \in Int /\ 0 <= z /\ n \in Nat
      /\ e + n <= Slots
      /\ begin \in Int /\ 1 <= begin /\ end \in Int /\ end <= MaxPts
  BY Sizes, ReachIs DEF Walk, Sample
<1>3. \A k \in z .. n - 1 : /\ Ahead(q, k) = Place(wp, e + k)
                            /\ At(Ahead(q, k), g) = Stamp(written, e + k)
                            /\ Stamp(written, e + k) <= end
  BY DEF Walk
<1>4. \A k \in 0 .. n - 1 : k < z => At(Ahead(q, k), g) \notin begin .. end
  <2>1. begin .. end \subseteq 1 .. MaxPts
    BY <1>2, Sizes
  <2>2. \A k \in Nat : k < z /\ k < n => At(Ahead(q, k), g) \notin 1 .. MaxPts
    BY DEF Walk
  <2> HIDE DEF begin, end
  <2>3. ASSUME NEW k \in 0 .. n - 1, k < z
        PROVE  At(Ahead(q, k), g) \notin begin .. end
    <3>1. k \in Nat /\ k < n
      BY <1>2
    <3> QED
      BY <2>1, <2>2, <2>3, <3>1
  <2> QED
    BY <2>3
<1> HIDE DEF begin, end, info
<1>5. \A k \in 0 .. n - 1 : k \in hits <=> z <= k /\ begin <= Stamp(written, e + k)
  <2> TAKE k \in 0 .. n - 1
  <2>1. CASE k < z
    BY <1>2, <1>4, <2>1
  <2>2. CASE z <= k
    <3>1. k \in z .. n - 1 /\ Stamp(written, e + k) \in Int
      BY <1>2, <2>2, StampRises
    <3> QED
      BY <1>2, <1>3, <2>2, <3>1
  <2> QED
    BY <1>2, <2>1, <2>2
<1>6. CASE hits = {}
  <2>1. first = q /\ after = {} /\ hits \ after = {}
    BY <1>6
  <2>2. info.n0 = 0 /\ info.n1 = 0 /\ info.x = q /\ info.at = q
    BY <1>1, <2>1, FS_EmptySet
  <2>3. \A k \in z .. n - 1 : ~ (begin <= Stamp(written, e + k)) /\ ~ (n <= k)
    BY <1>2, <1>5, <1>6
  <2>4. Batch(info, q, n, e, z, 0, begin)
    BY <1>2, <2>2, <2>3 DEF Batch
  <2> QED
    BY <2>4 DEF info, begin
<1>7. CASE hits # {}
  <2> DEFINE h == Least(hits)
             m == n - h
             t == h + (Slots - first)
  <2>1. h \in hits /\ \A l \in hits : h <= l
    <3>1. hits \subseteq Nat
      BY <1>2
    <3> HIDE DEF hits
    <3> QED
      BY <1>7, <3>1, LeastIs
  <2>2. h \in Nat /\ h < n /\ z <= h /\ begin <= Stamp(written, e + h)
    BY <1>2, <1>5, <2>1
  <2> HIDE DEF h
  <2>3. \A k \in 0 .. n - 1 : k \in hits <=> h <= k
    <3> TAKE k \in 0 .. n - 1
    <3>1. CASE h <= k
      <4>1. e + h \in Int /\ e + k \in Int /\ e + h <= e + k /\ z <= k
        BY <1>2, <2>2, <3>1
      <4>2. /\ Stamp(written, e + h) <= Stamp(written, e + k)
            /\ Stamp(written, e + k) \in Int /\ Stamp(written, e + h) \in Int
        BY <4>1, StampRises
      <4> QED
        BY <1>2, <1>5, <2>2, <3>1, <4>1, <4>2
    <3>2. CASE ~ (h <= k)
      BY <1>2, <2>1, <2>2, <3>2
    <3> QED
      BY <3>1, <3>2
  <2>4. hits = h .. n - 1
    BY <1>2, <2>2, <2>3
  <2>5. /\ first = Place(wp, e + h) /\ first \in Int /\ 0 <= first /\ first < Slots
        /\ first = IF wp + e + h < Slots THEN wp + e + h ELSE wp + e + h - Slots
    <3>1. first = Ahead(q, h)
      BY <1>7 DEF h
    <3>2. first = Place(wp, e + h)
      BY <1>2, <1>3, <2>2, <3>1
    <3> HIDE DEF first
    <3> QED
      BY <1>2, <2>2, <3>2, Sizes, ReachIs DEF Place
  <2>6. \A k \in h .. n - 1 : Ahead(q, k) < first <=> t <= k
    <3> HIDE DEF first
    <3> TAKE k \in h .. n - 1
    <3>1. Ahead(q, k) = Place(wp, e + k)
      BY <1>2, <1>3, <2>2
    <3> QED
      BY <1>2, <2>2, <2>5, <3>1, Sizes, ReachIs DEF Place
  <2>7. after = {k \in h .. n - 1 : t <= k}
    BY <2>4, <2>6
  <2> HIDE DEF after, hits, first
  <2>8. t \in Int /\ h < t /\ m \in Nat /\ 0 < m /\ m <= n
    BY <1>2, <2>2, <2>5, Sizes
  <2>9. /\ after = t .. n - 1
        /\ hits \ after = h .. (IF t <= n THEN t - 1 ELSE n - 1)
    <3> HIDE DEF t
    <3> QED
      BY <1>2, <2>2, <2>4, <2>7, <2>8
  <2>10. Cardinality(after) = IF t > n - 1 THEN 0 ELSE n - 1 - t + 1
    <3> HIDE DEF t
    <3> DEFINE b == n - 1
    <3>1. b \in Int /\ t \in Int
      BY <1>2, <2>8
    <3> HIDE DEF b
    <3>2. Cardinality(t .. b) = IF t > b THEN 0 ELSE b - t + 1
      BY <3>1, FS_Interval
    <3> QED
      BY <2>9, <3>2 DEF b
  <2>11. Cardinality(hits \ after) = (IF t <= n THEN t - 1 ELSE n - 1) - h + 1
    <3> DEFINE b == IF t <= n THEN t - 1 ELSE n - 1
    <3>1. b \in Int /\ h \in Int /\ ~ (h > b)
      BY <1>2, <2>2, <2>8
    <3> HIDE DEF b
    <3>2. Cardinality(h .. b) = b - h + 1
      BY <3>1, FS_Interval
    <3> QED
      BY <2>9, <3>2 DEF b
  <2>12. /\ info.n1 = IF first + m <= Slots THEN 0 ELSE first + m - Slots
         /\ info.n0 \in Nat /\ info.n1 \in Nat /\ info.n0 + info.n1 = m
    BY <1>1, <1>2, <2>2, <2>5, <2>8, <2>10, <2>11, Sizes
  <2>13. n - m = h
    BY <1>2, <2>2
  <2>14. \A k \in z .. n - 1 : begin <= Stamp(written, e + k) <=> h <= k
    BY <1>2, <1>5, <2>3
  <2>15. Batch(info, q, n, e, z, m, begin)
    BY <1>1, <2>2, <2>5, <2>8, <2>12, <2>13, <2>14 DEF Batch
  <2> QED
    BY <2>8, <2>15 DEF info, begin
<1> QED
  BY <1>6, <1>7

\* The samples of the walk's last m offsets, one after the other.
Lists(stamps, n, e, m) ==
    /\ DOMAIN stamps = 1 .. m
    /\ \A k \in 1 .. m : /\ e + (n - m) + (k - 1) \in Slot
                         /\ stamps[k] = Stamp(written, e + (n - m) + (k - 1))

\* The two pieces hold them.
LEMMA StampsAre ==
    ASSUME wp \in Slot, Content(wp),
           NEW info, NEW q, NEW n \in Nat, NEW e \in Slot, NEW z, NEW m, NEW begin,
           e + n <= Slots, Batch(info, q, n, e, z, m, begin)
    PROVE  Lists(Stamps(info, info.x), n, e, m)
<1>1. /\ m \in Nat /\ m <= n /\ info.n0 \in Nat /\ info.n1 \in Nat
      /\ info.n0 + info.n1 = m
  BY DEF Batch
<1>2. DOMAIN Stamps(info, info.x) = 1 .. m
  BY <1>1 DEF Stamps
<1>3. ASSUME NEW k \in 1 .. m
      PROVE  /\ e + (n - m) + (k - 1) \in Slot
             /\ Stamps(info, info.x)[k] = Stamp(written, e + (n - m) + (k - 1))
  <2> DEFINE o == e + (n - m)
             i == IF k <= info.n0 THEN info.x + k - 1 ELSE k - info.n0 - 1
  <2>1. /\ m > 0 /\ o \in Int /\ 0 <= o /\ o + m <= Slots
        /\ o + (k - 1) \in Slot /\ wp \in Int /\ 0 <= wp /\ wp < Slots
    BY <1>1, Sizes, ReachIs
  <2>2. /\ info.x = Place(wp, o)
        /\ info.n1 = IF info.x + m <= Slots THEN 0 ELSE info.x + m - Slots
    BY <2>1 DEF Batch
  <2> HIDE DEF o
  <2>3. info.x = IF wp + o < Slots THEN wp + o ELSE wp + o - Slots
    BY <2>1, <2>2 DEF Place
  <2>4. i = Place(wp, o + (k - 1))
    <3>1. Place(wp, o + (k - 1)) = IF wp + o + (k - 1) < Slots THEN wp + o + (k - 1)
                                   ELSE wp + o + (k - 1) - Slots
      BY <1>1, <2>1, Sizes DEF Place
    <3>2. CASE info.x + m <= Slots
      BY <1>1, <2>1, <2>2, <2>3, <3>1, <3>2, Sizes
    <3>3. CASE ~ (info.x + m <= Slots)
      BY <1>1, <2>1, <2>2, <2>3, <3>1, <3>3, Sizes
    <3> QED
      BY <3>2, <3>3
  <2>5. Stamps(info, info.x)[k] = pts[i]
    BY <1>1 DEF Stamps
  <2>6. pts[i] = Stamp(written, o + (k - 1))
    BY <2>1, <2>4 DEF Content
  <2> QED
    BY <2>1, <2>5, <2>6 DEF o
<1> QED
  BY <1>2, <1>3 DEF Lists

\* What is given rises, and lies in the window and in the ring; and it is all that
\* does, if the walk went from a place not behind the window's begin to its stop.
LEMMA GivenExact ==
    ASSUME wp \in Slot, written \in Nat, Content(wp),
           NEW u \in Users, window[u].begin \in Sample, window[u].end \in Sample,
           NEW info, NEW q, NEW n, NEW e, NEW z, NEW m, NEW g,
           Walk(q, n, e, z, window[u].end, g),
           Batch(info, q, n, e, z, m, window[u].begin)
    PROVE  LET stamps == Stamps(info, info.x)
               given  == {stamps[k] : k \in DOMAIN stamps}
           IN  /\ Increasing(stamps)
               /\ given \subseteq InRing(window[u])
               /\ (/\ z = 0
                   /\ e = 0 \/ Stamp(written, e) <= window[u].begin
                   /\ e + n = Slots \/ Stamp(written, e + n) > window[u].end)
                    => given = InRing(window[u])
<1> DEFINE stamps == Stamps(info, info.x)
           given  == {stamps[k] : k \in DOMAIN stamps}
           begin  == window[u].begin
           end    == window[u].end
<1>0. /\ \A o \in Int : Stamp(written, o) \in Int /\ 0 <= Stamp(written, o)
      /\ \A o, p \in Int : o < p /\ 0 < Stamp(written, o) =>
                              Stamp(written, p) = Stamp(written, o) + (p - o)
      /\ \A o, p \in Int : o < p /\ 0 < Stamp(written, p) =>
                              Stamp(written, o) < Stamp(written, p)
      /\ \A o, p \in Int : o <= p => Stamp(written, o) <= Stamp(written, p)
  BY StampRises
<1>1. /\ e \in Slot /\ e \in Int /\ 0 <= e /\ n \in Nat /\ e + n <= Slots
      /\ z \in Int /\ 0 <= z
      /\ m \in Nat /\ m <= n /\ (m > 0 => z <= n - m)
      /\ begin \in Int /\ 1 <= begin /\ end \in Int
  BY ReachIs, Sizes DEF Walk, Batch, Sample
<1>2. /\ DOMAIN stamps = 1 .. m
      /\ \A k \in 1 .. m : /\ e + (n - m) + (k - 1) \in Slot
                           /\ stamps[k] = Stamp(written, e + (n - m) + (k - 1))
  <2>1. e \in Slot /\ n \in Nat /\ e + n <= Slots
    BY <1>1
  <2>2. Lists(Stamps(info, info.x), n, e, m)
    BY <2>1, StampsAre
  <2> QED
    BY <2>2 DEF Lists
<1>3. \A k \in z .. n - 1 : /\ begin <= Stamp(written, e + k) <=> n - m <= k
                            /\ Stamp(written, e + k) <= end
  BY DEF Walk, Batch
<1> HIDE DEF stamps, begin, end
<1>4. ASSUME NEW k \in 1 .. m
      PROVE  /\ stamps[k] \in begin .. end
             /\ \E i \in Slot : pts[i] = stamps[k]
  <2> DEFINE j == (n - m) + (k - 1)
  <2>1. /\ j \in z .. n - 1 /\ n - m <= j /\ e + j = e + (n - m) + (k - 1)
        /\ e + j \in Int
    BY <1>1
  <2> HIDE DEF j
  <2>2. stamps[k] = Stamp(written, e + j) /\ e + j \in Slot
    BY <1>2, <2>1
  <2>3. Stamp(written, e + j) \in begin .. end
    <3>1. begin <= Stamp(written, e + j) /\ Stamp(written, e + j) <= end
      BY <1>3, <2>1
    <3>2. Stamp(written, e + j) \in Int
      BY <1>0, <2>1
    <3> QED
      BY <1>1, <3>1, <3>2
  <2>4. pts[Place(wp, e + j)] = Stamp(written, e + j) /\ Place(wp, e + j) \in Slot
    BY <2>2, PlaceOff DEF Content
  <2> QED
    BY <2>2, <2>3, <2>4
<1>5. given \subseteq InRing(window[u])
  BY <1>2, <1>4 DEF InRing, begin, end
<1>6. Increasing(stamps)
  <2>1. ASSUME NEW i \in 1 .. m, NEW j \in 1 .. m, i < j
        PROVE  stamps[i] < stamps[j]
    <3> DEFINE oi == e + (n - m) + (i - 1)
               oj == e + (n - m) + (j - 1)
    <3>1. oi \in Int /\ oj \in Int /\ oi < oj
      BY <1>1, <2>1
    <3>2. stamps[i] = Stamp(written, oi) /\ stamps[j] = Stamp(written, oj)
      BY <1>2
    <3>3. stamps[j] >= begin
      BY <1>1, <1>4
    <3> HIDE DEF oi, oj
    <3>4. 0 < Stamp(written, oj)
      BY <1>1, <3>1, <3>2, <3>3, <1>0
    <3> QED
      BY <3>1, <3>2, <3>4, <1>0
  <2> QED
    BY <1>2, <2>1 DEF Increasing
<1>7. ASSUME z = 0,
             e = 0 \/ Stamp(written, e) <= begin,
             e + n = Slots \/ Stamp(written, e + n) > end,
             NEW s \in begin .. end, NEW i \in Slot, pts[i] = s
      PROVE  \E k \in 1 .. m : stamps[k] = s
  <2> DEFINE o == Off(wp, i)
  <2>1. o \in Slot /\ Place(wp, o) = i
    BY PlaceOff
  <2> HIDE DEF o
  <2>2. Stamp(written, o) = s /\ o \in Int /\ 0 <= o /\ o < Slots
    BY <1>7, <2>1, ReachIs DEF Content
  <2>3. e <= o
    <3> SUFFICES ASSUME o < e PROVE FALSE
      BY <1>1, <2>2
    <3>1. 0 < Stamp(written, o)
      BY <1>1, <1>7, <2>2
    <3>2. Stamp(written, e) = Stamp(written, o) + (e - o)
      BY <1>0, <1>1, <2>2, <3>1
    <3> QED
      BY <1>1, <1>7, <2>2, <3>2
  <2>4. o < e + n
    <3> SUFFICES ASSUME e + n <= o PROVE FALSE
      BY <1>1, <2>2
    <3>1. e + n \in Int /\ e + n # Slots
      BY <1>1, <2>2, Sizes
    <3>2. Stamp(written, e + n) <= Stamp(written, o) /\ Stamp(written, e + n) \in Int
      BY <2>2, <3>1, <1>0
    <3> QED
      BY <1>1, <1>7, <2>2, <3>1, <3>2
  <2> DEFINE k == (o - e) - (n - m) + 1
  <2>5. o - e \in z .. n - 1 /\ e + (o - e) = o
    BY <1>1, <1>7, <2>2, <2>3, <2>4
  <2>6. n - m <= o - e
    BY <1>1, <1>3, <1>7, <2>2, <2>5
  <2>7. k \in 1 .. m /\ e + (n - m) + (k - 1) = o
    BY <1>1, <2>2, <2>5, <2>6
  <2> HIDE DEF k
  <2>8. stamps[k] = s
    BY <1>2, <2>2, <2>7
  <2> QED
    BY <2>7, <2>8
<1>8. ASSUME z = 0,
             e = 0 \/ Stamp(written, e) <= begin,
             e + n = Slots \/ Stamp(written, e + n) > end
      PROVE  given = InRing(window[u])
  <2>1. InRing(window[u]) = {s \in begin .. end : \E i \in Slot : pts[i] = s}
    BY DEF InRing, begin, end
  <2>2. \A s \in InRing(window[u]) : \E k \in 1 .. m : stamps[k] = s
    BY <1>7, <1>8, <2>1
  <2> QED
    BY <1>2, <1>5, <2>2
<1> QED
  BY <1>5, <1>6, <1>8 DEF stamps, begin, end

\* Behind what was got lie the samples of the ring that are younger than the window.
LEMMA BehindUnread ==
    ASSUME wp \in Slot, written \in Nat, NEW end \in Nat, end <= written,
           NEW info, NEW q, NEW n, NEW e, NEW z, NEW m, NEW g, NEW begin \in Nat,
           1 <= begin, m > 0,
           Walk(q, n, e, z, end, g), Batch(info, q, n, e, z, m, begin)
    PROVE  /\ Behind(info, info.x) \in Slot
           /\ Unread(Behind(info, info.x), wp) = written - end
<1>1. /\ e \in Int /\ 0 <= e /\ e < Slots /\ n \in Nat /\ e + n <= Slots
      /\ m \in Nat /\ m <= n /\ z <= n - m /\ z \in Int
      /\ info.n0 \in Nat /\ info.n1 \in Nat /\ info.n0 + info.n1 = m
      /\ wp \in Int /\ 0 <= wp /\ wp < Slots
  BY ReachIs, Sizes DEF Walk, Batch
<1>2. /\ info.x = Place(wp, e + (n - m))
      /\ info.n1 = IF info.x + m <= Slots THEN 0 ELSE info.x + m - Slots
  BY DEF Batch
<1>3. Behind(info, info.x) = Place(wp, e + n)
  <2>1. info.x = IF wp + e + n - m < Slots THEN wp + e + n - m
                 ELSE wp + e + n - m - Slots
    BY <1>1, <1>2, Sizes DEF Place
  <2>2. Place(wp, e + n) = IF wp + e + n < Slots THEN wp + e + n
                           ELSE wp + e + n - Slots
    BY <1>1, Sizes DEF Place
  <2> QED
    BY <1>1, <1>2, <2>1, <2>2, Sizes DEF Behind
<1>4. Place(wp, e + n) \in Slot /\ Unread(Place(wp, e + n), wp) = Slots - (e + n)
  <2>1. CASE e + n = Slots
    <3>1. Place(wp, e + n) = wp
      BY <2>1, PlaceOff
    <3>2. Unread(wp, wp) = 0
      BY <1>1 DEF Unread
    <3> QED
      BY <1>1, <2>1, <3>1, <3>2, Sizes
  <2>2. CASE e + n < Slots
    <3> DEFINE o == e + n
    <3>1. o \in Slot /\ o # 0
      BY <1>1, <2>2, ReachIs
    <3> HIDE DEF o
    <3>2. Place(wp, o) \in Slot /\ Off(wp, Place(wp, o)) = o /\ Place(wp, o) # wp
      BY <3>1, PlaceOff, PlaceOnce
    <3> QED
      BY <3>2, PlaceOff DEF o
  <2> QED
    BY <1>1, <2>1, <2>2, Sizes
<1>5. written - end = Slots - (e + n)
  <2> DEFINE k == n - 1
  <2>1. k \in z .. n - 1 /\ e + k \in Int /\ e + n \in Int /\ e + k < e + n /\ n - m <= k
        /\ (e + n) - (e + k) = 1
    BY <1>1
  <2>2. Stamp(written, e + k) <= end /\ begin <= Stamp(written, e + k)
    BY <2>1 DEF Walk, Batch
  <2>3. e + n = Slots \/ Stamp(written, e + n) > end
    BY <1>1 DEF Walk
  <2>4. Stamp(written, e + k) = IF Slots < written + e + n THEN written + e + n - Slots
                                ELSE 0
    BY <1>1, Sizes DEF Stamp
  <2>5. Stamp(written, e + n) = IF Slots < written + e + n + 1 THEN written + e + n + 1 - Slots
                                ELSE 0
    BY <1>1, Sizes DEF Stamp
  <2> HIDE DEF k
  <2> QED
    BY <1>1, <2>2, <2>3, <2>4, <2>5, Sizes
<1> QED
  BY <1>3, <1>4, <1>5

Given(info) == LET stamps == Stamps(info, info.x) IN {stamps[k] : k \in DOMAIN stamps}

\* What is known of an answer to user u, found from place q on.
Answer(u, info, q) ==
    /\ q \in Reach /\ (rp[u] \in Slot => q \in Slot)
    /\ info.at = info.x /\ info.n0 \in 0 .. Slots /\ info.n1 \in 0 .. Slots
    /\ info.n0 + info.n1 = 0 => info.x = q
    /\ info.n0 + info.n1 > 0 =>
          /\ info.x \in Slot /\ info.n1 < Slots /\ info.x + info.n0 <= Slots
          /\ window[u].end <= written =>
                /\ Behind(info, info.x) \in Slot
                /\ Unread(Behind(info, info.x), wp) = written - window[u].end
    /\ Increasing(Stamps(info, info.x))
    /\ Given(info) \subseteq InRing(window[u])
    /\ rp[u] \in Slot /\ rp[u] # wp => Given(info) = InRing(window[u])

LEMMA FoundAnswer ==
    ASSUME wp \in Slot, written \in Nat, Content(wp), NEW u \in Users,
           rp[u] \in Reach, window[u].begin \in Sample, window[u].end \in Sample,
           forward \in BOOLEAN, NEW g \in [Slots .. rp[u] -> {0, MaxPts + 1}]
    PROVE  LET back == StepsBack(u, g)
               q    == Back(rp[u], back)
               fwd  == forward /\ back = 0
               n    == StepsAhead(u, q, fwd, g)
           IN  Answer(u, Found(u, q, n, g), q)
<1> DEFINE back  == StepsBack(u, g)
           q     == Back(rp[u], back)
           fwd   == forward /\ back = 0
           n     == StepsAhead(u, q, fwd, g)
           info  == Found(u, q, n, g)
           begin == window[u].begin
           end   == window[u].end
<1>1. back \in Nat /\ (q = wp \/ At(q, g) <= begin)
  BY BackEnds
<1>2. /\ q \in Reach /\ (q \in Slot \/ q <= rp[u])
      /\ rp[u] \in Slot => q \in Slot
      /\ back = 0 => q = rp[u]
  BY <1>1, BackTyped
<1>3. fwd \in BOOLEAN /\ (fwd => q = rp[u])
  BY <1>2
<1>4. begin \in Nat /\ 1 <= begin /\ end \in Nat
  BY Sizes DEF Sample
<1> HIDE DEF back, q, fwd
<1>5. \E e, z : /\ Walk(q, n, e, z, end, g)
                /\ rp[u] \in Slot /\ rp[u] # wp =>
                      /\ z = 0
                      /\ e = 0 \/ Stamp(written, e) <= begin
                      /\ e + n = Slots \/ Stamp(written, e + n) > end
  <2>1. CASE q \in Slot
    <3> DEFINE e == Off(wp, q)
    <3>1. /\ Walk(q, n, e, 0, end, g)
          /\ \/ e + n = Slots
             \/ Stamp(written, e + n) > end
             \/ n = 0 /\ q = wp /\ fwd
      BY <1>3, <1>4, <2>1, ForwardSlot
    <3>2. e = 0 \/ Stamp(written, e) <= begin
      <4>1. CASE q = wp
        BY <2>1, <4>1, ReachIs, Sizes DEF Off
      <4>2. CASE At(q, g) <= begin
        <5>1. q \notin Outside
          BY <2>1, ReachIs, Sizes
        <5>2. e \in Slot /\ Place(wp, e) = q
          BY <2>1, PlaceOff
        <5>3. Stamp(written, e) = pts[q]
          BY <5>2 DEF Content
        <5> QED
          BY <4>2, <5>1, <5>3 DEF At
      <4> QED
        BY <1>1, <4>1, <4>2
    <3> HIDE DEF e, n
    <3> QED
      BY <1>3, <3>1, <3>2
  <2>2. CASE q \notin Slot
    <3>1. q \in Outside /\ q \in Slots .. rp[u]
      BY <1>2, <2>2, ReachIs, Sizes
    <3>2. g[q] \notin 1 .. MaxPts
      BY <3>1, Sizes
    <3>3. Walk(q, n, Slots - 1 - wp, 1, end, g)
      BY <1>3, <1>4, <3>1, <3>2, ForwardOutside
    <3> QED
      BY <1>2, <2>2, <3>3
  <2> QED
    BY <2>1, <2>2
<1> HIDE DEF n
<1>6. PICK e, z : /\ Walk(q, n, e, z, end, g)
                  /\ rp[u] \in Slot /\ rp[u] # wp =>
                        /\ z = 0
                        /\ e = 0 \/ Stamp(written, e) <= begin
                        /\ e + n = Slots \/ Stamp(written, e + n) > end
  BY <1>5
<1>7. PICK m \in Nat : Batch(info, q, n, e, z, m, begin)
  BY <1>6, FoundBatch
<1> HIDE DEF info
<1>8. /\ Increasing(Stamps(info, info.x))
      /\ Given(info) \subseteq InRing(window[u])
      /\ rp[u] \in Slot /\ rp[u] # wp => Given(info) = InRing(window[u])
  <2>1. /\ Increasing(Stamps(info, info.x))
        /\ Given(info) \subseteq InRing(window[u])
        /\ (/\ z = 0
            /\ e = 0 \/ Stamp(written, e) <= begin
            /\ e + n = Slots \/ Stamp(written, e + n) > end)
             => Given(info) = InRing(window[u])
    BY <1>6, <1>7, GivenExact DEF Given
  <2> QED
    BY <1>6, <2>1
<1>9. /\ info.at = info.x /\ info.n0 \in 0 .. Slots /\ info.n1 \in 0 .. Slots
      /\ info.n0 + info.n1 = m
      /\ m = 0 => info.x = q
      /\ m <= Slots
  <2>1. /\ e \in Slot /\ n \in Nat /\ e + n <= Slots /\ m <= n
        /\ info.n0 \in Nat /\ info.n1 \in Nat /\ info.n0 + info.n1 = m
        /\ info.at = info.x /\ (m = 0 => info.x = q)
    BY <1>6, <1>7 DEF Walk, Batch
  <2> QED
    BY <2>1, ReachIs, Sizes
<1>10. ASSUME m > 0
       PROVE  info.x \in Slot /\ info.n1 < Slots /\ info.x + info.n0 <= Slots
  <2>1. /\ e + (n - m) \in Slot
        /\ info.x = Place(wp, e + (n - m))
        /\ info.n1 = IF info.x + m <= Slots THEN 0 ELSE info.x + m - Slots
    <3>1. e \in Slot /\ n \in Nat /\ e + n <= Slots /\ m <= n
      BY <1>6, <1>7 DEF Walk, Batch
    <3>2. e + (n - m) \in Slot
      BY <1>10, <3>1, ReachIs, Sizes
    <3> QED
      BY <1>7, <1>10, <3>2 DEF Batch
  <2>2. info.x \in Slot
    BY <2>1, PlaceOff
  <2> QED
    BY <1>9, <2>1, <2>2, ReachIs, Sizes
<1>11. ASSUME m > 0, end <= written
       PROVE  /\ Behind(info, info.x) \in Slot
              /\ Unread(Behind(info, info.x), wp) = written - end
  BY <1>4, <1>6, <1>7, <1>11, BehindUnread
<1> QED
  BY <1>2, <1>8, <1>9, <1>10, <1>11 DEF Answer, info, q, n, back, fwd

-----------------------------------------------------------------------------
(* The inductive invariant.                                                *)

RingInv ==
    /\ taken \in 0 .. MaxPts /\ written \in 0 .. taken
    /\ pts \in [Slot -> 0 .. MaxPts]
    /\ wx \in Slot /\ wp \in Slot /\ busy \in BOOLEAN
    /\ wx = IF busy THEN Place(wp, 1) ELSE wp
    /\ Content(wx)

\* The pointers of a user whose time stamps were set from a moment when the writer was
\* between its pointers come together in the first call that gives something; until
\* then the time stamps' may run behind the block, by less than a block.
UserOK(u) ==
    /\ pc[u] \in {"out", "adding"} => u \notin ctx
    /\ pc[u] = "adding" => rx[u] \in Slot
    /\ u \in ctx => rp[u] - rx[u] < Slots
    /\ u \in ctx /\ u \notin unlucky => rx[u] = rp[u] /\ rp[u] \in Slot
    /\ pc[u] \in {"flush", "release"} =>
          window[u].begin \in Sample /\ window[u].end \in Sample
    /\ pc[u] = "release" /\ ~released[u] =>
          /\ got[u].at = got[u].x /\ got[u].x \in Slot
          /\ got[u].n1 < Slots /\ got[u].x + got[u].n0 <= Slots

UsersTyped ==
    /\ forward \in BOOLEAN
    /\ ctx \subseteq Users /\ unlucky \subseteq ctx
    /\ rx \in [Users -> Reach] /\ rp \in [Users -> Reach]
    /\ released \in [Users -> BOOLEAN]
    /\ pc \in [Users -> {"out", "adding", "idle", "flush", "release"}]
    /\ window \in [Users -> [begin : 0 .. MaxPts, end : 0 .. MaxPts,
                             fence : 0 .. MaxPts]]
    /\ got \in [Users -> [x : Reach, at : Reach, n0 : 0 .. Slots, n1 : 0 .. Slots]]

IInv == RingInv /\ UsersTyped /\ \A u \in Users : UserOK(u)

LEMMA IInvTypeOK == IInv => TypeOK
<1> SUFFICES ASSUME IInv PROVE TypeOK
  OBVIOUS
<1>1. \A u \in ctx \ unlucky : rx[u] = rp[u] /\ rp[u] \in Slot
  BY DEF IInv, UserOK, UsersTyped
<1>2. ~busy => wx = wp
  BY DEF IInv, RingInv
<1>3. Slot \cup Outside = Reach
  BY ReachIs
<1> QED
  BY <1>1, <1>2, <1>3 DEF IInv, RingInv, UsersTyped, TypeOK

LEMMA InitIInv == Init => IInv
<1> SUFFICES ASSUME Init PROVE IInv
  OBVIOUS
<1>1. 0 \in Slot /\ 0 \in Reach /\ 0 \in 0 .. MaxPts /\ 0 \in 0 .. Slots /\ 0 \in 0 .. 0
  BY Sizes, ReachIs
<1>2. Content(wx)
  <2>1. ASSUME NEW o \in Slot PROVE pts[Place(wx, o)] = Stamp(written, o)
    <3>1. Place(wx, o) \in Slot
      BY <1>1, PlaceOff DEF Init
    <3>2. Stamp(written, o) = 0
      BY Sizes, ReachIs DEF Init, Stamp
    <3> QED
      BY <3>1, <3>2 DEF Init
  <2> QED
    BY <2>1 DEF Content
<1>3. RingInv
  BY <1>1, <1>2 DEF Init, RingInv
<1>4. UsersTyped
  BY <1>1 DEF Init, UsersTyped, NoWindow, Nothing
<1>5. \A u \in Users : UserOK(u)
  BY DEF Init, UserOK
<1> QED
  BY <1>3, <1>4, <1>5 DEF IInv

\* What a step leaves alone of a user leaves it as it was.
LEMMA UserKept ==
    ASSUME NEW v \in Users, UserOK(v),
           rx'[v] = rx[v], rp'[v] = rp[v], pc'[v] = pc[v], window'[v] = window[v],
           got'[v] = got[v], released'[v] = released[v],
           v \in ctx' <=> v \in ctx, v \in unlucky' <=> v \in unlucky
    PROVE  UserOK(v)'
  BY DEF UserOK

LEMMA RingKept ==
    ASSUME RingInv, UNCHANGED ring
    PROVE  RingInv'
  BY DEF RingInv, ring, Content

LEMMA SampledIInv == IInv /\ Sampled => IInv'
<1> SUFFICES ASSUME IInv, Sampled PROVE IInv'
  OBVIOUS
<1>1. RingInv'
  BY Sizes DEF IInv, RingInv, Sampled, Content
<1>2. UsersTyped'
  BY DEF IInv, UsersTyped, Sampled
<1>3. \A u \in Users : UserOK(u)'
  BY DEF IInv, UserOK, Sampled
<1> QED
  BY <1>1, <1>2, <1>3 DEF IInv

LEMMA WriteDoneIInv == IInv /\ WriteDone => IInv'
<1> SUFFICES ASSUME IInv, WriteDone PROVE IInv'
  OBVIOUS
<1>1. RingInv'
  BY DEF IInv, RingInv, WriteDone, Content
<1>2. UsersTyped'
  BY DEF IInv, UsersTyped, WriteDone
<1>3. \A u \in Users : UserOK(u)'
  BY DEF IInv, UserOK, WriteDone
<1> QED
  BY <1>1, <1>2, <1>3 DEF IInv

\* A push keeps the pointers in reach, and those that go together together.
LEMMA PushedOK ==
    ASSUME IInv, NEW u \in Users, u \in Overflowing
    PROVE  /\ rx[u] \in Slot
           /\ Pushed(u, rx) = IF rx[u] + 1 >= Slots THEN 0 ELSE rx[u] + 1
           /\ Pushed(u, rx) \in Slot
           /\ Pushed(u, rp) \in Reach
           /\ Pushed(u, rp) - Pushed(u, rx) < Slots
           /\ rp[u] = rx[u] => Pushed(u, rp) = Pushed(u, rx)
<1>1. /\ rx[u] = (wx + Gap) % Slots /\ u \in ctx
      /\ rp[u] \in Reach /\ rp[u] - rx[u] < Slots
  BY DEF Overflowing, IInv, UserOK, UsersTyped
<1>2. rx[u] \in Slot
  <2>1. wx + Gap \in Int
    BY Sizes, ReachIs DEF IInv, RingInv
  <2>2. (wx + Gap) % Slots \in 0 .. Slots - 1
    BY <2>1, Sizes
  <2> QED
    BY <1>1, <2>2 DEF Slot
<1>3. rp[u] \in Int /\ 0 <= rp[u] /\ rx[u] \in Int /\ 0 <= rx[u] /\ rx[u] < Slots
  BY <1>1, <1>2, ReachIs DEF Reach
<1>4. /\ Pushed(u, rx) = IF rx[u] + 1 >= Slots THEN 0 ELSE rx[u] + 1
      /\ Pushed(u, rp) = IF rx[u] + 1 >= Slots THEN 0 ELSE rp[u] + 1
  BY DEF Pushed
<1>5. Pushed(u, rx) \in Slot
  BY <1>3, <1>4, Sizes DEF Slot
<1>6. Pushed(u, rp) \in Reach /\ Pushed(u, rp) - Pushed(u, rx) < Slots
  BY <1>1, <1>3, <1>4, Sizes DEF Reach
<1> QED
  BY <1>2, <1>4, <1>5, <1>6

LEMMA WriteSampleIInv == IInv /\ WriteSample => IInv'
<1> SUFFICES ASSUME IInv, WriteSample PROVE IInv'
  OBVIOUS
<1>1. /\ written \in Nat /\ taken \in Nat /\ taken <= MaxPts /\ written < taken
      /\ wx \in Slot /\ ~busy /\ wx = wp
  BY Sizes DEF IInv, RingInv, WriteSample
<1>2. RingInv'
  <2>1. wx' = Place(wp, 1) /\ wx' \in Slot /\ wp' = wp /\ busy' = TRUE
    BY <1>1, NextPlace DEF WriteSample
  <2>2. pts' \in [Slot -> 0 .. MaxPts]
    BY <1>1, Sizes DEF IInv, RingInv, WriteSample
  <2>3. Content(wx)'
    <3>1. ASSUME NEW o \in Slot PROVE pts'[Place(wx', o)] = Stamp(written', o)
      <4>1. Place(wx', o) = IF o = Slots - 1 THEN wx ELSE Place(wx, o + 1)
        BY <1>1, <2>1, NextPlace
      <4>2. CASE o = Slots - 1
        BY <1>1, <4>1, <4>2, StampRises DEF WriteSample, IInv, RingInv
      <4>3. CASE o # Slots - 1
        <5>1. o + 1 \in Slot /\ o + 1 # 0
          BY <4>3, Sizes, ReachIs
        <5>2. Place(wx, o + 1) \in Slot /\ Place(wx, o + 1) # wx
          BY <1>1, <5>1, PlaceOff, PlaceOnce
        <5>3. pts'[Place(wx, o + 1)] = Stamp(written, o + 1)
          BY <5>1, <5>2 DEF WriteSample, IInv, RingInv, Content
        <5>4. Stamp(written, o + 1) = Stamp(written + 1, o)
          BY <1>1, Sizes, ReachIs DEF Stamp
        <5> QED
          BY <4>1, <4>3, <5>3, <5>4 DEF WriteSample
      <4> QED
        BY <4>2, <4>3
    <3> QED
      BY <3>1 DEF Content
  <2>4. taken' \in 0 .. MaxPts /\ written' \in 0 .. taken'
    BY <1>1, Sizes DEF WriteSample
  <2> QED
    BY <2>1, <2>2, <2>3, <2>4 DEF IInv, RingInv
<1>3. /\ rx' = [u \in Users |-> IF u \in Overflowing THEN Pushed(u, rx) ELSE rx[u]]
      /\ rp' = [u \in Users |-> IF u \in Overflowing THEN Pushed(u, rp) ELSE rp[u]]
      /\ UNCHANGED <<ctx, released, forward, pc, window, got, unlucky>>
  BY DEF WriteSample
<1>4. UsersTyped'
  <2>1. \A u \in Users : rx'[u] \in Reach /\ rp'[u] \in Reach
    BY <1>3, PushedOK, ReachIs DEF IInv, UsersTyped
  <2> QED
    BY <1>3, <2>1 DEF IInv, UsersTyped
<1>5. ASSUME NEW u \in Users PROVE UserOK(u)'
  <2>1. CASE u \notin Overflowing
    BY <1>3, <2>1, UserKept DEF IInv
  <2>2. CASE u \in Overflowing
    <3>1. u \in ctx /\ UserOK(u)
      BY <2>2 DEF Overflowing, IInv
    <3>2. rx'[u] = Pushed(u, rx) /\ rp'[u] = Pushed(u, rp)
      BY <1>3, <2>2
    <3> QED
      BY <1>3, <2>2, <3>1, <3>2, PushedOK DEF UserOK
  <2> QED
    BY <2>1, <2>2
<1> QED
  BY <1>2, <1>4, <1>5 DEF IInv

LEMMA AddXIInv == ASSUME NEW u \in Users PROVE IInv /\ AddX(u) => IInv'
<1> SUFFICES ASSUME IInv, AddX(u) PROVE IInv'
  OBVIOUS
<1>1. RingInv'
  BY RingKept DEF IInv, AddX
<1>2. wx \in Slot /\ wx \in Reach /\ written \in 0 .. MaxPts
  BY ReachIs, Sizes DEF IInv, RingInv
<1>3. UsersTyped'
  BY <1>2 DEF IInv, UsersTyped, AddX
<1>4. UserOK(u)'
  BY <1>2 DEF IInv, UsersTyped, UserOK, AddX
<1>5. ASSUME NEW v \in Users, v # u PROVE UserOK(v)'
  BY <1>5, UserKept DEF IInv, UsersTyped, AddX
<1> QED
  BY <1>1, <1>3, <1>4, <1>5 DEF IInv

LEMMA AddPtsIInv == ASSUME NEW u \in Users PROVE IInv /\ AddPts(u) => IInv'
<1> SUFFICES ASSUME IInv, AddPts(u) PROVE IInv'
  OBVIOUS
<1>1. RingInv'
  BY RingKept DEF IInv, AddPts
<1>2. /\ wp \in Slot /\ wp \in Reach /\ taken \in 0 .. MaxPts /\ 0 \in 0 .. MaxPts
      /\ u \notin ctx /\ u \notin unlucky /\ rx[u] \in Slot
  BY ReachIs, Sizes DEF IInv, RingInv, UsersTyped, UserOK, AddPts
<1>3. UsersTyped'
  BY <1>2 DEF IInv, UsersTyped, AddPts, Since, NoWindow
<1>4. UserOK(u)'
  <2>1. /\ pc'[u] = "idle" /\ rx'[u] = rx[u] /\ rp'[u] = wp
        /\ u \notin unlucky' => rx[u] = wp
    BY <1>2 DEF IInv, UsersTyped, AddPts
  <2>2. wp - rx[u] < Slots
    BY <1>2, ReachIs, Sizes
  <2> QED
    BY <1>2, <2>1, <2>2 DEF UserOK
<1>5. ASSUME NEW v \in Users, v # u PROVE UserOK(v)'
  BY <1>5, UserKept DEF IInv, UsersTyped, AddPts
<1> QED
  BY <1>1, <1>3, <1>4, <1>5 DEF IInv

LEMMA DeleteIInv == ASSUME NEW u \in Users PROVE IInv /\ Delete(u) => IInv'
<1> SUFFICES ASSUME IInv, Delete(u) PROVE IInv'
  OBVIOUS
<1>1. RingInv'
  BY RingKept DEF IInv, Delete
<1>2. 0 \in Reach /\ 0 \in 0 .. MaxPts
  BY ReachIs, Sizes
<1>3. UsersTyped'
  BY <1>2 DEF IInv, UsersTyped, Delete, NoWindow
<1>4. UserOK(u)'
  BY DEF IInv, UsersTyped, UserOK, Delete
<1>5. ASSUME NEW v \in Users, v # u PROVE UserOK(v)'
  BY <1>5, UserKept DEF IInv, UsersTyped, Delete
<1> QED
  BY <1>1, <1>3, <1>4, <1>5 DEF IInv

LEMMA AskIInv == ASSUME NEW u \in Users PROVE IInv /\ Ask(u) => IInv'
<1> SUFFICES ASSUME IInv, Ask(u) PROVE IInv'
  OBVIOUS
<1>1. RingInv'
  BY RingKept DEF IInv, Ask
<1>2. PICK b \in Sample, e \in Sample :
         window' = [window EXCEPT ![u] = [begin |-> b, end |-> e, fence |-> taken]]
  BY DEF Ask
<1>3. b \in 0 .. MaxPts /\ e \in 0 .. MaxPts /\ taken \in 0 .. MaxPts
  BY Sizes DEF IInv, RingInv, Sample
<1>4. UsersTyped'
  BY <1>2, <1>3 DEF IInv, UsersTyped, Ask
<1>5. UserOK(u)'
  BY <1>2 DEF IInv, UsersTyped, UserOK, Ask
<1>6. ASSUME NEW v \in Users, v # u PROVE UserOK(v)'
  BY <1>2, <1>6, UserKept DEF IInv, UsersTyped, Ask
<1> QED
  BY <1>1, <1>4, <1>5, <1>6 DEF IInv

\* What a call does, and what is known of its answer.
LEMMA GetAnswer ==
    ASSUME IInv, NEW u \in Users, Get(u)
    PROVE  \E q, info :
              /\ Answer(u, info, q)
              /\ got' = [got EXCEPT ![u] = info]
              /\ rx' = [rx EXCEPT ![u] = info.x] /\ rp' = [rp EXCEPT ![u] = info.x]
              /\ released' = [released EXCEPT ![u] = info.n0 + info.n1 = 0]
              /\ unlucky' = IF info.n0 + info.n1 = 0 THEN unlucky ELSE unlucky \ {u}
              /\ info \in [x : Reach, at : Reach, n0 : 0 .. Slots, n1 : 0 .. Slots]
              /\ forward' \in BOOLEAN
<1>1. PICK g \in [Slots .. rp[u] -> {0, MaxPts + 1}] :
        LET back  == StepsBack(u, g)
            q     == Back(rp[u], back)
            fwd   == forward /\ back = 0
            steps == StepsAhead(u, q, fwd, g)
            info  == Found(u, q, steps, g)
        IN  /\ got' = [got EXCEPT ![u] = info]
            /\ forward' = (fwd \/ steps > 0)
            /\ released' = [released EXCEPT ![u] = info.n0 + info.n1 = 0]
            /\ rx' = [rx EXCEPT ![u] = info.x]
            /\ rp' = [rp EXCEPT ![u] = info.at]
            /\ unlucky' = IF info.n0 + info.n1 = 0 THEN unlucky ELSE unlucky \ {u}
  BY DEF Get
<1> DEFINE back  == StepsBack(u, g)
           q     == Back(rp[u], back)
           fwd   == forward /\ back = 0
           steps == StepsAhead(u, q, fwd, g)
           info  == Found(u, q, steps, g)
<1>2. /\ wp \in Slot /\ written \in Nat /\ Content(wp) /\ rp[u] \in Reach
      /\ window[u].begin \in Sample /\ window[u].end \in Sample
      /\ forward \in BOOLEAN
  BY Sizes DEF IInv, RingInv, UsersTyped, UserOK, Get
<1>3. Answer(u, info, q)
  BY <1>2, FoundAnswer
<1>4. /\ got' = [got EXCEPT ![u] = info]
      /\ forward' = (fwd \/ steps > 0)
      /\ released' = [released EXCEPT ![u] = info.n0 + info.n1 = 0]
      /\ rx' = [rx EXCEPT ![u] = info.x]
      /\ rp' = [rp EXCEPT ![u] = info.at]
      /\ unlucky' = IF info.n0 + info.n1 = 0 THEN unlucky ELSE unlucky \ {u}
  BY <1>1
<1>5. /\ info = [x |-> info.x, at |-> info.at, n0 |-> info.n0, n1 |-> info.n1]
  BY DEF Found
<1> HIDE DEF back, q, fwd, steps, info
<1>6. info.at = info.x /\ info.n0 \in 0 .. Slots /\ info.n1 \in 0 .. Slots
  BY <1>3 DEF Answer
<1>7. info.x \in Reach
  BY <1>3, <1>6, ReachIs, Sizes DEF Answer
<1>8. info \in [x : Reach, at : Reach, n0 : 0 .. Slots, n1 : 0 .. Slots]
  BY <1>5, <1>6, <1>7
<1>9. forward' \in BOOLEAN
  BY <1>4
<1> QED
  BY <1>3, <1>4, <1>6, <1>8, <1>9

LEMMA GetIInv == ASSUME NEW u \in Users PROVE IInv /\ Get(u) => IInv'
<1> SUFFICES ASSUME IInv, Get(u) PROVE IInv'
  OBVIOUS
<1>1. RingInv'
  BY RingKept DEF IInv, Get
<1>2. PICK q, info :
         /\ Answer(u, info, q)
         /\ got' = [got EXCEPT ![u] = info]
         /\ rx' = [rx EXCEPT ![u] = info.x] /\ rp' = [rp EXCEPT ![u] = info.x]
         /\ released' = [released EXCEPT ![u] = info.n0 + info.n1 = 0]
         /\ unlucky' = IF info.n0 + info.n1 = 0 THEN unlucky ELSE unlucky \ {u}
         /\ info \in [x : Reach, at : Reach, n0 : 0 .. Slots, n1 : 0 .. Slots]
         /\ forward' \in BOOLEAN
  BY GetAnswer
<1>3. pc' = [pc EXCEPT ![u] = "release"] /\ UNCHANGED <<ctx, window>> /\ pc[u] = "flush"
  BY DEF Get
<1>4. UsersTyped'
  BY <1>2, <1>3 DEF IInv, UsersTyped
<1>5. UserOK(u)'
  <2>1. /\ pc'[u] = "release" /\ rx'[u] = info.x /\ rp'[u] = info.x /\ got'[u] = info
        /\ released'[u] = (info.n0 + info.n1 = 0) /\ info.x \in Reach
        /\ info.n0 \in 0 .. Slots /\ info.n1 \in 0 .. Slots
    BY <1>2, <1>3 DEF IInv, UsersTyped
  <2>2. info.x - info.x < Slots
    BY <2>1, Sizes DEF Reach
  <2>3. ASSUME info.n0 + info.n1 = 0, u \notin unlucky, u \in ctx PROVE info.x \in Slot
    BY <1>2, <2>3 DEF Answer, IInv, UserOK
  <2>4. ASSUME info.n0 + info.n1 # 0
        PROVE  /\ info.x \in Slot /\ info.n1 < Slots /\ info.x + info.n0 <= Slots
               /\ info.at = info.x
    <3>1. info.n0 + info.n1 > 0
      BY <2>1, <2>4, Sizes
    <3> QED
      BY <1>2, <3>1 DEF Answer
  <2>5. /\ window[u].begin \in Sample /\ window[u].end \in Sample
        /\ u \in ctx' /\ u \notin unlucky' => info.n0 + info.n1 # 0 \/ u \notin unlucky
    BY <1>2, <1>3 DEF IInv, UserOK
  <2> QED
    BY <1>3, <2>1, <2>2, <2>3, <2>4, <2>5 DEF UserOK
<1>6. ASSUME NEW v \in Users, v # u PROVE UserOK(v)'
  BY <1>2, <1>3, <1>6, UserKept DEF IInv, UsersTyped
<1> QED
  BY <1>1, <1>4, <1>5, <1>6 DEF IInv

\* A release sets both pointers to the same place, unless there is nothing to release.
LEMMA BehindOK ==
    ASSUME IInv, NEW u \in Users, pc[u] = "release", ~released[u]
    PROVE  /\ Behind(got[u], got[u].x) \in Slot
           /\ Behind(got[u], got[u].at) = Behind(got[u], got[u].x)
<1>1. /\ got[u].at = got[u].x /\ got[u].x \in Slot
      /\ got[u].n1 < Slots /\ got[u].x + got[u].n0 <= Slots
      /\ got[u].n0 \in 0 .. Slots /\ got[u].n1 \in 0 .. Slots
  BY DEF IInv, UserOK, UsersTyped
<1> QED
  BY <1>1, Sizes, ReachIs DEF Behind

LEMMA ReleaseIInv == ASSUME NEW u \in Users PROVE IInv /\ Release(u) => IInv'
<1> SUFFICES ASSUME IInv, Release(u) PROVE IInv'
  OBVIOUS
<1>1. RingInv'
  BY RingKept DEF IInv, Release
<1> DEFINE b == Behind(got[u], got[u].x)
<1>2. /\ pc[u] = "release" /\ pc' = [pc EXCEPT ![u] = "idle"]
      /\ got' = [got EXCEPT ![u] = Nothing]
      /\ window' = [window EXCEPT ![u] = Since(u, window[u].end)]
      /\ UNCHANGED <<ctx, forward, unlucky>>
      /\ \/ released[u] /\ UNCHANGED <<rx, rp, released>>
         \/ /\ ~released[u] /\ b \in Slot
            /\ rx' = [rx EXCEPT ![u] = b] /\ rp' = [rp EXCEPT ![u] = b]
            /\ released' = [released EXCEPT ![u] = TRUE]
  BY BehindOK DEF Release
<1> HIDE DEF b
<1>3. b \in Slot => b \in Reach /\ b - b < Slots
  BY ReachIs, Sizes
<1>4. UsersTyped'
  <2>1. 0 \in Reach /\ 0 \in 0 .. Slots /\ 0 \in 0 .. MaxPts
    BY ReachIs, Sizes
  <2>2. /\ got' \in [Users -> [x : Reach, at : Reach, n0 : 0 .. Slots, n1 : 0 .. Slots]]
        /\ window' \in [Users -> [begin : 0 .. MaxPts, end : 0 .. MaxPts,
                                  fence : 0 .. MaxPts]]
    BY <1>2, <2>1 DEF IInv, UsersTyped, Nothing, Since, NoWindow
  <2>3. rx' \in [Users -> Reach] /\ rp' \in [Users -> Reach]
    <3>1. rx \in [Users -> Reach] /\ rp \in [Users -> Reach]
      BY DEF IInv, UsersTyped
    <3> QED
      BY <1>2, <1>3, <3>1
  <2>4. released' \in [Users -> BOOLEAN]
    BY <1>2 DEF IInv, UsersTyped
  <2> QED
    BY <1>2, <2>2, <2>3, <2>4 DEF IInv, UsersTyped
<1>5. UserOK(u)'
  BY <1>2, <1>3 DEF IInv, UsersTyped, UserOK
<1>6. ASSUME NEW v \in Users, v # u PROVE UserOK(v)'
  BY <1>2, <1>6, UserKept DEF IInv, UsersTyped
<1> QED
  BY <1>1, <1>4, <1>5, <1>6 DEF IInv

LEMMA NextIInv == IInv /\ [Next]_vars => IInv'
<1> SUFFICES ASSUME IInv, [Next]_vars PROVE IInv'
  OBVIOUS
<1>1. CASE Sampled
  BY <1>1, SampledIInv
<1>2. CASE WriteSample
  BY <1>2, WriteSampleIInv
<1>3. CASE WriteDone
  BY <1>3, WriteDoneIInv
<1>4. ASSUME NEW u \in Users, User(u) PROVE IInv'
  BY <1>4, AddXIInv, AddPtsIInv, DeleteIInv, AskIInv, GetIInv, ReleaseIInv DEF User
<1>5. CASE UNCHANGED vars
  <2>1. UsersTyped' /\ \A u \in Users : UserOK(u)'
    BY <1>5 DEF vars, IInv, UsersTyped, UserOK
  <2>2. RingInv'
    BY <1>5, RingKept DEF vars, IInv
  <2> QED
    BY <2>1, <2>2 DEF IInv
<1> QED
  BY <1>1, <1>2, <1>3, <1>4, <1>5 DEF Next

\* The ring holds at each offset from the write pointer the sample taken that long
\* ago, and whatever step a user's call is in, its pointer, its walks and what it has
\* copied are offsets of that kind.
THEOREM Invariance == Spec => []IInv
  BY InitIInv, NextIInv, PTL DEF Spec

\* The pointers of the ring and of its users stay where the code may read.
THEOREM TypeCorrect == Spec => []TypeOK
  BY Invariance, IInvTypeOK, PTL

-----------------------------------------------------------------------------
(* A call answers exactly.                                                 *)

LEMMA OnlyGet ==
    ASSUME IInv, Next, NEW u \in Users, pc[u] = "flush", pc'[u] = "release"
    PROVE  Get(u)
<1>1. PICK v \in Users : User(v)
  BY DEF Next, Sampled, WriteSample, WriteDone
<1>2. \/ Get(v) /\ pc' = [pc EXCEPT ![v] = "release"]
      \/ \E x \in {"adding", "idle", "out", "flush"} : pc' = [pc EXCEPT ![v] = x]
  <2>1. AddX(v) => pc' = [pc EXCEPT ![v] = "adding"]
    BY DEF AddX
  <2>2. AddPts(v) \/ Release(v) => pc' = [pc EXCEPT ![v] = "idle"]
    BY DEF AddPts, Release
  <2>3. Delete(v) => pc' = [pc EXCEPT ![v] = "out"]
    BY DEF Delete
  <2>4. Ask(v) => pc' = [pc EXCEPT ![v] = "flush"]
    BY DEF Ask
  <2>5. Get(v) => pc' = [pc EXCEPT ![v] = "release"]
    BY DEF Get
  <2> QED
    BY <1>1, <2>1, <2>2, <2>3, <2>4, <2>5 DEF User
<1> QED
  BY <1>2 DEF IInv, UsersTyped

\* The answer that the step of a call leaves in got.
LEMMA AnswerGot ==
    ASSUME IInv, NEW u \in Users, Get(u)
    PROVE  /\ \E q : Answer(u, got'[u], q)
           /\ unlucky' = IF got'[u].n0 + got'[u].n1 = 0 THEN unlucky ELSE unlucky \ {u}
           /\ released'[u] = (got'[u].n0 + got'[u].n1 = 0)
  BY GetAnswer DEF IInv, UsersTyped

\* Whoever asks, for whatever window, and whatever has been written, pushed and
\* walked before: the samples a call of msensor_buf_get_data gives are those of the
\* window in the ring, in the order of time and each once (RangeExact).
THEOREM CallsExact == Spec => RangeExact
<1> DEFINE Exact(u) ==
             LET info   == got'[u]
                 stamps == Stamps(info, info.at)
                 wanted == InRing(window[u])
                 given  == {stamps[k] : k \in DOMAIN stamps}
             IN  /\ Increasing(stamps)
                 /\ Stamps(info, info.x) = stamps
                 /\ given \subseteq wanted
                 /\ rp[u] # wp /\ u \notin unlucky => given = wanted
<1>1. ASSUME IInv, Next, NEW u \in Users, pc[u] = "flush", pc'[u] = "release"
      PROVE  Exact(u)
  <2>1. Get(u)
    BY <1>1, OnlyGet
  <2>2. PICK q : Answer(u, got'[u], q)
    BY <1>1, <2>1, AnswerGot
  <2>3. u \notin unlucky => rp[u] \in Slot
    BY <1>1, <2>1 DEF Get, IInv, UserOK
  <2>4. got'[u].at = got'[u].x
    BY <2>2 DEF Answer
  <2> QED
    BY <2>2, <2>3, <2>4 DEF Answer, Given
<1>2. IInv /\ [Next]_vars =>
        [\A u \in Users : pc[u] = "flush" /\ pc'[u] = "release" => Exact(u)]_vars
  BY <1>1
<1> QED
  BY <1>2, Invariance, PTL DEF Spec, RangeExact

-----------------------------------------------------------------------------
(* A stream misses nothing.                                                *)

\* When n samples have been written and the write pointer is w, what has been written
\* since sample e is still to be read from r on, or the writer pushes r.
Fresh(r, w, n, e) ==
    /\ Unread(r, w) <= Slots - Gap
    /\ n - e <= Unread(r, w) \/ Unread(r, w) = Slots - Gap

\* While a call lasts the writer does not come round; so a stream that has been
\* given its window is left where the samples behind the window begin.
StreamOK(u) ==
    /\ pc[u] \in {"flush", "release"} =>
          /\ written <= window[u].fence + MaxSkew
          /\ window[u].end = window[u].fence
    /\ pc[u] = "flush" => window[u].begin < window[u].end
    /\ u \in ctx /\ u \notin unlucky =>
          /\ pc[u] = "idle" => Fresh(rx[u], wx, written, window[u].end)
          /\ pc[u] = "flush" => Fresh(rx[u], wx, written, window[u].begin - 1)
          /\ pc[u] = "release" =>
                /\ ~released[u]
                /\ Unread(Behind(got[u], got[u].x), wx) = written - window[u].end

SInv == IInv /\ \A u \in Streams : StreamOK(u)

LEMMA StreamKept ==
    ASSUME NEW v \in Users, StreamOK(v),
           rx'[v] = rx[v], pc'[v] = pc[v], window'[v] = window[v],
           got'[v] = got[v], released'[v] = released[v],
           v \in ctx' <=> v \in ctx, v \in unlucky' <=> v \in unlucky,
           wx' = wx, written' = written
    PROVE  StreamOK(v)'
  BY DEF StreamOK

LEMMA InitSInv == Init => SInv
<1> SUFFICES ASSUME Init PROVE SInv
  OBVIOUS
<1>1. \A u \in Streams : StreamOK(u)
  BY DEF Init, StreamOK, Users
<1> QED
  BY <1>1, InitIInv DEF SInv

LEMMA GapAhead ==
    ASSUME NEW w \in Slot
    PROVE  (w + Gap) % Slots = IF w + Gap < Slots THEN w + Gap ELSE w + Gap - Slots
<1>1. w + Gap \in Int /\ 0 <= w + Gap /\ w + Gap < 2 * Slots
  BY Sizes, ReachIs
<1>2. CASE w + Gap < Slots
  BY <1>1, <1>2, ModOnce, Sizes, ReachIs
<1>3. CASE ~ (w + Gap < Slots)
  BY <1>1, <1>3, ModOnce, Sizes, ReachIs
<1> QED
  BY <1>2, <1>3

\* A pointer the writer does not push gains a sample; one it pushes keeps them.
LEMMA FreshWrite ==
    ASSUME NEW r \in Slot, NEW w \in Slot, NEW n \in Nat, NEW e \in Int,
           Fresh(r, w, n, e),
           NEW s, s = IF r = (w + Gap) % Slots
                      THEN IF r + 1 >= Slots THEN 0 ELSE r + 1
                      ELSE r
    PROVE  Fresh(s, Place(w, 1), n + 1, e)
<1>1. /\ r \in Int /\ 0 <= r /\ r < Slots /\ w \in Int /\ 0 <= w /\ w < Slots
      /\ Unread(r, w) = IF r <= w THEN w - r ELSE w - r + Slots
      /\ Place(w, 1) = IF w + 1 < Slots THEN w + 1 ELSE w + 1 - Slots
  BY ReachIs DEF Unread, Place
<1>2. (w + Gap) % Slots = IF w + Gap < Slots THEN w + Gap ELSE w + Gap - Slots
  BY GapAhead
<1>3. r = (w + Gap) % Slots <=> Unread(r, w) = Slots - Gap
  BY <1>1, <1>2, Sizes
<1>4. CASE r = (w + Gap) % Slots
  <2>1. s = IF r + 1 >= Slots THEN 0 ELSE r + 1
    BY <1>4
  <2>2. Unread(s, Place(w, 1)) = Unread(r, w)
    BY <1>1, <2>1, Sizes DEF Unread
  <2> QED
    BY <1>3, <1>4, <2>2, Sizes DEF Fresh
<1>5. CASE r # (w + Gap) % Slots
  <2>1. s = r /\ Unread(r, w) # Slots - Gap /\ Unread(r, w) <= Slots - Gap
        /\ n - e <= Unread(r, w) /\ Unread(r, w) \in Int
    BY <1>1, <1>3, <1>5, Sizes DEF Fresh
  <2>2. Unread(r, w) < Slots - 1
    BY <2>1, Sizes
  <2>3. Unread(r, Place(w, 1)) = Unread(r, w) + 1
    BY <2>2, NextPlace
  <2> QED
    BY <2>1, <2>3, Sizes DEF Fresh
<1> QED
  BY <1>4, <1>5

LEMMA WriteSampleStream ==
    ASSUME MaxSkew <= Slots - Gap, SInv, WriteSample, NEW u \in Streams
    PROVE  StreamOK(u)'
<1>1. /\ u \in Users /\ IInv /\ StreamOK(u) /\ UserOK(u)
      /\ wx \in Slot /\ written \in Nat /\ wx' = Place(wx, 1) /\ written' = written + 1
      /\ UNCHANGED <<ctx, released, forward, pc, window, got, unlucky>>
      /\ window[u].begin \in Int /\ window[u].end \in Int /\ window[u].fence \in Int
  <2>1. u \in Users /\ IInv /\ StreamOK(u) /\ UserOK(u)
    BY DEF SInv, IInv, Users
  <2>2. wx \in Slot /\ written \in Nat
    BY Sizes DEF SInv, IInv, RingInv
  <2>3. wx' = Place(wx, 1)
    BY <2>2, NextPlace DEF WriteSample
  <2>4. window[u] \in [begin : 0 .. MaxPts, end : 0 .. MaxPts, fence : 0 .. MaxPts]
    BY <2>1 DEF IInv, UsersTyped
  <2>5. window[u].begin \in Int /\ window[u].end \in Int /\ window[u].fence \in Int
    BY <2>4, Sizes
  <2> QED
    BY <2>1, <2>2, <2>3, <2>5 DEF WriteSample
<1>2. pc[u] \in {"flush", "release"} => written' <= window[u].fence + MaxSkew
  <2>1. InCall(u) => written < window[u].fence + MaxSkew
    BY <1>1 DEF WriteSample
  <2> QED
    BY <1>1, <2>1, Sizes DEF InCall
<1>3. ASSUME u \in ctx, u \notin unlucky, NEW e \in Int, Fresh(rx[u], wx, written, e)
      PROVE  Fresh(rx'[u], wx', written', e)
  <2>1. rx[u] \in Slot
    BY <1>1, <1>3 DEF UserOK
  <2>2. u \in Overflowing <=> rx[u] = (wx + Gap) % Slots
    BY <1>3 DEF Overflowing
  <2>3. rx'[u] = IF rx[u] = (wx + Gap) % Slots
                 THEN IF rx[u] + 1 >= Slots THEN 0 ELSE rx[u] + 1
                 ELSE rx[u]
    BY <1>1, <2>2 DEF WriteSample, Pushed
  <2> QED
    BY <1>1, <1>3, <2>1, <2>3, FreshWrite
<1>4. ASSUME u \in ctx, u \notin unlucky, pc[u] = "release"
      PROVE  Unread(Behind(got[u], got[u].x), wx') = written' - window[u].end
  <2> DEFINE b == Behind(got[u], got[u].x)
  <2>1. b \in Slot
    BY <1>1, <1>4, BehindOK DEF StreamOK
  <2>2. Unread(b, wx) = written - window[u].end /\ window[u].end = window[u].fence
    BY <1>1, <1>4 DEF StreamOK
  <2> HIDE DEF b
  <2>3. Unread(b, wx) < Slots - 1
    BY <1>1, <1>2, <1>4, <2>2, Sizes
  <2>4. Unread(b, wx') = Unread(b, wx) + 1
    BY <1>1, <2>1, <2>3, NextPlace
  <2> QED
    BY <1>1, <2>2, <2>4 DEF b
<1>5. window[u].begin - 1 \in Int
  BY <1>1
<1> QED
  BY <1>1, <1>2, <1>3, <1>4, <1>5 DEF StreamOK

\* The user who takes a step.
LEMMA StreamTyped ==
    ASSUME SInv, NEW u \in Streams
    PROVE  /\ u \in Users /\ IInv /\ StreamOK(u) /\ UserOK(u)
           /\ wx \in Slot /\ wp \in Slot /\ written \in Nat /\ taken \in Nat /\ written <= taken
           /\ window[u].begin \in Int /\ window[u].end \in Int /\ window[u].fence \in Int
<1>1. u \in Users /\ IInv /\ StreamOK(u) /\ UserOK(u)
  BY DEF SInv, IInv, Users
<1>2. wx \in Slot /\ wp \in Slot /\ written \in Nat /\ taken \in Nat /\ written <= taken
  BY <1>1, Sizes DEF IInv, RingInv
<1>3. window[u] \in [begin : 0 .. MaxPts, end : 0 .. MaxPts, fence : 0 .. MaxPts]
  BY <1>1 DEF IInv, UsersTyped
<1>4. window[u].begin \in Int /\ window[u].end \in Int /\ window[u].fence \in Int
  BY <1>3, Sizes
<1> QED
  BY <1>1, <1>2, <1>4

LEMMA AddPtsStream ==
    ASSUME SInv, NEW u \in Streams, AddPts(u)
    PROVE  StreamOK(u)'
<1>1. /\ wx \in Slot /\ wp \in Slot /\ written \in Int /\ taken \in Int /\ written <= taken
      /\ u \in Users
  BY StreamTyped, Sizes
<1>2. /\ pc'[u] = "idle" /\ window'[u].end = taken /\ rx'[u] = rx[u]
      /\ wx' = wx /\ written' = written
      /\ u \notin unlucky' => rx[u] = wp
  BY <1>1 DEF AddPts, ring, SInv, IInv, UsersTyped, Since, NoWindow
<1>3. wx = Place(wp, 1) \/ wx = wp
  BY DEF SInv, IInv, RingInv
<1>4. Unread(wp, wx) \in {0, 1}
  BY <1>1, <1>3, ReachIs, Sizes DEF Unread, Place
<1>5. Fresh(wp, wx, written, taken)
  BY <1>1, <1>4, Sizes DEF Fresh
<1> QED
  BY <1>2, <1>5 DEF StreamOK

LEMMA AskStream ==
    ASSUME SInv, NEW u \in Streams, Ask(u)
    PROVE  StreamOK(u)'
<1>1. /\ wx \in Slot /\ written \in Int /\ taken \in Int /\ written <= taken
      /\ u \in Users /\ StreamOK(u) /\ window[u].end \in Int
  BY StreamTyped, Sizes
<1>2. PICK b \in Sample, e \in Sample :
         /\ b = window[u].end + 1 /\ e = taken /\ b < e
         /\ window' = [window EXCEPT ![u] = [begin |-> b, end |-> e, fence |-> taken]]
  BY DEF Ask
<1>3. /\ pc[u] = "idle" /\ pc'[u] = "flush"
      /\ window'[u] = [begin |-> b, end |-> e, fence |-> taken]
      /\ UNCHANGED <<wx, written, ctx, rx, unlucky>>
  BY <1>1, <1>2 DEF Ask, ring, SInv, IInv, UsersTyped
<1>4. window'[u].begin - 1 = window[u].end
  BY <1>1, <1>2, <1>3
<1>5. written <= taken + MaxSkew
  BY <1>1, Sizes
<1> QED
  BY <1>1, <1>2, <1>3, <1>4, <1>5 DEF StreamOK

\* The pointer is not at the writer, for the last sample of the window has not been
\* read yet; so the answer is exact, and it is not empty.
LEMMA StreamAnswered ==
    ASSUME MaxSkew <= Slots - Gap, SInv, NEW u \in Streams, Get(u), u \notin unlucky
    PROVE  /\ Given(got'[u]) = InRing(window[u])
           /\ got'[u].n0 + got'[u].n1 # 0
<1>1. /\ u \in Users /\ IInv /\ StreamOK(u) /\ UserOK(u)
      /\ wx \in Slot /\ wp \in Slot /\ written \in Nat
      /\ window[u].begin \in Int /\ window[u].end \in Int /\ window[u].fence \in Int
  BY StreamTyped
<1>2. /\ pc[u] = "flush" /\ ~busy /\ u \in ctx /\ written >= window[u].fence
      /\ window[u].end = window[u].fence /\ window[u].begin < window[u].end
      /\ written <= window[u].fence + MaxSkew
      /\ window[u].begin \in Sample /\ window[u].end \in Sample
      /\ rx[u] = rp[u] /\ rp[u] \in Slot
      /\ Fresh(rx[u], wx, written, window[u].begin - 1)
  BY <1>1 DEF Get, StreamOK, UserOK
<1>3. wx = wp
  BY <1>1, <1>2 DEF IInv, RingInv
<1>4. rp[u] # wp
  <2> SUFFICES ASSUME rp[u] = wp PROVE FALSE
    OBVIOUS
  <2>1. Unread(rx[u], wx) = 0
    BY <1>1, <1>2, <1>3, ReachIs DEF Unread
  <2> QED
    BY <1>1, <1>2, <2>1, Sizes DEF Fresh
<1>5. PICK q : Answer(u, got'[u], q)
  BY <1>1, AnswerGot
<1>6. Given(got'[u]) = InRing(window[u])
  BY <1>2, <1>4, <1>5 DEF Answer
<1>7. window[u].end \in InRing(window[u])
  <2> DEFINE o == Slots - 1 - (written - window[u].end)
  <2>1. o \in Slot
    BY <1>1, <1>2, Sizes, ReachIs
  <2>2. Stamp(written, o) = window[u].end
    BY <1>1, <1>2, Sizes DEF Stamp, Sample
  <2> HIDE DEF o
  <2>3. Place(wx, o) \in Slot /\ pts[Place(wx, o)] = window[u].end
    BY <1>1, <2>1, <2>2, PlaceOff DEF IInv, RingInv, Content
  <2>4. window[u].end \in window[u].begin .. window[u].end
    BY <1>1, <1>2
  <2> QED
    BY <2>3, <2>4 DEF InRing
<1>8. got'[u].n0 + got'[u].n1 # 0
  <2> SUFFICES ASSUME got'[u].n0 + got'[u].n1 = 0 PROVE FALSE
    OBVIOUS
  <2>1. DOMAIN Stamps(got'[u], got'[u].x) = {}
    BY DEF Stamps
  <2>2. Given(got'[u]) = {}
    BY <2>1 DEF Given
  <2> QED
    BY <1>6, <1>7, <2>2
<1> QED
  BY <1>6, <1>8

LEMMA GetStream ==
    ASSUME MaxSkew <= Slots - Gap, SInv, NEW u \in Streams, Get(u)
    PROVE  StreamOK(u)'
<1>1. /\ u \in Users /\ IInv /\ StreamOK(u) /\ UserOK(u)
      /\ wx \in Slot /\ wp \in Slot /\ written \in Nat
      /\ window[u].begin \in Int /\ window[u].end \in Int /\ window[u].fence \in Int
  BY StreamTyped
<1>2. /\ pc[u] = "flush" /\ pc'[u] = "release" /\ ~busy /\ written >= window[u].fence
      /\ window[u].end = window[u].fence /\ written <= window[u].fence + MaxSkew
      /\ UNCHANGED <<wx, written, ctx, window>>
  BY <1>1 DEF Get, ring, StreamOK, IInv, UsersTyped
<1>3. wx = wp
  BY <1>1, <1>2 DEF IInv, RingInv
<1>4. PICK q : Answer(u, got'[u], q)
  BY <1>1, AnswerGot
<1>5. ASSUME u \notin unlucky'
      PROVE  /\ ~released'[u]
             /\ Unread(Behind(got'[u], got'[u].x), wx) = written - window[u].end
  <2>1. got'[u].n0 + got'[u].n1 # 0
    BY <1>1, <1>5, AnswerGot, StreamAnswered
  <2>2. got'[u].n0 + got'[u].n1 > 0
    BY <1>4, <2>1, Sizes DEF Answer
  <2>3. Unread(Behind(got'[u], got'[u].x), wp) = written - window[u].end
    BY <1>1, <1>2, <1>4, <2>2 DEF Answer
  <2>4. ~released'[u]
    BY <1>1, <2>1, AnswerGot
  <2> QED
    BY <1>3, <2>3, <2>4
<1> QED
  BY <1>2, <1>5 DEF StreamOK

LEMMA ReleaseStream ==
    ASSUME MaxSkew <= Slots - Gap, SInv, NEW u \in Streams, Release(u)
    PROVE  StreamOK(u)'
<1>1. /\ u \in Users /\ IInv /\ StreamOK(u)
      /\ written \in Nat /\ window[u].end \in Int /\ window[u].fence \in Int
  BY StreamTyped
<1>2. /\ pc[u] = "release" /\ pc'[u] = "idle" /\ window'[u].end = window[u].end
      /\ UNCHANGED <<wx, written, ctx, unlucky>>
      /\ ~released[u] => rx'[u] = Behind(got[u], got[u].x)
  BY <1>1 DEF Release, ring, Since, NoWindow, IInv, UsersTyped
<1>3. ASSUME u \in ctx, u \notin unlucky
      PROVE  Fresh(rx'[u], wx, written, window[u].end)
  <2>1. /\ Unread(rx'[u], wx) = written - window[u].end
        /\ window[u].end = window[u].fence /\ written <= window[u].fence + MaxSkew
    BY <1>1, <1>2, <1>3 DEF StreamOK
  <2> QED
    BY <1>1, <2>1, Sizes DEF Fresh
<1> QED
  BY <1>2, <1>3 DEF StreamOK

LEMMA UserStream ==
    ASSUME MaxSkew <= Slots - Gap, SInv, NEW u \in Users, User(u),
           NEW v \in Streams
    PROVE  StreamOK(v)'
<1>1. /\ v \in Users /\ IInv /\ StreamOK(v)
  BY StreamTyped
<1>2. wx' = wx /\ written' = written
  BY DEF User, AddX, AddPts, Delete, Ask, Get, Release, ring
<1>3. CASE v # u
  <2>1. CASE AddX(u)
    BY <1>1, <1>2, <1>3, <2>1, StreamKept DEF AddX, IInv, UsersTyped
  <2>2. CASE AddPts(u)
    BY <1>1, <1>2, <1>3, <2>2, StreamKept DEF AddPts, IInv, UsersTyped
  <2>3. CASE Delete(u)
    BY <1>1, <1>2, <1>3, <2>3, StreamKept DEF Delete, IInv, UsersTyped
  <2>4. CASE Ask(u)
    BY <1>1, <1>2, <1>3, <2>4, StreamKept DEF Ask, IInv, UsersTyped
  <2>5. CASE Get(u)
    <3>1. PICK info :
             /\ got' = [got EXCEPT ![u] = info] /\ rx' = [rx EXCEPT ![u] = info.x]
             /\ released' = [released EXCEPT ![u] = info.n0 + info.n1 = 0]
             /\ unlucky' = IF info.n0 + info.n1 = 0 THEN unlucky ELSE unlucky \ {u}
      BY <1>1, <2>5, GetAnswer
    <3>2. /\ rx'[v] = rx[v] /\ got'[v] = got[v] /\ released'[v] = released[v]
          /\ v \in unlucky' <=> v \in unlucky
      BY <1>1, <1>3, <3>1 DEF IInv, UsersTyped
    <3>3. pc'[v] = pc[v] /\ window'[v] = window[v] /\ (v \in ctx' <=> v \in ctx)
      BY <1>1, <1>3, <2>5 DEF Get, IInv, UsersTyped
    <3> QED
      BY <1>1, <1>2, <3>2, <3>3, StreamKept DEF IInv, UsersTyped
  <2>6. CASE Release(u)
    BY <1>1, <1>2, <1>3, <2>6, StreamKept DEF Release, IInv, UsersTyped
  <2> QED
    BY <2>1, <2>2, <2>3, <2>4, <2>5, <2>6 DEF User
<1>4. CASE v = u
  <2>1. CASE AddX(u)
    BY <1>1, <1>4, <2>1 DEF AddX, IInv, UsersTyped, StreamOK, UserOK
  <2>2. CASE Delete(u)
    BY <1>1, <1>4, <2>2 DEF Delete, IInv, UsersTyped, StreamOK
  <2> QED
    BY <1>4, <2>1, <2>2, AddPtsStream, AskStream, GetStream, ReleaseStream DEF User
<1> QED
  BY <1>3, <1>4

LEMMA NextSInv ==
    ASSUME MaxSkew <= Slots - Gap
    PROVE  SInv /\ [Next]_vars => SInv'
<1> SUFFICES ASSUME SInv, [Next]_vars, NEW v \in Streams PROVE StreamOK(v)'
  BY NextIInv DEF SInv
<1>1. StreamOK(v)
  BY DEF SInv
<1>2. CASE Sampled
  BY <1>1, <1>2 DEF Sampled, StreamOK
<1>3. CASE WriteSample
  BY <1>3, WriteSampleStream
<1>4. CASE WriteDone
  BY <1>1, <1>4 DEF WriteDone, StreamOK
<1>5. ASSUME NEW u \in Users, User(u) PROVE StreamOK(v)'
  BY <1>5, UserStream
<1>6. CASE UNCHANGED vars
  BY <1>1, <1>6 DEF vars, ring, StreamOK
<1> QED
  BY <1>2, <1>3, <1>4, <1>5, <1>6 DEF Next

\* A user that asks for window after window, like imu_app, is given every sample of
\* each window that is still in the ring, if the samples written while a call lasts
\* leave the gap of the writer free (StreamComplete).
THEOREM StreamMissesNothing ==
    ASSUME MaxSkew <= Slots - Gap
    PROVE  Spec => StreamComplete
<1> DEFINE Complete(u) ==
             LET stamps == Stamps(got'[u], got'[u].at)
             IN  InRing(window[u]) = {stamps[k] : k \in DOMAIN stamps}
<1>1. ASSUME SInv, Next, NEW u \in Streams,
             pc[u] = "flush", pc'[u] = "release", u \notin unlucky
      PROVE  Complete(u)
  <2>1. u \in Users /\ IInv
    BY <1>1, StreamTyped
  <2>2. Get(u)
    BY <1>1, <2>1, OnlyGet
  <2>3. PICK q : Answer(u, got'[u], q)
    BY <2>1, <2>2, AnswerGot
  <2>4. got'[u].at = got'[u].x
    BY <2>3 DEF Answer
  <2>5. Given(got'[u]) = InRing(window[u])
    BY <1>1, <2>2, StreamAnswered
  <2> QED
    BY <2>4, <2>5 DEF Given
<1>2. SInv /\ [Next]_vars =>
        [\A u \in Streams :
            pc[u] = "flush" /\ pc'[u] = "release" /\ u \notin unlucky => Complete(u)]_vars
  BY <1>1
<1>3. Spec => []SInv
  BY InitSInv, NextSInv, PTL DEF Spec
<1> QED
  BY <1>2, <1>3, PTL DEF Spec, StreamComplete
=============================================================================
