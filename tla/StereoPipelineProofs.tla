------------------------ MODULE StereoPipelineProofs ------------------------
(***************************************************************************)
(* StereoPipeline proved for every number of frames and every combination   *)
(* of failures, clients and shutdowns.                                      *)
(*                                                                         *)
(* The pipeline is a line of nine places, the threads' hands and the queues *)
(* in turn, and the frame indices in it get larger from the net thread to   *)
(* get_frm.  That order is what makes the other properties inductive: it    *)
(* tells that an index is in one place only.                                *)
(***************************************************************************)
EXTENDS StereoPipeline, FiniteSetTheorems, SequenceTheorems, TLAPS

(***************************************************************************)
(* A line of places: numbers that travel through it, each place a sequence; *)
(* they get larger from the front of place 1 to the end of the last place.  *)
(* These are the moves the threads and queues of a pipeline make, and none  *)
(* of them disturbs the order.                                              *)
(***************************************************************************)

Line(n) == [1 .. n -> Seq(Nat)]

\* Position x of place a is further ahead than position y of place b.
Ahead(a, x, b, y) == a < b \/ (a = b /\ x < y)

Ordered(n, P) ==
    \A a, b \in 1 .. n : \A x \in 1 .. Len(P[a]), y \in 1 .. Len(P[b]) :
        Ahead(a, x, b, y) => P[a][x] < P[b][y]

\* v is somewhere in the places from lo to hi.
Among(P, lo, hi, v) == \E b \in lo .. hi : \E x \in 1 .. Len(P[b]) : P[b][x] = v

-----------------------------------------------------------------------------
(* The moves.                                                              *)

\* The head of place a moves to the empty place before it.
PopMove(n, P, R, a) ==
    /\ P \in Line(n) /\ R \in Line(n) /\ a \in 2 .. n
    /\ P[a] # <<>> /\ P[a - 1] = <<>>
    /\ R[a] = Tail(P[a]) /\ R[a - 1] = <<Head(P[a])>>
    /\ \A b \in 1 .. n : b \notin {a, a - 1} => R[b] = P[b]

\* The only number of place a moves to the end of the place before it.
PushMove(n, P, R, a, v) ==
    /\ P \in Line(n) /\ R \in Line(n) /\ a \in 2 .. n
    /\ v \in Nat /\ P[a] = <<v>>
    /\ R[a] = <<>> /\ R[a - 1] = Append(P[a - 1], v)
    /\ \A b \in 1 .. n : b \notin {a, a - 1} => R[b] = P[b]

\* Place a loses its only number.
LoseMove(n, P, R, a, v) ==
    /\ P \in Line(n) /\ R \in Line(n) /\ a \in 1 .. n
    /\ v \in Nat /\ P[a] = <<v>> /\ R[a] = <<>>
    /\ \A b \in 1 .. n : b # a => R[b] = P[b]

\* Place a loses its head.
TailMove(n, P, R, a) ==
    /\ P \in Line(n) /\ R \in Line(n) /\ a \in 1 .. n
    /\ P[a] # <<>> /\ R[a] = Tail(P[a])
    /\ \A b \in 1 .. n : b # a => R[b] = P[b]

\* v enters the empty last place.
EnterMove(n, P, R, v) ==
    /\ P \in Line(n) /\ R \in Line(n) /\ n # 0
    /\ v \in Nat /\ P[n] = <<>> /\ R[n] = <<v>>
    /\ \A b \in 1 .. n - 1 : R[b] = P[b]

-----------------------------------------------------------------------------
(* Their effect on the order.                                              *)

LEMMA OrderedPop ==
    ASSUME NEW n \in Nat, NEW P, NEW R, NEW a, PopMove(n, P, R, a), Ordered(n, P)
    PROVE  Ordered(n, R)
<1> USE DEF PopMove
<1>0. a - 1 \in 1 .. n /\ a \in 1 .. n /\ a - 1 # a
  OBVIOUS
<1>1. /\ Head(P[a]) = P[a][1] /\ 1 \in 1 .. Len(P[a])
      /\ Len(R[a]) = Len(P[a]) - 1 /\ Len(P[a]) \in Nat
      /\ \A x \in 1 .. Len(R[a]) : R[a][x] = P[a][x + 1]
  <2>1. P[a] \in Seq(Nat)
    BY <1>0 DEF Line
  <2>2. Len(P[a]) \in Nat \ {0}
    BY <2>1, EmptySeq
  <2>3. /\ Len(R[a]) = Len(P[a]) - 1
        /\ \A x \in 1 .. Len(R[a]) : R[a][x] = P[a][x + 1]
    BY <2>1, HeadTailProperties
  <2>4. Head(P[a]) = P[a][1]
    BY <2>1, <2>2
  <2> QED
    BY <2>2, <2>3, <2>4
<1>2. Len(R[a - 1]) = 1 /\ R[a - 1][1] = P[a][1]
  BY <1>1
\* Where a number was before.
<1> DEFINE Place(d) == IF d = a - 1 THEN a ELSE d
           Pos(d, z) == IF d = a THEN z + 1 ELSE z
<1>3. ASSUME NEW d \in 1 .. n, NEW z \in 1 .. Len(R[d])
      PROVE  /\ Place(d) \in 1 .. n /\ Pos(d, z) \in 1 .. Len(P[Place(d)])
             /\ R[d][z] = P[Place(d)][Pos(d, z)]
             /\ d = a - 1 => z = 1
  <2>1. CASE d = a
    <3>1. z + 1 \in 1 .. Len(P[a])
      <4>1. Len(R[d]) = Len(P[a]) - 1 /\ Len(P[a]) \in Nat
        BY <1>1, <2>1
      <4> HIDE DEF Place, Pos
      <4> QED
        BY <4>1
    <3>2. Place(d) = a /\ Pos(d, z) = z + 1 /\ d # a - 1
      BY <1>0, <2>1
    <3> HIDE DEF Place, Pos
    <3> QED
      BY <1>0, <1>1, <2>1, <3>1, <3>2
  <2>2. CASE d = a - 1
    <3>1. z = 1
      <4>1. Len(R[d]) = 1
        BY <1>2, <2>2
      <4>2. z \in 1 .. 1
        BY <4>1
      <4> QED
        BY <4>2
    <3>2. Place(d) = a /\ Pos(d, z) = 1
      BY <1>0, <2>2, <3>1
    <3> HIDE DEF Place, Pos
    <3> QED
      BY <1>0, <1>1, <1>2, <2>2, <3>1, <3>2
  <2>3. CASE d \notin {a, a - 1}
    BY <2>3
  <2> QED
    BY <2>1, <2>2, <2>3
<1> SUFFICES ASSUME NEW b \in 1 .. n, NEW c \in 1 .. n,
                    NEW x \in 1 .. Len(R[b]), NEW y \in 1 .. Len(R[c]),
                    Ahead(b, x, c, y)
             PROVE  R[b][x] < R[c][y]
  BY DEF Ordered
<1>4. b = a - 1 => x = 1
  BY <1>3
<1>5. c = a - 1 => y = 1
  BY <1>3
<1>6. Ahead(Place(b), Pos(b, x), Place(c), Pos(c, y))
  <2>1. x \in Int /\ y \in Int /\ x >= 1 /\ y >= 1
    OBVIOUS
  <2> QED
    BY <1>0, <1>4, <1>5, <2>1 DEF Ahead
<1>7. /\ Place(b) \in 1 .. n /\ Pos(b, x) \in 1 .. Len(P[Place(b)])
      /\ Place(c) \in 1 .. n /\ Pos(c, y) \in 1 .. Len(P[Place(c)])
      /\ R[b][x] = P[Place(b)][Pos(b, x)] /\ R[c][y] = P[Place(c)][Pos(c, y)]
  BY <1>3
<1> HIDE DEF Place, Pos
<1> QED
  BY <1>6, <1>7 DEF Ordered

LEMMA OrderedPush ==
    ASSUME NEW n \in Nat, NEW P, NEW R, NEW a, NEW v, PushMove(n, P, R, a, v),
           Ordered(n, P)
    PROVE  Ordered(n, R)
<1> USE DEF PushMove
<1> DEFINE m == Len(P[a - 1])
<1>0. a - 1 \in 1 .. n /\ a \in 1 .. n /\ a - 1 # a
  OBVIOUS
<1>1. /\ m \in Nat /\ Len(R[a - 1]) = m + 1 /\ R[a - 1][m + 1] = v
      /\ \A x \in 1 .. m : R[a - 1][x] = P[a - 1][x]
  <2>1. P[a - 1] \in Seq(Nat)
    BY <1>0 DEF Line
  <2> QED
    BY <2>1, AppendProperties, LenProperties
<1>2. Len(P[a]) = 1 /\ P[a][1] = v /\ Len(R[a]) = 0
  OBVIOUS
\* Where a number was before.
<1> DEFINE Moved(d, z) == d = a - 1 /\ z = m + 1
           Place(d, z) == IF Moved(d, z) THEN a ELSE d
           Pos(d, z) == IF Moved(d, z) THEN 1 ELSE z
<1>3. ASSUME NEW d \in 1 .. n, NEW z \in 1 .. Len(R[d])
      PROVE  /\ Place(d, z) \in 1 .. n /\ Pos(d, z) \in 1 .. Len(P[Place(d, z)])
             /\ R[d][z] = P[Place(d, z)][Pos(d, z)]
             /\ d # a
             /\ d = a - 1 => z <= m + 1
  <2>1. CASE d = a
    BY <1>2, <2>1
  <2>2. CASE d = a - 1 /\ z = m + 1
    BY <1>0, <1>1, <1>2, <2>2
  <2>3. CASE d = a - 1 /\ z # m + 1
    <3>1. z \in 1 .. m
      BY <1>1, <2>3
    <3>3. z \in 1 .. Len(P[d])
      BY <2>3, <3>1
    <3> HIDE DEF m, PushMove
    <3>2. R[d][z] = P[d][z] /\ z <= m + 1
      BY <1>1, <2>3, <3>1
    <3> QED
      BY <1>0, <2>3, <3>2, <3>3
  <2>4. CASE d \notin {a, a - 1}
    BY <2>4
  <2> QED
    BY <2>1, <2>2, <2>3, <2>4
<1> SUFFICES ASSUME NEW b \in 1 .. n, NEW c \in 1 .. n,
                    NEW x \in 1 .. Len(R[b]), NEW y \in 1 .. Len(R[c]),
                    Ahead(b, x, c, y)
             PROVE  R[b][x] < R[c][y]
  BY DEF Ordered
<1>4. b # a /\ (b = a - 1 => x <= m + 1)
  BY <1>3
<1>5. c # a /\ (c = a - 1 => y <= m + 1)
  BY <1>3
<1>6. Ahead(Place(b, x), Pos(b, x), Place(c, y), Pos(c, y))
  <2>1. x \in Int /\ y \in Int
    OBVIOUS
  <2> HIDE DEF m
  <2> QED
    BY <1>1, <1>4, <1>5, <2>1 DEF Ahead
<1>7. /\ Place(b, x) \in 1 .. n /\ Pos(b, x) \in 1 .. Len(P[Place(b, x)])
      /\ Place(c, y) \in 1 .. n /\ Pos(c, y) \in 1 .. Len(P[Place(c, y)])
      /\ R[b][x] = P[Place(b, x)][Pos(b, x)]
      /\ R[c][y] = P[Place(c, y)][Pos(c, y)]
  BY <1>3
<1> HIDE DEF Place, Pos
<1> QED
  BY <1>6, <1>7 DEF Ordered

\* A place loses its only number, or its head.
LEMMA OrderedLose ==
    ASSUME NEW n \in Nat, NEW P, NEW R, NEW a, NEW v, Ordered(n, P),
           LoseMove(n, P, R, a, v) \/ TailMove(n, P, R, a)
    PROVE  Ordered(n, R)
<1>0. /\ P \in Line(n) /\ R \in Line(n) /\ a \in 1 .. n
      /\ P[a] # <<>> /\ (R[a] = <<>> \/ R[a] = Tail(P[a]))
      /\ \A b \in 1 .. n : b # a => R[b] = P[b]
  <2>1. CASE LoseMove(n, P, R, a, v)
    <3>1. P[a] = <<v>> /\ <<v>> # <<>>
      BY <2>1 DEF LoseMove
    <3> QED
      BY <2>1, <3>1 DEF LoseMove
  <2>2. CASE TailMove(n, P, R, a)
    BY <2>2 DEF TailMove
  <2> QED
    BY <2>1, <2>2
<1>1. /\ Len(P[a]) \in Nat
      /\ \A x \in 1 .. Len(R[a]) :
            x + 1 \in 1 .. Len(P[a]) /\ R[a][x] = P[a][x + 1]
  <2>1. P[a] \in Seq(Nat)
    BY <1>0 DEF Line
  <2>2. CASE R[a] = <<>>
    BY <1>0, <2>1, <2>2, LenProperties
  <2>3. CASE R[a] = Tail(P[a])
    <3>1. /\ Len(P[a]) \in Nat \ {0} /\ Len(R[a]) = Len(P[a]) - 1
          /\ \A x \in 1 .. Len(R[a]) : R[a][x] = P[a][x + 1]
      BY <1>0, <2>1, <2>3, HeadTailProperties, EmptySeq
    <3> QED
      BY <3>1
  <2> QED
    BY <1>0, <2>2, <2>3
<1> SUFFICES ASSUME NEW b \in 1 .. n, NEW c \in 1 .. n,
                    NEW x \in 1 .. Len(R[b]), NEW y \in 1 .. Len(R[c]),
                    Ahead(b, x, c, y)
             PROVE  R[b][x] < R[c][y]
  BY <1>0 DEF Ordered
<1> DEFINE Pos(d, z) == IF d = a THEN z + 1 ELSE z
<1>2. Pos(b, x) \in 1 .. Len(P[b]) /\ R[b][x] = P[b][Pos(b, x)]
  BY <1>0, <1>1
<1>3. Pos(c, y) \in 1 .. Len(P[c]) /\ R[c][y] = P[c][Pos(c, y)]
  BY <1>0, <1>1
<1>4. Ahead(b, Pos(b, x), c, Pos(c, y))
  <2>1. x \in Int /\ y \in Int
    OBVIOUS
  <2> QED
    BY <2>1 DEF Ahead
<1> QED
  BY <1>0, <1>2, <1>3, <1>4 DEF Ordered

\* A number larger than all others enters the empty last place.
LEMMA OrderedEnter ==
    ASSUME NEW n \in Nat, NEW P, NEW R, NEW v, EnterMove(n, P, R, v), Ordered(n, P),
           \A b \in 1 .. n - 1 : \A x \in 1 .. Len(P[b]) : P[b][x] < v
    PROVE  Ordered(n, R)
<1> USE DEF EnterMove
<1>1. Len(R[n]) = 1 /\ R[n][1] = v
  OBVIOUS
<1> SUFFICES ASSUME NEW b \in 1 .. n, NEW c \in 1 .. n,
                    NEW x \in 1 .. Len(R[b]), NEW y \in 1 .. Len(R[c]),
                    Ahead(b, x, c, y)
             PROVE  R[b][x] < R[c][y]
  BY DEF Ordered
<1>2. x \in Int /\ y \in Int
  OBVIOUS
<1>3. b # n
  <2>1. b = n => x = 1
    <3>1. CASE b = n
      <4>1. x \in 1 .. 1
        BY <1>1, <3>1
      <4> QED
        BY <4>1
    <3> QED
      BY <3>1
  <2>2. c = n => y = 1
    <3>1. CASE c = n
      <4>1. y \in 1 .. 1
        BY <1>1, <3>1
      <4> QED
        BY <4>1
    <3> QED
      BY <3>1
  <2> QED
    BY <1>2, <2>1, <2>2 DEF Ahead
<1>4. CASE c = n
  BY <1>1, <1>3, <1>4
<1>5. CASE c # n
  BY <1>3, <1>5 DEF Ordered
<1> QED
  BY <1>4, <1>5

-----------------------------------------------------------------------------
(* What the moves do to the set of numbers in the line.                    *)

LEMMA AmongSame ==
    ASSUME NEW P, NEW R, NEW lo \in Int, NEW hi \in Int, NEW v,
           \A b \in lo .. hi : R[b] = P[b]
    PROVE  Among(R, lo, hi, v) <=> Among(P, lo, hi, v)
  BY DEF Among

\* A range that holds both places of a move, or neither, keeps its numbers.
LEMMA AmongPop ==
    ASSUME NEW n \in Nat, NEW P, NEW R, NEW a, PopMove(n, P, R, a),
           NEW lo \in 1 .. n, lo # a, NEW v
    PROVE  Among(R, lo, n, v) <=> Among(P, lo, n, v)
<1> USE DEF PopMove
<1>0. a - 1 \in 1 .. n /\ a \in 1 .. n /\ a - 1 # a
  OBVIOUS
<1>1. P[a] \in Seq(Nat)
  BY <1>0 DEF Line
<1>2. Len(P[a]) \in Nat \ {0}
  BY <1>1, EmptySeq
<1>3. /\ Len(R[a]) = Len(P[a]) - 1
      /\ \A x \in 1 .. Len(R[a]) : R[a][x] = P[a][x + 1]
  BY <1>1, HeadTailProperties
<1>4. Len(R[a - 1]) = 1 /\ R[a - 1][1] = P[a][1] /\ Len(P[a - 1]) = 0
  BY <1>1, <1>2
<1>5. (\E x \in 1 .. Len(P[a]) : P[a][x] = v)
        <=> (P[a][1] = v \/ \E x \in 1 .. Len(R[a]) : R[a][x] = v)
  <2>1. ASSUME NEW x \in 1 .. Len(P[a]), P[a][x] = v
        PROVE  P[a][1] = v \/ \E y \in 1 .. Len(R[a]) : R[a][y] = v
    <3>1. CASE x = 1
      BY <2>1, <3>1
    <3>2. CASE x # 1
      <4>1. x - 1 \in 1 .. Len(R[a]) /\ (x - 1) + 1 = x
        BY <1>2, <1>3, <3>2
      <4>2. R[a][x - 1] = v
        BY <1>3, <2>1, <4>1
      <4> QED
        BY <4>1, <4>2
    <3> QED
      BY <3>1, <3>2
  <2>2. 1 \in 1 .. Len(P[a])
    BY <1>2
  <2>3. \A x \in 1 .. Len(R[a]) : x + 1 \in 1 .. Len(P[a])
    BY <1>2, <1>3
  <2> QED
    BY <1>3, <2>1, <2>2, <2>3
<1>6. (\E x \in 1 .. Len(R[a - 1]) : R[a - 1][x] = v) <=> P[a][1] = v
  <2>1. 1 .. Len(R[a - 1]) = {1}
    BY <1>4
  <2> QED
    BY <1>4, <2>1
<1>7. ~ \E x \in 1 .. Len(P[a - 1]) : P[a - 1][x] = v
  BY <1>4
<1> DEFINE InP(b) == \E x \in 1 .. Len(P[b]) : P[b][x] = v
           InR(b) == \E x \in 1 .. Len(R[b]) : R[b][x] = v
<1>8. /\ InP(a) <=> (P[a][1] = v \/ InR(a))
      /\ InR(a - 1) <=> P[a][1] = v
      /\ ~InP(a - 1)
      /\ \A b \in 1 .. n : b \notin {a, a - 1} => (InP(b) <=> InR(b))
  BY <1>5, <1>6, <1>7
<1>9. Among(R, lo, n, v) <=> \E b \in lo .. n : InR(b)
  BY DEF Among
<1>10. Among(P, lo, n, v) <=> \E b \in lo .. n : InP(b)
  BY DEF Among
<1>11. a \in lo .. n <=> a - 1 \in lo .. n
  OBVIOUS
<1> HIDE DEF InP, InR
<1>12. \A b \in lo .. n : b \in 1 .. n
  OBVIOUS
<1> QED
  BY <1>0, <1>8, <1>9, <1>10, <1>11, <1>12

LEMMA AmongPush ==
    ASSUME NEW n \in Nat, NEW P, NEW R, NEW a, NEW w, PushMove(n, P, R, a, w),
           NEW lo \in 1 .. n, lo # a, NEW v
    PROVE  Among(R, lo, n, v) <=> Among(P, lo, n, v)
<1> USE DEF PushMove
<1> DEFINE m == Len(P[a - 1])
<1>0. a - 1 \in 1 .. n /\ a \in 1 .. n /\ a - 1 # a
  OBVIOUS
<1>1. /\ m \in Nat /\ Len(R[a - 1]) = m + 1 /\ R[a - 1][m + 1] = w
      /\ \A x \in 1 .. m : R[a - 1][x] = P[a - 1][x]
  <2>1. P[a - 1] \in Seq(Nat)
    BY <1>0 DEF Line
  <2> QED
    BY <2>1, AppendProperties, LenProperties
<1> DEFINE InP(b) == \E x \in 1 .. Len(P[b]) : P[b][x] = v
           InR(b) == \E x \in 1 .. Len(R[b]) : R[b][x] = v
<1>2. InR(a - 1) <=> (InP(a - 1) \/ w = v)
  <2>1. 1 .. Len(R[a - 1]) = (1 .. m) \cup {m + 1}
    <3> HIDE DEF m
    <3> QED
      BY <1>1
  <2> QED
    BY <1>1, <2>1
<1>3. InP(a) <=> w = v
  <2>1. Len(P[a]) = 1 /\ P[a][1] = w
    OBVIOUS
  <2>2. 1 .. Len(P[a]) = {1}
    BY <2>1
  <2> QED
    BY <2>1, <2>2
<1>4. ~InR(a)
  <2>1. Len(R[a]) = 0
    OBVIOUS
  <2> QED
    BY <2>1
<1>5. \A b \in 1 .. n : b \notin {a, a - 1} => (InP(b) <=> InR(b))
  OBVIOUS
<1>6. Among(R, lo, n, v) <=> \E b \in lo .. n : InR(b)
  BY DEF Among
<1>7. Among(P, lo, n, v) <=> \E b \in lo .. n : InP(b)
  BY DEF Among
<1>8. a \in lo .. n <=> a - 1 \in lo .. n
  OBVIOUS
<1>9. \A b \in lo .. n : b \in 1 .. n
  OBVIOUS
<1> HIDE DEF InP, InR
<1> QED
  BY <1>0, <1>2, <1>3, <1>4, <1>5, <1>6, <1>7, <1>8, <1>9

\* In an ordered line the numbers behind a place are larger than its own.
LEMMA AmongBehind ==
    ASSUME NEW n \in Nat, NEW P \in Line(n), Ordered(n, P),
           NEW a \in 1 .. n, NEW x \in 1 .. Len(P[a]),
           NEW v, Among(P, a + 1, n, v)
    PROVE  P[a][x] < v
<1>1. PICK b \in a + 1 .. n : \E y \in 1 .. Len(P[b]) : P[b][y] = v
  BY DEF Among
<1>2. PICK y \in 1 .. Len(P[b]) : P[b][y] = v
  BY <1>1
<1>3. b \in 1 .. n /\ Ahead(a, x, b, y)
  BY DEF Ahead
<1> QED
  BY <1>2, <1>3 DEF Ordered

\* A place that loses its only number: the line loses that number.
LEMMA AmongLose ==
    ASSUME NEW n \in Nat, NEW P, NEW R, NEW a, NEW w, LoseMove(n, P, R, a, w),
           Ordered(n, P), NEW lo \in 1 .. a, NEW v
    PROVE  Among(R, lo, n, v) <=> Among(P, lo, n, v) /\ v # w
<1> USE DEF LoseMove
<1>1. Len(P[a]) = 1 /\ P[a][1] = w /\ Len(R[a]) = 0
  OBVIOUS
<1>2. 1 \in 1 .. Len(P[a]) /\ (\A x \in 1 .. Len(P[a]) : P[a][x] = w)
  BY <1>1
<1>3. \A b \in 1 .. n : \A x \in 1 .. Len(P[b]) : b # a => P[b][x] # w
  <2> SUFFICES ASSUME NEW b \in 1 .. n, NEW x \in 1 .. Len(P[b]), b # a
               PROVE  P[b][x] # w
    OBVIOUS
  <2>1. P[b][x] \in Nat
    BY ElementOfSeq DEF Line
  <2>2. P[b][x] < w \/ w < P[b][x]
    <3>1. a \in 1 .. n /\ (a < b \/ b < a)
      OBVIOUS
    <3> HIDE DEF LoseMove
    <3>2. CASE a < b
      BY <1>1, <1>2, <3>1, <3>2 DEF Ordered, Ahead
    <3>3. CASE b < a
      BY <1>1, <1>2, <3>1, <3>3 DEF Ordered, Ahead
    <3> QED
      BY <3>1, <3>2, <3>3
  <2> QED
    BY <2>1, <2>2
<1>4. \A b \in lo .. n : b \in 1 .. n
  OBVIOUS
<1>5. \A x \in 1 .. Len(R[a]) : FALSE
  BY <1>1
<1>6. ASSUME NEW b \in lo .. n, NEW x \in 1 .. Len(R[b]), R[b][x] = v
      PROVE  Among(P, lo, n, v) /\ v # w
  <2>1. b # a
    BY <1>5
  <2>2. R[b] = P[b] /\ b \in 1 .. n
    BY <1>4, <2>1
  <2> QED
    BY <1>3, <1>6, <2>1, <2>2 DEF Among
<1>7. ASSUME NEW b \in lo .. n, NEW x \in 1 .. Len(P[b]), P[b][x] = v, v # w
      PROVE  Among(R, lo, n, v)
  <2>1. b # a
    BY <1>2, <1>7
  <2> QED
    BY <1>4, <1>7, <2>1 DEF Among
<1> QED
  BY <1>6, <1>7 DEF Among

\* The numbers behind the only one of place a.
LEMMA AmongSkip ==
    ASSUME NEW n \in Nat, NEW P \in Line(n), Ordered(n, P),
           NEW a \in 1 .. n, NEW w \in Nat, P[a] = <<w>>, NEW v \in Nat
    PROVE  Among(P, a + 1, n, v) <=> Among(P, a, n, v) /\ v # w
<1>1. 1 \in 1 .. Len(P[a]) /\ P[a][1] = w /\ (\A x \in 1 .. Len(P[a]) : P[a][x] = w)
  <2>1. Len(P[a]) = 1 /\ P[a][1] = w
    OBVIOUS
  <2> QED
    BY <2>1
<1>2. Among(P, a + 1, n, v) => w < v
  BY <1>1, AmongBehind
<1>3. Among(P, a, n, v) <=> (Among(P, a + 1, n, v) \/ \E x \in 1 .. Len(P[a]) : P[a][x] = v)
  <2>1. \A b \in a .. n : b = a \/ b \in a + 1 .. n
    OBVIOUS
  <2>2. \A b \in a + 1 .. n : b \in a .. n
    OBVIOUS
  <2>3. a \in a .. n
    OBVIOUS
  <2> QED
    BY <2>1, <2>2, <2>3 DEF Among
<1> QED
  BY <1>1, <1>2, <1>3

\* Nothing is in an empty place.
LEMMA AmongEmpty ==
    ASSUME NEW n \in Nat, NEW P, NEW a \in 1 .. n, P[a] = <<>>, NEW v
    PROVE  Among(P, a + 1, n, v) <=> Among(P, a, n, v)
<1>1. \A x \in 1 .. Len(P[a]) : FALSE
  <2>1. Len(P[a]) = 0
    OBVIOUS
  <2> QED
    BY <2>1
<1>2. \A b \in a .. n : b = a \/ b \in a + 1 .. n
  OBVIOUS
<1>3. \A b \in a + 1 .. n : b \in a .. n
  OBVIOUS
<1> QED
  BY <1>1, <1>2, <1>3 DEF Among

\* A place that loses its head: what is left from there on is larger.
LEMMA AmongTail ==
    ASSUME NEW n \in Nat, NEW P, NEW R, NEW a, TailMove(n, P, R, a), Ordered(n, P),
           NEW v, Among(R, a, n, v)
    PROVE  Head(P[a]) < v /\ Among(P, a, n, v)
<1> USE DEF TailMove
<1>1. P[a] \in Seq(Nat)
  BY DEF Line
<1>2. Len(P[a]) \in Nat \ {0}
  BY <1>1, EmptySeq
<1>3. /\ Len(R[a]) = Len(P[a]) - 1
      /\ \A x \in 1 .. Len(R[a]) : R[a][x] = P[a][x + 1]
  BY <1>1, HeadTailProperties
<1>4. Head(P[a]) = P[a][1] /\ 1 \in 1 .. Len(P[a])
  BY <1>1, <1>2
<1>5. PICK b \in a .. n : \E x \in 1 .. Len(R[b]) : R[b][x] = v
  BY DEF Among
<1>6. PICK x \in 1 .. Len(R[b]) : R[b][x] = v
  BY <1>5
<1>7. CASE b = a
  <2>1. x + 1 \in 1 .. Len(P[a]) /\ 1 < x + 1
    <3>1. Len(R[b]) = Len(P[a]) - 1
      BY <1>3, <1>7
    <3> QED
      BY <1>2, <3>1
  <2>2. P[a][x + 1] = v
    BY <1>3, <1>6, <1>7
  <2>3. a \in a .. n
    OBVIOUS
  <2> QED
    BY <1>4, <2>1, <2>2, <2>3 DEF Ordered, Ahead, Among
<1>8. CASE b # a
  <2>1. b \in a + 1 .. n /\ b \in 1 .. n /\ b \in a .. n /\ a < b
    BY <1>8
  <2>2. R[b] = P[b]
    BY <2>1
  <2> QED
    BY <1>4, <1>6, <2>1, <2>2 DEF Ordered, Ahead, Among
<1> QED
  BY <1>7, <1>8

\* A number that enters the empty last place.
LEMMA AmongEnter ==
    ASSUME NEW n \in Nat, NEW P, NEW R, NEW w, EnterMove(n, P, R, w),
           NEW lo \in 1 .. n, NEW v
    PROVE  Among(R, lo, n, v) <=> Among(P, lo, n, v) \/ v = w
<1> USE DEF EnterMove
<1>1. /\ \A x \in 1 .. Len(P[n]) : FALSE
      /\ 1 \in 1 .. Len(R[n]) /\ R[n][1] = w
      /\ \A x \in 1 .. Len(R[n]) : R[n][x] = w
  <2>1. Len(P[n]) = 0 /\ Len(R[n]) = 1 /\ R[n][1] = w
    OBVIOUS
  <2> QED
    BY <2>1
<1>2. \A b \in lo .. n : b = n \/ b \in 1 .. n - 1
  OBVIOUS
<1>3. n \in lo .. n
  OBVIOUS
<1>4. \A b \in 1 .. n - 1 : R[b] = P[b]
  OBVIOUS
<1> USE DEF Among
<1>5. ASSUME Among(R, lo, n, v) PROVE Among(P, lo, n, v) \/ v = w
  BY <1>1, <1>2, <1>4, <1>5
<1>6. ASSUME Among(P, lo, n, v) PROVE Among(R, lo, n, v)
  BY <1>1, <1>2, <1>4, <1>6
<1>7. Among(R, lo, n, w)
  BY <1>1, <1>3
<1> QED
  BY <1>5, <1>6, <1>7

-----------------------------------------------------------------------------
(* From the places to their concatenation.                                 *)

Ascending(s) == \A p, r \in 1 .. Len(s) : p < r => s[p] < s[r]

\* s is what the places from lo to hi hold, in order.
Collects(s, P, lo, hi) ==
    /\ s \in Seq(Nat)
    /\ Ascending(s)
    /\ \A v \in Nat : (\E p \in 1 .. Len(s) : s[p] = v) <=> Among(P, lo, hi, v)

LEMMA CollectsConcat ==
    ASSUME NEW n \in Nat, NEW P \in Line(n), Ordered(n, P),
           NEW lo \in 1 .. n + 1, NEW m \in lo - 1 .. n, NEW hi \in m .. n,
           NEW s, NEW t, Collects(s, P, lo, m), Collects(t, P, m + 1, hi)
    PROVE  Collects(s \o t, P, lo, hi)
<1>1. /\ s \in Seq(Nat) /\ t \in Seq(Nat) /\ Len(s) \in Nat /\ Len(t) \in Nat
      /\ s \o t \in Seq(Nat) /\ Len(s \o t) = Len(s) + Len(t)
      /\ \A i \in 1 .. Len(s) + Len(t) :
            (s \o t)[i] = IF i <= Len(s) THEN s[i] ELSE t[i - Len(s)]
  BY ConcatProperties, LenProperties DEF Collects
<1> DEFINE u == s \o t
<1>2. \A i \in 1 .. Len(s) : i \in 1 .. Len(u) /\ u[i] = s[i]
  BY <1>1
<1>3. \A i \in 1 .. Len(t) : Len(s) + i \in 1 .. Len(u) /\ u[Len(s) + i] = t[i]
  <2> SUFFICES ASSUME NEW i \in 1 .. Len(t)
               PROVE  Len(s) + i \in 1 .. Len(u) /\ u[Len(s) + i] = t[i]
    OBVIOUS
  <2>1. Len(s) + i \in 1 .. Len(s) + Len(t) /\ ~(Len(s) + i <= Len(s))
    BY <1>1
  <2>2. (Len(s) + i) - Len(s) = i
    BY <1>1
  <2> QED
    BY <1>1, <2>1, <2>2
<1>4. \A i \in 1 .. Len(u) :
          (i \in 1 .. Len(s) /\ u[i] = s[i])
          \/ (i - Len(s) \in 1 .. Len(t) /\ i > Len(s) /\ u[i] = t[i - Len(s)])
  BY <1>1
<1>5. u \in Seq(Nat)
  BY <1>1
<1> HIDE DEF u
<1>6. \A i \in 1 .. Len(s), j \in 1 .. Len(t) : s[i] < t[j]
  <2> SUFFICES ASSUME NEW i \in 1 .. Len(s), NEW j \in 1 .. Len(t)
               PROVE  s[i] < t[j]
    OBVIOUS
  <2>1. s[i] \in Nat /\ t[j] \in Nat
    BY <1>1, ElementOfSeq
  <2>2. PICK b \in lo .. m : \E x \in 1 .. Len(P[b]) : P[b][x] = s[i]
    BY <2>1 DEF Collects, Among
  <2>3. PICK c \in m + 1 .. hi : \E x \in 1 .. Len(P[c]) : P[c][x] = t[j]
    BY <2>1 DEF Collects, Among
  <2>4. b \in 1 .. n /\ c \in 1 .. n /\ b < c
    OBVIOUS
  <2> QED
    BY <2>2, <2>3, <2>4 DEF Ordered, Ahead
<1>7. Ascending(u)
  <2> SUFFICES ASSUME NEW p \in 1 .. Len(u), NEW r \in 1 .. Len(u), p < r
               PROVE  u[p] < u[r]
    BY DEF Ascending
  <2>1. CASE p \in 1 .. Len(s) /\ r \in 1 .. Len(s)
    BY <1>2, <2>1 DEF Collects, Ascending
  <2>2. CASE p > Len(s)
    <3>1. r > Len(s)
      BY <1>1, <2>2
    <3>3. p - Len(s) \in 1 .. Len(t) /\ u[p] = t[p - Len(s)]
      <4>1. ~(p \in 1 .. Len(s))
        BY <1>1, <2>2
      <4> QED
        BY <1>4, <4>1
    <3>4. r - Len(s) \in 1 .. Len(t) /\ u[r] = t[r - Len(s)]
      <4>1. ~(r \in 1 .. Len(s))
        BY <1>1, <3>1
      <4> QED
        BY <1>4, <4>1
    <3>2. p - Len(s) < r - Len(s)
      BY <1>1
    <3> QED
      BY <3>2, <3>3, <3>4 DEF Collects, Ascending
  <2>3. CASE p \in 1 .. Len(s) /\ r > Len(s)
    <3>1. r - Len(s) \in 1 .. Len(t) /\ u[r] = t[r - Len(s)]
      BY <1>1, <1>4, <2>3
    <3> QED
      BY <1>2, <1>6, <2>3, <3>1
  <2>4. \/ p \in 1 .. Len(s) /\ r \in 1 .. Len(s)
        \/ p > Len(s)
        \/ p \in 1 .. Len(s) /\ r > Len(s)
    BY <1>1
  <2> QED
    BY <2>1, <2>2, <2>3, <2>4
<1>8. ASSUME NEW v \in Nat
      PROVE  (\E p \in 1 .. Len(u) : u[p] = v) <=> Among(P, lo, hi, v)
  <2>1. (\E p \in 1 .. Len(u) : u[p] = v)
          <=> (\E p \in 1 .. Len(s) : s[p] = v) \/ (\E p \in 1 .. Len(t) : t[p] = v)
    BY <1>2, <1>3, <1>4
  <2>2. Among(P, lo, hi, v) <=> Among(P, lo, m, v) \/ Among(P, m + 1, hi, v)
    BY DEF Among
  <2> QED
    BY <2>1, <2>2 DEF Collects
<1> QED
  BY <1>5, <1>7, <1>8 DEF Collects, u

\* One place, and none.
LEMMA CollectsPlace ==
    ASSUME NEW n \in Nat, NEW P \in Line(n), Ordered(n, P), NEW a \in 1 .. n
    PROVE  Collects(P[a], P, a, a)
<1>1. P[a] \in Seq(Nat)
  BY DEF Line
<1>2. Ascending(P[a])
  BY DEF Ordered, Ahead, Ascending
<1>3. \A b \in a .. a : b = a
  OBVIOUS
<1> QED
  BY <1>1, <1>2, <1>3 DEF Collects, Among

LEMMA CollectsNothing ==
    ASSUME NEW P, NEW a \in Nat
    PROVE  Collects(<<>>, P, a + 1, a)
<1>1. <<>> \in Seq(Nat) /\ Len(<<>>) = 0
  BY EmptySeq
<1>2. a + 1 .. a = {}
  OBVIOUS
<1> QED
  BY <1>1, <1>2 DEF Collects, Ascending, Among

-----------------------------------------------------------------------------
(* The pipeline as such a line.                                            *)

Place == [a \in 1 .. 9 |->
    CASE a = 1 -> InHand("net")  [] a = 2 -> q["net"]
      [] a = 3 -> InHand("venc") [] a = 4 -> q["venc"]
      [] a = 5 -> InHand("npu")  [] a = 6 -> q["npu"]
      [] a = 7 -> InHand("cve")  [] a = 8 -> q["vproc"]
      [] a = 9 -> InHand("get_frm")]

\* The first place whose items have their VPROC frames.
OwnFrom == IF pc["venc"] = "work" THEN 3 ELSE 4

Steps(s) == CASE s = "get_frm" -> {"alloc", "acquire", "check", "push", "exit"}
              [] s = "net"     -> {"pop", "drain", "send", "exit"}
              [] OTHER         -> {"pop", "work", "push", "exit"}

\* Where each thread can be, and that it holds an item exactly there.
StructInv ==
    /\ q \in [Queues -> Seq(Idx)]
    /\ \A k \in Queues : Len(q[k]) <= Depth(k)
    /\ pc \in [Stages -> {"alloc", "acquire", "check", "push", "pop", "work",
                          "drain", "send", "exit"}]
    /\ \A s \in Stages : pc[s] \in Steps(s)
    /\ hold \in [Stages -> Idx \cup {None}]
    /\ \A s \in Stages : HasItem(s) <=> pc[s] \in {"check", "push", "work", "send"}
    /\ run \in [Stages -> BOOLEAN]
    /\ joining \in 0 .. 6
    /\ frame_cnt \in 0 .. MaxFrames
    /\ frames \in [Idx -> Int]
    /\ heap \in [Kinds -> Int]
    /\ lost \in Nat
    /\ client \in {"none", "knocking", "open", "gone"}
    /\ taken \in 0 .. MaxFrames

\* The threads that have been joined are gone.
JoinInv == \A k \in 1 .. 5 : joining > k => pc[StopOrder[k]] = "exit"

\* The line is in order, between what the net thread has seen and the counter.
LineInv ==
    /\ Ordered(9, Place)
    /\ HasItem("get_frm") => hold["get_frm"] = frame_cnt
    /\ \A v \in Nat : Among(Place, 1, 9, v) =>
          v < frame_cnt \/ (HasItem("get_frm") /\ v = frame_cnt)
    /\ taken <= frame_cnt
    /\ \A v \in Nat : Among(Place, 2, 9, v) => taken <= v

\* Exactly the items from OwnFrom on have frames to release.
OwnInv == \A i \in Idx : frames[i] = IF Among(Place, OwnFrom, 9, i) THEN 1 ELSE 0

\* The heap objects before the queues are destroyed: HeapAccounted with nothing
\* leaked.
HeapHeld ==
    /\ heap["pair"] = Len(q["vproc"]) + One(pc["cve"] = "work")
                        + One(pc["get_frm"] \in {"acquire", "check", "push"})
    /\ heap["npu_in"] = Len(q["npu"]) + One(pc["cve"] = "push")
                        + One(pc["npu"] = "work")
    /\ heap["out"] = Len(q["venc"]) + One(pc["npu"] = "push")
                        + One(pc["venc"] = "work")
    /\ heap["disparity"] = heap["out"] + lost
    /\ heap["venc_out"] = Len(q["net"]) + One(pc["venc"] = "push")
                        + One(pc["net"] = "send")

\* The pipeline before stereo_queue_destroy and after it.
Open == HeapHeld /\ LineInv /\ OwnInv /\ leaked = NoItems
Closed == TypeOK /\ FramesOwned /\ InOrder /\ HeapAccounted

IInv ==
    /\ StructInv /\ JoinInv
    /\ joining < 6 => Open
    /\ joining = 6 => Closed

-----------------------------------------------------------------------------
(* Types and places of the threads.                                        *)

LEMMA IdxTyped ==
    /\ MaxFrames \in Nat \ {0}
    /\ Idx \subseteq Nat
    /\ None \notin Idx /\ None \in Nat
    /\ \A i \in Idx : i < MaxFrames
  BY PipelineAssumption DEF Idx, None

LEMMA IdxNext ==
    ASSUME NEW i \in Idx
    PROVE  i \in Nat /\ i + 1 \in 0 .. MaxFrames
  BY PipelineAssumption DEF Idx

LEMMA StopOrderIs ==
    /\ StopOrder[1] = "get_frm" /\ StopOrder[2] = "cve" /\ StopOrder[3] = "npu"
    /\ StopOrder[4] = "venc" /\ StopOrder[5] = "net"
  BY DEF StopOrder

LEMMA InitStruct == Init => StructInv
<1> SUFFICES ASSUME Init PROVE StructInv
  OBVIOUS
<1>1. <<>> \in Seq(Idx) /\ Len(<<>>) = 0
  BY EmptySeq
<1> QED
  BY <1>1, IdxTyped
     DEF Init, NoItems, StructInv, Stages, Queues, Depth, Steps, HasItem, Kinds

LEMMA AllocTyped ==
    ASSUME StructInv, NEW new, NEW freed, Alloc(new, freed)
    PROVE  heap' \in [Kinds -> Int]
  BY DEF StructInv, Alloc

LEMMA QueueHead ==
    ASSUME StructInv, NEW k \in Queues, q[k] # <<>>
    PROVE  /\ Head(q[k]) \in Idx
           /\ Tail(q[k]) \in Seq(Idx)
           /\ Len(q[k]) \in Nat /\ Len(Tail(q[k])) = Len(q[k]) - 1
<1>1. q[k] \in Seq(Idx)
  BY DEF StructInv
<1> QED
  BY <1>1, HeadTailProperties, LenProperties

LEMMA PopStruct ==
    ASSUME StructInv, NEW s \in {"cve", "npu", "venc", "net"}, NEW k \in Queues,
           NEW l, Pop(s, k, l), l = IF s = "net" THEN "send" ELSE "work",
           UNCHANGED <<run, joining, frame_cnt, frames, heap, lost, client>>,
           taken' \in 0 .. MaxFrames
    PROVE  StructInv'
<1>1. Head(q[k]) \in Idx /\ Tail(q[k]) \in Seq(Idx) /\ Len(Tail(q[k])) <= Depth(k)
  BY QueueHead DEF Pop, StructInv, Depth
<1>2. Head(q[k]) # None
  BY <1>1, IdxTyped
<1>3. q' \in [Queues -> Seq(Idx)] /\ \A j \in Queues : Len(q'[j]) <= Depth(j)
  BY <1>1 DEF Pop, StructInv
<1>4. /\ pc' \in [Stages -> {"alloc", "acquire", "check", "push", "pop", "work",
                             "drain", "send", "exit"}]
      /\ \A t \in Stages : pc'[t] = IF t = s THEN l ELSE pc[t]
      /\ \A t \in Stages : pc'[t] \in Steps(t)
  BY DEF Pop, Goto, StructInv, Stages, Steps
<1>5. /\ hold' \in [Stages -> Idx \cup {None}]
      /\ \A t \in Stages : hold'[t] = IF t = s THEN Head(q[k]) ELSE hold[t]
  BY <1>1 DEF Pop, StructInv, Stages
<1>6. \A t \in Stages : HasItem(t)' <=> pc'[t] \in {"check", "push", "work", "send"}
  BY <1>2, <1>4, <1>5 DEF StructInv, HasItem
<1> QED
  BY <1>3, <1>4, <1>5, <1>6 DEF StructInv

LEMMA PushStruct ==
    ASSUME StructInv, NEW s \in {"get_frm", "cve", "npu", "venc"}, NEW k \in Queues,
           NEW l, pc[s] = "push", Push(s, k), Goto(s, l),
           l = IF s = "get_frm" THEN "alloc" ELSE "pop",
           UNCHANGED <<run, joining, frames, heap, lost, client, taken>>,
           frame_cnt' \in 0 .. MaxFrames
    PROVE  StructInv'
<1>1. hold[s] \in Idx
  BY IdxTyped DEF StructInv, Stages, HasItem
<1>2. /\ Append(q[k], hold[s]) \in Seq(Idx)
      /\ Len(Append(q[k], hold[s])) <= Depth(k)
  <2>1. q[k] \in Seq(Idx) /\ Len(q[k]) \in Nat
    BY LenProperties DEF StructInv
  <2> QED
    BY <1>1, <2>1, AppendProperties DEF Push, HasRoom, Depth
<1>3. q' \in [Queues -> Seq(Idx)] /\ \A j \in Queues : Len(q'[j]) <= Depth(j)
  BY <1>2 DEF Push, StructInv
<1>4. /\ pc' \in [Stages -> {"alloc", "acquire", "check", "push", "pop", "work",
                             "drain", "send", "exit"}]
      /\ \A t \in Stages : pc'[t] = IF t = s THEN l ELSE pc[t]
      /\ \A t \in Stages : pc'[t] \in Steps(t)
  BY DEF Goto, StructInv, Stages, Steps
<1>5. /\ hold' \in [Stages -> Idx \cup {None}]
      /\ \A t \in Stages : hold'[t] = IF t = s THEN None ELSE hold[t]
  BY DEF Push, StructInv, Stages
<1>6. \A t \in Stages : HasItem(t)' <=> pc'[t] \in {"check", "push", "work", "send"}
  BY <1>4, <1>5 DEF StructInv, HasItem
<1> QED
  BY <1>3, <1>4, <1>5, <1>6 DEF StructInv

LEMMA DropStruct ==
    ASSUME StructInv, NEW s \in Stages, NEW l, Drop(s), Goto(s, l),
           l \in Steps(s) \ {"check", "push", "work", "send"},
           frames' \in [Idx -> Int], heap' \in [Kinds -> Int], lost' \in Nat,
           client' \in {"none", "knocking", "open", "gone"},
           UNCHANGED <<run, joining, frame_cnt, taken>>
    PROVE  StructInv'
<1>1. /\ pc' \in [Stages -> {"alloc", "acquire", "check", "push", "pop", "work",
                             "drain", "send", "exit"}]
      /\ \A t \in Stages : pc'[t] = IF t = s THEN l ELSE pc[t]
      /\ \A t \in Stages : pc'[t] \in Steps(t)
  BY DEF Goto, StructInv, Stages, Steps
<1>2. /\ hold' \in [Stages -> Idx \cup {None}]
      /\ \A t \in Stages : hold'[t] = IF t = s THEN None ELSE hold[t]
  BY DEF Drop, StructInv, Stages
<1>3. \A t \in Stages : HasItem(t)' <=> pc'[t] \in {"check", "push", "work", "send"}
  BY <1>1, <1>2 DEF StructInv, HasItem
<1> QED
  BY <1>1, <1>2, <1>3 DEF StructInv, Drop

\* A thread goes on with what it holds.
LEMMA StayStruct ==
    ASSUME StructInv, NEW s \in Stages, NEW l \in Steps(s), Goto(s, l),
           l \in {"check", "push", "work", "send"}
              <=> pc[s] \in {"check", "push", "work", "send"},
           frames' \in [Idx -> Int], heap' \in [Kinds -> Int],
           client' \in {"none", "knocking", "open", "gone"},
           UNCHANGED <<q, hold, run, joining, frame_cnt, lost, taken>>
    PROVE  StructInv'
<1>1. /\ pc' \in [Stages -> {"alloc", "acquire", "check", "push", "pop", "work",
                             "drain", "send", "exit"}]
      /\ \A t \in Stages : pc'[t] = IF t = s THEN l ELSE pc[t]
      /\ \A t \in Stages : pc'[t] \in Steps(t)
  BY DEF Goto, StructInv, Stages, Steps
<1>2. \A t \in Stages : HasItem(t)' <=> pc'[t] \in {"check", "push", "work", "send"}
  BY <1>1 DEF StructInv, HasItem
<1> QED
  BY <1>1, <1>2 DEF StructInv

\* Releasing frames only changes their count.
LEMMA ReleaseTyped ==
    ASSUME StructInv, NEW i \in Idx, Release(i)
    PROVE  frames' \in [Idx -> Int]
  BY DEF StructInv, Release

LEMMA HandTyped ==
    ASSUME StructInv, NEW s \in Stages,
           pc[s] \in {"check", "push", "work", "send"}
    PROVE  hold[s] \in Idx /\ HasItem(s)
  BY DEF StructInv, HasItem

LEMMA ExitStruct ==
    ASSUME StructInv, NEW s \in {"cve", "npu", "venc", "net"}, NEW k, Exit(s, k)
    PROVE  StructInv'
<1>1. s \in Stages /\ "exit" \in Steps(s)
  BY DEF Stages, Steps
<1>2. frames' \in [Idx -> Int] /\ heap' \in [Kinds -> Int]
      /\ client' \in {"none", "knocking", "open", "gone"}
  BY DEF Exit, StructInv
<1> QED
  BY <1>1, <1>2, StayStruct DEF Exit

LEMMA GetFrmStruct == StructInv /\ LineInv /\ GetFrm => StructInv'
<1> SUFFICES ASSUME StructInv, LineInv, GetFrm PROVE StructInv'
  OBVIOUS
<1>0. /\ "get_frm" \in Stages /\ Steps("get_frm") = {"alloc", "acquire", "check", "push", "exit"}
      /\ heap \in [Kinds -> Int] /\ frames \in [Idx -> Int] /\ lost \in Nat
      /\ client \in {"none", "knocking", "open", "gone"}
  BY DEF Stages, Steps, StructInv
<1>1. CASE GetFrmAlloc
  BY <1>0, <1>1, StayStruct, AllocTyped DEF GetFrmAlloc
<1>2. CASE GetFrmExit
  BY <1>0, <1>2, StayStruct DEF GetFrmExit
<1>3. CASE GetFrmNoFrame
  BY <1>0, <1>3, StayStruct, AllocTyped DEF GetFrmNoFrame
<1>4. CASE GetFrmAcquire
  <2>1. frame_cnt \in Idx /\ frame_cnt # None
    BY <1>4, IdxTyped DEF GetFrmAcquire, StructInv, Idx, None
  <2>2. /\ pc' \in [Stages -> {"alloc", "acquire", "check", "push", "pop", "work",
                               "drain", "send", "exit"}]
        /\ \A t \in Stages : pc'[t] = IF t = "get_frm" THEN "check" ELSE pc[t]
        /\ \A t \in Stages : pc'[t] \in Steps(t)
    BY <1>0, <1>4 DEF GetFrmAcquire, Goto, StructInv
  <2>3. /\ hold' \in [Stages -> Idx \cup {None}]
        /\ \A t \in Stages : hold'[t] = IF t = "get_frm" THEN frame_cnt ELSE hold[t]
        /\ frames' \in [Idx -> Int]
    BY <1>0, <1>4, <2>1 DEF GetFrmAcquire, StructInv
  <2>4. \A t \in Stages : HasItem(t)' <=> pc'[t] \in {"check", "push", "work", "send"}
    BY <2>1, <2>2, <2>3 DEF StructInv, HasItem
  <2> QED
    BY <1>4, <2>2, <2>3, <2>4 DEF StructInv, GetFrmAcquire
<1>5. CASE GetFrmCheck
  <2>1. CASE run["get_frm"]
    BY <1>0, <1>5, <2>1, StayStruct DEF GetFrmCheck
  <2>2. CASE ~run["get_frm"]
    <3>1. frames' \in [Idx -> Int] /\ heap' \in [Kinds -> Int]
      BY <1>0, <1>5, <2>2, HandTyped, ReleaseTyped, AllocTyped DEF GetFrmCheck
    <3> QED
      BY <1>0, <1>5, <2>2, <3>1, DropStruct DEF GetFrmCheck
  <2> QED
    BY <2>1, <2>2
<1>6. CASE GetFrmPush
  <2>1. hold["get_frm"] \in Idx /\ hold["get_frm"] = frame_cnt
    BY <1>0, <1>6, HandTyped DEF GetFrmPush, LineInv
  <2>2. frame_cnt' \in 0 .. MaxFrames
    BY <1>6, <2>1, IdxTyped DEF GetFrmPush, StructInv
  <2>3. "vproc" \in Queues
    BY DEF Queues
  <2> QED
    BY <1>6, <2>2, <2>3, PushStruct DEF GetFrmPush
<1>7. CASE GetFrmDrop
  <2>1. frames' \in [Idx -> Int] /\ heap' \in [Kinds -> Int]
    BY <1>0, <1>7, HandTyped, ReleaseTyped, AllocTyped DEF GetFrmDrop
  <2> QED
    BY <1>0, <1>7, <2>1, DropStruct DEF GetFrmDrop
<1> QED
  BY <1>1, <1>2, <1>3, <1>4, <1>5, <1>6, <1>7 DEF GetFrm

LEMMA CveStruct == StructInv /\ Cve => StructInv'
<1> SUFFICES ASSUME StructInv, Cve PROVE StructInv'
  OBVIOUS
<1>0. /\ "cve" \in Stages /\ Steps("cve") = {"pop", "work", "push", "exit"}
      /\ "vproc" \in Queues /\ "npu" \in Queues
      /\ heap \in [Kinds -> Int] /\ frames \in [Idx -> Int] /\ lost \in Nat
      /\ client \in {"none", "knocking", "open", "gone"}
      /\ frame_cnt \in 0 .. MaxFrames /\ taken \in 0 .. MaxFrames
  BY DEF Stages, Steps, Queues, StructInv
<1>1. CASE CvePop
  BY <1>0, <1>1, PopStruct DEF CvePop
<1>2. CASE PopTimeout("cve", "vproc")
  BY <1>2 DEF PopTimeout, vars, StructInv, HasItem
<1>3. CASE Exit("cve", "vproc")
  BY <1>3, ExitStruct
<1>4. CASE CveProcess
  BY <1>0, <1>4, StayStruct, AllocTyped DEF CveProcess
<1>5. CASE CveFail
  <2>1. frames' \in [Idx -> Int] /\ heap' \in [Kinds -> Int]
    BY <1>0, <1>5, HandTyped, ReleaseTyped, AllocTyped DEF CveFail
  <2> QED
    BY <1>0, <1>5, <2>1, DropStruct DEF CveFail
<1>6. CASE CvePush
  BY <1>0, <1>6, PushStruct DEF CvePush
<1>7. CASE CveDrop
  <2>1. frames' \in [Idx -> Int] /\ heap' \in [Kinds -> Int]
    BY <1>0, <1>7, HandTyped, ReleaseTyped, AllocTyped DEF CveDrop
  <2> QED
    BY <1>0, <1>7, <2>1, DropStruct DEF CveDrop
<1> QED
  BY <1>1, <1>2, <1>3, <1>4, <1>5, <1>6, <1>7 DEF Cve

LEMMA NpuStruct == StructInv /\ Npu => StructInv'
<1> SUFFICES ASSUME StructInv, Npu PROVE StructInv'
  OBVIOUS
<1>0. /\ "npu" \in Stages /\ Steps("npu") = {"pop", "work", "push", "exit"}
      /\ "npu" \in Queues /\ "venc" \in Queues
      /\ heap \in [Kinds -> Int] /\ frames \in [Idx -> Int] /\ lost \in Nat
      /\ client \in {"none", "knocking", "open", "gone"}
      /\ frame_cnt \in 0 .. MaxFrames /\ taken \in 0 .. MaxFrames
  BY DEF Stages, Steps, Queues, StructInv
<1>1. CASE NpuPop
  BY <1>0, <1>1, PopStruct DEF NpuPop
<1>2. CASE PopTimeout("npu", "npu")
  BY <1>2 DEF PopTimeout, vars, StructInv, HasItem
<1>3. CASE Exit("npu", "npu")
  BY <1>3, ExitStruct
<1>4. CASE NpuInfer
  BY <1>0, <1>4, StayStruct, AllocTyped DEF NpuInfer
<1>5. CASE NpuFail
  <2>1. frames' \in [Idx -> Int] /\ heap' \in [Kinds -> Int]
    BY <1>0, <1>5, HandTyped, ReleaseTyped, AllocTyped DEF NpuFail
  <2> QED
    BY <1>0, <1>5, <2>1, DropStruct DEF NpuFail
<1>6. CASE NpuPush
  BY <1>0, <1>6, PushStruct DEF NpuPush
<1>7. CASE NpuDrop
  <2>1. frames' \in [Idx -> Int] /\ heap' \in [Kinds -> Int]
    BY <1>0, <1>7, HandTyped, ReleaseTyped, AllocTyped DEF NpuDrop
  <2> QED
    BY <1>0, <1>7, <2>1, DropStruct DEF NpuDrop
<1> QED
  BY <1>1, <1>2, <1>3, <1>4, <1>5, <1>6, <1>7 DEF Npu

LEMMA VencStruct == StructInv /\ Venc => StructInv'
<1> SUFFICES ASSUME StructInv, Venc PROVE StructInv'
  OBVIOUS
<1>0. /\ "venc" \in Stages /\ Steps("venc") = {"pop", "work", "push", "exit"}
      /\ "venc" \in Queues /\ "net" \in Queues
      /\ heap \in [Kinds -> Int] /\ frames \in [Idx -> Int] /\ lost \in Nat /\ lost + 1 \in Nat
      /\ client \in {"none", "knocking", "open", "gone"}
      /\ frame_cnt \in 0 .. MaxFrames /\ taken \in 0 .. MaxFrames
  BY DEF Stages, Steps, Queues, StructInv
<1>1. CASE VencPop
  BY <1>0, <1>1, PopStruct DEF VencPop
<1>2. CASE PopTimeout("venc", "venc")
  BY <1>2 DEF PopTimeout, vars, StructInv, HasItem
<1>3. CASE Exit("venc", "venc")
  BY <1>3, ExitStruct
<1>4. CASE VencNoMemory
  <2>1. frames' \in [Idx -> Int] /\ heap' \in [Kinds -> Int]
    BY <1>0, <1>4, HandTyped, ReleaseTyped, AllocTyped DEF VencNoMemory
  <2> QED
    BY <1>0, <1>4, <2>1, DropStruct DEF VencNoMemory
<1>5. CASE VencEncode
  <2>1. frames' \in [Idx -> Int] /\ heap' \in [Kinds -> Int]
    BY <1>0, <1>5, HandTyped, ReleaseTyped, AllocTyped DEF VencEncode
  <2> QED
    BY <1>0, <1>5, <2>1, StayStruct DEF VencEncode
<1>6. CASE VencFail
  <2>1. frames' \in [Idx -> Int] /\ heap' \in [Kinds -> Int]
    BY <1>0, <1>6, HandTyped, ReleaseTyped, AllocTyped DEF VencFail
  <2> QED
    BY <1>0, <1>6, <2>1, DropStruct DEF VencFail
<1>7. CASE VencPush
  BY <1>0, <1>7, PushStruct DEF VencPush
<1>8. CASE VencDrop
  BY <1>0, <1>8, AllocTyped, DropStruct DEF VencDrop
<1> QED
  BY <1>1, <1>2, <1>3, <1>4, <1>5, <1>6, <1>7, <1>8 DEF Venc

LEMMA NetStruct == StructInv /\ Net => StructInv'
<1> SUFFICES ASSUME StructInv, Net PROVE StructInv'
  OBVIOUS
<1>0. /\ "net" \in Stages /\ Steps("net") = {"pop", "drain", "send", "exit"}
      /\ "net" \in Queues
      /\ heap \in [Kinds -> Int] /\ frames \in [Idx -> Int] /\ lost \in Nat
      /\ client \in {"none", "knocking", "open", "gone"}
  BY DEF Stages, Steps, Queues, StructInv
<1>1. CASE NetIdle
  <2>1. client' \in {"none", "knocking", "open", "gone"}
    BY <1>0, <1>1 DEF NetIdle
  <2> QED
    BY <1>0, <1>1, <2>1, StayStruct DEF NetIdle
<1>2. CASE NetDrain
  <2>1. /\ Head(q["net"]) \in Idx /\ Tail(q["net"]) \in Seq(Idx)
        /\ Len(Tail(q["net"])) <= Depth("net")
    <3>1. Len(q["net"]) \in Nat /\ Len(q["net"]) <= Depth("net") /\ q["net"] # <<>>
      BY <1>0, <1>2, QueueHead DEF NetDrain, StructInv
    <3>2. /\ Head(q["net"]) \in Idx /\ Tail(q["net"]) \in Seq(Idx)
          /\ Len(Tail(q["net"])) = Len(q["net"]) - 1
      BY <1>0, <3>1, QueueHead
    <3> QED
      BY <3>1, <3>2 DEF Depth
  <2>2. q' \in [Queues -> Seq(Idx)] /\ \A j \in Queues : Len(q'[j]) <= Depth(j)
    BY <1>2, <2>1 DEF NetDrain, StructInv
  <2>3. taken' \in 0 .. MaxFrames /\ heap' \in [Kinds -> Int]
    BY <1>2, <2>1, IdxNext, AllocTyped DEF NetDrain
  <2> QED
    BY <1>2, <2>2, <2>3 DEF NetDrain, StructInv, HasItem
<1>3. CASE NetDrained
  BY <1>0, <1>3, StayStruct DEF NetDrained
<1>4. CASE NetPop
  <2>1. Head(q["net"]) \in Idx
    BY <1>0, <1>4, QueueHead DEF NetPop, Pop
  <2>2. taken' \in 0 .. MaxFrames
    BY <1>4, <2>1, IdxNext DEF NetPop
  <2> QED
    BY <1>0, <1>4, <2>2, PopStruct DEF NetPop
<1>5. CASE NetSend
  <2>1. client' \in {"none", "knocking", "open", "gone"} /\ heap' \in [Kinds -> Int]
    BY <1>0, <1>5, AllocTyped DEF NetSend
  <2> QED
    BY <1>0, <1>5, <2>1, DropStruct DEF NetSend
<1>6. CASE Connected /\ PopTimeout("net", "net")
  BY <1>6 DEF PopTimeout, vars, StructInv, HasItem
<1>7. CASE Exit("net", "net")
  BY <1>7, ExitStruct
<1> QED
  BY <1>1, <1>2, <1>3, <1>4, <1>5, <1>6, <1>7 DEF Net

LEMMA NextStruct == StructInv /\ LineInv /\ [Next]_vars => StructInv'
<1> SUFFICES ASSUME StructInv, LineInv, [Next]_vars PROVE StructInv'
  OBVIOUS
<1>1. CASE ClientKnocks \/ ClientGoes
  BY <1>1 DEF ClientKnocks, ClientGoes, StructInv, HasItem
<1>2. CASE Shutdown
  <2>1. run' \in [Stages -> BOOLEAN]
    BY <1>2 DEF Shutdown, StructInv
  <2> QED
    BY <1>2, <2>1 DEF Shutdown, StructInv, HasItem
<1>3. CASE Join
  <2>1. run' \in [Stages -> BOOLEAN]
    BY <1>3 DEF Join, StructInv
  <2>2. joining' \in 0 .. 6
    BY <1>3 DEF Join, StructInv
  <2>3. q' \in [Queues -> Seq(Idx)] /\ \A k \in Queues : Len(q'[k]) <= Depth(k)
    <3>1. CASE joining = 5
      <4>1. <<>> \in Seq(Idx) /\ Len(<<>>) = 0
        BY EmptySeq
      <4>2. q' = [k \in Queues |-> <<>>]
        BY <1>3, <3>1 DEF Join, NoItems
      <4> QED
        BY <4>1, <4>2 DEF Depth
    <3>2. CASE joining # 5
      BY <1>3, <3>2 DEF Join, StructInv
    <3> QED
      BY <3>1, <3>2
  <2> QED
    BY <1>3, <2>1, <2>2, <2>3 DEF Join, StructInv, HasItem
<1>4. CASE Finished \/ UNCHANGED vars
  BY <1>4 DEF Finished, vars, StructInv, HasItem
<1> QED
  BY <1>1, <1>2, <1>3, <1>4, GetFrmStruct, CveStruct, NpuStruct, VencStruct, NetStruct
     DEF Next

-----------------------------------------------------------------------------
(* The heap.                                                               *)

LEMMA AllocCounts ==
    ASSUME StructInv, NEW new, NEW freed, Alloc(new, freed), new \cap freed = {}
    PROVE  /\ \A k \in Kinds : heap[k] \in Int
           /\ \A k \in Kinds : k \in new => heap'[k] = heap[k] + 1
           /\ \A k \in Kinds : k \in freed => heap'[k] = heap[k] - 1
           /\ \A k \in Kinds : k \notin new \cup freed => heap'[k] = heap[k]
  BY DEF StructInv, Alloc

\* The lengths of the queues and the counts are integers.
LEMMA CountsTyped ==
    ASSUME StructInv
    PROVE  /\ Len(q["vproc"]) \in Int /\ Len(q["npu"]) \in Int
           /\ Len(q["venc"]) \in Int /\ Len(q["net"]) \in Int
           /\ heap["pair"] \in Int /\ heap["npu_in"] \in Int /\ heap["out"] \in Int
           /\ heap["disparity"] \in Int /\ heap["venc_out"] \in Int
           /\ lost \in Int
<1>1. \A k \in Queues : q[k] \in Seq(Idx)
  BY DEF StructInv
<1>2. \A k \in Queues : Len(q[k]) \in Nat
  BY <1>1, LenProperties
<1> QED
  BY <1>2 DEF StructInv, Queues, Kinds

LEMMA GotoStep ==
    ASSUME StructInv, NEW s \in Stages, NEW l, Goto(s, l)
    PROVE  pc'[s] = l /\ \A t \in Stages : t # s => pc'[t] = pc[t]
  BY DEF StructInv, Goto

LEMMA PopLens ==
    ASSUME StructInv, NEW s, NEW k \in Queues, NEW l, Pop(s, k, l)
    PROVE  /\ Len(q'[k]) = Len(q[k]) - 1
           /\ \A j \in Queues : j # k => q'[j] = q[j]
  BY QueueHead DEF StructInv, Pop

LEMMA PushLens ==
    ASSUME StructInv, NEW s \in Stages, NEW k \in Queues, Push(s, k),
           hold[s] \in Idx
    PROVE  /\ Len(q'[k]) = Len(q[k]) + 1
           /\ \A j \in Queues : j # k => q'[j] = q[j]
<1>1. q[k] \in Seq(Idx)
  BY DEF StructInv
<1>2. Len(Append(q[k], hold[s])) = Len(q[k]) + 1
  BY <1>1, AppendProperties
<1> QED
  BY <1>2 DEF StructInv, Push

LEMMA InitHeap == Init => HeapHeld
<1> SUFFICES ASSUME Init PROVE HeapHeld
  OBVIOUS
<1>1. Len(<<>>) = 0
  OBVIOUS
<1> QED
  BY <1>1 DEF Init, NoItems, HeapHeld, One, Kinds, Queues, Stages

LEMMA ExitHeap ==
    ASSUME StructInv, HeapHeld,
           NEW s \in {"cve", "npu", "venc", "net"}, NEW k, Exit(s, k)
    PROVE  HeapHeld'
<1>1. pc'[s] = "exit" /\ \A t \in Stages : t # s => pc'[t] = pc[t]
  BY GotoStep DEF Exit, Stages
<1>2. pc[s] = "pop"
  BY DEF Exit
<1> QED
  BY <1>1, <1>2 DEF Exit, HeapHeld, One, Stages

\* What the threads have in hand, as numbers.
Works(s)  == One(pc[s] = "work")
Pushes(s) == One(pc[s] = "push")
Filling   == One(pc["get_frm"] \in {"acquire", "check", "push"})
Sending   == One(pc["net"] = "send")

\* The five equations of HeapHeld.
PairCount      == heap["pair"] = Len(q["vproc"]) + Works("cve") + Filling
NpuInCount     == heap["npu_in"] = Len(q["npu"]) + Pushes("cve") + Works("npu")
OutCount       == heap["out"] = Len(q["venc"]) + Pushes("npu") + Works("venc")
DisparityCount == heap["disparity"] = heap["out"] + lost
VencOutCount   == heap["venc_out"] = Len(q["net"]) + Pushes("venc") + Sending

LEMMA CountsHold ==
    ASSUME StructInv, HeapHeld
    PROVE  /\ PairCount /\ NpuInCount /\ OutCount /\ DisparityCount /\ VencOutCount
           /\ Works("cve") \in Int /\ Works("npu") \in Int /\ Works("venc") \in Int
           /\ Pushes("cve") \in Int /\ Pushes("npu") \in Int /\ Pushes("venc") \in Int
           /\ Filling \in Int /\ Sending \in Int
           /\ Len(q["vproc"]) \in Int /\ Len(q["npu"]) \in Int
           /\ Len(q["venc"]) \in Int /\ Len(q["net"]) \in Int
           /\ heap["out"] \in Int /\ lost \in Int
<1>1. PairCount /\ NpuInCount /\ OutCount /\ DisparityCount /\ VencOutCount
  BY DEF HeapHeld, PairCount, NpuInCount, OutCount, DisparityCount,
         VencOutCount, Works, Pushes, Filling, Sending
<1>2. /\ Works("cve") \in Int /\ Works("npu") \in Int /\ Works("venc") \in Int
      /\ Pushes("cve") \in Int /\ Pushes("npu") \in Int /\ Pushes("venc") \in Int
      /\ Filling \in Int /\ Sending \in Int
  BY DEF Works, Pushes, Filling, Sending, One
<1> QED
  BY <1>1, <1>2, CountsTyped

LEMMA HeapNext ==
    ASSUME PairCount', NpuInCount', OutCount', DisparityCount', VencOutCount'
    PROVE  HeapHeld'
  BY DEF HeapHeld, PairCount, NpuInCount, OutCount, DisparityCount,
         VencOutCount, Works, Pushes, Filling, Sending

LEMMA GetFrmHeap == StructInv /\ HeapHeld /\ GetFrm => HeapHeld'
<1> SUFFICES ASSUME StructInv, HeapHeld, GetFrm PROVE HeapHeld'
  OBVIOUS
<1>1. CASE GetFrmAlloc
  <2>1. /\ heap'["pair"] = heap["pair"] + 1
        /\ Works("cve")' = Works("cve") /\ Filling = 0
        /\ Filling' = 1 /\ Len(q["vproc"])' = Len(q["vproc"])
    BY <1>1, AllocCounts, GotoStep DEF GetFrmAlloc, Drop, Filling, Works, One, Kinds, Queues, Stages
  <2>2. PairCount'
    BY <2>1, CountsHold, SMTT(30) DEF PairCount
  <2>3. UNCHANGED <<heap["npu_in"], q["npu"], Pushes("cve"), Works("npu"),
                    heap["out"], q["venc"], Pushes("npu"), Works("venc"),
                    heap["disparity"], lost, heap["venc_out"], q["net"],
                    Pushes("venc"), Sending>>
    BY <1>1, AllocCounts, GotoStep
       DEF GetFrmAlloc, Drop, Pushes, Sending, Works, One, Kinds, Queues, Stages
  <2>4. NpuInCount' /\ OutCount' /\ DisparityCount' /\ VencOutCount'
    BY <2>3, CountsHold DEF NpuInCount, OutCount, DisparityCount, VencOutCount
  <2> QED
    BY <2>2, <2>4, HeapNext
<1>2. CASE GetFrmExit
  <2>1. UNCHANGED <<heap["pair"], q["vproc"], Works("cve"), Filling,
                    heap["npu_in"], q["npu"], Pushes("cve"), Works("npu"),
                    heap["out"], q["venc"], Pushes("npu"), Works("venc"),
                    heap["disparity"], lost, heap["venc_out"], q["net"],
                    Pushes("venc"), Sending>>
    BY <1>2, GotoStep
       DEF GetFrmExit, Drop, Filling, Pushes, Sending, Works, One, Kinds, Queues, Stages
  <2>2. PairCount' /\ NpuInCount' /\ OutCount' /\ DisparityCount' /\ VencOutCount'
    BY <2>1, CountsHold DEF PairCount, NpuInCount, OutCount, DisparityCount, VencOutCount
  <2> QED
    BY <2>2, HeapNext
<1>3. CASE GetFrmAcquire
  <2>1. UNCHANGED <<heap["pair"], q["vproc"], Works("cve"), Filling,
                    heap["npu_in"], q["npu"], Pushes("cve"), Works("npu"),
                    heap["out"], q["venc"], Pushes("npu"), Works("venc"),
                    heap["disparity"], lost, heap["venc_out"], q["net"],
                    Pushes("venc"), Sending>>
    BY <1>3, GotoStep
       DEF GetFrmAcquire, Drop, Filling, Pushes, Sending, Works, One, Kinds, Queues, Stages
  <2>2. PairCount' /\ NpuInCount' /\ OutCount' /\ DisparityCount' /\ VencOutCount'
    BY <2>1, CountsHold DEF PairCount, NpuInCount, OutCount, DisparityCount, VencOutCount
  <2> QED
    BY <2>2, HeapNext
<1>4. CASE GetFrmNoFrame
  <2>1. /\ heap'["pair"] = heap["pair"] - 1
        /\ Works("cve")' = Works("cve") /\ Filling = 1
        /\ Filling' = 0 /\ Len(q["vproc"])' = Len(q["vproc"])
    BY <1>4, AllocCounts, GotoStep DEF GetFrmNoFrame, Drop, Filling, Works, One, Kinds, Queues, Stages
  <2>2. PairCount'
    BY <2>1, CountsHold, SMTT(30) DEF PairCount
  <2>3. UNCHANGED <<heap["npu_in"], q["npu"], Pushes("cve"), Works("npu"),
                    heap["out"], q["venc"], Pushes("npu"), Works("venc"),
                    heap["disparity"], lost, heap["venc_out"], q["net"],
                    Pushes("venc"), Sending>>
    BY <1>4, AllocCounts, GotoStep
       DEF GetFrmNoFrame, Drop, Pushes, Sending, Works, One, Kinds, Queues, Stages
  <2>4. NpuInCount' /\ OutCount' /\ DisparityCount' /\ VencOutCount'
    BY <2>3, CountsHold DEF NpuInCount, OutCount, DisparityCount, VencOutCount
  <2> QED
    BY <2>2, <2>4, HeapNext
<1>5. CASE GetFrmCheck /\ run["get_frm"]
  <2>1. UNCHANGED <<heap["pair"], q["vproc"], Works("cve"), Filling,
                    heap["npu_in"], q["npu"], Pushes("cve"), Works("npu"),
                    heap["out"], q["venc"], Pushes("npu"), Works("venc"),
                    heap["disparity"], lost, heap["venc_out"], q["net"],
                    Pushes("venc"), Sending>>
    BY <1>5, GotoStep
       DEF GetFrmCheck, Drop, Filling, Pushes, Sending, Works, One, Kinds, Queues, Stages
  <2>2. PairCount' /\ NpuInCount' /\ OutCount' /\ DisparityCount' /\ VencOutCount'
    BY <2>1, CountsHold DEF PairCount, NpuInCount, OutCount, DisparityCount, VencOutCount
  <2> QED
    BY <2>2, HeapNext
<1>6. CASE GetFrmCheck /\ ~run["get_frm"]
  <2>1. /\ heap'["pair"] = heap["pair"] - 1
        /\ Works("cve")' = Works("cve") /\ Filling = 1
        /\ Filling' = 0 /\ Len(q["vproc"])' = Len(q["vproc"])
    BY <1>6, AllocCounts, GotoStep DEF GetFrmCheck, Drop, Filling, Works, One, Kinds, Queues, Stages
  <2>2. PairCount'
    BY <2>1, CountsHold, SMTT(30) DEF PairCount
  <2>3. UNCHANGED <<heap["npu_in"], q["npu"], Pushes("cve"), Works("npu"),
                    heap["out"], q["venc"], Pushes("npu"), Works("venc"),
                    heap["disparity"], lost, heap["venc_out"], q["net"],
                    Pushes("venc"), Sending>>
    BY <1>6, AllocCounts, GotoStep
       DEF GetFrmCheck, Drop, Pushes, Sending, Works, One, Kinds, Queues, Stages
  <2>4. NpuInCount' /\ OutCount' /\ DisparityCount' /\ VencOutCount'
    BY <2>3, CountsHold DEF NpuInCount, OutCount, DisparityCount, VencOutCount
  <2> QED
    BY <2>2, <2>4, HeapNext
<1>7. CASE GetFrmPush
  <2>1. /\ heap'["pair"] = heap["pair"]
        /\ Works("cve")' = Works("cve") /\ Filling = 1
        /\ Filling' = 0 /\ Len(q["vproc"])' = Len(q["vproc"]) + 1
    BY <1>7, GotoStep, PushLens, HandTyped DEF GetFrmPush, Filling, Works, One, Kinds, Queues, Stages
  <2>2. PairCount'
    BY <2>1, CountsHold, SMTT(30) DEF PairCount
  <2>3. UNCHANGED <<heap["npu_in"], q["npu"], Pushes("cve"), Works("npu"),
                    heap["out"], q["venc"], Pushes("npu"), Works("venc"),
                    heap["disparity"], lost, heap["venc_out"], q["net"],
                    Pushes("venc"), Sending>>
    BY <1>7, GotoStep, PushLens, HandTyped
       DEF GetFrmPush, Pushes, Sending, Works, One, Kinds, Queues, Stages
  <2>4. NpuInCount' /\ OutCount' /\ DisparityCount' /\ VencOutCount'
    BY <2>3, CountsHold DEF NpuInCount, OutCount, DisparityCount, VencOutCount
  <2> QED
    BY <2>2, <2>4, HeapNext
<1>8. CASE GetFrmDrop
  <2>1. /\ heap'["pair"] = heap["pair"] - 1
        /\ Works("cve")' = Works("cve") /\ Filling = 1
        /\ Filling' = 0 /\ Len(q["vproc"])' = Len(q["vproc"])
    BY <1>8, AllocCounts, GotoStep DEF GetFrmDrop, Drop, Filling, Works, One, Kinds, Queues, Stages
  <2>2. PairCount'
    BY <2>1, CountsHold, SMTT(30) DEF PairCount
  <2>3. UNCHANGED <<heap["npu_in"], q["npu"], Pushes("cve"), Works("npu"),
                    heap["out"], q["venc"], Pushes("npu"), Works("venc"),
                    heap["disparity"], lost, heap["venc_out"], q["net"],
                    Pushes("venc"), Sending>>
    BY <1>8, AllocCounts, GotoStep
       DEF GetFrmDrop, Drop, Pushes, Sending, Works, One, Kinds, Queues, Stages
  <2>4. NpuInCount' /\ OutCount' /\ DisparityCount' /\ VencOutCount'
    BY <2>3, CountsHold DEF NpuInCount, OutCount, DisparityCount, VencOutCount
  <2> QED
    BY <2>2, <2>4, HeapNext
<1> QED
  BY <1>1, <1>2, <1>3, <1>4, <1>5, <1>6, <1>7, <1>8 DEF GetFrm

LEMMA CveHeap == StructInv /\ HeapHeld /\ Cve => HeapHeld'
<1> SUFFICES ASSUME StructInv, HeapHeld, Cve PROVE HeapHeld'
  OBVIOUS
<1>1. CASE CvePop
  <2>1. /\ heap'["pair"] = heap["pair"] /\ Works("cve") = 0
        /\ Works("cve")' = 1 /\ Filling' = Filling
        /\ Len(q["vproc"])' = Len(q["vproc"]) - 1
    BY <1>1, GotoStep, PopLens DEF CvePop, Pop, Filling, Works, One, Kinds, Queues, Stages
  <2>2. PairCount'
    BY <2>1, CountsHold, SMTT(30) DEF PairCount
  <2>3. UNCHANGED <<heap["npu_in"], q["npu"], Pushes("cve"), Works("npu"),
                    heap["out"], q["venc"], Pushes("npu"), Works("venc"),
                    heap["disparity"], lost, heap["venc_out"], q["net"],
                    Pushes("venc"), Sending>>
    BY <1>1, GotoStep, PopLens
       DEF CvePop, Pop, Pushes, Sending, Works, One, Kinds, Queues, Stages
  <2>4. NpuInCount' /\ OutCount' /\ DisparityCount' /\ VencOutCount'
    BY <2>3, CountsHold DEF NpuInCount, OutCount, DisparityCount, VencOutCount
  <2> QED
    BY <2>2, <2>4, HeapNext
<1>2. CASE PopTimeout("cve", "vproc")
  BY <1>2 DEF PopTimeout, vars, HeapHeld
<1>3. CASE Exit("cve", "vproc")
  BY <1>3, ExitHeap
<1>4. CASE CveProcess
  <2>1. /\ heap'["pair"] = heap["pair"] - 1 /\ Works("cve") = 1
        /\ Works("cve")' = 0 /\ Filling' = Filling
        /\ Len(q["vproc"])' = Len(q["vproc"])
    BY <1>4, AllocCounts, GotoStep DEF CveProcess, Drop, Filling, Works, One, Kinds, Queues, Stages
  <2>2. PairCount'
    BY <2>1, CountsHold, SMTT(30) DEF PairCount
  <2>3. /\ heap'["npu_in"] = heap["npu_in"] + 1 /\ Pushes("cve") = 0
        /\ Pushes("cve")' = 1 /\ Works("npu")' = Works("npu")
        /\ Len(q["npu"])' = Len(q["npu"])
    BY <1>4, AllocCounts, GotoStep DEF CveProcess, Drop, Pushes, Works, One, Kinds, Queues, Stages
  <2>4. NpuInCount'
    BY <2>3, CountsHold, SMTT(30) DEF NpuInCount
  <2>5. UNCHANGED <<heap["out"], q["venc"], Pushes("npu"), Works("venc"),
                    heap["disparity"], lost, heap["venc_out"], q["net"],
                    Pushes("venc"), Sending>>
    BY <1>4, AllocCounts, GotoStep
       DEF CveProcess, Drop, Pushes, Sending, Works, One, Kinds, Queues, Stages
  <2>6. OutCount' /\ DisparityCount' /\ VencOutCount'
    BY <2>5, CountsHold DEF OutCount, DisparityCount, VencOutCount
  <2> QED
    BY <2>2, <2>4, <2>6, HeapNext
<1>5. CASE CveFail
  <2>1. /\ heap'["pair"] = heap["pair"] - 1 /\ Works("cve") = 1
        /\ Works("cve")' = 0 /\ Filling' = Filling
        /\ Len(q["vproc"])' = Len(q["vproc"])
    BY <1>5, AllocCounts, GotoStep DEF CveFail, Drop, Filling, Works, One, Kinds, Queues, Stages
  <2>2. PairCount'
    BY <2>1, CountsHold, SMTT(30) DEF PairCount
  <2>3. UNCHANGED <<heap["npu_in"], q["npu"], Pushes("cve"), Works("npu"),
                    heap["out"], q["venc"], Pushes("npu"), Works("venc"),
                    heap["disparity"], lost, heap["venc_out"], q["net"],
                    Pushes("venc"), Sending>>
    BY <1>5, AllocCounts, GotoStep
       DEF CveFail, Drop, Pushes, Sending, Works, One, Kinds, Queues, Stages
  <2>4. NpuInCount' /\ OutCount' /\ DisparityCount' /\ VencOutCount'
    BY <2>3, CountsHold DEF NpuInCount, OutCount, DisparityCount, VencOutCount
  <2> QED
    BY <2>2, <2>4, HeapNext
<1>6. CASE CvePush
  <2>1. /\ heap'["npu_in"] = heap["npu_in"] /\ Pushes("cve") = 1
        /\ Pushes("cve")' = 0 /\ Works("npu")' = Works("npu")
        /\ Len(q["npu"])' = Len(q["npu"]) + 1
    BY <1>6, GotoStep, PushLens, HandTyped DEF CvePush, Pushes, Works, One, Kinds, Queues, Stages
  <2>2. NpuInCount'
    BY <2>1, CountsHold, SMTT(30) DEF NpuInCount
  <2>3. UNCHANGED <<heap["pair"], q["vproc"], Works("cve"), Filling,
                    heap["out"], q["venc"], Pushes("npu"), Works("venc"),
                    heap["disparity"], lost, heap["venc_out"], q["net"],
                    Pushes("venc"), Sending>>
    BY <1>6, GotoStep, PushLens, HandTyped
       DEF CvePush, Filling, Pushes, Sending, Works, One, Kinds, Queues, Stages
  <2>4. PairCount' /\ OutCount' /\ DisparityCount' /\ VencOutCount'
    BY <2>3, CountsHold DEF PairCount, OutCount, DisparityCount, VencOutCount
  <2> QED
    BY <2>2, <2>4, HeapNext
<1>7. CASE CveDrop
  <2>1. /\ heap'["npu_in"] = heap["npu_in"] - 1 /\ Pushes("cve") = 1
        /\ Pushes("cve")' = 0 /\ Works("npu")' = Works("npu")
        /\ Len(q["npu"])' = Len(q["npu"])
    BY <1>7, AllocCounts, GotoStep DEF CveDrop, Drop, Pushes, Works, One, Kinds, Queues, Stages
  <2>2. NpuInCount'
    BY <2>1, CountsHold, SMTT(30) DEF NpuInCount
  <2>3. UNCHANGED <<heap["pair"], q["vproc"], Works("cve"), Filling,
                    heap["out"], q["venc"], Pushes("npu"), Works("venc"),
                    heap["disparity"], lost, heap["venc_out"], q["net"],
                    Pushes("venc"), Sending>>
    BY <1>7, AllocCounts, GotoStep
       DEF CveDrop, Drop, Filling, Pushes, Sending, Works, One, Kinds, Queues, Stages
  <2>4. PairCount' /\ OutCount' /\ DisparityCount' /\ VencOutCount'
    BY <2>3, CountsHold DEF PairCount, OutCount, DisparityCount, VencOutCount
  <2> QED
    BY <2>2, <2>4, HeapNext
<1> QED
  BY <1>1, <1>2, <1>3, <1>4, <1>5, <1>6, <1>7 DEF Cve

LEMMA NpuHeap == StructInv /\ HeapHeld /\ Npu => HeapHeld'
<1> SUFFICES ASSUME StructInv, HeapHeld, Npu PROVE HeapHeld'
  OBVIOUS
<1>1. CASE NpuPop
  <2>1. /\ heap'["npu_in"] = heap["npu_in"]
        /\ Pushes("cve")' = Pushes("cve") /\ Works("npu") = 0
        /\ Works("npu")' = 1 /\ Len(q["npu"])' = Len(q["npu"]) - 1
    BY <1>1, GotoStep, PopLens DEF NpuPop, Pop, Pushes, Works, One, Kinds, Queues, Stages
  <2>2. NpuInCount'
    BY <2>1, CountsHold, SMTT(30) DEF NpuInCount
  <2>3. UNCHANGED <<heap["pair"], q["vproc"], Works("cve"), Filling,
                    heap["out"], q["venc"], Pushes("npu"), Works("venc"),
                    heap["disparity"], lost, heap["venc_out"], q["net"],
                    Pushes("venc"), Sending>>
    BY <1>1, GotoStep, PopLens
       DEF NpuPop, Pop, Filling, Pushes, Sending, Works, One, Kinds, Queues, Stages
  <2>4. PairCount' /\ OutCount' /\ DisparityCount' /\ VencOutCount'
    BY <2>3, CountsHold DEF PairCount, OutCount, DisparityCount, VencOutCount
  <2> QED
    BY <2>2, <2>4, HeapNext
<1>2. CASE PopTimeout("npu", "npu")
  BY <1>2 DEF PopTimeout, vars, HeapHeld
<1>3. CASE Exit("npu", "npu")
  BY <1>3, ExitHeap
<1>4. CASE NpuInfer
  <2>1. /\ heap'["npu_in"] = heap["npu_in"] - 1
        /\ Pushes("cve")' = Pushes("cve") /\ Works("npu") = 1
        /\ Works("npu")' = 0 /\ Len(q["npu"])' = Len(q["npu"])
    BY <1>4, AllocCounts, GotoStep DEF NpuInfer, Drop, Pushes, Works, One, Kinds, Queues, Stages
  <2>2. NpuInCount'
    BY <2>1, CountsHold, SMTT(30) DEF NpuInCount
  <2>3. /\ heap'["out"] = heap["out"] + 1 /\ Pushes("npu") = 0
        /\ Pushes("npu")' = 1 /\ Works("venc")' = Works("venc")
        /\ Len(q["venc"])' = Len(q["venc"])
    BY <1>4, AllocCounts, GotoStep DEF NpuInfer, Drop, Pushes, Works, One, Kinds, Queues, Stages
  <2>4. OutCount'
    BY <2>3, CountsHold, SMTT(30) DEF OutCount
  <2>5. /\ heap'["disparity"] = heap["disparity"] + 1
        /\ heap'["out"] = heap["out"] + 1 /\ lost' = lost
    BY <1>4, AllocCounts DEF NpuInfer, Kinds
  <2>6. DisparityCount'
    BY <2>5, CountsHold, SMTT(30) DEF DisparityCount
  <2>7. UNCHANGED <<heap["pair"], q["vproc"], Works("cve"), Filling,
                    heap["venc_out"], q["net"], Pushes("venc"), Sending>>
    BY <1>4, AllocCounts, GotoStep
       DEF NpuInfer, Drop, Filling, Pushes, Sending, Works, One, Kinds, Queues, Stages
  <2>8. PairCount' /\ VencOutCount'
    BY <2>7, CountsHold DEF PairCount, VencOutCount
  <2> QED
    BY <2>2, <2>4, <2>6, <2>8, HeapNext
<1>5. CASE NpuFail
  <2>1. /\ heap'["npu_in"] = heap["npu_in"] - 1
        /\ Pushes("cve")' = Pushes("cve") /\ Works("npu") = 1
        /\ Works("npu")' = 0 /\ Len(q["npu"])' = Len(q["npu"])
    BY <1>5, AllocCounts, GotoStep DEF NpuFail, Drop, Pushes, Works, One, Kinds, Queues, Stages
  <2>2. NpuInCount'
    BY <2>1, CountsHold, SMTT(30) DEF NpuInCount
  <2>3. UNCHANGED <<heap["pair"], q["vproc"], Works("cve"), Filling,
                    heap["out"], q["venc"], Pushes("npu"), Works("venc"),
                    heap["disparity"], lost, heap["venc_out"], q["net"],
                    Pushes("venc"), Sending>>
    BY <1>5, AllocCounts, GotoStep
       DEF NpuFail, Drop, Filling, Pushes, Sending, Works, One, Kinds, Queues, Stages
  <2>4. PairCount' /\ OutCount' /\ DisparityCount' /\ VencOutCount'
    BY <2>3, CountsHold DEF PairCount, OutCount, DisparityCount, VencOutCount
  <2> QED
    BY <2>2, <2>4, HeapNext
<1>6. CASE NpuPush
  <2>1. /\ heap'["out"] = heap["out"] /\ Pushes("npu") = 1
        /\ Pushes("npu")' = 0 /\ Works("venc")' = Works("venc")
        /\ Len(q["venc"])' = Len(q["venc"]) + 1
    BY <1>6, GotoStep, PushLens, HandTyped DEF NpuPush, Pushes, Works, One, Kinds, Queues, Stages
  <2>2. OutCount'
    BY <2>1, CountsHold, SMTT(30) DEF OutCount
  <2>3. UNCHANGED <<heap["pair"], q["vproc"], Works("cve"), Filling,
                    heap["npu_in"], q["npu"], Pushes("cve"), Works("npu"),
                    heap["disparity"], heap["out"], lost, heap["venc_out"],
                    q["net"], Pushes("venc"), Sending>>
    BY <1>6, GotoStep, PushLens, HandTyped
       DEF NpuPush, Filling, Pushes, Sending, Works, One, Kinds, Queues, Stages
  <2>4. PairCount' /\ NpuInCount' /\ DisparityCount' /\ VencOutCount'
    BY <2>3, CountsHold DEF PairCount, NpuInCount, DisparityCount, VencOutCount
  <2> QED
    BY <2>2, <2>4, HeapNext
<1>7. CASE NpuDrop
  <2>1. /\ heap'["out"] = heap["out"] - 1 /\ Pushes("npu") = 1
        /\ Pushes("npu")' = 0 /\ Works("venc")' = Works("venc")
        /\ Len(q["venc"])' = Len(q["venc"])
    BY <1>7, AllocCounts, GotoStep DEF NpuDrop, Drop, Pushes, Works, One, Kinds, Queues, Stages
  <2>2. OutCount'
    BY <2>1, CountsHold, SMTT(30) DEF OutCount
  <2>3. /\ heap'["disparity"] = heap["disparity"] - 1
        /\ heap'["out"] = heap["out"] - 1 /\ lost' = lost
    BY <1>7, AllocCounts DEF NpuDrop, Kinds
  <2>4. DisparityCount'
    BY <2>3, CountsHold, SMTT(30) DEF DisparityCount
  <2>5. UNCHANGED <<heap["pair"], q["vproc"], Works("cve"), Filling,
                    heap["npu_in"], q["npu"], Pushes("cve"), Works("npu"),
                    heap["venc_out"], q["net"], Pushes("venc"), Sending>>
    BY <1>7, AllocCounts, GotoStep
       DEF NpuDrop, Drop, Filling, Pushes, Sending, Works, One, Kinds, Queues, Stages
  <2>6. PairCount' /\ NpuInCount' /\ VencOutCount'
    BY <2>5, CountsHold DEF PairCount, NpuInCount, VencOutCount
  <2> QED
    BY <2>2, <2>4, <2>6, HeapNext
<1> QED
  BY <1>1, <1>2, <1>3, <1>4, <1>5, <1>6, <1>7 DEF Npu

LEMMA VencHeap == StructInv /\ HeapHeld /\ Venc => HeapHeld'
<1> SUFFICES ASSUME StructInv, HeapHeld, Venc PROVE HeapHeld'
  OBVIOUS
<1>1. CASE VencPop
  <2>1. /\ heap'["out"] = heap["out"]
        /\ Pushes("npu")' = Pushes("npu") /\ Works("venc") = 0
        /\ Works("venc")' = 1 /\ Len(q["venc"])' = Len(q["venc"]) - 1
    BY <1>1, GotoStep, PopLens DEF VencPop, Pop, Pushes, Works, One, Kinds, Queues, Stages
  <2>2. OutCount'
    BY <2>1, CountsHold, SMTT(30) DEF OutCount
  <2>3. UNCHANGED <<heap["pair"], q["vproc"], Works("cve"), Filling,
                    heap["npu_in"], q["npu"], Pushes("cve"), Works("npu"),
                    heap["disparity"], heap["out"], lost, heap["venc_out"],
                    q["net"], Pushes("venc"), Sending>>
    BY <1>1, GotoStep, PopLens
       DEF VencPop, Pop, Filling, Pushes, Sending, Works, One, Kinds, Queues, Stages
  <2>4. PairCount' /\ NpuInCount' /\ DisparityCount' /\ VencOutCount'
    BY <2>3, CountsHold DEF PairCount, NpuInCount, DisparityCount, VencOutCount
  <2> QED
    BY <2>2, <2>4, HeapNext
<1>2. CASE PopTimeout("venc", "venc")
  BY <1>2 DEF PopTimeout, vars, HeapHeld
<1>3. CASE Exit("venc", "venc")
  BY <1>3, ExitHeap
<1>4. CASE VencNoMemory
  <2>1. /\ heap'["out"] = heap["out"] - 1
        /\ Pushes("npu")' = Pushes("npu") /\ Works("venc") = 1
        /\ Works("venc")' = 0 /\ Len(q["venc"])' = Len(q["venc"])
    BY <1>4, AllocCounts, GotoStep DEF VencNoMemory, Drop, Pushes, Works, One, Kinds, Queues, Stages
  <2>2. OutCount'
    BY <2>1, CountsHold, SMTT(30) DEF OutCount
  <2>3. /\ heap'["disparity"] = heap["disparity"]
        /\ heap'["out"] = heap["out"] - 1 /\ lost' = lost + 1
    BY <1>4, AllocCounts DEF VencNoMemory, Kinds
  <2>4. DisparityCount'
    BY <2>3, CountsHold, SMTT(30) DEF DisparityCount
  <2>5. UNCHANGED <<heap["pair"], q["vproc"], Works("cve"), Filling,
                    heap["npu_in"], q["npu"], Pushes("cve"), Works("npu"),
                    heap["venc_out"], q["net"], Pushes("venc"), Sending>>
    BY <1>4, AllocCounts, GotoStep
       DEF VencNoMemory, Drop, Filling, Pushes, Sending, Works, One, Kinds, Queues, Stages
  <2>6. PairCount' /\ NpuInCount' /\ VencOutCount'
    BY <2>5, CountsHold DEF PairCount, NpuInCount, VencOutCount
  <2> QED
    BY <2>2, <2>4, <2>6, HeapNext
<1>5. CASE VencEncode
  <2>1. /\ heap'["out"] = heap["out"] - 1
        /\ Pushes("npu")' = Pushes("npu") /\ Works("venc") = 1
        /\ Works("venc")' = 0 /\ Len(q["venc"])' = Len(q["venc"])
    BY <1>5, AllocCounts, GotoStep DEF VencEncode, Drop, Pushes, Works, One, Kinds, Queues, Stages
  <2>2. OutCount'
    BY <2>1, CountsHold, SMTT(30) DEF OutCount
  <2>3. /\ heap'["disparity"] = heap["disparity"] - 1
        /\ heap'["out"] = heap["out"] - 1 /\ lost' = lost
    BY <1>5, AllocCounts DEF VencEncode, Kinds
  <2>4. DisparityCount'
    BY <2>3, CountsHold, SMTT(30) DEF DisparityCount
  <2>5. /\ heap'["venc_out"] = heap["venc_out"] + 1
        /\ Pushes("venc") = 0 /\ Pushes("venc")' = 1
        /\ Sending' = Sending /\ Len(q["net"])' = Len(q["net"])
    BY <1>5, AllocCounts, GotoStep DEF VencEncode, Drop, Pushes, Sending, One, Kinds, Queues, Stages
  <2>6. VencOutCount'
    BY <2>5, CountsHold, SMTT(30) DEF VencOutCount
  <2>7. UNCHANGED <<heap["pair"], q["vproc"], Works("cve"), Filling,
                    heap["npu_in"], q["npu"], Pushes("cve"), Works("npu")>>
    BY <1>5, AllocCounts, GotoStep
       DEF VencEncode, Drop, Filling, Pushes, Works, One, Kinds, Queues, Stages
  <2>8. PairCount' /\ NpuInCount'
    BY <2>7, CountsHold DEF PairCount, NpuInCount
  <2> QED
    BY <2>2, <2>4, <2>6, <2>8, HeapNext
<1>6. CASE VencFail
  <2>1. /\ heap'["out"] = heap["out"] - 1
        /\ Pushes("npu")' = Pushes("npu") /\ Works("venc") = 1
        /\ Works("venc")' = 0 /\ Len(q["venc"])' = Len(q["venc"])
    BY <1>6, AllocCounts, GotoStep DEF VencFail, Drop, Pushes, Works, One, Kinds, Queues, Stages
  <2>2. OutCount'
    BY <2>1, CountsHold, SMTT(30) DEF OutCount
  <2>3. /\ heap'["disparity"] = heap["disparity"] - 1
        /\ heap'["out"] = heap["out"] - 1 /\ lost' = lost
    BY <1>6, AllocCounts DEF VencFail, Kinds
  <2>4. DisparityCount'
    BY <2>3, CountsHold, SMTT(30) DEF DisparityCount
  <2>5. UNCHANGED <<heap["pair"], q["vproc"], Works("cve"), Filling,
                    heap["npu_in"], q["npu"], Pushes("cve"), Works("npu"),
                    heap["venc_out"], q["net"], Pushes("venc"), Sending>>
    BY <1>6, AllocCounts, GotoStep
       DEF VencFail, Drop, Filling, Pushes, Sending, Works, One, Kinds, Queues, Stages
  <2>6. PairCount' /\ NpuInCount' /\ VencOutCount'
    BY <2>5, CountsHold DEF PairCount, NpuInCount, VencOutCount
  <2> QED
    BY <2>2, <2>4, <2>6, HeapNext
<1>7. CASE VencPush
  <2>1. /\ heap'["venc_out"] = heap["venc_out"] /\ Pushes("venc") = 1
        /\ Pushes("venc")' = 0 /\ Sending' = Sending
        /\ Len(q["net"])' = Len(q["net"]) + 1
    BY <1>7, GotoStep, PushLens, HandTyped DEF VencPush, Pushes, Sending, One, Kinds, Queues, Stages
  <2>2. VencOutCount'
    BY <2>1, CountsHold, SMTT(30) DEF VencOutCount
  <2>3. UNCHANGED <<heap["pair"], q["vproc"], Works("cve"), Filling,
                    heap["npu_in"], q["npu"], Pushes("cve"), Works("npu"),
                    heap["out"], q["venc"], Pushes("npu"), Works("venc"),
                    heap["disparity"], lost>>
    BY <1>7, GotoStep, PushLens, HandTyped
       DEF VencPush, Filling, Pushes, Works, One, Kinds, Queues, Stages
  <2>4. PairCount' /\ NpuInCount' /\ OutCount' /\ DisparityCount'
    BY <2>3, CountsHold DEF PairCount, NpuInCount, OutCount, DisparityCount
  <2> QED
    BY <2>2, <2>4, HeapNext
<1>8. CASE VencDrop
  <2>1. /\ heap'["venc_out"] = heap["venc_out"] - 1
        /\ Pushes("venc") = 1 /\ Pushes("venc")' = 0
        /\ Sending' = Sending /\ Len(q["net"])' = Len(q["net"])
    BY <1>8, AllocCounts, GotoStep DEF VencDrop, Drop, Pushes, Sending, One, Kinds, Queues, Stages
  <2>2. VencOutCount'
    BY <2>1, CountsHold, SMTT(30) DEF VencOutCount
  <2>3. UNCHANGED <<heap["pair"], q["vproc"], Works("cve"), Filling,
                    heap["npu_in"], q["npu"], Pushes("cve"), Works("npu"),
                    heap["out"], q["venc"], Pushes("npu"), Works("venc"),
                    heap["disparity"], lost>>
    BY <1>8, AllocCounts, GotoStep
       DEF VencDrop, Drop, Filling, Pushes, Works, One, Kinds, Queues, Stages
  <2>4. PairCount' /\ NpuInCount' /\ OutCount' /\ DisparityCount'
    BY <2>3, CountsHold DEF PairCount, NpuInCount, OutCount, DisparityCount
  <2> QED
    BY <2>2, <2>4, HeapNext
<1> QED
  BY <1>1, <1>2, <1>3, <1>4, <1>5, <1>6, <1>7, <1>8 DEF Venc

LEMMA NetHeap == StructInv /\ HeapHeld /\ Net => HeapHeld'
<1> SUFFICES ASSUME StructInv, HeapHeld, Net PROVE HeapHeld'
  OBVIOUS
<1>1. CASE NetIdle
  <2>1. UNCHANGED <<heap["pair"], q["vproc"], Works("cve"), Filling,
                    heap["npu_in"], q["npu"], Pushes("cve"), Works("npu"),
                    heap["out"], q["venc"], Pushes("npu"), Works("venc"),
                    heap["disparity"], lost, heap["venc_out"], q["net"],
                    Pushes("venc"), Sending>>
    BY <1>1, GotoStep
       DEF NetIdle, Drop, Filling, Pushes, Sending, Works, One, Kinds, Queues, Stages
  <2>2. PairCount' /\ NpuInCount' /\ OutCount' /\ DisparityCount' /\ VencOutCount'
    BY <2>1, CountsHold DEF PairCount, NpuInCount, OutCount, DisparityCount, VencOutCount
  <2> QED
    BY <2>2, HeapNext
<1>2. CASE NetDrain
  <2>1. /\ heap'["venc_out"] = heap["venc_out"] - 1 /\ Pushes("venc")' = Pushes("venc")
        /\ Sending' = Sending /\ Len(q["net"])' = Len(q["net"]) - 1
    BY <1>2, AllocCounts, QueueHead DEF NetDrain, Pushes, Sending, Kinds, Queues, StructInv
  <2>2. VencOutCount'
    BY <2>1, CountsHold, SMTT(30) DEF VencOutCount
  <2>3. UNCHANGED <<heap["pair"], q["vproc"], Works("cve"), Filling, heap["npu_in"],
                    q["npu"], Pushes("cve"), Works("npu"), heap["out"], q["venc"],
                    Pushes("npu"), Works("venc"), heap["disparity"], lost>>
    <3>1. UNCHANGED <<Works("cve"), Filling, Pushes("cve"), Works("npu"),
                      Pushes("npu"), Works("venc"), lost>>
      BY <1>2 DEF NetDrain, Filling, Pushes, Works
    <3>2. UNCHANGED <<heap["pair"], heap["npu_in"], heap["out"], heap["disparity"]>>
      BY <1>2, AllocCounts DEF NetDrain, Kinds
    <3>3. UNCHANGED <<q["vproc"], q["npu"], q["venc"]>>
      BY <1>2 DEF NetDrain, Queues, StructInv
    <3> QED
      BY <3>1, <3>2, <3>3
  <2>4. PairCount' /\ NpuInCount' /\ OutCount' /\ DisparityCount'
    BY <2>3, CountsHold DEF PairCount, NpuInCount, OutCount, DisparityCount
  <2> QED
    BY <2>2, <2>4, HeapNext
<1>3. CASE NetDrained
  <2>1. UNCHANGED <<heap["pair"], q["vproc"], Works("cve"), Filling,
                    heap["npu_in"], q["npu"], Pushes("cve"), Works("npu"),
                    heap["out"], q["venc"], Pushes("npu"), Works("venc"),
                    heap["disparity"], lost, heap["venc_out"], q["net"],
                    Pushes("venc"), Sending>>
    BY <1>3, GotoStep
       DEF NetDrained, Drop, Filling, Pushes, Sending, Works, One, Kinds, Queues, Stages
  <2>2. PairCount' /\ NpuInCount' /\ OutCount' /\ DisparityCount' /\ VencOutCount'
    BY <2>1, CountsHold DEF PairCount, NpuInCount, OutCount, DisparityCount, VencOutCount
  <2> QED
    BY <2>2, HeapNext
<1>4. CASE NetPop
  <2>1. /\ heap'["venc_out"] = heap["venc_out"]
        /\ Pushes("venc")' = Pushes("venc") /\ Sending = 0
        /\ Sending' = 1 /\ Len(q["net"])' = Len(q["net"]) - 1
    BY <1>4, GotoStep, PopLens DEF NetPop, Pop, Pushes, Sending, One, Kinds, Queues, Stages
  <2>2. VencOutCount'
    BY <2>1, CountsHold, SMTT(30) DEF VencOutCount
  <2>3. UNCHANGED <<heap["pair"], q["vproc"], Works("cve"), Filling,
                    heap["npu_in"], q["npu"], Pushes("cve"), Works("npu"),
                    heap["out"], q["venc"], Pushes("npu"), Works("venc"),
                    heap["disparity"], lost>>
    BY <1>4, GotoStep, PopLens
       DEF NetPop, Pop, Filling, Pushes, Works, One, Kinds, Queues, Stages
  <2>4. PairCount' /\ NpuInCount' /\ OutCount' /\ DisparityCount'
    BY <2>3, CountsHold DEF PairCount, NpuInCount, OutCount, DisparityCount
  <2> QED
    BY <2>2, <2>4, HeapNext
<1>5. CASE NetSend
  <2>1. /\ heap'["venc_out"] = heap["venc_out"] - 1
        /\ Pushes("venc")' = Pushes("venc") /\ Sending = 1
        /\ Sending' = 0 /\ Len(q["net"])' = Len(q["net"])
    BY <1>5, AllocCounts, GotoStep DEF NetSend, Drop, Pushes, Sending, One, Kinds, Queues, Stages
  <2>2. VencOutCount'
    BY <2>1, CountsHold, SMTT(30) DEF VencOutCount
  <2>3. UNCHANGED <<heap["pair"], q["vproc"], Works("cve"), Filling,
                    heap["npu_in"], q["npu"], Pushes("cve"), Works("npu"),
                    heap["out"], q["venc"], Pushes("npu"), Works("venc"),
                    heap["disparity"], lost>>
    BY <1>5, AllocCounts, GotoStep
       DEF NetSend, Drop, Filling, Pushes, Works, One, Kinds, Queues, Stages
  <2>4. PairCount' /\ NpuInCount' /\ OutCount' /\ DisparityCount'
    BY <2>3, CountsHold DEF PairCount, NpuInCount, OutCount, DisparityCount
  <2> QED
    BY <2>2, <2>4, HeapNext
<1>6. CASE Connected /\ PopTimeout("net", "net")
  BY <1>6 DEF PopTimeout, vars, HeapHeld
<1>7. CASE Exit("net", "net")
  BY <1>7, ExitHeap
<1> QED
  BY <1>1, <1>2, <1>3, <1>4, <1>5, <1>6, <1>7 DEF Net

\* The queues are there until the last join.
LEMMA JoinBefore ==
    ASSUME StructInv, Join, joining' # 6
    PROVE  UNCHANGED <<q, pc, hold, frame_cnt, frames, heap, lost, leaked, taken>>
<1>1. joining # 5
  BY DEF Join
<1> QED
  BY <1>1 DEF Join

LEMMA NextHeap ==
    StructInv /\ HeapHeld /\ [Next]_vars /\ joining' # 6 => HeapHeld'
<1> SUFFICES ASSUME StructInv, HeapHeld, [Next]_vars, joining' # 6 PROVE HeapHeld'
  OBVIOUS
<1>1. CASE ClientKnocks \/ ClientGoes \/ Shutdown \/ Join \/ Finished \/ UNCHANGED vars
  <2>1. UNCHANGED <<q, pc, heap, lost>>
    BY <1>1, JoinBefore DEF ClientKnocks, ClientGoes, Shutdown, Join, Finished, vars
  <2> QED
    BY <2>1 DEF HeapHeld
<1> QED
  BY <1>1, GetFrmHeap, CveHeap, NpuHeap, VencHeap, NetHeap DEF Next

-----------------------------------------------------------------------------
(* The joins.                                                              *)

LEMMA InitJoin == Init => JoinInv
  BY DEF Init, JoinInv

\* A thread that has exited takes no further step.
LEMMA NoStepAfterExit ==
    ASSUME StructInv, [Next]_vars, NEW s \in Stages, pc[s] = "exit"
    PROVE  pc'[s] = "exit"
<1>1. CASE GetFrm
  BY <1>1, GotoStep
     DEF GetFrm, GetFrmAlloc, GetFrmExit, GetFrmAcquire, GetFrmNoFrame,
         GetFrmCheck, GetFrmPush, GetFrmDrop, Stages
<1>2. CASE Cve
  BY <1>2, GotoStep
     DEF Cve, CvePop, PopTimeout, Exit, CveProcess, CveFail, CvePush, CveDrop,
         Pop, Stages, vars
<1>3. CASE Npu
  BY <1>3, GotoStep
     DEF Npu, NpuPop, PopTimeout, Exit, NpuInfer, NpuFail, NpuPush, NpuDrop,
         Pop, Stages, vars
<1>4. CASE Venc
  BY <1>4, GotoStep
     DEF Venc, VencPop, PopTimeout, Exit, VencNoMemory, VencEncode, VencFail,
         VencPush, VencDrop, Pop, Stages, vars
<1>5. CASE Net
  BY <1>5, GotoStep
     DEF Net, NetIdle, NetDrain, NetDrained, NetPop, NetSend, PopTimeout, Exit,
         Pop, Stages, vars
<1>6. CASE ClientKnocks \/ ClientGoes \/ Shutdown \/ Join \/ Finished \/ UNCHANGED vars
  BY <1>6 DEF ClientKnocks, ClientGoes, Shutdown, Join, Finished, vars
<1> QED
  BY <1>1, <1>2, <1>3, <1>4, <1>5, <1>6 DEF Next

LEMMA NextJoin == StructInv /\ JoinInv /\ [Next]_vars => JoinInv'
<1> SUFFICES ASSUME StructInv, JoinInv, [Next]_vars, NEW k \in 1 .. 5, joining' > k
             PROVE  pc'[StopOrder[k]] = "exit"
  BY DEF JoinInv
<1>0. StopOrder[k] \in Stages
  BY StopOrderIs DEF Stages
<1>1. joining' = joining \/ Shutdown \/ Join
  BY DEF Next, GetFrm, GetFrmAlloc, GetFrmExit, GetFrmAcquire, GetFrmNoFrame,
         GetFrmCheck, GetFrmPush, GetFrmDrop, Cve, CvePop, PopTimeout, Exit,
         CveProcess, CveFail, CvePush, CveDrop, Npu, NpuPop, NpuInfer, NpuFail,
         NpuPush, NpuDrop, Venc, VencPop, VencNoMemory, VencEncode, VencFail,
         VencPush, VencDrop, Net, NetIdle, NetDrain, NetDrained, NetPop, NetSend,
         ClientKnocks, ClientGoes, Finished, vars
<1>2. CASE joining' = joining
  BY <1>0, <1>2, NoStepAfterExit DEF JoinInv
<1>3. CASE Shutdown
  BY <1>3 DEF Shutdown
<1>4. CASE Join
  <2>1. k = joining \/ joining > k
    BY <1>4 DEF Join, StructInv
  <2> QED
    BY <1>0, <1>4, <2>1, NoStepAfterExit DEF Join, Joined, JoinInv
<1> QED
  BY <1>1, <1>2, <1>3, <1>4

-----------------------------------------------------------------------------
(* The line.                                                               *)

LEMMA PlaceValues ==
    /\ Place[1] = InHand("net") /\ Place[2] = q["net"]
    /\ Place[3] = InHand("venc") /\ Place[4] = q["venc"]
    /\ Place[5] = InHand("npu") /\ Place[6] = q["npu"]
    /\ Place[7] = InHand("cve") /\ Place[8] = q["vproc"]
    /\ Place[9] = InHand("get_frm")
    /\ Place'[1] = InHand("net")' /\ Place'[2] = q'["net"]
    /\ Place'[3] = InHand("venc")' /\ Place'[4] = q'["venc"]
    /\ Place'[5] = InHand("npu")' /\ Place'[6] = q'["npu"]
    /\ Place'[7] = InHand("cve")' /\ Place'[8] = q'["vproc"]
    /\ Place'[9] = InHand("get_frm")'
  BY DEF Place

LEMMA PlaceTyped ==
    ASSUME StructInv
    PROVE  Place \in Line(9)
<1>1. \A k \in Queues : q[k] \in Seq(Nat)
  <2>1. \A k \in Queues : q[k] \in Seq(Idx)
    BY DEF StructInv
  <2> QED
    BY <2>1, IdxTyped, SeqMonotonic
<1>2. \A s \in Stages : InHand(s) \in Seq(Nat)
  <2> SUFFICES ASSUME NEW s \in Stages PROVE InHand(s) \in Seq(Nat)
    OBVIOUS
  <2>1. CASE HasItem(s)
    <3>1. hold[s] \in Nat
      BY <2>1, IdxTyped DEF StructInv, HasItem
    <3> QED
      BY <2>1, <3>1 DEF InHand
  <2>2. CASE ~HasItem(s)
    BY <2>2, EmptySeq DEF InHand
  <2> QED
    BY <2>1, <2>2
<1>3. Place = [a \in 1 .. 9 |-> Place[a]]
  BY DEF Place
<1>4. \A a \in 1 .. 9 : Place[a] \in Seq(Nat)
  <2>1. \A a \in 1 .. 9 : a \in {1, 2, 3, 4, 5, 6, 7, 8, 9}
    OBVIOUS
  <2> QED
    BY <1>1, <1>2, <2>1, PlaceValues DEF Queues, Stages
<1> QED
  BY <1>3, <1>4 DEF Line

LEMMA PlaceTypedNext == StructInv' => (Place \in Line(9))'
  BY PlaceTyped, PTL

LEMMA InitLine == Init => LineInv /\ OwnInv
<1> SUFFICES ASSUME Init PROVE LineInv /\ OwnInv
  OBVIOUS
<1>1. \A s \in Stages : ~HasItem(s) /\ InHand(s) = <<>>
  BY DEF Init, HasItem, InHand
<1>2. \A a \in 1 .. 9 : Place[a] = <<>>
  <2>1. \A a \in 1 .. 9 : a \in {1, 2, 3, 4, 5, 6, 7, 8, 9}
    OBVIOUS
  <2>2. \A k \in Queues : q[k] = <<>>
    BY DEF Init, NoItems
  <2> QED
    BY <1>1, <2>1, <2>2, PlaceValues DEF Queues, Stages
<1>3. \A a \in 1 .. 9 : \A x \in 1 .. Len(Place[a]) : FALSE
  <2>1. \A a \in 1 .. 9 : Len(Place[a]) = 0
    BY <1>2
  <2> QED
    BY <2>1
<1>4. ASSUME NEW lo \in 1 .. 9, NEW v PROVE ~Among(Place, lo, 9, v)
  <2>1. \A b \in lo .. 9 : b \in 1 .. 9
    OBVIOUS
  <2> QED
    BY <1>3, <2>1, Zenon DEF Among
<1>5. Ordered(9, Place)
  BY <1>3 DEF Ordered
<1>6. OwnFrom \in 1 .. 9
  BY DEF OwnFrom
<1>7. LineInv
  BY <1>1, <1>4, <1>5 DEF LineInv, Init, Stages
<1>8. OwnInv
  BY <1>4, <1>6 DEF OwnInv, Init
<1> QED
  BY <1>7, <1>8

\* What a thread has in hand before and after a step that moves nothing of it.
LEMMA HandKept ==
    ASSUME NEW s, UNCHANGED hold[s]
    PROVE  InHand(s)' = InHand(s) /\ (HasItem(s)' <=> HasItem(s))
  BY DEF InHand, HasItem

\* A successful pop: from the queue to the empty hand before it.
LEMMA PopPlace ==
    ASSUME StructInv, NEW s \in Stages, NEW k \in Queues, NEW a \in {2, 4, 6, 8},
           \/ s = "net" /\ k = "net" /\ a = 2
           \/ s = "venc" /\ k = "venc" /\ a = 4
           \/ s = "npu" /\ k = "npu" /\ a = 6
           \/ s = "cve" /\ k = "vproc" /\ a = 8,
           NEW l, Pop(s, k, l)
    PROVE  /\ Place[a] # <<>> /\ Place[a - 1] = <<>>
           /\ Place'[a] = Tail(Place[a]) /\ Place'[a - 1] = <<Head(Place[a])>>
           /\ \A b \in 1 .. 9 : b \notin {a, a - 1} => Place'[b] = Place[b]
           /\ Place[a] = q[k] /\ UNCHANGED hold["get_frm"]
<1>1. /\ q[k] # <<>> /\ q'[k] = Tail(q[k])
      /\ \A j \in Queues : j # k => q'[j] = q[j]
  BY DEF Pop, StructInv
<1>2. InHand(s) = <<>>
  BY DEF Pop, StructInv, InHand
<1>3. InHand(s)' = <<Head(q[k])>>
  <2>1. Head(q[k]) \in Idx
    BY <1>1, QueueHead
  <2>2. hold'[s] = Head(q[k]) /\ HasItem(s)'
    BY <2>1, IdxTyped DEF Pop, StructInv, HasItem
  <2> QED
    BY <2>2 DEF InHand
<1>4. \A t \in Stages : t # s => hold'[t] = hold[t]
  BY DEF Pop, StructInv
<1>5. \A t \in Stages : t # s => InHand(t)' = InHand(t)
  BY <1>4 DEF InHand, HasItem
<1>6. \A b \in 1 .. 9 : b \in {1, 2, 3, 4, 5, 6, 7, 8, 9}
  OBVIOUS
<1>7. UNCHANGED hold["get_frm"]
  BY <1>4 DEF Stages
<1>8. CASE s = "net" /\ k = "net" /\ a = 2
  BY <1>1, <1>2, <1>3, <1>5, <1>6, <1>7, <1>8, PlaceValues DEF Queues, Stages
<1>9. CASE s = "venc" /\ k = "venc" /\ a = 4
  BY <1>1, <1>2, <1>3, <1>5, <1>6, <1>7, <1>9, PlaceValues DEF Queues, Stages
<1>10. CASE s = "npu" /\ k = "npu" /\ a = 6
  BY <1>1, <1>2, <1>3, <1>5, <1>6, <1>7, <1>10, PlaceValues DEF Queues, Stages
<1>11. CASE s = "cve" /\ k = "vproc" /\ a = 8
  BY <1>1, <1>2, <1>3, <1>5, <1>6, <1>7, <1>11, PlaceValues DEF Queues, Stages
<1> QED
  BY <1>8, <1>9, <1>10, <1>11

\* A successful push: from the hand to the queue before it.
LEMMA PushPlace ==
    ASSUME StructInv, NEW s \in Stages, NEW k \in Queues, NEW a \in {3, 5, 7, 9},
           \/ s = "venc" /\ k = "net" /\ a = 3
           \/ s = "npu" /\ k = "venc" /\ a = 5
           \/ s = "cve" /\ k = "npu" /\ a = 7
           \/ s = "get_frm" /\ k = "vproc" /\ a = 9,
           pc[s] = "push", Push(s, k)
    PROVE  /\ hold[s] \in Nat /\ Place[a] = <<hold[s]>>
           /\ Place'[a] = <<>> /\ Place'[a - 1] = Append(Place[a - 1], hold[s])
           /\ \A b \in 1 .. 9 : b \notin {a, a - 1} => Place'[b] = Place[b]
           /\ s # "get_frm" => UNCHANGED hold["get_frm"]
<1>1. /\ q'[k] = Append(q[k], hold[s])
      /\ \A j \in Queues : j # k => q'[j] = q[j]
  BY DEF Push, StructInv
<1>2. hold[s] \in Nat /\ InHand(s) = <<hold[s]>>
  BY HandTyped, IdxTyped DEF InHand
<1>3. InHand(s)' = <<>>
  BY DEF Push, StructInv, InHand, HasItem
<1>4. \A t \in Stages : t # s => hold'[t] = hold[t]
  BY DEF Push, StructInv
<1>5. \A t \in Stages : t # s => InHand(t)' = InHand(t)
  BY <1>4 DEF InHand, HasItem
<1>6. \A b \in 1 .. 9 : b \in {1, 2, 3, 4, 5, 6, 7, 8, 9}
  OBVIOUS
<1>7. s # "get_frm" => UNCHANGED hold["get_frm"]
  BY <1>4 DEF Stages
<1>8. CASE s = "venc" /\ k = "net" /\ a = 3
  <2>1. /\ Place[a] = InHand(s) /\ Place'[a] = InHand(s)'
        /\ Place[a - 1] = q[k] /\ Place'[a - 1] = q'[k]
    BY <1>8, PlaceValues
  <2>2. \A b \in 1 .. 9 : b \notin {a, a - 1} => Place'[b] = Place[b]
    BY <1>1, <1>5, <1>6, <1>8, PlaceValues DEF Queues, Stages
  <2> QED
    BY <1>1, <1>2, <1>3, <1>7, <2>1, <2>2
<1>9. CASE s = "npu" /\ k = "venc" /\ a = 5
  <2>1. /\ Place[a] = InHand(s) /\ Place'[a] = InHand(s)'
        /\ Place[a - 1] = q[k] /\ Place'[a - 1] = q'[k]
    BY <1>9, PlaceValues
  <2>2. \A b \in 1 .. 9 : b \notin {a, a - 1} => Place'[b] = Place[b]
    BY <1>1, <1>5, <1>6, <1>9, PlaceValues DEF Queues, Stages
  <2> QED
    BY <1>1, <1>2, <1>3, <1>7, <2>1, <2>2
<1>10. CASE s = "cve" /\ k = "npu" /\ a = 7
  <2>1. /\ Place[a] = InHand(s) /\ Place'[a] = InHand(s)'
        /\ Place[a - 1] = q[k] /\ Place'[a - 1] = q'[k]
    BY <1>10, PlaceValues
  <2>2. \A b \in 1 .. 9 : b \notin {a, a - 1} => Place'[b] = Place[b]
    BY <1>1, <1>5, <1>6, <1>10, PlaceValues DEF Queues, Stages
  <2> QED
    BY <1>1, <1>2, <1>3, <1>7, <2>1, <2>2
<1>11. CASE s = "get_frm" /\ k = "vproc" /\ a = 9
  <2>1. /\ Place[a] = InHand(s) /\ Place'[a] = InHand(s)'
        /\ Place[a - 1] = q[k] /\ Place'[a - 1] = q'[k]
    BY <1>11, PlaceValues
  <2>2. \A b \in 1 .. 9 : b \notin {a, a - 1} => Place'[b] = Place[b]
    BY <1>1, <1>5, <1>6, <1>11, PlaceValues DEF Queues, Stages
  <2> QED
    BY <1>1, <1>2, <1>3, <1>7, <2>1, <2>2
<1> QED
  BY <1>8, <1>9, <1>10, <1>11

\* A dropped item leaves the line.
LEMMA DropPlace ==
    ASSUME StructInv, NEW s \in Stages, NEW a \in {1, 3, 5, 7, 9},
           \/ s = "net" /\ a = 1
           \/ s = "venc" /\ a = 3
           \/ s = "npu" /\ a = 5
           \/ s = "cve" /\ a = 7
           \/ s = "get_frm" /\ a = 9,
           pc[s] \in {"check", "push", "work", "send"}, Drop(s)
    PROVE  /\ hold[s] \in Nat /\ Place[a] = <<hold[s]>> /\ Place'[a] = <<>>
           /\ \A b \in 1 .. 9 : b # a => Place'[b] = Place[b]
           /\ s # "get_frm" => UNCHANGED hold["get_frm"]
<1>1. hold[s] \in Nat /\ InHand(s) = <<hold[s]>>
  BY HandTyped, IdxTyped DEF InHand
<1>2. InHand(s)' = <<>>
  BY DEF Drop, StructInv, InHand, HasItem
<1>3. UNCHANGED q /\ \A t \in Stages : t # s => hold'[t] = hold[t]
  BY DEF Drop, StructInv
<1>4. \A t \in Stages : t # s => InHand(t)' = InHand(t)
  BY <1>3 DEF InHand, HasItem
<1>5. \A b \in 1 .. 9 : b \in {1, 2, 3, 4, 5, 6, 7, 8, 9}
  OBVIOUS
<1>6. s # "get_frm" => UNCHANGED hold["get_frm"]
  BY <1>3 DEF Stages
<1>7. CASE s = "net" /\ a = 1
  BY <1>1, <1>2, <1>3, <1>4, <1>5, <1>6, <1>7, PlaceValues DEF Stages
<1>8. CASE s = "venc" /\ a = 3
  BY <1>1, <1>2, <1>3, <1>4, <1>5, <1>6, <1>8, PlaceValues DEF Stages
<1>9. CASE s = "npu" /\ a = 5
  BY <1>1, <1>2, <1>3, <1>4, <1>5, <1>6, <1>9, PlaceValues DEF Stages
<1>10. CASE s = "cve" /\ a = 7
  BY <1>1, <1>2, <1>3, <1>4, <1>5, <1>6, <1>10, PlaceValues DEF Stages
<1>11. CASE s = "get_frm" /\ a = 9
  BY <1>1, <1>2, <1>3, <1>4, <1>5, <1>6, <1>11, PlaceValues DEF Stages
<1> QED
  BY <1>7, <1>8, <1>9, <1>10, <1>11

\* A step that keeps the order and brings nothing new into the line.
LEMMA LineKeeps ==
    ASSUME LineInv, Ordered(9, Place'),
           UNCHANGED <<frame_cnt, taken, hold["get_frm"]>>,
           \A v \in Nat : Among(Place', 1, 9, v) => Among(Place, 1, 9, v),
           \A v \in Nat : Among(Place', 2, 9, v) => Among(Place, 2, 9, v)
    PROVE  LineInv'
<1>1. HasItem("get_frm")' <=> HasItem("get_frm")
  BY HandKept
<1>2. /\ HasItem("get_frm")' => hold'["get_frm"] = frame_cnt'
      /\ \A v \in Nat : Among(Place', 1, 9, v) =>
            v < frame_cnt' \/ (HasItem("get_frm")' /\ v = frame_cnt')
      /\ taken' <= frame_cnt'
      /\ \A v \in Nat : Among(Place', 2, 9, v) => taken' <= v
  BY <1>1 DEF LineInv
<1> QED
  BY <1>2 DEF LineInv

LEMMA PlacesSame ==
    ASSUME UNCHANGED <<q, hold>>
    PROVE  Place' = Place
  BY DEF Place, InHand, HasItem

LEMMA LineSame ==
    ASSUME LineInv, UNCHANGED <<q, hold, frame_cnt, taken>>
    PROVE  LineInv'
<1>1. Place' = Place
  BY PlacesSame
<1>2. Ordered(9, Place')
  BY <1>1 DEF LineInv
<1> QED
  BY <1>1, <1>2, LineKeeps

LEMMA OwnSame ==
    ASSUME OwnInv, UNCHANGED frames, OwnFrom' = OwnFrom,
           \A v : Among(Place', OwnFrom, 9, v) <=> Among(Place, OwnFrom, 9, v)
    PROVE  OwnInv'
<1>1. \A i \in Idx : frames'[i] = IF Among(Place', OwnFrom', 9, i) THEN 1 ELSE 0
  BY DEF OwnInv
<1> QED
  BY <1>1 DEF OwnInv

\* The item w gives its frames back.
LEMMA OwnLess ==
    ASSUME StructInv, OwnInv, NEW w \in Idx, Release(w), Among(Place, OwnFrom, 9, w),
           \A v \in Nat : Among(Place', OwnFrom', 9, v)
                             <=> Among(Place, OwnFrom, 9, v) /\ v # w
    PROVE  OwnInv'
<1>1. frames[w] = 1
  BY DEF OwnInv
<1>2. \A i \in Idx : frames'[i] = IF i = w THEN 0 ELSE frames[i]
  BY <1>1 DEF Release, StructInv
<1>3. \A i \in Idx : frames'[i] = IF Among(Place', OwnFrom', 9, i) THEN 1 ELSE 0
  BY <1>2, IdxTyped DEF OwnInv
<1> QED
  BY <1>3 DEF OwnInv

LEMMA OwnFromSame ==
    ASSUME UNCHANGED pc["venc"]
    PROVE  OwnFrom' = OwnFrom
  BY DEF OwnFrom

\* The threads' pops, but the net thread's, which comes with taken.
LEMMA PopLine ==
    ASSUME StructInv, StructInv', LineInv,
           NEW s \in Stages, NEW k \in Queues, NEW a \in {4, 6, 8},
           \/ s = "venc" /\ k = "venc" /\ a = 4
           \/ s = "npu" /\ k = "npu" /\ a = 6
           \/ s = "cve" /\ k = "vproc" /\ a = 8,
           NEW l, Pop(s, k, l), UNCHANGED <<frame_cnt, taken>>
    PROVE  /\ LineInv' /\ Place[a - 1] = <<>>
           /\ \A lo \in 1 .. 9 : lo # a =>
                \A v : Among(Place', lo, 9, v) <=> Among(Place, lo, 9, v)
<1>1. /\ Place[a] # <<>> /\ Place[a - 1] = <<>>
      /\ Place'[a] = Tail(Place[a]) /\ Place'[a - 1] = <<Head(Place[a])>>
      /\ \A b \in 1 .. 9 : b \notin {a, a - 1} => Place'[b] = Place[b]
      /\ UNCHANGED hold["get_frm"]
  BY PopPlace
<1>2. PopMove(9, Place, Place', a)
  BY <1>1, PlaceTyped, PlaceTypedNext DEF Line, PopMove
<1>3. Ordered(9, Place)
  BY DEF LineInv
<1>4. Ordered(9, Place')
  BY <1>2, <1>3, OrderedPop
<1>5. ASSUME NEW lo \in 1 .. 9, lo # a, NEW v
      PROVE  Among(Place', lo, 9, v) <=> Among(Place, lo, 9, v)
  BY <1>2, <1>5, AmongPop
<1>6. 1 # a /\ 2 # a /\ 1 \in 1 .. 9 /\ 2 \in 1 .. 9
  OBVIOUS
<1>7. LineInv'
  BY <1>1, <1>4, <1>5, <1>6, LineKeeps
<1> QED
  BY <1>1, <1>5, <1>7

\* The threads' pushes, but get_frm's, which comes with frame_cnt.
LEMMA PushLine ==
    ASSUME StructInv, StructInv', LineInv,
           NEW s \in Stages, NEW k \in Queues, NEW a \in {3, 5, 7},
           \/ s = "venc" /\ k = "net" /\ a = 3
           \/ s = "npu" /\ k = "venc" /\ a = 5
           \/ s = "cve" /\ k = "npu" /\ a = 7,
           pc[s] = "push", Push(s, k), UNCHANGED <<frame_cnt, taken>>
    PROVE  /\ LineInv'
           /\ \A lo \in 1 .. 9 : lo # a =>
                \A v : Among(Place', lo, 9, v) <=> Among(Place, lo, 9, v)
<1>1. /\ hold[s] \in Nat /\ Place[a] = <<hold[s]>>
      /\ Place'[a] = <<>> /\ Place'[a - 1] = Append(Place[a - 1], hold[s])
      /\ \A b \in 1 .. 9 : b \notin {a, a - 1} => Place'[b] = Place[b]
      /\ UNCHANGED hold["get_frm"]
  <2>1. CASE s = "venc"
    BY <2>1, PushPlace, SMTT(30)
  <2>2. CASE s = "npu"
    BY <2>2, PushPlace, SMTT(30)
  <2>3. CASE s = "cve"
    BY <2>3, PushPlace, SMTT(30)
  <2> QED
    BY <2>1, <2>2, <2>3
<1>2. PushMove(9, Place, Place', a, hold[s])
  BY <1>1, PlaceTyped, PlaceTypedNext DEF Line, PushMove
<1>3. Ordered(9, Place)
  BY DEF LineInv
<1>4. Ordered(9, Place')
  BY <1>2, <1>3, OrderedPush
<1>5. ASSUME NEW lo \in 1 .. 9, lo # a, NEW v
      PROVE  Among(Place', lo, 9, v) <=> Among(Place, lo, 9, v)
  BY <1>2, <1>5, AmongPush
<1>6. 1 # a /\ 2 # a /\ 1 \in 1 .. 9 /\ 2 \in 1 .. 9
  OBVIOUS
<1>7. LineInv'
  BY <1>1, <1>4, <1>5, <1>6, LineKeeps
<1> QED
  BY <1>5, <1>7

\* A drop by a thread other than get_frm.
LEMMA DropLine ==
    ASSUME StructInv, StructInv', LineInv,
           NEW s \in Stages, NEW a \in {1, 3, 5, 7},
           \/ s = "net" /\ a = 1
           \/ s = "venc" /\ a = 3
           \/ s = "npu" /\ a = 5
           \/ s = "cve" /\ a = 7,
           pc[s] \in {"check", "push", "work", "send"}, Drop(s),
           UNCHANGED <<frame_cnt, taken>>
    PROVE  /\ LineInv' /\ Place'[a] = <<>>
           /\ \A lo \in 1 .. a : \A v :
                Among(Place', lo, 9, v) <=> Among(Place, lo, 9, v) /\ v # hold[s]
           /\ \A lo \in 1 .. a : Among(Place, lo, 9, hold[s])
           /\ \A lo \in a + 1 .. 9 : \A v :
                Among(Place', lo, 9, v) <=> Among(Place, lo, 9, v)
<1>1. /\ hold[s] \in Nat /\ Place[a] = <<hold[s]>> /\ Place'[a] = <<>>
      /\ \A b \in 1 .. 9 : b # a => Place'[b] = Place[b]
      /\ UNCHANGED hold["get_frm"]
  BY DropPlace
<1>2. LoseMove(9, Place, Place', a, hold[s])
  BY <1>1, PlaceTyped, PlaceTypedNext DEF Line, LoseMove
<1>3. Ordered(9, Place)
  BY DEF LineInv
<1>4. Ordered(9, Place')
  BY <1>2, <1>3, OrderedLose
<1>5. ASSUME NEW lo \in 1 .. a, NEW v
      PROVE  Among(Place', lo, 9, v) <=> Among(Place, lo, 9, v) /\ v # hold[s]
  BY <1>2, <1>3, AmongLose
<1>6. ASSUME NEW lo \in a + 1 .. 9, NEW v
      PROVE  Among(Place', lo, 9, v) <=> Among(Place, lo, 9, v)
  <2>1. \A b \in lo .. 9 : Place'[b] = Place[b]
    <3>1. \A b \in lo .. 9 : b \in 1 .. 9 /\ b # a
      BY <1>6
    <3> QED
      BY <1>1, <3>1, Zenon
  <2> QED
    BY <2>1, AmongSame
<1>7. \A lo \in 1 .. a : Among(Place, lo, 9, hold[s])
  <2>1. Len(Place[a]) = 1 /\ Place[a][1] = hold[s]
    BY <1>1
  <2>2. 1 \in 1 .. Len(Place[a]) /\ \A lo \in 1 .. a : a \in lo .. 9
    BY <2>1
  <2> QED
    BY <2>1, <2>2 DEF Among
<1>8. \A v : Among(Place', 1, 9, v) => Among(Place, 1, 9, v)
  <2>1. 1 \in 1 .. a
    OBVIOUS
  <2> QED
    BY <1>5, <2>1
<1>9. \A v : Among(Place', 2, 9, v) => Among(Place, 2, 9, v)
  <2>1. 2 \in 1 .. a \/ 2 \in a + 1 .. 9
    OBVIOUS
  <2> QED
    BY <1>5, <1>6, <2>1
<1>10. LineInv'
  BY <1>1, <1>4, <1>8, <1>9, LineKeeps
<1> QED
  BY <1>1, <1>5, <1>6, <1>7, <1>10

\* Nothing in the line moves, and no frames are acquired or released.
LEMMA StayBoth ==
    ASSUME LineInv, OwnInv, UNCHANGED <<q, hold, frame_cnt, taken, frames>>,
           OwnFrom' = OwnFrom
    PROVE  LineInv' /\ OwnInv'
<1>1. Place' = Place
  BY PlacesSame
<1> QED
  BY <1>1, LineSame, OwnSame

\* An item that has its frames is dropped together with them.
LEMMA DropBoth ==
    ASSUME StructInv, StructInv', LineInv, OwnInv,
           NEW s \in {"npu", "cve"},
           pc[s] \in {"push", "work"}, Drop(s), Release(hold[s]),
           OwnFrom' = OwnFrom, UNCHANGED <<frame_cnt, taken>>
    PROVE  LineInv' /\ OwnInv'
<1> DEFINE a == IF s = "npu" THEN 5 ELSE 7
<1>0. /\ s \in Stages /\ a \in {5, 7}
      /\ (s = "npu" /\ a = 5) \/ (s = "cve" /\ a = 7)
  BY DEF Stages
<1> HIDE DEF a
<1>1. /\ LineInv'
      /\ \A lo \in 1 .. a : \A v :
           Among(Place', lo, 9, v) <=> Among(Place, lo, 9, v) /\ v # hold[s]
      /\ \A lo \in 1 .. a : Among(Place, lo, 9, hold[s])
  BY <1>0, DropLine
<1>2. OwnFrom \in 1 .. a
  BY <1>0 DEF OwnFrom
<1>3. hold[s] \in Idx
  BY <1>0, HandTyped
<1>4. OwnInv'
  BY <1>1, <1>2, <1>3, OwnLess
<1> QED
  BY <1>1, <1>4

LEMMA CveLine == StructInv /\ StructInv' /\ LineInv /\ OwnInv /\ Cve => LineInv' /\ OwnInv'
<1> SUFFICES ASSUME StructInv, StructInv', LineInv, OwnInv, Cve PROVE LineInv' /\ OwnInv'
  OBVIOUS
<1>0. /\ "cve" \in Stages /\ "vproc" \in Queues /\ "npu" \in Queues
      /\ OwnFrom \in 1 .. 9 /\ OwnFrom # 8 /\ OwnFrom # 7
  BY DEF Stages, Queues, OwnFrom
<1>1. OwnFrom' = OwnFrom
  <2>1. UNCHANGED pc["venc"]
    BY GotoStep
       DEF Cve, CvePop, PopTimeout, Exit, CveProcess, CveFail, CvePush, CveDrop,
           Pop, Stages, vars
  <2> QED
    BY <2>1, OwnFromSame
<1>2. CASE CvePop
  <2>1. /\ LineInv'
        /\ \A lo \in 1 .. 9 : lo # 8 =>
             \A v : Among(Place', lo, 9, v) <=> Among(Place, lo, 9, v)
    BY <1>0, <1>2, PopLine DEF CvePop
  <2> QED
    BY <1>0, <1>1, <1>2, <2>1, OwnSame DEF CvePop
<1>3. CASE PopTimeout("cve", "vproc") \/ Exit("cve", "vproc") \/ CveProcess
  BY <1>1, <1>3, StayBoth DEF PopTimeout, Exit, CveProcess, vars
<1>4. CASE CveFail
  BY <1>0, <1>1, <1>4, DropBoth DEF CveFail
<1>5. CASE CvePush
  <2>1. /\ LineInv'
        /\ \A lo \in 1 .. 9 : lo # 7 =>
             \A v : Among(Place', lo, 9, v) <=> Among(Place, lo, 9, v)
    BY <1>0, <1>5, PushLine DEF CvePush
  <2> QED
    BY <1>0, <1>1, <1>5, <2>1, OwnSame DEF CvePush
<1>6. CASE CveDrop
  BY <1>0, <1>1, <1>6, DropBoth DEF CveDrop
<1> QED
  BY <1>2, <1>3, <1>4, <1>5, <1>6 DEF Cve

LEMMA NpuLine == StructInv /\ StructInv' /\ LineInv /\ OwnInv /\ Npu => LineInv' /\ OwnInv'
<1> SUFFICES ASSUME StructInv, StructInv', LineInv, OwnInv, Npu PROVE LineInv' /\ OwnInv'
  OBVIOUS
<1>0. /\ "npu" \in Stages /\ "npu" \in Queues /\ "venc" \in Queues
      /\ OwnFrom \in 1 .. 9 /\ OwnFrom # 6 /\ OwnFrom # 5
  BY DEF Stages, Queues, OwnFrom
<1>1. OwnFrom' = OwnFrom
  <2>1. UNCHANGED pc["venc"]
    BY GotoStep
       DEF Npu, NpuPop, PopTimeout, Exit, NpuInfer, NpuFail, NpuPush, NpuDrop,
           Pop, Stages, vars
  <2> QED
    BY <2>1, OwnFromSame
<1>2. CASE NpuPop
  <2>1. /\ LineInv'
        /\ \A lo \in 1 .. 9 : lo # 6 =>
             \A v : Among(Place', lo, 9, v) <=> Among(Place, lo, 9, v)
    BY <1>0, <1>2, PopLine DEF NpuPop
  <2> QED
    BY <1>0, <1>1, <1>2, <2>1, OwnSame DEF NpuPop
<1>3. CASE PopTimeout("npu", "npu") \/ Exit("npu", "npu") \/ NpuInfer
  BY <1>1, <1>3, StayBoth DEF PopTimeout, Exit, NpuInfer, vars
<1>4. CASE NpuFail
  BY <1>0, <1>1, <1>4, DropBoth DEF NpuFail
<1>5. CASE NpuPush
  <2>1. /\ LineInv'
        /\ \A lo \in 1 .. 9 : lo # 5 =>
             \A v : Among(Place', lo, 9, v) <=> Among(Place, lo, 9, v)
    BY <1>0, <1>5, PushLine DEF NpuPush
  <2> QED
    BY <1>0, <1>1, <1>5, <2>1, OwnSame DEF NpuPush
<1>6. CASE NpuDrop
  BY <1>0, <1>1, <1>6, DropBoth DEF NpuDrop
<1> QED
  BY <1>2, <1>3, <1>4, <1>5, <1>6 DEF Npu

\* The venc thread's item goes back to the pool while it is in hand, which
\* moves the front of the items with frames between places 3 and 4.
LEMMA VencLine == StructInv /\ StructInv' /\ LineInv /\ OwnInv /\ Venc => LineInv' /\ OwnInv'
<1> SUFFICES ASSUME StructInv, StructInv', LineInv, OwnInv, Venc PROVE LineInv' /\ OwnInv'
  OBVIOUS
<1>0. "venc" \in Stages /\ "venc" \in Queues /\ "net" \in Queues
  BY DEF Stages, Queues
<1>1. CASE VencPop
  <2>1. /\ LineInv' /\ Place[3] = <<>>
        /\ \A v : Among(Place', 3, 9, v) <=> Among(Place, 3, 9, v)
    BY <1>0, <1>1, PopLine DEF VencPop
  <2>2. \A v : Among(Place, 4, 9, v) <=> Among(Place, 3, 9, v)
    BY <2>1, AmongEmpty
  <2>3. OwnFrom = 4 /\ OwnFrom' = 3
    BY <1>0, <1>1, GotoStep DEF VencPop, Pop, OwnFrom
  <2>4. OwnInv'
    <3>1. \A i \in Idx : frames'[i] = IF Among(Place', OwnFrom', 9, i) THEN 1 ELSE 0
      BY <1>1, <2>1, <2>2, <2>3 DEF OwnInv, VencPop
    <3> QED
      BY <3>1 DEF OwnInv
  <2> QED
    BY <2>1, <2>4
<1>2. CASE PopTimeout("venc", "venc") \/ Exit("venc", "venc")
  <2>1. OwnFrom' = OwnFrom
    BY <1>0, <1>2, GotoStep DEF PopTimeout, Exit, OwnFrom, vars
  <2> QED
    BY <1>2, <2>1, StayBoth DEF PopTimeout, Exit, vars
<1>3. CASE VencNoMemory \/ VencFail
  <2>1. /\ pc["venc"] = "work" /\ Drop("venc") /\ Release(hold["venc"])
        /\ Goto("venc", "pop") /\ UNCHANGED <<frame_cnt, taken>>
    BY <1>3 DEF VencNoMemory, VencFail
  <2>2. /\ LineInv' /\ Place'[3] = <<>>
        /\ \A v : Among(Place', 3, 9, v) <=> Among(Place, 3, 9, v) /\ v # hold["venc"]
        /\ Among(Place, 3, 9, hold["venc"])
    BY <1>0, <2>1, DropLine
  <2>3. \A v : Among(Place', 4, 9, v) <=> Among(Place', 3, 9, v)
    BY <2>2, AmongEmpty
  <2>4. OwnFrom = 3 /\ OwnFrom' = 4
    BY <1>0, <2>1, GotoStep DEF OwnFrom
  <2>5. hold["venc"] \in Idx
    BY <1>0, <2>1, HandTyped
  <2>6. OwnInv'
    BY <2>1, <2>2, <2>3, <2>4, <2>5, OwnLess
  <2> QED
    BY <2>2, <2>6
<1>4. CASE VencEncode
  <2>1. LineInv' /\ Place' = Place
    BY <1>4, LineSame, PlacesSame DEF VencEncode
  <2>2. hold["venc"] \in Idx /\ Place[3] = <<hold["venc"]>>
    BY <1>0, <1>4, HandTyped, PlaceValues DEF VencEncode, InHand
  <2>3. Place \in Line(9) /\ Ordered(9, Place) /\ hold["venc"] \in Nat
    BY <2>2, PlaceTyped, IdxTyped DEF LineInv
  <2>4. \A v \in Nat : Among(Place, 4, 9, v) <=> Among(Place, 3, 9, v) /\ v # hold["venc"]
    BY <2>2, <2>3, AmongSkip
  <2>5. OwnFrom = 3 /\ OwnFrom' = 4
    BY <1>0, <1>4, GotoStep DEF VencEncode, OwnFrom
  <2>6. Among(Place, 3, 9, hold["venc"])
    <3>1. Len(Place[3]) = 1 /\ Place[3][1] = hold["venc"]
      BY <2>2
    <3> QED
      BY <3>1 DEF Among
  <2>7. OwnInv'
    BY <1>4, <2>1, <2>2, <2>4, <2>5, <2>6, OwnLess DEF VencEncode
  <2> QED
    BY <2>1, <2>7
<1>5. CASE VencPush
  <2>1. /\ LineInv'
        /\ \A v : Among(Place', 4, 9, v) <=> Among(Place, 4, 9, v)
    BY <1>0, <1>5, PushLine DEF VencPush
  <2>2. OwnFrom = 4 /\ OwnFrom' = 4
    BY <1>0, <1>5, GotoStep DEF VencPush, OwnFrom
  <2> QED
    BY <1>5, <2>1, <2>2, OwnSame DEF VencPush
<1>6. CASE VencDrop
  <2>1. /\ LineInv'
        /\ \A v : Among(Place', 4, 9, v) <=> Among(Place, 4, 9, v)
    BY <1>0, <1>6, DropLine DEF VencDrop
  <2>2. OwnFrom = 4 /\ OwnFrom' = 4
    BY <1>0, <1>6, GotoStep DEF VencDrop, OwnFrom
  <2> QED
    BY <1>6, <2>1, <2>2, OwnSame DEF VencDrop
<1> QED
  BY <1>1, <1>2, <1>3, <1>4, <1>5, <1>6 DEF Venc

\* get_frm brings the only new numbers; frame_cnt is larger than all others.
LEMMA GetFrmLine ==
    StructInv /\ StructInv' /\ LineInv /\ OwnInv /\ GetFrm => LineInv' /\ OwnInv'
<1> SUFFICES ASSUME StructInv, StructInv', LineInv, OwnInv, GetFrm
             PROVE  LineInv' /\ OwnInv'
  OBVIOUS
<1>0. /\ "get_frm" \in Stages /\ "vproc" \in Queues
      /\ OwnFrom \in 1 .. 9 /\ OwnFrom # 9
      /\ frame_cnt \in Nat /\ frame_cnt + 1 \in Nat /\ taken \in Nat
  BY DEF Stages, Queues, OwnFrom, StructInv
<1>1. OwnFrom' = OwnFrom
  <2>1. UNCHANGED pc["venc"]
    BY <1>0, GotoStep
       DEF GetFrm, GetFrmAlloc, GetFrmExit, GetFrmAcquire, GetFrmNoFrame,
           GetFrmCheck, GetFrmPush, GetFrmDrop, Stages
  <2> QED
    BY <2>1, OwnFromSame
<1>2. /\ Ordered(9, Place) /\ Place \in Line(9) /\ Place' \in Line(9)
      /\ \A v \in Nat : Among(Place, 1, 9, v) =>
            v < frame_cnt \/ (HasItem("get_frm") /\ v = frame_cnt)
      /\ taken <= frame_cnt
      /\ \A v \in Nat : Among(Place, 2, 9, v) => taken <= v
  BY PlaceTyped, PlaceTypedNext DEF LineInv, Line
<1>3. CASE \/ GetFrmAlloc \/ GetFrmExit \/ GetFrmNoFrame
           \/ GetFrmCheck /\ run["get_frm"]
  BY <1>1, <1>3, StayBoth
     DEF GetFrmAlloc, GetFrmExit, GetFrmNoFrame, GetFrmCheck
<1>4. CASE GetFrmAcquire
  <2>1. ~HasItem("get_frm") /\ Place[9] = <<>>
    BY <1>0, <1>4, PlaceValues DEF GetFrmAcquire, StructInv, InHand
  <2>2. frame_cnt \in Idx
    BY <1>0, <1>4, IdxTyped DEF GetFrmAcquire, Idx
  <2>3. HasItem("get_frm")' /\ hold'["get_frm"] = frame_cnt
    BY <1>0, <1>4, <2>2, IdxTyped DEF GetFrmAcquire, StructInv, HasItem
  <2>4. Place'[9] = <<frame_cnt>>
    BY <2>3, PlaceValues DEF InHand
  <2>5. \A b \in 1 .. 8 : Place'[b] = Place[b]
    <3>1. UNCHANGED q /\ \A t \in Stages : t # "get_frm" => hold'[t] = hold[t]
      BY <1>4 DEF GetFrmAcquire, StructInv
    <3>2. \A t \in Stages : t # "get_frm" => InHand(t)' = InHand(t)
      BY <3>1 DEF InHand, HasItem
    <3>3. \A b \in 1 .. 8 : b \in {1, 2, 3, 4, 5, 6, 7, 8}
      OBVIOUS
    <3> QED
      BY <3>1, <3>2, <3>3, PlaceValues DEF Stages
  <2>6. EnterMove(9, Place, Place', frame_cnt)
    BY <1>0, <1>2, <2>1, <2>4, <2>5 DEF EnterMove
  <2>7. \A b \in 1 .. 8 : \A x \in 1 .. Len(Place[b]) : Place[b][x] < frame_cnt
    <3> SUFFICES ASSUME NEW b \in 1 .. 8, NEW x \in 1 .. Len(Place[b])
                 PROVE  Place[b][x] < frame_cnt
      OBVIOUS
    <3>1. Place[b][x] \in Nat
      <4>1. \A c \in 1 .. 9 : Place[c] \in Seq(Nat)
        BY <1>2 DEF Line
      <4>2. b \in 1 .. 9
        OBVIOUS
      <4> QED
        BY <4>1, <4>2, ElementOfSeq
    <3>2. Among(Place, 1, 9, Place[b][x])
      <4>1. b \in 1 .. 9
        OBVIOUS
      <4> QED
        BY <4>1, Zenon DEF Among
    <3> QED
      BY <1>2, <2>1, <3>1, <3>2, Zenon
  <2>8. Ordered(9, Place')
    <3>1. 9 - 1 = 8
      OBVIOUS
    <3> QED
      BY <2>6, <2>7, <3>1, <1>2, OrderedEnter
  <2>9. \A lo \in 1 .. 9 : \A v :
           Among(Place', lo, 9, v) <=> Among(Place, lo, 9, v) \/ v = frame_cnt
    BY <2>6, AmongEnter
  <2>10. LineInv'
    <3>1. UNCHANGED <<frame_cnt, taken>>
      BY <1>4 DEF GetFrmAcquire
    <3>2. \A v \in Nat : Among(Place', 1, 9, v) =>
             v < frame_cnt' \/ (HasItem("get_frm")' /\ v = frame_cnt')
      BY <1>2, <2>1, <2>3, <2>9, <3>1
    <3>3. \A v \in Nat : Among(Place', 2, 9, v) => taken' <= v
      BY <1>2, <2>9, <3>1
    <3> QED
      BY <1>2, <2>3, <2>8, <3>1, <3>2, <3>3 DEF LineInv
  <2>11. OwnInv'
    <3>1. ~Among(Place, OwnFrom, 9, frame_cnt)
      <4>1. Among(Place, OwnFrom, 9, frame_cnt) => Among(Place, 1, 9, frame_cnt)
        <5>1. \A b \in OwnFrom .. 9 : b \in 1 .. 9
          BY <1>0
        <5> QED
          BY <5>1, Zenon DEF Among
      <4> QED
        BY <1>0, <1>2, <2>1, <4>1
    <3>2. frames[frame_cnt] = 0
      BY <2>2, <3>1 DEF OwnInv
    <3>3. \A i \in Idx : frames'[i] = IF i = frame_cnt THEN 1 ELSE frames[i]
      BY <1>4, <2>2, <3>2 DEF GetFrmAcquire, StructInv
    <3>4. \A i \in Idx : frames'[i] = IF Among(Place', OwnFrom', 9, i) THEN 1 ELSE 0
      BY <1>0, <1>1, <2>9, <3>3 DEF OwnInv
    <3> QED
      BY <3>4 DEF OwnInv
  <2> QED
    BY <2>10, <2>11
<1>5. CASE GetFrmDrop \/ (GetFrmCheck /\ ~run["get_frm"])
  <2> DEFINE w == hold["get_frm"]
  <2>1. /\ pc["get_frm"] \in {"check", "push"} /\ Drop("get_frm") /\ Release(w)
        /\ UNCHANGED <<frame_cnt, taken>>
    BY <1>5 DEF GetFrmDrop, GetFrmCheck
  <2>2. w \in Idx /\ w = frame_cnt
    BY <1>0, <2>1, HandTyped DEF LineInv
  <2>3. LoseMove(9, Place, Place', 9, w)
    <3>1. /\ w \in Nat /\ Place[9] = <<w>> /\ Place'[9] = <<>>
          /\ \A b \in 1 .. 9 : b # 9 => Place'[b] = Place[b]
      BY <1>0, <2>1, DropPlace
    <3> QED
      BY <1>2, <3>1 DEF LoseMove
  <2>4. Ordered(9, Place')
    BY <1>2, <2>3, OrderedLose
  <2>5. \A lo \in 1 .. 9 : \A v :
           Among(Place', lo, 9, v) <=> Among(Place, lo, 9, v) /\ v # w
    BY <1>2, <2>3, AmongLose
  <2>6. Place[9] = <<w>>
    BY <2>3 DEF LoseMove
  <2> HIDE DEF w
  <2>7. LineInv'
    <3>1. ~HasItem("get_frm")'
      BY <1>0, <2>1 DEF Drop, HasItem, StructInv
    <3>2. \A v \in Nat : Among(Place', 1, 9, v) =>
             v < frame_cnt' \/ (HasItem("get_frm")' /\ v = frame_cnt')
      BY <1>2, <2>1, <2>2, <2>5
    <3>3. \A v \in Nat : Among(Place', 2, 9, v) => taken' <= v
      BY <1>2, <2>1, <2>5
    <3> QED
      BY <1>2, <2>1, <2>4, <3>1, <3>2, <3>3 DEF LineInv
  <2>8. Among(Place, OwnFrom, 9, w)
    <3>1. Len(Place[9]) = 1 /\ Place[9][1] = w
      BY <2>6
    <3> QED
      BY <1>0, <3>1 DEF Among
  <2>9. OwnInv'
    BY <1>0, <1>1, <2>1, <2>2, <2>5, <2>8, OwnLess
  <2> QED
    BY <2>7, <2>9
<1>6. CASE GetFrmPush
  <2> DEFINE w == hold["get_frm"]
  <2>1. /\ pc["get_frm"] = "push" /\ Push("get_frm", "vproc")
        /\ frame_cnt' = frame_cnt + 1 /\ UNCHANGED <<frames, taken>>
    BY <1>6 DEF GetFrmPush
  <2>2. PushMove(9, Place, Place', 9, w)
    <3>1. /\ w \in Nat /\ Place[9] = <<w>>
          /\ Place'[9] = <<>> /\ Place'[9 - 1] = Append(Place[9 - 1], w)
          /\ \A b \in 1 .. 9 : b \notin {9, 9 - 1} => Place'[b] = Place[b]
      BY <1>0, <2>1, PushPlace
    <3> QED
      BY <1>2, <3>1 DEF PushMove
  <2> HIDE DEF w
  <2>3. Ordered(9, Place')
    BY <1>2, <2>2, OrderedPush
  <2>4. \A lo \in 1 .. 9 : lo # 9 =>
           \A v : Among(Place', lo, 9, v) <=> Among(Place, lo, 9, v)
    BY <2>2, AmongPush
  <2>5. LineInv'
    <3>1. ~HasItem("get_frm")'
      BY <1>0, <2>1 DEF Push, HasItem, StructInv
    <3>2. \A v \in Nat : Among(Place', 1, 9, v) =>
             v < frame_cnt' \/ (HasItem("get_frm")' /\ v = frame_cnt')
      BY <1>0, <1>2, <2>1, <2>4
    <3>3. \A v \in Nat : Among(Place', 2, 9, v) => taken' <= v
      BY <1>2, <2>1, <2>4
    <3>4. taken' <= frame_cnt'
      BY <1>0, <1>2, <2>1
    <3> QED
      BY <2>3, <3>1, <3>2, <3>3, <3>4 DEF LineInv
  <2>6. OwnInv'
    BY <1>0, <1>1, <2>1, <2>4, OwnSame
  <2> QED
    BY <2>5, <2>6
<1> QED
  BY <1>3, <1>4, <1>5, <1>6 DEF GetFrm

\* The net thread remembers how far it has come: taken is one past the head.
LEMMA HeadTaken ==
    ASSUME StructInv, StructInv', LineInv, q["net"] # <<>>,
           Place'[2] = Tail(Place[2]), \A b \in 3 .. 9 : Place'[b] = Place[b],
           taken' = Head(q["net"]) + 1
    PROVE  /\ taken' <= frame_cnt
           /\ \A v \in Nat : Among(Place', 2, 9, v) =>
                 taken' <= v /\ Among(Place, 2, 9, v)
<1> DEFINE R == [b \in 1 .. 9 |-> IF b = 1 THEN Place[1] ELSE Place'[b]]
<1>0. "net" \in Queues /\ frame_cnt \in Nat /\ "get_frm" \in Stages
  BY DEF Queues, Stages, StructInv
<1>1. Place \in Line(9) /\ Place' \in Line(9) /\ Ordered(9, Place)
  BY PlaceTyped, PlaceTypedNext DEF Line, LineInv
<1>2. Place[2] = q["net"] /\ Head(q["net"]) \in Nat
  BY <1>0, PlaceValues, QueueHead, IdxTyped
<1>3. R \in Line(9) /\ R[1] = Place[1] /\ \A b \in 2 .. 9 : R[b] = Place'[b]
  BY <1>1 DEF Line
<1> HIDE DEF R
<1>4. TailMove(9, Place, R, 2)
  <2>1. R[2] = Tail(Place[2])
    BY <1>3
  <2>2. \A b \in 1 .. 9 : b # 2 => R[b] = Place[b]
    <3>1. \A b \in 1 .. 9 : b # 2 => b = 1 \/ b \in 3 .. 9
      OBVIOUS
    <3> QED
      BY <1>3, <3>1
  <2> QED
    BY <1>1, <1>2, <1>3, <2>1, <2>2 DEF TailMove
<1>5. ASSUME NEW v \in Nat, Among(Place', 2, 9, v)
      PROVE  taken' <= v /\ Among(Place, 2, 9, v)
  <2>1. Among(R, 2, 9, v)
    BY <1>3, <1>5, AmongSame
  <2>2. Head(Place[2]) < v /\ Among(Place, 2, 9, v)
    BY <1>1, <1>4, <2>1, AmongTail
  <2> QED
    BY <1>2, <2>2
<1>6. Head(q["net"]) < frame_cnt
  <2> DEFINE h == Head(q["net"])
  <2>1. 1 \in 1 .. Len(Place[2]) /\ Place[2][1] = h
    <3>1. Place[2] \in Seq(Nat)
      BY <1>1 DEF Line
    <3> QED
      BY <1>2, <3>1, EmptySeq
  <2>2. Among(Place, 1, 9, h)
    BY <2>1 DEF Among
  <2>3. CASE HasItem("get_frm")
    <3>1. Len(Place[9]) = 1 /\ Place[9][1] = frame_cnt
      BY <2>3, PlaceValues DEF LineInv, InHand
    <3>2. 1 \in 1 .. Len(Place[9])
      BY <3>1
    <3>3. Place[2][1] < Place[9][1]
      BY <1>1, <2>1, <3>2 DEF Ordered, Ahead
    <3> QED
      BY <2>1, <3>1, <3>3
  <2>4. CASE ~HasItem("get_frm")
    BY <1>2, <2>2, <2>4 DEF LineInv
  <2> QED
    BY <2>3, <2>4
<1> QED
  BY <1>0, <1>2, <1>5, <1>6

LEMMA NetLine == StructInv /\ StructInv' /\ LineInv /\ OwnInv /\ Net => LineInv' /\ OwnInv'
<1> SUFFICES ASSUME StructInv, StructInv', LineInv, OwnInv, Net PROVE LineInv' /\ OwnInv'
  OBVIOUS
<1>0. "net" \in Stages /\ "net" \in Queues /\ OwnFrom \in 3 .. 9
  BY DEF Stages, Queues, OwnFrom
<1>1. OwnFrom' = OwnFrom
  <2>1. UNCHANGED pc["venc"]
    BY GotoStep
       DEF Net, NetIdle, NetDrain, NetDrained, NetPop, NetSend, PopTimeout, Exit,
           Pop, Stages, vars
  <2> QED
    BY <2>1, OwnFromSame
<1>2. Place \in Line(9) /\ Place' \in Line(9) /\ Ordered(9, Place)
  BY PlaceTyped, PlaceTypedNext DEF Line, LineInv
<1>3. CASE \/ NetIdle \/ NetDrained
           \/ (Connected /\ PopTimeout("net", "net")) \/ Exit("net", "net")
  BY <1>1, <1>3, StayBoth DEF NetIdle, NetDrained, PopTimeout, Exit, vars
<1>4. ASSUME q["net"] # <<>>, taken' = Head(q["net"]) + 1,
             UNCHANGED <<frame_cnt, frames, hold["get_frm"]>>,
             Place'[2] = Tail(Place[2]), \A b \in 3 .. 9 : Place'[b] = Place[b],
             Ordered(9, Place'),
             \A v \in Nat : Among(Place', 1, 9, v) => Among(Place, 1, 9, v)
      PROVE  LineInv' /\ OwnInv'
  <2>1. /\ taken' <= frame_cnt
        /\ \A v \in Nat : Among(Place', 2, 9, v) => taken' <= v
    BY <1>4, HeadTaken
  <2>2. HasItem("get_frm")' <=> HasItem("get_frm")
    BY <1>4, HandKept
  <2>3. /\ HasItem("get_frm")' => hold'["get_frm"] = frame_cnt'
        /\ \A v \in Nat : Among(Place', 1, 9, v) =>
              v < frame_cnt' \/ (HasItem("get_frm")' /\ v = frame_cnt')
        /\ taken' <= frame_cnt'
    BY <1>4, <2>1, <2>2 DEF LineInv
  <2>4. LineInv'
    BY <1>4, <2>1, <2>3 DEF LineInv
  <2>5. \A v : Among(Place', OwnFrom, 9, v) <=> Among(Place, OwnFrom, 9, v)
    <3>1. \A b \in OwnFrom .. 9 : Place'[b] = Place[b]
      BY <1>0, <1>4
    <3> QED
      BY <1>0, <3>1, AmongSame
  <2>6. OwnInv'
    BY <1>1, <1>4, <2>5, OwnSame
  <2> QED
    BY <2>4, <2>6
<1>5. CASE NetDrain
  <2>1. /\ q["net"] # <<>> /\ taken' = Head(q["net"]) + 1
        /\ q'["net"] = Tail(q["net"]) /\ \A j \in Queues : j # "net" => q'[j] = q[j]
        /\ UNCHANGED <<frame_cnt, frames, hold>>
    BY <1>0, <1>5 DEF NetDrain, StructInv
  <2>2. /\ Place[2] # <<>> /\ Place'[2] = Tail(Place[2])
        /\ \A b \in 1 .. 9 : b # 2 => Place'[b] = Place[b]
    <3>1. \A t \in Stages : InHand(t)' = InHand(t)
      BY <2>1 DEF InHand, HasItem
    <3>2. \A b \in 1 .. 9 : b \in {1, 2, 3, 4, 5, 6, 7, 8, 9}
      OBVIOUS
    <3> QED
      BY <2>1, <3>1, <3>2, PlaceValues DEF Stages, Queues
  <2>3. TailMove(9, Place, Place', 2)
    BY <1>2, <2>2 DEF TailMove
  <2>4. Ordered(9, Place')
    BY <1>2, <2>3, OrderedLose
  <2>5. ASSUME NEW v \in Nat, Among(Place', 1, 9, v)
        PROVE  Among(Place, 1, 9, v)
    <3>1. PICK b \in 1 .. 9 : \E x \in 1 .. Len(Place'[b]) : Place'[b][x] = v
      BY <2>5 DEF Among
    <3>2. CASE b = 1
      BY <2>2, <3>1, <3>2 DEF Among
    <3>3. CASE b # 1
      <4>1. Among(Place', 2, 9, v)
        BY <3>1, <3>3 DEF Among
      <4>2. Among(Place, 2, 9, v)
        BY <2>1, <2>2, <4>1, HeadTaken
      <4> QED
        BY <4>2 DEF Among
    <3> QED
      BY <3>2, <3>3
  <2> QED
    BY <1>4, <2>1, <2>2, <2>4, <2>5
<1>6. CASE NetPop
  <2>1. Pop("net", "net", "send")
    BY <1>6 DEF NetPop
  <2>2. /\ Place[2] # <<>> /\ Place[1] = <<>>
        /\ Place'[2] = Tail(Place[2]) /\ Place'[1] = <<Head(Place[2])>>
        /\ \A b \in 1 .. 9 : b \notin {2, 1} => Place'[b] = Place[b]
        /\ Place[2] = q["net"] /\ UNCHANGED hold["get_frm"]
    <3>1. 2 - 1 = 1
      OBVIOUS
    <3> QED
      BY <1>0, <2>1, <3>1, PopPlace
  <2>3. PopMove(9, Place, Place', 2)
    BY <1>2, <2>2 DEF PopMove
  <2>4. Ordered(9, Place')
    BY <1>2, <2>3, OrderedPop
  <2>5. \A v : Among(Place', 1, 9, v) <=> Among(Place, 1, 9, v)
    BY <2>3, AmongPop
  <2>6. \A b \in 3 .. 9 : Place'[b] = Place[b]
    BY <2>2
  <2>7. taken' = Head(q["net"]) + 1 /\ UNCHANGED <<frame_cnt, frames>>
    BY <1>6 DEF NetPop
  <2> QED
    BY <1>4, <2>2, <2>4, <2>5, <2>6, <2>7
<1>7. CASE NetSend
  <2>1. /\ pc["net"] = "send" /\ Drop("net") /\ UNCHANGED <<frame_cnt, taken, frames>>
    BY <1>7 DEF NetSend
  <2>2. /\ LineInv'
        /\ \A lo \in 2 .. 9 : \A v :
              Among(Place', lo, 9, v) <=> Among(Place, lo, 9, v)
    <3>1. 1 + 1 = 2
      OBVIOUS
    <3> QED
      BY <1>0, <2>1, <3>1, DropLine
  <2>3. OwnInv'
    BY <1>0, <1>1, <2>1, <2>2, OwnSame
  <2> QED
    BY <2>2, <2>3
<1> QED
  BY <1>3, <1>5, <1>6, <1>7 DEF Net

LEMMA NextLine ==
    StructInv /\ StructInv' /\ LineInv /\ OwnInv /\ [Next]_vars /\ joining' # 6
        => LineInv' /\ OwnInv'
<1> SUFFICES ASSUME StructInv, StructInv', LineInv, OwnInv, [Next]_vars, joining' # 6
             PROVE  LineInv' /\ OwnInv'
  OBVIOUS
<1>1. CASE ClientKnocks \/ ClientGoes \/ Shutdown \/ Join \/ Finished \/ UNCHANGED vars
  <2>1. UNCHANGED <<q, hold, pc, frame_cnt, taken, frames>>
    BY <1>1, JoinBefore DEF ClientKnocks, ClientGoes, Shutdown, Join, Finished, vars
  <2> QED
    BY <2>1, OwnFromSame, StayBoth
<1> QED
  BY <1>1, GetFrmLine, CveLine, NpuLine, VencLine, NetLine DEF Next

-----------------------------------------------------------------------------
(* From the line to the sequences the properties speak of.                 *)

\* The seven pieces of WithFrames.
LEMMA WithFramesCollects ==
    ASSUME StructInv, LineInv
    PROVE  Collects(WithFrames, Place, OwnFrom, 9)
<1>1. Place \in Line(9) /\ Ordered(9, Place) /\ 9 \in Nat
  BY PlaceTyped DEF LineInv
<1> DEFINE Front == IF pc["venc"] = "work" THEN InHand("venc") ELSE <<>>
           S4 == Front \o q["venc"]
           S5 == S4 \o InHand("npu")
           S6 == S5 \o q["npu"]
           S7 == S6 \o InHand("cve")
           S8 == S7 \o q["vproc"]
<1>2. Collects(Front, Place, OwnFrom, 3)
  <2>1. CASE pc["venc"] = "work"
    <3>1. Collects(Place[3], Place, 3, 3)
      BY <1>1, CollectsPlace
    <3> QED
      BY <2>1, <3>1, PlaceValues DEF OwnFrom
  <2>2. CASE pc["venc"] # "work"
    <3>1. Collects(<<>>, Place, 3 + 1, 3)
      BY CollectsNothing
    <3>2. OwnFrom = 3 + 1 /\ Front = <<>>
      BY <2>2 DEF OwnFrom
    <3> QED
      BY <3>1, <3>2
  <2> QED
    BY <2>1, <2>2
<1>3. /\ Collects(q["venc"], Place, 4, 4) /\ Collects(InHand("npu"), Place, 5, 5)
      /\ Collects(q["npu"], Place, 6, 6) /\ Collects(InHand("cve"), Place, 7, 7)
      /\ Collects(q["vproc"], Place, 8, 8) /\ Collects(InHand("get_frm"), Place, 9, 9)
  <2>1. \A a \in 1 .. 9 : Collects(Place[a], Place, a, a)
    BY <1>1, CollectsPlace
  <2> QED
    BY <2>1, PlaceValues
\* One piece more.
<1>4. ASSUME NEW m \in 3 .. 8, NEW s, NEW t,
             Collects(s, Place, OwnFrom, m), Collects(t, Place, m + 1, m + 1)
      PROVE  Collects(s \o t, Place, OwnFrom, m + 1)
  <2>1. /\ OwnFrom \in 1 .. 9 + 1 /\ m \in OwnFrom - 1 .. 9 /\ m + 1 \in m .. 9
    BY DEF OwnFrom
  <2> QED
    BY <1>1, <1>4, <2>1, CollectsConcat
<1> HIDE DEF Front
<1>5. Collects(S4, Place, OwnFrom, 4)
  BY <1>2, <1>3, <1>4
<1> HIDE DEF S4
<1>6. Collects(S5, Place, OwnFrom, 5)
  BY <1>3, <1>4, <1>5
<1> HIDE DEF S5
<1>7. Collects(S6, Place, OwnFrom, 6)
  BY <1>3, <1>4, <1>6
<1> HIDE DEF S6
<1>8. Collects(S7, Place, OwnFrom, 7)
  BY <1>3, <1>4, <1>7
<1> HIDE DEF S7
<1>9. Collects(S8, Place, OwnFrom, 8)
  BY <1>3, <1>4, <1>8
<1> HIDE DEF S8
<1>10. Collects(S8 \o InHand("get_frm"), Place, OwnFrom, 9)
  BY <1>3, <1>4, <1>9
<1> QED
  BY <1>10 DEF WithFrames, S8, S7, S6, S5, S4, Front

LEMMA InFlightCollects ==
    ASSUME StructInv, LineInv
    PROVE  Collects(InFlight, Place, 1, 9)
<1>1. Place \in Line(9) /\ Ordered(9, Place) /\ 9 \in Nat
  BY PlaceTyped DEF LineInv
<1> DEFINE Encoded == IF pc["venc"] = "push" THEN InHand("venc") ELSE <<>>
           S2 == InHand("net") \o q["net"]
           S3 == S2 \o Encoded
<1>2. \A a \in 1 .. 9 : Collects(Place[a], Place, a, a)
  BY <1>1, CollectsPlace
<1>3. Collects(S2, Place, 1, 2)
  <2>1. Collects(InHand("net"), Place, 1, 1) /\ Collects(q["net"], Place, 1 + 1, 2)
    BY <1>2, PlaceValues
  <2>2. 1 \in 1 .. 9 + 1 /\ 1 \in 1 - 1 .. 9 /\ 2 \in 1 .. 9
    OBVIOUS
  <2> QED
    BY <1>1, <2>1, <2>2, CollectsConcat
<1>4. Collects(Encoded, Place, 2 + 1, OwnFrom - 1)
  <2>1. CASE pc["venc"] = "work"
    <3>1. Collects(<<>>, Place, 2 + 1, 2)
      BY CollectsNothing
    <3>2. OwnFrom - 1 = 2 /\ Encoded = <<>>
      BY <2>1 DEF OwnFrom
    <3> QED
      BY <3>1, <3>2
  <2>2. CASE pc["venc"] # "work"
    <3>1. Encoded = Place[3]
      <4>1. InHand("venc") = <<>> \/ pc["venc"] = "push"
        BY <2>2 DEF StructInv, Stages, Steps, InHand
      <4>2. Place[3] = InHand("venc")
        BY PlaceValues
      <4> QED
        BY <4>1, <4>2
    <3>2. OwnFrom - 1 = 3 /\ 2 + 1 = 3
      BY <2>2 DEF OwnFrom
    <3> HIDE DEF Encoded
    <3> QED
      BY <1>2, <3>1, <3>2
  <2> QED
    BY <2>1, <2>2
<1> HIDE DEF S2, Encoded
<1>5. OwnFrom - 1 \in 2 .. 9 /\ (OwnFrom - 1) + 1 = OwnFrom
  BY DEF OwnFrom
<1>6. Collects(S3, Place, 1, OwnFrom - 1)
  <2>1. 1 \in 1 .. 9 + 1 /\ 2 \in 1 - 1 .. 9
    OBVIOUS
  <2> QED
    BY <1>1, <1>3, <1>4, <1>5, <2>1, CollectsConcat
<1> HIDE DEF S3
<1>7. Collects(S3 \o WithFrames, Place, 1, 9)
  <2>1. 1 \in 1 .. 9 + 1 /\ OwnFrom - 1 \in 1 - 1 .. 9 /\ 9 \in OwnFrom - 1 .. 9
    BY <1>5
  <2> QED
    BY <1>1, <1>5, <1>6, <2>1, WithFramesCollects, CollectsConcat
<1> QED
  BY <1>7 DEF InFlight, S3, S2, Encoded

LEMMA OwnedOnce ==
    ASSUME StructInv, LineInv, OwnInv
    PROVE  \A i \in Idx :
              frames[i] = Cardinality({p \in 1 .. Len(WithFrames) : WithFrames[p] = i})
<1>1. /\ Ascending(WithFrames)
      /\ \A v \in Nat : (\E p \in 1 .. Len(WithFrames) : WithFrames[p] = v)
                           <=> Among(Place, OwnFrom, 9, v)
      /\ WithFrames \in Seq(Nat)
  BY WithFramesCollects DEF Collects
<1> SUFFICES ASSUME NEW i \in Idx
             PROVE  frames[i] = Cardinality({p \in 1 .. Len(WithFrames) : WithFrames[p] = i})
  OBVIOUS
<1> DEFINE P == {p \in 1 .. Len(WithFrames) : WithFrames[p] = i}
<1>2. i \in Nat
  BY IdxTyped
<1>3. CASE Among(Place, OwnFrom, 9, i)
  <2>1. PICK p \in 1 .. Len(WithFrames) : WithFrames[p] = i
    BY <1>1, <1>2, <1>3
  <2>2. \A r \in 1 .. Len(WithFrames) : WithFrames[r] = i => r = p
    <3> SUFFICES ASSUME NEW r \in 1 .. Len(WithFrames), WithFrames[r] = i PROVE r = p
      OBVIOUS
    <3>1. ~(r < p) /\ ~(p < r)
      BY <1>1, <1>2, <2>1 DEF Ascending
    <3> QED
      BY <3>1
  <2>3. P = {p}
    BY <2>1, <2>2
  <2>4. Cardinality(P) = 1
    BY <2>3, FS_Singleton
  <2> QED
    BY <1>3, <2>4 DEF OwnInv
<1>4. CASE ~Among(Place, OwnFrom, 9, i)
  <2>1. P = {}
    BY <1>1, <1>2, <1>4
  <2>2. Cardinality(P) = 0
    BY <2>1, FS_EmptySet
  <2> QED
    BY <1>4, <2>2 DEF OwnInv
<1> QED
  BY <1>3, <1>4

LEMMA LineInOrder ==
    ASSUME StructInv, LineInv
    PROVE  InOrder
<1>1. \A a, b \in 1 .. Len(InFlight) : a < b => InFlight[a] < InFlight[b]
  BY InFlightCollects DEF Collects, Ascending
<1>2. ASSUME NEW a \in 1 .. Len(q["net"]) PROVE q["net"][a] >= taken
  <2>1. Place[2] = q["net"] /\ Place[2] \in Seq(Nat)
    BY PlaceTyped, PlaceValues DEF Line
  <2>2. Place[2][a] \in Nat
    BY <2>1, ElementOfSeq
  <2>3. Among(Place, 2, 9, Place[2][a])
    BY <2>1 DEF Among
  <2>4. taken <= Place[2][a]
    BY <2>2, <2>3 DEF LineInv
  <2>5. taken \in Int
    BY DEF StructInv
  <2> QED
    BY <2>1, <2>2, <2>4, <2>5
<1> QED
  BY <1>1, <1>2 DEF InOrder

\* Four hands and queues of 2, 1 and 1.
LEMMA AtMostEight ==
    ASSUME StructInv
    PROVE  Len(WithFrames) \in Nat /\ Len(WithFrames) <= 8
<1> DEFINE Front == IF pc["venc"] = "work" THEN InHand("venc") ELSE <<>>
           S4 == Front \o q["venc"]
           S5 == S4 \o InHand("npu")
           S6 == S5 \o q["npu"]
           S7 == S6 \o InHand("cve")
           S8 == S7 \o q["vproc"]
\* A sequence of at most m items and one of at most n.
<1>1. ASSUME NEW s \in Seq(Nat), NEW t \in Seq(Nat), NEW m \in Nat, NEW n \in Nat,
             Len(s) <= m, Len(t) <= n
      PROVE  s \o t \in Seq(Nat) /\ Len(s \o t) <= m + n
  <2>1. Len(s \o t) = Len(s) + Len(t) /\ s \o t \in Seq(Nat)
    BY ConcatProperties
  <2>2. Len(s) \in Nat /\ Len(t) \in Nat
    BY LenProperties
  <2> QED
    BY <1>1, <2>1, <2>2
<1>2. /\ Place[3] \in Seq(Nat) /\ Place[4] \in Seq(Nat) /\ Place[5] \in Seq(Nat)
      /\ Place[6] \in Seq(Nat) /\ Place[7] \in Seq(Nat) /\ Place[8] \in Seq(Nat)
      /\ Place[9] \in Seq(Nat)
  <2>1. \A a \in 1 .. 9 : Place[a] \in Seq(Nat)
    BY PlaceTyped DEF Line
  <2>2. \A a \in {3, 4, 5, 6, 7, 8, 9} : a \in 1 .. 9
    OBVIOUS
  <2> QED
    BY <2>1, <2>2, Zenon
<1>3. /\ q["venc"] \in Seq(Nat) /\ Len(q["venc"]) <= 2
      /\ q["npu"] \in Seq(Nat) /\ Len(q["npu"]) <= 1
      /\ q["vproc"] \in Seq(Nat) /\ Len(q["vproc"]) <= 1
  <2>1. q["venc"] \in Seq(Nat) /\ q["npu"] \in Seq(Nat) /\ q["vproc"] \in Seq(Nat)
    BY <1>2, PlaceValues, Zenon
  <2>2. "venc" \in Queues /\ "npu" \in Queues /\ "vproc" \in Queues
    BY DEF Queues
  <2>3. Depth("venc") = 2 /\ Depth("npu") = 1 /\ Depth("vproc") = 1
    BY DEF Depth
  <2>4. \A k \in Queues : Len(q[k]) <= Depth(k)
    BY DEF StructInv
  <2>5. Len(q["venc"]) <= 2 /\ Len(q["npu"]) <= 1 /\ Len(q["vproc"]) <= 1
    BY <2>2, <2>3, <2>4
  <2> QED
    BY <2>1, <2>5
<1>4. \A s \in Stages : Len(InHand(s)) <= 1
  BY DEF InHand
<1>5. /\ InHand("npu") \in Seq(Nat) /\ Len(InHand("npu")) <= 1
      /\ InHand("cve") \in Seq(Nat) /\ Len(InHand("cve")) <= 1
      /\ InHand("get_frm") \in Seq(Nat) /\ Len(InHand("get_frm")) <= 1
  BY <1>2, <1>4, PlaceValues, Zenon DEF Stages
<1>6. Front \in Seq(Nat) /\ Len(Front) <= 1
  <2>1. InHand("venc") \in Seq(Nat) /\ Len(InHand("venc")) <= 1
    BY <1>2, <1>4, PlaceValues DEF Stages
  <2>2. <<>> \in Seq(Nat) /\ Len(<<>>) <= 1
    BY EmptySeq
  <2> QED
    BY <2>1, <2>2
<1> HIDE DEF Front
<1>7. S4 \in Seq(Nat) /\ Len(S4) <= 1 + 2
  BY <1>1, <1>3, <1>6
<1> HIDE DEF S4
<1>8. S5 \in Seq(Nat) /\ Len(S5) <= 3 + 1
  BY <1>1, <1>5, <1>7
<1> HIDE DEF S5
<1>9. S6 \in Seq(Nat) /\ Len(S6) <= 4 + 1
  BY <1>1, <1>3, <1>8
<1> HIDE DEF S6
<1>10. S7 \in Seq(Nat) /\ Len(S7) <= 5 + 1
  BY <1>1, <1>5, <1>9
<1> HIDE DEF S7
<1>11. S8 \in Seq(Nat) /\ Len(S8) <= 6 + 1
  BY <1>1, <1>3, <1>10
<1> HIDE DEF S8
<1>12. /\ S8 \o InHand("get_frm") \in Seq(Nat)
       /\ Len(S8 \o InHand("get_frm")) <= 7 + 1
  BY <1>1, <1>5, <1>11
<1>13. WithFrames = S8 \o InHand("get_frm")
  BY DEF WithFrames, S8, S7, S6, S5, S4, Front
<1> QED
  BY <1>12, <1>13, LenProperties

-----------------------------------------------------------------------------
(* stereo_queue_destroy.                                                   *)

\* Nothing but the last pthread_join changes what is leaked.
LEMMA NextLeaked ==
    ASSUME [Next]_vars, StructInv
    PROVE  \/ UNCHANGED leaked /\ (joining' = 6 <=> joining = 6)
           \/ Join /\ joining = 5 /\ joining' = 6
<1>1. \/ UNCHANGED <<leaked, joining>>
      \/ Shutdown \/ Join
  BY DEF Next, GetFrm, GetFrmAlloc, GetFrmExit, GetFrmAcquire, GetFrmNoFrame,
         GetFrmCheck, GetFrmPush, GetFrmDrop, Cve, CvePop, PopTimeout, Exit,
         CveProcess, CveFail, CvePush, CveDrop, Npu, NpuPop, NpuInfer, NpuFail,
         NpuPush, NpuDrop, Venc, VencPop, VencNoMemory, VencEncode, VencFail,
         VencPush, VencDrop, Net, NetIdle, NetDrain, NetDrained, NetPop, NetSend,
         ClientKnocks, ClientGoes, Finished, vars
<1>2. CASE Shutdown
  BY <1>2 DEF Shutdown
<1>3. CASE Join
  BY <1>3 DEF Join
<1> QED
  BY <1>1, <1>2, <1>3

\* No thread is left after the last join: only clients still come and go.
LEMMA NextClosed ==
    ASSUME StructInv, JoinInv, joining = 6, [Next]_vars
    PROVE  /\ UNCHANGED <<q, pc, hold, run, joining, frame_cnt, frames, heap, lost,
                          leaked, taken>>
           /\ client' \in {"none", "knocking", "open", "gone"}
<1>1. \A s \in Stages : pc[s] = "exit"
  BY StopOrderIs DEF JoinInv, Stages
<1>2. /\ pc["get_frm"] = "exit" /\ pc["cve"] = "exit" /\ pc["npu"] = "exit"
      /\ pc["venc"] = "exit" /\ pc["net"] = "exit"
  BY <1>1 DEF Stages
<1>3. ~GetFrm
  BY <1>2 DEF GetFrm, GetFrmAlloc, GetFrmExit, GetFrmAcquire, GetFrmNoFrame,
              GetFrmCheck, GetFrmPush, GetFrmDrop
<1>4. ~Cve
  BY <1>2 DEF Cve, CvePop, PopTimeout, Exit, CveProcess, CveFail, CvePush, CveDrop, Pop
<1>5. ~Npu
  BY <1>2 DEF Npu, NpuPop, PopTimeout, Exit, NpuInfer, NpuFail, NpuPush, NpuDrop, Pop
<1>6. ~Venc
  BY <1>2 DEF Venc, VencPop, PopTimeout, Exit, VencNoMemory, VencEncode, VencFail,
              VencPush, VencDrop, Pop
<1>7. ~Net
  BY <1>2 DEF Net, NetIdle, NetDrain, NetDrained, NetPop, NetSend, PopTimeout, Exit, Pop
<1>8. ClientKnocks \/ ClientGoes \/ UNCHANGED vars
  BY <1>3, <1>4, <1>5, <1>6, <1>7 DEF Next, Shutdown, Join, Finished
<1> QED
  BY <1>8 DEF ClientKnocks, ClientGoes, vars, StructInv

LEMMA NextStaysClosed ==
    ASSUME StructInv, JoinInv, joining = 6, [Next]_vars, Closed
    PROVE  Closed'
<1>1. /\ UNCHANGED <<q, pc, hold, run, joining, frame_cnt, frames, heap, lost, leaked, taken>>
      /\ client' \in {"none", "knocking", "open", "gone"}
  BY NextClosed
<1>2. TypeOK'
  BY <1>1 DEF Closed, TypeOK
<1>3. UNCHANGED WithFrames /\ UNCHANGED InFlight /\ UNCHANGED Owners
  BY <1>1 DEF WithFrames, InFlight, Owners, InHand, HasItem
<1>4. FramesOwned' /\ InOrder'
  BY <1>1, <1>3 DEF Closed, FramesOwned, InOrder
<1>5. HeapAccounted'
  BY <1>1 DEF Closed, HeapAccounted
<1> QED
  BY <1>2, <1>4, <1>5 DEF Closed

\* Concatenations with nothing.
LEMMA NothingConcat ==
    ASSUME NEW S, NEW s \in Seq(S)
    PROVE  s \o <<>> = s /\ <<>> \o s = s
  BY ConcatEmptySeq

\* Nothing has been leaked while the pipeline is open.
LEMMA OpenOwned ==
    ASSUME StructInv, Open
    PROVE  FramesOwned
<1>1. leaked["venc"] = <<>> /\ leaked["npu"] = <<>> /\ leaked["vproc"] = <<>>
  BY DEF Open, NoItems, Queues
<1>2. WithFrames \in Seq(Nat)
  BY WithFramesCollects DEF Open, Collects
<1>3. WithFrames \o <<>> = WithFrames
  BY <1>2, NothingConcat
<1>4. Owners = WithFrames
  BY <1>1, <1>3 DEF Owners
<1> QED
  BY <1>4, OwnedOnce DEF Open, FramesOwned

LEMMA OpenHeap ==
    ASSUME StructInv, Open
    PROVE  HeapAccounted
<1>1. \A k \in Queues : Len(leaked[k]) = 0
  BY DEF Open, NoItems
<1>2. /\ Len(leaked["vproc"]) = 0 /\ Len(leaked["npu"]) = 0
      /\ Len(leaked["venc"]) = 0 /\ Len(leaked["net"]) = 0
  BY <1>1 DEF Queues
<1> QED
  BY <1>2, CountsTyped DEF Open, HeapHeld, HeapAccounted, One

LEMMA OpenTyped ==
    ASSUME StructInv, Open
    PROVE  TypeOK
<1>1. frames \in [Idx -> Nat]
  BY DEF StructInv, Open, OwnInv
<1>2. heap \in [Kinds -> Nat]
  <2>1. \A k \in Queues : Len(q[k]) \in Nat
    BY LenProperties DEF StructInv
  <2>2. /\ heap["pair"] \in Nat /\ heap["npu_in"] \in Nat /\ heap["out"] \in Nat
        /\ heap["venc_out"] \in Nat
    <3>1. /\ Works("cve") \in Nat /\ Works("npu") \in Nat /\ Works("venc") \in Nat
          /\ Pushes("cve") \in Nat /\ Pushes("npu") \in Nat /\ Pushes("venc") \in Nat
          /\ Filling \in Nat /\ Sending \in Nat
      BY DEF Works, Pushes, Filling, Sending, One
    <3>2. /\ Len(q["vproc"]) \in Nat /\ Len(q["npu"]) \in Nat
          /\ Len(q["venc"]) \in Nat /\ Len(q["net"]) \in Nat
      BY <2>1 DEF Queues
    <3>3. PairCount /\ NpuInCount /\ OutCount /\ VencOutCount
      BY CountsHold DEF Open
    <3>4. heap["pair"] \in Nat
      BY <3>1, <3>2, <3>3, SMTT(30) DEF PairCount
    <3>5. heap["npu_in"] \in Nat
      BY <3>1, <3>2, <3>3, SMTT(30) DEF NpuInCount
    <3>6. heap["out"] \in Nat
      BY <3>1, <3>2, <3>3, SMTT(30) DEF OutCount
    <3>7. heap["venc_out"] \in Nat
      BY <3>1, <3>2, <3>3, SMTT(30) DEF VencOutCount
    <3> QED
      BY <3>4, <3>5, <3>6, <3>7
  <2>3. heap["disparity"] \in Nat
    BY <2>2 DEF Open, HeapHeld, StructInv
  <2> QED
    BY <2>2, <2>3 DEF StructInv, Kinds
<1> QED
  BY <1>1, <1>2 DEF StructInv, Open, NoItems, TypeOK

\* The last join: no thread holds anything, so what has frames is what is queued.
LEMMA ShutsDown ==
    ASSUME StructInv, StructInv', JoinInv, Open, Join, joining = 5
    PROVE  Closed'
<1>1. \A s \in Stages : pc[s] = "exit"
  BY StopOrderIs DEF JoinInv, Join, Joined, Stages
<1>2. \A s \in Stages : ~HasItem(s) /\ InHand(s) = <<>>
  BY <1>1 DEF StructInv, InHand
<1>3. /\ UNCHANGED <<pc, hold, frame_cnt, frames, heap, lost, client, taken>>
      /\ leaked' = q /\ joining' = 6
      /\ \A k \in Queues : q'[k] = <<>>
  BY DEF Join, NoItems
<1>4. \A s \in Stages : InHand(s)' = <<>>
  BY <1>2, <1>3 DEF InHand, HasItem
<1>5. /\ q'["vproc"] = <<>> /\ q'["npu"] = <<>> /\ q'["venc"] = <<>> /\ q'["net"] = <<>>
      /\ InHand("get_frm") = <<>> /\ InHand("cve") = <<>> /\ InHand("npu") = <<>>
      /\ InHand("venc") = <<>> /\ InHand("net") = <<>>
      /\ InHand("get_frm")' = <<>> /\ InHand("cve")' = <<>> /\ InHand("npu")' = <<>>
      /\ InHand("venc")' = <<>> /\ InHand("net")' = <<>>
  BY <1>2, <1>3, <1>4 DEF Queues, Stages
<1>6. q["venc"] \in Seq(Idx) /\ q["npu"] \in Seq(Idx) /\ q["vproc"] \in Seq(Idx)
  BY DEF StructInv, Queues
<1>7. <<>> \o <<>> = <<>>
  BY EmptySeq, NothingConcat
<1>8. WithFrames' = <<>>
  BY <1>5, <1>7 DEF WithFrames
<1>9. WithFrames = q["venc"] \o q["npu"] \o q["vproc"]
  <2>1. (IF pc["venc"] = "work" THEN InHand("venc") ELSE <<>>) = <<>>
    BY <1>5
  <2>2. /\ q["venc"] \o q["npu"] \in Seq(Idx)
        /\ (q["venc"] \o q["npu"]) \o q["vproc"] \in Seq(Idx)
    BY <1>6, ConcatProperties
  <2>3. <<>> \o q["venc"] = q["venc"] /\ q["venc"] \o <<>> = q["venc"]
    BY <1>6, NothingConcat
  <2>4. (q["venc"] \o q["npu"]) \o <<>> = q["venc"] \o q["npu"]
    BY <2>2, NothingConcat
  <2>5. ((q["venc"] \o q["npu"]) \o q["vproc"]) \o <<>> = (q["venc"] \o q["npu"]) \o q["vproc"]
    BY <2>2, NothingConcat
  <2>6. WithFrames = <<>> \o q["venc"] \o <<>> \o q["npu"] \o <<>> \o q["vproc"] \o <<>>
    BY <1>5, <2>1 DEF WithFrames
  <2> QED
    BY <2>3, <2>4, <2>5, <2>6
<1>10. Owners' = WithFrames
  <2>1. <<>> \o q["venc"] = q["venc"]
    BY <1>6, NothingConcat
  <2>2. Owners' = <<>> \o q["venc"] \o q["npu"] \o q["vproc"]
    BY <1>3, <1>8 DEF Owners
  <2> QED
    BY <1>9, <2>1, <2>2
<1>11. FramesOwned'
  BY <1>3, <1>10, OwnedOnce DEF Open, FramesOwned
<1>12. InOrder'
  <2>1. InFlight' = <<>>
    BY <1>5, <1>7, <1>8 DEF InFlight
  <2>2. Len(InFlight') = 0 /\ Len(q'["net"]) = 0
    BY <1>5, <2>1
  <2> QED
    BY <2>2 DEF InOrder
<1>13. HeapAccounted'
  <2>1. /\ Len(q'["vproc"]) = 0 /\ Len(q'["npu"]) = 0 /\ Len(q'["venc"]) = 0
        /\ Len(q'["net"]) = 0
    BY <1>5
  <2>2. /\ pc["get_frm"] = "exit" /\ pc["cve"] = "exit" /\ pc["npu"] = "exit"
        /\ pc["venc"] = "exit" /\ pc["net"] = "exit"
    BY <1>1 DEF Stages
  <2>3. /\ heap["pair"] = Len(q["vproc"]) /\ heap["npu_in"] = Len(q["npu"])
        /\ heap["out"] = Len(q["venc"]) /\ heap["disparity"] = heap["out"] + lost
        /\ heap["venc_out"] = Len(q["net"])
    BY <2>2, CountsTyped DEF Open, HeapHeld, One
  <2>4. heap' = heap /\ lost' = lost /\ pc' = pc /\ leaked' = q
    BY <1>3
  <2>5. \A n \in Int : n = 0 + n + 0 + 0
    OBVIOUS
  <2>6. /\ One(pc'["get_frm"] \in {"acquire", "check", "push"}) = 0
        /\ One(pc'["cve"] = "work") = 0 /\ One(pc'["cve"] = "push") = 0
        /\ One(pc'["npu"] = "work") = 0 /\ One(pc'["npu"] = "push") = 0
        /\ One(pc'["venc"] = "work") = 0 /\ One(pc'["venc"] = "push") = 0
        /\ One(pc'["net"] = "send") = 0
    BY <2>2, <2>4 DEF One
  <2>7. /\ Len(q["vproc"]) \in Int /\ Len(q["npu"]) \in Int
        /\ Len(q["venc"]) \in Int /\ Len(q["net"]) \in Int
    BY CountsTyped
  <2> QED
    BY <2>1, <2>3, <2>4, <2>5, <2>6, <2>7 DEF HeapAccounted
<1>14. TypeOK'
  <2>1. TypeOK
    BY OpenTyped
  <2> QED
    BY <1>3, <2>1 DEF TypeOK, StructInv
<1> QED
  BY <1>11, <1>12, <1>13, <1>14 DEF Closed

-----------------------------------------------------------------------------
(* The theorems.                                                           *)

\* The inductive invariant: the structure of the threads and the joins; before
\* stereo_queue_destroy the order of the line and the owners of the frames and of
\* the heap objects, after it what was left in the queues.
THEOREM Invariance == Spec => []IInv
<1>1. Init => IInv
  <2>1. Init => leaked = NoItems /\ joining = 0
    BY DEF Init
  <2> QED
    BY <2>1, InitStruct, InitJoin, InitHeap, InitLine DEF IInv, Open
<1>2. IInv /\ [Next]_vars => IInv'
  <2> SUFFICES ASSUME IInv, [Next]_vars PROVE IInv'
    OBVIOUS
  <2>1. joining \in 0 .. 6
    BY DEF IInv, StructInv
  <2>2. CASE joining = 6
    <3>1. StructInv' /\ joining' = 6
      BY <2>2, NextClosed DEF IInv, StructInv, HasItem
    <3>2. JoinInv' /\ Closed'
      BY <2>2, NextJoin, NextStaysClosed DEF IInv
    <3> QED
      BY <3>1, <3>2 DEF IInv
  <2>3. CASE joining # 6
    <3>1. Open /\ StructInv /\ JoinInv
      BY <2>1, <2>3 DEF IInv
    <3>2. StructInv' /\ JoinInv'
      BY <3>1, NextStruct, NextJoin DEF Open
    <3>3. joining' \in 0 .. 6
      BY <3>2 DEF StructInv
    <3>4. CASE joining' # 6
      <4>1. leaked' = NoItems
        BY <3>1, <3>4, NextLeaked DEF Open
      <4>2. HeapHeld' /\ LineInv' /\ OwnInv'
        BY <3>1, <3>2, <3>4, NextHeap, NextLine DEF Open
      <4>3. Open'
        BY <4>1, <4>2 DEF Open, NoItems
      <4> QED
        BY <3>2, <3>4, <4>3 DEF IInv
    <3>5. CASE joining' = 6
      <4>1. Join /\ joining = 5
        BY <2>3, <3>1, <3>5, NextLeaked
      <4>2. Closed'
        BY <3>1, <3>2, <4>1, ShutsDown
      <4> QED
        BY <3>2, <3>5, <4>2 DEF IInv
    <3> QED
      BY <3>4, <3>5
  <2> QED
    BY <2>2, <2>3
<1> QED
  BY <1>1, <1>2, PTL DEF Spec

\* No counter of frames or of heap objects goes negative, and no queue of
\* stereo_media.c holds more items than it has slots.
THEOREM TypeCorrect == Spec => []TypeOK
<1>1. IInv => TypeOK
  BY OpenTyped DEF IInv, StructInv, Closed
<1> QED
  BY <1>1, Invariance, PTL

\* Every acquired VPROC pair is owned by exactly one item, on every path of
\* the five threads; a shutdown leaves acquired the pairs of the items that are
\* queued at stereo_queue_destroy.
THEOREM OwnedFrames == Spec => []FramesOwned
<1>1. IInv => FramesOwned
  BY OpenOwned DEF IInv, StructInv, Closed
<1> QED
  BY <1>1, Invariance, PTL

\* The net thread sees the frames in the order in which they were captured.
THEOREM OrderKept == Spec => []InOrder
<1>1. IInv => InOrder
  BY LineInOrder DEF IInv, StructInv, Open, Closed
<1> QED
  BY <1>1, Invariance, PTL

\* Every malloc of the pipeline is freed or held by an item in it; leaked are the
\* disparity maps that stereo_venc_proc abandons and what a shutdown leaves in the
\* queues, nothing else.
THEOREM HeapBalance == Spec => []HeapAccounted
<1>1. IInv => HeapAccounted
  BY OpenHeap DEF IInv, StructInv, Closed
<1> QED
  BY <1>1, Invariance, PTL

\* With the 10 blocks of stereo_user_buf_pool_create, full queues never leave
\* a VPROC channel without a block to capture into.
THEOREM CaptureNeverStarves ==
    ASSUME PoolBlocks >= 10
    PROVE  Spec => []ChannelKeepsABlock
<1>1. IInv => ChannelKeepsABlock
  BY AtMostEight, PipelineAssumption DEF IInv, ChannelKeepsABlock
<1> QED
  BY <1>1, Invariance, PTL

\* stereo_queue_destroy frees slots that no thread uses any more.
THEOREM DestroyIsLast == Spec => []NoUserAtDestroy
<1>1. IInv => NoUserAtDestroy
  BY StopOrderIs DEF IInv, JoinInv, NoUserAtDestroy, Stages
<1> QED
  BY <1>1, Invariance, PTL
=============================================================================
