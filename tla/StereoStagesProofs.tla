------------------------- MODULE StereoStagesProofs -------------------------
(***************************************************************************)
(* StereoStages proved for every number of frames, every depth of a queue,  *)
(* every window of a connection and every set of failures.  Each stage has  *)
(* an inductive invariant of its own; a step of one stage leaves the        *)
(* variables of the others alone.                                           *)
(***************************************************************************)
EXTENDS StereoStages, SequenceTheorems, TLAPS

-----------------------------------------------------------------------------
(* Sequences of numbers that rise.                                         *)

Rising(q)   == \A i, j \in 1 .. Len(q) : i < j => q[i] < q[j]
Above(q, n) == \A i \in 1 .. Len(q) : n < q[i]
UpTo(q, n)  == \A i \in 1 .. Len(q) : q[i] <= n

LEMMA TailRises ==
    ASSUME NEW S, S \subseteq Nat, NEW q \in Seq(S), q # <<>>
    PROVE  /\ Head(q) \in S /\ Tail(q) \in Seq(S) /\ Len(Tail(q)) = Len(q) - 1
           /\ Len(q) \in Nat \ {0}
           /\ Rising(q) => Rising(Tail(q)) /\ Above(Tail(q), Head(q))
           /\ \A n \in Nat : Above(q, n) => n < Head(q) /\ Above(Tail(q), n)
           /\ \A n \in Nat : UpTo(q, n) => Head(q) <= n /\ UpTo(Tail(q), n)
<1>1. /\ Len(q) \in Nat \ {0} /\ Head(q) = q[1]
      /\ Tail(q) \in Seq(S) /\ Len(Tail(q)) = Len(q) - 1
      /\ \A k \in 1 .. Len(Tail(q)) : Tail(q)[k] = q[k + 1]
  BY HeadTailProperties, EmptySeq
<1>2. Head(q) \in S
  BY <1>1
<1>3. \A k \in 1 .. Len(q) - 1 : k + 1 \in 1 .. Len(q) /\ Tail(q)[k] = q[k + 1] /\ 1 < k + 1
  BY <1>1
<1>4. 1 \in 1 .. Len(q)
  BY <1>1
<1>5. ASSUME Rising(q) PROVE Rising(Tail(q)) /\ Above(Tail(q), Head(q))
  <2>1. \A i, j \in 1 .. Len(Tail(q)) : i < j => Tail(q)[i] < Tail(q)[j]
    BY <1>1, <1>3, <1>5 DEF Rising
  <2>2. \A i \in 1 .. Len(Tail(q)) : Head(q) < Tail(q)[i]
    BY <1>1, <1>3, <1>4, <1>5 DEF Rising
  <2> QED
    BY <2>1, <2>2 DEF Rising, Above
<1>6. \A n \in Nat : Above(q, n) => n < Head(q) /\ Above(Tail(q), n)
  BY <1>1, <1>3, <1>4 DEF Above
<1>7. \A n \in Nat : UpTo(q, n) => Head(q) <= n /\ UpTo(Tail(q), n)
  BY <1>1, <1>3, <1>4 DEF UpTo
<1> QED
  BY <1>1, <1>2, <1>5, <1>6, <1>7

LEMMA AppendRises ==
    ASSUME NEW S, S \subseteq Nat, NEW q \in Seq(S), NEW m \in S
    PROVE  /\ Append(q, m) \in Seq(S) /\ Len(Append(q, m)) = Len(q) + 1
           /\ Append(q, m) # <<>>
           /\ Rising(q) /\ (\E n \in Nat : UpTo(q, n) /\ n < m) => Rising(Append(q, m))
           /\ \A n \in Nat : Above(q, n) /\ n < m => Above(Append(q, m), n)
           /\ \A n \in Nat : UpTo(q, n) /\ n <= m => UpTo(Append(q, m), m)
<1>1. /\ Append(q, m) \in Seq(S) /\ Len(Append(q, m)) = Len(q) + 1 /\ Len(q) \in Nat
      /\ \A k \in 1 .. Len(q) : Append(q, m)[k] = q[k]
      /\ Append(q, m)[Len(q) + 1] = m
  BY AppendProperties
<1>2. \A k \in 1 .. Len(q) + 1 : k = Len(q) + 1 \/ k \in 1 .. Len(q)
  BY <1>1
<1>3. \A k \in 1 .. Len(q) : q[k] \in Nat
  BY ElementOfSeq
<1>4. ASSUME Rising(q), NEW n \in Nat, UpTo(q, n), n < m PROVE Rising(Append(q, m))
  <2> SUFFICES ASSUME NEW i \in 1 .. Len(q) + 1, NEW j \in 1 .. Len(q) + 1, i < j
               PROVE  Append(q, m)[i] < Append(q, m)[j]
    BY <1>1 DEF Rising
  <2>1. i \in 1 .. Len(q) /\ Append(q, m)[i] = q[i]
    BY <1>1
  <2>2. CASE j = Len(q) + 1
    BY <2>1, <2>2, <1>1, <1>3, <1>4 DEF UpTo
  <2>3. CASE j \in 1 .. Len(q)
    BY <2>1, <2>3, <1>1, <1>4 DEF Rising
  <2> QED
    BY <2>2, <2>3, <1>2
<1>5. \A n \in Nat : Above(q, n) /\ n < m => Above(Append(q, m), n)
  BY <1>1, <1>2 DEF Above
<1>6. \A n \in Nat : UpTo(q, n) /\ n <= m => UpTo(Append(q, m), m)
  BY <1>1, <1>2, <1>3 DEF UpTo
<1> QED
  BY <1>1, <1>4, <1>5, <1>6, EmptySeq

-----------------------------------------------------------------------------
(* "pair"                                                                  *)

\* Which frames the thread has, where.
PairShape ==
    /\ p_pc \in {"stale", "acquire_left", "exit"} => p_pair = P!NoPair
    /\ p_pc = "acquire_right" => p_pair["left"] # 0 /\ p_pair["right"] = 0
    /\ p_pc \in {"drain", "drain_right", "decide", "check", "push"} =>
         \A s \in P!Sides : p_pair[s] # 0
    /\ p_pc \notin {"drain_right", "decide"} => p_new = P!NoPair
    /\ p_pc = "drain_right" => p_new["right"] = 0

\* From the frame last handed on to the channel and the sensor, the indices rise.
PairOrder ==
    \A s \in P!Sides :
        /\ Rising(p_chan[s]) /\ UpTo(p_chan[s], p_made[s])
        /\ \A n \in {0, p_pushed[s], p_pair[s], p_new[s]} :
             n <= p_made[s] /\ Above(p_chan[s], n)
        /\ p_pair[s] # 0 => p_pair[s] > p_pushed[s]
        /\ p_new[s] # 0 => p_new[s] > p_pair[s] /\ p_new[s] > p_pushed[s]

PInv == P!TypeOK /\ P!FramesAccounted /\ PairShape /\ PairOrder

\* A channel at the start: the sensor may have delivered its first frame.
FirstFrame == <<1>>
AtStart    == {<<>>, FirstFrame}

LEMMA PInit == P!Init => PInv
<1> SUFFICES ASSUME P!Init PROVE PInv
  OBVIOUS
<1>1. \A s \in P!Sides : p_chan[s] \in AtStart /\ p_made[s] = Len(p_chan[s])
  BY DEF P!Init, AtStart, FirstFrame
<1>2. ASSUME NEW q \in AtStart
      PROVE  /\ q \in Seq(1 .. MaxIndex) /\ Len(q) \in {0, 1}
             /\ Rising(q) /\ UpTo(q, Len(q)) /\ Above(q, 0)
  <2>1. CASE q = <<>>
    <3>1. q \in Seq(1 .. MaxIndex) /\ Len(q) = 0
      BY <2>1
    <3> QED
      BY <3>1 DEF Rising, UpTo, Above
  <2>2. CASE q = FirstFrame
    <3>1. 1 \in 1 .. MaxIndex
      BY StagesAssumption
    <3>2. q \in Seq(1 .. MaxIndex) /\ Len(q) = 1 /\ q[1] = 1
      BY <2>2, <3>1 DEF FirstFrame
    <3> QED
      BY <3>2 DEF Rising, UpTo, Above
  <2> QED
    BY <2>1, <2>2 DEF AtStart
<1>3. P!TypeOK
  <2>1. p_chan \in [P!Sides -> Seq(1 .. MaxIndex)]
    BY <1>2 DEF P!Init, AtStart, FirstFrame
  <2>2. \A s \in P!Sides : p_made[s] \in {0, 1} /\ Len(p_chan[s]) \in {0, 1}
    BY <1>1, <1>2
  <2>3. p_made = [s \in P!Sides |-> Len(p_chan[s])] /\ 0 \in 0 .. MaxIndex /\ 1 \in 0 .. MaxIndex
    BY StagesAssumption DEF P!Init
  <2>4. p_made \in [P!Sides -> 0 .. MaxIndex]
    BY <2>2, <2>3
  <2>5. \A s \in P!Sides : Len(p_chan[s]) <= Depth
    <3>1. 0 <= Depth /\ 1 <= Depth
      BY StagesAssumption
    <3> SUFFICES ASSUME NEW s \in P!Sides PROVE Len(p_chan[s]) <= Depth
      OBVIOUS
    <3>2. Len(p_chan[s]) \in {0, 1}
      BY <2>2
    <3> QED
      BY <3>1, <3>2
  <2>6. P!NoPair \in [P!Sides -> 0 .. MaxIndex]
    BY <2>3 DEF P!NoPair
  <2> QED
    BY <2>1, <2>4, <2>5, <2>6 DEF P!Init, P!TypeOK
<1>4. P!FramesAccounted /\ PairShape
  BY DEF P!Init, P!FramesAccounted, P!One, PairShape, P!NoPair, P!Sides
<1>5. PairOrder
  <2> SUFFICES ASSUME NEW s \in P!Sides
               PROVE  /\ Rising(p_chan[s]) /\ UpTo(p_chan[s], p_made[s])
                      /\ p_made[s] \in Nat /\ Above(p_chan[s], 0)
    BY DEF PairOrder, P!Init, P!NoPair
  <2>1. p_chan[s] \in AtStart /\ p_made[s] = Len(p_chan[s])
    BY <1>1
  <2>2. Len(p_chan[s]) \in {0, 1} /\ UpTo(p_chan[s], Len(p_chan[s]))
    BY <2>1, <1>2
  <2> QED
    BY <2>1, <2>2, <1>2
<1> QED
  BY <1>3, <1>4, <1>5 DEF PInv

LEMMA PStaleDone == PInv /\ P!StaleDone => PInv'
  BY DEF P!StaleDone, PInv, P!TypeOK, P!FramesAccounted, P!One, PairShape, PairOrder, P!Sides,
     P!NoPair, P!vars, P!Top, P!Continue

LEMMA PNoLeft == PInv /\ P!NoLeft => PInv'
  BY DEF P!NoLeft, PInv, P!TypeOK, P!FramesAccounted, P!One, PairShape, PairOrder, P!Sides,
     P!NoPair, P!vars, P!Top, P!Continue

LEMMA PNoRight == PInv /\ P!NoRight => PInv'
  BY DEF P!NoRight, PInv, P!TypeOK, P!FramesAccounted, P!One, PairShape, PairOrder, P!Sides,
     P!NoPair, P!vars, P!Top, P!Continue

LEMMA PDrainStopped == PInv /\ P!DrainStopped => PInv'
  BY DEF P!DrainStopped, PInv, P!TypeOK, P!FramesAccounted, P!One, PairShape, PairOrder, P!Sides,
     P!NoPair, P!vars, P!Top, P!Continue

LEMMA PDecideBoth == PInv /\ P!DecideBoth => PInv'
<1> SUFFICES ASSUME PInv, P!DecideBoth PROVE PInv'
  OBVIOUS
<1>1. \A s \in P!Sides : p_pair[s] # 0 /\ p_new[s] # 0 /\ p_out[s] = 2
  BY DEF P!DecideBoth, PInv, PairShape, P!FramesAccounted, P!One, P!Sides
<1>2. \A s \in P!Sides : p_out'[s] = 1 /\ p_pair'[s] = p_new[s] /\ p_new'[s] = 0
  BY <1>1 DEF P!DecideBoth, P!NoPair
<1>5. P!TypeOK'
  BY <1>1, StagesAssumption DEF P!DecideBoth, PInv, P!TypeOK, P!NoPair
<1>6. P!FramesAccounted'
  BY <1>1, <1>2 DEF P!FramesAccounted, P!One
<1>3. PairShape'
  BY <1>1 DEF P!DecideBoth, PInv, PairShape
<1>4. PairOrder'
  <2> SUFFICES ASSUME NEW s \in P!Sides
               PROVE  /\ p_pushed[s] <= p_made[s] /\ Above(p_chan[s], p_pushed[s])
                      /\ p_new[s] <= p_made[s] /\ Above(p_chan[s], p_new[s])
                      /\ 0 <= p_made[s] /\ Above(p_chan[s], 0)
                      /\ p_new[s] > p_pushed[s]
                      /\ Rising(p_chan[s]) /\ UpTo(p_chan[s], p_made[s])
    BY <1>2 DEF PairOrder, P!DecideBoth
  <2> QED
    BY <1>1 DEF PInv, PairOrder, P!TypeOK
<1> QED
  BY <1>3, <1>4, <1>5, <1>6 DEF PInv

LEMMA PDecideNone == PInv /\ P!DecideNone => PInv'
  BY DEF P!DecideNone, PInv, P!TypeOK, P!FramesAccounted, P!One, PairShape, PairOrder, P!Sides,
     P!NoPair, P!vars, P!Top, P!Continue

LEMMA PCheckStopped == PInv /\ P!CheckStopped => PInv'
  BY DEF P!CheckStopped, PInv, P!TypeOK, P!FramesAccounted, P!One, PairShape, PairOrder, P!Sides,
     P!NoPair, P!vars, P!Top, P!Continue

LEMMA PCheck == PInv /\ P!Check => PInv'
  BY DEF P!Check, PInv, P!TypeOK, P!FramesAccounted, P!One, PairShape, PairOrder, P!Sides,
     P!NoPair, P!vars, P!Top, P!Continue

LEMMA PPush == PInv /\ P!Push => PInv'
  BY DEF P!Push, PInv, P!TypeOK, P!FramesAccounted, P!One, PairShape, PairOrder, P!Sides,
     P!NoPair, P!vars, P!Top, P!Continue

LEMMA PExit == PInv /\ P!Exit => PInv'
  BY DEF P!Exit, PInv, P!TypeOK, P!FramesAccounted, P!One, PairShape, PairOrder, P!Sides,
     P!NoPair, P!vars, P!Top, P!Continue

LEMMA PStop == PInv /\ P!Stop => PInv'
<1> SUFFICES ASSUME PInv, P!Stop PROVE PInv'
  OBVIOUS
<1>1. P!TypeOK' /\ P!FramesAccounted'
  BY DEF P!Stop, PInv, P!TypeOK, P!FramesAccounted, P!One
<1>2. PairShape'
  BY DEF P!Stop, PInv, PairShape
<1>3. PairOrder'
  BY DEF P!Stop, PInv, PairOrder
<1> QED
  BY <1>1, <1>2, <1>3 DEF PInv

\* What holds when the oldest frame of side s is taken.
TakenFrom(s) ==
    /\ p_chan' \in [P!Sides -> Seq(1 .. MaxIndex)]
    /\ \A r \in P!Sides : Len(p_chan'[r]) <= Depth
    /\ Head(p_chan[s]) \in 1 .. MaxIndex /\ Head(p_chan[s]) <= p_made[s]
    /\ \A n \in {0, p_pushed[s], p_pair[s], p_new[s]} : n < Head(p_chan[s])
    /\ \A r \in P!Sides :
         /\ Rising(p_chan'[r]) /\ UpTo(p_chan'[r], p_made[r])
         /\ \A n \in {0, p_pushed[r], p_pair[r], p_new[r]} :
              n <= p_made[r] /\ Above(p_chan'[r], n)
    /\ Above(p_chan'[s], Head(p_chan[s]))

LEMMA PTaken ==
    ASSUME PInv, NEW s \in P!Sides, p_chan[s] # <<>>,
           p_chan' = [p_chan EXCEPT ![s] = Tail(@)]
    PROVE  TakenFrom(s)
<1>1. /\ p_chan \in [P!Sides -> Seq(1 .. MaxIndex)] /\ p_made[s] \in Nat
      /\ \A n \in {0, p_pushed[s], p_pair[s], p_new[s]} : n \in Nat
      /\ \A r \in P!Sides : Len(p_chan[r]) <= Depth
  BY DEF PInv, P!TypeOK
<1>2. p_chan[s] \in Seq(1 .. MaxIndex) /\ Len(p_chan[s]) <= Depth /\ Depth \in Nat
  BY <1>1, StagesAssumption
<1>3. /\ Rising(p_chan[s]) /\ UpTo(p_chan[s], p_made[s])
      /\ \A n \in {0, p_pushed[s], p_pair[s], p_new[s]} :
           n <= p_made[s] /\ Above(p_chan[s], n)
  BY DEF PInv, PairOrder
<1>4. /\ Head(p_chan[s]) \in 1 .. MaxIndex /\ Tail(p_chan[s]) \in Seq(1 .. MaxIndex)
      /\ Len(Tail(p_chan[s])) = Len(p_chan[s]) - 1 /\ Len(p_chan[s]) \in Nat \ {0}
      /\ Rising(Tail(p_chan[s])) /\ Above(Tail(p_chan[s]), Head(p_chan[s]))
      /\ Head(p_chan[s]) <= p_made[s] /\ UpTo(Tail(p_chan[s]), p_made[s])
      /\ \A n \in {0, p_pushed[s], p_pair[s], p_new[s]} :
           n < Head(p_chan[s]) /\ Above(Tail(p_chan[s]), n)
  <2>1. 1 .. MaxIndex \subseteq Nat
    OBVIOUS
  <2>2. \A n \in {0, p_pushed[s], p_pair[s], p_new[s]} : n \in Nat /\ Above(p_chan[s], n)
    BY <1>1, <1>3
  <2>3. /\ Head(p_chan[s]) \in 1 .. MaxIndex /\ Tail(p_chan[s]) \in Seq(1 .. MaxIndex)
        /\ Len(Tail(p_chan[s])) = Len(p_chan[s]) - 1 /\ Len(p_chan[s]) \in Nat \ {0}
        /\ Rising(Tail(p_chan[s])) /\ Above(Tail(p_chan[s]), Head(p_chan[s]))
    BY <1>2, <1>3, <2>1, TailRises
  <2>4. \A n \in Nat : Above(p_chan[s], n) =>
                          n < Head(p_chan[s]) /\ Above(Tail(p_chan[s]), n)
    BY <1>2, <2>1, TailRises
  <2>5. Head(p_chan[s]) <= p_made[s] /\ UpTo(Tail(p_chan[s]), p_made[s])
    BY <1>1, <1>2, <1>3, <2>1, TailRises
  <2> QED
    BY <2>2, <2>3, <2>4, <2>5
<1>5. p_chan'[s] = Tail(p_chan[s]) /\ \A r \in P!Sides \ {s} : p_chan'[r] = p_chan[r]
  BY <1>1
<1>6. \A r \in P!Sides \ {s} :
        /\ Rising(p_chan[r]) /\ UpTo(p_chan[r], p_made[r])
        /\ \A n \in {0, p_pushed[r], p_pair[r], p_new[r]} :
             n <= p_made[r] /\ Above(p_chan[r], n)
  BY DEF PInv, PairOrder
<1>7. p_chan' \in [P!Sides -> Seq(1 .. MaxIndex)]
  BY <1>1, <1>4
<1>8. \A r \in P!Sides : Len(p_chan'[r]) <= Depth
  BY <1>1, <1>2, <1>4, <1>5
<1>9. \A r \in P!Sides :
        /\ Rising(p_chan'[r]) /\ UpTo(p_chan'[r], p_made[r])
        /\ \A n \in {0, p_pushed[r], p_pair[r], p_new[r]} :
             n <= p_made[r] /\ Above(p_chan'[r], n)
  BY <1>3, <1>4, <1>5, <1>6
<1> QED
  BY <1>4, <1>5, <1>7, <1>8, <1>9 DEF TakenFrom

LEMMA PDeliver ==
    ASSUME NEW s \in P!Sides
    PROVE  PInv /\ P!Deliver(s) => PInv'
<1> SUFFICES ASSUME PInv, P!Deliver(s) PROVE PInv'
  OBVIOUS
<1>0. 1 .. MaxIndex \subseteq Nat
  OBVIOUS
<1>1. PICK q \in P!Filled(s) : p_chan' = [p_chan EXCEPT ![s] = q]
  BY DEF P!Deliver
<1>2. /\ p_made[s] \in Nat /\ p_made[s] < MaxIndex /\ MaxIndex \in Nat
      /\ p_made' = [p_made EXCEPT ![s] = @ + 1]
      /\ UNCHANGED <<p_pair, p_new, p_out, p_pc, p_run, p_pushed>>
  BY StagesAssumption DEF P!Deliver, PInv, P!TypeOK
<1>3. /\ p_chan[s] \in Seq(1 .. MaxIndex) /\ Len(p_chan[s]) <= Depth
      /\ Depth \in Nat \ {0} /\ p_made[s] + 1 \in 1 .. MaxIndex
      /\ p_made[s] < p_made[s] + 1
  BY <1>2, StagesAssumption DEF PInv, P!TypeOK
<1>4. /\ Rising(p_chan[s]) /\ UpTo(p_chan[s], p_made[s])
      /\ \A n \in {0, p_pushed[s], p_pair[s], p_new[s]} :
           n \in Nat /\ n <= p_made[s] /\ Above(p_chan[s], n)
  BY DEF PInv, PairOrder, P!TypeOK
<1> DEFINE Good(f) ==
        /\ f \in Seq(1 .. MaxIndex) /\ Len(f) <= Depth
        /\ Rising(f) /\ UpTo(f, p_made[s] + 1)
        /\ \A n \in {0, p_pushed[s], p_pair[s], p_new[s]} : Above(f, n)
<1>5. ASSUME NEW f \in Seq(1 .. MaxIndex), Len(f) < Depth, Rising(f), UpTo(f, p_made[s]),
             \A n \in {0, p_pushed[s], p_pair[s], p_new[s]} : Above(f, n)
      PROVE  Good(Append(f, p_made[s] + 1))
  <2>1. \A n \in {0, p_pushed[s], p_pair[s], p_new[s]} : n \in Nat /\ n < p_made[s] + 1
    BY <1>2, <1>4
  <2>2. Len(f) \in Nat
    BY <1>5
  <2> DEFINE a == Append(f, p_made[s] + 1)
  <2>3. a \in Seq(1 .. MaxIndex) /\ Len(a) <= Depth
    BY <1>3, <1>5, <2>2, AppendProperties
  <2>4. Rising(a) /\ UpTo(a, p_made[s] + 1)
    BY <1>2, <1>3, <1>5, <1>0, AppendRises
  <2>5. \A n \in {0, p_pushed[s], p_pair[s], p_new[s]} : Above(a, n)
    <3>1. \A n \in Nat : Above(f, n) /\ n < p_made[s] + 1 => Above(a, n)
      BY <1>0, <1>3, <1>5, AppendRises
    <3> QED
      BY <2>1, <1>5, <3>1
  <2> QED
    BY <2>3, <2>4, <2>5
<1>6. Good(q)
  <2>1. CASE Len(p_chan[s]) < Depth
    <3>1. q = Append(p_chan[s], p_made[s] + 1)
      BY <1>1, <2>1 DEF P!Filled
    <3> QED
      BY <3>1, <2>1, <1>3, <1>4, <1>5
  <2>2. CASE ~(Len(p_chan[s]) < Depth)
    <3>1. q \in {p_chan[s], Append(Tail(p_chan[s]), p_made[s] + 1)}
      BY <1>1, <2>2 DEF P!Filled
    <3>2. p_chan[s] # <<>> /\ Len(p_chan[s]) \in Nat
      BY <1>3, <2>2
    <3>3. /\ Tail(p_chan[s]) \in Seq(1 .. MaxIndex) /\ Len(Tail(p_chan[s])) < Depth
          /\ Rising(Tail(p_chan[s])) /\ UpTo(Tail(p_chan[s]), p_made[s])
          /\ \A n \in {0, p_pushed[s], p_pair[s], p_new[s]} : Above(Tail(p_chan[s]), n)
      <4>1. Len(Tail(p_chan[s])) = Len(p_chan[s]) - 1
        BY <3>2, <1>3, TailRises
      <4>2. Tail(p_chan[s]) \in Seq(1 .. MaxIndex) /\ Rising(Tail(p_chan[s]))
        BY <3>2, <1>0, <1>3, <1>4, TailRises
      <4>3. UpTo(Tail(p_chan[s]), p_made[s])
        BY <3>2, <1>0, <1>2, <1>3, <1>4, TailRises
      <4>4. \A n \in Nat : Above(p_chan[s], n) => Above(Tail(p_chan[s]), n)
        BY <3>2, <1>0, <1>3, TailRises
      <4> QED
        BY <4>1, <4>2, <4>3, <4>4, <3>2, <1>3, <1>4
    <3>4. Good(p_chan[s])
      <4>1. UpTo(p_chan[s], p_made[s] + 1)
        BY <1>2, <1>3, <1>4, ElementOfSeq DEF UpTo
      <4> QED
        BY <4>1, <1>3, <1>4
    <3> QED
      BY <3>1, <3>3, <3>4, <1>5
  <2> QED
    BY <2>1, <2>2
<1>7. P!TypeOK'
  BY <1>1, <1>2, <1>3, <1>6 DEF PInv, P!TypeOK
<1>8. P!FramesAccounted' /\ PairShape'
  BY <1>2 DEF PInv, P!FramesAccounted, PairShape
<1>9. PairOrder'
  <2> SUFFICES ASSUME NEW r \in P!Sides
               PROVE  /\ Rising(p_chan'[r]) /\ UpTo(p_chan'[r], p_made'[r])
                      /\ \A n \in {0, p_pushed[r], p_pair[r], p_new[r]} :
                           n <= p_made'[r] /\ Above(p_chan'[r], n)
    BY <1>2 DEF PInv, PairOrder
  <2>1. CASE r = s
    <3>1. p_chan'[r] = q /\ p_made'[r] = p_made[s] + 1
      BY <2>1, <1>1, <1>2 DEF PInv, P!TypeOK
    <3>2. \A n \in {0, p_pushed[r], p_pair[r], p_new[r]} : n <= p_made[s] + 1
      BY <2>1, <1>2, <1>4
    <3> QED
      BY <3>1, <3>2, <2>1, <1>6
  <2>2. CASE r # s
    <3>1. p_chan'[r] = p_chan[r] /\ p_made'[r] = p_made[r]
      BY <2>2, <1>1, <1>2 DEF PInv, P!TypeOK
    <3> QED
      BY <3>1 DEF PInv, PairOrder
  <2> QED
    BY <2>1, <2>2
<1> QED
  BY <1>7, <1>8, <1>9 DEF PInv

LEMMA PStale == PInv /\ P!Stale => PInv'
<1> SUFFICES ASSUME PInv, P!Stale PROVE PInv'
  OBVIOUS
<1>1. PICK s \in P!Sides : p_chan[s] # <<>> /\ p_chan' = [p_chan EXCEPT ![s] = Tail(@)]
  BY DEF P!Stale
<1>2. UNCHANGED <<p_made, p_pair, p_new, p_out, p_pc, p_run, p_pushed>>
  BY DEF P!Stale
<1>5. TakenFrom(s)
  BY <1>1, PTaken
<1>3. P!TypeOK' /\ PairOrder'
  BY <1>1, <1>2, <1>5 DEF TakenFrom, PInv, P!TypeOK, PairOrder
<1>4. P!FramesAccounted' /\ PairShape'
  BY <1>2 DEF PInv, P!FramesAccounted, PairShape
<1> QED
  BY <1>3, <1>4 DEF PInv

LEMMA PAcquireLeft == PInv /\ P!AcquireLeft => PInv'
<1> SUFFICES ASSUME PInv, P!AcquireLeft PROVE PInv'
  OBVIOUS
<1> DEFINE h == Head(p_chan["left"])
<1>1. /\ p_chan["left"] # <<>> /\ p_chan' = [p_chan EXCEPT !["left"] = Tail(@)]
      /\ p_out' = [p_out EXCEPT !["left"] = @ + 1]
      /\ p_pair' = [p_pair EXCEPT !["left"] = h]
      /\ p_pc = "acquire_left" /\ p_pc' = "acquire_right"
      /\ UNCHANGED <<p_made, p_new, p_run, p_pushed>>
  BY DEF P!AcquireLeft, P!Take, P!Top
<1>2. "left" \in P!Sides
  BY DEF P!Sides
<1>7. TakenFrom("left")
  BY <1>1, <1>2, PTaken
<1>3. p_pair = P!NoPair /\ p_new = P!NoPair /\ h \in 1 .. MaxIndex /\ h # 0
  BY <1>1, <1>7 DEF TakenFrom, PInv, PairShape
<1>4. P!TypeOK' /\ P!FramesAccounted'
  BY <1>1, <1>2, <1>3, <1>7 DEF TakenFrom, PInv, P!TypeOK, P!FramesAccounted, P!One, P!NoPair
<1>5. PairShape'
  BY <1>1, <1>3 DEF PInv, PairShape, P!NoPair, P!Sides
<1>6. PairOrder'
  BY <1>1, <1>2, <1>3, <1>7 DEF TakenFrom, PInv, PairOrder, P!NoPair, P!TypeOK
<1> QED
  BY <1>4, <1>5, <1>6 DEF PInv

LEMMA PAcquireRight == PInv /\ P!AcquireRight => PInv'
<1> SUFFICES ASSUME PInv, P!AcquireRight PROVE PInv'
  OBVIOUS
<1> DEFINE h == Head(p_chan["right"])
<1>1. /\ p_chan["right"] # <<>> /\ p_chan' = [p_chan EXCEPT !["right"] = Tail(@)]
      /\ p_out' = [p_out EXCEPT !["right"] = @ + 1]
      /\ p_pair' = [p_pair EXCEPT !["right"] = h]
      /\ p_pc = "acquire_right" /\ p_pc' = "drain"
      /\ UNCHANGED <<p_made, p_new, p_run, p_pushed>>
  BY DEF P!AcquireRight, P!Take
<1>2. "right" \in P!Sides
  BY DEF P!Sides
<1>7. TakenFrom("right")
  BY <1>1, <1>2, PTaken
<1>3. /\ p_pair["right"] = 0 /\ p_pair["left"] # 0 /\ p_new = P!NoPair
      /\ h \in 1 .. MaxIndex /\ h # 0
  BY <1>1, <1>7 DEF TakenFrom, PInv, PairShape
<1>4. P!TypeOK' /\ P!FramesAccounted'
  BY <1>1, <1>2, <1>3, <1>7 DEF TakenFrom, PInv, P!TypeOK, P!FramesAccounted, P!One, P!NoPair
<1>5. PairShape'
  BY <1>1, <1>3 DEF PInv, PairShape, P!NoPair, P!Sides, P!TypeOK
<1>6. PairOrder'
  BY <1>1, <1>2, <1>3, <1>7 DEF TakenFrom, PInv, PairOrder, P!NoPair, P!TypeOK
<1> QED
  BY <1>4, <1>5, <1>6 DEF PInv

\* A frame taken in the drain.
LEMMA PDrained ==
    ASSUME PInv, NEW s \in P!Sides, p_pair[s] # 0, p_new[s] = 0,
           P!Take(s), p_new' = [p_new EXCEPT ![s] = Head(p_chan[s])],
           p_pc' \in {"drain_right", "decide"},
           UNCHANGED <<p_made, p_pair, p_run, p_pushed>>
    PROVE  P!TypeOK' /\ P!FramesAccounted' /\ PairOrder' /\ p_new'[s] # 0
<1> DEFINE h == Head(p_chan[s])
<1>1. /\ p_chan[s] # <<>> /\ p_chan' = [p_chan EXCEPT ![s] = Tail(@)]
      /\ p_out' = [p_out EXCEPT ![s] = @ + 1]
  BY DEF P!Take
<1>6. TakenFrom(s)
  BY <1>1, PTaken
<1>2. h \in 1 .. MaxIndex /\ h # 0
  BY <1>6 DEF TakenFrom
<1>7. /\ p_new' \in [P!Sides -> 0 .. MaxIndex]
      /\ \A r \in P!Sides : p_new'[r] = IF r = s THEN h ELSE p_new[r]
  BY <1>2 DEF PInv, P!TypeOK
<1>8. p_out[s] = 1 /\ \A r \in P!Sides : p_out[r] \in 0 .. 2
  BY DEF PInv, P!TypeOK, P!FramesAccounted, P!One
<1>9. /\ p_out' \in [P!Sides -> 0 .. 2]
      /\ \A r \in P!Sides : p_out'[r] = IF r = s THEN 2 ELSE p_out[r]
  BY <1>1, <1>8 DEF PInv, P!TypeOK
<1>10. P!TypeOK'
  BY <1>6, <1>7, <1>9 DEF TakenFrom, PInv, P!TypeOK
<1>11. P!FramesAccounted'
  BY <1>2, <1>7, <1>9 DEF PInv, P!FramesAccounted, P!One
<1>3. P!TypeOK' /\ P!FramesAccounted'
  BY <1>10, <1>11
<1>4. PairOrder'
  <2> SUFFICES ASSUME NEW r \in P!Sides
               PROVE  /\ Rising(p_chan'[r]) /\ UpTo(p_chan'[r], p_made[r])
                      /\ \A n \in {0, p_pushed[r], p_pair[r], p_new'[r]} :
                           n <= p_made[r] /\ Above(p_chan'[r], n)
                      /\ p_pair[r] # 0 => p_pair[r] > p_pushed[r]
                      /\ p_new'[r] # 0 => p_new'[r] > p_pair[r] /\ p_new'[r] > p_pushed[r]
    BY DEF PairOrder
  <2>1. CASE r = s
    BY <1>6, <1>7, <2>1 DEF TakenFrom, PInv, PairOrder, P!TypeOK
  <2>2. CASE r # s
    BY <1>6, <1>7, <2>2 DEF TakenFrom, PInv, PairOrder
  <2> QED
    BY <2>1, <2>2
<1>5. p_new'[s] # 0
  BY <1>2 DEF PInv, P!TypeOK
<1> QED
  BY <1>3, <1>4, <1>5

LEMMA PDrainLeft == PInv /\ P!DrainLeft => PInv'
<1> SUFFICES ASSUME PInv, P!DrainLeft PROVE PInv'
  OBVIOUS
<1>1. /\ p_pc = "drain" /\ p_pc' = "drain_right"
      /\ UNCHANGED <<p_made, p_pair, p_run, p_pushed>>
  BY DEF P!DrainLeft
<1>2. "left" \in P!Sides /\ "right" \in P!Sides /\ p_new = P!NoPair /\ p_pair["left"] # 0
  BY <1>1 DEF P!Sides, PInv, PairShape
<1>3. CASE p_chan["left"] # <<>>
  <2>1. P!Take("left") /\ p_new' = [p_new EXCEPT !["left"] = Head(p_chan["left"])]
    BY <1>3 DEF P!DrainLeft
  <2>2. P!TypeOK' /\ P!FramesAccounted' /\ PairOrder'
    BY <1>1, <1>2, <2>1, PDrained DEF P!NoPair
  <2>3. PairShape'
    BY <1>1, <1>2, <2>1 DEF PInv, PairShape, P!NoPair
  <2> QED
    BY <2>2, <2>3 DEF PInv
<1>4. CASE p_chan["left"] = <<>>
  <2>1. UNCHANGED <<p_chan, p_out, p_new>>
    BY <1>4 DEF P!DrainLeft
  <2> QED
    BY <2>1, <1>1, <1>2 DEF PInv, P!TypeOK, P!FramesAccounted, PairShape, PairOrder, P!NoPair
<1> QED
  BY <1>3, <1>4

LEMMA PDrainRight == PInv /\ P!DrainRight => PInv'
<1> SUFFICES ASSUME PInv, P!DrainRight PROVE PInv'
  OBVIOUS
<1>1. /\ p_pc = "drain_right" /\ p_pc' = "decide"
      /\ UNCHANGED <<p_made, p_pair, p_run, p_pushed>>
  BY DEF P!DrainRight
<1>2. "right" \in P!Sides /\ p_new["right"] = 0 /\ p_pair["right"] # 0
  BY <1>1 DEF P!Sides, PInv, PairShape
<1>3. PairShape'
  BY <1>1 DEF PInv, PairShape
<1>4. CASE p_chan["right"] # <<>>
  <2>1. P!Take("right") /\ p_new' = [p_new EXCEPT !["right"] = Head(p_chan["right"])]
    BY <1>4 DEF P!DrainRight
  <2> QED
    BY <1>1, <1>2, <1>3, <2>1, PDrained DEF PInv
<1>5. CASE p_chan["right"] = <<>>
  <2>1. UNCHANGED <<p_chan, p_out, p_new>>
    BY <1>5 DEF P!DrainRight
  <2> QED
    BY <2>1, <1>1, <1>3 DEF PInv, P!TypeOK, P!FramesAccounted, PairOrder
<1> QED
  BY <1>4, <1>5

LEMMA PDecideOne ==
    ASSUME NEW s \in P!Sides
    PROVE  PInv /\ P!DecideOne(s) => PInv'
<1> SUFFICES ASSUME PInv, P!DecideOne(s) PROVE PInv'
  OBVIOUS
<1>1. /\ p_pc = "decide" /\ p_pc' \in {"drain", "check"}
      /\ p_new[s] # 0 /\ p_new[P!Other(s)] = 0 /\ p_new' = P!NoPair
      /\ p_out' = [p_out EXCEPT ![s] = @ - 1]
      /\ p_pair' \in {p_pair, [p_pair EXCEPT ![s] = p_new[s]]}
      /\ UNCHANGED <<p_chan, p_made, p_run, p_pushed>>
  BY DEF P!DecideOne
<1>2. /\ \A r \in P!Sides : p_pair[r] # 0
      /\ \A r \in P!Sides \ {s} : p_new[r] = 0
  BY <1>1 DEF PInv, PairShape, P!Sides, P!Other
<1>3. p_out[s] = 2 /\ \A r \in P!Sides \ {s} : p_out[r] = 1
  BY <1>1, <1>2 DEF PInv, P!FramesAccounted, P!One
<1>6. P!TypeOK'
  <2>1. p_new' \in [P!Sides -> 0 .. MaxIndex] /\ p_pair' \in [P!Sides -> 0 .. MaxIndex]
    <3>1. 0 \in 0 .. MaxIndex
      BY StagesAssumption
    <3>2. p_new \in [P!Sides -> 0 .. MaxIndex] /\ p_pair \in [P!Sides -> 0 .. MaxIndex]
      BY DEF PInv, P!TypeOK
    <3>3. p_new[s] \in 0 .. MaxIndex
      BY <3>2
    <3> QED
      BY <1>1, <3>1, <3>2, <3>3 DEF P!NoPair
  <2>2. p_out' \in [P!Sides -> 0 .. 2]
    BY <1>1, <1>3 DEF PInv, P!TypeOK
  <2> QED
    BY <1>1, <2>1, <2>2 DEF PInv, P!TypeOK
<1>9. \A r \in P!Sides : p_new'[r] = 0
                        /\ (p_pair'[r] = p_pair[r] \/ (r = s /\ p_pair'[r] = p_new[r]))
  <2>1. p_pair' = p_pair \/ p_pair' = [p_pair EXCEPT ![s] = p_new[s]]
    BY <1>1
  <2>2. p_pair \in [P!Sides -> 0 .. MaxIndex]
    BY DEF PInv, P!TypeOK
  <2>5. \A r \in P!Sides : p_new'[r] = 0
    <3>1. p_new' = P!NoPair
      BY <1>1
    <3> QED
      BY <3>1 DEF P!NoPair
  <2>3. CASE p_pair' = [p_pair EXCEPT ![s] = p_new[s]]
    <3>1. \A r \in P!Sides : p_pair'[r] = IF r = s THEN p_new[s] ELSE p_pair[r]
      BY <2>2, <2>3
    <3> QED
      BY <2>5, <3>1
  <2>4. CASE p_pair' = p_pair
    BY <2>5, <2>4
  <2> QED
    BY <2>1, <2>3, <2>4
<1>10. \A r \in P!Sides : p_out'[r] = 1
  BY <1>1, <1>3 DEF PInv, P!TypeOK
<1>7. \A r \in P!Sides : p_out'[r] = 1 /\ p_pair'[r] # 0 /\ p_new'[r] = 0
  BY <1>1, <1>2, <1>9, <1>10
<1>8. P!FramesAccounted'
  BY <1>7 DEF P!FramesAccounted, P!One
<1>4. PairShape'
  BY <1>1, <1>2 DEF PInv, PairShape, P!TypeOK
<1>5. PairOrder'
  <2> SUFFICES ASSUME NEW r \in P!Sides
               PROVE  /\ Rising(p_chan[r]) /\ UpTo(p_chan[r], p_made[r])
                      /\ \A n \in {0, p_pushed[r], p_pair'[r], p_new'[r]} :
                           n <= p_made[r] /\ Above(p_chan[r], n)
                      /\ p_pair'[r] # 0 => p_pair'[r] > p_pushed[r]
                      /\ p_new'[r] # 0 => p_new'[r] > p_pair'[r] /\ p_new'[r] > p_pushed[r]
    BY <1>1 DEF PairOrder
  <2>1. CASE p_pair'[r] = p_pair[r]
    BY <1>9, <2>1 DEF PInv, PairOrder
  <2>2. CASE r = s /\ p_pair'[r] = p_new[r]
    BY <1>1, <1>9, <2>2 DEF PInv, PairOrder
  <2> QED
    BY <1>9, <2>1, <2>2
<1> QED
  BY <1>4, <1>5, <1>6, <1>8 DEF PInv

LEMMA PNext == PInv /\ [P!Next]_pvars => PInv'
<1> SUFFICES ASSUME PInv, [P!Next]_pvars PROVE PInv'
  OBVIOUS
<1>1. CASE UNCHANGED pvars
  BY <1>1 DEF pvars, PInv, P!TypeOK, P!FramesAccounted, PairShape, PairOrder
<1>2. CASE P!Hardware
  BY <1>2, PDeliver DEF P!Hardware
<1>3. CASE P!GetFrame
  BY <1>3, PStale, PStaleDone, PAcquireLeft, PNoLeft, PAcquireRight, PNoRight, PDrainLeft,
     PDrainRight, PDrainStopped, PDecideBoth, PDecideOne, PDecideNone, PCheckStopped,
     PCheck, PPush, PExit DEF P!GetFrame
<1>4. CASE P!Stop
  BY <1>4, PStop
<1>5. CASE P!Finished
  BY <1>1, <1>5 DEF P!Finished, P!vars, pvars
<1> QED
  BY <1>1, <1>2, <1>3, <1>4, <1>5 DEF P!Next

\* What is handed on is fresher on both sides.
LEMMA PForward ==
    PInv /\ [P!Next]_pvars /\ p_pushed' # p_pushed =>
        \A s \in P!Sides : p_pushed'[s] > p_pushed[s]
<1> SUFFICES ASSUME PInv, [P!Next]_pvars, p_pushed' # p_pushed
             PROVE  \A s \in P!Sides : p_pushed'[s] > p_pushed[s]
  OBVIOUS
<1>1. P!Push
  BY DEF pvars, P!Next, P!Hardware, P!Deliver, P!GetFrame, P!Stop, P!Finished, P!vars,
     P!Stale, P!StaleDone, P!AcquireLeft, P!NoLeft, P!AcquireRight, P!NoRight, P!DrainLeft,
     P!DrainRight, P!DrainStopped, P!DecideBoth, P!DecideOne, P!DecideNone,
     P!CheckStopped, P!Check, P!Exit
<1> QED
  BY <1>1 DEF P!Push, PInv, PairShape, PairOrder

-----------------------------------------------------------------------------
(* "detect"                                                                *)

\* Who has the lock, and where the frames are.
DetectShape ==
    /\ d_lock = "det" <=> d_det \in {"store", "empty"}
    /\ d_lock = "npu" <=> d_npu \in {"test", "give_up"}
    /\ d_img # 0 <=> d_det \in {"lock", "store"}
    /\ d_det = "exit" => d_slot = 0
    /\ d_stop >= 2 => d_npu = "exit"
    /\ d_stop = 3 => d_det = "exit"
    /\ d_yolo = "running" => d_npu \in {"infer", "output"} /\ d_ready

\* From the frame last consumed to the channel, the numbers rise.
DetectOrder ==
    /\ d_slot <= d_got /\ d_img <= d_got /\ d_consumed <= d_got
    /\ d_slot # 0 => d_consumed < d_slot
    /\ d_img # 0 => d_consumed < d_img /\ d_slot < d_img

DetectHeld == \A i \in D!DetFrame : d_held[i] = 1 <=> i \in {d_slot, d_img}

DInv == D!TypeOK /\ DetectShape /\ DetectOrder /\ DetectHeld

LEMMA MaxDetNat == MaxDet \in Nat
  BY StagesAssumption

LEMMA DInit == D!Init => DInv
<1> SUFFICES ASSUME D!Init PROVE DInv
  OBVIOUS
<1>1. D!TypeOK
  <2>1. d_held \in [D!DetFrame -> {0, 1}] /\ 0 \in 0 .. MaxDet /\ 0 \in 0 .. 3
    BY MaxDetNat DEF D!Init
  <2>2. d_late \in BOOLEAN /\ d_ready \in BOOLEAN /\ d_enabled \in BOOLEAN
    BY DEF D!Init
  <2> QED
    BY <2>1, <2>2 DEF D!Init, D!TypeOK
<1> QED
  BY <1>1 DEF D!Init, DInv, DetectShape, DetectOrder, DetectHeld, D!DetFrame

LEMMA DDetStale == DInv /\ D!DetStale => DInv'
  BY MaxDetNat DEF D!DetStale, DInv, D!TypeOK, DetectShape, DetectOrder, DetectHeld,
     D!DetUnchanged

LEMMA DDetNoFrame == DInv /\ D!DetNoFrame => DInv'
  BY DEF D!DetNoFrame, DInv, D!TypeOK, DetectShape, DetectOrder, DetectHeld, D!DetRuns,
     D!vars

LEMMA DDetLock == DInv /\ D!DetLock => DInv'
  BY DEF D!DetLock, DInv, D!TypeOK, DetectShape, DetectOrder, DetectHeld, D!DetUnchanged

LEMMA DDetSignal == DInv /\ D!DetSignal => DInv'
  BY DEF D!DetSignal, DInv, D!TypeOK, DetectShape, DetectOrder, DetectHeld

LEMMA DDetLeave == DInv /\ D!DetLeave => DInv'
  BY DEF D!DetLeave, DInv, D!TypeOK, DetectShape, DetectOrder, DetectHeld,
     D!DetUnchanged, D!DetRuns

LEMMA DNpuPop == DInv /\ D!NpuPop => DInv'
  BY DEF D!NpuPop, DInv, D!TypeOK, DetectShape, DetectOrder, DetectHeld,
     D!CopyUnchanged, D!NpuUnchanged

LEMMA DNpuLock == DInv /\ D!NpuLock => DInv'
  BY DEF D!NpuLock, DInv, D!TypeOK, DetectShape, DetectOrder, DetectHeld,
     D!CopyUnchanged, D!NpuUnchanged

LEMMA DDeadline == DInv /\ D!Deadline => DInv'
  BY DEF D!Deadline, DInv, D!TypeOK, DetectShape, DetectOrder, DetectHeld,
     D!CopyUnchanged, D!NpuUnchanged

LEMMA DNpuWait == DInv /\ D!NpuWait => DInv'
  BY DEF D!NpuWait, DInv, D!TypeOK, DetectShape, DetectOrder, DetectHeld,
     D!CopyUnchanged, D!NpuUnchanged

LEMMA DNpuWake == DInv /\ D!NpuWake => DInv'
  BY DEF D!NpuWake, DInv, D!TypeOK, DetectShape, DetectOrder, DetectHeld,
     D!CopyUnchanged, D!NpuUnchanged

LEMMA DNpuGiveUp == DInv /\ D!NpuGiveUp => DInv'
  BY DEF D!NpuGiveUp, DInv, D!TypeOK, DetectShape, DetectOrder, DetectHeld,
     D!CopyUnchanged, D!NpuUnchanged

LEMMA DNpuTrigger == DInv /\ D!NpuTrigger => DInv'
<1> SUFFICES ASSUME DInv, D!NpuTrigger PROVE DInv'
  OBVIOUS
<1>1. /\ d_npu = "trigger" /\ d_npu' = "infer" /\ d_ready' \in BOOLEAN
      /\ (d_yolo' = "running" /\ d_ready') \/ d_yolo' = d_yolo
      /\ UNCHANGED <<d_slot, d_lock, d_late, d_held, d_consumed, d_det, d_img, d_got,
                     d_enabled, d_stop>>
  BY DEF D!NpuTrigger, D!NpuUnchanged, DInv, D!TypeOK
<1>2. d_yolo # "running"
  BY <1>1 DEF DInv, DetectShape
<1>3. D!TypeOK'
  BY <1>1 DEF DInv, D!TypeOK
<1>4. DetectShape'
  BY <1>1, <1>2 DEF DInv, DetectShape
<1>5. DetectOrder' /\ DetectHeld'
  BY <1>1 DEF DInv, DetectOrder, DetectHeld
<1> QED
  BY <1>3, <1>4, <1>5 DEF DInv

LEMMA DNpuTriggerFails == DInv /\ D!NpuTriggerFails => DInv'
  BY DEF D!NpuTriggerFails, DInv, D!TypeOK, DetectShape, DetectOrder, DetectHeld,
     D!NpuUnchanged, D!YoloWait

LEMMA DNpuInfer == DInv /\ D!NpuInfer => DInv'
  BY DEF D!NpuInfer, DInv, D!TypeOK, DetectShape, DetectOrder, DetectHeld,
     D!NpuUnchanged

LEMMA DNpuInferFails == DInv /\ D!NpuInferFails => DInv'
  BY DEF D!NpuInferFails, DInv, D!TypeOK, DetectShape, DetectOrder, DetectHeld,
     D!NpuUnchanged, D!YoloWait

LEMMA DNpuOutputFails == DInv /\ D!NpuOutputFails => DInv'
  BY DEF D!NpuOutputFails, DInv, D!TypeOK, DetectShape, DetectOrder, DetectHeld,
     D!NpuUnchanged

LEMMA DNpuFinish == DInv /\ D!NpuFinish => DInv'
  BY DEF D!NpuFinish, DInv, D!TypeOK, DetectShape, DetectOrder, DetectHeld,
     D!NpuUnchanged, D!YoloWait

LEMMA DNpuLeave == DInv /\ D!NpuLeave => DInv'
  BY DEF D!NpuLeave, DInv, D!TypeOK, DetectShape, DetectOrder, DetectHeld,
     D!NpuUnchanged

LEMMA DShutdown == DInv /\ D!Shutdown => DInv'
  BY DEF D!Shutdown, DInv, D!TypeOK, DetectShape, DetectOrder, DetectHeld

LEMMA DDetAcquire == DInv /\ D!DetAcquire => DInv'
<1> SUFFICES ASSUME DInv, D!DetAcquire PROVE DInv'
  OBVIOUS
<1>1. DetectShape' /\ DetectOrder'
  BY DEF D!DetAcquire, DInv, DetectShape, DetectOrder, D!TypeOK, D!DetUnchanged,
     D!DetRuns
<1>2. DetectHeld' /\ d_held' \in [D!DetFrame -> {0, 1}]
  BY DEF D!DetAcquire, DInv, DetectShape, DetectOrder, DetectHeld, D!TypeOK, D!DetFrame,
     D!DetUnchanged, D!DetRuns, D!Moved
<1>3. D!TypeOK'
  BY <1>2, MaxDetNat DEF D!DetAcquire, DInv, D!TypeOK, D!DetUnchanged, D!DetRuns
<1> QED
  BY <1>1, <1>2, <1>3 DEF DInv

LEMMA DDetStore == DInv /\ D!DetStore => DInv'
<1> SUFFICES ASSUME DInv, D!DetStore PROVE DInv'
  OBVIOUS
<1>1. DetectShape' /\ DetectOrder'
  BY DEF D!DetStore, DInv, DetectShape, DetectOrder, D!TypeOK, D!DetUnchanged
<1>2. DetectHeld' /\ d_held' \in [D!DetFrame -> {0, 1}]
  BY DEF D!DetStore, DInv, DetectShape, DetectOrder, DetectHeld, D!TypeOK, D!DetFrame,
     D!DetUnchanged, D!Moved
<1>3. D!TypeOK'
  BY <1>2, MaxDetNat DEF D!DetStore, DInv, D!TypeOK, D!DetUnchanged
<1> QED
  BY <1>1, <1>2, <1>3 DEF DInv

LEMMA DDetEmpty == DInv /\ D!DetEmpty => DInv'
<1> SUFFICES ASSUME DInv, D!DetEmpty PROVE DInv'
  OBVIOUS
<1>1. DetectShape' /\ DetectOrder'
  BY DEF D!DetEmpty, DInv, DetectShape, DetectOrder, D!TypeOK, D!DetUnchanged
<1>2. DetectHeld' /\ d_held' \in [D!DetFrame -> {0, 1}]
  BY DEF D!DetEmpty, DInv, DetectShape, DetectOrder, DetectHeld, D!TypeOK, D!DetFrame,
     D!DetUnchanged, D!Moved
<1>3. D!TypeOK'
  BY <1>2, MaxDetNat DEF D!DetEmpty, DInv, D!TypeOK, D!DetUnchanged
<1> QED
  BY <1>1, <1>2, <1>3 DEF DInv

LEMMA DNpuCopy == DInv /\ D!NpuCopy => DInv'
<1> SUFFICES ASSUME DInv, D!NpuCopy PROVE DInv'
  OBVIOUS
<1>1. DetectShape' /\ DetectOrder'
  BY DEF D!NpuCopy, DInv, DetectShape, DetectOrder, D!TypeOK, D!CopyUnchanged,
     D!NpuUnchanged
<1>2. DetectHeld' /\ d_held' \in [D!DetFrame -> {0, 1}]
  BY DEF D!NpuCopy, DInv, DetectShape, DetectOrder, DetectHeld, D!TypeOK, D!DetFrame,
     D!CopyUnchanged, D!Moved, D!NpuUnchanged
<1>4. d_ready' \in BOOLEAN
  BY DEF D!NpuCopy
<1>3. D!TypeOK'
  BY <1>2, <1>4, MaxDetNat DEF D!NpuCopy, DInv, D!TypeOK, D!CopyUnchanged, D!NpuUnchanged
<1> QED
  BY <1>1, <1>2, <1>3 DEF DInv

LEMMA DNext == DInv /\ [D!Next]_dvars => DInv'
<1> SUFFICES ASSUME DInv, [D!Next]_dvars PROVE DInv'
  OBVIOUS
<1>1. CASE UNCHANGED dvars
  BY <1>1 DEF dvars, DInv, D!TypeOK, DetectShape, DetectOrder, DetectHeld
<1>2. CASE D!Det
  BY <1>2, DDetStale, DDetAcquire, DDetNoFrame, DDetLock, DDetStore, DDetSignal,
     DDetLeave, DDetEmpty DEF D!Det
<1>3. CASE D!Npu
  BY <1>3, DNpuPop, DNpuLock, DNpuWait, DNpuWake, DNpuGiveUp, DNpuCopy, DNpuTrigger,
     DNpuTriggerFails, DNpuInfer, DNpuInferFails, DNpuOutputFails, DNpuFinish, DNpuLeave
     DEF D!Npu
<1>4. CASE D!Deadline \/ D!Shutdown
  BY <1>4, DDeadline, DShutdown
<1>5. CASE D!Finished
  BY <1>1, <1>5 DEF D!Finished, D!vars, dvars
<1> QED
  BY <1>1, <1>2, <1>3, <1>4, <1>5 DEF D!Next

\* A frame copied into the yolo input is newer than the one before.
LEMMA DNewer ==
    DInv /\ [D!Next]_dvars /\ d_npu = "test" /\ d_npu' = "trigger" => d_consumed' > d_consumed
<1> SUFFICES ASSUME DInv, [D!Next]_dvars, d_npu = "test", d_npu' = "trigger"
             PROVE  d_consumed' > d_consumed
  OBVIOUS
<1>1. ~D!Det
  BY DEF D!Det, D!DetStale, D!DetAcquire, D!DetNoFrame, D!DetLock, D!DetStore, D!DetSignal,
     D!DetLeave, D!DetEmpty, D!DetUnchanged, D!vars
<1>2. ~(D!Deadline \/ D!Shutdown \/ D!Finished \/ UNCHANGED dvars)
  BY DEF D!Deadline, D!Shutdown, D!Finished, D!CopyUnchanged, D!NpuUnchanged, D!vars, dvars
<1>3. D!NpuCopy
  BY <1>1, <1>2 DEF D!Next, D!Npu, D!NpuPop, D!NpuLock, D!NpuWait, D!NpuWake, D!NpuGiveUp,
     D!NpuTrigger, D!NpuTriggerFails, D!NpuInfer, D!NpuInferFails, D!NpuOutputFails,
     D!NpuFinish, D!NpuLeave
<1> QED
  BY <1>3 DEF D!NpuCopy, DInv, D!TypeOK, DetectOrder

-----------------------------------------------------------------------------
(* "encode"                                                                *)

\* A channel: what is coded and what is to be coded rise, from above lo up to hi.
Line(a, b, lo, hi) ==
    /\ a \in Seq(1 .. MaxFrame) /\ b \in Seq(1 .. MaxFrame)
    /\ lo \in 0 .. MaxFrame /\ hi \in 0 .. MaxFrame /\ lo <= hi
    /\ Rising(a) /\ Above(a, lo) /\ UpTo(a, hi)
    /\ Rising(b) /\ Above(b, lo) /\ UpTo(b, hi)
    /\ \A i \in 1 .. Len(a) : Above(b, a[i])

LEMMA FrameNumbers == MaxFrame \in Nat \ {0} /\ 1 .. MaxFrame \subseteq Nat
  BY StagesAssumption

\* One more is coded.
LEMMA LineMove ==
    ASSUME NEW a, NEW b, NEW lo, NEW hi, Line(a, b, lo, hi), b # <<>>
    PROVE  Line(Append(a, Head(b)), Tail(b), lo, hi)
<1> DEFINE h == Head(b)
           n == Append(a, h)
<1>1. /\ a \in Seq(1 .. MaxFrame) /\ b \in Seq(1 .. MaxFrame)
      /\ lo \in Nat /\ hi \in Nat
      /\ Rising(a) /\ Above(a, lo) /\ UpTo(a, hi)
      /\ Rising(b) /\ Above(b, lo) /\ UpTo(b, hi)
  BY FrameNumbers DEF Line
<1>2. /\ h \in 1 .. MaxFrame /\ Tail(b) \in Seq(1 .. MaxFrame)
      /\ Rising(Tail(b)) /\ Above(Tail(b), h)
  BY <1>1, FrameNumbers, TailRises
<1>3. lo < h /\ Above(Tail(b), lo)
  BY <1>1, FrameNumbers, TailRises
<1>4. h <= hi /\ UpTo(Tail(b), hi)
  BY <1>1, FrameNumbers, TailRises
<1>5. \A i \in 1 .. Len(a) : a[i] \in Nat /\ a[i] < h /\ Above(Tail(b), a[i])
  <2> SUFFICES ASSUME NEW i \in 1 .. Len(a)
               PROVE  a[i] \in Nat /\ a[i] < h /\ Above(Tail(b), a[i])
    OBVIOUS
  <2>1. a[i] \in Nat /\ Above(b, a[i])
    BY <1>1, FrameNumbers, ElementOfSeq DEF Line
  <2> QED
    BY <2>1, <1>1, FrameNumbers, TailRises
<1>6. h \in Nat /\ h - 1 \in Nat /\ h - 1 < h /\ UpTo(a, h - 1)
  <2>1. h \in Nat /\ h - 1 \in Nat /\ h - 1 < h
    BY <1>2
  <2> QED
    BY <2>1, <1>5 DEF UpTo
<1>7. n \in Seq(1 .. MaxFrame) /\ Rising(n)
  BY <1>1, <1>2, <1>6, FrameNumbers, AppendRises
<1>8. Above(n, lo)
  BY <1>1, <1>2, <1>3, FrameNumbers, AppendRises
<1>9. /\ Len(n) = Len(a) + 1 /\ Len(a) \in Nat
      /\ \A k \in 1 .. Len(a) : n[k] = a[k]
      /\ n[Len(a) + 1] = h
  BY <1>1, <1>2, AppendProperties
<1>10. \A i \in 1 .. Len(n) : n[i] <= hi /\ Above(Tail(b), n[i])
  <2> SUFFICES ASSUME NEW i \in 1 .. Len(n) PROVE n[i] <= hi /\ Above(Tail(b), n[i])
    OBVIOUS
  <2>1. CASE i = Len(a) + 1
    BY <2>1, <1>2, <1>4, <1>9
  <2>2. CASE i # Len(a) + 1
    <3>1. i \in 1 .. Len(a)
      BY <2>2, <1>9
    <3> QED
      BY <3>1, <1>1, <1>5, <1>9 DEF UpTo
  <2> QED
    BY <2>1, <2>2
<1>11. UpTo(n, hi)
  BY <1>10 DEF UpTo
<1> QED
  BY <1>2, <1>3, <1>4, <1>7, <1>8, <1>10, <1>11 DEF Line

\* The oldest stream is acquired.
LEMMA LineTake ==
    ASSUME NEW a, NEW b, NEW lo, NEW hi, Line(a, b, lo, hi), a # <<>>
    PROVE  /\ Head(a) \in 1 .. MaxFrame /\ lo < Head(a)
           /\ Line(Tail(a), b, lo, hi) /\ Line(Tail(a), b, Head(a), hi)
<1> DEFINE h == Head(a)
           t == Tail(a)
<1>1. /\ a \in Seq(1 .. MaxFrame) /\ b \in Seq(1 .. MaxFrame)
      /\ lo \in Nat /\ hi \in Nat /\ lo \in 0 .. MaxFrame
      /\ Rising(a) /\ Above(a, lo) /\ UpTo(a, hi)
  BY FrameNumbers DEF Line
<1>2. /\ h \in 1 .. MaxFrame /\ t \in Seq(1 .. MaxFrame)
      /\ Rising(t) /\ Above(t, h)
  BY <1>1, FrameNumbers, TailRises
<1>3. lo < h /\ Above(t, lo)
  BY <1>1, FrameNumbers, TailRises
<1>4. h <= hi /\ UpTo(t, hi)
  BY <1>1, FrameNumbers, TailRises
<1>5. /\ Len(a) \in Nat \ {0} /\ h = a[1] /\ Len(t) = Len(a) - 1
      /\ \A k \in 1 .. Len(t) : t[k] = a[k + 1]
  BY <1>1, HeadTailProperties, EmptySeq
<1>6. Above(b, h) /\ \A i \in 1 .. Len(t) : Above(b, t[i])
  BY <1>5 DEF Line
<1>7. h \in 0 .. MaxFrame
  BY <1>2
<1> QED
  BY <1>2, <1>3, <1>4, <1>6, <1>7 DEF Line

\* A frame is sent.
LEMMA LinePut ==
    ASSUME NEW a, NEW b, NEW lo, NEW hi, NEW m \in 1 .. MaxFrame,
           Line(a, b, lo, hi), hi < m
    PROVE  Line(a, Append(b, m), lo, m)
<1> DEFINE n == Append(b, m)
<1>1. /\ a \in Seq(1 .. MaxFrame) /\ b \in Seq(1 .. MaxFrame)
      /\ lo \in Nat /\ hi \in Nat /\ lo < m /\ hi <= m /\ m \in Nat
      /\ Rising(a) /\ Above(a, lo) /\ UpTo(a, hi)
      /\ Rising(b) /\ Above(b, lo) /\ UpTo(b, hi)
  BY FrameNumbers DEF Line
<1>2. n \in Seq(1 .. MaxFrame) /\ Rising(n)
  BY <1>1, FrameNumbers, AppendRises
<1>3. Above(n, lo)
  BY <1>1, FrameNumbers, AppendRises
<1>4. UpTo(n, m)
  BY <1>1, FrameNumbers, AppendRises
<1>5. \A i \in 1 .. Len(a) : a[i] \in Nat /\ a[i] <= hi
  BY <1>1, FrameNumbers, ElementOfSeq DEF UpTo
<1>6. UpTo(a, m)
  BY <1>1, <1>5 DEF UpTo
<1>7. \A i \in 1 .. Len(a) : Above(n, a[i])
  <2> SUFFICES ASSUME NEW i \in 1 .. Len(a) PROVE Above(n, a[i])
    OBVIOUS
  <2>1. a[i] \in Nat /\ a[i] < m /\ Above(b, a[i])
    BY <1>1, <1>5 DEF Line
  <2> QED
    BY <2>1, <1>1, FrameNumbers, AppendRises
<1> QED
  BY <1>1, <1>2, <1>3, <1>4, <1>6, <1>7 DEF Line

LEMMA LineWiden ==
    ASSUME NEW a, NEW b, NEW lo, NEW hi, NEW lo2 \in 0 .. MaxFrame, NEW hi2 \in 0 .. MaxFrame,
           Line(a, b, lo, hi), lo2 <= lo, hi <= hi2
    PROVE  Line(a, b, lo2, hi2)
<1>1. /\ a \in Seq(1 .. MaxFrame) /\ b \in Seq(1 .. MaxFrame)
      /\ lo \in Nat /\ hi \in Nat /\ lo2 \in Nat /\ hi2 \in Nat /\ lo <= hi
      /\ Above(a, lo) /\ UpTo(a, hi) /\ Above(b, lo) /\ UpTo(b, hi)
  BY FrameNumbers DEF Line
<1>2. (\A i \in 1 .. Len(a) : a[i] \in Nat) /\ (\A i \in 1 .. Len(b) : b[i] \in Nat)
  BY <1>1, FrameNumbers, ElementOfSeq
<1>3. Above(a, lo2) /\ UpTo(a, hi2) /\ Above(b, lo2) /\ UpTo(b, hi2)
  BY <1>1, <1>2 DEF Above, UpTo
<1> QED
  BY <1>1, <1>3 DEF Line

\* The frame of the current output, or of the last one, that channel c has given.
Given(c) == IF v_pc # "idle" /\ v_packet[c] # 0 THEN v_packet[c] ELSE v_done[c]

\* The last frame that channel c can have been sent.
SentTo(c) ==
    IF v_pc # "idle" /\ (v_pc = "send" \/ c # v_ch) /\ (c = "right" \/ v_ch = "left")
    THEN v_frame - 1 ELSE v_frame

EncodeOrder ==
    \A c \in V!Channels :
        /\ Line(v_streams[c], v_coding[c], Given(c), SentTo(c))
        /\ v_pc # "idle" /\ v_packet[c] # 0 => v_done[c] < v_packet[c]

\* What the output that is built has got.
EncodeShape ==
    /\ v_pc # "idle" => v_frame # 0
    /\ v_pc \in {"send", "poll", "acquire"} /\ v_ch = "left" => v_packet = V!NoPackets
    /\ v_pc \in {"send", "poll", "acquire"} /\ v_ch = "right" =>
         v_packet["left"] # 0 /\ v_packet["right"] = 0 /\ v_packet["disparity"] = 0
    /\ v_pc = "disparity" =>
         v_packet["left"] # 0 /\ v_packet["right"] # 0 /\ v_packet["disparity"] = 0
    /\ v_pc = "acquire" => v_streams[v_ch] # <<>>
    /\ v_pc = "disparity" => v_ch = "right"

VInv == V!TypeOK /\ V!BuffersAccounted /\ EncodeShape /\ EncodeOrder

LEMMA VInit == V!Init => VInv
<1> SUFFICES ASSUME V!Init PROVE VInv
  OBVIOUS
<1>1. 0 \in 0 .. MaxFrame /\ <<>> \in Seq(1 .. MaxFrame)
  BY FrameNumbers
<1>2. V!TypeOK
  BY <1>1 DEF V!Init, V!TypeOK, V!NoPackets, V!Channels
<1>3. V!BuffersAccounted /\ EncodeShape
  BY DEF V!Init, V!BuffersAccounted, EncodeShape
<1>4. EncodeOrder
  BY <1>1, EmptySeq DEF V!Init, EncodeOrder, Given, SentTo, Line, Rising, Above, UpTo, V!Channels,
     V!Packets, V!NoPackets
<1> QED
  BY <1>2, <1>3, <1>4 DEF VInv

LEMMA VCode ==
    ASSUME NEW c \in V!Channels
    PROVE  VInv /\ V!Code(c) => VInv'
<1> SUFFICES ASSUME VInv, V!Code(c) PROVE VInv'
  OBVIOUS
<1>1. /\ v_coding[c] # <<>>
      /\ v_streams' = [v_streams EXCEPT ![c] = Append(v_streams[c], Head(v_coding[c]))]
      /\ v_coding' = [v_coding EXCEPT ![c] = Tail(v_coding[c])]
      /\ UNCHANGED <<v_frame, v_pc, v_ch, v_packet, v_heap, v_held, v_done>>
  BY DEF V!Code
<1>2. Line(Append(v_streams[c], Head(v_coding[c])), Tail(v_coding[c]), Given(c), SentTo(c))
  BY <1>1, LineMove DEF VInv, EncodeOrder
<1>3. /\ Append(v_streams[c], Head(v_coding[c])) \in Seq(1 .. MaxFrame)
      /\ Tail(v_coding[c]) \in Seq(1 .. MaxFrame)
  BY <1>2 DEF Line
<1>4. V!TypeOK'
  BY <1>1, <1>3 DEF VInv, V!TypeOK
<1>5. \A d \in V!Channels : Given(d)' = Given(d) /\ SentTo(d)' = SentTo(d)
  BY <1>1 DEF Given, SentTo
<1>6. \A d \in V!Channels : Line(v_streams'[d], v_coding'[d], Given(d), SentTo(d))
  BY <1>1, <1>2 DEF VInv, V!TypeOK, EncodeOrder
<1>7. EncodeOrder'
  BY <1>1, <1>5, <1>6 DEF VInv, EncodeOrder
<1>8. EncodeShape'
  <2>1. Append(v_streams[c], Head(v_coding[c])) # <<>>
    <3>1. v_streams[c] \in Seq(1 .. MaxFrame) /\ Head(v_coding[c]) \in 1 .. MaxFrame
      BY <1>1, FrameNumbers, TailRises DEF VInv, V!TypeOK
    <3> QED
      BY <3>1, FrameNumbers, AppendRises
  <2> QED
    BY <1>1, <2>1 DEF VInv, V!TypeOK, EncodeShape
<1>9. V!BuffersAccounted'
  BY <1>1 DEF VInv, V!BuffersAccounted, V!Filled
<1> QED
  BY <1>4, <1>7, <1>8, <1>9 DEF VInv

LEMMA VBegin == VInv /\ V!Begin => VInv'
<1> SUFFICES ASSUME VInv, V!Begin PROVE VInv'
  OBVIOUS
<1>1. /\ v_pc = "idle" /\ v_frame < MaxFrame /\ v_frame \in 0 .. MaxFrame
      /\ v_frame' = v_frame + 1 /\ v_packet' = V!NoPackets /\ v_pc' = "send" /\ v_ch' = "left"
      /\ UNCHANGED <<v_coding, v_streams, v_heap, v_held, v_done>>
  BY DEF VInv, V!TypeOK, V!Begin
<1>2. V!TypeOK'
  BY <1>1, FrameNumbers DEF VInv, V!TypeOK, V!NoPackets, V!Channels
<1>3. V!BuffersAccounted' /\ EncodeShape'
  BY <1>1, FrameNumbers DEF VInv, V!BuffersAccounted, V!Filled, EncodeShape, V!NoPackets, V!Packets
<1>4. \A c \in V!Channels :
        Given(c)' = Given(c) /\ SentTo(c)' = SentTo(c) /\ v_packet'[c] = 0
  BY <1>1, FrameNumbers DEF Given, SentTo, V!NoPackets, V!Channels, V!Packets
<1>5. EncodeOrder'
  BY <1>1, <1>4 DEF VInv, EncodeOrder
<1> QED
  BY <1>2, <1>3, <1>5 DEF VInv

LEMMA VSend == VInv /\ V!Send => VInv'
<1> SUFFICES ASSUME VInv, V!Send PROVE VInv'
  OBVIOUS
<1>1. /\ v_pc = "send" /\ v_pc' = "poll" /\ v_ch \in V!Channels /\ v_frame # 0
      /\ v_frame \in 1 .. MaxFrame
      /\ v_coding' = [v_coding EXCEPT ![v_ch] = Append(v_coding[v_ch], v_frame)]
      /\ UNCHANGED <<v_frame, v_ch, v_streams, v_packet, v_heap, v_held, v_done>>
  BY DEF VInv, V!TypeOK, EncodeShape, V!Send
<1>2. SentTo(v_ch) = v_frame - 1 /\ SentTo(v_ch)' = v_frame /\ SentTo(v_ch) < v_frame
  BY <1>1 DEF SentTo, V!Channels
<1>3. \A c \in V!Channels : Given(c)' = Given(c) /\ (c # v_ch => SentTo(c)' = SentTo(c))
  BY <1>1 DEF Given, SentTo, V!Channels
<1>4. Line(v_streams[v_ch], Append(v_coding[v_ch], v_frame), Given(v_ch), v_frame)
  BY <1>1, <1>2, LinePut DEF VInv, EncodeOrder
<1>5. V!TypeOK'
  BY <1>1, <1>4 DEF VInv, V!TypeOK, Line
<1>6. EncodeOrder'
  BY <1>1, <1>2, <1>3, <1>4 DEF VInv, EncodeOrder, V!TypeOK
<1>7. V!BuffersAccounted' /\ EncodeShape'
  BY <1>1 DEF VInv, V!BuffersAccounted, V!Filled, EncodeShape
<1> QED
  BY <1>5, <1>6, <1>7 DEF VInv

LEMMA VPoll == VInv /\ V!Poll => VInv'
<1> SUFFICES ASSUME VInv, V!Poll PROVE VInv'
  OBVIOUS
<1>1. /\ v_pc = "poll" /\ v_pc' = "acquire" /\ v_streams[v_ch] # <<>>
      /\ UNCHANGED <<v_frame, v_ch, v_coding, v_streams, v_packet, v_heap, v_held, v_done>>
  BY DEF V!Poll
<1>2. V!TypeOK' /\ V!BuffersAccounted' /\ EncodeShape'
  BY <1>1 DEF VInv, V!TypeOK, V!BuffersAccounted, V!Filled, EncodeShape
<1>3. \A c \in V!Channels : Given(c)' = Given(c) /\ SentTo(c)' = SentTo(c)
  BY <1>1 DEF Given, SentTo
<1>4. EncodeOrder'
  BY <1>1, <1>3 DEF VInv, EncodeOrder
<1> QED
  BY <1>2, <1>4 DEF VInv

\* An output is given up; a stream may have been lost with it.
LEMMA VFail ==
    ASSUME VInv, v_pc # "idle", V!Fail,
           UNCHANGED <<v_frame, v_ch, v_coding, v_held, v_done>>,
           \/ UNCHANGED v_streams
           \/ v_streams[v_ch] # <<>> /\ v_streams' = [v_streams EXCEPT ![v_ch] = Tail(@)]
    PROVE  VInv'
<1>1. v_heap' = v_heap - V!Filled /\ v_packet' = V!NoPackets /\ v_pc' = "idle"
  BY DEF V!Fail, V!Cleanup
<1>2. v_heap' = v_held /\ v_held \in Nat
  BY <1>1 DEF VInv, V!BuffersAccounted, V!TypeOK, V!Filled
<1>3. \A c \in V!Channels : Line(v_streams'[c], v_coding[c], Given(c), SentTo(c))
  <2>1. CASE UNCHANGED v_streams
    BY <2>1 DEF VInv, EncodeOrder
  <2>2. CASE v_streams[v_ch] # <<>> /\ v_streams' = [v_streams EXCEPT ![v_ch] = Tail(@)]
    <3>1. v_ch \in V!Channels /\ v_streams \in [V!Channels -> Seq(1 .. MaxFrame)]
      BY DEF VInv, V!TypeOK
    <3>2. Line(Tail(v_streams[v_ch]), v_coding[v_ch], Given(v_ch), SentTo(v_ch))
      BY <2>2, <3>1, LineTake DEF VInv, EncodeOrder
    <3> QED
      BY <2>2, <3>1, <3>2 DEF VInv, EncodeOrder
  <2> QED
    BY <2>1, <2>2
<1>4. V!TypeOK'
  <2>1. v_streams' \in [V!Channels -> Seq(1 .. MaxFrame)]
    <3>1. v_streams' = [c \in V!Channels |-> v_streams'[c]]
      BY DEF VInv, V!TypeOK
    <3> QED
      BY <1>3, <3>1 DEF Line
  <2> QED
    BY <1>1, <1>2, <2>1, FrameNumbers DEF VInv, V!TypeOK, V!NoPackets
<1>5. V!BuffersAccounted' /\ EncodeShape'
  BY <1>1, <1>2 DEF V!BuffersAccounted, EncodeShape
<1>6. EncodeOrder'
  <2> SUFFICES ASSUME NEW c \in V!Channels
               PROVE  Line(v_streams'[c], v_coding[c], v_done[c], v_frame)
    BY <1>1 DEF EncodeOrder, Given, SentTo
  <2>1. v_done[c] \in 0 .. MaxFrame /\ v_frame \in 0 .. MaxFrame /\ v_packet[c] \in 0 .. MaxFrame
    BY DEF VInv, V!TypeOK, V!Channels, V!Packets
  <2>2. v_done[c] <= Given(c) /\ SentTo(c) <= v_frame
    BY <2>1 DEF VInv, EncodeOrder, Given, SentTo
  <2> QED
    BY <1>3, <2>1, <2>2, LineWiden
<1> QED
  BY <1>4, <1>5, <1>6 DEF VInv

LEMMA VFails == VInv /\ (V!SendFails \/ V!PollTimeout \/ V!AcquireFails) => VInv'
<1>1. VInv /\ V!SendFails => VInv'
  BY VFail DEF V!SendFails
<1>2. VInv /\ V!PollTimeout => VInv'
  BY VFail DEF V!PollTimeout
<1>3. VInv /\ V!AcquireFails => VInv'
  <2> SUFFICES ASSUME VInv, V!AcquireFails PROVE VInv'
    OBVIOUS
  <2>1. v_pc = "acquire" /\ v_streams[v_ch] # <<>>
    BY DEF VInv, EncodeShape, V!AcquireFails
  <2> QED
    BY <2>1, VFail DEF V!AcquireFails
<1> QED
  BY <1>1, <1>2, <1>3

LEMMA VAcquire == VInv /\ V!Acquire => VInv'
<1> SUFFICES ASSUME VInv, V!Acquire PROVE VInv'
  OBVIOUS
<1> DEFINE h == Head(v_streams[v_ch])
<1>1. /\ v_pc = "acquire" /\ v_streams[v_ch] # <<>>
      /\ v_packet' = [v_packet EXCEPT ![v_ch] = h]
      /\ v_streams' = [v_streams EXCEPT ![v_ch] = Tail(v_streams[v_ch])]
      /\ v_heap' = v_heap + 1
      /\ \/ v_ch = "left" /\ v_ch' = "right" /\ v_pc' = "send"
         \/ v_ch = "right" /\ v_ch' = "right" /\ v_pc' = "disparity"
      /\ UNCHANGED <<v_frame, v_coding, v_held, v_done>>
  BY DEF VInv, V!TypeOK, V!Channels, EncodeShape, V!Acquire
<1>2. /\ v_ch \in V!Channels /\ v_streams \in [V!Channels -> Seq(1 .. MaxFrame)]
      /\ v_packet \in [V!Packets -> 0 .. MaxFrame] /\ v_ch \in V!Packets
      /\ v_packet[v_ch] = 0
  BY <1>1 DEF VInv, V!TypeOK, V!Channels, V!Packets, EncodeShape, V!NoPackets
<1>3. /\ h \in 1 .. MaxFrame /\ v_done[v_ch] < h
      /\ Line(Tail(v_streams[v_ch]), v_coding[v_ch], h, SentTo(v_ch))
  <2>1. Given(v_ch) = v_done[v_ch]
    BY <1>2 DEF Given
  <2> QED
    BY <1>1, <1>2, <2>1, LineTake DEF VInv, EncodeOrder
<1>4. Tail(v_streams[v_ch]) \in Seq(1 .. MaxFrame)
  BY <1>3 DEF Line
<1>5. V!TypeOK'
  <2>1. v_packet' \in [V!Packets -> 0 .. MaxFrame]
    BY <1>1, <1>2, <1>3
  <2>2. v_streams' \in [V!Channels -> Seq(1 .. MaxFrame)]
    BY <1>1, <1>2, <1>4
  <2> QED
    BY <1>1, <2>1, <2>2 DEF VInv, V!TypeOK, V!Channels
<1>6. EncodeShape'
  BY <1>1, <1>2, <1>3 DEF VInv, EncodeShape, V!NoPackets, V!Packets, V!Channels
<1>7. V!BuffersAccounted'
  BY <1>1, <1>2, <1>3 DEF VInv, V!TypeOK, V!BuffersAccounted, V!Filled, V!Packets, V!Channels,
     EncodeShape, V!NoPackets
<1>8. \A c \in V!Channels :
           /\ SentTo(c)' = SentTo(c)
           /\ c = v_ch => Given(c)' = h /\ v_packet'[c] = h
           /\ c # v_ch => Given(c)' = Given(c) /\ v_packet'[c] = v_packet[c]
  <2>1. ASSUME NEW c \in V!Channels, c = v_ch
        PROVE  Given(c)' = h /\ v_packet'[c] = h
    <3>1. v_packet'[c] = h /\ h # 0 /\ v_pc' # "idle"
      BY <1>1, <1>2, <1>3, <2>1
    <3> QED
      BY <3>1 DEF Given
  <2>2. ASSUME NEW c \in V!Channels, c # v_ch
        PROVE  Given(c)' = Given(c) /\ v_packet'[c] = v_packet[c]
    <3>1. c \in V!Packets
      BY DEF V!Channels, V!Packets
    <3>2. v_packet'[c] = v_packet[c]
      BY <1>1, <1>2, <2>2, <3>1
    <3> QED
      BY <1>1, <3>2 DEF Given
  <2>3. ASSUME NEW c \in V!Channels PROVE SentTo(c)' = SentTo(c)
    BY <1>1 DEF SentTo, V!Channels
  <2> QED
    BY <2>1, <2>2, <2>3
<1>9. EncodeOrder'
  <2> SUFFICES ASSUME NEW c \in V!Channels
               PROVE  /\ Line(v_streams'[c], v_coding[c], Given(c)', SentTo(c)')
                      /\ v_packet'[c] # 0 => v_done[c] < v_packet'[c]
    BY <1>1 DEF EncodeOrder
  <2>1. CASE c = v_ch
    BY <2>1, <1>1, <1>2, <1>3, <1>8
  <2>2. CASE c # v_ch
    <3>1. v_streams'[c] = v_streams[c]
      BY <2>2, <1>1, <1>2
    <3> QED
      BY <2>2, <3>1, <1>1, <1>8 DEF VInv, EncodeOrder
  <2> QED
    BY <2>1, <2>2
<1> QED
  BY <1>5, <1>6, <1>7, <1>9 DEF VInv

LEMMA VDisparity == VInv /\ V!Disparity => VInv'
<1> SUFFICES ASSUME VInv, V!Disparity PROVE VInv'
  OBVIOUS
<1>1. /\ v_pc = "disparity" /\ v_pc' = "idle" /\ v_done' = v_packet'
      /\ \/ /\ v_packet' = [v_packet EXCEPT !["disparity"] = v_frame]
            /\ v_heap' = v_heap + 1 /\ v_held' = v_held + 3
         \/ v_packet' = v_packet /\ v_heap' = v_heap /\ v_held' = v_held + 2
      /\ UNCHANGED <<v_frame, v_ch, v_coding, v_streams>>
  BY DEF V!Disparity
<1>2. /\ v_packet["left"] # 0 /\ v_packet["right"] # 0 /\ v_packet["disparity"] = 0
      /\ v_heap = v_held + 2 /\ v_heap \in Nat /\ v_held \in Nat /\ v_ch = "right"
  BY <1>1 DEF VInv, V!TypeOK, EncodeShape, V!BuffersAccounted, V!Filled
<1>3. v_packet' \in [V!Packets -> 0 .. MaxFrame]
  BY <1>1 DEF VInv, V!TypeOK
<1>4. V!TypeOK'
  BY <1>1, <1>2, <1>3 DEF VInv, V!TypeOK
<1>5. V!BuffersAccounted' /\ EncodeShape'
  BY <1>1, <1>2 DEF V!BuffersAccounted, EncodeShape
<1>6. \A c \in V!Channels :
        /\ v_packet'[c] = v_packet[c] /\ v_packet[c] # 0
        /\ Given(c)' = Given(c) /\ SentTo(c)' = SentTo(c)
  BY <1>1, <1>2 DEF VInv, V!TypeOK, Given, SentTo, V!Channels, V!Packets
<1>7. EncodeOrder'
  BY <1>1, <1>6 DEF VInv, EncodeOrder
<1> QED
  BY <1>4, <1>5, <1>7 DEF VInv

LEMMA VFree == VInv /\ V!Free => VInv'
<1> SUFFICES ASSUME VInv, V!Free PROVE VInv'
  OBVIOUS
<1>1. /\ v_held' = 0 /\ v_heap' = v_heap - v_held
      /\ UNCHANGED <<v_frame, v_pc, v_ch, v_coding, v_streams, v_packet, v_done>>
  BY DEF V!Free
<1>2. V!BuffersAccounted' /\ v_heap' \in Nat
  BY <1>1 DEF VInv, V!TypeOK, V!BuffersAccounted, V!Filled
<1>3. V!TypeOK' /\ EncodeShape'
  BY <1>1, <1>2 DEF VInv, V!TypeOK, EncodeShape
<1>4. \A c \in V!Channels : Given(c)' = Given(c) /\ SentTo(c)' = SentTo(c)
  BY <1>1 DEF Given, SentTo
<1>5. EncodeOrder'
  BY <1>1, <1>4 DEF VInv, EncodeOrder
<1> QED
  BY <1>2, <1>3, <1>5 DEF VInv

LEMMA VNext == VInv /\ [V!Next]_vvars => VInv'
<1> SUFFICES ASSUME VInv, [V!Next]_vvars PROVE VInv'
  OBVIOUS
<1>1. CASE UNCHANGED vvars
  <2>1. V!TypeOK' /\ V!BuffersAccounted' /\ EncodeShape'
    BY <1>1 DEF vvars, VInv, V!TypeOK, V!BuffersAccounted, V!Filled, EncodeShape
  <2>2. EncodeOrder'
    BY <1>1 DEF vvars, VInv, EncodeOrder, Given, SentTo
  <2> QED
    BY <2>1, <2>2 DEF VInv
<1>2. CASE V!Finished
  BY <1>1, <1>2 DEF V!Finished, V!vars, vvars
<1> QED
  BY <1>1, <1>2, VCode, VBegin, VSend, VFails, VPoll, VAcquire, VDisparity, VFree DEF V!Next

\* The images of a channel that are handed on come in the order of their frames.
LEMMA VAdvances ==
    VInv /\ [V!Next]_vvars =>
        \A c \in V!Channels : v_done'[c] # v_done[c] => v_done'[c] > v_done[c]
<1> SUFFICES ASSUME VInv, [V!Next]_vvars, NEW c \in V!Channels, v_done'[c] # v_done[c]
             PROVE  v_done'[c] > v_done[c]
  OBVIOUS
<1>1. V!Disparity
  BY DEF vvars, V!Next, V!Code, V!Begin, V!Send, V!SendFails, V!Poll, V!PollTimeout,
     V!Acquire, V!AcquireFails, V!Free, V!Finished, V!vars
<1>2. v_done'[c] = v_packet[c] /\ v_packet[c] # 0
  BY <1>1 DEF V!Disparity, VInv, EncodeShape, V!TypeOK, V!Channels, V!Packets
<1>3. v_packet[c] \in Nat /\ v_done[c] \in Nat
  BY DEF VInv, V!TypeOK, V!Channels, V!Packets
<1> QED
  BY <1>1, <1>2, <1>3 DEF V!Disparity, VInv, EncodeOrder

-----------------------------------------------------------------------------
(* "send"                                                                  *)

\* How far in a triplet the net thread is, a packet is, and the receiver is.
Sent == IF n_net = "send" THEN n_nth - 1 ELSE 0
Part(p) == IF p.type = "left" THEN 1 ELSE IF p.type = "right" THEN 2 ELSE 0
Got == IF n_target = 0 THEN 0 ELSE IF n_result["right"] = 0 THEN 1 ELSE 2

\* The packet p may come after m packets of the triplet of frame i.
Follows(m, i, p) ==
    IF m = 0 THEN p.type \notin {"right", "disparity"}
             ELSE p = [type |-> N!Order[m + 1], idx |-> i]

Fresh(i) == n_since < i \/ n_since = MaxFrame

\* A connection: triplets in the order of their frames.
Stream(w) ==
    /\ w \in Seq(N!Packet)
    /\ \A j, k \in 1 .. Len(w) : j < k => w[j].idx <= w[k].idx
    /\ \A k \in 1 .. Len(w) - 1 : Follows(Part(w[k]), w[k].idx, w[k + 1])

\* The queue, from the frame that was last popped to the one last encoded.
Backlog(q, lo, hi) ==
    /\ q \in Seq(1 .. MaxFrame) /\ Len(q) <= Depth
    /\ \A i, j \in 1 .. Len(q) : i < j => q[i] <= q[j]
    /\ \A i \in 1 .. Len(q) : lo <= q[i] /\ q[i] <= hi

\* A connection that is open gets nothing from the time before it.
NetQueue ==
    /\ Backlog(n_queue, n_item, n_frame)
    /\ n_item <= n_frame /\ n_since <= n_frame
    /\ n_fd /\ n_net \in {"loop", "send", "perf"} =>
         \A i \in 1 .. Len(n_queue) : Fresh(n_queue[i])
    /\ n_net \in {"send", "perf"} => n_fd /\ n_item # 0 /\ Fresh(n_item)

OnWire(p) ==
    /\ p.idx <= n_item
    /\ p.type # "calib" =>
         p.idx # 0 /\ n_shown["left"] <= p.idx /\ n_target <= p.idx /\ Fresh(p.idx)

\* What was received, what is on the wire and what is sent next are consecutive.
NetWire ==
    /\ Stream(n_wire)
    /\ \A k \in 1 .. Len(n_wire) : OnWire(n_wire[k])
    /\ n_wire # <<>> => Follows(Got, n_target, n_wire[1])

NetSent ==
    n_fd /\ n_peer = "up" =>
        IF n_wire = <<>>
        THEN Sent = Got /\ (Sent # 0 => n_target = n_item)
        ELSE Sent = Part(n_wire[Len(n_wire)])
             /\ (Sent # 0 => n_wire[Len(n_wire)].idx = n_item)

NetReceiver ==
    /\ n_target = 0 => n_result = N!Empty
    /\ n_target # 0 =>
         /\ n_result["left"] = n_target /\ n_result["right"] \in {0, n_target}
         /\ n_result["disparity"] = 0
         /\ n_shown["left"] <= n_target
    /\ n_target <= n_item /\ n_shown["left"] <= n_item
    /\ \A t \in N!Triplet : n_shown[t] = n_shown["left"]

NetShape ==
    /\ n_peer # "up" => n_wire = <<>> /\ n_target = 0
    /\ n_net = "calib" => n_fd /\ n_wire = <<>> /\ n_target = 0

NInv == N!TypeOK /\ NetQueue /\ NetWire /\ NetSent /\ NetReceiver /\ NetShape

LEMMA OrderIs ==
    N!Order[1] = "left" /\ N!Order[2] = "right" /\ N!Order[3] = "disparity"
  BY DEF N!Order

\* A packet is sent.
LEMMA StreamAppend ==
    ASSUME NEW w, NEW p \in N!Packet, Stream(w),
           \A k \in 1 .. Len(w) : w[k].idx <= p.idx,
           w # <<>> => Follows(Part(w[Len(w)]), w[Len(w)].idx, p)
    PROVE  /\ Stream(Append(w, p)) /\ Append(w, p) # <<>>
           /\ Len(Append(w, p)) = Len(w) + 1 /\ Len(w) \in Nat
           /\ \A k \in 1 .. Len(w) : Append(w, p)[k] = w[k]
           /\ Append(w, p)[Len(w) + 1] = p
<1> DEFINE n == Append(w, p)
<1>1. /\ n \in Seq(N!Packet) /\ Len(n) = Len(w) + 1 /\ Len(w) \in Nat
      /\ \A k \in 1 .. Len(w) : n[k] = w[k]
      /\ n[Len(w) + 1] = p
  BY AppendProperties DEF Stream
<1>2. \A k \in 1 .. Len(n) : k = Len(w) + 1 \/ k \in 1 .. Len(w)
  BY <1>1
<1>3. \A j, k \in 1 .. Len(n) : j < k => n[j].idx <= n[k].idx
  <2> SUFFICES ASSUME NEW j \in 1 .. Len(n), NEW k \in 1 .. Len(n), j < k
               PROVE  n[j].idx <= n[k].idx
    OBVIOUS
  <2>1. j \in 1 .. Len(w) /\ n[j] = w[j]
    BY <1>1
  <2>2. CASE k = Len(w) + 1
    BY <2>1, <2>2, <1>1
  <2>3. CASE k \in 1 .. Len(w)
    BY <2>1, <2>3, <1>1 DEF Stream
  <2> QED
    BY <2>2, <2>3, <1>2
<1>4. \A k \in 1 .. Len(n) - 1 : Follows(Part(n[k]), n[k].idx, n[k + 1])
  <2> SUFFICES ASSUME NEW k \in 1 .. Len(n) - 1
               PROVE  Follows(Part(n[k]), n[k].idx, n[k + 1])
    OBVIOUS
  <2>1. k \in 1 .. Len(w) /\ n[k] = w[k]
    BY <1>1
  <2>2. CASE k = Len(w)
    <3>1. w # <<>> /\ n[k + 1] = p
      BY <2>1, <2>2, <1>1
    <3> QED
      BY <3>1, <2>1, <2>2
  <2>3. CASE k # Len(w)
    <3>1. k \in 1 .. Len(w) - 1 /\ n[k + 1] = w[k + 1]
      BY <2>1, <2>3, <1>1
    <3> QED
      BY <3>1, <2>1 DEF Stream
  <2> QED
    BY <2>2, <2>3
<1>5. n # <<>>
  <2>1. Len(n) # 0
    BY <1>1
  <2>2. n = <<>> => Len(n) = 0
    OBVIOUS
  <2> QED
    BY <2>1, <2>2
<1>6. Stream(n)
  BY <1>1, <1>3, <1>4 DEF Stream
<1> QED
  BY <1>1, <1>5, <1>6

\* A packet is received.
LEMMA StreamTail ==
    ASSUME NEW w, Stream(w), w # <<>>
    PROVE  /\ Stream(Tail(w)) /\ Head(w) = w[1] /\ w[1] \in N!Packet
           /\ Len(Tail(w)) = Len(w) - 1 /\ Len(w) \in Nat \ {0}
           /\ \A k \in 1 .. Len(Tail(w)) :
                Tail(w)[k] = w[k + 1] /\ k + 1 \in 1 .. Len(w) /\ w[1].idx <= Tail(w)[k].idx
           /\ Tail(w) # <<>> =>
                Follows(Part(w[1]), w[1].idx, Tail(w)[1]) /\ Tail(w)[Len(Tail(w))] = w[Len(w)]
           /\ Tail(w) = <<>> => Len(w) = 1
<1> DEFINE t == Tail(w)
<1>1. /\ w \in Seq(N!Packet) /\ Len(w) \in Nat \ {0} /\ Head(w) = w[1] /\ w[1] \in N!Packet
      /\ t \in Seq(N!Packet) /\ Len(t) = Len(w) - 1
      /\ \A k \in 1 .. Len(t) : t[k] = w[k + 1]
  BY HeadTailProperties, EmptySeq DEF Stream
<1>2. \A k \in 1 .. Len(t) : t[k] = w[k + 1] /\ k + 1 \in 1 .. Len(w) /\ 1 < k + 1
  BY <1>1
<1>3. 1 \in 1 .. Len(w)
  BY <1>1
<1>4. \A k \in 1 .. Len(t) : w[1].idx <= t[k].idx
  BY <1>2, <1>3 DEF Stream
<1>5. \A j, k \in 1 .. Len(t) : j < k => t[j].idx <= t[k].idx
  <2> SUFFICES ASSUME NEW j \in 1 .. Len(t), NEW k \in 1 .. Len(t), j < k
               PROVE  t[j].idx <= t[k].idx
    OBVIOUS
  <2>1. j + 1 < k + 1
    BY <1>1
  <2> QED
    BY <2>1, <1>2 DEF Stream
<1>6. \A k \in 1 .. Len(t) - 1 : Follows(Part(t[k]), t[k].idx, t[k + 1])
  <2> SUFFICES ASSUME NEW k \in 1 .. Len(t) - 1
               PROVE  Follows(Part(t[k]), t[k].idx, t[k + 1])
    OBVIOUS
  <2>1. k + 1 \in 1 .. Len(w) - 1 /\ t[k] = w[k + 1] /\ t[k + 1] = w[(k + 1) + 1]
    BY <1>1
  <2> QED
    BY <2>1 DEF Stream
<1>7. t # <<>> => Len(t) \in Nat \ {0}
  BY <1>1, EmptySeq
<1>8. ASSUME t # <<>> PROVE Follows(Part(w[1]), w[1].idx, t[1]) /\ t[Len(t)] = w[Len(w)]
  <2>1. 1 \in 1 .. Len(w) - 1 /\ t[1] = w[1 + 1] /\ t[Len(t)] = w[Len(w)]
    BY <1>1, <1>7, <1>8
  <2> QED
    BY <2>1 DEF Stream
<1>9. t = <<>> => Len(w) = 1
  <2>1. t = <<>> => Len(t) = 0
    <3>1. Len(<<>>) = 0
      OBVIOUS
    <3> QED
      BY <3>1, Zenon
  <2> QED
    BY <2>1, <1>1
<1> QED
  BY <1>1, <1>2, <1>4, <1>5, <1>6, <1>8, <1>9 DEF Stream

LEMMA NInit == N!Init => NInv
<1> SUFFICES ASSUME N!Init PROVE NInv
  OBVIOUS
<1>1. n_queue = <<>> /\ n_wire = <<>> /\ Len(n_queue) = 0 /\ Len(n_wire) = 0
  BY DEF N!Init
<1>2. 0 \in 0 .. MaxFrame /\ Depth \in Nat /\ Window \in Nat
  BY StagesAssumption
<1>3. N!TypeOK
  <2>1. n_queue \in Seq(1 .. MaxFrame) /\ n_wire \in Seq(N!Packet)
    BY <1>1
  <2>2. Len(n_queue) <= Depth /\ Len(n_wire) <= Window
    BY <1>1, <1>2
  <2>3. n_result \in [N!Triplet -> 0 .. MaxFrame] /\ n_shown \in [N!Triplet -> 0 .. MaxFrame]
    BY <1>2 DEF N!Init, N!Empty
  <2>4. n_fd \in BOOLEAN /\ n_listening \in BOOLEAN /\ n_run \in BOOLEAN /\ n_waiting \in BOOLEAN
    BY DEF N!Init
  <2>5. /\ n_frame \in 0 .. MaxFrame /\ n_item \in 0 .. MaxFrame /\ n_since \in 0 .. MaxFrame
        /\ n_target \in 0 .. MaxFrame /\ n_nth \in 1 .. 3
        /\ n_net = "loop" /\ n_peer = "none"
    BY <1>2 DEF N!Init
  <2> QED
    BY <2>1, <2>2, <2>3, <2>4, <2>5 DEF N!TypeOK
<1>4. NetQueue
  BY <1>1, <1>2 DEF N!Init, NetQueue, Backlog
<1>5. Stream(n_wire)
  BY <1>1 DEF Stream
<1>6. NetWire /\ NetSent /\ NetShape
  BY <1>1, <1>5 DEF N!Init, NetWire, NetSent, NetShape
<1>7. NetReceiver
  BY DEF N!Init, NetReceiver, N!Empty, N!Triplet
<1> QED
  BY <1>3, <1>4, <1>6, <1>7 DEF NInv

\* The receiver and the connection are left alone.
LEMMA NetSame ==
    ASSUME NInv,
           UNCHANGED <<n_item, n_since, n_peer, n_wire, n_target, n_result, n_shown>>,
           n_fd' => n_fd, (n_fd' /\ n_peer = "up") => Sent' = Sent,
           n_net' # "calib"
    PROVE  NetWire' /\ NetSent' /\ NetReceiver' /\ NetShape'
<1>1. Got' = Got
  BY DEF Got
<1>2. NetWire'
  BY <1>1 DEF NInv, NetWire, OnWire, Fresh
<1>3. NetSent'
  BY <1>1 DEF NInv, NetSent
<1>4. NetReceiver' /\ NetShape'
  BY DEF NInv, NetReceiver, NetShape
<1> QED
  BY <1>2, <1>3, <1>4

LEMMA NEnqueue == NInv /\ N!Enqueue => NInv'
<1> SUFFICES ASSUME NInv, N!Enqueue PROVE NInv'
  OBVIOUS
<1>1. /\ n_frame' = IF n_frame < MaxFrame THEN n_frame + 1 ELSE n_frame
      /\ n_queue' = IF Len(n_queue) < Depth THEN Append(n_queue, n_frame') ELSE n_queue
      /\ UNCHANGED <<n_net, n_item, n_nth, n_fd, n_listening, n_run, n_waiting, n_peer, n_wire,
                     n_since, n_target, n_result, n_shown>>
  BY DEF N!Enqueue, N!HasRoom
<1>2. /\ n_frame \in 0 .. MaxFrame /\ n_since \in 0 .. MaxFrame /\ n_item \in 0 .. MaxFrame
      /\ n_queue \in Seq(1 .. MaxFrame) /\ Len(n_queue) <= Depth
      /\ Backlog(n_queue, n_item, n_frame) /\ n_item <= n_frame /\ n_since <= n_frame
  BY DEF NInv, N!TypeOK, NetQueue
<1>3. n_frame' \in 1 .. MaxFrame /\ n_frame <= n_frame' /\ Fresh(n_frame')
  BY <1>1, <1>2, FrameNumbers DEF Fresh
<1>4. /\ Backlog(n_queue', n_item, n_frame')
      /\ \A i \in 1 .. Len(n_queue') :
            n_queue'[i] = n_frame' \/ \E j \in 1 .. Len(n_queue) : n_queue'[i] = n_queue[j]
  <2>1. CASE n_queue' = n_queue
    <3>1. \A i \in 1 .. Len(n_queue) : n_queue[i] \in 1 .. MaxFrame
      BY <1>2, ElementOfSeq
    <3> QED
      BY <2>1, <3>1, <1>2, <1>3 DEF Backlog
  <2>2. CASE Len(n_queue) < Depth /\ n_queue' = Append(n_queue, n_frame')
    <3>1. /\ n_queue' \in Seq(1 .. MaxFrame) /\ Len(n_queue') = Len(n_queue) + 1
          /\ Len(n_queue) \in Nat
          /\ \A k \in 1 .. Len(n_queue) : n_queue'[k] = n_queue[k]
          /\ n_queue'[Len(n_queue) + 1] = n_frame'
      BY <2>2, <1>2, <1>3, AppendProperties
    <3>2. Len(n_queue') <= Depth
      BY <2>2, <3>1, StagesAssumption
    <3>3. \A k \in 1 .. Len(n_queue') : k = Len(n_queue) + 1 \/ k \in 1 .. Len(n_queue)
      BY <3>1
    <3>4. \A i \in 1 .. Len(n_queue) : n_queue[i] \in Nat /\ n_queue[i] <= n_frame'
      <4> SUFFICES ASSUME NEW i \in 1 .. Len(n_queue)
                   PROVE  n_queue[i] \in Nat /\ n_queue[i] <= n_frame'
        OBVIOUS
      <4>1. n_queue[i] \in 1 .. MaxFrame
        BY <1>2, ElementOfSeq
      <4>2. n_queue[i] <= n_frame
        BY <1>2 DEF Backlog
      <4> QED
        BY <4>1, <4>2, <1>2, <1>3
    <3>5. \A i, j \in 1 .. Len(n_queue') : i < j => n_queue'[i] <= n_queue'[j]
      <4> SUFFICES ASSUME NEW i \in 1 .. Len(n_queue'), NEW j \in 1 .. Len(n_queue'), i < j
                   PROVE  n_queue'[i] <= n_queue'[j]
        OBVIOUS
      <4>1. i \in 1 .. Len(n_queue) /\ n_queue'[i] = n_queue[i]
        BY <3>1
      <4>2. CASE j = Len(n_queue) + 1
        BY <4>1, <4>2, <3>1, <3>4
      <4>3. CASE j \in 1 .. Len(n_queue)
        BY <4>1, <4>3, <3>1, <1>2 DEF Backlog
      <4> QED
        BY <4>2, <4>3, <3>3
    <3>6. \A i \in 1 .. Len(n_queue') : n_item <= n_queue'[i] /\ n_queue'[i] <= n_frame'
      BY <3>1, <3>3, <3>4, <1>2, <1>3 DEF Backlog
    <3>7. Backlog(n_queue', n_item, n_frame')
      BY <3>1, <3>2, <3>5, <3>6 DEF Backlog
    <3> QED
      BY <3>1, <3>3, <3>7
  <2> QED
    BY <1>1, <2>1, <2>2
<1>5. NetQueue'
  <2>1. n_item <= n_frame' /\ n_since <= n_frame'
    BY <1>2, <1>3
  <2>2. \A i : Fresh(i)' <=> Fresh(i)
    BY <1>1 DEF Fresh
  <2> QED
    BY <1>1, <1>3, <1>4, <2>1, <2>2 DEF NInv, NetQueue, Fresh
<1>6. N!TypeOK'
  BY <1>1, <1>3, <1>4 DEF NInv, N!TypeOK, Backlog
<1>7. Sent' = Sent
  BY <1>1 DEF Sent
<1>8. NetWire' /\ NetSent' /\ NetReceiver'
  BY <1>1, <1>7 DEF NInv, NetWire, NetSent, NetReceiver, Got, OnWire, Fresh
<1>9. NetShape'
  BY <1>1 DEF NInv, NetShape
<1> QED
  BY <1>5, <1>6, <1>8, <1>9 DEF NInv

\* A frame leaves the queue.
LEMMA BacklogTail ==
    ASSUME NEW q, NEW lo \in 0 .. MaxFrame, NEW hi \in 0 .. MaxFrame, Backlog(q, lo, hi), q # <<>>
    PROVE  /\ Head(q) \in 1 .. MaxFrame /\ lo <= Head(q) /\ Head(q) <= hi
           /\ Backlog(Tail(q), lo, hi) /\ Backlog(Tail(q), Head(q), hi)
           /\ \E i \in 1 .. Len(q) : Head(q) = q[i]
           /\ \A i \in 1 .. Len(Tail(q)) : \E j \in 1 .. Len(q) : Tail(q)[i] = q[j]
<1> DEFINE t == Tail(q)
<1>1. /\ q \in Seq(1 .. MaxFrame) /\ Len(q) \in Nat \ {0} /\ Len(q) <= Depth
      /\ Head(q) = q[1] /\ q[1] \in 1 .. MaxFrame
      /\ t \in Seq(1 .. MaxFrame) /\ Len(t) = Len(q) - 1
      /\ \A k \in 1 .. Len(t) : t[k] = q[k + 1]
  <2>1. q \in Seq(1 .. MaxFrame) /\ Len(q) <= Depth
    BY DEF Backlog
  <2>2. Len(q) \in Nat \ {0}
    BY <2>1, EmptySeq
  <2>3. q[1] \in 1 .. MaxFrame
    <3>1. 1 \in 1 .. Len(q)
      BY <2>2
    <3> QED
      BY <2>1, <3>1, ElementOfSeq
  <2> QED
    BY <2>1, <2>2, <2>3, HeadTailProperties
<1>2. \A k \in 1 .. Len(t) : t[k] = q[k + 1] /\ k + 1 \in 1 .. Len(q) /\ 1 < k + 1
  BY <1>1
<1>3. 1 \in 1 .. Len(q) /\ Len(t) <= Depth
  BY <1>1, StagesAssumption
<1>4. \A i, j \in 1 .. Len(t) : i < j => t[i] <= t[j]
  <2> SUFFICES ASSUME NEW i \in 1 .. Len(t), NEW j \in 1 .. Len(t), i < j
               PROVE  t[i] <= t[j]
    OBVIOUS
  <2>1. i + 1 < j + 1
    BY <1>1
  <2> QED
    BY <2>1, <1>2 DEF Backlog
<1>5. \A i \in 1 .. Len(t) : lo <= t[i] /\ q[1] <= t[i] /\ t[i] <= hi
  BY <1>2, <1>3 DEF Backlog
<1> QED
  BY <1>1, <1>2, <1>3, <1>4, <1>5 DEF Backlog

LEMMA NDrain == NInv /\ N!Drain => NInv'
<1> SUFFICES ASSUME NInv, N!Drain PROVE NInv'
  OBVIOUS
<1>1. /\ n_net = "drain"
      /\ \/ n_queue = <<>> /\ n_net' = "loop" /\ n_queue' = n_queue
         \/ n_queue # <<>> /\ n_net' = "drain" /\ n_queue' = Tail(n_queue)
      /\ UNCHANGED <<n_frame, n_item, n_nth, n_fd, n_listening, n_run, n_waiting, n_peer,
                     n_wire, n_since, n_target, n_result, n_shown>>
  BY DEF N!Drain, N!OthersUnchanged, N!ReceiverUnchanged
<1>2. /\ n_item \in 0 .. MaxFrame /\ n_frame \in 0 .. MaxFrame
      /\ Backlog(n_queue, n_item, n_frame)
  BY DEF NInv, N!TypeOK, NetQueue
<1>3. Backlog(n_queue', n_item, n_frame)
  BY <1>1, <1>2, BacklogTail
<1>4. N!TypeOK'
  BY <1>1, <1>3 DEF NInv, N!TypeOK, Backlog
<1>5. NetQueue'
  <2>1. n_net' = "loop" => Len(n_queue') = 0
    BY <1>1
  <2> QED
    BY <1>1, <1>3, <2>1 DEF NInv, NetQueue
<1>6. Sent' = Sent
  BY <1>1 DEF Sent
<1> QED
  BY <1>1, <1>4, <1>5, <1>6, NetSame DEF NInv

LEMMA NPop == NInv /\ N!Pop => NInv'
<1> SUFFICES ASSUME NInv, N!Pop PROVE NInv'
  OBVIOUS
<1>1. /\ n_net = "loop" /\ n_fd /\ n_queue # <<>> /\ n_net' = "send" /\ n_nth' = 1
      /\ n_item' = Head(n_queue) /\ n_queue' = Tail(n_queue)
      /\ UNCHANGED <<n_frame, n_fd, n_listening, n_run, n_waiting, n_peer, n_wire, n_since,
                     n_target, n_result, n_shown>>
  BY DEF N!Pop, N!OthersUnchanged, N!ReceiverUnchanged
<1>2. /\ n_item \in 0 .. MaxFrame /\ n_frame \in 0 .. MaxFrame
      /\ Backlog(n_queue, n_item, n_frame)
      /\ \A i \in 1 .. Len(n_queue) : Fresh(n_queue[i])
      /\ n_since <= n_frame
  BY <1>1 DEF NInv, N!TypeOK, NetQueue
<1>3. /\ n_item' \in 1 .. MaxFrame /\ n_item <= n_item' /\ n_item' <= n_frame
      /\ Backlog(n_queue', n_item', n_frame)
      /\ \E i \in 1 .. Len(n_queue) : n_item' = n_queue[i]
      /\ \A i \in 1 .. Len(n_queue') : \E j \in 1 .. Len(n_queue) : n_queue'[i] = n_queue[j]
  BY <1>1, <1>2, BacklogTail
<1>4. Fresh(n_item') /\ \A i \in 1 .. Len(n_queue') : Fresh(n_queue'[i])
  BY <1>2, <1>3
<1>5. N!TypeOK'
  BY <1>1, <1>3 DEF NInv, N!TypeOK, Backlog
<1>6. NetQueue'
  BY <1>1, <1>2, <1>3, <1>4 DEF NetQueue, Fresh
<1>7. Sent = 0 /\ Sent' = 0 /\ Got' = Got
  BY <1>1 DEF Sent, Got
<1>8. NetWire'
  <2>1. \A k \in 1 .. Len(n_wire) : OnWire(n_wire[k])'
    <3> SUFFICES ASSUME NEW k \in 1 .. Len(n_wire) PROVE OnWire(n_wire[k])'
      OBVIOUS
    <3>1. OnWire(n_wire[k]) /\ n_wire[k].idx \in Nat
      <4>1. n_wire[k] \in N!Packet
        BY ElementOfSeq DEF NInv, N!TypeOK
      <4> QED
        BY <4>1 DEF NInv, NetWire, N!Packet
    <3> QED
      BY <1>1, <1>2, <1>3, <3>1 DEF OnWire, Fresh
  <2> QED
    BY <1>1, <1>7, <2>1 DEF NInv, NetWire
<1>9. NetSent'
  BY <1>1, <1>7 DEF NInv, NetSent
<1>10. NetReceiver'
  <2>1. n_target <= n_item /\ n_shown["left"] <= n_item
    BY DEF NInv, NetReceiver
  <2>2. n_target \in Nat /\ n_shown["left"] \in Nat /\ n_item \in Nat /\ n_item' \in Nat
    <3>1. n_target \in 0 .. MaxFrame /\ n_shown \in [N!Triplet -> 0 .. MaxFrame]
      BY DEF NInv, N!TypeOK
    <3>2. n_shown["left"] \in 0 .. MaxFrame
      BY <3>1 DEF N!Triplet
    <3> QED
      BY <1>2, <1>3, <3>1, <3>2, FrameNumbers
  <2>3. n_target <= n_item' /\ n_shown["left"] <= n_item'
    BY <1>3, <2>1, <2>2
  <2> QED
    BY <1>1, <2>3 DEF NInv, NetReceiver
<1>11. NetShape'
  BY <1>1 DEF NInv, NetShape
<1> QED
  BY <1>5, <1>6, <1>8, <1>9, <1>10, <1>11 DEF NInv

LEMMA NAccept == NInv /\ N!Accept => NInv'
<1> SUFFICES ASSUME NInv, N!Accept PROVE NInv'
  OBVIOUS
<1>1. /\ n_net' = "calib" /\ n_fd' = TRUE /\ n_waiting' = FALSE /\ n_peer' \in {"up", "gone"}
      /\ n_wire' = <<>> /\ n_target' = 0 /\ n_result' = N!Empty /\ n_since' = n_frame
      /\ UNCHANGED <<n_queue, n_frame, n_item, n_nth, n_listening, n_run, n_shown>>
  BY DEF N!Accept, N!OthersUnchanged
<1>2. n_frame \in 0 .. MaxFrame /\ 0 \in 0 .. MaxFrame /\ Window \in Nat
  BY StagesAssumption DEF NInv, N!TypeOK
<1>3. n_wire' \in Seq(N!Packet) /\ Len(n_wire') = 0
  BY <1>1
<1>4. N!TypeOK'
  <2>1. n_result' \in [N!Triplet -> 0 .. MaxFrame]
    BY <1>1, <1>2 DEF N!Empty
  <2>2. n_fd' \in BOOLEAN /\ n_waiting' \in BOOLEAN
    BY <1>1
  <2>3. /\ n_peer' \in {"none", "up", "gone"}
        /\ n_net' \in {"loop", "calib", "drain", "send", "perf", "exit"}
    BY <1>1
  <2> QED
    BY <1>1, <1>2, <1>3, <2>1, <2>2, <2>3 DEF NInv, N!TypeOK
<1>5. NetQueue'
  BY <1>1, <1>2 DEF NInv, NetQueue
<1>6. NetWire' /\ NetShape'
  BY <1>1, <1>3 DEF NetWire, Stream, NetShape
<1>7. NetSent'
  BY <1>1 DEF NetSent, Sent, Got
<1>8. NetReceiver'
  BY <1>1, <1>2 DEF NInv, N!TypeOK, NetReceiver
<1> QED
  BY <1>4, <1>5, <1>6, <1>7, <1>8 DEF NInv

\* The net thread goes on without sending, popping or accepting.
LEMMA NQuiet ==
    NInv /\ (N!NoClient \/ N!PopTimeout \/ N!SendFails \/ N!Leave \/ N!Stop \/ N!Disconnect
             \/ N!Finished \/ N!Connect) => NInv'
<1> SUFFICES ASSUME NInv, N!NoClient \/ N!PopTimeout \/ N!SendFails \/ N!Leave \/ N!Stop
                          \/ N!Disconnect \/ N!Finished \/ N!Connect
             PROVE  NInv'
  OBVIOUS
<1>1. /\ UNCHANGED <<n_queue, n_frame, n_item, n_nth, n_peer, n_wire, n_since, n_target,
                     n_result, n_shown>>
      /\ n_fd' \in {n_fd, FALSE}
      /\ \/ n_net' = n_net /\ (n_fd' = n_fd \/ n_net = "exit")
         \/ n_net = "loop" /\ n_net' = "drain" /\ n_fd' = n_fd
         \/ n_net = "send" /\ n_net' = "loop" /\ n_fd' = FALSE
         \/ n_net = "loop" /\ n_net' = "exit" /\ n_fd' = n_fd
  BY DEF N!NoClient, N!PopTimeout, N!SendFails, N!Leave, N!Stop, N!Disconnect, N!Finished,
     N!Connect, N!OthersUnchanged, N!ReceiverUnchanged, N!BoardUnchanged, N!vars
<1>2. n_listening' \in BOOLEAN /\ n_run' \in BOOLEAN /\ n_waiting' \in BOOLEAN /\ n_fd' \in BOOLEAN
  BY DEF N!NoClient, N!PopTimeout, N!SendFails, N!Leave, N!Stop, N!Disconnect, N!Finished,
     N!Connect, N!OthersUnchanged, N!ReceiverUnchanged, N!BoardUnchanged, N!vars, NInv, N!TypeOK
<1>3. N!TypeOK'
  BY <1>1, <1>2 DEF NInv, N!TypeOK
<1>4. NetQueue'
  BY <1>1 DEF NInv, NetQueue, Fresh
<1>5. Got' = Got /\ (n_fd' => n_fd /\ Sent' = Sent)
  <2>1. Got' = Got
    BY <1>1 DEF Got
  <2>2. n_fd' => n_fd
    BY <1>1 DEF NInv, N!TypeOK
  <2>3. ASSUME n_fd' PROVE Sent' = Sent
    <3>1. n_net' = n_net \/ (n_net = "loop" /\ n_net' \in {"drain", "exit"})
      BY <1>1, <2>3
    <3> QED
      BY <1>1, <3>1 DEF Sent
  <2> QED
    BY <2>1, <2>2, <2>3
<1>6. NetWire' /\ NetReceiver'
  BY <1>1, <1>5 DEF NInv, NetWire, OnWire, Fresh, NetReceiver
<1>7. NetSent'
  BY <1>1, <1>5 DEF NInv, NetSent
<1>8. NetShape'
  BY <1>1 DEF NInv, NetShape
<1> QED
  BY <1>3, <1>4, <1>6, <1>7, <1>8 DEF NInv

\* A packet is sent, or lost with a client that has gone.
LEMMA NetSends ==
    ASSUME NInv, n_fd, NEW p \in N!Packet, N!SendPacket(p),
           Follows(Sent, n_item, p),
           p.idx <= n_item, \A k \in 1 .. Len(n_wire) : n_wire[k].idx <= p.idx,
           p.type # "calib" => p.idx = n_item /\ n_item # 0 /\ Fresh(n_item),
           Sent' = Part(p), Sent' # 0 => p.idx = n_item, n_net' # "calib",
           UNCHANGED <<n_item, n_fd, n_peer, n_since, n_target, n_result, n_shown>>
    PROVE  /\ NetWire' /\ NetSent' /\ NetReceiver' /\ NetShape'
           /\ n_wire' \in Seq(N!Packet) /\ Len(n_wire') <= Window
<1>1. Got' = Got
  BY DEF Got
<1>2. NetReceiver' /\ Stream(n_wire) /\ Len(n_wire) <= Window
  BY DEF NInv, NetReceiver, NetWire, N!TypeOK
<1>3. CASE n_peer = "gone" /\ UNCHANGED n_wire
  <2>1. NetWire' /\ NetSent' /\ NetShape'
    BY <1>1, <1>3 DEF NInv, NetWire, OnWire, Fresh, NetSent, NetShape
  <2> QED
    BY <1>2, <1>3, <2>1 DEF Stream
<1>4. CASE n_peer = "up" /\ Len(n_wire) < Window /\ n_wire' = Append(n_wire, p)
  <2>1. n_wire # <<>> => Follows(Part(n_wire[Len(n_wire)]), n_wire[Len(n_wire)].idx, p)
    BY <1>4 DEF NInv, NetSent, Follows
  <2>2. n_wire = <<>> => Follows(Got, n_target, p)
    BY <1>4 DEF NInv, NetSent, Follows
  <2>3. /\ Stream(n_wire') /\ n_wire' # <<>>
        /\ Len(n_wire') = Len(n_wire) + 1 /\ Len(n_wire) \in Nat
        /\ \A k \in 1 .. Len(n_wire) : n_wire'[k] = n_wire[k]
        /\ n_wire'[Len(n_wire) + 1] = p
    BY <1>2, <1>4, <2>1, StreamAppend
  <2>4. \A k \in 1 .. Len(n_wire') : OnWire(n_wire'[k])
    <3>1. OnWire(p)
      BY DEF OnWire, NInv, NetReceiver
    <3>2. \A k \in 1 .. Len(n_wire) : OnWire(n_wire[k])
      BY DEF NInv, NetWire
    <3>3. \A k \in 1 .. Len(n_wire') : k = Len(n_wire) + 1 \/ k \in 1 .. Len(n_wire)
      BY <2>3
    <3> QED
      BY <2>3, <3>1, <3>2, <3>3
  <2>5. Follows(Got, n_target, n_wire'[1])
    <3>1. CASE n_wire = <<>>
      <4>1. Len(n_wire) = 0
        BY <3>1
      <4> QED
        BY <3>1, <4>1, <2>2, <2>3
    <3>2. CASE n_wire # <<>>
      <4>1. 1 \in 1 .. Len(n_wire)
        BY <3>2, <1>2, EmptySeq DEF Stream
      <4> QED
        BY <3>2, <4>1, <2>3 DEF NInv, NetWire
    <3> QED
      BY <3>1, <3>2
  <2>6. NetWire'
    BY <1>1, <2>3, <2>4, <2>5 DEF NetWire, OnWire, Fresh, Follows
  <2>7. n_wire'[Len(n_wire')] = p
    BY <2>3
  <2>8. NetSent'
    BY <2>3, <2>7 DEF NetSent, Part
  <2>9. NetShape'
    BY <1>4 DEF NetShape
  <2>10. Len(n_wire') <= Window
    BY <1>4, <2>3, StagesAssumption
  <2> QED
    BY <1>2, <2>3, <2>6, <2>8, <2>9, <2>10 DEF Stream
<1> QED
  BY <1>3, <1>4 DEF N!SendPacket

LEMMA NCalib == NInv /\ N!Calib => NInv'
<1> SUFFICES ASSUME NInv, N!Calib PROVE NInv'
  OBVIOUS
<1> DEFINE p == [type |-> "calib", idx |-> 0]
<1>1. /\ n_net = "calib" /\ n_net' = "drain"
      /\ UNCHANGED <<n_queue, n_item, n_nth, n_fd, n_waiting, n_peer, n_since, n_frame,
                     n_listening, n_run, n_target, n_result, n_shown>>
  BY DEF N!Calib, N!OthersUnchanged, N!ReceiverUnchanged
<1>2. n_fd /\ n_wire = <<>> /\ n_target = 0 /\ Len(n_wire) = 0
  BY <1>1 DEF NInv, NetShape
<1>3. Sent = 0 /\ Sent' = 0
  BY <1>1 DEF Sent
<1>4. NetQueue'
  BY <1>1 DEF NInv, NetQueue
<1>5. CASE N!SendPacket(p)
  <2>1. p \in N!Packet
    BY FrameNumbers DEF N!Packet
  <2>2. n_item \in Nat
    BY DEF NInv, N!TypeOK
  <2>3. /\ Follows(Sent, n_item, p) /\ p.idx <= n_item /\ p.type = "calib"
        /\ Part(p) = 0 /\ \A k \in 1 .. Len(n_wire) : n_wire[k].idx <= p.idx
    BY <1>2, <1>3, <2>2 DEF Follows, Part
  <2>4. /\ NetWire' /\ NetSent' /\ NetReceiver' /\ NetShape'
        /\ n_wire' \in Seq(N!Packet) /\ Len(n_wire') <= Window
    BY <1>1, <1>2, <1>3, <1>5, <2>1, <2>3, NetSends
  <2>5. N!TypeOK'
    BY <1>1, <2>4 DEF NInv, N!TypeOK
  <2> QED
    BY <1>4, <2>4, <2>5 DEF NInv
<1>6. CASE UNCHANGED n_wire
  <2>1. N!TypeOK'
    BY <1>1, <1>6 DEF NInv, N!TypeOK
  <2> QED
    BY <1>1, <1>3, <1>4, <1>6, <2>1, NetSame DEF NInv
<1> QED
  BY <1>5, <1>6 DEF N!Calib

LEMMA NSend == NInv /\ N!Send => NInv'
<1> SUFFICES ASSUME NInv, N!Send PROVE NInv'
  OBVIOUS
<1> DEFINE p == [type |-> N!Order[n_nth], idx |-> n_item]
<1>1. /\ n_net = "send" /\ N!SendPacket(p) /\ n_nth \in {1, 2, 3}
      /\ \/ n_nth < 3 /\ n_nth' = n_nth + 1 /\ n_net' = "send"
         \/ n_nth = 3 /\ n_net' = "perf" /\ n_nth' = n_nth
      /\ UNCHANGED <<n_queue, n_item, n_fd, n_waiting, n_peer, n_since, n_frame,
                     n_listening, n_run, n_target, n_result, n_shown>>
  BY DEF N!Send, N!OthersUnchanged, N!ReceiverUnchanged, NInv, N!TypeOK
<1>2. n_fd /\ n_item # 0 /\ Fresh(n_item) /\ n_item \in 0 .. MaxFrame
  BY <1>1 DEF NInv, NetQueue, N!TypeOK
<1>3. p \in N!Packet /\ p.type # "calib" /\ p.idx = n_item
  BY <1>1, <1>2, OrderIs DEF N!Packet, N!Triplet
<1>4. Follows(Sent, n_item, p)
  BY <1>1, OrderIs DEF Follows, Sent
<1>5. Sent' = Part(p)
  BY <1>1, OrderIs DEF Sent, Part
<1>6. \A k \in 1 .. Len(n_wire) : n_wire[k].idx <= p.idx
  BY DEF NInv, NetWire, OnWire
<1>7. /\ NetWire' /\ NetSent' /\ NetReceiver' /\ NetShape'
      /\ n_wire' \in Seq(N!Packet) /\ Len(n_wire') <= Window
  <2>1. p.idx <= n_item /\ n_net' # "calib"
    BY <1>1, <1>2
  <2> QED
    BY <1>1, <1>2, <1>3, <1>4, <1>5, <1>6, <2>1, NetSends
<1>8. N!TypeOK'
  BY <1>1, <1>7 DEF NInv, N!TypeOK
<1>9. NetQueue'
  BY <1>1 DEF NInv, NetQueue, Fresh
<1> QED
  BY <1>7, <1>8, <1>9 DEF NInv

LEMMA NPerf == NInv /\ N!Perf => NInv'
<1> SUFFICES ASSUME NInv, N!Perf PROVE NInv'
  OBVIOUS
<1> DEFINE p == [type |-> "perf", idx |-> n_item]
<1>1. /\ n_net = "perf" /\ n_net' = "loop"
      /\ UNCHANGED <<n_queue, n_item, n_nth, n_fd, n_waiting, n_peer, n_since, n_frame,
                     n_listening, n_run, n_target, n_result, n_shown>>
  BY DEF N!Perf, N!OthersUnchanged, N!ReceiverUnchanged
<1>2. n_fd /\ n_item # 0 /\ Fresh(n_item) /\ n_item \in 0 .. MaxFrame
  BY <1>1 DEF NInv, NetQueue, N!TypeOK
<1>3. Sent = 0 /\ Sent' = 0
  BY <1>1 DEF Sent
<1>4. NetQueue'
  BY <1>1 DEF NInv, NetQueue, Fresh
<1>5. CASE N!SendPacket(p)
  <2>1. p \in N!Packet /\ p.idx <= n_item
    BY <1>2 DEF N!Packet
  <2>2. Follows(Sent, n_item, p) /\ Part(p) = 0
    BY <1>3 DEF Follows, Part
  <2>3. \A k \in 1 .. Len(n_wire) : n_wire[k].idx <= p.idx
    BY DEF NInv, NetWire, OnWire
  <2>4. /\ NetWire' /\ NetSent' /\ NetReceiver' /\ NetShape'
        /\ n_wire' \in Seq(N!Packet) /\ Len(n_wire') <= Window
    BY <1>1, <1>2, <1>3, <1>5, <2>1, <2>2, <2>3, NetSends
  <2>5. N!TypeOK'
    BY <1>1, <2>4 DEF NInv, N!TypeOK
  <2> QED
    BY <1>4, <2>4, <2>5 DEF NInv
<1>6. CASE UNCHANGED n_wire
  <2>1. N!TypeOK'
    BY <1>1, <1>6 DEF NInv, N!TypeOK
  <2> QED
    BY <1>1, <1>3, <1>4, <1>6, <2>1, NetSame DEF NInv
<1> QED
  BY <1>5, <1>6 DEF N!Perf

LEMMA NGo == NInv /\ N!Go => NInv'
<1> SUFFICES ASSUME NInv, N!Go PROVE NInv'
  OBVIOUS
<1>1. /\ n_peer' = "gone" /\ n_wire' = <<>> /\ n_target' = 0 /\ n_result' = N!Empty
      /\ UNCHANGED <<n_waiting, n_shown, n_queue, n_frame, n_net, n_item, n_nth, n_fd,
                     n_listening, n_run, n_since>>
  BY DEF N!Go, N!BoardUnchanged
<1>2. n_wire' \in Seq(N!Packet) /\ Len(n_wire') = 0 /\ Window \in Nat /\ 0 \in 0 .. MaxFrame
  BY <1>1, StagesAssumption
<1>3. N!TypeOK'
  <2>1. n_result' \in [N!Triplet -> 0 .. MaxFrame]
    BY <1>1, <1>2 DEF N!Empty
  <2> QED
    BY <1>1, <1>2, <2>1 DEF NInv, N!TypeOK
<1>4. NetQueue'
  BY <1>1 DEF NInv, NetQueue, Fresh
<1>5. NetWire' /\ NetSent'
  BY <1>1, <1>2 DEF NetWire, Stream, NetSent
<1>6. NetReceiver' /\ NetShape'
  BY <1>1 DEF NInv, N!TypeOK, NetReceiver, NetShape
<1> QED
  BY <1>3, <1>4, <1>5, <1>6 DEF NInv

\* What the receiver makes of the next packet.
Takes(p) ==
    \/ /\ p.type \in {"calib", "perf"}
       /\ n_target = 0 /\ UNCHANGED <<n_target, n_result, n_shown>>
    \/ /\ p.type = "left"
       /\ n_target' = p.idx /\ n_result' = [N!Empty EXCEPT !["left"] = p.idx]
       /\ UNCHANGED n_shown
    \/ /\ p.type = "right"
       /\ n_target = p.idx /\ n_target' = p.idx
       /\ n_result' = [n_result EXCEPT !["right"] = p.idx] /\ n_result["left"] = p.idx
       /\ n_result["disparity"] = 0
       /\ UNCHANGED n_shown
    \/ /\ p.type = "disparity"
       /\ n_target' = 0 /\ n_result' = N!Empty
       /\ n_shown' = [t \in N!Triplet |-> p.idx]

LEMMA NTakes ==
    ASSUME NInv, N!Receive
    PROVE  /\ n_wire # <<>> /\ n_wire[1] \in N!Packet /\ Takes(n_wire[1])
           /\ n_wire[1].type # "calib" => n_wire[1].idx # 0
<1> DEFINE p == n_wire[1]
           more == [N!Kept(p) EXCEPT ![p.type] = IF @ = 0 THEN p.idx ELSE @]
<1>1. n_wire # <<>> /\ Head(n_wire) = p /\ p \in N!Packet
  BY StreamTail DEF N!Receive, NInv, NetWire
<1>2. IF p.type \notin N!Triplet THEN UNCHANGED <<n_target, n_result, n_shown>>
      ELSE IF \E t \in N!Triplet : more[t] = 0
      THEN n_target' = p.idx /\ n_result' = more /\ UNCHANGED n_shown
      ELSE n_target' = 0 /\ n_result' = N!Empty /\ n_shown' = more
  BY <1>1 DEF N!Receive, N!ReceiverUnchanged
<1> HIDE DEF more, p
<1>3. 1 \in 1 .. Len(n_wire)
  BY <1>1, EmptySeq DEF NInv, N!TypeOK
<1>4. Follows(Got, n_target, p) /\ (p.type # "calib" => p.idx # 0)
  BY <1>1, <1>3 DEF NInv, NetWire, OnWire, p
<1>5. /\ p.type \in N!Triplet \cup {"calib", "perf"}
      /\ n_result \in [N!Triplet -> 0 .. MaxFrame] /\ n_target \in 0 .. MaxFrame
      /\ NetReceiver
  BY <1>1 DEF N!Packet, NInv, N!TypeOK
<1>6. /\ Got = 0 => n_target = 0 /\ n_result = N!Empty /\ p.type \notin {"right", "disparity"}
      /\ Got = 1 => p.type = "right" /\ p.idx = n_target /\ n_target # 0 /\ n_result["right"] = 0
      /\ Got = 2 => p.type = "disparity" /\ p.idx = n_target /\ n_target # 0
                    /\ n_result["right"] = n_target
      /\ Got \in {0, 1, 2}
  BY <1>4, <1>5, OrderIs DEF Got, Follows, NetReceiver
<1> SUFFICES Takes(p)
  BY <1>1, <1>4 DEF p
<1>7. CASE p.type \notin N!Triplet
  <2>1. p.type \in {"calib", "perf"} /\ p.type \notin {"right", "disparity"}
    BY <1>5, <1>7 DEF N!Triplet
  <2>2. n_target = 0
    BY <2>1, <1>6
  <2>3. UNCHANGED <<n_target, n_result, n_shown>>
    BY <1>2, <1>7
  <2> QED
    BY <2>1, <2>2, <2>3 DEF Takes
<1>8. CASE p.type = "left"
  <2>1. Got = 0 /\ p.idx # 0
    BY <1>4, <1>6, <1>8
  <2>2. N!Kept(p) = N!Empty
    BY <2>1, <1>6 DEF N!Kept
  <2>3. more = [N!Empty EXCEPT !["left"] = p.idx]
    BY <2>2, <1>8 DEF N!Empty, N!Triplet, more
  <2>4. more["right"] = 0 /\ "right" \in N!Triplet /\ "left" \in N!Triplet
    BY <2>3 DEF N!Empty, N!Triplet
  <2>5. n_target' = p.idx /\ n_result' = more /\ UNCHANGED n_shown
    BY <2>4, <1>2, <1>8
  <2> QED
    BY <2>3, <2>5, <1>8 DEF Takes
<1>9. CASE p.type = "right"
  <2>1. Got = 1 /\ p.idx = n_target /\ n_target # 0 /\ n_result["right"] = 0
    BY <1>6, <1>9
  <2>2. n_result["left"] = n_target /\ n_result["disparity"] = 0
    BY <2>1, <1>5 DEF NetReceiver
  <2>3. N!Kept(p) = n_result
    BY <2>1 DEF N!Kept
  <2>4. more = [n_result EXCEPT !["right"] = p.idx]
    BY <2>1, <2>3, <1>9 DEF more
  <2>5. more["disparity"] = 0 /\ "right" \in N!Triplet /\ "disparity" \in N!Triplet
    BY <2>2, <2>4, <1>5 DEF N!Triplet
  <2>6. n_target' = p.idx /\ n_result' = more /\ UNCHANGED n_shown
    BY <2>5, <1>2, <1>9
  <2> QED
    BY <2>1, <2>2, <2>4, <2>6, <1>9 DEF Takes
<1>10. CASE p.type = "disparity"
  <2>1. Got = 2 /\ p.idx = n_target /\ n_target # 0 /\ n_result["right"] = n_target
    BY <1>6, <1>10
  <2>2. n_result["left"] = n_target /\ n_result["disparity"] = 0
    BY <2>1, <1>5 DEF NetReceiver
  <2>3. N!Kept(p) = n_result
    BY <2>1 DEF N!Kept
  <2>4. more = [n_result EXCEPT !["disparity"] = p.idx]
    BY <2>2, <2>3, <1>10 DEF more
  <2>5. /\ n_result["left"] = p.idx /\ n_result["right"] = p.idx
        /\ N!Triplet = {"left", "right", "disparity"}
    BY <2>1, <2>2 DEF N!Triplet
  <2>6. more = [t \in N!Triplet |-> p.idx]
    BY <2>4, <2>5, <1>5
  <2>7. \A t \in N!Triplet : more[t] # 0
    BY <2>1, <2>6
  <2>8. n_target' = 0 /\ n_result' = N!Empty /\ n_shown' = more
    BY <2>5, <2>7, <1>2, <1>10
  <2> QED
    BY <2>6, <2>8, <1>10 DEF Takes
<1> QED
  BY <1>7, <1>8, <1>9, <1>10 DEF N!Triplet

LEMMA NReceive == NInv /\ N!Receive => NInv'
<1> SUFFICES ASSUME NInv, N!Receive PROVE NInv'
  OBVIOUS
<1> DEFINE p == n_wire[1]
           t == Tail(n_wire)
<1>1. /\ n_wire # <<>> /\ n_wire' = t /\ n_peer = "up"
      /\ UNCHANGED <<n_waiting, n_peer, n_queue, n_frame, n_net, n_item, n_nth, n_fd,
                     n_listening, n_run, n_since>>
  BY DEF N!Receive, N!BoardUnchanged
<1>2. p \in N!Packet /\ Takes(p) /\ (p.type # "calib" => p.idx # 0)
  BY NTakes
<1>3. /\ Stream(t) /\ Len(t) = Len(n_wire) - 1 /\ Len(n_wire) \in Nat \ {0}
      /\ \A k \in 1 .. Len(t) :
           t[k] = n_wire[k + 1] /\ k + 1 \in 1 .. Len(n_wire) /\ p.idx <= t[k].idx
      /\ t # <<>> => Follows(Part(p), p.idx, t[1]) /\ t[Len(t)] = n_wire[Len(n_wire)]
      /\ t = <<>> => Len(n_wire) = 1
  BY <1>1, StreamTail DEF NInv, NetWire
<1>4. /\ p.idx \in 0 .. MaxFrame /\ p.idx <= n_item /\ 0 \in 0 .. MaxFrame
      /\ p.type # "calib" => n_shown["left"] <= p.idx
      /\ p.type \in N!Triplet \cup {"calib", "perf"}
      /\ n_item \in 0 .. MaxFrame
  <2>1. 1 \in 1 .. Len(n_wire)
    BY <1>3
  <2>2. OnWire(p)
    BY <2>1 DEF NInv, NetWire
  <2>3. p.idx \in 0 .. MaxFrame /\ p.type \in N!Triplet \cup {"calib", "perf"}
    BY <1>2 DEF N!Packet
  <2>4. n_item \in 0 .. MaxFrame /\ 0 \in 0 .. MaxFrame
    BY FrameNumbers DEF NInv, N!TypeOK
  <2> QED
    BY <2>2, <2>3, <2>4 DEF OnWire
<1>5. /\ n_result \in [N!Triplet -> 0 .. MaxFrame] /\ n_shown \in [N!Triplet -> 0 .. MaxFrame]
      /\ n_target \in 0 .. MaxFrame /\ NetReceiver
  BY DEF NInv, N!TypeOK
<1>6. N!TypeOK'
  <2>1. /\ n_result' \in [N!Triplet -> 0 .. MaxFrame] /\ n_shown' \in [N!Triplet -> 0 .. MaxFrame]
        /\ n_target' \in 0 .. MaxFrame
    BY <1>2, <1>4, <1>5 DEF Takes, N!Empty
  <2>2. n_wire' \in Seq(N!Packet) /\ Len(n_wire') <= Window
    <3>1. Len(n_wire) <= Window
      BY DEF NInv, N!TypeOK
    <3> QED
      BY <3>1, <1>1, <1>3, StagesAssumption DEF Stream
  <2> QED
    BY <1>1, <2>1, <2>2 DEF NInv, N!TypeOK
<1>7. Got' = Part(p) /\ (Got' # 0 => n_target' = p.idx)
  <2>1. CASE p.type \in {"calib", "perf"}
    BY <2>1, <1>2 DEF Takes, Got, Part
  <2>2. CASE p.type = "left"
    BY <2>2, <1>2 DEF Takes, Got, Part, N!Empty, N!Triplet
  <2>3. CASE p.type = "right"
    BY <2>3, <1>2, <1>5 DEF Takes, Got, Part, N!Triplet
  <2>4. CASE p.type = "disparity"
    BY <2>4, <1>2 DEF Takes, Got, Part
  <2> QED
    BY <2>1, <2>2, <2>3, <2>4, <1>4 DEF N!Triplet
<1>8. /\ n_target' = 0 \/ n_target' = p.idx
      /\ n_shown' = n_shown \/ n_shown' = [r \in N!Triplet |-> p.idx]
  BY <1>2 DEF Takes
<1>9. NetReceiver'
  <2>1. CASE p.type \in {"calib", "perf"}
    BY <2>1, <1>1, <1>2, <1>5 DEF Takes, NetReceiver
  <2>2. CASE p.type = "left"
    BY <2>2, <1>1, <1>2, <1>4, <1>5 DEF Takes, NetReceiver, N!Empty, N!Triplet
  <2>3. CASE p.type = "right"
    BY <2>3, <1>1, <1>2, <1>4, <1>5 DEF Takes, NetReceiver, N!Triplet
  <2>4. CASE p.type = "disparity"
    BY <2>4, <1>1, <1>2, <1>4 DEF Takes, NetReceiver, N!Triplet
  <2> QED
    BY <2>1, <2>2, <2>3, <2>4, <1>4 DEF N!Triplet
<1>10. \A k \in 1 .. Len(t) :
         /\ t[k].idx <= n_item'
         /\ t[k].type # "calib" =>
              /\ t[k].idx # 0 /\ (n_since' < t[k].idx \/ n_since' = MaxFrame)
              /\ n_target' <= t[k].idx /\ n_shown'["left"] <= t[k].idx
  <2> SUFFICES ASSUME NEW k \in 1 .. Len(t)
               PROVE  /\ t[k].idx <= n_item'
                      /\ t[k].type # "calib" =>
                           /\ t[k].idx # 0 /\ (n_since' < t[k].idx \/ n_since' = MaxFrame)
                           /\ n_target' <= t[k].idx /\ n_shown'["left"] <= t[k].idx
    OBVIOUS
  <2>1. t[k] = n_wire[k + 1] /\ k + 1 \in 1 .. Len(n_wire) /\ p.idx <= t[k].idx
    BY <1>3
  <2>2. OnWire(n_wire[k + 1])
    BY <2>1 DEF NInv, NetWire
  <2>3. t[k].type # "calib" => n_target' <= t[k].idx /\ n_shown'["left"] <= t[k].idx
    <3>1. t[k] \in N!Packet
      BY <1>3, ElementOfSeq DEF Stream
    <3>2. t[k].idx \in Nat
      BY <3>1 DEF N!Packet
    <3> QED
      BY <1>8, <2>1, <2>2, <3>2 DEF OnWire, N!Triplet
  <2> QED
    BY <1>1, <2>1, <2>2, <2>3 DEF OnWire, Fresh
<1>11. NetWire'
  <2>1. t # <<>> => Follows(Got', n_target', t[1])
    BY <1>3, <1>7 DEF Follows
  <2>2. Stream(n_wire')
    BY <1>1, <1>3
  <2>3. \A k \in 1 .. Len(n_wire') : OnWire(n_wire[k])'
    BY <1>1, <1>10 DEF OnWire, Fresh
  <2>4. n_wire' # <<>> => Follows(Got', n_target', n_wire'[1])
    BY <1>1, <2>1
  <2> QED
    BY <2>2, <2>3, <2>4 DEF NetWire, Stream, Follows
<1>12. NetSent'
  <2>1. Sent' = Sent
    BY <1>1 DEF Sent
  <2>2. n_fd => Sent = Part(n_wire[Len(n_wire)])
                /\ (Sent # 0 => n_wire[Len(n_wire)].idx = n_item)
    BY <1>1 DEF NInv, NetSent
  <2> QED
    BY <1>1, <1>3, <1>7, <2>1, <2>2 DEF NetSent
<1>13. NetShape'
  BY <1>1 DEF NInv, NetShape
<1>14. NetQueue'
  BY <1>1 DEF NInv, NetQueue, Fresh
<1> QED
  BY <1>6, <1>9, <1>11, <1>12, <1>13, <1>14 DEF NInv

LEMMA NNext == NInv /\ [N!Next]_nvars => NInv'
<1> SUFFICES ASSUME NInv, [N!Next]_nvars PROVE NInv'
  OBVIOUS
<1>1. CASE UNCHANGED nvars
  <2>1. N!Finished \/ UNCHANGED nvars
    BY <1>1
  <2>2. Got' = Got /\ Sent' = Sent
    BY <1>1 DEF nvars, Got, Sent
  <2>3. N!TypeOK' /\ NetQueue' /\ NetWire'
    BY <1>1, <2>2 DEF nvars, NInv, N!TypeOK, NetQueue, NetWire, OnWire, Fresh
  <2>4. NetSent' /\ NetReceiver' /\ NetShape'
    BY <1>1, <2>2 DEF nvars, NInv, NetSent, NetReceiver, NetShape
  <2> QED
    BY <2>3, <2>4 DEF NInv
<1>2. CASE N!Net
  BY <1>2, NAccept, NQuiet, NCalib, NDrain, NPop, NSend, NPerf DEF N!Net
<1>3. CASE N!Enqueue \/ N!Stop \/ N!Disconnect \/ N!Finished \/ N!Connect \/ N!Go \/ N!Receive
  BY <1>3, NEnqueue, NQuiet, NGo, NReceive
<1> QED
  BY <1>1, <1>2, <1>3 DEF N!Next

\* What is on the wire is fresh and whole.
LEMMA NWhole == NInv => N!FreshStart /\ N!TripletsWhole
<1> SUFFICES ASSUME NInv PROVE N!FreshStart /\ N!TripletsWhole
  OBVIOUS
<1>1. N!FreshStart
  BY DEF NInv, NetWire, OnWire, Fresh, N!FreshStart
<1>2. N!TripletsWhole
  <2> SUFFICES ASSUME NEW k \in 1 .. Len(n_wire) - 1, NEW m \in 1 .. 2,
                      n_wire[k].type = N!Order[m]
               PROVE  n_wire[k + 1] = [type |-> N!Order[m + 1], idx |-> n_wire[k].idx]
    BY DEF N!TripletsWhole
  <2>1. Follows(Part(n_wire[k]), n_wire[k].idx, n_wire[k + 1])
    BY DEF NInv, NetWire, Stream
  <2>2. Part(n_wire[k]) = m
    BY OrderIs DEF Part
  <2> QED
    BY <2>1, <2>2 DEF Follows
<1> QED
  BY <1>1, <1>2

\* What is shown is whole and newer than what was shown before.
LEMMA NShown ==
    NInv /\ [N!Next]_nvars /\ n_shown' # n_shown =>
        /\ \A t \in N!Triplet : n_shown'[t] = n_shown'["left"]
        /\ n_shown'["left"] > n_shown["left"]
<1> SUFFICES ASSUME NInv, [N!Next]_nvars, n_shown' # n_shown
             PROVE  /\ \A t \in N!Triplet : n_shown'[t] = n_shown'["left"]
                    /\ n_shown'["left"] > n_shown["left"]
  OBVIOUS
<1>1. N!Receive
  BY DEF nvars, N!Next, N!Net, N!Enqueue, N!Accept, N!NoClient, N!Calib, N!Drain, N!Pop,
     N!PopTimeout, N!Send, N!SendFails, N!Perf, N!Leave, N!Stop, N!Disconnect, N!Finished,
     N!Connect, N!Go, N!ReceiverUnchanged, N!vars
<1> DEFINE p == n_wire[1]
<1>2. n_wire # <<>> /\ p \in N!Packet /\ p.type # "calib" /\ n_shown' = [t \in N!Triplet |-> p.idx]
  BY <1>1, NTakes DEF Takes
<1>3. n_shown["left"] <= p.idx /\ p.idx \in Nat /\ n_shown \in [N!Triplet -> 0 .. MaxFrame]
  <2>1. 1 \in 1 .. Len(n_wire)
    BY <1>2, EmptySeq DEF NInv, N!TypeOK
  <2>2. OnWire(p)
    BY <2>1 DEF NInv, NetWire
  <2>3. n_shown["left"] <= p.idx
    BY <1>2, <2>2 DEF OnWire
  <2>4. p.idx \in Nat
    BY <1>2, FrameNumbers DEF N!Packet
  <2> QED
    BY <2>3, <2>4 DEF NInv, N!TypeOK
<1>4. n_shown["left"] # p.idx
  <2>1. ASSUME n_shown["left"] = p.idx PROVE FALSE
    <3>1. \A t \in N!Triplet : n_shown[t] = p.idx
      BY <2>1 DEF NInv, NetReceiver
    <3> QED
      BY <1>2, <1>3, <3>1
  <2> QED
    BY <2>1
<1>5. n_shown["left"] \in Nat
  BY <1>3 DEF N!Triplet
<1> QED
  BY <1>2, <1>3, <1>4, <1>5 DEF N!Triplet

-----------------------------------------------------------------------------
(* "rectify": the buffers between the CVE thread and the NPU.               *)

Positive == Nat \ {0}

\* Nothing is newer than the pair in work, a map that has been done left that
\* pair's image in the current buffer, and the right image the NPU has not read
\* yet is no older than its item.
BNewest ==
    /\ \A b \in B!Buf : b_left[b] <= b_pair /\ b_right[b] <= b_pair
    /\ \A k \in 1 .. Len(b_queue) : b_queue[k].pair <= b_pair
    /\ b_item.pair <= b_pair
    /\ b_cve \in {"right", "push"} => b_left[b_idx] = b_pair
    /\ b_cve = "push" => b_right[b_idx] = b_pair
    /\ b_npu = "left" => b_right[b_item.buf] >= b_item.pair

\* How many moves of the index i lead to buffer b.
Gap(b, i) == IF b >= i THEN b - i ELSE b - i + BufNum

\* The index reaches the buffer of an item only when the BufNum-th pair after the
\* item is processed: i is the index, p the pair in work and c where the CVE
\* thread is.
Ahead(it, i, p, c) ==
    Gap(it.buf, i) + p >= it.pair + (IF c = "pop" THEN BufNum - 1 ELSE BufNum)

BAhead ==
    /\ \A k \in 1 .. Len(b_queue) : Ahead(b_queue[k], b_idx, b_pair, b_cve)
    /\ b_npu # "idle" => Ahead(b_item, b_idx, b_pair, b_cve)

BInv == B!TypeOK /\ BNewest /\ BAhead /\ B!ImagesKept /\ B!NeverOlder

LEMMA BConstants ==
    MaxPair \in Nat /\ BufNum \in Positive /\ Depth \in Positive
  BY StagesAssumption DEF Positive

LEMMA BNextBuf ==
    ASSUME NEW b \in B!Buf
    PROVE  (b + 1) % BufNum \in B!Buf
  BY BConstants DEF B!Buf, Positive

LEMMA BIdxMoves ==
    ASSUME NEW b \in B!Buf
    PROVE  (b + 1) % BufNum = IF b + 1 = BufNum THEN 0 ELSE b + 1
  BY BConstants DEF B!Buf, Positive

\* An item that is ahead stays ahead while its pair and its buffer do.
LEMMA AheadKept ==
    ASSUME NEW it \in B!Item, NEW i \in B!Buf, NEW p \in Nat, NEW c, NEW d,
           Ahead(it, i, p, c), d = "pop" \/ c # "pop"
    PROVE  Ahead(it, i, p, d)
  BY BConstants DEF Ahead, Gap, B!Item, B!Buf, Positive

\* A buffer that is being written is named by old items only.
LEMMA AheadOld ==
    ASSUME NEW it \in B!Item, NEW i \in B!Buf, NEW p \in Nat, NEW c,
           Ahead(it, i, p, c), c # "pop", it.buf = i
    PROVE  ~(p < it.pair + BufNum)
  BY BConstants DEF Ahead, Gap, B!Item, B!Buf, Positive

\* The next pair is begun.
LEMMA AheadBegins ==
    ASSUME NEW it \in B!Item, NEW i \in B!Buf, NEW p \in Nat, Ahead(it, i, p, "pop")
    PROVE  Ahead(it, i, p + 1, "left")
  BY BConstants DEF Ahead, Gap, B!Item, B!Buf, Positive

\* An item is pushed with the current buffer.
LEMMA AheadNew ==
    ASSUME NEW it \in B!Item
    PROVE  Ahead(it, (it.buf + 1) % BufNum, it.pair, "pop")
<1>1. it.buf \in B!Buf /\ it.pair \in Nat
  BY BConstants DEF B!Item
<1>2. Gap(it.buf, (it.buf + 1) % BufNum) = BufNum - 1
  BY <1>1, BConstants, BIdxMoves DEF Gap, B!Buf, Positive
<1> QED
  BY <1>1, <1>2, BConstants DEF Ahead, Positive

\* The index moves on.
LEMMA AheadMoves ==
    ASSUME NEW it \in B!Item, NEW i \in B!Buf, NEW p \in Nat, NEW c,
           Ahead(it, i, p, c), c # "pop", it.pair <= p
    PROVE  Ahead(it, (i + 1) % BufNum, p, "pop")
  BY BConstants, BIdxMoves DEF Ahead, Gap, B!Item, B!Buf, Positive

\* What the items name.
LEMMA BItems ==
    ASSUME BInv
    PROVE  /\ b_item.buf \in B!Buf /\ b_item.pair \in 0 .. MaxPair
           /\ \A k \in 1 .. Len(b_queue) :
                 b_queue[k].buf \in B!Buf /\ b_queue[k].pair \in 0 .. MaxPair
<1>1. b_item \in B!Item /\ b_queue \in Seq(B!Item)
  BY DEF BInv, B!TypeOK
<1>2. \A k \in 1 .. Len(b_queue) : b_queue[k] \in B!Item
  BY <1>1, ElementOfSeq
<1> QED
  BY <1>1, <1>2 DEF B!Item

\* Taking the head leaves the other items where they were, one place earlier.
LEMMA BQueueTail ==
    ASSUME BInv, b_queue # <<>>
    PROVE  /\ Head(b_queue) \in B!Item /\ Head(b_queue) = b_queue[1]
           /\ Len(b_queue) \in Nat \ {0}
           /\ Tail(b_queue) \in Seq(B!Item) /\ Len(Tail(b_queue)) = Len(b_queue) - 1
           /\ \A k \in 1 .. Len(Tail(b_queue)) :
                 k + 1 \in 1 .. Len(b_queue) /\ Tail(b_queue)[k] = b_queue[k + 1]
<1>1. b_queue \in Seq(B!Item)
  BY DEF BInv, B!TypeOK
<1>2. Len(b_queue) \in Nat \ {0}
  BY <1>1, EmptySeq
<1>3. /\ Head(b_queue) \in B!Item
      /\ Tail(b_queue) \in Seq(B!Item) /\ Len(Tail(b_queue)) = Len(b_queue) - 1
      /\ \A k \in 1 .. Len(Tail(b_queue)) : Tail(b_queue)[k] = b_queue[k + 1]
  BY <1>1, HeadTailProperties
<1>4. Head(b_queue) = b_queue[1]
  BY <1>1, <1>2
<1>5. \A k \in 1 .. Len(Tail(b_queue)) : k + 1 \in 1 .. Len(b_queue)
  BY <1>2, <1>3
<1> QED
  BY <1>2, <1>3, <1>4, <1>5

LEMMA BInit == B!Init => BInv
  BY BConstants, EmptySeq
     DEF B!Init, BInv, B!TypeOK, BNewest, BAhead, B!ImagesKept, B!NeverOlder, B!NoItem,
         B!Item, B!Buf, Positive

LEMMA BCvePop == BInv /\ B!CvePop => BInv'
<1> SUFFICES ASSUME BInv, B!CvePop PROVE BInv'
  OBVIOUS
<1>1. \A k \in 1 .. Len(b_queue) : b_queue[k] \in B!Item
  BY ElementOfSeq DEF BInv, B!TypeOK
<1>2. /\ b_pair \in 0 .. MaxPair /\ b_pair' = b_pair + 1 /\ b_pair' \in 0 .. MaxPair
      /\ b_cve' = "left"
      /\ UNCHANGED <<b_left, b_right, b_idx, b_queue, b_npu, b_item, b_read>>
  BY BConstants DEF BInv, B!TypeOK, B!CvePop, B!NpuUnchanged
<1>3. B!TypeOK'
  BY <1>2 DEF BInv, B!TypeOK
<1>4. BNewest'
  <2>1. \A b \in B!Buf : b_left[b] <= b_pair + 1 /\ b_right[b] <= b_pair + 1
    BY <1>2, BConstants DEF BInv, B!TypeOK, BNewest
  <2>2. \A k \in 1 .. Len(b_queue) : b_queue[k].pair <= b_pair + 1
    BY <1>1, <1>2, BConstants DEF BInv, BNewest, B!Item
  <2>3. b_item.pair <= b_pair + 1
    BY <1>2, BConstants DEF BInv, B!TypeOK, BNewest, B!Item
  <2> QED
    BY <1>2, <2>1, <2>2, <2>3 DEF BInv, BNewest
<1>5. BAhead'
  <2>1. \A it \in B!Item : Ahead(it, b_idx, b_pair, "pop") => Ahead(it, b_idx, b_pair + 1, "left")
    <3>1. b_pair \in Nat /\ b_idx \in B!Buf
      BY <1>2, BConstants DEF BInv, B!TypeOK
    <3> QED
      BY <3>1, AheadBegins
  <2>2. b_cve = "pop" /\ b_item \in B!Item
    BY DEF BInv, B!TypeOK, B!CvePop
  <2> QED
    BY <1>1, <1>2, <2>1, <2>2 DEF BInv, BAhead
<1>6. B!ImagesKept'
  <2>1. \A it \in B!Item : b_pair + 1 < it.pair + BufNum => b_pair < it.pair + BufNum
    BY <1>2, BConstants DEF B!Item, Positive
  <2>2. b_item \in B!Item
    BY DEF BInv, B!TypeOK
  <2> QED
    BY <1>1, <1>2, <2>1, <2>2 DEF BInv, B!ImagesKept
<1>7. B!NeverOlder'
  BY <1>2 DEF BInv, B!NeverOlder
<1> QED
  BY <1>3, <1>4, <1>5, <1>6, <1>7 DEF BInv

\* The current buffer gets the newest image there is.
LEMMA BCveLeft == BInv /\ B!CveLeft => BInv'
<1> SUFFICES ASSUME BInv, B!CveLeft PROVE BInv'
  OBVIOUS
<1>1. /\ b_item.buf \in B!Buf /\ b_item.pair \in 0 .. MaxPair
      /\ \A k \in 1 .. Len(b_queue) :
            b_queue[k].buf \in B!Buf /\ b_queue[k].pair \in 0 .. MaxPair
  BY BItems
<1>2. /\ b_left' \in [B!Buf -> 0 .. MaxPair]
      /\ \A b \in B!Buf : b_left'[b] = IF b = b_idx THEN b_pair ELSE b_left[b]
      /\ b_cve' = "right"
      /\ UNCHANGED <<b_right, b_idx, b_pair, b_queue, b_npu, b_item, b_read>>
  BY DEF BInv, B!TypeOK, B!CveLeft, B!NpuUnchanged
<1>3. B!TypeOK'
  BY <1>2 DEF BInv, B!TypeOK
<1>4. b_pair \in 0 .. MaxPair /\ b_pair <= b_pair /\ b_idx \in B!Buf
  BY BConstants DEF BInv, B!TypeOK
<1>5. BNewest'
  BY <1>2, <1>4 DEF BInv, BNewest
<1>6. /\ \A k \in 1 .. Len(b_queue) : b_queue[k] \in B!Item
      /\ b_item \in B!Item /\ b_pair \in Nat
  BY <1>4, ElementOfSeq DEF BInv, B!TypeOK
<1>7. BAhead'
  BY <1>2, <1>4, <1>6, AheadKept DEF BInv, BAhead, B!CveLeft
<1>8. B!ImagesKept'
  <2>1. \A k \in 1 .. Len(b_queue) : b_pair < b_queue[k].pair + BufNum => b_queue[k].buf # b_idx
    BY <1>2, <1>4, <1>6, AheadOld DEF BInv, BAhead, B!CveLeft
  <2>2. b_npu # "idle" /\ b_pair < b_item.pair + BufNum => b_item.buf # b_idx
    BY <1>2, <1>4, <1>6, AheadOld DEF BInv, BAhead, B!CveLeft
  <2> QED
    BY <1>1, <1>2, <2>1, <2>2 DEF BInv, B!ImagesKept
<1>9. B!NeverOlder'
  BY <1>1, <1>2 DEF BInv, BNewest, B!NeverOlder
<1> QED
  BY <1>3, <1>5, <1>7, <1>8, <1>9 DEF BInv

LEMMA BCveRight == BInv /\ B!CveRight => BInv'
<1> SUFFICES ASSUME BInv, B!CveRight PROVE BInv'
  OBVIOUS
<1>1. /\ b_item.buf \in B!Buf /\ b_item.pair \in 0 .. MaxPair
      /\ \A k \in 1 .. Len(b_queue) :
            b_queue[k].buf \in B!Buf /\ b_queue[k].pair \in 0 .. MaxPair
  BY BItems
<1>2. /\ b_right' \in [B!Buf -> 0 .. MaxPair]
      /\ \A b \in B!Buf : b_right'[b] = IF b = b_idx THEN b_pair ELSE b_right[b]
      /\ b_cve = "right" /\ b_cve' = "push"
      /\ UNCHANGED <<b_left, b_idx, b_pair, b_queue, b_npu, b_item, b_read>>
  BY DEF BInv, B!TypeOK, B!CveRight, B!NpuUnchanged
<1>3. B!TypeOK'
  BY <1>2 DEF BInv, B!TypeOK
<1>4. b_pair \in 0 .. MaxPair /\ b_pair <= b_pair /\ b_idx \in B!Buf
  BY BConstants DEF BInv, B!TypeOK
<1>5. BNewest'
  BY <1>1, <1>2, <1>4 DEF BInv, BNewest
<1>6. /\ \A k \in 1 .. Len(b_queue) : b_queue[k] \in B!Item
      /\ b_item \in B!Item /\ b_pair \in Nat
  BY <1>4, ElementOfSeq DEF BInv, B!TypeOK
<1>7. BAhead'
  BY <1>2, <1>4, <1>6, AheadKept DEF BInv, BAhead, B!CveRight
<1>8. B!ImagesKept'
  <2>1. \A k \in 1 .. Len(b_queue) : b_pair < b_queue[k].pair + BufNum => b_queue[k].buf # b_idx
    BY <1>2, <1>4, <1>6, AheadOld DEF BInv, BAhead, B!CveRight
  <2>2. b_npu # "idle" /\ b_pair < b_item.pair + BufNum => b_item.buf # b_idx
    BY <1>2, <1>4, <1>6, AheadOld DEF BInv, BAhead, B!CveRight
  <2> QED
    BY <1>1, <1>2, <2>1, <2>2 DEF BInv, B!ImagesKept
<1>9. B!NeverOlder'
  BY <1>1, <1>2 DEF BInv, BNewest, B!NeverOlder
<1> QED
  BY <1>3, <1>5, <1>7, <1>8, <1>9 DEF BInv

\* An early return of stereo_cve_process leaves a half written buffer, which is
\* still the current one.
LEMMA BCveFail == BInv /\ B!CveFail => BInv'
<1> SUFFICES ASSUME BInv, B!CveFail PROVE BInv'
  OBVIOUS
<1>1. /\ \A k \in 1 .. Len(b_queue) : b_queue[k] \in B!Item
      /\ b_item \in B!Item /\ b_pair \in Nat /\ b_idx \in B!Buf
  BY BConstants, ElementOfSeq DEF BInv, B!TypeOK
<1>2. BAhead'
  BY <1>1, AheadKept DEF BInv, BAhead, B!CveFail, B!NpuUnchanged
<1>3. B!TypeOK' /\ BNewest'
  BY DEF BInv, B!CveFail, B!NpuUnchanged, B!TypeOK, BNewest
<1>4. B!ImagesKept' /\ B!NeverOlder'
  BY DEF BInv, B!CveFail, B!NpuUnchanged, B!ImagesKept, B!NeverOlder
<1> QED
  BY <1>2, <1>3, <1>4 DEF BInv

\* The index moves on from a buffer that has been written completely.
LEMMA BCvePush == BInv /\ B!CvePush => BInv'
<1> SUFFICES ASSUME BInv, B!CvePush PROVE BInv'
  OBVIOUS
<1> DEFINE new == [pair |-> b_pair, buf |-> b_idx]
<1>1. new \in B!Item /\ new.pair = b_pair /\ new.buf = b_idx
  BY DEF BInv, B!TypeOK, B!Item
<1>2. b_queue \in Seq(B!Item) /\ Len(b_queue) \in Nat /\ Len(b_queue) <= Depth
  BY LenProperties DEF BInv, B!TypeOK
<1>3. b_left[b_idx] = b_pair /\ b_right[b_idx] = b_pair
  BY DEF BInv, BNewest, B!CvePush
<1>4. /\ b_queue' \in Seq(B!Item) /\ Len(b_queue') <= Depth
      /\ \A k \in 1 .. Len(b_queue') :
            (k \in 1 .. Len(b_queue) /\ b_queue'[k] = b_queue[k]) \/ b_queue'[k] = new
  <2>1. CASE B!HasRoom
    <3>1. b_queue' = Append(b_queue, new)
      BY <2>1 DEF B!CvePush, B!Output
    <3> HIDE DEF new
    <3>2. /\ b_queue' \in Seq(B!Item) /\ Len(b_queue') = Len(b_queue) + 1
          /\ \A k \in 1 .. Len(b_queue) : b_queue'[k] = b_queue[k]
          /\ b_queue'[Len(b_queue) + 1] = new
      BY <1>1, <1>2, <3>1, AppendProperties
    <3>3. Len(b_queue') <= Depth
      BY <1>2, <2>1, <3>2, BConstants DEF B!HasRoom, Positive
    <3>4. \A k \in 1 .. Len(b_queue') : k \in 1 .. Len(b_queue) \/ k = Len(b_queue) + 1
      BY <1>2, <3>2
    <3> QED
      BY <3>2, <3>3, <3>4
  <2>2. CASE ~B!HasRoom
    BY <1>2, <2>2 DEF B!CvePush
  <2> QED
    BY <2>1, <2>2
<1>5. B!TypeOK'
  BY <1>4, BNextBuf DEF BInv, B!TypeOK, B!CvePush, B!NpuUnchanged
<1>6. BNewest'
  BY <1>1, <1>4 DEF BInv, B!TypeOK, BNewest, B!CvePush, B!NpuUnchanged
<1>7. B!ImagesKept'
  <2>1. \A k \in 1 .. Len(b_queue') : b_pair < b_queue'[k].pair + BufNum =>
            b_left[b_queue'[k].buf] = b_queue'[k].pair /\ b_right[b_queue'[k].buf] = b_queue'[k].pair
    <3> SUFFICES ASSUME NEW k \in 1 .. Len(b_queue'), b_pair < b_queue'[k].pair + BufNum
                 PROVE  /\ b_left[b_queue'[k].buf] = b_queue'[k].pair
                        /\ b_right[b_queue'[k].buf] = b_queue'[k].pair
      OBVIOUS
    <3>1. CASE k \in 1 .. Len(b_queue) /\ b_queue'[k] = b_queue[k]
      BY <3>1 DEF BInv, B!ImagesKept
    <3>2. CASE b_queue'[k] = new
      <4> HIDE DEF new
      <4> QED
        BY <1>1, <1>3, <3>2
    <3> QED
      BY <1>4, <3>1, <3>2
  <2> QED
    BY <2>1 DEF BInv, B!ImagesKept, B!CvePush, B!NpuUnchanged
<1>9. BAhead'
  <2>1. /\ \A k \in 1 .. Len(b_queue) : b_queue[k] \in B!Item
        /\ b_item \in B!Item /\ b_pair \in Nat /\ b_idx \in B!Buf /\ b_cve = "push"
    BY BConstants, ElementOfSeq DEF BInv, B!TypeOK, B!CvePush
  <2>2. \A k \in 1 .. Len(b_queue) : Ahead(b_queue[k], (b_idx + 1) % BufNum, b_pair, "pop")
    BY <2>1, AheadMoves DEF BInv, BAhead, BNewest
  <2>3. b_npu # "idle" => Ahead(b_item, (b_idx + 1) % BufNum, b_pair, "pop")
    BY <2>1, AheadMoves DEF BInv, BAhead, BNewest
  <2>4. Ahead(new, (b_idx + 1) % BufNum, b_pair, "pop")
    <3> HIDE DEF new
    <3> QED
      BY <1>1, AheadNew
  <2>5. \A k \in 1 .. Len(b_queue') : Ahead(b_queue'[k], (b_idx + 1) % BufNum, b_pair, "pop")
    <3> HIDE DEF new
    <3> QED
      BY <1>4, <2>2, <2>4
  <2>6. /\ b_idx' = (b_idx + 1) % BufNum /\ b_cve' = "pop"
        /\ UNCHANGED <<b_pair, b_npu, b_item>>
    BY DEF B!CvePush, B!NpuUnchanged
  <2> QED
    BY <2>3, <2>5, <2>6 DEF BAhead
<1>8. B!NeverOlder'
  <2>1. \A k \in 1 .. Len(b_queue') :
            b_left[b_queue'[k].buf] >= b_queue'[k].pair /\ b_right[b_queue'[k].buf] >= b_queue'[k].pair
    <3> SUFFICES ASSUME NEW k \in 1 .. Len(b_queue')
                 PROVE  /\ b_left[b_queue'[k].buf] >= b_queue'[k].pair
                        /\ b_right[b_queue'[k].buf] >= b_queue'[k].pair
      OBVIOUS
    <3>1. CASE k \in 1 .. Len(b_queue) /\ b_queue'[k] = b_queue[k]
      BY <3>1 DEF BInv, B!NeverOlder
    <3>2. CASE b_queue'[k] = new
      <4>1. b_left[b_idx] >= b_pair /\ b_right[b_idx] >= b_pair
        BY <1>3 DEF BInv, B!TypeOK
      <4> HIDE DEF new
      <4> QED
        BY <1>1, <3>2, <4>1
    <3> QED
      BY <1>4, <3>1, <3>2
  <2> QED
    BY <2>1 DEF BInv, B!NeverOlder, B!CvePush, B!NpuUnchanged
<1> QED
  BY <1>5, <1>6, <1>7, <1>8, <1>9 DEF BInv

LEMMA BNpuTrigger == BInv /\ B!NpuTrigger => BInv'
<1> SUFFICES ASSUME BInv, B!NpuTrigger PROVE BInv'
  OBVIOUS
<1>1. /\ b_item' \in B!Item /\ b_item' = b_queue[1] /\ 1 \in 1 .. Len(b_queue)
      /\ b_queue' \in Seq(B!Item) /\ Len(b_queue') = Len(b_queue) - 1
      /\ \A k \in 1 .. Len(b_queue') :
            k + 1 \in 1 .. Len(b_queue) /\ b_queue'[k] = b_queue[k + 1]
  BY BQueueTail DEF B!NpuTrigger
<1>2. Len(b_queue') <= Depth
  BY <1>1, BConstants, LenProperties DEF BInv, B!TypeOK, Positive
<1> QED
  BY <1>1, <1>2, BConstants
     DEF BInv, B!NpuTrigger, B!CveUnchanged, B!TypeOK, BNewest, BAhead, B!ImagesKept,
         B!NeverOlder

LEMMA BNpuTriggerFails == BInv /\ B!NpuTriggerFails => BInv'
<1> SUFFICES ASSUME BInv, B!NpuTriggerFails PROVE BInv'
  OBVIOUS
<1>1. /\ b_queue' \in Seq(B!Item) /\ Len(b_queue') = Len(b_queue) - 1
      /\ \A k \in 1 .. Len(b_queue') :
            k + 1 \in 1 .. Len(b_queue) /\ b_queue'[k] = b_queue[k + 1]
  BY BQueueTail DEF B!NpuTriggerFails
<1>2. Len(b_queue') <= Depth
  BY <1>1, BConstants, LenProperties DEF BInv, B!TypeOK, Positive
<1> QED
  BY <1>1, <1>2, BConstants
     DEF BInv, B!NpuTriggerFails, B!CveUnchanged, B!TypeOK, BNewest,
         BAhead, B!ImagesKept, B!NeverOlder

LEMMA BNpuLeft == BInv /\ B!NpuLeft => BInv'
<1> SUFFICES ASSUME BInv, B!NpuLeft PROVE BInv'
  OBVIOUS
<1>1. b_right[b_item.buf] >= b_item.pair
  BY DEF BInv, BNewest, B!NpuLeft
<1> QED
  BY <1>1, BConstants
     DEF BInv, B!NpuLeft, B!CveUnchanged, B!TypeOK, BNewest, BAhead, B!ImagesKept,
         B!NeverOlder, B!Item

LEMMA BNpuRight == BInv /\ (B!NpuRight \/ B!NpuWaitFails) => BInv'
<1> SUFFICES ASSUME BInv, B!NpuRight \/ B!NpuWaitFails PROVE BInv'
  OBVIOUS
<1>1. B!NoItem \in B!Item /\ B!NoItem.pair = 0
  BY BConstants DEF B!NoItem, B!Item, B!Buf, Positive
<1>2. /\ b_npu' = "idle" /\ b_item' = B!NoItem /\ b_read' \in 0 .. MaxPair
      /\ UNCHANGED <<b_left, b_right, b_idx, b_cve, b_pair, b_queue>>
  BY BConstants DEF BInv, B!TypeOK, B!NpuRight, B!NpuWaitFails, B!CveUnchanged
<1>3. B!TypeOK'
  BY <1>1, <1>2 DEF BInv, B!TypeOK
<1>4. BNewest'
  BY <1>1, <1>2, BConstants DEF BInv, B!TypeOK, BNewest
<1>5. BAhead' /\ B!ImagesKept' /\ B!NeverOlder'
  BY <1>2 DEF BInv, BAhead, B!ImagesKept, B!NeverOlder
<1> QED
  BY <1>3, <1>4, <1>5 DEF BInv

LEMMA BNext == BInv /\ [B!Next]_bvars => BInv'
<1> SUFFICES ASSUME BInv, [B!Next]_bvars PROVE BInv'
  OBVIOUS
<1>1. CASE UNCHANGED bvars
  BY <1>1 DEF bvars, BInv, B!TypeOK, BNewest, BAhead, B!ImagesKept, B!NeverOlder
<1>2. CASE B!Finished
  BY <1>1, <1>2 DEF B!Finished, B!vars, bvars
<1>3. CASE B!Cve
  BY <1>3, BCvePop, BCveLeft, BCveRight, BCveFail, BCvePush DEF B!Cve
<1>4. CASE B!Npu
  BY <1>4, BNpuTrigger, BNpuTriggerFails, BNpuLeft, BNpuRight DEF B!Npu
<1> QED
  BY <1>1, <1>2, <1>3, <1>4 DEF B!Next

-----------------------------------------------------------------------------
(* The stages.                                                             *)

Inv ==
    /\ stage \in {"pair", "rectify", "detect", "encode", "send"}
    /\ PInv /\ BInv /\ DInv /\ VInv /\ NInv

LEMMA InitInv == Init => Inv
  BY PInit, BInit, DInit, VInit, NInit DEF Init, Inv

LEMMA NextStages ==
    [Next]_vars => /\ [P!Next]_pvars /\ [B!Next]_bvars /\ [D!Next]_dvars
                   /\ [V!Next]_vvars /\ [N!Next]_nvars /\ UNCHANGED stage
  BY DEF Next, Pair, Rectify, Detect, Encode, Send, vars

LEMMA NextInv == Inv /\ [Next]_vars => Inv'
  BY NextStages, PNext, BNext, DNext, VNext, NNext DEF Inv

\* The types of the variables of all five stages, for all bounds, queue depths,
\* numbers of buffers and windows.
THEOREM TypeCorrect == Spec => []TypeOK
<1>1. Inv => TypeOK
  BY DEF Inv, TypeOK, PInv, BInv, DInv, VInv, NInv
<1> QED
  BY <1>1, InitInv, NextInv, PTL DEF Spec

\* Every frame and every packet buffer that a stage has acquired is in exactly one
\* place, whichever of the failures, drains and shutdowns happen.
THEOREM Released == Spec => []ReleasedOnce
<1>1. D!FramesOwned \/ ~DInv
  BY DEF DInv, D!TypeOK, DetectShape, DetectHeld, D!FramesOwned
<1>2. Inv => ReleasedOnce
  BY <1>1 DEF Inv, ReleasedOnce, PInv, VInv
<1> QED
  BY <1>2, InitInv, NextInv, PTL DEF Spec

\* No yolo inference runs on while the NPU thread goes to its next item, however the calls
\* before it fail.
THEOREM Finishes == Spec => []InferencesFinished
<1>1. Inv => InferencesFinished
  BY DEF Inv, DInv, DetectShape, InferencesFinished, D!InferencesFinished
<1> QED
  BY <1>1, InitInv, NextInv, PTL DEF Spec

\* With any number of buffers, the images of an item that waits or is inferred on
\* stay its own, failing maps or not, until stereo_cve_process begins the
\* BufNum-th pair after it.
THEOREM ImagesStay == Spec => []ImagesKept
<1>1. Inv => ImagesKept
  BY DEF Inv, BInv, ImagesKept
<1> QED
  BY <1>1, InitInv, NextInv, PTL DEF Spec

\* With any number of buffers, the images the NPU reads for an item are that
\* item's or newer.
THEOREM NeverOlderImages == Spec => []NeverOlder
<1>1. Inv => NeverOlder
  BY DEF Inv, BInv, NeverOlder
<1> QED
  BY <1>1, InitInv, NextInv, PTL DEF Spec

\* A client gets no backlog, and each triplet whole and in order.
THEOREM Whole == Spec => []FreshAndWhole
<1>1. Inv => FreshAndWhole
  BY NWhole DEF Inv, FreshAndWhole
<1> QED
  BY <1>1, InitInv, NextInv, PTL DEF Spec

\* Each stage hands on only what is newer than what it handed on before.
THEOREM Advances == Spec => NeverBack
<1>1. Inv /\ [Next]_vars =>
        [p_pushed' # p_pushed => \A s \in P!Sides : p_pushed'[s] > p_pushed[s]]_pvars
  BY NextStages, PForward DEF Inv
<1>2. Inv /\ [Next]_vars =>
        [d_npu = "test" /\ d_npu' = "trigger" => d_consumed' > d_consumed]_dvars
  BY NextStages, DNewer DEF Inv
<1>3. Inv /\ [Next]_vars =>
        [\A c \in V!Channels : v_done'[c] # v_done[c] => v_done'[c] > v_done[c]]_vvars
  BY NextStages, VAdvances DEF Inv
<1>4. Inv /\ [Next]_vars =>
        [n_shown' # n_shown => /\ \A t \in N!Triplet : n_shown'[t] = n_shown'["left"]
                               /\ n_shown'["left"] > n_shown["left"]]_nvars
  BY NextStages, NShown DEF Inv
<1> QED
  BY <1>1, <1>2, <1>3, <1>4, InitInv, NextInv, PTL
  DEF Spec, NeverBack, P!OnlyForward, D!ConsumesNewer, V!ImagesAdvance, N!ShownAdvances,
      P!vars, D!vars, V!vars, N!vars, pvars, dvars, vvars, nvars
=============================================================================
