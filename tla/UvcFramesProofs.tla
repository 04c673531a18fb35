-------------------------- MODULE UvcFramesProofs --------------------------
(***************************************************************************)
(* UvcFrames proved for every number of buffers, of nodes per stream and of *)
(* streams: nobody is given a node that somebody else has; what the driver  *)
(* sends is whole; and a thread that waits for a frame does not wait for a  *)
(* node that has been lost.                                                *)
(***************************************************************************)
EXTENDS UvcFrames, SequenceTheorems, FiniteSetTheorems, TLAPS

LEMMA BuffersTyped == Buffers \subseteq Nat /\ 1 \in Buffers
<1>1. Cardinality(Buffers) \in Nat
  BY UvcAssumption, FS_CardinalityType
<1> QED
  BY <1>1, UvcAssumption

\* What ok_queue holds after a node has been taken from its tail.
LEMMA Taken ==
    ASSUME TypeOK, OnePlace, ok # <<>>
    PROVE  /\ Head(ok) \in Listed
           /\ Tail(ok) \in Seq(Node)
           /\ \A i, j \in DOMAIN Tail(ok) : Tail(ok)[i] = Tail(ok)[j] => i = j
           /\ {Tail(ok)[k] : k \in DOMAIN Tail(ok)} \subseteq Listed \ {Head(ok)}
<1>1. ok \in Seq(Node)
  BY DEF TypeOK
<1>2. Len(ok) \in Nat \ {0} /\ DOMAIN ok = 1 .. Len(ok) /\ Head(ok) = ok[1]
  BY <1>1, EmptySeq
<1>3. /\ Tail(ok) \in Seq(Node) /\ Len(Tail(ok)) = Len(ok) - 1
      /\ \A k \in 1 .. Len(Tail(ok)) : Tail(ok)[k] = ok[k + 1]
  BY <1>1, HeadTailProperties
<1>4. DOMAIN Tail(ok) = 1 .. Len(ok) - 1
  BY <1>3
<1>5. \A k \in DOMAIN Tail(ok) : k + 1 \in DOMAIN ok /\ Tail(ok)[k] = ok[k + 1] /\ k + 1 # 1
  BY <1>2, <1>3, <1>4
<1>6. \A i, j \in DOMAIN ok : ok[i] = ok[j] => i = j
  BY DEF OnePlace
<1>7. Head(ok) \in Listed
  BY <1>2 DEF Listed
<1>8. \A i, j \in DOMAIN Tail(ok) : Tail(ok)[i] = Tail(ok)[j] => i = j
  <2> SUFFICES ASSUME NEW i \in DOMAIN Tail(ok), NEW j \in DOMAIN Tail(ok),
                      Tail(ok)[i] = Tail(ok)[j]
               PROVE  i = j
    OBVIOUS
  <2>1. i + 1 = j + 1
    BY <1>5, <1>6
  <2> QED
    BY <2>1, <1>4, <1>2
<1>9. \A k \in DOMAIN Tail(ok) : Tail(ok)[k] \in Listed \ {Head(ok)}
  <2> SUFFICES ASSUME NEW k \in DOMAIN Tail(ok)
               PROVE  Tail(ok)[k] \in Listed \ {Head(ok)}
    OBVIOUS
  <2>1. Tail(ok)[k] = ok[k + 1] /\ k + 1 \in DOMAIN ok /\ k + 1 # 1
    BY <1>5
  <2>2. ok[k + 1] # ok[1]
    BY <2>1, <1>2, <1>6
  <2> QED
    BY <2>1, <2>2, <1>2 DEF Listed
<1> QED
  BY <1>3, <1>7, <1>8, <1>9

\* What it holds after a node has been put to its head.
LEMMA Put ==
    ASSUME TypeOK, OnePlace, NEW n \in Node, n \notin Listed
    PROVE  /\ Append(ok, n) \in Seq(Node)
           /\ \A i, j \in DOMAIN Append(ok, n) : Append(ok, n)[i] = Append(ok, n)[j] => i = j
           /\ {Append(ok, n)[k] : k \in DOMAIN Append(ok, n)} = Listed \cup {n}
<1>1. ok \in Seq(Node)
  BY DEF TypeOK
<1>2. Len(ok) \in Nat /\ DOMAIN ok = 1 .. Len(ok)
  BY <1>1
<1>3. /\ Append(ok, n) \in Seq(Node) /\ Len(Append(ok, n)) = Len(ok) + 1
      /\ \A k \in 1 .. Len(ok) : Append(ok, n)[k] = ok[k]
      /\ Append(ok, n)[Len(ok) + 1] = n
  BY <1>1, AppendProperties
<1>4. DOMAIN Append(ok, n) = 1 .. Len(ok) + 1
  BY <1>3
<1>5. \A k \in DOMAIN Append(ok, n) :
          IF k = Len(ok) + 1 THEN Append(ok, n)[k] = n
                             ELSE k \in DOMAIN ok /\ Append(ok, n)[k] = ok[k]
  BY <1>2, <1>3, <1>4
<1>6. \A k \in DOMAIN ok : ok[k] # n
  BY DEF Listed
<1>7. \A i, j \in DOMAIN Append(ok, n) : Append(ok, n)[i] = Append(ok, n)[j] => i = j
  BY <1>5, <1>6 DEF OnePlace
<1>8. \A k \in DOMAIN Append(ok, n) : Append(ok, n)[k] \in Listed \cup {n}
  BY <1>5 DEF Listed
<1>9. \A m \in Listed \cup {n} : \E k \in DOMAIN Append(ok, n) : Append(ok, n)[k] = m
  <2>1. \A k \in DOMAIN ok : k \in DOMAIN Append(ok, n) /\ Append(ok, n)[k] = ok[k]
    BY <1>2, <1>3, <1>4
  <2>2. Len(ok) + 1 \in DOMAIN Append(ok, n)
    BY <1>2, <1>4
  <2> QED
    BY <2>1, <2>2, <1>3 DEF Listed
<1> QED
  BY <1>3, <1>7, <1>8, <1>9

\* The oldest node of ok_queue is one.
LEMMA TailTyped ==
    ASSUME TypeOK, ok # <<>>
    PROVE  Head(ok) \in Node /\ Tail(ok) \in Seq(Node)
  BY HeadTailProperties DEF TypeOK

Places == {"out", "get", "test", "put", "null", "set", "queue"}

\* The types of the variables that the proofs below need most.
LEMMA Typed ==
    ASSUME TypeOK
    PROVE  /\ at \in [Threads -> Places]
           /\ idx \in [Threads -> Buffers]
           /\ c \in [Threads -> Node \cup {None}] /\ ptr \in [Threads -> Node \cup {None}]
           /\ old \in [Threads -> Node \cup {None}]
           /\ slot \in [Buffers -> Node \cup {None}] /\ queued \in [Buffers -> Node \cup {None}]
           /\ "event" \in Threads /\ "data" \in Threads
           /\ \A t \in Threads : t \in {"event", "data"}
           /\ torn \subseteq Buffers
  BY DEF TypeOK, Threads, Places

\* Where a thread is that has dealt with a slot.
LEMMA HandledStep ==
    ASSUME TypeOK, NEW t \in Threads, Handled(t)
    PROVE  /\ at' \in [Threads -> Places] /\ idx' \in [Threads -> Buffers]
           /\ at'[t] \in {"test", "out", "set"}
           /\ \A u \in Threads : u # t => at'[u] = at[u] /\ idx'[u] = idx[u]
           /\ ~(t = "event" /\ Head(todo) = "clear") =>
                  at' = [at EXCEPT ![t] = "set"] /\ UNCHANGED <<idx, todo>>
<1>1. CASE t = "event" /\ Head(todo) = "clear"
  <2>1. CASE idx[t] + 1 \in Buffers
    BY <1>1, <2>1, Typed DEF Handled, Places
  <2>2. CASE idx[t] + 1 \notin Buffers
    BY <1>1, <2>2, Typed DEF Handled, Places
  <2> QED
    BY <2>1, <2>2
<1>2. CASE ~(t = "event" /\ Head(todo) = "clear")
  <2>1. at' = [at EXCEPT ![t] = "set"] /\ UNCHANGED <<idx, todo>>
    BY <1>2 DEF Handled
  <2> QED
    BY <1>2, <2>1, Typed DEF Places
<1> QED
  BY <1>1, <1>2

LEMMA TypeInit == Init => TypeOK
<1> SUFFICES ASSUME Init PROVE TypeOK
  OBVIOUS
<1>1. ok \in Seq(Node) /\ moved \in Nat
  BY EmptySeq DEF Init
<1>2. /\ at \in [Threads -> Places] /\ idx \in [Threads -> Buffers]
      /\ c \in [Threads -> Node \cup {None}] /\ ptr \in [Threads -> Node \cup {None}]
      /\ old \in [Threads -> Node \cup {None}]
  BY BuffersTyped DEF Init, Places
<1>3. slot \in [Buffers -> Node \cup {None}] /\ queued \in [Buffers -> Node \cup {None}]
  BY DEF Init
<1> QED
  BY <1>1, <1>2, <1>3 DEF Init, TypeOK, Places

LEMMA TypeEvent == TypeOK /\ Event => TypeOK'
<1> SUFFICES ASSUME TypeOK, Event PROVE TypeOK'
  OBVIOUS
<1>1. CASE MoveOk
  <2>1. CASE moved < Len(ok)
    <3>1. ok # <<>>
      <4>1. moved \in Nat /\ Len(<<>>) = 0
        BY EmptySeq DEF TypeOK
      <4> QED
        BY <2>1, <4>1
    <3>2. ok' \in Seq(Node) /\ free' \subseteq Node /\ moved' \in Nat
      <4>1. ok' = Tail(ok) /\ free' = free \cup {Head(ok)} /\ moved' = moved + 1
        BY <1>1, <2>1 DEF MoveOk
      <4>2. Head(ok) \in Node /\ Tail(ok) \in Seq(Node)
        BY <3>1, TailTyped
      <4>3. free \subseteq Node /\ moved \in Nat
        BY DEF TypeOK
      <4> QED
        BY <4>1, <4>2, <4>3
    <3>3. UNCHANGED <<live, slot, at, idx, c, ptr, old, streaming, run, media, queued, crossed,
                      torn, overlap, twice, enough>>
      BY <1>1 DEF MoveOk, fill, history, races
    <3> QED
      BY <3>2, <3>3 DEF TypeOK
  <2>2. CASE ~(moved < Len(ok))
    BY <1>1, <2>2 DEF TypeOK, MoveOk, fill, history, races
  <2> QED
    BY <2>1, <2>2
<1>2. CASE FreeNodes
  BY <1>2 DEF TypeOK, FreeNodes, Does, fill, history, races
<1>3. CASE Off
  BY <1>3 DEF TypeOK, Off, Does, fill, cache, races
<1>4. CASE Join
  BY <1>4 DEF TypeOK, Join, Does, fill, cache, history, races
<1>5. CASE ClearFirst
  BY <1>5, BuffersTyped DEF TypeOK, ClearFirst, Threads, cache, work, history, races
<1>6. CASE Alloc
  <2>1. PICK k \in 0 .. Cache : \E new \in kSubset(k, Node \ live) :
          free' = free \cup new /\ live' = live \cup new /\ enough' = (k > Cardinality(Buffers))
    BY <1>6 DEF Alloc
  <2>2. PICK new \in kSubset(k, Node \ live) :
          free' = free \cup new /\ live' = live \cup new /\ enough' = (k > Cardinality(Buffers))
    BY <2>1
  <2>3. new \subseteq Node
    BY DEF kSubset
  <2> QED
    BY <1>6, <2>2, <2>3 DEF TypeOK, Alloc, Does, fill, races
<1>7. CASE Start
  BY <1>7 DEF TypeOK, Start, Does, fill, cache, history, races
<1>8. CASE FillFirst
  BY <1>8, BuffersTyped DEF TypeOK, FillFirst, Threads, work, cache, history, races
<1>9. CASE QueueFirst
  <2>1. at' \in [Threads -> Places] /\ idx' \in [Threads -> Buffers]
    BY <1>9, Typed DEF QueueFirst, Places
  <2>2. ptr' \in [Threads -> Node \cup {None}] /\ queued' \in [Buffers -> Node \cup {None}]
    BY <1>9, Typed DEF QueueFirst
  <2> QED
    BY <1>9, <2>1, <2>2 DEF TypeOK, QueueFirst, cache, history, races, Places
<1>10. CASE On
  BY <1>10 DEF TypeOK, On, Does, fill, cache, history, races
<1> QED
  BY <1>1, <1>2, <1>3, <1>4, <1>5, <1>6, <1>7, <1>8, <1>9, <1>10 DEF Event

LEMMA TypeFill == ASSUME NEW t \in Threads PROVE TypeOK /\ Fill(t) => TypeOK'
<1> SUFFICES ASSUME TypeOK, Fill(t) PROVE TypeOK'
  OBVIOUS
<1>0. idx[t] \in Buffers /\ c[t] \in Node \cup {None} /\ Marked(t) \subseteq Buffers
  BY Typed DEF Marked
<1>1. CASE Get(t)
  <2>1. c' \in [Threads -> Node \cup {None}] /\ ok' \in Seq(Node)
    <3>1. CASE ok = <<>>
      BY <1>1, <3>1 DEF Get, TypeOK
    <3>2. CASE ok # <<>>
      BY <1>1, <3>2, TailTyped, Typed DEF Get
    <3> QED
      BY <3>1, <3>2
  <2>2. at' \in [Threads -> Places]
    BY <1>1, Typed DEF Get, Places
  <2> QED
    BY <1>1, <2>1, <2>2 DEF TypeOK, Get, work, history, races, Places
<1>2. CASE Test(t)
  <2>1. CASE slot[idx[t]] = None
    BY <1>2, <2>1, HandledStep DEF TypeOK, Test, cache, Places
  <2>2. CASE slot[idx[t]] # None
    <3>1. /\ at' = [at EXCEPT ![t] = "put"] /\ old' = [old EXCEPT ![t] = slot[idx[t]]]
          /\ overlap' \in BOOLEAN /\ UNCHANGED <<idx, todo>>
      BY <1>2, <2>2 DEF Test, TypeOK
    <3>2. slot[idx[t]] \in Node \cup {None}
      BY <1>0, Typed
    <3> QED
      BY <1>2, <3>1, <3>2 DEF TypeOK, Test, cache
  <2> QED
    BY <2>1, <2>2
<1>3. CASE GiveBack(t)
  <2>1. PICK p \in {old[t], slot[idx[t]]} :
          /\ free' = free \cup PutNode(p)
          /\ twice' = (p # None /\ p \in free \cup Listed \cup (Node \ live))
    BY <1>3 DEF GiveBack
  <2>2. free' \subseteq Node /\ twice' \in BOOLEAN
    BY <1>0, <2>1, Typed DEF PutNode, TypeOK
  <2> QED
    BY <1>0, <1>3, <2>2 DEF TypeOK, GiveBack, work
<1>4. CASE Forget(t)
  BY <1>0, <1>4, HandledStep DEF TypeOK, Forget, cache, races, Places
<1>5. CASE FillSet(t)
  <2>1. torn' \subseteq Buffers /\ at' \in [Threads -> Places]
    BY <1>0, <1>5, Typed DEF FillSet, Places
  <2>2. /\ slot' \in [Buffers -> Node \cup {None}] /\ c' \in [Threads -> Node \cup {None}]
        /\ ptr' \in [Threads -> Node \cup {None}]
    BY <1>0, <1>5, Typed DEF FillSet
  <2> QED
    BY <1>5, <2>1, <2>2 DEF TypeOK, FillSet, cache, work, races, Places
<1> QED
  BY <1>1, <1>2, <1>3, <1>4, <1>5 DEF Fill

LEMMA TypeNext == TypeOK /\ [Next]_vars => TypeOK'
<1> SUFFICES ASSUME TypeOK, [Next]_vars PROVE TypeOK'
  OBVIOUS
<1>1. CASE UNCHANGED vars
  BY <1>1 DEF TypeOK, vars, cache, work, fill, history, races
<1>2. CASE StreamOn \/ StreamOff
  BY <1>2 DEF TypeOK, StreamOn, StreamOff, cache, fill, history, races
<1>3. CASE Event
  BY <1>3, TypeEvent
<1>4. CASE \E t \in Threads : Fill(t)
  BY <1>4, TypeFill
<1>5. CASE Dequeue
  <2>1. PICK i \in Buffers :
           /\ idx' = [idx EXCEPT !["data"] = i]
           /\ ptr' = [ptr EXCEPT !["data"] = queued[i]]
           /\ queued' = [queued EXCEPT ![i] = None]
           /\ torn' = torn \ {i}
    BY <1>5 DEF Dequeue
  <2>2. queued[i] \in Node \cup {None}
    BY Typed
  <2>3. /\ idx' \in [Threads -> Buffers] /\ ptr' \in [Threads -> Node \cup {None}]
        /\ queued' \in [Buffers -> Node \cup {None}] /\ torn' \subseteq Buffers
    BY <2>1, <2>2, Typed
  <2>4. at' \in [Threads -> Places]
    BY <1>5, Typed DEF Dequeue, Places
  <2> QED
    BY <1>5, <2>3, <2>4 DEF TypeOK, Dequeue, cache, work, races, Places
<1>6. CASE Queue
  <2>1. queued' \in [Buffers -> Node \cup {None}]
    BY <1>6, Typed DEF Queue
  <2> QED
    BY <1>6, <2>1 DEF TypeOK, Queue, Threads, cache, work, races
<1>7. CASE MediaGet
  BY <1>7 DEF TypeOK, MediaGet, fill, work, history, races
<1>8. CASE MediaPut
  <2>1. ok' \in Seq(Node)
    BY <1>8, AppendProperties DEF TypeOK, MediaPut
  <2> QED
    BY <1>8, <2>1 DEF TypeOK, MediaPut, fill, work, history, races
<1>9. CASE MediaEnds
  BY <1>9 DEF TypeOK, MediaEnds, fill, cache, work, history, races
<1> QED
  BY <1>1, <1>2, <1>3, <1>4, <1>5, <1>6, <1>7, <1>8, <1>9 DEF Next, Broken

\* The types of the variables, for every number of buffers, nodes and streams, and
\* whatever two threads do to one slot.
THEOREM TypeCorrect == Spec => []TypeOK
  BY TypeInit, TypeNext, PTL DEF Spec

-----------------------------------------------------------------------------
(* No node is in two places.                                               *)

Held == free \cup Listed \cup InHand \cup Copied

\* A thread that is past the test of a slot has found a node there, is alone there,
\* and what it has found is in no other place.
IGive ==
    /\ \A t \in Threads : Past(t) => slot[idx[t]] # None
    /\ Past("event") /\ Past("data") => idx["event"] # idx["data"]
    /\ \A t \in Threads : at[t] = "put" =>
           /\ old[t] # None /\ old[t] \in live /\ old[t] \notin Held
           /\ \A i \in Buffers : ~Given(i) /\ slot[i] = old[t] => i = idx[t]
    /\ at["event"] = "put" /\ at["data"] = "put" => old["event"] # old["data"]

Inv == TypeOK /\ OnePlace /\ IGive

LEMMA InitInv == Init => Inv
<1> SUFFICES ASSUME Init PROVE Inv
  OBVIOUS
<1>1. TypeOK
  BY TypeInit
<1>2. DOMAIN ok = {} /\ Listed = {} /\ Saved = {} /\ InHand = {} /\ Copied = {}
  BY UvcAssumption DEF Init, Listed, Saved, InHand, Copied
<1>3. OnePlace
  BY <1>2 DEF Init, OnePlace, Threads
<1>4. IGive
  BY DEF Init, IGive, Past, Threads
<1> QED
  BY <1>1, <1>3, <1>4 DEF Inv

\* No thread starts or ends giving back.
Alike == \A u \in Threads : \/ at'[u] = at[u] /\ idx'[u] = idx[u]
                            \/ at[u] \notin {"put", "null"} /\ at'[u] \notin {"put", "null"}

LEMMA AlikeGiven ==
    ASSUME Alike
    PROVE  /\ \A i \in Buffers : Given(i)' <=> Given(i)
           /\ UNCHANGED slot => Saved' = Saved
<1>1. \A i \in Buffers : Given(i)' <=> Given(i)
  BY DEF Alike, Given
<1> QED
  BY <1>1 DEF Saved

\* Nor do the lists, the hands and the media thread come to hold what they did not.
LEMMA GiveKept ==
    ASSUME IGive, Alike, UNCHANGED <<slot, old>>,
           \A n \in live \ Held : n \in live' \ Held'
    PROVE  IGive'
<1>1. \A i \in Buffers : Given(i)' <=> Given(i)
  BY AlikeGiven
<1>2. \A t \in Threads : Past(t)' => Past(t) /\ at'[t] = at[t] /\ idx'[t] = idx[t]
  BY DEF Alike, Past
<1>3. \A t \in Threads : Past(t)' => slot'[idx'[t]] # None
  BY <1>2 DEF IGive
<1>4. Past("event")' /\ Past("data")' => idx'["event"] # idx'["data"]
  BY <1>2 DEF IGive, Threads
<1>5. \A t \in Threads : at'[t] = "put" => at[t] = "put" /\ idx'[t] = idx[t]
  BY DEF Alike
<1>6. ASSUME NEW t \in Threads, at'[t] = "put"
      PROVE  /\ old'[t] # None /\ old'[t] \in live' /\ old'[t] \notin Held'
             /\ \A i \in Buffers : ~Given(i)' /\ slot'[i] = old'[t] => i = idx'[t]
  BY <1>1, <1>5, <1>6 DEF IGive
<1>7. at'["event"] = "put" /\ at'["data"] = "put" => old'["event"] # old'["data"]
  BY <1>5 DEF IGive, Threads
<1> QED
  BY <1>3, <1>4, <1>6, <1>7 DEF IGive

\* A step that touches none of the places.
LEMMA SameInv ==
    ASSUME Inv, TypeOK', Alike, UNCHANGED <<cache, slot, c, media, old, twice>>
    PROVE  Inv'
<1>1. (\A i \in Buffers : Given(i)' <=> Given(i)) /\ Saved' = Saved
  BY AlikeGiven
<1>2. Listed' = Listed /\ InHand' = InHand /\ Copied' = Copied /\ UNCHANGED <<ok, free, live>>
  BY DEF Listed, InHand, Copied, cache
<1>3. OnePlace'
  BY <1>1, <1>2 DEF Inv, OnePlace
<1>4. IGive'
  BY <1>2, GiveKept DEF Inv, Held
<1> QED
  BY <1>3, <1>4 DEF Inv

\* A step that touches only the lists, what is allocated and the media thread.
LEMMA ListInv ==
    ASSUME Inv, TypeOK', Alike, UNCHANGED <<slot, c, old, twice>>,
           \A i, j \in DOMAIN ok' : ok'[i] = ok'[j] => i = j,
           Listed' \cap free' = {}, Copied' \cap (free' \cup Listed') = {},
           free' \cup Listed' \cup Copied' \subseteq
               live' \cap (free \cup Listed \cup Copied \cup (Node \ live)),
           \A n \in live \ Held : n \in live',
           Saved \cup InHand \subseteq live'
    PROVE  Inv'
<1>1. (\A i \in Buffers : Given(i)' <=> Given(i)) /\ Saved' = Saved /\ InHand' = InHand
  BY AlikeGiven DEF InHand
<1>2. OnePlace'
  <2>1. (Saved \cup InHand) \cap (free' \cup Listed' \cup Copied') = {}
    BY DEF Inv, OnePlace
  <2>2. free' \cup Listed' \cup Saved' \cup InHand' \cup Copied' \subseteq live'
    BY <1>1
  <2>3. /\ \A i, j \in Buffers : slot'[i] = slot'[j] /\ ~Given(i)' /\ ~Given(j)' =>
                                    i = j \/ slot'[i] = None
        /\ c'["event"] = c'["data"] => c'["event"] = None
        /\ Saved \cap InHand = {} /\ ~twice'
    BY <1>1 DEF Inv, OnePlace
  <2> QED
    BY <1>1, <2>1, <2>2, <2>3 DEF OnePlace
<1>3. IGive'
  <2>1. Held' \subseteq Held \cup (Node \ live)
    BY <1>1 DEF Held
  <2> QED
    BY <2>1, GiveKept DEF Inv
<1> QED
  BY <1>2, <1>3 DEF Inv

LEMMA MoveOkInv == Inv /\ TypeOK' /\ MoveOk => Inv'
<1> SUFFICES ASSUME Inv, TypeOK', MoveOk PROVE Inv'
  OBVIOUS
<1>0. TypeOK /\ OnePlace /\ Alike
  BY DEF Inv, MoveOk, fill, Alike
<1>1. CASE moved < Len(ok)
  <2>1. ok # <<>>
    <3>1. moved \in Nat /\ Len(<<>>) = 0
      BY <1>0, EmptySeq DEF TypeOK
    <3> QED
      BY <1>1, <3>1
  <2>2. /\ ok' = Tail(ok) /\ free' = free \cup {Head(ok)}
        /\ UNCHANGED <<live, slot, c, media, old, twice>>
    BY <1>1 DEF MoveOk, fill, history, races
  <2>3. /\ Head(ok) \in Listed
        /\ Listed' \subseteq Listed \ {Head(ok)}
        /\ \A i, j \in DOMAIN ok' : ok'[i] = ok'[j] => i = j
    BY <1>0, <2>1, <2>2, Taken DEF Listed
  <2>4. Copied' = Copied
    BY <2>2 DEF Copied
  <2> QED
    BY <1>0, <2>2, <2>3, <2>4, ListInv DEF OnePlace
<1>2. CASE ~(moved < Len(ok))
  BY <1>0, <1>2, SameInv DEF MoveOk, cache, fill, history, races
<1> QED
  BY <1>1, <1>2

LEMMA FreeNodesInv == Inv /\ TypeOK' /\ FreeNodes => Inv'
<1> SUFFICES ASSUME Inv, TypeOK', FreeNodes PROVE Inv'
  OBVIOUS
<1>1. /\ Alike /\ free' = {} /\ live' = live \ free
      /\ UNCHANGED <<ok, slot, c, media, old, twice>>
  BY DEF FreeNodes, fill, history, races, Alike
<1>2. Listed' = Listed /\ Copied' = Copied
  BY <1>1 DEF Listed, Copied
<1>3. \A n \in live \ Held : n \in live'
  BY <1>1 DEF Held
<1> QED
  BY <1>1, <1>2, <1>3, ListInv DEF Inv, OnePlace

\* What malloc returns is in no place yet, because nothing that is freed is in one.
LEMMA AllocInv == Inv /\ TypeOK' /\ Alloc => Inv'
<1> SUFFICES ASSUME Inv, TypeOK', Alloc PROVE Inv'
  OBVIOUS
<1>1. PICK new \in SUBSET (Node \ live) : free' = free \cup new /\ live' = live \cup new
  <2>1. PICK k \in 0 .. Cache : \E new \in kSubset(k, Node \ live) :
          free' = free \cup new /\ live' = live \cup new
    BY DEF Alloc
  <2> QED
    BY <2>1 DEF kSubset
<1>2. Alike /\ UNCHANGED <<ok, slot, c, media, old, twice>>
  BY DEF Alloc, fill, races, Alike
<1>3. Listed' = Listed /\ Copied' = Copied
  BY <1>2 DEF Listed, Copied
<1> QED
  BY <1>1, <1>2, <1>3, ListInv DEF Inv, OnePlace

LEMMA StartInv == Inv /\ TypeOK' /\ Start => Inv'
<1> SUFFICES ASSUME Inv, TypeOK', Start PROVE Inv'
  OBVIOUS
<1>1. Alike /\ UNCHANGED <<cache, slot, c, old, twice>> /\ media' \in {media, "idle"}
  BY DEF Start, fill, history, races, Alike
<1>2. CASE media' = "idle"
  <2>1. Copied' = {} /\ Listed' = Listed /\ UNCHANGED <<ok, free, live>>
    BY <1>1, <1>2, UvcAssumption DEF Copied, Listed, cache
  <2> QED
    BY <1>1, <2>1, ListInv DEF Inv, OnePlace
<1>3. CASE media' = media
  BY <1>1, <1>3, SameInv
<1> QED
  BY <1>1, <1>2, <1>3

LEMMA MediaGetInv == Inv /\ TypeOK' /\ MediaGet => Inv'
<1> SUFFICES ASSUME Inv, TypeOK', MediaGet PROVE Inv'
  OBVIOUS
<1>1. PICK n \in free : media' = n /\ free' = free \ {n}
  BY DEF MediaGet
<1>2. Alike /\ UNCHANGED <<ok, live, slot, c, old, twice>>
  BY DEF MediaGet, fill, history, races, Alike
<1>3. Listed' = Listed /\ Copied' \subseteq {n}
  BY <1>1, <1>2 DEF Listed, Copied
<1> QED
  BY <1>1, <1>2, <1>3, ListInv DEF Inv, OnePlace

LEMMA MediaPutInv == Inv /\ TypeOK' /\ MediaPut => Inv'
<1> SUFFICES ASSUME Inv, TypeOK', MediaPut PROVE Inv'
  OBVIOUS
<1>1. media \in Copied /\ media \in Node /\ ok' = Append(ok, media) /\ media' = "idle"
  BY DEF MediaPut, Copied
<1>2. Alike /\ UNCHANGED <<free, live, slot, c, old, twice>>
  BY DEF MediaPut, fill, history, races, Alike
<1>3. media \notin Listed
  BY <1>1 DEF Inv, OnePlace
<1>4. (\A i, j \in DOMAIN ok' : ok'[i] = ok'[j] => i = j) /\ Listed' = Listed \cup {media}
  BY <1>1, <1>3, Put DEF Inv, Listed
<1>5. Copied' = {}
  BY <1>1, UvcAssumption DEF Copied
<1> QED
  BY <1>1, <1>2, <1>4, <1>5, ListInv DEF Inv, OnePlace

\* The steps of the event thread that touch no node.
LEMMA EventInv ==
    Inv /\ TypeOK' /\ (Off \/ Join \/ ClearFirst \/ FillFirst \/ QueueFirst \/ On) => Inv'
<1> SUFFICES ASSUME Inv, TypeOK', Off \/ Join \/ ClearFirst \/ FillFirst \/ QueueFirst \/ On
             PROVE  Inv'
  OBVIOUS
<1>0. TypeOK
  BY DEF Inv
<1>1. CASE Off \/ Join \/ On
  BY <1>1, SameInv DEF Off, Join, On, fill, history, races, Alike
<1>2. CASE ClearFirst \/ FillFirst
  BY <1>0, <1>2, SameInv, Typed DEF ClearFirst, FillFirst, history, races, Alike, At
<1>3. CASE QueueFirst
  <2>1. Alike
    BY <1>0, <1>3, Typed DEF QueueFirst, Alike, At
  <2> QED
    BY <1>3, <2>1, SameInv DEF QueueFirst, history, races
<1> QED
  BY <1>1, <1>2, <1>3

LEMMA OtherInv ==
    Inv /\ TypeOK' /\ (StreamOn \/ StreamOff \/ Dequeue \/ Queue \/ MediaEnds) => Inv'
<1> SUFFICES ASSUME Inv, TypeOK', StreamOn \/ StreamOff \/ Dequeue \/ Queue \/ MediaEnds
             PROVE  Inv'
  OBVIOUS
<1>0. TypeOK
  BY DEF Inv
<1>1. CASE StreamOn \/ StreamOff
  BY <1>1, SameInv DEF StreamOn, StreamOff, fill, history, races, Alike
<1>2. CASE Dequeue
  <2>1. Alike
    BY <1>0, <1>2, Typed DEF Dequeue, Alike, At
  <2> QED
    BY <1>2, <2>1, SameInv DEF Dequeue, races
<1>3. CASE Queue
  BY <1>0, <1>3, SameInv, Typed DEF Queue, races, Alike, At
<1>4. CASE MediaEnds
  <2>1. Alike /\ UNCHANGED <<cache, slot, c, old, twice>> /\ media' = "away"
    BY <1>4 DEF MediaEnds, fill, history, races, Alike
  <2>2. Copied' = {} /\ Listed' = Listed /\ UNCHANGED <<ok, free, live>>
    BY <2>1, UvcAssumption DEF Copied, Listed, cache
  <2> QED
    BY <2>1, <2>2, ListInv DEF Inv, OnePlace
<1> QED
  BY <1>1, <1>2, <1>3, <1>4

\* A node is taken from ok_queue, if there is one.
LEMMA GetInv == ASSUME NEW t \in Threads PROVE Inv /\ TypeOK' /\ Get(t) => Inv'
<1> SUFFICES ASSUME Inv, TypeOK', Get(t) PROVE Inv'
  OBVIOUS
<1>0. TypeOK /\ OnePlace
  BY DEF Inv
<1>1. Alike /\ UNCHANGED <<free, live, slot, media, old, twice>>
  <2>1. at[t] = "get" /\ at' = [at EXCEPT ![t] = "test"] /\ UNCHANGED idx
    BY DEF Get, At
  <2>2. Alike
    BY <1>0, <2>1, Typed DEF Alike
  <2> QED
    BY <2>2 DEF Get, history, races
<1>2. Listed \subseteq Node
  BY <1>0 DEF TypeOK, Listed
<1>3. PICK n \in Listed \cup {None} :
        /\ c' = [c EXCEPT ![t] = n]
        /\ Listed' \subseteq Listed \ {n}
        /\ \A j, k \in DOMAIN ok' : ok'[j] = ok'[k] => j = k
  <2>1. CASE ok = <<>>
    <3>1. c' = [c EXCEPT ![t] = None] /\ ok' = ok
      BY <2>1 DEF Get
    <3>2. None \notin Listed
      BY <1>2, UvcAssumption
    <3>3. Listed' = Listed /\ \A j, k \in DOMAIN ok' : ok'[j] = ok'[k] => j = k
      BY <1>0, <3>1 DEF OnePlace, Listed
    <3>4. None \in Listed \cup {None} /\ Listed' \subseteq Listed \ {None}
      BY <3>2, <3>3
    <3> QED
      BY <3>1, <3>3, <3>4
  <2>2. CASE ok # <<>>
    <3>1. c' = [c EXCEPT ![t] = Head(ok)] /\ ok' = Tail(ok)
      BY <2>2 DEF Get
    <3> QED
      BY <1>0, <2>2, <3>1, Taken DEF Listed
  <2> QED
    BY <2>1, <2>2
<1>4. InHand' \subseteq InHand \cup ({n} \ {None}) /\ n \notin InHand
  BY <1>0, <1>2, <1>3, UvcAssumption, Typed DEF InHand, OnePlace
<1>5. c'["event"] = c'["data"] => c'["event"] = None
  BY <1>0, <1>3, <1>4, Typed DEF InHand, OnePlace
<1>6. Copied' = Copied /\ Saved' = Saved /\ \A i \in Buffers : Given(i)' <=> Given(i)
  BY <1>1, AlikeGiven DEF Copied
<1>7. OnePlace'
  <2>1. /\ free' \cap Listed' = {} /\ Saved' \cap (free' \cup Listed') = {}
        /\ InHand' \cap (free' \cup Listed' \cup Saved') = {}
        /\ Copied' \cap (free' \cup Listed' \cup Saved' \cup InHand') = {}
    BY <1>0, <1>1, <1>2, <1>3, <1>4, <1>6, UvcAssumption DEF OnePlace
  <2>2. free' \cup Listed' \cup Saved' \cup InHand' \cup Copied' \subseteq live'
    BY <1>0, <1>1, <1>3, <1>4, <1>6 DEF OnePlace
  <2>3. /\ ~twice'
        /\ \A i, j \in Buffers : slot'[i] = slot'[j] /\ ~Given(i)' /\ ~Given(j)' =>
                                    i = j \/ slot'[i] = None
    BY <1>0, <1>1, <1>6 DEF OnePlace
  <2> QED
    BY <1>3, <1>5, <2>1, <2>2, <2>3 DEF OnePlace
<1>8. IGive'
  <2>1. Held' \subseteq Held
    BY <1>1, <1>3, <1>4, <1>6 DEF Held
  <2> QED
    BY <1>1, <2>1, GiveKept DEF Inv
<1> QED
  BY <1>7, <1>8 DEF Inv

\* A slot is empty, or a thread comes to be past its test, and is alone there.
LEMMA TestInv ==
    ASSUME NEW t \in Threads PROVE Inv /\ TypeOK' /\ ~overlap' /\ Test(t) => Inv'
<1> SUFFICES ASSUME Inv, TypeOK', ~overlap', Test(t) PROVE Inv'
  OBVIOUS
<1> DEFINE s == idx[t]
<1>0. TypeOK /\ OnePlace /\ IGive /\ s \in Buffers /\ at[t] = "test"
  BY Typed DEF Inv, Test, At
<1>1. UNCHANGED <<cache, slot, c, media, twice>>
  BY DEF Test
<1>2. CASE slot[s] = None
  <2>1. Handled(t) /\ UNCHANGED old
    BY <1>2 DEF Test
  <2>2. Alike
    BY <1>0, <2>1, HandledStep DEF Alike
  <2> QED
    BY <1>1, <2>1, <2>2, SameInv
<1>3. CASE slot[s] # None
  <2>1. /\ at' = [at EXCEPT ![t] = "put"] /\ old' = [old EXCEPT ![t] = slot[s]]
        /\ UNCHANGED idx
        /\ \A u \in Threads \ {t} : Past(u) => idx[u] # s
    BY <1>3 DEF Test
  <2>2. \A i \in Buffers : Given(i)' <=> Given(i)
    BY <1>0, <2>1, Typed DEF Given
  <2>3. /\ Saved' = Saved /\ Listed' = Listed /\ InHand' = InHand /\ Copied' = Copied
        /\ Held' = Held /\ UNCHANGED <<ok, free, live>>
    BY <1>1, <2>2 DEF Saved, Listed, InHand, Copied, Held, cache
  <2>4. OnePlace'
    BY <1>0, <1>1, <2>2, <2>3 DEF OnePlace
  <2>5. ~Given(s) /\ slot[s] \in Saved
    <3>1. ~Given(s)
      BY <1>0, <2>1 DEF Given, Past
    <3> QED
      BY <1>0, <1>3, <3>1 DEF Saved
  <2>6. slot[s] \in live /\ slot[s] \notin Held
    BY <1>0, <2>5 DEF OnePlace, Held
  <2>7. \A i \in Buffers : ~Given(i) /\ slot[i] = slot[s] => i = s
    BY <1>0, <1>3, <2>5 DEF OnePlace
  <2>8. \A u \in Threads : Past(u)' => u = t \/ Past(u)
    BY <1>0, <2>1, Typed DEF Past
  <2>9. \A u \in Threads \ {t} : at'[u] = at[u] /\ old'[u] = old[u]
    BY <1>0, <2>1, Typed
  <2>10. at'[t] = "put" /\ old'[t] = slot[s]
    BY <1>0, <2>1, Typed
  <2>11. \A u \in Threads : Past(u)' => slot'[idx'[u]] # None
    BY <1>0, <1>1, <1>3, <2>1, <2>8 DEF IGive
  <2>12. Past("event")' /\ Past("data")' => idx'["event"] # idx'["data"]
    BY <1>0, <2>1, <2>8 DEF IGive, Threads
  <2>13. ASSUME NEW u \in Threads, at'[u] = "put"
         PROVE  /\ old'[u] # None /\ old'[u] \in live' /\ old'[u] \notin Held'
                /\ \A i \in Buffers : ~Given(i)' /\ slot'[i] = old'[u] => i = idx'[u]
    <3>1. CASE u = t
      BY <1>1, <1>3, <2>1, <2>2, <2>3, <2>6, <2>7, <2>10, <3>1
    <3>2. CASE u # t
      BY <1>0, <1>1, <2>1, <2>2, <2>3, <2>9, <2>13, <3>2 DEF IGive
    <3> QED
      BY <3>1, <3>2
  <2>14. ASSUME NEW u \in Threads \ {t}, at'[u] = "put"
         PROVE  old'[u] # slot[s]
    <3>1. at[u] = "put" /\ old'[u] = old[u] /\ idx[u] # s
      BY <2>1, <2>9, <2>14 DEF Past
    <3> QED
      BY <1>0, <2>5, <3>1 DEF IGive
  <2>15. at'["event"] = "put" /\ at'["data"] = "put" => old'["event"] # old'["data"]
    BY <2>10, <2>14 DEF Threads
  <2>16. IGive'
    BY <2>11, <2>12, <2>13, <2>15 DEF IGive
  <2> QED
    BY <2>4, <2>16 DEF Inv
<1> QED
  BY <1>2, <1>3

\* What was found, or what the slot has by now, goes to free_queue; it is in no list.
LEMMA GiveBackInv == ASSUME NEW t \in Threads PROVE Inv /\ TypeOK' /\ GiveBack(t) => Inv'
<1> SUFFICES ASSUME Inv, TypeOK', GiveBack(t) PROVE Inv'
  OBVIOUS
<1> DEFINE s == idx[t]
<1>0. TypeOK /\ OnePlace /\ IGive /\ s \in Buffers /\ at[t] = "put" /\ Past(t)
  BY Typed DEF Inv, GiveBack, At, Past
<1>1. PICK p \in {old[t], slot[s]} :
        /\ free' = free \cup PutNode(p)
        /\ twice' = (p # None /\ p \in free \cup Listed \cup (Node \ live))
  BY DEF GiveBack
<1>2. /\ at' = [at EXCEPT ![t] = "null"] /\ old' = [old EXCEPT ![t] = None]
      /\ UNCHANGED <<ok, live, slot, idx, c, media>>
  BY DEF GiveBack
<1>3. slot[s] # None /\ ~Given(s) /\ slot[s] \in Saved
  <2>1. \A u \in Threads \ {t} : Past(u) => idx[u] # s
    BY <1>0 DEF IGive, Threads
  <2>2. ~Given(s)
    BY <1>0, <2>1 DEF Given, Past
  <2> QED
    BY <1>0, <2>2 DEF IGive, Saved
<1>4. p \in live /\ p # None /\ p \notin Held
  <2>1. CASE p = old[t]
    BY <1>0, <2>1 DEF IGive
  <2>2. CASE p = slot[s]
    BY <1>0, <1>3, <2>2 DEF OnePlace, Held
  <2> QED
    BY <2>1, <2>2
<1>5. free' = free \cup {p} /\ ~twice'
  BY <1>1, <1>4 DEF PutNode, Held
<1>6. \A i \in Buffers : Given(i)' <=> Given(i) \/ i = s
  BY <1>0, <1>2, Typed DEF Given
<1>7. Saved' \subseteq Saved \ {p}
  <2> SUFFICES ASSUME NEW i \in Buffers, ~Given(i)', slot[i] # None
               PROVE  slot[i] \in Saved \ {p}
    BY <1>2 DEF Saved
  <2>1. ~Given(i) /\ i # s
    BY <1>6
  <2>2. slot[i] \in Saved
    BY <2>1 DEF Saved
  <2>3. slot[i] # old[t]
    BY <1>0, <2>1 DEF IGive
  <2>4. slot[i] # slot[s]
    BY <1>0, <1>3, <2>1 DEF OnePlace
  <2> QED
    BY <2>2, <2>3, <2>4
<1>8. Listed' = Listed /\ InHand' = InHand /\ Copied' = Copied
  BY <1>2 DEF Listed, InHand, Copied
<1>9. OnePlace'
  <2>1. /\ free' \cap Listed' = {} /\ Saved' \cap (free' \cup Listed') = {}
        /\ InHand' \cap (free' \cup Listed' \cup Saved') = {}
        /\ Copied' \cap (free' \cup Listed' \cup Saved' \cup InHand') = {}
    BY <1>0, <1>4, <1>5, <1>7, <1>8 DEF OnePlace, Held
  <2>2. free' \cup Listed' \cup Saved' \cup InHand' \cup Copied' \subseteq live'
    BY <1>0, <1>2, <1>4, <1>5, <1>7, <1>8 DEF OnePlace
  <2>3. /\ \A i, j \in Buffers : slot'[i] = slot'[j] /\ ~Given(i)' /\ ~Given(j)' =>
                                    i = j \/ slot'[i] = None
        /\ c'["event"] = c'["data"] => c'["event"] = None
        /\ \A i, j \in DOMAIN ok' : ok'[i] = ok'[j] => i = j
    BY <1>0, <1>2, <1>6 DEF OnePlace
  <2> QED
    BY <1>5, <2>1, <2>2, <2>3 DEF OnePlace
<1>10. \A u \in Threads \ {t} : at'[u] = at[u] /\ old'[u] = old[u]
  BY <1>0, <1>2, Typed
<1>11. at'[t] = "null"
  BY <1>0, <1>2, Typed
<1>12. \A u \in Threads : Past(u)' => Past(u)
  BY <1>0, <1>10 DEF Past
<1>13. ASSUME NEW u \in Threads, at'[u] = "put"
       PROVE  /\ old'[u] # None /\ old'[u] \in live' /\ old'[u] \notin Held'
              /\ \A i \in Buffers : ~Given(i)' /\ slot'[i] = old'[u] => i = idx'[u]
  <2>1. u # t /\ at[u] = "put" /\ old'[u] = old[u]
    BY <1>10, <1>11, <1>13
  <2>2. idx[u] # s /\ old[u] # old[t]
    BY <1>0, <2>1 DEF IGive, Threads, Past
  <2>3. old[u] # slot[s]
    BY <1>0, <1>3, <2>1, <2>2 DEF IGive
  <2>4. old[u] # p /\ old[u] \notin Held
    BY <1>0, <2>1, <2>2, <2>3 DEF IGive
  <2>5. Held' = Held \cup {p}
    BY <1>5, <1>8 DEF Held
  <2> QED
    BY <1>0, <1>2, <1>6, <2>1, <2>4, <2>5 DEF IGive
<1>14. IGive'
  <2>1. \A u \in Threads : Past(u)' => slot'[idx'[u]] # None
    BY <1>0, <1>2, <1>12 DEF IGive
  <2>2. Past("event")' /\ Past("data")' => idx'["event"] # idx'["data"]
    BY <1>0, <1>2, <1>12 DEF IGive, Threads
  <2>3. ~(at'["event"] = "put" /\ at'["data"] = "put")
    BY <1>11 DEF Threads
  <2> QED
    BY <1>13, <2>1, <2>2, <2>3 DEF IGive
<1> QED
  BY <1>9, <1>14 DEF Inv

\* The slot forgets what was given back.
LEMMA ForgetInv == ASSUME NEW t \in Threads PROVE Inv /\ TypeOK' /\ Forget(t) => Inv'
<1> SUFFICES ASSUME Inv, TypeOK', Forget(t) PROVE Inv'
  OBVIOUS
<1> DEFINE s == idx[t]
<1>0. TypeOK /\ OnePlace /\ IGive /\ s \in Buffers /\ at[t] = "null"
  BY Typed DEF Inv, Forget, At
<1>1. /\ slot' = [slot EXCEPT ![s] = None] /\ Handled(t)
      /\ UNCHANGED <<ok, free, live, c, media, old, twice>>
  BY DEF Forget, cache, races
<1>2. /\ at'[t] \notin {"put", "null"}
      /\ \A u \in Threads \ {t} : at'[u] = at[u] /\ idx'[u] = idx[u]
  BY <1>0, <1>1, HandledStep
<1>3. \A i \in Buffers : Given(i)' => Given(i)
  BY <1>2 DEF Given
<1>4. \A i \in Buffers : i # s => (Given(i)' <=> Given(i))
  BY <1>2 DEF Given
<1>5. Given(s)
  BY <1>0 DEF Given
<1>6. slot'[s] = None /\ \A i \in Buffers : i # s => slot'[i] = slot[i]
  BY <1>0, <1>1, Typed
<1>7. Saved' = Saved
  BY <1>4, <1>5, <1>6 DEF Saved
<1>8. Listed' = Listed /\ InHand' = InHand /\ Copied' = Copied /\ Held' = Held
  BY <1>1 DEF Listed, InHand, Copied, Held
<1>9. OnePlace'
  <2>1. \A i, j \in Buffers : slot'[i] = slot'[j] /\ ~Given(i)' /\ ~Given(j)' =>
                                 i = j \/ slot'[i] = None
    BY <1>0, <1>4, <1>6 DEF OnePlace
  <2> QED
    BY <1>0, <1>1, <1>7, <1>8, <2>1 DEF OnePlace
<1>10. \A u \in Threads : Past(u)' => u # t /\ Past(u) /\ idx'[u] = idx[u] /\ idx[u] # s
  <2>1. \A u \in Threads : Past(u)' => u # t /\ Past(u) /\ idx'[u] = idx[u]
    BY <1>2 DEF Past
  <2> QED
    BY <1>0, <2>1 DEF IGive, Threads, Past
<1>11. IGive'
  <2>1. \A u \in Threads : Past(u)' => slot'[idx'[u]] # None
    BY <1>0, <1>6, <1>10, Typed DEF IGive
  <2>2. ~(Past("event")' /\ Past("data")')
    BY <1>10 DEF Threads
  <2>3. ASSUME NEW u \in Threads, at'[u] = "put"
        PROVE  /\ old'[u] # None /\ old'[u] \in live' /\ old'[u] \notin Held'
               /\ \A i \in Buffers : ~Given(i)' /\ slot'[i] = old'[u] => i = idx'[u]
    <3>1. u # t /\ at[u] = "put" /\ idx'[u] = idx[u]
      BY <1>2, <2>3
    <3> QED
      BY <1>0, <1>1, <1>4, <1>6, <1>8, <3>1 DEF IGive
  <2> QED
    BY <2>1, <2>2, <2>3 DEF IGive, Past
<1> QED
  BY <1>9, <1>11 DEF Inv

\* What a thread has taken goes from its hand to the slot, whose own node, if the other
\* thread has put one there meanwhile, is lost.
LEMMA FillSetInv == ASSUME NEW t \in Threads PROVE Inv /\ TypeOK' /\ FillSet(t) => Inv'
<1> SUFFICES ASSUME Inv, TypeOK', FillSet(t) PROVE Inv'
  OBVIOUS
<1> DEFINE s == idx[t]
<1>0. TypeOK /\ OnePlace /\ IGive /\ s \in Buffers /\ c[t] \in Node \cup {None} /\ at[t] = "set"
  BY Typed DEF Inv, FillSet, At
<1>1. /\ at'[t] \in {"get", "queue"} /\ \A u \in Threads \ {t} : at'[u] = at[u]
      /\ UNCHANGED <<idx, old, ok, free, live, media, twice>>
  BY <1>0, Typed DEF FillSet, cache, races
<1>2. Alike
  BY <1>0, <1>1 DEF Alike
<1>3. CASE c[t] = None
  <2>1. UNCHANGED <<slot, c>>
    BY <1>3 DEF FillSet
  <2> QED
    BY <1>1, <1>2, <2>1, SameInv DEF cache
<1>4. CASE c[t] # None
  <2>1. slot' = [slot EXCEPT ![s] = c[t]] /\ c' = [c EXCEPT ![t] = None]
    BY <1>4 DEF FillSet
  <2>2. \A i \in Buffers : Given(i)' <=> Given(i)
    BY <1>2, AlikeGiven
  <2>3. c[t] \in InHand /\ InHand' \subseteq InHand \ {c[t]}
    BY <1>0, <1>4, <2>1, Typed DEF InHand, OnePlace
  <2>4. slot'[s] = c[t] /\ \A i \in Buffers : i # s => slot'[i] = slot[i]
    BY <1>0, <2>1, Typed
  <2>5. Saved' \subseteq Saved \cup {c[t]} /\ c[t] \notin Saved
    BY <1>0, <2>2, <2>3, <2>4 DEF Saved, OnePlace
  <2>6. \A i, j \in Buffers : slot'[i] = slot'[j] /\ ~Given(i)' /\ ~Given(j)' =>
                                 i = j \/ slot'[i] = None
    <3>1. \A i \in Buffers : ~Given(i) /\ slot[i] # None => slot[i] # c[t]
      BY <2>5 DEF Saved
    <3> QED
      BY <1>0, <1>4, <2>2, <2>4, <3>1 DEF OnePlace
  <2>7. c'["event"] = c'["data"] => c'["event"] = None
    BY <1>0, <2>1, Typed
  <2>8. Listed' = Listed /\ Copied' = Copied
    BY <1>1 DEF Listed, Copied
  <2>9. OnePlace'
    BY <1>0, <1>1, <2>3, <2>5, <2>6, <2>7, <2>8 DEF OnePlace
  <2>10. Held' \subseteq Held /\ c[t] \in Held
    BY <1>1, <2>3, <2>8 DEF Held
  <2>11. \A u \in Threads : Past(u)' => u # t /\ Past(u)
    BY <1>1 DEF Past
  <2>12. \A u \in Threads : Past(u)' => slot'[idx'[u]] # None
    BY <1>0, <1>1, <1>4, <2>4, <2>11, Typed DEF IGive
  <2>13. ~(Past("event")' /\ Past("data")')
    BY <2>11 DEF Threads
  <2>14. ASSUME NEW u \in Threads, at'[u] = "put"
         PROVE  /\ old'[u] # None /\ old'[u] \in live' /\ old'[u] \notin Held'
                /\ \A i \in Buffers : ~Given(i)' /\ slot'[i] = old'[u] => i = idx'[u]
    <3>1. at[u] = "put"
      BY <1>1, <2>14
    <3>2. old[u] # c[t]
      BY <1>0, <2>10, <3>1 DEF IGive
    <3> QED
      BY <1>0, <1>1, <2>2, <2>4, <2>10, <3>1, <3>2 DEF IGive
  <2>15. IGive'
    BY <2>12, <2>13, <2>14 DEF IGive, Past
  <2> QED
    BY <2>9, <2>15 DEF Inv
<1> QED
  BY <1>3, <1>4

\* That two threads were past one test is never forgotten.
LEMMA OverlapStays == [Next]_vars /\ ~overlap' => ~overlap
  BY DEF Next, Event, Fill, vars, history, races, StreamOn, StreamOff, MoveOk, FreeNodes, Off,
         Join, ClearFirst, Alloc, Start, FillFirst, QueueFirst, On, Get, Test, GiveBack, Forget,
         FillSet, Dequeue, Queue, MediaGet, MediaPut, MediaEnds, Broken

LEMMA NextInv == Inv /\ TypeOK' /\ ~overlap' /\ [Next]_vars => Inv'
<1> SUFFICES ASSUME Inv, TypeOK', ~overlap', [Next]_vars PROVE Inv'
  OBVIOUS
<1>1. CASE UNCHANGED vars \/ Broken
  BY <1>1, SameInv DEF Broken, vars, fill, history, races, Alike
<1>2. CASE StreamOn \/ StreamOff \/ Dequeue \/ Queue \/ MediaEnds
  BY <1>2, OtherInv
<1>3. CASE Event
  BY <1>3, MoveOkInv, FreeNodesInv, AllocInv, StartInv, EventInv DEF Event
<1>4. CASE \E t \in Threads : Fill(t)
  BY <1>4, GetInv, TestInv, GiveBackInv, ForgetInv, FillSetInv DEF Fill
<1>5. CASE MediaGet \/ MediaPut
  BY <1>5, MediaGetInv, MediaPutInv
<1> QED
  BY <1>1, <1>2, <1>3, <1>4, <1>5 DEF Next

\* As long as no two threads were past the test of one slot.
AInv == TypeOK /\ (~overlap => Inv)

LEMMA ApartNext == AInv /\ [Next]_vars => AInv'
  BY TypeNext, NextInv, OverlapStays DEF AInv

\* Whatever the host does and however the three threads meet, but for two of them past
\* the test of one slot at a time, a node of the frame cache is in one place, and what a
\* place names has not been freed: no frame is written into memory that somebody else
\* uses or that malloc has taken back.
THEOREM NodesInOnePlace == Spec => []OnePlaceApart
<1>1. Init => AInv
  BY InitInv DEF AInv, Inv
<1>2. AInv => OnePlaceApart
  BY DEF AInv, Inv, OnePlaceApart
<1> QED
  BY <1>1, <1>2, ApartNext, PTL DEF Spec

-----------------------------------------------------------------------------
(* What the driver sends, and what a waiting thread waits for.             *)

\* What the event thread may have left of a start of a stream, and of an end.
ToOn     == <<"on">>
ToFill   == <<"fill", "on">>
ToStart  == <<"start", "fill", "on">>
ToAlloc  == <<"alloc", "start", "fill", "on">>
ToClear  == <<"clear", "alloc", "start", "fill", "on">>
ToJoin   == <<"join", "clear", "alloc", "start", "fill", "on">>
ToOff    == <<"off", "join", "clear", "alloc", "start", "fill", "on">>
ToFree   == <<"free", "off", "join", "clear", "alloc", "start", "fill", "on">>
ToMove   == <<"move", "free", "off", "join", "clear", "alloc", "start", "fill", "on">>
ToEnable == <<"clear", "move", "free", "off", "join", "clear", "alloc", "start",
              "fill", "on">>
EndClear == <<"clear">>
EndJoin  == <<"join", "clear">>
EndOff   == <<"off", "join", "clear">>
EndFree  == <<"free", "off", "join", "clear">>
EndMove  == <<"move", "free", "off", "join", "clear">>

\* Those after the end of the old stream, the new one being opened or not; and those
\* before it.
Opening == {ToOn, ToFill, ToStart, ToAlloc, ToClear, ToJoin}
Ended   == {EndClear, EndJoin}
Closing == {EndOff, EndFree, EndMove}
Again   == {ToOff, ToFree, ToMove, ToEnable}
Plans   == {<<>>} \cup Opening \cup Ended \cup Closing \cup Again

\* What a concatenation is, by its elements.
LEMMA Joined ==
    ASSUME NEW S, NEW p \in Seq(S), NEW q \in Seq(S), NEW r \in Seq(S),
           Len(r) = Len(p) + Len(q),
           \A k \in 1 .. Len(p) : r[k] = p[k],
           \A k \in 1 .. Len(q) : r[Len(p) + k] = q[k]
    PROVE  p \o q = r
<1>1. /\ p \o q \in Seq(S)
      /\ Len(p \o q) = Len(p) + Len(q)
      /\ \A k \in 1 .. Len(p) + Len(q) : (p \o q)[k] = IF k <= Len(p) THEN p[k] ELSE q[k - Len(p)]
  BY ConcatProperties
<1>2. Len(p) \in Nat /\ Len(q) \in Nat
  OBVIOUS
<1>3. \A k \in 1 .. Len(p) + Len(q) : (p \o q)[k] = r[k]
  <2> SUFFICES ASSUME NEW k \in 1 .. Len(p) + Len(q)
               PROVE  (p \o q)[k] = r[k]
    OBVIOUS
  <2>1. CASE k <= Len(p)
    BY <1>1, <1>2, <2>1
  <2>2. CASE k > Len(p)
    <3>1. k - Len(p) \in 1 .. Len(q) /\ Len(p) + (k - Len(p)) = k
      BY <1>2, <2>2
    <3> QED
      BY <1>1, <1>2, <2>2, <3>1
  <2> QED
    BY <1>2, <2>1, <2>2
<1> QED
  BY <1>1, <1>3, SeqEqual

\* Which plans the event thread makes.
LEMMA PlansAre == Enable = ToEnable /\ Disable = EndMove
<1> DEFINE Ops == {"move", "free", "off", "join", "clear", "alloc", "start", "fill", "on"}
           First == <<"clear">>
           Both == <<"clear", "move", "free", "off", "join", "clear">>
           Rest == <<"alloc", "start", "fill", "on">>
<1>1. Disable = EndMove
  BY DEF Disable, EndMove
<1>2. /\ First \in Seq(Ops) /\ Len(First) = 1 /\ First[1] = "clear"
      /\ EndMove \in Seq(Ops) /\ Len(EndMove) = 5
      /\ EndMove[1] = "move" /\ EndMove[2] = "free" /\ EndMove[3] = "off"
      /\ EndMove[4] = "join" /\ EndMove[5] = "clear"
  BY DEF EndMove
<1>3. /\ Both \in Seq(Ops) /\ Len(Both) = 6
      /\ Both[1] = "clear" /\ Both[2] = "move" /\ Both[3] = "free" /\ Both[4] = "off"
      /\ Both[5] = "join" /\ Both[6] = "clear"
  OBVIOUS
<1>4. /\ Rest \in Seq(Ops) /\ Len(Rest) = 4
      /\ Rest[1] = "alloc" /\ Rest[2] = "start" /\ Rest[3] = "fill" /\ Rest[4] = "on"
  OBVIOUS
<1>5. /\ ToEnable \in Seq(Ops) /\ Len(ToEnable) = 10
      /\ ToEnable[1] = "clear" /\ ToEnable[2] = "move" /\ ToEnable[3] = "free"
      /\ ToEnable[4] = "off" /\ ToEnable[5] = "join" /\ ToEnable[6] = "clear"
      /\ ToEnable[7] = "alloc" /\ ToEnable[8] = "start" /\ ToEnable[9] = "fill"
      /\ ToEnable[10] = "on"
  BY DEF ToEnable
<1>6. Enable = First \o EndMove \o Rest
  BY <1>1 DEF Enable
<1> HIDE DEF Ops, First, Both, Rest
<1>7. First \o EndMove = Both
  <2>1. \A k \in 1 .. 1 : Both[k] = First[k]
    BY <1>2, <1>3
  <2>2. \A k \in 1 .. 5 : Both[1 + k] = EndMove[k]
    <3>1. \A k \in 1 .. 5 : k \in {1, 2, 3, 4, 5}
      OBVIOUS
    <3> QED
      BY <1>2, <1>3, <3>1
  <2> QED
    <3>1. /\ Len(Both) = Len(First) + Len(EndMove)
          /\ \A k \in 1 .. Len(First) : Both[k] = First[k]
          /\ \A k \in 1 .. Len(EndMove) : Both[Len(First) + k] = EndMove[k]
      BY <1>2, <1>3, <2>1, <2>2
    <3> QED
      BY <1>2, <1>3, <3>1, Joined, Zenon
<1>8. Both \o Rest = ToEnable
  <2>1. \A k \in 1 .. 6 : ToEnable[k] = Both[k]
    <3>1. \A k \in 1 .. 6 : k \in {1, 2, 3, 4, 5, 6}
      OBVIOUS
    <3> QED
      BY <1>3, <1>5, <3>1
  <2>2. \A k \in 1 .. 4 : ToEnable[6 + k] = Rest[k]
    <3>1. \A k \in 1 .. 4 : k \in {1, 2, 3, 4}
      OBVIOUS
    <3> QED
      BY <1>4, <1>5, <3>1
  <2> QED
    <3>1. /\ Len(ToEnable) = Len(Both) + Len(Rest)
          /\ \A k \in 1 .. Len(Both) : ToEnable[k] = Both[k]
          /\ \A k \in 1 .. Len(Rest) : ToEnable[Len(Both) + k] = Rest[k]
      BY <1>3, <1>4, <1>5, <2>1, <2>2
    <3> QED
      BY <1>3, <1>4, <1>5, <3>1, Joined, Zenon
<1> QED
  BY <1>1, <1>6, <1>7, <1>8

\* No two plans are the same.
LEMMA PlansDiffer ==
    /\ Len(ToOn) = 1 /\ Head(ToOn) = "on"
    /\ Len(ToFill) = 2 /\ Head(ToFill) = "fill"
    /\ Len(ToStart) = 3 /\ Head(ToStart) = "start"
    /\ Len(ToAlloc) = 4 /\ Head(ToAlloc) = "alloc"
    /\ Len(ToClear) = 5 /\ Head(ToClear) = "clear"
    /\ Len(ToJoin) = 6 /\ Head(ToJoin) = "join"
    /\ Len(ToOff) = 7 /\ Len(ToFree) = 8 /\ Len(ToMove) = 9 /\ Len(ToEnable) = 10
    /\ Len(EndClear) = 1 /\ Head(EndClear) = "clear"
    /\ Len(EndJoin) = 2 /\ Head(EndJoin) = "join"
    /\ Len(EndOff) = 3 /\ Head(EndOff) = "off"
    /\ Len(EndFree) = 4 /\ Head(EndFree) = "free"
    /\ Len(EndMove) = 5 /\ Head(EndMove) = "move"
<1>1. /\ Len(ToOn) = 1 /\ Head(ToOn) = "on"
      /\ Len(ToFill) = 2 /\ Head(ToFill) = "fill"
      /\ Len(ToStart) = 3 /\ Head(ToStart) = "start"
      /\ Len(ToAlloc) = 4 /\ Head(ToAlloc) = "alloc"
  BY DEF ToOn, ToFill, ToStart, ToAlloc
<1>2. /\ Len(ToClear) = 5 /\ Head(ToClear) = "clear"
      /\ Len(ToJoin) = 6 /\ Head(ToJoin) = "join" /\ Len(ToOff) = 7
  BY DEF ToClear, ToJoin, ToOff
<1>3. Len(ToFree) = 8 /\ Len(ToMove) = 9 /\ Len(ToEnable) = 10
  BY DEF ToFree, ToMove, ToEnable
<1>4. /\ Len(EndClear) = 1 /\ Head(EndClear) = "clear"
      /\ Len(EndJoin) = 2 /\ Head(EndJoin) = "join"
      /\ Len(EndOff) = 3 /\ Head(EndOff) = "off"
      /\ Len(EndFree) = 4 /\ Head(EndFree) = "free"
      /\ Len(EndMove) = 5 /\ Head(EndMove) = "move"
  BY DEF EndClear, EndJoin, EndOff, EndFree, EndMove
<1> QED
  BY <1>1, <1>2, <1>3, <1>4

\* The parts of Plans have nothing in common.
LEMMA PlanSets ==
    /\ <<>> \notin Opening \cup Ended \cup Closing \cup Again
    /\ ToOn \notin {ToFill, ToStart, ToAlloc, ToClear, ToJoin} \cup Ended \cup Closing \cup Again
    /\ ToFill \notin {ToStart, ToAlloc, ToClear, ToJoin} \cup Ended \cup Closing \cup Again
    /\ ToStart \notin {ToAlloc, ToClear, ToJoin} \cup Ended \cup Closing \cup Again
    /\ ToAlloc \notin {ToClear, ToJoin} \cup Ended \cup Closing \cup Again
    /\ ToClear \notin {ToJoin} \cup Ended \cup Closing \cup Again
    /\ ToJoin \notin Ended \cup Closing \cup Again
    /\ Opening \cap (Ended \cup Closing \cup Again) = {}
    /\ Ended \cap (Closing \cup Again) = {} /\ Closing \cap Again = {}
    /\ {ToOn, ToFill, ToStart, ToAlloc, ToClear, ToJoin} \subseteq Opening
    /\ {EndClear, EndJoin} \subseteq Ended
    /\ {EndOff, EndFree, EndMove} \subseteq Closing
    /\ {ToOff, ToFree, ToMove, ToEnable} \subseteq Again
    /\ ToEnable \notin {ToMove, ToFree, ToOff} /\ EndClear # EndJoin
    /\ Plans = {<<>>} \cup Opening \cup Ended \cup Closing \cup Again
<1>1. <<>> \notin Opening \cup Ended \cup Closing \cup Again
  <2>1. /\ ToOn # <<>> /\ ToFill # <<>> /\ ToStart # <<>> /\ ToAlloc # <<>>
        /\ ToClear # <<>> /\ ToJoin # <<>> /\ ToOff # <<>> /\ ToFree # <<>>
        /\ ToMove # <<>> /\ ToEnable # <<>> /\ EndClear # <<>> /\ EndJoin # <<>>
        /\ EndOff # <<>> /\ EndFree # <<>> /\ EndMove # <<>>
    BY DEF ToOn, ToFill, ToStart, ToAlloc, ToClear, ToJoin, ToOff, ToFree,
           ToMove, ToEnable, EndClear, EndJoin, EndOff, EndFree, EndMove
  <2> QED
    BY <2>1 DEF Opening, Ended, Closing, Again
<1>2. \A p \in Opening : Head(p) \notin {"off", "free", "move"} /\ Len(p) \in 1 .. 6
  BY PlansDiffer DEF Opening
<1>3. \A p \in Closing : Head(p) \in {"off", "free", "move"} /\ Len(p) \in 3 .. 5
  BY PlansDiffer DEF Closing
<1>4. \A p \in Again : Len(p) \in 7 .. 10
  BY PlansDiffer DEF Again
<1>5. \A p \in Ended : Head(p) \in {"clear", "join"} /\ Len(p) \in 1 .. 2
  BY PlansDiffer DEF Ended
<1>6. \A p \in Opening : Head(p) \notin {"clear", "join"} \/ Len(p) \notin 1 .. 2
  BY PlansDiffer DEF Opening
<1>7. /\ Opening \cap Ended = {} /\ Opening \cap Closing = {} /\ Opening \cap Again = {}
      /\ Ended \cap Closing = {} /\ Ended \cap Again = {} /\ Closing \cap Again = {}
  <2>1. Opening \cap Ended = {} /\ Opening \cap Closing = {}
    BY <1>2, <1>3, <1>5, <1>6
  <2>2. (1 .. 6) \cap (7 .. 10) = {} /\ (1 .. 2) \cap (7 .. 10) = {} /\ (3 .. 5) \cap (7 .. 10) = {}
        /\ (1 .. 2) \cap (3 .. 5) = {}
    OBVIOUS
  <2> QED
    BY <1>2, <1>3, <1>4, <1>5, <2>1, <2>2
<1>8. /\ ToOn \notin {ToFill, ToStart, ToAlloc, ToClear, ToJoin}
      /\ ToFill \notin {ToStart, ToAlloc, ToClear, ToJoin}
      /\ ToStart \notin {ToAlloc, ToClear, ToJoin}
      /\ ToAlloc \notin {ToClear, ToJoin} /\ ToClear # ToJoin
  BY PlansDiffer
<1>9. {ToOn, ToFill, ToStart, ToAlloc, ToClear, ToJoin} \subseteq Opening
  BY DEF Opening
<1>10. ToEnable \notin {ToMove, ToFree, ToOff} /\ EndClear # EndJoin
  BY PlansDiffer
<1> QED
  BY <1>1, <1>7, <1>8, <1>9, <1>10 DEF Plans, Ended, Closing, Again

\* What is next in a plan, and what is left after it.
LEMMA PlanStep ==
    ASSUME todo \in Plans, todo # <<>>
    PROVE  /\ Head(todo) = "on" => todo = ToOn /\ Tail(todo) = <<>>
           /\ Head(todo) = "fill" => todo = ToFill /\ Tail(todo) = ToOn
           /\ Head(todo) = "start" => todo = ToStart /\ Tail(todo) = ToFill
           /\ Head(todo) = "alloc" => todo = ToAlloc /\ Tail(todo) = ToStart
           /\ Head(todo) = "clear" => \/ todo = ToClear /\ Tail(todo) = ToAlloc
                                      \/ todo = ToEnable /\ Tail(todo) = ToMove
                                      \/ todo = EndClear /\ Tail(todo) = <<>>
           /\ Head(todo) = "join" => \/ todo = ToJoin /\ Tail(todo) = ToClear
                                     \/ todo = EndJoin /\ Tail(todo) = EndClear
           /\ Head(todo) = "off" => \/ todo = ToOff /\ Tail(todo) = ToJoin
                                    \/ todo = EndOff /\ Tail(todo) = EndJoin
           /\ Head(todo) = "free" => \/ todo = ToFree /\ Tail(todo) = ToOff
                                     \/ todo = EndFree /\ Tail(todo) = EndOff
           /\ Head(todo) = "move" => \/ todo = ToMove /\ Tail(todo) = ToFree
                                     \/ todo = EndMove /\ Tail(todo) = EndFree
<1>1. CASE todo = ToOn
  BY <1>1 DEF ToOn
<1>2. CASE todo = ToFill
  BY <1>2 DEF ToFill, ToOn
<1>3. CASE todo = ToStart
  BY <1>3 DEF ToStart, ToFill
<1>4. CASE todo = ToAlloc
  BY <1>4 DEF ToAlloc, ToStart
<1>5. CASE todo = ToClear
  BY <1>5 DEF ToClear, ToAlloc
<1>6. CASE todo = ToJoin
  BY <1>6 DEF ToJoin, ToClear
<1>7. CASE todo = ToOff
  BY <1>7 DEF ToOff, ToJoin
<1>8. CASE todo = ToFree
  BY <1>8 DEF ToFree, ToOff
<1>9. CASE todo = ToMove
  BY <1>9 DEF ToMove, ToFree
<1>10. CASE todo = ToEnable
  BY <1>10 DEF ToEnable, ToMove
<1>11. CASE todo = EndClear
  BY <1>11 DEF EndClear
<1>12. CASE todo = EndJoin
  BY <1>12 DEF EndJoin, EndClear
<1>13. CASE todo = EndOff
  BY <1>13 DEF EndOff, EndJoin
<1>14. CASE todo = EndFree
  BY <1>14 DEF EndFree, EndOff
<1>15. CASE todo = EndMove
  BY <1>15 DEF EndMove, EndFree
<1> QED
  BY <1>1, <1>2, <1>3, <1>4, <1>5, <1>6, <1>7, <1>8,
     <1>9, <1>10, <1>11, <1>12, <1>13, <1>14, <1>15
  DEF Plans, Opening, Ended, Closing, Again

Clears  == {ToClear, ToEnable, EndClear}

\* The event thread is with a slot, to fill the buffer or to clear the slot; the data
\* thread has a buffer of the stream that is on; or it is not yet through with one.
Busy    == at["event"] # "out"
Filling == Busy /\ todo = ToFill
Sending == at["data"] # "out" /\ ~crossed
Pending == at["data"] \in {"get", "test", "put", "null", "set"}

\* What the other variables say of what the event thread has left to do.
IPlan ==
    /\ todo \in Plans
    /\ Busy => \/ todo = ToFill
               \/ todo \in Clears /\ at["event"] \in {"test", "put", "null"}
    /\ streaming => todo \in {<<>>} \cup Closing
    /\ run => todo \in {<<>>, ToOn, ToFill} \cup Closing \cup Again
    /\ todo \in {ToStart, ToAlloc, ToClear} => media = "away"
    /\ Sending => streaming

\* What the steps of the event thread make of its plan.
LEMMA EventStep ==
    ASSUME IPlan
    PROVE  /\ MoveOk => \/ todo = ToMove /\ todo' \in {ToMove, ToFree}
                        \/ todo = EndMove /\ todo' \in {EndMove, EndFree}
           /\ FreeNodes => \/ todo = ToFree /\ todo' = ToOff
                           \/ todo = EndFree /\ todo' = EndOff
           /\ Off => \/ todo = ToOff /\ todo' = ToJoin
                     \/ todo = EndOff /\ todo' = EndJoin
           /\ Join => \/ todo = ToJoin /\ todo' = ToClear
                      \/ todo = EndJoin /\ todo' = EndClear
           /\ ClearFirst => todo \in Clears /\ todo' = todo
           /\ Alloc => todo = ToAlloc /\ todo' = ToStart
           /\ Start => todo = ToStart /\ todo' = ToFill
           /\ FillFirst => todo = ToFill /\ todo' = ToFill
           /\ QueueFirst => todo = ToFill /\ todo' \in {<<>>, ToOn, ToFill}
           /\ On => todo = ToOn /\ todo' = <<>>
<1>1. todo \in Plans
  BY DEF IPlan
<1>2. MoveOk => \/ todo = ToMove /\ todo' \in {ToMove, ToFree}
                \/ todo = EndMove /\ todo' \in {EndMove, EndFree}
  BY <1>1, PlanStep DEF MoveOk, Doing
<1>3. /\ FreeNodes => \/ todo = ToFree /\ todo' = ToOff
                      \/ todo = EndFree /\ todo' = EndOff
      /\ Off => \/ todo = ToOff /\ todo' = ToJoin
                \/ todo = EndOff /\ todo' = EndJoin
  BY <1>1, PlanStep DEF FreeNodes, Off, Does, Doing
<1>4. /\ (Join => \/ todo = ToJoin /\ todo' = ToClear
                  \/ todo = EndJoin /\ todo' = EndClear)
      /\ (ClearFirst => todo \in Clears /\ todo' = todo)
  BY <1>1, PlanStep DEF Join, ClearFirst, Does, Doing, work, Clears
<1>5. /\ Alloc => todo = ToAlloc /\ todo' = ToStart
      /\ Start => todo = ToStart /\ todo' = ToFill
      /\ On => todo = ToOn /\ todo' = <<>>
  BY <1>1, PlanStep DEF Alloc, Start, On, Does, Doing
<1>6. FillFirst => todo = ToFill /\ todo' = ToFill
  BY <1>1, PlanStep DEF FillFirst, Doing, work
<1>7. QueueFirst => todo = ToFill /\ todo' \in {<<>>, ToOn, ToFill}
  <2> SUFFICES ASSUME QueueFirst PROVE todo = ToFill /\ todo' \in {<<>>, ToOn, ToFill}
    OBVIOUS
  <2>1. todo = ToFill /\ (todo' = <<>> \/ todo' = Tail(todo) \/ todo' = todo)
    BY DEF QueueFirst, At, IPlan, Busy
  <2>2. Head(ToFill) = "fill" /\ ToFill # <<>>
    BY PlansDiffer, PlanSets
  <2> QED
    BY <1>1, <2>1, <2>2, PlanStep
<1> QED
  BY <1>2, <1>3, <1>4, <1>5, <1>6, <1>7

\* Once a slot is dealt with, the event thread goes on with its fill; or it has cleared
\* one slot, perhaps the last.
LEMMA HandledPlan ==
    ASSUME TypeOK, IPlan, Busy, Handled("event")
    PROVE  \/ /\ todo = ToFill /\ UNCHANGED <<todo, idx>>
              /\ at' = [at EXCEPT !["event"] = "set"]
           \/ /\ todo \in Clears /\ UNCHANGED todo
              /\ idx["event"] + 1 \in Buffers
              /\ idx' = [idx EXCEPT !["event"] = @ + 1]
              /\ at' = [at EXCEPT !["event"] = "test"]
           \/ /\ todo \in Clears /\ UNCHANGED idx
              /\ \/ todo = ToClear /\ todo' = ToAlloc
                 \/ todo = ToEnable /\ todo' = ToMove
                 \/ todo = EndClear /\ todo' = <<>>
              /\ idx["event"] + 1 \notin Buffers
              /\ at' = [at EXCEPT !["event"] = "out"]
<1>1. todo \in Plans /\ todo # <<>> /\ (todo = ToFill \/ todo \in Clears)
  BY PlanSets DEF IPlan, Clears
<1>2. CASE Head(todo) = "clear"
  <2>1. todo \in Clears /\ \/ todo = ToClear /\ Tail(todo) = ToAlloc
                           \/ todo = ToEnable /\ Tail(todo) = ToMove
                           \/ todo = EndClear /\ Tail(todo) = <<>>
    BY <1>1, <1>2, PlanStep DEF Clears
  <2> QED
    BY <1>2, <2>1 DEF Handled
<1>3. CASE Head(todo) # "clear"
  <2>1. todo = ToFill
    <3>1. \A p \in Clears : Head(p) = "clear"
      BY PlansDiffer DEF Clears, ToEnable
    <3> QED
      BY <1>1, <1>3, <3>1
  <2> QED
    BY <1>3, <2>1 DEF Handled
<1> QED
  BY <1>2, <1>3

\* What the steps of a thread in a fill leave alone.
LEMMA DataFill ==
    ASSUME TypeOK, Fill("data")
    PROVE  /\ Pending /\ at'["data"] \in Places \ {"out"} /\ at'["event"] = at["event"]
           /\ UNCHANGED <<todo, idx, streaming, run, media, crossed, queued, enough>>
<1>1. at["data"] # "out" /\ Pending /\ UNCHANGED <<streaming, run, media, crossed, queued, enough>>
  BY DEF Fill, Get, Test, GiveBack, Forget, FillSet, At, Pending, history
<1>2. CASE Get("data") \/ GiveBack("data") \/ FillSet("data")
  <2>1. UNCHANGED <<todo, idx>>
    BY <1>2 DEF Get, GiveBack, FillSet, work
  <2>2. at'["data"] \in Places \ {"out"} /\ at'["event"] = at["event"]
    BY <1>2, Typed DEF Get, GiveBack, FillSet, Places
  <2> QED
    BY <1>1, <2>1, <2>2
<1>3. CASE Test("data") \/ Forget("data")
  <2>1. /\ at' = [at EXCEPT !["data"] = "set"] \/ at' = [at EXCEPT !["data"] = "put"]
        /\ UNCHANGED <<todo, idx>>
    BY <1>3 DEF Test, Forget, Handled
  <2> QED
    BY <1>1, <2>1, Typed DEF Places
<1> QED
  BY <1>2, <1>3 DEF Fill

LEMMA EventFill ==
    ASSUME TypeOK, IPlan, Fill("event")
    PROVE  /\ Busy /\ at'["data"] = at["data"] /\ idx'["data"] = idx["data"]
           /\ UNCHANGED <<streaming, run, media, crossed, queued, enough>>
           /\ \/ todo = ToFill /\ UNCHANGED <<todo, idx>> /\ at'["event"] # "out"
              \/ todo \in Clears /\ UNCHANGED todo /\ at'["event"] \in {"test", "put", "null"}
              \/ /\ at'["event"] = "out"
                 /\ \/ todo = ToClear /\ todo' = ToAlloc
                    \/ todo = ToEnable /\ todo' = ToMove
                    \/ todo = EndClear /\ todo' = <<>>
<1>1. Busy /\ UNCHANGED <<streaming, run, media, crossed, queued, enough>>
  BY DEF Fill, Get, Test, GiveBack, Forget, FillSet, At, Busy, history
<1>2. todo = ToFill \/ (todo \in Clears /\ at["event"] \in {"test", "put", "null"})
  BY <1>1 DEF IPlan
<1>3. CASE Get("event") \/ FillSet("event")
  <2>1. at["event"] \in {"get", "set"} /\ UNCHANGED <<todo, idx>>
    BY <1>3 DEF Get, FillSet, At, work
  <2>2. at'["event"] # "out" /\ at'["data"] = at["data"]
    BY <1>3, Typed DEF Get, FillSet
  <2> QED
    BY <1>1, <1>2, <2>1, <2>2
<1>4. CASE GiveBack("event")
  <2>1. at' = [at EXCEPT !["event"] = "null"] /\ UNCHANGED <<todo, idx>>
    BY <1>4 DEF GiveBack, work
  <2> QED
    BY <1>1, <1>2, <2>1, Typed
<1>5. CASE Test("event") \/ Forget("event")
  <2>1. CASE Handled("event")
    BY <1>1, <2>1, HandledPlan, Typed
  <2>2. CASE at' = [at EXCEPT !["event"] = "put"] /\ UNCHANGED <<todo, idx>>
    BY <1>1, <1>2, <2>2, Typed
  <2> QED
    BY <1>5, <2>1, <2>2 DEF Test, Forget
<1> QED
  BY <1>3, <1>4, <1>5 DEF Fill

LEMMA PlanInit == Init => IPlan
  BY PlanSets DEF Init, IPlan, Plans, Busy, Sending, Threads

LEMMA PlanNext == TypeOK /\ IPlan /\ [Next]_vars => IPlan'
<1> SUFFICES ASSUME TypeOK, IPlan, [Next]_vars PROVE IPlan'
  OBVIOUS
<1> USE DEF IPlan, Busy, Sending
<1>1. CASE UNCHANGED vars \/ Broken
  BY <1>1 DEF Broken, vars, work, fill, history
<1>2. CASE StreamOn
  <2>1. /\ todo = <<>> /\ todo' = ToEnable /\ ~streaming
        /\ UNCHANGED <<at, streaming, run, media, crossed>>
    BY <1>2, PlansAre DEF StreamOn, Idle, fill, history
  <2> QED
    BY <2>1, PlanSets DEF Clears
<1>3. CASE StreamOff
  <2>1. /\ todo = <<>> /\ todo' = EndMove
        /\ UNCHANGED <<at, streaming, run, media, crossed>>
    BY <1>3, PlansAre DEF StreamOff, Idle, fill, history
  <2> QED
    BY <2>1, PlanSets DEF Clears
<1>4. CASE MoveOk \/ FreeNodes
  <2>1. UNCHANGED <<at, streaming, run, media, crossed>>
    BY <1>4 DEF MoveOk, FreeNodes, fill, history
  <2>2. ~Busy /\ todo \in Closing \cup Again
    BY <1>4, EventStep, PlanSets DEF Clears
  <2>3. \/ todo \in Closing /\ todo' \in Closing
        \/ todo \in Again /\ todo' \in Again /\ ~streaming
    BY <1>4, EventStep, PlanSets
  <2> QED
    BY <2>1, <2>2, <2>3, PlanSets DEF Plans
<1>5. CASE Off
  <2>1. /\ streaming' = FALSE /\ run' = FALSE /\ crossed' = (at["data"] # "out")
        /\ UNCHANGED <<at, media>>
    BY <1>5 DEF Off, fill
  <2>2. ~Busy /\ todo' \in {ToJoin, EndJoin}
    BY <1>5, EventStep, PlanSets DEF Clears
  <2> QED
    BY <2>1, <2>2, PlanSets DEF Plans
<1>6. CASE Join
  <2>1. media = "away" /\ UNCHANGED <<at, streaming, run, media, crossed>>
    BY <1>6 DEF Join, fill, history
  <2> QED
    BY <1>6, <2>1, EventStep, PlanSets DEF Clears
<1>7. CASE ClearFirst
  <2>1. /\ UNCHANGED <<streaming, run, media, crossed>>
        /\ at'["event"] = "test" /\ at'["data"] = at["data"]
    BY <1>7, Typed DEF ClearFirst, history
  <2> QED
    BY <1>7, <2>1, EventStep
<1>8. CASE Alloc
  <2>1. UNCHANGED <<at, streaming, run, media, crossed>>
    BY <1>8 DEF Alloc, fill, history
  <2> QED
    BY <1>8, <2>1, EventStep, PlanSets DEF Clears
<1>9. CASE Start
  <2>1. UNCHANGED <<at, streaming, crossed>>
    BY <1>9 DEF Start, fill, history
  <2> QED
    BY <1>9, <2>1, EventStep, PlanSets DEF Clears
<1>10. CASE FillFirst
  <2>1. UNCHANGED <<streaming, run, media, crossed>> /\ at'["data"] = at["data"]
    BY <1>10, Typed DEF FillFirst, history
  <2> QED
    BY <1>10, <2>1, EventStep
<1>11. CASE QueueFirst
  <2>1. todo = ToFill /\ todo' \in {<<>>, ToOn, ToFill}
    BY <1>11, EventStep
  <2>2. at'["event"] # "out" => todo' = ToFill
    BY <1>11, <2>1, Typed DEF QueueFirst
  <2>3. at'["data"] = at["data"]
    BY <1>11, Typed DEF QueueFirst
  <2>4. ~streaming /\ UNCHANGED <<streaming, run, media, crossed>>
    BY <1>11, <2>1, PlanSets DEF QueueFirst, history
  <2> QED
    BY <2>1, <2>2, <2>3, <2>4, PlanSets
<1>12. CASE On
  <2>1. streaming' = TRUE /\ UNCHANGED <<at, run, media, crossed>>
    BY <1>12 DEF On, fill, history
  <2> QED
    BY <1>12, <2>1, EventStep, PlanSets DEF Clears
<1>13. CASE Fill("event")
  <2>1. Busy /\ todo \notin {<<>>} \cup Closing
    BY <1>13, EventFill, PlanSets DEF Clears
  <2>2. CASE todo = ToFill /\ todo' = todo
    BY <1>13, <2>1, <2>2, EventFill
  <2>3. CASE todo \in Clears /\ todo' = todo /\ at'["event"] \in {"test", "put", "null"}
    BY <1>13, <2>1, <2>3, EventFill
  <2>4. CASE at'["event"] = "out" /\ \/ todo = ToClear /\ todo' = ToAlloc
                                     \/ todo = ToEnable /\ todo' = ToMove
                                     \/ todo = EndClear /\ todo' = <<>>
    BY <1>13, <2>1, <2>4, EventFill, PlanSets
  <2> QED
    BY <1>13, <2>2, <2>3, <2>4, EventFill
<1>14. CASE Fill("data")
  BY <1>14, DataFill DEF Pending
<1>15. CASE Dequeue
  <2>1. /\ UNCHANGED <<todo, streaming, run, media>> /\ streaming
        /\ at'["event"] = at["event"]
    BY <1>15, Typed DEF Dequeue, work
  <2> QED
    BY <2>1
<1>16. CASE Queue
  <2>1. /\ UNCHANGED <<todo, streaming, run, media>>
        /\ at'["event"] = at["event"] /\ at'["data"] = "out"
    BY <1>16, Typed DEF Queue, work
  <2> QED
    BY <2>1
<1>17. CASE MediaGet \/ MediaPut \/ MediaEnds
  <2>1. UNCHANGED <<todo, at, streaming, run, crossed>> /\ (media = "away" => media' = "away")
    BY <1>17, UvcAssumption DEF MediaGet, MediaPut, MediaEnds, fill, work, history
  <2> QED
    BY <2>1
<1> QED
  BY <1>1, <1>2, <1>3, <1>4, <1>5, <1>6, <1>7, <1>8, <1>9, <1>10, <1>11, <1>12, <1>13,
     <1>14, <1>15, <1>16, <1>17 DEF Next, Event, Threads

\* A thread has a node in hand only from where it takes one to where it puts it.
IHand ==
    /\ \A t \in Threads : at[t] \in {"out", "get", "queue"} => c[t] = None
    /\ todo # ToFill => c["event"] = None

LEMMA HandNext == TypeOK /\ IPlan /\ IHand /\ [Next]_vars => IHand'
<1> SUFFICES ASSUME TypeOK, IPlan, IHand, [Next]_vars PROVE IHand'
  OBVIOUS
<1> USE DEF IHand
<1>1. CASE UNCHANGED <<at, c>> /\ (todo' # ToFill => todo # ToFill)
  BY <1>1
<1>2. CASE StreamOn \/ StreamOff \/ MoveOk \/ FreeNodes \/ Off \/ Join \/ Alloc \/ Start \/ On
  <2>1. UNCHANGED <<at, c>>
    BY <1>2 DEF StreamOn, StreamOff, MoveOk, FreeNodes, Off, Join, Alloc, Start, On, fill
  <2>2. todo # ToFill
    BY <1>2, EventStep, PlanSets DEF StreamOn, StreamOff, Idle
  <2> QED
    BY <1>1, <2>1, <2>2
<1>3. CASE ClearFirst
  <2>1. UNCHANGED c /\ todo' = todo /\ at'["event"] = "test" /\ at'["data"] = at["data"]
    BY <1>3, EventStep, Typed DEF ClearFirst
  <2> QED
    BY <2>1 DEF Threads
<1>4. CASE FillFirst \/ QueueFirst
  <2>1. UNCHANGED c /\ at["event"] \in {"out", "queue"} /\ at'["data"] = at["data"]
    BY <1>4, Typed DEF FillFirst, QueueFirst, At
  <2> QED
    BY <2>1 DEF Threads
<1>5. CASE \E t \in Threads : Get(t)
  <2>1. PICK t \in Threads : Get(t)
    BY <1>5
  <2>2. /\ at'[t] = "test" /\ \A u \in Threads \ {t} : at'[u] = at[u] /\ c'[u] = c[u]
        /\ at[t] = "get" /\ UNCHANGED todo
    BY <2>1, Typed DEF Get, At, work
  <2>3. t = "event" => todo = ToFill
    BY <2>2 DEF IPlan, Busy
  <2> QED
    BY <2>2, <2>3 DEF Threads
<1>6. CASE \E t \in Threads : FillSet(t)
  <2>1. PICK t \in Threads : FillSet(t)
    BY <1>6
  <2>2. /\ c'[t] = None /\ \A u \in Threads \ {t} : at'[u] = at[u] /\ c'[u] = c[u]
        /\ UNCHANGED todo
    BY <2>1, Typed DEF FillSet, At, work
  <2> QED
    BY <2>2 DEF Threads
<1>7. CASE Test("data") \/ GiveBack("data") \/ Forget("data")
  <2>1. UNCHANGED <<c, todo>> /\ at'["event"] = at["event"]
    BY <1>7, DataFill DEF Fill, Test, GiveBack, Forget
  <2>2. at'["data"] \in {"put", "null", "set"}
    BY <1>7, Typed DEF Test, GiveBack, Forget, Handled
  <2> QED
    BY <2>1, <2>2 DEF Threads
<1>8. CASE Test("event") \/ GiveBack("event") \/ Forget("event")
  <2>1. UNCHANGED c /\ at'["data"] = at["data"] /\ at["event"] \in {"test", "put", "null"}
    BY <1>8, EventFill DEF Fill, Test, GiveBack, Forget, At
  <2>2. (todo' # ToFill => todo # ToFill) /\ (at'["event"] = "out" => todo # ToFill)
    BY <1>8, EventFill, PlanSets DEF Fill, Clears
  <2>3. at'["event"] \notin {"get", "queue"}
    <3>1. Busy
      BY <2>1 DEF Busy
    <3>2. CASE Handled("event")
      BY <3>1, <3>2, HandledPlan, Typed
    <3>3. CASE at' = [at EXCEPT !["event"] = "put"] \/ at' = [at EXCEPT !["event"] = "null"]
      BY <3>3, Typed
    <3> QED
      BY <1>8, <3>2, <3>3 DEF Test, GiveBack, Forget
  <2> QED
    BY <2>1, <2>2, <2>3 DEF Threads
<1>9. CASE Dequeue \/ Queue
  <2>1. /\ UNCHANGED <<c, todo>> /\ at'["event"] = at["event"]
        /\ at["data"] \in {"out", "queue"}
    BY <1>9, Typed DEF Dequeue, Queue, At, work
  <2> QED
    BY <2>1 DEF Threads
<1>10. CASE MediaGet \/ MediaPut \/ MediaEnds \/ Broken \/ UNCHANGED vars
  BY <1>1, <1>10 DEF MediaGet, MediaPut, MediaEnds, Broken, vars, fill, work
<1> QED
  BY <1>2, <1>3, <1>4, <1>5, <1>6, <1>7, <1>8, <1>9, <1>10 DEF Next, Event, Fill, Threads

-----------------------------------------------------------------------------

\* As long as the data thread is not through with a buffer of the last stream, it has
\* put nothing into a slot: those that the event thread has cleared are empty,
\* and so are those that it has not yet filled.
ILoss == Pending =>
    /\ todo = ToClear /\ Busy => \A j \in Buffers : j < idx["event"] => slot[j] = None
    /\ todo \in {ToAlloc, ToStart} \/ (todo = ToFill /\ ~Busy) => \A j \in Buffers : slot[j] = None
    /\ Filling => \A j \in Buffers :
           j > idx["event"] \/ (j = idx["event"] /\ at["event"] # "queue") => slot[j] = None

\* The order of the buffers.
LEMMA BufferOrder ==
    /\ \A j \in Buffers : j \in Nat /\ ~(j < 1) /\ j >= 1 /\ (j > 1 \/ j = 1)
    /\ \A i, j \in Buffers : /\ j < i + 1 <=> j < i \/ j = i
                             /\ j > i + 1 \/ j = i + 1 => j > i
                             /\ i + 1 \notin Buffers => j < i \/ j = i
<1>1. Cardinality(Buffers) \in Nat
  BY UvcAssumption, FS_CardinalityType
<1> QED
  BY <1>1, UvcAssumption

\* The steps of the event thread change one slot, and that only to be empty or in FillSet.
LEMMA EventSlots ==
    ASSUME TypeOK, Fill("event")
    PROVE  /\ torn \subseteq torn'
           /\ \A i \in Buffers : i # idx["event"] => slot'[i] = slot[i]
           /\ ~FillSet("event") => slot' = slot \/ slot'[idx["event"]] = None
<1>1. CASE Get("event") \/ Test("event") \/ GiveBack("event")
  BY <1>1, Typed DEF Get, Test, GiveBack, Marked, history
<1>2. CASE Forget("event") \/ FillSet("event")
  BY <1>2, Typed DEF Forget, FillSet, Marked
<1> QED
  BY <1>1, <1>2 DEF Fill

LEMMA EventLoss == TypeOK /\ IPlan /\ ILoss /\ Fill("event") => ILoss'
<1> SUFFICES ASSUME TypeOK, IPlan, ILoss, Fill("event"), Pending' PROVE ILoss'
  BY DEF ILoss
<1> DEFINE i == idx["event"]
<1>0. Pending /\ Busy /\ i \in Buffers
  BY EventFill, Typed DEF Pending
<1>1. CASE todo = ToFill
  <2>1. todo' = ToFill /\ Busy' /\ Filling /\ UNCHANGED idx
    BY <1>0, <1>1, EventFill, PlanSets DEF Busy, Filling, Clears
  <2>2. \A j \in Buffers : j > i => slot'[j] = None
    <3>1. \A j \in Buffers : j > i => slot[j] = None /\ j # i
      BY <1>0, <2>1, BufferOrder DEF ILoss
    <3> QED
      BY <3>1, EventSlots
  <2>3. at'["event"] # "queue" => slot'[i] = None
    <3>1. at["event"] # "queue" => slot[i] = None
      BY <1>0, <2>1 DEF ILoss
    <3>2. at["event"] # "queue"
      BY DEF Fill, Get, Test, GiveBack, Forget, FillSet, At
    <3>3. FillSet("event") => UNCHANGED slot \/ at'["event"] = "queue"
      BY Typed DEF FillSet
    <3> QED
      BY <3>1, <3>2, <3>3, EventSlots
  <2> QED
    BY <2>1, <2>2, <2>3, PlanSets DEF ILoss
<1>2. CASE todo = ToClear
  <2>1. at["event"] \in {"test", "put", "null"} /\ todo # ToFill
    BY <1>0, <1>2, PlanSets DEF IPlan
  <2>2. \A j \in Buffers : j < i => slot'[j] = None
    <3>1. \A j \in Buffers : j < i => slot[j] = None /\ j # i
      BY <1>0, <1>2, BufferOrder DEF ILoss
    <3> QED
      BY <3>1, EventSlots
  <2>3. CASE Handled("event") /\ slot'[i] = None
    <3>1. \/ UNCHANGED todo /\ idx'["event"] = i + 1
          \/ todo' = ToAlloc /\ at'["event"] = "out" /\ i + 1 \notin Buffers
      BY <1>0, <1>2, <2>1, <2>3, HandledPlan, PlanSets, Typed DEF Clears
    <3>2. CASE UNCHANGED todo /\ idx'["event"] = i + 1
      <4>1. \A j \in Buffers : j < idx'["event"] => slot'[j] = None
        BY <1>0, <2>2, <2>3, <3>2, BufferOrder
      <4> QED
        BY <1>2, <3>2, <4>1, PlanSets DEF ILoss, Filling
    <3>3. CASE todo' = ToAlloc /\ at'["event"] = "out" /\ i + 1 \notin Buffers
      <4>1. \A j \in Buffers : slot'[j] = None
        BY <1>0, <2>2, <2>3, <3>3, BufferOrder
      <4> QED
        BY <4>1 DEF ILoss
    <3> QED
      BY <3>1, <3>2, <3>3
  <2>4. CASE UNCHANGED <<slot, idx, todo>> /\ at'["event"] \in {"put", "null"}
    BY <1>2, <2>2, <2>4, PlanSets DEF ILoss, Filling
  <2> QED
    <3>1. CASE Test("event")
      BY <2>3, <2>4, <3>1, Typed DEF Test
    <3>2. CASE GiveBack("event")
      BY <2>4, <3>2, Typed DEF GiveBack, work
    <3>3. CASE Forget("event")
      BY <1>0, <2>3, <3>3, Typed DEF Forget
    <3> QED
      BY <2>1, <3>1, <3>2, <3>3 DEF Fill, Get, FillSet, At
<1>3. CASE todo \notin {ToFill, ToClear}
  <2>1. todo' \notin {ToFill, ToClear, ToAlloc, ToStart}
    BY <1>3, EventFill, PlanSets DEF Clears
  <2> QED
    BY <2>1 DEF ILoss, Filling
<1> QED
  BY <1>1, <1>2, <1>3

LEMMA LossNext == TypeOK /\ IPlan /\ ILoss /\ [Next]_vars => ILoss'
<1> SUFFICES ASSUME TypeOK, IPlan, ILoss, [Next]_vars, Pending' PROVE ILoss'
  BY DEF ILoss
<1>1. CASE UNCHANGED <<at, idx, slot, todo>>
  BY <1>1 DEF ILoss, Pending, Busy, Filling
<1>2. CASE StreamOn \/ StreamOff \/ MoveOk \/ FreeNodes \/ Off \/ On
  <2>1. todo' \notin {ToFill, ToClear, ToAlloc, ToStart}
    BY <1>2, EventStep, PlansAre, PlanSets DEF StreamOn, StreamOff
  <2> QED
    BY <2>1 DEF ILoss, Filling
<1>3. CASE Join
  <2>1. ~Busy /\ todo' \notin {ToFill, ToAlloc, ToStart} /\ UNCHANGED at
    BY <1>3, EventStep, PlanSets DEF IPlan, Clears, Join, fill
  <2> QED
    BY <2>1 DEF ILoss, Filling, Busy
<1>4. CASE ClearFirst
  <2>1. todo' \notin {ToFill, ToAlloc, ToStart} /\ idx'["event"] = 1
    BY <1>4, EventStep, PlanSets, Typed DEF Clears, ClearFirst
  <2> QED
    BY <2>1, BufferOrder DEF ILoss, Filling
<1>5. CASE Alloc \/ Start
  <2>1. /\ todo \in {ToAlloc, ToStart} /\ ~Busy /\ UNCHANGED <<at, slot>>
        /\ todo' \notin {ToClear, ToAlloc}
    BY <1>5, EventStep, PlanSets DEF IPlan, Clears, Alloc, Start, fill
  <2>2. \A j \in Buffers : slot'[j] = None
    BY <2>1 DEF ILoss, Pending
  <2> QED
    BY <2>2 DEF ILoss
<1>6. CASE FillFirst
  <2>1. /\ todo = ToFill /\ ~Busy /\ UNCHANGED slot /\ at'["data"] = at["data"]
    BY <1>6, EventStep, Typed DEF FillFirst, At, Busy
  <2>2. \A j \in Buffers : slot'[j] = None
    BY <2>1 DEF ILoss, Pending
  <2> QED
    BY <2>2 DEF ILoss
<1>7. CASE QueueFirst
  <2> DEFINE i == idx["event"]
  <2>0. todo = ToFill /\ Filling /\ UNCHANGED slot /\ at'["data"] = at["data"] /\ i \in Buffers
    BY <1>7, EventStep, Typed DEF QueueFirst, At, Busy, Filling
  <2>1. \A j \in Buffers : j > i => slot'[j] = None
    BY <2>0 DEF ILoss, Pending
  <2>2. todo' \in {<<>>, ToOn} \/ (todo' = ToFill /\ at'["event"] = "get" /\ idx'["event"] = i + 1)
    <3>1. todo' \in {<<>>, ToOn, ToFill}
      BY <1>7, EventStep
    <3>2. \/ todo' = <<>> \/ todo' = Tail(todo)
          \/ UNCHANGED todo /\ at'["event"] = "get" /\ idx'["event"] = i + 1
      BY <1>7, Typed DEF QueueFirst
    <3>3. Tail(ToFill) = ToOn
      BY PlanStep, PlansDiffer, PlanSets, <2>0 DEF IPlan
    <3> QED
      BY <2>0, <3>1, <3>2, <3>3
  <2>3. CASE todo' \in {<<>>, ToOn}
    BY <2>3, PlanSets DEF ILoss, Filling
  <2>4. CASE todo' = ToFill /\ at'["event"] = "get" /\ idx'["event"] = i + 1
    <3>1. \A j \in Buffers : j > i + 1 \/ j = i + 1 => slot'[j] = None
      BY <2>0, <2>1, BufferOrder
    <3> QED
      BY <2>4, <3>1, PlanSets DEF ILoss, Filling, Busy
  <2> QED
    BY <2>2, <2>3, <2>4
<1>8. CASE Fill("event")
  BY <1>8, EventLoss
<1>9. CASE Fill("data")
  <2>1. /\ Pending /\ at'["event"] = at["event"] /\ UNCHANGED <<todo, idx>>
    BY <1>9, DataFill
  <2>2. \A j \in Buffers : slot[j] = None => slot'[j] = None
    <3>1. CASE Get("data") \/ Test("data") \/ GiveBack("data")
      BY <3>1 DEF Get, Test, GiveBack
    <3>2. CASE Forget("data")
      BY <3>2, Typed DEF Forget
    <3>3. CASE FillSet("data")
      <4>1. at'["data"] # "queue"
        BY DEF Pending
      <4> QED
        BY <3>3, <4>1, Typed DEF FillSet
    <3> QED
      BY <1>9, <3>1, <3>2, <3>3 DEF Fill
  <2> QED
    BY <2>1, <2>2 DEF ILoss, Busy, Filling
<1>10. CASE Dequeue
  <2>1. todo' \notin {ToFill, ToClear, ToAlloc, ToStart}
    BY <1>10, PlanSets DEF IPlan, Dequeue, work
  <2> QED
    BY <2>1 DEF ILoss, Filling
<1>11. CASE Queue
  BY <1>11, Typed DEF Queue, Pending
<1>12. CASE MediaGet \/ MediaPut \/ MediaEnds \/ Broken \/ UNCHANGED vars
  BY <1>1, <1>12 DEF MediaGet, MediaPut, MediaEnds, Broken, vars, fill, work
<1> QED
  BY <1>2, <1>3, <1>4, <1>5, <1>6, <1>7, <1>8, <1>9, <1>10, <1>11, <1>12
  DEF Next, Event, Threads

\* What a thread has found is still in the slot when it gives it back, but where the
\* event thread clears a slot that the data thread fills meanwhile.
IOld ==
    /\ at["data"] = "put" => old["data"] = slot[idx["data"]]
    /\ at["event"] = "put" /\ Filling => old["event"] = slot[idx["event"]]

LEMMA OldNext == Inv /\ IPlan /\ ILoss /\ IOld /\ [Next]_vars => IOld'
<1> SUFFICES ASSUME Inv, IPlan, ILoss, IOld, [Next]_vars PROVE IOld'
  OBVIOUS
<1>0. TypeOK /\ IGive
  BY DEF Inv
<1>1. CASE /\ UNCHANGED <<slot, old>>
           /\ \A t \in Threads : at'[t] = "put" => at[t] = "put" /\ idx'[t] = idx[t]
           /\ at'["event"] = "put" /\ Filling' => Filling
  BY <1>0, <1>1, Typed DEF IOld
<1>2. CASE StreamOn \/ StreamOff \/ MoveOk \/ FreeNodes \/ Off \/ Join \/ Alloc \/ Start \/ On
  <2>1. UNCHANGED <<slot, old, at, idx>>
    BY <1>2 DEF StreamOn, StreamOff, MoveOk, FreeNodes, Off, Join, Alloc, Start, On, fill
  <2>2. ~Busy
    BY <1>2, EventStep, PlanSets DEF IPlan, Clears, StreamOn, StreamOff, Idle
  <2> QED
    BY <1>1, <2>1, <2>2 DEF Busy
<1>3. CASE ClearFirst \/ FillFirst \/ QueueFirst
  <2>1. /\ UNCHANGED <<slot, old>> /\ at'["event"] # "put"
        /\ at'["data"] = at["data"] /\ idx'["data"] = idx["data"]
    BY <1>0, <1>3, Typed DEF ClearFirst, FillFirst, QueueFirst, At
  <2> QED
    BY <1>1, <2>1 DEF Threads
<1>4. CASE Dequeue \/ Queue
  <2>1. /\ UNCHANGED <<slot, old, todo>> /\ at'["data"] # "put"
        /\ at'["event"] = at["event"] /\ idx'["event"] = idx["event"]
    BY <1>0, <1>4, Typed DEF Dequeue, Queue, work
  <2> QED
    BY <1>1, <2>1 DEF Threads, Filling, Busy
<1>5. CASE MediaGet \/ MediaPut \/ MediaEnds \/ Broken \/ UNCHANGED vars
  <2>1. UNCHANGED <<slot, old, at, idx, todo>>
    BY <1>5 DEF MediaGet, MediaPut, MediaEnds, Broken, vars, fill, work
  <2> QED
    BY <1>1, <2>1 DEF Filling, Busy
<1>6. CASE Fill("data")
  <2>1. /\ Pending /\ at'["event"] = at["event"] /\ UNCHANGED <<todo, idx>>
    BY <1>0, <1>6, DataFill
  <2>2. at'["data"] = "put" => old'["data"] = slot'[idx'["data"]]
    <3>1. CASE Test("data")
      BY <1>0, <2>1, <3>1, Typed DEF Test, Handled
    <3>2. CASE ~Test("data")
      BY <1>0, <1>6, <3>2, Typed DEF Fill, Get, GiveBack, Forget, FillSet, Handled
    <3> QED
      BY <3>1, <3>2
  <2>3. ASSUME at'["event"] = "put", Filling'
        PROVE  old'["event"] = slot'[idx'["event"]]
    <3>1. /\ at["event"] = "put" /\ Filling /\ Past("event")
          /\ old["event"] = slot[idx["event"]]
      BY <2>1, <2>3 DEF Filling, Busy, IOld, Past
    <3>2. slot[idx["event"]] # None
      BY <1>0, <3>1 DEF IGive, Threads
    <3>3. FALSE
      BY <1>0, <2>1, <3>1, <3>2, Typed DEF ILoss
    <3> QED
      BY <3>3
  <2> QED
    BY <2>2, <2>3 DEF IOld
<1>7. CASE Fill("event")
  <2>1. Busy /\ at'["data"] = at["data"] /\ idx'["data"] = idx["data"]
    BY <1>0, <1>7, EventFill
  <2>2. old'["data"] = old["data"]
    BY <1>0, <1>7, Typed DEF Fill, Get, Test, GiveBack, Forget, FillSet
  <2>3. ASSUME at'["data"] = "put"
        PROVE  slot'[idx["data"]] = slot[idx["data"]]
    <3>1. Pending /\ Past("data") /\ slot[idx["data"]] # None
      BY <1>0, <2>1, <2>3 DEF Pending, Past, IGive, Threads
    <3>2. CASE idx["event"] # idx["data"]
      BY <1>0, <1>7, <3>2, EventSlots, Typed
    <3>3. CASE idx["event"] = idx["data"]
      <4>1. ~Forget("event")
        BY <1>0, <3>1, <3>3 DEF Forget, At, Past, IGive
      <4>2. ~FillSet("event")
        <5> SUFFICES ASSUME FillSet("event") PROVE FALSE
          OBVIOUS
        <5>1. at["event"] = "set" /\ Filling
          BY <2>1 DEF FillSet, At, IPlan, Filling
        <5> QED
          BY <1>0, <3>1, <3>3, <5>1, Typed DEF ILoss
      <4> QED
        BY <1>7, <4>1, <4>2 DEF Fill, Get, Test, GiveBack
    <3> QED
      BY <3>2, <3>3
  <2>4. ASSUME at'["event"] = "put"
        PROVE  old'["event"] = slot'[idx'["event"]]
    <3>1. Test("event")
      <4>1. ~Forget("event")
        BY <1>0, <2>1, <2>4, HandledPlan, Typed DEF Forget
      <4> QED
        BY <1>0, <1>7, <2>4, <4>1, Typed DEF Fill, Get, GiveBack, FillSet
    <3>2. slot[idx["event"]] # None
      BY <1>0, <2>1, <2>4, <3>1, HandledPlan, Typed DEF Test
    <3> QED
      BY <1>0, <3>1, <3>2, Typed DEF Test
  <2> QED
    BY <2>1, <2>2, <2>3, <2>4 DEF IOld
<1> QED
  BY <1>2, <1>3, <1>4, <1>5, <1>6, <1>7 DEF Next, Event, Threads

\* The data thread marks the buffer before it lets the slot forget what it has given
\* back for a stream that is over.
INull ==
    (streaming \/ todo \in {ToAlloc, ToStart, ToFill, ToOn}) /\ crossed /\ at["data"] = "null" =>
        idx["data"] \in torn

LEMMA NullNext ==
    Inv /\ Inv' /\ IPlan /\ ILoss' /\ INull /\ [Next]_vars => INull'
<1> SUFFICES ASSUME Inv, Inv', IPlan, ILoss', INull, [Next]_vars,
                    streaming' \/ todo' \in {ToAlloc, ToStart, ToFill, ToOn}, crossed',
                    at'["data"] = "null"
             PROVE  idx'["data"] \in torn'
  BY DEF INull
<1>0. TypeOK
  BY DEF Inv
<1>1. CASE /\ at["data"] = "null" /\ idx'["data"] = idx["data"] /\ torn \subseteq torn'
           /\ crossed /\ (streaming \/ todo \in {ToAlloc, ToStart, ToFill, ToOn})
  BY <1>1 DEF INull
<1>2. CASE StreamOn \/ StreamOff \/ MoveOk \/ FreeNodes \/ Join \/ Alloc \/ Start \/ On
  <2>1. UNCHANGED <<at, idx, torn, crossed>>
    BY <1>2 DEF StreamOn, StreamOff, MoveOk, FreeNodes, Join, Alloc, Start, On, fill, history
  <2>2. streaming \/ todo \in {ToAlloc, ToStart, ToFill, ToOn}
    <3>1. CASE On
      BY <3>1, EventStep
    <3>2. CASE StreamOn \/ StreamOff
      BY <3>2, PlansAre, PlanSets DEF StreamOn, StreamOff
    <3>3. CASE MoveOk \/ FreeNodes \/ Join \/ Alloc \/ Start
      <4>1. UNCHANGED streaming
        BY <3>3 DEF MoveOk, FreeNodes, Join, Alloc, Start
      <4> QED
        BY <3>3, <4>1, EventStep, PlanSets
    <3> QED
      BY <1>2, <3>1, <3>2, <3>3
  <2> QED
    BY <1>1, <2>1, <2>2
<1>3. CASE Off
  <2>1. ~streaming' /\ todo' \notin {ToAlloc, ToStart, ToFill, ToOn}
    BY <1>3, EventStep, PlanSets DEF Off
  <2> QED
    BY <2>1
<1>4. CASE ClearFirst \/ FillFirst \/ QueueFirst
  <2>1. at'["data"] = at["data"] /\ idx'["data"] = idx["data"]
    BY <1>0, <1>4, Typed DEF ClearFirst, FillFirst, QueueFirst
  <2>2. UNCHANGED <<torn, crossed, streaming>>
    BY <1>4 DEF ClearFirst, FillFirst, QueueFirst, history
  <2>3. todo \in {ToAlloc, ToStart, ToFill, ToOn} \/ todo' = todo
    BY <1>4, EventStep
  <2> QED
    BY <1>1, <2>1, <2>2, <2>3
<1>5. CASE Fill("event")
  <2>1. /\ at'["data"] = at["data"] /\ idx'["data"] = idx["data"]
        /\ UNCHANGED <<crossed, streaming>> /\ torn \subseteq torn'
    BY <1>0, <1>5, EventFill, EventSlots
  <2>2. CASE todo' = todo
    BY <1>1, <2>1, <2>2
  <2>3. CASE todo' = ToAlloc
    <3>1. slot'[idx'["data"]] # None
      BY DEF Inv, IGive, Past, Threads
    <3>2. slot'[idx'["data"]] = None
      <4>1. idx'["data"] \in Buffers
        BY <1>0, <2>1, Typed
      <4> QED
        BY <2>3, <4>1 DEF ILoss, Pending
    <3> QED
      BY <3>1, <3>2
  <2>4. CASE todo' \in {ToMove, <<>>}
    <3>1. todo' \notin {ToAlloc, ToStart, ToFill, ToOn}
      BY <2>4, PlanSets
    <3> QED
      BY <1>1, <2>1, <3>1
  <2> QED
    BY <1>0, <1>5, <2>2, <2>3, <2>4, EventFill
<1>6. CASE Fill("data")
  <2>1. UNCHANGED <<todo, idx, streaming, crossed>>
    BY <1>0, <1>6, DataFill
  <2>2. GiveBack("data")
    BY <1>0, <1>6, Typed DEF Fill, Get, Test, Forget, FillSet, Handled
  <2> QED
    BY <2>1, <2>2 DEF GiveBack, Marked
<1>7. CASE Dequeue \/ Queue
  BY <1>0, <1>7, Typed DEF Dequeue, Queue
<1>8. CASE MediaGet \/ MediaPut \/ MediaEnds \/ Broken \/ UNCHANGED vars
  <2>1. UNCHANGED <<at, idx, torn, crossed, streaming, todo>>
    BY <1>8 DEF MediaGet, MediaPut, MediaEnds, Broken, vars, fill, work, history
  <2> QED
    BY <1>1, <2>1
<1> QED
  BY <1>2, <1>3, <1>4, <1>5, <1>6, <1>7, <1>8 DEF Next, Event, Threads

-----------------------------------------------------------------------------

\* After the end of a stream, and until the first buffer is queued for the next one, the
\* driver has none but those that the event thread has filled; when that is through, and
\* while the data thread is with one of an earlier stream, it has them all.
Quiet == todo \in {ToFill, ToStart, ToAlloc, ToClear, ToJoin} \cup Ended

IQueued ==
    /\ Quiet => \A j \in Buffers : (Filling => j >= idx["event"]) => queued[j] = None
    /\ Filling => \A j \in Buffers : j < idx["event"] => queued[j] # None
    /\ todo = ToOn => \A j \in Buffers : queued[j] # None
    /\ streaming /\ crossed /\ at["data"] # "out" => \A j \in Buffers : queued[j] # None

\* A step that leaves the driver alone.
LEMMA SameQueued ==
    ASSUME IQueued, UNCHANGED <<streaming, crossed, queued>>,
           Quiet' => Quiet, todo' = ToOn => todo = ToOn, Filling' <=> Filling,
           Filling => idx'["event"] = idx["event"], at'["data"] # "out" => at["data"] # "out"
    PROVE  IQueued'
  BY DEF IQueued

LEMMA QueueFirstQueued == TypeOK /\ IPlan /\ IQueued /\ QueueFirst => IQueued'
<1> SUFFICES ASSUME TypeOK, IPlan, IQueued, QueueFirst PROVE IQueued'
  OBVIOUS
<1> DEFINE i == idx["event"]
<1>0. i \in Buffers
  BY Typed
<1>1. todo = ToFill /\ todo' \in {<<>>, ToOn, ToFill} /\ Filling /\ ~streaming
  BY EventStep, PlanSets DEF QueueFirst, IPlan, Filling, Busy, At
<1>2. ~streaming' /\ at["event"] = "queue"
  BY <1>1 DEF QueueFirst, At
<1>3. CASE Refused(i, ptr["event"])
  <2>1. at' = [at EXCEPT !["event"] = "out"] /\ todo' = <<>>
    BY <1>3 DEF QueueFirst
  <2>2. ~Filling'
    BY <2>1, Typed DEF Filling, Busy
  <2>3. ~Quiet' /\ todo' # ToOn
    BY <2>1, PlanSets DEF Quiet
  <2> QED
    BY <1>2, <2>2, <2>3 DEF IQueued
<1>4. CASE ~Refused(i, ptr["event"])
  <2>1. ptr["event"] # None /\ queued' = [queued EXCEPT ![i] = ptr["event"]]
    BY <1>4 DEF QueueFirst, Refused
  <2>2. \A j \in Buffers : j < i \/ j = i => queued'[j] # None
    <3>1. \A j \in Buffers : j < i => queued[j] # None
      BY <1>1 DEF IQueued
    <3> QED
      BY <1>0, <2>1, <3>1, Typed
  <2>3. \A j \in Buffers : j > i => queued'[j] = None
    <3>1. \A j \in Buffers : j > i => j >= i /\ j # i
      <4>1. i \in Nat /\ \A j \in Buffers : j \in Nat
        BY <1>0, BuffersTyped
      <4> QED
        BY <4>1
    <3>2. \A j \in Buffers : j >= i => queued[j] = None
      BY <1>1 DEF IQueued, Quiet
    <3> QED
      BY <1>0, <2>1, <3>1, <3>2, Typed
  <2>4. CASE i + 1 \in Buffers
    <3>1. /\ idx' = [idx EXCEPT !["event"] = i + 1] /\ at' = [at EXCEPT !["event"] = "get"]
          /\ UNCHANGED todo
      BY <1>4, <2>4 DEF QueueFirst
    <3>2. idx'["event"] = i + 1 /\ at'["event"] = "get" /\ todo' = ToFill
      BY <1>1, <3>1, Typed
    <3>3. \A j \in Buffers : (j >= i + 1 => j > i) /\ (j < i + 1 => j < i \/ j = i)
      <4>1. i \in Nat /\ \A j \in Buffers : j \in Nat
        BY <1>0, BuffersTyped
      <4> QED
        BY <4>1
    <3>4. Filling' /\ todo' # ToOn
      BY <3>2, PlanSets DEF Filling, Busy
    <3>5. \A j \in Buffers : j >= idx'["event"] => queued'[j] = None
      BY <2>3, <3>2, <3>3
    <3>6. \A j \in Buffers : j < idx'["event"] => queued'[j] # None
      BY <2>2, <3>2, <3>3
    <3> QED
      BY <1>2, <3>4, <3>5, <3>6 DEF IQueued
  <2>5. CASE i + 1 \notin Buffers
    <3>1. at' = [at EXCEPT !["event"] = "out"] /\ todo' = Tail(todo)
      BY <1>4, <2>5 DEF QueueFirst
    <3>2. ~Filling'
      BY <3>1, Typed DEF Filling, Busy
    <3>3. todo' = ToOn
      BY <1>1, <3>1, PlanStep, PlansDiffer, PlanSets DEF IPlan
    <3>4. \A j \in Buffers : j < i \/ j = i
      BY <1>0, <2>5, BufferOrder
    <3> QED
      BY <1>2, <2>2, <3>2, <3>3, <3>4, PlanSets DEF IQueued, Quiet
  <2> QED
    BY <2>4, <2>5
<1> QED
  BY <1>3, <1>4

LEMMA QueuedNext == TypeOK /\ IPlan /\ IQueued /\ [Next]_vars => IQueued'
<1> SUFFICES ASSUME TypeOK, IPlan, IQueued, [Next]_vars PROVE IQueued'
  OBVIOUS
<1>1. CASE StreamOn \/ StreamOff
  <2>1. /\ todo = <<>> /\ todo' \in {ToEnable, EndMove}
        /\ UNCHANGED <<at, idx, streaming, crossed, queued>>
    BY <1>1, PlansAre DEF StreamOn, StreamOff, Idle, fill, history
  <2>2. ~Filling /\ ~Filling' /\ ~Quiet' /\ todo' # ToOn
    BY <2>1, PlanSets DEF Quiet, Filling
  <2> QED
    BY <2>1, <2>2, SameQueued
<1>2. CASE MoveOk \/ FreeNodes \/ Join \/ Alloc \/ Start
  <2>1. UNCHANGED <<at, idx, streaming, crossed, queued>>
    BY <1>2 DEF MoveOk, FreeNodes, Join, Alloc, Start, fill, history
  <2>2. (Quiet' => Quiet) /\ todo' # ToOn /\ ~Busy
    BY <1>2, EventStep, PlanSets DEF Quiet, IPlan, Clears
  <2> QED
    BY <2>1, <2>2, SameQueued DEF Filling, Busy
<1>3. CASE Off
  <2>1. queued' = [j \in Buffers |-> None] /\ ~streaming' /\ UNCHANGED at
    BY <1>3 DEF Off, fill
  <2>2. ~Filling' /\ todo' # ToOn
    BY <1>3, EventStep, PlanSets DEF Filling
  <2> QED
    BY <2>1, <2>2 DEF IQueued
<1>4. CASE ClearFirst
  <2>1. /\ UNCHANGED <<streaming, crossed, queued>> /\ todo' = todo /\ todo \in Clears
        /\ at'["data"] = at["data"]
    BY <1>4, EventStep, Typed DEF ClearFirst, history
  <2> QED
    BY <2>1, SameQueued, PlanSets DEF Filling, Clears, Quiet
<1>5. CASE FillFirst
  <2>1. /\ at' = [at EXCEPT !["event"] = "get"] /\ idx' = [idx EXCEPT !["event"] = 1]
        /\ UNCHANGED <<streaming, crossed, queued>>
    BY <1>5 DEF FillFirst, history
  <2>2. ~Filling /\ idx'["event"] = 1 /\ at'["data"] = at["data"]
    BY <1>5, <2>1, Typed DEF Filling, Busy, FillFirst, At
  <2>3. todo = ToFill /\ todo' = ToFill
    BY <1>5, EventStep
  <2>4. \A j \in Buffers : queued[j] = None
    BY <2>2, <2>3 DEF IQueued, Quiet
  <2> QED
    BY <2>1, <2>2, <2>3, <2>4, PlanSets, BufferOrder DEF IQueued
<1>6. CASE QueueFirst
  BY <1>6, QueueFirstQueued
<1>7. CASE On
  <2>1. todo = ToOn /\ todo' = <<>> /\ UNCHANGED <<at, queued>>
    BY <1>7, EventStep DEF On, fill
  <2> QED
    BY <2>1, PlanSets DEF IQueued, Quiet, Filling, IPlan
<1>8. CASE Fill("event")
  <2>1. /\ Busy /\ at'["data"] = at["data"] /\ UNCHANGED <<streaming, crossed, queued>>
    BY <1>8, EventFill
  <2>2. CASE todo = ToFill /\ UNCHANGED <<todo, idx>> /\ at'["event"] # "out"
    BY <2>1, <2>2, SameQueued DEF Quiet, Filling, Busy
  <2>3. CASE todo \in Clears /\ UNCHANGED todo
    BY <2>1, <2>3, SameQueued, PlanSets DEF Quiet, Filling, Clears
  <2>4. CASE \/ todo = ToClear /\ todo' = ToAlloc
             \/ todo = ToEnable /\ todo' = ToMove
             \/ todo = EndClear /\ todo' = <<>>
    <3>1. (Quiet' => Quiet) /\ todo' # ToOn /\ ~Filling /\ ~Filling'
      BY <2>4, PlanSets DEF Quiet, Filling
    <3> QED
      BY <2>1, <3>1, SameQueued
  <2> QED
    BY <1>8, <2>2, <2>3, <2>4, EventFill
<1>9. CASE Fill("data")
  <2>1. /\ UNCHANGED <<todo, idx, streaming, crossed, queued>> /\ at'["event"] = at["event"]
        /\ at["data"] # "out"
    BY <1>9, DataFill DEF Pending
  <2> QED
    BY <2>1, SameQueued DEF Quiet, Filling, Busy
<1>10. CASE Dequeue
  <2>1. streaming /\ crossed' = FALSE /\ UNCHANGED todo
    BY <1>10 DEF Dequeue, work
  <2>2. ~Quiet /\ todo # ToFill /\ todo # ToOn
    BY <2>1, PlanSets DEF IPlan, Quiet
  <2> QED
    BY <2>1, <2>2 DEF IQueued, Quiet, Filling
<1>11. CASE Queue
  <2>1. /\ at' = [at EXCEPT !["data"] = "out"] /\ UNCHANGED <<todo, idx, streaming>>
        /\ streaming \/ queued' = queued
    BY <1>11 DEF Queue, work
  <2>2. at'["data"] = "out" /\ at'["event"] = at["event"]
    BY <2>1, Typed
  <2>3. streaming => ~Quiet /\ todo # ToFill /\ todo # ToOn
    BY PlanSets DEF IPlan, Quiet
  <2> QED
    BY <2>1, <2>2, <2>3 DEF IQueued, Quiet, Filling, Busy
<1>12. CASE MediaGet \/ MediaPut \/ MediaEnds \/ Broken \/ UNCHANGED vars
  <2>1. UNCHANGED <<at, idx, todo, streaming, crossed, queued>>
    BY <1>12 DEF MediaGet, MediaPut, MediaEnds, Broken, vars, work, fill, history
  <2> QED
    BY <2>1, SameQueued DEF Quiet, Filling, Busy
<1> QED
  BY <1>1, <1>2, <1>3, <1>4, <1>5, <1>6, <1>7, <1>8, <1>9, <1>10, <1>11, <1>12
  DEF Next, Event, Threads

\* What a thread is about to queue is what frame_node remembers, or the buffer is torn;
\* the one that the data thread has is not with the driver, and is empty when it is set.
IEvent ==
    /\ Filling /\ at["event"] # "queue" => ptr["event"] = None
    /\ at["event"] = "queue" /\ ptr["event"] # None =>
           slot[idx["event"]] = ptr["event"] \/ idx["event"] \in torn

IData ==
    Sending =>
        /\ queued[idx["data"]] = None
        /\ at["data"] = "set" => slot[idx["data"]] = None
        /\ at["data"] = "queue" /\ ptr["data"] # None =>
               slot[idx["data"]] = ptr["data"] \/ idx["data"] \in torn

\* From the end of a stream to the end of the next.
IWhole ==
    streaming \/ todo \in Opening =>
        \A i \in Buffers \ torn : queued[i] # None => queued[i] = slot[i]

\* The event thread is with a slot only while no stream is on.
LEMMA BusyAlone == IPlan /\ Busy => ~streaming /\ ~Sending
  BY PlanSets DEF IPlan, Clears

\* What the data thread does to a slot of a stream that is over marks the buffer.
LEMMA DataMarks ==
    ASSUME TypeOK, Fill("data")
    PROVE  /\ torn \subseteq torn' /\ torn' \subseteq torn \cup {idx["data"]}
           /\ \A i \in Buffers : i # idx["data"] => slot'[i] = slot[i]
           /\ crossed => slot' = slot \/ idx["data"] \in torn'
           /\ ptr'["event"] = ptr["event"]
<1>1. CASE Get("data") \/ Test("data")
  BY <1>1 DEF Get, Test, history
<1>2. CASE GiveBack("data")
  BY <1>2, Typed DEF GiveBack, Marked
<1>3. CASE Forget("data")
  BY <1>3, Typed DEF Forget, Marked
<1>4. CASE FillSet("data")
  BY <1>4, Typed DEF FillSet, Marked
<1> QED
  BY <1>1, <1>2, <1>3, <1>4 DEF Fill

LEMMA EventNext == TypeOK /\ IPlan /\ IEvent /\ [Next]_vars => IEvent'
<1> SUFFICES ASSUME TypeOK, IPlan, IEvent, [Next]_vars PROVE IEvent'
  OBVIOUS
<1>1. CASE StreamOn \/ StreamOff \/ MoveOk \/ FreeNodes \/ Off \/ Join \/ Alloc \/ Start \/ On
  <2>1. UNCHANGED at
    BY <1>1 DEF StreamOn, StreamOff, MoveOk, FreeNodes, Off, Join, Alloc, Start, On, fill
  <2>2. ~Busy
    BY <1>1, EventStep, PlanSets DEF IPlan, Clears, StreamOn, StreamOff, Idle
  <2> QED
    BY <2>1, <2>2 DEF IEvent, Filling, Busy
<1>2. CASE ClearFirst
  <2>1. at'["event"] = "test" /\ todo' # ToFill
    BY <1>2, EventStep, PlanSets, Typed DEF ClearFirst, Clears
  <2> QED
    BY <2>1 DEF IEvent, Filling
<1>3. CASE FillFirst
  <2>1. at'["event"] = "get" /\ ptr'["event"] = None
    BY <1>3, Typed DEF FillFirst
  <2> QED
    BY <2>1 DEF IEvent
<1>4. CASE QueueFirst
  <2>1. at'["event"] = "out" \/ (at'["event"] = "get" /\ ptr'["event"] = None)
    BY <1>4, Typed DEF QueueFirst
  <2> QED
    BY <2>1 DEF IEvent, Filling, Busy
<1>5. CASE Get("event") \/ Test("event") \/ GiveBack("event") \/ Forget("event")
  <2>1. ptr' = ptr /\ at["event"] # "queue"
    BY <1>5 DEF Get, Test, GiveBack, Forget, At
  <2>2. at'["event"] # "queue"
    <3>1. CASE Handled("event")
      BY <3>1, HandledStep DEF Threads
    <3>2. CASE ~Handled("event")
      BY <1>5, <3>2, Typed DEF Get, Test, GiveBack, Forget
    <3> QED
      BY <3>1, <3>2
  <2>3. Filling' => Filling
    BY <1>5, EventFill, PlanSets DEF Fill, Filling, Busy, Clears
  <2> QED
    BY <2>1, <2>2, <2>3 DEF IEvent
<1>6. CASE FillSet("event")
  <2>1. at["event"] = "set" /\ UNCHANGED <<idx, todo>> /\ Filling
    BY <1>6 DEF FillSet, At, IPlan, Filling, Busy, work
  <2>2. CASE c["event"] = None
    <3>1. UNCHANGED ptr /\ ptr["event"] = None
      BY <1>6, <2>1, <2>2 DEF FillSet, IEvent
    <3> QED
      BY <3>1 DEF IEvent
  <2>3. CASE c["event"] # None
    <3>1. /\ slot'[idx["event"]] = c["event"] /\ ptr'["event"] = c["event"]
          /\ at'["event"] = "queue"
      BY <1>6, <2>3, Typed DEF FillSet
    <3> QED
      BY <2>1, <3>1 DEF IEvent
  <2> QED
    BY <2>2, <2>3
<1>7. CASE Fill("data")
  <2>1. /\ UNCHANGED <<todo, idx>> /\ at'["event"] = at["event"] /\ ptr'["event"] = ptr["event"]
        /\ at["data"] # "out"
    BY <1>7, DataFill, DataMarks DEF Pending
  <2>2. CASE Busy
    <3>1. crossed
      BY <2>1, <2>2, BusyAlone DEF Sending
    <3>2. slot'[idx["event"]] = slot[idx["event"]] \/ idx["event"] \in torn'
      BY <1>7, <3>1, DataMarks, Typed
    <3> QED
      BY <1>7, <2>1, <3>2, DataMarks DEF IEvent, Filling, Busy
  <2>3. CASE ~Busy
    BY <2>1, <2>3 DEF IEvent, Filling, Busy
  <2> QED
    BY <2>2, <2>3
<1>8. CASE Dequeue
  <2>1. at'["event"] = at["event"] /\ ~Busy
    BY <1>8, BusyAlone, Typed DEF Dequeue
  <2> QED
    BY <2>1 DEF IEvent, Filling, Busy
<1>9. CASE Queue
  <2>1. /\ at'["event"] = at["event"] /\ ptr'["event"] = ptr["event"]
        /\ UNCHANGED <<idx, slot, torn, todo>>
    BY <1>9, Typed DEF Queue, work
  <2> QED
    BY <2>1 DEF IEvent, Filling, Busy
<1>10. CASE MediaGet \/ MediaPut \/ MediaEnds \/ Broken \/ UNCHANGED vars
  <2>1. UNCHANGED <<at, idx, ptr, slot, torn, todo>>
    BY <1>10 DEF MediaGet, MediaPut, MediaEnds, Broken, vars, fill, work, history
  <2> QED
    BY <2>1 DEF IEvent, Filling, Busy
<1> QED
  BY <1>1, <1>2, <1>3, <1>4, <1>5, <1>6, <1>7, <1>8, <1>9, <1>10
  DEF Next, Event, Fill, Threads

LEMMA DataNext == TypeOK /\ IPlan /\ IData /\ [Next]_vars => IData'
<1> SUFFICES ASSUME TypeOK, IPlan, IData, [Next]_vars PROVE IData'
  OBVIOUS
<1>1. CASE UNCHANGED <<at, idx, ptr, slot, queued, torn, crossed>>
  BY <1>1 DEF IData, Sending
<1>2. CASE Off
  <2>1. ~Sending'
    BY <1>2 DEF Off, fill, Sending
  <2> QED
    BY <2>1 DEF IData
<1>3. CASE ClearFirst
  <2>1. /\ UNCHANGED <<ptr, slot, queued, torn, crossed>>
        /\ at'["data"] = at["data"] /\ idx'["data"] = idx["data"]
    BY <1>3, Typed DEF ClearFirst, history
  <2> QED
    BY <2>1 DEF IData, Sending
<1>4. CASE FillFirst \/ QueueFirst
  <2>1. ~Sending
    BY <1>4, EventStep, PlanSets DEF IPlan
  <2>2. at'["data"] = at["data"] /\ UNCHANGED crossed
    BY <1>4, Typed DEF FillFirst, QueueFirst, history
  <2> QED
    BY <2>1, <2>2 DEF IData, Sending
<1>5. CASE Fill("event")
  <2>1. at'["data"] = at["data"] /\ UNCHANGED crossed /\ Busy
    BY <1>5, EventFill
  <2> QED
    BY <2>1, BusyAlone DEF IData, Sending
<1>6. CASE Fill("data")
  <2>1. UNCHANGED <<idx, queued, crossed>> /\ at["data"] # "out"
    BY <1>6, DataFill DEF Pending
  <2>2. CASE Get("data") \/ GiveBack("data")
    <3>1. at'["data"] \in {"test", "null"}
      BY <2>2, Typed DEF Get, GiveBack
    <3> QED
      BY <2>1, <3>1 DEF IData, Sending
  <2>3. CASE Test("data") \/ Forget("data")
    <3>1. \/ at'["data"] = "put"
          \/ at'["data"] = "set" /\ slot'[idx["data"]] = None
      BY <2>3, Typed DEF Test, Forget, Handled
    <3> QED
      BY <2>1, <3>1 DEF IData, Sending
  <2>4. CASE FillSet("data")
    <3>1. CASE c["data"] = None
      <4>1. \/ at'["data"] = "get"
            \/ at'["data"] = "queue" /\ idx["data"] \in torn'
        BY <2>4, <3>1, Typed DEF FillSet
      <4> QED
        BY <2>1, <4>1 DEF IData, Sending
    <3>2. CASE c["data"] # None
      <4>1. /\ slot'[idx["data"]] = c["data"] /\ ptr'["data"] = c["data"]
            /\ at'["data"] = "queue"
        BY <2>4, <3>2, Typed DEF FillSet
      <4> QED
        BY <2>1, <4>1 DEF IData, Sending
    <3> QED
      BY <3>1, <3>2
  <2> QED
    BY <1>6, <2>2, <2>3, <2>4 DEF Fill
<1>7. CASE Dequeue
  <2>1. at'["data"] = "get" /\ queued'[idx'["data"]] = None
    BY <1>7, Typed DEF Dequeue
  <2> QED
    BY <2>1 DEF IData
<1>8. CASE Queue
  <2>1. ~Sending'
    BY <1>8, Typed DEF Queue, Sending
  <2> QED
    BY <2>1 DEF IData
<1>9. CASE StreamOn \/ StreamOff \/ MoveOk \/ FreeNodes \/ Join \/ Alloc \/ Start \/ On
  BY <1>1, <1>9 DEF StreamOn, StreamOff, MoveOk, FreeNodes, Join, Alloc, Start, On, fill, history
<1>10. CASE MediaGet \/ MediaPut \/ MediaEnds \/ Broken \/ UNCHANGED vars
  BY <1>1, <1>10 DEF MediaGet, MediaPut, MediaEnds, Broken, vars, fill, history
<1> QED
  BY <1>2, <1>3, <1>4, <1>5, <1>6, <1>7, <1>8, <1>9, <1>10 DEF Next, Event, Threads

LEMMA WholeNext ==
    TypeOK /\ IPlan /\ IQueued /\ IEvent /\ IData /\ IWhole /\ [Next]_vars => IWhole'
<1> SUFFICES ASSUME TypeOK, IPlan, IQueued, IEvent, IData, IWhole, [Next]_vars PROVE IWhole'
  OBVIOUS
<1>1. CASE /\ UNCHANGED <<slot, queued, torn>>
           /\ streaming' \/ todo' \in Opening => streaming \/ todo \in Opening
  BY <1>1 DEF IWhole
<1>2. CASE StreamOn \/ StreamOff \/ MoveOk \/ FreeNodes \/ Join \/ Alloc \/ Start \/ On
  <2>1. UNCHANGED <<slot, queued, torn>>
    BY <1>2 DEF StreamOn, StreamOff, MoveOk, FreeNodes, Join, Alloc, Start, On, fill, history
  <2>2. streaming' \/ todo' \in Opening => streaming \/ todo \in Opening
    <3>1. CASE On
      BY <3>1, EventStep, PlanSets
    <3>2. CASE StreamOn \/ StreamOff
      BY <3>2, PlansAre, PlanSets DEF StreamOn, StreamOff
    <3>3. CASE MoveOk \/ FreeNodes \/ Join \/ Alloc \/ Start
      <4>1. UNCHANGED streaming
        BY <3>3 DEF MoveOk, FreeNodes, Join, Alloc, Start
      <4>2. todo' \in Opening => todo \in Opening
        BY <3>3, EventStep, PlanSets
      <4> QED
        BY <4>1, <4>2
    <3> QED
      BY <1>2, <3>1, <3>2, <3>3
  <2> QED
    BY <1>1, <2>1, <2>2
<1>3. CASE Off
  <2>1. \A i \in Buffers : queued'[i] = None
    BY <1>3 DEF Off
  <2> QED
    BY <2>1 DEF IWhole
<1>4. CASE ClearFirst \/ FillFirst
  <2>1. UNCHANGED <<slot, queued, torn, streaming>> /\ todo' = todo
    BY <1>4 DEF ClearFirst, FillFirst, work, history
  <2> QED
    BY <1>1, <2>1
<1>5. CASE QueueFirst
  <2> DEFINE i == idx["event"]
  <2>1. todo = ToFill /\ at["event"] = "queue"
    BY <1>5, EventStep DEF QueueFirst, At
  <2>2. UNCHANGED <<slot, torn, streaming>> /\ ~streaming
    BY <1>5, <2>1, BusyAlone DEF QueueFirst, history, Busy
  <2>3. CASE Refused(i, ptr["event"])
    <3>1. todo' = <<>>
      BY <1>5, <2>3 DEF QueueFirst
    <3> QED
      BY <2>2, <3>1, PlanSets DEF IWhole
  <2>4. CASE ~Refused(i, ptr["event"])
    <3>1. queued' = [queued EXCEPT ![i] = ptr["event"]] /\ ptr["event"] # None
      BY <1>5, <2>4 DEF QueueFirst, Refused
    <3>2. slot[i] = ptr["event"] \/ i \in torn
      BY <2>1, <3>1 DEF IEvent
    <3> QED
      BY <2>1, <2>2, <3>1, <3>2, Typed, PlanSets DEF IWhole
  <2> QED
    BY <2>3, <2>4
<1>6. CASE Fill("event")
  <2>1. /\ Busy /\ ~streaming /\ UNCHANGED <<queued, streaming>> /\ torn \subseteq torn'
        /\ \A i \in Buffers : i # idx["event"] => slot'[i] = slot[i]
    BY <1>6, EventFill, EventSlots, BusyAlone
  <2>2. CASE todo = ToFill
    <3>1. queued[idx["event"]] = None
      <4>1. idx["event"] \in Buffers /\ idx["event"] \in Nat
        BY Typed, BuffersTyped
      <4> QED
        BY <2>2, <4>1 DEF IQueued, Quiet
    <3>2. todo \in Opening
      BY <2>2, PlanSets
    <3> QED
      BY <2>1, <3>1, <3>2 DEF IWhole
  <2>3. CASE todo = ToClear
    <3>1. Quiet /\ ~Filling
      BY <2>3, PlanSets DEF Quiet, Filling
    <3>2. \A i \in Buffers : queued'[i] = None
      BY <2>1, <3>1 DEF IQueued
    <3> QED
      BY <3>2 DEF IWhole
  <2>4. CASE todo \notin {ToFill, ToClear}
    <3>1. todo' \notin Opening
      BY <1>6, <2>4, EventFill, PlanSets DEF Clears
    <3> QED
      BY <2>1, <3>1 DEF IWhole
  <2> QED
    BY <2>2, <2>3, <2>4
<1>7. CASE Fill("data")
  <2>1. UNCHANGED <<todo, streaming, queued, crossed>> /\ at["data"] # "out"
    BY <1>7, DataFill DEF Pending
  <2>2. CASE crossed
    BY <1>7, <2>1, <2>2, DataMarks DEF IWhole
  <2>3. CASE ~crossed
    <3>1. queued[idx["data"]] = None
      BY <2>1, <2>3 DEF IData, Sending
    <3> QED
      BY <1>7, <2>1, <3>1, DataMarks DEF IWhole
  <2> QED
    BY <2>2, <2>3
<1>8. CASE Dequeue
  <2>1. PICK i \in Buffers : queued' = [queued EXCEPT ![i] = None] /\ torn' = torn \ {i}
    BY <1>8 DEF Dequeue
  <2>2. UNCHANGED <<slot, streaming, todo>>
    BY <1>8 DEF Dequeue, work
  <2> QED
    BY <2>1, <2>2, Typed DEF IWhole
<1>9. CASE Queue
  <2> DEFINE i == idx["data"]
  <2>1. UNCHANGED <<slot, streaming, todo, torn>> /\ at["data"] = "queue"
    BY <1>9 DEF Queue, work, At
  <2>2. CASE streaming /\ ~Refused(i, ptr["data"])
    <3>1. queued' = [queued EXCEPT ![i] = ptr["data"]] /\ ptr["data"] # None /\ queued[i] = None
      BY <1>9, <2>2 DEF Queue, Refused
    <3>2. ~crossed
      BY <2>1, <2>2, <3>1, Typed DEF IQueued
    <3>3. slot[i] = ptr["data"] \/ i \in torn
      BY <2>1, <3>1, <3>2 DEF IData, Sending
    <3> QED
      BY <2>1, <3>1, <3>3, Typed DEF IWhole
  <2>3. CASE ~(streaming /\ ~Refused(i, ptr["data"]))
    <3>1. queued' = queued
      BY <1>9, <2>3 DEF Queue
    <3> QED
      BY <1>1, <2>1, <3>1
  <2> QED
    BY <2>2, <2>3
<1>10. CASE MediaGet \/ MediaPut \/ MediaEnds \/ Broken \/ UNCHANGED vars
  <2>1. UNCHANGED <<slot, queued, torn, streaming, todo>>
    BY <1>10 DEF MediaGet, MediaPut, MediaEnds, Broken, vars, work, history
  <2> QED
    BY <1>1, <2>1
<1> QED
  BY <1>2, <1>3, <1>4, <1>5, <1>6, <1>7, <1>8, <1>9, <1>10 DEF Next, Event, Threads

-----------------------------------------------------------------------------
(* No node is lost for which a thread waits.                               *)

\* The nodes that are somewhere, and when those of a stream are: from their allocation
\* until the stream is to end.
Placed == free \cup Listed \cup Saved \cup InHand \cup Copied
Active == todo \in {ToOn, ToFill, ToStart} \/ (todo = <<>> /\ run)

\* The event thread is about to write over a node, which is then lost; the data thread,
\* of a stream that is over, may be.
Over == at["event"] = "set" /\ slot[idx["event"]] # None
Late == crossed /\ Pending

\* At most one node of a stream gets lost, and none before the two threads met in a slot.
ICount == Active /\ enough =>
    /\ Cardinality(Placed) >= Cardinality(Buffers)
    /\ Over \/ Late => Cardinality(Placed) >= Cardinality(Buffers) + 1

Counted == IsFiniteSet(Placed) /\ Cardinality(Placed) \in Nat
Countable == Inv => Counted

\* Memory is finite, so that the nodes can be counted, before a step and after it.
LEMMA PlacedFinite == Countable
<1> SUFFICES ASSUME Inv PROVE IsFiniteSet(Placed) /\ Cardinality(Placed) \in Nat
  BY DEF Countable, Counted
<1>1. Placed \subseteq Node
  BY DEF Inv, OnePlace, TypeOK, Placed
<1>2. IsFiniteSet(Placed)
  BY <1>1, UvcAssumption, FS_Subset
<1> QED
  BY <1>2, FS_CardinalityType

LEMMA PlacedFiniteNext == Countable'
  BY PlacedFinite, PTL

\* Nothing is lost.
LEMMA KeptCount ==
    ASSUME NEW S, NEW T, IsFiniteSet(T), S \subseteq T
    PROVE  Cardinality(S) <= Cardinality(T)
  BY FS_Subset

\* One may be lost.
LEMMA LostCount ==
    ASSUME NEW S, NEW T, NEW x, IsFiniteSet(S), IsFiniteSet(T), S \ {x} \subseteq T
    PROVE  Cardinality(S) <= Cardinality(T) + 1
<1>1. IsFiniteSet(S \ {x}) /\ Cardinality(S \ {x}) <= Cardinality(T)
  BY FS_Subset
<1>2. Cardinality(S \ {x}) = IF x \in S THEN Cardinality(S) - 1 ELSE Cardinality(S)
  BY FS_RemoveElement
<1>3. Cardinality(S) \in Nat /\ Cardinality(T) \in Nat /\ Cardinality(S \ {x}) \in Nat
  BY <1>1, FS_CardinalityType
<1> QED
  BY <1>1, <1>2, <1>3

\* The head of ok_queue and what is behind it are all that it has.
LEMMA TakenAll ==
    ASSUME TypeOK, ok # <<>>
    PROVE  Listed \subseteq {Head(ok)} \cup {Tail(ok)[k] : k \in DOMAIN Tail(ok)}
<1>1. ok \in Seq(Node)
  BY DEF TypeOK
<1>2. Len(ok) \in Nat \ {0} /\ DOMAIN ok = 1 .. Len(ok) /\ Head(ok) = ok[1]
  BY <1>1, EmptySeq
<1>3. /\ Tail(ok) \in Seq(Node) /\ Len(Tail(ok)) = Len(ok) - 1
      /\ \A k \in 1 .. Len(Tail(ok)) : Tail(ok)[k] = ok[k + 1]
  BY <1>1, HeadTailProperties
<1>4. DOMAIN Tail(ok) = 1 .. Len(ok) - 1
  BY <1>3
<1>5. \A k \in DOMAIN ok : k = 1 \/ (k - 1 \in DOMAIN Tail(ok) /\ Tail(ok)[k - 1] = ok[k])
  BY <1>2, <1>3, <1>4
<1> QED
  BY <1>2, <1>5 DEF Listed

\* What the steps do that leave the lists, the slots and the hands alone, or move a
\* node from one of them to another. A thread starts or ends giving back in no step but
\* GiveBack and Forget.
Steady == \A u \in Threads : \/ at'[u] = at[u] /\ idx'[u] = idx[u]
                             \/ at[u] # "null" /\ at'[u] # "null"

LEMMA SteadyGiven == ASSUME Steady, NEW i \in Buffers PROVE Given(i)' <=> Given(i)
  BY DEF Steady, Given

LEMMA PlacedSame ==
    ASSUME Steady, UNCHANGED <<ok, free, slot, c>>, Copied' = Copied
    PROVE  Placed' = Placed
  BY SteadyGiven DEF Placed, Listed, Saved, InHand

LEMMA PlacedGet ==
    ASSUME NEW t \in Threads, Inv, IHand, Get(t)
    PROVE  Placed \subseteq Placed'
<1>1. at[t] = "get" /\ at' = [at EXCEPT ![t] = "test"] /\ UNCHANGED <<free, slot, idx, media>>
  BY DEF Get, At
<1>2. c[t] = None /\ TypeOK
  BY <1>1 DEF IHand, Inv
<1>3. Listed \subseteq Listed' \cup InHand' /\ InHand \subseteq InHand'
  <2>1. CASE ok = <<>>
    <3>1. c' = [c EXCEPT ![t] = None] /\ ok' = ok
      BY <2>1 DEF Get
    <3>2. c' = c
      BY <1>2, <3>1, Typed
    <3> QED
      BY <3>1, <3>2 DEF Listed, InHand
  <2>2. CASE ok # <<>>
    <3>1. c' = [c EXCEPT ![t] = Head(ok)] /\ ok' = Tail(ok)
      BY <2>2 DEF Get
    <3>2. Head(ok) \in Node /\ Head(ok) # None
      BY <1>2, <2>2, TailTyped, UvcAssumption
    <3>3. Head(ok) \in InHand' /\ InHand \subseteq InHand'
      BY <1>2, <3>1, <3>2, Typed DEF InHand
    <3>4. Listed \subseteq {Head(ok)} \cup {Tail(ok)[k] : k \in DOMAIN Tail(ok)}
      BY <1>2, <2>2, TakenAll
    <3> QED
      BY <3>1, <3>3, <3>4 DEF Listed
  <2> QED
    BY <2>1, <2>2
<1>4. Saved' = Saved
  <2>1. Steady
    BY <1>1, <1>2, Typed DEF Steady
  <2> QED
    BY <1>1, <2>1, SteadyGiven DEF Saved
<1>5. free' = free /\ Copied' = Copied
  BY <1>1 DEF Copied
<1> QED
  BY <1>3, <1>4, <1>5 DEF Placed

LEMMA PlacedTest ==
    ASSUME NEW t \in Threads, Inv, Test(t)
    PROVE  Placed' = Placed
<1>1. UNCHANGED <<ok, free, slot, c, media>> /\ at[t] = "test"
  BY DEF Test, cache, At
<1>2. TypeOK
  BY DEF Inv
<1>3. Steady
  <2>1. CASE Handled(t)
    BY <1>1, <1>2, <2>1, HandledStep DEF Steady
  <2>2. CASE at' = [at EXCEPT ![t] = "put"] /\ UNCHANGED idx
    BY <1>1, <1>2, <2>2, Typed DEF Steady
  <2> QED
    BY <2>1, <2>2 DEF Test
<1> QED
  BY <1>1, <1>3, PlacedSame DEF Copied

LEMMA PlacedGiveBack ==
    ASSUME NEW t \in Threads, Inv, GiveBack(t), old[t] = slot[idx[t]]
    PROVE  Placed \subseteq Placed'
<1> DEFINE s == idx[t]
<1>1. /\ at[t] = "put" /\ at' = [at EXCEPT ![t] = "null"] /\ UNCHANGED <<ok, slot, idx, c, media>>
      /\ free' = free \cup ({slot[s]} \ {None})
  BY DEF GiveBack, At, PutNode
<1>2. \A i \in Buffers : Given(i)' <=> Given(i) \/ i = s
  BY <1>1, Typed DEF Given, Inv
<1>3. Saved \subseteq Saved' \cup ({slot[s]} \ {None})
  BY <1>1, <1>2 DEF Saved
<1>4. Listed' = Listed /\ InHand' = InHand /\ Copied' = Copied
  BY <1>1 DEF Listed, InHand, Copied
<1> QED
  BY <1>1, <1>3, <1>4 DEF Placed

LEMMA PlacedForget ==
    ASSUME NEW t \in Threads, Inv, Forget(t)
    PROVE  Placed' = Placed
<1> DEFINE s == idx[t]
<1>0. TypeOK /\ s \in Buffers /\ at[t] = "null"
  BY Typed DEF Inv, Forget, At
<1>1. slot' = [slot EXCEPT ![s] = None] /\ Handled(t) /\ UNCHANGED <<ok, free, c, media>>
  BY DEF Forget, cache
<1>2. at'[t] # "null" /\ \A u \in Threads \ {t} : at'[u] = at[u] /\ idx'[u] = idx[u]
  BY <1>0, <1>1, HandledStep
<1>3. Given(s) /\ \A i \in Buffers : i # s => (Given(i)' <=> Given(i))
  BY <1>0, <1>2 DEF Given
<1>4. slot'[s] = None /\ \A i \in Buffers : i # s => slot'[i] = slot[i]
  BY <1>0, <1>1, Typed
<1>5. Saved' = Saved
  BY <1>3, <1>4 DEF Saved
<1> QED
  BY <1>1, <1>5 DEF Placed, Listed, InHand, Copied

LEMMA PlacedFillSet ==
    ASSUME NEW t \in Threads, Inv, FillSet(t), c[t] # None, ~Given(idx[t])
    PROVE  Placed \ ({slot[idx[t]]} \ {None}) \subseteq Placed'
<1> DEFINE i == idx[t]
<1>0. TypeOK
  BY DEF Inv
<1>1. /\ slot' = [slot EXCEPT ![i] = c[t]] /\ c' = [c EXCEPT ![t] = None]
      /\ UNCHANGED <<ok, free, media, idx>>
      /\ at[t] = "set" /\ at' = [at EXCEPT ![t] = "queue"]
  BY DEF FillSet, cache, At
<1>2. Steady
  BY <1>0, <1>1, Typed DEF Steady
<1>3. c[t] \in Saved'
  <2>1. i \in Buffers
    BY <1>0, Typed
  <2>2. \A j \in Buffers : Given(j)' <=> Given(j)
    BY <1>2, SteadyGiven
  <2>3. slot'[i] = c[t]
    BY <1>0, <1>1, Typed
  <2>4. \E j \in Buffers : ~Given(j)' /\ slot'[j] = c[t]
    BY <2>1, <2>2, <2>3
  <2> QED
    BY <2>4 DEF Saved
<1>4. InHand \subseteq InHand' \cup {c[t]}
  BY <1>0, <1>1, Typed DEF InHand
<1>5. Saved \subseteq Saved' \cup ({slot[i]} \ {None})
  BY <1>0, <1>1, <1>2, SteadyGiven, Typed DEF Saved
<1>6. Listed' = Listed /\ free' = free /\ Copied' = Copied
  BY <1>1 DEF Listed, Copied
<1> QED
  BY <1>3, <1>4, <1>5, <1>6 DEF Placed

LEMMA PlacedMedia ==
    ASSUME Inv, MediaGet \/ MediaPut \/ MediaEnds
    PROVE  Placed \subseteq Placed'
<1>0. UNCHANGED <<slot, c, at, idx>> /\ Saved' = Saved
  BY DEF MediaGet, MediaPut, MediaEnds, fill, Saved, Given
<1>1. CASE MediaGet
  <2>1. PICK n \in free : media' = n /\ free' = free \ {n}
    BY <1>1 DEF MediaGet
  <2>2. n \in Copied' /\ Copied = {}
    BY <1>1, <2>1, UvcAssumption DEF MediaGet, Copied, Inv, TypeOK
  <2>3. UNCHANGED ok
    BY <1>1 DEF MediaGet
  <2> QED
    BY <1>0, <2>1, <2>2, <2>3 DEF Placed, Listed, InHand
<1>2. CASE MediaPut
  <2>1. media \in Node /\ ok' = Append(ok, media) /\ UNCHANGED free
    BY <1>2 DEF MediaPut
  <2>2. media \notin Listed
    BY <2>1 DEF Inv, OnePlace, Copied
  <2>3. Listed' = Listed \cup {media}
    BY <2>1, <2>2, Put DEF Inv, Listed
  <2>4. Copied = {media}
    BY <2>1 DEF Copied
  <2> QED
    BY <1>0, <2>1, <2>3, <2>4 DEF Placed, InHand
<1>3. CASE MediaEnds
  <2>1. UNCHANGED <<ok, free>> /\ media = "idle" /\ media' = "away"
    BY <1>3 DEF MediaEnds, cache
  <2>2. Copied' = Copied
    BY <2>1, UvcAssumption DEF Copied
  <2> QED
    BY <1>0, <2>1, <2>2 DEF Placed, Listed, InHand
<1> QED
  BY <1>1, <1>2, <1>3

\* A step that loses nothing and makes nothing worse.
LEMMA KeptNodes ==
    ASSUME ICount, Inv, Inv', Active' => Active /\ Placed \subseteq Placed', UNCHANGED enough,
           Over' => Over, Late' => Late
    PROVE  ICount'
<1> SUFFICES ASSUME Active', enough'
             PROVE  /\ Cardinality(Placed') >= Cardinality(Buffers)
                    /\ Over' \/ Late' => Cardinality(Placed') >= Cardinality(Buffers) + 1
  BY DEF ICount
<1>1. IsFiniteSet(Placed) /\ Cardinality(Placed) \in Nat
  BY PlacedFinite DEF Countable, Counted
<1>2. IsFiniteSet(Placed') /\ Cardinality(Placed') \in Nat
  BY PlacedFiniteNext DEF Countable, Counted
<1>3. Cardinality(Placed) <= Cardinality(Placed')
  BY <1>2, KeptCount
<1>4. Cardinality(Buffers) \in Nat
  BY UvcAssumption, FS_CardinalityType
<1>5. /\ Cardinality(Placed) >= Cardinality(Buffers)
      /\ Over \/ Late => Cardinality(Placed) >= Cardinality(Buffers) + 1
  BY DEF ICount
<1> QED
  BY <1>1, <1>2, <1>3, <1>4, <1>5

\* The event thread is to write over a node only when the data thread is through.
LEMMA OverLate == IPlan /\ ILoss /\ TypeOK /\ Over => Filling /\ ~Pending
<1> SUFFICES ASSUME IPlan, ILoss, TypeOK, Over PROVE Filling /\ ~Pending
  OBVIOUS
<1>1. Filling /\ at["event"] = "set"
  BY DEF IPlan, Over, Filling, Busy
<1> QED
  BY <1>1, Typed DEF ILoss, Over

\* Nobody puts a node into a slot of which the other has given the node back.
LEMMA NotGiven ==
    ASSUME NEW t \in Threads, Inv, IPlan, ILoss, Active, at[t] = "set"
    PROVE  ~Given(idx[t])
<1> SUFFICES ASSUME NEW u \in Threads, at[u] = "null", idx[u] = idx[t] PROVE FALSE
  BY DEF Given
<1>1. slot[idx[u]] # None /\ idx[u] \in Buffers
  BY Typed DEF Inv, IGive, Past
<1>2. at["event"] \in {"set", "null"} /\ at["data"] \in {"set", "null"} /\ idx["event"] = idx[u]
  BY DEF Threads
<1>3. Busy /\ Pending
  BY <1>2 DEF Busy, Pending
<1>4. Filling
  BY <1>3, PlanSets DEF IPlan, Active, Filling, Clears
<1> QED
  BY <1>1, <1>2, <1>3, <1>4 DEF ILoss

LEMMA FillSetCount ==
    ASSUME NEW t \in Threads, Inv, Inv', IPlan, ILoss, IData, ICount, FillSet(t), c[t] # None
    PROVE  ICount'
<1> DEFINE i == idx[t]
           B == Cardinality(Buffers)
           P == Cardinality(Placed)
           Q == Cardinality(Placed')
<1>0. TypeOK /\ i \in Buffers
  BY Typed DEF Inv
<1>1. /\ at[t] = "set" /\ at' = [at EXCEPT ![t] = "queue"] /\ slot' = [slot EXCEPT ![i] = c[t]]
      /\ UNCHANGED <<todo, run, idx, crossed, enough>>
  BY DEF FillSet, work, At
<1>2. IsFiniteSet(Placed) /\ P \in Nat /\ IsFiniteSet(Placed') /\ Q \in Nat /\ B \in Nat
  <2>1. IsFiniteSet(Placed) /\ P \in Nat
    BY PlacedFinite DEF Countable, Counted
  <2>2. IsFiniteSet(Placed') /\ Q \in Nat
    BY PlacedFiniteNext DEF Countable, Counted
  <2> QED
    BY <2>1, <2>2, UvcAssumption, FS_CardinalityType
<1> SUFFICES ASSUME Active', enough'
             PROVE  Q >= B /\ (Over' \/ Late' => Q >= B + 1)
  BY DEF ICount
<1>3. Active /\ enough
  BY <1>1 DEF Active
<1>4. ~Given(i)
  BY <1>1, <1>3, NotGiven
<1>5. P <= Q + 1
  <2>1. Placed \ {slot[i]} \subseteq Placed'
    BY <1>4, PlacedFillSet
  <2> QED
    BY <1>2, <2>1, LostCount
<1>6. slot[i] = None => P <= Q
  <2>1. slot[i] = None => Placed \subseteq Placed'
    BY <1>4, PlacedFillSet
  <2> QED
    BY <1>2, <2>1, KeptCount
<1>7. P >= B /\ (Over \/ Late => P >= B + 1)
  BY <1>3 DEF ICount
<1> HIDE DEF P, Q, B
<1>8. CASE t = "event"
  <2>1. at'["event"] = "queue" /\ at'["data"] = at["data"]
    BY <1>0, <1>1, <1>8, Typed
  <2>2. ~Over' /\ (Late' => Late)
    BY <1>1, <2>1 DEF Over, Late, Pending
  <2>3. CASE slot[i] = None
    BY <1>2, <1>6, <1>7, <2>2, <2>3
  <2>4. CASE slot[i] # None
    <3>1. Over /\ ~Late
      BY <1>0, <1>1, <1>8, <2>4, OverLate DEF Over, Late
    <3> QED
      BY <1>2, <1>5, <1>7, <2>2, <3>1
  <2> QED
    BY <2>3, <2>4
<1>9. CASE t = "data"
  <2>1. at'["data"] = "queue" /\ at'["event"] = at["event"]
    BY <1>0, <1>1, <1>9, Typed
  <2>2. ~Late' /\ Pending
    BY <1>1, <1>9, <2>1 DEF Late, Pending
  <2>3. crossed => Late
    BY <2>2 DEF Late
  <2>4. ~crossed => slot[i] = None
    BY <1>1, <1>9 DEF IData, Sending
  <2>5. Over' => slot[i] = None /\ crossed
    <3> SUFFICES ASSUME Over' PROVE slot[i] = None /\ crossed
      OBVIOUS
    <3>1. at["event"] = "set" /\ slot'[idx["event"]] # None
      BY <1>1, <2>1 DEF Over
    <3>2. slot[idx["event"]] = None
      BY <1>0, <2>2, <3>1, OverLate DEF Over
    <3>3. idx["event"] = i
      BY <1>0, <1>1, <3>1, <3>2, Typed
    <3>4. Busy
      BY <3>1 DEF Busy
    <3> QED
      BY <1>1, <1>9, <3>2, <3>3, <3>4, BusyAlone DEF Sending
  <2>6. Q >= B
    <3>1. CASE crossed
      BY <1>2, <1>5, <1>7, <2>3, <3>1
    <3>2. CASE ~crossed
      BY <1>2, <1>6, <1>7, <2>4, <3>2
    <3> QED
      BY <3>1, <3>2
  <2>7. Over' => Q >= B + 1
    BY <1>2, <1>6, <1>7, <2>3, <2>5
  <2> QED
    BY <2>2, <2>6, <2>7
<1> QED
  BY <1>8, <1>9 DEF Threads


\* The steps after which no nodes are owed to a stream.
LEMMA NoneOwed == ~Active' => ICount'
  BY DEF ICount

LEMMA AllocCount ==
    ASSUME Inv, Inv', Alloc, enough'
    PROVE  Cardinality(Placed') >= Cardinality(Buffers) + 1
<1>1. PICK k \in 0 .. Cache : \E new \in kSubset(k, Node \ live) :
        free' = free \cup new /\ enough' = (k > Cardinality(Buffers))
  BY DEF Alloc
<1>2. PICK new \in kSubset(k, Node \ live) :
        free' = free \cup new /\ enough' = (k > Cardinality(Buffers))
  BY <1>1
<1>3. Cardinality(new) = k /\ new \subseteq Placed'
  BY <1>2 DEF kSubset, Placed
<1>4. IsFiniteSet(Placed') /\ Cardinality(Placed') \in Nat
  BY PlacedFiniteNext DEF Countable, Counted
<1>5. k <= Cardinality(Placed')
  BY <1>3, <1>4, KeptCount
<1>6. Cardinality(Buffers) \in Nat /\ k \in Nat
  BY UvcAssumption, FS_CardinalityType
<1>7. k > Cardinality(Buffers)
  BY <1>2
<1> HIDE DEF Placed
<1> QED
  BY <1>4, <1>5, <1>6, <1>7

\* What the data thread does to a slot but for the fill.
LEMMA DataCount ==
    ASSUME Inv, Inv', IHand, IOld, ICount, Fill("data"), ~FillSet("data")
    PROVE  ICount'
<1>0. TypeOK /\ "data" \in Threads /\ "event" \in Threads
  BY Typed DEF Inv
<1>1. /\ Pending /\ at'["event"] = at["event"] /\ UNCHANGED <<todo, idx, run, crossed, enough>>
  BY <1>0, DataFill
<1>2. Late' => Late
  BY <1>1 DEF Late
<1>3. slot' = slot \/ slot' = [slot EXCEPT ![idx["data"]] = None]
  BY DEF Fill, Get, Test, GiveBack, Forget, cache
<1>4. Over' => Over
  <2>1. idx["event"] \in Buffers
    BY <1>0, Typed
  <2>2. slot'[idx["event"]] # None => slot[idx["event"]] # None
    BY <1>0, <1>3, <2>1, Typed
  <2> QED
    BY <1>1, <2>2 DEF Over
<1>5. Placed \subseteq Placed'
  <2>1. CASE Get("data")
    BY <1>0, <2>1, PlacedGet
  <2>2. CASE Test("data")
    BY <1>0, <2>2, PlacedTest
  <2>3. CASE GiveBack("data")
    <3>1. at["data"] = "put"
      BY <2>3 DEF GiveBack, At
    <3> QED
      BY <1>0, <2>3, <3>1, PlacedGiveBack DEF IOld
  <2>4. CASE Forget("data")
    BY <1>0, <2>4, PlacedForget
  <2> QED
    BY <2>1, <2>2, <2>3, <2>4 DEF Fill
<1>6. Active' => Active
  BY <1>1 DEF Active
<1> QED
  BY <1>1, <1>2, <1>4, <1>5, <1>6, KeptNodes

\* And the event thread.
LEMMA EventCount ==
    ASSUME Inv, Inv', IPlan, IHand, IOld, ICount, Fill("event"), ~FillSet("event")
    PROVE  ICount'
<1>0. TypeOK /\ "data" \in Threads /\ "event" \in Threads
  BY Typed DEF Inv
<1>1. Busy /\ at'["data"] = at["data"] /\ UNCHANGED <<run, crossed, enough>>
  BY <1>0, EventFill
<1>2. CASE todo = ToFill
  <2>1. UNCHANGED <<todo, idx>> /\ at'["event"] # "out"
    BY <1>0, <1>2, EventFill, PlanSets DEF Clears
  <2>2. Filling
    BY <1>1, <1>2 DEF Filling
  <2>3. Late' => Late
    BY <1>1 DEF Late, Pending
  <2>4. ~Over'
    <3>1. idx["event"] \in Buffers
      BY <1>0, Typed
    <3>2. CASE Get("event")
      <4>1. at'["event"] = "test"
        BY <1>0, <3>2, Typed DEF Get
      <4> QED
        BY <4>1 DEF Over
    <3>3. CASE Test("event")
      <4>1. CASE slot[idx["event"]] = None
        BY <2>1, <3>3, <4>1 DEF Over, Test
      <4>2. CASE slot[idx["event"]] # None
        <5>1. at'["event"] = "put"
          BY <1>0, <3>3, <4>2, Typed DEF Test
        <5> QED
          BY <5>1 DEF Over
      <4> QED
        BY <4>1, <4>2
    <3>4. CASE GiveBack("event")
      <4>1. at'["event"] = "null"
        BY <1>0, <3>4, Typed DEF GiveBack
      <4> QED
        BY <4>1 DEF Over
    <3>5. CASE Forget("event")
      <4>1. slot'[idx["event"]] = None
        BY <1>0, <3>1, <3>5, Typed DEF Forget
      <4> QED
        BY <2>1, <4>1 DEF Over
    <3> QED
      BY <3>2, <3>3, <3>4, <3>5 DEF Fill
  <2>5. Placed \subseteq Placed'
    <3>1. CASE Get("event")
      BY <1>0, <3>1, PlacedGet
    <3>2. CASE Test("event")
      BY <1>0, <3>2, PlacedTest
    <3>3. CASE GiveBack("event")
      <4>1. at["event"] = "put"
        BY <3>3 DEF GiveBack, At
      <4> QED
        BY <1>0, <2>2, <3>3, <4>1, PlacedGiveBack DEF IOld
    <3>4. CASE Forget("event")
      BY <1>0, <3>4, PlacedForget
    <3> QED
      BY <3>1, <3>2, <3>3, <3>4 DEF Fill
  <2>6. Active' => Active
    BY <1>2 DEF Active
  <2> QED
    BY <1>1, <2>3, <2>4, <2>5, <2>6, KeptNodes
<1>3. CASE todo # ToFill
  <2>1. /\ todo \in Clears
        /\ \/ UNCHANGED todo
           \/ todo = ToClear /\ todo' = ToAlloc
           \/ todo = ToEnable /\ todo' = ToMove
           \/ todo = EndClear /\ todo' = <<>>
    BY <1>0, <1>3, EventFill DEF Clears
  <2>2. todo = EndClear => ~run
    BY PlanSets DEF IPlan
  <2>3. ~Active'
    BY <1>1, <2>1, <2>2, PlanSets DEF Active, Clears
  <2> QED
    BY <2>3, NoneOwed
<1> QED
  BY <1>2, <1>3

LEMMA WaitCount ==
    ASSUME NEW t \in Threads, Inv, Inv', ICount, FillSet(t), c[t] = None
    PROVE  ICount'
<1>0. TypeOK
  BY DEF Inv
<1>1. /\ at[t] = "set" /\ at'[t] \in {"get", "queue"}
      /\ \A u \in Threads : u # t => at'[u] = at[u]
      /\ UNCHANGED <<todo, run, idx, crossed, ok, free, slot, c, media, enough>>
  BY <1>0, Typed DEF FillSet, work, cache, At
<1>2. Steady
  BY <1>1 DEF Steady
<1>3. Placed' = Placed
  BY <1>1, <1>2, PlacedSame DEF Copied
<1>4. Over' => Over
  <2>1. CASE t = "event"
    BY <1>1, <2>1 DEF Over
  <2>2. CASE t = "data"
    <3>1. at'["event"] = at["event"]
      BY <1>1, <2>2 DEF Threads
    <3> QED
      BY <1>1, <3>1 DEF Over
  <2> QED
    BY <2>1, <2>2 DEF Threads
<1>5. Late' => Late
  BY <1>0, <1>1, Typed DEF Late, Pending
<1> QED
  BY <1>1, <1>3, <1>4, <1>5, KeptNodes DEF Active

LEMMA CountNext ==
    ASSUME Inv, Inv', IPlan, IHand, IData, ILoss, IOld, ICount, [Next]_vars
    PROVE  ICount'
<1>0. TypeOK /\ "data" \in Threads /\ "event" \in Threads
  BY Typed DEF Inv
<1>1. CASE UNCHANGED vars
  <2>1. UNCHANGED <<ok, free, slot, c, media, at, idx, todo, run, crossed, enough>>
    BY <1>1 DEF vars, cache, fill, work, history
  <2>2. Placed' = Placed
    BY <2>1, PlacedSame DEF Steady, Copied
  <2> QED
    BY <2>1, <2>2, KeptNodes DEF Active, Over, Late, Pending
<1>2. CASE StreamOn \/ StreamOff \/ MoveOk \/ FreeNodes \/ Off \/ Join \/ ClearFirst
  <2>1. CASE StreamOn \/ StreamOff
    BY <2>1, PlansAre, PlanSets, NoneOwed DEF StreamOn, StreamOff, Active
  <2>2. CASE MoveOk \/ FreeNodes \/ Off \/ Join
    BY <2>2, EventStep, PlanSets, NoneOwed DEF Active
  <2>3. CASE ClearFirst
    BY <2>3, EventStep, PlanSets, NoneOwed DEF Active, Clears
  <2> QED
    BY <1>2, <2>1, <2>2, <2>3
<1>3. CASE Alloc
  <2>1. Cardinality(Buffers) \in Nat
    BY UvcAssumption, FS_CardinalityType
  <2>2. Cardinality(Placed') \in Nat
    BY PlacedFiniteNext DEF Countable, Counted
  <2> QED
    BY <1>3, <2>1, <2>2, AllocCount DEF ICount
<1>4. CASE Start \/ FillFirst \/ QueueFirst \/ On
  <2>1. UNCHANGED <<ok, free, slot, c, crossed, enough>>
    BY <1>4 DEF Start, FillFirst, QueueFirst, On, cache, fill, history
  <2>2. Copied' = Copied
    <3>1. CASE Start
      BY <3>1, EventStep, UvcAssumption DEF Start, IPlan, Copied
    <3>2. CASE FillFirst \/ QueueFirst \/ On
      BY <3>2 DEF FillFirst, QueueFirst, On, Copied
    <3> QED
      BY <1>4, <3>1, <3>2
  <2>3. Active
    BY <1>4, EventStep DEF Active
  <2>4. at'["data"] = at["data"] /\ idx'["data"] = idx["data"] /\ (Over' => Over) /\ Steady
    <3>1. CASE Start \/ On
      BY <3>1 DEF Start, On, fill, Over, Steady
    <3>2. CASE FillFirst
      BY <1>0, <3>2, Typed DEF FillFirst, Over, Steady, At
    <3>3. CASE QueueFirst
      BY <1>0, <3>3, Typed DEF QueueFirst, Over, Steady, At
    <3> QED
      BY <1>4, <3>1, <3>2, <3>3
  <2>5. Placed' = Placed
    BY <2>1, <2>2, <2>4, PlacedSame
  <2> QED
    BY <2>1, <2>3, <2>4, <2>5, KeptNodes DEF Late, Pending
<1>5. CASE \E t \in Threads : Fill(t)
  <2>1. PICK t \in Threads : Fill(t)
    BY <1>5
  <2>2. CASE FillSet(t)
    <3>1. CASE c[t] # None
      BY <2>2, <3>1, FillSetCount
    <3>2. CASE c[t] = None
      BY <2>2, <3>2, WaitCount
    <3> QED
      BY <3>1, <3>2
  <2>3. CASE ~FillSet(t)
    <3>1. CASE t = "data"
      BY <2>1, <2>3, <3>1, DataCount
    <3>2. CASE t = "event"
      BY <2>1, <2>3, <3>2, EventCount
    <3> QED
      BY <3>1, <3>2 DEF Threads
  <2> QED
    BY <2>2, <2>3
<1>6. CASE Dequeue
  <2>1. ~Busy /\ at["data"] = "out" /\ at'["data"] = "get" /\ at'["event"] = at["event"]
    BY <1>0, <1>6, BusyAlone, Typed DEF Dequeue, At
  <2>2. UNCHANGED <<ok, free, slot, c, media, todo, run, enough>> /\ crossed' = FALSE
    BY <1>6 DEF Dequeue, cache, work
  <2>3. ~Over' /\ ~Late'
    BY <2>1, <2>2 DEF Over, Late, Busy
  <2>4. Steady
    BY <1>0, <1>6, <2>1, Typed DEF Steady, Busy
  <2>5. Placed' = Placed
    BY <2>2, <2>4, PlacedSame DEF Copied
  <2> QED
    BY <2>2, <2>3, <2>5, KeptNodes DEF Active
<1>7. CASE Queue
  <2>1. at["data"] = "queue" /\ at'["data"] = "out" /\ at'["event"] = at["event"]
    BY <1>0, <1>7, Typed DEF Queue, At
  <2>2. UNCHANGED <<ok, free, slot, c, media, todo, run, idx, enough>> /\ crossed' = FALSE
    BY <1>7 DEF Queue, cache, work
  <2>3. (Over' => Over) /\ ~Late'
    BY <2>1, <2>2 DEF Over, Late
  <2>4. Steady
    BY <1>0, <2>1, <2>2, Typed DEF Steady
  <2>5. Placed' = Placed
    BY <2>2, <2>4, PlacedSame DEF Copied
  <2> QED
    BY <2>2, <2>3, <2>5, KeptNodes DEF Active
<1>8. CASE MediaGet \/ MediaPut \/ MediaEnds
  <2>1. UNCHANGED <<todo, run, at, idx, slot, crossed, enough>>
    BY <1>8 DEF MediaGet, MediaPut, MediaEnds, cache, work, fill, history
  <2>2. Placed \subseteq Placed'
    BY <1>8, PlacedMedia
  <2> QED
    BY <2>1, <2>2, KeptNodes DEF Active, Over, Late, Pending
<1> QED
  BY <1>1, <1>2, <1>3, <1>4, <1>5, <1>6, <1>7, <1>8 DEF Next, Event, Broken

-----------------------------------------------------------------------------

\* What the proofs carry from step to step: nothing once two threads were past the test
\* of one slot.
IApart ==
    /\ IPlan /\ IHand /\ ILoss /\ IOld /\ INull
    /\ IQueued /\ IEvent /\ IData /\ IWhole
    /\ ICount

IInv == AInv /\ (~overlap => IApart)

LEMMA InitIInv == Init => IInv
<1> SUFFICES ASSUME Init PROVE IInv
  OBVIOUS
<1>1. IPlan /\ IHand /\ ILoss /\ IOld /\ INull
  BY PlanInit DEF Init, IHand, ILoss, IOld, INull, Pending, Threads
<1>2. IQueued /\ IWhole
  BY PlanSets DEF Init, IQueued, IWhole, Quiet, Filling, Busy, Threads
<1>3. IEvent /\ IData
  BY DEF Init, IEvent, IData, Sending, Filling, Busy, Threads
<1>4. ICount
  BY PlanSets DEF Init, ICount, Active
<1>5. AInv
  BY InitInv, TypeInit DEF AInv
<1> QED
  BY <1>1, <1>2, <1>3, <1>4, <1>5 DEF IInv, IApart

LEMMA NextIInv == IInv /\ [Next]_vars => IInv'
<1> SUFFICES ASSUME IInv, [Next]_vars PROVE IInv'
  OBVIOUS
<1>1. AInv'
  BY ApartNext DEF IInv
<1>2. ASSUME ~overlap'
      PROVE  IApart'
  <2>1. Inv /\ IApart /\ TypeOK
    BY <1>2, OverlapStays DEF IInv, AInv
  <2>2. Inv'
    BY <1>1, <1>2 DEF AInv
  <2>3. IPlan' /\ IHand' /\ ILoss' /\ IOld'
    BY <2>1, PlanNext, HandNext, LossNext, OldNext DEF IApart
  <2>4. INull'
    BY <2>1, <2>2, <2>3, NullNext DEF IApart
  <2>5. IQueued' /\ IEvent' /\ IData' /\ IWhole'
    BY <2>1, QueuedNext, EventNext, DataNext, WholeNext DEF IApart
  <2>6. ICount'
    BY <2>1, <2>2, CountNext DEF IApart
  <2> QED
    BY <2>3, <2>4, <2>5, <2>6 DEF IApart
<1> QED
  BY <1>1, <1>2 DEF IInv

LEMMA WholeHolds == IInv => SendsWhole
<1> SUFFICES ASSUME IInv, streaming, ~overlap, NEW i \in Buffers \ torn, queued[i] # None
             PROVE  queued[i] = slot[i] /\ ~Given(i) /\ queued[i] \in live
  BY DEF SendsWhole
<1>0. Inv /\ IApart
  BY DEF IInv, AInv
<1>1. queued[i] = slot[i]
  BY <1>0 DEF IApart, IWhole
<1>2. ~Given(i)
  <2> SUFFICES ASSUME NEW t \in Threads, at[t] = "null", idx[t] = i PROVE FALSE
    BY DEF Given
  <2>1. CASE t = "event"
    BY <1>0, <2>1, BusyAlone DEF Busy, IApart
  <2>2. CASE t = "data"
    <3>1. CASE crossed
      BY <1>0, <2>2, <3>1 DEF IApart, INull
    <3>2. CASE ~crossed
      BY <1>0, <2>2, <3>2 DEF IApart, IData, Sending
    <3> QED
      BY <3>1, <3>2
  <2> QED
    BY <2>1, <2>2 DEF Threads
<1>3. slot[i] \in Saved
  BY <1>1, <1>2 DEF Saved
<1> QED
  BY <1>0, <1>1, <1>2, <1>3 DEF Inv, OnePlace

\* The slots have room for as many nodes as there are buffers, and for fewer if one of
\* them is empty or being emptied.
LEMMA SlotsHold ==
    ASSUME Inv
    PROVE  /\ Cardinality(Saved) \in Nat
           /\ Cardinality(Saved) <= Cardinality(Buffers)
           /\ \A i \in Buffers : slot[i] = None \/ Given(i) =>
                                     Cardinality(Saved) + 1 <= Cardinality(Buffers)
<1> DEFINE Full == {i \in Buffers : ~Given(i) /\ slot[i] # None}
           f == [i \in Full |-> slot[i]]
<1>1. IsFiniteSet(Buffers) /\ Cardinality(Buffers) \in Nat
  BY UvcAssumption, FS_CardinalityType
<1>2. IsFiniteSet(Full) /\ Cardinality(Full) \in Nat /\ Cardinality(Full) <= Cardinality(Buffers)
  <2>1. Full \subseteq Buffers
    OBVIOUS
  <2> QED
    BY <1>1, <2>1, FS_Subset, FS_CardinalityType
<1>3. IsFiniteSet(Saved) /\ Cardinality(Saved) \in Nat /\ Cardinality(Saved) <= Cardinality(Full)
  <2>1. f \in Surjection(Full, Saved)
    BY DEF Surjection, Saved
  <2> QED
    BY <1>2, <2>1, FS_Surjection, FS_CardinalityType
<1>4. ASSUME NEW i \in Buffers, slot[i] = None \/ Given(i)
      PROVE  Cardinality(Saved) + 1 <= Cardinality(Buffers)
  <2>1. Full \subseteq Buffers \ {i}
    BY <1>4
  <2>2. IsFiniteSet(Buffers \ {i}) /\ Cardinality(Buffers \ {i}) = Cardinality(Buffers) - 1
    BY <1>1, FS_RemoveElement
  <2>3. Cardinality(Full) <= Cardinality(Buffers \ {i})
    BY <2>1, <2>2, FS_Subset
  <2> QED
    BY <1>1, <1>2, <1>3, <2>2, <2>3
<1> QED
  BY <1>1, <1>2, <1>3, <1>4

LEMMA ComingHolds == IInv => FramesComing
<1> SUFFICES ASSUME IInv, enough, ~overlap, \A k \in DOMAIN todo : todo[k] # "off",
                    NEW t \in Threads,
                    at[t] \in {"get", "test", "put", "null", "set"}, c[t] = None, run,
                    ok = <<>>, free = {}, media \notin Node, \A u \in Threads : c[u] = None,
                    \A u \in Threads : at[u] \in {"get", "test", "put"} => slot[idx[u]] = None
             PROVE  FALSE
  BY DEF FramesComing
<1>0. Inv /\ IApart
  BY DEF IInv, AInv
<1>1. todo \notin Closing \cup Again
  <2>1. todo \notin Closing
    BY DEF Closing, EndOff, EndFree, EndMove
  <2>2. todo \notin Again
    BY DEF Again, ToOff, ToFree, ToMove, ToEnable
  <2> QED
    BY <2>1, <2>2
<1>2. Active
  BY <1>0, <1>1 DEF IApart, IPlan, Active
<1>3. Placed = Saved
  BY DEF Placed, Listed, InHand, Copied
<1>4. /\ Cardinality(Buffers) \in Nat /\ Cardinality(Saved) \in Nat
      /\ Cardinality(Saved) <= Cardinality(Buffers)
      /\ \A i \in Buffers : slot[i] = None \/ Given(i) =>
                                Cardinality(Saved) + 1 <= Cardinality(Buffers)
  BY <1>0, SlotsHold, UvcAssumption, FS_CardinalityType
<1>5. /\ Cardinality(Saved) >= Cardinality(Buffers)
      /\ Over \/ Late => Cardinality(Saved) >= Cardinality(Buffers) + 1
  BY <1>0, <1>2, <1>3 DEF IApart, ICount
<1>6. ~Over /\ ~Late
  BY <1>4, <1>5
<1>7. \A i \in Buffers : slot[i] # None /\ ~Given(i)
  BY <1>4, <1>5
<1>8. idx[t] \in Buffers
  BY <1>0, Typed DEF Inv
<1>9. at[t] = "set" /\ slot[idx[t]] # None
  BY <1>7, <1>8 DEF Given
<1>10. t = "data" /\ ~crossed
  BY <1>6, <1>9, Typed DEF Over, Late, Pending, Threads
<1> QED
  BY <1>0, <1>9, <1>10 DEF IApart, IData, Sending

\* Through any number of starts and ends of a stream, and whichever mallocs fail, what
\* the driver sends is the node that frame_node remembers for that buffer, so that nobody
\* writes over it, but for a buffer that a crossing with the end of a stream or a frame
\* that did not come has torn; as long as no two threads were past the test of one slot.
THEOREM FramesWhole == Spec => []SendsWhole
<1> QED
  BY WholeHolds, InitIInv, NextIInv, PTL DEF Spec

\* Given more nodes than buffers, a thread that waits for a frame waits for a node that
\* can still come, whatever nodes the two threads have lost by meeting in a slot; as long
\* as they were not past its test at once.
THEOREM FramesCome == Spec => []FramesComing
<1> QED
  BY ComingHolds, InitIInv, NextIInv, PTL DEF Spec
=============================================================================
