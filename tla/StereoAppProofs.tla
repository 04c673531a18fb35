--------------------------- MODULE StereoAppProofs ---------------------------
(***************************************************************************)
(* StereoApp proved for every set of steps that may fail, any number of     *)
(* clients and any failures of the raw capture server: each way out         *)
(* releases exactly what was acquired, in an order that takes nothing away  *)
(* from what still uses it, and each capture gives its channel back.        *)
(***************************************************************************)
EXTENDS StereoApp, SequenceTheorems, TLAPS

(* The scripts of the main thread.                                         *)

\* r uses d while it lives: Needs, as a relation.
Uses(raw, r, d) ==
    \/ r = "threads" /\ d \in {"queues", "vproc0", "vproc1", "npu", "cve", "venc", "net"}
    \/ r = "raw" /\ d \in {"vi0", "vi1"}
    \/ r = "scene" /\ d \in {"vi0", "vi1"}
    \/ r = "scene" /\ ~raw /\ d \in {"vproc0", "vproc1"}
    \/ r = "vproc0" /\ d \in {"vi0", "pool0", "pool_det", "buffer_pool"}
    \/ r = "vproc1" /\ d \in {"vi1", "pool1", "buffer_pool"}
    \/ r \in {"vi0", "vi1"} /\ d \in {"sys", "media_pipe"}
    \/ r \in {"npu", "cve", "venc", "media_pipe"} /\ d = "sys"

\* Nothing of H uses d.
Unused(raw, H, d) == \A r \in H : ~Uses(raw, r, d)

Supplied(raw, H) == \A r \in H : \A d : Uses(raw, r, d) => d \in H

Elems(s) == {s[i] : i \in 1 .. Len(s)}

\* Releasing the members of s one after the other, of the resources in H, meets each
\* while it is there, or a function that does not mind, and after all that use it.
Orderly(raw, s, H) ==
    \A j \in 1 .. Len(s) :
        /\ s[j] \in Guarded \/ (s[j] \in H /\ \A i \in 1 .. j - 1 : s[i] # s[j])
        /\ \A r \in H : Uses(raw, r, s[j]) => \E i \in 1 .. j - 1 : s[i] = r

LEMMA UsesScene ==
    ASSUME NEW raw \in BOOLEAN, NEW d
    PROVE  /\ raw => (Uses(raw, "scene", d) <=> d \in {"vi0", "vi1"})
           /\ ~raw => (Uses(raw, "scene", d) <=> d \in {"vi0", "vi1", "vproc0", "vproc1"})
<1>1. CASE raw
  BY <1>1 DEF Uses
<1>2. CASE ~raw
  BY <1>2 DEF Uses
<1> QED
  BY <1>1, <1>2

LEMMA NeedsAre ==
    ASSUME raw_only \in BOOLEAN
    PROVE  TornDownInOrder <=> Supplied(raw_only, held)
<1>1. /\ DOMAIN Needs = {"threads", "raw", "scene", "vproc0", "vproc1", "vi0", "vi1", "npu",
                         "cve", "venc", "media_pipe"}
      /\ Needs["threads"] = {"queues", "vproc0", "vproc1", "npu", "cve", "venc", "net"}
      /\ Needs["raw"] = {"vi0", "vi1"}
      /\ Needs["scene"] = {"vi0", "vi1"} \cup IF raw_only THEN {} ELSE {"vproc0", "vproc1"}
      /\ Needs["vproc0"] = {"vi0", "pool0", "pool_det", "buffer_pool"}
      /\ Needs["vproc1"] = {"vi1", "pool1", "buffer_pool"}
      /\ Needs["vi0"] = {"sys", "media_pipe"} /\ Needs["vi1"] = {"sys", "media_pipe"}
      /\ Needs["npu"] = {"sys"} /\ Needs["cve"] = {"sys"} /\ Needs["venc"] = {"sys"}
      /\ Needs["media_pipe"] = {"sys"}
  BY DEF Needs
<1>2. \A r \in DOMAIN Needs : \A d : d \in Needs[r] <=> Uses(raw_only, r, d)
  <2> SUFFICES ASSUME NEW r \in DOMAIN Needs, NEW d
               PROVE  d \in Needs[r] <=> Uses(raw_only, r, d)
    OBVIOUS
  <2>1. CASE r = "scene"
    <3>1. CASE raw_only
      <4>1. Needs["scene"] = {"vi0", "vi1"}
        BY <1>1, <3>1
      <4>2. Uses(raw_only, r, d) <=> d \in {"vi0", "vi1"}
        BY <2>1, <3>1, UsesScene
      <4> QED
        BY <2>1, <4>1, <4>2
    <3>2. CASE ~raw_only
      <4>1. Needs["scene"] = {"vi0", "vi1", "vproc0", "vproc1"}
        BY <1>1, <3>2
      <4>2. Uses(raw_only, r, d) <=> d \in {"vi0", "vi1", "vproc0", "vproc1"}
        BY <2>1, <3>2, UsesScene
      <4> QED
        BY <2>1, <4>1, <4>2
    <3> QED
      BY <3>1, <3>2
  <2>2. CASE r \in {"threads", "raw", "vproc0", "vproc1"}
    BY <1>1, <2>2 DEF Uses
  <2>3. CASE r \in {"vi0", "vi1", "npu", "cve", "venc", "media_pipe"}
    BY <1>1, <2>3 DEF Uses
  <2> QED
    BY <1>1, <2>1, <2>2, <2>3
<1>3. \A r, d : Uses(raw_only, r, d) => r \in DOMAIN Needs
  BY <1>1 DEF Uses
<1> QED
  BY <1>2, <1>3 DEF TornDownInOrder, Supplied

\* One release of an orderly way out.
LEMMA Shed ==
    ASSUME NEW raw, NEW H, NEW s \in Seq(Resources), s # <<>>,
           Orderly(raw, s, H), Supplied(raw, H)
    PROVE  /\ Head(s) \in H \cup Guarded /\ Head(s) \in Resources
           /\ Supplied(raw, H \ {Head(s)})
           /\ Tail(s) \in Seq(Resources) /\ Orderly(raw, Tail(s), H \ {Head(s)})
           /\ \A x : x \in Elems(s) <=> x = Head(s) \/ x \in Elems(Tail(s))
<1>1. /\ Len(s) \in Nat /\ Len(s) >= 1 /\ Head(s) = s[1] /\ s[1] \in Resources
      /\ Tail(s) \in Seq(Resources) /\ Len(Tail(s)) = Len(s) - 1
      /\ \A i \in 1 .. Len(s) - 1 : Tail(s)[i] = s[i + 1]
  BY EmptySeq, HeadTailProperties, LenProperties
<1>2. /\ s[1] \in H \cup Guarded
      /\ \A r \in H : ~Uses(raw, r, s[1])
  BY <1>1 DEF Orderly
<1>3. Supplied(raw, H \ {s[1]})
  BY <1>2 DEF Supplied
<1>4. Orderly(raw, Tail(s), H \ {s[1]})
  <2> SUFFICES ASSUME NEW j \in 1 .. Len(Tail(s))
               PROVE  /\ \/ Tail(s)[j] \in Guarded
                         \/ /\ Tail(s)[j] \in H \ {s[1]}
                            /\ \A i \in 1 .. j - 1 : Tail(s)[i] # Tail(s)[j]
                      /\ \A r \in H \ {s[1]} :
                            Uses(raw, r, Tail(s)[j]) => \E i \in 1 .. j - 1 : Tail(s)[i] = r
    BY DEF Orderly
  <2>0. /\ j \in 1 .. Len(s) - 1 /\ Tail(s)[j] = s[j + 1]
        /\ \A i \in 1 .. j - 1 : Tail(s)[i] = s[i + 1]
    BY <1>1
  <2>1. j + 1 \in 1 .. Len(s) /\ 1 \in 1 .. (j + 1) - 1
    BY <1>1, <2>0
  <2>2. \A i \in 1 .. j - 1 : i + 1 \in 1 .. (j + 1) - 1
    BY <2>0
  <2>3. \/ s[j + 1] \in Guarded
        \/ s[j + 1] \in H \ {s[1]} /\ \A i \in 1 .. j - 1 : s[i + 1] # s[j + 1]
    BY <2>1, <2>2 DEF Orderly
  <2>4. ASSUME NEW r \in H \ {s[1]}, Uses(raw, r, s[j + 1])
        PROVE  \E i \in 1 .. j - 1 : s[i + 1] = r
    <3>1. PICK i \in 1 .. (j + 1) - 1 : s[i] = r
      BY <2>1, <2>4 DEF Orderly
    <3>2. i # 1 /\ i - 1 \in 1 .. j - 1 /\ s[(i - 1) + 1] = r
      BY <1>1, <2>0, <2>4, <3>1
    <3> QED
      BY <3>2
  <2>5. \/ Tail(s)[j] \in Guarded
        \/ Tail(s)[j] \in H \ {s[1]} /\ \A i \in 1 .. j - 1 : Tail(s)[i] # Tail(s)[j]
    BY <2>0, <2>3
  <2>6. ASSUME NEW r \in H \ {s[1]}, Uses(raw, r, Tail(s)[j])
        PROVE  \E i \in 1 .. j - 1 : Tail(s)[i] = r
    BY <2>0, <2>4, <2>6
  <2> QED
    BY <2>5, <2>6
<1>5. Elems(s) = {s[1]} \cup Elems(Tail(s))
  <2>1. ASSUME NEW i \in 1 .. Len(s), i # 1
        PROVE  i - 1 \in 1 .. Len(Tail(s)) /\ Tail(s)[i - 1] = s[i]
    BY <1>1, <2>1
  <2>2. ASSUME NEW i \in 1 .. Len(Tail(s))
        PROVE  i + 1 \in 1 .. Len(s) /\ Tail(s)[i] = s[i + 1]
    BY <1>1
  <2>3. 1 \in 1 .. Len(s)
    BY <1>1
  <2> QED
    BY <2>1, <2>2, <2>3 DEF Elems
<1> QED
  BY <1>1, <1>2, <1>3, <1>4, <1>5

\* One way out after the other.
LEMMA Compose ==
    ASSUME NEW raw, NEW H, NEW s \in Seq(Resources), NEW t \in Seq(Resources),
           Orderly(raw, s, H), Orderly(raw, t, H \ Elems(s))
    PROVE  /\ s \o t \in Seq(Resources) /\ Orderly(raw, s \o t, H)
           /\ \A x : x \in Elems(s \o t) <=> x \in Elems(s) \/ x \in Elems(t)
<1>1. /\ Len(s) \in Nat /\ Len(t) \in Nat
      /\ s \o t \in Seq(Resources) /\ Len(s \o t) = Len(s) + Len(t)
      /\ \A i \in 1 .. Len(s) + Len(t) :
            (s \o t)[i] = IF i <= Len(s) THEN s[i] ELSE t[i - Len(s)]
  BY ConcatProperties, LenProperties
<1>2. \A i \in 1 .. Len(s) : i \in 1 .. Len(s) + Len(t) /\ (s \o t)[i] = s[i]
  BY <1>1
<1>3. \A i \in 1 .. Len(t) : Len(s) + i \in 1 .. Len(s) + Len(t) /\ (s \o t)[Len(s) + i] = t[i]
  BY <1>1
<1>4. \A j \in 1 .. Len(s) + Len(t) :
        j \in 1 .. Len(s) \/ \E i \in 1 .. Len(t) : j = Len(s) + i
  <2> SUFFICES ASSUME NEW j \in 1 .. Len(s) + Len(t), j \notin 1 .. Len(s)
               PROVE  \E i \in 1 .. Len(t) : j = Len(s) + i
    OBVIOUS
  <2>1. j - Len(s) \in 1 .. Len(t) /\ j = Len(s) + (j - Len(s))
    BY <1>1
  <2> QED
    BY <2>1
<1>5. Elems(s \o t) = Elems(s) \cup Elems(t)
  BY <1>1, <1>2, <1>3, <1>4 DEF Elems
<1>6. ASSUME NEW j \in 1 .. Len(s)
      PROVE  /\ \/ (s \o t)[j] \in Guarded
                \/ (s \o t)[j] \in H /\ \A i \in 1 .. j - 1 : (s \o t)[i] # (s \o t)[j]
             /\ \A r \in H : Uses(raw, r, (s \o t)[j]) => \E i \in 1 .. j - 1 : (s \o t)[i] = r
  <2>1. \A i \in 1 .. j - 1 : i \in 1 .. Len(s)
    BY <1>1
  <2> QED
    BY <1>2, <2>1 DEF Orderly
<1>7. ASSUME NEW j \in 1 .. Len(t)
      PROVE  LET l == Len(s) + j
             IN  /\ \/ (s \o t)[l] \in Guarded
                    \/ (s \o t)[l] \in H /\ \A i \in 1 .. l - 1 : (s \o t)[i] # (s \o t)[l]
                 /\ \A r \in H :
                        Uses(raw, r, (s \o t)[l]) => \E i \in 1 .. l - 1 : (s \o t)[i] = r
  <2> DEFINE l == Len(s) + j
  <2>1. (s \o t)[l] = t[j]
    BY <1>3
  <2>2. \A i \in 1 .. l - 1 :
          \/ i \in 1 .. Len(s) /\ (s \o t)[i] = s[i]
          \/ \E m \in 1 .. j - 1 : (s \o t)[i] = t[m]
    <3> SUFFICES ASSUME NEW i \in 1 .. l - 1, i \notin 1 .. Len(s)
                 PROVE  \E m \in 1 .. j - 1 : (s \o t)[i] = t[m]
      BY <1>2
    <3>1. i - Len(s) \in 1 .. j - 1 /\ i - Len(s) \in 1 .. Len(t) /\ i = Len(s) + (i - Len(s))
      BY <1>1
    <3> QED
      BY <1>3, <3>1
  <2>3. \/ t[j] \in Guarded
        \/ t[j] \in H \ Elems(s) /\ \A m \in 1 .. j - 1 : t[m] # t[j]
    BY DEF Orderly
  <2>4. ASSUME NEW r \in H, Uses(raw, r, t[j])
        PROVE  \E i \in 1 .. l - 1 : (s \o t)[i] = r
    <3>1. CASE r \in Elems(s)
      <4>1. PICK i \in 1 .. Len(s) : s[i] = r
        BY <3>1 DEF Elems
      <4>2. i \in 1 .. l - 1
        BY <1>1
      <4> QED
        BY <1>2, <4>1, <4>2
    <3>2. CASE r \notin Elems(s)
      <4>1. PICK m \in 1 .. j - 1 : t[m] = r
        BY <2>4, <3>2 DEF Orderly
      <4>2. Len(s) + m \in 1 .. l - 1 /\ m \in 1 .. Len(t)
        BY <1>1
      <4> QED
        BY <1>3, <4>1, <4>2
    <3> QED
      BY <3>1, <3>2
  <2>5. t[j] \in H /\ t[j] \notin Elems(s) /\ (\A m \in 1 .. j - 1 : t[m] # t[j])
          => \A i \in 1 .. l - 1 : (s \o t)[i] # t[j]
    BY <2>2 DEF Elems
  <2> QED
    BY <2>1, <2>3, <2>4, <2>5
<1>8. Orderly(raw, s \o t, H)
  <2> SUFFICES ASSUME NEW j \in 1 .. Len(s) + Len(t)
               PROVE  /\ \/ (s \o t)[j] \in Guarded
                         \/ /\ (s \o t)[j] \in H
                            /\ \A i \in 1 .. j - 1 : (s \o t)[i] # (s \o t)[j]
                      /\ \A r \in H :
                            Uses(raw, r, (s \o t)[j]) => \E i \in 1 .. j - 1 : (s \o t)[i] = r
    BY <1>1 DEF Orderly
  <2>1. CASE j \in 1 .. Len(s)
    BY <1>6, <2>1
  <2>2. CASE j \notin 1 .. Len(s)
    <3>1. PICK i \in 1 .. Len(t) : j = Len(s) + i
      BY <1>4, <2>2
    <3> QED
      BY <1>7, <3>1
  <2> QED
    BY <2>1, <2>2
<1> QED
  BY <1>1, <1>5, <1>8

LEMMA DeinitOrderly ==
    ASSUME NEW raw \in BOOLEAN, NEW H, {"buffer_pool", "media_pipe", "sys"} \subseteq H,
           H \subseteq Elems(Deinit(raw)) \cup {"pool0", "pool1", "pool_det", "yolo"}
    PROVE  Deinit(raw) \in Seq(Resources) /\ Orderly(raw, Deinit(raw), H)
<1>1. CASE raw
  <2>1. Elems(Deinit(raw)) = {"buffer_pool", "media_pipe", "sys"}
    BY <1>1 DEF Elems, Deinit
  <2> QED
    BY <1>1, <2>1 DEF Orderly, Deinit, Guarded, Uses, Resources
<1>2. CASE ~raw
  <2>1. Elems(Deinit(raw)) = {"net", "venc", "cve", "yolo", "npu", "buffer_pool", "media_pipe",
                              "sys"}
    BY <1>2 DEF Elems, Deinit
  <2> QED
    BY <1>2, <2>1 DEF Orderly, Deinit, Guarded, Uses, Resources
<1> QED
  BY <1>1, <1>2

LEMMA OptionalAre ==
    ASSUME NEW raw \in BOOLEAN
    PROVE  /\ Optional(raw) \subseteq {"yolo", "scene", "raw"}
           /\ "yolo" \in Optional(raw) /\ "scene" \in Optional(raw)
           /\ raw <=> "raw" \notin Optional(raw)
  BY DEF Optional

\* The script S with n steps made and t left, on top of the resources of B: what is held
\* are resources of the steps made, and all of them but optional ones.
Made(S, n) == {S[i] : i \in 1 .. n}

Along(S, n, t, H, B, opt) ==
    /\ n \in 0 .. Len(S)
    /\ Len(t) = Len(S) - n
    /\ \A i \in 1 .. Len(t) : t[i] = S[n + i]
    /\ H \subseteq B \cup Made(S, n)
    /\ \A r \in B \cup Made(S, n) : r \in Resources \ opt => r \in H

LEMMA OneStep ==
    ASSUME NEW S, Len(S) \in Nat, NEW n, NEW t \in Seq(Steps), NEW H, NEW B, NEW opt,
           t # <<>>, Along(S, n, t, H, B, opt)
    PROVE  /\ n + 1 \in 1 .. Len(S) /\ Head(t) = S[n + 1]
           /\ Along(S, n + 1, Tail(t), H \cup ({Head(t)} \cap Resources), B, opt)
           /\ Head(t) \in opt => Along(S, n + 1, Tail(t), H, B, opt)
<1>1. /\ Len(t) \in Nat /\ Len(t) >= 1 /\ Head(t) = t[1] /\ Len(Tail(t)) = Len(t) - 1
      /\ \A i \in 1 .. Len(t) - 1 : Tail(t)[i] = t[i + 1]
  BY EmptySeq, HeadTailProperties, LenProperties
<1>2. n \in Nat /\ n + 1 \in 1 .. Len(S) /\ Head(t) = S[n + 1]
  BY <1>1 DEF Along
<1>3. Len(Tail(t)) = Len(S) - (n + 1)
  BY <1>1, <1>2 DEF Along
<1>4. \A i \in 1 .. Len(Tail(t)) : Tail(t)[i] = S[(n + 1) + i]
  <2> SUFFICES ASSUME NEW i \in 1 .. Len(Tail(t)) PROVE Tail(t)[i] = S[(n + 1) + i]
    OBVIOUS
  <2>1. i + 1 \in 1 .. Len(t) /\ n + (i + 1) = (n + 1) + i
    BY <1>1, <1>2
  <2> QED
    BY <1>1, <2>1 DEF Along
<1>5. Made(S, n + 1) = Made(S, n) \cup {Head(t)}
  <2>1. \A i \in 1 .. n + 1 : i \in 1 .. n \/ i = n + 1
    BY <1>2
  <2>2. \A i \in 1 .. n : i \in 1 .. n + 1
    BY <1>2
  <2>3. n + 1 \in 1 .. n + 1
    BY <1>2
  <2> QED
    BY <1>2, <2>1, <2>2, <2>3 DEF Made
<1>6. n + 1 \in 0 .. Len(S)
  BY <1>2
<1> QED
  BY <1>2, <1>3, <1>4, <1>5, <1>6 DEF Along

\* Each step finds what it needs.
LEMMA InitSupplies ==
    ASSUME NEW raw \in BOOLEAN, NEW n \in Nat, n + 1 \in 1 .. Len(SysInit(raw)),
           NEW d, Uses(raw, SysInit(raw)[n + 1], d)
    PROVE  d \in Made(SysInit(raw), n) /\ d \in Resources \ Optional(raw)
<1>1. CASE raw
  <2>1. d = "sys" /\ n >= 1
    BY <1>1 DEF SysInit, Uses
  <2> QED
    BY <1>1, <2>1 DEF SysInit, Made, Resources, Optional
<1>2. CASE ~raw
  <2>1. d = "sys" /\ n >= 1
    BY <1>2 DEF SysInit, Uses
  <2> QED
    BY <1>2, <2>1 DEF SysInit, Made, Resources, Optional
<1> QED
  BY <1>1, <1>2

\* The steps of stereo_media_sys_init, as a set.
LEMMA InitSteps ==
    ASSUME NEW raw \in BOOLEAN
    PROVE  /\ raw => Elems(SysInit(raw)) = {"sys", "vi_vproc_cfg", "media_pipe", "buffer_pool"}
           /\ ~raw => Elems(SysInit(raw)) = {"sys", "vi_vproc_cfg", "media_pipe", "buffer_pool",
                                             "sec", "npu", "yolo", "cve", "venc", "net"}
<1>1. CASE raw
  BY <1>1 DEF Elems, SysInit
<1>2. CASE ~raw
  BY <1>2 DEF Elems, SysInit
<1> QED
  BY <1>1, <1>2

LEMMA StartupSupplies ==
    ASSUME NEW raw \in BOOLEAN, NEW n \in Nat, n + 1 \in 1 .. Len(Startup(raw)),
           NEW d, Uses(raw, Startup(raw)[n + 1], d)
    PROVE  /\ d \in Elems(SysInit(raw)) \cup Made(Startup(raw), n)
           /\ d \in Resources \ Optional(raw)
<1>1. CASE raw
  <2>1. \/ n \in {0, 1} /\ d \in {"sys", "media_pipe"}
        \/ n \in {2, 3} /\ d \in {"vi0", "vi1"}
    BY <1>1 DEF Startup, Uses
  <2>2. CASE n \in {0, 1}
    <3>1. d \in {"sys", "media_pipe"}
      BY <2>1, <2>2
    <3>2. d \in Elems(SysInit(raw))
      BY <1>1, <3>1, InitSteps
    <3>3. d \in Resources /\ d \notin Optional(raw)
      BY <3>1, OptionalAre DEF Resources
    <3> QED
      BY <3>2, <3>3
  <2>3. CASE n \in {2, 3}
    <3>1. Startup(raw)[1] = "vi0" /\ Startup(raw)[2] = "vi1" /\ 1 \in 1 .. n /\ 2 \in 1 .. n
      BY <1>1, <2>3 DEF Startup
    <3>2. d \in Made(Startup(raw), n)
      BY <2>1, <2>3, <3>1 DEF Made
    <3> QED
      BY <1>1, <2>1, <2>3, <3>2 DEF Resources, Optional
  <2> QED
    BY <2>1, <2>2, <2>3
<1>2. CASE ~raw
  <2>1. \/ d \in {"sys", "media_pipe", "buffer_pool", "npu", "cve", "venc", "net"}
        \/ n >= 7 /\ d \in {"queues", "vi0", "vi1", "pool0", "pool1", "pool_det"}
        \/ n >= 9 /\ d \in {"vproc0", "vproc1"}
    BY <1>2 DEF Startup, Uses
  <2> QED
    BY <1>2, <2>1, InitSteps DEF Startup, Made, Resources, Optional
<1> QED
  BY <1>1, <1>2

\* What no path releases.
Kept(step) ==
    {"pool0", "pool1", "pool_det"} \cup IF step \in {"cve", "venc", "net"} THEN {"yolo"} ELSE {}

\* Where stereo_media_sys_init fails, the labels release what the steps before have
\* acquired.
LEMMA InitFails ==
    ASSUME NEW raw \in BOOLEAN, NEW n \in Nat, n + 1 \in 1 .. Len(SysInit(raw)),
           NEW step, step = SysInit(raw)[n + 1], step \notin Optional(raw),
           NEW H, H \subseteq Made(SysInit(raw), n) \cap Resources,
           \A r \in Made(SysInit(raw), n) : r \in Resources \ Optional(raw) => r \in H
    PROVE  /\ InitUnwind(step) \in Seq(Resources) /\ Orderly(raw, InitUnwind(step), H)
           /\ H \subseteq Elems(InitUnwind(step)) \cup Kept(step)
<1> DEFINE L == InitUnwind(step)
<1>1. \/ n = 0 /\ step = "sys"
      \/ n = 1 /\ step = "vi_vproc_cfg"
      \/ n = 2 /\ step = "media_pipe"
      \/ n = 3 /\ step = "buffer_pool"
      \/ ~raw /\ n = 4 /\ step = "sec"
      \/ ~raw /\ n = 5 /\ step = "npu"
      \/ ~raw /\ n = 7 /\ step = "cve"
      \/ ~raw /\ n = 8 /\ step = "venc"
      \/ ~raw /\ n = 9 /\ step = "net"
  <2>1. CASE raw
    BY <2>1 DEF SysInit
  <2>2. CASE ~raw
    BY <2>2, OptionalAre DEF SysInit
  <2> QED
    BY <2>1, <2>2
<1>2. /\ n >= 1 => SysInit(raw)[1] = "sys"
      /\ n >= 2 => SysInit(raw)[2] = "vi_vproc_cfg"
      /\ n >= 3 => SysInit(raw)[3] = "media_pipe"
      /\ n >= 4 => SysInit(raw)[4] = "buffer_pool"
      /\ n >= 5 => SysInit(raw)[5] = "sec"
      /\ n >= 6 => SysInit(raw)[6] = "npu"
      /\ n >= 7 => SysInit(raw)[7] = "yolo"
      /\ n >= 8 => SysInit(raw)[8] = "cve"
      /\ n >= 9 => SysInit(raw)[9] = "venc"
  <2>1. CASE raw
    BY <2>1 DEF SysInit
  <2>2. CASE ~raw
    BY <2>2 DEF SysInit
  <2> QED
    BY <2>1, <2>2
<1>3. CASE n = 0 /\ step = "sys"
  <2>1. /\ H \subseteq {}
        /\ {} \subseteq H
    BY <1>2, <1>3, OptionalAre DEF Made, Resources
  <2>2. L = <<>>
    BY <1>3 DEF InitUnwind
  <2>3. L \in Seq(Resources)
    BY <2>2 DEF Resources
  <2>4. Orderly(raw, L, H)
    BY <2>1, <2>2 DEF Orderly, Guarded, Uses
  <2>5. {} \subseteq Elems(L)
    BY <2>2 DEF Elems
  <2>6. H \subseteq {} \cup Kept(step)
    BY <1>3, <2>1 DEF Kept
  <2> QED
    BY <2>3, <2>4, <2>5, <2>6
<1>4. CASE n = 1 /\ step = "vi_vproc_cfg"
  <2>1. /\ H \subseteq {"sys"}
        /\ {"sys"} \subseteq H
    BY <1>2, <1>4, OptionalAre DEF Made, Resources
  <2>2. L = <<"sys">>
    BY <1>4 DEF InitUnwind
  <2>3. L \in Seq(Resources)
    BY <2>2 DEF Resources
  <2>4. Orderly(raw, L, H)
    BY <2>1, <2>2 DEF Orderly, Guarded, Uses
  <2>5. {"sys"} \subseteq Elems(L)
    BY <2>2 DEF Elems
  <2>6. H \subseteq {"sys"} \cup Kept(step)
    BY <1>4, <2>1 DEF Kept
  <2> QED
    BY <2>3, <2>4, <2>5, <2>6
<1>5. CASE n = 2 /\ step = "media_pipe"
  <2>1. /\ H \subseteq {"sys"}
        /\ {"sys"} \subseteq H
    BY <1>2, <1>5, OptionalAre DEF Made, Resources
  <2>2. L = <<"sys">>
    BY <1>5 DEF InitUnwind
  <2>3. L \in Seq(Resources)
    BY <2>2 DEF Resources
  <2>4. Orderly(raw, L, H)
    BY <2>1, <2>2 DEF Orderly, Guarded, Uses
  <2>5. {"sys"} \subseteq Elems(L)
    BY <2>2 DEF Elems
  <2>6. H \subseteq {"sys"} \cup Kept(step)
    BY <1>5, <2>1 DEF Kept
  <2> QED
    BY <2>3, <2>4, <2>5, <2>6
<1>6. CASE n = 3 /\ step = "buffer_pool"
  <2>1. /\ H \subseteq {"sys", "media_pipe"}
        /\ {"sys", "media_pipe"} \subseteq H
    BY <1>2, <1>6, OptionalAre DEF Made, Resources
  <2>2. L = <<"media_pipe", "sys">>
    BY <1>6 DEF InitUnwind
  <2>3. L \in Seq(Resources)
    BY <2>2 DEF Resources
  <2>4. Orderly(raw, L, H)
    BY <2>1, <2>2 DEF Orderly, Guarded, Uses
  <2>5. {"media_pipe", "sys"} \subseteq Elems(L)
    BY <2>2 DEF Elems
  <2>6. H \subseteq {"media_pipe", "sys"} \cup Kept(step)
    BY <1>6, <2>1 DEF Kept
  <2> QED
    BY <2>3, <2>4, <2>5, <2>6
<1>7. CASE n = 4 /\ step = "sec"
  <2>1. /\ H \subseteq {"sys", "media_pipe", "buffer_pool"}
        /\ {"sys", "media_pipe", "buffer_pool"} \subseteq H
    BY <1>2, <1>7, OptionalAre DEF Made, Resources
  <2>2. L = <<"buffer_pool", "media_pipe", "sys">>
    BY <1>7 DEF InitUnwind
  <2>3. L \in Seq(Resources)
    BY <2>2 DEF Resources
  <2>4. Orderly(raw, L, H)
    BY <2>1, <2>2 DEF Orderly, Guarded, Uses
  <2>5. {"buffer_pool", "media_pipe", "sys"} \subseteq Elems(L)
    BY <2>2 DEF Elems
  <2>6. H \subseteq {"buffer_pool", "media_pipe", "sys"} \cup Kept(step)
    BY <1>7, <2>1 DEF Kept
  <2> QED
    BY <2>3, <2>4, <2>5, <2>6
<1>8. CASE n = 5 /\ step = "npu"
  <2>1. /\ H \subseteq {"sys", "media_pipe", "buffer_pool"}
        /\ {"sys", "media_pipe", "buffer_pool"} \subseteq H
    BY <1>2, <1>8, OptionalAre DEF Made, Resources
  <2>2. L = <<"buffer_pool", "media_pipe", "sys">>
    BY <1>8 DEF InitUnwind
  <2>3. L \in Seq(Resources)
    BY <2>2 DEF Resources
  <2>4. Orderly(raw, L, H)
    BY <2>1, <2>2 DEF Orderly, Guarded, Uses
  <2>5. {"buffer_pool", "media_pipe", "sys"} \subseteq Elems(L)
    BY <2>2 DEF Elems
  <2>6. H \subseteq {"buffer_pool", "media_pipe", "sys"} \cup Kept(step)
    BY <1>8, <2>1 DEF Kept
  <2> QED
    BY <2>3, <2>4, <2>5, <2>6
<1>9. CASE n = 7 /\ step = "cve"
  <2>1. /\ H \subseteq {"sys", "media_pipe", "buffer_pool", "npu", "yolo"}
        /\ {"sys", "media_pipe", "buffer_pool", "npu"} \subseteq H
    BY <1>2, <1>9, OptionalAre DEF Made, Resources
  <2>2. L = <<"npu", "buffer_pool", "media_pipe", "sys">>
    BY <1>9 DEF InitUnwind
  <2>3. L \in Seq(Resources)
    BY <2>2 DEF Resources
  <2>4. Orderly(raw, L, H)
    BY <2>1, <2>2 DEF Orderly, Guarded, Uses
  <2>5. {"npu", "buffer_pool", "media_pipe", "sys"} \subseteq Elems(L)
    BY <2>2 DEF Elems
  <2>6. H \subseteq {"npu", "buffer_pool", "media_pipe", "sys"} \cup Kept(step)
    BY <1>9, <2>1 DEF Kept
  <2> QED
    BY <2>3, <2>4, <2>5, <2>6
<1>10. CASE n = 8 /\ step = "venc"
  <2>1. /\ H \subseteq {"sys", "media_pipe", "buffer_pool", "npu", "yolo", "cve"}
        /\ {"sys", "media_pipe", "buffer_pool", "npu", "cve"} \subseteq H
    <3>1. Made(SysInit(raw), n) = {"sys", "vi_vproc_cfg", "media_pipe", "buffer_pool", "sec",
                                   "npu", "yolo", "cve"}
      BY <1>2, <1>10 DEF Made
    <3> QED
      BY <3>1, OptionalAre DEF Resources
  <2>2. L = <<"cve", "npu", "buffer_pool", "media_pipe", "sys">>
    BY <1>10 DEF InitUnwind
  <2>3. L \in Seq(Resources)
    BY <2>2 DEF Resources
  <2>4. Orderly(raw, L, H)
    BY <2>1, <2>2 DEF Orderly, Guarded, Uses
  <2>5. {"cve", "npu", "buffer_pool", "media_pipe", "sys"} \subseteq Elems(L)
    BY <2>2 DEF Elems
  <2>6. H \subseteq {"cve", "npu", "buffer_pool", "media_pipe", "sys"} \cup Kept(step)
    BY <1>10, <2>1 DEF Kept
  <2> QED
    BY <2>3, <2>4, <2>5, <2>6
<1>11. CASE n = 9 /\ step = "net"
  <2>1. /\ H \subseteq {"sys", "media_pipe", "buffer_pool", "npu", "yolo", "cve", "venc"}
        /\ {"sys", "media_pipe", "buffer_pool", "npu", "cve", "venc"} \subseteq H
    <3>1. Made(SysInit(raw), n) = {"sys", "vi_vproc_cfg", "media_pipe", "buffer_pool", "sec",
                                   "npu", "yolo", "cve", "venc"}
      BY <1>2, <1>11 DEF Made
    <3> QED
      BY <3>1, OptionalAre DEF Resources
  <2>2. L = <<"venc", "cve", "npu", "buffer_pool", "media_pipe", "sys">>
    BY <1>11 DEF InitUnwind
  <2>3. L \in Seq(Resources)
    BY <2>2 DEF Resources
  <2>4. Orderly(raw, L, H)
    BY <2>1, <2>2 DEF Orderly, Guarded, Uses
  <2>5. {"venc", "cve", "npu", "buffer_pool", "media_pipe", "sys"} \subseteq Elems(L)
    BY <2>2 DEF Elems
  <2>6. H \subseteq {"venc", "cve", "npu", "buffer_pool", "media_pipe", "sys"} \cup Kept(step)
    BY <1>11, <2>1 DEF Kept
  <2> QED
    BY <2>3, <2>4, <2>5, <2>6
<1> QED
  BY <1>1, <1>3, <1>4, <1>5, <1>6, <1>7, <1>8, <1>9, <1>10, <1>11

\* started_vi and started_vproc.
LEMMA NoneOrderly ==
    ASSUME NEW raw, NEW H
    PROVE  <<>> \in Seq(Resources) /\ Orderly(raw, <<>>, H) /\ \A x : x \notin Elems(<<>>)
<1>1. <<>> \in Seq(Resources) /\ Len(<<>>) = 0
  BY EmptySeq
<1> QED
  BY <1>1 DEF Orderly, Elems

LEMMA OneOrderly ==
    ASSUME NEW raw, NEW H, NEW a \in Resources, a \in H, Unused(raw, H, a)
    PROVE  /\ <<a>> \in Seq(Resources) /\ Orderly(raw, <<a>>, H)
           /\ \A x : x \in Elems(<<a>>) <=> x = a
<1>1. <<a>> \in Seq(Resources) /\ Len(<<a>>) = 1 /\ <<a>>[1] = a
  OBVIOUS
<1> QED
  BY <1>1 DEF Orderly, Elems, Unused

LEMMA ThoseOrderly ==
    ASSUME NEW raw, NEW H, NEW a \in Resources, NEW b \in Resources, a # b,
           Unused(raw, H, a), Unused(raw, H, b),
           a \in held => a \in H, b \in held => b \in H
    PROVE  /\ Those(a, b) \in Seq(Resources) /\ Orderly(raw, Those(a, b), H)
           /\ \A x : x \in Elems(Those(a, b)) <=> x \in {a, b} \cap held
<1> DEFINE s == IF a \in held THEN <<a>> ELSE <<>>
           t == IF b \in held THEN <<b>> ELSE <<>>
<1>1. /\ s \in Seq(Resources) /\ Orderly(raw, s, H)
      /\ \A x : x \in Elems(s) <=> a \in held /\ x = a
  <2>1. CASE a \in held
    BY <2>1, OneOrderly
  <2>2. CASE a \notin held
    BY <2>2, NoneOrderly
  <2> QED
    BY <2>1, <2>2
<1>2. /\ t \in Seq(Resources) /\ Orderly(raw, t, H \ Elems(s))
      /\ \A x : x \in Elems(t) <=> b \in held /\ x = b
  <2> DEFINE R == H \ Elems(s)
  <2>1. Unused(raw, R, b) /\ (b \in held => b \in R)
    BY <1>1 DEF Unused
  <2>2. (b \in held => t = <<b>>) /\ (b \notin held => t = <<>>)
    OBVIOUS
  <2> HIDE DEF s, t, R
  <2>3. CASE b \in held
    <3>1. /\ t \in Seq(Resources) /\ Orderly(raw, t, R)
          /\ \A x : x \in Elems(t) <=> x = b
      <4>1. /\ <<b>> \in Seq(Resources) /\ Orderly(raw, <<b>>, R)
            /\ \A x : x \in Elems(<<b>>) <=> x = b
        BY <2>1, <2>3, OneOrderly
      <4>2. t = <<b>>
        BY <2>2, <2>3
      <4> QED
        BY <4>1, <4>2, Zenon
    <3> QED
      BY <2>3, <3>1 DEF R
  <2>4. CASE b \notin held
    <3>1. /\ t \in Seq(Resources) /\ Orderly(raw, t, R)
          /\ \A x : x \notin Elems(t)
      BY <2>2, <2>4, NoneOrderly
    <3> QED
      BY <2>4, <3>1 DEF R
  <2> QED
    BY <2>3, <2>4
<1>3. Those(a, b) = s \o t
  BY DEF Those
<1> HIDE DEF s, t
<1>4. /\ s \o t \in Seq(Resources) /\ Orderly(raw, s \o t, H)
      /\ \A x : x \in Elems(s \o t) <=> x \in Elems(s) \/ x \in Elems(t)
  BY <1>1, <1>2, Compose
<1> QED
  BY <1>1, <1>2, <1>3, <1>4

\* Where one of the startups fails.
LEMMA StartupFails ==
    ASSUME NEW raw \in BOOLEAN, NEW n \in Nat, n + 1 \in 1 .. Len(Startup(raw)),
           NEW step, step = Startup(raw)[n + 1], step \notin Optional(raw) \cup {"threads"},
           held \subseteq Elems(SysInit(raw)) \cup Made(Startup(raw), n),
           held \subseteq Resources,
           {"buffer_pool", "media_pipe", "sys"} \subseteq held
    PROVE  /\ StartupUnwind(raw) \in Seq(Resources)
           /\ Orderly(raw, StartupUnwind(raw), held)
           /\ held \subseteq Elems(StartupUnwind(raw)) \cup Elems(Deinit(raw)) \cup Kept(step)
           /\ {"buffer_pool", "media_pipe", "sys"} \cap Elems(StartupUnwind(raw)) = {}
<1> DEFINE v == Those("vi1", "vi0")
<1>1. CASE raw
  <2> DEFINE s == <<"raw", "scene">>
             H == held \ Elems(s)
  <2>1. held \subseteq {"sys", "media_pipe", "buffer_pool", "vi0", "vi1", "scene"}
    <3>1. n \in 0 .. 3 /\ Startup(raw)[1] = "vi0" /\ Startup(raw)[2] = "vi1"
          /\ Startup(raw)[3] = "scene"
      BY <1>1 DEF Startup
    <3>2. Made(Startup(raw), n) \subseteq {"vi0", "vi1", "scene"}
      BY <3>1 DEF Made
    <3> QED
      BY <1>1, <3>2, InitSteps DEF Resources
  <2>2. s \in Seq(Resources) /\ Elems(s) = {"raw", "scene"}
    BY DEF Resources, Elems
  <2>3. Orderly(raw, s, held)
    BY <1>1, <2>1 DEF Orderly, Guarded, Uses
  <2>4. Unused(raw, H, "vi1") /\ Unused(raw, H, "vi0")
    BY <1>1, <2>1, <2>2 DEF Uses, Unused
  <2>5. /\ v \in Seq(Resources) /\ Orderly(raw, v, H)
        /\ \A x : x \in Elems(v) <=> x \in {"vi1", "vi0"} \cap held
    <3>1. "vi1" \in Resources /\ "vi0" \in Resources /\ "vi1" # "vi0"
      BY DEF Resources
    <3>2. /\ "vi1" \in held => "vi1" \in H
          /\ "vi0" \in held => "vi0" \in H
      BY <2>2
    <3> HIDE DEF H
    <3> QED
      BY <2>4, <3>1, <3>2, ThoseOrderly
  <2>6. StartupUnwind(raw) = (s \o v) \o <<>>
    BY <1>1 DEF StartupUnwind
  <2> HIDE DEF s, v
  <2>7. /\ s \o v \in Seq(Resources) /\ Orderly(raw, s \o v, held)
        /\ \A x : x \in Elems(s \o v) <=> x \in Elems(s) \/ x \in Elems(v)
    BY <2>2, <2>3, <2>5, Compose
  <2>8. StartupUnwind(raw) = s \o v
    BY <2>6, <2>7, ConcatEmptySeq
  <2>9. {"buffer_pool", "media_pipe", "sys"} \subseteq Elems(Deinit(raw))
    BY <1>1 DEF Elems, Deinit
  <2> QED
    BY <2>1, <2>2, <2>5, <2>7, <2>8, <2>9
<1>2. CASE ~raw
  <2> DEFINE p == Those("vproc1", "vproc0")
             l == <<"lut">>
             q == <<"queues">>
  <2>1. held \subseteq Resources \ {"threads", "scene", "raw"}
    <3>1. n \in 0 .. 10
      BY <1>2, OptionalAre DEF Startup
    <3>2. "threads" \notin Made(Startup(raw), n) /\ "scene" \notin Made(Startup(raw), n)
          /\ "raw" \notin Made(Startup(raw), n)
      BY <1>2, <3>1 DEF Made, Startup
    <3> QED
      BY <1>2, <3>2, InitSteps
  <2>2. /\ p \in Seq(Resources) /\ Orderly(raw, p, held)
        /\ \A x : x \in Elems(p) <=> x \in {"vproc1", "vproc0"} \cap held
    <3>1. "vproc1" \in Resources /\ "vproc0" \in Resources /\ "vproc1" # "vproc0"
      BY DEF Resources
    <3>2. Unused(raw, held, "vproc1") /\ Unused(raw, held, "vproc0")
      BY <2>1 DEF Uses, Unused
    <3> QED
      BY <3>1, <3>2, ThoseOrderly
  <2>3. /\ l \in Seq(Resources) /\ Elems(l) = {"lut"} /\ q \in Seq(Resources)
        /\ Elems(q) = {"queues"}
    BY DEF Resources, Elems
  <2>4. Orderly(raw, l, held \ Elems(p))
    BY <2>3 DEF Orderly, Guarded, Uses
  <2> HIDE DEF p, l, q
  <2>5. /\ p \o l \in Seq(Resources) /\ Orderly(raw, p \o l, held)
        /\ \A x : x \in Elems(p \o l) <=> x \in Elems(p) \/ x \in Elems(l)
    BY <2>2, <2>3, <2>4, Compose
  <2> DEFINE H == held \ Elems(p \o l)
  <2>6. /\ v \in Seq(Resources) /\ Orderly(raw, v, H)
        /\ \A x : x \in Elems(v) <=> x \in {"vi1", "vi0"} \cap held
    <3>1. "vi1" \in Resources /\ "vi0" \in Resources /\ "vi1" # "vi0"
      BY DEF Resources
    <3>2. Unused(raw, H, "vi1") /\ Unused(raw, H, "vi0")
      BY <2>1, <2>2, <2>5 DEF Uses, Unused
    <3>3. /\ "vi1" \in held => "vi1" \in H
          /\ "vi0" \in held => "vi0" \in H
      <4>1. \A x \in {"vi1", "vi0"} : x \notin Elems(p) /\ x \notin Elems(l)
        BY <2>2, <2>3
      <4>2. \A x \in {"vi1", "vi0"} : x \notin Elems(p \o l)
        BY <2>5, <4>1
      <4> QED
        BY <4>2
    <3> HIDE DEF H
    <3> QED
      BY <3>1, <3>2, <3>3, ThoseOrderly
  <2>7. StartupUnwind(raw) = ((p \o l) \o v) \o q
    BY <1>2 DEF StartupUnwind, p, l, q
  <2> DEFINE w == (p \o l) \o v
  <2> HIDE DEF v, H
  <2>8. /\ w \in Seq(Resources) /\ Orderly(raw, w, held)
        /\ \A x : x \in Elems(w) <=> x \in Elems(p \o l) \/ x \in Elems(v)
    <3> DEFINE u == p \o l
    <3>1. u \in Seq(Resources) /\ Orderly(raw, u, held)
      BY <2>5
    <3>2. v \in Seq(Resources) /\ Orderly(raw, v, held \ Elems(u))
      BY <2>6 DEF H
    <3> HIDE DEF u
    <3>3. /\ u \o v \in Seq(Resources) /\ Orderly(raw, u \o v, held)
          /\ \A x : x \in Elems(u \o v) <=> x \in Elems(u) \/ x \in Elems(v)
      BY <3>1, <3>2, Compose
    <3> QED
      BY <3>3, Zenon DEF u
  <2>9. Orderly(raw, q, held \ Elems(w))
    BY <2>1 DEF Orderly, q, Guarded, Uses
  <2> HIDE DEF w
  <2>10. /\ StartupUnwind(raw) \in Seq(Resources) /\ Orderly(raw, StartupUnwind(raw), held)
         /\ \A x : x \in Elems(StartupUnwind(raw)) <=> x \in Elems(w) \/ x \in Elems(q)
    <3>1. StartupUnwind(raw) = w \o q
      BY <2>7 DEF w
    <3>2. /\ w \o q \in Seq(Resources) /\ Orderly(raw, w \o q, held)
          /\ \A x : x \in Elems(w \o q) <=> x \in Elems(w) \/ x \in Elems(q)
      BY <2>3, <2>8, <2>9, Compose
    <3> QED
      BY <3>1, <3>2
  <2>11. Elems(StartupUnwind(raw)) = ({"vproc1", "vproc0", "vi1", "vi0"} \cap held)
                                        \cup {"lut", "queues"}
    BY <2>2, <2>3, <2>5, <2>6, <2>8, <2>10
  <2>12. {"net", "venc", "cve", "yolo", "npu", "buffer_pool", "media_pipe", "sys"}
            \subseteq Elems(Deinit(raw))
    BY <1>2 DEF Elems, Deinit
  <2>13. held \subseteq Elems(StartupUnwind(raw)) \cup Elems(Deinit(raw)) \cup Kept(step)
    BY <2>1, <2>11, <2>12 DEF Resources, Kept
  <2> QED
    BY <2>10, <2>11, <2>13
<1> QED
  BY <1>1, <1>2

\* stereo_media_shutdown, after a complete startup.
LEMMA ShutdownOrderly ==
    ASSUME NEW raw \in BOOLEAN,
           NEW H, H \subseteq Elems(SysInit(raw)) \cup Elems(Startup(raw)), H \subseteq Resources,
           \A r \in Elems(SysInit(raw)) \cup Elems(Startup(raw)) :
              r \in Resources \ Optional(raw) => r \in H
    PROVE  /\ Shutdown(raw) \in Seq(Resources) /\ Orderly(raw, Shutdown(raw), H)
           /\ H \subseteq Elems(Shutdown(raw)) \cup Elems(Deinit(raw)) \cup Kept("none")
           /\ {"buffer_pool", "media_pipe", "sys"} \subseteq H \ Elems(Shutdown(raw))
<1>1. CASE raw
  <2>1. Elems(Startup(raw)) = {"vi0", "vi1", "scene", "raw"}
    BY <1>1 DEF Startup, Elems
  <2>2. /\ H \subseteq {"sys", "media_pipe", "buffer_pool", "vi0", "vi1", "scene", "raw"}
        /\ {"sys", "media_pipe", "buffer_pool", "vi0", "vi1", "raw"} \subseteq H
    <3>1. Elems(SysInit(raw)) = {"sys", "vi_vproc_cfg", "media_pipe", "buffer_pool"}
      BY <1>1, InitSteps
    <3>2. "vi_vproc_cfg" \notin Resources
      BY DEF Resources
    <3>3. {"sys", "media_pipe", "buffer_pool", "vi0", "vi1", "raw"}
              \subseteq Resources \ Optional(raw)
      BY <1>1, OptionalAre DEF Resources
    <3>4. H \subseteq {"sys", "media_pipe", "buffer_pool", "vi0", "vi1", "scene", "raw"}
      BY <2>1, <3>1, <3>2
    <3> QED
      BY <2>1, <3>1, <3>3, <3>4
  <2>3. Shutdown(raw) \in Seq(Resources) /\ Orderly(raw, Shutdown(raw), H)
    BY <1>1, <2>2 DEF Orderly, Shutdown, Guarded, Uses, Resources
  <2>4. Elems(Shutdown(raw)) = {"raw", "scene", "vi0", "vi1"}
    BY <1>1 DEF Shutdown, Elems
  <2>5. {"buffer_pool", "media_pipe", "sys"} \subseteq Elems(Deinit(raw))
    BY <1>1 DEF Elems, Deinit
  <2> QED
    BY <2>2, <2>3, <2>4, <2>5
<1>2. CASE ~raw
  <2>1. {"queues", "vi0", "vi1", "lut", "pool0", "pool1", "pool_det", "vproc0", "vproc1",
         "threads"} \subseteq Elems(Startup(raw))
    BY <1>2 DEF Startup, Elems
  <2>2. Resources \ {"yolo", "scene", "raw"} \subseteq H
    BY <1>2, <2>1, InitSteps, OptionalAre DEF Resources
  <2>3. Shutdown(raw) \in Seq(Resources) /\ Orderly(raw, Shutdown(raw), H)
    BY <1>2, <2>2 DEF Orderly, Shutdown, Guarded, Uses, Resources
  <2>4. Elems(Shutdown(raw)) = {"threads", "raw", "scene", "lut", "vproc0", "vi0", "vproc1",
                                "vi1", "queues"}
    BY <1>2 DEF Shutdown, Elems
  <2>5. {"net", "venc", "cve", "yolo", "npu", "buffer_pool", "media_pipe", "sys"}
            \subseteq Elems(Deinit(raw))
    BY <1>2 DEF Elems, Deinit
  <2>6. {"buffer_pool", "media_pipe", "sys"} \subseteq H
    BY <2>2 DEF Resources
  <2>7. H \subseteq Elems(Shutdown(raw)) \cup Elems(Deinit(raw)) \cup Kept("none")
    BY <2>4, <2>5 DEF Resources, Kept
  <2> QED
    BY <2>3, <2>4, <2>6, <2>7
<1> QED
  BY <1>1, <1>2

-----------------------------------------------------------------------------
(* The main thread.                                                        *)

Going   == {"init", "startup", "running"}
Leaving == {"unwind", "shutdown", "deinit"}

Script == IF phase = "init" THEN SysInit(raw_only) ELSE Startup(raw_only)
Base   == IF phase = "init" THEN {} ELSE Elems(SysInit(raw_only))

\* What sys_deinit needs.
Modules == {"buffer_pool", "media_pipe", "sys"}

IType ==
    /\ raw_only \in BOOLEAN /\ quit \in BOOLEAN /\ sys_inited \in BOOLEAN
    /\ phase \in Going \cup Leaving \cup {"exit"}
    /\ phase \notin Leaving => todo \in Seq(Steps)
    /\ phase \in Leaving => todo \in Seq(Resources)
    /\ failed \in MayFail \cup {"none"}
    /\ held \subseteq Resources

\* On the way in, what is held is what the steps made have acquired.
IGoing == phase \in Going =>
    /\ failed = "none" /\ (sys_inited <=> phase # "init")
    /\ \E n \in Nat : Along(Script, n, todo, held, Base, Optional(raw_only))
    /\ phase = "running" => todo = <<>>

\* On the way out, what is still to be released is there and in order, and covers what is
\* held, together with sys_deinit if that is still to come.
ILeaving ==
    /\ phase \in Leaving => Orderly(raw_only, todo, held)
    /\ phase \in {"unwind", "shutdown"} /\ sys_inited =>
          /\ Modules \subseteq held /\ Modules \cap Elems(todo) = {}
          /\ held \subseteq Elems(todo) \cup Elems(Deinit(raw_only)) \cup Kept(failed)
    /\ (phase \in {"unwind", "shutdown"} /\ ~sys_inited) \/ phase = "deinit" =>
          held \subseteq Elems(todo) \cup Kept(failed)
    /\ phase = "exit" => held \subseteq Kept(failed) /\ todo = <<>>

ISupplied == Supplied(raw_only, held)

MainInv == IType /\ IGoing /\ ILeaving /\ ISupplied

LEMMA ScriptsTyped ==
    ASSUME NEW raw \in BOOLEAN
    PROVE  /\ SysInit(raw) \in Seq(Steps) /\ Len(SysInit(raw)) \in Nat
           /\ Startup(raw) \in Seq(Steps) /\ Len(Startup(raw)) \in Nat
<1>1. CASE raw
  BY <1>1 DEF SysInit, Startup, Steps, Resources, Checks
<1>2. CASE ~raw
  BY <1>2 DEF SysInit, Startup, Steps, Resources, Checks
<1> QED
  BY <1>1, <1>2

\* Nothing is left of a sequence that is empty.
LEMMA NoElems == ASSUME NEW s, s = <<>> PROVE Elems(s) = {}
  BY EmptySeq DEF Elems

\* A script of which nothing is left has been made.
LEMMA AllMade ==
    ASSUME NEW S, Len(S) \in Nat, NEW n \in Nat, NEW H, NEW B, NEW opt,
           Along(S, n, <<>>, H, B, opt)
    PROVE  /\ H \subseteq B \cup Elems(S)
           /\ \A r \in B \cup Elems(S) : r \in Resources \ opt => r \in H
<1>1. Len(<<>>) = 0
  BY EmptySeq
<1>2. n = Len(S)
  BY <1>1 DEF Along
<1> QED
  BY <1>2 DEF Along, Made, Elems

\* A script of which nothing has been made yet.
LEMMA NoneMade ==
    ASSUME NEW S, Len(S) \in Nat, NEW H, NEW B, NEW opt,
           H \subseteq B, \A r \in B : r \in Resources \ opt => r \in H
    PROVE  Along(S, 0, S, H, B, opt)
<1>1. Made(S, 0) = {}
  BY DEF Made
<1> QED
  BY <1>1 DEF Along

LEMMA MainInit == Init => MainInv
<1> SUFFICES ASSUME Init PROVE MainInv
  OBVIOUS
<1>1. /\ raw_only \in BOOLEAN /\ phase = "init" /\ todo = SysInit(raw_only) /\ held = {}
      /\ failed = "none" /\ quit = FALSE /\ sys_inited = FALSE
  BY DEF Init
<1>2. IType
  BY <1>1, ScriptsTyped DEF IType, Going, Leaving
<1>3. Along(SysInit(raw_only), 0, todo, held, {}, Optional(raw_only))
  BY <1>1, ScriptsTyped, NoneMade
<1>4. IGoing
  BY <1>1, <1>3 DEF IGoing, Script, Base
<1> QED
  BY <1>1, <1>2, <1>4 DEF MainInv, ILeaving, ISupplied, Supplied, Leaving

\* What a step of a script finds.
LEMMA StepFacts ==
    ASSUME MainInv, phase \in {"init", "startup"}, todo # <<>>
    PROVE  \E n \in Nat :
              /\ n + 1 \in 1 .. Len(Script) /\ Head(todo) = Script[n + 1]
              /\ Head(todo) \in Steps /\ Tail(todo) \in Seq(Steps)
              /\ Along(Script, n, todo, held, Base, Optional(raw_only))
              /\ Along(Script, n + 1, Tail(todo), held \cup ({Head(todo)} \cap Resources), Base,
                       Optional(raw_only))
              /\ Head(todo) \in Optional(raw_only) =>
                    Along(Script, n + 1, Tail(todo), held, Base, Optional(raw_only))
<1>1. todo \in Seq(Steps) /\ raw_only \in BOOLEAN
  BY DEF MainInv, IType, Leaving
<1>2. PICK n \in Nat : Along(Script, n, todo, held, Base, Optional(raw_only))
  BY DEF MainInv, IGoing, Going
<1>3. Len(Script) \in Nat
  BY <1>1, ScriptsTyped DEF Script
<1>4. Head(todo) \in Steps /\ Tail(todo) \in Seq(Steps)
  BY <1>1, HeadTailProperties
<1>5. /\ n + 1 \in 1 .. Len(Script) /\ Head(todo) = Script[n + 1]
      /\ Along(Script, n + 1, Tail(todo), held \cup ({Head(todo)} \cap Resources), Base,
               Optional(raw_only))
      /\ Head(todo) \in Optional(raw_only) =>
            Along(Script, n + 1, Tail(todo), held, Base, Optional(raw_only))
  BY <1>1, <1>2, <1>3, OneStep
<1> QED
  BY <1>2, <1>4, <1>5

LEMMA SucceedMain == MainInv /\ Succeed => MainInv'
<1> SUFFICES ASSUME MainInv, Succeed PROVE MainInv'
  OBVIOUS
<1>1. /\ phase \in {"init", "startup"} /\ todo # <<>>
      /\ held' = held \cup ({Head(todo)} \cap Resources) /\ todo' = Tail(todo)
      /\ UNCHANGED <<raw_only, phase, failed, quit, sys_inited>>
  BY DEF Succeed
<1>2. Script' = Script /\ Base' = Base
  BY <1>1 DEF Script, Base
<1>3. PICK n \in Nat :
        /\ n + 1 \in 1 .. Len(Script) /\ Head(todo) = Script[n + 1]
        /\ Head(todo) \in Steps /\ Tail(todo) \in Seq(Steps)
        /\ Along(Script, n, todo, held, Base, Optional(raw_only))
        /\ Along(Script, n + 1, Tail(todo), held \cup ({Head(todo)} \cap Resources), Base,
                 Optional(raw_only))
  BY <1>1, StepFacts
<1>4. IType'
  BY <1>1, <1>3 DEF MainInv, IType, Going, Leaving
<1>5. n + 1 \in Nat /\ Along(Script, n + 1, todo', held', Base, Optional(raw_only))
  BY <1>1, <1>3
<1>6. IGoing'
  BY <1>1, <1>2, <1>5 DEF MainInv, IGoing, Going
<1>7. ILeaving'
  BY <1>1 DEF ILeaving, Leaving
<1>8. ASSUME NEW d, Uses(raw_only, Head(todo), d)
      PROVE  d \in held
  <2>1. raw_only \in BOOLEAN
    BY DEF MainInv, IType
  <2>2. d \in Base \cup Made(Script, n) /\ d \in Resources \ Optional(raw_only)
    <3>1. CASE phase = "init"
      BY <1>3, <1>8, <2>1, <3>1, InitSupplies DEF Script
    <3>2. CASE phase # "init"
      BY <1>3, <1>8, <2>1, <3>2, StartupSupplies DEF Script, Base
    <3> QED
      BY <3>1, <3>2
  <2> QED
    BY <1>3, <2>2 DEF Along
<1>9. ISupplied'
  BY <1>1, <1>8 DEF MainInv, ISupplied, Supplied
<1> QED
  BY <1>4, <1>6, <1>7, <1>9 DEF MainInv

LEMMA SkipMain == MainInv /\ Skip => MainInv'
<1> SUFFICES ASSUME MainInv, Skip PROVE MainInv'
  OBVIOUS
<1>1. /\ phase \in {"init", "startup"} /\ todo # <<>> /\ Head(todo) \in Optional(raw_only)
      /\ todo' = Tail(todo)
      /\ UNCHANGED <<raw_only, phase, held, failed, quit, sys_inited>>
  BY DEF Skip
<1>2. Script' = Script /\ Base' = Base
  BY <1>1 DEF Script, Base
<1>3. PICK n \in Nat :
        /\ Tail(todo) \in Seq(Steps)
        /\ Along(Script, n + 1, Tail(todo), held, Base, Optional(raw_only))
  BY <1>1, StepFacts
<1>4. IType'
  BY <1>1, <1>3 DEF MainInv, IType, Going, Leaving
<1>5. n + 1 \in Nat /\ Along(Script, n + 1, todo', held', Base, Optional(raw_only))
  BY <1>1, <1>3
<1>6. IGoing'
  BY <1>1, <1>2, <1>5 DEF MainInv, IGoing, Going
<1>7. ILeaving'
  BY <1>1 DEF ILeaving, Leaving
<1>8. ISupplied'
  BY <1>1 DEF MainInv, ISupplied
<1> QED
  BY <1>4, <1>6, <1>7, <1>8 DEF MainInv

LEMMA FailMain == MainInv /\ Fail => MainInv'
<1> SUFFICES ASSUME MainInv, Fail PROVE MainInv'
  OBVIOUS
<1>1. /\ phase \in {"init", "startup"} /\ todo # <<>>
      /\ Head(todo) \in MayFail \ Optional(raw_only)
      /\ phase' = "unwind" /\ failed' = Head(todo)
      /\ UNCHANGED <<raw_only, held, quit, sys_inited>>
  BY DEF Fail
<1>2. PICK n \in Nat :
        /\ n + 1 \in 1 .. Len(Script) /\ Head(todo) = Script[n + 1]
        /\ Along(Script, n, todo, held, Base, Optional(raw_only))
  BY <1>1, StepFacts
<1>3. raw_only \in BOOLEAN /\ held \subseteq Resources
  BY DEF MainInv, IType
<1>4. /\ held \subseteq Base \cup Made(Script, n)
      /\ \A r \in Base \cup Made(Script, n) : r \in Resources \ Optional(raw_only) => r \in held
  BY <1>2 DEF Along
<1>5. ISupplied'
  BY <1>1 DEF MainInv, ISupplied
<1>6. CASE phase = "init"
  <2>1. todo' = InitUnwind(Head(todo)) /\ ~sys_inited
    BY <1>6 DEF Fail, MainInv, IGoing, Going
  <2>2. Script = SysInit(raw_only) /\ Base = {}
    BY <1>6 DEF Script, Base
  <2>3. /\ todo' \in Seq(Resources) /\ Orderly(raw_only, todo', held)
        /\ held \subseteq Elems(todo') \cup Kept(Head(todo))
    BY <1>1, <1>2, <1>3, <1>4, <2>1, <2>2, InitFails
  <2>4. IType'
    BY <1>1, <2>3 DEF MainInv, IType, Going, Leaving
  <2>5. IGoing' /\ ILeaving'
    BY <1>1, <2>1, <2>3 DEF IGoing, ILeaving, Going
  <2> QED
    BY <1>5, <2>4, <2>5 DEF MainInv
<1>7. CASE phase # "init"
  <2>1. todo' = StartupUnwind(raw_only) /\ sys_inited
    BY <1>1, <1>7 DEF Fail, MainInv, IGoing, Going
  <2>2. Script = Startup(raw_only) /\ Base = Elems(SysInit(raw_only))
    BY <1>7 DEF Script, Base
  <2>3. Modules \subseteq held
    <3>1. /\ Modules \subseteq Elems(SysInit(raw_only))
          /\ Modules \subseteq Resources \ Optional(raw_only)
      BY <1>3, InitSteps, OptionalAre DEF Modules, Resources
    <3> QED
      BY <1>4, <2>2, <3>1
  <2>4. Head(todo) \notin Optional(raw_only) \cup {"threads"}
    BY <1>1, LifecycleAssumption
  <2>5. /\ todo' \in Seq(Resources) /\ Orderly(raw_only, todo', held)
        /\ held \subseteq Elems(todo') \cup Elems(Deinit(raw_only)) \cup Kept(Head(todo))
        /\ Modules \cap Elems(todo') = {}
    BY <1>2, <1>3, <1>4, <2>1, <2>2, <2>3, <2>4, StartupFails DEF Modules
  <2>6. IType'
    BY <1>1, <2>5 DEF MainInv, IType, Going, Leaving
  <2>7. IGoing' /\ ILeaving'
    BY <1>1, <2>1, <2>3, <2>5 DEF IGoing, ILeaving, Going
  <2> QED
    BY <1>5, <2>6, <2>7 DEF MainInv
<1> QED
  BY <1>6, <1>7

LEMMA InitDoneMain == MainInv /\ InitDone => MainInv'
<1> SUFFICES ASSUME MainInv, InitDone PROVE MainInv'
  OBVIOUS
<1>1. /\ phase = "init" /\ todo = <<>> /\ sys_inited' = TRUE /\ phase' = "startup"
      /\ todo' = Startup(raw_only) /\ UNCHANGED <<raw_only, held, failed, quit>>
  BY DEF InitDone
<1>2. raw_only \in BOOLEAN /\ Len(SysInit(raw_only)) \in Nat /\ Len(Startup(raw_only)) \in Nat
  BY ScriptsTyped DEF MainInv, IType
<1>3. PICK n \in Nat : Along(SysInit(raw_only), n, <<>>, held, {}, Optional(raw_only))
  BY <1>1 DEF MainInv, IGoing, Going, Script, Base
<1>4. /\ held \subseteq Elems(SysInit(raw_only))
      /\ \A r \in Elems(SysInit(raw_only)) : r \in Resources \ Optional(raw_only) => r \in held
  BY <1>2, <1>3, AllMade
<1>5. Along(Startup(raw_only), 0, Startup(raw_only), held, Elems(SysInit(raw_only)),
            Optional(raw_only))
  BY <1>2, <1>4, NoneMade
<1>6. IType'
  BY <1>1, <1>2, ScriptsTyped DEF MainInv, IType, Going, Leaving
<1>7. Script' = Startup(raw_only) /\ Base' = Elems(SysInit(raw_only))
  BY <1>1 DEF Script, Base
<1>8. IGoing'
  BY <1>1, <1>5, <1>7 DEF MainInv, IGoing, Going
<1> QED
  BY <1>1, <1>6, <1>8 DEF MainInv, ILeaving, ISupplied, Leaving

LEMMA StartupDoneMain == MainInv /\ StartupDone => MainInv'
<1> SUFFICES ASSUME MainInv, StartupDone PROVE MainInv'
  OBVIOUS
<1>1. /\ phase = "startup" /\ todo = <<>> /\ phase' = "running"
      /\ UNCHANGED <<raw_only, todo, held, failed, quit, sys_inited>>
  BY DEF StartupDone
<1>2. IType'
  BY <1>1 DEF MainInv, IType, Going, Leaving
<1>3. Script' = Script /\ Base' = Base
  BY <1>1 DEF Script, Base
<1>4. IGoing'
  BY <1>1, <1>3 DEF MainInv, IGoing, Going
<1> QED
  BY <1>1, <1>2, <1>4 DEF MainInv, ILeaving, ISupplied, Leaving

LEMMA StopMain == MainInv /\ Stop => MainInv'
<1> SUFFICES ASSUME MainInv, Stop PROVE MainInv'
  OBVIOUS
<1>1. /\ phase = "running" /\ phase' = "shutdown" /\ todo' = Shutdown(raw_only)
      /\ UNCHANGED <<raw_only, held, failed, quit, sys_inited>>
  BY DEF Stop
<1>2. raw_only \in BOOLEAN /\ Len(Startup(raw_only)) \in Nat /\ held \subseteq Resources
  BY ScriptsTyped DEF MainInv, IType
<1>3. PICK n \in Nat :
        Along(Startup(raw_only), n, <<>>, held, Elems(SysInit(raw_only)), Optional(raw_only))
  BY <1>1 DEF MainInv, IGoing, Going, Script, Base
<1>4. /\ held \subseteq Elems(SysInit(raw_only)) \cup Elems(Startup(raw_only))
      /\ \A r \in Elems(SysInit(raw_only)) \cup Elems(Startup(raw_only)) :
            r \in Resources \ Optional(raw_only) => r \in held
  BY <1>2, <1>3, AllMade
<1>5. /\ todo' \in Seq(Resources) /\ Orderly(raw_only, todo', held)
      /\ held \subseteq Elems(todo') \cup Elems(Deinit(raw_only)) \cup Kept("none")
      /\ Modules \subseteq held \ Elems(todo')
  BY <1>1, <1>2, <1>4, ShutdownOrderly DEF Modules
<1>6. failed = "none" /\ sys_inited
  BY <1>1 DEF MainInv, IGoing, Going
<1>7. IType'
  BY <1>1, <1>5 DEF MainInv, IType, Going, Leaving
<1>8. ILeaving'
  BY <1>1, <1>5, <1>6 DEF ILeaving
<1> QED
  BY <1>1, <1>7, <1>8 DEF MainInv, IGoing, ISupplied, Going

LEMMA ReleaseMain == MainInv /\ Release => MainInv'
<1> SUFFICES ASSUME MainInv, Release PROVE MainInv'
  OBVIOUS
<1>1. /\ phase \in Leaving /\ todo # <<>> /\ held' = held \ {Head(todo)} /\ todo' = Tail(todo)
      /\ UNCHANGED <<raw_only, phase, failed, quit, sys_inited>>
  BY DEF Release, Leaving
<1>2. /\ todo \in Seq(Resources) /\ Orderly(raw_only, todo, held) /\ Supplied(raw_only, held)
  BY <1>1 DEF MainInv, IType, ILeaving, ISupplied
<1>3. /\ Supplied(raw_only, held')
      /\ todo' \in Seq(Resources) /\ Orderly(raw_only, todo', held')
      /\ \A x : x \in Elems(todo) <=> x = Head(todo) \/ x \in Elems(todo')
  BY <1>1, <1>2, Shed
<1>4. IType'
  BY <1>1, <1>3 DEF MainInv, IType
<1>5. ILeaving'
  <2>1. phase # "exit"
    BY <1>1 DEF Leaving
  <2> QED
    BY <1>1, <1>3, <2>1 DEF MainInv, ILeaving
<1>6. IGoing'
  BY <1>1 DEF IGoing, Going, Leaving
<1> QED
  BY <1>1, <1>3, <1>4, <1>5, <1>6 DEF MainInv, ISupplied

LEMMA CloseMain == MainInv /\ Close => MainInv'
<1> SUFFICES ASSUME MainInv, Close PROVE MainInv'
  OBVIOUS
<1>1. /\ phase \in {"unwind", "shutdown"} /\ todo = <<>>
      /\ UNCHANGED <<raw_only, held, failed, quit, sys_inited>>
  BY DEF Close
<1>2. Elems(todo) = {} /\ raw_only \in BOOLEAN /\ todo \in Seq(Steps)
  BY <1>1, NoElems, EmptySeq DEF MainInv, IType
<1>3. CASE sys_inited
  <2>1. phase' = "deinit" /\ todo' = Deinit(raw_only)
    BY <1>3 DEF Close
  <2>2. Modules \subseteq held /\ held \subseteq Elems(Deinit(raw_only)) \cup Kept(failed)
    BY <1>1, <1>2, <1>3 DEF MainInv, ILeaving
  <2>3. Kept(failed) \subseteq {"pool0", "pool1", "pool_det", "yolo"}
    BY DEF Kept
  <2>4. todo' \in Seq(Resources) /\ Orderly(raw_only, todo', held)
    BY <1>2, <2>1, <2>2, <2>3, DeinitOrderly DEF Modules
  <2>5. IType'
    BY <1>1, <2>1, <2>4 DEF MainInv, IType, Going, Leaving
  <2>6. ILeaving' /\ IGoing'
    BY <1>1, <2>1, <2>2, <2>4 DEF ILeaving, IGoing, Going
  <2> QED
    BY <1>1, <2>5, <2>6 DEF MainInv, ISupplied
<1>4. CASE ~sys_inited
  <2>1. phase' = "exit" /\ todo' = todo
    BY <1>4 DEF Close
  <2>2. held \subseteq Kept(failed)
    BY <1>1, <1>2, <1>4 DEF MainInv, ILeaving
  <2>3. IType'
    BY <1>1, <1>2, <2>1 DEF MainInv, IType, Going, Leaving
  <2>4. ILeaving' /\ IGoing'
    BY <1>1, <2>1, <2>2 DEF ILeaving, IGoing, Going, Leaving
  <2> QED
    BY <1>1, <2>3, <2>4 DEF MainInv, ISupplied
<1> QED
  BY <1>3, <1>4

LEMMA ExitMain == MainInv /\ Exit => MainInv'
<1> SUFFICES ASSUME MainInv, Exit PROVE MainInv'
  OBVIOUS
<1>1. /\ phase = "deinit" /\ todo = <<>> /\ sys_inited' = FALSE /\ phase' = "exit"
      /\ UNCHANGED <<raw_only, todo, held, failed, quit>>
  BY DEF Exit
<1>2. Elems(todo) = {} /\ todo \in Seq(Steps)
  BY <1>1, NoElems, EmptySeq
<1>3. IType'
  BY <1>1, <1>2 DEF MainInv, IType, Going, Leaving
<1>4. ILeaving' /\ IGoing'
  BY <1>1, <1>2 DEF MainInv, ILeaving, IGoing, Going, Leaving
<1> QED
  BY <1>1, <1>3, <1>4 DEF MainInv, ISupplied

\* A signal, or a step of the server.
LEMMA OtherMain ==
    ASSUME MainInv, UNCHANGED <<raw_only, phase, todo, held, failed, sys_inited>>,
           quit' \in BOOLEAN
    PROVE  MainInv'
<1>1. Script' = Script /\ Base' = Base
  BY DEF Script, Base
<1>2. IType' /\ ILeaving' /\ ISupplied'
  BY DEF MainInv, IType, ILeaving, ISupplied
<1>3. IGoing'
  BY <1>1 DEF MainInv, IGoing
<1> QED
  BY <1>2, <1>3 DEF MainInv

-----------------------------------------------------------------------------
(* The raw capture server.                                                 *)

\* The cameras still to be captured, the frames the client has and the ones it asked for.
Answer(t, g, a) ==
    \/ t = <<"left", "right">> /\ g = <<>> /\ "left" \in a /\ "right" \in a
    \/ t = <<"right">> /\ g = <<>> /\ "right" \in a
    \/ t = <<"right">> /\ g = <<"left">> /\ "left" \in a /\ "right" \in a
    \/ t = <<"left">> /\ g = <<>> /\ "left" \in a
    \/ t = <<>> /\ g = <<>>
    \/ t = <<>> /\ g = <<"left">> /\ "left" \in a
    \/ t = <<>> /\ g = <<"right">> /\ "right" \in a
    \/ t = <<>> /\ g = <<"left", "right">> /\ "left" \in a /\ "right" \in a

Serving == {"enable", "get", "send", "close"}

RBasics ==
    /\ raw_main \in {"off", "on", "stopping", "joining"}
    /\ raw_run \in BOOLEAN /\ raw_fd \in BOOLEAN
    /\ raw_pc \in Serving \cup {"none", "loop", "accept", "recv", "exit"}
    /\ raw_clients \in 0 .. MaxClients
    /\ raw_client \in {"none", "waiting", "up", "gone"}
    /\ raw_asked \subseteq {"left", "right"}

\* A channel is dumped between two steps of its capture and at no other time.
RChannels ==
    /\ raw_pc \notin {"get", "send"} => raw_dump = {} /\ raw_held = {}
    /\ raw_pc = "get"  => raw_todo # <<>> /\ raw_dump = {Head(raw_todo)} /\ raw_held = {}
    /\ raw_pc = "send" => /\ raw_todo # <<>>
                          /\ raw_dump = {Head(raw_todo)} /\ raw_held = {Head(raw_todo)}

RAnswers ==
    /\ raw_pc \in Serving => Answer(raw_todo, raw_got, raw_asked)
    /\ raw_pc \notin Serving => raw_todo = <<>> /\ raw_got = <<>>
    /\ raw_pc = "close" => raw_todo = <<>>

RawInv == RBasics /\ RChannels /\ RAnswers

LEMMA LeftRight == Append(<<"left">>, "right") = <<"left", "right">>
<1>1. <<"left">> \in Seq({"left", "right"}) /\ <<"left", "right">> \in Seq({"left", "right"})
  OBVIOUS
<1>2. Len(<<"left">>) = 1 /\ Len(<<"left", "right">>) = 2
  OBVIOUS
<1>3. /\ <<"left">>[1] = "left" /\ <<"left", "right">>[1] = "left"
      /\ <<"left", "right">>[2] = "right"
  OBVIOUS
<1> DEFINE a == Append(<<"left">>, "right")
<1>4. a \in Seq({"left", "right"}) /\ Len(a) = 2 /\ a[1] = "left" /\ a[2] = "right"
  BY <1>1, <1>2, <1>3, AppendProperties
<1> HIDE DEF a
<1>5. \A i \in 1 .. 2 : i = 1 \/ i = 2
  OBVIOUS
<1>6. \A i \in 1 .. Len(a) : a[i] = <<"left", "right">>[i]
  BY <1>3, <1>4, <1>5
<1>7. Len(a) = Len(<<"left", "right">>)
  BY <1>2, <1>4
<1> DEFINE b == <<"left", "right">>
<1>8. b \in Seq({"left", "right"}) /\ Len(a) = Len(b) /\ \A i \in 1 .. Len(a) : a[i] = b[i]
  BY <1>1, <1>6, <1>7
<1>9. a = b
  <2> HIDE DEF b
  <2> QED
    BY <1>4, <1>8, SeqEqual
<1> QED
  BY <1>9 DEF a

\* The four sequences of cameras.
LEMMA CamSeqs ==
    /\ <<"left">> # <<>> /\ <<"right">> # <<>> /\ <<"left", "right">> # <<>>
    /\ Head(<<"left">>) = "left" /\ Head(<<"right">>) = "right"
    /\ Head(<<"left", "right">>) = "left"
    /\ Tail(<<"left">>) = <<>> /\ Tail(<<"right">>) = <<>>
    /\ Tail(<<"left", "right">>) = <<"right">>
    /\ Append(<<>>, "left") = <<"left">> /\ Append(<<>>, "right") = <<"right">>
    /\ Append(<<"left">>, "right") = <<"left", "right">>
    /\ <<"left">> \o <<"right">> = <<"left", "right">>
<1>1. <<"left">> \in Seq({"left", "right"}) /\ "right" \in {"left", "right"}
  OBVIOUS
<1>2. <<"left">> \o <<"right">> = <<"left", "right">>
  BY <1>1, LeftRight, AppendIsConcat
<1> QED
  BY <1>2, LeftRight

\* Another camera captured, or given up.
LEMMA Served ==
    ASSUME NEW t, NEW g, NEW a, Answer(t, g, a), t # <<>>
    PROVE  /\ Head(t) \in {"left", "right"}
           /\ Answer(Tail(t), g, a) /\ Answer(Tail(t), Append(g, Head(t)), a)
<1>1. CASE t = <<"left", "right">> /\ g = <<>> /\ "left" \in a /\ "right" \in a
  BY <1>1, CamSeqs DEF Answer
<1>2. CASE t = <<"right">> /\ g = <<>> /\ "right" \in a
  BY <1>2, CamSeqs DEF Answer
<1>3. CASE t = <<"right">> /\ g = <<"left">> /\ "left" \in a /\ "right" \in a
  BY <1>3, CamSeqs DEF Answer
<1>4. CASE t = <<"left">> /\ g = <<>> /\ "left" \in a
  BY <1>4, CamSeqs DEF Answer
<1> QED
  BY <1>1, <1>2, <1>3, <1>4 DEF Answer

LEMMA WantedAnswers ==
    ASSUME NEW mask
    PROVE  Answer(Raw!Wanted(mask), <<>>,
                  IF mask = {} THEN {"left", "right"} ELSE mask \cap {"left", "right"})
<1>1. /\ <<"left">> \o <<"right">> = <<"left", "right">>
      /\ <<"left">> \o <<>> = <<"left">> /\ <<>> \o <<"right">> = <<"right">>
      /\ <<>> \o <<>> = <<>>
  BY CamSeqs
<1>2. CASE mask = {}
  BY <1>1, <1>2 DEF Answer, Raw!Wanted
<1>3. CASE mask # {} /\ "left" \in mask /\ "right" \in mask
  BY <1>1, <1>3 DEF Answer, Raw!Wanted
<1>4. CASE mask # {} /\ "left" \in mask /\ "right" \notin mask
  BY <1>1, <1>4 DEF Answer, Raw!Wanted
<1>5. CASE mask # {} /\ "left" \notin mask /\ "right" \in mask
  BY <1>1, <1>5 DEF Answer, Raw!Wanted
<1>6. CASE mask # {} /\ "left" \notin mask /\ "right" \notin mask
  BY <1>1, <1>6 DEF Answer, Raw!Wanted
<1> QED
  BY <1>2, <1>3, <1>4, <1>5, <1>6

LEMMA StartRawInv == RawInv /\ Raw!Start => RawInv'
<1> SUFFICES ASSUME RawInv, Raw!Start PROVE RawInv'
  OBVIOUS
<1>1. /\ raw_pc = "none"
      /\ raw_main' = "on" /\ raw_run' = TRUE /\ raw_fd' = TRUE /\ raw_pc' = "loop"
      /\ UNCHANGED <<raw_todo, raw_dump, raw_held, raw_clients, raw_client, raw_asked, raw_got>>
  BY DEF Raw!Start, Raw!ServerUnchanged
<1>2. RBasics'
  BY <1>1 DEF RawInv, RBasics, Serving
<1>3. RChannels'
  BY <1>1 DEF RawInv, RChannels, RAnswers, Serving
<1>4. RAnswers'
  BY <1>1 DEF RawInv, RAnswers, Serving
<1> QED
  BY <1>2, <1>3, <1>4 DEF RawInv

LEMMA StopFlagRawInv == RawInv /\ Raw!StopFlag => RawInv'
<1> SUFFICES ASSUME RawInv, Raw!StopFlag PROVE RawInv'
  OBVIOUS
<1>1. /\ raw_main' = "stopping" /\ raw_run' = FALSE
      /\ UNCHANGED <<raw_fd, raw_pc, raw_todo, raw_dump, raw_held, raw_clients, raw_client,
                     raw_asked, raw_got>>
  BY DEF Raw!StopFlag, Raw!ServerUnchanged
<1>2. RBasics'
  BY <1>1 DEF RawInv, RBasics, Serving
<1>3. RChannels'
  BY <1>1 DEF RawInv, RChannels, RAnswers, Serving
<1>4. RAnswers'
  BY <1>1 DEF RawInv, RAnswers, Serving
<1> QED
  BY <1>2, <1>3, <1>4 DEF RawInv

LEMMA StopCloseRawInv == RawInv /\ Raw!StopClose => RawInv'
<1> SUFFICES ASSUME RawInv, Raw!StopClose PROVE RawInv'
  OBVIOUS
<1>1. /\ raw_main' = "joining" /\ raw_fd' = FALSE
      /\ raw_client' = IF raw_client = "waiting" THEN "gone" ELSE raw_client
      /\ UNCHANGED <<raw_run, raw_pc, raw_todo, raw_dump, raw_held, raw_clients, raw_asked,
                     raw_got>>
  BY DEF Raw!StopClose
<1>2. RBasics'
  BY <1>1 DEF RawInv, RBasics, Serving
<1>3. RChannels'
  BY <1>1 DEF RawInv, RChannels, RAnswers, Serving
<1>4. RAnswers'
  BY <1>1 DEF RawInv, RAnswers, Serving
<1> QED
  BY <1>2, <1>3, <1>4 DEF RawInv

LEMMA StopJoinRawInv == RawInv /\ Raw!StopJoin => RawInv'
<1> SUFFICES ASSUME RawInv, Raw!StopJoin PROVE RawInv'
  OBVIOUS
<1>1. /\ raw_main' = "off"
      /\ UNCHANGED <<raw_run, raw_fd, raw_pc, raw_todo, raw_dump, raw_held, raw_clients,
                     raw_client, raw_asked, raw_got>>
  BY DEF Raw!StopJoin, Raw!ServerUnchanged
<1>2. RBasics'
  BY <1>1 DEF RawInv, RBasics, Serving
<1>3. RChannels'
  BY <1>1 DEF RawInv, RChannels, RAnswers, Serving
<1>4. RAnswers'
  BY <1>1 DEF RawInv, RAnswers, Serving
<1> QED
  BY <1>2, <1>3, <1>4 DEF RawInv

LEMMA LeaveRawInv == RawInv /\ Raw!Leave => RawInv'
<1> SUFFICES ASSUME RawInv, Raw!Leave PROVE RawInv'
  OBVIOUS
<1>1. /\ raw_pc = "loop"
      /\ raw_pc' = "exit"
      /\ UNCHANGED <<raw_main, raw_run, raw_fd, raw_todo, raw_dump, raw_held, raw_clients,
                     raw_client, raw_asked, raw_got>>
  BY DEF Raw!Leave, Raw!MainUnchanged
<1>2. RBasics'
  BY <1>1 DEF RawInv, RBasics, Serving
<1>3. RChannels'
  BY <1>1 DEF RawInv, RChannels, RAnswers, Serving
<1>4. RAnswers'
  BY <1>1 DEF RawInv, RAnswers, Serving
<1> QED
  BY <1>2, <1>3, <1>4 DEF RawInv

LEMMA LoopRawInv == RawInv /\ Raw!Loop => RawInv'
<1> SUFFICES ASSUME RawInv, Raw!Loop PROVE RawInv'
  OBVIOUS
<1>1. /\ raw_pc = "loop"
      /\ raw_pc' = "accept"
      /\ UNCHANGED <<raw_main, raw_run, raw_fd, raw_todo, raw_dump, raw_held, raw_clients,
                     raw_client, raw_asked, raw_got>>
  BY DEF Raw!Loop, Raw!MainUnchanged
<1>2. RBasics'
  BY <1>1 DEF RawInv, RBasics, Serving
<1>3. RChannels'
  BY <1>1 DEF RawInv, RChannels, RAnswers, Serving
<1>4. RAnswers'
  BY <1>1 DEF RawInv, RAnswers, Serving
<1> QED
  BY <1>2, <1>3, <1>4 DEF RawInv

LEMMA AcceptRawInv == RawInv /\ Raw!Accept => RawInv'
<1> SUFFICES ASSUME RawInv, Raw!Accept PROVE RawInv'
  OBVIOUS
<1>1. /\ raw_pc = "accept"
      /\ raw_pc' = "recv" /\ raw_client' = "up"
      /\ UNCHANGED <<raw_main, raw_run, raw_fd, raw_todo, raw_dump, raw_held, raw_clients,
                     raw_asked, raw_got>>
  BY DEF Raw!Accept, Raw!MainUnchanged
<1>2. RBasics'
  BY <1>1 DEF RawInv, RBasics, Serving
<1>3. RChannels'
  BY <1>1 DEF RawInv, RChannels, RAnswers, Serving
<1>4. RAnswers'
  BY <1>1 DEF RawInv, RAnswers, Serving
<1> QED
  BY <1>2, <1>3, <1>4 DEF RawInv

LEMMA AcceptFailsRawInv == RawInv /\ Raw!AcceptFails => RawInv'
<1> SUFFICES ASSUME RawInv, Raw!AcceptFails PROVE RawInv'
  OBVIOUS
<1>1. /\ raw_pc = "accept"
      /\ raw_pc' = "loop"
      /\ UNCHANGED <<raw_main, raw_run, raw_fd, raw_todo, raw_dump, raw_held, raw_clients,
                     raw_client, raw_asked, raw_got>>
  BY DEF Raw!AcceptFails, Raw!MainUnchanged
<1>2. RBasics'
  BY <1>1 DEF RawInv, RBasics, Serving
<1>3. RChannels'
  BY <1>1 DEF RawInv, RChannels, RAnswers, Serving
<1>4. RAnswers'
  BY <1>1 DEF RawInv, RAnswers, Serving
<1> QED
  BY <1>2, <1>3, <1>4 DEF RawInv

LEMMA RecvFailsRawInv == RawInv /\ Raw!RecvFails => RawInv'
<1> SUFFICES ASSUME RawInv, Raw!RecvFails PROVE RawInv'
  OBVIOUS
<1>1. /\ raw_pc = "recv"
      /\ raw_pc' = "close"
      /\ UNCHANGED <<raw_main, raw_run, raw_fd, raw_todo, raw_dump, raw_held, raw_clients,
                     raw_client, raw_asked, raw_got>>
  BY DEF Raw!RecvFails, Raw!MainUnchanged
<1>2. RBasics'
  BY <1>1 DEF RawInv, RBasics, Serving
<1>3. RChannels'
  BY <1>1 DEF RawInv, RChannels, RAnswers, Serving
<1>4. RAnswers'
  BY <1>1 DEF Answer, RawInv, RAnswers, Serving
<1> QED
  BY <1>2, <1>3, <1>4 DEF RawInv

LEMMA DoneRawInv == RawInv /\ Raw!Done => RawInv'
<1> SUFFICES ASSUME RawInv, Raw!Done PROVE RawInv'
  OBVIOUS
<1>1. /\ raw_pc = "enable" /\ raw_todo = <<>>
      /\ raw_pc' = "close"
      /\ UNCHANGED <<raw_main, raw_run, raw_fd, raw_todo, raw_dump, raw_held, raw_clients,
                     raw_client, raw_asked, raw_got>>
  BY DEF Raw!Done, Raw!MainUnchanged
<1>2. RBasics'
  BY <1>1 DEF RawInv, RBasics, Serving
<1>3. RChannels'
  BY <1>1 DEF RawInv, RChannels, RAnswers, Serving
<1>4. RAnswers'
  BY <1>1 DEF RawInv, RAnswers, Serving
<1> QED
  BY <1>2, <1>3, <1>4 DEF RawInv

LEMMA CloseRawInv == RawInv /\ Raw!Close => RawInv'
<1> SUFFICES ASSUME RawInv, Raw!Close PROVE RawInv'
  OBVIOUS
<1>1. /\ raw_pc = "close"
      /\ raw_pc' = "loop" /\ raw_client' = "none" /\ raw_asked' = {} /\ raw_got' = <<>>
      /\ UNCHANGED <<raw_main, raw_run, raw_fd, raw_todo, raw_dump, raw_held, raw_clients>>
  BY DEF Raw!Close, Raw!MainUnchanged
<1>2. RBasics'
  BY <1>1 DEF RawInv, RBasics, Serving
<1>3. RChannels'
  BY <1>1 DEF RawInv, RChannels, RAnswers, Serving
<1>4. RAnswers'
  BY <1>1 DEF RawInv, RAnswers, Serving
<1> QED
  BY <1>2, <1>3, <1>4 DEF RawInv

LEMMA ConnectRawInv == RawInv /\ Raw!Connect => RawInv'
<1> SUFFICES ASSUME RawInv, Raw!Connect PROVE RawInv'
  OBVIOUS
<1>1. /\ raw_clients < MaxClients
      /\ raw_clients' = raw_clients + 1 /\ raw_client' = "waiting"
      /\ UNCHANGED <<raw_main, raw_run, raw_fd, raw_pc, raw_todo, raw_dump, raw_held, raw_asked,
                     raw_got>>
  BY DEF Raw!Connect
<1>2. RBasics'
  BY <1>1, AppAssumption DEF RawInv, RBasics, Serving
<1>3. RChannels'
  BY <1>1 DEF RawInv, RChannels, RAnswers, Serving
<1>4. RAnswers'
  BY <1>1 DEF RawInv, RAnswers, Serving
<1> QED
  BY <1>2, <1>3, <1>4 DEF RawInv

LEMMA GoRawInv == RawInv /\ Raw!Go => RawInv'
<1> SUFFICES ASSUME RawInv, Raw!Go PROVE RawInv'
  OBVIOUS
<1>1. /\ raw_client' = "gone"
      /\ UNCHANGED <<raw_main, raw_run, raw_fd, raw_pc, raw_todo, raw_dump, raw_held,
                     raw_clients, raw_asked, raw_got>>
  BY DEF Raw!Go
<1>2. RBasics'
  BY <1>1 DEF RawInv, RBasics, Serving
<1>3. RChannels'
  BY <1>1 DEF RawInv, RChannels, RAnswers, Serving
<1>4. RAnswers'
  BY <1>1 DEF RawInv, RAnswers, Serving
<1> QED
  BY <1>2, <1>3, <1>4 DEF RawInv

LEMMA EnableRawInv == RawInv /\ Raw!Enable => RawInv'
<1> SUFFICES ASSUME RawInv, Raw!Enable PROVE RawInv'
  OBVIOUS
<1>1. /\ raw_pc = "enable" /\ raw_todo # <<>>
      /\ raw_pc' = "get" /\ raw_dump' = raw_dump \cup {Head(raw_todo)}
      /\ UNCHANGED <<raw_main, raw_run, raw_fd, raw_todo, raw_held, raw_clients, raw_client,
                     raw_asked, raw_got>>
  BY DEF Raw!Enable, Raw!MainUnchanged
<1>2. RBasics'
  BY <1>1 DEF RawInv, RBasics, Serving
<1>3. RChannels'
  BY <1>1 DEF RawInv, RChannels, RAnswers, Serving
<1>4. RAnswers'
  BY <1>1 DEF RawInv, RAnswers, Serving
<1> QED
  BY <1>2, <1>3, <1>4 DEF RawInv

LEMMA EnableFailsRawInv == RawInv /\ Raw!EnableFails => RawInv'
<1> SUFFICES ASSUME RawInv, Raw!EnableFails PROVE RawInv'
  OBVIOUS
<1>1. /\ raw_pc = "enable" /\ raw_todo # <<>>
      /\ raw_todo' = Tail(raw_todo)
      /\ UNCHANGED <<raw_main, raw_run, raw_fd, raw_pc, raw_dump, raw_held, raw_clients,
                     raw_client, raw_asked, raw_got>>
  BY DEF Raw!EnableFails, Raw!MainUnchanged
<1>2. RBasics'
  BY <1>1 DEF RawInv, RBasics, Serving
<1>3. RChannels'
  BY <1>1 DEF RawInv, RChannels, RAnswers, Serving
<1>4. RAnswers'
  BY <1>1, Served DEF RawInv, RAnswers, Serving
<1> QED
  BY <1>2, <1>3, <1>4 DEF RawInv

LEMMA GetRawInv == RawInv /\ Raw!Get => RawInv'
<1> SUFFICES ASSUME RawInv, Raw!Get PROVE RawInv'
  OBVIOUS
<1>1. /\ raw_pc = "get"
      /\ raw_pc' = "send" /\ raw_held' = raw_held \cup {Head(raw_todo)}
      /\ UNCHANGED <<raw_main, raw_run, raw_fd, raw_todo, raw_dump, raw_clients, raw_client,
                     raw_asked, raw_got>>
  BY DEF Raw!Get, Raw!MainUnchanged
<1>2. RBasics'
  BY <1>1 DEF RawInv, RBasics, Serving
<1>3. RChannels'
  BY <1>1 DEF RawInv, RChannels, RAnswers, Serving
<1>4. RAnswers'
  BY <1>1 DEF RawInv, RAnswers, Serving
<1> QED
  BY <1>2, <1>3, <1>4 DEF RawInv

LEMMA GetFailsRawInv == RawInv /\ Raw!GetFails => RawInv'
<1> SUFFICES ASSUME RawInv, Raw!GetFails PROVE RawInv'
  OBVIOUS
<1>1. /\ raw_pc = "get"
      /\ raw_pc' = "enable" /\ raw_dump' = raw_dump \ {Head(raw_todo)}
      /\ raw_todo' = Tail(raw_todo)
      /\ UNCHANGED <<raw_main, raw_run, raw_fd, raw_held, raw_clients, raw_client, raw_asked,
                     raw_got>>
  BY DEF Raw!GetFails, Raw!MainUnchanged
<1>2. RBasics'
  BY <1>1 DEF RawInv, RBasics, Serving
<1>3. RChannels'
  BY <1>1 DEF RawInv, RChannels, RAnswers, Serving
<1>4. RAnswers'
  BY <1>1, Served DEF RChannels, RawInv, RAnswers, Serving
<1> QED
  BY <1>2, <1>3, <1>4 DEF RawInv

LEMMA RecvRawInv == RawInv /\ Raw!Recv => RawInv'
<1> SUFFICES ASSUME RawInv, Raw!Recv PROVE RawInv'
  OBVIOUS
<1>1. /\ raw_pc = "recv" /\ raw_pc' = "enable"
      /\ UNCHANGED <<raw_main, raw_run, raw_fd, raw_dump, raw_held, raw_clients, raw_client,
                     raw_got>>
  BY DEF Raw!Recv, Raw!MainUnchanged
<1>2. PICK mask : /\ raw_todo' = Raw!Wanted(mask)
                  /\ raw_asked' = IF mask = {} THEN {"left", "right"}
                                  ELSE mask \cap {"left", "right"}
  BY DEF Raw!Recv, Raw!Cams
<1>3. Answer(raw_todo', <<>>, raw_asked')
  BY <1>2, WantedAnswers
<1>4. RBasics'
  BY <1>1, <1>2 DEF RawInv, RBasics, Serving
<1>5. RChannels'
  BY <1>1 DEF RawInv, RChannels
<1>6. RAnswers'
  BY <1>1, <1>3 DEF RawInv, RAnswers, Serving
<1> QED
  BY <1>4, <1>5, <1>6 DEF RawInv

LEMMA SendRawInv == RawInv /\ Raw!Send => RawInv'
<1> SUFFICES ASSUME RawInv, Raw!Send PROVE RawInv'
  OBVIOUS
<1>1. /\ raw_pc = "send" /\ raw_pc' = "enable"
      /\ raw_got' = Append(raw_got, Head(raw_todo)) \/ raw_got' = raw_got
      /\ raw_held' = raw_held \ {Head(raw_todo)} /\ raw_dump' = raw_dump \ {Head(raw_todo)}
      /\ raw_todo' = Tail(raw_todo)
      /\ UNCHANGED <<raw_main, raw_run, raw_fd, raw_clients, raw_client, raw_asked>>
  BY DEF Raw!Send, Raw!MainUnchanged
<1>2. raw_todo # <<>> /\ raw_dump = {Head(raw_todo)} /\ raw_held = {Head(raw_todo)}
  BY <1>1 DEF RawInv, RChannels
<1>3. Answer(raw_todo, raw_got, raw_asked)
  BY <1>1 DEF RawInv, RAnswers, Serving
<1>4. Answer(raw_todo', raw_got', raw_asked')
  BY <1>1, <1>2, <1>3, Served
<1>5. RBasics'
  BY <1>1 DEF RawInv, RBasics, Serving
<1>6. RChannels'
  BY <1>1, <1>2 DEF RChannels
<1>7. RAnswers'
  BY <1>1, <1>4 DEF RAnswers, Serving
<1> QED
  BY <1>5, <1>6, <1>7 DEF RawInv

LEMMA ThreadRawInv == RawInv /\ Raw!Thread => RawInv'
  BY LeaveRawInv, LoopRawInv, AcceptRawInv, AcceptFailsRawInv, RecvRawInv, RecvFailsRawInv,
     EnableRawInv, EnableFailsRawInv, GetRawInv, GetFailsRawInv, SendRawInv, DoneRawInv,
     CloseRawInv DEF Raw!Thread

-----------------------------------------------------------------------------
(* The process.                                                            *)

\* As long as the server has a thread that runs, or one that has not been joined, it is one
\* of the resources held.
ServerHeld ==
    /\ raw_pc \notin {"none", "exit"} => raw_main # "off"
    /\ raw_main # "off" => "raw" \in held

AppInv == MainInv /\ RawInv /\ ServerHeld

LEMMA AppInitInv == AppInit => AppInv
<1> SUFFICES ASSUME AppInit PROVE AppInv
  OBVIOUS
<1>1. MainInv
  BY MainInit DEF AppInit
<1>2. /\ raw_main = "off" /\ raw_run = FALSE /\ raw_fd = FALSE /\ raw_pc = "none"
      /\ raw_todo = <<>> /\ raw_dump = {} /\ raw_held = {} /\ raw_clients = 0
      /\ raw_client = "none" /\ raw_asked = {} /\ raw_got = <<>>
  BY DEF AppInit, Raw!Init
<1>3. RBasics
  <2>1. raw_clients \in 0 .. MaxClients
    BY <1>2, AppAssumption
  <2>2. raw_run \in BOOLEAN /\ raw_fd \in BOOLEAN
    BY <1>2
  <2> QED
    BY <1>2, <2>1, <2>2 DEF RBasics
<1>4. RChannels /\ RAnswers
  BY <1>2 DEF RChannels, RAnswers, Serving
<1>5. ServerHeld
  BY <1>2 DEF ServerHeld
<1> QED
  BY <1>1, <1>3, <1>4, <1>5 DEF AppInv, RawInv

LEMMA RawStutters == RawInv /\ UNCHANGED rawvars => RawInv'
  BY DEF rawvars, RawInv, RBasics, RChannels, RAnswers

LEMMA MainStutters == MainInv /\ UNCHANGED vars => MainInv'
<1> SUFFICES ASSUME MainInv, UNCHANGED vars PROVE MainInv'
  OBVIOUS
<1>1. UNCHANGED <<raw_only, phase, todo, held, failed, sys_inited>> /\ quit' = quit
  BY DEF vars
<1>2. quit' \in BOOLEAN
  BY <1>1 DEF MainInv, IType
<1> QED
  BY <1>1, <1>2, OtherMain

LEMMA StartRawInvApp == AppInv /\ StartRaw => AppInv'
<1> SUFFICES ASSUME AppInv, StartRaw PROVE AppInv'
  OBVIOUS
<1>1. Succeed /\ Raw!Start /\ Head(todo) = "raw"
  BY DEF StartRaw, Starting
<1>2. MainInv' /\ RawInv'
  BY <1>1, SucceedMain, StartRawInv DEF AppInv
<1>3. "raw" \in held'
  BY <1>1 DEF Succeed, Resources
<1>4. raw_main' = "on"
  BY <1>1 DEF Raw!Start
<1> QED
  BY <1>2, <1>3, <1>4 DEF AppInv, ServerHeld

LEMMA StopRawApp == AppInv /\ StopRaw => AppInv'
<1> SUFFICES ASSUME AppInv, StopRaw PROVE AppInv'
  OBVIOUS
<1>1. CASE Raw!StopFlag /\ UNCHANGED vars
  <2>1. MainInv' /\ RawInv'
    BY <1>1, MainStutters, StopFlagRawInv DEF AppInv
  <2>2. raw_main = "on" /\ raw_main' = "stopping" /\ held' = held
    BY <1>1 DEF Raw!StopFlag, vars
  <2> QED
    BY <2>1, <2>2 DEF AppInv, ServerHeld
<1>2. CASE Raw!StopClose /\ UNCHANGED vars
  <2>1. MainInv' /\ RawInv'
    BY <1>2, MainStutters, StopCloseRawInv DEF AppInv
  <2>2. raw_main = "stopping" /\ raw_main' = "joining" /\ held' = held
    BY <1>2 DEF Raw!StopClose, vars
  <2> QED
    BY <2>1, <2>2 DEF AppInv, ServerHeld
<1>3. CASE Raw!StopJoin /\ Release
  <2>1. MainInv' /\ RawInv'
    BY <1>3, ReleaseMain, StopJoinRawInv DEF AppInv
  <2>2. raw_main' = "off" /\ raw_pc' = "exit"
    BY <1>3 DEF Raw!StopJoin, Raw!Joined
  <2> QED
    BY <2>1, <2>2 DEF AppInv, ServerHeld
<1> QED
  BY <1>1, <1>2, <1>3 DEF StopRaw

LEMMA MainOnlyApp == AppInv /\ MainOnly => AppInv'
<1> SUFFICES ASSUME AppInv, MainOnly PROVE AppInv'
  OBVIOUS
<1>1. UNCHANGED rawvars
  BY DEF MainOnly
<1>2. RawInv' /\ raw_pc' = raw_pc /\ raw_main' = raw_main
  BY <1>1, RawStutters DEF AppInv, rawvars
<1>3. MainInv'
  <2>1. CASE Idle
    BY <2>1, MainStutters DEF AppInv, Idle
  <2>2. CASE ~Idle
    BY <2>2, SucceedMain, SkipMain, FailMain, InitDoneMain, StartupDoneMain, StopMain,
       ReleaseMain, CloseMain, ExitMain DEF AppInv, MainOnly
  <2> QED
    BY <2>1, <2>2
<1>4. CASE ~Stopping /\ Release
  <2>1. held' = held \ {Head(todo)} /\ Releasing
    BY <1>4 DEF Release, Releasing
  <2>2. raw_main # "off" => Head(todo) # "raw"
    BY <1>4, <2>1 DEF Stopping
  <2> QED
    BY <1>2, <1>3, <2>1, <2>2 DEF AppInv, ServerHeld
<1>5. CASE ~(~Stopping /\ Release)
  <2>1. held \subseteq held'
    BY <1>5 DEF MainOnly, Succeed, Skip, Fail, InitDone, StartupDone, Idle, Stop, Close, Exit,
       vars
  <2> QED
    BY <1>2, <1>3, <2>1 DEF AppInv, ServerHeld
<1> QED
  BY <1>4, <1>5

\* A thread that takes a step has been started and not been joined.
LEMMA ServerApp == AppInv /\ Server => AppInv'
<1> SUFFICES ASSUME AppInv, Server PROVE AppInv'
  OBVIOUS
<1>1. Raw!Thread /\ UNCHANGED vars
  BY DEF Server
<1>2. MainInv' /\ RawInv'
  BY <1>1, MainStutters, ThreadRawInv DEF AppInv
<1>3. raw_pc \notin {"none", "exit"} /\ raw_main' = raw_main
  BY <1>1 DEF Raw!Thread, Raw!Leave, Raw!Loop, Raw!Accept, Raw!AcceptFails, Raw!Recv,
     Raw!RecvFails, Raw!Enable, Raw!EnableFails, Raw!Get, Raw!GetFails, Raw!Send, Raw!Done,
     Raw!Close, Raw!MainUnchanged
<1>4. held' = held
  BY <1>1 DEF vars
<1> QED
  BY <1>2, <1>3, <1>4 DEF AppInv, ServerHeld

LEMMA ClientApp == AppInv /\ (Raw!Connect \/ Raw!Go) /\ UNCHANGED vars => AppInv'
<1> SUFFICES ASSUME AppInv, Raw!Connect \/ Raw!Go, UNCHANGED vars PROVE AppInv'
  OBVIOUS
<1>1. MainInv' /\ RawInv'
  BY MainStutters, ConnectRawInv, GoRawInv DEF AppInv
<1>2. raw_pc' = raw_pc /\ raw_main' = raw_main /\ held' = held
  BY DEF Raw!Connect, Raw!Go, vars
<1> QED
  BY <1>1, <1>2 DEF AppInv, ServerHeld

LEMMA SignalApp == AppInv /\ Signal /\ UNCHANGED rawvars => AppInv'
<1> SUFFICES ASSUME AppInv, Signal, UNCHANGED rawvars PROVE AppInv'
  OBVIOUS
<1>1. UNCHANGED <<raw_only, phase, todo, held, failed, sys_inited>> /\ quit' = TRUE
  BY DEF Signal
<1>2. MainInv' /\ RawInv'
  BY <1>1, OtherMain, RawStutters DEF AppInv
<1>3. raw_pc' = raw_pc /\ raw_main' = raw_main /\ held' = held
  BY <1>1 DEF rawvars
<1> QED
  BY <1>2, <1>3 DEF AppInv, ServerHeld

LEMMA StuttersApp == AppInv /\ UNCHANGED appvars => AppInv'
<1> SUFFICES ASSUME AppInv, UNCHANGED appvars PROVE AppInv'
  OBVIOUS
<1>1. UNCHANGED vars /\ UNCHANGED rawvars
  BY DEF appvars
<1>2. MainInv' /\ RawInv'
  BY <1>1, MainStutters, RawStutters DEF AppInv
<1>3. raw_pc' = raw_pc /\ raw_main' = raw_main /\ held' = held
  BY <1>1 DEF vars, rawvars
<1> QED
  BY <1>2, <1>3 DEF AppInv, ServerHeld

LEMMA AppIsInvariant == AppSpec => []AppInv
<1>1. AppInv /\ [AppNext]_appvars => AppInv'
  BY StartRawInvApp, StopRawApp, MainOnlyApp, ServerApp, ClientApp, SignalApp, StuttersApp
     DEF AppNext, Finished
<1> QED
  BY <1>1, AppInitInv, PTL DEF AppSpec

-----------------------------------------------------------------------------
(* The properties.                                                         *)

LEMMA AnswersTyped ==
    ASSUME RawInv
    PROVE  /\ raw_todo \in Seq({"left", "right"}) /\ Len(raw_todo) <= 2
           /\ raw_got \in Seq({"left", "right"}) /\ Len(raw_got) <= 2
<1>1. /\ raw_todo \in {<<>>, <<"left">>, <<"right">>, <<"left", "right">>}
      /\ raw_got \in {<<>>, <<"left">>, <<"right">>, <<"left", "right">>}
  <2>1. CASE raw_pc \in Serving
    <3>1. Answer(raw_todo, raw_got, raw_asked)
      BY <2>1 DEF RawInv, RAnswers
    <3> QED
      BY <3>1 DEF Answer
  <2>2. CASE raw_pc \notin Serving
    BY <2>2 DEF RawInv, RAnswers
  <2> QED
    BY <2>1, <2>2
<1>2. \A s \in {<<>>, <<"left">>, <<"right">>, <<"left", "right">>} :
          s \in Seq({"left", "right"}) /\ Len(s) <= 2
  <2> SUFFICES ASSUME NEW s \in {<<>>, <<"left">>, <<"right">>, <<"left", "right">>}
               PROVE  s \in Seq({"left", "right"}) /\ Len(s) <= 2
    OBVIOUS
  <2>1. CASE s = <<>>
    BY <2>1, EmptySeq
  <2>2. CASE s = <<"left">>
    BY <2>2
  <2>3. CASE s = <<"right">>
    BY <2>3
  <2>4. CASE s = <<"left", "right">>
    BY <2>4
  <2> QED
    BY <2>1, <2>2, <2>3, <2>4
<1> QED
  BY <1>1, <1>2

\* Types: the main thread is in one of its phases with steps to make or resources to
\* release, the server in one of its states with at most two cameras to capture.
THEOREM AppTyped == AppSpec => []AppTypeOK
<1>1. AppInv => TypeOK
  <2> SUFFICES ASSUME AppInv PROVE TypeOK
    OBVIOUS
  <2>1. IType
    BY DEF AppInv, MainInv
  <2>2. todo \in Seq(IF Releasing THEN Resources ELSE Steps)
    <3>1. CASE Releasing
      BY <2>1, <3>1 DEF IType, Releasing, Leaving
    <3>2. CASE phase \notin Leaving
      BY <2>1, <3>2 DEF IType, Releasing, Leaving
    <3>3. CASE todo = <<>>
      BY <3>3, EmptySeq DEF Releasing
    <3> QED
      BY <3>1, <3>2, <3>3 DEF Releasing, Leaving
  <2> QED
    BY <2>1, <2>2 DEF TypeOK, IType, Going, Leaving
<1>2. AppInv => Raw!TypeOK
  <2> SUFFICES ASSUME AppInv PROVE Raw!TypeOK
    OBVIOUS
  <2>1. RBasics /\ RChannels /\ RAnswers
    BY DEF AppInv, RawInv
  <2>2. /\ raw_todo \in Seq({"left", "right"}) /\ Len(raw_todo) <= 2
        /\ raw_got \in Seq({"left", "right"}) /\ Len(raw_got) <= 2
    BY AnswersTyped DEF AppInv
  <2>3. raw_dump \subseteq {"left", "right"} /\ raw_held \subseteq {"left", "right"}
    <3>1. raw_pc \in {"get", "send"} => Head(raw_todo) \in {"left", "right"}
      BY <2>1, Served DEF RChannels, RAnswers, Serving
    <3> QED
      BY <2>1, <3>1 DEF RChannels
  <2> QED
    BY <2>1, <2>2, <2>3 DEF Raw!TypeOK, Raw!Cams, RBasics, Serving
<1> QED
  BY <1>1, <1>2, AppIsInvariant, PTL DEF AppTypeOK

\* Whichever step of the initialisation or the startup fails, in either mode, and whenever
\* the process is told to stop, what was acquired is released and nothing else, and nothing
\* goes before what uses it.
THEOREM WaysOutReleaseExactly == AppSpec => []ReleasesExactly
<1>1. AppInv => ReleasesExactly
  <2> SUFFICES ASSUME AppInv PROVE ReleasesExactly
    OBVIOUS
  <2>1. IType /\ ILeaving /\ ISupplied
    BY DEF AppInv, MainInv
  <2>2. TornDownInOrder
    BY <2>1, NeedsAre DEF IType, ISupplied
  <2>3. Releasing => Head(todo) \in held \cup Guarded
    BY <2>1, Shed DEF IType, ILeaving, ISupplied, Releasing, Leaving
  <2>4. phase = "exit" => held \subseteq Kept(failed)
    BY <2>1 DEF ILeaving
  <2> QED
    BY <2>2, <2>3, <2>4 DEF ReleasesExactly, Kept
<1> QED
  BY <1>1, AppIsInvariant, PTL

\* The raw capture server: whichever call fails and whenever the client leaves or the
\* process stops, a channel is given back, the client gets frames of the cameras it asked
\* for, each once and in order, and no device is dumped that is not running.
THEOREM RawCapturesClean == AppSpec => []CapturesClean
<1>1. AppInv => Raw!ChannelsGivenBack
  BY DEF AppInv, RawInv, RChannels, Raw!ChannelsGivenBack, Raw!Cams
<1>2. AppInv => Raw!AnswersTheMask
  <2> SUFFICES ASSUME AppInv PROVE Raw!AnswersTheMask
    OBVIOUS
  <2>1. \/ raw_got = <<>>
        \/ raw_got = <<"left">> /\ "left" \in raw_asked
        \/ raw_got = <<"right">> /\ "right" \in raw_asked
        \/ raw_got = <<"left", "right">> /\ "left" \in raw_asked /\ "right" \in raw_asked
    BY DEF AppInv, RawInv, RAnswers, Answer
  <2>2. CASE raw_got = <<>>
    BY <2>2 DEF Raw!AnswersTheMask
  <2>3. CASE raw_got = <<"left">> /\ "left" \in raw_asked
    BY <2>3 DEF Raw!AnswersTheMask
  <2>4. CASE raw_got = <<"right">> /\ "right" \in raw_asked
    BY <2>4 DEF Raw!AnswersTheMask
  <2>5. CASE raw_got = <<"left", "right">> /\ "left" \in raw_asked /\ "right" \in raw_asked
    BY <2>5 DEF Raw!AnswersTheMask
  <2> QED
    BY <2>1, <2>2, <2>3, <2>4, <2>5
<1>3. AppInv => DumpsLiveVi
  <2> SUFFICES ASSUME AppInv PROVE DumpsLiveVi
    OBVIOUS
  <2>1. raw_dump # {} => "raw" \in held
    BY DEF AppInv, RawInv, RChannels, ServerHeld
  <2>2. "raw" \in held => "vi0" \in held /\ "vi1" \in held
    BY DEF AppInv, MainInv, ISupplied, Supplied, Uses
  <2> QED
    BY <2>1, <2>2 DEF DumpsLiveVi
<1> QED
  BY <1>1, <1>2, <1>3, AppIsInvariant, PTL DEF CapturesClean
=============================================================================
