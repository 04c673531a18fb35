-------------------------- MODULE OtaUpgradeProofs --------------------------
(***************************************************************************)
(* OtaUpgrade proved for every number of copies, of components and of       *)
(* versions, and every number of faults that leaves two copies whole.  The  *)
(* inductive invariant IInv says, for each place the processor can be in,   *)
(* what mixture of flags the copies can hold.                               *)
(***************************************************************************)
EXTENDS OtaUpgrade, FiniteSetTheorems, WellFoundedInduction, TLAPS

CopiesOK == copies \in [Copies -> Flags \union {Torn}]

(* every copy says s, or a later one that says s is further on *)
Settled(S, s) ==
    \A i \in S : \/ copies[i].state = s
                 \/ \E j \in S : /\ i < j /\ copies[j].state = s
                                 /\ copies[i].mask \subseteq copies[j].mask
                                 /\ copies[i].mask # copies[j].mask

(* every copy asks for the same fresh upgrade, or for an older fresh one *)
Asked(S) == \A i \in S : copies[i].state = "PENDING"

(* a copy that asks for nothing is behind an earlier one that asks *)
Led(S) ==
    \A j \in S : \/ Pending(copies[j])
                 \/ \E i \in S : /\ i < j /\ Pending(copies[i])
                                 /\ copies[j].mask \subseteq copies[i].mask

(* the copies that ask are stages of one upgrade *)
Ordered(S) ==
    \A i, j \in S : Pending(copies[i]) /\ Pending(copies[j])
                    => \/ copies[i].mask \subseteq copies[j].mask
                       \/ copies[j].mask \subseteq copies[i].mask

Flashed(m) == \A c \in m : part[c] = vol /\ vol # Damaged
HalfDone   == \E c \in Comps : part[c] = Half

(* the copies under a flag that asks, and under any flag *)
Upgrading ==
    /\ Led(Readable)
    /\ Ordered(Readable)
    /\ \A i \in Readable : Pending(copies[i]) => Flashed(copies[i].mask)
    /\ Flag.state = "RUNNING" =>
          \A i \in Readable : Pending(copies[i]) =>
             copies[i].state = "RUNNING" /\ copies[i].ver = Flag.ver
Mixture == IF Pending(Flag) THEN Upgrading ELSE Settled(Readable, Flag.state)

(* in a pass of uflag_write: the copies it has still to write, those it is
   over with, and, at any time, the copies never written *)
Old   == Readable \intersect todo
Over  == (Copies \ bad) \ todo
Blank == {i \in Copies \ (bad \union lost) :
             ~Valid(copies[i]) /\ ~(pc = "program" /\ Turn(i))}

Resting == pc \in {"off", "otfl", "uboot", "dead"}
InLinux == pc \in {"linux", "volume"}
Working == pc \in {"load", "flash", "burn", "fail"}
Pass    == pc \in {"erase", "program"}

(* a flag that asks for nothing yet, or that is done, has nothing done *)
Fresh(f) == f.state \in {"IDLE", "PENDING"} => f.mask = {}
IShape == (\A i \in Copies : Fresh(copies[i])) /\ Fresh(ram)

ILoader ==
    /\ pc = "uboot" /\ OtflPending => loader = "otfl"
    /\ pc \in {"load", "flash", "burn", "verify"} => loader = "otfl"
    /\ Pass /\ back \in {"load", "flash", "verify"} => loader = "otfl"

IResting == Resting => Mixture

ILinux == InLinux =>
    /\ \/ \E s \in {"IDLE", "FAILED"} : Settled(Readable, s)
       \/ Asked(Readable)
    /\ HalfDone => gaveUp
    /\ pc = "volume" => ram.state = "PENDING"

IWorking == Working =>
    /\ ram = Flag /\ ram.state = "RUNNING" /\ Upgrading
    /\ pc \in {"flash", "burn"} => Accepted /\ vol # Damaged

IVerify == pc = "verify" =>
    /\ ram.state = "IDLE" /\ Readable # {}
    /\ \A i \in Readable : copies[i] = ram

(* any pass: what it is over with holds the flag in memory *)
IPass == Pass =>
    /\ Valid(ram)
    /\ todo \intersect bad = {}
    /\ \A i \in Over : copies[i] = ram /\ wok
    /\ \A i \in Over, j \in todo : IF back = "linux" THEN i < j ELSE j < i
    /\ pc = "program" => \E i \in todo : Turn(i) /\ copies[i] = Torn

(* the pass of ota_prepare, up from copy 0 *)
ILinuxPass == Pass /\ back = "linux" =>
    /\ ram.state = "PENDING"
    /\ (\E s \in {"IDLE", "FAILED"} : Settled(Old, s)) \/ Asked(Old)
    /\ HalfDone => gaveUp

(* the first pass of U-Boot, PENDING to RUNNING, down to copy 0 *)
IStartPass == Pass /\ back = "load" =>
    /\ ram.state = "RUNNING" /\ ram.mask = {}
    /\ \A j \in Old : /\ copies[j].mask = {}
                      /\ \E i \in Old : i <= j /\ copies[i].state = "PENDING"
                      /\ (\A i \in Old : j <= i) => copies[j].ver = ram.ver
    /\ HalfDone => gaveUp

(* its other passes: a component done, the flag cleared, a retry or the end *)
PassStates == [flash |-> {"RUNNING"}, verify |-> {"IDLE"}, reset |-> {"RUNNING", "FAILED"}]
IWorkPass == Pass /\ back \in {"flash", "verify", "reset"} =>
    /\ Blank = {}
    /\ ram.state \in PassStates[back]
    /\ Led(Old) /\ Ordered(Old)
    /\ \A i \in Old : Pending(copies[i]) =>
          /\ copies[i].state = "RUNNING" /\ copies[i].ver = ram.ver
          /\ Flashed(copies[i].mask)
          /\ ram.state # "IDLE" => copies[i].mask \subseteq ram.mask
    /\ Flashed(ram.mask)
    /\ back = "flash" => Accepted /\ vol # Damaged
    /\ ram.state # "RUNNING" /\ HalfDone => gaveUp
    /\ back = "verify" => Flashed(Pkg[ram.ver])

(* a half written component belongs to the upgrade that is running, and the
   package in the volume can finish it *)
IHalf == HalfDone /\ ~gaveUp =>
    /\ Flag.state = "RUNNING"
    /\ vol # Damaged
    /\ \A c \in Comps : part[c] = Half => c \in Pkg[Flag.ver]
    /\ Pkg[vol] = Pkg[Flag.ver] /\ vol >= Flag.ver

(* while some copies were never written, the first upgrade has not begun *)
IBlank == Blank # {} =>
    /\ \/ Resting
       \/ InLinux /\ Readable = {}
       \/ Pass /\ back = "load" /\ Readable # {}
       \/ Pass /\ back = "linux" /\ Old = {}
    /\ \A j \in Readable : /\ Pending(copies[j]) /\ copies[j].mask = {}
                           /\ \E i \in Readable : i <= j /\ copies[i].state = "PENDING"
    /\ Readable # {} =>
          \A x \in Blank : \E i \in Readable : i < x /\ copies[i].state = "PENDING"

IInv == /\ TypeOK /\ IShape /\ ILoader
        /\ IResting /\ ILinux /\ IWorking /\ IVerify
        /\ IPass /\ ILinuxPass /\ IStartPass /\ IWorkPass
        /\ IHalf /\ IBlank
-----------------------------------------------------------------------------
\* A well-founded relation on the naturals that holds the smaller of two.
LEMMA SmallerFounded ==
    \E lt : IsWellFoundedOn(lt, Nat) /\ \A x, y \in Nat : y < x => <<y, x>> \in lt
<1>1. \A x, y \in Nat : y < x => <<y, x>> \in OpToRel(<, Nat)
  BY DEF OpToRel
<1> QED
  BY <1>1, NatLessThanWellFounded

\* A set of naturals that is not empty has a least element.
LEMMA LeastNat ==
    ASSUME NEW S, S \subseteq Nat, S # {}
    PROVE  \E x \in S : \A y \in S : x <= y
<1>1. PICK lt : IsWellFoundedOn(lt, Nat) /\ \A x, y \in Nat : y < x => <<y, x>> \in lt
  BY SmallerFounded
<1>2. PICK x \in S : \A y \in S : ~ (<<y, x>> \in lt)
  BY <1>1, WFMin
<1>3. \A y \in S : x <= y
  <2> TAKE y \in S
  <2>1. x \in Nat /\ y \in Nat
    OBVIOUS
  <2>2. ~(y < x)
    BY <2>1, <1>1, <1>2
  <2> QED
    BY <2>1, <2>2
<1> QED
  BY <1>3

\* The copies are numbered, and there are N of them.
LEMMA CopiesTyped == Copies \subseteq Nat /\ IsFiniteSet(Copies) /\ Cardinality(Copies) = N
<1>1. N \in Nat
  BY CopiesAssumption
<1>2. 0 \in Int /\ N - 1 \in Int
  BY <1>1
<1>3. /\ IsFiniteSet(0 .. (N - 1))
      /\ Cardinality(0 .. (N - 1)) = IF 0 > N - 1 THEN 0 ELSE (N - 1) - 0 + 1
  BY <1>2, FS_Interval
<1> QED
  BY <1>1, <1>3 DEF Copies

\* Of a copy that can be read, the parts.
LEMMA ReadableTyped ==
    ASSUME CopiesOK
    PROVE  /\ Readable \subseteq Copies /\ Readable \subseteq Nat
           /\ \A i \in Readable : /\ copies[i] \in Flags /\ copies[i].mask \in SUBSET Comps
                                  /\ copies[i].state \in {"IDLE", "PENDING", "RUNNING", "FAILED"}
                                  /\ copies[i].ver \in Versions /\ copies[i].retry \in 0 .. Retries
<1>1. Readable \subseteq Copies
  BY DEF Readable
<1>2. ASSUME NEW i \in Readable
      PROVE  copies[i] \in Flags
  BY <1>1 DEF CopiesOK, Readable, Valid
<1>3. ASSUME NEW f \in Flags
      PROVE  /\ f.mask \in SUBSET Comps
             /\ f.state \in {"IDLE", "PENDING", "RUNNING", "FAILED"}
             /\ f.ver \in Versions /\ f.retry \in 0 .. Retries
  BY DEF Flags
<1> QED
  BY <1>1, <1>2, <1>3, CopiesTyped

\* uflag_read: of the readable copies one has a mask no other exceeds, and is
\* the first of those with that mask.
LEMMA BestFact ==
    ASSUME CopiesOK, Readable # {}
    PROVE  \E b \in Readable :
              /\ Flag = copies[b]
              /\ \A j \in Readable : copies[b].mask \subseteq copies[j].mask
                                     => copies[j].mask = copies[b].mask /\ b <= j
<1> DEFINE value(j) == MaskValue[copies[j].mask]
           first(i) == \A j \in Readable : \/ value(i) > value(j)
                                           \/ value(i) = value(j) /\ i <= j
<1>1. \A j \in Readable : copies[j].mask \in SUBSET Comps /\ j \in Nat
  BY ReadableTyped
<1>2. \A j \in Readable : value(j) \in Nat
  BY <1>1, MaskAssumption
<1>3. MaskValue[Comps] \in Nat /\ \A j \in Readable : value(j) <= MaskValue[Comps]
  <2>1. Comps \in SUBSET Comps
    OBVIOUS
  <2>2. MaskValue[Comps] \in Nat
    BY <2>1, MaskAssumption
  <2>3. ASSUME NEW j \in Readable
        PROVE  value(j) <= MaskValue[Comps]
    <3>1. CASE copies[j].mask = Comps
      BY <3>1, <2>2
    <3>2. CASE copies[j].mask # Comps
      <4>1. value(j) < MaskValue[Comps]
        BY <3>2, <1>1, <2>1, MaskAssumption
      <4> QED
        BY <4>1, <2>2, <1>2
    <3> QED
      BY <3>1, <3>2
  <2> QED
    BY <2>2, <2>3
<1>4. \E m \in Readable : \A j \in Readable : value(j) <= value(m)
  <2> DEFINE gap(j) == MaskValue[Comps] - value(j)
  <2> HIDE DEF value
  <2>1. \A j \in Readable : gap(j) \in Nat
    BY <1>2, <1>3
  <2> DEFINE gaps == {gap(j) : j \in Readable}
  <2>2. gaps \subseteq Nat /\ gaps # {}
    BY <2>1
  <2>3. PICK x \in gaps : \A y \in gaps : x <= y
    BY <2>2, LeastNat
  <2>4. PICK m \in Readable : x = gap(m)
    BY <2>3
  <2>5. \A j \in Readable : gap(m) <= gap(j)
    BY <2>3, <2>4
  <2>6. \A j \in Readable : value(j) <= value(m)
    BY <2>5, <1>2, <1>3
  <2> QED
    BY <2>6
<1>5. \E b \in Readable : first(b)
  <2>1. PICK m \in Readable : \A j \in Readable : value(j) <= value(m)
    BY <1>4
  <2> HIDE DEF value
  <2> DEFINE top == {j \in Readable : value(j) = value(m)}
  <2>2. top \subseteq Nat /\ m \in top
    BY <1>1
  <2>3. PICK b \in top : \A y \in top : b <= y
    BY <2>2, LeastNat
  <2>4. ASSUME NEW j \in Readable
        PROVE  value(b) > value(j) \/ (value(b) = value(j) /\ b <= j)
    <3>1. CASE j \in top
      BY <3>1, <2>3
    <3>2. CASE j \notin top
      <4>1. value(j) # value(m) /\ value(j) <= value(m) /\ value(b) = value(m)
        BY <3>2, <2>1, <2>3
      <4>2. value(j) \in Nat /\ value(m) \in Nat
        BY <1>2
      <4> QED
        BY <4>1, <4>2
    <3> QED
      BY <3>1, <3>2
  <2> QED
    BY <2>3, <2>4
<1>6. Best(Readable) \in Readable /\ first(Best(Readable))
  BY <1>5 DEF Best
<1> DEFINE b == Best(Readable)
<1>7. Flag = copies[b]
  BY DEF Flag
<1>8. ASSUME NEW j \in Readable, copies[b].mask \subseteq copies[j].mask
      PROVE  copies[j].mask = copies[b].mask /\ b <= j
  <2> HIDE DEF b
  <2>1. b \in Readable /\ first(b)
    BY <1>6 DEF b
  <2>2. copies[b].mask # copies[j].mask => value(b) < value(j)
    BY <2>1, <1>1, <1>8, MaskAssumption DEF value
  <2> HIDE DEF value
  <2>3. value(b) > value(j) \/ (value(b) = value(j) /\ b <= j)
    BY <2>1
  <2>4. value(b) \in Nat /\ value(j) \in Nat
    BY <2>1, <1>2
  <2>5. copies[b].mask = copies[j].mask => value(b) = value(j)
    BY DEF value
  <2> QED
    BY <2>2, <2>3, <2>4, <2>5
<1> QED
  BY <1>6, <1>7, <1>8

\* A torn copy holds no flag: no flag is taken for one, and it asks for nothing.
LEMMA TornTyped ==
    /\ Torn.state = "TORN" /\ Torn.mask = {} /\ ~Pending(Torn) /\ ~Valid(Torn)
    /\ Torn \notin Flags
    /\ \A f \in Flags : /\ f.mask \in SUBSET Comps /\ f.ver \in Versions
                        /\ f.state \in {"IDLE", "PENDING", "RUNNING", "FAILED"}
                        /\ f.retry \in 0 .. Retries /\ Valid(f)
<1>1. Torn.state = "TORN" /\ Torn.mask = {}
  BY DEF Torn
<1>2. \A f \in Flags : /\ f.mask \in SUBSET Comps /\ f.ver \in Versions
                       /\ f.state \in {"IDLE", "PENDING", "RUNNING", "FAILED"}
                       /\ f.retry \in 0 .. Retries
  BY DEF Flags
<1>3. Torn \notin Flags
  BY <1>1, <1>2
<1> QED
  BY <1>1, <1>2, <1>3 DEF Valid, Pending

\* The flag uflag_read finds is one of the readable copies.
LEMMA FlagTyped ==
    ASSUME CopiesOK
    PROVE  /\ Readable = {} => Flag = Torn
           /\ Readable # {} => Flag \in Flags /\ \E b \in Readable : Flag = copies[b]
           /\ Flag \in Flags \union {Torn}
           /\ Pending(Flag) => Readable # {}
           /\ Flag = Torn => Readable = {}
<1>1. Readable = {} => Flag = Torn
  BY DEF Flag
<1>2. ASSUME Readable # {}
      PROVE  Flag \in Flags /\ \E b \in Readable : Flag = copies[b]
  BY <1>2, BestFact, ReadableTyped
<1> QED
  BY <1>1, <1>2, TornTyped

\* When every flag that is read is the same, that is the one found.
LEMMA FlagSame ==
    ASSUME CopiesOK, NEW f, Readable # {}, \A i \in Readable : copies[i] = f
    PROVE  Flag = f
  BY FlagTyped

\* Copies of which none has anything done: the first one is the flag.
LEMMA FlagFirst ==
    ASSUME CopiesOK, \A j \in Readable : copies[j].mask = {}, Readable # {}
    PROVE  \E b \in Readable : Flag = copies[b] /\ \A j \in Readable : b <= j
<1>1. PICK b \in Readable :
           /\ Flag = copies[b]
           /\ \A j \in Readable : copies[b].mask \subseteq copies[j].mask
                                  => copies[j].mask = copies[b].mask /\ b <= j
  BY BestFact
<1> QED
  BY <1>1

\* An upgrade whose flags are led by one that asks is found to ask.
LEMMA LedAsks ==
    ASSUME CopiesOK, Led(Readable), Readable # {}
    PROVE  Pending(Flag)
<1>1. PICK b \in Readable :
           /\ Flag = copies[b]
           /\ \A j \in Readable : copies[b].mask \subseteq copies[j].mask
                                  => copies[j].mask = copies[b].mask /\ b <= j
  BY BestFact
<1>2. ASSUME NEW i \in Readable, i < b, copies[b].mask \subseteq copies[i].mask
      PROVE  FALSE
  <2>1. b <= i /\ b \in Nat /\ i \in Nat
    BY <1>1, <1>2, ReadableTyped
  <2> QED
    BY <2>1, <1>2
<1> QED
  BY <1>1, <1>2 DEF Led

\* The flag that is found has done what any copy that asks has done.
LEMMA FlagMost ==
    ASSUME CopiesOK, Led(Readable), Ordered(Readable),
           NEW i \in Readable, Pending(copies[i])
    PROVE  copies[i].mask \subseteq Flag.mask
<1>1. PICK b \in Readable :
           /\ Flag = copies[b]
           /\ \A j \in Readable : copies[b].mask \subseteq copies[j].mask
                                  => copies[j].mask = copies[b].mask /\ b <= j
  BY BestFact
<1>2. Pending(copies[b])
  BY <1>1, LedAsks
<1>3. \/ copies[b].mask \subseteq copies[i].mask
      \/ copies[i].mask \subseteq copies[b].mask
  BY <1>2 DEF Ordered
<1> QED
  BY <1>1, <1>3

\* Copies that are settled on a state are found in it.
LEMMA SettledFlag ==
    ASSUME CopiesOK, NEW s, Settled(Readable, s), Readable # {}
    PROVE  Flag.state = s
<1>1. PICK b \in Readable :
           /\ Flag = copies[b]
           /\ \A j \in Readable : copies[b].mask \subseteq copies[j].mask
                                  => copies[j].mask = copies[b].mask /\ b <= j
  BY BestFact
<1> QED
  BY <1>1 DEF Settled

\* Copies without anything done, the first of which asks, are a mixture.
LEMMA FreshMixture ==
    ASSUME CopiesOK, \A j \in Readable : copies[j].mask = {}, Pending(Flag),
           Flag.state = "PENDING" \/ \A j \in Readable : copies[j] = Flag
    PROVE  Mixture
<1>1. Readable # {}
  BY FlagTyped
<1>2. PICK b \in Readable : Flag = copies[b] /\ \A j \in Readable : b <= j
  BY <1>1, FlagFirst
<1>3. Led(Readable)
  <2> SUFFICES ASSUME NEW j \in Readable, ~Pending(copies[j])
               PROVE  \E i \in Readable : /\ i < j /\ Pending(copies[i])
                                          /\ copies[j].mask \subseteq copies[i].mask
    BY DEF Led
  <2>1. b # j /\ b <= j /\ b \in Nat /\ j \in Nat
    BY <1>2, ReadableTyped
  <2>2. b < j
    BY <2>1
  <2> QED
    BY <2>2, <1>2
<1>4. Ordered(Readable)
  BY DEF Ordered
<1>5. \A i \in Readable : Flashed(copies[i].mask)
  BY DEF Flashed
<1>6. Flag.state = "RUNNING" =>
         \A i \in Readable : Pending(copies[i]) =>
            copies[i].state = "RUNNING" /\ copies[i].ver = Flag.ver
  <2> SUFFICES ASSUME Flag.state = "RUNNING", NEW i \in Readable
               PROVE  copies[i].state = "RUNNING" /\ copies[i].ver = Flag.ver
    OBVIOUS
  <2>1. \A j \in Readable : copies[j] = Flag
    OBVIOUS
  <2> QED
    BY <2>1
<1> QED
  BY <1>3, <1>4, <1>5, <1>6 DEF Mixture, Upgrading

\* In a pass what can be read is what it is over with and what it has still.
LEMMA PassCopies ==
    ASSUME CopiesOK, Pass, IPass, todo \subseteq Copies
    PROVE  /\ Readable = Old \union Over
           /\ Old \subseteq todo /\ Over \subseteq Copies /\ Over \intersect todo = {}
           /\ Copies \subseteq Nat
           /\ \A i \in Over : copies[i] = ram
           /\ Readable # {} => Valid(ram)
<1>1. Valid(ram) /\ \A i \in Over : copies[i] = ram
  BY DEF IPass
<1>2. todo \intersect bad = {}
  BY DEF IPass
<1>3. Readable = Old \union Over
  BY <1>1, <1>2 DEF Readable, Old, Over
<1> QED
  BY <1>1, <1>3, CopiesTyped DEF Old, Over

\* The pass of ota_prepare: the new flag counts as soon as no old copy has
\* more done; until then the old state stays.
LEMMA LinuxFlag ==
    ASSUME CopiesOK, IShape, Pass, IPass, ILinuxPass, back = "linux", todo \subseteq Copies
    PROVE  /\ Over # {} /\ (\A i \in Old : copies[i].mask = {}) => Flag = ram
           /\ Pending(Flag) => \A i \in Readable : copies[i].mask = {}
           /\ Pending(Flag) => Flag.state = "PENDING"
           /\ ~Pending(Flag) /\ Readable # {} =>
                 /\ \E s \in {"IDLE", "FAILED"} : Settled(Old, s)
                 /\ Over # {} => \E b \in Old : Flag = copies[b] /\ copies[b].mask # {}
                 /\ \A s : Settled(Old, s) => Flag.state = s
           /\ Pending(Flag) => Over # {} \/ Asked(Old)
<1>1. /\ Readable = Old \union Over /\ Old \subseteq todo /\ Over \subseteq Copies
      /\ Copies \subseteq Nat /\ \A i \in Over : copies[i] = ram
  BY PassCopies
<1>2. ram.state = "PENDING" /\ ram.mask = {} /\ Pending(ram)
  BY DEF ILinuxPass, IShape, Fresh, Pending
<1>3. \A i \in Over, j \in todo : i < j
  BY DEF IPass
<1>4. (\E s \in {"IDLE", "FAILED"} : Settled(Old, s)) \/ Asked(Old)
  BY DEF ILinuxPass
<1>5. ASSUME Over # {}, \A i \in Old : copies[i].mask = {}
      PROVE  Flag = ram
  <2>1. \A i \in Readable : copies[i].mask = {}
    BY <1>5, <1>1, <1>2
  <2>2. PICK b \in Readable : Flag = copies[b] /\ \A j \in Readable : b <= j
    BY <2>1, <1>5, <1>1, FlagFirst
  <2>3. PICK i \in Over : b <= i
    BY <2>2, <1>5, <1>1
  <2>4. b \notin Old
    <3> SUFFICES ASSUME b \in Old
                 PROVE  FALSE
      OBVIOUS
    <3>1. i < b /\ i \in Nat /\ b \in Nat
      BY <1>3, <1>1, <2>3, ReadableTyped
    <3> QED
      BY <3>1, <2>3
  <2> QED
    BY <2>2, <2>4, <1>1
<1>6. ASSUME NEW s, Settled(Old, s), s \in {"IDLE", "FAILED"} \/ ~Pending(Flag), Readable # {},
             Over = {} \/ \E i \in Old : copies[i].mask # {}
      PROVE  \E b \in Old : Flag = copies[b] /\ copies[b].state = s
                            /\ (Over # {} => copies[b].mask # {})
  <2>1. PICK b \in Readable :
             /\ Flag = copies[b]
             /\ \A j \in Readable : copies[b].mask \subseteq copies[j].mask
                                    => copies[j].mask = copies[b].mask /\ b <= j
    BY <1>6, BestFact
  <2>2. b \in Old /\ (Over # {} => copies[b].mask # {})
    <3>1. CASE Over = {}
      BY <3>1, <2>1, <1>1
    <3>2. CASE Over # {}
      <4>1. PICK i \in Old : copies[i].mask # {}
        BY <3>2, <1>6
      <4>2. copies[b].mask # {}
        BY <4>1, <2>1, <1>1
      <4> QED
        BY <4>2, <2>1, <1>1, <1>2
    <3> QED
      BY <3>1, <3>2
  <2>3. copies[b].state = s
    BY <2>1, <2>2, <1>1, <1>6 DEF Settled
  <2> QED
    BY <2>1, <2>2, <2>3
<1>7. ASSUME Pending(Flag)
      PROVE  /\ \A i \in Readable : copies[i].mask = {}
             /\ Flag.state = "PENDING"
             /\ Over # {} \/ Asked(Old)
  <2>1. Readable # {}
    BY <1>7, FlagTyped
  <2>2. CASE Asked(Old)
    <3>1. \A i \in Readable : copies[i].state = "PENDING"
      BY <2>2, <1>1, <1>2 DEF Asked
    <3>2. \A i \in Readable : copies[i].mask = {}
      BY <3>1, <1>1, ReadableTyped DEF IShape, Fresh
    <3> QED
      BY <2>2, <3>1, <3>2, <2>1, FlagTyped
  <2>3. ASSUME NEW s \in {"IDLE", "FAILED"}, Settled(Old, s)
        PROVE  /\ \A i \in Readable : copies[i].mask = {}
               /\ Flag.state = "PENDING"
               /\ Over # {}
    <3>1. ~(Over = {} \/ \E i \in Old : copies[i].mask # {})
      BY <2>3, <1>6, <1>7, <2>1 DEF Pending
    <3> QED
      BY <3>1, <1>1, <1>2, <1>5
  <2> QED
    BY <2>2, <2>3, <1>4
<1>8. ASSUME ~Pending(Flag), Readable # {}
      PROVE  /\ \E s \in {"IDLE", "FAILED"} : Settled(Old, s)
             /\ Over # {} => \E b \in Old : Flag = copies[b] /\ copies[b].mask # {}
             /\ \A s : Settled(Old, s) => Flag.state = s
  <2>1. Over = {} \/ \E i \in Old : copies[i].mask # {}
    BY <1>5, <1>8, <1>2
  <2>2. \E s \in {"IDLE", "FAILED"} : Settled(Old, s)
    <3> SUFFICES ASSUME Asked(Old)
                 PROVE  FALSE
      BY <1>4
    <3>1. \A i \in Readable : Pending(copies[i])
      BY <1>1, <1>2 DEF Asked, Pending
    <3> QED
      BY <3>1, <1>8, FlagTyped
  <2>3. \A s : Settled(Old, s) => Flag.state = s
    BY <2>1, <1>6, <1>8
  <2>4. Over # {} => \E b \in Old : Flag = copies[b] /\ copies[b].mask # {}
    BY <2>1, <2>2, <1>6, <1>8
  <2> QED
    BY <2>2, <2>3, <2>4
<1> QED
  BY <1>5, <1>7, <1>8

\* During the pass of ota_prepare the copies stay a mixture uflag_read can tell.
LEMMA LinuxMixture ==
    ASSUME CopiesOK, IShape, Pass, IPass, ILinuxPass, back = "linux", todo \subseteq Copies
    PROVE  Mixture
<1>1. CASE Pending(Flag)
  BY <1>1, LinuxFlag, FreshMixture
<1>2. CASE Readable = {}
  BY <1>2, FlagTyped, TornTyped DEF Mixture, Settled
<1>3. CASE ~Pending(Flag) /\ Readable # {}
  <2>1. PICK s \in {"IDLE", "FAILED"} : Settled(Old, s)
    BY <1>3, LinuxFlag
  <2>2. Flag.state = s
    BY <1>3, <2>1, LinuxFlag
  <2>3. /\ Readable = Old \union Over /\ Old \subseteq todo /\ Over \subseteq Copies
        /\ Copies \subseteq Nat /\ \A i \in Over : copies[i] = ram
    BY PassCopies
  <2>4. ram.state = "PENDING" /\ ram.mask = {}
    BY DEF ILinuxPass, IShape, Fresh
  <2>5. \A i \in Over, j \in todo : i < j
    BY DEF IPass
  <2>6. Settled(Readable, s)
    <3> SUFFICES ASSUME NEW i \in Readable
                 PROVE  \/ copies[i].state = s
                        \/ \E j \in Readable : /\ i < j /\ copies[j].state = s
                                               /\ copies[i].mask \subseteq copies[j].mask
                                               /\ copies[i].mask # copies[j].mask
      BY DEF Settled
    <3>1. CASE i \in Old
      BY <3>1, <2>1, <2>3 DEF Settled
    <3>2. CASE i \in Over
      <4>1. PICK b \in Old : Flag = copies[b] /\ copies[b].mask # {}
        BY <3>2, <1>3, LinuxFlag
      <4>2. i < b
        BY <3>2, <4>1, <2>3, <2>5
      <4> QED
        BY <3>2, <4>1, <4>2, <2>2, <2>3, <2>4
    <3> QED
      BY <3>1, <3>2, <2>3
  <2> QED
    BY <2>2, <2>6, <1>3 DEF Mixture
<1> QED
  BY <1>1, <1>2, <1>3

\* The first pass of U-Boot: what is found asks, first PENDING, then RUNNING.
LEMMA StartFlag ==
    ASSUME CopiesOK, Pass, IPass, IStartPass, back = "load", todo \subseteq Copies
    PROVE  /\ \A i \in Readable : copies[i].mask = {}
           /\ Readable # {} => Pending(Flag) /\ Mixture
           /\ Old # {} => Flag.state = "PENDING" /\ Flag.ver = ram.ver
           /\ Old = {} /\ Readable # {} => Flag = ram
<1>1. /\ Readable = Old \union Over /\ Old \subseteq todo /\ Over \subseteq Copies
      /\ Copies \subseteq Nat /\ \A i \in Over : copies[i] = ram
  BY PassCopies
<1>2. ram.state = "RUNNING" /\ ram.mask = {} /\ Pending(ram)
  BY DEF IStartPass, Pending
<1>3. \A i \in Readable : copies[i].mask = {}
  BY <1>1, <1>2 DEF IStartPass
<1>4. ASSUME Readable # {}
      PROVE  /\ Pending(Flag) /\ Mixture
             /\ Old # {} => Flag.state = "PENDING" /\ Flag.ver = ram.ver
             /\ Old = {} => Flag = ram
  <2>1. PICK b \in Readable : Flag = copies[b] /\ \A j \in Readable : b <= j
    BY <1>3, <1>4, FlagFirst
  <2>2. ASSUME NEW j \in Old
        PROVE  Flag.state = "PENDING" /\ Flag.ver = ram.ver
    <3>1. PICK i \in Old : i <= j /\ copies[i].state = "PENDING"
      BY <2>2 DEF IStartPass
    <3>2. b \in Old
      <4> SUFFICES ASSUME b \in Over
                   PROVE  FALSE
        BY <1>1
      <4>1. i < b
        BY <3>1, <1>1 DEF IPass
      <4>2. b <= i /\ i \in Nat /\ b \in Nat
        BY <2>1, <3>1, <1>1
      <4> QED
        BY <4>1, <4>2
    <3>3. PICK k \in Old : k <= b /\ copies[k].state = "PENDING"
      BY <3>2 DEF IStartPass
    <3>4. k = b
      <4>1. b <= k /\ k \in Nat /\ b \in Nat
        BY <2>1, <3>3, <1>1
      <4> QED
        BY <4>1, <3>3
    <3>5. copies[b].ver = ram.ver
      BY <3>2, <2>1, <1>1 DEF IStartPass
    <3> QED
      BY <3>3, <3>4, <3>5, <2>1
  <2>3. CASE Old = {}
    <3>1. \A j \in Readable : copies[j] = ram
      BY <2>3, <1>1
    <3>2. Flag = ram
      BY <3>1, <1>4, FlagSame
    <3> QED
      BY <2>3, <3>1, <3>2, <1>2, <1>3, FreshMixture
  <2>4. CASE Old # {}
    <3>1. Flag.state = "PENDING" /\ Flag.ver = ram.ver
      BY <2>4, <2>2
    <3> QED
      BY <2>4, <3>1, <1>3, FreshMixture DEF Pending
  <2> QED
    BY <2>3, <2>4
<1>5. Old # {} => Readable # {}
  BY <1>1
<1> QED
  BY <1>3, <1>4, <1>5

\* The other passes of U-Boot: the upgrade is found running until the flag
\* that ends it counts.
LEMMA WorkFlag ==
    ASSUME CopiesOK, IShape, Pass, IPass, IWorkPass, back \in {"flash", "verify", "reset"},
           todo \subseteq Copies, Readable # {}
    PROVE  /\ ram.state = "RUNNING" => Flag.state = "RUNNING" /\ Flag.ver = ram.ver
           /\ ram.state = "FAILED" =>
                \/ Flag.state = "RUNNING" /\ Flag.ver = ram.ver
                \/ /\ Flag = ram /\ Over # {}
                   /\ \A i \in Old : Pending(copies[i]) => copies[i].mask # ram.mask
           /\ ram.state = "IDLE" =>
                \/ Flag.state = "RUNNING" /\ Flag.ver = ram.ver /\ Old # {}
                \/ Flag = ram /\ Old = {}
           /\ ram.state \in {"RUNNING", "FAILED", "IDLE"}
<1>1. /\ Readable = Old \union Over /\ Old \subseteq todo /\ Over \subseteq Copies
      /\ Copies \subseteq Nat /\ \A i \in Over : copies[i] = ram
  BY PassCopies
<1>2. PICK b \in Readable :
           /\ Flag = copies[b]
           /\ \A j \in Readable : copies[b].mask \subseteq copies[j].mask
                                  => copies[j].mask = copies[b].mask /\ b <= j
  BY BestFact
<1>3. /\ Led(Old)
      /\ \A i \in Old : Pending(copies[i]) =>
            /\ copies[i].state = "RUNNING" /\ copies[i].ver = ram.ver
            /\ ram.state # "IDLE" => copies[i].mask \subseteq ram.mask
  BY DEF IWorkPass
<1>4. ram.state \in {"RUNNING", "FAILED", "IDLE"}
  BY DEF IWorkPass, PassStates
<1>5. ram.state = "IDLE" => ram.mask = {}
  BY DEF IShape, Fresh
<1>6. ASSUME b \in Old
      PROVE  copies[b].state = "RUNNING" /\ copies[b].ver = ram.ver
  <2>1. SUFFICES ASSUME ~Pending(copies[b])
                 PROVE  FALSE
    BY <1>6, <1>3
  <2>2. PICK i \in Old : i < b /\ copies[b].mask \subseteq copies[i].mask
    BY <2>1, <1>6, <1>3 DEF Led
  <2>3. b <= i /\ i \in Nat /\ b \in Nat
    BY <2>2, <1>1, <1>2, <1>6
  <2> QED
    BY <2>2, <2>3
<1>7. ASSUME b \in Over, NEW i \in Old, Pending(copies[i])
      PROVE  ram.state # "IDLE" /\ copies[i].mask # ram.mask
  <2>1. i < b /\ i \in Nat /\ b \in Nat /\ copies[b] = ram
    BY <1>7, <1>1 DEF IPass
  <2>2. ~ (ram.mask \subseteq copies[i].mask)
    BY <2>1, <1>2, <1>1
  <2> QED
    BY <2>2, <1>5
<1>8. ASSUME Old # {}
      PROVE  \E i \in Old : Pending(copies[i])
  BY <1>8, <1>3 DEF Led
<1>9. CASE b \in Old
  BY <1>9, <1>6, <1>2, <1>4
<1>10. CASE b \in Over
  <2>1. Flag = ram
    BY <1>10, <1>1, <1>2
  <2>2. ram.state = "IDLE" => Old = {}
    BY <1>10, <1>7, <1>8
  <2>3. \A i \in Old : Pending(copies[i]) => copies[i].mask # ram.mask
    BY <1>10, <1>7
  <2>4. ram.state = "RUNNING" => Flag.state = "RUNNING" /\ Flag.ver = ram.ver
    BY <2>1
  <2> QED
    BY <2>1, <2>2, <2>3, <2>4, <1>4, <1>10
<1> QED
  BY <1>9, <1>10, <1>1

\* During the later passes of U-Boot they stay one, whichever copy is next.
LEMMA WorkMixture ==
    ASSUME CopiesOK, IShape, Pass, IPass, IWorkPass, back \in {"flash", "verify", "reset"},
           todo \subseteq Copies, Readable # {}
    PROVE  Mixture
<1>1. /\ Readable = Old \union Over /\ Old \subseteq todo /\ Over \subseteq Copies
      /\ Copies \subseteq Nat /\ \A i \in Over : copies[i] = ram
  BY PassCopies
<1>2. /\ Led(Old) /\ Ordered(Old) /\ Flashed(ram.mask)
      /\ \A i \in Old : Pending(copies[i]) =>
            /\ copies[i].state = "RUNNING" /\ copies[i].ver = ram.ver
            /\ Flashed(copies[i].mask)
            /\ ram.state # "IDLE" => copies[i].mask \subseteq ram.mask
  BY DEF IWorkPass
<1>3. \A i \in Old, j \in Over : i < j
  BY <1>1 DEF IPass
<1>4. ram.state = "IDLE" => ram.mask = {}
  BY DEF IShape, Fresh
<1>5. CASE Pending(Flag)
  <2>1. Flag.state = "RUNNING" /\ Flag.ver = ram.ver
    BY <1>5, WorkFlag DEF Pending
  <2>2. \A i \in Over : Pending(copies[i]) => ram.state = "RUNNING"
    BY <1>1, WorkFlag DEF Pending
  <2>3. Led(Readable)
    <3> SUFFICES ASSUME NEW j \in Readable, ~Pending(copies[j])
                 PROVE  \E i \in Readable : /\ i < j /\ Pending(copies[i])
                                            /\ copies[j].mask \subseteq copies[i].mask
      BY DEF Led
    <3>1. CASE j \in Old
      BY <3>1, <1>1, <1>2 DEF Led
    <3>2. CASE j \in Over
      <4>1. copies[j] = ram /\ ~Pending(ram)
        BY <3>2, <1>1
      <4>2. PICK b \in Readable : Flag = copies[b]
        BY FlagTyped
      <4>3. b \in Old /\ Pending(copies[b])
        BY <4>1, <4>2, <1>1, <1>5
      <4>4. CASE ram.state = "IDLE"
        BY <4>1, <4>3, <4>4, <1>1, <1>3, <1>4, <3>2
      <4>5. CASE ram.state # "IDLE"
        <5>1. PICK k \in Readable :
                   /\ Flag = copies[k]
                   /\ \A l \in Readable : copies[k].mask \subseteq copies[l].mask
                                          => copies[l].mask = copies[k].mask /\ k <= l
          BY BestFact
        <5>2. k \in Old /\ Pending(copies[k])
          BY <4>1, <5>1, <1>1, <1>5
        <5>3. copies[k].mask \subseteq ram.mask
          BY <5>2, <1>2, <4>5
        <5>4. copies[j].mask = copies[k].mask
          BY <5>1, <5>3, <4>1, <3>2, <1>1
        <5> QED
          BY <5>2, <5>4, <1>1, <1>3, <3>2
      <4> QED
        BY <4>4, <4>5
    <3> QED
      BY <3>1, <3>2, <1>1
  <2>4. Ordered(Readable)
    <3> SUFFICES ASSUME NEW i \in Readable, NEW j \in Readable,
                        Pending(copies[i]), Pending(copies[j])
                 PROVE  \/ copies[i].mask \subseteq copies[j].mask
                        \/ copies[j].mask \subseteq copies[i].mask
      BY DEF Ordered
    <3>1. CASE i \in Old /\ j \in Old
      BY <3>1, <1>2 DEF Ordered
    <3>2. CASE i \in Over
      BY <3>2, <1>1, <1>2, <2>2
    <3>3. CASE j \in Over
      BY <3>3, <1>1, <1>2, <2>2
    <3> QED
      BY <3>1, <3>2, <3>3, <1>1
  <2>5. \A i \in Readable : Pending(copies[i]) =>
           /\ Flashed(copies[i].mask)
           /\ copies[i].state = "RUNNING" /\ copies[i].ver = Flag.ver
    BY <1>1, <1>2, <2>1, <2>2
  <2> QED
    BY <2>3, <2>4, <2>5, <1>5 DEF Mixture, Upgrading
<1>6. CASE ~Pending(Flag)
  <2>1. Flag = ram /\ ram.state \in {"FAILED", "IDLE"}
    BY <1>6, WorkFlag DEF Pending
  <2>2. SUFFICES ASSUME NEW i \in Readable, copies[i].state # ram.state
                 PROVE  \E j \in Readable : /\ i < j /\ copies[j].state = ram.state
                                            /\ copies[i].mask \subseteq copies[j].mask
                                            /\ copies[i].mask # copies[j].mask
    BY <1>6, <2>1 DEF Mixture, Settled
  <2>3. i \in Old
    BY <2>2, <1>1
  <2>4. ram.state = "FAILED" /\ Over # {}
        /\ \A k \in Old : Pending(copies[k]) => copies[k].mask # ram.mask
    BY <2>1, <2>3, <1>6, WorkFlag DEF Pending
  <2>5. PICK j \in Over : TRUE
    BY <2>4
  <2>6. i < j /\ copies[j] = ram /\ j \in Readable
    BY <2>3, <2>5, <1>1, <1>3
  <2>7. CASE Pending(copies[i])
    BY <2>3, <2>4, <2>6, <2>7, <1>2
  <2>8. CASE ~Pending(copies[i])
    <3>1. PICK k \in Old : Pending(copies[k]) /\ copies[i].mask \subseteq copies[k].mask
      BY <2>3, <2>8, <1>2 DEF Led
    <3>2. copies[k].mask \subseteq ram.mask /\ copies[k].mask # ram.mask
      BY <3>1, <2>4, <1>2
    <3> QED
      BY <3>1, <3>2, <2>4, <2>6
  <2> QED
    BY <2>7, <2>8
<1> QED
  BY <1>5, <1>6

\* What can be read is such a mixture in every state.
LEMMA MixtureEverywhere ==
    ASSUME IInv
    PROVE  Mixture
<1>1. CopiesOK /\ todo \subseteq Copies /\ pc \in Labels /\ back \in Backs
  BY DEF IInv, TypeOK, CopiesOK
<1>2. CASE Readable = {}
  BY <1>1, <1>2, FlagTyped, TornTyped DEF Mixture, Settled
<1>3. CASE Resting
  BY <1>3 DEF IInv, IResting
<1>4. CASE InLinux /\ Readable # {}
  <2>1. ASSUME NEW s \in {"IDLE", "FAILED"}, Settled(Readable, s)
        PROVE  Mixture
    BY <1>1, <1>4, <2>1, SettledFlag DEF Mixture, Pending
  <2>2. CASE Asked(Readable)
    <3>1. PICK b \in Readable : Flag = copies[b]
      BY <1>1, <1>4, FlagTyped
    <3>2. Flag.state = "PENDING"
      BY <3>1, <2>2 DEF Asked
    <3>3. \A j \in Readable : copies[j].mask = {}
      BY <1>1, <2>2, ReadableTyped DEF Asked, IInv, IShape, Fresh
    <3> QED
      BY <1>1, <3>2, <3>3, FreshMixture DEF Pending
  <2> QED
    BY <1>4, <2>1, <2>2 DEF IInv, ILinux
<1>5. CASE Working
  BY <1>5 DEF IInv, IWorking, Mixture, Pending
<1>6. CASE pc = "verify"
  <2>1. Readable # {} /\ ram.state = "IDLE" /\ \A i \in Readable : copies[i] = ram
    BY <1>6 DEF IInv, IVerify
  <2>2. Flag = ram
    BY <1>1, <2>1, FlagSame
  <2> QED
    BY <2>1, <2>2 DEF Mixture, Settled, Pending
<1>7. CASE Pass /\ Readable # {}
  <2>1. CASE back = "linux"
    BY <1>1, <1>7, <2>1, LinuxMixture DEF IInv
  <2>2. CASE back = "load"
    BY <1>1, <1>7, <2>2, StartFlag DEF IInv
  <2>3. CASE back \in {"flash", "verify", "reset"}
    BY <1>1, <1>7, <2>3, WorkMixture DEF IInv
  <2> QED
    BY <1>1, <2>1, <2>2, <2>3 DEF Backs
<1> QED
  BY <1>1, <1>2, <1>3, <1>4, <1>5, <1>6, <1>7 DEF Labels, Resting, InLinux, Working, Pass

\* Two copies are always whole, so that an operation on one leaves another.
LEMMA TwoWhole ==
    ASSUME Bearable, bad \subseteq Copies, lost \subseteq Copies
    PROVE  \E x, y \in Copies \ (bad \union lost) : x # y
<1> DEFINE gone == bad \union lost
           rest == Copies \ gone
<1>1. /\ IsFiniteSet(Copies) /\ Cardinality(Copies) = N
      /\ N \in Nat /\ MaxFaults \in Nat /\ MaxFaults + 2 <= N
  BY CopiesTyped, CopiesAssumption
<1>2. IsFiniteSet(gone) /\ Cardinality(gone) \in Nat /\ Cardinality(gone) <= MaxFaults
  BY <1>1, FS_Subset, FS_CardinalityType DEF Bearable
<1>3. IsFiniteSet(rest) /\ Cardinality(rest) \in Nat
  BY <1>1, FS_Subset, FS_CardinalityType
<1>4. gone \intersect rest = {} /\ gone \union rest = Copies
  OBVIOUS
<1>5. Cardinality(Copies)
      = Cardinality(gone) + Cardinality(rest) - Cardinality(gone \intersect rest)
  <2> HIDE DEF gone, rest
  <2> QED
    BY <1>2, <1>3, <1>4, FS_Union
<1>6. Cardinality(rest) >= 2
  <2> HIDE DEF gone, rest
  <2>1. Cardinality(gone \intersect rest) = 0
    BY <1>4, FS_EmptySet
  <2> QED
    BY <1>1, <1>2, <1>3, <1>5, <2>1
<1>7. rest # {}
  <2> HIDE DEF rest
  <2> QED
    BY <1>6, FS_EmptySet
<1>8. PICK x \in rest : TRUE
  BY <1>7
<1>9. rest # {x}
  <2> HIDE DEF rest
  <2>1. Cardinality({x}) = 1
    BY FS_Singleton
  <2> QED
    BY <1>6, <2>1
<1> QED
  BY <1>8, <1>9

\* Only one copy is written at a time.
LEMMA TurnUnique ==
    ASSUME todo \subseteq Copies, NEW i \in Copies, NEW j \in Copies, Turn(i), Turn(j)
    PROVE  i = j
<1>1. i \in Nat /\ j \in Nat
  BY CopiesTyped
<1>2. CASE back = "linux"
  BY <1>1, <1>2 DEF Turn
<1>3. CASE back # "linux"
  BY <1>1, <1>3 DEF Turn
<1> QED
  BY <1>2, <1>3

\* Once every copy was written, one can be read, whatever is written now.
LEMMA OneReadable ==
    ASSUME TypeOK, Blank = {}
    PROVE  Readable # {}
<1>1. PICK x, y \in Copies \ (bad \union lost) : x # y
  BY TwoWhole DEF TypeOK
<1>2. ~(Turn(x) /\ Turn(y))
  BY <1>1, TurnUnique DEF TypeOK
<1> QED
  BY <1>1, <1>2 DEF Blank, Readable

\* Where the flag in memory is one.
LEMMA RamTyped ==
    ASSUME IInv
    PROVE  /\ pc = "volume" \/ Working \/ pc = "verify" \/ Pass => ram \in Flags
           /\ Working => ram.state = "RUNNING" /\ ram = Flag /\ Readable # {}
<1>1. ram \in Flags \union {Torn}
  BY DEF IInv, TypeOK
<1>2. pc = "volume" => ram.state = "PENDING"
  BY DEF IInv, ILinux, InLinux
<1>3. Working => ram.state = "RUNNING" /\ ram = Flag
  BY DEF IInv, IWorking
<1>4. pc = "verify" => ram.state = "IDLE"
  BY DEF IInv, IVerify
<1>5. Pass => Valid(ram)
  BY DEF IInv, IPass
<1>6. Working => Readable # {}
  BY <1>3, FlagTyped DEF Pending, IInv, TypeOK, CopiesOK
<1> QED
  BY <1>1, <1>2, <1>3, <1>4, <1>5, <1>6, TornTyped

\* A flag with another state, ...
LEMMA FlagState ==
    ASSUME NEW f \in Flags, NEW s \in {"IDLE", "PENDING", "RUNNING", "FAILED"}
    PROVE  /\ [f EXCEPT !.state = s] \in Flags
           /\ [f EXCEPT !.state = s].state = s
           /\ [f EXCEPT !.state = s].mask = f.mask
           /\ [f EXCEPT !.state = s].ver = f.ver
  BY DEF Flags

\* ... with nothing done, ...
LEMMA FlagCleared ==
    ASSUME NEW f \in Flags
    PROVE  /\ [f EXCEPT !.state = "IDLE", !.mask = {}] \in Flags
           /\ [f EXCEPT !.state = "IDLE", !.mask = {}].state = "IDLE"
           /\ [f EXCEPT !.state = "IDLE", !.mask = {}].mask = {}
           /\ [f EXCEPT !.state = "IDLE", !.mask = {}].ver = f.ver
  BY DEF Flags

\* ... after a retry, ...
LEMMA FlagRetried ==
    ASSUME NEW f \in Flags, NEW n \in 0 .. Retries, NEW s \in {"RUNNING", "FAILED"}
    PROVE  /\ [f EXCEPT !.retry = n, !.state = s] \in Flags
           /\ [f EXCEPT !.retry = n, !.state = s].state = s
           /\ [f EXCEPT !.retry = n, !.state = s].mask = f.mask
           /\ [f EXCEPT !.retry = n, !.state = s].ver = f.ver
<1>1. s \in {"IDLE", "PENDING", "RUNNING", "FAILED"}
  OBVIOUS
<1> QED
  BY <1>1 DEF Flags

\* ... and with one more component done.
LEMMA FlagMask ==
    ASSUME NEW f \in Flags, NEW c \in Comps
    PROVE  /\ [f EXCEPT !.mask = @ \union {c}] \in Flags
           /\ [f EXCEPT !.mask = @ \union {c}].state = f.state
           /\ [f EXCEPT !.mask = @ \union {c}].mask = f.mask \union {c}
           /\ [f EXCEPT !.mask = @ \union {c}].ver = f.ver
  BY DEF Flags

\* What Retry puts in the flag.
LEMMA RetryFlag ==
    ASSUME IInv, Retry
    PROVE  \E n \in 0 .. Retries, s \in {"RUNNING", "FAILED"} :
              /\ PutFlag([ram EXCEPT !.retry = n, !.state = s], "reset")
              /\ s = "FAILED" /\ HalfDone => gaveUp'
              /\ s = "RUNNING" => gaveUp' = gaveUp
              /\ gaveUp => gaveUp'
              /\ gaveUp' \in BOOLEAN
<1>1. pc = "fail" /\ gaveUp \in BOOLEAN
  BY DEF Retry, IInv, TypeOK
<1>2. ram \in Flags /\ ram.state = "RUNNING"
  BY <1>1, RamTyped DEF Working
<1>3. ram.retry \in 0 .. Retries /\ Retries \in Nat \ {0}
  BY <1>2, RetriesAssumption DEF Flags
<1> DEFINE left == IF ram.retry > 0 THEN ram.retry - 1 ELSE 0
<1>4. left \in 0 .. Retries
  BY <1>3
<1>5. /\ PutFlag([ram EXCEPT !.retry = left, !.state = IF left = 0 THEN "FAILED" ELSE @], "reset")
      /\ gaveUp' = (gaveUp \/ (left = 0 /\ HalfDone))
  BY DEF Retry, HalfDone
<1> HIDE DEF left
<1>6. CASE left = 0
  <2>1. [ram EXCEPT !.retry = left, !.state = IF left = 0 THEN "FAILED" ELSE @]
        = [ram EXCEPT !.retry = left, !.state = "FAILED"]
    BY <1>6
  <2> QED
    BY <1>1, <1>4, <1>5, <1>6, <2>1
<1>7. CASE left # 0
  <2>1. [ram EXCEPT !.retry = left, !.state = IF left = 0 THEN "FAILED" ELSE @]
        = [ram EXCEPT !.retry = left, !.state = "RUNNING"]
    BY <1>7, <1>2
  <2> QED
    BY <1>1, <1>4, <1>5, <1>7, <2>1
<1> QED
  BY <1>6, <1>7

\* Every step keeps the types, and the bound on the copies that are lost.
LEMMA TypeStep ==
    ASSUME IInv, Next
    PROVE  TypeOK'
<1>1. /\ copies \in [Copies -> Flags \union {Torn}]
      /\ bad \subseteq Copies /\ lost \subseteq Copies /\ Bearable
      /\ part \in [Comps -> Versions \union {Half, Factory}]
      /\ vol \in Versions \union {Damaged}
      /\ pc \in Labels /\ loader \in {"none", "otfl", "uboot"}
      /\ ram \in Flags \union {Torn}
      /\ todo \subseteq Copies /\ wok \in BOOLEAN /\ back \in Backs
      /\ gaveUp \in BOOLEAN
  BY DEF IInv, TypeOK
<1>2. Flag \in Flags \union {Torn}
  BY <1>1, FlagTyped DEF CopiesOK
<1>3. Torn.state = "TORN"
  BY TornTyped
<1>4. bad' = bad /\ lost' = lost => Bearable'
  BY <1>1 DEF Bearable
<1>5. CASE VolumeWritten
  <2>1. ram \in Flags
    BY <1>5, RamTyped DEF VolumeWritten
  <2>2. ram.ver \in Versions
    BY <2>1, TornTyped
  <2> QED
    BY <1>1, <1>4, <1>5, <2>1, <2>2 DEF TypeOK, VolumeWritten, PutFlag, Labels, Backs
<1>6. CASE VolumeFails
  BY <1>1, <1>4, <1>6 DEF TypeOK, VolumeFails, flash, writer, Labels
<1>7. CASE Reboot
  BY <1>1, <1>4, <1>7 DEF TypeOK, Reboot, flash, writer, Labels
<1>8. ASSUME NEW v \in Versions, PrepareVolume(v)
      PROVE  TypeOK'
  <2>1. [state |-> "PENDING", mask |-> {}, retry |-> Retries, ver |-> v] \in Flags
    BY RetriesAssumption DEF Flags
  <2> QED
    BY <1>1, <1>4, <1>8, <2>1 DEF TypeOK, PrepareVolume, writer, Labels
<1>9. CASE Otfl
  BY <1>1, <1>4, <1>9 DEF TypeOK, Otfl, flash, writer, Labels
<1>10. CASE NormalBoot
  BY <1>1, <1>4, <1>10 DEF TypeOK, NormalBoot, flash, writer, Labels
<1>11. CASE StartUpgrade
  <2>1. Flag \in Flags
    BY <1>2, <1>3, <1>11 DEF StartUpgrade
  <2>2. [Flag EXCEPT !.state = "RUNNING"] \in Flags
    BY <2>1, FlagState
  <2> QED
    BY <1>1, <1>4, <1>11, <2>2 DEF TypeOK, StartUpgrade, PutFlag, flash, Labels, Backs
<1>12. CASE ResumeUpgrade
  BY <1>1, <1>2, <1>4, <1>12 DEF TypeOK, ResumeUpgrade, flash, writer, Labels
<1>13. CASE LoadPackage \/ LoadFails
  BY <1>1, <1>4, <1>13 DEF TypeOK, LoadPackage, LoadFails, flash, writer, Labels
<1>14. CASE RejectPackage
  <2>1. ram \in Flags
    BY <1>14, RamTyped DEF RejectPackage, Working
  <2>2. [ram EXCEPT !.state = "FAILED"] \in Flags
    BY <2>1, FlagState
  <2> QED
    BY <1>1, <1>4, <1>14, <2>2 DEF TypeOK, RejectPackage, PutFlag, flash, Labels, Backs
<1>15. ASSUME NEW c \in Comps, EraseComponent(c)
       PROVE  TypeOK'
  BY <1>1, <1>4, <1>15 DEF TypeOK, EraseComponent, writer, Labels
<1>16. ASSUME NEW c \in Comps, WriteComponent(c)
       PROVE  TypeOK'
  <2>1. ram \in Flags /\ pc = "burn"
    BY <1>16, RamTyped DEF WriteComponent, Working
  <2>2. [ram EXCEPT !.mask = @ \union {c}] \in Flags
    BY <2>1, FlagMask
  <2>3. vol \in Versions
    BY <1>1, <2>1 DEF IInv, IWorking, Working
  <2>4. gaveUp' \in BOOLEAN
    BY <1>16 DEF WriteComponent
  <2> QED
    BY <1>1, <1>4, <1>16, <2>2, <2>3, <2>4 DEF TypeOK, WriteComponent, PutFlag, Labels, Backs
<1>17. CASE ComponentFails
  BY <1>1, <1>4, <1>17 DEF TypeOK, ComponentFails, flash, writer, Labels
<1>18. CASE ClearFlag
  <2>1. ram \in Flags
    BY <1>18, RamTyped DEF ClearFlag, Working
  <2>2. [ram EXCEPT !.state = "IDLE", !.mask = {}] \in Flags
    BY <2>1, FlagCleared
  <2> QED
    BY <1>1, <1>4, <1>18, <2>2 DEF TypeOK, ClearFlag, PutFlag, flash, Labels, Backs
<1>19. CASE VerifyCleared
  BY <1>1, <1>4, <1>19 DEF TypeOK, VerifyCleared, flash, writer, Labels
<1>20. CASE Retry
  <2>1. PICK n \in 0 .. Retries, s \in {"RUNNING", "FAILED"} :
             PutFlag([ram EXCEPT !.retry = n, !.state = s], "reset") /\ gaveUp' \in BOOLEAN
    BY <1>20, RetryFlag
  <2>2. ram \in Flags
    BY <1>20, RamTyped DEF Retry, Working
  <2>3. [ram EXCEPT !.retry = n, !.state = s] \in Flags
    BY <2>2, FlagRetried
  <2>4. UNCHANGED <<flash, loader>>
    BY <1>20 DEF Retry
  <2> QED
    BY <1>1, <1>4, <2>1, <2>3, <2>4 DEF TypeOK, PutFlag, flash, Labels, Backs
<1>21. ASSUME NEW i \in Copies, EraseCopy(i)
       PROVE  TypeOK'
  BY <1>1, <1>4, <1>21 DEF TypeOK, EraseCopy, writer, Labels
<1>22. ASSUME NEW i \in Copies, EraseFails(i)
       PROVE  TypeOK'
  <2>1. copies' \in [Copies -> Flags \union {Torn}]
    BY <1>1, <1>22 DEF EraseFails
  <2> QED
    BY <1>1, <1>22, <2>1 DEF TypeOK, EraseFails
<1>23. ASSUME NEW i \in Copies, ProgramCopy(i)
       PROVE  TypeOK'
  <2>1. Bearable'
    <3>1. bad' \union lost' \subseteq bad \union lost /\ IsFiniteSet(bad \union lost)
      BY <1>1, <1>23, CopiesTyped, FS_Subset DEF ProgramCopy
    <3>2. /\ Cardinality(bad' \union lost') <= Cardinality(bad \union lost)
          /\ Cardinality(bad' \union lost') \in Nat /\ Cardinality(bad \union lost) \in Nat
      BY <3>1, FS_Subset, FS_CardinalityType
    <3>3. Cardinality(bad \union lost) <= MaxFaults /\ MaxFaults \in Nat
      BY <1>1, CopiesAssumption DEF Bearable
    <3> QED
      BY <3>2, <3>3 DEF Bearable
  <2> QED
    BY <1>1, <1>23, <2>1 DEF TypeOK, ProgramCopy, Labels
<1>24. ASSUME NEW i \in Copies, ProgramFails(i)
       PROVE  TypeOK'
  <2>1. copies' \in [Copies -> Flags \union {Torn}]
    BY <1>1, <1>24 DEF ProgramFails
  <2> QED
    BY <1>1, <1>24, <2>1 DEF TypeOK, ProgramFails, Labels
<1>25. CASE AllTried
  <2>1. pc' \in Labels
    BY <1>1, <1>25 DEF AllTried, Labels, Backs
  <2> QED
    BY <1>1, <1>4, <1>25, <2>1 DEF TypeOK, AllTried, Backs
<1>26. CASE PowerFails
  BY <1>1, <1>26 DEF TypeOK, PowerFails, Labels, Backs
<1>27. CASE PowerOn
  BY <1>1, <1>4, <1>27 DEF TypeOK, PowerOn, flash, writer, Labels
<1> QED
  BY <1>5, <1>6, <1>7, <1>8, <1>9, <1>10, <1>11, <1>12, <1>13, <1>14, <1>15, <1>16,
     <1>17, <1>18, <1>19, <1>20, <1>21, <1>22, <1>23, <1>24, <1>25, <1>26, <1>27
     DEF Next, Linux, Boot, WriteFlag

-----------------------------------------------------------------------------
\* What is said of the copies depends on the copies.
LEMMA SameCopies ==
    ASSUME copies' = copies, bad' = bad
    PROVE  /\ Readable' = Readable /\ Flag' = Flag
           /\ \A s : Settled(Readable, s) => Settled(Readable, s)'
           /\ Asked(Readable) => Asked(Readable)'
           /\ Led(Readable) => Led(Readable)'
           /\ Ordered(Readable) => Ordered(Readable)'
           /\ OtflPending' = OtflPending
<1>1. Readable' = Readable
  BY DEF Readable, Valid
<1>2. Best(Readable)' = Best(Readable)
  BY <1>1 DEF Best
<1>3. Flag' = Flag
  BY <1>1, <1>2 DEF Flag
<1>4. OtflPending' = OtflPending
  BY DEF OtflPending, Valid, Pending
<1>5. \A s : Settled(Readable, s) => Settled(Readable, s)'
  BY <1>1 DEF Settled
<1>6. Asked(Readable) => Asked(Readable)'
  BY <1>1 DEF Asked
<1>7. Led(Readable) => Led(Readable)'
  BY <1>1 DEF Led, Pending
<1>8. Ordered(Readable) => Ordered(Readable)'
  BY <1>1 DEF Ordered, Pending
<1> QED
  BY <1>1, <1>3, <1>4, <1>5, <1>6, <1>7, <1>8

\* What is said of the copies and the image depends on them alone.
LEMMA SameMixture ==
    ASSUME UNCHANGED <<copies, bad, part, vol>>
    PROVE  /\ Mixture => Mixture'
           /\ Upgrading => Upgrading'
           /\ HalfDone' = HalfDone
           /\ gaveUp' = gaveUp /\ IHalf => IHalf'
<1>1. copies' = copies /\ bad' = bad /\ Readable' = Readable /\ Flag' = Flag
  BY SameCopies
<1>2. HalfDone' = HalfDone
  BY DEF HalfDone
<1>3. gaveUp' = gaveUp /\ IHalf => IHalf'
  BY <1>1, <1>2 DEF IHalf
<1>4. Upgrading => Upgrading'
  <2>1. Led(Readable) /\ Ordered(Readable) => Led(Readable)' /\ Ordered(Readable)'
    BY <1>1, SameCopies
  <2> QED
    BY <1>1, <2>1 DEF Upgrading, Pending, Flashed
<1>5. Mixture => Mixture'
  <2>1. CASE Pending(Flag)
    <3>1. Pending(Flag)'
      BY <1>1, <2>1 DEF Pending
    <3> QED
      BY <1>4, <2>1, <3>1 DEF Mixture
  <2>2. CASE ~Pending(Flag)
    <3>1. ~Pending(Flag)'
      BY <1>1, <2>2 DEF Pending
    <3>2. Settled(Readable, Flag.state) => Settled(Readable, Flag.state)'
      BY <1>1 DEF Settled
    <3> QED
      BY <2>2, <3>1, <3>2 DEF Mixture
  <2> QED
    BY <2>1, <2>2
<1> QED
  BY <1>2, <1>3, <1>4, <1>5

\* What is true while copies were never written stays true with the copies.
LEMMA SameBlank ==
    ASSUME IBlank, copies' = copies, bad' = bad, Blank' \subseteq Blank,
           Blank # {} => \/ Resting'
                         \/ InLinux' /\ Readable = {}
                         \/ Pass' /\ back' = "load" /\ Readable # {}
                         \/ Pass' /\ back' = "linux" /\ Old' = {}
    PROVE  IBlank'
<1>1. Readable' = Readable
  BY SameCopies
<1>2. SUFFICES ASSUME Blank' # {}
               PROVE  IBlank'
  BY DEF IBlank
<1>3. Blank # {}
  BY <1>2
<1>4. /\ \A j \in Readable : /\ Pending(copies[j]) /\ copies[j].mask = {}
                             /\ \E i \in Readable : i <= j /\ copies[i].state = "PENDING"
      /\ Readable # {} =>
            \A x \in Blank : \E i \in Readable : i < x /\ copies[i].state = "PENDING"
  BY <1>3 DEF IBlank
<1>5. \A j \in Readable' : Pending(copies[j])'
  BY <1>1, <1>4 DEF Pending
<1> QED
  BY <1>1, <1>3, <1>4, <1>5 DEF IBlank

\* Without a program cut short, no copy becomes one that was never written.
LEMMA QuietBlank ==
    ASSUME copies' = copies, bad' = bad, lost \subseteq lost', pc # "program"
    PROVE  Blank' \subseteq Blank
  BY DEF Blank, Valid

\* A step that writes nothing, between places outside the passes.
LEMMA QuietStep ==
    ASSUME IInv, TypeOK', UNCHANGED flash, gaveUp' = gaveUp, ~Pass, ~Pass',
           Fresh(ram'), ILoader', ILinux', IWorking', IVerify',
           Blank # {} => Resting' \/ (InLinux' /\ Readable = {})
    PROVE  IInv'
<1>1. copies' = copies /\ bad' = bad /\ lost' = lost /\ part' = part /\ vol' = vol
  BY DEF flash
<1>2. Mixture'
  BY <1>1, MixtureEverywhere, SameMixture
<1>3. IHalf'
  BY <1>1, SameMixture DEF IInv
<1>4. IBlank'
  <2>1. Blank' \subseteq Blank
    BY <1>1, QuietBlank DEF Pass
  <2>2. IBlank
    BY DEF IInv
  <2> QED
    BY <1>1, <2>1, <2>2, SameBlank
<1>5. IShape'
  BY <1>1 DEF IInv, IShape, Fresh
<1>6. IPass' /\ ILinuxPass' /\ IStartPass' /\ IWorkPass' /\ IResting'
  BY <1>2 DEF IPass, ILinuxPass, IStartPass, IWorkPass, IResting
<1> QED
  BY <1>3, <1>4, <1>5, <1>6 DEF IInv

\* Copies never written, and a flag that is not the first PENDING one.
LEMMA BlankFlag ==
    ASSUME IInv, Blank # {}, Readable # {}
    PROVE  Flag.state = "PENDING"
<1>1. CopiesOK
  BY DEF IInv, TypeOK, CopiesOK
<1>2. \A j \in Readable : /\ copies[j].mask = {}
                          /\ \E i \in Readable : i <= j /\ copies[i].state = "PENDING"
  BY DEF IInv, IBlank
<1>3. PICK b \in Readable : Flag = copies[b] /\ \A j \in Readable : b <= j
  BY <1>1, <1>2, FlagFirst
<1>4. PICK i \in Readable : i <= b /\ copies[i].state = "PENDING"
  BY <1>2
<1>5. i = b
  BY <1>1, <1>3, <1>4, ReadableTyped
<1> QED
  BY <1>3, <1>4, <1>5

\* Where copies that were never written can be.
LEMMA BlankWhere ==
    ASSUME IInv
    PROVE  /\ Working \/ pc = "verify" => Blank = {}
           /\ InLinux => Blank = {} \/ Readable = {}
           /\ Pass /\ back \notin {"linux", "load"} => Blank = {}
  BY DEF IInv, IBlank, Resting, InLinux, Working, Pass

\* A volume that cannot be written leaves the flag of the last upgrade.
LEMMA VolumeFailsStep ==
    ASSUME IInv, TypeOK', VolumeFails
    PROVE  IInv'
<1>1. pc = "volume" /\ pc' = "linux" /\ ram' = Torn /\ UNCHANGED <<flash, loader, writer, gaveUp>>
  BY DEF VolumeFails
<1>2. UNCHANGED <<copies, bad, part, vol>>
  BY <1>1 DEF flash
<1>3. ILinux'
  BY <1>1, <1>2, SameCopies, SameMixture DEF IInv, ILinux, InLinux
<1>4. ILoader' /\ IWorking' /\ IVerify' /\ Fresh(ram') /\ ~Pass /\ ~Pass'
  BY <1>1, TornTyped DEF ILoader, IWorking, Working, IVerify, Fresh, Pass
<1>5. Blank # {} => InLinux' /\ Readable = {}
  BY <1>1, BlankWhere DEF InLinux
<1> QED
  BY <1>1, <1>3, <1>4, <1>5, QuietStep

\* A reboot may come between the volume and the flag.
LEMMA RebootStep ==
    ASSUME IInv, TypeOK', Reboot
    PROVE  IInv'
<1>1. pc = "linux" /\ pc' = "otfl" /\ UNCHANGED <<flash, loader, ram, writer, gaveUp>>
  BY DEF Reboot
<1>2. /\ ILinux' /\ ILoader' /\ IWorking' /\ IVerify' /\ ~Pass /\ ~Pass' /\ Resting'
  BY <1>1 DEF ILinux, InLinux, ILoader, IWorking, Working, IVerify, Pass, Resting
<1>3. Fresh(ram')
  BY <1>1 DEF IInv, IShape
<1> QED
  BY <1>1, <1>2, <1>3, QuietStep

\* OTFL picks the partition, from every copy, bad blocks included.
LEMMA OtflStep ==
    ASSUME IInv, TypeOK', Otfl
    PROVE  IInv'
<1>1. /\ pc = "otfl" /\ pc' \in {"dead", "uboot"} /\ UNCHANGED <<flash, ram, writer, gaveUp>>
      /\ loader' = IF OtflPending THEN "otfl" ELSE "uboot"
  BY DEF Otfl
<1>2. /\ ILinux' /\ IWorking' /\ IVerify' /\ ~Pass /\ ~Pass' /\ Resting'
  BY <1>1 DEF ILinux, InLinux, IWorking, Working, IVerify, Pass, Resting
<1>3. ILoader'
  <2>1. OtflPending' = OtflPending
    BY <1>1, SameCopies DEF flash
  <2> QED
    BY <1>1, <2>1 DEF ILoader, Pass
<1>4. Fresh(ram')
  BY <1>1 DEF IInv, IShape
<1> QED
  BY <1>1, <1>2, <1>3, <1>4, QuietStep

\* Linux is booted only when no flag asks: the image is whole then.
LEMMA NormalBootStep ==
    ASSUME IInv, TypeOK', NormalBoot
    PROVE  IInv'
<1>1. /\ pc = "uboot" /\ pc' \in {"linux", "dead"} /\ ~Pending(Flag) /\ loader' = "none"
      /\ UNCHANGED <<flash, ram, writer, gaveUp>>
  BY DEF NormalBoot
<1>2. IWorking' /\ IVerify' /\ ILoader' /\ ~Pass /\ ~Pass'
  BY <1>1 DEF IWorking, Working, IVerify, ILoader, Pass
<1>3. CopiesOK
  BY DEF IInv, TypeOK, CopiesOK
<1>4. Settled(Readable, Flag.state)
  BY <1>1, MixtureEverywhere DEF Mixture
<1>5. \E s \in {"IDLE", "FAILED"} : Settled(Readable, s)
  <2>1. CASE Readable = {}
    BY <2>1 DEF Settled
  <2>2. CASE Readable # {}
    <3>1. Flag.state \in {"IDLE", "FAILED"}
      BY <1>1, <1>3, <2>2, FlagTyped, TornTyped DEF Pending
    <3> QED
      BY <1>4, <3>1
  <2> QED
    BY <2>1, <2>2
<1>6. HalfDone => gaveUp
  BY <1>1 DEF IInv, IHalf, Pending
<1>7. UNCHANGED <<copies, bad, part, vol>> /\ gaveUp' = gaveUp
  BY <1>1 DEF flash
<1>8. ILinux'
  <2>1. \E s \in {"IDLE", "FAILED"} : Settled(Readable, s)'
    BY <1>5, <1>7, SameCopies
  <2>2. (HalfDone => gaveUp)'
    BY <1>6, <1>7, SameMixture
  <2> QED
    BY <1>1, <2>1, <2>2 DEF ILinux
<1>9. Blank # {} => Resting' \/ (InLinux' /\ Readable = {})
  <2>1. Blank # {} => Readable = {}
    BY <1>1, BlankFlag DEF Pending
  <2> QED
    BY <1>1, <2>1 DEF Resting, InLinux
<1>10. Fresh(ram')
  BY <1>1 DEF IInv, IShape
<1> QED
  BY <1>1, <1>2, <1>8, <1>9, <1>10, QuietStep

\* U-Boot finds a flag that asks only when OTFL loaded it from the otfl
\* partition.
LEMMA PendingLoader ==
    ASSUME IInv, pc = "uboot", Pending(Flag)
    PROVE  loader = "otfl"
<1>1. CopiesOK
  BY DEF IInv, TypeOK, CopiesOK
<1>2. PICK b \in Readable : Flag = copies[b]
  BY <1>1, FlagTyped
<1>3. OtflPending
  BY <1>2 DEF OtflPending, Readable
<1> QED
  BY <1>3 DEF IInv, ILoader

\* A reset during an upgrade takes it up with the flag that is found.
LEMMA ResumeUpgradeStep ==
    ASSUME IInv, TypeOK', ResumeUpgrade
    PROVE  IInv'
<1>1. /\ pc = "uboot" /\ pc' = "load" /\ Flag.state = "RUNNING" /\ ram' = Flag
      /\ UNCHANGED <<flash, loader, writer, gaveUp>>
  BY DEF ResumeUpgrade
<1>2. UNCHANGED <<copies, bad, part, vol>> /\ gaveUp' = gaveUp /\ loader' = loader
  BY <1>1 DEF flash
<1>3. Pending(Flag) /\ Flag' = Flag
  BY <1>1, <1>2, SameCopies DEF Pending
<1>4. IWorking'
  <2>1. Upgrading
    BY <1>3, MixtureEverywhere DEF Mixture
  <2>2. Upgrading'
    BY <1>2, <2>1, SameMixture
  <2> QED
    BY <1>1, <1>3, <2>2 DEF IWorking
<1>5. ILoader'
  BY <1>1, <1>2, <1>3, PendingLoader DEF ILoader, Pass
<1>6. ILinux' /\ IVerify' /\ ~Pass /\ ~Pass'
  BY <1>1 DEF ILinux, InLinux, IVerify, Pass
<1>7. Fresh(ram')
  BY <1>1 DEF Fresh
<1>8. Blank = {}
  <2>1. Readable # {}
    BY <1>3, FlagTyped DEF IInv, TypeOK, CopiesOK
  <2> QED
    BY <1>1, <2>1, BlankFlag
<1> QED
  BY <1>1, <1>4, <1>5, <1>6, <1>7, <1>8, QuietStep

\* Reading the package, and failing, write nothing.
LEMMA WorkingStep ==
    ASSUME IInv, TypeOK', LoadFails \/ LoadPackage \/ ComponentFails
    PROVE  IInv'
<1>1. /\ Working /\ Working' /\ UNCHANGED <<flash, loader, ram, writer, gaveUp>>
      /\ pc' # "burn" /\ pc' # "load"
      /\ pc' = "flash" => pc = "load" /\ Accepted /\ vol # Damaged
  BY DEF LoadFails, LoadPackage, ComponentFails, Working
<1>2. UNCHANGED <<copies, bad, part, vol>> /\ gaveUp' = gaveUp /\ loader' = loader /\ ram' = ram
  BY <1>1 DEF flash
<1>3. IWorking'
  BY <1>1, <1>2, SameCopies, SameMixture DEF IInv, IWorking, Accepted
<1>4. ILoader'
  BY <1>1, <1>2 DEF IInv, ILoader, Working, Pass
<1>5. ILinux' /\ IVerify' /\ ~Pass /\ ~Pass'
  BY <1>1 DEF ILinux, InLinux, IVerify, Pass, Working
<1>6. Fresh(ram')
  BY <1>2 DEF IInv, IShape
<1>7. Blank = {}
  BY <1>1, BlankWhere
<1> QED
  BY <1>1, <1>3, <1>4, <1>5, <1>6, <1>7, QuietStep

\* The flag that was cleared is found cleared.
LEMMA VerifyFinds ==
    ASSUME IInv, pc = "verify"
    PROVE  Flag.state = "IDLE"
<1>1. Readable # {} /\ ram.state = "IDLE" /\ \A i \in Readable : copies[i] = ram
  BY DEF IInv, IVerify
<1> QED
  BY <1>1, FlagSame DEF IInv, TypeOK, CopiesOK

\* The flag read back after ClearFlag is IDLE.
LEMMA VerifyClearedStep ==
    ASSUME IInv, TypeOK', VerifyCleared
    PROVE  IInv'
<1>1. pc = "verify" /\ pc' = "otfl" /\ ram' = Torn /\ UNCHANGED <<flash, writer, gaveUp>>
  BY VerifyFinds DEF VerifyCleared
<1>2. /\ ILinux' /\ ILoader' /\ IWorking' /\ IVerify' /\ ~Pass /\ ~Pass' /\ Resting'
  BY <1>1 DEF ILinux, InLinux, ILoader, IWorking, Working, IVerify, Pass, Resting
<1>3. Fresh(ram')
  BY <1>1, TornTyped DEF Fresh
<1> QED
  BY <1>1, <1>2, <1>3, QuietStep

\* Power comes back with what the flash holds.
LEMMA PowerOnStep ==
    ASSUME IInv, TypeOK', PowerOn
    PROVE  IInv'
<1>1. pc = "off" /\ pc' = "otfl" /\ UNCHANGED <<flash, loader, ram, writer, gaveUp>>
  BY DEF PowerOn
<1>2. /\ ILinux' /\ ILoader' /\ IWorking' /\ IVerify' /\ ~Pass /\ ~Pass' /\ Resting'
  BY <1>1 DEF ILinux, InLinux, ILoader, IWorking, Working, IVerify, Pass, Resting
<1>3. Fresh(ram')
  BY <1>1 DEF IInv, IShape
<1> QED
  BY <1>1, <1>2, <1>3, QuietStep

\* A power failure, also between the erase and the program of a copy, leaves
\* a mixture: that is why the mixture is claimed in every state.
LEMMA PowerFailsStep ==
    ASSUME IInv, TypeOK', PowerFails
    PROVE  IInv'
<1>1. /\ pc' = "off" /\ ram' = Torn /\ UNCHANGED <<copies, bad, part, vol, gaveUp>>
      /\ lost' = IF pc = "program" THEN lost \union {i \in Copies : Turn(i)} ELSE lost
  BY DEF PowerFails
<1>2. /\ ILinux' /\ ILoader' /\ IWorking' /\ IVerify' /\ ~Pass' /\ Resting'
  BY <1>1 DEF ILinux, InLinux, ILoader, IWorking, Working, IVerify, Pass, Resting
<1>3. IPass' /\ ILinuxPass' /\ IStartPass' /\ IWorkPass'
  BY <1>2 DEF IPass, ILinuxPass, IStartPass, IWorkPass
<1>4. IResting' /\ IHalf'
  BY <1>1, MixtureEverywhere, SameMixture DEF IResting, IInv
<1>5. IShape'
  BY <1>1, TornTyped DEF IInv, IShape, Fresh
<1>6. IBlank'
  <2>1. Blank' \subseteq Blank
    BY <1>1 DEF Blank, Valid
  <2> QED
    BY <1>1, <1>2, <2>1, SameBlank DEF IInv
<1> QED
  BY <1>2, <1>3, <1>4, <1>5, <1>6 DEF IInv

\* ota_prepare takes the volume while no half written component needs it.
LEMMA PrepareVolumeStep ==
    ASSUME IInv, TypeOK', NEW v \in Versions, PrepareVolume(v)
    PROVE  IInv'
<1>1. /\ pc = "linux" /\ pc' = "volume" /\ ram'.state = "PENDING" /\ ram'.mask = {}
      /\ UNCHANGED <<copies, bad, lost, part, loader, writer, gaveUp>>
  BY DEF PrepareVolume
<1>2. HalfDone' = HalfDone /\ gaveUp' = gaveUp
  BY <1>1 DEF HalfDone
<1>3. ILinux'
  BY <1>1, <1>2, SameCopies DEF IInv, ILinux, InLinux
<1>4. IHalf'
  BY <1>1, <1>2 DEF IInv, IHalf, ILinux, InLinux
<1>5. IBlank'
  <2>1. Blank' \subseteq Blank
    BY <1>1, QuietBlank
  <2>2. Blank # {} => InLinux' /\ Readable = {}
    BY <1>1, BlankWhere DEF InLinux
  <2> QED
    BY <1>1, <2>1, <2>2, SameBlank DEF IInv
<1>6. IShape'
  BY <1>1 DEF IInv, IShape, Fresh
<1>7. ILoader' /\ IWorking' /\ IVerify' /\ IResting'
  BY <1>1 DEF ILoader, IWorking, Working, IVerify, Pass, IResting, Resting
<1>8. IPass' /\ ILinuxPass' /\ IStartPass' /\ IWorkPass'
  BY <1>1 DEF IPass, ILinuxPass, IStartPass, IWorkPass, Pass
<1> QED
  BY <1>3, <1>4, <1>5, <1>6, <1>7, <1>8 DEF IInv

\* uflag_write begins: every copy in a good block has still to be written.
LEMMA BeginPass ==
    ASSUME NEW f, NEW next, Valid(f), PutFlag(f, next), copies' = copies, bad' = bad
    PROVE  /\ Old' = Readable /\ Over' = {} /\ Readable' = Readable /\ Flag' = Flag
           /\ ram' = f /\ back' = next /\ Pass'
           /\ IPass' /\ IResting' /\ ILinux' /\ IWorking' /\ IVerify'
<1>1. /\ ram' = f /\ todo' = Copies \ bad /\ wok' = FALSE /\ back' = next /\ pc' = "erase"
  BY DEF PutFlag
<1>2. Readable' = Readable /\ Flag' = Flag
  BY SameCopies
<1>3. Old' = Readable /\ Over' = {}
  BY <1>1, <1>2 DEF Old, Over, Readable
<1>4. Pass' /\ IResting' /\ ILinux' /\ IWorking' /\ IVerify'
  BY <1>1 DEF Pass, IResting, Resting, ILinux, InLinux, IWorking, Working, IVerify
<1>5. Valid(ram)'
  BY <1>1 DEF Valid
<1>6. IPass'
  BY <1>1, <1>3, <1>5 DEF IPass
<1> QED
  BY <1>1, <1>2, <1>3, <1>4, <1>6

\* The package is in the volume before the first copy asks for it.
LEMMA VolumeWrittenStep ==
    ASSUME IInv, TypeOK', VolumeWritten
    PROVE  IInv'
<1>1. /\ pc = "volume" /\ PutFlag(ram, "linux")
      /\ UNCHANGED <<copies, bad, lost, part, loader, gaveUp>>
  BY DEF VolumeWritten
<1>2. Valid(ram) /\ ram.state = "PENDING" /\ Fresh(ram)
  BY <1>1, RamTyped, TornTyped DEF IInv, ILinux, InLinux, IShape
<1>3. /\ Old' = Readable /\ Over' = {} /\ Readable' = Readable /\ Flag' = Flag
      /\ ram' = ram /\ back' = "linux" /\ Pass'
      /\ IPass' /\ IResting' /\ ILinux' /\ IWorking' /\ IVerify'
  BY <1>1, <1>2, BeginPass
<1>4. HalfDone => gaveUp
  BY <1>1 DEF IInv, ILinux, InLinux
<1>5. HalfDone' = HalfDone
  BY <1>1 DEF HalfDone
<1>6. ILinuxPass'
  <2>1. ASSUME NEW s, Settled(Readable, s)
        PROVE  Settled(Old, s)'
    BY <1>1, <1>3, <2>1 DEF Settled
  <2>2. Asked(Readable) => Asked(Old)'
    BY <1>1, <1>3 DEF Asked
  <2>3. (\E s \in {"IDLE", "FAILED"} : Settled(Readable, s)) \/ Asked(Readable)
    BY <1>1 DEF IInv, ILinux, InLinux
  <2>4. (\E s \in {"IDLE", "FAILED"} : Settled(Old, s)') \/ Asked(Old)'
    BY <2>1, <2>2, <2>3
  <2> QED
    BY <1>1, <1>2, <1>3, <1>4, <1>5, <2>4 DEF ILinuxPass
<1>7. IStartPass' /\ IWorkPass'
  BY <1>3 DEF IStartPass, IWorkPass
<1>8. IHalf'
  BY <1>1, <1>4, <1>5 DEF IHalf
<1>9. IBlank'
  <2>1. Blank' \subseteq Blank
    BY <1>1, QuietBlank
  <2>2. Blank # {} => Old' = {}
    BY <1>1, <1>3, BlankWhere DEF InLinux
  <2> QED
    BY <1>1, <1>3, <2>1, <2>2, SameBlank DEF IInv
<1>10. IShape'
  BY <1>1, <1>3 DEF IInv, IShape, Fresh
<1>11. ILoader'
  BY <1>3 DEF ILoader, Pass
<1> QED
  BY <1>3, <1>6, <1>7, <1>8, <1>9, <1>10, <1>11 DEF IInv

\* U-Boot starts the upgrade that the lowest readable copy asks for.
LEMMA StartUpgradeStep ==
    ASSUME IInv, TypeOK', StartUpgrade
    PROVE  IInv'
<1> DEFINE f == [Flag EXCEPT !.state = "RUNNING"]
<1>1. /\ pc = "uboot" /\ Flag.state = "PENDING" /\ PutFlag(f, "load")
      /\ UNCHANGED <<flash, loader, gaveUp>>
  BY DEF StartUpgrade
<1>2. CopiesOK /\ Flag \in Flags /\ Readable # {}
  BY <1>1, FlagTyped, TornTyped DEF IInv, TypeOK, CopiesOK
<1>3. Valid(f) /\ f.state = "RUNNING" /\ f.mask = Flag.mask /\ f.ver = Flag.ver
  <2>1. f \in Flags /\ f.state = "RUNNING" /\ f.mask = Flag.mask /\ f.ver = Flag.ver
    BY <1>2, FlagState
  <2> HIDE DEF f
  <2> QED
    BY <2>1, TornTyped
<1>4. UNCHANGED <<copies, bad, lost, part, vol, loader, gaveUp>>
  BY <1>1 DEF flash
<1> HIDE DEF f
<1>5. /\ Old' = Readable /\ Over' = {} /\ Readable' = Readable /\ Flag' = Flag
      /\ ram' = f /\ back' = "load" /\ Pass'
      /\ IPass' /\ IResting' /\ ILinux' /\ IWorking' /\ IVerify'
  BY <1>1, <1>3, <1>4, BeginPass
<1>6. PICK b \in Readable :
           /\ Flag = copies[b]
           /\ \A j \in Readable : copies[b].mask \subseteq copies[j].mask
                                  => copies[j].mask = copies[b].mask /\ b <= j
  BY <1>2, BestFact
<1>7. copies[b].mask = {}
  BY <1>1, <1>2, <1>6, ReadableTyped DEF IInv, IShape, Fresh
<1>8. HalfDone => gaveUp
  BY <1>1 DEF IInv, IHalf
<1>9. HalfDone' = HalfDone
  BY <1>4 DEF HalfDone
<1>10. IStartPass'
  <2>1. \A j \in Old' : copies[j].mask = {} /\ b <= j /\ copies[b].state = "PENDING" /\ b \in Old'
    BY <1>1, <1>5, <1>6, <1>7
  <2>2. ASSUME NEW j \in Old', \A i \in Old' : j <= i
        PROVE  copies'[j].ver = ram'.ver
    <3>1. b \in Old' /\ b <= j /\ j <= b /\ b \in Nat /\ j \in Nat
      BY <1>2, <1>5, <2>1, <2>2, ReadableTyped
    <3>2. b = j
      BY <3>1
    <3> QED
      BY <1>3, <1>4, <1>5, <1>6, <3>2
  <2>3. ram'.state = "RUNNING" /\ ram'.mask = {} /\ (HalfDone' => gaveUp')
    BY <1>3, <1>4, <1>5, <1>6, <1>7, <1>8, <1>9
  <2>4. \A j \in Old' : /\ copies'[j].mask = {}
                        /\ \E i \in Old' : i <= j /\ copies'[i].state = "PENDING"
    BY <1>4, <2>1
  <2> QED
    BY <2>2, <2>3, <2>4 DEF IStartPass
<1>11. ILinuxPass' /\ IWorkPass'
  BY <1>5 DEF ILinuxPass, IWorkPass
<1>12. IHalf'
  BY <1>4, <1>8, <1>9 DEF IHalf
<1>13. IBlank'
  <2>1. Blank' \subseteq Blank
    BY <1>1, <1>4, QuietBlank
  <2> QED
    BY <1>2, <1>4, <1>5, <2>1, SameBlank DEF IInv
<1>14. IShape'
  BY <1>3, <1>4, <1>5 DEF IInv, IShape, Fresh
<1>15. ILoader'
  <2>1. loader' = "otfl"
    BY <1>1, <1>4, PendingLoader DEF Pending
  <2> QED
    BY <1>5, <2>1 DEF ILoader, Pass
<1> QED
  BY <1>5, <1>10, <1>11, <1>12, <1>13, <1>14, <1>15 DEF IInv

\* What is known of the copies when U-Boot works on an upgrade.
LEMMA WorkingCopies ==
    ASSUME IInv, Working
    PROVE  /\ Readable # {} /\ Blank = {} /\ ram \in Flags /\ ram = Flag /\ ram.state = "RUNNING"
           /\ Led(Readable) /\ Ordered(Readable) /\ Flashed(ram.mask)
           /\ \A i \in Readable : Pending(copies[i]) =>
                 /\ copies[i].state = "RUNNING" /\ copies[i].ver = ram.ver
                 /\ Flashed(copies[i].mask)
                 /\ copies[i].mask \subseteq ram.mask
<1>1. Readable # {} /\ ram \in Flags /\ ram = Flag /\ ram.state = "RUNNING"
  BY RamTyped
<1>2. CopiesOK
  BY DEF IInv, TypeOK, CopiesOK
<1>3. Blank = {}
  BY BlankWhere
<1>4. Upgrading
  BY DEF IInv, IWorking
<1>5. PICK b \in Readable : Flag = copies[b]
  BY <1>1, <1>2, FlagTyped
<1>6. Flashed(ram.mask)
  BY <1>1, <1>4, <1>5 DEF Upgrading, Pending
<1>7. \A i \in Readable : Pending(copies[i]) => copies[i].mask \subseteq ram.mask
  BY <1>1, <1>2, <1>4, FlagMost DEF Upgrading
<1> QED
  BY <1>1, <1>3, <1>4, <1>6, <1>7 DEF Upgrading

\* A pass that U-Boot begins while it works on an upgrade.
LEMMA WorkBegin ==
    ASSUME IInv, TypeOK', Working, NEW f \in Flags, NEW next \in {"flash", "verify", "reset"},
           PutFlag(f, next),
           UNCHANGED <<copies, bad, lost, vol, loader>>,
           f.state \in PassStates[next], f.ver = ram.ver, Fresh(f),
           f.state = "IDLE" \/ ram.mask \subseteq f.mask,
           \A c \in Comps : part[c] = vol => part'[c] = vol,
           \A c \in f.mask : part'[c] = vol /\ vol # Damaged,
           next = "flash" => Accepted /\ vol # Damaged,
           next \in {"flash", "verify"} => pc = "flash" \/ pc = "burn",
           f.state # "RUNNING" /\ HalfDone' => gaveUp',
           next = "verify" => \A c \in Pkg[f.ver] : part'[c] = vol /\ vol # Damaged,
           IHalf'
    PROVE  IInv'
<1>1. /\ Readable # {} /\ Blank = {} /\ ram \in Flags /\ ram = Flag /\ ram.state = "RUNNING"
      /\ Led(Readable) /\ Ordered(Readable) /\ Flashed(ram.mask)
      /\ \A i \in Readable : Pending(copies[i]) =>
            /\ copies[i].state = "RUNNING" /\ copies[i].ver = ram.ver
            /\ Flashed(copies[i].mask)
            /\ copies[i].mask \subseteq ram.mask
  BY WorkingCopies
<1>2. Valid(f)
  BY TornTyped
<1>3. /\ Old' = Readable /\ Over' = {} /\ Readable' = Readable /\ Flag' = Flag
      /\ ram' = f /\ back' = next /\ Pass'
      /\ IPass' /\ IResting' /\ ILinux' /\ IWorking' /\ IVerify'
  BY <1>2, BeginPass
<1>4. Blank' \subseteq Blank /\ Blank' = {}
  BY <1>1, QuietBlank DEF Working
<1>5. IBlank'
  BY <1>4 DEF IBlank
<1>6. IShape'
  BY <1>3 DEF IInv, IShape, Fresh
<1>7. ILoader'
  BY <1>3 DEF IInv, ILoader, Pass
<1>8. ILinuxPass' /\ IStartPass'
  BY <1>3 DEF ILinuxPass, IStartPass
<1>9. IWorkPass'
  <2>1. Led(Old)' /\ Ordered(Old)'
    BY <1>1, <1>3 DEF Led, Ordered, Pending
  <2>2. \A i \in Old' : Pending(copies[i])' =>
           /\ copies'[i].state = "RUNNING" /\ copies'[i].ver = ram'.ver
           /\ Flashed(copies[i].mask)'
           /\ ram'.state # "IDLE" => copies'[i].mask \subseteq ram'.mask
    <3> SUFFICES ASSUME NEW i \in Old', Pending(copies[i])
                 PROVE  /\ copies'[i].state = "RUNNING" /\ copies'[i].ver = ram'.ver
                        /\ Flashed(copies[i].mask)'
                        /\ ram'.state # "IDLE" => copies'[i].mask \subseteq ram'.mask
      BY DEF Pending
    <3>1. i \in Readable /\ copies'[i] = copies[i]
      BY <1>3
    <3>2. copies[i].mask \subseteq Comps
      BY <3>1, ReadableTyped DEF IInv, TypeOK, CopiesOK
    <3>3. Flashed(copies[i].mask)'
      BY <1>1, <3>1, <3>2 DEF Flashed
    <3> QED
      BY <1>1, <1>3, <3>1, <3>3
  <2>3. back' = "flash" => Accepted' /\ vol' # Damaged
    BY <1>3 DEF Accepted
  <2>4. back' = "verify" => Flashed(Pkg[ram.ver])'
    BY <1>3 DEF Flashed
  <2>5. Flashed(ram.mask)'
    BY <1>3 DEF Flashed
  <2>6. ram'.state \in PassStates[back'] /\ (ram'.state # "RUNNING" /\ HalfDone' => gaveUp')
    BY <1>3
  <2> QED
    BY <1>4, <2>1, <2>2, <2>3, <2>4, <2>5, <2>6 DEF IWorkPass
<1> QED
  BY <1>3, <1>5, <1>6, <1>7, <1>8, <1>9 DEF IInv

\* A package of another shape is rejected, never over a half written image.
LEMMA RejectPackageStep ==
    ASSUME IInv, TypeOK', RejectPackage
    PROVE  IInv'
<1> DEFINE f == [ram EXCEPT !.state = "FAILED"]
<1>1. /\ pc = "load" /\ vol # Damaged /\ ~Accepted /\ PutFlag(f, "reset")
      /\ UNCHANGED <<flash, loader, gaveUp>>
  BY DEF RejectPackage
<1>2. Working /\ UNCHANGED <<copies, bad, lost, part, vol, loader, gaveUp>>
  BY <1>1 DEF Working, flash
<1>3. ram \in Flags /\ ram = Flag /\ Flashed(ram.mask)
  BY <1>2, WorkingCopies
<1>4. f \in Flags /\ f.state = "FAILED" /\ f.mask = ram.mask /\ f.ver = ram.ver
  BY <1>3, FlagState
<1> HIDE DEF f
<1>5. HalfDone => gaveUp
  BY <1>1, <1>3 DEF IInv, IHalf, Accepted
<1>6. HalfDone' = HalfDone
  BY <1>2 DEF HalfDone
<1>7. IHalf'
  BY <1>2, <1>5, <1>6 DEF IHalf
<1>8. \A c \in f.mask : part'[c] = vol /\ vol # Damaged
  BY <1>2, <1>3, <1>4 DEF Flashed
<1> QED
  BY <1>1, <1>2, <1>4, <1>5, <1>6, <1>7, <1>8, WorkBegin DEF Fresh, PassStates

\* A component counts as done after it was written and read back.
LEMMA WriteComponentStep ==
    ASSUME IInv, TypeOK', NEW c \in Comps, WriteComponent(c)
    PROVE  IInv'
<1> DEFINE f == [ram EXCEPT !.mask = @ \union {c}]
<1>1. /\ pc = "burn" /\ PutFlag(f, "flash") /\ part' = [part EXCEPT ![c] = vol]
      /\ gaveUp' = (gaveUp /\ HalfDone')
      /\ UNCHANGED <<copies, bad, lost, vol, loader>>
  BY DEF WriteComponent, HalfDone
<1>2. Working /\ Accepted /\ vol # Damaged
  BY <1>1 DEF Working, IInv, IWorking
<1>3. ram \in Flags /\ ram = Flag /\ ram.state = "RUNNING" /\ Flashed(ram.mask)
  BY <1>2, WorkingCopies
<1>4. /\ f \in Flags /\ f.state = "RUNNING" /\ f.mask = ram.mask \union {c} /\ f.ver = ram.ver
  BY <1>3, FlagMask
<1> HIDE DEF f
<1>5. part \in [Comps -> Versions \union {Half, Factory}] /\ f.mask \subseteq Comps
  BY <1>4, TornTyped DEF IInv, TypeOK
<1>6. \A d \in f.mask : part'[d] = vol /\ vol # Damaged
  BY <1>1, <1>2, <1>3, <1>4, <1>5 DEF Flashed
<1>7. \A d \in Comps : part[d] = vol => part'[d] = vol
  BY <1>1, <1>5
<1>8. IHalf'
  <2> SUFFICES ASSUME HalfDone', ~gaveUp'
               PROVE  IHalf'
    BY DEF IHalf
  <2>1. \A d \in Comps : part'[d] = Half => part[d] = Half
    BY <1>1, <1>2, <1>5 DEF Half, Damaged
  <2>2. HalfDone /\ ~gaveUp
    BY <1>1, <2>1 DEF HalfDone
  <2>3. Flag' = Flag
    BY <1>1, SameCopies
  <2> QED
    BY <1>1, <2>1, <2>2, <2>3 DEF IInv, IHalf
<1> QED
  BY <1>1, <1>2, <1>4, <1>6, <1>7, <1>8, WorkBegin DEF Fresh, PassStates

\* The flag is cleared after the last component.
LEMMA ClearFlagStep ==
    ASSUME IInv, TypeOK', ClearFlag
    PROVE  IInv'
<1> DEFINE f == [ram EXCEPT !.state = "IDLE", !.mask = {}]
<1>1. pc = "flash" /\ Left = {} /\ PutFlag(f, "verify") /\ UNCHANGED <<flash, loader, gaveUp>>
  BY DEF ClearFlag
<1>2. /\ Working /\ UNCHANGED <<copies, bad, lost, part, vol, loader, gaveUp>>
  BY <1>1 DEF Working, flash
<1>3. ram \in Flags /\ ram = Flag /\ Flashed(ram.mask)
  BY <1>2, WorkingCopies
<1>4. f \in Flags /\ f.state = "IDLE" /\ f.mask = {} /\ f.ver = ram.ver
  BY <1>3, FlagCleared
<1> HIDE DEF f
<1>5. \A c \in Pkg[f.ver] : part[c] = vol /\ vol # Damaged
  BY <1>1, <1>3, <1>4 DEF Left, Flashed
<1>6. HalfDone => gaveUp
  BY <1>3, <1>4, <1>5 DEF IInv, IHalf, HalfDone, Half, Damaged
<1>7. HalfDone' = HalfDone
  BY <1>2 DEF HalfDone
<1>8. IHalf'
  BY <1>2, <1>6, <1>7 DEF IHalf
<1> QED
  BY <1>1, <1>2, <1>4, <1>5, <1>6, <1>7, <1>8, WorkBegin DEF Fresh, PassStates

\* A failure costs one retry; the last one ends the upgrade.
LEMMA RetryStep ==
    ASSUME IInv, TypeOK', Retry
    PROVE  IInv'
<1>1. PICK n \in 0 .. Retries, s \in {"RUNNING", "FAILED"} :
           /\ PutFlag([ram EXCEPT !.retry = n, !.state = s], "reset")
           /\ s = "FAILED" /\ HalfDone => gaveUp'
           /\ s = "RUNNING" => gaveUp' = gaveUp
  BY RetryFlag
<1> DEFINE f == [ram EXCEPT !.retry = n, !.state = s]
<1>2. /\ Working /\ UNCHANGED <<copies, bad, lost, part, vol, loader>>
  BY DEF Retry, Working, flash
<1>3. ram \in Flags /\ ram = Flag /\ Flashed(ram.mask)
  BY <1>2, WorkingCopies
<1>4. f \in Flags /\ f.state = s /\ f.mask = ram.mask /\ f.ver = ram.ver
  <2>1. ram \in Flags
    BY <1>3
  <2>2. s \in {"IDLE", "PENDING", "RUNNING", "FAILED"} /\ n \in 0 .. Retries
    OBVIOUS
  <2> QED
    BY <2>1, <2>2 DEF Flags
<1>5. PutFlag(f, "reset")
  BY <1>1
<1> HIDE DEF f
<1>6. HalfDone' = HalfDone
  BY <1>2 DEF HalfDone
<1>7. IHalf'
  <2>1. CASE s = "FAILED"
    BY <1>1, <1>6, <2>1 DEF IHalf
  <2>2. CASE s = "RUNNING"
    BY <1>1, <1>2, <2>2, SameMixture DEF IInv
  <2> QED
    BY <2>1, <2>2
<1>8. \A c \in f.mask : part[c] = vol /\ vol # Damaged
  BY <1>3, <1>4 DEF Flashed
<1>9. f.state # "RUNNING" /\ HalfDone' => gaveUp'
  BY <1>1, <1>4, <1>6
<1>10. Fresh(f) /\ f.state \in PassStates["reset"]
  BY <1>4 DEF Fresh, PassStates
<1> QED
  BY <1>2, <1>4, <1>5, <1>7, <1>8, <1>9, <1>10, WorkBegin

\* Only a component the flag does not count as done is erased.
LEMMA EraseComponentStep ==
    ASSUME IInv, TypeOK', NEW c \in Comps, EraseComponent(c)
    PROVE  IInv'
<1>1. /\ pc = "flash" /\ pc' = "burn" /\ c \in Left /\ part' = [part EXCEPT ![c] = Half]
      /\ UNCHANGED <<copies, bad, lost, vol, loader, ram, writer, gaveUp>>
  BY DEF EraseComponent, Turns
<1>2. /\ Readable # {} /\ Blank = {} /\ ram \in Flags /\ ram = Flag /\ ram.state = "RUNNING"
      /\ Led(Readable) /\ Ordered(Readable)
      /\ \A i \in Readable : Pending(copies[i]) =>
            /\ copies[i].state = "RUNNING" /\ copies[i].ver = ram.ver
            /\ Flashed(copies[i].mask)
            /\ copies[i].mask \subseteq ram.mask
  BY <1>1, WorkingCopies DEF Working
<1>3. Accepted /\ vol # Damaged
  BY <1>1 DEF IInv, IWorking, Working
<1>4. Readable' = Readable /\ Flag' = Flag /\ Led(Readable)' /\ Ordered(Readable)'
  BY <1>1, <1>2, SameCopies
<1>5. part \in [Comps -> Versions \union {Half, Factory}]
  BY DEF IInv, TypeOK
<1>6. \A d \in Comps \ {c} : part'[d] = part[d]
  BY <1>1, <1>5
<1>7. IWorking'
  <2>1. \A i \in Readable : Pending(copies[i]) => Flashed(copies[i].mask)'
    <3> SUFFICES ASSUME NEW i \in Readable, Pending(copies[i])
                 PROVE  Flashed(copies[i].mask)'
      OBVIOUS
    <3>1. copies[i].mask \subseteq Comps /\ c \notin copies[i].mask
      BY <1>1, <1>2, ReadableTyped DEF IInv, TypeOK, CopiesOK, Left
    <3>2. Flashed(copies[i].mask)
      BY <1>2
    <3> QED
      BY <1>1, <1>6, <3>1, <3>2 DEF Flashed
  <2>2. Upgrading'
    BY <1>1, <1>2, <1>4, <2>1 DEF Upgrading, Pending
  <2> QED
    BY <1>1, <1>2, <1>3, <1>4, <2>2 DEF IWorking, Accepted
<1>8. IHalf'
  <2>1. \A d \in Comps : part'[d] = Half => d = c \/ part[d] = Half
    BY <1>6
  <2>2. ~gaveUp => \A d \in Comps : part'[d] = Half => d \in Pkg[Flag.ver]
    BY <1>1, <1>2, <2>1 DEF Left, IInv, IHalf, HalfDone
  <2> QED
    BY <1>1, <1>2, <1>3, <1>4, <2>2 DEF IHalf, Accepted
<1>9. IBlank'
  <2>1. Blank' \subseteq Blank
    BY <1>1, QuietBlank
  <2> QED
    BY <1>2, <2>1 DEF IBlank
<1>10. IShape'
  BY <1>1 DEF IInv, IShape, Fresh
<1>11. ILoader'
  BY <1>1 DEF IInv, ILoader, Pass
<1>12. IResting' /\ ILinux' /\ IVerify'
  BY <1>1 DEF IResting, Resting, ILinux, InLinux, IVerify
<1>13. IPass' /\ ILinuxPass' /\ IStartPass' /\ IWorkPass'
  BY <1>1 DEF IPass, ILinuxPass, IStartPass, IWorkPass, Pass
<1> QED
  BY <1>7, <1>8, <1>9, <1>10, <1>11, <1>12, <1>13 DEF IInv

\* When every copy was tried, those in good blocks hold the flag in memory.
LEMMA PassOver ==
    ASSUME IInv, pc = "erase", todo = {}
    PROVE  /\ Blank = {} /\ Readable # {} /\ wok /\ Flag = ram
           /\ \A i \in Readable : copies[i] = ram
<1>1. Pass /\ CopiesOK /\ IPass /\ todo \subseteq Copies
  BY DEF Pass, IInv, TypeOK, CopiesOK
<1>2. Valid(ram) /\ \A i \in Copies \ bad : copies[i] = ram /\ wok
  BY <1>1 DEF IPass, Over
<1>3. Blank = {}
  BY <1>2 DEF Blank
<1>4. Readable # {}
  BY <1>3, OneReadable DEF IInv
<1>5. \A i \in Readable : copies[i] = ram /\ wok
  BY <1>2 DEF Readable
<1> QED
  BY <1>1, <1>3, <1>4, <1>5, FlagSame

\* After a pass every good copy holds the flag it wrote.
LEMMA AllTriedStep ==
    ASSUME IInv, TypeOK', AllTried
    PROVE  IInv'
<1>1. /\ pc = "erase" /\ todo = {}
      /\ UNCHANGED <<copies, bad, lost, part, vol, todo, gaveUp>>
  BY DEF AllTried
<1>2. /\ Blank = {} /\ Readable # {} /\ wok /\ Flag = ram
      /\ \A i \in Readable : copies[i] = ram
  BY <1>1, PassOver
<1>3. Readable' = Readable /\ Flag' = Flag /\ HalfDone' = HalfDone
  BY <1>1, SameCopies, SameMixture
<1>4. Mixture /\ Mixture' /\ IHalf'
  BY <1>1, MixtureEverywhere, SameMixture DEF IInv
<1>5. IBlank'
  BY <1>1, <1>2, QuietBlank DEF IBlank
<1>6. back \in Backs /\ Pass
  BY <1>1 DEF IInv, TypeOK, Pass
<1>7. /\ pc' \notin {"erase", "program"}
      /\ ~Pass' /\ IPass' /\ ILinuxPass' /\ IStartPass' /\ IWorkPass'
  <2>1. pc' \notin {"erase", "program"}
    BY <1>2, <1>6 DEF AllTried, Backs
  <2> QED
    BY <2>1 DEF Pass, IPass, ILinuxPass, IStartPass, IWorkPass
<1>8. IShape'
  <2>1. ram' \in {ram, Torn}
    BY DEF AllTried
  <2> QED
    BY <1>1, <2>1, TornTyped DEF IInv, IShape, Fresh
<1>9. CASE back = "linux"
  <2>1. pc' = "linux"
    BY <1>9 DEF AllTried
  <2>2. ram.state = "PENDING" /\ (HalfDone => gaveUp)
    BY <1>6, <1>9 DEF IInv, ILinuxPass
  <2>3. Asked(Readable)'
    BY <1>1, <1>2, <1>3, <2>2 DEF Asked
  <2>4. ILinux'
    BY <1>1, <1>3, <2>1, <2>2, <2>3 DEF ILinux
  <2>5. IResting' /\ IWorking' /\ IVerify' /\ ILoader'
    BY <2>1 DEF IResting, Resting, IWorking, Working, IVerify, ILoader, Pass
  <2> QED
    BY <1>4, <1>5, <1>7, <1>8, <2>4, <2>5 DEF IInv
<1>10. CASE back = "reset"
  <2>1. pc' = "otfl"
    BY <1>10 DEF AllTried
  <2>2. IResting'
    BY <1>4 DEF IResting
  <2>3. ILinux' /\ IWorking' /\ IVerify' /\ ILoader'
    BY <2>1 DEF ILinux, InLinux, IWorking, Working, IVerify, ILoader, Pass
  <2> QED
    BY <1>4, <1>5, <1>7, <1>8, <2>2, <2>3 DEF IInv
<1>11. CASE back \in {"load", "flash", "verify"}
  <2>1. pc' = back /\ ram' = ram /\ loader' = loader
    BY <1>2, <1>11 DEF AllTried
  <2>2. ILoader'
    BY <1>6, <1>11, <2>1 DEF IInv, ILoader, Pass
  <2>3. IResting' /\ ILinux'
    BY <1>11, <2>1 DEF IResting, Resting, ILinux, InLinux
  <2>4. IWorking'
    <3>1. CASE back = "verify"
      BY <2>1, <3>1 DEF IWorking, Working
    <3>2. CASE back \in {"load", "flash"}
      <4>1. ram.state = "RUNNING"
        BY <1>6, <3>2 DEF IInv, IStartPass, IWorkPass, PassStates
      <4>2. Upgrading
        BY <1>2, <1>4, <4>1 DEF Mixture, Pending
      <4>3. Upgrading'
        BY <1>1, <4>2, SameMixture
      <4>4. back = "flash" => Accepted /\ vol # Damaged
        BY <1>6 DEF IInv, IWorkPass
      <4> QED
        BY <1>1, <1>2, <1>3, <2>1, <3>2, <4>1, <4>3, <4>4 DEF IWorking, Accepted
    <3> QED
      BY <1>11, <3>1, <3>2
  <2>5. IVerify'
    <3>1. CASE back = "verify"
      <4>1. ram.state = "IDLE"
        BY <1>6, <3>1 DEF IInv, IWorkPass, PassStates
      <4> QED
        BY <1>1, <1>2, <1>3, <2>1, <4>1 DEF IVerify
    <3>2. CASE back # "verify"
      BY <2>1, <3>2 DEF IVerify
    <3> QED
      BY <3>1, <3>2
  <2> QED
    BY <1>4, <1>5, <1>7, <1>8, <2>2, <2>3, <2>4, <2>5 DEF IInv
<1> QED
  BY <1>6, <1>9, <1>10, <1>11 DEF Backs

WorkPassFound ==
    TypeOK /\ IShape /\ IPass /\ IWorkPass /\ Pass /\ back \in {"flash", "verify", "reset"} =>
       /\ Readable # {}
       /\ ram.state = "RUNNING" => Flag.state = "RUNNING" /\ Flag.ver = ram.ver

\* In such a pass the flag that is found is the one being replaced.
LEMMA WorkPassFlag == WorkPassFound
<1> SUFFICES ASSUME TypeOK, IShape, IPass, IWorkPass, Pass, back \in {"flash", "verify", "reset"}
             PROVE  /\ Readable # {}
                    /\ ram.state = "RUNNING" => Flag.state = "RUNNING" /\ Flag.ver = ram.ver
  BY DEF WorkPassFound
<1>1. CopiesOK /\ todo \subseteq Copies
  BY DEF TypeOK, CopiesOK
<1>2. Readable # {}
  BY OneReadable DEF IWorkPass
<1> QED
  BY <1>1, <1>2, WorkFlag

\* The same after a step.
LEMMA WorkPassFlagNext == WorkPassFound'
  BY WorkPassFlag, PTL

CopyStep(i) == EraseCopy(i) \/ EraseFails(i) \/ ProgramCopy(i) \/ ProgramFails(i)

\* What the erase or the program of a copy does to the copies, whether it
\* fails or not.
LEMMA CopyStepFacts ==
    ASSUME IInv, TypeOK', NEW i \in Copies, CopyStep(i)
    PROVE  /\ Pass /\ Pass' /\ i \in todo /\ Turn(i)
           /\ UNCHANGED <<part, vol, loader, ram, back, gaveUp>>
           /\ Old' = Old \ {i} /\ todo' \subseteq todo
           /\ Over' = Over \/ (Over' = Over \union {i} /\ i \notin todo')
           /\ \A j \in Copies \ {i} : copies'[j] = copies[j]
           /\ i \in Over' => copies'[i] = ram
           /\ copies'[i] \in {copies[i], ram, Torn}
           /\ IPass'
           /\ Blank' \subseteq Blank \ {i}
<1>1. /\ Pass /\ Pass' /\ i \in todo /\ Turn(i) /\ todo' \subseteq todo
      /\ UNCHANGED <<part, vol, loader, ram, back, gaveUp>>
  BY DEF CopyStep, EraseCopy, EraseFails, ProgramCopy, ProgramFails, Pass, writer, Turn
<1>2. copies \in [Copies -> Flags \union {Torn}] /\ todo \subseteq Copies /\ bad \subseteq Copies
  BY DEF IInv, TypeOK
<1>3. /\ Valid(ram) /\ todo \intersect bad = {}
      /\ \A j \in Over : copies[j] = ram /\ wok
      /\ \A j \in Over, k \in todo : IF back = "linux" THEN j < k ELSE k < j
      /\ pc = "program" => \E j \in todo : Turn(j) /\ copies[j] = Torn
  BY <1>1 DEF IInv, IPass
<1>4. pc = "program" => copies[i] = Torn
  BY <1>1, <1>2, <1>3, TurnUnique
<1>5. \A j \in Copies \ {i} : copies'[j] = copies[j]
  BY <1>2 DEF CopyStep, EraseCopy, EraseFails, ProgramCopy, ProgramFails
<1>6. copies'[i] \in {copies[i], ram, Torn}
  BY <1>2 DEF CopyStep, EraseCopy, EraseFails, ProgramCopy, ProgramFails
<1>7. \A j \in todo \ {i} : IF back = "linux" THEN i < j ELSE j < i
  <2> SUFFICES ASSUME NEW j \in todo \ {i}
               PROVE  IF back = "linux" THEN i < j ELSE j < i
    OBVIOUS
  <2>1. i \in Nat /\ j \in Nat
    BY <1>2, CopiesTyped
  <2>2. IF back = "linux" THEN i <= j ELSE i >= j
    BY <1>1 DEF Turn
  <2> QED
    BY <2>1, <2>2
<1>8. CASE EraseCopy(i)
  <2>1. copies' = [copies EXCEPT ![i] = Torn] /\ pc' = "program" /\ UNCHANGED <<bad, lost, writer>>
    BY <1>8 DEF EraseCopy
  <2>2. copies'[i] = Torn
    BY <1>2, <2>1
  <2>3. todo' = todo /\ wok' = wok /\ back' = back
    BY <2>1 DEF writer
  <2>4. Over' = Over
    BY <2>1, <2>3 DEF Over
  <2>5. Old' = Old \ {i}
    BY <1>5, <2>1, <2>2, <2>3, TornTyped DEF Old, Readable, Valid
  <2>6. Turn(i)'
    BY <1>1, <2>3 DEF Turn
  <2>7. IPass'
    <3>1. \A j \in Over : j # i
      BY <1>1 DEF Over
    <3>2. \A j \in Over' : copies'[j] = ram' /\ wok'
      BY <1>1, <1>3, <1>5, <2>3, <2>4, <3>1 DEF Over
    <3> QED
      BY <1>1, <1>3, <2>1, <2>2, <2>3, <2>4, <2>6, <3>2 DEF IPass, Valid
  <2>8. Blank' \subseteq Blank \ {i}
    <3> SUFFICES ASSUME NEW x \in Blank'
                 PROVE  x \in Blank \ {i}
      OBVIOUS
    <3>1. x # i
      BY <2>1, <2>6 DEF Blank
    <3> QED
      BY <1>1, <1>5, <2>1, <3>1, <1>2, TurnUnique DEF Blank, Valid
  <2>9. i \notin Over'
    BY <1>1, <2>4 DEF Over
  <2> QED
    BY <1>1, <1>5, <1>6, <2>4, <2>5, <2>7, <2>8, <2>9
<1>9. CASE EraseFails(i) \/ ProgramFails(i)
  <2>1. bad' = bad \union {i} /\ lost' = lost /\ todo' = todo \ {i} /\ wok' = wok /\ pc' = "erase"
    BY <1>9 DEF EraseFails, ProgramFails
  <2>2. Over' = Over /\ i \notin Over'
    BY <1>1, <1>3, <2>1 DEF Over
  <2>3. Old' = Old \ {i}
    BY <1>2, <1>5, <2>1 DEF Old, Readable, Valid
  <2>4. IPass'
    <3>1. \A j \in Over' : copies'[j] = ram' /\ wok'
      BY <1>1, <1>3, <1>5, <2>1, <2>2 DEF Over
    <3>2. todo' \intersect bad' = {}
      BY <1>3, <2>1
    <3> QED
      BY <1>1, <1>3, <2>1, <2>2, <3>1, <3>2 DEF IPass, Valid
  <2>5. Blank' \subseteq Blank \ {i}
    BY <1>1, <1>5, <2>1, <1>2, TurnUnique DEF Blank, Valid
  <2> QED
    BY <1>1, <1>5, <1>6, <2>2, <2>3, <2>4, <2>5
<1>10. CASE ProgramCopy(i)
  <2>1. /\ copies' = [copies EXCEPT ![i] = ram] /\ todo' = todo \ {i} /\ wok' = TRUE
        /\ pc' = "erase" /\ lost' = lost \ {i} /\ bad' = bad /\ pc = "program"
    BY <1>10 DEF ProgramCopy
  <2>2. copies'[i] = ram
    BY <1>2, <2>1
  <2>3. Over' = Over \union {i} /\ i \notin todo'
    BY <1>1, <1>3, <2>1 DEF Over
  <2>4. Old' = Old \ {i}
    BY <1>2, <1>5, <2>1 DEF Old, Readable, Valid
  <2>5. IPass'
    <3>1. \A j \in Over' : copies'[j] = ram' /\ wok'
      BY <1>1, <1>3, <1>5, <2>1, <2>2, <2>3 DEF Over
    <3>2. todo' \intersect bad' = {}
      BY <1>3, <2>1
    <3>3. \A j \in Over', k \in todo' : IF back' = "linux" THEN j < k ELSE k < j
      BY <1>1, <1>3, <1>7, <2>1, <2>3
    <3> QED
      BY <1>1, <1>3, <2>1, <3>1, <3>2, <3>3 DEF IPass, Valid
  <2>6. Blank' \subseteq Blank \ {i}
    <3> SUFFICES ASSUME NEW x \in Blank'
                 PROVE  x \in Blank \ {i}
      OBVIOUS
    <3>1. x # i
      BY <1>3, <2>2 DEF Blank, Valid
    <3> QED
      BY <1>1, <1>5, <2>1, <3>1, <1>2, TurnUnique DEF Blank, Valid
  <2> QED
    BY <1>1, <1>5, <1>6, <2>2, <2>3, <2>4, <2>5, <2>6
<1> QED
  BY <1>8, <1>9, <1>10 DEF CopyStep

PassSplit == TypeOK /\ Pass /\ IPass => Readable = Old \union Over

\* What can be read after a step of a pass is old or over.
LEMMA PassSplitNext == PassSplit'
<1>1. PassSplit
  BY PassCopies DEF PassSplit, TypeOK, CopiesOK
<1> QED
  BY <1>1, PTL

\* The pass of ota_prepare takes the lowest copy: what was behind a later one
\* stays behind it.
LEMMA LinuxSettled ==
    ASSUME IInv, TypeOK', NEW i \in Copies, CopyStep(i), back = "linux",
           NEW s, Settled(Old, s)
    PROVE  Settled(Old, s)'
<1>1. /\ Turn(i) /\ Old' = Old \ {i} /\ \A j \in Copies \ {i} : copies'[j] = copies[j]
  BY CopyStepFacts
<1>2. Old \subseteq todo /\ Old \subseteq Copies /\ Copies \subseteq Nat
  BY CopiesTyped DEF Old, IInv, TypeOK
<1>3. ASSUME NEW j \in Old \ {i}, copies[j].state # s
      PROVE  \E k \in Old \ {i} : /\ j < k /\ copies[k].state = s
                                  /\ copies[j].mask \subseteq copies[k].mask
                                  /\ copies[j].mask # copies[k].mask
  <2>1. PICK k \in Old : /\ j < k /\ copies[k].state = s
                         /\ copies[j].mask \subseteq copies[k].mask
                         /\ copies[j].mask # copies[k].mask
    BY <1>3 DEF Settled
  <2>2. i <= j
    BY <1>1, <1>2 DEF Turn
  <2>3. k # i
    BY <1>2, <2>1, <2>2
  <2> QED
    BY <2>1, <2>3
<1>4. \A j \in Old' : /\ j \in Old \ {i} /\ copies'[j] = copies[j]
  BY <1>1, <1>2
<1>5. \A j \in Old' :
         \/ copies'[j].state = s
         \/ \E k \in Old' : /\ j < k /\ copies'[k].state = s
                           /\ copies'[j].mask \subseteq copies'[k].mask
                           /\ copies'[j].mask # copies'[k].mask
  BY <1>1, <1>3, <1>4
<1> QED
  BY <1>5 DEF Settled

\* Each copy ota_prepare writes leaves the old ones settled, or asking.
LEMMA LinuxPassStep ==
    ASSUME IInv, TypeOK', NEW i \in Copies, CopyStep(i)
    PROVE  ILinuxPass'
<1>1. /\ Pass /\ Turn(i) /\ UNCHANGED <<part, vol, ram, back, gaveUp>>
      /\ Old' = Old \ {i} /\ \A j \in Copies \ {i} : copies'[j] = copies[j]
  BY CopyStepFacts
<1>2. SUFFICES ASSUME back = "linux"
               PROVE  ILinuxPass'
  BY <1>1 DEF ILinuxPass
<1>3. /\ ram.state = "PENDING" /\ (HalfDone => gaveUp)
      /\ (\E s \in {"IDLE", "FAILED"} : Settled(Old, s)) \/ Asked(Old)
  BY <1>1, <1>2 DEF IInv, ILinuxPass
<1>4. Old \subseteq todo /\ Old \subseteq Copies /\ Copies \subseteq Nat
  BY CopiesTyped DEF Old, IInv, TypeOK
<1>5. ASSUME NEW s, Settled(Old, s)
      PROVE  Settled(Old, s)'
  BY <1>2, <1>5, LinuxSettled
<1>6. Asked(Old) => Asked(Old)'
  BY <1>1, <1>4 DEF Asked
<1>7. HalfDone' = HalfDone
  BY <1>1 DEF HalfDone
<1>8. (\E s \in {"IDLE", "FAILED"} : Settled(Old, s)') \/ Asked(Old)'
  BY <1>3, <1>5, <1>6
<1> QED
  BY <1>1, <1>3, <1>7, <1>8 DEF ILinuxPass

\* The passes of U-Boot take the highest: what was led by an earlier copy
\* stays led by it.
LEMMA StartPassStep ==
    ASSUME IInv, TypeOK', NEW i \in Copies, CopyStep(i)
    PROVE  IStartPass'
<1>1. /\ Pass /\ Turn(i) /\ UNCHANGED <<part, vol, ram, back, gaveUp>>
      /\ Old' = Old \ {i} /\ \A j \in Copies \ {i} : copies'[j] = copies[j]
  BY CopyStepFacts
<1>2. SUFFICES ASSUME back = "load"
               PROVE  IStartPass'
  BY <1>1 DEF IStartPass
<1>3. /\ ram.state = "RUNNING" /\ ram.mask = {} /\ (HalfDone => gaveUp)
      /\ \A j \in Old : /\ copies[j].mask = {}
                        /\ \E k \in Old : k <= j /\ copies[k].state = "PENDING"
                        /\ (\A k \in Old : j <= k) => copies[j].ver = ram.ver
  BY <1>1, <1>2 DEF IInv, IStartPass
<1>4. Old \subseteq todo /\ Old \subseteq Copies /\ Copies \subseteq Nat
  BY CopiesTyped DEF Old, IInv, TypeOK
<1>5. ASSUME NEW j \in Old \ {i}
      PROVE  \E k \in Old \ {i} : k <= j /\ copies[k].state = "PENDING"
  <2>1. PICK k \in Old : k <= j /\ copies[k].state = "PENDING"
    BY <1>3
  <2>2. i >= j
    BY <1>1, <1>2, <1>4 DEF Turn
  <2>3. k # i
    BY <1>4, <2>1, <2>2
  <2> QED
    BY <2>1, <2>3
<1>6. HalfDone' = HalfDone
  BY <1>1 DEF HalfDone
<1>7. \A j \in Old' : /\ copies'[j].mask = {}
                      /\ \E k \in Old' : k <= j /\ copies'[k].state = "PENDING"
  BY <1>1, <1>3, <1>4, <1>5
<1>8. ASSUME NEW j \in Old', \A k \in Old' : j <= k
      PROVE  copies'[j].ver = ram'.ver
  <2>1. j <= i
    BY <1>1, <1>2, <1>4 DEF Turn
  <2>2. \A k \in Old : j <= k
    BY <1>1, <1>8, <2>1
  <2> QED
    BY <1>1, <1>3, <1>4, <2>2
<1> QED
  BY <1>1, <1>3, <1>6, <1>7, <1>8 DEF IStartPass

\* Each copy U-Boot writes in a later pass leaves the old ones stages of the
\* upgrade.
LEMMA WorkPassStep ==
    ASSUME IInv, TypeOK', NEW i \in Copies, CopyStep(i)
    PROVE  IWorkPass'
<1>1. /\ Pass /\ Turn(i) /\ UNCHANGED <<part, vol, ram, back, gaveUp>>
      /\ Old' = Old \ {i} /\ \A j \in Copies \ {i} : copies'[j] = copies[j]
      /\ Blank' \subseteq Blank
  BY CopyStepFacts
<1>2. SUFFICES ASSUME back \in {"flash", "verify", "reset"}
               PROVE  IWorkPass'
  BY <1>1 DEF IWorkPass
<1>3. /\ Blank = {}
      /\ ram.state \in PassStates[back]
      /\ Led(Old) /\ Ordered(Old)
      /\ \A j \in Old : Pending(copies[j]) =>
            /\ copies[j].state = "RUNNING" /\ copies[j].ver = ram.ver
            /\ Flashed(copies[j].mask)
            /\ ram.state # "IDLE" => copies[j].mask \subseteq ram.mask
      /\ Flashed(ram.mask)
      /\ back = "flash" => Accepted /\ vol # Damaged
      /\ ram.state # "RUNNING" /\ HalfDone => gaveUp
      /\ back = "verify" => Flashed(Pkg[ram.ver])
  BY <1>1, <1>2 DEF IInv, IWorkPass
<1>4. Old \subseteq todo /\ Old \subseteq Copies /\ Copies \subseteq Nat
  BY CopiesTyped DEF Old, IInv, TypeOK
<1>5. Led(Old)'
  <2> SUFFICES ASSUME NEW j \in Old \ {i}, ~Pending(copies[j])
               PROVE  \E k \in Old \ {i} : /\ k < j /\ Pending(copies[k])
                                           /\ copies[j].mask \subseteq copies[k].mask
    BY <1>1, <1>4 DEF Led, Pending
  <2>1. PICK k \in Old : k < j /\ Pending(copies[k]) /\ copies[j].mask \subseteq copies[k].mask
    BY <1>3 DEF Led
  <2>2. i >= j
    BY <1>1, <1>2, <1>4 DEF Turn
  <2>3. k # i
    BY <1>4, <2>1, <2>2
  <2> QED
    BY <2>1, <2>3
<1>6. Ordered(Old)'
  BY <1>1, <1>3, <1>4 DEF Ordered, Pending
<1>7. \A j \in Old' : Pending(copies[j])' =>
         /\ copies'[j].state = "RUNNING" /\ copies'[j].ver = ram'.ver
         /\ Flashed(copies[j].mask)'
         /\ ram'.state # "IDLE" => copies'[j].mask \subseteq ram'.mask
  BY <1>1, <1>3, <1>4 DEF Pending, Flashed
<1>8. Flashed(ram.mask)' /\ (back' = "verify" => Flashed(Pkg[ram.ver])')
  BY <1>1, <1>3 DEF Flashed
<1>9. HalfDone' = HalfDone /\ (Accepted => Accepted')
  BY <1>1 DEF HalfDone, Accepted
<1>10. Blank' = {}
  BY <1>1, <1>3
<1> QED
  BY <1>1, <1>3, <1>5, <1>6, <1>7, <1>8, <1>9, <1>10 DEF IWorkPass

\* While a copy was never written, an earlier one is PENDING.
LEMMA BlankStep ==
    ASSUME IInv, TypeOK', NEW i \in Copies, CopyStep(i)
    PROVE  IBlank'
<1>1. /\ Pass /\ Pass' /\ i \in todo /\ Turn(i) /\ UNCHANGED <<ram, back>>
      /\ Old' = Old \ {i} /\ todo' \subseteq todo
      /\ Over' = Over \/ (Over' = Over \union {i} /\ i \notin todo')
      /\ \A j \in Copies \ {i} : copies'[j] = copies[j]
      /\ i \in Over' => copies'[i] = ram
      /\ IPass'
      /\ Blank' \subseteq Blank \ {i}
  BY CopyStepFacts
<1>2. SUFFICES ASSUME Blank' # {}
               PROVE  IBlank'
  BY DEF IBlank
<1>3. /\ \/ back = "load" /\ Readable # {}
         \/ back = "linux" /\ Old = {}
      /\ \A j \in Readable : /\ Pending(copies[j]) /\ copies[j].mask = {}
                             /\ \E k \in Readable : k <= j /\ copies[k].state = "PENDING"
      /\ Readable # {} =>
            \A x \in Blank : \E k \in Readable : k < x /\ copies[k].state = "PENDING"
  BY <1>1, <1>2 DEF IInv, IBlank, Pass, Resting, InLinux
<1>4. Readable = Old \union Over /\ Over \subseteq Copies /\ Copies \subseteq Nat
      /\ Old \subseteq Copies /\ Old \subseteq todo /\ Over \intersect todo = {}
      /\ \A j \in Over : copies[j] = ram
  BY <1>1, PassCopies DEF IInv, TypeOK, CopiesOK
<1>5. Readable' = Old' \union Over'
  BY <1>1, PassSplitNext DEF PassSplit
<1>6. \A j \in Over' : j \in Copies /\ copies'[j] = ram
  BY <1>1, <1>4
<1>7. ASSUME NEW x \in Blank'
      PROVE  x \in todo' /\ x \in Copies
  <2>1. x \in Copies \ bad' /\ ~Valid(copies'[x])
    BY DEF Blank
  <2>2. Valid(ram)
    BY <1>1 DEF IInv, IPass
  <2>3. x \notin Over'
    BY <1>6, <2>1, <2>2
  <2> QED
    BY <2>1, <2>3 DEF Over
<1>8. \A j \in Over', x \in Blank' : IF back = "linux" THEN j < x ELSE x < j
  BY <1>1, <1>7 DEF IPass
<1>9. CASE back = "linux" /\ Old = {}
  <2>1. ram.state = "PENDING" /\ ram.mask = {} /\ Pending(ram)
    BY <1>1, <1>9 DEF IInv, ILinuxPass, IShape, Fresh, Pending
  <2>2. Old' = {} /\ Readable' = Over'
    BY <1>1, <1>5, <1>9
  <2>3. \A j \in Readable' : /\ Pending(copies'[j]) /\ copies'[j].mask = {}
                             /\ copies'[j].state = "PENDING" /\ j <= j
    <3> SUFFICES ASSUME NEW j \in Readable'
                 PROVE  /\ Pending(copies'[j]) /\ copies'[j].mask = {}
                        /\ copies'[j].state = "PENDING" /\ j <= j
      OBVIOUS
    <3>1. j \in Nat /\ copies'[j] = ram
      BY <1>4, <1>6, <2>2
    <3> QED
      BY <2>1, <3>1
  <2>4. Readable' # {} =>
           \A x \in Blank' : \E k \in Readable' : k < x /\ copies'[k].state = "PENDING"
    BY <1>8, <1>9, <2>2, <2>3
  <2>5. \A j \in Readable' : Pending(copies[j])'
    BY <2>3 DEF Pending
  <2> QED
    BY <1>1, <1>9, <2>2, <2>3, <2>4, <2>5 DEF IBlank
<1>10. CASE back = "load" /\ Readable # {}
  <2>1. ram.state = "RUNNING" /\ ram.mask = {} /\ Pending(ram)
    BY <1>1, <1>10 DEF IInv, IStartPass, Pending
  <2>2. ASSUME NEW x \in Blank'
        PROVE  \E k \in Old' : k < x /\ copies'[k].state = "PENDING"
    <3>1. PICK k \in Readable : k < x /\ copies[k].state = "PENDING"
      BY <1>1, <1>3, <1>10
    <3>2. k \in Old
      BY <1>4, <2>1, <3>1
    <3>3. x \in todo
      BY <1>1, <1>7
    <3>4. i >= x
      BY <1>1, <1>10, <3>3 DEF Turn
    <3>5. k \in Nat /\ x \in Nat /\ i \in Nat
      BY <1>4, <1>7, <3>2
    <3>6. k # i
      BY <3>1, <3>4, <3>5
    <3> QED
      BY <1>1, <1>4, <3>1, <3>2, <3>6
  <2>3. ASSUME NEW j \in Readable'
        PROVE  /\ Pending(copies[j])' /\ copies'[j].mask = {}
               /\ \E k \in Readable' : k <= j /\ copies'[k].state = "PENDING"
    <3>1. CASE j \in Old'
      <4>1. copies'[j] = copies[j] /\ j \in Readable
        BY <1>1, <1>4, <3>1
      <4>2. \E k \in Old' : k <= j /\ copies'[k].state = "PENDING"
        BY <1>1, <1>10, <3>1, StartPassStep DEF IStartPass
      <4> QED
        BY <1>3, <1>5, <4>1, <4>2 DEF Pending
    <3>2. CASE j \in Over'
      <4>1. PICK x \in Blank' : TRUE
        BY <1>2
      <4>2. PICK k \in Old' : k < x /\ copies'[k].state = "PENDING"
        BY <2>2
      <4>3. x < j
        BY <1>8, <1>10, <3>2
      <4>4. k \in Nat /\ x \in Nat /\ j \in Nat
        BY <1>1, <1>4, <1>6, <1>7, <3>2, <4>2
      <4>5. k <= j
        BY <4>2, <4>3, <4>4
      <4>6. copies'[j] = ram
        BY <1>6, <3>2
      <4> QED
        BY <1>5, <2>1, <4>2, <4>5, <4>6 DEF Pending
    <3> QED
      BY <1>5, <3>1, <3>2
  <2>4. Readable' # {}
    BY <1>2, <1>5, <2>2
  <2> QED
    BY <1>1, <1>5, <1>10, <2>2, <2>3, <2>4 DEF IBlank
<1> QED
  BY <1>3, <1>9, <1>10

\* Writing a copy never takes the flag away from a half written component.
LEMMA HalfStep ==
    ASSUME IInv, TypeOK', NEW i \in Copies, CopyStep(i), IShape', IPass', IWorkPass'
    PROVE  IHalf'
<1>1. /\ Pass /\ Pass' /\ UNCHANGED <<part, vol, ram, back, gaveUp>>
  BY CopyStepFacts
<1>2. HalfDone' = HalfDone /\ back \in Backs
  BY <1>1 DEF HalfDone, IInv, TypeOK
<1>3. SUFFICES ASSUME HalfDone, ~gaveUp
               PROVE  IHalf'
  BY <1>1, <1>2 DEF IHalf
<1>4. back \in {"flash", "verify", "reset"} /\ ram.state = "RUNNING"
  BY <1>1, <1>2, <1>3 DEF Backs, IInv, ILinuxPass, IStartPass, IWorkPass
<1>5. Flag.state = "RUNNING" /\ Flag.ver = ram.ver
  BY <1>1, <1>4, WorkPassFlag DEF WorkPassFound, IInv
<1>6. Flag'.state = "RUNNING" /\ Flag'.ver = ram'.ver
  BY <1>1, <1>4, WorkPassFlagNext DEF WorkPassFound
<1> QED
  BY <1>1, <1>3, <1>5, <1>6 DEF IInv, IHalf

\* The erase and the program of a copy preserve the invariant.
LEMMA CopyStepInv ==
    ASSUME IInv, TypeOK', NEW i \in Copies, CopyStep(i)
    PROVE  IInv'
<1>1. /\ Pass /\ Pass' /\ UNCHANGED <<loader, ram, back>> /\ IPass'
      /\ \A j \in Copies \ {i} : copies'[j] = copies[j]
      /\ copies'[i] \in {copies[i], ram, Torn}
  BY CopyStepFacts
<1>2. IShape'
  BY <1>1, TornTyped DEF IInv, IShape, Fresh
<1>3. ILinuxPass' /\ IStartPass' /\ IWorkPass' /\ IBlank'
  BY LinuxPassStep, StartPassStep, WorkPassStep, BlankStep
<1>4. IHalf'
  BY <1>1, <1>2, <1>3, HalfStep
<1>5. ILoader'
  BY <1>1 DEF IInv, ILoader, Pass
<1>6. IResting' /\ ILinux' /\ IWorking' /\ IVerify'
  BY <1>1 DEF Pass, IResting, Resting, ILinux, InLinux, IWorking, Working, IVerify
<1> QED
  BY <1>1, <1>2, <1>3, <1>4, <1>5, <1>6 DEF IInv

\* A blank flash satisfies the invariant.
LEMMA InitInv == Init => IInv
<1> SUFFICES ASSUME Init
             PROVE  IInv
  OBVIOUS
<1>1. /\ copies = [i \in Copies |-> Torn] /\ bad = {} /\ lost = {}
      /\ part = [c \in Comps |-> Factory] /\ vol = Damaged
      /\ pc = "off" /\ loader = "none" /\ ram = Torn
      /\ todo = {} /\ wok = FALSE /\ back = "reset" /\ gaveUp = FALSE
  BY DEF Init
<1>2. Bearable
  <2>1. bad \union lost = {}
    BY <1>1
  <2>2. Cardinality({}) = 0
    BY FS_EmptySet
  <2>3. Cardinality(bad \union lost) = 0
    BY <2>1, <2>2
  <2>4. MaxFaults \in Nat
    BY CopiesAssumption
  <2> QED
    BY <2>3, <2>4 DEF Bearable
<1>3. TypeOK
  BY <1>1, <1>2 DEF TypeOK, Labels, Backs
<1>4. Readable = {} /\ CopiesOK
  BY <1>1, <1>3, TornTyped DEF Readable, TypeOK, CopiesOK
<1>5. Mixture
  BY <1>4, FlagTyped, TornTyped DEF Mixture, Settled
<1>6. ~HalfDone
  BY <1>1 DEF HalfDone, Factory, Half
<1>7. IShape
  BY <1>1, TornTyped DEF IShape, Fresh
<1>8. ILoader /\ IResting /\ ILinux /\ IWorking /\ IVerify
  BY <1>1, <1>5 DEF ILoader, Pass, IResting, ILinux, InLinux, IWorking, Working, IVerify
<1>9. IPass /\ ILinuxPass /\ IStartPass /\ IWorkPass
  BY <1>1 DEF Pass, IPass, ILinuxPass, IStartPass, IWorkPass
<1>10. IHalf /\ IBlank
  BY <1>1, <1>4, <1>6 DEF IHalf, IBlank, Resting
<1> QED
  BY <1>3, <1>7, <1>8, <1>9, <1>10 DEF IInv

\* Every step preserves the invariant.
LEMMA NextInv == IInv /\ Next => IInv'
<1> SUFFICES ASSUME IInv, Next
             PROVE  IInv'
  OBVIOUS
<1>1. TypeOK'
  BY TypeStep
<1>2. CASE Linux
  BY <1>1, <1>2, VolumeWrittenStep, VolumeFailsStep, RebootStep, PrepareVolumeStep DEF Linux
<1>3. CASE Otfl \/ NormalBoot \/ StartUpgrade \/ ResumeUpgrade
  BY <1>1, <1>3, OtflStep, NormalBootStep, StartUpgradeStep, ResumeUpgradeStep
<1>4. CASE LoadPackage \/ LoadFails \/ RejectPackage \/ ComponentFails
  BY <1>1, <1>4, WorkingStep, RejectPackageStep
<1>5. CASE \E c \in Comps : EraseComponent(c) \/ WriteComponent(c)
  BY <1>1, <1>5, EraseComponentStep, WriteComponentStep
<1>6. CASE ClearFlag \/ VerifyCleared \/ Retry
  BY <1>1, <1>6, ClearFlagStep, VerifyClearedStep, RetryStep
<1>7. CASE WriteFlag
  BY <1>1, <1>7, CopyStepInv, AllTriedStep DEF WriteFlag, CopyStep
<1>8. CASE PowerFails \/ PowerOn
  BY <1>1, <1>8, PowerFailsStep, PowerOnStep
<1> QED
  BY <1>2, <1>3, <1>4, <1>5, <1>6, <1>7, <1>8 DEF Next, Boot

\* So does a stutter.
LEMMA StutterInv == IInv /\ UNCHANGED vars => IInv'
<1> SUFFICES ASSUME IInv, UNCHANGED vars
             PROVE  IInv'
  OBVIOUS
<1>1. UNCHANGED <<copies, bad, lost, part, vol, pc, loader, ram, todo, wok, back, gaveUp>>
  BY DEF vars
<1>2. Readable' = Readable /\ Flag' = Flag /\ OtflPending' = OtflPending
  BY <1>1, SameCopies
<1>3. HalfDone' = HalfDone /\ IHalf'
  BY <1>1, SameMixture DEF IInv
<1>4. Old' = Old /\ Over' = Over
  BY <1>1, <1>2 DEF Old, Over
<1>5. \A i : Turn(i)' = Turn(i)
  BY <1>1 DEF Turn
<1>6. Blank' = Blank
  BY <1>1, <1>5 DEF Blank, Valid
<1>7. TypeOK' /\ IShape' /\ ILoader' /\ IVerify'
  BY <1>1, <1>2 DEF IInv, TypeOK, Bearable, IShape, Fresh, ILoader, Pass, IVerify
<1>8. IResting' /\ IWorking'
  BY <1>1, <1>2, SameMixture DEF IInv, IResting, Resting, IWorking, Working, Accepted
<1>9. ILinux'
  BY <1>1, <1>2, <1>3, SameCopies DEF IInv, ILinux, InLinux
<1>10. IPass'
  BY <1>1, <1>4, <1>5 DEF IInv, IPass, Pass, Valid
<1>11. ILinuxPass' /\ IStartPass'
  BY <1>1, <1>3, <1>4 DEF IInv, ILinuxPass, IStartPass, Pass, Settled, Asked
<1>12. IWorkPass'
  BY <1>1, <1>3, <1>4, <1>6 DEF IInv, IWorkPass, Pass, Led, Ordered, Pending, Flashed, Accepted
<1>13. IBlank'
  BY <1>1, <1>2, <1>4, <1>6 DEF IInv, IBlank, Resting, InLinux, Pass, Pending
<1> QED
  BY <1>3, <1>7, <1>8, <1>9, <1>10, <1>11, <1>12, <1>13 DEF IInv

\* The inductive invariant holds in every state, whatever was torn, failed to
\* erase or program, or was cut short by the power (uflag.c, nand_ota_upgrade.c).
THEOREM OtaInvariant == Spec => []IInv
<1>1. IInv /\ [Next]_vars => IInv'
  BY NextInv, StutterInv
<1> QED
  BY <1>1, InitInv, PTL DEF Spec

\* Every state is of its type and within the faults allowed.
THEOREM OtaTyped == Spec => []TypeOK
<1>1. IInv => TypeOK
  BY DEF IInv
<1> QED
  BY <1>1, OtaInvariant, PTL

\* Whatever erases or programs a component runs from the U-Boot in the otfl
\* partition, although OTFL and misc_check read the copies by different rules.
THEOREM OtaRecovery == Spec => []RecoveryFromOtfl
<1>1. IInv => RecoveryFromOtfl
  BY DEF IInv, ILoader, RecoveryFromOtfl
<1> QED
  BY <1>1, OtaInvariant, PTL

\* A component the flag counts as done holds the package of the volume.
THEOREM OtaDone == Spec => []DoneIsFlashed
<1>1. IInv => DoneIsFlashed
  <2> SUFFICES ASSUME IInv, Pending(Flag)
               PROVE  Flashed(Flag.mask)
    BY DEF DoneIsFlashed, Flashed, Half, Damaged
  <2>1. Upgrading
    BY MixtureEverywhere DEF Mixture
  <2>2. PICK b \in Readable : Flag = copies[b]
    BY FlagTyped DEF IInv, TypeOK, CopiesOK
  <2> QED
    BY <2>1, <2>2 DEF Upgrading
<1> QED
  BY <1>1, OtaInvariant, PTL

\* A component is half written only while a flag asks for its upgrade, or
\* after the retries were used up over it.
THEOREM OtaNeverStranded == Spec => []NeverStranded
<1>1. IInv => NeverStranded
  BY DEF IInv, IHalf, NeverStranded, HalfDone, Pending
<1> QED
  BY <1>1, OtaInvariant, PTL

-----------------------------------------------------------------------------
\* The flag that ends an upgrade is in a copy, and no old one has as much done.
Replaced == /\ Over # {}
            /\ \A j \in Old : Pending(copies[j]) => copies[j].mask # ram.mask

\* From then on the end is what uflag_read finds.
LEMMA ReplacedFound ==
    ASSUME CopiesOK, IShape, Pass, IPass, IWorkPass, back \in {"flash", "verify", "reset"},
           todo \subseteq Copies, ram.state = "FAILED", Replaced
    PROVE  ~Pending(Flag)
<1>1. /\ Readable = Old \union Over /\ \A j \in Over : copies[j] = ram
  BY PassCopies
<1>2. PICK k \in Over : TRUE
  BY DEF Replaced
<1>3. PICK b \in Readable :
           /\ Flag = copies[b]
           /\ \A j \in Readable : copies[b].mask \subseteq copies[j].mask
                                  => copies[j].mask = copies[b].mask /\ b <= j
  BY <1>1, <1>2, BestFact
<1>4. SUFFICES ASSUME Pending(copies[b])
               PROVE  FALSE
  BY <1>3
<1>5. b \in Old
  BY <1>1, <1>3, <1>4 DEF Pending
<1>6. copies[b].mask \subseteq ram.mask /\ copies[b].mask # ram.mask
  BY <1>4, <1>5 DEF IWorkPass, Replaced
<1> QED
  BY <1>1, <1>2, <1>3, <1>6

\* What uflag_read finds, for each pass, in the state after a step.
PassFound ==
    IInv /\ Pass =>
       /\ Flag \in Flags \union {Torn} /\ (Flag = Torn <=> Readable = {})
       /\ Blank = {} => Readable # {}
       /\ back = "linux" =>
             /\ Over # {} /\ (\A j \in Old : copies[j].mask = {}) => Pending(Flag)
             /\ Asked(Old) /\ Readable # {} => Pending(Flag)
             /\ ~Pending(Flag) /\ Readable # {} =>
                   \A s \in {"IDLE", "FAILED"} : Settled(Old, s) => Flag.state = s
             /\ Pending(Flag) => Flag.state = "PENDING"
       /\ back = "load" =>
             IF Old = {} THEN Flag = ram ELSE Flag.state = "PENDING" /\ Flag.ver = ram.ver
       /\ back \in {"flash", "verify", "reset"} =>
             /\ \/ Flag.state = "RUNNING" /\ Flag.ver = ram.ver
                \/ Flag = ram /\ ram.state \in {"FAILED", "IDLE"}
             /\ ram.state = "IDLE" => (Flag = ram <=> Old = {})
             /\ ram.state = "FAILED" => (Flag = ram <=> Replaced)

\* Proof of it, pass by pass.
LEMMA PassFlag == PassFound
<1> SUFFICES ASSUME IInv, Pass
             PROVE  /\ Flag \in Flags \union {Torn} /\ (Flag = Torn <=> Readable = {})
                    /\ Blank = {} => Readable # {}
                    /\ back = "linux" =>
                          /\ Over # {} /\ (\A j \in Old : copies[j].mask = {}) => Pending(Flag)
                          /\ Asked(Old) /\ Readable # {} => Pending(Flag)
                          /\ ~Pending(Flag) /\ Readable # {} =>
                                \A s \in {"IDLE", "FAILED"} : Settled(Old, s) => Flag.state = s
                          /\ Pending(Flag) => Flag.state = "PENDING"
                    /\ back = "load" =>
                          IF Old = {} THEN Flag = ram
                                      ELSE Flag.state = "PENDING" /\ Flag.ver = ram.ver
                    /\ back \in {"flash", "verify", "reset"} =>
                          /\ \/ Flag.state = "RUNNING" /\ Flag.ver = ram.ver
                             \/ Flag = ram /\ ram.state \in {"FAILED", "IDLE"}
                          /\ ram.state = "IDLE" => (Flag = ram <=> Old = {})
                          /\ ram.state = "FAILED" => (Flag = ram <=> Replaced)
  BY DEF PassFound
<1>1. /\ CopiesOK /\ todo \subseteq Copies /\ IShape /\ IPass /\ ILinuxPass /\ IStartPass
      /\ IWorkPass /\ IBlank /\ TypeOK
  BY DEF IInv, TypeOK, CopiesOK
<1>2. Flag \in Flags \union {Torn} /\ (Flag = Torn <=> Readable = {})
  BY <1>1, FlagTyped
<1>3. Blank = {} => Readable # {}
  BY <1>1, OneReadable
<1>4. CASE back = "linux"
  <2>1. /\ Over # {} /\ (\A j \in Old : copies[j].mask = {}) => Flag = ram
        /\ ~Pending(Flag) /\ Readable # {} => \A s : Settled(Old, s) => Flag.state = s
        /\ Pending(Flag) => Flag.state = "PENDING"
    BY <1>1, <1>4, LinuxFlag
  <2>2. ram.state = "PENDING"
    BY <1>1, <1>4 DEF ILinuxPass
  <2>3. ASSUME Asked(Old), Readable # {}
        PROVE  Pending(Flag)
    <3>1. \A j \in Readable : Pending(copies[j])
      BY <1>1, <2>2, <2>3, PassCopies DEF Asked, Pending
    <3> QED
      BY <1>1, <2>3, <3>1, FlagTyped
  <2> QED
    BY <1>2, <1>3, <1>4, <2>1, <2>2, <2>3 DEF Pending
<1>5. CASE back = "load"
  <2>1. Readable # {}
    BY <1>1, <1>3, <1>5 DEF IBlank, Resting, InLinux, Pass
  <2> QED
    BY <1>1, <1>2, <1>3, <1>5, <2>1, StartFlag
<1>6. CASE back \in {"flash", "verify", "reset"}
  <2>1. Readable # {}
    BY <1>1, <1>3, <1>6 DEF IWorkPass
  <2>2. /\ \/ Flag.state = "RUNNING" /\ Flag.ver = ram.ver
           \/ Flag = ram /\ ram.state \in {"FAILED", "IDLE"}
        /\ ram.state = "IDLE" => (Flag = ram <=> Old = {})
        /\ ram.state = "FAILED" /\ Flag = ram => Replaced
    BY <1>1, <1>6, <2>1, WorkFlag DEF Replaced
  <2>3. ram.state = "FAILED" /\ Replaced => Flag = ram
    BY <1>1, <1>6, <2>1, <2>2, ReplacedFound DEF Pending
  <2> QED
    BY <1>2, <1>3, <1>6, <2>2, <2>3
<1>7. back \in Backs
  BY <1>1 DEF TypeOK
<1> QED
  BY <1>4, <1>5, <1>6, <1>7 DEF Backs

\* The same after a step.
LEMMA PassFlagNext == PassFound'
  BY PassFlag, PTL

\* In the pass of ota_prepare a flag that asks for nothing keeps what it says
\* until the new one counts.
LEMMA LinuxStepFlag ==
    ASSUME IInv, IInv', NEW i \in Copies, CopyStep(i), back = "linux", ~Pending(Flag)'
    PROVE  ~Pending(Flag) /\ Flag'.state = Flag.state
<1>1. /\ Pass /\ Pass' /\ i \in todo /\ Turn(i) /\ back' = back /\ ram' = ram
      /\ Old' = Old \ {i}
      /\ Over' = Over \/ (Over' = Over \union {i} /\ i \notin todo')
      /\ \A j \in Copies \ {i} : copies'[j] = copies[j]
      /\ i \in Over' => copies'[i] = ram
      /\ Blank' \subseteq Blank
      /\ TypeOK'
  BY CopyStepFacts DEF IInv
<1>2. Readable = Old \union Over /\ Old \subseteq Copies
  BY <1>1, PassCopies DEF IInv, TypeOK, CopiesOK
<1>3. Readable' = Old' \union Over'
  BY <1>1, PassSplitNext DEF PassSplit, IInv
<1>4. /\ Flag \in Flags \union {Torn} /\ (Flag = Torn <=> Readable = {})
      /\ Over # {} /\ (\A j \in Old : copies[j].mask = {}) => Pending(Flag)
      /\ Asked(Old) /\ Readable # {} => Pending(Flag)
      /\ ~Pending(Flag) /\ Readable # {} =>
            \A s \in {"IDLE", "FAILED"} : Settled(Old, s) => Flag.state = s
  BY <1>1, PassFlag DEF PassFound
<1>5. /\ Flag' \in Flags \union {Torn} /\ (Flag' = Torn <=> Readable' = {})
      /\ Blank' = {} => Readable' # {}
      /\ Over' # {} /\ (\A j \in Old' : copies'[j].mask = {}) => Pending(Flag)'
      /\ Asked(Old)' /\ Readable' # {} => Pending(Flag)'
      /\ ~Pending(Flag)' /\ Readable' # {} =>
            \A s \in {"IDLE", "FAILED"} : Settled(Old, s)' => Flag'.state = s
  BY <1>1, PassFlagNext DEF PassFound
<1>6. (\E s \in {"IDLE", "FAILED"} : Settled(Old, s)) \/ Asked(Old)
  BY <1>1 DEF IInv, ILinuxPass
<1>7. Readable # {} => Readable' # {}
  <2> SUFFICES ASSUME Readable # {}, Blank' # {}
               PROVE  Readable' # {}
    BY <1>5
  <2>1. Old = {}
    BY <1>1 DEF IInv, IBlank, Pass, Resting, InLinux
  <2> QED
    BY <1>1, <1>2, <1>3, <2>1
<1>8. Asked(Old) => Asked(Old)'
  BY <1>1, <1>2 DEF Asked
<1>9. ~Asked(Old) \/ Readable' = {}
  BY <1>5, <1>8
<1>10. CASE Readable = {}
  <2>1. Old' = {}
    BY <1>1, <1>2, <1>10
  <2>2. Readable' = {}
    BY <1>3, <1>5, <2>1
  <2> QED
    BY <1>4, <1>5, <1>10, <2>2, TornTyped
<1>11. CASE Readable # {}
  <2>1. Readable' # {}
    BY <1>7, <1>11
  <2>2. PICK s \in {"IDLE", "FAILED"} : Settled(Old, s)
    BY <1>6, <1>9, <2>1
  <2>3. Settled(Old, s)'
    BY <2>2, LinuxSettled, <1>1
  <2>4. Flag'.state = s
    BY <1>5, <2>1, <2>3
  <2>5. ~Pending(Flag)
    <3> SUFFICES ASSUME Pending(Flag)
                 PROVE  FALSE
      OBVIOUS
    <3>1. Over # {} /\ \A j \in Old : copies[j].mask = {}
      <4>1. \A j \in Readable : copies[j].mask = {}
        BY <1>1, LinuxFlag DEF IInv, TypeOK, CopiesOK
      <4>2. Over # {} \/ Asked(Old)
        BY <1>1, LinuxFlag DEF IInv, TypeOK, CopiesOK
      <4> QED
        BY <1>2, <1>9, <2>1, <4>1, <4>2
    <3>2. Over' # {} /\ \A j \in Old' : copies'[j].mask = {}
      BY <1>1, <1>2, <3>1
    <3> QED
      BY <1>5, <3>2
  <2> QED
    BY <1>4, <1>11, <2>2, <2>4, <2>5
<1> QED
  BY <1>10, <1>11

\* The job and its phase, read from the flag.
JobFound ==
    IInv => /\ Pending(Flag) =>
                  /\ Flag.ver \in Versions /\ Job = Pkg[Flag.ver]
                  /\ Job \in (SUBSET Comps) \ {{}}
            /\ ~Pending(Flag) => Job = {}
            /\ Flag.state = "PENDING" => Phase = "asked"
            /\ Flag.state = "RUNNING" => Phase = "running"
            /\ Flag.state = "FAILED" => Phase = "failed"
            /\ Flag.state = "IDLE" => Phase = "done"
            /\ Flag = Torn => Phase = "none"
            /\ Phase = "running" => Flag.state = "RUNNING"

\* The job is that of the flag, and its phase that of the state.
LEMMA JobTyped == JobFound
<1> SUFFICES ASSUME IInv
             PROVE  /\ Pending(Flag) =>
                          /\ Flag.ver \in Versions /\ Job = Pkg[Flag.ver]
                          /\ Job \in (SUBSET Comps) \ {{}}
                    /\ ~Pending(Flag) => Job = {}
                    /\ Flag.state = "PENDING" => Phase = "asked"
                    /\ Flag.state = "RUNNING" => Phase = "running"
                    /\ Flag.state = "FAILED" => Phase = "failed"
                    /\ Flag.state = "IDLE" => Phase = "done"
                    /\ Flag = Torn => Phase = "none"
                    /\ Phase = "running" => Flag.state = "RUNNING"
  BY DEF JobFound
<1>1. Flag \in Flags \union {Torn}
  BY FlagTyped DEF IInv, TypeOK, CopiesOK
<1>2. Pending(Flag) => Flag.ver \in Versions
  BY <1>1, TornTyped
<1>3. ~Pending(Flag) => Job = {}
  BY DEF Job
<1>4. Pending(Flag) => Job = Pkg[Flag.ver] /\ Job \in (SUBSET Comps) \ {{}}
  BY <1>2, CompsAssumption DEF Job
<1>5. /\ Flag.state = "PENDING" => Phase = "asked"
      /\ Flag.state = "RUNNING" => Phase = "running"
      /\ Flag.state = "FAILED" => Phase = "failed"
      /\ Flag.state = "IDLE" => Phase = "done"
      /\ Flag.state = "TORN" => Phase = "none"
  BY DEF Phase
<1>6. Flag.state \in {"PENDING", "RUNNING", "FAILED", "IDLE", "TORN"}
  BY <1>1, TornTyped
<1>7. Phase = "running" => Flag.state = "RUNNING"
  BY <1>5, <1>6
<1> QED
  BY <1>2, <1>3, <1>4, <1>5, <1>7, TornTyped

\* The same after a step.
LEMMA JobTypedNext == JobFound'
  BY JobTyped, PTL

\* A step that leaves the copies alone leaves the job alone.
LEMMA SameJob ==
    ASSUME copies' = copies, bad' = bad
    PROVE  Job' = Job /\ Phase' = Phase
  BY SameCopies DEF Job, Phase, Pending

\* A blank flash is an upgrade nobody asked for.
LEMMA InitRefines == Init => Abstract!Init
<1> SUFFICES ASSUME Init
             PROVE  Abstract!Init
  OBVIOUS
<1>1. IInv
  BY InitInv
<1>2. Readable = {}
  BY TornTyped DEF Init, Readable
<1>3. Flag = Torn
  BY <1>1, <1>2, FlagTyped DEF IInv, TypeOK, CopiesOK
<1>4. Job = {} /\ Phase = "none"
  BY <1>1, <1>3, TornTyped, JobTyped DEF JobFound
<1> QED
  BY <1>4 DEF Init, Abstract!Init

\* The write of one copy of the flag by ota_prepare is a request, or nothing.
LEMMA LinuxCopyRefines ==
    ASSUME IInv, IInv', NEW i \in Copies, CopyStep(i), back = "linux"
    PROVE  Abstract!Request \/ UNCHANGED <<part, Job, Phase>>
<1>1. Pass /\ Pass' /\ UNCHANGED <<part, vol, ram, back>>
  BY CopyStepFacts DEF IInv
<1>2. CASE Pending(Flag)'
  <2>1. Flag'.state = "PENDING"
    BY <1>1, <1>2, PassFlagNext DEF PassFound
  <2>2. Job' \in (SUBSET Comps) \ {{}} /\ Phase' = "asked"
    BY <1>2, <2>1, JobTypedNext DEF JobFound
  <2>3. Flag.state # "RUNNING"
    BY <1>1, PassFlag DEF PassFound, Pending
  <2>4. Phase # "running"
    BY <2>3, JobTyped DEF JobFound
  <2> QED
    BY <1>1, <2>2, <2>4 DEF Abstract!Request
<1>3. CASE ~Pending(Flag)'
  <2>1. ~Pending(Flag) /\ Flag'.state = Flag.state
    BY <1>3, LinuxStepFlag
  <2> QED
    BY <1>1, <1>3, <2>1 DEF Job, Phase
<1> QED
  BY <1>2, <1>3

\* The write of one copy by U-Boot's first pass begins the job, once no copy
\* is PENDING any more.
LEMMA StartCopyRefines ==
    ASSUME IInv, IInv', NEW i \in Copies, CopyStep(i), back = "load"
    PROVE  \/ Abstract!Request \/ Abstract!Begin
           \/ UNCHANGED <<part, Job, Phase>>
<1>1. Pass /\ Pass' /\ UNCHANGED <<part, vol, ram, back>> /\ Old' \subseteq Old
  BY CopyStepFacts DEF IInv
<1>2. IF Old = {} THEN Flag = ram ELSE Flag.state = "PENDING" /\ Flag.ver = ram.ver
  BY <1>1, PassFlag DEF PassFound
<1>3. IF Old' = {} THEN Flag' = ram' ELSE Flag'.state = "PENDING" /\ Flag'.ver = ram'.ver
  BY <1>1, PassFlagNext DEF PassFound
<1>4. ram.state = "RUNNING"
  BY <1>1 DEF IInv, IStartPass
<1>5. CASE Old = {}
  <2>1. Flag' = Flag
    BY <1>1, <1>2, <1>3, <1>5
  <2> QED
    BY <1>1, <2>1 DEF Job, Phase, Pending
<1>6. CASE Old # {}
  <2>1. Phase = "asked" /\ Pending(Flag) /\ Job = Pkg[ram.ver]
    BY <1>2, <1>6, JobTyped DEF JobFound, Pending
  <2>2. CASE Old' = {}
    <3>1. Flag'.state = "RUNNING" /\ Flag'.ver = ram.ver
      BY <1>1, <1>3, <1>4, <2>2
    <3>2. Phase' = "running" /\ Job' = Pkg[ram.ver]
      BY <3>1, JobTypedNext DEF JobFound, Pending
    <3> QED
      BY <1>1, <2>1, <3>2 DEF Abstract!Begin
  <2>3. CASE Old' # {}
    <3>1. Flag'.state = "PENDING" /\ Flag'.ver = ram.ver
      BY <1>1, <1>3, <2>3
    <3>2. Phase' = "asked" /\ Job' = Pkg[ram.ver]
      BY <3>1, JobTypedNext DEF JobFound, Pending
    <3> QED
      BY <1>1, <2>1, <3>2
  <2> QED
    BY <2>2, <2>3
<1> QED
  BY <1>5, <1>6

\* The write of one copy by another pass of U-Boot ends the job or leaves it.
LEMMA WorkCopyRefines ==
    ASSUME IInv, IInv', NEW i \in Copies, CopyStep(i), back \in {"flash", "verify", "reset"}
    PROVE  \/ Abstract!Finish \/ Abstract!GiveUp
           \/ UNCHANGED <<part, Job, Phase>>
<1>1. /\ Pass /\ Pass' /\ UNCHANGED <<part, vol, ram, back>> /\ Old' = Old \ {i}
      /\ Over \subseteq Over' /\ \A j \in Copies \ {i} : copies'[j] = copies[j]
  BY CopyStepFacts DEF IInv
<1>2. /\ \/ Flag.state = "RUNNING" /\ Flag.ver = ram.ver
         \/ Flag = ram /\ ram.state \in {"FAILED", "IDLE"}
      /\ ram.state = "IDLE" => (Flag = ram <=> Old = {})
      /\ ram.state = "FAILED" => (Flag = ram <=> Replaced)
  BY <1>1, PassFlag DEF PassFound
<1>3. /\ \/ Flag'.state = "RUNNING" /\ Flag'.ver = ram.ver
         \/ Flag' = ram /\ ram.state \in {"FAILED", "IDLE"}
      /\ ram.state = "IDLE" => (Flag' = ram <=> Old' = {})
      /\ ram.state = "FAILED" => (Flag' = ram <=> Replaced')
  BY <1>1, PassFlagNext DEF PassFound
<1>4. Replaced => Replaced'
  BY <1>1 DEF Replaced, Pending, Old, Readable
<1>5. Flag = ram => Flag' = ram \/ Flag.state = "RUNNING"
  BY <1>1, <1>2, <1>3, <1>4
<1>6. CASE Flag = ram /\ Flag.state # "RUNNING"
  BY <1>1, <1>5, <1>6 DEF Job, Phase, Pending
<1>7. CASE Flag.state = "RUNNING"
  <2>1. Phase = "running" /\ Pending(Flag) /\ Flag.ver = ram.ver
        /\ Job = Pkg[ram.ver] /\ Job # {}
    BY <1>2, <1>7, JobTyped DEF JobFound, Pending
  <2>2. CASE Flag'.state = "RUNNING"
    <3>1. Flag'.ver = ram.ver
      BY <1>3, <2>2
    <3>2. Phase' = "running" /\ Job' = Pkg[ram.ver]
      BY <2>2, <3>1, JobTypedNext DEF JobFound, Pending
    <3> QED
      BY <1>1, <2>1, <3>2
  <2>3. CASE Flag' = ram /\ ram.state = "FAILED"
    <3>1. Phase' = "failed" /\ Job' = {}
      BY <2>3, JobTypedNext DEF JobFound, Pending
    <3> QED
      BY <1>1, <2>1, <3>1 DEF Abstract!GiveUp
  <2>4. CASE Flag' = ram /\ ram.state = "IDLE"
    <3>1. Phase' = "done" /\ Job' = {}
      BY <2>4, JobTypedNext DEF JobFound, Pending
    <3>2. back = "verify"
      BY <1>1, <2>4 DEF IInv, IWorkPass, PassStates
    <3>3. Flashed(Pkg[ram.ver])
      BY <1>1, <3>2 DEF IInv, IWorkPass
    <3>4. \A c, d \in Job : part[c] = part[d] /\ part[c] # Half
      BY <2>1, <3>3 DEF Flashed, Half, Damaged
    <3> QED
      BY <1>1, <2>1, <3>1, <3>4 DEF Abstract!Finish
  <2> QED
    BY <1>3, <2>2, <2>3, <2>4
<1> QED
  BY <1>2, <1>6, <1>7

\* The erase or the write of a component is the installation of a component
\* of the running job.
LEMMA ComponentRefines ==
    ASSUME IInv, NEW c \in Comps, EraseComponent(c) \/ WriteComponent(c)
    PROVE  Abstract!Install(c)
<1>1. /\ Working /\ c \in Left /\ copies' = copies /\ bad' = bad
      /\ part' \in {[part EXCEPT ![c] = Half], [part EXCEPT ![c] = vol]}
  BY DEF EraseComponent, WriteComponent, Turns, Working
<1>2. ram = Flag /\ Flag.state = "RUNNING" /\ Pending(Flag)
  BY <1>1, RamTyped DEF Pending
<1>3. c \in Job /\ Phase = "running"
  BY <1>1, <1>2, JobTyped DEF Left, JobFound
<1>4. Job' = Job /\ Phase' = Phase
  BY <1>1, SameJob
<1>5. part' = [part EXCEPT ![c] = part'[c]]
  BY <1>1 DEF IInv, TypeOK
<1> QED
  BY <1>3, <1>4, <1>5 DEF Abstract!Install

\* Every step is a step of the abstract upgrade, or changes nothing of it.
LEMMA NextRefines == IInv /\ IInv' /\ [Next]_vars => [Abstract!Next]_(Abstract!vars)
<1> SUFFICES ASSUME IInv, IInv', [Next]_vars
             PROVE  [Abstract!Next]_(Abstract!vars)
  OBVIOUS
<1>1. CASE copies' = copies /\ bad' = bad /\ part' = part
  BY <1>1, SameJob DEF Abstract!vars
<1>2. ASSUME NEW i \in Copies, CopyStep(i)
      PROVE  [Abstract!Next]_(Abstract!vars)
  <2>1. back \in Backs
    BY DEF IInv, TypeOK
  <2> QED
    BY <1>2, <2>1, LinuxCopyRefines, StartCopyRefines, WorkCopyRefines
       DEF Backs, Abstract!Next, Abstract!vars
<1>3. ASSUME NEW c \in Comps, EraseComponent(c) \/ WriteComponent(c)
      PROVE  [Abstract!Next]_(Abstract!vars)
  BY <1>3, ComponentRefines DEF Abstract!Next
<1>4. CASE Linux \/ PowerFails \/ PowerOn \/ AllTried \/ UNCHANGED vars
  <2>1. copies' = copies /\ bad' = bad /\ part' = part
    BY <1>4 DEF Linux, VolumeWritten, VolumeFails, Reboot, PrepareVolume, PowerFails, PowerOn,
                AllTried, vars, flash
  <2> QED
    BY <1>1, <2>1
<1>5. CASE \/ Otfl \/ NormalBoot \/ StartUpgrade \/ ResumeUpgrade \/ LoadPackage \/ LoadFails
           \/ RejectPackage \/ ComponentFails \/ ClearFlag \/ VerifyCleared \/ Retry
  <2>1. copies' = copies /\ bad' = bad /\ part' = part
    BY <1>5 DEF Otfl, NormalBoot, StartUpgrade, ResumeUpgrade, LoadPackage, LoadFails,
                RejectPackage, ComponentFails, ClearFlag, VerifyCleared, Retry, flash
  <2> QED
    BY <1>1, <2>1
<1> QED
  BY <1>2, <1>3, <1>4, <1>5 DEF Next, Boot, WriteFlag, CopyStep

\* The flag in N copies, written one at a time through faults and power
\* failures, is the one variable AtomicUpgrade says it is.
THEOREM OtaRefines == Spec => UpgradeIsAtomic
<1>1. IInv /\ IInv' /\ [Next]_vars => [Abstract!Next]_(Abstract!vars)
  BY NextRefines
<1> QED
  BY <1>1, InitRefines, OtaInvariant, PTL DEF Spec, UpgradeIsAtomic, Abstract!Spec
=============================================================================
